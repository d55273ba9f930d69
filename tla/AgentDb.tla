------------------------------ MODULE AgentDb ------------------------------
(***************************************************************************)
(* The VM's database: the loops of agent/df/df_agent_db.py over one of two  *)
(* drivers.  df_bsd_db.py keeps a Berkeley DB file per table, writes to a   *)
(* cache and syncs at the end of an operation; df_tiny_db.py keeps lists of *)
(* documents in one file that every call rewrites.  The agent can be killed *)
(* at any moment and reads the files again when it is back.                 *)
(***************************************************************************)
EXTENDS Naturals, Sequences

CONSTANTS Entries, Vals, NoVal, MaxKeys, Tables,
          TableOf    \* the table of an entry

ASSUME DbAssumption ==
  /\ TableOf \in [Entries -> Tables]
  /\ NoVal \notin Vals
  /\ MaxKeys \in Nat \ {0}

VARIABLES driver,   \* "bsd" or "tiny": the driver the VM is configured with
          mem,      \* mem[e]: the documents the agent sees under a key
          disk,     \* disk[e]: those the files hold
          op,       \* the message being processed
          at,       \* how far: "idle", "clear" or "entries"
          pos,      \* the next entry of the message
          answer,   \* the last answer
          before    \* what the database was when the operation began

vars == <<driver, mem, disk, op, at, pos, answer, before>>

(* get_key: the first document under the key.                               *)
View(docs) == [e \in Entries |-> IF docs[e] = <<>> THEN NoVal ELSE Head(docs[e])]

Docs == [Entries -> UNION {[1..n -> Vals] : n \in 0..MaxKeys}]

NoDocs == [e \in Entries |-> <<>>]

Loose ==
  [e \in Entries |-> IF mem[e] = <<>> THEN View(disk)[e] ELSE NoVal]

S == INSTANCE AgentStore WITH
       store <- IF at = "idle" THEN View(mem) ELSE before.store,
       loose <- IF at = "idle" THEN Loose ELSE before.loose

Maybe == [Entries -> Vals \cup {NoVal}]

(* A key has at most as many documents as one message lists it.             *)
TypeOK ==
  /\ driver \in {"bsd", "tiny"}
  /\ mem \in Docs
  /\ disk \in Docs
  /\ op \in S!Writes \cup S!Deletes \cup {S!NoOp}
  /\ at \in {"idle", "clear", "entries"}
  /\ pos \in 1..(MaxKeys + 1)
  /\ answer \in {"none", "true", "false"}
  /\ before \in [store : Maybe, loose : Maybe]

NoBefore == [store |-> S!Nothing, loose |-> S!Nothing]

Init ==
  /\ driver \in {"bsd", "tiny"}
  /\ mem = NoDocs
  /\ disk = NoDocs
  /\ op = S!NoOp
  /\ at = "idle"
  /\ pos = 1
  /\ answer = "none"
  /\ before = NoBefore
-----------------------------------------------------------------------------
(* The receiver hands a message to apply, update or delete; an apply begins *)
(* with clear_all.                                                          *)
Request ==
  /\ at = "idle"
  /\ op' \in S!Writes \cup S!Deletes
  /\ at' = IF op'.kind = "apply" THEN "clear" ELSE "entries"
  /\ answer' = "none"
  /\ before' = [store |-> View(mem), loose |-> Loose]
  /\ UNCHANGED <<driver, mem, disk, pos>>

Return(a) ==
  /\ at' = "idle"
  /\ op' = S!NoOp
  /\ pos' = 1
  /\ answer' = a
  /\ before' = NoBefore

Removed(docs, t) == [e \in Entries |-> IF TableOf[e] = t THEN <<>> ELSE docs[e]]

(* delete_table: the handle is closed and the file removed, in the order    *)
(* os.listdir gives them.                                                   *)
DeleteTable(t) ==
  /\ at = "clear"
  /\ driver = "bsd"
  /\ \E e \in Entries : TableOf[e] = t /\ (mem[e] # <<>> \/ disk[e] # <<>>)
  /\ mem' = Removed(mem, t)
  /\ disk' = Removed(disk, t)
  /\ UNCHANGED <<driver, op, at, pos, answer, before>>

(* Mutant of PurgeTables: the documents are kept.                           *)
PurgeTablesNot ==
  /\ at = "clear"
  /\ driver = "tiny"
  /\ at' = "entries"
  /\ UNCHANGED <<driver, mem, disk, op, pos, answer, before>>

(* TinyDB's purge_tables.                                                   *)
PurgeTables ==
  /\ at = "clear"
  /\ driver = "tiny"
  /\ mem' = NoDocs
  /\ disk' = NoDocs
  /\ at' = "entries"
  /\ UNCHANGED <<driver, op, pos, answer, before>>

(* No file is left.                                                         *)
Cleared ==
  /\ at = "clear"
  /\ driver = "bsd"
  /\ mem = NoDocs /\ disk = NoDocs
  /\ at' = "entries"
  /\ UNCHANGED <<driver, mem, disk, op, pos, answer, before>>

(* The next entry of the message, while there is one.                       *)
Entry(kind) == at = "entries" /\ op.kind = kind /\ pos <= Len(op.keys)

Key == op.keys[pos]

Value == op.value[Key]

(* The driver changes what is under a key: TinyDB writes its file at once,  *)
(* Berkeley DB its cache.                                                   *)
Put(docs) ==
  /\ mem' = [mem EXCEPT ![Key] = docs]
  /\ disk' = IF driver = "tiny" THEN [disk EXCEPT ![Key] = docs] ELSE disk
  /\ pos' = pos + 1
  /\ UNCHANGED <<driver, op, at, answer, before>>

(* BSD puts the value, TinyDB inserts a document, also if there is one.     *)
CreateKey ==
  /\ Entry("apply")
  /\ Put(IF driver = "tiny" THEN Append(mem[Key], Value) ELSE <<Value>>)

(* Mutant of SetKey: TinyDB changes the first document only.                *)
SetKeyFirst ==
  /\ Entry("update")
  /\ Put(IF mem[Key] = <<>> THEN <<Value>> ELSE [mem[Key] EXCEPT ![1] = Value])

(* TinyDB changes every document under the key, or inserts one.             *)
SetKey ==
  /\ Entry("update")
  /\ Put(IF mem[Key] = <<>> THEN <<Value>>
                            ELSE [i \in DOMAIN mem[Key] |-> Value])

(* A key that is there, or any key for TinyDB.                              *)
DeleteKey ==
  /\ Entry("delete")
  /\ driver = "tiny" \/ mem[Key] # <<>>
  /\ Put(<<>>)

(* Berkeley DB raises: the loop is left, sync() is not reached.             *)
DeleteKeyFails ==
  /\ Entry("delete")
  /\ driver = "bsd" /\ mem[Key] = <<>>
  /\ Return("false")
  /\ UNCHANGED <<driver, mem, disk>>

Finished == at = "entries" /\ pos > Len(op.keys)

(* Mutant of Sync: the answer is given before the cache is written.         *)
SyncNot ==
  /\ Finished
  /\ Return("true")
  /\ UNCHANGED <<driver, mem, disk>>

(* sync() writes all open tables; TinyDB has nothing left to write.         *)
Sync ==
  /\ Finished
  /\ disk' = mem
  /\ Return("true")
  /\ UNCHANGED <<driver, mem>>

(* Berkeley DB writes a page of its cache on its own.                       *)
Flush(e) ==
  /\ driver = "bsd"
  /\ mem[e] # disk[e]
  /\ disk' = [disk EXCEPT ![e] = mem[e]]
  /\ UNCHANGED <<driver, mem, op, at, pos, answer, before>>

(* The agent dies, starts again and opens the files it finds.               *)
Crash ==
  /\ mem' = disk
  /\ Return("none")
  /\ UNCHANGED <<driver, disk>>

Next ==
  \/ Request
  \/ (\E t \in Tables : DeleteTable(t)) \/ PurgeTables \/ Cleared
  \/ CreateKey \/ SetKey \/ DeleteKey \/ DeleteKeyFails \/ Sync
  \/ (\E e \in Entries : Flush(e)) \/ Crash

Spec == Init /\ [][Next]_vars
-----------------------------------------------------------------------------
(* Both drivers keep the promises of AgentStore: nothing answered True is   *)
(* lost by a crash, however late it comes and although Berkeley DB writes   *)
(* its cache when it likes; a crash inside an operation leaves a part of    *)
(* this operation only, and inside an apply never old entries beside new.   *)
RefinesStore == S!Spec

(* The documents under one key agree, so that get_key, which takes the      *)
(* first, and get_all_entries, which takes all, tell the controller the     *)
(* same, although TinyDB inserts a chassis once per port.                   *)
CopiesAgree ==
  \A e \in Entries : \A i, j \in DOMAIN mem[e] : mem[e][i] = mem[e][j]
=============================================================================
