--------------------------- MODULE AgentDbProofs ---------------------------
(* Proofs about the VM's database, for any tables, entries and values and   *)
(* messages of any length.                                                  *)
EXTENDS AgentDb, TLAPS

Doc == UNION {[1..n -> Vals] : n \in 0..MaxKeys}

Same(d) == \A i, j \in DOMAIN d : d[i] = d[j]

(* What get_key makes of the documents under a key.                         *)
First(d) == IF d = <<>> THEN NoVal ELSE Head(d)

(* The entries the loop has come past.                                      *)
Processed(e) == \E i \in 1..(pos - 1) : op.keys[i] = e

(* An entry before the loop comes to it, and when the operation is over.    *)
Old(e) == IF op.kind = "apply" THEN NoVal ELSE before.store[e]

New(e) ==
  IF e \notin S!Listed(op.keys) THEN Old(e)
  ELSE IF op.kind = "delete" THEN NoVal ELSE op.value[e]

(* What a restart makes of an entry the operation has not touched.          *)
Kept(e) ==
  IF before.store[e] = NoVal THEN {NoVal, before.loose[e]} ELSE {before.store[e]}

(* TinyDB has no cache.                                                     *)
TinyInv == driver = "tiny" => mem = disk

SameInv == \A e \in Entries : Same(mem[e]) /\ Same(disk[e])

PhaseInv ==
  /\ at = "idle" => op = S!NoOp /\ pos = 1
  /\ at # "idle" => op \in S!Writes \cup S!Deletes
  /\ at = "clear" => op.kind = "apply" /\ pos = 1
  /\ at = "entries" => pos <= Len(op.keys) + 1

(* Removed entries aside, the files are what the agent sees: between        *)
(* operations, and as long as an operation only deletes.                    *)
LooseInv ==
  at = "idle" \/ (at = "entries" /\ op.kind = "delete") =>
    \A e \in Entries : mem[e] = disk[e] \/ mem[e] = <<>>

(* clear_all only removes.                                                  *)
ClearInv ==
  at = "clear" => \A e \in Entries :
    /\ First(mem[e]) \in {NoVal, before.store[e]}
    /\ First(disk[e]) \in Kept(e) \cup {NoVal}

(* In the loop the agent sees the new value of the entries that were        *)
(* processed and the old one of the others; a file holds either.            *)
LoopInv ==
  at = "entries" => \A e \in Entries :
    /\ First(mem[e]) = IF Processed(e) THEN New(e) ELSE Old(e)
    /\ First(disk[e]) \in (IF op.kind = "apply" THEN {NoVal} ELSE Kept(e)) \cup {New(e)}
    /\ op.kind = "apply" => Len(mem[e]) < pos

DbInv ==
  /\ TypeOK /\ TinyInv /\ SameInv /\ PhaseInv /\ LooseInv /\ ClearInv /\ LoopInv
-----------------------------------------------------------------------------
(* Documents.                                                               *)

LEMMA DocIsSeq ==
  ASSUME NEW d \in Doc
  PROVE  d \in Seq(Vals) /\ Len(d) \in Nat /\ Len(d) <= MaxKeys
  <1>1. PICK n \in 0..MaxKeys : d \in [1..n -> Vals]
    BY DEF Doc
  <1> QED  BY <1>1, DbAssumption

LEMMA SeqIsDoc ==
  ASSUME NEW d \in Seq(Vals), Len(d) <= MaxKeys
  PROVE  d \in Doc
  <1>1. Len(d) \in 0..MaxKeys /\ d \in [1..Len(d) -> Vals]
    BY DbAssumption
  <1> QED  BY <1>1 DEF Doc

LEMMA FirstFacts ==
  ASSUME NEW d \in Doc
  PROVE  /\ First(d) \in Vals \cup {NoVal}
         /\ First(d) = NoVal <=> d = <<>>
         /\ d # <<>> => First(d) = d[1] /\ 1 \in DOMAIN d
  <1>1. d \in Seq(Vals)
    BY DocIsSeq
  <1>2. CASE d = <<>>
    BY <1>2 DEF First
  <1>3. CASE d # <<>>
    <2>1. Head(d) = d[1] /\ d[1] \in Vals /\ 1 \in DOMAIN d
      BY <1>1, <1>3
    <2> QED  BY <1>3, <2>1, DbAssumption DEF First
  <1> QED  BY <1>2, <1>3

LEMMA EmptyDoc == <<>> \in Doc /\ Same(<<>>) /\ First(<<>>) = NoVal /\ Len(<<>>) = 0
  <1>1. <<>> \in Seq(Vals) /\ Len(<<>>) = 0
    OBVIOUS
  <1>2. <<>> \in Doc
    <2>1. 0 <= MaxKeys
      BY DbAssumption
    <2> QED  BY <1>1, <2>1, SeqIsDoc
  <1> QED  BY <1>1, <1>2 DEF Same, First

LEMMA SingleDoc ==
  ASSUME NEW x \in Vals
  PROVE  /\ <<x>> \in Doc /\ Same(<<x>>) /\ First(<<x>>) = x /\ Len(<<x>>) = 1
  <1>1. <<x>> \in Seq(Vals) /\ Len(<<x>>) = 1 /\ Head(<<x>>) = x /\ <<x>> # <<>>
    OBVIOUS
  <1>2. <<x>> \in Doc
    <2>1. 1 <= MaxKeys
      BY DbAssumption
    <2> QED  BY <1>1, <2>1, SeqIsDoc
  <1> QED  BY <1>1, <1>2 DEF Same, First

(* One more document, like the ones there are.                              *)
LEMMA AppendDoc ==
  ASSUME NEW d \in Doc, NEW x \in Vals, Same(d), Len(d) < MaxKeys,
         d = <<>> \/ First(d) = x
  PROVE  /\ Append(d, x) \in Doc /\ Same(Append(d, x)) /\ First(Append(d, x)) = x
         /\ Len(Append(d, x)) = Len(d) + 1
  <1>1. d \in Seq(Vals) /\ Len(d) \in Nat
    BY DocIsSeq
  <1>2. Append(d, x) \in Seq(Vals) /\ Len(Append(d, x)) = Len(d) + 1
    BY <1>1
  <1>3. Append(d, x) \in Doc
    <2>1. Len(Append(d, x)) <= MaxKeys
      BY <1>1, <1>2, DbAssumption
    <2> QED  BY <1>2, <2>1, SeqIsDoc
  <1>4. \A i \in 1..Len(d) : d[i] = x
    BY <1>1, FirstFacts, EmptyDoc DEF Same
  <1>5. \A i \in 1..(Len(d) + 1) : Append(d, x)[i] = x
    BY <1>1, <1>4
  <1>6. DOMAIN Append(d, x) = 1..(Len(d) + 1)
    BY <1>1, <1>2
  <1>7. First(Append(d, x)) = x
    <2> DEFINE f == Append(d, x)
    <2>1. f \in Doc /\ Len(f) # 0 /\ f[1] = x
      BY <1>1, <1>2, <1>3, <1>5
    <2> HIDE DEF f
    <2>2. f # <<>>
      BY <2>1, EmptyDoc
    <2>3. First(f) = x
      BY <2>1, <2>2, FirstFacts
    <2> QED  BY <2>3 DEF f
  <1> QED  BY <1>2, <1>3, <1>5, <1>6, <1>7 DEF Same

(* Every document changed to x.                                             *)
LEMMA OverwriteDoc ==
  ASSUME NEW d \in Doc, NEW x \in Vals, d # <<>>
  PROVE  LET f == [i \in DOMAIN d |-> x]
         IN  f \in Doc /\ Same(f) /\ First(f) = x
  <1> DEFINE f == [i \in DOMAIN d |-> x]
  <1>1. d \in Seq(Vals) /\ Len(d) <= MaxKeys /\ Len(d) \in Nat
    BY DocIsSeq
  <1>2. DOMAIN d = 1..Len(d) /\ 1 \in DOMAIN d
    BY <1>1, FirstFacts
  <1>3. f \in [1..Len(d) -> Vals]
    BY <1>2
  <1>4. Len(d) \in 0..MaxKeys
    BY <1>1, DbAssumption
  <1>5. f \in Doc
    BY <1>3, <1>4 DEF Doc
  <1>6. f # <<>>
    BY <1>2
  <1>7. First(f) = x
    BY <1>2, <1>5, <1>6, FirstFacts
  <1>8. Same(f)
    BY DEF Same
  <1> QED  BY <1>5, <1>7, <1>8
-----------------------------------------------------------------------------
(* Messages.                                                                *)

LEMMA KeysFacts ==
  ASSUME NEW k \in S!Keys
  PROVE  /\ Len(k) \in 1..MaxKeys /\ DOMAIN k = 1..Len(k)
         /\ \A i \in 1..Len(k) : k[i] \in Entries
  <1>1. PICK n \in 1..MaxKeys : k \in [1..n -> Entries]
    BY DEF S!Keys
  <1> QED  BY <1>1, DbAssumption

LEMMA WriteFacts ==
  ASSUME NEW m \in S!Writes
  PROVE  /\ m.kind \in {"apply", "update"} /\ m.keys \in S!Keys
         /\ m.value \in [S!Listed(m.keys) -> Vals]
         /\ m # S!NoOp
  <1>1. PICK k \in S!Keys :
          m \in [kind : {"apply", "update"}, keys : {k}, value : [S!Listed(k) -> Vals]]
    BY DEF S!Writes
  <1>2. S!NoOp.kind = "none"
    BY DEF S!NoOp
  <1> QED  BY <1>1, <1>2

LEMMA DeleteFacts ==
  ASSUME NEW m \in S!Deletes
  PROVE  m.kind = "delete" /\ m.keys \in S!Keys /\ m # S!NoOp
  <1>1. S!NoOp.kind = "none"
    BY DEF S!NoOp
  <1> QED  BY <1>1 DEF S!Deletes

LEMMA NoOpFacts ==
  S!NoOp.kind = "none" /\ S!NoOp \notin S!Writes \cup S!Deletes
  <1>1. S!NoOp.kind = "none"
    BY DEF S!NoOp
  <1> QED  BY <1>1, WriteFacts, DeleteFacts

(* A message being processed, and the entry its loop is at.                 *)
LEMMA OpFacts ==
  ASSUME DbInv, at # "idle"
  PROVE  /\ op.kind \in {"apply", "update", "delete"}
         /\ op.keys \in S!Keys /\ Len(op.keys) \in 1..MaxKeys
         /\ \A i \in 1..Len(op.keys) : op.keys[i] \in Entries
         /\ DOMAIN op.keys = 1..Len(op.keys)
         /\ op.kind # "delete" => op.value \in [S!Listed(op.keys) -> Vals]
  <1>1. op \in S!Writes \cup S!Deletes
    BY DEF DbInv, PhaseInv
  <1>2. CASE op \in S!Writes
    BY <1>2, WriteFacts, KeysFacts
  <1>3. CASE op \in S!Deletes
    BY <1>3, DeleteFacts, KeysFacts
  <1> QED  BY <1>1, <1>2, <1>3

LEMMA TypeFacts ==
  ASSUME TypeOK
  PROVE  /\ mem \in [Entries -> Doc] /\ disk \in [Entries -> Doc]
         /\ pos \in 1..(MaxKeys + 1) /\ pos \in Nat
         /\ \A e \in Entries : before.store[e] \in Vals \cup {NoVal}
                               /\ before.loose[e] \in Vals \cup {NoVal}
  BY DbAssumption DEF TypeOK, Docs, Doc, Maybe

LEMMA ViewFacts ==
  ASSUME NEW d
  PROVE  \A e \in Entries : View(d)[e] = First(d[e])
  BY DEF View, First

LEMMA ViewType ==
  ASSUME NEW d \in [Entries -> Doc]
  PROVE  View(d) \in Maybe
  <1>1. \A e \in Entries : First(d[e]) \in Vals \cup {NoVal}
    BY FirstFacts
  <1>2. View(d) = [e \in Entries |-> First(d[e])]
    BY DEF View, First
  <1> QED  BY <1>1, <1>2 DEF Maybe

LEMMA LooseType ==
  ASSUME TypeOK
  PROVE  Loose \in Maybe
  <1>1. View(disk) \in Maybe
    BY TypeFacts, ViewType
  <1> QED  BY <1>1 DEF Loose, Maybe

LEMMA NothingFacts ==
  /\ S!Nothing \in Maybe /\ NoBefore \in [store : Maybe, loose : Maybe]
  /\ \A e \in Entries : S!Nothing[e] = NoVal
  BY DEF S!Nothing, Maybe, NoBefore

LEMMA InitInv == Init => DbInv
  <1> SUFFICES ASSUME Init PROVE DbInv
    OBVIOUS
  <1> USE DEF Init
  <1>1. \A e \in Entries : mem[e] = <<>> /\ disk[e] = <<>>
    BY DEF NoDocs
  <1>2. TypeOK
    <2>1. NoDocs \in Docs
      BY EmptyDoc DEF NoDocs, Docs, Doc
    <2>2. 1 \in 1..(MaxKeys + 1)
      BY DbAssumption
    <2> QED  BY <2>1, <2>2, NothingFacts DEF TypeOK
  <1>3. SameInv
    BY <1>1, EmptyDoc DEF SameInv
  <1> QED  BY <1>1, <1>2, <1>3 DEF DbInv, TinyInv, PhaseInv, LooseInv, ClearInv, LoopInv
-----------------------------------------------------------------------------
(* The steps, one by one.                                                   *)

LEMMA RequestStep ==
  ASSUME DbInv, Request
  PROVE  DbInv'
  <1> USE DEF Request
  <1>1. /\ op' \in S!Writes \cup S!Deletes /\ at' \in {"clear", "entries"}
        /\ at' = "clear" <=> op'.kind = "apply"
        /\ pos = 1 /\ UNCHANGED <<driver, mem, disk, pos>> /\ at = "idle"
        /\ \A e \in Entries : mem[e] = disk[e] \/ mem[e] = <<>>
    BY DEF DbInv, PhaseInv, LooseInv
  <1>2. op'.kind \in {"apply", "update", "delete"} /\ Len(op'.keys) \in Nat
    BY <1>1, WriteFacts, DeleteFacts, KeysFacts, DbAssumption
  <1>3. before' \in [store : Maybe, loose : Maybe]
    BY TypeFacts, ViewType, LooseType DEF DbInv
  <1>4. TypeOK'
    BY <1>1, <1>3 DEF DbInv, TypeOK
  <1>5. TinyInv' /\ SameInv'
    BY <1>1 DEF DbInv, TinyInv, SameInv
  <1>6. PhaseInv'
    BY <1>1, <1>2 DEF PhaseInv
  <1>7. \A e \in Entries : before'.store[e] = First(mem[e]) /\ First(disk[e]) \in Kept(e)'
    <2> SUFFICES ASSUME NEW e \in Entries
                 PROVE  before'.store[e] = First(mem[e]) /\ First(disk[e]) \in Kept(e)'
      OBVIOUS
    <2>1. /\ before'.store[e] = First(mem[e])
          /\ before'.loose[e] = IF mem[e] = <<>> THEN First(disk[e]) ELSE NoVal
      BY ViewFacts DEF Loose
    <2>2. First(mem[e]) = NoVal <=> mem[e] = <<>>
      BY FirstFacts, TypeFacts DEF DbInv
    <2> QED  BY <1>1, <2>1, <2>2 DEF Kept
  <1>8. LooseInv' /\ ClearInv'
    BY <1>1, <1>7 DEF LooseInv, ClearInv
  <1>9. LoopInv'
    <2> SUFFICES ASSUME at' = "entries", NEW e \in Entries
                 PROVE  /\ First(mem[e]) = Old(e)' /\ ~Processed(e)'
                        /\ First(disk[e]) \in Kept(e)' /\ op'.kind # "apply"
      BY <1>1 DEF LoopInv
    <2>1. op'.kind # "apply"
      BY <1>1
    <2>2. ~Processed(e)'
      BY <1>1 DEF Processed
    <2> QED  BY <1>7, <2>1, <2>2 DEF Old
  <1> QED  BY <1>4, <1>5, <1>6, <1>8, <1>9 DEF DbInv

(* The end of an operation, whatever its answer.                            *)
LEMMA ReturnStep ==
  ASSUME DbInv, NEW a \in {"none", "true", "false"}, Return(a),
         driver' = driver, mem' \in [Entries -> Doc], disk' \in [Entries -> Doc],
         \A e \in Entries : Same(mem'[e]) /\ Same(disk'[e]),
         driver = "tiny" => mem' = disk',
         \A e \in Entries : mem'[e] = disk'[e] \/ mem'[e] = <<>>
  PROVE  DbInv'
  <1> USE DEF Return
  <1>1. TypeOK'
    <2>1. 1 \in 1..(MaxKeys + 1)
      BY DbAssumption
    <2> QED  BY <2>1, NothingFacts DEF DbInv, TypeOK, Docs, Doc
  <1>2. TinyInv' /\ SameInv' /\ PhaseInv' /\ LooseInv' /\ ClearInv' /\ LoopInv'
    BY DEF TinyInv, SameInv, PhaseInv, LooseInv, ClearInv, LoopInv
  <1> QED  BY <1>1, <1>2 DEF DbInv

LEMMA SyncStep ==
  ASSUME DbInv, Sync
  PROVE  DbInv'
  <1>1. /\ mem' = mem /\ disk' = mem /\ driver' = driver /\ Return("true")
        /\ mem \in [Entries -> Doc] /\ \A e \in Entries : Same(mem[e])
    BY TypeFacts DEF Sync, DbInv, SameInv
  <1> QED  BY <1>1, ReturnStep

LEMMA DeleteKeyFailsStep ==
  ASSUME DbInv, DeleteKeyFails
  PROVE  DbInv'
  <1>1. /\ UNCHANGED <<driver, mem, disk>> /\ Return("false")
        /\ mem \in [Entries -> Doc] /\ disk \in [Entries -> Doc]
        /\ \A e \in Entries : Same(mem[e]) /\ Same(disk[e])
        /\ driver = "tiny" => mem = disk
        /\ \A e \in Entries : mem[e] = disk[e] \/ mem[e] = <<>>
    BY TypeFacts DEF DeleteKeyFails, Entry, DbInv, SameInv, TinyInv, LooseInv
  <1> QED  BY <1>1, ReturnStep

LEMMA CrashStep ==
  ASSUME DbInv, Crash
  PROVE  DbInv'
  <1>1. /\ mem' = disk /\ disk' = disk /\ driver' = driver /\ Return("none")
        /\ disk \in [Entries -> Doc] /\ \A e \in Entries : Same(disk[e])
    BY TypeFacts DEF Crash, DbInv, SameInv
  <1> QED  BY <1>1, ReturnStep

LEMMA FlushStep ==
  ASSUME DbInv, NEW e \in Entries, Flush(e)
  PROVE  DbInv'
  <1> USE DEF Flush
  <1>1. /\ disk' \in [Entries -> Doc] /\ disk'[e] = mem[e]
        /\ \A f \in Entries \ {e} : disk'[f] = disk[f]
        /\ mem \in [Entries -> Doc]
    BY TypeFacts DEF DbInv
  <1>2. TypeOK'
    BY <1>1 DEF DbInv, TypeOK, Docs, Doc
  <1>3. TinyInv' /\ SameInv' /\ PhaseInv' /\ LooseInv'
    BY <1>1 DEF DbInv, TinyInv, SameInv, PhaseInv, LooseInv
  <1>4. ClearInv'
    <2> SUFFICES ASSUME at = "clear", NEW f \in Entries
                 PROVE  /\ First(mem[f]) \in {NoVal, before.store[f]}
                        /\ First(disk'[f]) \in Kept(f) \cup {NoVal}
      BY DEF ClearInv, Kept
    <2>1. /\ First(mem[f]) \in {NoVal, before.store[f]}
          /\ First(disk[f]) \in Kept(f) \cup {NoVal}
      BY DEF DbInv, ClearInv
    <2>2. before.store[f] \in Kept(f)
      BY DEF Kept
    <2> QED  BY <1>1, <2>1, <2>2
  <1>5. LoopInv'
    <2> SUFFICES ASSUME at = "entries", NEW f \in Entries
                 PROVE  First(disk'[f]) \in
                          (IF op.kind = "apply" THEN {NoVal} ELSE Kept(f)) \cup {New(f)}
      BY DEF DbInv, LoopInv, Kept, New, Old, Processed
    <2>1. /\ First(mem[f]) = New(f) \/ First(mem[f]) = Old(f)
          /\ First(disk[f]) \in
               (IF op.kind = "apply" THEN {NoVal} ELSE Kept(f)) \cup {New(f)}
      BY DEF DbInv, LoopInv
    <2>2. Old(f) \in IF op.kind = "apply" THEN {NoVal} ELSE Kept(f)
      BY DEF Old, Kept
    <2> QED  BY <1>1, <2>1, <2>2
  <1> QED  BY <1>2, <1>3, <1>4, <1>5 DEF DbInv

LEMMA DeleteTableStep ==
  ASSUME DbInv, NEW t \in Tables, DeleteTable(t)
  PROVE  DbInv'
  <1> USE DEF DeleteTable
  <1>1. /\ mem' \in [Entries -> Doc] /\ disk' \in [Entries -> Doc]
        /\ \A e \in Entries : mem'[e] \in {<<>>, mem[e]} /\ disk'[e] \in {<<>>, disk[e]}
    BY TypeFacts, EmptyDoc DEF DbInv, Removed
  <1>2. TypeOK'
    BY <1>1 DEF DbInv, TypeOK, Docs, Doc
  <1>3. TinyInv' /\ SameInv' /\ PhaseInv' /\ LooseInv' /\ LoopInv'
    BY <1>1, EmptyDoc DEF DbInv, TinyInv, SameInv, PhaseInv, LooseInv, LoopInv
  <1>4. ClearInv'
    BY <1>1, EmptyDoc DEF DbInv, ClearInv, Kept
  <1> QED  BY <1>2, <1>3, <1>4 DEF DbInv

(* clear_all is over: nothing is left.                                      *)
LEMMA ClearedStep ==
  ASSUME DbInv, PurgeTables \/ Cleared
  PROVE  DbInv'
  <1>1. /\ at = "clear" /\ at' = "entries" /\ op.kind = "apply" /\ pos = 1
        /\ mem' = NoDocs /\ disk' = NoDocs
        /\ UNCHANGED <<driver, op, pos, answer, before>>
    BY DEF PurgeTables, Cleared, DbInv, PhaseInv
  <1>2. NoDocs \in [Entries -> Doc] /\ \A e \in Entries : NoDocs[e] = <<>>
    BY EmptyDoc DEF NoDocs
  <1>3. TypeOK'
    BY <1>1, <1>2 DEF DbInv, TypeOK, Docs, Doc
  <1>4. TinyInv' /\ SameInv' /\ LooseInv' /\ ClearInv'
    BY <1>1, <1>2, EmptyDoc DEF TinyInv, SameInv, LooseInv, ClearInv
  <1>5. PhaseInv'
    <2>1. Len(op.keys) \in Nat
      BY <1>1, OpFacts, DbAssumption
    <2> QED  BY <1>1, <2>1 DEF DbInv, PhaseInv
  <1>6. LoopInv'
    <2> SUFFICES ASSUME NEW e \in Entries
                 PROVE  ~Processed(e)' /\ Old(e)' = NoVal
      BY <1>1, <1>2, EmptyDoc DEF LoopInv
    <2> QED  BY <1>1 DEF Processed, Old
  <1> QED  BY <1>3, <1>4, <1>5, <1>6 DEF DbInv

(* The entry the loop is at.                                                *)
LEMMA KeyFacts ==
  ASSUME DbInv, at = "entries", pos <= Len(op.keys)
  PROVE  /\ Key \in Entries /\ Key \in S!Listed(op.keys) /\ pos \in 1..MaxKeys
         /\ op.kind # "delete" => Value \in Vals /\ New(Key) = Value
         /\ op.kind = "delete" => New(Key) = NoVal
  <1>1. /\ Len(op.keys) \in 1..MaxKeys /\ pos \in Nat /\ pos >= 1
        /\ DOMAIN op.keys = 1..Len(op.keys)
        /\ \A i \in 1..Len(op.keys) : op.keys[i] \in Entries
        /\ op.kind # "delete" => op.value \in [S!Listed(op.keys) -> Vals]
    BY OpFacts, TypeFacts DEF DbInv
  <1>2. pos \in 1..Len(op.keys) /\ pos \in 1..MaxKeys
    BY <1>1, DbAssumption
  <1>3. Key \in Entries /\ Key \in S!Listed(op.keys)
    BY <1>1, <1>2 DEF Key, S!Listed
  <1> QED  BY <1>1, <1>2, <1>3 DEF Value, New

(* The loop puts the new documents of its entry and goes on.                *)
LEMMA PutStep ==
  ASSUME DbInv, at = "entries", pos <= Len(op.keys), NEW d \in Doc, Put(d),
         Same(d), First(d) = New(Key), op.kind = "apply" => Len(d) <= pos
  PROVE  DbInv'
  <1> USE DEF Put
  <1>1. Key \in Entries /\ pos \in 1..MaxKeys
    BY KeyFacts
  <1>2. /\ mem' \in [Entries -> Doc] /\ disk' \in [Entries -> Doc]
        /\ mem'[Key] = d /\ \A e \in Entries : e # Key => mem'[e] = mem[e]
        /\ disk'[Key] \in {d, disk[Key]}
        /\ \A e \in Entries : e # Key => disk'[e] = disk[e]
    BY <1>1, TypeFacts DEF DbInv
  <1>3. pos' = pos + 1 /\ UNCHANGED <<driver, op, at, answer, before>>
    OBVIOUS
  <1>4. TypeOK'
    <2>1. pos' \in 1..(MaxKeys + 1)
      BY <1>1, <1>3, DbAssumption
    <2> QED  BY <1>2, <1>3, <2>1 DEF DbInv, TypeOK, Docs, Doc
  <1>5. TinyInv'
    <2>1. driver = "tiny" => mem = disk
      BY DEF DbInv, TinyInv
    <2> QED  BY <2>1 DEF TinyInv
  <1>6. SameInv'
    BY <1>1, <1>2 DEF DbInv, SameInv
  <1>7. PhaseInv'
    <2>1. Len(op.keys) \in Nat /\ pos \in Nat
      BY <1>1, OpFacts
    <2> QED  BY <1>3, <2>1 DEF DbInv, PhaseInv
  <1>8. LooseInv'
    <2> SUFFICES ASSUME op.kind = "delete", NEW e \in Entries
                 PROVE  mem'[e] = disk'[e] \/ mem'[e] = <<>>
      BY <1>3 DEF LooseInv
    <2>1. mem[e] = disk[e] \/ mem[e] = <<>>
      BY DEF DbInv, LooseInv
    <2>2. d = <<>>
      BY KeyFacts, FirstFacts
    <2> QED  BY <1>2, <2>1, <2>2
  <1>9. ClearInv'
    BY <1>3 DEF ClearInv
  <1>10. \A e \in Entries : /\ New(e)' = New(e) /\ Old(e)' = Old(e)
                            /\ Kept(e)' = Kept(e)
    BY <1>3 DEF New, Old, Kept
  <1>11. \A e \in Entries : Processed(e)' <=> Processed(e) \/ e = Key
    <2> SUFFICES ASSUME NEW e \in Entries
                 PROVE  (\E i \in 1..pos : op.keys[i] = e) <=>
                          (\E i \in 1..(pos - 1) : op.keys[i] = e) \/ e = op.keys[pos]
      BY <1>1, <1>3 DEF Processed, Key
    <2>1. 1..pos = (1..(pos - 1)) \cup {pos}
      BY <1>1
    <2> QED  BY <2>1
  <1>12. LoopInv'
    <2> SUFFICES ASSUME NEW e \in Entries
                 PROVE  /\ First(mem'[e]) = IF Processed(e)' THEN New(e) ELSE Old(e)
                        /\ First(disk'[e]) \in
                             (IF op.kind = "apply" THEN {NoVal} ELSE Kept(e)) \cup {New(e)}
                        /\ op.kind = "apply" => Len(mem'[e]) < pos'
      BY <1>3, <1>10 DEF LoopInv
    <2>1. /\ First(mem[e]) = IF Processed(e) THEN New(e) ELSE Old(e)
          /\ First(disk[e]) \in
               (IF op.kind = "apply" THEN {NoVal} ELSE Kept(e)) \cup {New(e)}
          /\ op.kind = "apply" => Len(mem[e]) < pos
      BY DEF DbInv, LoopInv
    <2>2. Len(d) \in Nat /\ Len(mem[e]) \in Nat
      BY DocIsSeq, TypeFacts DEF DbInv
    <2>3. CASE e = Key
      BY <1>1, <1>2, <1>3, <1>11, <2>1, <2>2, <2>3
    <2>4. CASE e # Key
      <3>1. (Processed(e)' <=> Processed(e)) /\ mem'[e] = mem[e] /\ disk'[e] = disk[e]
        BY <1>2, <1>11, <2>4
      <3>2. Len(mem[e]) < pos => Len(mem[e]) < pos'
        BY <1>1, <1>3, <2>2
      <3> HIDE DEF Put
      <3> QED  BY <2>1, <3>1, <3>2
    <2> QED  BY <2>3, <2>4
  <1> QED  BY <1>4, <1>5, <1>6, <1>7, <1>8, <1>9, <1>12 DEF DbInv

LEMMA CreateKeyStep ==
  ASSUME DbInv, CreateKey
  PROVE  DbInv'
  <1>1. /\ at = "entries" /\ op.kind = "apply" /\ pos <= Len(op.keys)
        /\ Key \in Entries /\ Value \in Vals /\ New(Key) = Value /\ pos \in 1..MaxKeys
    BY KeyFacts DEF CreateKey, Entry
  <1>2. /\ mem[Key] \in Doc /\ Same(mem[Key]) /\ Len(mem[Key]) < pos
        /\ First(mem[Key]) = IF Processed(Key) THEN Value ELSE NoVal
        /\ Len(mem[Key]) \in Nat
    BY <1>1, TypeFacts, DocIsSeq DEF DbInv, SameInv, LoopInv, Old
  <1>3. CASE driver = "tiny"
    <2>1. mem[Key] = <<>> \/ First(mem[Key]) = Value
      BY <1>2, FirstFacts
    <2>2. Len(mem[Key]) < MaxKeys
      BY <1>1, <1>2, DbAssumption
    <2> DEFINE d == Append(mem[Key], Value)
    <2>3. d \in Doc /\ Same(d) /\ First(d) = Value /\ Len(d) = Len(mem[Key]) + 1
      BY <1>1, <1>2, <2>1, <2>2, AppendDoc
    <2>4. Put(d)
      BY <1>3 DEF CreateKey
    <2>5. Len(d) <= pos
      BY <1>1, <1>2, <2>3
    <2> HIDE DEF d
    <2> QED  BY <1>1, <2>3, <2>4, <2>5, PutStep
  <1>4. CASE driver # "tiny"
    <2> DEFINE d == <<Value>>
    <2>1. d \in Doc /\ Same(d) /\ First(d) = Value /\ Len(d) = 1
      BY <1>1, SingleDoc
    <2>2. Put(d)
      BY <1>4 DEF CreateKey
    <2>3. Len(d) <= pos
      BY <1>1, <2>1
    <2> HIDE DEF d
    <2> QED  BY <1>1, <2>1, <2>2, <2>3, PutStep
  <1> QED  BY <1>3, <1>4

LEMMA SetKeyStep ==
  ASSUME DbInv, SetKey
  PROVE  DbInv'
  <1>1. /\ at = "entries" /\ op.kind = "update" /\ pos <= Len(op.keys)
        /\ Key \in Entries /\ Value \in Vals /\ New(Key) = Value
        /\ mem[Key] \in Doc
    BY KeyFacts, TypeFacts DEF SetKey, Entry, DbInv
  <1> DEFINE d == IF mem[Key] = <<>> THEN <<Value>> ELSE [i \in DOMAIN mem[Key] |-> Value]
  <1>2. d \in Doc /\ Same(d) /\ First(d) = Value
    BY <1>1, SingleDoc, OverwriteDoc
  <1>3. Put(d)
    BY DEF SetKey
  <1> HIDE DEF d
  <1> QED  BY <1>1, <1>2, <1>3, PutStep

LEMMA DeleteKeyStep ==
  ASSUME DbInv, DeleteKey
  PROVE  DbInv'
  <1>1. /\ at = "entries" /\ op.kind = "delete" /\ pos <= Len(op.keys)
        /\ New(Key) = NoVal /\ Put(<<>>)
    BY KeyFacts DEF DeleteKey, Entry
  <1> QED  BY <1>1, EmptyDoc, PutStep

(* The invariant is inductive.                                              *)
LEMMA NextInv == DbInv /\ [Next]_vars => DbInv'
  <1> SUFFICES ASSUME DbInv, [Next]_vars PROVE DbInv'
    OBVIOUS
  <1>1. ASSUME NEW t \in Tables, DeleteTable(t) PROVE DbInv'
    BY <1>1, DeleteTableStep
  <1>2. ASSUME NEW e \in Entries, Flush(e) PROVE DbInv'
    BY <1>2, FlushStep
  <1>3. CASE UNCHANGED vars
    BY ZenonT(30), <1>3 DEF DbInv, TypeOK, TinyInv, SameInv, PhaseInv, LooseInv, ClearInv, LoopInv,
                Kept, New, Old, Processed, vars
  <1> QED  BY <1>1, <1>2, <1>3, RequestStep, ClearedStep, CreateKeyStep, SetKeyStep,
              DeleteKeyStep, DeleteKeyFailsStep, SyncStep, CrashStep DEF Next

LEMMA SpecInv == Spec => []DbInv
  BY InitInv, NextInv, PTL DEF Spec

(* The database keeps its type: in particular no key has more documents     *)
(* than one message lists it.                                               *)
THEOREM DbTypeCorrect == Spec => []TypeOK
  <1>1. DbInv => TypeOK
    BY DEF DbInv
  <1> QED  BY <1>1, SpecInv, PTL

(* The documents TinyDB keeps under one key agree, however creates, updates,*)
(* deletes and crashes follow each other.                                   *)
THEOREM DbCopiesAgree == Spec => []CopiesAgree
  <1>1. DbInv => CopiesAgree
    BY DEF DbInv, SameInv, Same, CopiesAgree
  <1> QED  BY <1>1, SpecInv, PTL
-----------------------------------------------------------------------------
(* The refinement: what AgentStore calls store and loose.                   *)
Store == IF at = "idle" THEN View(mem) ELSE before.store

Lost == IF at = "idle" THEN Loose ELSE before.loose

(* The effect of an operation, entry by entry, is the one AgentStore states.*)
LEMMA EffectFacts ==
  ASSUME DbInv, at # "idle"
  PROVE  /\ op.kind = "apply" => S!Written(S!Nothing) = [e \in Entries |-> New(e)]
         /\ op.kind = "update" => S!Written(Store) = [e \in Entries |-> New(e)]
         /\ op.kind = "delete" => S!Without(Len(op.keys)) = [e \in Entries |-> New(e)]
         /\ \A e \in Entries : S!Back(e) = Kept(e)
  <1>1. Store = before.store /\ Lost = before.loose
    BY DEF Store, Lost
  <1>2. op.kind = "apply" => S!Written(S!Nothing) = [e \in Entries |-> New(e)]
    BY NothingFacts DEF S!Written, New, Old
  <1>3. op.kind = "update" => S!Written(Store) = [e \in Entries |-> New(e)]
    BY <1>1 DEF S!Written, New, Old
  <1>4. op.kind = "delete" => S!Without(Len(op.keys)) = [e \in Entries |-> New(e)]
    <2> SUFFICES ASSUME op.kind = "delete"
                 PROVE  S!Without(Len(op.keys)) = [e \in Entries |-> New(e)]
      OBVIOUS
    <2>1. \A e \in Entries : e \in S!Listed(op.keys) <=>
            \E i \in 1..Len(op.keys) : op.keys[i] = e
      BY OpFacts DEF S!Listed
    <2> QED  BY <2>1 DEF S!Without, New, Old
  <1>5. \A e \in Entries : S!Back(e) = Kept(e)
    BY DEF S!Back, Kept
  <1> QED  BY <1>2, <1>3, <1>4, <1>5

(* When an operation has returned, store and loose are read off the tables. *)
LEMMA ReturnFacts ==
  ASSUME NEW a, Return(a)
  PROVE  Store' = View(mem') /\ Lost' = Loose' /\ S!Answer(a)
  BY DEF Return, Store, Lost, S!Answer, View, Loose

LEMMA NothingLoose ==
  ASSUME mem = disk
  PROVE  Loose = S!Nothing
  <1>1. \A e \in Entries : Loose[e] = NoVal
    BY DEF Loose, View
  <1> QED  BY <1>1 DEF Loose, S!Nothing

LEMMA InitStore == Init => S!Init
  <1> SUFFICES ASSUME Init PROVE S!Init
    OBVIOUS
  <1>1. mem = disk /\ at = "idle" /\ op = S!NoOp /\ answer = "none"
    BY DEF Init
  <1>2. View(mem) = S!Nothing
    BY DEF Init, View, NoDocs, S!Nothing
  <1> QED  BY <1>1, <1>2, NothingLoose DEF S!Init

LEMMA RequestStore ==
  ASSUME DbInv, Request
  PROVE  S!Request
  <1>1. /\ at = "idle" /\ op = S!NoOp /\ at' # "idle" /\ answer' = "none"
        /\ op' \in S!Writes \cup S!Deletes
        /\ before'.store = View(mem) /\ before'.loose = Loose
    BY DEF Request, DbInv, PhaseInv
  <1> QED  BY <1>1 DEF S!Request

(* Inside an operation nothing the log agent can tell apart happens.        *)
LEMMA InsideStore ==
  ASSUME at # "idle", at' # "idle", UNCHANGED <<op, answer, before>>
  PROVE  UNCHANGED S!storeVars
  BY DEF S!storeVars

LEMMA FlushStore ==
  ASSUME DbInv, NEW e \in Entries, Flush(e)
  PROVE  S!Settle \/ UNCHANGED S!storeVars
  <1>1. CASE at # "idle"
    BY <1>1, InsideStore DEF Flush
  <1>2. CASE at = "idle"
    <2>1. /\ at' = "idle" /\ op = S!NoOp /\ UNCHANGED <<mem, op, answer>>
          /\ mem[e] = <<>> /\ disk' = [disk EXCEPT ![e] = <<>>]
          /\ disk \in [Entries -> Doc]
      BY <1>2, TypeFacts DEF Flush, DbInv, PhaseInv, LooseInv
    <2>2. \A f \in Entries : Loose'[f] = IF f = e THEN NoVal ELSE Loose[f]
      BY <2>1 DEF Loose, View
    <2>3. Loose' = [Loose EXCEPT ![e] = NoVal]
      BY <2>2 DEF Loose
    <2>4. View(mem)' = View(mem)
      BY <2>1 DEF View
    <2> QED  BY <1>2, <2>1, <2>3, <2>4 DEF S!Settle
  <1> QED  BY <1>1, <1>2

(* The end of the loop: every listed entry has its new value.               *)
LEMMA SyncStore ==
  ASSUME DbInv, Sync
  PROVE  S!Done
  <1>1. /\ at = "entries" /\ pos > Len(op.keys) /\ mem' = mem /\ disk' = mem
        /\ Return("true")
    BY DEF Sync, Finished
  <1>2. /\ Len(op.keys) \in Nat /\ pos = Len(op.keys) + 1 /\ pos - 1 = Len(op.keys)
        /\ DOMAIN op.keys = 1..Len(op.keys) /\ op.kind \in {"apply", "update", "delete"}
    <2>1. Len(op.keys) \in Nat /\ pos \in Nat /\ pos <= Len(op.keys) + 1
      BY <1>1, OpFacts, TypeFacts DEF DbInv, PhaseInv
    <2> QED  BY <1>1, <2>1, OpFacts
  <1>3. \A e \in Entries : First(mem[e]) = New(e)
    <2> SUFFICES ASSUME NEW e \in Entries PROVE First(mem[e]) = New(e)
      OBVIOUS
    <2>1. First(mem[e]) = IF Processed(e) THEN New(e) ELSE Old(e)
      BY <1>1 DEF DbInv, LoopInv
    <2>2. Processed(e) <=> e \in S!Listed(op.keys)
      BY <1>2 DEF Processed, S!Listed
    <2> QED  BY <2>1, <2>2 DEF New
  <1>4. Store' = [e \in Entries |-> New(e)]
    <2>1. Store' = View(mem)
      BY <1>1, ReturnFacts
    <2> QED  BY <1>3, <2>1 DEF View, First
  <1>5. Lost' = S!Nothing
    <2>1. Lost' = Loose' /\ mem' = disk'
      BY <1>1, ReturnFacts
    <2>2. Loose' = S!Nothing
      <3>1. \A e \in Entries : Loose'[e] = NoVal
        BY <2>1 DEF Loose, View
      <3> QED  BY <3>1 DEF Loose, S!Nothing
    <2> QED  BY <2>1, <2>2
  <1>6. op # S!NoOp
    BY <1>2, NoOpFacts
  <1>7. S!Answer("true")
    BY <1>1, ReturnFacts
  <1>8. Store' = CASE op.kind = "apply"  -> S!Written(S!Nothing)
                   [] op.kind = "update" -> S!Written(Store)
                   [] op.kind = "delete" -> S!Without(Len(op.keys))
    BY <1>1, <1>2, <1>4, EffectFacts
  <1> QED  BY <1>5, <1>6, <1>7, <1>8 DEF S!Done, Store, Lost

(* A delete that raises: the entries before this one are gone.              *)
LEMMA FailStore ==
  ASSUME DbInv, DeleteKeyFails
  PROVE  S!Stopped
  <1> DEFINE n == pos - 1
  <1>1. /\ at = "entries" /\ op.kind = "delete" /\ pos <= Len(op.keys)
        /\ mem[Key] = <<>> /\ Return("false") /\ UNCHANGED <<mem, disk>>
    BY DEF DeleteKeyFails, Entry
  <1>2. /\ Len(op.keys) \in Nat /\ pos \in 1..Len(op.keys)
        /\ n \in 0..(Len(op.keys) - 1) /\ op.keys[n + 1] = Key
        /\ Key \in Entries
    <2>1. Len(op.keys) \in Nat /\ pos \in Nat /\ pos >= 1
      BY <1>1, OpFacts, TypeFacts DEF DbInv
    <2> QED  BY <1>1, <2>1, KeyFacts DEF Key
  <1>3. \A e \in Entries : First(mem[e]) = IF Processed(e) THEN NoVal ELSE before.store[e]
    <2> SUFFICES ASSUME NEW e \in Entries
                 PROVE  First(mem[e]) = IF Processed(e) THEN NoVal ELSE before.store[e]
      OBVIOUS
    <2>1. First(mem[e]) = IF Processed(e) THEN New(e) ELSE Old(e)
      BY <1>1 DEF DbInv, LoopInv
    <2>2. Processed(e) => e \in S!Listed(op.keys)
      <3>1. 1..(pos - 1) \subseteq DOMAIN op.keys
        BY <1>1, <1>2, OpFacts
      <3> QED  BY <3>1 DEF Processed, S!Listed
    <2> QED  BY <1>1, <2>1, <2>2 DEF New, Old
  <1>4. S!Without(n) = View(mem)
    BY <1>1, <1>3 DEF S!Without, Processed, View, First
  <1>5. Store' = View(mem) /\ Lost' = Loose /\ S!Answer("false")
    <2>1. Store' = View(mem') /\ Lost' = Loose' /\ S!Answer("false")
      BY <1>1, ReturnFacts
    <2> QED  BY <1>1, <2>1 DEF Loose, View
  <1>6. S!Without(n)[op.keys[n + 1]] = NoVal
    BY <1>1, <1>2, <1>4 DEF View
  <1>7. Lost' \in [Entries -> Vals \cup {NoVal}]
    BY <1>5, LooseType DEF DbInv, Maybe
  <1>8. \A e \in Entries : Loose[e] \in {NoVal, before.loose[e]} \cup
          (IF View(mem)[e] = NoVal THEN {before.store[e]} ELSE {})
    <2> SUFFICES ASSUME NEW e \in Entries, mem[e] = <<>>
                 PROVE  First(disk[e]) \in {NoVal, before.loose[e], before.store[e]}
      BY ViewFacts DEF Loose, View
    <2>1. First(disk[e]) \in Kept(e) \cup {New(e)}
      BY <1>1 DEF DbInv, LoopInv
    <2> QED  BY <1>1, <2>1 DEF Kept, New, Old
  <1>9. Store = before.store /\ Lost = before.loose
    BY <1>1 DEF Store, Lost
  <1> HIDE DEF n
  <1>10. \E m \in 0..(Len(op.keys) - 1) :
           /\ S!Without(m)[op.keys[m + 1]] = NoVal
           /\ Store' = S!Without(m)
           /\ \A e \in Entries : Lost'[e] \in {NoVal, Lost[e]} \cup
                (IF Store'[e] = NoVal THEN {Store[e]} ELSE {})
    BY <1>2, <1>4, <1>5, <1>6, <1>8, <1>9
  <1> QED  BY <1>1, <1>5, <1>7, <1>10 DEF S!Stopped, Store, Lost

(* The restart finds in the files what AgentStore allows it to find.        *)
LEMMA CrashStore ==
  ASSUME DbInv, Crash
  PROVE  S!Crash
  <1>1. mem' = disk /\ disk' = disk /\ Return("none")
    BY DEF Crash
  <1>2. Store' = View(disk) /\ S!Answer("none") /\ Lost' = Loose'
    BY <1>1, ReturnFacts
  <1>3. Lost' = S!Nothing
    <2>1. \A e \in Entries : Loose'[e] = NoVal
      BY <1>1 DEF Loose, View
    <2> QED  BY <1>2, <2>1 DEF Loose, S!Nothing
  <1>4. Store' \in [Entries -> Vals \cup {NoVal}]
    BY <1>2, TypeFacts, ViewType DEF DbInv, Maybe
  <1>5. \A e \in Entries : Store'[e] = First(disk[e])
    BY <1>2, ViewFacts
  <1>6. CASE at = "idle"
    <2>1. op.kind = "none"
      BY <1>6, NoOpFacts DEF DbInv, PhaseInv
    <2>2. \A e \in Entries : Store'[e] \in S!Back(e)
      <3> SUFFICES ASSUME NEW e \in Entries PROVE First(disk[e]) \in S!Back(e)
        BY <1>5
      <3>1. mem[e] = disk[e] \/ mem[e] = <<>>
        BY <1>6 DEF DbInv, LooseInv
      <3>2. First(mem[e]) = NoVal <=> mem[e] = <<>>
        BY FirstFacts, TypeFacts DEF DbInv
      <3>3. S!Back(e) = IF First(mem[e]) = NoVal THEN {NoVal, Loose[e]} ELSE {First(mem[e])}
        BY <1>6, ViewFacts DEF S!Back
      <3>4. mem[e] = <<>> => Loose[e] = First(disk[e])
        BY ViewFacts DEF Loose
      <3> QED  BY <3>1, <3>2, <3>3, <3>4
    <2> QED  BY <1>2, <1>3, <1>4, <2>1, <2>2 DEF S!Crash, Store, Lost
  <1>7. CASE at = "clear"
    <2>1. op.kind = "apply"
      BY <1>7 DEF DbInv, PhaseInv
    <2>2. \A e \in Entries : Store'[e] \in S!Back(e) \cup {NoVal}
      BY <1>5, <1>7, EffectFacts DEF DbInv, ClearInv
    <2> QED  BY <1>2, <1>3, <1>4, <2>1, <2>2 DEF S!Crash, Store, Lost
  <1>8. CASE at = "entries"
    <2>1. op.kind \in {"apply", "update", "delete"}
      BY <1>8, OpFacts
    <2>2. \A e \in Entries : Store'[e] \in
            (IF op.kind = "apply" THEN {NoVal} ELSE S!Back(e)) \cup {New(e)}
      BY <1>5, <1>8, EffectFacts DEF DbInv, LoopInv
    <2>3. CASE op.kind = "apply"
      <3>1. \A e \in Entries : Store'[e] \in {NoVal, S!Written(S!Nothing)[e]}
        BY <1>8, <2>2, <2>3, EffectFacts
      <3> QED  BY <1>2, <1>3, <1>4, <2>3, <3>1 DEF S!Crash, Store, Lost
    <2>4. CASE op.kind = "update"
      <3>1. \A e \in Entries : Store'[e] \in S!Back(e) \cup {S!Written(Store)[e]}
        BY <1>8, <2>2, <2>4, EffectFacts
      <3> QED  BY <1>2, <1>3, <1>4, <2>4, <3>1 DEF S!Crash, Store, Lost
    <2>5. CASE op.kind = "delete"
      <3>1. \A e \in Entries :
              Store'[e] \in S!Back(e) \cup {S!Without(Len(op.keys))[e]}
        BY <1>8, <2>2, <2>5, EffectFacts
      <3> QED  BY <1>2, <1>3, <1>4, <2>5, <3>1 DEF S!Crash, Store, Lost
    <2> QED  BY <2>1, <2>3, <2>4, <2>5
  <1> QED  BY <1>6, <1>7, <1>8 DEF DbInv, TypeOK

(* Every step is a step of AgentStore or changes nothing it has.            *)
LEMMA NextStore == DbInv /\ [Next]_vars => [S!Next]_(S!storeVars)
  <1> SUFFICES ASSUME DbInv, [Next]_vars PROVE S!Next \/ UNCHANGED S!storeVars
    OBVIOUS
  <1>1. ASSUME NEW t \in Tables, DeleteTable(t) PROVE UNCHANGED S!storeVars
    BY <1>1, InsideStore DEF DeleteTable
  <1>2. ASSUME NEW e \in Entries, Flush(e) PROVE S!Settle \/ UNCHANGED S!storeVars
    BY <1>2, FlushStore
  <1>3. CASE PurgeTables \/ Cleared \/ CreateKey \/ SetKey \/ DeleteKey
    BY <1>3, InsideStore DEF PurgeTables, Cleared, CreateKey, SetKey, DeleteKey, Entry, Put
  <1>4. CASE UNCHANGED vars
    BY <1>4 DEF vars, S!storeVars, Loose, View
  <1> QED  BY <1>1, <1>2, <1>3, <1>4, RequestStore, SyncStore, FailStore, CrashStore
           DEF Next, S!Next

(* Both drivers implement AgentStore: what was answered True survives any   *)
(* crash, whatever Berkeley DB has flushed and when; a crash inside an      *)
(* operation leaves a part of this operation, and inside an apply never old *)
(* entries beside new ones.                                                 *)
THEOREM DbRefinesStore == Spec => RefinesStore
  BY InitStore, NextStore, SpecInv, PTL DEF Spec, RefinesStore, S!Spec
=============================================================================
