--------------------------- MODULE AsyncTcpProofs ---------------------------
(* Proofs about the asyncore transport, for any number of clients, VMs and  *)
(* attempts and for messages of any length.                                 *)
EXTENDS AsyncTcp, BambukRpcProofs, FiniteSetTheorems

TryInv ==
  \A t \in Tasks :
    /\ st[t] \in {"ready", "wait", "sleep"} => nr[t] < MaxTry
    /\ st[t] = "new" => nr[t] = 0

(* Only the current attempt of a task may be under way: the ones before it  *)
(* got no connection or lost it to an error, the ones after it are to come. *)
(* A VM answers only what it has read to the end.                           *)
ConnInv ==
  \A t \in Tasks, n \in Attempts :
    LET c == conn[t][n]
    IN  /\ c.client = "none" => c = NoConn
        /\ n <= nr[t] => c.client \in {"none", "raised"}
        /\ n > nr[t] + 1 => c.client = "none"
        /\ n = nr[t] + 1 /\ st[t] = "wait" => c.client = "open"
        /\ n = nr[t] + 1 /\ st[t] \in {"new", "ready", "sleep"} => c.client = "none"
        /\ c.answer > 0 => c.in = Size

(* The attempts whose message the VM has read to the end.                   *)
Runs(t) == {n \in Attempts : conn[t][n].in = Size}

CountInv == \A t \in Tasks : ran[t] = Cardinality(Runs(t))

TcpInv == TypeOK /\ TryInv /\ ConnInv /\ CountInv
-----------------------------------------------------------------------------
LEMMA NoConnFacts ==
  /\ NoConn \in Conn
  /\ NoConn.client = "none" /\ NoConn.server = "none"
  /\ NoConn.in = 0 /\ NoConn.answer = 0
  /\ NoConn.in # Size
  BY TcpAssumption DEF NoConn, Conn

LEMMA AttemptsFinite ==
  IsFiniteSet(Attempts) /\ Cardinality(Attempts) = MaxTry
  BY RpcAssumption, FS_Interval DEF Attempts

(* Writing one connection leaves the others alone.                          *)
LEMMA SetConnFacts ==
  ASSUME TypeOK, NEW t \in Tasks, NEW n \in Attempts, NEW c \in Conn,
         SetConn(t, n, c)
  PROVE  /\ conn' \in [Tasks -> [Attempts -> Conn]]
         /\ conn'[t][n] = c
         /\ \A u \in Tasks, m \in Attempts :
              u # t \/ m # n => conn'[u][m] = conn[u][m]
  BY DEF SetConn, TypeOK

LEMMA CurFacts ==
  ASSUME TcpInv, NEW t \in Tasks, st[t] \in {"ready", "wait", "sleep"}
  PROVE  /\ nr[t] \in 0 .. (MaxTry - 1)
         /\ nr[t] + 1 \in Attempts
         /\ Cur(t) \in Conn
  BY RpcAssumption DEF TcpInv, TryInv, TypeOK, RpcTypeOK, Attempts, Cur

(* If no connection completes its message, the count stays right.           *)
LEMMA SameRuns ==
  ASSUME CountInv, ran' = ran,
         \A t \in Tasks, n \in Attempts :
           conn'[t][n].in = Size <=> conn[t][n].in = Size
  PROVE  CountInv'
  <1>1. \A t \in Tasks : Runs(t)' = Runs(t)
    BY DEF Runs
  <1> QED  BY <1>1 DEF CountInv

LEMMA InitInv == Init => TcpInv
  <1> SUFFICES ASSUME Init PROVE TcpInv
    OBVIOUS
  <1> USE RpcAssumption DEF Init, RpcInit
  <1>1. TypeOK
    BY NoConnFacts DEF TypeOK, RpcTypeOK, States
  <1>2. TryInv
    BY DEF TryInv
  <1>3. \A t \in Tasks, n \in Attempts : conn[t][n] = NoConn
    OBVIOUS
  <1>4. ConnInv
    BY <1>3, NoConnFacts DEF ConnInv, Attempts
  <1>5. CountInv
    <2>1. \A t \in Tasks : Runs(t) = {}
      BY <1>3, NoConnFacts DEF Runs
    <2> QED  BY <2>1, FS_EmptySet DEF CountInv
  <1> QED  BY <1>1, <1>2, <1>4, <1>5 DEF TcpInv

(* A step of the VM on one connection.                                      *)
LEMMA VmStep ==
  ASSUME TcpInv, NEW t \in Tasks, NEW n \in Attempts, NEW c \in Conn,
         SetConn(t, n, c), conn[t][n].server = "open",
         c.client = conn[t][n].client, c.answer > 0 => c.in = Size,
         UNCHANGED <<st, nr, got, off>>, ran' \in [Tasks -> Nat]
  PROVE  TypeOK' /\ TryInv' /\ ConnInv'
  <1> USE DEF TcpInv
  <1>1. TypeOK'
    BY SetConnFacts DEF TypeOK, RpcTypeOK
  <1>2. TryInv'
    BY DEF TryInv
  <1>3. conn[t][n].client # "none"
    BY NoConnFacts DEF ConnInv
  <1>4. ConnInv'
    <2> SUFFICES ASSUME NEW u \in Tasks, NEW m \in Attempts
                 PROVE  /\ conn'[u][m].client = "none" => conn'[u][m] = NoConn
                        /\ conn'[u][m].client = conn[u][m].client
                        /\ conn'[u][m].answer > 0 => conn'[u][m].in = Size
      BY DEF ConnInv
    <2>1. CASE u = t /\ m = n
      BY <1>3, <2>1, SetConnFacts
    <2>2. CASE u # t \/ m # n
      <3>1. conn'[u][m] = conn[u][m]
        BY <2>2, SetConnFacts
      <3> QED  BY <3>1 DEF ConnInv
    <2> QED  BY <2>1, <2>2
  <1> QED  BY <1>1, <1>2, <1>4

LEMMA ReceiverReadStep ==
  ASSUME TcpInv, NEW t \in Tasks, NEW n \in Attempts, ReceiverRead(t, n)
  PROVE  /\ TcpInv'
         /\ \/ UNCHANGED ran
            \/ /\ ran' = [ran EXCEPT ![t] = @ + 1]
               /\ ran[t] < MaxTry
  <1>1. PICK k \in (conn[t][n].in + 1) .. conn[t][n].out :
          /\ SetConn(t, n, [conn[t][n] EXCEPT !.in = k])
          /\ ran' = [ran EXCEPT ![t] = IF k = Size THEN @ + 1 ELSE @]
    BY DEF ReceiverRead
  <1> DEFINE c == [conn[t][n] EXCEPT !.in = k]
  <1>2. conn[t][n] \in Conn
    BY DEF TcpInv, TypeOK
  <1>3. /\ c \in Conn /\ c.in = k /\ c.client = conn[t][n].client
        /\ c.answer = conn[t][n].answer
        /\ k \in 0 .. Size /\ conn[t][n].in < k /\ conn[t][n].in \in 0 .. Size
    BY <1>2, TcpAssumption DEF Conn
  <1>4. conn[t][n].in # Size
    BY <1>3, TcpAssumption
  <1>5. ~(c.answer > 0)
    BY <1>3, <1>4 DEF TcpInv, ConnInv
  <1>6. SetConn(t, n, c)
    BY <1>1
  <1> HIDE DEF c
  <1>7. TypeOK' /\ TryInv' /\ ConnInv'
    <2>1. ran' \in [Tasks -> Nat]
      BY <1>1 DEF TcpInv, TypeOK, RpcTypeOK
    <2> QED  BY <1>3, <1>5, <1>6, <2>1, VmStep DEF ReceiverRead, Serving
  <1>8. CASE k # Size
    <2>1. ran' = ran
      BY <1>1, <1>8 DEF TcpInv, TypeOK, RpcTypeOK
    <2>2. \A u \in Tasks, m \in Attempts :
            conn'[u][m].in = Size <=> conn[u][m].in = Size
      BY <1>3, <1>4, <1>6, <1>8, SetConnFacts DEF TcpInv
    <2> QED  BY <1>7, <2>1, <2>2, SameRuns DEF TcpInv
  <1>9. CASE k = Size
    <2>1. ran' = [ran EXCEPT ![t] = @ + 1]
      BY <1>1, <1>9
    <2>2. Runs(t)' = Runs(t) \cup {n} /\ n \notin Runs(t)
      BY <1>3, <1>4, <1>6, <1>9, SetConnFacts DEF TcpInv, Runs
    <2>3. \A u \in Tasks \ {t} : Runs(u)' = Runs(u)
      BY <1>3, <1>6, SetConnFacts DEF TcpInv, Runs
    <2>4. IsFiniteSet(Runs(t)) /\ Cardinality(Runs(t)) < MaxTry
      <3>1. Runs(t) \in SUBSET Attempts /\ Runs(t) # Attempts
        BY <2>2 DEF Runs
      <3> QED  BY <3>1, AttemptsFinite, FS_Subset, FS_CardinalityType, RpcAssumption
    <2>5. Cardinality(Runs(t)') = Cardinality(Runs(t)) + 1
      BY <2>2, <2>4, FS_AddElement
    <2>6. CountInv'
      BY <2>1, <2>3, <2>5 DEF CountInv, TcpInv, TypeOK, RpcTypeOK
    <2>7. ran[t] < MaxTry
      BY <2>4 DEF TcpInv, CountInv
    <2> QED  BY <1>7, <2>1, <2>6, <2>7 DEF TcpInv
  <1> QED  BY <1>8, <1>9

LEMMA ReceiverWriteStep ==
  ASSUME TcpInv, NEW t \in Tasks, NEW n \in Attempts, ReceiverWrite(t, n)
  PROVE  TcpInv'
  <1>1. PICK k \in (conn[t][n].answer + 1) .. Size :
          SetConn(t, n, [conn[t][n] EXCEPT !.answer = k])
    BY DEF ReceiverWrite
  <1> DEFINE c == [conn[t][n] EXCEPT !.answer = k]
  <1>2. conn[t][n] \in Conn
    BY DEF TcpInv, TypeOK
  <1>3. /\ c \in Conn /\ c.in = conn[t][n].in /\ c.client = conn[t][n].client
        /\ c.in = Size
    BY <1>2, TcpAssumption DEF Conn, ReceiverWrite
  <1>4. SetConn(t, n, c) /\ ran' \in [Tasks -> Nat]
    BY <1>1 DEF ReceiverWrite, TcpInv, TypeOK, RpcTypeOK
  <1> HIDE DEF c
  <1>5. TypeOK' /\ TryInv' /\ ConnInv'
    BY <1>3, <1>4, VmStep DEF ReceiverWrite, Serving
  <1>6. \A u \in Tasks, m \in Attempts :
          conn'[u][m].in = Size <=> conn[u][m].in = Size
    <2>1. /\ conn'[t][n] = c
          /\ \A u \in Tasks, m \in Attempts :
               u # t \/ m # n => conn'[u][m] = conn[u][m]
      BY <1>3, <1>4, SetConnFacts DEF TcpInv
    <2> QED  BY <1>3, <2>1
  <1> QED  BY <1>5, <1>6, SameRuns DEF TcpInv, ReceiverWrite

LEMMA ReceiverCloseStep ==
  ASSUME TcpInv, NEW t \in Tasks, NEW n \in Attempts, ReceiverClose(t, n)
  PROVE  TcpInv'
  <1> DEFINE c == [conn[t][n] EXCEPT !.server = "closed"]
  <1>1. conn[t][n] \in Conn
    BY DEF TcpInv, TypeOK
  <1>2. /\ c \in Conn /\ c.in = conn[t][n].in /\ c.client = conn[t][n].client
        /\ c.answer = conn[t][n].answer
    BY <1>1 DEF Conn
  <1>3. SetConn(t, n, c) /\ ran' \in [Tasks -> Nat]
    BY DEF ReceiverClose, TcpInv, TypeOK, RpcTypeOK
  <1> HIDE DEF c
  <1>4. TypeOK' /\ TryInv' /\ ConnInv'
    BY <1>2, <1>3, VmStep DEF ReceiverClose, Serving, TcpInv, ConnInv
  <1>5. \A u \in Tasks, m \in Attempts :
          conn'[u][m].in = Size <=> conn[u][m].in = Size
    BY <1>2, <1>3, SetConnFacts DEF TcpInv
  <1> QED  BY <1>4, <1>5, SameRuns DEF TcpInv, ReceiverClose

(* A step of the client on the connection of its current attempt, after     *)
(* which the task is x and has had m attempts that raised.                  *)
LEMMA ClientStep ==
  ASSUME TcpInv, NEW t \in Tasks, st[t] \in {"ready", "wait"}, NEW c \in Conn,
         SetConn(t, nr[t] + 1, c),
         c.in = Cur(t).in, c.answer = Cur(t).answer,
         c.client # "none",
         st' \in [Tasks -> States], nr' \in [Tasks -> 0 .. MaxTry],
         got' \in [Tasks -> Tasks \cup {None}],
         \A u \in Tasks \ {t} : st'[u] = st[u] /\ nr'[u] = nr[u],
         \/ /\ nr'[t] = nr[t]
            /\ \/ st'[t] = "wait" /\ c.client = "open"
               \/ st'[t] \in {"ok", "failed"}
         \/ /\ nr'[t] = nr[t] + 1 /\ c.client = "raised"
            /\ \/ st'[t] = "failed"
               \/ st'[t] = "sleep" /\ nr'[t] < MaxTry,
         UNCHANGED <<ran, off>>
  PROVE  TcpInv'
  <1>1. /\ nr[t] + 1 \in Attempts /\ Cur(t) = conn[t][nr[t] + 1]
        /\ nr[t] \in 0 .. MaxTry /\ TypeOK /\ MaxTry \in Nat
    BY CurFacts, RpcAssumption DEF Cur, TcpInv, TypeOK, RpcTypeOK
  <1>2. TypeOK'
    BY <1>1, SetConnFacts DEF TypeOK, RpcTypeOK
  <1>3. TryInv'
    BY <1>1 DEF TcpInv, TryInv
  <1>4. /\ conn'[t][nr[t] + 1] = c
        /\ \A u \in Tasks, m \in Attempts :
             u # t \/ m # nr[t] + 1 => conn'[u][m] = conn[u][m]
    BY <1>1, SetConnFacts
  <1>5. ConnInv'
    <2> SUFFICES ASSUME NEW u \in Tasks, NEW m \in Attempts
                 PROVE  LET d == conn'[u][m]
                        IN  /\ d.client = "none" => d = NoConn
                            /\ m <= nr'[u] => d.client \in {"none", "raised"}
                            /\ m > nr'[u] + 1 => d.client = "none"
                            /\ m = nr'[u] + 1 /\ st'[u] = "wait" => d.client = "open"
                            /\ m = nr'[u] + 1 /\ st'[u] \in {"new", "ready", "sleep"}
                                 => d.client = "none"
                            /\ d.answer > 0 => d.in = Size
      BY DEF ConnInv
    <2>1. CASE u # t
      <3>1. conn'[u][m] = conn[u][m] /\ st'[u] = st[u] /\ nr'[u] = nr[u]
        BY <1>4, <2>1
      <3> QED  BY <3>1 DEF TcpInv, ConnInv
    <2>2. CASE u = t /\ m = nr[t] + 1
      <3>1. c.answer > 0 => c.in = Size
        BY <1>1 DEF TcpInv, ConnInv
      <3> QED  BY <1>1, <1>4, <2>2, <3>1
    <2>3. CASE u = t /\ m # nr[t] + 1
      <3>1. conn'[u][m] = conn[u][m] /\ m \in Nat
        BY <1>4, <2>3 DEF Attempts
      <3>2. m <= nr[t] \/ m > nr[t] + 1
        BY <1>1, <2>3, <3>1
      <3> QED  BY <1>1, <2>3, <3>1, <3>2 DEF TcpInv, ConnInv
    <2> QED  BY <2>1, <2>2, <2>3
  <1>6. CountInv'
    <2>1. \A u \in Tasks, m \in Attempts :
            conn'[u][m].in = Size <=> conn[u][m].in = Size
      BY <1>1, <1>4
    <2> QED  BY <2>1, SameRuns DEF TcpInv
  <1> QED  BY <1>2, <1>3, <1>5, <1>6 DEF TcpInv

LEMMA ConnectStep ==
  ASSUME TcpInv, NEW t \in Tasks, Connect(t)
  PROVE  TcpInv'
  <1> DEFINE c == [NoConn EXCEPT !.client = "open", !.server = "open"]
  <1>1. /\ c \in Conn /\ c.client = "open" /\ c.in = NoConn.in
        /\ c.answer = NoConn.answer
    <2> DEFINE d == [NoConn EXCEPT !.client = "open"]
    <2>1. /\ d \in Conn /\ d.client = "open" /\ d.in = NoConn.in
          /\ d.answer = NoConn.answer
      BY NoConnFacts DEF Conn
    <2>2. c = [d EXCEPT !.server = "open"]
      OBVIOUS
    <2> HIDE DEF d, c
    <2> QED  BY <2>1, <2>2 DEF Conn
  <1>2. SetConn(t, nr[t] + 1, c)
    BY DEF Connect
  <1> HIDE DEF c
  <1>3. Cur(t) = NoConn
    <2>1. nr[t] + 1 \in Attempts /\ nr[t] \in Nat
      BY CurFacts DEF Connect
    <2> QED  BY <2>1 DEF Connect, Cur, TcpInv, ConnInv
  <1>4. /\ st' \in [Tasks -> States] /\ nr' \in [Tasks -> 0 .. MaxTry]
        /\ got' \in [Tasks -> Tasks \cup {None}]
        /\ st[t] = "ready" /\ st'[t] = "wait" /\ nr'[t] = nr[t]
        /\ \A u \in Tasks \ {t} : st'[u] = st[u] /\ nr'[u] = nr[u]
        /\ UNCHANGED <<ran, off>>
    BY DEF Connect, TcpInv, TypeOK, RpcTypeOK, States
  <1> QED  BY <1>1, <1>2, <1>3, <1>4, ClientStep

(* Writing a field of the current connection that the invariant does not    *)
(* look at.                                                                 *)
LEMMA HandleWriteStep ==
  ASSUME TcpInv, NEW t \in Tasks, HandleWrite(t)
  PROVE  TcpInv'
  <1>1. PICK k \in (Cur(t).out + 1) .. Size :
          SetConn(t, nr[t] + 1, [Cur(t) EXCEPT !.out = k])
    BY DEF HandleWrite
  <1> DEFINE c == [Cur(t) EXCEPT !.out = k]
  <1>2. Cur(t) \in Conn /\ Cur(t).client = "open"
    <2>1. nr[t] + 1 \in Attempts /\ nr[t] \in Nat /\ Cur(t) \in Conn
      BY CurFacts DEF HandleWrite
    <2> QED  BY <2>1 DEF HandleWrite, Cur, TcpInv, ConnInv
  <1>3. /\ c \in Conn /\ c.in = Cur(t).in /\ c.client = "open"
        /\ c.answer = Cur(t).answer
    BY <1>2, TcpAssumption DEF Conn
  <1>4. SetConn(t, nr[t] + 1, c)
    BY <1>1
  <1> HIDE DEF c
  <1>5. /\ st' \in [Tasks -> States] /\ nr' \in [Tasks -> 0 .. MaxTry]
        /\ got' \in [Tasks -> Tasks \cup {None}]
        /\ st[t] = "wait" /\ st'[t] = "wait" /\ nr'[t] = nr[t]
        /\ \A u \in Tasks \ {t} : st'[u] = st[u] /\ nr'[u] = nr[u]
        /\ UNCHANGED <<ran, off>>
    BY DEF HandleWrite, TcpInv, TypeOK, RpcTypeOK, States
  <1> QED  BY <1>3, <1>4, <1>5, ClientStep

(* With the last piece the caller is given the answer, which the VM has     *)
(* only written because it had run the message.                             *)
LEMMA HandleReadStep ==
  ASSUME TcpInv, NEW t \in Tasks, HandleRead(t)
  PROVE  /\ TcpInv'
         /\ \/ UNCHANGED <<st, got>>
            \/ /\ st' = [st EXCEPT ![t] = "ok"]
               /\ got' = [got EXCEPT ![t] = t]
               /\ ran[t] > 0
  <1>1. PICK k \in (Cur(t).result + 1) .. Cur(t).answer :
          IF k = Size
          THEN /\ SetConn(t, nr[t] + 1,
                          [Cur(t) EXCEPT !.result = k, !.client = "closed"])
               /\ st' = [st EXCEPT ![t] = "ok"]
               /\ got' = [got EXCEPT ![t] = t]
          ELSE /\ SetConn(t, nr[t] + 1, [Cur(t) EXCEPT !.result = k])
               /\ UNCHANGED <<st, got>>
    BY DEF HandleRead
  <1>2. /\ nr[t] + 1 \in Attempts /\ nr[t] \in Nat
        /\ Cur(t) \in Conn /\ Cur(t).client = "open"
        /\ Cur(t).answer > 0 => Cur(t).in = Size
    <2>1. nr[t] + 1 \in Attempts /\ nr[t] \in Nat /\ Cur(t) \in Conn
      BY CurFacts DEF HandleRead
    <2> QED  BY <2>1 DEF HandleRead, Cur, TcpInv, ConnInv
  <1>3. k \in 0 .. Size /\ Cur(t).answer > 0
    BY <1>2, TcpAssumption DEF Conn
  <1>4. /\ st[t] = "wait" /\ nr'[t] = nr[t] /\ nr' \in [Tasks -> 0 .. MaxTry]
        /\ \A u \in Tasks \ {t} : nr'[u] = nr[u]
        /\ UNCHANGED <<ran, off>>
    BY DEF HandleRead, TcpInv, TypeOK, RpcTypeOK
  <1>5. CASE k = Size
    <2> DEFINE c == [Cur(t) EXCEPT !.result = k, !.client = "closed"]
    <2>1. /\ c \in Conn /\ c.in = Cur(t).in /\ c.client = "closed"
          /\ c.answer = Cur(t).answer
      BY <1>2, <1>3 DEF Conn
    <2>2. SetConn(t, nr[t] + 1, c)
      BY <1>1, <1>5
    <2> HIDE DEF c
    <2>3. /\ st' = [st EXCEPT ![t] = "ok"] /\ got' = [got EXCEPT ![t] = t]
      BY <1>1, <1>5
    <2>4. /\ st' \in [Tasks -> States] /\ got' \in [Tasks -> Tasks \cup {None}]
          /\ st'[t] = "ok" /\ \A u \in Tasks \ {t} : st'[u] = st[u]
      BY <2>3 DEF TcpInv, TypeOK, RpcTypeOK, States
    <2>5. TcpInv'
      BY <1>4, <2>1, <2>2, <2>4, ClientStep
    <2>6. ran[t] > 0
      <3>1. nr[t] + 1 \in Runs(t)
        BY <1>2, <1>3 DEF Runs, Cur
      <3>2. IsFiniteSet(Runs(t))
        BY AttemptsFinite, FS_Subset DEF Runs
      <3>3. Cardinality(Runs(t)) # 0 /\ Cardinality(Runs(t)) \in Nat
        BY <3>1, <3>2, FS_EmptySet, FS_CardinalityType
      <3> QED  BY <3>3 DEF TcpInv, CountInv
    <2> QED  BY <2>3, <2>5, <2>6
  <1>6. CASE k # Size
    <2> DEFINE c == [Cur(t) EXCEPT !.result = k]
    <2>1. /\ c \in Conn /\ c.in = Cur(t).in /\ c.client = "open"
          /\ c.answer = Cur(t).answer
      BY <1>2, <1>3 DEF Conn
    <2>2. SetConn(t, nr[t] + 1, c) /\ UNCHANGED <<st, got>>
      BY <1>1, <1>6
    <2> HIDE DEF c
    <2>3. /\ st' \in [Tasks -> States] /\ got' \in [Tasks -> Tasks \cup {None}]
          /\ st'[t] = "wait" /\ \A u \in Tasks \ {t} : st'[u] = st[u]
      BY <1>4, <2>2 DEF TcpInv, TypeOK, RpcTypeOK
    <2>4. TcpInv'
      BY <1>4, <2>1, <2>2, <2>3, ClientStep
    <2> QED  BY <2>2, <2>4
  <1> QED  BY <1>5, <1>6

LEMMA HandleCloseStep ==
  ASSUME TcpInv, NEW t \in Tasks, HandleClose(t)
  PROVE  TcpInv'
  <1> DEFINE c == [Cur(t) EXCEPT !.client = "closed"]
  <1>1. Cur(t) \in Conn
    BY CurFacts DEF HandleClose
  <1>2. /\ c \in Conn /\ c.in = Cur(t).in /\ c.client = "closed"
        /\ c.answer = Cur(t).answer
    BY <1>1 DEF Conn
  <1>3. SetConn(t, nr[t] + 1, c)
    BY DEF HandleClose
  <1> HIDE DEF c
  <1>4. /\ st' \in [Tasks -> States] /\ nr' \in [Tasks -> 0 .. MaxTry]
        /\ got' \in [Tasks -> Tasks \cup {None}]
        /\ st[t] = "wait" /\ st'[t] = "failed" /\ nr'[t] = nr[t]
        /\ \A u \in Tasks \ {t} : st'[u] = st[u] /\ nr'[u] = nr[u]
        /\ UNCHANGED <<ran, off>>
    BY DEF HandleClose, TcpInv, TypeOK, RpcTypeOK, States
  <1> QED  BY <1>2, <1>3, <1>4, ClientStep

(* What Raise does to a task, in the terms of ClientStep.                   *)
LEMMA RaiseOutcome ==
  ASSUME TcpInv, NEW t \in Tasks, Raise(t), st[t] \in {"ready", "wait"}
  PROVE  /\ st' \in [Tasks -> States] /\ nr' \in [Tasks -> 0 .. MaxTry]
         /\ \A u \in Tasks \ {t} : st'[u] = st[u] /\ nr'[u] = nr[u]
         /\ \/ st'[t] = "failed"
            \/ st'[t] = "sleep" /\ nr'[t] < MaxTry
         /\ nr'[t] = IF t[1] \in Bulk THEN nr[t] ELSE nr[t] + 1
         /\ t[1] \in Bulk => st'[t] = "failed"
  <1>1. RpcTypeOK /\ nr[t] < MaxTry
    BY DEF TcpInv, TypeOK, TryInv
  <1>2. t[1] \in Bulk => st'[t] = "failed"
    BY DEF Raise, TcpInv, TypeOK, RpcTypeOK
  <1> QED  BY <1>1, <1>2, RaiseFacts, RpcAssumption

LEMMA HandleErrorStep ==
  ASSUME TcpInv, NEW t \in Tasks, HandleError(t)
  PROVE  TcpInv'
  <1> DEFINE c == [Cur(t) EXCEPT !.client = "raised"]
  <1>1. Cur(t) \in Conn
    BY CurFacts DEF HandleError
  <1>2. /\ c \in Conn /\ c.in = Cur(t).in /\ c.client = "raised"
        /\ c.answer = Cur(t).answer
    BY <1>1 DEF Conn
  <1>3. SetConn(t, nr[t] + 1, c)
    BY DEF HandleError
  <1> HIDE DEF c
  <1>4. /\ st' \in [Tasks -> States] /\ nr' \in [Tasks -> 0 .. MaxTry]
        /\ \A u \in Tasks \ {t} : st'[u] = st[u] /\ nr'[u] = nr[u]
        /\ \/ st'[t] = "failed"
           \/ st'[t] = "sleep" /\ nr'[t] < MaxTry
        /\ nr'[t] = IF t[1] \in Bulk THEN nr[t] ELSE nr[t] + 1
        /\ t[1] \in Bulk => st'[t] = "failed"
    BY RaiseOutcome DEF HandleError
  <1>5. /\ got' \in [Tasks -> Tasks \cup {None}]
        /\ st[t] = "wait"
        /\ UNCHANGED <<ran, off>>
    BY DEF HandleError, TcpInv, TypeOK, RpcTypeOK
  <1> QED  BY <1>2, <1>3, <1>4, <1>5, ClientStep

(* Steps that leave the connections alone: a task that is not under way     *)
(* before goes to x, and is not under way after.                            *)
LEMMA IdleStep ==
  ASSUME TcpInv, st' \in [Tasks -> States], nr' \in [Tasks -> 0 .. MaxTry],
         \A t \in Tasks :
           \/ st'[t] = st[t] /\ nr'[t] = nr[t]
           \/ /\ st[t] \in {"new", "ready", "sleep"} /\ nr'[t] = nr[t]
              /\ \/ st'[t] = "ready" /\ nr'[t] < MaxTry
                 \/ st'[t] \in {"ok", "failed"}
           \/ /\ st[t] = "ready" /\ nr'[t] = nr[t] + 1
              /\ \/ st'[t] = "sleep" /\ nr'[t] < MaxTry
                 \/ st'[t] = "failed",
         UNCHANGED <<got, ran, conn>>, off' \subseteq Vms
  PROVE  TcpInv'
  <1>1. TypeOK'
    BY DEF TcpInv, TypeOK, RpcTypeOK
  <1>2. TryInv'
    BY DEF TcpInv, TryInv
  <1>3. ConnInv'
    <2> SUFFICES ASSUME NEW t \in Tasks, NEW n \in Attempts
                 PROVE  LET c == conn[t][n]
                        IN  /\ n <= nr'[t] => c.client \in {"none", "raised"}
                            /\ n > nr'[t] + 1 => c.client = "none"
                            /\ n = nr'[t] + 1 /\ st'[t] = "wait" => c.client = "open"
                            /\ n = nr'[t] + 1 /\ st'[t] \in {"new", "ready", "sleep"}
                                 => c.client = "none"
      BY DEF TcpInv, ConnInv
    <2>1. nr[t] \in Nat /\ n \in Nat
      BY DEF TcpInv, TypeOK, RpcTypeOK, Attempts
    <2>2. CASE nr'[t] = nr[t]
      BY <2>1, <2>2 DEF TcpInv, ConnInv
    <2>3. CASE st[t] = "ready" /\ nr'[t] = nr[t] + 1 /\ st'[t] \in {"sleep", "failed"}
      <3>1. n <= nr[t] \/ n = nr[t] + 1 \/ n > nr[t] + 1
        BY <2>1
      <3> QED  BY <2>1, <2>3, <3>1 DEF TcpInv, ConnInv
    <2> QED  BY <2>2, <2>3
  <1>4. CountInv'
    BY SameRuns DEF TcpInv
  <1> QED  BY <1>1, <1>2, <1>3, <1>4 DEF TcpInv

LEMMA StartStep ==
  ASSUME TcpInv, NEW c \in Clients, Start(c), UNCHANGED tcpVars
  PROVE  TcpInv'
  <1>1. /\ st' \in [Tasks -> States] /\ nr' \in [Tasks -> 0 .. MaxTry]
        /\ UNCHANGED <<got, ran, conn>> /\ off' \subseteq Vms
    BY DEF Start, tcpVars, TcpInv, TypeOK, RpcTypeOK, States
  <1>2. \A t \in Tasks :
          /\ nr'[t] = nr[t]
          /\ \/ st'[t] = st[t]
             \/ st[t] = "new" /\ st'[t] = "ready" /\ nr'[t] < MaxTry
    BY RpcAssumption DEF Start, TcpInv, TryInv
  <1> QED  BY <1>1, <1>2, IdleStep

LEMMA BulkNotSentStep ==
  ASSUME TcpInv, NEW t \in Tasks, BulkNotSent(t)
  PROVE  TcpInv'
  <1>1. /\ st' \in [Tasks -> States] /\ nr' \in [Tasks -> 0 .. MaxTry]
        /\ UNCHANGED <<got, ran, conn>> /\ off' \subseteq Vms
    BY DEF BulkNotSent, TcpInv, TypeOK, RpcTypeOK, States
  <1>2. \A u \in Tasks :
          /\ nr'[u] = nr[u]
          /\ \/ st'[u] = st[u]
             \/ st[u] = "ready" /\ st'[u] = "failed"
    BY DEF BulkNotSent, TcpInv, TypeOK, RpcTypeOK
  <1> QED  BY <1>1, <1>2, IdleStep

LEMMA ConnectErrorStep ==
  ASSUME TcpInv, NEW t \in Tasks, ConnectError(t)
  PROVE  TcpInv'
  <1>1. UNCHANGED <<got, ran, conn>> /\ off' \subseteq Vms
    BY DEF ConnectError, TcpInv, TypeOK
  <1> QED  BY <1>1, RaiseOutcome, IdleStep DEF ConnectError

LEMMA RetryStep ==
  ASSUME TcpInv, NEW t \in Tasks, Retry(t), UNCHANGED tcpVars
  PROVE  TcpInv'
  <1>1. /\ st' \in [Tasks -> States] /\ nr' \in [Tasks -> 0 .. MaxTry]
        /\ UNCHANGED <<got, ran, conn>> /\ off' \subseteq Vms
    BY DEF Retry, tcpVars, TcpInv, TypeOK, RpcTypeOK, States
  <1>2. \A u \in Tasks :
          /\ nr'[u] = nr[u]
          /\ \/ st'[u] = st[u]
             \/ st[u] = "sleep" /\ st'[u] = "ready" /\ nr'[u] < MaxTry
    BY DEF Retry, TcpInv, TryInv, TypeOK, RpcTypeOK
  <1> QED  BY <1>1, <1>2, IdleStep

LEMMA QuietStep ==
  ASSUME TcpInv, UNCHANGED <<st, nr, got, ran, conn>>, off' \subseteq Vms
  PROVE  TcpInv'
  <1>1. st' \in [Tasks -> States] /\ nr' \in [Tasks -> 0 .. MaxTry]
    BY DEF TcpInv, TypeOK, RpcTypeOK
  <1> QED  BY <1>1, IdleStep

(* The invariant is inductive.                                              *)
LEMMA NextInv == TcpInv /\ [Next]_vars => TcpInv'
  <1> SUFFICES ASSUME TcpInv, [Next]_vars PROVE TcpInv'
    OBVIOUS
  <1>1. ASSUME NEW t \in Tasks, Step(t) \/ HandleError(t) PROVE TcpInv'
    BY <1>1, BulkNotSentStep, ConnectStep, ConnectErrorStep, HandleWriteStep,
       HandleReadStep, HandleCloseStep, RetryStep, HandleErrorStep DEF Step
  <1>2. ASSUME NEW t \in Tasks, NEW n \in Attempts,
               Receive(t, n) \/ ReceiverClose(t, n)
        PROVE  TcpInv'
    BY <1>2, ReceiverReadStep, ReceiverWriteStep, ReceiverCloseStep DEF Receive
  <1>3. ASSUME NEW v \in Vms, PowerOff(v) PROVE TcpInv'
    BY <1>3, QuietStep DEF PowerOff, TcpInv, TypeOK
  <1>4. ASSUME UNCHANGED vars PROVE TcpInv'
    BY <1>4, QuietStep DEF vars, TcpInv, TypeOK
  <1> QED  BY <1>1, <1>2, <1>3, <1>4, StartStep DEF Next, Rest

LEMMA SpecInv == Spec => []TcpInv
  BY InitInv, NextInv, PTL DEF Spec

(* The variables of the transport keep their types: what either end has     *)
(* read or written never exceeds the message.                               *)
THEOREM TcpTypeCorrect == Spec => []TypeOK
  <1>1. TcpInv => TypeOK
    BY DEF TcpInv
  <1> QED  BY <1>1, SpecInv, PTL

(* Each run of a message beyond the first is due to an attempt that was     *)
(* lost to an error after its connect (handle_error of TCPClient under      *)
(* call_method).                                                            *)
THEOREM TcpOnlyErrorsRepeat == Spec => []OnlyErrorsRepeat
  <1>1. TcpInv => OnlyErrorsRepeat
    <2> SUFFICES ASSUME TcpInv, NEW t \in Tasks
                 PROVE  ran[t] <= 1 + Cardinality({n \in Attempts :
                                                     conn[t][n].client = "raised"})
      BY DEF OnlyErrorsRepeat
    <2> DEFINE Raised == {n \in Attempts : conn[t][n].client = "raised"}
    <2>1. Runs(t) \subseteq Raised \cup {nr[t] + 1}
      <3> SUFFICES ASSUME NEW n \in Runs(t), n # nr[t] + 1
                   PROVE  conn[t][n].client = "raised" /\ n \in Attempts
        OBVIOUS
      <3>1. n \in Attempts /\ conn[t][n].in = Size /\ n \in Nat /\ nr[t] \in Nat
        BY DEF Runs, Attempts, TcpInv, TypeOK, RpcTypeOK
      <3>2. conn[t][n].client # "none"
        BY <3>1, NoConnFacts DEF TcpInv, ConnInv
      <3>3. n <= nr[t] \/ n > nr[t] + 1
        BY <3>1
      <3> QED  BY <3>1, <3>2, <3>3 DEF TcpInv, ConnInv
    <2>2. IsFiniteSet(Raised) /\ Cardinality(Raised) \in Nat
      BY AttemptsFinite, FS_Subset, FS_CardinalityType
    <2>3. /\ IsFiniteSet(Raised \cup {nr[t] + 1})
          /\ Cardinality(Raised \cup {nr[t] + 1}) <= 1 + Cardinality(Raised)
      <3> HIDE DEF Raised
      <3> QED  BY <2>2, FS_AddElement
    <2>4. Cardinality(Runs(t)) <= Cardinality(Raised \cup {nr[t] + 1})
      BY <2>1, <2>3, FS_Subset
    <2>5. /\ Cardinality(Raised \cup {nr[t] + 1}) \in Nat
          /\ IsFiniteSet(Runs(t)) /\ Cardinality(Runs(t)) \in Nat
      BY <2>1, <2>3, FS_Subset, FS_CardinalityType
    <2> HIDE DEF Raised
    <2>6. ran[t] <= 1 + Cardinality(Raised)
      BY <2>2, <2>3, <2>4, <2>5 DEF TcpInv, CountInv
    <2> QED  BY <2>6 DEF Raised
  <1> QED  BY <1>1, SpecInv, PTL
-----------------------------------------------------------------------------
(* Refinement: what each step is to a caller.                               *)

LEMMA Stutters ==
  ASSUME \A t \in Tasks : Seen(st'[t]) = Seen(st[t]), UNCHANGED <<ran, got>>
  PROVE  UNCHANGED R!rpcVars
  BY DEF R!rpcVars, Call

(* A task that was under way, or about to be, ends with a failure.          *)
LEMMA FailRefines ==
  ASSUME NEW t \in Tasks, st[t] \in {"ready", "wait"}, st'[t] = "failed",
         \A u \in Tasks \ {t} : st'[u] = st[u], UNCHANGED <<ran, got>>
  PROVE  R!Next
  <1>1. Call[t] = "pending"
    BY SeenValues DEF Call
  <1>2. Call' = [u \in Tasks |-> IF u \in {t} THEN "failed" ELSE Call[u]]
    BY SeenValues DEF Call
  <1>3. R!Fail({t})
    BY <1>1, <1>2 DEF R!Fail
  <1> QED  BY <1>3 DEF R!Next

LEMMA RaiseRefines ==
  ASSUME TcpInv, NEW t \in Tasks, Raise(t), st[t] \in {"ready", "wait"},
         UNCHANGED <<ran, got>>
  PROVE  [R!Next]_R!rpcVars
  <1>1. /\ st'[t] \in {"sleep", "failed"}
        /\ \A u \in Tasks \ {t} : st'[u] = st[u]
    BY RaiseOutcome
  <1>2. CASE st'[t] = "failed"
    BY <1>1, <1>2, FailRefines
  <1>3. CASE st'[t] = "sleep"
    BY <1>1, <1>3, SeenValues, Stutters
  <1> QED  BY <1>1, <1>2, <1>3

LEMMA StartRefines ==
  ASSUME NEW c \in Clients, Start(c)
  PROVE  R!Next
  <1> DEFINE T == {t \in Tasks : t[1] = c}
  <1>1. \A t \in T : Call[t] = "new"
    BY SeenValues DEF Start, Call
  <1>2. Call' = [t \in Tasks |-> IF t \in T THEN "pending" ELSE Call[t]]
    <2>1. \A t \in Tasks : st'[t] = IF t \in T THEN "ready" ELSE st[t]
      BY DEF Start
    <2> QED  BY <2>1, SeenValues DEF Call
  <1>3. R!Invoke(T)
    BY <1>1, <1>2 DEF R!Invoke, Start
  <1> QED  BY <1>3 DEF R!Next

LEMMA HandleReadRefines ==
  ASSUME TcpInv, NEW t \in Tasks, HandleRead(t)
  PROVE  [R!Next]_R!rpcVars
  <1>1. st[t] = "wait" /\ UNCHANGED ran
    BY DEF HandleRead
  <1>2. CASE UNCHANGED <<st, got>>
    BY <1>1, <1>2, Stutters
  <1>3. CASE /\ st' = [st EXCEPT ![t] = "ok"]
             /\ got' = [got EXCEPT ![t] = t]
             /\ ran[t] > 0
    <2>1. st'[t] = "ok" /\ \A u \in Tasks \ {t} : st'[u] = st[u]
      BY <1>3 DEF TcpInv, TypeOK, RpcTypeOK
    <2>2. Call[t] = "pending" /\ Call' = [Call EXCEPT ![t] = "ok"]
      BY <1>1, <2>1, SeenValues DEF Call
    <2>3. R!Return(t)
      BY <1>1, <1>3, <2>2 DEF R!Return
    <2> QED  BY <2>3 DEF R!Next
  <1> QED  BY <1>2, <1>3, HandleReadStep

LEMMA ReceiverReadRefines ==
  ASSUME TcpInv, NEW t \in Tasks, NEW n \in Attempts, ReceiverRead(t, n)
  PROVE  [R!Next]_R!rpcVars
  <1>1. UNCHANGED <<st, got>>
    BY DEF ReceiverRead
  <1>2. CASE UNCHANGED ran
    BY <1>1, <1>2, Stutters
  <1>3. CASE ran' = [ran EXCEPT ![t] = @ + 1] /\ ran[t] < MaxTry
    <2>1. conn[t][n].client # "none"
      BY NoConnFacts DEF ReceiverRead, Serving, TcpInv, ConnInv
    <2>2. st[t] # "new"
      <3>1. n \in Nat /\ n >= 1 /\ (st[t] = "new" => nr[t] = 0)
        BY DEF Attempts, TcpInv, TryInv
      <3>2. st[t] = "new" => n = nr[t] + 1 \/ n > nr[t] + 1
        BY <3>1
      <3> QED  BY <2>1, <3>2 DEF TcpInv, ConnInv
    <2>3. Call[t] # "new" /\ UNCHANGED Call
      BY <1>1, <2>2, SeenValues DEF Call, TcpInv, TypeOK, RpcTypeOK
    <2>4. R!Execute(t)
      BY <1>1, <1>3, <2>3 DEF R!Execute
    <2> QED  BY <2>4 DEF R!Next
  <1> QED  BY <1>2, <1>3, ReceiverReadStep

LEMMA StepRefines ==
  ASSUME TcpInv, NEW t \in Tasks, Step(t) \/ HandleError(t)
  PROVE  [R!Next]_R!rpcVars
  <1>1. CASE Connect(t) \/ Retry(t)
    <2>1. /\ st[t] \in {"ready", "sleep"} /\ st'[t] \in {"wait", "ready"}
          /\ \A u \in Tasks \ {t} : st'[u] = st[u]
          /\ UNCHANGED <<ran, got>>
      BY <1>1 DEF Connect, Retry, TcpInv, TypeOK, RpcTypeOK
    <2>2. \A u \in Tasks : Seen(st'[u]) = Seen(st[u])
      BY <2>1, SeenValues
    <2> QED  BY <2>1, <2>2, Stutters
  <1>2. CASE BulkNotSent(t) \/ HandleClose(t)
    <2>1. /\ st[t] \in {"ready", "wait"} /\ st'[t] = "failed"
          /\ \A u \in Tasks \ {t} : st'[u] = st[u]
          /\ UNCHANGED <<ran, got>>
      BY <1>2 DEF BulkNotSent, HandleClose, TcpInv, TypeOK, RpcTypeOK
    <2> QED  BY <2>1, FailRefines
  <1>3. CASE ConnectError(t) \/ HandleError(t)
    BY <1>3, RaiseRefines DEF ConnectError, HandleError
  <1>4. CASE HandleWrite(t)
    BY <1>4, Stutters DEF HandleWrite
  <1>5. CASE HandleRead(t)
    BY <1>5, HandleReadRefines
  <1> QED  BY <1>1, <1>2, <1>3, <1>4, <1>5 DEF Step

(* The asyncore transport implements Rpc with up to MaxTry runs per         *)
(* message: a caller that is given an answer is given the whole one, to its *)
(* own message, after the VM has run it, whatever the pieces are and        *)
(* wherever a connection ends (asynctcp_rpc.py under call_method).          *)
THEOREM TcpRefinesRpc == Spec => RefinesRpc
  <1>1. Init => R!Init
    BY SeenValues DEF Init, RpcInit, R!Init, Call
  <1>2. TcpInv /\ [Next]_vars => [R!Next]_R!rpcVars
    <2> SUFFICES ASSUME TcpInv, [Next]_vars
                 PROVE  [R!Next]_R!rpcVars
      OBVIOUS
    <2>1. ASSUME NEW c \in Clients, Start(c) PROVE R!Next
      BY <2>1, StartRefines
    <2>2. ASSUME NEW t \in Tasks, Step(t) \/ HandleError(t)
          PROVE  [R!Next]_R!rpcVars
      BY <2>2, StepRefines
    <2>3. ASSUME NEW t \in Tasks, NEW n \in Attempts, ReceiverRead(t, n)
          PROVE  [R!Next]_R!rpcVars
      BY <2>3, ReceiverReadRefines
    <2>4. ASSUME UNCHANGED <<st, ran, got>> PROVE UNCHANGED R!rpcVars
      BY <2>4, Stutters
    <2>5. ASSUME NEW t \in Tasks, NEW n \in Attempts,
                 ReceiverWrite(t, n) \/ ReceiverClose(t, n)
          PROVE  UNCHANGED R!rpcVars
      BY <2>4, <2>5 DEF ReceiverWrite, ReceiverClose
    <2>6. ASSUME NEW v \in Vms, PowerOff(v) PROVE UNCHANGED R!rpcVars
      BY <2>4, <2>6 DEF PowerOff
    <2>7. CASE UNCHANGED vars
      BY <2>4, <2>7 DEF vars
    <2> QED  BY <2>1, <2>2, <2>3, <2>5, <2>6, <2>7 DEF Next, Receive, Rest
  <1> QED  BY <1>1, <1>2, SpecInv, PTL DEF Spec, RefinesRpc, R!Spec
=============================================================================
