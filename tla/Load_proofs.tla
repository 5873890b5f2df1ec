---------------------------- MODULE Load_proofs ------------------------------
(***************************************************************************)
(* The load the clients put on the server: where, how fast, and with what. *)
(*                                                                         *)
(* The placement of the clients, SkewPlacement: the pile-up is exact for   *)
(* every number of threads, skew level and number of clients and runs; and *)
(* a client's serverTid is right for as long as no client reconnects.      *)
(*                                                                         *)
(* With a schedule that changes the rates under them, the clients are      *)
(* still placed as SkewPlacement says: Rates implements it. And the master *)
(* and the clients, though they share the rates without a lock, never      *)
(* bring a rate into force that the schedule has not reached.              *)
(*                                                                         *)
(* The requests of a client, RequestMix: every choice of create_request    *)
(* sends something, and the ratios are kept for every configuration and    *)
(* any number of requests.                                                 *)
(***************************************************************************)
EXTENDS Rates, RequestMix, SequenceTheorems, TLAPS, SumTheorems

-----------------------------------------------------------------------------
(* Remainders                                                              *)

LEMMA ModUnique ==
    ASSUME NEW q \in Int, NEW n \in Nat \ {0}, NEW r \in 0..(n - 1)
    PROVE  (n * q + r) % n = r
BY Z3

LEMMA TimesSwap ==
    ASSUME NEW a \in Int, NEW b \in Int, NEW c \in Int
    PROVE  a * (b * c) = b * (a * c)
BY Z3

LEMMA ModRange ==
    ASSUME NEW m \in Nat, NEW n \in Nat \ {0}
    PROVE  m % n \in 0..(n - 1)
BY SMT

LEMMA ModStep ==
    ASSUME NEW m \in Nat, NEW n \in Nat \ {0}
    PROVE  (m + 1) % n = IF m % n = n - 1 THEN 0 ELSE (m % n) + 1
<1> DEFINE r == m % n
           q == m \div n
<1>1. r \in 0..(n - 1) /\ m = n * q + r /\ q \in Nat
  BY SMT
<1> HIDE DEF r, q
<1>2. CASE r = n - 1
  <2>1. m + 1 = n * (q + 1) + 0
    BY <1>1, <1>2, Z3
  <2>2. q + 1 \in Int /\ 0 \in 0..(n - 1)
    BY <1>1
  <2>3. (n * (q + 1) + 0) % n = 0
    BY <2>2, ModUnique, Zenon
  <2> QED  BY <1>2, <2>1, <2>3 DEF r
<1>3. CASE r # n - 1
  <2>1. m + 1 = n * q + (r + 1)
    BY <1>1, Z3
  <2>2. q \in Int /\ r + 1 \in 0..(n - 1)
    BY <1>1, <1>3
  <2>3. (n * q + (r + 1)) % n = r + 1
    BY <2>2, ModUnique, Zenon
  <2> QED  BY <1>3, <2>1, <2>3 DEF r
<1> QED  BY <1>2, <1>3

LEMMA ModAdd ==
    ASSUME NEW m \in Nat, NEW k \in Nat, NEW n \in Nat \ {0}
    PROVE  ((m % n) + k) % n = (m + k) % n
<1> DEFINE r == m % n
           q == m \div n
           z == (r + k) % n
           p == (r + k) \div n
<1>1. r \in 0..(n - 1) /\ m = n * q + r /\ q \in Nat
  BY SMT
<1>2. r + k \in Nat
  BY <1>1
<1> HIDE DEF r, q
<1>3. z \in 0..(n - 1) /\ r + k = n * p + z /\ p \in Nat
  BY <1>2, SMT
<1> HIDE DEF z, p
<1>4. m + k = n * (q + p) + z
  BY <1>1, <1>3, Z3
<1>5. q + p \in Int
  BY <1>1, <1>3
<1>6. (n * (q + p) + z) % n = z
  BY <1>3, <1>5, ModUnique, Zenon
<1> QED  BY <1>4, <1>6 DEF z, r

LEMMA TidRange == ASSUME TypeOK PROVE Tid \in Threads
BY ModRange, ConfigAssumption DEF TypeOK, Tid, Threads

LEMMA AcceptRange == ASSUME TypeOK, Accept PROVE last_thread' \in Threads
<1>1. last_thread + 1 \in Nat
  BY DEF TypeOK, Threads
<1> QED  BY <1>1, ModRange, ConfigAssumption DEF Accept, Threads

-----------------------------------------------------------------------------
(* The inductive invariant                                                 *)

\* Places filled in the current batch.
place == real_conns % ServerThreads

\* Where prepare() stands follows from the place alone: what skew_count holds,
\* and which thread the next connection goes to when it is kept.
Batches ==
    /\ Len(history) = real_conns
    /\ pc \in {"idle", "pile"} =>
          skew_count = IF place < SkewLevel THEN place ELSE SkewLevel
    /\ pc = "pile" => place < SkewLevel
    /\ pc = "real" =>
          skew_count = IF place < SkewLevel THEN place + 1 ELSE SkewLevel
    /\ pc = "real" /\ place < SkewLevel => Tid = 0
    /\ pc \in {"idle", "real"} /\ place >= SkewLevel =>
          Tid = (place - SkewLevel) + 1

\* The server's turn: it has accepted the counted connections and the reconnections.
Turn == last_thread = (total_conns + reconnects) % ServerThreads

IInv == TypeOK /\ Batches /\ PileUpExact /\ Turn

Entry == [thread : Threads, moved : 0..Reconnects]

LEMMA PlaceRange == ASSUME TypeOK PROVE place \in 0..(ServerThreads - 1)
BY ModRange, ConfigAssumption DEF TypeOK, place

LEMMA TypeInit == Init => TypeOK
<1>1. << >> \in Seq(Threads) /\ << >> \in Seq([thread : Threads, moved : 0..Reconnects])
  BY EmptySeq, Zenon
<1> QED  BY <1>1, ConfigAssumption DEF Init, TypeOK, Threads

LEMMA TypeStep == IInv /\ [Next]_vars => TypeOK'
<1> SUFFICES ASSUME TypeOK, Batches, [Next]_vars PROVE TypeOK'
  BY DEF IInv
<1> USE ConfigAssumption
<1>1. CASE Prepare
  BY <1>1 DEF TypeOK, Prepare, statics, clients
<1>2. CASE PileUp
  BY <1>2, AcceptRange DEF TypeOK, PileUp, clients
<1>3. CASE PiledUp
  <2>1. skew_count + 1 \in 0..SkewLevel
    BY <1>3, PlaceRange DEF PiledUp, Batches
  <2> QED  BY <1>3, <2>1 DEF TypeOK, PiledUp, clients
<1>4. CASE Connect
  <2>1. /\ Append(serverTid, Tid) \in Seq(Threads)
        /\ Append(thread_of, last_thread) \in Seq(Threads)
    BY TidRange, AppendProperties DEF TypeOK
  <2>2. Append(history, [thread |-> last_thread, moved |-> reconnects]) \in Seq(Entry)
    <3>1. history \in Seq(Entry) /\ [thread |-> last_thread, moved |-> reconnects] \in Entry
      BY DEF TypeOK, Entry
    <3> QED  BY <3>1, AppendProperties, Zenon
  <2> QED  BY <1>4, <2>1, <2>2, AcceptRange DEF TypeOK, Connect, SkewAfter, Entry
<1>5. CASE \E c \in 1..Len(thread_of) : Reconnect(c)
  <2> PICK c \in 1..Len(thread_of) : Reconnect(c)
    BY <1>5
  <2>1. [thread_of EXCEPT ![c] = last_thread] \in Seq(Threads)
    BY ExceptSeq DEF TypeOK
  <2> QED  BY <2>1, AcceptRange DEF TypeOK, Reconnect, statics
<1>6. CASE NextRun
  <2>1. << >> \in Seq(Threads)
    BY EmptySeq, Zenon
  <2> QED  BY <1>6, <2>1 DEF TypeOK, NextRun, statics
<1>7. CASE Abort \/ UNCHANGED vars
  BY <1>7 DEF TypeOK, Abort, statics, clients, vars
<1> QED  BY <1>1, <1>2, <1>3, <1>4, <1>5, <1>6, <1>7 DEF Next

\* The step that counts: a client takes the next place of its batch.
LEMMA ConnectStep == IInv /\ Connect => Batches' /\ PileUpExact'
<1> SUFFICES ASSUME TypeOK, Batches, PileUpExact, Turn, Connect
             PROVE  Batches' /\ PileUpExact'
  BY DEF IInv
<1> USE ConfigAssumption
<1>1. /\ real_conns \in Nat /\ total_conns \in Nat /\ pc = "real" /\ pc' = "idle"
      /\ real_conns' = real_conns + 1 /\ total_conns' = total_conns + 1
      /\ history' = Append(history, [thread |-> last_thread, moved |-> reconnects])
      /\ skew_count' = SkewAfter
      /\ history \in Seq(Entry) /\ Len(history) = real_conns
  BY DEF TypeOK, Connect, Batches, Entry
<1>2. /\ Len(history') = real_conns + 1
      /\ \A i \in 1..real_conns : history'[i] = history[i]
      /\ history'[real_conns + 1] = [thread |-> last_thread, moved |-> reconnects]
  <2>1. [thread |-> last_thread, moved |-> reconnects] \in Entry
    BY DEF TypeOK, Entry
  <2> QED  BY <1>1, <2>1, AppendProperties
<1>3. Tid = IF place < SkewLevel THEN 0 ELSE (place - SkewLevel) + 1
  BY <1>1, PlaceRange DEF Batches
<1>4. PileUpExact'
  <2> SUFFICES ASSUME NEW i \in 1..(real_conns + 1)
               PROVE  history'[i].thread = (PileThread(i) + history'[i].moved) % ServerThreads
    BY <1>2 DEF PileUpExact
  <2>1. CASE i \in 1..real_conns
    BY <1>1, <1>2, <2>1 DEF PileUpExact
  <2>2. CASE i = real_conns + 1
    <3>1. i - 1 = real_conns
      BY <1>1, <2>2
    <3>2. PileThread(i) = Tid
      BY <1>3, <3>1 DEF place, PileThread
    <3>3. last_thread = (Tid + reconnects) % ServerThreads
      <4>1. total_conns \in Nat /\ reconnects \in Nat /\ ServerThreads \in Nat \ {0}
        BY ConfigAssumption DEF TypeOK
      <4>2. ((total_conns % ServerThreads) + reconnects) % ServerThreads
              = (total_conns + reconnects) % ServerThreads
        BY ONLY <4>1, ModAdd, Zenon
      <4> QED  BY <4>2 DEF Turn, Tid
    <3> QED  BY <1>2, <2>2, <3>2, <3>3
  <2> QED  BY <1>1, <2>1, <2>2
<1>5. place' = IF place = ServerThreads - 1 THEN 0 ELSE place + 1
  BY <1>1, ModStep DEF place
<1>6. Tid' = IF Tid = ServerThreads - 1 THEN 0 ELSE Tid + 1
  BY <1>1, ModStep DEF Tid
<1>7. skew_count' = IF place' = 0 THEN 0 ELSE skew_count
  BY <1>1 DEF SkewAfter, place
<1>8. skew_count' = IF place' < SkewLevel THEN place' ELSE SkewLevel
  BY <1>1, <1>5, <1>7, PlaceRange DEF Batches
<1>9. place' >= SkewLevel => Tid' = (place' - SkewLevel) + 1
  BY <1>3, <1>5, <1>6, PlaceRange
<1> QED  BY <1>1, <1>2, <1>4, <1>8, <1>9 DEF Batches

LEMMA TurnStep == TypeOK /\ Turn /\ [Next]_vars => Turn'
<1> SUFFICES ASSUME TypeOK, Turn, [Next]_vars PROVE Turn'
  OBVIOUS
<1>1. CASE PileUp \/ Connect \/ \E c \in 1..Len(thread_of) : Reconnect(c)
  <2>1. /\ total_conns' + reconnects' = (total_conns + reconnects) + 1
        /\ last_thread' = (last_thread + 1) % ServerThreads
        /\ total_conns + reconnects \in Nat
    BY <1>1 DEF PileUp, Connect, Reconnect, Accept, statics, TypeOK
  <2>2. (last_thread + 1) % ServerThreads = ((total_conns + reconnects) + 1) % ServerThreads
    BY <2>1, ModAdd, ConfigAssumption DEF Turn
  <2> QED  BY <2>1, <2>2 DEF Turn
<1>2. CASE Prepare \/ PiledUp \/ Abort \/ NextRun \/ UNCHANGED vars
  BY <1>2 DEF Turn, Prepare, PiledUp, Abort, NextRun, statics, vars
<1> QED  BY <1>1, <1>2 DEF Next

LEMMA IInvStep == IInv /\ [Next]_vars => IInv'
<1> SUFFICES ASSUME IInv, [Next]_vars PROVE Batches' /\ PileUpExact'
  BY TypeStep, TurnStep DEF IInv
<1>1. CASE Connect
  BY <1>1, ConnectStep
<1>2. CASE Prepare \/ PiledUp \/ Abort \/ NextRun \/ UNCHANGED vars
  <2>1. /\ history' = history /\ real_conns' = real_conns /\ total_conns' = total_conns
        /\ place' = place /\ Tid' = Tid
    BY <1>2 DEF Prepare, PiledUp, Abort, NextRun, statics, clients, vars, place, Tid
  <2>2. PileUpExact'
    BY <2>1 DEF PileUpExact, IInv
  <2>3. Batches'
    BY <1>2, <2>1, PlaceRange, ConfigAssumption
       DEF Prepare, PiledUp, Abort, NextRun, statics, vars, Batches, IInv, Tid
  <2> QED  BY <2>2, <2>3
<1>3. CASE PileUp
  <2>1. /\ history' = history /\ real_conns' = real_conns /\ place' = place
        /\ skew_count' = skew_count /\ pc = "pile" /\ pc' = "pile"
    BY <1>3 DEF PileUp, clients, place
  <2> QED  BY <2>1 DEF PileUpExact, Batches, IInv
<1>4. CASE \E c \in 1..Len(thread_of) : Reconnect(c)
  <2>1. UNCHANGED << history, statics, pc >> /\ place' = place /\ Tid' = Tid
    BY <1>4 DEF Reconnect, statics, place, Tid
  <2> QED  BY <2>1 DEF PileUpExact, Batches, IInv, statics
<1> QED  BY <1>1, <1>2, <1>3, <1>4 DEF Next

LEMMA Inductive == Spec => []IInv
<1>1. Init => IInv
  <2> SUFFICES ASSUME Init PROVE Batches /\ PileUpExact /\ Turn
    BY TypeInit DEF IInv
  <2>1. Len(history) = 0
    BY DEF Init
  <2>2. place = 0 /\ Turn
    <3>1. (ServerThreads * 0 + 0) % ServerThreads = 0
      BY ModUnique, ConfigAssumption
    <3> QED  BY <3>1, ConfigAssumption DEF place, Turn, Init
  <2> QED  BY <2>1, <2>2, ConfigAssumption DEF Init, Batches, PileUpExact
<1> QED  BY <1>1, IInvStep, PTL DEF Spec

-----------------------------------------------------------------------------
(* Theorems                                                                *)

\* Every variable keeps its type; the counters of the pile-up stay in range.
THEOREM TypeCorrect == Spec => []TypeOK
<1>1. IInv => TypeOK
  BY DEF IInv
<1> QED  BY Inductive, <1>1, PTL

\* Every client of every run is on the thread of the server its batch means it for,
\* moved on by the reconnections there had been.
THEOREM PileUpCorrect == Spec => []PileUpExact
<1>1. IInv => PileUpExact
  BY DEF IInv
<1> QED  BY Inductive, <1>1, PTL

\* The client and the server take turns together until somebody reconnects.
LEMMA InStepStep ==
    ASSUME IInv, TrueUntilReconnect, [Next]_vars
    PROVE  TrueUntilReconnect'
<1> USE ConfigAssumption DEF IInv
<1>1. CASE \E c \in 1..Len(thread_of) : Reconnect(c)
  <2>1. reconnects' = reconnects + 1 /\ reconnects \in Nat
    BY <1>1 DEF Reconnect, TypeOK
  <2> QED  BY <2>1 DEF TrueUntilReconnect
<1>2. CASE Connect
  <2>1. reconnects = 0 => last_thread = Tid
    BY DEF Turn, Tid, TypeOK
  <2> QED  BY <1>2, <2>1 DEF Connect, TrueUntilReconnect, ServerTidTrue
<1>3. CASE PileUp \/ Prepare \/ PiledUp \/ Abort \/ NextRun \/ UNCHANGED vars
  BY <1>3 DEF PileUp, Prepare, PiledUp, Abort, NextRun, clients, vars,
       TrueUntilReconnect, ServerTidTrue
<1> QED  BY <1>1, <1>2, <1>3 DEF Next

\* Until the first reconnection every client knows the thread it is on.
THEOREM TidsTrue == Spec => []TrueUntilReconnect
<1>1. Init => TrueUntilReconnect
  BY DEF Init, TrueUntilReconnect, ServerTidTrue
<1>2. IInv /\ TrueUntilReconnect /\ [Next]_vars => TrueUntilReconnect'
  BY InStepStep
<1> QED  BY <1>1, <1>2, Inductive, PTL DEF Spec

-----------------------------------------------------------------------------
(* The clients of a run                                                    *)

\* They are the last ones of the history, and believe to be where they are meant.
Latest ==
    /\ Len(history) = (run - 1) * Clients + Len(serverTid)
    /\ \A c \in 1..Len(serverTid) : serverTid[c] = PileThread((run - 1) * Clients + c)

\* The thread a client that connects believes it is on.
LEMMA TidIs == ASSUME IInv, pc = "real" PROVE Tid = PileThread(Len(history) + 1)
<1>1. /\ Tid = IF place < SkewLevel THEN 0 ELSE (place - SkewLevel) + 1
      /\ Len(history) = real_conns /\ real_conns \in Nat
  BY PlaceRange, ConfigAssumption DEF Batches, IInv, TypeOK
<1>2. (Len(history) + 1) - 1 = real_conns
  BY <1>1
<1> QED  BY <1>1, <1>2 DEF PileThread, place

LEMMA LatestStep ==
    ASSUME IInv, Latest, [Next]_vars
    PROVE  Latest'
<1> USE ConfigAssumption
<1>a. TypeOK
  BY DEF IInv
<1>0. /\ run \in Nat \ {0} /\ (run - 1) * Clients \in Nat /\ run * Clients = (run - 1) * Clients + Clients
      /\ Len(serverTid) \in Nat /\ Len(history) \in Nat
  BY <1>a DEF TypeOK
<1>1. CASE Connect
  <2>1. /\ serverTid' = Append(serverTid, Tid) /\ run' = run
        /\ history' = Append(history, [thread |-> last_thread, moved |-> reconnects])
        /\ [thread |-> last_thread, moved |-> reconnects] \in Entry
        /\ Tid \in Threads /\ serverTid \in Seq(Threads) /\ history \in Seq(Entry)
        /\ Tid = PileThread(Len(history) + 1)
    BY <1>1, <1>a, TidRange, TidIs DEF Connect, TypeOK, Entry
  <2>2. /\ Len(serverTid') = Len(serverTid) + 1 /\ serverTid'[Len(serverTid) + 1] = Tid
        /\ \A c \in 1..Len(serverTid) : serverTid'[c] = serverTid[c]
        /\ Len(history') = Len(history) + 1
    BY <2>1, AppendProperties
  <2> DEFINE past == (run - 1) * Clients
  <2>3. /\ past \in Nat /\ past' = past /\ Len(history) = past + Len(serverTid)
        /\ \A c \in 1..Len(serverTid) : serverTid[c] = PileThread(past + c)
    BY <1>0, <2>1 DEF Latest
  <2> HIDE DEF past
  <2>4. \A c \in 1..Len(serverTid') : serverTid'[c] = PileThread(past + c)
    <3> TAKE c \in 1..Len(serverTid')
    <3>1. CASE c \in 1..Len(serverTid)
      BY <2>2, <2>3, <3>1
    <3>2. CASE c = Len(serverTid) + 1
      <4>1. past + c = Len(history) + 1
        BY <1>0, <2>3, <3>2
      <4> QED  BY <2>1, <2>2, <3>2, <4>1
    <3> QED  BY <1>0, <2>2, <3>1, <3>2
  <2>5. Len(history') = past + Len(serverTid')
    BY <1>0, <2>2, <2>3
  <2> QED  BY <2>1, <2>4, <2>5 DEF Latest, past
<1>2. CASE NextRun
  <2>1. run' = run + 1 /\ serverTid' = << >> /\ history' = history /\ Len(serverTid) = Clients
    BY <1>2 DEF NextRun
  <2>2. Len(history') = (run' - 1) * Clients + 0
    BY <1>0, <2>1 DEF Latest
  <2> QED  BY <2>1, <2>2 DEF Latest
<1>3. CASE Prepare \/ PileUp \/ PiledUp \/ Abort \/ UNCHANGED vars
           \/ \E c \in 1..Len(thread_of) : Reconnect(c)
  <2>1. UNCHANGED << serverTid, history, run >>
    BY <1>3 DEF Prepare, PileUp, PiledUp, Abort, Reconnect, clients, vars
  <2> QED  BY <2>1 DEF Latest
<1> QED  BY <1>1, <1>2, <1>3 DEF Next

LEMMA LatestAlways == Spec => []Latest
<1>1. Init => Latest
  BY ConfigAssumption DEF Init, Latest
<1> QED  BY <1>1, LatestStep, Inductive, PTL DEF Spec

\* The thread of a place of a batch.
PlaceTid(p) == IF p < SkewLevel THEN 0 ELSE (p - SkewLevel) + 1

\* In runs of complete batches a client's place depends on its number alone.
LEMMA TidOfClient ==
    ASSUME TypeOK, Latest, Clients % ServerThreads = 0,
           NEW c \in 1..Len(serverTid)
    PROVE  serverTid[c] = PlaceTid((c - 1) % ServerThreads)
<1> USE ConfigAssumption
<1> DEFINE k == Clients \div ServerThreads
           q == (c - 1) \div ServerThreads
           r == (c - 1) % ServerThreads
           i == (run - 1) * Clients + c
<1>1. Clients = ServerThreads * k /\ k \in Nat
  BY SMT
<1>2. c - 1 = ServerThreads * q + r /\ q \in Nat /\ r \in 0..(ServerThreads - 1)
  BY SMT
<1>3. run - 1 \in Nat
  BY DEF TypeOK
<1>4. serverTid[c] = PileThread(i)
  <2>1. (run - 1) * Clients \in Nat /\ Len(serverTid) \in Nat
    BY <1>3 DEF TypeOK
  <2> QED  BY <2>1 DEF Latest
<1>5. (i - 1) % ServerThreads = r
  <2> HIDE DEF k, q, r
  <2>1. i - 1 = (run - 1) * (ServerThreads * k) + (ServerThreads * q + r)
    BY <1>1, <1>2, <1>3
  <2>2. (run - 1) * (ServerThreads * k) = ServerThreads * ((run - 1) * k)
    <3>1. run - 1 \in Int /\ ServerThreads \in Int /\ k \in Int
      BY <1>1, <1>3
    <3> QED  BY ONLY <3>1, TimesSwap, Zenon
  <2>3. ServerThreads * ((run - 1) * k) + ServerThreads * q = ServerThreads * ((run - 1) * k + q)
    BY <1>1, <1>2, <1>3
  <2>4. (run - 1) * k + q \in Int
    BY <1>1, <1>2, <1>3
  <2>5. i - 1 = ServerThreads * ((run - 1) * k + q) + r
    BY <1>1, <1>2, <1>3, <2>1, <2>2, <2>3
  <2>6. (ServerThreads * ((run - 1) * k + q) + r) % ServerThreads = r
    <3> DEFINE z == (run - 1) * k + q
    <3>1. ServerThreads \in Nat \ {0} /\ z \in Int /\ r \in 0..(ServerThreads - 1)
      BY <1>2, <2>4
    <3> HIDE DEF z
    <3>2. (ServerThreads * z + r) % ServerThreads = r
      BY ONLY <3>1, ModUnique, Zenon
    <3> QED  BY ONLY <3>2 DEF z
  <2> QED  BY ONLY <2>5, <2>6
<1>6. PileThread(i) = PlaceTid((i - 1) % ServerThreads)
  BY DEF PileThread, PlaceTid
<1> QED  BY <1>4, <1>5, <1>6

-----------------------------------------------------------------------------
(* Refinement of SkewPlacement                                             *)

LEMMA PacedStep == PacedNext => [Next]_vars
<1> SUFFICES ASSUME PacedNext PROVE [Next]_vars
  OBVIOUS
<1>1. CASE Place
  BY <1>1 DEF Place, Next
<1>2. CASE ConnectPaced
  BY <1>2 DEF ConnectPaced, Next
<1>3. CASE NextRunPaced
  BY <1>3 DEF NextRunPaced, Next
<1>4. CASE \E c \in 1..Len(thread_of) : ReconnectPaced(c) \/ Send(c)
  BY <1>4 DEF ReconnectPaced, Send, Next
<1>5. CASE AdvanceInterval
  BY <1>5 DEF AdvanceInterval
<1>6. CASE WriteRate
  BY <1>6 DEF WriteRate
<1>7. CASE MasterFinishes
  BY <1>7 DEF MasterFinishes
<1> QED  BY <1>1, <1>2, <1>3, <1>4, <1>5, <1>6, <1>7 DEF PacedNext

\* A schedule and its master change nothing about where the clients are placed:
\* every step of Rates is one of SkewPlacement or leaves it alone.
THEOREM Placement == PacedSpec => Spec
<1>1. PacedInit => Init
  BY DEF PacedInit
<1>2. [PacedNext]_pacedVars => [Next]_vars
  BY PacedStep DEF pacedVars
<1> QED  BY <1>1, <1>2, PTL DEF PacedSpec, Spec

\* Whatever the schedule, the server puts every client where its batch means it,
\* moved on by the reconnections there had been.
THEOREM PileUpScheduled == PacedSpec => []PileUpExact
BY Placement, PileUpCorrect, PTL

\* Whatever the schedule, every client knows its thread until one reconnects.
THEOREM TidsScheduled == PacedSpec => []TrueUntilReconnect
BY Placement, TidsTrue, PTL

-----------------------------------------------------------------------------
(* The rates                                                               *)

RateSet == { Rate(intervals[i], t) : i \in 1..Len(intervals), t \in Threads }

Progress ==
    /\ currentInterval \in 1..Len(intervals)
    /\ written \in 0..ServerThreads
    /\ currentInterval = 1 => written = ServerThreads

OneEach == lambda \in Seq(RateSet) /\ Len(lambda) = Len(serverTid)

RatesInv == Progress /\ (run = 1 => RatesWritten /\ OneEach /\ RateInForce)

LEMMA IntervalType ==
    ASSUME Progress
    PROVE  intervals[currentInterval] \in [goal : Nat, skew : 0..100]
<1> DEFINE I == [goal : Nat, skew : 0..100]
<1>1. intervals \in Seq(I) /\ currentInterval \in 1..Len(intervals)
  BY IntervalsAssumption DEF Progress
<1> HIDE DEF I
<1>2. intervals[currentInterval] \in I
  BY ONLY <1>1, ElementOfSeq, Zenon
<1> QED  BY <1>2 DEF I

\* The rate a client reads is one of the schedule, of an interval reached.
LEMMA RateRead ==
    ASSUME Progress, RatesWritten, run = 1, NEW t \in Threads
    PROVE  /\ qpsPerClient[t] \in RateSet
           /\ \E i \in 1..currentInterval : qpsPerClient[t] = Rate(intervals[i], t)
<1>1. Written(t) \in 1..currentInterval
  BY ConfigAssumption DEF Progress, Written, Threads
<1>2. qpsPerClient[t] = Rate(intervals[Written(t)], t)
  BY DEF RatesWritten
<1>3. 1..currentInterval \subseteq 1..Len(intervals)
  BY IntervalsAssumption DEF Progress
<1> QED  BY <1>1, <1>2, <1>3 DEF RateSet

\* A step that leaves the master alone keeps what the master has written.
LEMMA MasterAlone ==
    ASSUME Progress, RatesWritten, UNCHANGED master, run = 1
    PROVE  Progress' /\ RatesWritten'
BY DEF Progress, RatesWritten, Written, master

LEMMA ClientsAlone ==
    ASSUME OneEach, RateInForce, Progress, run = 1, UNCHANGED << lambda, serverTid >>,
           currentInterval' \in {currentInterval, currentInterval + 1}
    PROVE  OneEach' /\ RateInForce'
<1>1. OneEach'
  BY DEF OneEach, RateSet
<1>2. 1..currentInterval \subseteq 1..currentInterval'
  BY IntervalsAssumption DEF Progress
<1>3. RateInForce'
  BY <1>2 DEF RateInForce
<1> QED  BY <1>1, <1>3

\* In every run the master goes through as many intervals.
LEMMA ProgressStep ==
    ASSUME Progress, [PacedNext]_pacedVars
    PROVE  Progress'
<1> USE IntervalsAssumption, ConfigAssumption DEF Progress
<1>1. CASE NextRunPaced
  BY <1>1 DEF NextRunPaced
<1>2. CASE AdvanceInterval
  BY <1>2 DEF AdvanceInterval
<1>3. CASE WriteRate
  BY <1>3 DEF WriteRate
<1>4. CASE \/ Place \/ ConnectPaced \/ MasterFinishes \/ UNCHANGED pacedVars
           \/ \E c \in 1..Len(thread_of) : ReconnectPaced(c) \/ Send(c)
  <2>1. UNCHANGED << currentInterval, written >>
    BY <1>4 DEF Place, ConnectPaced, MasterFinishes, ReconnectPaced, Send, pacedVars, master
  <2> QED  BY <2>1
<1> QED  BY <1>1, <1>2, <1>3, <1>4 DEF PacedNext

LEMMA RatesStep ==
    ASSUME TypeOK, TypeOK', RatesInv, [PacedNext]_pacedVars
    PROVE  RatesInv'
<1>0. CASE run' # 1
  BY <1>0, ProgressStep DEF RatesInv
<1>a. run' # run => NextRunPaced /\ run' = run + 1
  BY DEF PacedNext, Place, ConnectPaced, NextRunPaced, ReconnectPaced, Send, AdvanceInterval,
         WriteRate, MasterFinishes, Prepare, PileUp, PiledUp, Abort, Connect, NextRun,
         Reconnect, pacedVars, vars
<1> SUFFICES ASSUME run' = 1, run = 1 PROVE RatesInv'
  BY <1>0, <1>a DEF TypeOK
<1> USE DEF RatesInv
<1>1. CASE Place
  <2>1. UNCHANGED << lambda, serverTid, master >>
    BY <1>1 DEF Place, Prepare, PileUp, PiledUp, Abort, generators, clients
  <2>2. currentInterval' = currentInterval
    BY <2>1 DEF master
  <2> QED  BY <2>1, <2>2, MasterAlone, ClientsAlone
<1>2. CASE ConnectPaced
  <2>1. Tid \in Threads
    BY ModRange, ConfigAssumption DEF Tid, Threads, TypeOK
  <2>2. /\ lambda' = Append(lambda, qpsPerClient[Tid])
        /\ serverTid' = Append(serverTid, Tid)
        /\ UNCHANGED master
    BY <1>2 DEF ConnectPaced, Connect
  <2>3. /\ qpsPerClient[Tid] \in RateSet
        /\ \E i \in 1..currentInterval : qpsPerClient[Tid] = Rate(intervals[i], Tid)
    BY <2>1, RateRead
  <2>4. Progress' /\ RatesWritten' /\ currentInterval' = currentInterval
    BY <2>2, MasterAlone DEF master
  <2> DEFINE n == Len(lambda) + 1
  <2>a. lambda \in Seq(RateSet) /\ serverTid \in Seq(Threads) /\ Len(lambda) = Len(serverTid)
    BY DEF OneEach, TypeOK
  <2>b. /\ lambda' \in Seq(RateSet) /\ Len(lambda') = n /\ lambda'[n] = qpsPerClient[Tid]
        /\ \A c \in 1..Len(lambda) : lambda'[c] = lambda[c]
    BY <2>2, <2>3, <2>a, AppendProperties
  <2>c. /\ serverTid' \in Seq(Threads) /\ Len(serverTid') = n /\ serverTid'[n] = Tid
        /\ \A c \in 1..Len(lambda) : serverTid'[c] = serverTid[c]
    BY <2>1, <2>2, <2>a, AppendProperties
  <2>5. OneEach'
    BY <2>b, <2>c DEF OneEach, RateSet
  <2>6. RateInForce'
    <3> SUFFICES ASSUME NEW c \in DOMAIN lambda'
                 PROVE  \E i \in 1..currentInterval : lambda'[c] = Rate(intervals[i], serverTid'[c])
      BY <2>4 DEF RateInForce
    <3>1. Len(lambda) \in Nat /\ DOMAIN lambda = 1..Len(lambda) /\ c \in 1..n
      BY <2>a, <2>b
    <3>2. CASE c \in 1..Len(lambda)
      BY <3>1, <3>2, <2>b, <2>c DEF RateInForce
    <3>3. CASE c = n
      BY <3>3, <2>b, <2>c, <2>3
    <3> QED  BY <3>1, <3>2, <3>3
  <2> QED  BY <2>4, <2>5, <2>6
<1>3. CASE NextRunPaced
  BY <1>3 DEF NextRunPaced, NextRun
<1>4. CASE \E c \in 1..Len(thread_of) : ReconnectPaced(c)
  <2>1. UNCHANGED << lambda, serverTid, master >>
    BY <1>4 DEF ReconnectPaced, Reconnect, generators
  <2>2. currentInterval' = currentInterval
    BY <2>1 DEF master
  <2> QED  BY <2>1, <2>2, MasterAlone, ClientsAlone
<1>5. CASE \E c \in 1..Len(thread_of) : Send(c)
  <2>1. PICK c \in 1..Len(thread_of) : Send(c)
    BY <1>5
  <2>2. /\ lambda' = [lambda EXCEPT ![c] = qpsPerClient[serverTid[c]]]
        /\ UNCHANGED master /\ UNCHANGED serverTid
    BY <2>1 DEF Send, SetLambda, vars, clients
  <2>3. Progress' /\ RatesWritten' /\ currentInterval' = currentInterval
    BY <2>2, MasterAlone DEF master
  <2>4. CASE c \in DOMAIN lambda
    <3>a. serverTid \in Seq(Threads) /\ lambda \in Seq(RateSet) /\ Len(lambda) = Len(serverTid)
      BY DEF OneEach, TypeOK
    <3>b. c \in 1..Len(serverTid)
      BY <2>4, <3>a
    <3>1. serverTid[c] \in Threads
      BY <3>a, <3>b
    <3>2. /\ qpsPerClient[serverTid[c]] \in RateSet
          /\ \E i \in 1..currentInterval :
                qpsPerClient[serverTid[c]] = Rate(intervals[i], serverTid[c])
      BY <3>1, RateRead
    <3>3. OneEach'
      BY <2>2, <2>4, <3>2 DEF OneEach, RateSet
    <3>4. RateInForce'
      BY <2>2, <2>3, <2>4, <3>2 DEF RateInForce, OneEach
    <3> QED  BY <2>3, <3>3, <3>4
  <2>5. CASE c \notin DOMAIN lambda
    <3>1. lambda' = lambda
      BY <2>2, <2>5 DEF OneEach
    <3> QED  BY <3>1, <2>2, <2>3, ClientsAlone
  <2> QED  BY <2>4, <2>5
<1>6. CASE AdvanceInterval
  <2>1. /\ currentInterval < Len(intervals)
        /\ currentInterval' = currentInterval + 1
        /\ written = ServerThreads /\ written' = 0
        /\ UNCHANGED << lambda, serverTid, qpsPerClient >>
    BY <1>6 DEF AdvanceInterval, vars, clients, generators
  <2>2. Progress'
    BY <2>1, IntervalsAssumption, ConfigAssumption DEF Progress
  <2>3. \A t \in Threads : Written(t)' = Written(t)
    BY <2>1, ConfigAssumption DEF Written, Threads, Progress
  <2>4. RatesWritten'
    BY <2>1, <2>3 DEF RatesWritten
  <2> QED  BY <2>1, <2>2, <2>4, ClientsAlone
<1>7. CASE WriteRate
  <2>1. /\ written < ServerThreads /\ written' = written + 1
        /\ qpsPerClient' = [qpsPerClient EXCEPT
               ![written] = Rate(intervals[currentInterval], written)]
        /\ UNCHANGED << currentInterval, lambda, serverTid >>
    BY <1>7 DEF WriteRate, RatesToWrite, vars, clients, generators
  <2>2. Progress'
    BY <2>1, ConfigAssumption DEF Progress
  <2>3. written \in Threads
    BY <2>1, ConfigAssumption DEF Threads, Progress
  <2>4. \A t \in Threads : Written(t)' = IF t = written THEN currentInterval ELSE Written(t)
    BY <2>1, ConfigAssumption DEF Written, Threads, Progress
  <2>5. RatesWritten'
    <3>1. \A t \in Threads : qpsPerClient'[t] = Rate(intervals[Written(t)'], t)
      BY <2>1, <2>3, <2>4 DEF RatesWritten
    <3>2. qpsPerClient' = [t \in Threads |-> qpsPerClient'[t]]
      BY <2>1 DEF RatesWritten
    <3> QED  BY <3>1, <3>2 DEF RatesWritten
  <2> QED  BY <2>1, <2>2, <2>5, ClientsAlone
<1>8. CASE MasterFinishes
  <2>1. UNCHANGED << currentInterval, written, qpsPerClient, lambda, serverTid >>
    BY <1>8 DEF MasterFinishes, vars, clients, generators
  <2>2. Progress' /\ RatesWritten'
    BY <2>1 DEF Progress, RatesWritten, Written
  <2> QED  BY <2>1, <2>2, ClientsAlone
<1>9. CASE UNCHANGED pacedVars
  <2>1. UNCHANGED << lambda, serverTid, master >> /\ currentInterval' = currentInterval
    BY <1>9 DEF pacedVars, vars, clients, generators, master
  <2> QED  BY <2>1, MasterAlone, ClientsAlone
<1> QED
  BY <1>1, <1>2, <1>3, <1>4, <1>5, <1>6, <1>7, <1>8, <1>9 DEF PacedNext

LEMMA RatesInductive == PacedSpec => []RatesInv
<1>1. PacedInit => RatesInv
  <2> SUFFICES ASSUME PacedInit PROVE RatesInv
    OBVIOUS
  <2>1. currentInterval = 1 /\ written = ServerThreads /\ lambda = << >> /\ serverTid = << >>
        /\ run = 1 /\ qpsPerClient = [t \in Threads |-> Rate(intervals[1], t)]
    BY DEF PacedInit, Init
  <2>2. Len(intervals) \in Nat \ {0}
    BY IntervalsAssumption
  <2>3. Progress
    BY <2>1, <2>2, ConfigAssumption DEF Progress
  <2>4. RatesWritten
    <3>1. \A t \in Threads : Written(t) = 1
      BY <2>1, ConfigAssumption DEF Written, Threads
    <3> QED  BY <2>1, <3>1 DEF RatesWritten
  <2>5. OneEach /\ RateInForce
    BY <2>1 DEF OneEach, RateInForce
  <2> QED  BY <2>3, <2>4, <2>5 DEF RatesInv
<1>2. PacedSpec => []TypeOK
  BY Placement, TypeCorrect, PTL
<1>3. TypeOK /\ TypeOK' /\ RatesInv /\ [PacedNext]_pacedVars => RatesInv'
  BY RatesStep
<1> QED  BY <1>1, <1>2, <1>3, PTL DEF PacedSpec

\* For every schedule and every number of threads: while the master writes the
\* rates of an interval, each thread has that interval's rate or the last one's.
THEOREM MasterInOrder == PacedSpec => []RatesWritten
<1>1. RatesInv => RatesWritten
  BY DEF RatesInv, RatesWritten
<1> QED  BY <1>1, RatesInductive, PTL

\* For every schedule and every number of threads and clients: no client sends
\* at a rate that its thread does not have in an interval already reached.
THEOREM RatesScheduled == PacedSpec => []RateInForce
<1>1. RatesInv => RateInForce
  BY DEF RatesInv, RateInForce
<1> QED  BY <1>1, RatesInductive, PTL

-----------------------------------------------------------------------------
(* The load                                                                *)

\* The clients of thread t in the first b batches, and in the batch after them.
OnThread(t, b) == { c \in 1..(b * ServerThreads) : PlaceTid((c - 1) % ServerThreads) = t }
InBatch(t, b) ==
    { c \in (b * ServerThreads + 1)..(b * ServerThreads + ServerThreads) :
        PlaceTid(c - 1 - b * ServerThreads) = t }

LEMMA BatchCount ==
    ASSUME NEW t \in Threads, NEW b \in Nat
    PROVE  IsFiniteSet(InBatch(t, b)) /\ Cardinality(InBatch(t, b)) = PerBatch(t)
<1> USE ConfigAssumption
<1> DEFINE m == b * ServerThreads
<1>1. m \in Nat /\ InBatch(t, b) =
        { c \in (m + 1)..(m + ServerThreads) : PlaceTid(c - 1 - m) = t }
  BY DEF InBatch
<1> HIDE DEF m
<1>2. CASE t = 0
  <2> DEFINE n == IF SkewLevel < ServerThreads THEN SkewLevel ELSE ServerThreads
  <2>1. InBatch(t, b) = (m + 1)..(m + n)
    BY <1>1, <1>2 DEF PlaceTid
  <2>2. IsFiniteSet((m + 1)..(m + n)) /\ Cardinality((m + 1)..(m + n)) = n
    BY <1>1, FS_Interval
  <2> QED  BY <1>2, <2>1, <2>2 DEF PerBatch
<1>3. CASE t # 0 /\ t <= ServerThreads - SkewLevel
  <2>1. InBatch(t, b) = {m + SkewLevel + t}
    BY <1>1, <1>3 DEF PlaceTid, Threads
  <2>2. IsFiniteSet({m + SkewLevel + t}) /\ Cardinality({m + SkewLevel + t}) = 1
    BY FS_Singleton, Zenon
  <2>3. PerBatch(t) = 1
    BY <1>3 DEF PerBatch
  <2> QED  BY ONLY <2>1, <2>2, <2>3, Zenon
<1>4. CASE t # 0 /\ ~(t <= ServerThreads - SkewLevel)
  <2>1. InBatch(t, b) = {}
    BY <1>1, <1>4 DEF PlaceTid, Threads
  <2> QED  BY <1>4, <2>1, FS_EmptySet DEF PerBatch
<1> QED  BY <1>2, <1>3, <1>4

LEMMA NextBatch ==
    ASSUME NEW t \in Threads, NEW b \in Nat
    PROVE  /\ OnThread(t, b + 1) = OnThread(t, b) \cup InBatch(t, b)
           /\ OnThread(t, b) \cap InBatch(t, b) = {}
<1> USE ConfigAssumption
<1> DEFINE m == b * ServerThreads
<1>1. m \in Nat /\ (b + 1) * ServerThreads = m + ServerThreads /\ m = ServerThreads * b
  OBVIOUS
<1>2. \A c \in (m + 1)..(m + ServerThreads) : (c - 1) % ServerThreads = c - 1 - m
  <2> TAKE c \in (m + 1)..(m + ServerThreads)
  <2>1. c - 1 - m \in 0..(ServerThreads - 1) /\ c - 1 = ServerThreads * b + (c - 1 - m)
    BY <1>1
  <2>2. (ServerThreads * b + (c - 1 - m)) % ServerThreads = c - 1 - m
    BY <2>1, ModUnique
  <2> QED  BY <2>1, <2>2
<1> HIDE DEF m
<1>3. /\ OnThread(t, b) = { c \in 1..m : PlaceTid((c - 1) % ServerThreads) = t }
      /\ OnThread(t, b + 1) = { c \in 1..(m + ServerThreads) : PlaceTid((c - 1) % ServerThreads) = t }
      /\ InBatch(t, b) = { c \in (m + 1)..(m + ServerThreads) : PlaceTid(c - 1 - m) = t }
  BY <1>1 DEF OnThread, InBatch, m
<1>4. InBatch(t, b) = { c \in (m + 1)..(m + ServerThreads) : PlaceTid((c - 1) % ServerThreads) = t }
  BY <1>2, <1>3
<1>5. 1..(m + ServerThreads) = 1..m \cup (m + 1)..(m + ServerThreads)
      /\ 1..m \cap (m + 1)..(m + ServerThreads) = {}
  BY <1>1
<1> QED  BY <1>3, <1>4, <1>5

\* Every batch puts as many clients on a thread as the first.
LEMMA BatchesCount ==
    ASSUME NEW t \in Threads, NEW b \in Nat
    PROVE  IsFiniteSet(OnThread(t, b)) /\ Cardinality(OnThread(t, b)) = b * PerBatch(t)
<1> USE ConfigAssumption
<1> DEFINE B == { n \in Nat : /\ IsFiniteSet(OnThread(t, n))
                              /\ Cardinality(OnThread(t, n)) = n * PerBatch(t) }
<1>0. PerBatch(t) \in Nat
  BY DEF PerBatch
<1>1. 0 \in B
  <2>1. OnThread(t, 0) = {}
    BY DEF OnThread
  <2>2. 0 * PerBatch(t) = 0
    BY <1>0
  <2> QED  BY <2>1, <2>2, FS_EmptySet
<1>2. ASSUME NEW n \in B PROVE n + 1 \in B
  <2>1. /\ OnThread(t, n + 1) = OnThread(t, n) \cup InBatch(t, n)
        /\ OnThread(t, n) \cap InBatch(t, n) = {}
    BY NextBatch
  <2>2. IsFiniteSet(InBatch(t, n)) /\ Cardinality(InBatch(t, n)) = PerBatch(t)
    BY BatchCount
  <2>3. /\ IsFiniteSet(OnThread(t, n + 1))
        /\ Cardinality(OnThread(t, n + 1)) = n * PerBatch(t) + PerBatch(t) - Cardinality({})
    BY <2>1, <2>2, FS_Union
  <2>4. n * PerBatch(t) + PerBatch(t) - 0 = (n + 1) * PerBatch(t)
    BY <1>0
  <2> QED  BY <2>3, <2>4, FS_EmptySet
<1> HIDE DEF B
<1>3. B \in SUBSET Nat
  BY DEF B
<1>4. B = Nat
  BY <1>1, <1>2, <1>3, NatInduct
<1> QED  BY <1>4 DEF B

LEMMA LoadIs ==
    ASSUME TypeOK, Latest, TrueUntilReconnect, RatesInv, run = 1,
           Settled, written = ServerThreads, reconnects = 0, Clients % ServerThreads = 0,
           NEW t \in Threads
    PROVE  Load(t) = ((Clients \div ServerThreads) * PerBatch(t))
                        * Rate(intervals[currentInterval], t)
<1> USE ConfigAssumption
<1> DEFINE k == Clients \div ServerThreads
           rate == Rate(intervals[currentInterval], t)
           S == { c \in DOMAIN lambda : thread_of[c] = t }
<1>1. Clients = k * ServerThreads /\ k \in Nat
  BY SMT
<1>2. DOMAIN lambda = 1..Clients /\ Len(serverTid) = Clients
  BY DEF RatesInv, OneEach, Settled, AllConnected
<1>3. \A c \in 1..Clients : thread_of[c] = PlaceTid((c - 1) % ServerThreads)
                            /\ serverTid[c] = thread_of[c]
  BY <1>2, TidOfClient DEF TrueUntilReconnect, ServerTidTrue
<1>4. S = OnThread(t, k)
  BY <1>1, <1>2, <1>3 DEF OnThread
<1>5. qpsPerClient[t] = rate
  <2>1. Written(t) = currentInterval
    BY DEF Written, Threads
  <2> QED  BY <2>1 DEF RatesInv, RatesWritten
<1>6. \A c \in S : lambda[c] = rate
  BY <1>2, <1>3, <1>5 DEF Settled
<1>7. IsFiniteSet(S) /\ Cardinality(S) = k * PerBatch(t)
  <2> HIDE DEF k, S
  <2> QED  BY <1>1, <1>4, BatchesCount
<1>8. rate \in Int
  <2>1. intervals[currentInterval] \in [goal : Nat, skew : 0..100]
    BY IntervalType DEF RatesInv
  <2> QED  BY <2>1 DEF Rate
<1> HIDE DEF S, rate, k
<1>9. SumFunctionOnSet(lambda, S) = Cardinality(S) * rate
  BY <1>6, <1>7, <1>8, SumConstant
<1> QED  BY <1>7, <1>9 DEF Load, S, rate, k

\* parse_config_file, start_master and set_lambda: for every schedule, number of
\* threads, skew level and number of complete batches, once the clients have
\* the rates of an interval the threads of the server get its goal as its skew says.
THEOREM LoadScheduled == PacedSpec => []LoadAsScheduled
<1>1. TypeOK /\ Latest /\ TrueUntilReconnect /\ RatesInv => LoadAsScheduled
  <2> SUFFICES ASSUME TypeOK, Latest, TrueUntilReconnect, RatesInv, run = 1,
                      Settled, written = ServerThreads, reconnects = 0,
                      Clients % ServerThreads = 0, NEW t \in Threads
               PROVE  LET interval == intervals[currentInterval]
                          total == interval.goal * Unit
                      IN  Load(t) * 100 * (ServerThreads - 1) = PerBatch(t) * total *
                            (IF t = 0 THEN interval.skew * (ServerThreads - 1)
                                      ELSE 100 - interval.skew)
    BY DEF LoadAsScheduled
  <2> USE ConfigAssumption
  <2> DEFINE k == Clients \div ServerThreads
             p == PerBatch(t)
             g == intervals[currentInterval].goal
             s == intervals[currentInterval].skew
  <2>1. Clients = ServerThreads * k /\ k \in Int
    BY SMT
  <2>2. g \in Int /\ s \in Int
    <3>1. intervals[currentInterval] \in [goal : Nat, skew : 0..100]
      BY IntervalType DEF RatesInv
    <3> QED  BY <3>1
  <2>3. Load(t) = (k * p) * Rate(intervals[currentInterval], t)
    BY LoadIs
  <2>4. p \in Int /\ ServerThreads \in Int
    BY DEF PerBatch
  <2>5. Unit = 100 * (ServerThreads * k) * (ServerThreads - 1)
    BY <2>1 DEF Unit
  <2>6. k \in Int /\ g \in Int /\ s \in Int
    BY <2>1, <2>2
  <2>7. CASE t = 0
    <3>1. Rate(intervals[currentInterval], t) = g * s * ServerThreads * (ServerThreads - 1)
      BY <2>7 DEF Rate
    <3> HIDE DEF k, p, g, s
    <3>2. Load(t) * 100 * (ServerThreads - 1)
            = p * (g * Unit) * (s * (ServerThreads - 1))
      <4>1. (k * p) * (g * s * ServerThreads * (ServerThreads - 1)) * 100 * (ServerThreads - 1)
              = p * (g * (100 * (ServerThreads * k) * (ServerThreads - 1))) * (s * (ServerThreads - 1))
        BY ONLY <2>4, <2>6, Z3
      <4> QED  BY ONLY <2>3, <2>5, <3>1, <4>1, Zenon
    <3> QED  BY <2>7, <3>2 DEF g, s, p
  <2>8. CASE t # 0
    <3>1. Rate(intervals[currentInterval], t) = g * (100 - s) * ServerThreads
      BY <2>8 DEF Rate
    <3> HIDE DEF k, p, g, s
    <3>2. Load(t) * 100 * (ServerThreads - 1) = p * (g * Unit) * (100 - s)
      <4>1. (k * p) * (g * (100 - s) * ServerThreads) * 100 * (ServerThreads - 1)
              = p * (g * (100 * (ServerThreads * k) * (ServerThreads - 1))) * (100 - s)
        BY ONLY <2>4, <2>6, Z3
      <4> QED  BY ONLY <2>3, <2>5, <3>1, <4>1, Zenon
    <3> QED  BY <2>8, <3>2 DEF g, s, p
  <2> QED  BY <2>7, <2>8
<1>2. PacedSpec => []TypeOK /\ []Latest
  BY Placement, TypeCorrect, LatestAlways, PTL
<1> QED  BY <1>1, <1>2, TidsScheduled, RatesInductive, PTL

-----------------------------------------------------------------------------
(* Which request comes next, RequestMix                                    *)

\* What integer division says about the two comparisons with a quotient.
LEMMA Quotient ==
    ASSUME NEW s \in Nat, NEW w \in Nat, w > 0, NEW q \in Nat
    PROVE  /\ s \div w > q => s >= (q + 1) * w
           /\ ~(s \div w > q) => s + 1 <= (q + 1) * w
<1> DEFINE d == s \div w
<1>1. d \in Int /\ w * d <= s /\ s < w * d + w
  BY SMT
<1>2. d >= q + 1 => w * d >= w * (q + 1)
  BY <1>1, SMT
<1>3. d <= q => w * d <= w * q
  BY <1>1, SMT
<1> QED  BY <1>1, <1>2, <1>3, SMT

\* The type invariant, with the fact that makes it inductive: the position in
\* the cycle is never its end, because the trailing step has restarted it.
MixInv == MixTypeOK /\ ~(m_set_ratio_count = config.a /\ m_get_ratio_count = config.b)

LEMMA ConfigType ==
    ASSUME MixTypeOK
    PROVE  /\ config \in [a: Nat, b: Nat, wa: Nat, wb: Nat, multi: Nat]
           /\ config.a > 0 \/ config.b > 0
BY MixAssumption DEF MixTypeOK

\* A GET reads at least one key and never more than the cycle has left.
LEMMA KeysFit ==
    ASSUME MixTypeOK, GetDue
    PROVE  GetKeys \in 1..(config.b - m_get_ratio_count)
BY ConfigType DEF MixTypeOK, GetDue, GetKeys, Least

LEMMA MixInvInit == MixInit => MixInv
BY MixAssumption DEF MixInit, MixInv, MixTypeOK

LEMMA MixInvStep == MixInv /\ [CreateRequest]_mixVars => MixInv'
<1> SUFFICES ASSUME MixInv, [CreateRequest]_mixVars PROVE MixInv'
  OBVIOUS
<1> USE ConfigType DEF MixInv
<1>1. CASE CreateWait
  BY <1>1 DEF CreateWait, Sent, Overlap, MixTypeOK
<1>2. CASE CreateSet
  BY <1>2 DEF CreateSet, Sent, Overlap, SetDue, MixTypeOK
<1>3. CASE CreateGet
  BY <1>3, KeysFit DEF CreateGet, Sent, Overlap, MixTypeOK
<1>4. CASE UNCHANGED mixVars
  BY <1>4 DEF mixVars, MixTypeOK
<1> QED  BY <1>1, <1>2, <1>3, <1>4 DEF CreateRequest

\* The counters keep their types and stay inside one Set:Get cycle.
THEOREM MixTypeCorrect == MixSpec => []MixTypeOK
<1>1. MixInv => MixTypeOK
  BY DEF MixInv
<1> QED  BY MixInvInit, MixInvStep, <1>1, PTL DEF MixSpec

\* create_request always sends something: the loop of fill_pipeline advances.
THEOREM AlwaysSends == MixSpec => []SomeRequestDue
<1>1. MixInv => SomeRequestDue
  BY ConfigType DEF MixInv, MixTypeOK, SomeRequestDue, SetDue, GetDue
<1> QED  BY MixInvInit, MixInvStep, <1>1, PTL DEF MixSpec

\* WAITs follow the SETs one for one, each SetsPerWait SETs apart.
THEOREM WaitSpacing == MixSpec => []WaitsFollowSets
<1> DEFINE Inv == MixInv /\ WaitsFollowSets
               /\ (config.wb > 0 /\ m_tot_wait_ops = 0 => m_tot_set_ops = 0)
<1>1. MixInit => Inv
  <2> SUFFICES ASSUME MixInit PROVE Inv
    OBVIOUS
  <2>1. MixInv
    BY MixInvInit
  <2>2. config.wb > 0 => SetsPerWait \in Int
    BY <2>1, ConfigType DEF MixInv, SetsPerWait
  <2> HIDE DEF SetsPerWait
  <2> QED  BY <2>1, <2>2 DEF MixInit, WaitsFollowSets
<1>2. Inv /\ [CreateRequest]_mixVars => Inv'
  <2> SUFFICES ASSUME Inv, [CreateRequest]_mixVars PROVE Inv'
    OBVIOUS
  <2> MixInv' /\ MixTypeOK
    BY MixInvStep DEF MixInv
  <2> DEFINE q == config.wa \div config.wb
  <2>1. CASE config.wb > 0
    <3>1. q \in Nat /\ SetsPerWait = q + 1
      BY <2>1, ConfigType, SMT DEF SetsPerWait
    <3>2. config' = config /\ SetsPerWait' = SetsPerWait
      BY DEF CreateRequest, CreateWait, CreateSet, CreateGet, mixVars, SetsPerWait
    <3>3. m_tot_set_ops \in Nat /\ m_tot_wait_ops \in Nat
      BY DEF MixTypeOK
    <3>4. CASE CreateWait
      <4>1. m_tot_wait_ops > 0 => m_tot_set_ops >= (q + 1) * m_tot_wait_ops
        BY <3>1, <3>3, <3>4, Quotient, Zenon DEF CreateWait, WaitDue
      <4> HIDE DEF q
      <4> QED  BY <2>1, <3>1, <3>2, <3>3, <3>4, <4>1, SMT
               DEF CreateWait, WaitsFollowSets
    <3>5. CASE CreateSet
      <4>1. m_tot_wait_ops > 0 /\ m_tot_set_ops + 1 <= (q + 1) * m_tot_wait_ops
        <5>1. m_tot_wait_ops > 0 /\ ~(m_tot_set_ops \div m_tot_wait_ops > q)
          BY <2>1, <3>3, <3>5, ConfigType DEF CreateSet, WaitDue
        <5> QED  BY <5>1, <3>1, <3>3, Quotient, Zenon
      <4> HIDE DEF q
      <4> QED  BY <2>1, <3>1, <3>2, <3>3, <3>5, <4>1, SMT
               DEF CreateSet, WaitsFollowSets
    <3>6. CASE CreateGet \/ UNCHANGED mixVars
      BY <3>2, <3>6 DEF CreateGet, mixVars, WaitsFollowSets
    <3> QED  BY <3>4, <3>5, <3>6 DEF CreateRequest
  <2>2. CASE ~(config.wb > 0)
    <3>1. config' = config
      BY DEF CreateRequest, CreateWait, CreateSet, CreateGet, mixVars
    <3> QED  BY <2>2, <3>1 DEF WaitsFollowSets
  <2> QED  BY <2>1, <2>2
<1> QED  BY <1>1, <1>2, PTL DEF MixSpec

\* The Set:Get ratio is exact over every completed cycle.
THEOREM ExactMix == MixSpec => []RatioExact
<1> DEFINE Inv == MixInv /\ RatioExact
           a == config.a
           b == config.b
           c == m_set_ratio_count
           g == m_get_ratio_count
           S == m_tot_set_ops
           G == tot_get_keys
<1>1. MixInit => Inv
  BY MixInvInit, ConfigType DEF MixInit, MixInv, RatioExact
<1>2. Inv /\ [CreateRequest]_mixVars => Inv'
  <2> SUFFICES ASSUME Inv, [CreateRequest]_mixVars PROVE RatioExact'
    BY MixInvStep
  <2> MixTypeOK
    BY DEF MixInv
  <2>1. /\ a \in Nat /\ b \in Nat /\ c \in Nat /\ g \in Nat
        /\ S \in Nat /\ G \in Nat
        /\ (S - c) * b = (G - g) * a
    BY ConfigType DEF MixTypeOK, RatioExact
  <2>2. a' = a /\ b' = b
    BY DEF CreateRequest, CreateWait, CreateSet, CreateGet, mixVars
  \* A step writes n more keys and reads k more, then may restart the cycle.
  <2>3. ASSUME NEW n \in Int, NEW k \in Int,
               S' = S + n, G' = G + k, Overlap(c + n, g + k)
        PROVE  RatioExact'
    <3>1. /\ S' \in Int /\ G' \in Int /\ c' \in Int /\ g' \in Int
          /\ \/ S' - c' = S - c /\ G' - g' = G - g
             \/ c' = 0 /\ g' = 0 /\ S' - a = S - c /\ G' - b = G - g
      BY <2>1, <2>3 DEF Overlap
    <3>2. (S' - c') * b = (G' - g') * a
      <4> DEFINE d == S - c
                 e == G - g
      <4>1. d \in Int /\ e \in Int /\ d * b = e * a /\ a \in Int /\ b \in Int
        BY <2>1
      <4>2. \/ S' - c' = d /\ G' - g' = e
            \/ c' = 0 /\ g' = 0 /\ S' - a = d /\ G' - b = e
        BY <3>1
      <4>3. ASSUME NEW S1 \in Int, NEW G1 \in Int, NEW c1 \in Int, NEW g1 \in Int,
                   \/ S1 - c1 = d /\ G1 - g1 = e
                   \/ c1 = 0 /\ g1 = 0 /\ S1 - a = d /\ G1 - b = e
            PROVE  (S1 - c1) * b = (G1 - g1) * a
        <5> HIDE DEF d, e, a, b
        <5>1. CASE S1 - c1 = d /\ G1 - g1 = e
          BY <4>1, <5>1
        <5>2. CASE c1 = 0 /\ g1 = 0 /\ S1 - a = d /\ G1 - b = e
          <6>1. S1 - c1 = d + a /\ G1 - g1 = e + b
            BY <4>1, <5>2
          <6>2. (d + a) * b = d * b + a * b /\ (e + b) * a = e * a + a * b
            BY <4>1
          <6> QED  BY <4>1, <6>1, <6>2
        <5> QED  BY <4>3, <5>1, <5>2
      <4> HIDE DEF d, e
      <4> QED  BY <3>1, <4>2, <4>3
    <3> QED  BY <2>2, <3>2 DEF RatioExact
  <2>4. CASE CreateWait
    <3>1. S' = S + 0 /\ G' = G + 0 /\ Overlap(c + 0, g + 0)
      BY <2>1, <2>4 DEF CreateWait
    <3> QED  BY <2>3, <3>1
  <2>5. CASE CreateSet
    <3>1. S' = S + 1 /\ G' = G + 0 /\ Overlap(c + 1, g + 0)
      BY <2>1, <2>5 DEF CreateSet
    <3> QED  BY <2>3, <3>1
  <2>6. CASE CreateGet
    <3>1. GetKeys \in Int
      BY <2>6, KeysFit DEF CreateGet
    <3>2. S' = S + 0 /\ G' = G + GetKeys /\ Overlap(c + 0, g + GetKeys)
      BY <2>1, <2>6 DEF CreateGet
    <3> QED  BY <2>3, <3>1, <3>2
  <2>7. CASE UNCHANGED mixVars
    BY <2>7 DEF mixVars, RatioExact
  <2> QED  BY <2>4, <2>5, <2>6, <2>7 DEF CreateRequest
<1> QED  BY <1>1, <1>2, PTL DEF MixSpec

=============================================================================
