------------------------ MODULE ClusterClient_proofs ------------------------
(***************************************************************************)
(* With one request at a time, and a cluster that does not refuse CLUSTER  *)
(* SLOTS, the slot map is filled before it is used. Whatever the           *)
(* configuration: no counted key is lost, a node has one connection, and   *)
(* keys wait at the node that owns their slot.                             *)
(***************************************************************************)
EXTENDS ClusterClient, SumTheorems, SequenceTheorems, TLAPS

-----------------------------------------------------------------------------
(* The inductive invariant                                                 *)

\* The configurations in which the first CLUSTER SLOTS blocks what follows it.
Serial == config.pipeline = 1 /\ ~config.slots_fail

\* The main connection and its one place, before and after it asks for the slots.
MainRecord(main, state, queue) ==
    [address |-> main, slots |-> state, queue |-> queue, sock |-> "up", memory |-> "good"]

MainWith(main, state, queue) == conns = [i \in {1} |-> MainRecord(main, state, queue)]

NotAsked ==
    /\ \E main : MainWith(main, "none", << >>)
    /\ pc \in {"prepare", "piled", "idle", "start", "assert_failed"}

\* A refused CLUSTER SLOTS would be answered with << >>.
Asking == { SlotsReq } \cup { SlotsAnswered(f) : f \in [Slots -> Nodes] }

Asked ==
    /\ \E main : \E req \in Asking : MainWith(main, "sent", << req >>)
    /\ pc \in {"idle", "start", "fill", "assert_failed"}

\* Until the map is filled there is the main connection only, and its pipeline
\* of one place is empty or taken by CLUSTER SLOTS.
Unmapped == armed \subseteq {1} /\ cur = 1 /\ (NotAsked \/ Asked)

KInv ==
    /\ config \in Configs
    /\ owner \in [Slots -> Nodes]
    /\ Serial => ~blind /\ (~mapped => Unmapped)

-----------------------------------------------------------------------------
(* The steps                                                               *)

LEMMA KInvInit == Init => KInv
<1> SUFFICES ASSUME Init PROVE KInv
  OBVIOUS
<1>1. PICK main : conns = << Connection(main, "up", "good") >>
  BY DEF Init
<1>2. MainWith(main, "none", << >>)
  BY <1>1 DEF MainWith, MainRecord, Connection
<1>3. NotAsked
  BY <1>2 DEF Init, NotAsked
<1> QED  BY <1>3 DEF Init, KInv, Unmapped

\* What there is to know of the connections before the map is filled.
LEMMA MainOnly ==
    ASSUME Unmapped
    PROVE  DOMAIN conns = {1} /\ cur = 1
BY DEF Unmapped, NotAsked, Asked, MainWith

LEMMA QueueOfMain ==
    ASSUME Unmapped
    PROVE  \/ conns[1].queue = << >> /\ NotAsked
           \/ Asked /\ \E req \in Asking : conns[1].queue = << req >>
<1>1. CASE NotAsked
  BY <1>1 DEF NotAsked, MainWith, MainRecord
<1>2. CASE Asked
  <2>1. PICK main : \E req \in Asking : MainWith(main, "sent", << req >>)
    BY <1>2 DEF Asked
  <2>2. PICK req \in Asking : MainWith(main, "sent", << req >>)
    BY <2>1
  <2>3. conns[1].queue = << req >>
    BY <2>2 DEF MainWith, MainRecord
  <2> QED  BY <1>2, <2>3
<1> QED  BY <1>1, <1>2 DEF Unmapped

LEMMA Answers ==
    ASSUME NEW req \in Asking
    PROVE  req.type = "slots" /\ (req.answered => req.answer # << >>)
<1>1. CASE req = SlotsReq
  BY <1>1 DEF SlotsReq
<1>2. CASE \E f \in [Slots -> Nodes] : req = SlotsAnswered(f)
  <2>1. PICK f \in [Slots -> Nodes] : req = SlotsAnswered(f)
    BY <1>2
  <2>2. DOMAIN f # {}
    BY ClusterAssumption
  <2>3. f # << >>
    BY <2>2
  <2> QED  BY <2>1, <2>3 DEF SlotsAnswered
<1> QED  BY <1>1, <1>2 DEF Asking

\* Assigning to members of the main connection.
LEMMA StateChanges ==
    ASSUME NEW main, NEW state, NEW queue, NEW new, MainWith(main, state, queue),
           conns' = [conns EXCEPT ![1].slots = new]
    PROVE  MainWith(main, new, queue)'
<1>1. [MainRecord(main, state, queue) EXCEPT !.slots = new] = MainRecord(main, new, queue)
  BY DEF MainRecord
<1> QED  BY <1>1 DEF MainWith

LEMMA QueueChanges ==
    ASSUME NEW main, NEW state, NEW queue, NEW new, MainWith(main, state, queue),
           conns' = [conns EXCEPT ![1].queue = new]
    PROVE  MainWith(main, state, new)'
<1>1. [MainRecord(main, state, queue) EXCEPT !.queue = new] = MainRecord(main, state, new)
  BY DEF MainRecord
<1> QED  BY <1>1 DEF MainWith

LEMMA BothChange ==
    ASSUME NEW main, NEW state, NEW queue, NEW new, NEW newq, MainWith(main, state, queue),
           conns' = [conns EXCEPT ![1].slots = new, ![1].queue = newq]
    PROVE  MainWith(main, new, newq)'
<1>1. [MainRecord(main, state, queue) EXCEPT !.slots = new] = MainRecord(main, new, queue)
  BY DEF MainRecord
<1>2. [MainRecord(main, new, queue) EXCEPT !.queue = newq] = MainRecord(main, new, newq)
  BY DEF MainRecord
<1>3. [conns EXCEPT ![1].slots = new] = [i \in {1} |-> MainRecord(main, new, queue)]
  BY <1>1 DEF MainWith
<1>4. conns' = [[conns EXCEPT ![1].slots = new] EXCEPT ![1].queue = newq]
  OBVIOUS
<1> QED  BY <1>2, <1>3, <1>4 DEF MainWith

\* A node has accepted the main connection.
LEMMA UpStays ==
    ASSUME Unmapped
    PROVE  conns[1].sock = "up" /\ [conns EXCEPT ![1].sock = "up"] = conns
<1>1. PICK main, state, queue : MainWith(main, state, queue)
  BY DEF Unmapped, NotAsked, Asked
<1>2. [MainRecord(main, state, queue) EXCEPT !.sock = "up"] = MainRecord(main, state, queue)
  BY DEF MainRecord
<1>3. conns[1].sock = "up"
  BY <1>1 DEF MainWith, MainRecord
<1> QED  BY <1>1, <1>2, <1>3 DEF MainWith

\* Nothing is filled, drawn, sent or parsed while the map is not filled.
LEMMA Waits ==
    ASSUME KInv, Serial, ~mapped
    PROVE  ~MayCreate /\ pc \notin {"draw", "parse"}
<1>0. Unmapped
  BY DEF KInv
<1>1. CASE NotAsked
  BY <1>1 DEF NotAsked, MayCreate
<1>2. CASE Asked /\ \E req \in Asking : conns[1].queue = << req >>
  <2>1. Len(conns[1].queue) = 1
    BY <1>2
  <2>2. Pending = 1 /\ config.pipeline = 1
    BY <1>0, <2>1, MainOnly DEF Pending, Serial
  <2>3. ~MayCreate
    BY <2>2 DEF MayCreate
  <2> QED  BY <1>2, <2>3 DEF Asked
<1> QED  BY <1>0, <1>1, <1>2, QueueOfMain

LEMMA PrepareStep ==
    ASSUME KInv, Serial, ~mapped, Connect \/ Disconnect
    PROVE  Unmapped'
<1>1. pc \in {"prepare", "piled"} /\ Unmapped /\ NotAsked
  BY DEF Connect, Disconnect, KInv, Unmapped, Asked
<1>2. PICK main : MainWith(main, "none", << >>)
  BY <1>1 DEF NotAsked
<1>3. MainWith(main, "none", << >>)'
  <2>1. CASE Connect
    <3>1. conns' = [conns EXCEPT ![1].slots = "none"]
      BY <2>1 DEF Connect
    <3> QED  BY <1>2, <3>1, StateChanges
  <2>2. CASE Disconnect
    BY <1>2, <2>2 DEF Disconnect, MainWith
  <2> QED  BY <2>1, <2>2
<1>4. pc' \in {"prepare", "piled", "idle", "assert_failed"} /\ UNCHANGED << armed, cur >>
  BY DEF Connect, Disconnect
<1>5. NotAsked'
  BY <1>3, <1>4 DEF NotAsked
<1> QED  BY <1>1, <1>4, <1>5 DEF Unmapped

LEMMA FillStep ==
    ASSUME KInv, Serial, ~mapped, FillStart
    PROVE  Unmapped'
<1>1. Unmapped /\ cur = 1 /\ pc = "start" /\ cur' = 1 /\ armed' \subseteq {1}
  BY DEF FillStart, Return, KInv, Unmapped
<1>2. CASE conns' = conns /\ pc' = "idle"
  <2>1. NotAsked' \/ Asked'
    BY <1>1, <1>2 DEF Unmapped, NotAsked, Asked, MainWith
  <2> QED  BY <1>1, <2>1 DEF Unmapped
<1>3. CASE pc' = "fill" /\ NotAsked
  <2>1. PICK main : MainWith(main, "none", << >>)
    BY <1>3 DEF NotAsked
  <2>2. conns' = [conns EXCEPT ![1].slots = "sent", ![1].queue = Append(@, SlotsReq)]
    <3>1. conns[1].slots = "none"
      BY <2>1 DEF MainWith, MainRecord
    <3> QED  BY <1>1, <1>3, <3>1 DEF FillStart, Return
  <2>3. conns[1].queue = << >> /\ Append(<< >>, SlotsReq) = << SlotsReq >>
    BY <2>1 DEF MainWith, MainRecord
  <2>4. conns' = [conns EXCEPT ![1].slots = "sent", ![1].queue = << SlotsReq >>]
    BY <2>2, <2>3
  <2>5. MainWith(main, "sent", << SlotsReq >>)'
    BY <2>1, <2>4, BothChange
  <2>6. Asked'
    BY <1>3, <2>5 DEF Asked, Asking
  <2> QED  BY <1>1, <2>6 DEF Unmapped
<1>4. CASE pc' = "fill" /\ Asked
  <2>1. conns[1].slots = "sent"
    <3>1. PICK main : \E req \in Asking : MainWith(main, "sent", << req >>)
      BY <1>4 DEF Asked
    <3> QED  BY <3>1 DEF MainWith, MainRecord
  <2>2. conns' = conns
    BY <1>1, <1>4, <2>1 DEF FillStart, Return
  <2>3. Asked'
    BY <1>4, <2>2 DEF Asked, MainWith
  <2> QED  BY <1>1, <2>3 DEF Unmapped
<1> QED  BY <1>1, <1>2, <1>3, <1>4 DEF FillStart, Return, Unmapped

LEMMA AnswerStep ==
    ASSUME KInv, Serial, ~mapped, SomeAnswer
    PROVE  Unmapped'
<1>0. Unmapped
  BY DEF KInv
<1>1. AnswerSlots(1)
  BY <1>0, MainOnly DEF SomeAnswer
<1>2. UNCHANGED << pc, cur, armed >> /\ conns[1].queue # << >>
  BY <1>1 DEF AnswerSlots
<1>3. Asked
  BY <1>0, <1>2, QueueOfMain
<1>4. PICK answer \in [Slots -> Nodes] :
          conns' = [conns EXCEPT ![1].queue[1] = SlotsAnswered(answer)]
  BY <1>1 DEF AnswerSlots, Serial, KInv
<1>5. PICK main : \E req \in Asking : MainWith(main, "sent", << req >>)
  BY <1>3 DEF Asked
<1>6. PICK req \in Asking : MainWith(main, "sent", << req >>)
  BY <1>5
<1>7. conns' = [conns EXCEPT ![1].queue = << SlotsAnswered(answer) >>]
  <2>1. conns[1].queue = << req >>
    BY <1>6 DEF MainWith, MainRecord
  <2>2. [<< req >> EXCEPT ![1] = SlotsAnswered(answer)] = << SlotsAnswered(answer) >>
    OBVIOUS
  <2> QED  BY <1>4, <2>1, <2>2
<1>8. MainWith(main, "sent", << SlotsAnswered(answer) >>)'
  BY <1>6, <1>7, QueueChanges
<1>9. Asked'
  BY <1>2, <1>3, <1>8 DEF Asked, Asking
<1> QED  BY <1>0, <1>2, <1>9 DEF Unmapped

LEMMA CallbackStep ==
    ASSUME KInv, Serial, ~mapped, ~mapped', SomeCallback
    PROVE  Unmapped'
<1>0. Unmapped
  BY DEF KInv
<1>1. Callback(1)
  BY <1>0, MainOnly DEF SomeCallback
<1>2. CASE Writable(1) \/ ConnectFailed(1)
  <2>1. /\ conns' = conns /\ armed' \subseteq armed /\ cur' = 1
        /\ pc = "idle" /\ pc' \in {"idle", "start"}
    BY <1>0, <1>2, UpStays, MainOnly DEF Writable, ConnectFailed
  <2>2. NotAsked' \/ Asked'
    <3>1. CASE NotAsked
      <4>1. PICK main : MainWith(main, "none", << >>)
        BY <3>1 DEF NotAsked
      <4>2. MainWith(main, "none", << >>)'
        BY <2>1, <4>1 DEF MainWith
      <4> QED  BY <2>1, <4>2 DEF NotAsked
    <3>2. CASE Asked
      <4>1. PICK main : \E req \in Asking : MainWith(main, "sent", << req >>)
        BY <3>2, Zenon DEF Asked
      <4>2. PICK req \in Asking : MainWith(main, "sent", << req >>)
        BY <4>1
      <4>3. MainWith(main, "sent", << req >>)'
        BY <2>1, <4>2 DEF MainWith
      <4>4. req \in Asking'
        BY DEF Asking, SlotsReq, SlotsAnswered
      <4>5. pc' \in {"idle", "start", "fill", "assert_failed"}
        BY <2>1
      <4> QED  BY <4>3, <4>4, <4>5, Zenon DEF Asked
    <3> QED  BY <1>0, <3>1, <3>2 DEF Unmapped
  <2> QED  BY <1>0, <2>1, <2>2 DEF Unmapped
<1>3. CASE AddFails(1)
  <2>1. pc' = "assert_failed" /\ UNCHANGED << conns, armed >> /\ cur' = 1
    BY <1>3 DEF AddFails, HasReply
  <2>2. NotAsked' \/ Asked'
    BY <1>0, <2>1 DEF Unmapped, NotAsked, Asked, MainWith
  <2> QED  BY <1>0, <2>1, <2>2 DEF Unmapped
<1>4. ~HandleData(1)
  <2>1. SUFFICES ASSUME conns[1].queue # << >> PROVE Head(conns[1].queue).type = "slots"
    BY DEF HandleData, HasReply
  <2>2. PICK req \in Asking : conns[1].queue = << req >>
    BY <1>0, <2>1, QueueOfMain
  <2> QED  BY <2>2, Answers
<1>5. ~SlotsFailed(1)
  <2>1. SUFFICES ASSUME conns[1].queue # << >>, Head(conns[1].queue).answered
                 PROVE  Head(conns[1].queue).answer # << >>
    BY DEF SlotsFailed, HasReply, Answered, Answer
  <2>2. PICK req \in Asking : conns[1].queue = << req >>
    BY <1>0, <2>1, QueueOfMain
  <2> QED  BY <2>1, <2>2, Answers
<1>6. ~HandleClusterSlots(1)
  BY DEF HandleClusterSlots
<1> QED  BY <1>1, <1>2, <1>3, <1>4, <1>5, <1>6 DEF Callback

LEMMA KInvStep == KInv /\ [Next]_vars => KInv'
<1> SUFFICES ASSUME KInv, [Next]_vars PROVE KInv'
  OBVIOUS
<1>1. config' = config /\ owner' \in [Slots -> Nodes] /\ (mapped => mapped')
  <2>1. CASE Connect \/ Disconnect \/ SomeAnswer \/ Reshard \/ UNCHANGED vars
    <3>1. CASE Reshard
      BY <3>1 DEF Reshard, history
    <3>2. CASE Connect \/ Disconnect \/ SomeAnswer \/ UNCHANGED vars
      <4>1. UNCHANGED << config, owner, mapped >>
        BY <3>2 DEF Connect, Disconnect, SomeAnswer, AnswerSlots, vars, cluster, history
      <4> QED  BY <4>1 DEF KInv
    <3> QED  BY <2>1, <3>1, <3>2
  <2>2. CASE ParseDone \/ FillStart \/ FillDone \/ FromPool \/ CreateWait \/ RatioReset
    BY <2>2 DEF ParseDone, FillStart, FillDone, FromPool, CreateWait, RatioReset, cluster,
         history, KInv
  <2>3. CASE \E s \in Slots : Draw(s)
    BY <2>3 DEF Draw, DrawOwn, DrawOther, DrawWild, Drawn, cluster, KInv
  <2>4. CASE SomeCallback
    <3>1. PICK i \in DOMAIN conns : Callback(i)
      BY <2>4 DEF SomeCallback
    <3>2. UNCHANGED << config, owner >> /\ (mapped => mapped')
      <4>1. CASE HandleClusterSlots(i)
        BY <4>1 DEF HandleClusterSlots, cluster
      <4>2. CASE \/ Writable(i) \/ ConnectFailed(i)
                 \/ HandleData(i) \/ AddFails(i) \/ SlotsFailed(i)
        BY <4>2 DEF Writable, ConnectFailed, HandleData, AddFails, SlotsFailed, cluster, history
      <4> QED  BY <3>1, <4>1, <4>2 DEF Callback
    <3> QED  BY <3>2 DEF KInv
  <2> QED  BY <2>1, <2>2, <2>3, <2>4 DEF Next, Fill
<1> SUFFICES ASSUME Serial PROVE ~blind' /\ (~mapped' => Unmapped')
  BY <1>1 DEF KInv, Serial
<1>2. ~blind'
  <2>1. CASE \E s \in Slots : Draw(s)
    <3>1. pc = "draw" \/ MayCreate
      BY <2>1 DEF Draw, DrawOwn, DrawOther, DrawWild, Drawn, Drawing
    <3>2. mapped
      BY <3>1, Waits
    <3> QED  BY <2>1, <3>2 DEF Draw, DrawOwn, DrawOther, DrawWild, Drawn, KInv
  <2>2. CASE Connect \/ Disconnect \/ SomeAnswer \/ Reshard \/ UNCHANGED vars
    BY <2>2 DEF Connect, Disconnect, SomeAnswer, AnswerSlots, Reshard, vars, history, KInv
  <2>3. CASE ParseDone \/ FillStart \/ FillDone \/ FromPool \/ CreateWait \/ RatioReset
    BY <2>3 DEF ParseDone, FillStart, FillDone, FromPool, CreateWait, RatioReset, history, KInv
  <2>4. CASE SomeCallback
    BY <2>4 DEF SomeCallback, Callback, Writable, ConnectFailed, HandleData, HandleClusterSlots,
       AddFails, SlotsFailed, history, KInv
  <2> QED  BY <2>1, <2>2, <2>3, <2>4 DEF Next, Fill
<1>3. ASSUME ~mapped' PROVE Unmapped'
  <2>0. ~mapped /\ Unmapped
    BY <1>1, <1>3 DEF KInv
  <2>1. CASE Connect \/ Disconnect
    BY <2>0, <2>1, PrepareStep
  <2>2. CASE FillStart
    BY <2>0, <2>2, FillStep
  <2>3. CASE FillDone
    <3>1. pc' = "idle" /\ UNCHANGED << conns, cur >> /\ armed' \subseteq armed
      BY <2>3 DEF FillDone, Return
    <3>2. NotAsked' \/ Asked'
      <4>1. CASE NotAsked
        BY ONLY <3>1, <4>1 DEF NotAsked, MainWith
      <4>2. CASE Asked
        BY ONLY <3>1, <4>2 DEF Asked, MainWith
      <4> QED  BY <2>0, <4>1, <4>2 DEF Unmapped
    <3> QED  BY <2>0, <3>1, <3>2 DEF Unmapped
  <2>4. ~ParseDone /\ ~FromPool /\ ~CreateWait /\ ~RatioReset /\ ~(\E s \in Slots : Draw(s))
    BY <2>0, Waits
       DEF ParseDone, FromPool, CreateWait, RatioReset, Draw, DrawOwn, DrawOther, DrawWild, Drawn, Drawing
  <2>5. CASE SomeCallback
    BY <1>3, <2>0, <2>5, CallbackStep
  <2>6. CASE SomeAnswer
    BY <2>0, <2>6, AnswerStep
  <2>7. CASE Reshard \/ UNCHANGED vars
    <3>1. UNCHANGED << conns, armed, cur, pc >>
      BY <2>7 DEF Reshard, vars
    <3> QED  BY <2>0, <3>1 DEF Unmapped, NotAsked, Asked, MainWith
  <2> QED  BY <2>1, <2>2, <2>3, <2>4, <2>5, <2>6, <2>7 DEF Next, Fill
<1> QED  BY <1>2, <1>3

\* A key is routed before the map is filled only by a client that pipelines
\* requests behind CLUSTER SLOTS, or whose CLUSTER SLOTS may be refused.
THEOREM MapFirst == Spec => []MapKnown
<1>1. KInv => MapKnown
  BY ClusterAssumption DEF KInv, MapKnown, Serial
<1> QED  BY <1>1, KInvInit, KInvStep, PTL DEF Spec

-----------------------------------------------------------------------------
(* Types                                                                   *)

Addresses == Nodes \cup {"alias"}

Requests ==
    {Data, SlotsReq} \cup { SlotsAnswered(f) : f \in [Slots -> Nodes] \cup { << >> } }

Connections ==
    [address : Addresses, slots : {"none", "sent", "done"}, queue : Seq(Requests),
     sock : {"connecting", "up"}, memory : {"good", "late", "wild"}]

Places == {"prepare", "piled", "idle", "start", "fill", "draw", "parse",
           "assert_failed", "crashed"}

Types ==
    /\ config \in Configs
    /\ owner \in [Slots -> Nodes]
    /\ reshards \in Nat
    /\ conns \in Seq(Connections) /\ conns # << >>
    /\ pools \in Seq(Seq(Slots))
    /\ m_reqs_generated \in Nat /\ m_reqs_processed \in Nat
    /\ {mapped, blind} \subseteq BOOLEAN
    /\ pc \in Places
    /\ cur \in DOMAIN conns

LEMMA RequestKinds ==
    ASSUME NEW req \in Requests
    PROVE  /\ req.type \in {"data", "slots"}
           /\ req.type = "slots" /\ req.answered => req.answer \in [Slots -> Nodes] \cup { << >> }
           /\ req.answered \in BOOLEAN
           /\ req.type = "data" => ~req.answered
<1>1. CASE req = Data
  BY <1>1 DEF Data
<1>2. CASE req = SlotsReq
  BY <1>2 DEF SlotsReq
<1>3. CASE \E f \in [Slots -> Nodes] \cup { << >> } : req = SlotsAnswered(f)
  <2>1. PICK f \in [Slots -> Nodes] \cup { << >> } : req = SlotsAnswered(f)
    BY <1>3
  <2> QED  BY <2>1 DEF SlotsAnswered
<1> QED  BY <1>1, <1>2, <1>3 DEF Requests

LEMMA RequestsAre ==
    /\ Data \in Requests /\ SlotsReq \in Requests
    /\ \A f \in [Slots -> Nodes] \cup { << >> } : SlotsAnswered(f) \in Requests
    /\ Data.type = "data" /\ ~Data.answered
    /\ SlotsReq.type = "slots" /\ ~SlotsReq.answered
    /\ \A f : SlotsAnswered(f).type = "slots" /\ SlotsAnswered(f).answer = f
              /\ SlotsAnswered(f).answered
BY DEF Requests, Data, SlotsReq, SlotsAnswered

-----------------------------------------------------------------------------
(* The requests of a test in a queue                                       *)

LEMMA DataInType ==
    ASSUME NEW queue \in Seq(Requests)
    PROVE  DataIn(queue) \in Nat
<1> DEFINE D == { k \in DOMAIN queue : queue[k].type = "data" }
<1>1. IsFiniteSet(DOMAIN queue)
  BY LenProperties, FS_Interval
<1> QED  BY <1>1, FS_Subset, FS_CardinalityType DEF DataIn

LEMMA DataInEmpty == DataIn(<< >>) = 0
<1>1. { k \in DOMAIN << >> : << >>[k].type = "data" } = {}
  OBVIOUS
<1> QED  BY <1>1, FS_EmptySet DEF DataIn

LEMMA DataInAppend ==
    ASSUME NEW queue \in Seq(Requests), NEW req \in Requests
    PROVE  /\ req.type = "data" => DataIn(Append(queue, req)) = DataIn(queue) + 1
           /\ req.type = "slots" => DataIn(Append(queue, req)) = DataIn(queue)
<1> DEFINE n == Len(queue)
           q == Append(queue, req)
           D == { k \in DOMAIN queue : queue[k].type = "data" }
           E == { k \in DOMAIN q : q[k].type = "data" }
<1>1. /\ n \in Nat /\ DOMAIN queue = 1..n /\ DOMAIN q = 1..(n + 1)
      /\ \A k \in 1..n : q[k] = queue[k]
      /\ q[n + 1] = req
  BY AppendProperties, LenProperties
<1>2. IsFiniteSet(D) /\ n + 1 \notin D
  <2>1. IsFiniteSet(1..n) /\ D \in SUBSET (1..n)
    BY <1>1, FS_Interval
  <2> QED  BY <1>1, <2>1, FS_Subset
<1> HIDE DEF n, q
<1>3. CASE req.type = "data"
  <2>1. E = D \cup {n + 1}
    BY <1>1, <1>3
  <2>2. Cardinality(D \cup {n + 1}) = Cardinality(D) + 1
    BY <1>2, FS_AddElement
  <2> QED  BY <1>3, <2>1, <2>2 DEF DataIn, q
<1>4. CASE req.type = "slots"
  <2>1. E = D
    BY <1>1, <1>4
  <2> QED  BY <1>4, <2>1 DEF DataIn, q
<1>5. req.type \in {"data", "slots"}
  BY RequestKinds
<1> QED  BY <1>3, <1>4, <1>5

LEMMA DataInTail ==
    ASSUME NEW queue \in Seq(Requests), queue # << >>
    PROVE  /\ Head(queue).type = "data" => DataIn(Tail(queue)) = DataIn(queue) - 1
           /\ Head(queue).type = "slots" => DataIn(Tail(queue)) = DataIn(queue)
<1> DEFINE n == Len(queue)
           t == Tail(queue)
           D == { k \in DOMAIN queue : queue[k].type = "data" }
           E == { k \in DOMAIN t : t[k].type = "data" }
           f == [k \in E |-> k + 1]
<1>1. /\ n \in Nat \ {0} /\ DOMAIN queue = 1..n /\ DOMAIN t = 1..(n - 1)
      /\ \A k \in 1..(n - 1) : t[k] = queue[k + 1]
      /\ Head(queue) = queue[1]
  BY HeadTailProperties, LenProperties, EmptySeq
<1>2. IsFiniteSet(D) /\ IsFiniteSet(E)
  <2>1. IsFiniteSet(1..n) /\ IsFiniteSet(1..(n - 1))
    BY <1>1, FS_Interval
  <2>2. D \in SUBSET (1..n) /\ E \in SUBSET (1..(n - 1))
    BY <1>1
  <2> QED  BY <2>1, <2>2, FS_Subset
<1> HIDE DEF n, t
<1>3. Cardinality(E) = Cardinality(D \ {1})
  <2>1. f \in [E -> D \ {1}] /\ \A j, k \in E : f[j] = f[k] => j = k
    BY <1>1
  <2>2. \A k \in D \ {1} : \E j \in E : f[j] = k
    <3> TAKE k \in D \ {1}
    <3>1. k - 1 \in E /\ f[k - 1] = k
      BY <1>1
    <3> QED  BY <3>1
  <2>3. f \in Bijection(E, D \ {1})
    BY <2>1, <2>2 DEF Bijection, Injection, Surjection, IsInjective
  <2> HIDE DEF f, D, E
  <2> QED  BY <1>2, <2>3, FS_Bijection DEF ExistsBijection
<1>4. CASE Head(queue).type = "data"
  <2>1. 1 \in D
    BY <1>1, <1>4
  <2>2. Cardinality(D \ {1}) = Cardinality(D) - 1
    BY <1>2, <2>1, FS_RemoveElement
  <2> QED  BY <1>3, <1>4, <2>2 DEF DataIn, t
<1>5. CASE Head(queue).type = "slots"
  <2>1. D \ {1} = D
    BY <1>1, <1>5
  <2> QED  BY <1>3, <1>5, <2>1 DEF DataIn, t
<1>6. Head(queue).type \in {"data", "slots"}
  BY <1>1, RequestKinds
<1> QED  BY <1>4, <1>5, <1>6

-----------------------------------------------------------------------------
(* The keys in the queues and in the pools                                 *)

Waiting(all) == SumFunction([i \in DOMAIN all |-> DataIn(all[i].queue)])
Pooled(all)  == SumFunction([i \in DOMAIN all |-> Len(all[i])])

LEMMA DomainOfSeq ==
    ASSUME NEW S, NEW s \in Seq(S)
    PROVE  /\ Len(s) \in Nat /\ DOMAIN s = 1..Len(s) /\ IsFiniteSet(DOMAIN s)
           /\ \A i \in DOMAIN s : s[i] \in S
<1>1. Len(s) \in Nat /\ DOMAIN s = 1..Len(s) /\ \A i \in DOMAIN s : s[i] \in S
  BY LenProperties, ElementOfSeq
<1>2. IsFiniteSet(1..Len(s))
  BY <1>1, FS_Interval
<1> QED  BY <1>1, <1>2

LEMMA Joined ==
    ASSUME NEW S, NEW s \in Seq(S), NEW t \in Seq(S)
    PROVE  /\ s \o t \in Seq(S) /\ Len(s \o t) = Len(s) + Len(t)
           /\ DOMAIN (s \o t) = 1..(Len(s) + Len(t))
           /\ \A j \in 1..(Len(s) + Len(t)) :
                 (s \o t)[j] = IF j <= Len(s) THEN s[j] ELSE t[j - Len(s)]
<1>1. /\ s \o t \in Seq(S) /\ Len(s \o t) = Len(s) + Len(t)
      /\ \A j \in 1..(Len(s) + Len(t)) :
            (s \o t)[j] = IF j <= Len(s) THEN s[j] ELSE t[j - Len(s)]
  BY ConcatProperties
<1>2. DOMAIN (s \o t) = 1..Len(s \o t)
  BY <1>1, DomainOfSeq
<1> QED  BY <1>1, <1>2

LEMMA WaitingTypes ==
    ASSUME NEW c \in Seq(Connections)
    PROVE  /\ IsFiniteSet(DOMAIN c)
           /\ \A i \in DOMAIN c : c[i].queue \in Seq(Requests) /\ DataIn(c[i].queue) \in Nat
           /\ Waiting(c) \in Nat
<1> DEFINE v == [i \in DOMAIN c |-> DataIn(c[i].queue)]
<1>1. IsFiniteSet(DOMAIN c) /\ \A i \in DOMAIN c : c[i] \in Connections
  BY DomainOfSeq
<1>2. \A i \in DOMAIN c : c[i].queue \in Seq(Requests)
  BY <1>1 DEF Connections
<1>3. \A i \in DOMAIN c : DataIn(c[i].queue) \in Nat
  BY <1>2, DataInType
<1>4. DOMAIN v = DOMAIN c /\ \A i \in DOMAIN v : v[i] \in Nat
  BY <1>3
<1> HIDE DEF v
<1>5. SumFunctionOnSet(v, DOMAIN v) \in Nat
  BY <1>1, <1>4, SumNat
<1> QED  BY <1>1, <1>2, <1>3, <1>5 DEF Waiting, SumFunction, v

LEMMA PooledTypes ==
    ASSUME NEW p \in Seq(Seq(Slots))
    PROVE  /\ IsFiniteSet(DOMAIN p)
           /\ \A i \in DOMAIN p : Len(p[i]) \in Nat
           /\ Pooled(p) \in Nat
<1> DEFINE v == [i \in DOMAIN p |-> Len(p[i])]
<1>1. IsFiniteSet(DOMAIN p) /\ \A i \in DOMAIN p : p[i] \in Seq(Slots)
  BY DomainOfSeq
<1>2. \A i \in DOMAIN p : Len(p[i]) \in Nat
  BY <1>1, LenProperties
<1>3. DOMAIN v = DOMAIN p /\ \A i \in DOMAIN v : v[i] \in Nat
  BY <1>2
<1> HIDE DEF v
<1>4. SumFunctionOnSet(v, DOMAIN v) \in Nat
  BY <1>1, <1>3, SumNat
<1> QED  BY <1>1, <1>2, <1>4 DEF Pooled, SumFunction, v

\* The requests of one connection change.
LEMMA WaitingChanges ==
    ASSUME NEW c \in Seq(Connections), NEW e \in Seq(Connections), DOMAIN e = DOMAIN c,
           NEW i \in DOMAIN c, \A j \in DOMAIN c \ {i} : e[j].queue = c[j].queue,
           NEW d \in Int, DataIn(e[i].queue) = DataIn(c[i].queue) + d
    PROVE  Waiting(e) = Waiting(c) + d
<1> DEFINE S == DOMAIN c
           v == [j \in DOMAIN c |-> DataIn(c[j].queue)]
           w == [j \in DOMAIN e |-> DataIn(e[j].queue)]
<1>1. IsFiniteSet(S) /\ \A j \in S : v[j] \in Int
  BY WaitingTypes
<1>2. \A j \in S \ {i} : w[j] = v[j]
  OBVIOUS
<1>3. w[i] = v[i] + d
  OBVIOUS
<1>4. DOMAIN v = S /\ DOMAIN w = S
  OBVIOUS
<1>5. SumFunctionOnSet(w, S) = SumFunctionOnSet(v, S) + d
  <2> HIDE DEF S, v, w
  <2>1. i \in S
    BY DEF S
  <2> QED  BY <1>1, <1>2, <1>3, <2>1, SumChange
<1> QED  BY <1>4, <1>5 DEF Waiting, SumFunction

LEMMA PooledChanges ==
    ASSUME NEW p \in Seq(Seq(Slots)), NEW o, DOMAIN o = DOMAIN p,
           NEW i \in DOMAIN p, \A j \in DOMAIN p \ {i} : o[j] = p[j],
           NEW d \in Int, Len(o[i]) = Len(p[i]) + d
    PROVE  Pooled(o) = Pooled(p) + d
<1> DEFINE S == DOMAIN p
           v == [j \in DOMAIN p |-> Len(p[j])]
           w == [j \in DOMAIN o |-> Len(o[j])]
<1>1. IsFiniteSet(S) /\ \A j \in S : v[j] \in Int
  BY PooledTypes
<1>2. \A j \in S \ {i} : w[j] = v[j]
  OBVIOUS
<1>3. w[i] = v[i] + d
  OBVIOUS
<1>4. DOMAIN v = S /\ DOMAIN w = S
  OBVIOUS
<1>5. SumFunctionOnSet(w, S) = SumFunctionOnSet(v, S) + d
  <2> HIDE DEF S, v, w
  <2>1. i \in S
    BY DEF S
  <2> QED  BY <1>1, <1>2, <1>3, <2>1, SumChange
<1> QED  BY <1>4, <1>5 DEF Pooled, SumFunction

\* Connections and pools that are added are empty.
LEMMA WaitingGrows ==
    ASSUME NEW c \in Seq(Connections), NEW e \in Seq(Connections), DOMAIN c \subseteq DOMAIN e,
           \A j \in DOMAIN c : e[j].queue = c[j].queue,
           \A j \in DOMAIN e \ DOMAIN c : e[j].queue = << >>
    PROVE  Waiting(e) = Waiting(c)
<1> DEFINE v == [j \in DOMAIN c |-> DataIn(c[j].queue)]
           w == [j \in DOMAIN e |-> DataIn(e[j].queue)]
<1>1. IsFiniteSet(DOMAIN e) /\ IsFiniteSet(DOMAIN c) /\ \A j \in DOMAIN e : w[j] \in Int
  BY WaitingTypes
<1>2. \A j \in DOMAIN e \ DOMAIN c : w[j] = 0
  BY DataInEmpty
<1>3. \A j \in DOMAIN c : w[j] = v[j]
  OBVIOUS
<1>4. DOMAIN v = DOMAIN c /\ DOMAIN w = DOMAIN e
  OBVIOUS
<1>5. SumFunctionOnSet(w, DOMAIN e) = SumFunctionOnSet(w, DOMAIN c)
  <2> HIDE DEF v, w
  <2> QED  BY <1>1, <1>2, SumWithZeros
<1>6. SumFunctionOnSet(w, DOMAIN c) = SumFunctionOnSet(v, DOMAIN c)
  <2> HIDE DEF v, w
  <2> QED  BY <1>1, <1>3, SumSame
<1> QED  BY <1>4, <1>5, <1>6 DEF Waiting, SumFunction

LEMMA PooledGrows ==
    ASSUME NEW p \in Seq(Seq(Slots)), NEW o \in Seq(Seq(Slots)), DOMAIN p \subseteq DOMAIN o,
           \A j \in DOMAIN p : o[j] = p[j], \A j \in DOMAIN o \ DOMAIN p : o[j] = << >>
    PROVE  Pooled(o) = Pooled(p)
<1> DEFINE v == [j \in DOMAIN p |-> Len(p[j])]
           w == [j \in DOMAIN o |-> Len(o[j])]
<1>1. IsFiniteSet(DOMAIN o) /\ IsFiniteSet(DOMAIN p) /\ \A j \in DOMAIN o : w[j] \in Int
  BY PooledTypes
<1>2. \A j \in DOMAIN o \ DOMAIN p : w[j] = 0
  BY EmptySeq
<1>3. \A j \in DOMAIN p : w[j] = v[j]
  OBVIOUS
<1>4. DOMAIN v = DOMAIN p /\ DOMAIN w = DOMAIN o
  OBVIOUS
<1>5. SumFunctionOnSet(w, DOMAIN o) = SumFunctionOnSet(w, DOMAIN p)
  <2> HIDE DEF v, w
  <2> QED  BY <1>1, <1>2, SumWithZeros
<1>6. SumFunctionOnSet(w, DOMAIN p) = SumFunctionOnSet(v, DOMAIN p)
  <2> HIDE DEF v, w
  <2> QED  BY <1>1, <1>3, SumSame
<1> QED  BY <1>4, <1>5, <1>6 DEF Pooled, SumFunction

-----------------------------------------------------------------------------
(* Connections that are added                                              *)

LEMMA UnknownFinite ==
    ASSUME NEW answer \in [Slots -> Nodes]
    PROVE  IsFiniteSet(Unknown(answer)) /\ Unknown(answer) \subseteq Nodes
<1> DEFINE named == { answer[s] : s \in Slots }
<1>1. answer \in Surjection(Slots, named)
  BY DEF Surjection
<1>2. IsFiniteSet(named)
  BY <1>1, FS_Surjection, ClusterAssumption DEF ExistsSurjection
<1>3. Unknown(answer) \in SUBSET named /\ named \subseteq Nodes
  BY DEF Unknown
<1> QED  BY <1>2, <1>3, FS_Subset

LEMMA AdditionsAre ==
    ASSUME NEW answer \in [Slots -> Nodes], NEW new \in Additions(answer)
    PROVE  /\ new \in Seq(Nodes)
           /\ \A j, k \in DOMAIN new : new[j] = new[k] => j = k
           /\ \A k \in DOMAIN new : new[k] \notin Known
           /\ \A s \in Slots : answer[s] \in Known \/ \E k \in DOMAIN new : new[k] = answer[s]
<1> DEFINE n == Cardinality(Unknown(answer))
<1>1. n \in Nat /\ new \in [1..n -> Unknown(answer)] /\ Unknown(answer) \subseteq Nodes
  BY UnknownFinite, FS_CardinalityType DEF Additions
<1>2. new \in Seq(Nodes)
  BY <1>1, IsASeq
<1>3. ASSUME NEW j \in DOMAIN new, NEW k \in DOMAIN new, new[j] = new[k], j < k
      PROVE  FALSE
  <2>1. Before(answer, new[j], new[k])
    BY <1>3 DEF Additions
  <2>2. PICK s \in Slots : answer[s] = new[j] /\ \A t \in Slots : answer[t] = new[k] => s < t
    BY <2>1 DEF Before
  <2>3. s < s /\ s \in Nat
    BY <1>3, <2>2, ClusterAssumption
  <2> QED  BY <2>3
<1>4. \A j, k \in DOMAIN new : new[j] = new[k] => j = k
  <2> TAKE j, k \in DOMAIN new
  <2>1. j \in Nat /\ k \in Nat
    BY <1>1
  <2> QED  BY <1>3, <2>1
<1>5. \A k \in DOMAIN new : new[k] \notin Known
  BY <1>1 DEF Unknown
<1>6. \A s \in Slots : answer[s] \in Known \/ \E k \in DOMAIN new : new[k] = answer[s]
  BY DEF Additions, Unknown
<1> QED  BY <1>2, <1>4, <1>5, <1>6

LEMMA ShardFound ==
    ASSUME NEW all \in Seq(Connections), NEW address,
           \E k \in DOMAIN all : all[k].address = address
    PROVE  /\ ShardAt(all, address) \in DOMAIN all
           /\ all[ShardAt(all, address)].address = address
<1> DEFINE I == { k \in 1..Len(all) : all[k].address = address }
<1>1. DOMAIN all = 1..Len(all) /\ Len(all) \in Nat
  BY DomainOfSeq
<1>2. I \in SUBSET Nat /\ I # {}
  BY <1>1
<1>3. ShardAt(all, address) = CHOOSE x \in I : \A y \in I : x =< y
  BY <1>2 DEF ShardAt, SelectInSeq, Min
<1>4. \E x \in I : \A y \in I : x =< y
  BY <1>2, LeastNat
<1>5. ShardAt(all, address) \in I
  <2> HIDE DEF I
  <2> QED  BY <1>3, <1>4
<1> QED  BY <1>1, <1>5

\* The requests of connection i of c are q in e, and nothing else changes that
\* the properties are about.
Requeued(c, e, i, q) ==
    /\ e \in Seq(Connections) /\ DOMAIN e = DOMAIN c /\ Len(e) = Len(c)
    /\ \A j \in DOMAIN c : e[j].address = c[j].address
    /\ \A j \in DOMAIN c \ {i} : e[j].queue = c[j].queue
    /\ e[i].queue = q

LEMMA ConnectionAssigned ==
    ASSUME NEW x \in Connections, NEW q \in Seq(Requests), NEW state \in {"none", "sent", "done"}
    PROVE  /\ [x EXCEPT !.queue = q] \in Connections
           /\ [x EXCEPT !.queue = q].address = x.address /\ [x EXCEPT !.queue = q].queue = q
           /\ [x EXCEPT !.slots = state] \in Connections
           /\ [x EXCEPT !.slots = state].address = x.address
           /\ [x EXCEPT !.slots = state].queue = x.queue
<1>1. x = [address |-> x.address, slots |-> x.slots, queue |-> x.queue, sock |-> x.sock,
           memory |-> x.memory]
  BY DEF Connections
<1>2. /\ x.address \in Addresses /\ x.slots \in {"none", "sent", "done"}
      /\ x.queue \in Seq(Requests) /\ x.sock \in {"connecting", "up"}
      /\ x.memory \in {"good", "late", "wild"}
  BY DEF Connections
<1>3. [x EXCEPT !.queue = q] =
        [address |-> x.address, slots |-> x.slots, queue |-> q, sock |-> x.sock,
         memory |-> x.memory]
  BY <1>1
<1>4. [x EXCEPT !.slots = state] =
        [address |-> x.address, slots |-> state, queue |-> x.queue, sock |-> x.sock,
         memory |-> x.memory]
  BY <1>1
<1> QED  BY <1>2, <1>3, <1>4 DEF Connections

LEMMA QueueAssigned ==
    ASSUME NEW c \in Seq(Connections), NEW i \in DOMAIN c, NEW q \in Seq(Requests)
    PROVE  Requeued(c, [c EXCEPT ![i].queue = q], i, q)
<1> DEFINE x == c[i]
           r == [x EXCEPT !.queue = q]
           e == [c EXCEPT ![i] = r]
<1>1. c[i] \in Connections /\ DOMAIN c = 1..Len(c)
  BY DomainOfSeq
<1>2. r \in Connections /\ r.address = c[i].address /\ r.queue = q
  <2> HIDE DEF x
  <2>1. x \in Connections
    BY <1>1 DEF x
  <2>2. r \in Connections /\ r.address = x.address /\ r.queue = q
    BY <2>1, ConnectionAssigned
  <2> QED  BY <2>2 DEF x
<1>3. [c EXCEPT ![i].queue = q] = e
  OBVIOUS
<1> HIDE DEF r
<1>4. e \in Seq(Connections) /\ Len(e) = Len(c)
  BY <1>1, <1>2, ExceptSeq
<1> QED  BY <1>1, <1>2, <1>3, <1>4 DEF Requeued

LEMMA StateAssigned ==
    ASSUME NEW c \in Seq(Connections), NEW i \in DOMAIN c, NEW state \in {"none", "sent", "done"}
    PROVE  Requeued(c, [c EXCEPT ![i].slots = state], i, c[i].queue)
<1> DEFINE x == c[i]
           r == [x EXCEPT !.slots = state]
           e == [c EXCEPT ![i] = r]
<1>1. c[i] \in Connections /\ DOMAIN c = 1..Len(c)
  BY DomainOfSeq
<1>2. r \in Connections /\ r.address = c[i].address /\ r.queue = c[i].queue
  <2> HIDE DEF x
  <2>1. x \in Connections /\ << >> \in Seq(Requests)
    BY <1>1, EmptySeq DEF x
  <2>2. r \in Connections /\ r.address = x.address /\ r.queue = x.queue
    BY <2>1, ConnectionAssigned
  <2> QED  BY <2>2 DEF x
<1>3. [c EXCEPT ![i].slots = state] = e
  OBVIOUS
<1> HIDE DEF r
<1>4. e \in Seq(Connections) /\ Len(e) = Len(c)
  BY <1>1, <1>2, ExceptSeq
<1> QED  BY <1>1, <1>2, <1>3, <1>4 DEF Requeued

LEMMA UpAssigned ==
    ASSUME NEW c \in Seq(Connections), NEW i \in DOMAIN c
    PROVE  Requeued(c, [c EXCEPT ![i].sock = "up"], i, c[i].queue)
<1> DEFINE x == c[i]
           r == [x EXCEPT !.sock = "up"]
           e == [c EXCEPT ![i] = r]
<1>1. c[i] \in Connections /\ DOMAIN c = 1..Len(c)
  BY DomainOfSeq
<1>2. r \in Connections /\ r.address = c[i].address /\ r.queue = c[i].queue
  BY <1>1 DEF Connections
<1>3. [c EXCEPT ![i].sock = "up"] = e
  OBVIOUS
<1> HIDE DEF r
<1>4. e \in Seq(Connections) /\ Len(e) = Len(c)
  BY <1>1, <1>2, ExceptSeq
<1> QED  BY <1>1, <1>2, <1>3, <1>4 DEF Requeued

\* One assignment after the other.
LEMMA BothAssigned ==
    ASSUME NEW c \in Seq(Connections), NEW i \in DOMAIN c, NEW q \in Seq(Requests),
           NEW state \in {"none", "sent", "done"}
    PROVE  /\ Requeued(c, [c EXCEPT ![i].queue = q, ![i].slots = state], i, q)
           /\ Requeued(c, [c EXCEPT ![i].slots = state, ![i].queue = q], i, q)
<1> DEFINE a == [c EXCEPT ![i].queue = q]
           b == [c EXCEPT ![i].slots = state]
<1>1. Requeued(c, a, i, q) /\ Requeued(c, b, i, c[i].queue)
  BY QueueAssigned, StateAssigned
<1>2. [c EXCEPT ![i].queue = q, ![i].slots = state] = [a EXCEPT ![i].slots = state]
  OBVIOUS
<1>3. [c EXCEPT ![i].slots = state, ![i].queue = q] = [b EXCEPT ![i].queue = q]
  OBVIOUS
<1> HIDE DEF a, b
<1>4. Requeued(a, [a EXCEPT ![i].slots = state], i, a[i].queue)
  <2>1. a \in Seq(Connections) /\ i \in DOMAIN a
    BY <1>1 DEF Requeued
  <2> QED  BY <2>1, StateAssigned
<1>5. Requeued(b, [b EXCEPT ![i].queue = q], i, q)
  BY <1>1, QueueAssigned DEF Requeued
<1>6. Requeued(c, [a EXCEPT ![i].slots = state], i, q)
  BY <1>1, <1>4 DEF Requeued
<1>7. Requeued(c, [b EXCEPT ![i].queue = q], i, q)
  BY <1>1, <1>5 DEF Requeued
<1> QED  BY <1>2, <1>3, <1>6, <1>7

-----------------------------------------------------------------------------
(* One connection per node, and every key accounted for                    *)

Structure ==
    /\ \A i, j \in DOMAIN conns : conns[i].address = conns[j].address => i = j
    /\ pc \in {"prepare", "piled"} =>
          Len(conns) = 1 /\ \A i \in DOMAIN pools : pools[i] = << >>
    /\ pc \notin {"prepare", "piled", "assert_failed"} => Len(pools) = Len(conns)
    /\ \A i \in DOMAIN pools : Len(pools[i]) <= QueueMax

Balance ==
    m_reqs_generated
        = m_reqs_processed + Waiting(conns) + (Pooled(pools) + config.generated)

CInv == Types /\ Structure /\ Balance

LEMMA SumOfDifference == \A x, y \in Nat : \A z \in Int : x - y = z => x = y + z
OBVIOUS

\* The facts of the invariant in the form the steps need.
LEMMA CInvFacts ==
    ASSUME CInv
    PROVE  /\ DOMAIN conns = 1..Len(conns) /\ Len(conns) \in Nat /\ 1 \in DOMAIN conns
           /\ DOMAIN pools = 1..Len(pools) /\ Len(pools) \in Nat
           /\ \A i \in DOMAIN conns : conns[i] \in Connections /\ conns[i].queue \in Seq(Requests)
           /\ \A i \in DOMAIN conns : DataIn(conns[i].queue) \in Nat
           /\ \A i \in DOMAIN pools : pools[i] \in Seq(Slots) /\ Len(pools[i]) \in Nat
           /\ Waiting(conns) \in Nat /\ Pooled(pools) \in Nat
<1>1. conns \in Seq(Connections) /\ conns # << >> /\ pools \in Seq(Seq(Slots))
  BY DEF CInv, Types
<1>2. Len(conns) \in Nat \ {0}
  BY <1>1, EmptySeq
<1>3. /\ DOMAIN conns = 1..Len(conns) /\ DOMAIN pools = 1..Len(pools) /\ Len(pools) \in Nat
      /\ \A i \in DOMAIN conns : conns[i] \in Connections
      /\ \A i \in DOMAIN pools : pools[i] \in Seq(Slots)
  BY <1>1, DomainOfSeq
<1>4. 1 \in DOMAIN conns
  BY <1>2, <1>3
<1> QED  BY <1>1, <1>2, <1>3, <1>4, WaitingTypes, PooledTypes

LEMMA GarbageIs == ASSUME Types PROVE config.generated \in Nat
BY ClusterAssumption DEF Types

LEMMA BalanceIsKeys == CInv => KeysAccounted
<1> SUFFICES ASSUME CInv PROVE KeysAccounted
  OBVIOUS
<1>1. /\ Waiting(conns) \in Nat /\ Pooled(pools) \in Nat /\ config.generated \in Nat
      /\ m_reqs_generated \in Nat /\ m_reqs_processed \in Nat
      /\ m_reqs_generated
            = m_reqs_processed + Waiting(conns) + (Pooled(pools) + config.generated)
  BY CInvFacts, GarbageIs DEF CInv, Types, Balance
<1>2. m_reqs_generated - config.generated = m_reqs_processed + Waiting(conns) + Pooled(pools)
  BY ONLY <1>1
<1> QED  BY <1>2 DEF KeysAccounted, Waiting, Pooled

\* A step that leaves connections, pools and counters alone.
LEMMA QuietKeeps ==
    ASSUME CInv, UNCHANGED << config, conns, pools, counters >>,
           owner' \in [Slots -> Nodes], reshards' \in Nat,
           {mapped', blind'} \subseteq BOOLEAN, pc' \in Places, cur' \in DOMAIN conns,
           \/ pc' = pc
           \/ pc' = "assert_failed"
           \/ pc = "piled" /\ pc' = "prepare"
           \/ /\ pc \notin {"prepare", "piled", "assert_failed"}
              /\ pc' \notin {"prepare", "piled", "assert_failed"}
    PROVE  CInv'
<1>1. Types'
  BY DEF CInv, Types, counters
<1>2. Structure'
  BY DEF CInv, Structure
<1>3. Balance'
  BY DEF CInv, Balance, Waiting, Pooled, counters
<1> QED  BY <1>1, <1>2, <1>3 DEF CInv

\* The pools o are the pools p with e keys more.
Repooled(p, o, e) ==
    /\ o \in Seq(Seq(Slots)) /\ DOMAIN o = DOMAIN p /\ Len(o) = Len(p)
    /\ Pooled(o) = Pooled(p) + e
    /\ \A j \in DOMAIN o : Len(o[j]) <= QueueMax

LEMMA PoolAssigned ==
    ASSUME CInv, NEW k \in DOMAIN pools, NEW p \in Seq(Slots), Len(p) <= QueueMax
    PROVE  Repooled(pools, [pools EXCEPT ![k] = p], Len(p) - Len(pools[k]))
<1> DEFINE o == [pools EXCEPT ![k] = p]
           e == Len(p) - Len(pools[k])
<1>1. pools \in Seq(Seq(Slots)) /\ DOMAIN pools = 1..Len(pools)
  BY CInvFacts DEF CInv, Types
<1>2. o \in Seq(Seq(Slots)) /\ Len(o) = Len(pools)
  BY <1>1, ExceptSeq
<1>3. DOMAIN o = DOMAIN pools /\ o[k] = p /\ \A j \in DOMAIN pools \ {k} : o[j] = pools[j]
  BY <1>1
<1>4. e \in Int /\ Len(o[k]) = Len(pools[k]) + e
  <2>1. Len(p) \in Nat /\ Len(pools[k]) \in Nat
    BY CInvFacts, LenProperties
  <2> QED  BY <1>3, <2>1
<1>5. \A j \in DOMAIN pools : Len(pools[j]) <= QueueMax
  BY DEF CInv, Structure
<1> HIDE DEF o, e
<1>6. Pooled(o) = Pooled(pools) + e
  BY <1>1, <1>3, <1>4, PooledChanges
<1>7. \A j \in DOMAIN o : Len(o[j]) <= QueueMax
  BY <1>3, <1>5
<1>8. Repooled(pools, o, e)
  BY <1>2, <1>3, <1>6, <1>7 DEF Repooled
<1> QED  BY <1>8 DEF o, e

LEMMA PoolsKept ==
    ASSUME CInv
    PROVE  Repooled(pools, pools, 0)
BY CInvFacts DEF Repooled, CInv, Types, Structure

\* A step that changes the requests of one connection and the keys of the
\* pools: as many keys leave the balance as enter it.
LEMMA RequeueKeeps ==
    ASSUME CInv, UNCHANGED << config, owner, reshards >>,
           NEW i \in DOMAIN conns, NEW q \in Seq(Requests), Requeued(conns, conns', i, q),
           NEW e \in Int, Repooled(pools, pools', e),
           m_reqs_generated' \in Nat, m_reqs_processed' \in Nat,
           m_reqs_generated' - m_reqs_processed' = m_reqs_generated - m_reqs_processed
               + (DataIn(q) - DataIn(conns[i].queue)) + e,
           {mapped', blind'} \subseteq BOOLEAN,
           pc' \in Places, cur' \in DOMAIN conns,
           \/ pc' = pc /\ pools' = pools
           \/ /\ pc \notin {"prepare", "piled", "assert_failed"}
              /\ pc' \notin {"prepare", "piled", "assert_failed"}
    PROVE  CInv'
<1>1. /\ conns' \in Seq(Connections) /\ DOMAIN conns' = DOMAIN conns /\ Len(conns') = Len(conns)
      /\ \A j \in DOMAIN conns : conns'[j].address = conns[j].address
      /\ \A j \in DOMAIN conns \ {i} : conns'[j].queue = conns[j].queue
      /\ conns'[i].queue = q
  BY DEF Requeued
<1>2. conns' # << >>
  <2>1. DOMAIN conns' # {} /\ DOMAIN << >> = {}
    BY <1>1
  <2> QED  BY <2>1
<1>3. /\ pools' \in Seq(Seq(Slots)) /\ Len(pools') = Len(pools) /\ DOMAIN pools' = DOMAIN pools
      /\ Pooled(pools') = Pooled(pools) + e
      /\ \A j \in DOMAIN pools' : Len(pools'[j]) <= QueueMax
  BY DEF Repooled
<1>4. Types'
  <2>1. /\ config' \in Configs /\ owner' \in [Slots -> Nodes] /\ reshards' \in Nat
        /\ cur' \in DOMAIN conns'
    BY <1>1 DEF CInv, Types
  <2> QED  BY <1>1, <1>2, <1>3, <2>1 DEF Types
<1>5. Structure'
  <2>1. \A j, l \in DOMAIN conns' : conns'[j].address = conns'[l].address => j = l
    BY <1>1 DEF CInv, Structure
  <2>2. CASE pc' = pc /\ pools' = pools
    BY <1>1, <2>1, <2>2 DEF CInv, Structure
  <2>3. CASE /\ pc \notin {"prepare", "piled", "assert_failed"}
             /\ pc' \notin {"prepare", "piled", "assert_failed"}
    <3>1. Len(pools') = Len(conns')
      BY <1>1, <1>3, <2>3 DEF CInv, Structure
    <3> QED  BY <1>3, <2>1, <2>3, <3>1 DEF Structure
  <2> QED  BY <2>2, <2>3
<1>6. Balance'
  <2> DEFINE d == DataIn(q) - DataIn(conns[i].queue)
  <2>1. DataIn(q) \in Nat /\ DataIn(conns[i].queue) \in Nat
    BY DataInType, CInvFacts
  <2>2. d \in Int /\ DataIn(conns'[i].queue) = DataIn(conns[i].queue) + d
    BY <1>1, <2>1
  <2>3. Waiting(conns') = Waiting(conns) + d
    <3> HIDE DEF d
    <3>1. conns \in Seq(Connections)
      BY DEF CInv, Types
    <3> QED  BY <1>1, <2>2, <3>1, WaitingChanges
  <2>4. Waiting(conns) \in Nat /\ Pooled(pools) \in Nat
    BY CInvFacts
  <2>5. m_reqs_generated = m_reqs_processed + Waiting(conns) + (Pooled(pools) + config.generated)
        /\ m_reqs_generated \in Nat /\ m_reqs_processed \in Nat
    BY DEF CInv, Balance, Types
  <2>a. config.generated \in Nat /\ config' = config
    BY GarbageIs DEF CInv
  <2>6. m_reqs_generated' - m_reqs_processed' = m_reqs_generated - m_reqs_processed + d + e
    OBVIOUS
  <2> HIDE DEF d
  <2>7. m_reqs_generated'
          = m_reqs_processed' + Waiting(conns') + (Pooled(pools') + config.generated)
    <3>1. Pooled(pools') = Pooled(pools) + e
      BY <1>3
    <3> DEFINE a == Waiting(conns)
               b == Pooled(pools) + config.generated
    <3>2. Waiting(conns') = a + d /\ Pooled(pools') + config.generated = b + e
      BY <2>2, <2>3, <2>4, <2>a, <3>1
    <3>3. a \in Nat /\ b \in Nat /\ m_reqs_generated = m_reqs_processed + a + b
      <4>1. m_reqs_generated = m_reqs_processed + a + b
        BY <2>5
      <4>2. a \in Nat
        BY <2>4
      <4>3. b \in Nat
        BY <2>4, <2>a
      <4> QED  BY <4>1, <4>2, <4>3
    <3> HIDE DEF a, b
    <3>4. m_reqs_generated' = m_reqs_processed' + (a + d) + (b + e)
      <4>1. d \in Int /\ e \in Int
        BY <2>2
      <4>2. /\ m_reqs_generated \in Nat /\ m_reqs_processed \in Nat
            /\ m_reqs_generated' \in Nat /\ m_reqs_processed' \in Nat
        BY <2>5
      <4>3. m_reqs_generated - m_reqs_processed = a + b
        BY ONLY <3>3, <4>2
      <4>4. m_reqs_generated' - m_reqs_processed' = (a + b) + d + e
        BY ONLY <2>6, <4>3
      <4> DEFINE z == (a + b) + d + e
      <4>5. z \in Int /\ m_reqs_generated' - m_reqs_processed' = z
        BY ONLY <3>3, <4>1, <4>4
      <4>6. m_reqs_processed' + z = m_reqs_processed' + (a + d) + (b + e)
        BY ONLY <3>3, <4>1, <4>2
      <4> HIDE DEF z
      <4>7. m_reqs_generated' = m_reqs_processed' + z
        BY ONLY <4>2, <4>5, SumOfDifference, Zenon
      <4> QED  BY ONLY <4>6, <4>7
    <3> QED  BY <3>2, <3>4
  <2>8. Waiting(conns)' = Waiting(conns') /\ Pooled(pools)' = Pooled(pools')
    BY DEF Waiting, Pooled
  <2> QED  BY <2>7, <2>8, <2>a DEF Balance
<1> QED  BY <1>4, <1>5, <1>6 DEF CInv

\* What the steps of a connection do to its requests.
LEMMA SendMoves ==
    ASSUME CInv, Send
    PROVE  /\ Append(conns[cur].queue, Data) \in Seq(Requests)
           /\ Requeued(conns, conns', cur, Append(conns[cur].queue, Data))
           /\ DataIn(Append(conns[cur].queue, Data)) = DataIn(conns[cur].queue) + 1
<1> DEFINE q == conns[cur].queue
<1>1. q \in Seq(Requests) /\ cur \in DOMAIN conns /\ conns \in Seq(Connections)
  BY CInvFacts DEF CInv, Types
<1>2. Data \in Requests /\ Data.type = "data"
  BY RequestsAre
<1>3. conns' = [conns EXCEPT ![cur].queue = Append(q, Data)]
  BY DEF Send
<1> HIDE DEF q
<1>4. Append(q, Data) \in Seq(Requests) /\ DataIn(Append(q, Data)) = DataIn(q) + 1
  BY <1>1, <1>2, AppendProperties, DataInAppend
<1>5. Requeued(conns, conns', cur, Append(q, Data))
  BY <1>1, <1>3, <1>4, QueueAssigned
<1> QED  BY <1>4, <1>5 DEF q

LEMMA SlotsSentMoves ==
    ASSUME CInv, conns' = [conns EXCEPT ![cur].slots = "sent",
                                        ![cur].queue = Append(@, SlotsReq)]
    PROVE  /\ Append(conns[cur].queue, SlotsReq) \in Seq(Requests)
           /\ Requeued(conns, conns', cur, Append(conns[cur].queue, SlotsReq))
           /\ DataIn(Append(conns[cur].queue, SlotsReq)) = DataIn(conns[cur].queue)
<1> DEFINE q == conns[cur].queue
<1>1. q \in Seq(Requests) /\ cur \in DOMAIN conns /\ conns \in Seq(Connections)
  BY CInvFacts DEF CInv, Types
<1>2. SlotsReq \in Requests /\ SlotsReq.type = "slots"
  BY RequestsAre
<1>3. conns' = [conns EXCEPT ![cur].slots = "sent", ![cur].queue = Append(q, SlotsReq)]
  OBVIOUS
<1> HIDE DEF q
<1>4. Append(q, SlotsReq) \in Seq(Requests) /\ DataIn(Append(q, SlotsReq)) = DataIn(q)
  BY <1>1, <1>2, AppendProperties, DataInAppend
<1>5. "sent" \in {"none", "sent", "done"}
  OBVIOUS
<1>6. Requeued(conns, conns', cur, Append(q, SlotsReq))
  <2> DEFINE e == [conns EXCEPT ![cur].slots = "sent", ![cur].queue = Append(q, SlotsReq)]
  <2>1. Requeued(conns, e, cur, Append(q, SlotsReq))
    BY <1>1, <1>4, <1>5, BothAssigned
  <2>2. conns' = e
    BY <1>3
  <2> HIDE DEF e
  <2> QED  BY <2>1, <2>2
<1> QED  BY <1>4, <1>6 DEF q

LEMMA ReplyMoves ==
    ASSUME CInv, NEW i \in DOMAIN conns, NEW type, HasReply(i, type),
           conns' = [conns EXCEPT ![i].queue = Tail(@)]
    PROVE  /\ Tail(conns[i].queue) \in Seq(Requests)
           /\ Requeued(conns, conns', i, Tail(conns[i].queue))
           /\ type = "data" => DataIn(Tail(conns[i].queue)) = DataIn(conns[i].queue) - 1
           /\ type = "slots" => DataIn(Tail(conns[i].queue)) = DataIn(conns[i].queue)
<1> DEFINE q == conns[i].queue
<1>1. q \in Seq(Requests) /\ conns \in Seq(Connections) /\ q # << >> /\ Head(q).type = type
  BY CInvFacts DEF CInv, Types, HasReply
<1>2. conns' = [conns EXCEPT ![i].queue = Tail(q)]
  OBVIOUS
<1> HIDE DEF q
<1>3. /\ Tail(q) \in Seq(Requests)
      /\ type = "data" => DataIn(Tail(q)) = DataIn(q) - 1
      /\ type = "slots" => DataIn(Tail(q)) = DataIn(q)
  BY <1>1, HeadTailProperties, DataInTail
<1>4. Requeued(conns, conns', i, Tail(q))
  <2> DEFINE e == [conns EXCEPT ![i].queue = Tail(q)]
  <2>1. Requeued(conns, e, i, Tail(q))
    BY <1>1, <1>3, QueueAssigned
  <2>2. conns' = e
    BY <1>2
  <2> HIDE DEF e
  <2> QED  BY <2>1, <2>2
<1> QED  BY <1>3, <1>4 DEF q

LEMMA DataInAnswered ==
    ASSUME NEW queue \in Seq(Requests), queue # << >>, Head(queue) = SlotsReq,
           NEW req \in Requests, req.type = "slots"
    PROVE  /\ [queue EXCEPT ![1] = req] \in Seq(Requests)
           /\ DataIn([queue EXCEPT ![1] = req]) = DataIn(queue)
<1> DEFINE n == Len(queue)
           r == [queue EXCEPT ![1] = req]
<1>1. /\ n \in Nat \ {0} /\ DOMAIN queue = 1..n /\ 1 \in 1..n /\ queue[1].type = "slots"
  BY LenProperties, EmptySeq, RequestsAre
<1>2. /\ r \in Seq(Requests) /\ DOMAIN r = 1..n /\ r[1].type = "slots"
      /\ \A k \in 1..n : k # 1 => r[k] = queue[k]
  BY <1>1, ExceptSeq
<1> HIDE DEF n, r
<1>3. { k \in DOMAIN queue : queue[k].type = "data" } = { k \in DOMAIN r : r[k].type = "data" }
  BY <1>1, <1>2
<1> QED  BY <1>2, <1>3 DEF DataIn, r

LEMMA AnswerMoves ==
    ASSUME CInv, NEW i \in DOMAIN conns, AnswerSlots(i)
    PROVE  \E answer \in {owner, << >>} :
              LET q == [conns[i].queue EXCEPT ![1] = SlotsAnswered(answer)]
              IN  /\ q \in Seq(Requests)
                  /\ Requeued(conns, conns', i, q)
                  /\ DataIn(q) = DataIn(conns[i].queue)
<1>1. PICK answer \in {owner, << >>} :
          conns' = [conns EXCEPT ![i].queue[1] = SlotsAnswered(answer)]
  BY DEF AnswerSlots
<1> DEFINE queue == conns[i].queue
           req == SlotsAnswered(answer)
           q == [queue EXCEPT ![1] = req]
<1>2. queue \in Seq(Requests) /\ conns \in Seq(Connections) /\ queue # << >>
      /\ Head(queue) = SlotsReq
  BY CInvFacts DEF CInv, Types, AnswerSlots
<1>3. req \in Requests /\ req.type = "slots"
  BY RequestsAre DEF CInv, Types
<1>4. conns' = [conns EXCEPT ![i].queue = q]
  BY <1>1
<1>5. q \in Seq(Requests) /\ DataIn(q) = DataIn(queue)
  <2> HIDE DEF queue, req
  <2> QED  BY <1>2, <1>3, DataInAnswered
<1>6. Requeued(conns, conns', i, q)
  <2> HIDE DEF q
  <2> QED  BY <1>2, <1>4, <1>5, QueueAssigned
<1> QED  BY <1>5, <1>6

LEMMA PrepareKeeps ==
    ASSUME CInv, Connect \/ Disconnect
    PROVE  CInv'
<1>1. CASE Connect
  <2>1. /\ pc = "prepare" /\ conns' = [conns EXCEPT ![1].slots = "none"]
        /\ pools' = Append(pools, << >>)
        /\ UNCHANGED << config, owner, reshards, counters, mapped, blind, cur >>
        /\ pc' \in {"assert_failed", "piled", "idle"}
        /\ pc' # "assert_failed" => Len(conns) = Len(pools')
    BY <1>1 DEF Connect, cluster, history
  <2>2. Len(conns) = 1 /\ \A i \in DOMAIN pools : pools[i] = << >>
    BY <2>1 DEF CInv, Structure
  <2>3. Requeued(conns, conns', 1, conns[1].queue)
    <3> DEFINE e == [conns EXCEPT ![1].slots = "none"]
    <3>1. conns \in Seq(Connections) /\ 1 \in DOMAIN conns /\ "none" \in {"none", "sent", "done"}
      BY CInvFacts DEF CInv, Types
    <3>2. Requeued(conns, e, 1, conns[1].queue)
      BY <3>1, StateAssigned
    <3> QED  BY <2>1, <3>2
  <2>4. /\ conns' \in Seq(Connections) /\ DOMAIN conns' = DOMAIN conns /\ Len(conns') = Len(conns)
        /\ \A j \in DOMAIN conns : conns'[j].address = conns[j].address
        /\ \A j \in DOMAIN conns : conns'[j].queue = conns[j].queue
    BY <2>3 DEF Requeued
  <2>5. << >> \in Seq(Slots) /\ pools \in Seq(Seq(Slots)) /\ Len(<< >>) = 0
    BY EmptySeq DEF CInv, Types
  <2>6. /\ pools' \in Seq(Seq(Slots)) /\ Len(pools') = Len(pools) + 1
        /\ DOMAIN pools = 1..Len(pools) /\ DOMAIN pools' = 1..(Len(pools) + 1)
        /\ Len(pools) \in Nat
        /\ \A j \in DOMAIN pools : pools'[j] = pools[j]
        /\ pools'[Len(pools) + 1] = << >>
    BY <2>1, <2>5, AppendProperties, DomainOfSeq
  <2>7. \A j \in DOMAIN pools' : pools'[j] = << >>
    BY <2>2, <2>6
  <2>8. Types'
    <3>1. conns' # << >>
      <4>1. DOMAIN conns' # {} /\ DOMAIN << >> = {}
        BY <2>4, CInvFacts
      <4> QED  BY <4>1
    <3> QED  BY <2>1, <2>4, <2>6, <3>1 DEF CInv, Types, counters, Places
  <2>9. Structure'
    <3>1. \A j \in DOMAIN pools' : Len(pools'[j]) <= QueueMax
      BY <2>5, <2>7, ClusterAssumption
    <3>2. \A j, l \in DOMAIN conns' : conns'[j].address = conns'[l].address => j = l
      BY <2>4 DEF CInv, Structure
    <3>3. pc' # "assert_failed" => Len(pools') = Len(conns')
      BY <2>1, <2>4
    <3> QED  BY <2>1, <2>2, <2>4, <2>7, <3>1, <3>2, <3>3 DEF Structure
  <2>10. Balance'
    <3>1. Waiting(conns') = Waiting(conns)
      <4>1. conns \in Seq(Connections)
        BY DEF CInv, Types
      <4> QED  BY <2>4, <4>1, WaitingGrows
    <3>2. Pooled(pools') = Pooled(pools)
      <4>1. DOMAIN pools \subseteq DOMAIN pools'
        BY <2>6
      <4> QED  BY <2>5, <2>6, <2>7, <4>1, PooledGrows
    <3>3. Waiting(conns)' = Waiting(conns') /\ Pooled(pools)' = Pooled(pools')
      BY DEF Waiting, Pooled
    <3> QED  BY <2>1, <3>1, <3>2, <3>3 DEF CInv, Balance, counters
  <2> QED  BY <2>8, <2>9, <2>10 DEF CInv
<1>2. CASE Disconnect
  <2>1. /\ pc = "piled" /\ pc' = "prepare" /\ conns' = SubSeq(conns, 1, 1)
        /\ UNCHANGED << config, owner, reshards, pools, counters, mapped, blind, cur >>
    BY <1>2 DEF Disconnect, cluster, history
  <2>2. conns' = conns
    <3>1. Len(conns) = 1 /\ conns \in Seq(Connections)
      BY <2>1 DEF CInv, Structure, Types
    <3> QED  BY <2>1, <3>1, SubSeqFull
  <2>3. owner' \in [Slots -> Nodes] /\ reshards' \in Nat /\ {mapped', blind'} \subseteq BOOLEAN
        /\ cur' \in DOMAIN conns
    BY <2>1 DEF CInv, Types
  <2> QED  BY <2>1, <2>2, <2>3, QuietKeeps DEF Places
<1> QED  BY <1>1, <1>2

\* The steps that leave the requests and the pools as they are.
LEMMA QuietSteps ==
    ASSUME CInv,
           \/ FillDone \/ ParseDone \/ RatioReset \/ Reshard \/ UNCHANGED vars
           \/ \E s \in Slots : DrawWild(s)
           \/ \E i \in DOMAIN conns : ConnectFailed(i) \/ AddFails(i)
    PROVE  CInv'
<1>0. /\ cur \in DOMAIN conns /\ owner \in [Slots -> Nodes] /\ reshards \in Nat
      /\ {mapped, blind} \subseteq BOOLEAN /\ pc \in Places
  BY DEF CInv, Types
<1>1. CASE FillDone \/ ParseDone \/ RatioReset
  <2>1. /\ UNCHANGED << config, conns, pools, counters, owner, reshards, mapped, blind, cur >>
        /\ pc \in {"fill", "parse"} /\ pc' \in {"idle", "start", "fill", "crashed"}
    BY <1>1 DEF FillDone, Return, ParseDone, RatioReset, MayCreate, TurnOver, cluster, history
  <2> QED  BY <1>0, <2>1, QuietKeeps DEF Places
<1>2. CASE Reshard
  <2>1. /\ UNCHANGED << config, conns, pools, counters, mapped, blind, cur, pc >>
        /\ owner' \in [Slots -> Nodes] /\ reshards' = reshards + 1
    BY <1>2 DEF Reshard, history
  <2> QED  BY <1>0, <2>1, QuietKeeps
<1>3. CASE UNCHANGED vars
  <2>1. UNCHANGED << config, conns, pools, counters, owner, reshards, mapped, blind, cur, pc >>
    BY <1>3 DEF vars, cluster, history
  <2> QED  BY <1>0, <2>1, QuietKeeps
<1>4. CASE \E s \in Slots : DrawWild(s)
  <2>1. PICK s \in Slots : DrawWild(s)
    BY <1>4
  <2>2. /\ UNCHANGED << config, conns, pools, counters, owner, reshards, mapped, cur >>
        /\ pc \in {"fill", "draw"} /\ pc' = "crashed" /\ blind' = (blind \/ ~mapped)
    BY <2>1 DEF DrawWild, Drawn, Drawing, MayCreate, cluster, counters
  <2> QED  BY <1>0, <2>2, QuietKeeps DEF Places
<1>5. CASE \E i \in DOMAIN conns : ConnectFailed(i) \/ AddFails(i)
  <2>1. PICK i \in DOMAIN conns : ConnectFailed(i) \/ AddFails(i)
    BY <1>5
  <2>2. /\ UNCHANGED << config, conns, pools, counters, owner, reshards, mapped, blind >>
        /\ cur' \in {i, cur}
        /\ pc' \in {"assert_failed", pc}
    BY <2>1 DEF ConnectFailed, AddFails, HasReply, cluster, history
  <2> QED  BY <1>0, <2>1, <2>2, QuietKeeps DEF Places
<1> QED  BY <1>1, <1>2, <1>3, <1>4, <1>5

LEMMA WritableKeeps ==
    ASSUME CInv, NEW i \in DOMAIN conns, Writable(i)
    PROVE  CInv'
<1>0. /\ {mapped, blind} \subseteq BOOLEAN /\ conns \in Seq(Connections)
      /\ m_reqs_generated \in Nat /\ m_reqs_processed \in Nat
  BY DEF CInv, Types
<1>1. /\ UNCHANGED << config, owner, reshards, pools, counters, mapped, blind >>
      /\ pc = "idle" /\ pc' = "start" /\ cur' = i
      /\ conns' = [conns EXCEPT ![i].sock = "up"]
  BY DEF Writable, cluster, history
<1> DEFINE q == conns[i].queue
<1>2. q \in Seq(Requests) /\ DataIn(q) \in Nat
  BY CInvFacts
<1>3. Requeued(conns, conns', i, q)
  BY <1>0, <1>1, UpAssigned
<1>4. Repooled(pools, pools', 0)
  BY <1>1, PoolsKept
<1> HIDE DEF q
<1>5. DataIn(q) = DataIn(conns[i].queue)
  BY DEF q
<1>6. m_reqs_generated' - m_reqs_processed' = m_reqs_generated - m_reqs_processed
         + (DataIn(q) - DataIn(conns[i].queue)) + 0
  BY <1>0, <1>1, <1>2, <1>5 DEF counters
<1>7. /\ m_reqs_generated' \in Nat /\ m_reqs_processed' \in Nat
      /\ {mapped', blind'} \subseteq BOOLEAN /\ cur' \in DOMAIN conns
      /\ pc' \in Places /\ 0 \in Int
  BY <1>0, <1>1 DEF Places, counters
<1>8. UNCHANGED << config, owner, reshards >>
  BY <1>1
<1>9. /\ pc \notin {"prepare", "piled", "assert_failed"}
      /\ pc' \notin {"prepare", "piled", "assert_failed"}
  BY <1>1
<1> QED  BY <1>2, <1>3, <1>4, <1>6, <1>7, <1>8, <1>9, RequeueKeeps

LEMMA FillStartKeeps ==
    ASSUME CInv, FillStart
    PROVE  CInv'
<1>0. /\ cur \in DOMAIN conns /\ owner \in [Slots -> Nodes] /\ reshards \in Nat
      /\ {mapped, blind} \subseteq BOOLEAN
      /\ m_reqs_generated \in Nat /\ m_reqs_processed \in Nat
  BY DEF CInv, Types
<1>1. /\ UNCHANGED << config, owner, reshards, pools, counters, mapped, blind, cur >>
      /\ pc = "start" /\ pc' \in {"idle", "fill"}
  BY DEF FillStart, Return, cluster, history
<1>2. CASE conns' = conns
  BY <1>0, <1>1, <1>2, QuietKeeps DEF Places
<1>3. CASE conns' # conns
  <2> DEFINE q == Append(conns[cur].queue, SlotsReq)
  <2>1. conns' = [conns EXCEPT ![cur].slots = "sent", ![cur].queue = Append(@, SlotsReq)]
    BY <1>3 DEF FillStart
  <2>2. q \in Seq(Requests) /\ Requeued(conns, conns', cur, q)
        /\ DataIn(q) = DataIn(conns[cur].queue) /\ DataIn(conns[cur].queue) \in Nat
    BY <1>0, <2>1, SlotsSentMoves, CInvFacts
  <2>3. Repooled(pools, pools', 0)
    BY <1>1, PoolsKept
  <2> HIDE DEF q
  <2>4. m_reqs_generated' - m_reqs_processed' = m_reqs_generated - m_reqs_processed
           + (DataIn(q) - DataIn(conns[cur].queue)) + 0
    BY <1>0, <1>1, <2>2 DEF counters
  <2> QED  BY <1>0, <1>1, <2>2, <2>3, <2>4, RequeueKeeps DEF Places, counters
<1> QED  BY <1>2, <1>3

\* A request of the test is sent, for a key of the pool or one that was drawn.
LEMMA FromPoolKeeps ==
    ASSUME CInv, FromPool
    PROVE  CInv'
<1> DEFINE q == Append(conns[cur].queue, Data)
           p == Tail(pools[cur])
<1>0. /\ cur \in DOMAIN conns /\ {mapped, blind} \subseteq BOOLEAN
      /\ m_reqs_generated \in Nat /\ m_reqs_processed \in Nat
  BY DEF CInv, Types
<1>1. /\ UNCHANGED << config, owner, reshards, counters, mapped, blind, cur >>
      /\ pc = "fill" /\ pc' \in {"crashed", "fill"}
      /\ pools[cur] # << >> /\ pools' = [pools EXCEPT ![cur] = p] /\ Send
  BY DEF FromPool, TurnOver, MayCreate, cluster, history
<1>2. cur \in DOMAIN pools
  BY <1>0, <1>1, CInvFacts DEF CInv, Structure
<1>3. /\ q \in Seq(Requests) /\ Requeued(conns, conns', cur, q)
      /\ DataIn(q) = DataIn(conns[cur].queue) + 1 /\ DataIn(conns[cur].queue) \in Nat
  BY <1>0, <1>1, SendMoves, CInvFacts
<1>4. p \in Seq(Slots) /\ Len(p) = Len(pools[cur]) - 1 /\ Len(pools[cur]) \in Nat
  BY <1>1, <1>2, CInvFacts, HeadTailProperties
<1>5. Repooled(pools, pools', Len(p) - Len(pools[cur])) /\ Len(p) - Len(pools[cur]) = 0 - 1
  <2>1. Len(p) <= QueueMax
    <3>1. Len(pools[cur]) <= QueueMax
      BY <1>2 DEF CInv, Structure
    <3> QED  BY <1>4, <3>1, ClusterAssumption
  <2> HIDE DEF p
  <2>2. Repooled(pools, [pools EXCEPT ![cur] = p], Len(p) - Len(pools[cur]))
    BY <1>2, <1>4, <2>1, PoolAssigned
  <2>3. pools' = [pools EXCEPT ![cur] = p]
    BY <1>1
  <2>4. Repooled(pools, pools', Len(p) - Len(pools[cur]))
    BY <2>2, <2>3
  <2> QED  BY <1>4, <2>4
<1>6. Repooled(pools, pools', 0 - 1) /\ 0 - 1 \in Int
  BY <1>5
<1> HIDE DEF q, p
<1>7. m_reqs_generated' - m_reqs_processed' = m_reqs_generated - m_reqs_processed
         + (DataIn(q) - DataIn(conns[cur].queue)) + (0 - 1)
  BY <1>0, <1>1, <1>3 DEF counters
<1> QED  BY <1>0, <1>1, <1>3, <1>6, <1>7, RequeueKeeps DEF Places, counters

\* A key of the connection's own, or a WAIT.
LEMMA SendCountedKeeps ==
    ASSUME CInv, CreateWait \/ \E s \in Slots : DrawOwn(s)
    PROVE  CInv'
<1> DEFINE q == Append(conns[cur].queue, Data)
<1>0. /\ cur \in DOMAIN conns /\ {mapped, blind} \subseteq BOOLEAN
      /\ m_reqs_generated \in Nat /\ m_reqs_processed \in Nat
  BY DEF CInv, Types
<1>1. /\ UNCHANGED << config, owner, reshards, pools, m_reqs_processed, mapped, cur >>
      /\ blind' = (blind \/ ~mapped) \/ blind' = blind
      /\ m_reqs_generated' = m_reqs_generated + 1
      /\ pc \in {"fill", "draw"} /\ pc' \in {"crashed", "fill"} /\ Send
  BY DEF CreateWait, DrawOwn, Drawn, Drawing, TurnOver, MayCreate, cluster, history
<1>2. {mapped', blind'} \subseteq BOOLEAN
  BY <1>0, <1>1
<1>3. /\ q \in Seq(Requests) /\ Requeued(conns, conns', cur, q)
      /\ DataIn(q) = DataIn(conns[cur].queue) + 1 /\ DataIn(conns[cur].queue) \in Nat
  BY <1>0, <1>1, SendMoves, CInvFacts
<1>4. Repooled(pools, pools', 0)
  BY <1>1, PoolsKept
<1> HIDE DEF q
<1>5. m_reqs_generated' - m_reqs_processed' = m_reqs_generated - m_reqs_processed
         + (DataIn(q) - DataIn(conns[cur].queue)) + 0
  BY <1>0, <1>1, <1>3
<1> QED  BY <1>0, <1>1, <1>2, <1>3, <1>4, <1>5, RequeueKeeps DEF Places

\* A key of another connection waits in its pool, or is dropped and not counted.
LEMMA DrawAnotherKeeps ==
    ASSUME CInv, NEW s \in Slots, DrawOther(s)
    PROVE  CInv'
<1> DEFINE shard == m_slot_to_shard[s]
           p == Append(pools[shard], s)
           q == conns[cur].queue
<1>0. /\ cur \in DOMAIN conns /\ {mapped, blind} \subseteq BOOLEAN
      /\ m_reqs_generated \in Nat /\ m_reqs_processed \in Nat
      /\ owner \in [Slots -> Nodes] /\ reshards \in Nat
  BY DEF CInv, Types
<1>1. /\ UNCHANGED << config, owner, reshards, conns, m_reqs_processed, mapped, cur >>
      /\ blind' = (blind \/ ~mapped) /\ shard \in DOMAIN pools
      /\ pc \in {"fill", "draw"} /\ pc' \in {"crashed", "fill", "draw"}
  BY DEF DrawOther, Drawn, Drawing, TurnOver, MayCreate, cluster
<1>2. {mapped', blind'} \subseteq BOOLEAN
  BY <1>0, <1>1
<1>3. CASE Len(pools[shard]) < QueueMax
  <2>1. pools' = [pools EXCEPT ![shard] = p] /\ m_reqs_generated' = m_reqs_generated + 1
    BY <1>3 DEF DrawOther
  <2>2. p \in Seq(Slots) /\ Len(p) = Len(pools[shard]) + 1 /\ Len(pools[shard]) \in Nat
    BY <1>1, CInvFacts, AppendProperties
  <2>3. Len(p) <= QueueMax /\ Len(p) - Len(pools[shard]) = 1
    BY <1>3, <2>2, ClusterAssumption
  <2>4. Repooled(pools, pools', 1)
    <3> HIDE DEF p, shard
    <3>1. Repooled(pools, [pools EXCEPT ![shard] = p], Len(p) - Len(pools[shard]))
      BY <1>1, <2>2, <2>3, PoolAssigned
    <3> QED  BY <2>1, <2>3, <3>1
  <2>5. q \in Seq(Requests) /\ DataIn(q) \in Nat /\ Requeued(conns, conns', cur, q)
    BY <1>0, <1>1, CInvFacts DEF Requeued, CInv, Types
  <2> HIDE DEF p, shard
  <2>6. m_reqs_generated' - m_reqs_processed' = m_reqs_generated - m_reqs_processed
           + (DataIn(q) - DataIn(conns[cur].queue)) + 1
    BY <1>0, <1>1, <2>1, <2>5
  <2>7. m_reqs_generated' \in Nat /\ m_reqs_processed' \in Nat
    BY <1>0, <1>1, <2>1
  <2> QED  BY <1>0, <1>1, <1>2, <2>4, <2>5, <2>6, <2>7, RequeueKeeps DEF Places
<1>4. CASE ~(Len(pools[shard]) < QueueMax)
  <2>1. UNCHANGED << pools, counters >>
    BY <1>0, <1>1, <1>4 DEF DrawOther, counters
  <2> QED  BY <1>0, <1>1, <1>2, <2>1, QuietKeeps DEF Places
<1> QED  BY <1>3, <1>4

LEMMA ReplyKeeps ==
    ASSUME CInv, NEW i \in DOMAIN conns, HandleData(i) \/ SlotsFailed(i)
    PROVE  CInv'
<1> DEFINE q == Tail(conns[i].queue)
<1>0. /\ {mapped, blind} \subseteq BOOLEAN
      /\ m_reqs_generated \in Nat /\ m_reqs_processed \in Nat
  BY DEF CInv, Types
<1>1. /\ UNCHANGED << config, owner, reshards, pools, m_reqs_generated, mapped, blind >>
      /\ cur' \in DOMAIN conns
      /\ pc \in {"idle", "parse"} /\ pc' \in {"idle", "parse"}
  BY DEF HandleData, SlotsFailed, HasReply, cluster, history, counters
<1>a. conns' = [conns EXCEPT ![i].queue = Tail(@)]
  BY DEF HandleData, SlotsFailed
<1>2. Repooled(pools, pools', 0)
  BY <1>1, PoolsKept
<1>3. DataIn(conns[i].queue) \in Nat
  BY CInvFacts
<1>4. CASE HandleData(i)
  <2>1. m_reqs_processed' = m_reqs_processed + 1 /\ HasReply(i, "data")
    BY <1>4 DEF HandleData
  <2>2. /\ q \in Seq(Requests) /\ Requeued(conns, conns', i, q)
        /\ DataIn(q) = DataIn(conns[i].queue) - 1
    BY <1>a, <2>1, ReplyMoves
  <2> HIDE DEF q
  <2>3. m_reqs_generated' - m_reqs_processed' = m_reqs_generated - m_reqs_processed
           + (DataIn(q) - DataIn(conns[i].queue)) + 0
    BY <1>0, <1>1, <1>3, <2>1, <2>2
  <2>4. m_reqs_generated' \in Nat /\ m_reqs_processed' \in Nat
    BY <1>0, <1>1, <2>1
  <2> QED  BY <1>0, <1>1, <1>2, <2>2, <2>3, <2>4, RequeueKeeps DEF Places
<1>5. CASE SlotsFailed(i)
  <2>1. m_reqs_processed' = m_reqs_processed /\ HasReply(i, "slots")
    BY <1>5 DEF SlotsFailed, counters
  <2>2. /\ q \in Seq(Requests) /\ Requeued(conns, conns', i, q)
        /\ DataIn(q) = DataIn(conns[i].queue)
    BY <1>a, <2>1, ReplyMoves
  <2> HIDE DEF q
  <2>3. m_reqs_generated' - m_reqs_processed' = m_reqs_generated - m_reqs_processed
           + (DataIn(q) - DataIn(conns[i].queue)) + 0
    BY <1>0, <1>1, <1>3, <2>1, <2>2
  <2> QED  BY <1>0, <1>1, <1>2, <2>1, <2>2, <2>3, RequeueKeeps DEF Places
<1> QED  BY <1>4, <1>5

LEMMA AnswerKeeps ==
    ASSUME CInv, NEW i \in DOMAIN conns, AnswerSlots(i)
    PROVE  CInv'
<1>0. /\ {mapped, blind} \subseteq BOOLEAN /\ pc \in Places /\ cur \in DOMAIN conns
      /\ m_reqs_generated \in Nat /\ m_reqs_processed \in Nat
  BY DEF CInv, Types
<1>1. UNCHANGED << config, owner, reshards, pools, counters, mapped, blind, pc, cur >>
  BY DEF AnswerSlots, cluster, history
<1>2. Repooled(pools, pools', 0)
  BY <1>1, PoolsKept
<1>3. PICK q : /\ q \in Seq(Requests) /\ Requeued(conns, conns', i, q)
               /\ DataIn(q) = DataIn(conns[i].queue)
  BY AnswerMoves
<1>4. m_reqs_generated' - m_reqs_processed' = m_reqs_generated - m_reqs_processed
         + (DataIn(q) - DataIn(conns[i].queue)) + 0
  BY <1>0, <1>1, <1>3, CInvFacts DEF counters
<1> QED  BY <1>0, <1>1, <1>2, <1>3, <1>4, RequeueKeeps DEF counters

-----------------------------------------------------------------------------
(* handle_cluster_slots()                                                  *)

\* The connections all are those there were, and one without requests for every
\* address of the answer that had none.
Extended(all, answer) ==
    /\ all \in Seq(Connections) /\ DOMAIN conns \subseteq DOMAIN all
    /\ \A j \in DOMAIN conns : all[j] = conns[j]
    /\ \A j \in DOMAIN all \ DOMAIN conns : all[j].queue = << >>
    /\ \A j, k \in DOMAIN all : all[j].address = all[k].address => j = k
    /\ \A s \in Slots : \E k \in DOMAIN all : all[k].address = answer[s]

LEMMA AddedAre ==
    ASSUME CInv, NEW answer \in [Slots -> Nodes], NEW new \in Additions(answer),
           NEW memory \in [Nodes -> config.memory]
    PROVE  LET all == conns \o [k \in DOMAIN new |-> Connection(new[k], "connecting", memory[new[k]])]
           IN  Extended(all, answer) /\ Len(all) = Len(conns) + Len(new)
<1> DEFINE added == [k \in DOMAIN new |-> Connection(new[k], "connecting", memory[new[k]])]
           all == conns \o added
<1>1. /\ new \in Seq(Nodes)
      /\ \A j, k \in DOMAIN new : new[j] = new[k] => j = k
      /\ \A k \in DOMAIN new : new[k] \notin Known
      /\ \A s \in Slots : answer[s] \in Known \/ \E k \in DOMAIN new : new[k] = answer[s]
  BY AdditionsAre
<1>2. DOMAIN new = 1..Len(new) /\ Len(new) \in Nat /\ \A k \in DOMAIN new : new[k] \in Nodes
  BY <1>1, DomainOfSeq
<1>3. config.memory \subseteq {"good", "late", "wild"}
  BY ClusterAssumption DEF CInv, Types
<1>4. \A k \in DOMAIN new : added[k] \in Connections
  <2> TAKE k \in DOMAIN new
  <2>1. /\ new[k] \in Addresses /\ memory[new[k]] \in {"good", "late", "wild"}
        /\ << >> \in Seq(Requests)
    BY <1>2, <1>3, EmptySeq DEF Addresses
  <2> QED  BY <2>1 DEF Connection, Connections
<1>5. \A k \in DOMAIN new : added[k].address = new[k] /\ added[k].queue = << >>
  BY DEF Connection
<1>6. added \in Seq(Connections) /\ Len(added) = Len(new)
  <2>1. added \in [1..Len(new) -> Connections]
    BY <1>2, <1>4
  <2> HIDE DEF added
  <2> QED  BY <1>2, <2>1
<1> HIDE DEF added
<1>7. /\ conns \in Seq(Connections) /\ DOMAIN conns = 1..Len(conns) /\ Len(conns) \in Nat
  BY CInvFacts DEF CInv, Types
<1>8. /\ all \in Seq(Connections) /\ Len(all) = Len(conns) + Len(new)
      /\ \A j \in 1..(Len(conns) + Len(new)) :
            all[j] = IF j <= Len(conns) THEN conns[j] ELSE added[j - Len(conns)]
  <2>1. conns \in Seq(Connections) /\ added \in Seq(Connections) /\ Len(added) = Len(new)
    BY <1>6, <1>7
  <2>2. /\ conns \o added \in Seq(Connections) /\ Len(conns \o added) = Len(conns) + Len(added)
        /\ DOMAIN (conns \o added) = 1..(Len(conns) + Len(added))
        /\ \A j \in 1..(Len(conns) + Len(added)) :
              (conns \o added)[j] = IF j <= Len(conns) THEN conns[j] ELSE added[j - Len(conns)]
    BY ONLY <2>1, Joined, Zenon
  <2> QED  BY ONLY <2>1, <2>2
<1> HIDE DEF all
<1>9. DOMAIN all = 1..(Len(conns) + Len(new))
  BY <1>8, DomainOfSeq
<1>10. \A j \in DOMAIN conns : j \in DOMAIN all /\ all[j] = conns[j]
  BY <1>2, <1>7, <1>8, <1>9
<1>11. \A k \in DOMAIN new : /\ Len(conns) + k \in DOMAIN all \ DOMAIN conns
                             /\ all[Len(conns) + k] = added[k]
  BY <1>2, <1>7, <1>8, <1>9
<1>12. \A j \in DOMAIN all \ DOMAIN conns : \E k \in DOMAIN new : j = Len(conns) + k
  <2> TAKE j \in DOMAIN all \ DOMAIN conns
  <2>1. j - Len(conns) \in DOMAIN new /\ j = Len(conns) + (j - Len(conns))
    BY <1>2, <1>7, <1>9
  <2> QED  BY <2>1
<1>13. \A j \in DOMAIN all \ DOMAIN conns : all[j].queue = << >> /\ all[j].address \notin Known
  BY <1>1, <1>5, <1>11, <1>12
<1>14. ASSUME NEW j \in DOMAIN all, NEW k \in DOMAIN all, all[j].address = all[k].address
       PROVE  j = k
  <2>1. CASE j \in DOMAIN conns /\ k \in DOMAIN conns
    BY <1>10, <1>14, <2>1 DEF CInv, Structure
  <2>2. CASE j \in DOMAIN conns /\ k \notin DOMAIN conns
    BY <1>10, <1>13, <1>14, <2>2 DEF Known
  <2>3. CASE j \notin DOMAIN conns /\ k \in DOMAIN conns
    BY <1>10, <1>13, <1>14, <2>3 DEF Known
  <2>4. CASE j \notin DOMAIN conns /\ k \notin DOMAIN conns
    <3>1. PICK a \in DOMAIN new : j = Len(conns) + a
      BY <1>12, <2>4
    <3>2. PICK b \in DOMAIN new : k = Len(conns) + b
      BY <1>12, <2>4
    <3>3. new[a] = new[b]
      BY <1>5, <1>11, <1>14, <3>1, <3>2
    <3> QED  BY <1>1, <3>1, <3>2, <3>3
  <2> QED  BY <2>1, <2>2, <2>3, <2>4
<1>15. ASSUME NEW s \in Slots
       PROVE  \E k \in DOMAIN all : all[k].address = answer[s]
  <2>1. CASE answer[s] \in Known
    BY <1>10, <2>1 DEF Known
  <2>2. CASE answer[s] \notin Known
    <3>1. PICK k \in DOMAIN new : new[k] = answer[s]
      BY <1>1, <2>2
    <3> QED  BY <1>5, <1>11, <3>1
  <2> QED  BY <2>1, <2>2
<1>16. Extended(all, answer)
  BY <1>8, <1>10, <1>13, <1>14, <1>15 DEF Extended
<1> QED  BY <1>8, <1>16 DEF all, added

\* What handle_cluster_slots makes of connections, pools and map.
Remapped(i, all) ==
    /\ Extended(all, Answer(i))
    /\ Requeued(all, conns', i, Tail(conns[i].queue))
    /\ Tail(conns[i].queue) \in Seq(Requests)
    /\ DataIn(Tail(conns[i].queue)) = DataIn(conns[i].queue)
    /\ pools' \in Seq(Seq(Slots)) /\ Len(pools') = Len(pools) + Len(all) - Len(conns)
    /\ DOMAIN pools \subseteq DOMAIN pools'
    /\ \A j \in DOMAIN pools : pools'[j] = pools[j]
    /\ \A j \in DOMAIN pools' \ DOMAIN pools : pools'[j] = << >>
    /\ m_slot_to_shard' = [s \in Slots |-> ShardAt(all, Answer(i)[s])]

LEMMA AnswerType ==
    ASSUME CInv, NEW i \in DOMAIN conns, HandleClusterSlots(i)
    PROVE  /\ Answer(i) \in [Slots -> Nodes]
           /\ conns[i].queue # << >> /\ Head(conns[i].queue).type = "slots"
<1> DEFINE req == Head(conns[i].queue)
<1>1. conns[i].queue \in Seq(Requests) /\ conns[i].queue # << >>
  BY CInvFacts DEF HandleClusterSlots, HasReply
<1>2. req \in Requests
  BY <1>1, HeadTailProperties
<1>3. req.type = "slots" /\ req.answered /\ req.answer # << >>
  BY DEF HandleClusterSlots, HasReply, Answered, Answer
<1> HIDE DEF req
<1>4. req.answer \in [Slots -> Nodes]
  BY <1>2, <1>3, RequestKinds
<1> QED  BY <1>1, <1>3, <1>4 DEF req, Answer

LEMMA HandleMoves ==
    ASSUME CInv, NEW i \in DOMAIN conns, HandleClusterSlots(i)
    PROVE  \E all : Remapped(i, all)
<1>1. PICK new \in Additions(Answer(i)), memory \in [Nodes -> config.memory] :
        LET all == conns \o [k \in DOMAIN new |-> Connection(new[k], "connecting", memory[new[k]])]
        IN  /\ conns' = [all EXCEPT ![i].queue = Tail(@), ![i].slots = "done"]
            /\ pools' = pools \o [k \in DOMAIN new |-> << >>]
            /\ m_slot_to_shard' = [s \in Slots |-> ShardAt(all, Answer(i)[s])]
  BY DEF HandleClusterSlots
<1> DEFINE all == conns \o [k \in DOMAIN new |-> Connection(new[k], "connecting", memory[new[k]])]
           none == [k \in DOMAIN new |-> << >>]
           queue == conns[i].queue
<1>2. Answer(i) \in [Slots -> Nodes] /\ queue # << >> /\ Head(queue).type = "slots"
  BY AnswerType
<1>3. Extended(all, Answer(i)) /\ Len(all) = Len(conns) + Len(new)
  BY <1>2, AddedAre
<1>4. new \in Seq(Nodes) /\ DOMAIN new = 1..Len(new) /\ Len(new) \in Nat
  <2>1. new \in Seq(Nodes)
    BY <1>2, AdditionsAre
  <2> QED  BY <2>1, DomainOfSeq
<1>5. none \in Seq(Seq(Slots)) /\ Len(none) = Len(new) /\ \A k \in 1..Len(new) : none[k] = << >>
  <2>1. << >> \in Seq(Slots)
    BY EmptySeq
  <2>2. none \in [1..Len(new) -> Seq(Slots)]
    BY <1>4, <2>1
  <2>3. \A k \in 1..Len(new) : none[k] = << >>
    BY <1>4
  <2> HIDE DEF none
  <2> QED  BY <1>4, <2>2, <2>3
<1> HIDE DEF all, none
<1>6. /\ conns' = [all EXCEPT ![i].queue = Tail(@), ![i].slots = "done"]
      /\ pools' = pools \o none
      /\ m_slot_to_shard' = [s \in Slots |-> ShardAt(all, Answer(i)[s])]
  BY <1>1 DEF all, none
<1>7. /\ queue \in Seq(Requests) /\ Tail(queue) \in Seq(Requests)
      /\ DataIn(Tail(queue)) = DataIn(queue)
  BY <1>2, CInvFacts, HeadTailProperties, DataInTail
<1>8. Requeued(all, conns', i, Tail(queue))
  <2>1. all \in Seq(Connections) /\ i \in DOMAIN all /\ all[i] = conns[i]
    BY <1>3 DEF Extended
  <2>2. conns' = [all EXCEPT ![i].queue = Tail(queue), ![i].slots = "done"]
    BY <1>6, <2>1
  <2> DEFINE e == [all EXCEPT ![i].queue = Tail(queue), ![i].slots = "done"]
  <2>3. "done" \in {"none", "sent", "done"}
    OBVIOUS
  <2> HIDE DEF queue
  <2>4. Requeued(all, e, i, Tail(queue))
    BY <1>7, <2>1, <2>3, BothAssigned
  <2>5. conns' = e
    BY <2>2
  <2> HIDE DEF e
  <2> QED  BY <2>4, <2>5
<1>9. /\ pools' \in Seq(Seq(Slots)) /\ Len(pools') = Len(pools) + Len(new)
      /\ DOMAIN pools' = 1..(Len(pools) + Len(new)) /\ DOMAIN pools = 1..Len(pools)
      /\ Len(pools) \in Nat
      /\ \A j \in 1..(Len(pools) + Len(new)) :
            pools'[j] = IF j <= Len(pools) THEN pools[j] ELSE none[j - Len(pools)]
  <2>1. pools \in Seq(Seq(Slots)) /\ none \in Seq(Seq(Slots)) /\ Len(none) = Len(new)
        /\ pools' = pools \o none
    BY <1>5, <1>6 DEF CInv, Types
  <2>2. DOMAIN pools = 1..Len(pools) /\ Len(pools) \in Nat
    BY <2>1, DomainOfSeq
  <2>3. /\ pools \o none \in Seq(Seq(Slots)) /\ Len(pools \o none) = Len(pools) + Len(none)
        /\ DOMAIN (pools \o none) = 1..(Len(pools) + Len(none))
        /\ \A j \in 1..(Len(pools) + Len(none)) :
              (pools \o none)[j] = IF j <= Len(pools) THEN pools[j] ELSE none[j - Len(pools)]
    BY ONLY <2>1, Joined, Zenon
  <2> QED  BY ONLY <2>1, <2>2, <2>3
<1>10. DOMAIN pools \subseteq DOMAIN pools' /\ \A j \in DOMAIN pools : pools'[j] = pools[j]
  BY <1>4, <1>9
<1>11. \A j \in DOMAIN pools' \ DOMAIN pools : pools'[j] = << >>
  <2> TAKE j \in DOMAIN pools' \ DOMAIN pools
  <2>1. j - Len(pools) \in 1..Len(new) /\ pools'[j] = none[j - Len(pools)]
    BY <1>4, <1>9
  <2> QED  BY <1>5, <2>1
<1>12. Len(pools') = Len(pools) + Len(all) - Len(conns)
  BY <1>3, <1>4, <1>9, CInvFacts
<1> QED  BY <1>3, <1>6, <1>7, <1>8, <1>9, <1>10, <1>11, <1>12 DEF Remapped

LEMMA HandleKeeps ==
    ASSUME CInv, NEW i \in DOMAIN conns, HandleClusterSlots(i)
    PROVE  CInv'
<1>1. PICK all : Remapped(i, all)
  BY HandleMoves
<1>2. /\ UNCHANGED << config, owner, reshards, counters, blind >> /\ mapped' = TRUE /\ cur' = i
      /\ pc \in {"idle", "parse"} /\ pc' = "parse"
  BY DEF HandleClusterSlots, HasReply, cluster
<1>3. /\ all \in Seq(Connections) /\ DOMAIN conns \subseteq DOMAIN all
      /\ \A j \in DOMAIN conns : all[j] = conns[j]
      /\ \A j \in DOMAIN all \ DOMAIN conns : all[j].queue = << >>
      /\ \A j, k \in DOMAIN all : all[j].address = all[k].address => j = k
  BY <1>1 DEF Remapped, Extended
<1>4. /\ conns' \in Seq(Connections) /\ DOMAIN conns' = DOMAIN all /\ Len(conns') = Len(all)
      /\ \A j \in DOMAIN all : conns'[j].address = all[j].address
      /\ \A j \in DOMAIN all \ {i} : conns'[j].queue = all[j].queue
      /\ conns'[i].queue = Tail(conns[i].queue)
      /\ DataIn(Tail(conns[i].queue)) = DataIn(conns[i].queue)
  BY <1>1 DEF Remapped, Requeued
<1>5. /\ pools' \in Seq(Seq(Slots)) /\ Len(pools') = Len(pools) + Len(all) - Len(conns)
      /\ DOMAIN pools \subseteq DOMAIN pools'
      /\ \A j \in DOMAIN pools : pools'[j] = pools[j]
      /\ \A j \in DOMAIN pools' \ DOMAIN pools : pools'[j] = << >>
  BY <1>1 DEF Remapped
<1>6. Types'
  <2>1. conns' # << >>
    <3>1. i \in DOMAIN conns' /\ DOMAIN << >> = {}
      BY <1>3, <1>4
    <3> QED  BY <3>1
  <2>2. /\ config' \in Configs /\ owner' \in [Slots -> Nodes] /\ reshards' \in Nat
        /\ {mapped', blind'} \subseteq BOOLEAN /\ cur' \in DOMAIN conns' /\ pc' \in Places
    BY <1>2, <1>3, <1>4 DEF CInv, Types, Places
  <2> QED  BY <1>2, <1>4, <1>5, <2>1, <2>2 DEF CInv, Types, counters
<1>7. Structure'
  <2>1. Len(pools') = Len(conns')
    <3>1. Len(pools) = Len(conns) /\ Len(conns) \in Nat /\ Len(all) \in Nat
      BY <1>2, <1>3, CInvFacts, LenProperties DEF CInv, Structure
    <3> QED  BY <1>4, <1>5, <3>1
  <2>2. \A j \in DOMAIN pools' : Len(pools'[j]) <= QueueMax
    <3> TAKE j \in DOMAIN pools'
    <3>1. CASE j \in DOMAIN pools
      BY <1>5, <3>1 DEF CInv, Structure
    <3>2. CASE j \notin DOMAIN pools
      BY <1>5, <3>2, ClusterAssumption
    <3> QED  BY <3>1, <3>2
  <2>3. \A j, k \in DOMAIN conns' : conns'[j].address = conns'[k].address => j = k
    BY <1>3, <1>4
  <2> QED  BY <1>2, <2>1, <2>2, <2>3 DEF Structure
<1>8. Balance'
  <2>1. Waiting(all) = Waiting(conns) /\ Waiting(conns) \in Nat
    <3>1. conns \in Seq(Connections)
      BY DEF CInv, Types
    <3> QED  BY <1>3, <3>1, WaitingGrows, WaitingTypes
  <2>2. Waiting(conns') = Waiting(all) + 0
    <3>1. DataIn(conns'[i].queue) = DataIn(all[i].queue) + 0 /\ 0 \in Int /\ i \in DOMAIN all
      BY <1>3, <1>4, CInvFacts
    <3>2. /\ all \in Seq(Connections) /\ conns' \in Seq(Connections) /\ DOMAIN conns' = DOMAIN all
          /\ \A j \in DOMAIN all \ {i} : conns'[j].queue = all[j].queue
      BY <1>3, <1>4
    <3> QED  BY ONLY <3>1, <3>2, WaitingChanges, Zenon
  <2>3. Pooled(pools') = Pooled(pools)
    <3>1. pools \in Seq(Seq(Slots))
      BY DEF CInv, Types
    <3> QED  BY <1>5, <3>1, PooledGrows
  <2>4. Waiting(conns') = Waiting(conns)
    BY <2>1, <2>2
  <2>5. Waiting(conns)' = Waiting(conns') /\ Pooled(pools)' = Pooled(pools')
    BY DEF Waiting, Pooled
  <2> QED  BY <1>2, <2>3, <2>4, <2>5 DEF CInv, Balance, counters
<1> QED  BY <1>6, <1>7, <1>8 DEF CInv

-----------------------------------------------------------------------------
(* The theorems about the keys and the connections                         *)

LEMMA CInvInit == Init => CInv
<1> SUFFICES ASSUME Init PROVE CInv
  OBVIOUS
<1>1. PICK main \in Addresses : conns = << Connection(main, "up", "good") >>
  BY DEF Init, Addresses
<1>2. /\ config \in Configs /\ owner \in [Slots -> Nodes] /\ reshards = 0
      /\ pools = << >> /\ m_reqs_generated = config.generated /\ m_reqs_processed = 0
      /\ config.generated \in Nat /\ mapped = FALSE /\ blind = FALSE /\ pc = "prepare" /\ cur = 1
  BY ClusterAssumption DEF Init
<1>3. Connection(main, "up", "good") \in Connections /\ Connection(main, "up", "good").queue = << >>
  <2>1. << >> \in Seq(Requests)
    BY EmptySeq
  <2> QED  BY <2>1 DEF Connection, Connections
<1>4. /\ conns \in Seq(Connections) /\ Len(conns) = 1 /\ DOMAIN conns = {1}
      /\ conns[1].queue = << >>
  BY <1>1, <1>3
<1>5. Types
  <2>1. conns # << >>
    BY <1>1
  <2>2. << >> \in Seq(Seq(Slots))
    BY EmptySeq
  <2> QED  BY <1>2, <1>4, <2>1, <2>2 DEF Types, Places
<1>6. Structure
  BY <1>2, <1>4 DEF Structure
<1>7. Balance
  <2>1. Waiting(conns) = 0
    <3> DEFINE v == [i \in DOMAIN conns |-> DataIn(conns[i].queue)]
    <3>1. DOMAIN v = {1} /\ \A i \in {1} : v[i] = 0
      BY <1>4, DataInEmpty
    <3>2. IsFiniteSet({1})
      BY FS_Singleton
    <3>3. Waiting(conns) = SumFunctionOnSet(v, DOMAIN v)
      BY DEF Waiting, SumFunction
    <3> HIDE DEF v
    <3>4. SumFunctionOnSet(v, {1}) = 0
      BY ONLY <3>1, <3>2, SumZero
    <3> QED  BY <3>1, <3>3, <3>4
  <2>2. Pooled(pools) = 0
    <3> DEFINE v == [i \in DOMAIN pools |-> Len(pools[i])]
    <3>1. DOMAIN v = {}
      BY <1>2
    <3>2. Pooled(pools) = SumFunctionOnSet(v, DOMAIN v)
      BY DEF Pooled, SumFunction
    <3> HIDE DEF v
    <3> QED  BY <3>1, <3>2, SumEmpty
  <2> QED  BY <1>2, <2>1, <2>2 DEF Balance
<1> QED  BY <1>5, <1>6, <1>7 DEF CInv

LEMMA CInvStep == CInv /\ [Next]_vars => CInv'
<1> SUFFICES ASSUME CInv, [Next]_vars PROVE CInv'
  OBVIOUS
<1>1. CASE Connect \/ Disconnect
  BY <1>1, PrepareKeeps
<1>2. CASE Fill
  <2>1. CASE ParseDone \/ FillDone \/ RatioReset
    BY <2>1, QuietSteps
  <2>2. CASE FillStart
    BY <2>2, FillStartKeeps
  <2>3. CASE FromPool \/ CreateWait
    BY <2>3, FromPoolKeeps, SendCountedKeeps
  <2>4. CASE \E s \in Slots : Draw(s)
    <3>1. PICK s \in Slots : DrawOwn(s) \/ DrawOther(s) \/ DrawWild(s)
      BY <2>4 DEF Draw
    <3> QED  BY <3>1, SendCountedKeeps, DrawAnotherKeeps, QuietSteps
  <2> QED  BY <1>2, <2>1, <2>2, <2>3, <2>4 DEF Fill
<1>3. CASE SomeCallback
  <2>1. PICK i \in DOMAIN conns : Callback(i)
    BY <1>3 DEF SomeCallback
  <2>2. CASE Writable(i) \/ ConnectFailed(i) \/ AddFails(i)
    BY <2>2, WritableKeeps, QuietSteps
  <2>3. CASE HandleData(i) \/ SlotsFailed(i)
    BY <2>3, ReplyKeeps
  <2>4. CASE HandleClusterSlots(i)
    BY <2>4, HandleKeeps
  <2> QED  BY <2>1, <2>2, <2>3, <2>4 DEF Callback
<1>4. CASE SomeAnswer
  BY <1>4, AnswerKeeps DEF SomeAnswer
<1>5. CASE Reshard \/ UNCHANGED vars
  BY <1>5, QuietSteps
<1> QED  BY <1>1, <1>2, <1>3, <1>4, <1>5 DEF Next

\* cluster_client::get_key_for_conn and fill_pipeline: whatever nodes answer and
\* however slots move, every key that was counted is answered, in a pipeline or
\* in a pool, and in one of them only.
THEOREM KeysAccountedFor == Spec => []KeysAccounted
<1>1. CInv => KeysAccounted
  BY BalanceIsKeys
<1> QED  BY <1>1, CInvInit, CInvStep, PTL DEF Spec

\* cluster_client::handle_cluster_slots: any number of answers from any of the
\* connections gives a node one connection, a connection one pool, and no pool
\* more keys than it may hold.
THEOREM OneConnection == Spec => []OneConnectionPerNode
<1>1. CInv => OneConnectionPerNode
  BY DEF CInv, Structure, OneConnectionPerNode
<1> QED  BY <1>1, CInvInit, CInvStep, PTL DEF Spec

-----------------------------------------------------------------------------
(* Keys wait where they belong, as long as the cluster moves no slot       *)

\* What a pipeline holds: an answer names the owners, or nothing.
Consistent == {Data, SlotsReq, SlotsAnswered(owner), SlotsAnswered(<< >>)}

\* The slots that belong to connection i.
OwnSlots(i) == { s \in Slots : i \in DOMAIN conns /\ owner[s] = conns[i].address }

Still == reshards = 0 /\ ~blind

Routed ==
    Still =>
        /\ mapped => \A s \in Slots : /\ m_slot_to_shard[s] \in DOMAIN conns
                                      /\ conns[m_slot_to_shard[s]].address = owner[s]
        /\ \A i \in DOMAIN conns : conns[i].queue \in Seq(Consistent)
        /\ \A i \in DOMAIN pools : pools[i] \in Seq(OwnSlots(i))

LEMMA RoutedInit == Init => Routed
<1> SUFFICES ASSUME Init PROVE Routed
  OBVIOUS
<1>1. PICK main : conns = << Connection(main, "up", "good") >>
  BY DEF Init
<1>2. pools = << >> /\ ~mapped
  BY DEF Init
<1>3. << >> \in Seq(Consistent)
  BY EmptySeq
<1>4. DOMAIN conns = {1} /\ conns[1].queue = << >>
  BY <1>1 DEF Connection
<1>5. \A i \in DOMAIN conns : conns[i].queue \in Seq(Consistent)
  BY <1>3, <1>4
<1>6. \A i \in DOMAIN pools : pools[i] \in Seq(OwnSlots(i))
  BY <1>2
<1> QED  BY <1>2, <1>5, <1>6 DEF Routed

\* A step that changes the requests of one connection and the keys of pools.
LEMMA RoutedKept ==
    ASSUME CInv, Routed, NEW i \in DOMAIN conns, NEW q, Requeued(conns, conns', i, q),
           UNCHANGED << owner, reshards, mapped, m_slot_to_shard >>, blind => blind',
           Still => q \in Seq(Consistent),
           Still /\ Still' => \A j \in DOMAIN pools' : pools'[j] \in Seq(OwnSlots(j))
    PROVE  Routed'
<1> SUFFICES ASSUME Still' PROVE Routed'
  BY DEF Routed
<1>1. Still
  BY DEF Still
<1>2. /\ DOMAIN conns' = DOMAIN conns
      /\ \A j \in DOMAIN conns : conns'[j].address = conns[j].address
      /\ \A j \in DOMAIN conns \ {i} : conns'[j].queue = conns[j].queue
      /\ conns'[i].queue = q
  BY DEF Requeued
<1>3. \A j : OwnSlots(j)' = OwnSlots(j)
  BY <1>2 DEF OwnSlots
<1>4. Consistent' = Consistent
  BY DEF Consistent, SlotsAnswered, Data, SlotsReq
<1>5. \A j \in DOMAIN conns : conns'[j].queue \in Seq(Consistent)
  <2> TAKE j \in DOMAIN conns
  <2>1. CASE j = i
    BY <1>1, <1>2, <2>1
  <2>2. CASE j # i
    BY <1>1, <1>2, <2>2 DEF Routed
  <2> QED  BY <2>1, <2>2
<1>6. \A j \in DOMAIN pools' : pools'[j] \in Seq(OwnSlots(j)')
  BY <1>1, <1>3
<1>7. mapped' => \A s \in Slots : /\ m_slot_to_shard'[s] \in DOMAIN conns'
                                  /\ conns'[m_slot_to_shard'[s]].address = owner'[s]
  BY <1>1, <1>2 DEF Routed
<1>8. \A j \in DOMAIN conns' : conns'[j].queue \in Seq(Consistent')
  BY <1>2, <1>4, <1>5
<1> QED  BY <1>6, <1>7, <1>8 DEF Routed

\* A step that leaves connections and pools alone.
LEMMA RoutedQuiet ==
    ASSUME Routed, UNCHANGED << conns, pools, owner, reshards, mapped, m_slot_to_shard >>,
           blind => blind'
    PROVE  Routed'
<1> SUFFICES ASSUME Still' PROVE Routed'
  BY DEF Routed
<1>1. Still
  BY DEF Still
<1>2. Consistent' = Consistent /\ \A j : OwnSlots(j)' = OwnSlots(j)
  BY DEF Consistent, OwnSlots, SlotsAnswered, Data, SlotsReq
<1> QED  BY <1>1, <1>2 DEF Routed

LEMMA ConsistentAre ==
    /\ Data \in Consistent /\ SlotsReq \in Consistent
    /\ SlotsAnswered(owner) \in Consistent /\ SlotsAnswered(<< >>) \in Consistent
    /\ \A req \in Consistent : req.answered /\ req.answer # << >> => req.answer = owner
BY DEF Consistent, Data, SlotsReq, SlotsAnswered

LEMMA RoutedPrepare ==
    ASSUME CInv, Routed, Connect \/ Disconnect
    PROVE  Routed'
<1>1. CASE Connect
  <2>1. /\ pc = "prepare" /\ conns' = [conns EXCEPT ![1].slots = "none"]
        /\ pools' = Append(pools, << >>)
        /\ UNCHANGED << owner, reshards, mapped, blind, m_slot_to_shard >>
    BY <1>1 DEF Connect, cluster, history
  <2>2. \A i \in DOMAIN pools : pools[i] = << >>
    BY <2>1 DEF CInv, Structure
  <2>3. 1 \in DOMAIN conns /\ Requeued(conns, conns', 1, conns[1].queue)
    <3> DEFINE e == [conns EXCEPT ![1].slots = "none"]
    <3>1. conns \in Seq(Connections) /\ 1 \in DOMAIN conns /\ "none" \in {"none", "sent", "done"}
      BY CInvFacts DEF CInv, Types
    <3>2. Requeued(conns, e, 1, conns[1].queue)
      BY <3>1, StateAssigned
    <3> QED  BY <2>1, <3>1, <3>2
  <2>4. \A j \in DOMAIN pools' : pools'[j] = << >>
    <3>1. << >> \in Seq(Slots) /\ pools \in Seq(Seq(Slots))
      BY EmptySeq DEF CInv, Types
    <3>2. /\ DOMAIN pools = 1..Len(pools) /\ DOMAIN pools' = 1..(Len(pools) + 1)
          /\ Len(pools) \in Nat
          /\ \A j \in DOMAIN pools : pools'[j] = pools[j]
          /\ pools'[Len(pools) + 1] = << >>
      BY <2>1, <3>1, AppendProperties, DomainOfSeq
    <3> QED  BY <2>2, <3>2
  <2>5. \A j \in DOMAIN pools' : pools'[j] \in Seq(OwnSlots(j))
    BY <2>4, EmptySeq
  <2>6. Still => conns[1].queue \in Seq(Consistent)
    BY <2>3 DEF Routed
  <2> QED  BY <2>1, <2>3, <2>5, <2>6, RoutedKept
<1>2. CASE Disconnect
  <2>1. /\ pc = "piled" /\ conns' = SubSeq(conns, 1, 1)
        /\ UNCHANGED << owner, reshards, pools, mapped, blind, m_slot_to_shard >>
    BY <1>2 DEF Disconnect, cluster, history
  <2>2. Len(conns) = 1 /\ conns \in Seq(Connections)
    BY <2>1 DEF CInv, Structure, Types
  <2>3. conns' = conns
    BY <2>1, <2>2, SubSeqFull
  <2> QED  BY <2>1, <2>3, RoutedQuiet
<1> QED  BY <1>1, <1>2

LEMMA RoutedFill ==
    ASSUME CInv, Routed, \/ ParseDone \/ FillStart \/ FillDone
                         \/ CreateWait \/ RatioReset \/ FromPool
                         \/ \E s \in Slots : DrawOwn(s) \/ DrawWild(s)
    PROVE  Routed'
<1>0. cur \in DOMAIN conns
  BY DEF CInv, Types
<1>1. CASE ParseDone \/ FillDone \/ RatioReset
  <2>1. UNCHANGED << conns, pools, owner, reshards, mapped, blind, m_slot_to_shard >>
    BY <1>1 DEF ParseDone, FillDone, RatioReset, cluster, history
  <2> QED  BY <2>1, RoutedQuiet
<1>2. CASE FillStart
  <2> DEFINE q == Append(conns[cur].queue, SlotsReq)
  <2>1. UNCHANGED << pools, owner, reshards, mapped, blind, m_slot_to_shard >>
    BY <1>2 DEF FillStart, cluster, history
  <2>2. CASE conns' = conns
    BY <2>1, <2>2, RoutedQuiet
  <2>3. CASE conns' # conns
    <3>1. Requeued(conns, conns', cur, q)
      BY <1>2, <2>3, SlotsSentMoves DEF FillStart
    <3>2. Still => q \in Seq(Consistent)
      BY <1>0, ConsistentAre, AppendProperties DEF Routed
    <3>3. Still => \A j \in DOMAIN pools' : pools'[j] \in Seq(OwnSlots(j))
      BY <2>1 DEF Routed
    <3> HIDE DEF q
    <3> QED  BY <1>0, <2>1, <3>1, <3>2, <3>3, RoutedKept
  <2> QED  BY <2>2, <2>3
<1>3. ASSUME Send PROVE \E q : /\ Requeued(conns, conns', cur, q)
                               /\ Still => q \in Seq(Consistent)
  <2>1. Requeued(conns, conns', cur, Append(conns[cur].queue, Data))
    BY <1>3, SendMoves
  <2>2. Still => Append(conns[cur].queue, Data) \in Seq(Consistent)
    BY <1>0, ConsistentAre, AppendProperties DEF Routed
  <2> QED  BY <2>1, <2>2
<1>4. CASE FromPool
  <2>1. /\ UNCHANGED << owner, reshards, mapped, blind, m_slot_to_shard >>
        /\ pools[cur] # << >> /\ pools' = [pools EXCEPT ![cur] = Tail(@)] /\ Send
    BY <1>4 DEF FromPool, cluster, history
  <2>2. PICK q : Requeued(conns, conns', cur, q) /\ (Still => q \in Seq(Consistent))
    BY <1>3, <2>1
  <2>3. ASSUME Still, NEW j \in DOMAIN pools' PROVE pools'[j] \in Seq(OwnSlots(j))
    <3>1. j \in DOMAIN pools /\ pools[j] \in Seq(OwnSlots(j))
      BY <2>1, <2>3 DEF Routed
    <3>2. CASE j = cur
      <4>1. pools[j] # << >> /\ pools'[j] = Tail(pools[j])
        BY <2>1, <3>1, <3>2
      <4> QED  BY <3>1, <4>1, HeadTailProperties
    <3>3. CASE j # cur
      BY <2>1, <3>1, <3>3
    <3> QED  BY <3>2, <3>3
  <2> QED  BY <1>0, <2>1, <2>2, <2>3, RoutedKept
<1>5. CASE CreateWait \/ \E s \in Slots : DrawOwn(s)
  <2>1. /\ UNCHANGED << pools, owner, reshards, mapped, m_slot_to_shard >> /\ Send
        /\ blind => blind'
    <3>1. CASE CreateWait
      BY <3>1 DEF CreateWait, cluster, history
    <3>2. CASE \E s \in Slots : DrawOwn(s)
      BY <3>2 DEF DrawOwn, Drawn, cluster
    <3> QED  BY <1>5, <3>1, <3>2
  <2>2. PICK q : Requeued(conns, conns', cur, q) /\ (Still => q \in Seq(Consistent))
    BY <1>3, <2>1
  <2>3. Still => \A j \in DOMAIN pools' : pools'[j] \in Seq(OwnSlots(j))
    BY <2>1 DEF Routed
  <2> QED  BY <1>0, <2>1, <2>2, <2>3, RoutedKept
<1>6. CASE \E s \in Slots : DrawWild(s)
  <2>1. /\ UNCHANGED << conns, pools, owner, reshards, mapped, m_slot_to_shard >>
        /\ blind => blind'
    BY <1>6 DEF DrawWild, Drawn, cluster
  <2> QED  BY <2>1, RoutedQuiet
<1> QED  BY <1>1, <1>2, <1>4, <1>5, <1>6

\* A key drawn before the map is filled makes the client blind; after that the
\* map leads to the owner's connection.
LEMMA RoutedDraw ==
    ASSUME CInv, Routed, NEW s \in Slots, DrawOther(s)
    PROVE  Routed'
<1> DEFINE shard == m_slot_to_shard[s]
<1>1. /\ UNCHANGED << conns, owner, reshards, mapped, m_slot_to_shard >>
      /\ blind' = (blind \/ ~mapped) /\ shard \in DOMAIN pools
      /\ pools' = pools \/ pools' = [pools EXCEPT ![shard] = Append(@, s)]
  BY DEF DrawOther, Drawn, cluster
<1>2. cur \in DOMAIN conns /\ conns \in Seq(Connections)
  BY DEF CInv, Types
<1>3. Requeued(conns, conns', cur, conns[cur].queue)
  BY <1>1, <1>2 DEF Requeued
<1>4. Still => conns[cur].queue \in Seq(Consistent)
  BY <1>2 DEF Routed
<1>5. ASSUME Still, Still', NEW j \in DOMAIN pools' PROVE pools'[j] \in Seq(OwnSlots(j))
  <2>1. mapped /\ s \in OwnSlots(shard)
    BY <1>1, <1>5 DEF Still, Routed, OwnSlots
  <2>2. j \in DOMAIN pools /\ pools[j] \in Seq(OwnSlots(j))
    BY <1>1, <1>5 DEF Routed
  <2>3. CASE pools' = pools
    BY <2>2, <2>3
  <2>4. CASE pools' = [pools EXCEPT ![shard] = Append(@, s)]
    <3> HIDE DEF shard
    <3>1. CASE j = shard
      <4>1. pools'[j] = Append(pools[j], s)
        BY <2>2, <2>4, <3>1
      <4> QED  BY <2>1, <2>2, <3>1, <4>1, AppendProperties
    <3>2. CASE j # shard
      BY <2>2, <2>4, <3>2
    <3> QED  BY <3>1, <3>2
  <2> QED  BY <1>1, <2>3, <2>4
<1> QED  BY <1>1, <1>2, <1>3, <1>4, <1>5, RoutedKept

LEMMA RoutedReply ==
    ASSUME CInv, Routed, NEW i \in DOMAIN conns,
           \/ Writable(i) \/ ConnectFailed(i) \/ AddFails(i)
           \/ HandleData(i) \/ SlotsFailed(i) \/ AnswerSlots(i)
    PROVE  Routed'
<1>a. CASE Writable(i)
  <2>1. /\ UNCHANGED << pools, owner, reshards, mapped, blind, m_slot_to_shard >>
        /\ conns' = [conns EXCEPT ![i].sock = "up"]
    BY <1>a DEF Writable, cluster, history
  <2>2. Requeued(conns, conns', i, conns[i].queue)
    BY <2>1, UpAssigned DEF CInv, Types
  <2>3. Still => conns[i].queue \in Seq(Consistent)
    BY DEF Routed
  <2>4. Still => \A j \in DOMAIN pools' : pools'[j] \in Seq(OwnSlots(j))
    BY <2>1 DEF Routed
  <2> QED  BY <2>1, <2>2, <2>3, <2>4, RoutedKept
<1>1. CASE ConnectFailed(i) \/ AddFails(i)
  <2>1. UNCHANGED << conns, pools, owner, reshards, mapped, blind, m_slot_to_shard >>
    BY <1>1 DEF ConnectFailed, AddFails, cluster, history
  <2> QED  BY <2>1, RoutedQuiet
<1>2. CASE HandleData(i) \/ SlotsFailed(i)
  <2>1. /\ UNCHANGED << pools, owner, reshards, mapped, blind, m_slot_to_shard >>
        /\ conns' = [conns EXCEPT ![i].queue = Tail(@)]
        /\ conns[i].queue # << >>
        /\ \E type : HasReply(i, type)
    BY <1>2 DEF HandleData, SlotsFailed, HasReply, cluster, history
  <2>2. Requeued(conns, conns', i, Tail(conns[i].queue))
    BY <2>1, ReplyMoves
  <2>3. Still => Tail(conns[i].queue) \in Seq(Consistent)
    BY <2>1, HeadTailProperties DEF Routed
  <2>4. Still => \A j \in DOMAIN pools' : pools'[j] \in Seq(OwnSlots(j))
    BY <2>1 DEF Routed
  <2> QED  BY <2>1, <2>2, <2>3, <2>4, RoutedKept
<1>3. CASE AnswerSlots(i)
  <2>1. UNCHANGED << pools, owner, reshards, mapped, blind, m_slot_to_shard >>
        /\ conns[i].queue # << >>
    BY <1>3 DEF AnswerSlots, cluster, history
  <2>2. PICK answer \in {owner, << >>} :
          Requeued(conns, conns', i, [conns[i].queue EXCEPT ![1] = SlotsAnswered(answer)])
    BY <1>3, AnswerMoves
  <2>3. Still => [conns[i].queue EXCEPT ![1] = SlotsAnswered(answer)] \in Seq(Consistent)
    <3>1. SlotsAnswered(answer) \in Consistent
      BY ConsistentAre
    <3> HIDE DEF Consistent
    <3>2. SUFFICES ASSUME Still
                   PROVE  [conns[i].queue EXCEPT ![1] = SlotsAnswered(answer)] \in Seq(Consistent)
      OBVIOUS
    <3>3. conns[i].queue \in Seq(Consistent)
      BY <3>2 DEF Routed
    <3>4. 1 \in 1..Len(conns[i].queue)
      BY <2>1, <3>3, LenProperties, EmptySeq
    <3> QED  BY <3>1, <3>3, <3>4, ExceptSeq
  <2>4. Still => \A j \in DOMAIN pools' : pools'[j] \in Seq(OwnSlots(j))
    BY <2>1 DEF Routed
  <2> QED  BY <2>1, <2>2, <2>3, <2>4, RoutedKept
<1> QED  BY <1>a, <1>1, <1>2, <1>3

\* The answer that fills the map names the owners.
LEMMA RoutedHandle ==
    ASSUME CInv, Routed, NEW i \in DOMAIN conns, HandleClusterSlots(i)
    PROVE  Routed'
<1> SUFFICES ASSUME Still' PROVE Routed'
  BY DEF Routed
<1>1. /\ UNCHANGED << owner, reshards, blind >>
      /\ Answered(i) /\ Answer(i) # << >>
  BY DEF HandleClusterSlots, cluster
<1>2. Still
  BY <1>1 DEF Still
<1>3. PICK all : Remapped(i, all)
  BY HandleMoves
<1>4. /\ all \in Seq(Connections) /\ DOMAIN conns \subseteq DOMAIN all
      /\ \A j \in DOMAIN conns : all[j] = conns[j]
      /\ \A j \in DOMAIN all \ DOMAIN conns : all[j].queue = << >>
      /\ \A s \in Slots : \E k \in DOMAIN all : all[k].address = Answer(i)[s]
  BY <1>3 DEF Remapped, Extended
<1>5. /\ DOMAIN conns' = DOMAIN all
      /\ \A j \in DOMAIN all : conns'[j].address = all[j].address
      /\ \A j \in DOMAIN all \ {i} : conns'[j].queue = all[j].queue
      /\ conns'[i].queue = Tail(conns[i].queue)
  BY <1>3 DEF Remapped, Requeued
<1>6. /\ DOMAIN pools \subseteq DOMAIN pools'
      /\ \A j \in DOMAIN pools : pools'[j] = pools[j]
      /\ \A j \in DOMAIN pools' \ DOMAIN pools : pools'[j] = << >>
      /\ m_slot_to_shard' = [s \in Slots |-> ShardAt(all, Answer(i)[s])]
  BY <1>3 DEF Remapped
<1>7. conns[i].queue \in Seq(Consistent) /\ conns[i].queue # << >>
  BY <1>2, AnswerType DEF Routed
<1>8. Answer(i) = owner
  <2>1. Head(conns[i].queue) \in Consistent
    BY <1>7, HeadTailProperties
  <2> QED  BY <1>1, <2>1, ConsistentAre DEF Answered, Answer
<1>9. \A s \in Slots : /\ m_slot_to_shard'[s] \in DOMAIN conns'
                       /\ conns'[m_slot_to_shard'[s]].address = owner'[s]
  <2> TAKE s \in Slots
  <2>1. /\ ShardAt(all, owner[s]) \in DOMAIN all
        /\ all[ShardAt(all, owner[s])].address = owner[s]
    BY <1>4, <1>8, ShardFound
  <2>2. m_slot_to_shard'[s] = ShardAt(all, owner[s])
    BY <1>6, <1>8
  <2> QED  BY <1>1, <1>5, <2>1, <2>2
<1>10. Consistent' = Consistent
  BY <1>1 DEF Consistent, SlotsAnswered, Data, SlotsReq
<1>11. \A j \in DOMAIN conns' : conns'[j].queue \in Seq(Consistent)
  <2> TAKE j \in DOMAIN conns'
  <2>1. CASE j = i
    <3>1. Tail(conns[i].queue) \in Seq(Consistent)
      BY <1>7, HeadTailProperties
    <3> QED  BY <1>5, <2>1, <3>1
  <2>2. CASE j # i /\ j \in DOMAIN conns
    <3>1. conns[j].queue \in Seq(Consistent)
      BY <1>2, <2>2 DEF Routed
    <3>2. j \in DOMAIN all \ {i} /\ conns'[j].queue = conns[j].queue
      BY <1>4, <1>5, <2>2
    <3> QED  BY <3>1, <3>2
  <2>3. CASE j # i /\ j \notin DOMAIN conns
    <3>1. << >> \in Seq(Consistent)
      BY EmptySeq
    <3>2. conns'[j].queue = << >>
      BY <1>4, <1>5, <2>3
    <3> QED  BY <3>1, <3>2
  <2> QED  BY <2>1, <2>2, <2>3
<1>12. \A j \in DOMAIN conns : OwnSlots(j)' = OwnSlots(j)
  <2> TAKE j \in DOMAIN conns
  <2>1. j \in DOMAIN conns' /\ conns'[j].address = conns[j].address
    BY <1>4, <1>5
  <2> QED  BY <1>1, <2>1 DEF OwnSlots
<1>13. \A j \in DOMAIN pools' : pools'[j] \in Seq(OwnSlots(j)')
  <2> TAKE j \in DOMAIN pools'
  <2>1. CASE j \in DOMAIN pools
    <3>1. j \in DOMAIN conns
      BY <2>1, CInvFacts DEF CInv, Structure, HandleClusterSlots, HasReply
    <3>2. pools'[j] \in Seq(OwnSlots(j))
      BY <1>2, <1>6, <2>1 DEF Routed
    <3> QED  BY <1>12, <3>1, <3>2
  <2>2. CASE j \notin DOMAIN pools
    BY <1>6, <2>2, EmptySeq
  <2> QED  BY <2>1, <2>2
<1> QED  BY <1>9, <1>10, <1>11, <1>13 DEF Routed

LEMMA RoutedStep == CInv /\ Routed /\ [Next]_vars => Routed'
<1> SUFFICES ASSUME CInv, Routed, [Next]_vars PROVE Routed'
  OBVIOUS
<1>1. CASE Connect \/ Disconnect
  BY <1>1, RoutedPrepare
<1>2. CASE Fill
  <2>1. CASE ParseDone \/ FillStart \/ FillDone \/ CreateWait \/ RatioReset \/ FromPool
    BY <2>1, RoutedFill
  <2>2. CASE \E s \in Slots : Draw(s)
    <3>1. PICK s \in Slots : DrawOwn(s) \/ DrawOther(s) \/ DrawWild(s)
      BY <2>2 DEF Draw
    <3> QED  BY <3>1, RoutedFill, RoutedDraw
  <2> QED  BY <1>2, <2>1, <2>2 DEF Fill
<1>3. CASE SomeCallback
  <2>1. PICK i \in DOMAIN conns : Callback(i)
    BY <1>3 DEF SomeCallback
  <2> QED  BY <2>1, RoutedReply, RoutedHandle DEF Callback
<1>4. CASE SomeAnswer
  BY <1>4, RoutedReply DEF SomeAnswer
<1>5. CASE Reshard
  <2>1. reshards' # 0
    BY <1>5 DEF Reshard, CInv, Types
  <2> QED  BY <2>1 DEF Routed, Still
<1>6. CASE UNCHANGED vars
  BY <1>6, RoutedQuiet DEF vars, cluster, history
<1> QED  BY <1>1, <1>2, <1>3, <1>4, <1>5, <1>6 DEF Next

\* cluster_client::get_key_for_conn and handle_cluster_slots: while no slot has
\* moved and no key was drawn under an empty map, a key that waits in a pool waits
\* for the connection to the node that owns its slot.
THEOREM KeysRouted == Spec => []PoolsRouted
<1>1. CInv /\ Routed => PoolsRouted
  <2> SUFFICES ASSUME CInv, Routed, Still, NEW i \in DOMAIN pools, NEW k \in DOMAIN pools[i]
               PROVE  conns[i].address = owner[pools[i][k]]
    BY DEF PoolsRouted, Still
  <2>1. pools[i] \in Seq(OwnSlots(i))
    BY DEF Routed
  <2>2. pools[i][k] \in OwnSlots(i)
    BY <2>1, DomainOfSeq
  <2> QED  BY <2>2 DEF OwnSlots
<1> QED  BY <1>1, CInvInit, CInvStep, RoutedInit, RoutedStep, PTL DEF Spec

=============================================================================
