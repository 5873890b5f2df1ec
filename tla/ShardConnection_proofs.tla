----------------------- MODULE ShardConnection_proofs ------------------------
(***************************************************************************)
(* The books of a client are right for every configuration, pipeline depth *)
(* and fault, a connection implements the closed loop, and replies and     *)
(* requests stay in step on the wire.                                      *)
(***************************************************************************)
EXTENDS ShardConnection, SequenceTheorems, TLAPS

-----------------------------------------------------------------------------
(* The inductive invariant                                                 *)

\* The types the counting argument needs (TypeOK, less the wire).
CoreType ==
    /\ m_pipeline \in Seq(RequestSet)
    /\ m_reqs_generated \in Nat /\ m_reqs_processed \in Nat
    /\ uninit \in UninitValues
    /\ m_end_set \in BOOLEAN
    /\ site \in {"connect", "response", "writable"}

\* Setup commands are sent before anything else on a connection.
SetupUnsent == m_authentication = "none" \/ m_db_selection = "none"
SetupBeforeData ==
    /\ SetupUnsent => m_pipeline = << >>
    /\ pc = "loop" => ~SetupUnsent

\* The loop of fill_pipeline started below the limit, and what it has sent
\* since is still in the pipeline.
LoopBudget ==
    Requests > 0 /\ pc = "loop" => m_reqs_generated < Requests + Len(m_pipeline)

\* While handle_event runs its event is not registered, and the event of a
\* client that has recorded its end never is again.
Unregistered ==
    /\ pc \notin {"idle", "aborted"} => armed = {}
    /\ m_end_set => armed = {} /\ pc = "idle"

IInv ==
    /\ CoreType /\ Accounting /\ SetupBeforeData
    /\ LoopBudget /\ RequestsBound /\ Unregistered

-----------------------------------------------------------------------------
(* Facts about the operators of the model                                  *)

LEMMA RequestTypes ==
    /\ Auth \in RequestSet /\ Select \in RequestSet /\ Dispatch \in RequestSet
    /\ IsSetup(Auth) /\ IsSetup(Select)
    /\ \A n \in Nat : Data(n) \in RequestSet /\ ~IsSetup(Data(n))
BY DEF Auth, Select, Dispatch, Data, RequestSet, IsSetup

LEMMA SetupCommandsType ==
    /\ SetupCommands \in Seq(RequestSet)
    /\ \A i \in 1..Len(SetupCommands) : IsSetup(SetupCommands[i])
    /\ ~SetupUnsent => SetupCommands = << >>
BY RequestTypes DEF SetupCommands, SetupUnsent

\* What appending and removing does to the requests a queue holds.
LEMMA HoldsBound ==
    ASSUME NEW q \in Seq(RequestSet), NEW n, Holds(q, n)
    PROVE  n \in 0..Len(q)
BY DEF Holds

LEMMA HoldsEmpty ==
    ASSUME NEW q \in Seq(RequestSet), \A i \in 1..Len(q) : IsSetup(q[i])
    PROVE  Holds(q, 0)
BY DEF Holds

LEMMA HoldsAppend ==
    ASSUME NEW q \in Seq(RequestSet), NEW n \in Int, Holds(q, n), NEW m \in Nat
    PROVE  Holds(Append(q, Data(m)), n + 1)
<1> DEFINE r == Data(m)
           q1 == Append(q, r)
<1>1. /\ Len(q1) = Len(q) + 1
      /\ \A i \in 1..Len(q) : q1[i] = q[i]
      /\ q1[Len(q) + 1] = r
      /\ Len(q) \in Nat
  BY RequestTypes, AppendProperties
<1>2. ~IsSetup(r)
  BY RequestTypes
<1>3. PICK k \in 0..Len(q) :
          /\ \A i \in 1..Len(q) : IsSetup(q[i]) <=> i <= k
          /\ n = Len(q) - k
  BY DEF Holds
<1> HIDE DEF r, q1
<1>4. \A i \in 1..Len(q1) : IsSetup(q1[i]) <=> i <= k
  BY <1>1, <1>2, <1>3
<1>5. k \in 0..Len(q1) /\ n + 1 = Len(q1) - k
  BY <1>1, <1>3
<1>6. Holds(q1, n + 1)
  BY <1>4, <1>5 DEF Holds
<1> QED  BY <1>6 DEF q1, r

LEMMA HoldsTail ==
    ASSUME NEW q \in Seq(RequestSet), NEW n \in Int, Holds(q, n), q # << >>
    PROVE  IF IsSetup(Head(q)) THEN Holds(Tail(q), n)
                               ELSE n > 0 /\ Holds(Tail(q), n - 1)
<1> DEFINE t == Tail(q)
<1>1. /\ Len(t) = Len(q) - 1 /\ Len(q) \in Nat /\ Len(q) > 0
      /\ \A i \in 1..Len(t) : t[i] = q[i + 1]
      /\ Head(q) = q[1]
  BY EmptySeq, HeadTailProperties
<1>2. PICK k \in 0..Len(q) :
          /\ \A i \in 1..Len(q) : IsSetup(q[i]) <=> i <= k
          /\ n = Len(q) - k
  BY DEF Holds
<1> HIDE DEF t
<1>3. CASE IsSetup(q[1])
  <2>1. k >= 1 /\ k - 1 \in 0..Len(t) /\ n = Len(t) - (k - 1)
    BY <1>1, <1>2, <1>3
  <2>2. \A i \in 1..Len(t) : IsSetup(t[i]) <=> i <= k - 1
    BY <1>1, <1>2, <2>1
  <2>3. Holds(t, n)
    BY <2>1, <2>2 DEF Holds
  <2> QED  BY <1>1, <1>3, <2>3 DEF t
<1>4. CASE ~IsSetup(q[1])
  <2>1. k = 0 /\ n = Len(q)
    BY <1>1, <1>2, <1>4
  <2>2. \A i \in 1..Len(t) : IsSetup(t[i]) <=> i <= 0
    BY <1>1, <1>2, <2>1
  <2>3. n - 1 = Len(t) - 0 /\ 0 \in 0..Len(t)
    BY <1>1, <2>1
  <2>4. Holds(t, n - 1)
    BY <2>2, <2>3 DEF Holds
  <2> QED  BY <1>1, <1>4, <2>1, <2>4 DEF t
<1> QED  BY <1>3, <1>4

\* fill_pipeline returns into handle_event, never into its own loop.
LEMMA AfterFillCases ==
    ASSUME site \in {"connect", "response", "writable"}, NEW b \in BOOLEAN
    PROVE  AfterFill(b) \in {"flush", "writable", "rearm", "aborted", "assert_failed"}
BY DEF AfterFill

-----------------------------------------------------------------------------
(* The steps that touch the queue or the counters                          *)

\* Steps that leave the pipeline and both counters alone keep the books.
LEMMA BooksUnchanged ==
    ASSUME IInv, UNCHANGED << m_pipeline, counters, uninit >>
    PROVE  Accounting' /\ RequestsBound'
BY DEF IInv, Accounting, RequestsBound, sent, counters

LEMMA FillStartStep == IInv /\ FillStart => IInv'
<1> SUFFICES ASSUME IInv, FillStart PROVE IInv'
  OBVIOUS
<1> USE DEF IInv
<1>1. /\ m_pipeline \in Seq(RequestSet) /\ m_pipeline' = m_pipeline \o SetupCommands
      /\ sent' = sent /\ m_reqs_processed' = m_reqs_processed
      /\ m_reqs_generated' = m_reqs_generated /\ uninit' = uninit
  BY DEF FillStart, CoreType, sent, counters, test
<1>2. m_pipeline' \in Seq(RequestSet)
  BY <1>1, SetupCommandsType, ConcatProperties
<1>3. Accounting'
  <2>1. CASE SetupUnsent
    <3>1. m_pipeline = << >> /\ m_pipeline' = SetupCommands
      BY <1>1, <2>1, SetupCommandsType, ConcatEmptySeq DEF SetupBeforeData
    <3>2. sent - m_reqs_processed = 0
      <4>1. sent - m_reqs_processed \in 0..Len(m_pipeline)
        BY <1>1, HoldsBound, Zenon DEF Accounting
      <4> QED  BY <3>1, <4>1
    <3>3. Holds(m_pipeline', 0)
      BY <3>1, SetupCommandsType, HoldsEmpty
    <3> QED  BY <1>1, <3>2, <3>3 DEF Accounting
  <2>2. CASE ~SetupUnsent
    <3>1. m_pipeline' = m_pipeline
      BY <1>1, <2>2, SetupCommandsType, ConcatEmptySeq
    <3> QED  BY <1>1, <3>1 DEF Accounting
  <2> QED  BY <2>1, <2>2
<1>4. SetupBeforeData'
  BY DEF FillStart, SetupBeforeData, SetupUnsent
<1>5. LoopBudget' /\ RequestsBound'
  BY <1>1, <1>2, LenProperties, ConfigAssumption
     DEF FillStart, hold_pipeline, LoopBudget, RequestsBound, CoreType
<1>6. CoreType' /\ Unregistered'
  BY <1>2 DEF FillStart, CoreType, Unregistered, link, counters, test
<1> QED  BY <1>3, <1>4, <1>5, <1>6

LEMMA SendRequestStep ==
    ASSUME IInv, pc = "loop", MaySend,
           m_pipeline' = Append(m_pipeline, Data(m_reqs_generated + 1)),
           m_reqs_generated' = m_reqs_generated + 1,
           UNCHANGED << m_reqs_processed, test, site >>
    PROVE  /\ CoreType' /\ Accounting' /\ RequestsBound'
           /\ Requests > 0 => m_reqs_generated' < Requests + Len(m_pipeline')
<1> USE DEF IInv
<1>1. /\ m_pipeline \in Seq(RequestSet) /\ m_reqs_generated \in Nat
      /\ m_reqs_processed \in Nat /\ uninit \in Nat /\ sent \in Int
      /\ uninit' = uninit /\ sent' = sent + 1
  BY ConfigAssumption DEF CoreType, sent, test
<1>2. /\ m_pipeline' \in Seq(RequestSet)
      /\ Len(m_pipeline') = Len(m_pipeline) + 1 /\ Len(m_pipeline) \in Nat
  BY <1>1, RequestTypes, AppendProperties
<1>3. Accounting'
  <2>1. sent - m_reqs_processed \in Int /\ m_reqs_generated + 1 \in Nat
    BY <1>1
  <2>2. Holds(m_pipeline', (sent - m_reqs_processed) + 1)
    BY <1>1, <2>1, HoldsAppend, Zenon DEF Accounting
  <2>3. (sent - m_reqs_processed)' = (sent - m_reqs_processed) + 1
    BY <1>1
  <2> QED  BY <2>2, <2>3, Zenon DEF Accounting
<1>4. Requests > 0 => m_reqs_generated' < Requests + Len(m_pipeline')
  BY <1>1, <1>2, ConfigAssumption DEF LoopBudget
<1>5. RequestsBound'
  BY <1>1, <1>2, <1>4, ConfigAssumption DEF RequestsBound, MaySend
<1> QED  BY <1>1, <1>2, <1>3, <1>4, <1>5 DEF CoreType, test

LEMMA ParseReplyStep == IInv /\ ParseReply => IInv'
<1> SUFFICES ASSUME IInv, ParseReply PROVE IInv'
  OBVIOUS
<1> USE DEF IInv
<1>1. /\ m_pipeline \in Seq(RequestSet) /\ m_pipeline # << >>
      /\ m_reqs_generated \in Nat /\ m_reqs_processed \in Nat
      /\ m_reqs_generated' = m_reqs_generated /\ uninit' = uninit
      /\ sent \in Int /\ sent' = sent
      /\ m_pipeline' = Tail(m_pipeline)
      /\ m_reqs_processed' = IF IsSetup(Head(m_pipeline)) THEN m_reqs_processed
                             ELSE m_reqs_processed + 1
  BY ConfigAssumption DEF ParseReply, CoreType, sent
<1>2. m_pipeline' \in Seq(RequestSet)
  BY <1>1, HeadTailProperties
<1>3. Accounting'
  <2>1. sent - m_reqs_processed \in Int
    BY <1>1
  <2>2. IF IsSetup(Head(m_pipeline))
        THEN Holds(m_pipeline', sent - m_reqs_processed)
        ELSE Holds(m_pipeline', (sent - m_reqs_processed) - 1)
    BY <1>1, <2>1, HoldsTail, Zenon DEF Accounting
  <2>3. CASE IsSetup(Head(m_pipeline))
    BY <1>1, <2>2, <2>3, Zenon DEF Accounting
  <2>4. CASE ~IsSetup(Head(m_pipeline))
    <3>1. (sent - m_reqs_processed)' = (sent - m_reqs_processed) - 1
      BY <1>1, <2>4
    <3> QED  BY <2>2, <2>4, <3>1, Zenon DEF Accounting
  <2> QED  BY <2>3, <2>4
<1>4. SetupBeforeData' /\ LoopBudget'
  BY <1>1 DEF ParseReply, SetupBeforeData, SetupUnsent, LoopBudget
<1>5. RequestsBound'
  BY <1>1 DEF RequestsBound
<1>6. CoreType' /\ Unregistered'
  BY <1>1, <1>2 DEF ParseReply, CoreType, Unregistered, link
<1> QED  BY <1>3, <1>4, <1>5, <1>6

-----------------------------------------------------------------------------
(* The steps that leave the queue and the counters alone                   *)

\* It is enough to look at the control state, the event and the setup.
LEMMA QuietStep ==
    ASSUME IInv, UNCHANGED << m_pipeline, counters, uninit >>,
           m_end_set' \in BOOLEAN, site' \in {"connect", "response", "writable"},
           SetupUnsent' => SetupUnsent \/ m_pipeline = << >>,
           pc' = "loop" => pc = "loop" /\ UNCHANGED setup,
           Unregistered'
    PROVE  IInv'
BY BooksUnchanged DEF IInv, CoreType, SetupBeforeData, SetupUnsent, LoopBudget,
                      counters, setup

LEMMA DisconnectSetup == disconnect => ~SetupUnsent'
BY DEF disconnect, SetupUnsent

LEMMA IInvInit == Init => IInv
<1> SUFFICES ASSUME Init PROVE IInv
  OBVIOUS
<1>1. CoreType
  <2>1. m_pipeline \in Seq(RequestSet)
    BY EmptySeq, Zenon DEF Init
  <2> QED  BY <2>1, ConfigAssumption DEF Init, CoreType
<1>2. Accounting
  <2>1. m_pipeline \in Seq(RequestSet) /\ Len(m_pipeline) = 0
    BY <1>1 DEF Init, CoreType
  <2>2. \A i \in 1..Len(m_pipeline) : IsSetup(m_pipeline[i])
    BY <2>1
  <2>4. Holds(m_pipeline, 0)
    BY <2>1, <2>2, HoldsEmpty
  <2>3. sent - m_reqs_processed = 0
    BY <1>1, ConfigAssumption DEF Init, sent, CoreType
  <2> QED  BY <2>3, <2>4 DEF Accounting
<1>3. SetupBeforeData /\ LoopBudget /\ RequestsBound /\ Unregistered
  BY DEF Init, SetupBeforeData, LoopBudget, RequestsBound, Unregistered
<1> QED  BY <1>1, <1>2, <1>3 DEF IInv

\* handle_event, the callback and the way through it.
LEMMA HandlerSteps ==
    ASSUME IInv, NEW evs \in SUBSET {"EV_READ", "EV_WRITE"},
           \/ ConnectFailed(evs) \/ ConnectDone(evs) \/ EventOnConnected(evs)
           \/ NothingToRead \/ Abort \/ Writable \/ Rearm
           \/ ParseUnexpected \/ ParseError \/ ParseDone \/ ResponsesDone
           \/ FillHeld \/ FillDone
    PROVE  IInv'
<1>1. UNCHANGED << m_pipeline, counters, uninit, setup >>
  BY DEF ConnectFailed, ConnectDone, EventOnConnected, NothingToRead, Abort, Writable,
         Rearm, ParseUnexpected, ParseError, ParseDone, ResponsesDone, FillHeld,
         FillDone, test
<1>2. m_end_set' \in BOOLEAN /\ site' \in {"connect", "response", "writable"}
  BY DEF IInv, CoreType, ConnectFailed, ConnectDone, EventOnConnected,
         NothingToRead, Abort, Writable, Rearm, ParseUnexpected, ParseError,
         ParseDone, ResponsesDone, FillHeld, FillDone, test
<1>3. SetupUnsent' = SetupUnsent
  BY <1>1 DEF SetupUnsent, setup
<1>4. pc' # "loop" /\ Unregistered'
  <2>1. pc \in {"idle", "aborted"} \/ armed = {}
    BY DEF IInv, Unregistered
  <2>2. CASE FillHeld \/ FillDone
    <3>1. pc' = AfterFill(TRUE) /\ pc \in {"fill", "loop"}
          /\ UNCHANGED << armed, m_end_set >>
      BY <2>2 DEF FillHeld, FillDone, link, test
    <3>2. armed = {} /\ ~m_end_set
      BY <3>1 DEF IInv, Unregistered
    <3>3. pc' # "loop"
      BY <3>1, AfterFillCases DEF IInv, CoreType
    <3> QED  BY <3>1, <3>2, <3>3 DEF Unregistered
  <2>3. CASE Rearm
    BY <2>3 DEF IInv, Unregistered, Rearm
  <2>4. CASE ConnectFailed(evs) \/ ConnectDone(evs) \/ EventOnConnected(evs)
    <3>1. Callback(evs) /\ m_end_set' = m_end_set
      BY <2>4 DEF ConnectFailed, ConnectDone, EventOnConnected, test
    <3>2. armed' = {} /\ ~m_end_set
      BY <3>1, Zenon DEF Callback, IInv, Unregistered
    <3>3. pc' # "loop"
      BY <2>4, Zenon DEF ConnectFailed, ConnectDone, EventOnConnected, Callback
    <3> QED  BY <3>1, <3>2, <3>3, Zenon DEF Unregistered
  <2>5. CASE \/ NothingToRead \/ Abort \/ Writable \/ ParseUnexpected
             \/ ParseError \/ ParseDone \/ ResponsesDone
    BY <2>5 DEF IInv, Unregistered, NothingToRead, Abort, Writable,
       ParseUnexpected, ParseError, ParseDone, ResponsesDone, link, test
  <2> QED  BY <2>2, <2>3, <2>4, <2>5
<1> QED  BY <1>1, <1>2, <1>3, <1>4, QuietStep

\* The steps that move messages, and those of the other parties.
LEMMA WireSteps ==
    ASSUME IInv,
           \/ FlushSome \/ ReadSome
           \/ KernelConnects \/ ServerReplies \/ ServerDrops \/ ServerStalls
           \/ MasterFinishes \/ UNCHANGED vars
    PROVE  IInv'
<1> USE DEF FlushSome, ReadSome, Flush, Read, KernelConnects, ServerReplies,
            ServerDrops, ServerStalls, MasterFinishes
<1>1. UNCHANGED << m_pipeline, counters, uninit, setup, m_end_set, site, armed >>
  BY DEF test, control, vars, link
<1>2. \/ pc' = pc
      \/ pc = "flush" /\ pc' = "read"
      \/ pc = "read" /\ pc' = "parse"
  BY DEF control, vars
<1>3. SetupUnsent' = SetupUnsent
  BY <1>1 DEF SetupUnsent, setup
<1>4. Unregistered'
  BY <1>1, <1>2 DEF IInv, Unregistered
<1>5. m_end_set' \in BOOLEAN /\ site' \in {"connect", "response", "writable"}
  BY <1>1 DEF IInv, CoreType
<1> QED  BY <1>1, <1>2, <1>3, <1>4, <1>5, QuietStep

\* The steps that close the connection, and the one that opens it again.
LEMMA LinkSteps ==
    ASSUME IInv, FlushFails \/ ReadDropped \/ Reconnect \/ ReconnectFails
    PROVE  IInv'
<1>1. UNCHANGED << m_pipeline, counters, uninit, m_end_set, site >>
  BY DEF FlushFails, ReadDropped, Reconnect, ReconnectFails, test
<1>2. pc' \in {"idle", "aborted", "assert_failed"} /\ ~m_end_set
  BY DEF FlushFails, ReadDropped, Reconnect, ReconnectFails, IInv, Unregistered
<1>3. Unregistered'
  BY <1>1, <1>2 DEF FlushFails, ReadDropped, Reconnect, ReconnectFails, disconnect, link,
     IInv, Unregistered
<1>4. SetupUnsent' => SetupUnsent \/ m_pipeline = << >>
  BY DisconnectSetup DEF FlushFails, ReadDropped, Reconnect, ReconnectFails,
     SetupUnsent, setup
<1>5. m_end_set' \in BOOLEAN /\ site' \in {"connect", "response", "writable"}
  BY <1>1 DEF IInv, CoreType
<1> QED  BY <1>1, <1>2, <1>3, <1>4, <1>5, QuietStep

LEMMA SendSteps ==
    ASSUME IInv, SendSome \/ SendRequestFails
    PROVE  IInv'
<1>1. /\ pc = "loop" /\ MaySend
      /\ m_pipeline' = Append(m_pipeline, Data(m_reqs_generated + 1))
      /\ m_reqs_generated' = m_reqs_generated + 1
      /\ UNCHANGED << m_reqs_processed, test, site >>
  BY DEF SendSome, SendRequest, SendRequestFails, control
<1>2. /\ CoreType' /\ Accounting' /\ RequestsBound'
      /\ Requests > 0 => m_reqs_generated' < Requests + Len(m_pipeline')
  BY <1>1, SendRequestStep
<1>3. SetupBeforeData' /\ Unregistered'
  <2>1. CASE SendSome
    BY <2>1 DEF SendSome, SendRequest, control, link, setup, test, IInv,
       SetupBeforeData, SetupUnsent, Unregistered
  <2>2. CASE SendRequestFails
    BY <2>2, AfterFillCases DEF SendRequestFails, disconnect, test, IInv, CoreType,
       SetupBeforeData, SetupUnsent, Unregistered
  <2> QED  BY <2>1, <2>2
<1> QED  BY <1>2, <1>3 DEF IInv, LoopBudget

LEMMA IInvStep == IInv /\ [Next]_vars => IInv'
<1> SUFFICES ASSUME IInv, [Next]_vars PROVE IInv'
  OBVIOUS
<1> QED  BY HandlerSteps, WireSteps, LinkSteps, SendSteps, FillStartStep,
            ParseReplyStep DEF Next, EventLoop, HandleEvent

-----------------------------------------------------------------------------
(* Theorems                                                                *)

LEMMA Inductive == Spec => []IInv
BY IInvInit, IInvStep, PTL DEF Spec

\* The counters and the queue of a client never disagree.
THEOREM BooksBalance == Spec => []Accounting
<1>1. IInv => Accounting
  BY DEF IInv
<1> QED  BY Inductive, <1>1, PTL

\* A client overshoots its limit by less than one pipeline.
THEOREM Overshoot == Spec => []RequestsBound
<1>1. IInv => RequestsBound
  BY DEF IInv
<1> QED  BY Inductive, <1>1, PTL

\* Once the end is recorded nothing is sent or counted any more.
THEOREM QuietAfterEnd == Spec => NothingAfterEnd
<1>1. IInv /\ [Next]_vars => [m_end_set => UNCHANGED counters]_vars
  <2> SUFFICES ASSUME IInv, [Next]_vars, m_end_set PROVE UNCHANGED counters
    OBVIOUS
  <2>1. pc = "idle"
    BY DEF IInv, Unregistered
  <2> QED
    BY <2>1 DEF Next, EventLoop, HandleEvent, ConnectFailed, ConnectDone,
       EventOnConnected, FlushSome, Flush, FlushFails, ReadSome, Read, ReadDropped,
       NothingToRead, ParseReply, ParseUnexpected, ParseError, ParseDone,
       Reconnect, ReconnectFails, ResponsesDone, FillHeld, FillStart, SendSome, SendRequest,
       SendRequestFails, FillDone, Abort, Writable, Rearm, KernelConnects,
       ServerReplies, ServerDrops, ServerStalls, MasterFinishes, vars, counters
<1> QED  BY Inductive, <1>1, PTL DEF Spec, NothingAfterEnd

-----------------------------------------------------------------------------
(* Refinement of ClosedLoop                                                *)

\* What the closed loop sees is left alone.
Hidden == UNCHANGED << m_reqs_generated, m_reqs_processed, uninit, m_end_set >>

LEMMA HiddenStutters == Hidden => UNCHANGED CL!vars
BY DEF Hidden, CL!vars, sent

LEMMA IssueStep ==
    ASSUME IInv, SendSome \/ SendRequestFails
    PROVE  CL!Issue
<1>1. /\ pc = "loop" /\ Len(m_pipeline) < Pipeline
      /\ m_reqs_generated' = m_reqs_generated + 1
      /\ UNCHANGED << m_reqs_processed, m_end_set, uninit >>
  BY DEF SendSome, SendRequest, SendRequestFails, MaySend, test
<1>2. /\ m_reqs_generated \in Nat /\ uninit \in Nat /\ m_reqs_processed \in Nat
      /\ m_pipeline \in Seq(RequestSet)
  BY ConfigAssumption DEF IInv, CoreType
<1>3. sent - m_reqs_processed \in 0..Len(m_pipeline)
  BY <1>2, HoldsBound, Zenon DEF IInv, Accounting
<1>4. ~m_end_set
  BY <1>1 DEF IInv, Unregistered
<1>5. Requests > 0 => m_reqs_generated < Requests + Len(m_pipeline)
  BY <1>1 DEF IInv, LoopBudget
<1> QED
  BY <1>1, <1>2, <1>3, <1>4, <1>5, LenProperties, ConfigAssumption DEF CL!Issue, sent

LEMMA CompleteStep ==
    ASSUME IInv, ParseReply
    PROVE  CL!Complete \/ Hidden
<1>1. /\ pc = "parse" /\ m_pipeline # << >>
      /\ UNCHANGED << m_reqs_generated, m_end_set, uninit >>
      /\ m_reqs_processed' = IF IsSetup(Head(m_pipeline)) THEN m_reqs_processed
                             ELSE m_reqs_processed + 1
  BY DEF ParseReply
<1>2. /\ m_reqs_generated \in Nat /\ uninit \in Nat /\ m_reqs_processed \in Nat
      /\ m_pipeline \in Seq(RequestSet) /\ sent \in Int
  BY ConfigAssumption DEF IInv, CoreType, sent
<1>3. CASE IsSetup(Head(m_pipeline))
  BY <1>1, <1>3 DEF Hidden
<1>4. CASE ~IsSetup(Head(m_pipeline))
  <2>1. sent - m_reqs_processed \in Int
    BY <1>2
  <2>2. sent - m_reqs_processed > 0
    BY <1>1, <1>2, <1>4, <2>1, HoldsTail, Zenon DEF IInv, Accounting
  <2>3. ~m_end_set
    BY <1>1 DEF IInv, Unregistered
  <2> QED  BY <1>1, <1>2, <1>4, <2>2, <2>3 DEF CL!Complete, sent
<1> QED  BY <1>3, <1>4

LEMMA EndStep ==
    ASSUME IInv, Rearm
    PROVE  CL!End \/ Hidden
<1>1. ~m_end_set
  BY DEF IInv, Unregistered, Rearm
<1> QED  BY <1>1 DEF Rearm, CL!End, Hidden, sent, counters

LEMMA HiddenSteps ==
    ASSUME Next, ~SendSome, ~SendRequestFails, ~ParseReply, ~Rearm
    PROVE  Hidden
BY DEF Next, EventLoop, HandleEvent, ConnectFailed, ConnectDone,
   EventOnConnected, FlushSome, Flush, FlushFails, ReadSome, Read, ReadDropped,
   NothingToRead, ParseUnexpected, ParseError, ParseDone, Reconnect, ReconnectFails,
   ResponsesDone, FillHeld, FillStart, FillDone, Abort, Writable,
   KernelConnects, ServerReplies, ServerDrops, ServerStalls, MasterFinishes,
   Hidden, counters, test

\* Every step of a connection is a step of the closed loop, or hidden from it.
THEOREM Refinement == Spec => ImplementsClosedLoop
<1>1. Init => CL!Init
  <2> SUFFICES ASSUME Init PROVE CL!Init
    OBVIOUS
  <2>1. m_reqs_generated = uninit /\ uninit \in Nat
    BY ConfigAssumption, Zenon DEF Init
  <2>2. sent = 0
    BY <2>1 DEF sent
  <2>3. m_reqs_processed = 0 /\ m_end_set = FALSE
    BY DEF Init
  <2> QED  BY <2>2, <2>3 DEF CL!Init
<1>2. IInv /\ [Next]_vars => [CL!Next]_(CL!vars)
  <2> SUFFICES ASSUME IInv, [Next]_vars PROVE [CL!Next]_(CL!vars)
    OBVIOUS
  <2>1. CASE SendSome \/ SendRequestFails
    BY <2>1, IssueStep DEF CL!Next
  <2>2. CASE ParseReply
    BY <2>2, CompleteStep, HiddenStutters DEF CL!Next
  <2>3. CASE Rearm
    BY <2>3, EndStep, HiddenStutters DEF CL!Next
  <2>4. CASE UNCHANGED vars
    BY <2>4, HiddenStutters DEF vars, counters, test, Hidden
  <2>5. CASE Next /\ ~SendSome /\ ~SendRequestFails /\ ~ParseReply /\ ~Rearm
    BY <2>5, HiddenSteps, HiddenStutters
  <2> QED  BY <2>1, <2>2, <2>3, <2>4, <2>5
<1> QED  BY Inductive, <1>1, <1>2, PTL DEF Spec, ImplementsClosedLoop, CL!Spec

-----------------------------------------------------------------------------
(* The type invariant                                                      *)

\* The queues carry requests of R one way and replies of P the other.
Queues(R, P) ==
    /\ m_pipeline \in Seq(R)
    /\ m_write_buf \in Seq(R) /\ to_server \in Seq(R)
    /\ to_client \in Seq(P) /\ m_read_buf \in Seq(P)

\* All that a connection sends is in R, and all that is answered to it in P.
Carries(R, P) ==
    /\ Auth \in R /\ Select \in R /\ \A n \in Nat : Data(n) \in R
    /\ \A r \in R, err \in BOOLEAN :
          (err => "reply" \in Faults) => [req |-> r, err |-> err] \in P

\* TypeOK in parts: the message queues, the connection, the counters, the
\* control state.
QueueTypes == Queues(RequestSet, ReplySet)

LinkTypes ==
    /\ sock \in {"closed", "connecting", "established", "refused"}
    /\ peer \in {"up", "stalled", "down"}
    /\ m_connected \in BOOLEAN
    /\ armed \subseteq {"EV_READ", "EV_WRITE"}
    /\ m_authentication \in {"none", "sent", "done"}
    /\ m_db_selection \in {"none", "sent", "done"}

CountTypes ==
    /\ m_reqs_generated \in Nat /\ m_reqs_processed \in Nat
    /\ uninit \in UninitValues

TestTypes == m_end_set \in BOOLEAN /\ master_finished \in BOOLEAN /\ time_up \in BOOLEAN

ControlTypes ==
    /\ pc \in {"idle", "flush", "read", "parse", "parsed", "writable", "fill",
               "loop", "aborted", "rearm", "assert_failed"}
    /\ site \in {"connect", "response", "writable"}
    /\ evtype \subseteq {"EV_READ", "EV_WRITE"}
    /\ responses_handled \in BOOLEAN

LEMMA TypeParts ==
    TypeOK <=> QueueTypes /\ LinkTypes /\ CountTypes /\ TestTypes /\ ControlTypes
BY DEF TypeOK, QueueTypes, Queues, LinkTypes, CountTypes, TestTypes, ControlTypes

\* Both ends of a sequence cut anywhere are sequences of the same kind.
LEMMA CutType ==
    ASSUME NEW S, NEW q \in Seq(S), NEW n \in 0..Len(q)
    PROVE  SubSeq(q, 1, n) \in Seq(S) /\ SubSeq(q, n + 1, Len(q)) \in Seq(S)
<1>1. /\ Len(q) \in Nat /\ \A i \in 1..Len(q) : q[i] \in S
      /\ n \in Int /\ n + 1 \in Int /\ 0 <= n /\ n <= Len(q)
  BY ElementOfSeq, LenProperties
<1>2. SubSeq(q, 1, n) \in Seq(S)
  <2>1. \A i \in 1..n : q[i] \in S
    BY <1>1
  <2> QED  BY <1>1, <2>1, SubSeqProperties
<1>3. SubSeq(q, n + 1, Len(q)) \in Seq(S)
  <2>1. \A i \in (n + 1)..Len(q) : q[i] \in S
    BY <1>1
  <2> QED  BY <1>1, <2>1, SubSeqProperties
<1> QED  BY <1>2, <1>3

LEMMA WriteType ==
    ASSUME NEW R, NEW P, Queues(R, P), NEW buf \in Seq(R), NEW n \in 0..Len(buf),
           Write(buf, n)
    PROVE  m_write_buf' \in Seq(R) /\ to_server' \in Seq(R)
<1>1. SubSeq(buf, 1, n) \in Seq(R)
      /\ SubSeq(buf, n + 1, Len(buf)) \in Seq(R)
  BY CutType
<1>2. to_server \o SubSeq(buf, 1, n) \in Seq(R)
  BY <1>1, ConcatProperties DEF Queues
<1> QED  BY <1>1, <1>2 DEF Write, Queues

LEMMA RepliesTail ==
    ASSUME NEW S, NEW q \in Seq(S), q # << >>
    PROVE  Tail(q) \in Seq(S) /\ Head(q) \in S
BY HeadTailProperties

LEMMA EmptyQueues == << >> \in Seq(RequestSet) /\ << >> \in Seq(ReplySet)
BY EmptySeq, Zenon

\* The steps that move messages along.
LEMMA QueueMoves ==
    ASSUME NEW R, NEW P, TypeOK, Queues(R, P), Carries(R, P),
           \/ FlushSome \/ ReadSome \/ SendSome \/ SendRequestFails \/ FillStart
           \/ ParseReply \/ ParseError \/ ServerReplies
    PROVE  Queues(R, P)'
<1> USE DEF Queues
<1>0. Queues(R, P) /\ m_reqs_generated \in Nat
  BY TypeParts DEF CountTypes
<1>1. CASE FlushSome
  <2> PICK n \in 0..Len(m_write_buf) : Flush(n)
    BY <1>1 DEF FlushSome
  <2>1. CASE "EV_WRITE" \in evtype
    <3>1. Write(m_write_buf, n)
      BY <2>1 DEF Flush
    <3>2. m_write_buf' \in Seq(R) /\ to_server' \in Seq(R)
      BY <1>0, <3>1, WriteType
    <3> QED  BY <1>0, <3>2 DEF Flush
  <2>2. CASE "EV_WRITE" \notin evtype
    BY <1>0, <2>2 DEF Flush
  <2> QED  BY <2>1, <2>2
<1>2. CASE ReadSome
  <2> PICK n \in 0..Len(to_client) : Read(n)
    BY <1>2 DEF ReadSome
  <2>1. SubSeq(to_client, 1, n) \in Seq(P)
        /\ SubSeq(to_client, n + 1, Len(to_client)) \in Seq(P)
    BY <1>0, CutType
  <2>2. m_read_buf \o SubSeq(to_client, 1, n) \in Seq(P)
    BY <1>0, <2>1, ConcatProperties
  <2> QED  BY <1>0, <2>1, <2>2 DEF Read
<1>3. CASE SendSome \/ SendRequestFails
  <2> DEFINE req == Data(m_reqs_generated + 1)
             buf == Append(m_write_buf, req)
  <2>1. req \in R
    BY <1>0 DEF Carries
  <2> HIDE DEF req
  <2>2. Append(m_pipeline, req) \in Seq(R) /\ buf \in Seq(R)
    BY <1>0, <2>1, AppendProperties
  <2>3. CASE SendSome
    <3> PICK n : SendRequest(n)
      BY <2>3 DEF SendSome
    <3>1. n \in 0..Len(buf) /\ Write(buf, n) /\ m_pipeline' = Append(m_pipeline, req)
          /\ UNCHANGED << m_read_buf, to_client >>
      BY DEF SendRequest, req
    <3> HIDE DEF buf
    <3>2. m_write_buf' \in Seq(R) /\ to_server' \in Seq(R)
      BY <1>0, <2>2, <3>1, WriteType
    <3> QED  BY <1>0, <2>2, <3>1, <3>2
  <2>4. CASE SendRequestFails
    <3>1. /\ m_pipeline' = Append(m_pipeline, req)
          /\ m_write_buf' = << >> /\ m_read_buf' = << >>
          /\ to_server' = << >> /\ to_client' = << >>
      BY <2>4 DEF SendRequestFails, disconnect, Drained, req
    <3>2. << >> \in Seq(R) /\ << >> \in Seq(P)
      BY EmptySeq, Zenon
    <3> QED  BY <2>2, <3>1, <3>2
  <2> QED  BY <1>3, <2>3, <2>4
<1>4. CASE FillStart
  <2>1. /\ m_pipeline \o SetupCommands \in Seq(R)
        /\ m_write_buf \o SetupCommands \in Seq(R)
    <3>1. SetupCommands \in Seq(R)
      BY DEF SetupCommands, Carries
    <3> QED  BY <1>0, <3>1, ConcatProperties
  <2> QED  BY <1>0, <1>4, <2>1 DEF FillStart, wire
<1>5. CASE ParseReply
  <2>1. /\ m_pipeline # << >> /\ m_read_buf # << >>
        /\ m_pipeline' = Tail(m_pipeline) /\ m_read_buf' = Tail(m_read_buf)
        /\ UNCHANGED << m_write_buf, wire >>
    BY <1>5 DEF ParseReply
  <2>2. Tail(m_pipeline) \in Seq(R) /\ Tail(m_read_buf) \in Seq(P)
    BY <1>0, <2>1, RepliesTail
  <2> QED  BY <1>0, <2>1, <2>2 DEF wire
<1>6. CASE ParseError
  <2>1. Tail(m_read_buf) \in Seq(P)
    BY <1>0, <1>6, RepliesTail DEF ParseError
  <2> QED  BY <1>0, <1>6, <2>1 DEF ParseError, wire
<1>7. CASE ServerReplies
  <2>1. to_server # << >> /\ to_server' = Tail(to_server)
        /\ UNCHANGED << m_pipeline, m_write_buf, m_read_buf >>
    BY <1>7 DEF ServerReplies, buffers
  <2>2. PICK err \in BOOLEAN :
            /\ err => "reply" \in Faults
            /\ to_client' = Append(to_client, [req |-> Head(to_server), err |-> err])
    BY <1>7 DEF ServerReplies
  <2>3. Tail(to_server) \in Seq(R) /\ Head(to_server) \in R
    BY <1>0, <2>1, RepliesTail
  <2>4. [req |-> Head(to_server), err |-> err] \in P
    BY <2>2, <2>3 DEF Carries
  <2>5. to_client' \in Seq(P)
    BY <1>0, <2>2, <2>4, AppendProperties
  <2> QED  BY <1>0, <2>1, <2>3, <2>5
<1> QED  BY <1>1, <1>2, <1>3, <1>4, <1>5, <1>6, <1>7

LEMMA QueueStep ==
    ASSUME NEW R, NEW P, TypeOK, Queues(R, P), Carries(R, P), [Next]_vars
    PROVE  Queues(R, P)'
<1>0. Queues(R, P) /\ << >> \in Seq(R) /\ << >> \in Seq(P)
  BY EmptySeq, Zenon
<1>1. CASE FlushFails \/ ReadDropped \/ Reconnect \/ ReconnectFails
  <2>1. /\ m_pipeline' = m_pipeline
        /\ \/ UNCHANGED << buffers, wire >>
           \/ /\ m_write_buf' = << >> /\ m_read_buf' = << >>
              /\ to_server' = << >> /\ to_client' = << >>
    BY <1>1 DEF FlushFails, ReadDropped, Reconnect, ReconnectFails, disconnect,
       reconnect, Drained
  <2> QED  BY <1>0, <2>1 DEF Queues, buffers, wire
<1>2. CASE ServerDrops
  BY <1>0, <1>2 DEF ServerDrops, Queues, buffers
<1>3. CASE \/ HandleEvent \/ NothingToRead \/ ParseUnexpected \/ ParseDone
           \/ ResponsesDone \/ FillHeld \/ FillDone \/ Abort \/ Writable \/ Rearm
           \/ KernelConnects \/ ServerStalls \/ MasterFinishes \/ UNCHANGED vars
  <2>1. UNCHANGED << m_pipeline, buffers, wire >>
    BY <1>3 DEF HandleEvent, ConnectFailed, ConnectDone, EventOnConnected,
       NothingToRead, ParseUnexpected, ParseDone, ResponsesDone, FillHeld, FillDone,
       Abort, Writable, Rearm, KernelConnects, ServerStalls, MasterFinishes, vars
  <2> QED  BY <1>0, <2>1 DEF Queues, buffers, wire
<1>4. CASE \/ FlushSome \/ ReadSome \/ SendSome \/ SendRequestFails \/ FillStart
           \/ ParseReply \/ ParseError \/ ServerReplies
  BY <1>4, QueueMoves
<1> QED  BY <1>1, <1>2, <1>3, <1>4 DEF Next, EventLoop

LEMMA LinkStep == TypeOK /\ [Next]_vars => LinkTypes'
<1> SUFFICES ASSUME LinkTypes, [Next]_vars PROVE LinkTypes'
  BY TypeParts
<1> USE DEF LinkTypes
<1>1. CASE HandleEvent
  BY <1>1 DEF HandleEvent, ConnectFailed, ConnectDone, EventOnConnected, Callback,
     setup
<1>2. CASE FlushFails \/ ReadDropped \/ ReconnectFails \/ SendRequestFails
  BY <1>2 DEF FlushFails, ReadDropped, ReconnectFails, SendRequestFails, disconnect
<1>3. CASE Reconnect
  BY <1>3 DEF Reconnect, reconnect, link, setup
<1>4. CASE ParseReply \/ FillStart
  BY <1>4 DEF ParseReply, FillStart, link
<1>5. CASE Rearm
  BY <1>5 DEF Rearm, setup
<1>6. CASE KernelConnects \/ ServerDrops \/ ServerStalls
  BY <1>6 DEF KernelConnects, ServerDrops, ServerStalls, setup
<1>7. CASE \/ FlushSome \/ ReadSome \/ NothingToRead \/ ParseUnexpected \/ ParseError
           \/ ParseDone \/ ResponsesDone \/ FillHeld \/ SendSome \/ FillDone \/ Abort
           \/ Writable \/ ServerReplies \/ MasterFinishes \/ UNCHANGED vars
  <2>1. UNCHANGED << link, setup >>
    BY <1>7 DEF FlushSome, Flush, ReadSome, Read, NothingToRead, ParseUnexpected,
       ParseError, ParseDone, ResponsesDone, FillHeld, SendSome, SendRequest,
       FillDone, Abort, Writable, ServerReplies, MasterFinishes, vars
  <2> QED  BY <2>1 DEF link, setup
<1> QED  BY <1>1, <1>2, <1>3, <1>4, <1>5, <1>6, <1>7 DEF Next, EventLoop

LEMMA CountStep == TypeOK /\ [Next]_vars => CountTypes' /\ TestTypes'
<1> SUFFICES ASSUME CountTypes, TestTypes, [Next]_vars PROVE CountTypes' /\ TestTypes'
  BY TypeParts
<1> USE DEF CountTypes, TestTypes
<1>1. CASE ParseReply
  <2>1. /\ m_reqs_processed' \in {m_reqs_processed, m_reqs_processed + 1}
        /\ UNCHANGED << m_reqs_generated, uninit >>
    BY <1>1 DEF ParseReply
  <2>2. UNCHANGED << m_end_set, master_finished >> /\ (TimePasses \/ time_up' = time_up)
    BY <1>1 DEF ParseReply
  <2>3. CountTypes'
    BY <2>1
  <2>4. TestTime \in BOOLEAN
    BY ConfigAssumption
  <2>5. time_up' = time_up \/ time_up' = TRUE \/ time_up' = TestTime
    BY <2>2 DEF TimePasses
  <2>6. time_up' \in BOOLEAN
    BY <2>4, <2>5, Zenon
  <2> QED  BY <2>2, <2>3, <2>6
<1>2. CASE SendSome \/ SendRequestFails
  <2>1. /\ m_reqs_generated' = m_reqs_generated + 1
        /\ UNCHANGED << m_reqs_processed, test >>
    BY <1>2 DEF SendSome, SendRequest, SendRequestFails
  <2>2. TestTypes'
    BY <2>1 DEF test
  <2> QED  BY <2>1, <2>2 DEF test
<1>3. CASE Rearm \/ MasterFinishes
  BY <1>3 DEF Rearm, MasterFinishes, counters
<1>4. CASE \/ HandleEvent \/ FlushSome \/ FlushFails \/ ReadSome \/ ReadDropped
           \/ NothingToRead \/ ParseUnexpected \/ ParseError \/ ParseDone
           \/ Reconnect \/ ReconnectFails \/ ResponsesDone \/ FillHeld \/ FillStart \/ FillDone \/ Abort \/ Writable
           \/ KernelConnects \/ ServerReplies \/ ServerDrops \/ ServerStalls
           \/ UNCHANGED vars
  <2>1. UNCHANGED << counters, test >>
    BY <1>4 DEF HandleEvent, ConnectFailed, ConnectDone, EventOnConnected, FlushSome,
       Flush, FlushFails, ReadSome, Read, ReadDropped, NothingToRead, ParseUnexpected,
       ParseError, ParseDone, Reconnect, ReconnectFails, ResponsesDone, FillHeld,
       FillStart, FillDone, Abort, Writable, KernelConnects, ServerReplies, ServerDrops,
       ServerStalls, vars
  <2> QED  BY <2>1 DEF counters, test
<1> QED  BY <1>1, <1>2, <1>3, <1>4 DEF Next, EventLoop

LEMMA ControlStep == TypeOK /\ [Next]_vars => ControlTypes'
<1> SUFFICES ASSUME ControlTypes, LinkTypes, [Next]_vars PROVE ControlTypes'
  BY TypeParts
<1> USE DEF ControlTypes
<1>1. CASE HandleEvent
  BY <1>1 DEF HandleEvent, ConnectFailed, ConnectDone, EventOnConnected, Callback
<1>2. CASE \/ FlushSome \/ FlushFails \/ ReadSome \/ ReadDropped \/ NothingToRead
           \/ Abort \/ Writable \/ Rearm
  BY <1>2 DEF FlushSome, Flush, FlushFails, ReadSome, Read, ReadDropped,
     NothingToRead, Abort, Writable, Rearm
<1>3. CASE ParseReply
  <2>1. /\ pc' \in {"writable", "parse"} /\ UNCHANGED << site, evtype >>
        /\ responses_handled' = TRUE \/ responses_handled' = responses_handled
    BY <1>3 DEF ParseReply
  <2> QED  BY <2>1
<1>4. CASE \/ ParseUnexpected \/ ParseError \/ ParseDone \/ Reconnect \/ ReconnectFails
           \/ ResponsesDone \/ FillStart
  BY <1>4 DEF ParseUnexpected, ParseError, ParseDone, Reconnect, ReconnectFails,
     ResponsesDone, FillStart
<1>5. CASE FillHeld \/ FillDone \/ SendRequestFails
  <2>1. PICK b \in BOOLEAN : pc' = AfterFill(b)
    BY <1>5 DEF FillHeld, FillDone, SendRequestFails
  <2>2. pc' \in {"flush", "writable", "rearm", "aborted", "assert_failed"}
    BY <2>1, AfterFillCases
  <2> QED  BY <1>5, <2>2 DEF FillHeld, FillDone, SendRequestFails
<1>6. CASE \/ SendSome \/ KernelConnects \/ ServerReplies \/ ServerDrops
           \/ ServerStalls \/ MasterFinishes \/ UNCHANGED vars
  <2>1. UNCHANGED control
    BY <1>6 DEF SendSome, SendRequest, KernelConnects, ServerReplies, ServerDrops,
       ServerStalls, MasterFinishes, vars
  <2> QED  BY <2>1 DEF control
<1> QED  BY <1>1, <1>2, <1>3, <1>4, <1>5, <1>6 DEF Next, EventLoop

\* Every variable keeps its type.
THEOREM TypeCorrect == Spec => []TypeOK
<1>1. Init => TypeOK
  <2> SUFFICES ASSUME Init PROVE TypeOK
    OBVIOUS
  <2>1. LinkTypes /\ ControlTypes
    BY DEF Init, LinkTypes, ControlTypes
  <2>2. CountTypes /\ TestTypes
    BY ConfigAssumption DEF Init, CountTypes, TestTypes
  <2>3. << [req |-> Dispatch, err |-> FALSE] >> \in Seq(ReplySet)
    BY RequestTypes DEF ReplySet
  <2>4. QueueTypes
    BY <2>3, EmptyQueues DEF Init, QueueTypes, Queues
  <2> QED  BY <2>1, <2>2, <2>4, TypeParts
<1>2. TypeOK /\ [Next]_vars => TypeOK'
  <2>1. Carries(RequestSet, ReplySet)
    BY RequestTypes DEF Carries, ReplySet
  <2>2. TypeOK /\ [Next]_vars => QueueTypes'
    BY <2>1, TypeParts, QueueStep DEF QueueTypes
  <2>3. QueueTypes' /\ LinkTypes' /\ CountTypes' /\ TestTypes' /\ ControlTypes' => TypeOK'
    BY DEF TypeOK, QueueTypes, Queues, LinkTypes, CountTypes, TestTypes, ControlTypes
  <2> QED  BY <2>2, <2>3, LinkStep, CountStep, ControlStep
<1> QED  BY <1>1, <1>2, PTL DEF Spec

-----------------------------------------------------------------------------
(* The order of the wire: on a live connection what is on its way, in the  *)
(* two buffers and in both directions of the wire, is the pipeline, in     *)
(* order. This is what lets process_response match a reply with the oldest *)
(* request without looking at either.                                      *)

LEMMA Cut ==
    ASSUME NEW S, NEW s \in Seq(S), NEW n \in 0..Len(s)
    PROVE  /\ SubSeq(s, 1, n) \in Seq(S) /\ SubSeq(s, n + 1, Len(s)) \in Seq(S)
           /\ SubSeq(s, 1, n) \o SubSeq(s, n + 1, Len(s)) = s
<1>1. Len(s) \in Nat /\ 1 \in 1..Len(s) + 1 /\ n \in (1 - 1)..Len(s) /\ Len(s) \in n..Len(s)
  BY LenProperties
<1>2. SubSeq(s, 1, n) \o SubSeq(s, n + 1, Len(s)) = SubSeq(s, 1, Len(s))
  BY <1>1, ConcatAdjacentSubSeq
<1> QED  BY <1>2, SubSeqFull, CutType

Associates(s, t, u) == (s \o t) \o u = s \o (t \o u)

LEMMA RequestsAssociative ==
    ASSUME NEW s \in Seq(RequestSet), NEW t \in Seq(RequestSet), NEW u \in Seq(RequestSet)
    PROVE  Associates(s, t, u)
BY ConcatAssociative DEF Associates

\* What leaves the front of one queue for the end of the queue before it.
Passes(p, q, r1, r2) == (p \o (q \o r1)) \o r2 = (p \o q) \o (r1 \o r2)

LEMMA Pass ==
    ASSUME NEW p \in Seq(RequestSet), NEW q \in Seq(RequestSet),
           NEW r1 \in Seq(RequestSet), NEW r2 \in Seq(RequestSet)
    PROVE  Passes(p, q, r1, r2)
<1> DEFINE a == p \o q
<1>1. a \in Seq(RequestSet)
  BY ConcatProperties
<1>2. Associates(p, q, r1)
  BY RequestsAssociative
<1>3. Associates(a, r1, r2)
  <2> HIDE DEF a
  <2> QED  BY <1>1, RequestsAssociative
<1> QED  BY <1>2, <1>3 DEF Associates, Passes

LEMMA TailOfConcat ==
    ASSUME NEW S, NEW s \in Seq(S), NEW t \in Seq(S), s # << >>
    PROVE  s \o t # << >> /\ Tail(s) \o t = Tail(s \o t)
<1>1. s \o t \in Seq(S) /\ s \o t # << >>
  BY ConcatProperties, ConcatEqualIffEmpty
<1>2. /\ Tail(s) \in Seq(S) /\ Len(Tail(s)) = Len(s) - 1
      /\ \A i \in 1..Len(Tail(s)) : Tail(s)[i] = s[i + 1]
  BY HeadTailProperties
<1>3. /\ Tail(s \o t) \in Seq(S) /\ Len(Tail(s \o t)) = Len(s \o t) - 1
      /\ \A i \in 1..Len(Tail(s \o t)) : Tail(s \o t)[i] = (s \o t)[i + 1]
  BY <1>1, HeadTailProperties
<1>4. /\ Len(s \o t) = Len(s) + Len(t)
      /\ \A i \in 1..Len(s) + Len(t) : (s \o t)[i] = IF i <= Len(s) THEN s[i] ELSE t[i - Len(s)]
  BY ConcatProperties
<1>5. /\ Tail(s) \o t \in Seq(S) /\ Len(Tail(s) \o t) = Len(Tail(s)) + Len(t)
      /\ \A i \in 1..Len(Tail(s)) + Len(t) : (Tail(s) \o t)[i] =
            IF i <= Len(Tail(s)) THEN Tail(s)[i] ELSE t[i - Len(Tail(s))]
  BY <1>2, ConcatProperties
<1>6. Len(s) \in Nat /\ Len(t) \in Nat /\ Len(s) > 0
  BY LenProperties, EmptySeq
<1>7. Len(Tail(s) \o t) = Len(Tail(s \o t))
  BY <1>2, <1>3, <1>4, <1>5, <1>6
<1>8. ASSUME NEW i \in 1..Len(Tail(s) \o t)
      PROVE  (Tail(s) \o t)[i] = Tail(s \o t)[i]
  <2>1. i \in 1..Len(Tail(s \o t)) /\ i + 1 \in 1..Len(s) + Len(t) /\ i \in 1..Len(Tail(s)) + Len(t)
    BY <1>2, <1>3, <1>4, <1>5, <1>6, <1>7
  <2>2. Tail(s \o t)[i] = IF i + 1 <= Len(s) THEN s[i + 1] ELSE t[(i + 1) - Len(s)]
    BY <2>1, <1>3, <1>4
  <2>3. (Tail(s) \o t)[i] = IF i <= Len(s) - 1 THEN s[i + 1] ELSE t[i - (Len(s) - 1)]
    BY <2>1, <1>2, <1>5
  <2>4. (i + 1) - Len(s) = i - (Len(s) - 1) /\ (i + 1 <= Len(s) <=> i <= Len(s) - 1)
    BY <1>6
  <2> QED  BY <2>2, <2>3, <2>4
<1> QED  BY <1>1, <1>3, <1>5, <1>7, <1>8, SeqEqual

LEMMA AppendToConcat ==
    ASSUME NEW S, NEW s \in Seq(S), NEW t \in Seq(S), NEW e \in S
    PROVE  s \o Append(t, e) = Append(s \o t, e)
<1>1. << e >> \in Seq(S) /\ s \o t \in Seq(S)
  BY ConcatProperties
<1>2. s \o (t \o << e >>) = (s \o t) \o << e >>
  BY <1>1, ConcatAssociative
<1> QED  BY <1>1, <1>2, AppendIsConcat

\* The first of a queue goes to the end of the queue before it.
LEMMA HeadMoves ==
    ASSUME NEW S, NEW s \in Seq(S), NEW t \in Seq(S), t # << >>
    PROVE  Append(s, Head(t)) \o Tail(t) = s \o t
<1>1. Head(t) \in S /\ Tail(t) \in Seq(S)
  BY HeadTailProperties
<1>2. << Head(t) >> \in Seq(S)
  BY <1>1
<1>3. << Head(t) >> \o Tail(t) = t
  <2>1. Len(t) \in Nat /\ Len(t) > 0 /\ Head(t) = t[1]
    BY EmptySeq
  <2>2. /\ Len(Tail(t)) = Len(t) - 1
        /\ \A i \in 1..Len(Tail(t)) : Tail(t)[i] = t[i + 1]
    BY HeadTailProperties
  <2>3. /\ << Head(t) >> \o Tail(t) \in Seq(S)
        /\ Len(<< Head(t) >> \o Tail(t)) = 1 + Len(Tail(t))
        /\ \A i \in 1..1 + Len(Tail(t)) : (<< Head(t) >> \o Tail(t))[i] =
              IF i <= 1 THEN << Head(t) >>[i] ELSE Tail(t)[i - 1]
    BY <1>1, <1>2, ConcatProperties
  <2>4. \A i \in 1..Len(<< Head(t) >> \o Tail(t)) : (<< Head(t) >> \o Tail(t))[i] = t[i]
    BY <2>1, <2>2, <2>3
  <2>5. Len(<< Head(t) >> \o Tail(t)) = Len(t)
    BY <2>1, <2>2, <2>3
  <2> QED  BY <2>3, <2>4, <2>5, SeqEqual
<1>4. Append(s, Head(t)) = s \o << Head(t) >>
  BY <1>1, AppendIsConcat
<1>5. (s \o << Head(t) >>) \o Tail(t) = s \o (<< Head(t) >> \o Tail(t))
  BY <1>1, <1>2, ConcatAssociative
<1> QED  BY <1>3, <1>4, <1>5

-----------------------------------------------------------------------------
(* The requests of replies                                                 *)

LEMMA RequestsType ==
    ASSUME NEW r \in Seq(ReplySet)
    PROVE  /\ requests_of(r) \in Seq(RequestSet)
           /\ Len(requests_of(r)) = Len(r)
           /\ \A i \in 1..Len(r) : requests_of(r)[i] = r[i].req
<1>1. \A i \in 1..Len(r) : r[i] \in ReplySet
  BY ElementOfSeq
<1>2. \A i \in 1..Len(r) : r[i].req \in RequestSet
  BY <1>1 DEF ReplySet
<1> QED  BY <1>2, LenProperties DEF requests_of

LEMMA RequestsConcat ==
    ASSUME NEW r \in Seq(ReplySet), NEW t \in Seq(ReplySet)
    PROVE  requests_of(r \o t) = requests_of(r) \o requests_of(t)
<1> DEFINE a == requests_of(r)
           b == requests_of(t)
           c == requests_of(r \o t)
<1>1. /\ r \o t \in Seq(ReplySet) /\ Len(r \o t) = Len(r) + Len(t)
      /\ \A i \in 1..Len(r) + Len(t) : (r \o t)[i] = IF i <= Len(r) THEN r[i] ELSE t[i - Len(r)]
  BY ConcatProperties
<1>2. /\ c \in Seq(RequestSet) /\ Len(c) = Len(r) + Len(t)
      /\ \A i \in 1..Len(r) + Len(t) : c[i] = (r \o t)[i].req
  BY <1>1, RequestsType
<1>3. /\ a \in Seq(RequestSet) /\ Len(a) = Len(r)
      /\ \A i \in 1..Len(r) : a[i] = r[i].req
      /\ b \in Seq(RequestSet) /\ Len(b) = Len(t)
      /\ \A i \in 1..Len(t) : b[i] = t[i].req
  BY RequestsType
<1> HIDE DEF a, b, c
<1>4. /\ a \o b \in Seq(RequestSet) /\ Len(a \o b) = Len(a) + Len(b)
      /\ \A i \in 1..Len(a) + Len(b) : (a \o b)[i] = IF i <= Len(a) THEN a[i] ELSE b[i - Len(a)]
  <2>1. a \in Seq(RequestSet) /\ b \in Seq(RequestSet)
    BY <1>3
  <2> QED  BY <2>1, ConcatProperties
<1>5. Len(r) \in Nat /\ Len(t) \in Nat
  BY LenProperties
<1>6. ASSUME NEW i \in 1..Len(c)
      PROVE  c[i] = (a \o b)[i]
  <2>1. i \in 1..Len(r) + Len(t) /\ i \in Nat
    BY <1>2, <1>5
  <2>2. c[i] = (r \o t)[i].req
    BY <1>2, <2>1
  <2>3. CASE i <= Len(r)
    <3>1. i \in 1..Len(r)
      BY <1>5, <2>1, <2>3
    <3> QED  BY <1>1, <1>3, <1>4, <2>1, <2>2, <2>3, <3>1
  <2>4. CASE ~(i <= Len(r))
    <3>1. i - Len(r) \in 1..Len(t)
      BY <1>5, <2>1, <2>4
    <3>2. (r \o t)[i] = t[i - Len(r)] /\ (a \o b)[i] = b[i - Len(r)]
      BY <1>1, <1>3, <1>4, <2>1, <2>4
    <3> QED  BY <1>3, <2>2, <3>1, <3>2
  <2> QED  BY <2>3, <2>4
<1>7. c = a \o b
  BY <1>2, <1>3, <1>4, <1>6, SeqEqual
<1> QED  BY <1>7 DEF a, b, c

LEMMA RequestsTail ==
    ASSUME NEW r \in Seq(ReplySet), r # << >>
    PROVE  requests_of(r) # << >> /\ requests_of(Tail(r)) = Tail(requests_of(r))
<1>1. /\ Tail(r) \in Seq(ReplySet) /\ Len(Tail(r)) = Len(r) - 1
      /\ \A i \in 1..Len(Tail(r)) : Tail(r)[i] = r[i + 1]
      /\ Len(r) \in Nat \ {0}
  BY HeadTailProperties, EmptySeq
<1>2. /\ requests_of(r) \in Seq(RequestSet) /\ Len(requests_of(r)) = Len(r)
      /\ \A i \in 1..Len(r) : requests_of(r)[i] = r[i].req
  BY RequestsType
<1>3. requests_of(r) # << >>
  BY <1>1, <1>2, EmptySeq
<1>4. /\ requests_of(Tail(r)) \in Seq(RequestSet) /\ Len(requests_of(Tail(r))) = Len(r) - 1
      /\ \A i \in 1..Len(Tail(r)) : requests_of(Tail(r))[i] = Tail(r)[i].req
  BY <1>1, RequestsType
<1>5. /\ Tail(requests_of(r)) \in Seq(RequestSet)
      /\ Len(Tail(requests_of(r))) = Len(requests_of(r)) - 1
      /\ \A i \in 1..Len(Tail(requests_of(r))) : Tail(requests_of(r))[i] = requests_of(r)[i + 1]
  BY <1>2, <1>3, HeadTailProperties
<1>6. \A i \in 1..Len(requests_of(Tail(r))) : requests_of(Tail(r))[i] = Tail(requests_of(r))[i]
  BY <1>1, <1>2, <1>4, <1>5
<1> QED  BY <1>2, <1>3, <1>4, <1>5, <1>6, SeqEqual

LEMMA RequestsAppend ==
    ASSUME NEW r \in Seq(ReplySet), NEW e \in ReplySet
    PROVE  requests_of(Append(r, e)) = Append(requests_of(r), e.req)
<1>1. << e >> \in Seq(ReplySet) /\ requests_of(<< e >>) = << e.req >>
  BY DEF requests_of
<1>2. requests_of(r) \in Seq(RequestSet) /\ e.req \in RequestSet
  BY RequestsType DEF ReplySet
<1>3. Append(r, e) = r \o << e >> /\ Append(requests_of(r), e.req) = requests_of(r) \o << e.req >>
  BY <1>2, AppendIsConcat
<1>4. requests_of(r \o << e >>) = requests_of(r) \o requests_of(<< e >>)
  BY <1>1, RequestsConcat
<1> QED  BY <1>1, <1>3, <1>4

-----------------------------------------------------------------------------
(* The invariant                                                           *)

Wire == requests_of(m_read_buf) \o requests_of(to_client) \o to_server \o m_write_buf

Quiet ==
    /\ pc \in {"idle", "aborted"}
    /\ m_pipeline = << >> /\ m_write_buf = << >> /\ m_read_buf = << >>
    /\ to_server = << >> /\ to_client = << >>

\* A connection whose server is there carries exactly its pipeline; one that is
\* still to be reported carries nothing, and handle_event is not at work on it.
WInv == peer # "down" => IF m_connected THEN Wire = m_pipeline ELSE Quiet

LEMMA EmptyWire ==
    ASSUME m_read_buf = << >>, to_client = << >>, to_server = << >>, m_write_buf = << >>
    PROVE  Wire = << >>
<1>1. requests_of(<< >>) = << >>
  <2>1. /\ requests_of(<< >>) \in Seq(RequestSet)
        /\ Len(requests_of(<< >>)) = Len(<< >>)
    BY EmptyQueues, RequestsType
  <2>2. Len(<< >>) = 0
    OBVIOUS
  <2> QED  BY <2>1, <2>2, EmptySeq
<1>2. << >> \o << >> = << >>
  OBVIOUS
<1> QED  BY <1>1, <1>2 DEF Wire

-----------------------------------------------------------------------------
(* The steps that move messages                                            *)

LEMMA FlushKeepsWire ==
    ASSUME TypeOK, NEW n \in 0..Len(m_write_buf), Flush(n), peer # "down"
    PROVE  Wire' = Wire
<1> DEFINE a == requests_of(m_read_buf) \o requests_of(to_client)
<1>0. QueueTypes /\ to_server \in Seq(RequestSet)
  BY TypeParts DEF QueueTypes, Queues
<1>1. UNCHANGED << m_read_buf, to_client >>
  BY DEF Flush
<1>2. CASE "EV_WRITE" \in evtype
  <2> DEFINE x == SubSeq(m_write_buf, 1, n)
             y == SubSeq(m_write_buf, n + 1, Len(m_write_buf))
  <2>1. to_server' = to_server \o x /\ m_write_buf' = y
    BY <1>2 DEF Flush, Write
  <2>2. x \in Seq(RequestSet) /\ y \in Seq(RequestSet) /\ x \o y = m_write_buf
    BY <1>0, Cut DEF QueueTypes, Queues
  <2>3. a \in Seq(RequestSet)
    BY <1>0, RequestsType, ConcatProperties DEF QueueTypes, Queues
  <2>4. Wire' = (a \o (to_server \o x)) \o y
    BY <1>1, <2>1 DEF Wire, requests_of
  <2> HIDE DEF x, y
  <2>5. (a \o (to_server \o x)) \o y = (a \o to_server) \o (x \o y)
    <3> HIDE DEF a
    <3>1. /\ a \in Seq(RequestSet) /\ to_server \in Seq(RequestSet)
          /\ x \in Seq(RequestSet) /\ y \in Seq(RequestSet)
      BY <1>0, <2>2, <2>3
    <3>2. Passes(a, to_server, x, y)
      BY ONLY <3>1, Pass
    <3> QED  BY <3>2 DEF Passes
  <2> QED  BY <2>2, <2>4, <2>5 DEF Wire
<1>3. CASE "EV_WRITE" \notin evtype
  BY <1>1, <1>3 DEF Flush, Wire, requests_of
<1> QED  BY <1>2, <1>3

LEMMA ReadKeepsWire ==
    ASSUME TypeOK, NEW n \in 0..Len(to_client), Read(n)
    PROVE  Wire' = Wire
<1> DEFINE x == SubSeq(to_client, 1, n)
           y == SubSeq(to_client, n + 1, Len(to_client))
           r == requests_of(m_read_buf)
<1>0. QueueTypes
  BY TypeParts
<1>1. m_read_buf' = m_read_buf \o x /\ to_client' = y
      /\ UNCHANGED << to_server, m_write_buf >>
  BY DEF Read
<1>2. x \in Seq(ReplySet) /\ y \in Seq(ReplySet) /\ x \o y = to_client
  BY <1>0, Cut DEF QueueTypes, Queues
<1>3. Wire' = requests_of(m_read_buf \o x) \o requests_of(y) \o to_server \o m_write_buf
  BY <1>1 DEF Wire, requests_of
<1> HIDE DEF x, y
<1>4. requests_of(m_read_buf \o x) = r \o requests_of(x)
  BY <1>0, <1>2, RequestsConcat DEF QueueTypes, Queues
<1>5. requests_of(to_client) = requests_of(x) \o requests_of(y)
  BY <1>2, RequestsConcat
<1>6. /\ r \in Seq(RequestSet)
      /\ requests_of(x) \in Seq(RequestSet) /\ requests_of(y) \in Seq(RequestSet)
  BY <1>0, <1>2, RequestsType DEF QueueTypes, Queues
<1>7. (r \o requests_of(x)) \o requests_of(y) = r \o (requests_of(x) \o requests_of(y))
  <2> HIDE DEF r
  <2> QED  BY <1>6, ConcatAssociative
<1> QED  BY <1>3, <1>4, <1>5, <1>7 DEF Wire

LEMMA ParseTakesOldest ==
    ASSUME TypeOK, ParseReply \/ ParseError
    PROVE  Wire' = Tail(Wire)
<1> DEFINE r == requests_of(m_read_buf)
           c == requests_of(to_client)
<1>0. QueueTypes
  BY TypeParts
<1>1. m_read_buf # << >> /\ m_read_buf' = Tail(m_read_buf)
      /\ UNCHANGED << to_client, to_server, m_write_buf >>
  BY DEF ParseReply, ParseError, buffers, wire
<1>2. /\ r \in Seq(RequestSet) /\ c \in Seq(RequestSet)
      /\ to_server \in Seq(RequestSet) /\ m_write_buf \in Seq(RequestSet)
  BY <1>0, RequestsType DEF QueueTypes, Queues
<1>3. r # << >> /\ requests_of(Tail(m_read_buf)) = Tail(r)
  BY <1>0, <1>1, RequestsTail DEF QueueTypes, Queues
<1>4. Wire' = Tail(r) \o c \o to_server \o m_write_buf
  BY <1>1, <1>3 DEF Wire, requests_of
<1>5. Wire = r \o c \o to_server \o m_write_buf
  BY DEF Wire
<1> HIDE DEF r, c
<1>6. r \o c \in Seq(RequestSet) /\ r \o c # << >> /\ Tail(r) \o c = Tail(r \o c)
  BY <1>2, <1>3, TailOfConcat, ConcatProperties
<1>7. /\ r \o c \o to_server \in Seq(RequestSet) /\ r \o c \o to_server # << >>
      /\ Tail(r \o c) \o to_server = Tail(r \o c \o to_server)
  BY <1>2, <1>6, TailOfConcat, ConcatProperties
<1>8. Tail(r \o c \o to_server) \o m_write_buf = Tail(r \o c \o to_server \o m_write_buf)
  BY <1>2, <1>7, TailOfConcat
<1> QED  BY <1>4, <1>5, <1>6, <1>7, <1>8

LEMMA AnswerKeepsWire ==
    ASSUME TypeOK, ServerReplies
    PROVE  Wire' = Wire
<1> DEFINE r == requests_of(m_read_buf)
           c == requests_of(to_client)
<1>0. QueueTypes
  BY TypeParts
<1>1. to_server # << >> /\ to_server' = Tail(to_server)
      /\ UNCHANGED << m_read_buf, m_write_buf >>
  BY DEF ServerReplies, buffers
<1>2. PICK err \in BOOLEAN :
          to_client' = Append(to_client, [req |-> Head(to_server), err |-> err])
  BY DEF ServerReplies
<1>3. Head(to_server) \in RequestSet /\ Tail(to_server) \in Seq(RequestSet)
  BY <1>0, <1>1, RepliesTail DEF QueueTypes, Queues
<1>4. [req |-> Head(to_server), err |-> err] \in ReplySet
  BY <1>3 DEF ReplySet
<1>5. requests_of(to_client') = Append(c, Head(to_server))
  BY <1>0, <1>2, <1>4, RequestsAppend DEF QueueTypes, Queues
<1>6. Wire' = r \o Append(c, Head(to_server)) \o Tail(to_server) \o m_write_buf
  BY <1>1, <1>5 DEF Wire, requests_of
<1>7. /\ r \in Seq(RequestSet) /\ c \in Seq(RequestSet) /\ to_server \in Seq(RequestSet)
  BY <1>0, RequestsType DEF QueueTypes, Queues
<1>8. Wire = r \o c \o to_server \o m_write_buf
  BY DEF Wire
<1> HIDE DEF r, c
<1>9. r \o Append(c, Head(to_server)) = Append(r \o c, Head(to_server))
  BY <1>3, <1>7, AppendToConcat
<1>10. Append(r \o c, Head(to_server)) \o Tail(to_server) = r \o c \o to_server
  <2>1. r \o c \in Seq(RequestSet)
    BY <1>7, ConcatProperties
  <2> QED  BY <1>1, <1>7, <2>1, HeadMoves
<1> QED  BY <1>6, <1>8, <1>9, <1>10

LEMMA SendExtendsWire ==
    ASSUME TypeOK, NEW n, SendRequest(n), peer # "down"
    PROVE  Wire' = Append(Wire, Data(m_reqs_generated + 1))
<1> DEFINE req == Data(m_reqs_generated + 1)
           buf == Append(m_write_buf, req)
           x == SubSeq(buf, 1, n)
           y == SubSeq(buf, n + 1, Len(buf))
           a == requests_of(m_read_buf) \o requests_of(to_client)
<1>0. QueueTypes /\ CountTypes /\ to_server \in Seq(RequestSet)
  BY TypeParts DEF QueueTypes, Queues
<1>1. /\ n \in 0..Len(buf) /\ to_server' = to_server \o x /\ m_write_buf' = y
      /\ UNCHANGED << m_read_buf, to_client >>
  BY DEF SendRequest, Write
<1>2. req \in RequestSet
  BY <1>0, RequestTypes DEF CountTypes
<1> HIDE DEF req
<1>3. buf \in Seq(RequestSet)
  BY <1>0, <1>2, AppendProperties DEF QueueTypes, Queues
<1> HIDE DEF buf
<1>4. x \in Seq(RequestSet) /\ y \in Seq(RequestSet) /\ x \o y = buf
  BY <1>1, <1>3, Cut
<1>5. a \in Seq(RequestSet) /\ a \o to_server \in Seq(RequestSet)
  BY <1>0, RequestsType, ConcatProperties DEF QueueTypes, Queues
<1>6. Wire' = (a \o (to_server \o x)) \o y
  BY <1>1 DEF Wire, requests_of
<1>7. Wire = (a \o to_server) \o m_write_buf
  BY DEF Wire
<1> HIDE DEF x, y, a
<1>8. (a \o (to_server \o x)) \o y = (a \o to_server) \o (x \o y)
  <2>1. /\ a \in Seq(RequestSet) /\ to_server \in Seq(RequestSet)
        /\ x \in Seq(RequestSet) /\ y \in Seq(RequestSet)
    BY <1>0, <1>4, <1>5
  <2>2. Passes(a, to_server, x, y)
    BY ONLY <2>1, Pass
  <2> QED  BY <2>2 DEF Passes
<1>9. (a \o to_server) \o buf = Append((a \o to_server) \o m_write_buf, req)
  <2>1. m_write_buf \in Seq(RequestSet)
    BY <1>0 DEF QueueTypes, Queues
  <2>2. (a \o to_server) \o Append(m_write_buf, req) = Append((a \o to_server) \o m_write_buf, req)
    BY ONLY <1>2, <1>5, <2>1, AppendToConcat
  <2> QED  BY <2>2 DEF buf
<1> QED  BY <1>4, <1>6, <1>7, <1>8, <1>9 DEF req

LEMMA SetupExtendsWire ==
    ASSUME TypeOK, FillStart
    PROVE  Wire' = Wire \o SetupCommands
<1> DEFINE a == requests_of(m_read_buf) \o requests_of(to_client) \o to_server
<1>0. QueueTypes
  BY TypeParts
<1>1. m_write_buf' = m_write_buf \o SetupCommands
      /\ UNCHANGED << m_read_buf, to_client, to_server >>
  BY DEF FillStart, wire
<1>2. a \in Seq(RequestSet) /\ SetupCommands \in Seq(RequestSet)
  BY <1>0, RequestsType, SetupCommandsType, ConcatProperties DEF QueueTypes, Queues
<1>3. Wire' = a \o (m_write_buf \o SetupCommands) /\ Wire = a \o m_write_buf
  BY <1>1 DEF Wire, requests_of
<1> HIDE DEF a
<1>4. m_write_buf \in Seq(RequestSet)
  BY <1>0 DEF QueueTypes, Queues
<1>5. (a \o m_write_buf) \o SetupCommands = a \o (m_write_buf \o SetupCommands)
  BY ONLY <1>2, <1>4, ConcatAssociative
<1> QED  BY <1>3, <1>5

-----------------------------------------------------------------------------
(* Every step                                                              *)

LEMMA WInvInit == Init /\ "split" \notin Faults => WInv
BY DEF Init, WInv, Quiet

\* The handler at work on a connection whose server is there.
LEMMA Working ==
    ASSUME WInv, peer # "down", pc \notin {"idle", "aborted"}
    PROVE  m_connected /\ Wire = m_pipeline
BY DEF WInv, Quiet

LEMMA WInvMoves ==
    ASSUME TypeOK, WInv,
           FlushSome \/ ReadSome \/ ParseReply \/ FillStart \/ SendSome \/ ServerReplies
    PROVE  WInv'
<1> SUFFICES ASSUME peer' # "down"
             PROVE  m_connected' /\ Wire' = m_pipeline'
  BY DEF WInv
<1>1. peer' = peer /\ m_connected' = m_connected
  BY DEF FlushSome, Flush, ReadSome, Read, ParseReply, FillStart, SendSome,
         SendRequest, ServerReplies, link
<1>2. m_connected /\ Wire = m_pipeline
  <2>1. CASE ServerReplies
    BY <1>1, <2>1 DEF WInv, Quiet, ServerReplies
  <2>2. CASE FlushSome \/ ReadSome \/ ParseReply \/ FillStart \/ SendSome
    <3>1. pc \notin {"idle", "aborted"}
      BY <2>2 DEF FlushSome, Flush, ReadSome, Read, ParseReply, FillStart,
         SendSome, SendRequest
    <3> QED  BY <1>1, <3>1, Working
  <2> QED  BY <2>1, <2>2
<1>3. CASE FlushSome
  <2> PICK n \in 0..Len(m_write_buf) : Flush(n)
    BY <1>3 DEF FlushSome
  <2>1. Wire' = Wire /\ m_pipeline' = m_pipeline
    BY <1>1, FlushKeepsWire DEF Flush
  <2> QED  BY <1>1, <1>2, <2>1
<1>4. CASE ReadSome
  <2> PICK n \in 0..Len(to_client) : Read(n)
    BY <1>4 DEF ReadSome
  <2>1. Wire' = Wire /\ m_pipeline' = m_pipeline
    BY ReadKeepsWire DEF Read
  <2> QED  BY <1>1, <1>2, <2>1
<1>5. CASE ParseReply
  <2>1. Wire' = Tail(Wire) /\ m_pipeline' = Tail(m_pipeline)
    BY <1>5, ParseTakesOldest DEF ParseReply
  <2> QED  BY <1>1, <1>2, <2>1
<1>6. CASE FillStart
  <2>1. Wire' = Wire \o SetupCommands /\ m_pipeline' = m_pipeline \o SetupCommands
    BY <1>6, SetupExtendsWire DEF FillStart
  <2> QED  BY <1>1, <1>2, <2>1
<1>7. CASE SendSome
  <2> PICK n : SendRequest(n)
    BY <1>7 DEF SendSome
  <2>1. /\ Wire' = Append(Wire, Data(m_reqs_generated + 1))
        /\ m_pipeline' = Append(m_pipeline, Data(m_reqs_generated + 1))
    BY <1>1, SendExtendsWire DEF SendRequest
  <2> QED  BY <1>1, <1>2, <2>1
<1>8. CASE ServerReplies
  <2>1. Wire' = Wire /\ m_pipeline' = m_pipeline
    BY <1>8, AnswerKeepsWire DEF ServerReplies
  <2> QED  BY <1>1, <1>2, <2>1
<1> QED  BY <1>3, <1>4, <1>5, <1>6, <1>7, <1>8

\* Steps that move no message, and neither connect nor lose a server.
LEMMA WInvQuiet ==
    ASSUME WInv, UNCHANGED << peer, m_connected, m_pipeline, buffers, wire >>,
           pc \in {"idle", "aborted"} => pc' \in {"idle", "aborted"}
    PROVE  WInv'
<1>1. Wire' = Wire
  BY DEF Wire, requests_of, buffers, wire
<1> QED  BY <1>1 DEF WInv, Quiet, buffers, wire

LEMMA WInvDisconnect ==
    ASSUME peer' = "down"
    PROVE  WInv'
BY DEF WInv

LEMMA ConnectDoneStep ==
    ASSUME WInv, NEW evs, ConnectDone(evs)
    PROVE  WInv'
<1>1. m_connected' /\ UNCHANGED << peer, m_pipeline, buffers, wire >> /\ ~m_connected
  BY DEF ConnectDone
<1>2. CASE peer = "down"
  BY <1>1, <1>2 DEF WInv
<1>3. CASE peer # "down"
  <2>1. Quiet
    BY <1>1, <1>3 DEF WInv
  <2>2. Wire = << >> /\ Wire' = Wire
    BY <1>1, <2>1, EmptyWire DEF Quiet, Wire, requests_of, buffers, wire
  <2> QED  BY <1>1, <2>1, <2>2 DEF WInv, Quiet
<1> QED  BY <1>2, <1>3

LEMMA WInvStep == TypeOK /\ WInv /\ ~MemcacheText /\ [Next]_vars => WInv'
<1> SUFFICES ASSUME TypeOK, WInv, ~MemcacheText, [Next]_vars
             PROVE  WInv'
  OBVIOUS
<1>1. CASE FlushSome \/ ReadSome \/ ParseReply \/ FillStart \/ SendSome \/ ServerReplies
  BY <1>1, WInvMoves
<1>2. CASE \/ FlushFails \/ ReadDropped \/ ReconnectFails \/ SendRequestFails
           \/ ServerDrops
  BY <1>2, WInvDisconnect DEF FlushFails, ReadDropped, ReconnectFails,
     SendRequestFails, disconnect, ServerDrops
<1>3. CASE HandleEvent
  <2> PICK evs : ConnectFailed(evs) \/ ConnectDone(evs) \/ EventOnConnected(evs)
    BY <1>3 DEF HandleEvent
  <2>1. CASE ConnectFailed(evs)
    BY <2>1, WInvQuiet DEF ConnectFailed
  <2>2. CASE ConnectDone(evs)
    BY <2>2, ConnectDoneStep
  <2>3. CASE EventOnConnected(evs)
    <3>1. m_connected /\ UNCHANGED << peer, m_connected, m_pipeline, buffers, wire >>
      BY <2>3 DEF EventOnConnected
    <3>2. Wire' = Wire
      BY <3>1 DEF Wire, requests_of, buffers, wire
    <3> QED  BY <3>1, <3>2 DEF WInv
  <2> QED  BY <2>1, <2>2, <2>3
<1>4. CASE Reconnect
  <2>1. CASE m_pipeline = << >>
    BY <1>4, <2>1 DEF Reconnect, reconnect, Drained, WInv, Quiet
  <2>2. CASE m_pipeline # << >>
    BY <1>4, <2>2, WInvQuiet DEF Reconnect, link
  <2> QED  BY <2>1, <2>2
<1>5. CASE ParseError
  BY <1>5 DEF ParseError
<1>6. CASE \/ NothingToRead \/ ParseUnexpected \/ ParseDone \/ ResponsesDone
           \/ FillHeld \/ FillDone \/ Abort \/ Writable \/ Rearm
  BY <1>6, WInvQuiet DEF NothingToRead, ParseUnexpected, ParseDone, ResponsesDone,
     FillHeld, FillDone, Abort, Writable, Rearm, link
<1>7. CASE KernelConnects \/ ServerStalls \/ MasterFinishes \/ UNCHANGED vars
  <2>1. UNCHANGED << m_connected, m_pipeline, buffers, wire, control >>
    BY <1>7 DEF KernelConnects, ServerStalls, MasterFinishes, vars, link
  <2>2. CASE UNCHANGED peer
    BY <2>1, <2>2, WInvQuiet DEF control
  <2>3. CASE ServerStalls
    <3>1. peer = "up" /\ Wire' = Wire
      BY <2>1, <2>3 DEF ServerStalls, Wire, requests_of, buffers, wire
    <3> QED  BY <2>1, <3>1 DEF WInv, Quiet, buffers, wire, control
  <2> QED  BY <1>7, <2>2, <2>3 DEF KernelConnects, MasterFinishes, vars, link
<1> QED  BY <1>1, <1>2, <1>3, <1>4, <1>5, <1>6, <1>7 DEF Next, EventLoop

\* Unless the answer of gurantee_sockfd_dispatch was cut in two ("split") or an
\* error line makes parse_response fail (MemcacheText), the oldest request of
\* the pipeline is the one the next reply answers, on every live connection.
THEOREM WireCorrect ==
    ASSUME "split" \notin Faults, ~MemcacheText
    PROVE  Spec => []WireInOrder
<1>1. Init => WInv
  BY WInvInit
<1>2. TypeOK /\ WInv /\ [Next]_vars => WInv'
  BY WInvStep
<1>3. WInv => WireInOrder
  BY DEF WInv, WireInOrder, Wire
<1> QED  BY <1>1, <1>2, <1>3, TypeCorrect, PTL DEF Spec

-----------------------------------------------------------------------------
(* The setup of a connection                                               *)

\* What a connection sends, and the answers of a server that rejects nothing.
Sendable == { r \in RequestSet : r.type # "dispatch" }
Answers == [req : Sendable, err : {FALSE}]

Waits(type) == \E i \in 1..Len(m_pipeline) : m_pipeline[i].type = type

\* A setup command that is not answered waits in the pipeline.
SetupWaits ==
    /\ m_authentication = "sent" => Waits("rt_auth")
    /\ m_db_selection = "sent" => Waits("rt_select_db")

SInv == Queues(Sendable, Answers) /\ SetupWaits /\ SetupFirst

LEMMA SetupCommandsSent ==
    /\ SetupCommands \in Seq(RequestSet)
    /\ \A i \in 1..Len(SetupCommands) : IsSetup(SetupCommands[i])
    /\ m_authentication = "none" =>
          \E i \in 1..Len(SetupCommands) : SetupCommands[i].type = "rt_auth"
    /\ m_db_selection = "none" =>
          \E i \in 1..Len(SetupCommands) : SetupCommands[i].type = "rt_select_db"
<1>1. Auth.type = "rt_auth" /\ Select.type = "rt_select_db"
  BY DEF Auth, Select
<1>2. m_authentication = "none" => SetupCommands[1] = Auth /\ 1 \in 1..Len(SetupCommands)
  BY RequestTypes DEF SetupCommands
<1>3. m_db_selection = "none" => SetupCommands[Len(SetupCommands)] = Select
                                 /\ Len(SetupCommands) \in 1..Len(SetupCommands)
  BY RequestTypes DEF SetupCommands
<1> QED  BY <1>1, <1>2, <1>3, SetupCommandsType

\* Steps that send and answer nothing, or give the connection up.
LEMMA SetupQuiet ==
    ASSUME SetupWaits, SetupFirst,
           \/ UNCHANGED << m_pipeline, setup >>
           \/ m_authentication' = "done" /\ m_db_selection' = "done"
           \/ /\ m_pipeline' = << >>
              /\ m_authentication' # "sent" /\ m_db_selection' # "sent"
    PROVE  SetupWaits' /\ SetupFirst'
<1>1. CASE UNCHANGED << m_pipeline, setup >>
  BY <1>1 DEF SetupWaits, SetupFirst, Waits, setup, is_conn_setup_done
<1>2. CASE m_authentication' = "done" /\ m_db_selection' = "done"
  BY <1>2 DEF SetupWaits, SetupFirst, is_conn_setup_done
<1>3. CASE /\ m_pipeline' = << >>
           /\ m_authentication' # "sent" /\ m_db_selection' # "sent"
  <2>1. DOMAIN << >> = {}
    OBVIOUS
  <2> QED  BY <1>3, <2>1 DEF SetupWaits, SetupFirst
<1> QED  BY <1>1, <1>2, <1>3

LEMMA SetupSent ==
    ASSUME IInv, SetupWaits, SetupFirst, FillStart
    PROVE  SetupWaits' /\ SetupFirst'
<1>1. /\ m_pipeline \in Seq(RequestSet) /\ m_pipeline' = m_pipeline \o SetupCommands
      /\ m_authentication' = IF m_authentication = "none" THEN "sent" ELSE m_authentication
      /\ m_db_selection' = IF m_db_selection = "none" THEN "sent" ELSE m_db_selection
  BY DEF IInv, CoreType, FillStart
<1>2. CASE SetupUnsent
  <2>1. m_pipeline = << >> /\ m_pipeline' = SetupCommands
    BY <1>1, <1>2, SetupCommandsType, ConcatEmptySeq DEF IInv, SetupBeforeData
  <2>2. m_authentication # "sent" /\ m_db_selection # "sent"
    BY <2>1 DEF SetupWaits, Waits
  <2>3. SetupWaits'
    BY <1>1, <2>1, <2>2, SetupCommandsSent DEF SetupWaits, Waits
  <2>4. SetupFirst'
    BY <2>1, SetupCommandsSent DEF SetupFirst
  <2> QED  BY <2>3, <2>4
<1>3. CASE ~SetupUnsent
  <2>1. m_pipeline' = m_pipeline
    BY <1>1, <1>3, SetupCommandsType, ConcatEmptySeq
  <2>2. UNCHANGED << m_pipeline, setup >>
    BY <1>1, <1>3, <2>1 DEF SetupUnsent, setup
  <2> QED  BY <2>2, SetupQuiet
<1> QED  BY <1>2, <1>3

\* A pipeline of one takes a request only when nothing waits.
LEMMA SetupBeforeRequest ==
    ASSUME TypeOK, IInv, SetupWaits, Pipeline = 1, pc = "loop", MaySend, UNCHANGED setup
    PROVE  SetupWaits' /\ SetupFirst'
<1>1. m_pipeline = << >>
  BY LenProperties, EmptySeq DEF IInv, CoreType, MaySend
<1>2. m_authentication # "sent" /\ m_db_selection # "sent"
  BY <1>1 DEF SetupWaits, Waits
<1>3. m_authentication = "done" /\ m_db_selection = "done"
  BY <1>2 DEF IInv, SetupBeforeData, SetupUnsent, TypeOK
<1> QED  BY <1>3 DEF SetupWaits, SetupFirst, setup, is_conn_setup_done

LEMMA SetupAnswered ==
    ASSUME SInv, IInv, ParseReply
    PROVE  SetupWaits' /\ SetupFirst'
<1> DEFINE req == Head(m_pipeline)
           reply == Head(m_read_buf)
<1>1. /\ m_pipeline \in Seq(RequestSet) /\ m_pipeline # << >>
      /\ m_read_buf \in Seq(Answers) /\ m_read_buf # << >>
  BY DEF IInv, CoreType, SInv, Queues, ParseReply
<1>2. ~reply.err /\ reply.req # Dispatch
  <2>1. reply \in Answers
    BY <1>1, RepliesTail
  <2> HIDE DEF reply
  <2>2. reply.err \in {FALSE} /\ reply.req \in Sendable
    BY <2>1 DEF Answers
  <2>3. reply.req.type # "dispatch" /\ Dispatch.type = "dispatch"
    BY <2>2, SMT DEF Sendable, Dispatch
  <2> QED  BY <2>2, <2>3, Zenon
<1>3. /\ m_pipeline' = Tail(m_pipeline)
      /\ m_authentication' = IF req.type = "rt_auth" THEN "done" ELSE m_authentication
      /\ m_db_selection' = IF req.type = "rt_select_db" THEN "done" ELSE m_db_selection
  BY <1>2 DEF ParseReply
<1>4. /\ Len(Tail(m_pipeline)) = Len(m_pipeline) - 1 /\ Len(m_pipeline) \in Nat
      /\ \A i \in 1..Len(Tail(m_pipeline)) : Tail(m_pipeline)[i] = m_pipeline[i + 1]
      /\ req = m_pipeline[1]
  BY <1>1, HeadTailProperties, LenProperties
<1> HIDE DEF req, reply
<1>5. ASSUME NEW t, Waits(t), req.type # t PROVE Waits(t)'
  <2>1. PICK i \in 1..Len(m_pipeline) : m_pipeline[i].type = t
    BY <1>5 DEF Waits
  <2>2. i # 1
    BY <1>4, <1>5, <2>1
  <2>3. i - 1 \in 1..Len(Tail(m_pipeline)) /\ Tail(m_pipeline)[i - 1] = m_pipeline[i]
    BY <1>4, <2>1, <2>2
  <2> QED  BY <1>3, <2>1, <2>3 DEF Waits
<1>6. SetupWaits'
  BY <1>3, <1>5 DEF SInv, SetupWaits
<1>7. SetupFirst'
  <2> SUFFICES ASSUME NEW i \in DOMAIN m_pipeline', ~IsSetup(m_pipeline'[i])
               PROVE  is_conn_setup_done'
    BY DEF SetupFirst
  <2>1. DOMAIN m_pipeline' = 1..Len(Tail(m_pipeline))
    BY <1>1, <1>3, RepliesTail
  <2>2. i + 1 \in DOMAIN m_pipeline /\ m_pipeline'[i] = m_pipeline[i + 1]
    BY <1>1, <1>3, <1>4, <2>1
  <2>3. is_conn_setup_done
    BY <2>2 DEF SInv, SetupFirst
  <2> QED  BY <1>3, <2>3 DEF is_conn_setup_done
<1> QED  BY <1>6, <1>7

LEMMA SInvInit ==
    ASSUME Init, "split" \notin Faults
    PROVE  SInv
<1>1. << >> \in Seq(Sendable) /\ << >> \in Seq(Answers) /\ DOMAIN << >> = {}
  <2>1. << >> \in Seq(Sendable) /\ << >> \in Seq(Answers)
    BY EmptySeq, Zenon
  <2>2. DOMAIN << >> = {}
    BY SMT
  <2> QED  BY <2>1, <2>2
<1>2. Queues(Sendable, Answers)
  BY <1>1 DEF Init, Queues
<1>3. SetupWaits /\ SetupFirst
  BY <1>1 DEF Init, SetupWaits, SetupFirst
<1> QED  BY <1>2, <1>3 DEF SInv

LEMMA SInvStep ==
    ASSUME TypeOK, IInv, SInv, Pipeline = 1, "reply" \notin Faults, [Next]_vars
    PROVE  SInv'
<1>1. Queues(Sendable, Answers)'
  <2>1. Carries(Sendable, Answers)
    BY RequestTypes DEF Carries, Sendable, Answers, Auth, Select, Data
  <2> QED  BY <2>1, QueueStep DEF SInv
<1>2. CASE ParseReply
  BY <1>1, <1>2, SetupAnswered DEF SInv
<1>3. CASE FillStart
  BY <1>1, <1>3, SetupSent DEF SInv
<1>4. CASE SendSome
  <2>1. pc = "loop" /\ MaySend /\ UNCHANGED setup
    BY <1>4 DEF SendSome, SendRequest
  <2> QED  BY <1>1, <2>1, SetupBeforeRequest DEF SInv
<1>5. CASE FlushFails \/ ReadDropped \/ ReconnectFails \/ SendRequestFails
  <2>1. m_authentication' = "done" /\ m_db_selection' = "done"
    BY <1>5 DEF FlushFails, ReadDropped, ReconnectFails, SendRequestFails, disconnect
  <2> QED  BY <1>1, <2>1, SetupQuiet DEF SInv
<1>6. CASE Reconnect
  <2>1. \/ UNCHANGED << m_pipeline, setup >>
        \/ /\ m_pipeline' = << >>
           /\ m_authentication' # "sent" /\ m_db_selection' # "sent"
    BY <1>6 DEF Reconnect, reconnect
  <2> QED  BY <1>1, <2>1, SetupQuiet DEF SInv
<1>7. CASE \/ HandleEvent \/ FlushSome \/ ReadSome \/ NothingToRead \/ ParseUnexpected
           \/ ParseError \/ ParseDone \/ ResponsesDone \/ FillHeld \/ FillDone \/ Abort
           \/ Writable \/ Rearm \/ KernelConnects \/ ServerReplies \/ ServerDrops
           \/ ServerStalls \/ MasterFinishes \/ UNCHANGED vars
  <2>1. UNCHANGED << m_pipeline, setup >>
    BY <1>7 DEF HandleEvent, ConnectFailed, ConnectDone, EventOnConnected, FlushSome,
       Flush, ReadSome, Read, NothingToRead, ParseUnexpected, ParseError, ParseDone,
       ResponsesDone, FillHeld, FillDone, Abort, Writable, Rearm, KernelConnects,
       ServerReplies, ServerDrops, ServerStalls, MasterFinishes, vars
  <2> QED  BY <1>1, <2>1, SetupQuiet DEF SInv
<1> QED  BY <1>2, <1>3, <1>4, <1>5, <1>6, <1>7 DEF Next, EventLoop

\* With a pipeline of one and a server that rejects no setup command, no request
\* of the test is sent before authentication and database selection have been
\* answered; on a longer pipeline requests follow the setup commands at once.
THEOREM SetupAnsweredFirst ==
    ASSUME Pipeline = 1, "reply" \notin Faults, "split" \notin Faults
    PROVE  Spec => []SetupFirst
<1>1. Init => SInv
  BY SInvInit
<1>2. TypeOK /\ IInv /\ SInv /\ [Next]_vars => SInv'
  BY SInvStep
<1>3. SInv => SetupFirst
  BY DEF SInv
<1> QED  BY <1>1, <1>2, <1>3, TypeCorrect, Inductive, PTL DEF Spec

-----------------------------------------------------------------------------
(* The assertions                                                          *)

\* A request of the test is alone in the pipeline, and gone when its reply has
\* been handled.
OneAtATime ==
    /\ \A i \in 1..Len(m_pipeline) : IsSetup(m_pipeline[i]) \/ Len(m_pipeline) = 1
    /\ pc \in {"parse", "parsed"} /\ responses_handled => m_pipeline = << >>

AInv ==
    /\ peer # "down" /\ pc # "assert_failed"
    /\ ReconnectInterval = 0 \/ OneAtATime

LEMMA WireType ==
    ASSUME TypeOK
    PROVE  /\ Wire \in Seq(RequestSet)
           /\ m_read_buf # << >> => Wire # << >>
<1> DEFINE r == requests_of(m_read_buf)
           c == requests_of(to_client)
<1>1. /\ r \in Seq(RequestSet) /\ c \in Seq(RequestSet)
      /\ to_server \in Seq(RequestSet) /\ m_write_buf \in Seq(RequestSet)
      /\ m_read_buf # << >> => r # << >>
  <2>1. m_read_buf \in Seq(ReplySet)
    BY DEF TypeOK
  <2>2. m_read_buf # << >> => r # << >>
    BY <2>1, RequestsType, EmptySeq
  <2> QED  BY <2>2, RequestsType DEF TypeOK
<1> HIDE DEF r, c
<1>2. r \o c \in Seq(RequestSet) /\ (r # << >> => r \o c # << >>)
  BY <1>1, ConcatProperties, ConcatEqualIffEmpty
<1>3. /\ (r \o c) \o to_server \in Seq(RequestSet)
      /\ r \o c # << >> => (r \o c) \o to_server # << >>
  BY <1>1, <1>2, ConcatProperties, ConcatEqualIffEmpty
<1>4. /\ ((r \o c) \o to_server) \o m_write_buf \in Seq(RequestSet)
      /\ (r \o c) \o to_server # << >> => ((r \o c) \o to_server) \o m_write_buf # << >>
  BY <1>1, <1>3, ConcatProperties, ConcatEqualIffEmpty
<1>5. Wire = ((r \o c) \o to_server) \o m_write_buf
  BY DEF Wire, r, c
<1> QED  BY <1>1, <1>2, <1>3, <1>4, <1>5

\* Nothing arrives that no request of the pipeline waits for. An error line of
\* memcached text takes its reply away and leaves its request, so the wire may
\* carry less than the pipeline.
OInv == peer # "down" => IF m_connected THEN Len(Wire) <= Len(m_pipeline) ELSE Quiet

LEMMA OInvInit == Init /\ "split" \notin Faults => OInv
BY DEF Init, OInv, Quiet

LEMMA OInvMoves ==
    ASSUME TypeOK, IInv, OInv,
           \/ FlushSome \/ ReadSome \/ ParseReply \/ ParseError \/ FillStart \/ SendSome
           \/ ServerReplies
    PROVE  OInv'
<1> SUFFICES ASSUME peer' # "down"
             PROVE  m_connected' /\ Len(Wire') <= Len(m_pipeline')
  BY DEF OInv
<1>1. peer' = peer /\ m_connected' = m_connected
  BY DEF FlushSome, Flush, ReadSome, Read, ParseReply, ParseError, FillStart, SendSome,
         SendRequest, ServerReplies, link
<1>2. m_connected /\ Len(Wire) <= Len(m_pipeline)
  <2>1. CASE ServerReplies
    BY <1>1, <2>1 DEF OInv, Quiet, ServerReplies
  <2>2. CASE FlushSome \/ ReadSome \/ ParseReply \/ ParseError \/ FillStart \/ SendSome
    <3>1. pc \notin {"idle", "aborted"}
      BY <2>2 DEF FlushSome, Flush, ReadSome, Read, ParseReply, ParseError, FillStart,
         SendSome, SendRequest
    <3> QED  BY <1>1, <3>1 DEF OInv, Quiet
  <2> QED  BY <2>1, <2>2
<1>3. /\ m_pipeline \in Seq(RequestSet) /\ Wire \in Seq(RequestSet)
      /\ Len(m_pipeline) \in Nat /\ Len(Wire) \in Nat
  BY WireType, LenProperties DEF IInv, CoreType
<1>4. CASE FlushSome
  <2> PICK n \in 0..Len(m_write_buf) : Flush(n)
    BY <1>4 DEF FlushSome
  <2>1. Wire' = Wire /\ m_pipeline' = m_pipeline
    BY <1>1, FlushKeepsWire DEF Flush
  <2> QED  BY <1>1, <1>2, <2>1
<1>5. CASE ReadSome
  <2> PICK n \in 0..Len(to_client) : Read(n)
    BY <1>5 DEF ReadSome
  <2>1. Wire' = Wire /\ m_pipeline' = m_pipeline
    BY ReadKeepsWire DEF Read
  <2> QED  BY <1>1, <1>2, <2>1
<1>6. CASE ParseReply \/ ParseError
  <2>1. Wire' = Tail(Wire) /\ Wire # << >> /\ Len(Tail(Wire)) = Len(Wire) - 1
    <3>1. Wire' = Tail(Wire)
      BY <1>6, ParseTakesOldest
    <3>2. Wire # << >>
      BY <1>6, WireType DEF ParseReply, ParseError
    <3> QED  BY <1>3, <3>1, <3>2, HeadTailProperties
  <2>2. Len(m_pipeline') >= Len(m_pipeline) - 1
    <3>1. CASE ParseReply
      <4>1. m_pipeline # << >> /\ m_pipeline' = Tail(m_pipeline)
        BY <3>1 DEF ParseReply
      <4> QED  BY <1>3, <4>1, HeadTailProperties
    <3>2. CASE ParseError
      <4>1. m_pipeline' = m_pipeline
        BY <3>2 DEF ParseError
      <4> QED  BY <1>3, <4>1
    <3> QED  BY <1>6, <3>1, <3>2
  <2>3. Len(m_pipeline') \in Int
    <3>1. CASE ParseReply
      <4>1. m_pipeline # << >> /\ m_pipeline' = Tail(m_pipeline)
        BY <3>1 DEF ParseReply
      <4> QED  BY <1>3, <4>1, HeadTailProperties
    <3>2. CASE ParseError
      BY <1>3, <3>2 DEF ParseError
    <3> QED  BY <1>6, <3>1, <3>2
  <2> QED  BY <1>1, <1>2, <1>3, <2>1, <2>2, <2>3
<1>7. CASE FillStart
  <2>1. Wire' = Wire \o SetupCommands /\ m_pipeline' = m_pipeline \o SetupCommands
    BY <1>7, SetupExtendsWire DEF FillStart
  <2>2. SetupCommands \in Seq(RequestSet) /\ Len(SetupCommands) \in Nat
    BY SetupCommandsType, LenProperties
  <2>3. /\ Len(Wire \o SetupCommands) = Len(Wire) + Len(SetupCommands)
        /\ Len(m_pipeline \o SetupCommands) = Len(m_pipeline) + Len(SetupCommands)
    BY <1>3, <2>2, ConcatProperties
  <2> QED  BY <1>1, <1>2, <1>3, <2>1, <2>2, <2>3
<1>8. CASE SendSome
  <2> DEFINE req == Data(m_reqs_generated + 1)
  <2> PICK n : SendRequest(n)
    BY <1>8 DEF SendSome
  <2>1. Wire' = Append(Wire, req) /\ m_pipeline' = Append(m_pipeline, req)
    BY <1>1, SendExtendsWire DEF SendRequest
  <2>2. req \in RequestSet
    BY RequestTypes DEF IInv, CoreType
  <2>3. /\ Len(Append(Wire, req)) = Len(Wire) + 1
        /\ Len(Append(m_pipeline, req)) = Len(m_pipeline) + 1
    <3> HIDE DEF req
    <3> QED  BY <1>3, <2>2, AppendProperties
  <2> QED  BY <1>1, <1>2, <1>3, <2>1, <2>3
<1>9. CASE ServerReplies
  <2>1. Wire' = Wire /\ m_pipeline' = m_pipeline
    BY <1>9, AnswerKeepsWire DEF ServerReplies
  <2> QED  BY <1>1, <1>2, <2>1
<1> QED  BY <1>4, <1>5, <1>6, <1>7, <1>8, <1>9

LEMMA OInvQuiet ==
    ASSUME OInv, UNCHANGED << peer, m_connected, m_pipeline, buffers, wire >>,
           pc \in {"idle", "aborted"} => pc' \in {"idle", "aborted"}
    PROVE  OInv'
<1>1. Wire' = Wire
  BY DEF Wire, requests_of, buffers, wire
<1> QED  BY <1>1 DEF OInv, Quiet, buffers, wire

LEMMA OInvConnects ==
    ASSUME OInv, NEW evs, ConnectDone(evs)
    PROVE  OInv'
<1>1. m_connected' /\ UNCHANGED << peer, m_pipeline, buffers, wire >> /\ ~m_connected
  BY DEF ConnectDone
<1>2. CASE peer = "down"
  BY <1>1, <1>2 DEF OInv
<1>3. CASE peer # "down"
  <2>1. Quiet
    BY <1>1, <1>3 DEF OInv
  <2>2. Wire' = << >> /\ m_pipeline' = << >>
    BY <1>1, <2>1, EmptyWire DEF Quiet, Wire, requests_of, buffers, wire
  <2>3. Len(<< >>) <= Len(<< >>)
    OBVIOUS
  <2> QED  BY <1>1, <2>2, <2>3 DEF OInv
<1> QED  BY <1>2, <1>3

LEMMA OInvStep ==
    ASSUME TypeOK, IInv, OInv, [Next]_vars
    PROVE  OInv'
<1>1. CASE \/ FlushSome \/ ReadSome \/ ParseReply \/ ParseError \/ FillStart \/ SendSome
           \/ ServerReplies
  BY <1>1, OInvMoves
<1>2. CASE \/ FlushFails \/ ReadDropped \/ ReconnectFails \/ SendRequestFails
           \/ ServerDrops
  BY <1>2 DEF FlushFails, ReadDropped, ReconnectFails, SendRequestFails,
     disconnect, ServerDrops, OInv
<1>3. CASE HandleEvent
  <2> PICK evs : ConnectFailed(evs) \/ ConnectDone(evs) \/ EventOnConnected(evs)
    BY <1>3 DEF HandleEvent
  <2>1. CASE ConnectFailed(evs)
    BY <2>1, OInvQuiet DEF ConnectFailed
  <2>2. CASE ConnectDone(evs)
    BY <2>2, OInvConnects
  <2>3. CASE EventOnConnected(evs)
    <3>1. m_connected /\ UNCHANGED << peer, m_connected, m_pipeline, buffers, wire >>
      BY <2>3 DEF EventOnConnected
    <3>2. Wire' = Wire
      BY <3>1 DEF Wire, requests_of, buffers, wire
    <3> QED  BY <3>1, <3>2 DEF OInv
  <2> QED  BY <2>1, <2>2, <2>3
<1>4. CASE Reconnect
  <2>1. CASE m_pipeline = << >>
    BY <1>4, <2>1 DEF Reconnect, reconnect, Drained, OInv, Quiet
  <2>2. CASE m_pipeline # << >>
    BY <1>4, <2>2, OInvQuiet DEF Reconnect, link
  <2> QED  BY <2>1, <2>2
<1>5. CASE \/ NothingToRead \/ ParseUnexpected \/ ParseDone \/ ResponsesDone
           \/ FillHeld \/ FillDone \/ Abort \/ Writable \/ Rearm
  BY <1>5, OInvQuiet DEF NothingToRead, ParseUnexpected, ParseDone, ResponsesDone,
     FillHeld, FillDone, Abort, Writable, Rearm, link
<1>6. CASE KernelConnects \/ ServerStalls \/ MasterFinishes \/ UNCHANGED vars
  <2>1. UNCHANGED << m_connected, m_pipeline, buffers, wire, control >>
    BY <1>6 DEF KernelConnects, ServerStalls, MasterFinishes, vars, link
  <2>2. CASE UNCHANGED peer
    BY <2>1, <2>2, OInvQuiet DEF control
  <2>3. CASE ServerStalls
    <3>1. peer = "up" /\ Wire' = Wire
      BY <2>1, <2>3 DEF ServerStalls, Wire, requests_of, buffers, wire
    <3> QED  BY <2>1, <3>1 DEF OInv, Quiet, buffers, wire, control
  <2> QED  BY <1>6, <2>2, <2>3 DEF KernelConnects, MasterFinishes, vars, link
<1> QED  BY <1>1, <1>2, <1>3, <1>4, <1>5, <1>6 DEF Next, EventLoop

LEMMA AfterFillConnected ==
    ASSUME site \in {"connect", "response", "writable"}
    PROVE  AfterFill(TRUE) \in {"flush", "writable", "rearm"}
BY DEF AfterFill

\* A pipeline of one stays one at a time.
LEMMA OneAtATimeStep ==
    ASSUME TypeOK, IInv, OneAtATime, Pipeline = 1, [Next]_vars,
           ~(FlushFails \/ ReadDropped \/ SendRequestFails)
    PROVE  OneAtATime'
<1>0. m_pipeline \in Seq(RequestSet) /\ Len(m_pipeline) \in Nat
      /\ site \in {"connect", "response", "writable"}
  BY LenProperties DEF IInv, CoreType
<1>1. CASE ParseReply
  <2>1. m_pipeline # << >> /\ m_pipeline' = Tail(m_pipeline)
        /\ responses_handled' = IF IsSetup(Head(m_pipeline)) THEN responses_handled ELSE TRUE
        /\ pc = "parse"
    BY <1>1 DEF ParseReply
  <2>2. /\ Len(Tail(m_pipeline)) = Len(m_pipeline) - 1 /\ Len(m_pipeline) > 0
        /\ \A i \in 1..Len(Tail(m_pipeline)) : Tail(m_pipeline)[i] = m_pipeline[i + 1]
        /\ Head(m_pipeline) = m_pipeline[1] /\ Tail(m_pipeline) \in Seq(RequestSet)
    BY <1>0, <2>1, HeadTailProperties, EmptySeq
  <2>3. ~responses_handled
    <3>1. pc = "parse" /\ m_pipeline # << >>
      BY <1>1 DEF ParseReply
    <3>2. pc \in {"parse", "parsed"}
      BY <3>1
    <3> QED  BY <3>1, <3>2, Zenon DEF OneAtATime
  <2>4. \A i \in 1..Len(Tail(m_pipeline)) : IsSetup(Tail(m_pipeline)[i])
    <3> TAKE i \in 1..Len(Tail(m_pipeline))
    <3>1. i + 1 \in 1..Len(m_pipeline) /\ Len(m_pipeline) # 1
      BY <1>0, <2>2
    <3> QED  BY <2>2, <3>1 DEF OneAtATime
  <2>5. CASE IsSetup(Head(m_pipeline))
    BY <2>1, <2>3, <2>4, <2>5 DEF OneAtATime
  <2>6. CASE ~IsSetup(Head(m_pipeline))
    <3>1. Len(m_pipeline) = 1
      BY <2>2, <2>6 DEF OneAtATime
    <3>2. Tail(m_pipeline) = << >>
      <4>1. Len(Tail(m_pipeline)) = 0
        BY <2>2, <3>1
      <4> QED  BY <2>2, <4>1, EmptySeq
    <3>3. Len(<< >>) = 0 /\ 1..0 = {}
      OBVIOUS
    <3> QED  BY <2>1, <3>2, <3>3 DEF OneAtATime
  <2> QED  BY <2>5, <2>6
<1>2. CASE FillStart
  <2>1. pc' = "loop" /\ m_pipeline' = m_pipeline \o SetupCommands
    BY <1>2 DEF FillStart
  <2>2. CASE SetupUnsent
    <3>1. m_pipeline' = SetupCommands
      BY <1>0, <2>1, <2>2, SetupCommandsType, ConcatEmptySeq DEF IInv, SetupBeforeData
    <3> QED  BY <2>1, <3>1, SetupCommandsType DEF OneAtATime
  <2>3. CASE ~SetupUnsent
    <3>1. m_pipeline' = m_pipeline
      BY <1>0, <2>1, <2>3, SetupCommandsType, ConcatEmptySeq
    <3> QED  BY <2>1, <3>1 DEF OneAtATime
  <2> QED  BY <2>2, <2>3
<1>3. CASE SendSome
  <2>1. /\ pc = "loop" /\ MaySend /\ pc' = pc
        /\ m_pipeline' = Append(m_pipeline, Data(m_reqs_generated + 1))
    BY <1>3 DEF SendSome, SendRequest, control
  <2>2. Len(m_pipeline) = 0
    BY <1>0, <2>1 DEF MaySend
  <2>3. Data(m_reqs_generated + 1) \in RequestSet
    BY RequestTypes DEF IInv, CoreType
  <2>4. Len(m_pipeline') = 1
    BY <1>0, <2>1, <2>2, <2>3, AppendProperties
  <2> QED  BY <2>1, <2>4 DEF OneAtATime
<1>4. CASE Reconnect \/ ReconnectFails
  BY <1>4 DEF Reconnect, ReconnectFails, OneAtATime
<1>5. CASE ReadSome
  BY <1>5 DEF ReadSome, Read, OneAtATime
<1>6. CASE \/ HandleEvent \/ FlushSome \/ NothingToRead \/ ParseUnexpected
           \/ ParseError \/ ParseDone \/ ResponsesDone \/ Abort
           \/ Writable \/ Rearm \/ KernelConnects \/ ServerReplies \/ ServerDrops
           \/ ServerStalls \/ MasterFinishes \/ UNCHANGED vars
  <2>1. m_pipeline' = m_pipeline /\ responses_handled' = responses_handled
        /\ (pc' \in {"parse", "parsed"} => pc \in {"parse", "parsed"})
    BY <1>6 DEF HandleEvent, ConnectFailed, ConnectDone, EventOnConnected, Callback,
       FlushSome, Flush, NothingToRead, ParseUnexpected, ParseError, ParseDone,
       ResponsesDone, Abort, Writable, Rearm, KernelConnects, ServerReplies,
       ServerDrops, ServerStalls, MasterFinishes, vars, control
  <2> QED  BY <2>1 DEF OneAtATime
<1>7. CASE FillHeld \/ FillDone
  <2>1. m_pipeline' = m_pipeline /\ pc' = AfterFill(TRUE)
    BY <1>7 DEF FillHeld, FillDone
  <2>2. pc' \notin {"parse", "parsed"}
    BY <1>0, <2>1, AfterFillConnected
  <2> QED  BY <2>1, <2>2 DEF OneAtATime
<1> QED  BY <1>1, <1>2, <1>3, <1>4, <1>5, <1>6, <1>7 DEF Next, EventLoop

LEMMA AInvStep ==
    ASSUME TypeOK, IInv, OInv, AInv, [Next]_vars,
           "write" \notin Faults, "drop" \notin Faults, "connect" \notin Faults,
           Pipeline = 1 \/ ReconnectInterval = 0
    PROVE  AInv'
<1>1. ~(FlushFails \/ ReadDropped \/ ReconnectFails \/ SendRequestFails \/ ServerDrops)
  BY DEF AInv, FlushFails, ReadDropped, ReconnectFails, SendRequestFails,
     ServerDrops, WriteMayFail
<1>2. peer' # "down"
  <2>1. CASE Reconnect
    BY <2>1 DEF AInv, Reconnect, reconnect, link
  <2>2. CASE ~Reconnect
    BY <1>1, <2>2 DEF AInv, Next, EventLoop, HandleEvent, ConnectFailed, ConnectDone,
       EventOnConnected, FlushSome, Flush, ReadSome, Read, NothingToRead, ParseReply,
       ParseUnexpected, ParseError, ParseDone, ResponsesDone, FillHeld, FillStart, SendSome,
       SendRequest, FillDone, Abort, Writable, Rearm, KernelConnects, ServerReplies,
       ServerStalls, MasterFinishes, vars, link
  <2> QED  BY <2>1, <2>2
<1>3. ReconnectInterval = 0 \/ OneAtATime'
  BY <1>1, OneAtATimeStep DEF AInv
<1>4. ~ParseUnexpected
  <2> SUFFICES ASSUME ParseUnexpected PROVE FALSE
    OBVIOUS
  <2>1. Len(Wire) <= Len(m_pipeline)
    BY DEF AInv, OInv, Quiet, ParseUnexpected
  <2>2. m_pipeline = << >> /\ m_read_buf # << >>
    BY DEF ParseUnexpected
  <2>3. Len(Wire) \in Nat \ {0} /\ Len(<< >>) = 0
    BY <2>2, WireType, EmptySeq
  <2> QED  BY <2>1, <2>2, <2>3
<1>5. pc' # "assert_failed"
  <2>1. CASE Reconnect
    <3>1. pc = "parsed" /\ ReconnectInterval > 0 /\ responses_handled
      BY <2>1 DEF Reconnect, IntervalOver
    <3>2. m_pipeline = << >>
      BY <3>1 DEF AInv, OneAtATime
    <3> QED  BY <2>1, <3>2 DEF Reconnect
  <2>2. CASE FillHeld \/ FillDone
    <3>1. pc' = AfterFill(TRUE) /\ site \in {"connect", "response", "writable"}
      BY <2>2 DEF FillHeld, FillDone, IInv, CoreType
    <3> QED  BY <3>1, AfterFillConnected
  <2>3. CASE ~Reconnect /\ ~FillHeld /\ ~FillDone
    BY <1>1, <1>4, <2>3 DEF AInv, Next, EventLoop, HandleEvent, ConnectFailed, ConnectDone,
       EventOnConnected, FlushSome, Flush, ReadSome, Read, NothingToRead, ParseReply,
       ParseError, ParseDone, ResponsesDone, FillStart, SendSome,
       SendRequest, Abort, Writable, Rearm, KernelConnects, ServerReplies,
       ServerStalls, MasterFinishes, vars, control
  <2> QED  BY <2>1, <2>2, <2>3
<1> QED  BY <1>2, <1>3, <1>5 DEF AInv

\* No assertion of handle_event, process_response or pop_req fails while no
\* connection is lost, no connect() fails at once and the answer of
\* gurantee_sockfd_dispatch arrives whole, if the client reconnects with a
\* pipeline of one, or never. Each hypothesis excludes a real abort: a
\* connection lost while fill_pipeline writes on connecting, a reconnection
\* whose address does not resolve or whose socket() or ::connect() fails, a
\* reply nobody waits for, a second request in the pipeline when the reconnect
\* interval is over.
THEOREM AssertionsHold ==
    ASSUME "write" \notin Faults, "drop" \notin Faults, "split" \notin Faults,
           "connect" \notin Faults, Pipeline = 1 \/ ReconnectInterval = 0
    PROVE  Spec => []NoAssertFails
<1>1. Init => OInv /\ AInv
  <2>1. Init => AInv
    <3>1. Len(<< >>) = 0 /\ 1..0 = {}
      OBVIOUS
    <3> QED  BY <3>1 DEF Init, AInv, OneAtATime
  <2> QED  BY <2>1, OInvInit
<1>2. TypeOK /\ IInv /\ OInv /\ AInv /\ [Next]_vars => OInv' /\ AInv'
  BY OInvStep, AInvStep
<1>3. AInv => NoAssertFails
  BY DEF AInv, NoAssertFails
<1> QED  BY <1>1, <1>2, <1>3, TypeCorrect, Inductive, PTL DEF Spec

=============================================================================
