-------------------------- MODULE Benchmark_proofs ---------------------------
(***************************************************************************)
(* For any number of workers, intervals, requests and runs: the last       *)
(* sample of a run is complete; a processed latency log is; and, if the    *)
(* schedule is played by one run only, nobody who keeps the connection     *)
(* ends before it is over and every row of the QPS log is labelled with    *)
(* what was in force when it was measured.                                 *)
(***************************************************************************)
EXTENDS Benchmark, SumTheorems, TLAPS

USE DEF AllWorkers

-----------------------------------------------------------------------------
(* Types                                                                   *)

MainTypes ==
    /\ config \in Configs /\ run \in 1..config.runs
    /\ pc \in {"prepare", "sleep", "flag", "ops", "tid", "row", "label_skew",
               "label_goal", "join_master", "join", "results", "end", "done",
               "exited", "aborted"}

\* Only what the sampling loop has read, in a type of its own: differences of
\* samples are natural numbers because counters only grow.
SampleTypes ==
    /\ active_threads \subseteq AllWorkers /\ at \in 1..(Workers + 1)
    /\ pc \in {"flag", "ops", "tid"} => at \in AllWorkers
    /\ total_ops \in [AllWorkers -> Nat] /\ totalOpsPerTid \in [AllWorkers -> Nat]
    /\ prevOpsPerTid \in [AllWorkers -> Nat] /\ logged = prevOpsPerTid
    /\ samples \in Nat

Places == {"new", "running", "logged", "returned", "finished"}

WorkerTypes ==
    /\ wpc \in [AllWorkers -> Places]
    /\ asked \in [AllWorkers -> Nat] /\ ops \in [AllWorkers -> Nat]
    /\ lost \subseteq AllWorkers
    /\ getArrayIndex \in Nat /\ written \subseteq Nat

ScheduleTypes ==
    /\ mpc \in {"none", "start", "play", "goal", "done"}
    /\ interval \in 0..config.intervals
    /\ mpc \in {"play", "goal"} => interval > 0 
    /\ mpc # "none" => config.intervals > 0
    /\ intervals \in {"none", "allocated", "deleted"}
    /\ master_finished \in BOOLEAN
    /\ skew_at \in Nat /\ goal_at \in Nat
    /\ prevSkew \in Nat /\ prevGoal \in Nat
    /\ row \in Label /\ window \in [from: Label, to: Label]

Types == MainTypes /\ SampleTypes /\ WorkerTypes /\ ScheduleTypes

LEMMA TypesImplyTypeOK == Types => TypeOK
BY DEF Types, MainTypes, SampleTypes, WorkerTypes, ScheduleTypes, TypeOK, Places

LEMMA ConfigTypes ==
    ASSUME NEW c \in Configs
    PROVE  c.intervals \in Nat /\ c.runs \in Nat \ {0} /\ c.requests \in Nat \ {0}
BY ConfigAssumption

LEMMA NothingType == Nothing \in [AllWorkers -> Nat]
BY DEF Nothing

LEMMA TypesInit == Init => Types
BY ConfigAssumption, ConfigTypes
   DEF Init, Types, MainTypes, SampleTypes, WorkerTypes, ScheduleTypes, Nothing,
       Label, Now, Scheduled, Places

LEMMA MainStep == Types /\ [Next]_vars => MainTypes'
<1> SUFFICES ASSUME Types, [Next]_vars PROVE MainTypes'
  OBVIOUS
<1>1. CASE Main
  BY <1>1, ConfigTypes
     DEF Main, PrepareFails, Launch, SampleStart, ReadFlag, ReadOps, ReadTid, Row,
         LabelSkew, LabelGoal, JoinMaster, JoinWorkers, ProcessResults, NextRun,
         Finish, Types, MainTypes
<1>2. CASE Master
  BY <1>2 DEF Master, MasterStart, AdvanceSkew, AdvanceGoal, MasterFinishes,
              Types, MainTypes
<1>3. CASE \E w \in AllWorkers : Worker(w) \/ LoseConnection(w)
  BY <1>3 DEF Worker, LogReply, LogOverflow, CountReply, End, RaiseFlag, Send,
     LoseConnection, Running, Types, MainTypes
<1>4. CASE UNCHANGED vars
  BY <1>4 DEF vars, Types, MainTypes
<1> QED  BY <1>1, <1>2, <1>3, <1>4 DEF Next

LEMMA SampleStep == Types /\ [Next]_vars => SampleTypes'
<1> SUFFICES ASSUME Types, [Next]_vars PROVE SampleTypes'
  OBVIOUS
<1> USE ConfigAssumption DEF Types, SampleTypes, WorkerTypes
<1>1. CASE Launch
  BY <1>1, NothingType DEF Launch
<1>a. CASE SampleStart
  <2>1. 1 \in AllWorkers /\ 1 \in 1..(Workers + 1)
    OBVIOUS
  <2>2. /\ active_threads' = {} /\ at' = 1 /\ samples' = samples + 1
        /\ total_ops' = Nothing /\ totalOpsPerTid' = Nothing
        /\ UNCHANGED << prevOpsPerTid, logged >>
    BY <1>a DEF SampleStart
  <2> QED  BY <2>1, <2>2, NothingType, SMTT(40)
<1>2. CASE ReadFlag
  BY <1>2 DEF ReadFlag, qpsLog
<1>3. CASE ReadOps \/ ReadTid
  <2>1. at \in AllWorkers /\ ops[at] \in Nat
    BY <1>3 DEF ReadOps, ReadTid
  <2>2. /\ [total_ops EXCEPT ![at] = ops[at]] \in [AllWorkers -> Nat]
        /\ [totalOpsPerTid EXCEPT ![at] = ops[at]] \in [AllWorkers -> Nat]
    BY <2>1
  <2>3. CASE ReadOps
    BY <2>1, <2>2, <2>3 DEF ReadOps, qpsLog
  <2>4. CASE ReadTid
    <3>1. /\ at' = at + 1 /\ pc' = (IF at = Workers THEN "row" ELSE "flag")
          /\ Workers \in Nat /\ at \in 1..Workers
      BY <2>1, <2>4 DEF ReadTid
    <3>2. at' \in 1..(Workers + 1) /\ (pc' = "flag" => at' \in AllWorkers)
      BY ONLY <3>1 DEF AllWorkers
    <3>3. pc' \notin {"ops", "tid"}
      BY ONLY <3>1
    <3> QED  BY <2>2, <2>4, <3>2, <3>3 DEF ReadTid, qpsLog
  <2> QED  BY <1>3, <2>3, <2>4
<1>4. CASE Row
  <2>1. logged' = totalOpsPerTid
    <3>1. logged' = [w \in AllWorkers |-> logged[w] + totalOpsPerTid[w] - prevOpsPerTid[w]]
      BY <1>4 DEF Row
    <3>2. /\ totalOpsPerTid \in [AllWorkers -> Nat]
          /\ prevOpsPerTid \in [AllWorkers -> Nat] /\ logged = prevOpsPerTid
      BY DEF Types, SampleTypes
    <3>3. \A w \in AllWorkers : logged[w] + totalOpsPerTid[w] - prevOpsPerTid[w] = totalOpsPerTid[w]
      BY ONLY <3>2
    <3> QED  BY ONLY <3>1, <3>2, <3>3
  <2> QED  BY <1>4, <2>1 DEF Row, totals
<1>5. CASE \/ PrepareFails \/ LabelSkew \/ LabelGoal \/ JoinMaster \/ JoinWorkers
           \/ ProcessResults \/ NextRun \/ Finish
  BY <1>5 DEF PrepareFails, LabelSkew, LabelGoal, JoinMaster, JoinWorkers,
              ProcessResults, NextRun, Finish, totals, qpsLog
<1>6. CASE Master
  BY <1>6 DEF Master, MasterStart, AdvanceSkew, AdvanceGoal, MasterFinishes, totals,
              qpsLog
<1>7. CASE \E w \in AllWorkers : Worker(w) \/ LoseConnection(w)
  BY <1>7 DEF Worker, LogReply, LogOverflow, CountReply, End, RaiseFlag, Send,
     LoseConnection, Running, totals, qpsLog
<1>8. CASE UNCHANGED vars
  BY <1>8 DEF vars, totals, qpsLog
<1> QED  BY <1>1, <1>a, <1>2, <1>3, <1>4, <1>5, <1>6, <1>7, <1>8 DEF Next, Main

LEMMA WorkerStep == Types /\ [Next]_vars => WorkerTypes'
<1> SUFFICES ASSUME Types, [Next]_vars PROVE WorkerTypes'
  OBVIOUS
<1> USE DEF Types, WorkerTypes
<1>1. CASE Launch \/ NextRun
  <2>1. wpc' \in [AllWorkers -> Places]
    BY <1>1 DEF Launch, NextRun, Places
  <2>2. /\ ops' = ops \/ ops' = Nothing
        /\ asked' = asked \/ asked' = Nothing
        /\ lost' = lost \/ lost' = {}
        /\ getArrayIndex' \in {getArrayIndex, 0} /\ written' \in {written, {}}
    BY <1>1 DEF Launch, NextRun
  <2>3. ops' \in [AllWorkers -> Nat] /\ asked' \in [AllWorkers -> Nat]
    BY <2>2, NothingType, Zenon
  <2>4. getArrayIndex' \in Nat
    BY <2>2
  <2>5. written' \subseteq Nat /\ lost' \subseteq AllWorkers
    <3>1. lost \subseteq AllWorkers /\ written \subseteq Nat
      OBVIOUS
    <3> QED  BY ONLY <2>2, <3>1
  <2> QED  BY <2>1, <2>3, <2>4, <2>5
<1>2. CASE Main /\ ~Launch /\ ~NextRun
  BY <1>2 DEF Main, PrepareFails, SampleStart, ReadFlag, ReadOps, ReadTid, Row,
              LabelSkew, LabelGoal, JoinMaster, JoinWorkers, ProcessResults,
              Finish, workers
<1>3. CASE Master
  BY <1>3 DEF Master, MasterStart, AdvanceSkew, AdvanceGoal, MasterFinishes, workers
<1>4. CASE \E w \in AllWorkers : Worker(w) \/ LoseConnection(w)
  <2> PICK w \in AllWorkers : Worker(w) \/ LoseConnection(w)
    BY <1>4
  <2>1. CASE LogReply(w)
    <3>1. [wpc EXCEPT ![w] = "logged"] \in [AllWorkers -> Places]
      BY DEF Places
    <3>2. /\ asked' = asked /\ ops' = ops /\ lost' = lost
          /\ getArrayIndex' \in Nat /\ written' \subseteq Nat
      <4>1. /\ getArrayIndex + 1 \in Nat /\ getArrayIndex \in Nat
            /\ written \cup {getArrayIndex} \subseteq Nat /\ written \subseteq Nat
        OBVIOUS
      <4>2. CASE config.log
        BY <2>1, <4>1, <4>2, Zenon DEF LogReply, FetchAdd
      <4>3. CASE ~config.log
        BY <2>1, <4>1, <4>3, Zenon DEF LogReply
      <4> QED  BY <4>2, <4>3
    <3>3. wpc' = [wpc EXCEPT ![w] = "logged"]
      BY <2>1 DEF LogReply
    <3> QED  BY <3>1, <3>2, <3>3
  <2>2. CASE CountReply(w)
    <3>1. [ops EXCEPT ![w] = @ + 1] \in [AllWorkers -> Nat]
      OBVIOUS
    <3>2. [wpc EXCEPT ![w] = "running"] \in [AllWorkers -> Places]
      BY DEF Places
    <3> QED  BY <2>2, <3>1, <3>2 DEF CountReply
  <2>3. CASE End(w) \/ RaiseFlag(w) \/ LoseConnection(w)
    <3>1. /\ [wpc EXCEPT ![w] = "returned"] \in [AllWorkers -> Places]
          /\ [wpc EXCEPT ![w] = "finished"] \in [AllWorkers -> Places]
      BY DEF Places
    <3>2. lost' \subseteq AllWorkers
      BY <2>3 DEF End, RaiseFlag, LoseConnection
    <3> QED  BY <2>3, <3>1, <3>2 DEF End, RaiseFlag, LoseConnection
  <2>4. CASE LogOverflow(w)
    BY <2>4 DEF LogOverflow
  <2>5. CASE Send(w)
    <3>1. [asked EXCEPT ![w] = @ + 1] \in [AllWorkers -> Nat]
      OBVIOUS
    <3> QED  BY <2>5, <3>1 DEF Send
  <2> QED  BY <2>1, <2>2, <2>3, <2>4, <2>5 DEF Worker
<1>5. CASE UNCHANGED vars
  BY <1>5 DEF vars, workers
<1> QED  BY <1>1, <1>2, <1>3, <1>4, <1>5 DEF Next, Main

LEMMA ScheduleStep == Types /\ [Next]_vars => ScheduleTypes'
<1> SUFFICES ASSUME Types, [Next]_vars PROVE ScheduleTypes'
  OBVIOUS
<1> USE DEF Types, MainTypes, ScheduleTypes
<1>0. config.intervals \in Nat
  BY ConfigTypes
<1>1. CASE Launch
  BY <1>0, <1>1 DEF Launch, Now, Label, Scheduled
<1>a. CASE SampleStart
  <2>1. window' \in [from: Label, to: Label]
    BY <1>a DEF SampleStart, Now, Label
  <2> QED  BY <1>a, <2>1 DEF SampleStart, schedule
<1>2. CASE Row \/ LabelSkew \/ LabelGoal
  BY <1>2, SMTT(40) DEF Row, LabelSkew, LabelGoal, Label, schedule
<1>3. CASE \/ PrepareFails \/ ReadFlag \/ ReadOps \/ ReadTid \/ JoinMaster
           \/ JoinWorkers \/ ProcessResults \/ NextRun \/ Finish
  BY <1>3 DEF PrepareFails, ReadFlag, ReadOps, ReadTid, JoinMaster, JoinWorkers,
              ProcessResults, NextRun, Finish, schedule, qpsLog
<1>4. CASE Master
  <2>1. CASE MasterStart \/ AdvanceSkew
    <3>1. config' = config /\ interval' \in 0..config.intervals /\ interval' > 0
      BY ONLY <1>0, <2>1, ScheduleTypes DEF MasterStart, AdvanceSkew, LastInterval,
                                            ScheduleTypes
    <3>2. /\ mpc' \in {"play", "goal"} /\ config.intervals > 0
          /\ skew_at' \in Nat
      BY <1>0, <2>1 DEF MasterStart, AdvanceSkew
    <3>3. UNCHANGED << intervals, master_finished, goal_at, prevSkew, prevGoal,
                       row, window >>
      BY <2>1 DEF MasterStart, AdvanceSkew, qpsLog
    <3> QED  BY <3>1, <3>2, <3>3
  <2>2. CASE AdvanceGoal \/ MasterFinishes
    <3>1. /\ UNCHANGED << config, interval, intervals, skew_at, prevSkew, prevGoal,
                          row, window >>
          /\ mpc \in {"play", "goal"} /\ mpc' \in {"play", "done"}
      BY <2>2 DEF AdvanceGoal, MasterFinishes, qpsLog
    <3>2. master_finished' \in BOOLEAN /\ goal_at' \in Nat
      <4>1. interval \in Nat
        BY <1>0
      <4> QED  BY <2>2, <4>1, Zenon DEF AdvanceGoal, MasterFinishes
    <3> QED  BY <3>1, <3>2
  <2> QED  BY <1>4, <2>1, <2>2 DEF Master
<1>5. CASE \E w \in AllWorkers : Worker(w) \/ LoseConnection(w)
  BY <1>5 DEF Worker, LogReply, LogOverflow, CountReply, End, RaiseFlag, Send,
     LoseConnection, Running, schedule, qpsLog
<1>6. CASE UNCHANGED vars
  BY <1>6 DEF vars, schedule, qpsLog
<1> QED  BY <1>1, <1>a, <1>2, <1>3, <1>4, <1>5, <1>6 DEF Next, Main

LEMMA TypesInductive == Spec => []Types
<1>1. Types /\ [Next]_vars => Types'
  BY MainStep, SampleStep, WorkerStep, ScheduleStep DEF Types
<1> QED  BY TypesInit, <1>1, PTL DEF Spec

\* Every variable keeps its type.
THEOREM TypeCorrect == Spec => []TypeOK
BY TypesInductive, TypesImplyTypeOK, PTL

-----------------------------------------------------------------------------
(* The last sample                                                         *)

\* The main thread is past the flags of some workers, and has not decided yet
\* whether to take another sample.
Sampling ==
    pc \in {"flag", "ops", "tid", "row"}
        \/ (pc \in {"label_skew", "label_goal"} /\ samples > 0)

\* A worker that was found to have finished has counted its last reply: what
\* is read of it afterwards is final, because the flag is read first.
FinalParts ==
    \A w \in AllWorkers \ active_threads :
        /\ w < at \/ (w = at /\ pc \in {"ops", "tid"}) => wpc[w] = "finished"
        /\ w < at \/ (w = at /\ pc = "tid") => total_ops[w] = ops[w]
        /\ w < at => totalOpsPerTid[w] = ops[w]

SampleInv ==
    /\ Sampling => FinalParts
    /\ Sampling /\ pc \notin {"flag", "ops", "tid"} => at = Workers + 1
    /\ Sampling /\ pc \in {"label_skew", "label_goal"} => prevOpsPerTid = totalOpsPerTid
    /\ pc \in {"join_master", "join", "results"} =>
          /\ total_ops = ops /\ prevOpsPerTid = ops
          /\ \A w \in AllWorkers : wpc[w] = "finished"

\* Workers leave finished workers alone.
LEMMA WorkerKeepsSample ==
    ASSUME Types, SampleInv, NEW w \in AllWorkers, Worker(w) \/ LoseConnection(w)
    PROVE  SampleInv'
<1>1. /\ UNCHANGED << active_threads, at, total_ops, totalOpsPerTid, prevOpsPerTid, samples >>
      /\ wpc[w] # "finished"
      /\ \A v \in AllWorkers \ {w} : wpc'[v] = wpc[v] /\ ops'[v] = ops[v]
      /\ pc' = pc \/ (pc' = "exited" /\ ops' = ops)
  BY DEF Worker, LogReply, LogOverflow, CountReply, End, RaiseFlag,
              Send, LoseConnection, Running, totals, qpsLog,
         Types, WorkerTypes
<1>2. pc \notin {"join_master", "join", "results"}
  BY <1>1 DEF SampleInv
<1>3. CASE pc' = "exited"
  BY <1>3 DEF SampleInv, Sampling
<1>4. CASE pc' = pc
  <2>1. Sampling' => FinalParts'
    <3> SUFFICES ASSUME Sampling', NEW v \in AllWorkers \ active_threads
                 PROVE  /\ v < at \/ (v = at /\ pc \in {"ops", "tid"}) => wpc'[v] = "finished"
                        /\ v < at \/ (v = at /\ pc = "tid") => total_ops[v] = ops'[v]
                        /\ v < at => totalOpsPerTid[v] = ops'[v]
      BY <1>1, <1>4 DEF FinalParts
    <3>1. FinalParts
      BY <1>1, <1>4 DEF Sampling, SampleInv
    <3>2. CASE v = w
      BY <1>1, <3>1, <3>2 DEF FinalParts
    <3>3. CASE v # w
      BY <1>1, <3>1, <3>3 DEF FinalParts
    <3> QED  BY <3>2, <3>3
  <2> QED  BY <1>1, <1>2, <1>4, <2>1 DEF SampleInv, Sampling
<1> QED  BY <1>1, <1>3, <1>4

LEMMA LoopKeepsSample ==
    ASSUME Types, SampleInv, ReadFlag \/ ReadOps \/ ReadTid
    PROVE  SampleInv'
<1> USE DEF Types, SampleTypes, WorkerTypes
<1>1. /\ FinalParts /\ at \in AllWorkers /\ pc \in {"flag", "ops", "tid"}
      /\ Workers \in Nat
      /\ UNCHANGED << wpc, ops, prevOpsPerTid, samples >>
  BY ConfigAssumption DEF ReadFlag, ReadOps, ReadTid, workers, qpsLog, totals,
     SampleInv, Sampling
<1>2. CASE ReadFlag
  BY <1>1, <1>2 DEF ReadFlag, SampleInv, Sampling, FinalParts
<1>3. CASE ReadOps
  <2>1. \A v \in AllWorkers : total_ops'[v] = IF v = at THEN ops[at] ELSE total_ops[v]
    BY <1>3 DEF ReadOps
  <2>2. pc = "ops" /\ pc' = "tid" /\ UNCHANGED << at, active_threads, totalOpsPerTid >>
    BY <1>3 DEF ReadOps
  <2>3. FinalParts'
    BY <1>1, <2>1, <2>2 DEF FinalParts
  <2> QED  BY <2>2, <2>3 DEF SampleInv, Sampling
<1>4. CASE ReadTid
  <2>1. \A v \in AllWorkers :
            totalOpsPerTid'[v] = IF v = at THEN ops[at] ELSE totalOpsPerTid[v]
    BY <1>4 DEF ReadTid
  <2>2. /\ pc = "tid" /\ pc' = (IF at = Workers THEN "row" ELSE "flag")
        /\ at' = at + 1 /\ UNCHANGED << active_threads, total_ops >>
    BY <1>4 DEF ReadTid
  <2>3. FinalParts'
    <3> SUFFICES ASSUME NEW v \in AllWorkers \ active_threads, v < at + 1
                 PROVE  wpc[v] = "finished" /\ total_ops[v] = ops[v]
                            /\ totalOpsPerTid'[v] = ops[v]
      BY <1>1, <2>2 DEF FinalParts
    <3>1. v < at \/ v = at
      BY <1>1
    <3> QED  BY <1>1, <2>1, <2>2, <3>1 DEF FinalParts
  <2> QED  BY <1>1, <2>2, <2>3 DEF SampleInv, Sampling
<1> QED  BY <1>2, <1>3, <1>4

LEMMA SameFunction ==
    ASSUME NEW S, NEW f \in [S -> Nat], NEW g \in [S -> Nat],
           \A x \in S : f[x] = g[x]
    PROVE  f = g
OBVIOUS

\* The loop is left with a sample of finished workers only.
LEMMA LoopLeft ==
    ASSUME Types, SampleInv, LabelGoal, LoopEnds
    PROVE  /\ total_ops = ops /\ prevOpsPerTid = ops
           /\ \A w \in AllWorkers : wpc[w] = "finished"
<1> USE DEF Types, SampleTypes, WorkerTypes
<1>1. FinalParts /\ at = Workers + 1 /\ prevOpsPerTid = totalOpsPerTid
  BY DEF LabelGoal, LoopEnds, SampleInv, Sampling
<1>2. \A w \in AllWorkers : w \in AllWorkers \ active_threads /\ w < at
  BY <1>1, ConfigAssumption DEF LoopEnds
<1>3. \A w \in AllWorkers : /\ wpc[w] = "finished"
                            /\ total_ops[w] = ops[w] /\ totalOpsPerTid[w] = ops[w]
  BY <1>2, <1>1 DEF FinalParts
<1>4. /\ total_ops \in [AllWorkers -> Nat] /\ totalOpsPerTid \in [AllWorkers -> Nat]
      /\ ops \in [AllWorkers -> Nat]
  OBVIOUS
<1>5. total_ops = ops
  <2> DEFINE W == AllWorkers
  <2>1. /\ total_ops \in [W -> Nat] /\ ops \in [W -> Nat]
        /\ \A w \in W : total_ops[w] = ops[w]
    BY <1>3, <1>4
  <2> HIDE DEF W
  <2> QED  BY ONLY <2>1, SameFunction
<1>6. totalOpsPerTid = ops
  <2> DEFINE W == AllWorkers
  <2>1. /\ totalOpsPerTid \in [W -> Nat] /\ ops \in [W -> Nat]
        /\ \A w \in W : totalOpsPerTid[w] = ops[w]
    BY <1>3, <1>4
  <2> HIDE DEF W
  <2> QED  BY ONLY <2>1, SameFunction
<1> QED  BY <1>1, <1>3, <1>5, <1>6

LEMMA SampleInvStep == Types /\ SampleInv /\ [Next]_vars => SampleInv'
<1> SUFFICES ASSUME Types, SampleInv, [Next]_vars PROVE SampleInv'
  OBVIOUS
<1> USE ConfigAssumption
<1>1. CASE PrepareFails \/ Launch \/ NextRun \/ Finish
  BY <1>1 DEF PrepareFails, Launch, NextRun, Finish, SampleInv, Sampling
<1>2. CASE SampleStart
  <2>1. pc' = "flag" /\ at' = 1
    BY <1>2 DEF SampleStart
  <2>2. FinalParts'
    BY <2>1 DEF FinalParts
  <2> QED  BY <2>1, <2>2 DEF SampleInv, Sampling
<1>3. CASE ReadFlag \/ ReadOps \/ ReadTid
  BY <1>3, LoopKeepsSample
<1>4. CASE Row \/ LabelSkew
  <2>1. /\ UNCHANGED << wpc, ops, active_threads, total_ops, at, totalOpsPerTid, samples >>
        /\ pc \in {"row", "label_skew"} /\ pc' \in {"label_skew", "label_goal"}
        /\ IF pc = "row" THEN prevOpsPerTid' = totalOpsPerTid
                         ELSE prevOpsPerTid' = prevOpsPerTid
    BY <1>4 DEF Row, LabelSkew, workers, totals
  <2>2. FinalParts => FinalParts'
    BY <2>1 DEF FinalParts
  <2> QED  BY <2>1, <2>2 DEF SampleInv, Sampling
<1>5. CASE LabelGoal
  <2>1. UNCHANGED << wpc, ops, total_ops, prevOpsPerTid >>
    BY <1>5 DEF LabelGoal, workers, totals
  <2>2. CASE LoopEnds
    <3>1. pc' \in {"join_master", "join"}
      BY <1>5, <2>2 DEF LabelGoal
    <3>2. /\ total_ops' = ops' /\ prevOpsPerTid' = ops'
          /\ \A w \in AllWorkers : wpc'[w] = "finished"
      BY <1>5, <2>1, <2>2, LoopLeft
    <3> QED  BY <3>1, <3>2 DEF SampleInv, Sampling
  <2>3. CASE ~LoopEnds
    BY <1>5, <2>3 DEF LabelGoal, SampleInv, Sampling
  <2> QED  BY <2>2, <2>3
<1>6. CASE JoinMaster \/ JoinWorkers \/ ProcessResults
  BY <1>6 DEF JoinMaster, JoinWorkers, ProcessResults, workers, totals, qpsLog,
              SampleInv, Sampling
<1>7. CASE Master \/ UNCHANGED vars
  <2>1. UNCHANGED << pc, wpc, ops, active_threads, total_ops, at, totalOpsPerTid,
                     samples, prevOpsPerTid >>
    BY <1>7 DEF Master, MasterStart, AdvanceSkew, AdvanceGoal, MasterFinishes, workers,
                totals, qpsLog, vars
  <2> QED  BY <2>1 DEF SampleInv, Sampling, FinalParts
<1>8. CASE \E w \in AllWorkers : Worker(w) \/ LoseConnection(w)
  BY <1>8, WorkerKeepsSample
<1> QED  BY <1>1, <1>2, <1>3, <1>4, <1>5, <1>6, <1>7, <1>8 DEF Next, Main

LEMMA SampleInductive == Spec => []SampleInv
<1>1. Init => SampleInv
  BY DEF Init, SampleInv, Sampling
<1> QED  BY <1>1, SampleInvStep, TypesInductive, PTL DEF Spec

\* The totals of the last sample are those of the threads.
THEOREM LastSample == Spec => []TotalsComplete
<1>1. Types /\ SampleInv => TotalsComplete
  BY DEF Types, SampleTypes, SampleInv, TotalsComplete
<1> QED  BY <1>1, SampleInductive, TypesInductive, PTL

-----------------------------------------------------------------------------
(* A schedule that is played once                                          *)

\* Without this, SchedulePlayed is false: nothing resets master_finished.
Single == Scheduled => config.runs = 1

ScheduleInv ==
    Scheduled =>
        /\ pc = "prepare" => mpc = "none" /\ ~master_finished
        /\ master_finished => mpc = "done"
        /\ \A w \in AllWorkers \ lost :
              wpc[w] \in {"returned", "finished"} => master_finished

LEMMA ConfigStays == [Next]_vars => config' = config
BY DEF Next, vars, Main, PrepareFails, Launch, SampleStart, ReadFlag, ReadOps, ReadTid,
   Row, LabelSkew, LabelGoal, JoinMaster, JoinWorkers, ProcessResults, NextRun, Finish,
   Master, MasterStart, AdvanceSkew, AdvanceGoal, MasterFinishes, Worker, LogReply,
   LogOverflow, CountReply, End, RaiseFlag, Send, LoseConnection, Running

LEMMA ScheduleInvStep ==
    Types /\ Single /\ ScheduleInv /\ [Next]_vars => ScheduleInv'
<1> SUFFICES ASSUME Types, Single, ScheduleInv, [Next]_vars, Scheduled'
             PROVE  /\ pc' = "prepare" => mpc' = "none" /\ ~master_finished'
                    /\ master_finished' => mpc' = "done"
                    /\ \A w \in AllWorkers \ lost' :
                          wpc'[w] \in {"returned", "finished"} => master_finished'
  BY DEF ScheduleInv
<1>1. /\ Scheduled /\ config.runs = 1 /\ run = 1
      /\ pc = "prepare" => mpc = "none" /\ ~master_finished
      /\ master_finished => mpc = "done"
      /\ \A w \in AllWorkers \ lost :
            wpc[w] \in {"returned", "finished"} => master_finished
  BY ConfigStays DEF Scheduled, Single, ScheduleInv, Types, MainTypes
<1>2. CASE Launch
  BY <1>1, <1>2 DEF Launch
<1>3. CASE Main /\ ~Launch
  <2>1. UNCHANGED << wpc, lost, mpc, master_finished >> /\ pc' # "prepare"
    BY <1>1, <1>3 DEF Main, PrepareFails, SampleStart, ReadFlag, ReadOps, ReadTid, Row,
                      LabelSkew, LabelGoal, JoinMaster, JoinWorkers, ProcessResults,
                      NextRun, Finish, schedule, workers
  <2> QED  BY <1>1, <2>1
<1>4. CASE Master
  <2>1. wpc' = wpc /\ lost' = lost /\ pc' = pc /\ mpc \notin {"none", "done"}
    BY <1>4 DEF Master, MasterStart, AdvanceSkew, AdvanceGoal, MasterFinishes, workers
  <2>2. master_finished' => mpc' = "done"
    BY <1>1, <1>4, <2>1 DEF Master, MasterStart, AdvanceSkew, AdvanceGoal, MasterFinishes
  <2>3. ~master_finished
    BY <1>1, <2>1
  <2> QED  BY <1>1, <2>1, <2>2, <2>3
<1>5. CASE \E w \in AllWorkers : Worker(w) \/ LoseConnection(w)
  <2> PICK w \in AllWorkers : Worker(w) \/ LoseConnection(w)
    BY <1>5
  <2>1. UNCHANGED << mpc, master_finished >> /\ pc' \in {pc, "exited"}
    BY DEF Worker, LogReply, LogOverflow, CountReply, End, RaiseFlag,
              Send, LoseConnection, Running, schedule
  <2>2. lost \subseteq lost' /\ \A v \in AllWorkers \ {w} : wpc'[v] = wpc[v]
    BY DEF Worker, LogReply, LogOverflow, CountReply, End, RaiseFlag,
              Send, LoseConnection, Running, Types, WorkerTypes
  <2>3. wpc'[w] \in {"returned", "finished"} => master_finished \/ w \in lost'
    BY <1>1 DEF Worker, LogReply, LogOverflow, CountReply, End, RaiseFlag, Send,
       LoseConnection, Running, finished, Types, WorkerTypes
  <2> QED  BY <1>1, <2>1, <2>2, <2>3
<1>6. CASE UNCHANGED vars
  BY <1>1, <1>6 DEF vars, schedule, workers
<1> QED  BY <1>2, <1>3, <1>4, <1>5, <1>6 DEF Next

LEMMA ScheduleInductive == Spec => [](Single => ScheduleInv)
<1>1. Init => (Single => ScheduleInv)
  BY DEF Init, ScheduleInv, AllWorkers
<1>2. Types /\ (Single => ScheduleInv) /\ [Next]_vars => (Single => ScheduleInv)'
  BY ScheduleInvStep, ConfigStays DEF Single, Scheduled
<1> QED  BY <1>1, <1>2, TypesInductive, PTL DEF Spec

\* A schedule that is played by one run is played to its end before any worker
\* ends that has kept its connection.
THEOREM FullTest == Spec => [](Single => SchedulePlayed)
<1>1. ScheduleInv => SchedulePlayed
  BY DEF ScheduleInv, SchedulePlayed
<1> QED  BY <1>1, ScheduleInductive, PTL

-----------------------------------------------------------------------------
(* The labels of the rows                                                  *)

\* The goal follows the skew, and both follow the schedule.
Forward ==
    /\ mpc \in {"none", "start"} => skew_at = 1 /\ goal_at = 1
    /\ mpc \in {"play", "goal"} => skew_at = interval /\ goal_at <= interval

\* A label was true when the last sample began or has come true since; it is
\* that old when the row is written, one sample later.
LabelInv ==
    /\ Forward
    /\ window.to.skew <= skew_at /\ window.to.goal <= goal_at
    /\ pc \in {"sleep", "label_goal"} =>
          window.to.skew <= prevSkew /\ prevSkew <= skew_at
    /\ pc = "sleep" => window.to.goal <= prevGoal /\ prevGoal <= goal_at
    /\ pc \in {"flag", "ops", "tid", "row"} =>
          /\ window.from.skew <= prevSkew /\ prevSkew <= window.to.skew
          /\ window.from.goal <= prevGoal /\ prevGoal <= window.to.goal
    /\ LabelFits

LEMMA MasterAdvances ==
    ASSUME Types, Forward, Master
    PROVE  Forward' /\ skew_at <= skew_at' /\ goal_at <= goal_at'
BY ConfigTypes DEF Types, MainTypes, ScheduleTypes, Forward, Master, MasterStart,
                   AdvanceSkew, AdvanceGoal, MasterFinishes

LEMMA WindowTypes ==
    ASSUME Types
    PROVE  /\ window.from.skew \in Nat /\ window.from.goal \in Nat
           /\ window.to.skew \in Nat /\ window.to.goal \in Nat
           /\ skew_at \in Nat /\ goal_at \in Nat /\ prevSkew \in Nat /\ prevGoal \in Nat
BY DEF Types, ScheduleTypes, Label

LEMMA LabelInvStep ==
    Types /\ Single /\ ScheduleInv /\ LabelInv /\ [Next]_vars => LabelInv'
<1> SUFFICES ASSUME Types, Single, ScheduleInv, LabelInv, [Next]_vars
             PROVE  LabelInv'
  OBVIOUS
<1> USE WindowTypes
<1>1. CASE Launch
  <2>1. /\ pc' = "label_skew" /\ samples' = 0 /\ window' = [from |-> Now, to |-> Now]
        /\ UNCHANGED << skew_at, goal_at, interval >>
        /\ mpc' = (IF Scheduled THEN "start" ELSE "none")
    BY <1>1 DEF Launch
  <2>2. skew_at = 1 /\ goal_at = 1
    <3>1. mpc = "none"
      BY <1>1, ConfigTypes
         DEF Launch, ScheduleInv, Scheduled, Types, MainTypes, ScheduleTypes
    <3> QED  BY <3>1 DEF LabelInv, Forward
  <2> QED  BY <2>1, <2>2 DEF LabelInv, Forward, LabelFits, Now
<1>2. CASE SampleStart
  <2>1. /\ pc = "sleep" /\ pc' = "flag" /\ window' = [from |-> window.to, to |-> Now]
        /\ UNCHANGED << skew_at, goal_at, interval, mpc, prevSkew, prevGoal, row >>
    BY <1>2 DEF SampleStart, schedule
  <2> QED  BY <2>1 DEF LabelInv, Forward, LabelFits, Now
<1>3. CASE ReadFlag \/ ReadOps \/ ReadTid
  <2>1. /\ pc \in {"flag", "ops", "tid"} /\ pc' \in {"flag", "ops", "tid", "row"}
        /\ UNCHANGED << skew_at, goal_at, interval, mpc, prevSkew, prevGoal, row, window >>
    BY <1>3 DEF ReadFlag, ReadOps, ReadTid, schedule, qpsLog
  <2> QED  BY <2>1 DEF LabelInv, Forward, LabelFits
<1>4. CASE Row
  <2>1. /\ pc = "row" /\ pc' = "label_skew" /\ row' = [skew |-> prevSkew, goal |-> prevGoal]
        /\ UNCHANGED << skew_at, goal_at, interval, mpc, window >>
    BY <1>4 DEF Row, schedule
  <2> QED  BY <2>1 DEF LabelInv, Forward, LabelFits
<1>5. CASE LabelSkew
  <2>1. /\ pc = "label_skew" /\ pc' = "label_goal" /\ prevSkew' = skew_at
        /\ UNCHANGED << skew_at, goal_at, interval, mpc, window, row, prevGoal >>
    BY <1>5 DEF LabelSkew, schedule
  <2> QED  BY <2>1 DEF LabelInv, Forward, LabelFits
<1>6. CASE LabelGoal
  <2>1. /\ pc = "label_goal" /\ pc' \in {"sleep", "join_master", "join"}
        /\ prevGoal' = goal_at
        /\ UNCHANGED << skew_at, goal_at, interval, mpc, window, row, prevSkew >>
    BY <1>6 DEF LabelGoal, schedule
  <2> QED  BY <2>1 DEF LabelInv, Forward, LabelFits
<1>7. CASE \/ PrepareFails \/ JoinMaster \/ JoinWorkers \/ ProcessResults
           \/ NextRun \/ Finish
  <2>1. /\ pc' \in {"exited", "join", "results", "end", "aborted", "prepare", "done"}
        /\ UNCHANGED << skew_at, goal_at, interval, mpc, window >>
    BY <1>7 DEF PrepareFails, JoinMaster, JoinWorkers, ProcessResults, NextRun, Finish,
                schedule, qpsLog
  <2> QED  BY <2>1 DEF LabelInv, Forward, LabelFits
<1>8. CASE Master
  <2>1. UNCHANGED << pc, window, row, prevSkew, prevGoal, samples >>
    BY <1>8 DEF Master, MasterStart, AdvanceSkew, AdvanceGoal, MasterFinishes, qpsLog,
       totals
  <2>2. Forward' /\ skew_at <= skew_at' /\ goal_at <= goal_at'
    BY <1>8, MasterAdvances DEF LabelInv
  <2>3. skew_at' \in Nat /\ goal_at' \in Nat
    BY ScheduleStep DEF ScheduleTypes
  <2> QED  BY <2>1, <2>2, <2>3 DEF LabelInv, LabelFits
<1>9. CASE (\E w \in AllWorkers : Worker(w) \/ LoseConnection(w)) \/ UNCHANGED vars
  <2>1. /\ pc' \in {pc, "exited"}
        /\ UNCHANGED << skew_at, goal_at, interval, mpc, window, row, prevSkew, prevGoal,
                        samples >>
    BY <1>9 DEF Worker, LogReply, LogOverflow, CountReply, End, RaiseFlag, Send,
       LoseConnection, Running, schedule, qpsLog, totals, vars
  <2> QED  BY <2>1 DEF LabelInv, Forward, LabelFits
<1> QED  BY <1>1, <1>2, <1>3, <1>4, <1>5, <1>6, <1>7, <1>8, <1>9 DEF Next, Main

\* Every row of a schedule played by one run is labelled with what was in
\* force in the second it is about.
THEOREM Labels == Spec => [](Single => LabelFits)
<1>1. Init => (Single => LabelInv)
  BY DEF Init, LabelInv, Forward, LabelFits, Now
<1>2. Types /\ (Single => ScheduleInv) /\ (Single => LabelInv) /\ [Next]_vars
        => (Single => LabelInv)'
  BY LabelInvStep, ConfigStays DEF Single, Scheduled
<1>3. (Single => LabelInv) => (Single => LabelFits)
  BY DEF LabelInv
<1> QED  BY <1>1, <1>2, <1>3, TypesInductive, ScheduleInductive, PTL DEF Spec

-----------------------------------------------------------------------------
(* The latency log                                                         *)

\* The replies of a worker that are in the log: one may not be counted yet.
Logged == [w \in AllWorkers |-> ops[w] + (IF wpc[w] = "logged" THEN 1 ELSE 0)]

InLog == SumFunctionOnSet(Logged, AllWorkers)

LogInv ==
    /\ pc = "end" /\ config.log => getArrayIndex <= MaxEntries
    /\ pc = "end" => \A w \in AllWorkers : wpc[w] = "finished"
    /\ config.log /\ Alive =>
          getArrayIndex = InLog /\ written = 0..(getArrayIndex - 1)

LEMMA FiniteWorkers == IsFiniteSet(AllWorkers)
BY FS_Interval, ConfigAssumption

\* The log starts empty with the run.
LEMMA NothingLogged ==
    ASSUME NEW f, \A w \in AllWorkers : f[w] = 0
    PROVE  SumFunctionOnSet(f, AllWorkers) = 0
BY FiniteWorkers, SumZero

\* It stays when no worker logs a reply, wherever they are otherwise.
LEMMA LogStays ==
    ASSUME \A w \in AllWorkers : Logged'[w] = Logged[w]
    PROVE  InLog' = InLog
BY FiniteWorkers, SumSame DEF InLog

\* An entry is added for the reply that is logged.
LEMMA LogGrows ==
    ASSUME Types, NEW w \in AllWorkers, Logged'[w] = Logged[w] + 1,
           \A v \in AllWorkers \ {w} : Logged'[v] = Logged[v]
    PROVE  InLog' = InLog + 1
<1>1. \A v \in AllWorkers : Logged[v] \in Int
  BY DEF Types, WorkerTypes, Logged
<1> QED  BY <1>1, FiniteWorkers, SumCount DEF InLog

LEMMA LogInvStep == Types /\ Types' /\ SampleInv /\ LogInv /\ [Next]_vars => LogInv'
<1> SUFFICES ASSUME Types, Types', SampleInv, LogInv, [Next]_vars PROVE LogInv'
  OBVIOUS
<1>1. CASE Launch
  <2>1. /\ pc' = "label_skew" /\ ops' = Nothing /\ getArrayIndex' = 0 /\ written' = {}
        /\ \A w \in AllWorkers : wpc'[w] = "running"
    BY <1>1 DEF Launch
  <2>2. \A w \in AllWorkers : Logged'[w] = 0
    BY <2>1 DEF Logged, Nothing
  <2>3. InLog' = 0
    BY <2>2, NothingLogged DEF InLog
  <2> QED  BY <2>1, <2>3 DEF LogInv
<1>2. CASE NextRun
  <2>1. /\ pc = "end" /\ pc' = "prepare" /\ UNCHANGED << config, ops, getArrayIndex, written >>
        /\ \A w \in AllWorkers : wpc'[w] = "new"
    BY <1>2 DEF NextRun
  <2>2. \A w \in AllWorkers : Logged'[w] = Logged[w]
    BY <2>1 DEF Logged, LogInv
  <2> QED  BY <2>1, <2>2, LogStays DEF LogInv, Alive
<1>3. CASE Main /\ ~Launch /\ ~NextRun
  <2>1. /\ UNCHANGED << config, ops, wpc, getArrayIndex, written >>
        /\ Alive' => Alive
        /\ pc' = "end" => pc \in {"results", "join"}
        /\ pc' = "end" /\ config.log => ~(getArrayIndex > MaxEntries)
        /\ pc = "join" /\ pc' = "end" => \A w \in AllWorkers : wpc[w] = "finished"
    BY <1>3 DEF Main, PrepareFails, SampleStart, ReadFlag, ReadOps, ReadTid, Row, LabelSkew,
                LabelGoal, JoinMaster, JoinWorkers, ProcessResults, Finish, workers, Alive
  <2>2. \A w \in AllWorkers : Logged'[w] = Logged[w]
    BY <2>1 DEF Logged
  <2>3. pc' = "end" /\ config.log => getArrayIndex <= MaxEntries
    BY <2>1, ConfigAssumption DEF Types, WorkerTypes
  <2>4. pc' = "end" => \A w \in AllWorkers : wpc'[w] = "finished"
    BY <2>1 DEF SampleInv
  <2> QED  BY <2>1, <2>2, <2>3, <2>4, LogStays DEF LogInv
<1>4. CASE Master \/ UNCHANGED vars
  <2>1. UNCHANGED << config, ops, wpc, getArrayIndex, written, pc >>
    BY <1>4 DEF Master, MasterStart, AdvanceSkew, AdvanceGoal, MasterFinishes, workers, vars
  <2>2. \A w \in AllWorkers : Logged'[w] = Logged[w]
    BY <2>1 DEF Logged
  <2> QED  BY <2>1, <2>2, LogStays DEF LogInv, Alive
<1>5. ASSUME NEW w \in AllWorkers, LogReply(w) PROVE LogInv'
  <2>1. /\ UNCHANGED << config, pc, ops >> /\ wpc[w] = "running"
        /\ wpc' = [wpc EXCEPT ![w] = "logged"]
        /\ config.log => getArrayIndex' = getArrayIndex + 1
                             /\ written' = written \cup {getArrayIndex}
    BY <1>5 DEF LogReply, FetchAdd, Running
  <2>2. /\ \A v \in AllWorkers \ {w} : Logged'[v] = Logged[v]
        /\ Logged'[w] = Logged[w] + 1
    BY <2>1 DEF Logged, Types, WorkerTypes
  <2>3. InLog' = InLog + 1
    BY <2>2, LogGrows
  <2>4. pc # "end"
    BY <2>1 DEF LogInv
  <2>5. getArrayIndex \in Nat
    BY DEF Types, WorkerTypes
  <2>6. (0..(getArrayIndex - 1)) \cup {getArrayIndex} = 0..((getArrayIndex + 1) - 1)
    BY <2>5
  <2>7. config.log /\ Alive => /\ getArrayIndex' = InLog'
                               /\ written' = 0..(getArrayIndex' - 1)
    BY <2>1, <2>3, <2>6 DEF LogInv
  <2> QED  BY <2>1, <2>4, <2>7 DEF LogInv, Alive
<1>6. ASSUME NEW w \in AllWorkers, LogOverflow(w) PROVE LogInv'
  BY <1>6 DEF LogOverflow, LogInv, Alive
<1>7. ASSUME NEW w \in AllWorkers,
             Send(w) \/ CountReply(w) \/ End(w) \/ RaiseFlag(w) \/ LoseConnection(w)
      PROVE  LogInv'
  <2>1. /\ UNCHANGED << config, pc, getArrayIndex, written >>
        /\ wpc[w] # "finished"
    BY <1>7 DEF CountReply, End, RaiseFlag, Send, LoseConnection, Running
  <2>2. \A v \in AllWorkers : Logged'[v] = Logged[v]
    BY <1>7 DEF CountReply, End, RaiseFlag, Send, LoseConnection, Running, Logged,
       Types, WorkerTypes
  <2>3. pc # "end"
    BY <2>1 DEF LogInv
  <2> QED  BY <2>1, <2>2, <2>3, LogStays DEF LogInv, Alive
<1> QED  BY <1>1, <1>2, <1>3, <1>4, <1>5, <1>6, <1>7 DEF Next, Main, Worker

\* Whatever the threads do at the same time, a latency log that has been
\* processed has one entry of every reply, no slot was written twice or left out
\* and none lies behind the array.
THEOREM LatencyLog == Spec => []LogComplete
<1>1. Init => LogInv
  <2> SUFFICES ASSUME Init PROVE LogInv
    OBVIOUS
  <2>1. InLog = 0
    <3>1. \A w \in AllWorkers : Logged[w] = 0
      BY DEF Init, Logged, Nothing
    <3> QED  BY <3>1, NothingLogged DEF InLog
  <2> QED  BY <2>1 DEF Init, LogInv
<1>2. Types /\ LogInv => LogComplete
  <2> SUFFICES ASSUME Types, LogInv, pc = "end", config.log
               PROVE  /\ getArrayIndex = AllOps /\ written = 0..(getArrayIndex - 1)
                      /\ written \subseteq 0..(MaxEntries - 1)
    BY DEF LogComplete
  <2>1. \A w \in AllWorkers : Logged[w] = ops[w]
    BY DEF LogInv, Logged, Types, WorkerTypes
  <2>2. InLog = AllOps
    <3>1. DOMAIN ops = AllWorkers
      BY DEF Types, WorkerTypes
    <3>2. SumFunctionOnSet(Logged, AllWorkers) = SumFunctionOnSet(ops, AllWorkers)
      BY <2>1, FiniteWorkers, SumSame
    <3> QED  BY <3>1, <3>2 DEF InLog, AllOps, SumFunction
  <2>3. getArrayIndex = InLog /\ written = 0..(getArrayIndex - 1)
    BY DEF LogInv, Alive
  <2>4. getArrayIndex \in Nat /\ getArrayIndex <= MaxEntries /\ MaxEntries \in Nat
    BY ConfigAssumption DEF LogInv, Types, WorkerTypes
  <2> QED  BY <2>2, <2>3, <2>4
<1> QED  BY <1>1, <1>2, SampleInductive, TypesInductive, LogInvStep, PTL DEF Spec

=============================================================================
