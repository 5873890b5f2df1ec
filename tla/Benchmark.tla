------------------------------ MODULE Benchmark ------------------------------
(***************************************************************************)
(* The life of a benchmark: main() and its runs (run_benchmark), the       *)
(* worker threads (cg_thread), the master thread that plays the schedule   *)
(* of request rates, and the main thread that meanwhile samples counters   *)
(* nobody locks.                                                           *)
(*                                                                         *)
(* pc, wpc and mpc are the places the three kinds of threads have reached; *)
(* a step is as much as a thread does between two accesses to something    *)
(* shared. A worker stands for a group with one client, a reply for a GET. *)
(* The schedule's k-th interval is its number k; rates and times are left  *)
(* out; what is sampled is the number of replies, and a total is kept as   *)
(* the parts it was added up from, one of every worker.                    *)
(***************************************************************************)
EXTENDS Integers, Functions

CONSTANTS
    Configs,      \* the configurations the program may be started with
    Workers,      \* config->threads
    MaxEntries,   \* MAX_ENTRIES of the latency log
    MaxOps,       \* bound of the model: requests a worker sends in a run
    MaxSamples    \* bound of the model: samples while a worker runs

\* A configuration: intervals of the schedule (0: no config_file), run_count,
\* requests per client (used without a schedule), and whether latencies are
\* logged (log_latency_file).
ASSUME ConfigAssumption ==
    /\ Configs \subseteq [intervals: Nat, runs: Nat \ {0}, requests: Nat \ {0},
                          log: BOOLEAN]
    /\ Workers \in Nat \ {0} /\ MaxEntries \in Nat \ {0}
    /\ MaxOps \in Nat /\ MaxSamples \in Nat
    /\ \A c \in Configs : c.requests <= MaxOps

VARIABLES
    config, run, pc,
    wpc, asked, ops,           \* the workers, requests sent, replies counted
    lost,                      \* history: workers whose connection was lost
    getArrayIndex, written,    \* the latency log: next slot, slots written
    mpc, interval, intervals,  \* the master, currentInterval, their memory
    master_finished,
    skew_at, goal_at,          \* intervals currentSkew and currGoalQPS are of
    active_threads, total_ops, at,  \* one turn of the sampling loop: the threads
                                    \* found running, and the one it is at
    totalOpsPerTid, prevOpsPerTid, logged,  \* and its row of the QPS log
    prevSkew, prevGoal,        \* the label of its next row
    samples,
    row, window                \* history: last row's label; since when

workers  == << wpc, asked, ops, lost, getArrayIndex, written >>
schedule == << mpc, interval, intervals, master_finished, skew_at, goal_at >>
totals   == << active_threads, total_ops, at, samples, totalOpsPerTid >>
qpsLog   == << prevOpsPerTid, logged, prevSkew, prevGoal, row, window >>

vars == << config, run, pc, workers, schedule, totals, qpsLog >>

Scheduled == config.intervals > 0
AllWorkers == 1..Workers
AllOps == SumFunction(ops)
Nothing == [w \in AllWorkers |-> 0]

\* What the schedule says now.
Now == [skew |-> skew_at, goal |-> goal_at]

-----------------------------------------------------------------------------

\* main() up to its first run: the configuration has been parsed and the first
\* interval is in force; without a schedule the master counts as finished.
Init ==
    /\ config \in Configs
    /\ run = 1 /\ pc = "prepare"
    /\ wpc = [w \in AllWorkers |-> "new"]
    /\ asked = Nothing /\ ops = Nothing /\ lost = {}
    /\ getArrayIndex = 0 /\ written = {}
    /\ mpc = "none" /\ interval = 0
    /\ intervals = IF Scheduled THEN "allocated" ELSE "none"
    /\ master_finished = ~Scheduled
    /\ skew_at = 1 /\ goal_at = 1
    /\ active_threads = {} /\ total_ops = Nothing /\ at = 1
    /\ totalOpsPerTid = Nothing /\ prevOpsPerTid = Nothing /\ logged = Nothing
    /\ prevSkew = 1 /\ prevGoal = 1
    /\ samples = 0
    /\ row = Now /\ window = [from |-> Now, to |-> Now]

\* A client fails to connect: exit(1).
PrepareFails ==
    /\ pc = "prepare"
    /\ pc' = "exited"
    /\ UNCHANGED << config, run, workers, schedule, totals, qpsLog >>

\* Latency log and threads are set up and everybody starts. The labels of the
\* first row are read when the others are already running.
Launch ==
    /\ pc = "prepare"
    /\ wpc' = [w \in AllWorkers |-> "running"]
    /\ asked' = Nothing /\ ops' = Nothing /\ lost' = {}
    /\ getArrayIndex' = 0 /\ written' = {}
    /\ mpc' = IF Scheduled THEN "start" ELSE "none"
    /\ prevOpsPerTid' = Nothing /\ logged' = Nothing
    /\ samples' = 0
    /\ window' = [from |-> Now, to |-> Now]
    /\ pc' = "label_skew"
    /\ UNCHANGED << config, run, interval, intervals, master_finished, skew_at,
                    goal_at, active_threads, total_ops, at,
                    totalOpsPerTid, prevSkew, prevGoal, row >>

-----------------------------------------------------------------------------
(* The sampling loop of the main thread                                    *)

\* A second has passed. The bound of the model reads as threads that finish
\* before the next sample.
SampleStart ==
    /\ pc = "sleep"
    /\ samples < MaxSamples \/ \A w \in AllWorkers : wpc[w] = "finished"
    /\ samples' = samples + 1
    /\ active_threads' = {} /\ total_ops' = Nothing /\ totalOpsPerTid' = Nothing
    /\ at' = 1
    /\ window' = [from |-> window.to, to |-> Now]
    /\ pc' = "flag"
    /\ UNCHANGED << config, run, workers, schedule, prevOpsPerTid, logged,
                    prevSkew, prevGoal, row >>

ReadFlag ==
    /\ pc = "flag"
    /\ active_threads' = IF wpc[at] = "finished" THEN active_threads
                         ELSE active_threads \cup {at}
    /\ pc' = "ops"
    /\ UNCHANGED << config, run, workers, schedule, total_ops, at, samples,
                    totalOpsPerTid, qpsLog >>

ReadOps ==
    /\ pc = "ops"
    /\ total_ops' = [total_ops EXCEPT ![at] = ops[at]]
    /\ pc' = "tid"
    /\ UNCHANGED << config, run, workers, schedule, active_threads, at,
                    samples, totalOpsPerTid, qpsLog >>

\* The counters are read a second time, for the rows of the server threads.
ReadTid ==
    /\ pc = "tid"
    /\ totalOpsPerTid' = [totalOpsPerTid EXCEPT ![at] = ops[at]]
    /\ at' = at + 1
    /\ pc' = IF at = Workers THEN "row" ELSE "flag"
    /\ UNCHANGED << config, run, workers, schedule, active_threads, total_ops,
                    samples, qpsLog >>

\* The label is brought up to date before its row is written.
RowRelabelled ==
    /\ pc = "row"
    /\ row' = Now
    /\ logged' = [w \in AllWorkers |->
                    logged[w] + (totalOpsPerTid[w] - prevOpsPerTid[w])]
    /\ prevOpsPerTid' = totalOpsPerTid
    /\ pc' = "label_skew"
    /\ UNCHANGED << config, run, workers, schedule, totals, prevSkew, prevGoal,
                    window >>

\* "because we are logging for the last duration we must update later"
Row ==
    /\ pc = "row"
    /\ row' = [skew |-> prevSkew, goal |-> prevGoal]
    /\ logged' = [w \in AllWorkers |->
                    logged[w] + (totalOpsPerTid[w] - prevOpsPerTid[w])]
    /\ prevOpsPerTid' = totalOpsPerTid
    /\ pc' = "label_skew"
    /\ UNCHANGED << config, run, workers, schedule, totals, prevSkew, prevGoal,
                    window >>

LabelSkew ==
    /\ pc = "label_skew"
    /\ prevSkew' = skew_at
    /\ pc' = "label_goal"
    /\ UNCHANGED << config, run, workers, schedule, totals, prevOpsPerTid,
                    logged, prevGoal, row, window >>

\* The loop ends as soon as any thread has.
LoopEndsAtFirst == samples > 0 /\ active_threads # AllWorkers

LoopEnds == samples > 0 /\ active_threads = {}

LabelGoal ==
    /\ pc = "label_goal"
    /\ prevGoal' = goal_at
    /\ pc' = IF ~LoopEnds THEN "sleep"
             ELSE IF Scheduled THEN "join_master" ELSE "join"
    /\ UNCHANGED << config, run, workers, schedule, totals, prevOpsPerTid,
                    logged, prevSkew, row, window >>

-----------------------------------------------------------------------------
(* The end of a run                                                        *)

\* join_master() deletes the intervals, for good. To delete them again is
\* undefined: the process goes on or is aborted.
JoinMaster ==
    /\ pc = "join_master" /\ mpc = "done"
    /\ intervals' = "deleted"
    /\ pc' \in IF intervals = "deleted" THEN {"join", "aborted"} ELSE {"join"}
    /\ UNCHANGED << config, run, workers, mpc, interval, master_finished,
                    skew_at, goal_at, totals, qpsLog >>

JoinWorkers ==
    /\ pc = "join" /\ \A w \in AllWorkers : wpc[w] = "finished"
    /\ pc' = IF config.log THEN "results" ELSE "end"
    /\ UNCHANGED << config, run, workers, schedule, totals, qpsLog >>

\* process_results() aborts when the log has overflowed.
ProcessResults ==
    /\ pc = "results"
    /\ pc' = IF getArrayIndex > MaxEntries THEN "aborted" ELSE "end"
    /\ UNCHANGED << config, run, workers, schedule, totals, qpsLog >>

NextRun ==
    /\ pc = "end" /\ run < config.runs
    /\ run' = run + 1
    /\ wpc' = [w \in AllWorkers |-> "new"]
    /\ pc' = "prepare"
    /\ UNCHANGED << config, asked, ops, lost, getArrayIndex, written, schedule,
                    totals, qpsLog >>

Finish ==
    /\ pc = "end" /\ run = config.runs
    /\ pc' = "done"
    /\ UNCHANGED << config, run, workers, schedule, totals, qpsLog >>

-----------------------------------------------------------------------------
(* A worker thread                                                         *)

Alive == pc \notin {"exited", "aborted", "done"}

LogFull == getArrayIndex > MaxEntries

\* Another thread's increment may be lost.
FetchThenAdd == getArrayIndex' \in {getArrayIndex, getArrayIndex + 1}

FetchAdd == getArrayIndex' = getArrayIndex + 1

\* A number of requests ends a client that follows a schedule.
finishedByRequests(w) == master_finished \/ ops[w] >= config.requests

\* client::finished(), asked before every request and after every callback.
finished(w) == master_finished /\ (Scheduled \/ ops[w] >= config.requests)

Running(w) == Alive /\ wpc[w] = "running"

\* A turn of the loop of fill_pipeline().
Send(w) ==
    /\ Running(w) /\ ~finished(w) /\ asked[w] < MaxOps
    /\ asked' = [asked EXCEPT ![w] = @ + 1]
    /\ UNCHANGED << config, run, pc, wpc, ops, lost, getArrayIndex, written,
                    schedule, totals, qpsLog >>

\* update_get_op() logs the latency of a reply.
LogReply(w) ==
    /\ Running(w) /\ ops[w] < asked[w]
    /\ ~(config.log /\ LogFull)
    /\ IF config.log THEN FetchAdd /\ written' = written \cup {getArrayIndex}
                     ELSE UNCHANGED << getArrayIndex, written >>
    /\ wpc' = [wpc EXCEPT ![w] = "logged"]
    /\ UNCHANGED << config, run, pc, asked, ops, lost, schedule, totals, qpsLog >>

\* "Death by getArrayIndex out of bounds": the process exits.
LogOverflow(w) ==
    /\ Running(w) /\ ops[w] < asked[w]
    /\ config.log /\ LogFull
    /\ getArrayIndex' = getArrayIndex + 1
    /\ pc' = "exited"
    /\ UNCHANGED << config, run, wpc, asked, ops, lost, written, schedule, totals,
                    qpsLog >>

CountReply(w) ==
    /\ Alive /\ wpc[w] = "logged"
    /\ ops' = [ops EXCEPT ![w] = @ + 1]
    /\ wpc' = [wpc EXCEPT ![w] = "running"]
    /\ UNCHANGED << config, run, pc, asked, lost, getArrayIndex, written, schedule,
                    totals, qpsLog >>

\* The end of a callback, whatever it was for: a client that has finished does
\* not register its event again, and the loop of its base runs empty.
End(w) ==
    /\ Running(w) /\ finished(w)
    /\ wpc' = [wpc EXCEPT ![w] = "returned"]
    /\ UNCHANGED << config, run, pc, asked, ops, lost, getArrayIndex, written,
                    schedule, totals, qpsLog >>

\* A connection refused, dropped or closed after an error deletes its event: the
\* loop runs empty too.
LoseConnection(w) ==
    /\ Running(w)
    /\ wpc' = [wpc EXCEPT ![w] = "returned"]
    /\ lost' = lost \cup {w}
    /\ UNCHANGED << config, run, pc, asked, ops, getArrayIndex, written, schedule,
                    totals, qpsLog >>

RaiseFlag(w) ==
    /\ Alive /\ wpc[w] = "returned"
    /\ wpc' = [wpc EXCEPT ![w] = "finished"]
    /\ UNCHANGED << config, run, pc, asked, ops, lost, getArrayIndex, written, schedule,
                    totals, qpsLog >>

-----------------------------------------------------------------------------
(* The master thread                                                       *)

MasterStart ==
    /\ Alive /\ mpc = "start"
    /\ interval' = 1
    /\ mpc' = "play"
    /\ UNCHANGED << config, run, pc, workers, intervals, master_finished,
                    skew_at, goal_at, totals, qpsLog >>

LastInterval == interval = config.intervals

\* The skew of the next interval comes into force, then its goal.
AdvanceSkew ==
    /\ Alive /\ mpc = "play" /\ ~LastInterval
    /\ interval' = interval + 1
    /\ skew_at' = interval + 1
    /\ mpc' = "goal"
    /\ UNCHANGED << config, run, pc, workers, intervals, master_finished,
                    goal_at, totals, qpsLog >>

AdvanceGoal ==
    /\ Alive /\ mpc = "goal"
    /\ goal_at' = interval
    /\ mpc' = "play"
    /\ UNCHANGED << config, run, pc, workers, interval, intervals,
                    master_finished, skew_at, totals, qpsLog >>

\* The master returns without a word.
MasterLeaves ==
    /\ Alive /\ mpc = "play" /\ LastInterval
    /\ mpc' = "done"
    /\ UNCHANGED << config, run, pc, workers, interval, intervals,
                    master_finished, skew_at, goal_at, totals, qpsLog >>

MasterFinishes ==
    /\ Alive /\ mpc = "play" /\ LastInterval
    /\ master_finished' = TRUE
    /\ mpc' = "done"
    /\ UNCHANGED << config, run, pc, workers, interval, intervals, skew_at,
                    goal_at, totals, qpsLog >>

-----------------------------------------------------------------------------

Main ==
    \/ PrepareFails \/ Launch
    \/ SampleStart \/ ReadFlag \/ ReadOps \/ ReadTid
    \/ Row \/ LabelSkew \/ LabelGoal
    \/ JoinMaster \/ JoinWorkers \/ ProcessResults \/ NextRun \/ Finish

Worker(w) ==
    \/ Send(w) \/ LogReply(w) \/ LogOverflow(w) \/ CountReply(w)
    \/ End(w) \/ RaiseFlag(w)

Master == MasterStart \/ AdvanceSkew \/ AdvanceGoal \/ MasterFinishes

Next ==
    \/ Main \/ Master
    \/ \E w \in AllWorkers : Worker(w) \/ LoseConnection(w)

Spec == Init /\ [][Next]_vars

\* Threads are scheduled, requests are answered (see ShardConnection for when
\* that is so) and the intervals of a schedule have finite lengths.
FairSpec ==
    /\ Spec /\ WF_vars(Main) /\ WF_vars(Master)
    /\ \A w \in AllWorkers : WF_vars(Worker(w))

-----------------------------------------------------------------------------
(* Properties                                                              *)

Label == [skew: Nat, goal: Nat]

TypeOK ==
    /\ config \in Configs /\ run \in 1..config.runs
    /\ pc \in {"prepare", "sleep", "flag", "ops", "tid", "row", "label_skew",
               "label_goal", "join_master", "join", "results", "end", "done",
               "exited", "aborted"}
    /\ wpc \in [AllWorkers -> {"new", "running", "logged", "returned",
                               "finished"}]
    /\ asked \in [AllWorkers -> Nat] /\ ops \in [AllWorkers -> Nat]
    /\ lost \subseteq AllWorkers
    /\ getArrayIndex \in Nat /\ written \subseteq Nat
    /\ mpc \in {"none", "start", "play", "goal", "done"}
    /\ interval \in 0..config.intervals
    /\ intervals \in {"none", "allocated", "deleted"}
    /\ master_finished \in BOOLEAN
    /\ skew_at \in Nat /\ goal_at \in Nat
    /\ active_threads \subseteq AllWorkers /\ at \in 1..(Workers + 1)
    /\ pc \in {"flag", "ops", "tid"} => at \in AllWorkers
    /\ {total_ops, totalOpsPerTid, prevOpsPerTid, logged}
          \subseteq [AllWorkers -> Nat]
    /\ prevSkew \in Nat /\ prevGoal \in Nat
    /\ samples \in Nat
    /\ row \in Label /\ window \in [from: Label, to: Label]

\* Nobody but a worker that lost its connection ends before the schedule of this
\* run has been played to its end: every run is a full test ("Number of full-test
\* iterations to perform", memtier_benchmark.cpp:927).
SchedulePlayed ==
    Scheduled /\ (\E w \in AllWorkers \ lost : wpc[w] \in {"returned", "finished"})
        => mpc = "done"

\* When the sampling loop ends, its last sample is complete although nothing
\* is locked: "Total responses" and the rows of the QPS log account for
\* every reply of every thread.
TotalsComplete ==
    pc \in {"join_master", "join", "results"} =>
        total_ops = ops /\ logged = ops

\* Skew and goal of a row were both in force at some time of the second the
\* row is about, if not at the same time.
LabelFits ==
    pc = "label_skew" /\ samples > 0 =>
        /\ row.skew \in window.from.skew..window.to.skew
        /\ row.goal \in window.from.goal..window.to.goal

\* A latency log that has been processed holds one entry of every reply, all
\* inside the array. One reply too many is written just behind the array
\* (update_get_op asks for index > MAX_ENTRIES) and is found only here: "Assuming
\* memory corruption", memtier_benchmark.cpp:1287.
LogComplete ==
    pc = "end" /\ config.log =>
        /\ getArrayIndex = AllOps
        /\ written = 0..(getArrayIndex - 1)
        /\ written \subseteq 0..(MaxEntries - 1)

\* The program ends by itself.
RunEnds == <>(~Alive)

=============================================================================
