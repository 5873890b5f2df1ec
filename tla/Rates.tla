------------------------------- MODULE Rates --------------------------------
(***************************************************************************)
(* The rates of a schedule: the master writes, interval by interval and    *)
(* thread by thread, the rate a client has if it is on that thread of the  *)
(* server; a client takes over the rate of the thread it believes it is on *)
(* whenever it has sent a request. It composes the placement of the        *)
(* clients, SkewPlacement, with the master and the generators.             *)
(*                                                                         *)
(* A skew is a percentage; a rate is counted in 1/Unit requests a second.  *)
(* The master runs in every run, but the first one deletes the schedule: a *)
(* later master reads freed memory and writes whatever it finds there. The *)
(* clients of those runs send nothing, since master_finished stays set.    *)
(***************************************************************************)
EXTENDS SkewPlacement, Functions

CONSTANTS
    intervals,  \* the schedule: goals and skew factors
    Garbage     \* rates computed from the deleted schedule

ASSUME IntervalsAssumption ==
    /\ ServerThreads > 1
    /\ intervals \in Seq([goal : Nat, skew : 0..100]) /\ intervals # << >>
    /\ Garbage \subseteq Nat

VARIABLES
    currentInterval,  \* start_master's, from 1
    written,          \* how many elements of qpsPerClient it has written for it
    master_finished,
    qpsPerClient,     \* the rate of a client on every thread
    lambda,           \* the rate of each client's generator
    nextCycleTime     \* when its next request is due: "soon", or in a "day"

master == << currentInterval, written, master_finished, qpsPerClient >>
generators == << lambda, nextCycleTime >>
pacedVars == << vars, master, generators >>

Unit == 100 * Clients * (ServerThreads - 1)

-----------------------------------------------------------------------------
(* The rates.                                                              *)

\* The share of a thread's clients is not divided among them.
RateOfThread(interval, thread) ==
    IF thread = 0
    THEN interval.goal * interval.skew * (ServerThreads - 1) * Clients
    ELSE interval.goal * (100 - interval.skew) * Clients

\* The skewed share of the goal for a client on thread 0, the rest for the others.
Rate(interval, thread) ==
    IF thread = 0
    THEN interval.goal * interval.skew * ServerThreads * (ServerThreads - 1)
    ELSE interval.goal * (100 - interval.skew) * ServerThreads

\* generate(): a rate of 0 means a day.
Generate(rate) == IF rate = 0 THEN "day" ELSE "soon"

\* parse_config_file sets the rates of the first interval.
PacedInit ==
    /\ Init
    /\ currentInterval = 1 /\ written = ServerThreads /\ master_finished = FALSE
    /\ qpsPerClient = [t \in Threads |-> Rate(intervals[1], t)]
    /\ lambda = << >> /\ nextCycleTime = << >>

-----------------------------------------------------------------------------
(* prepare and the runs.                                                   *)

Place ==
    /\ Prepare \/ PileUp \/ PiledUp \/ Abort
    /\ UNCHANGED << master, generators >>

\* The generator gets the rate of the thread; the first request is drawn at once.
ConnectPaced ==
    /\ Connect
    /\ lambda' = Append(lambda, qpsPerClient[Tid])
    /\ nextCycleTime' = Append(nextCycleTime, Generate(qpsPerClient[Tid]))
    /\ UNCHANGED master

AllConnected == pc = "idle" /\ Len(serverTid) = Clients

\* A reconnection keeps the generator.
ReconnectPaced(c) == Reconnect(c) /\ UNCHANGED << master, generators >>

\* The master has been joined; the next one goes through the intervals again.
NextRunPaced ==
    /\ master_finished
    /\ written = ServerThreads /\ currentInterval = Len(intervals)
    /\ NextRun
    /\ currentInterval' = 1
    /\ lambda' = << >> /\ nextCycleTime' = << >>
    /\ UNCHANGED << written, master_finished, qpsPerClient >>

-----------------------------------------------------------------------------
(* start_master.                                                           *)

AdvanceInterval ==
    /\ AllConnected
    /\ written = ServerThreads /\ currentInterval < Len(intervals)
    /\ currentInterval' = currentInterval + 1
    /\ written' = 0
    /\ UNCHANGED << vars, master_finished, qpsPerClient, generators >>

\* join_master() of the first run has deleted the intervals.
RatesToWrite == IF run = 1 THEN {Rate(intervals[currentInterval], written)} ELSE Garbage

WriteRate ==
    /\ written < ServerThreads
    /\ \E rate \in RatesToWrite : qpsPerClient' = [qpsPerClient EXCEPT ![written] = rate]
    /\ written' = written + 1
    /\ UNCHANGED << vars, currentInterval, master_finished, generators >>

MasterFinishes ==
    /\ AllConnected /\ ~master_finished
    /\ written = ServerThreads /\ currentInterval = Len(intervals)
    /\ master_finished' = TRUE
    /\ UNCHANGED << vars, currentInterval, written, qpsPerClient, generators >>

-----------------------------------------------------------------------------
(* The end of a turn of fill_pipeline.                                     *)

\* The generator keeps the rate it was made with.
SetLambdaNever(c) == UNCHANGED generators

\* set_lambda; a rate that has changed draws the next request anew.
SetLambda(c) ==
    LET rate == qpsPerClient[serverTid[c]]
    IN  /\ lambda' = [lambda EXCEPT ![c] = rate]
        /\ nextCycleTime' = [nextCycleTime EXCEPT ![c] = Generate(rate)]

\* A request that is due is sent. One that is due in a day is not in this test.
Send(c) ==
    /\ AllConnected /\ ~master_finished
    /\ nextCycleTime[c] = "soon"
    /\ SetLambda(c)
    /\ UNCHANGED << vars, master >>

-----------------------------------------------------------------------------

PacedNext ==
    \/ Place \/ ConnectPaced \/ NextRunPaced
    \/ \E c \in 1..Len(thread_of) : ReconnectPaced(c) \/ Send(c)
    \/ AdvanceInterval \/ WriteRate \/ MasterFinishes

PacedSpec == PacedInit /\ [][PacedNext]_pacedVars

\* The master writes on; a client whose request is due sends it; preparing goes
\* on as SkewPlacement says. How long the last interval lasts is left open.
PacedFairSpec ==
    /\ PacedSpec
    /\ WF_pacedVars((Place /\ pc' # "exited") \/ ConnectPaced)
    /\ WF_pacedVars(WriteRate)
    /\ \A c \in 1..Clients : WF_pacedVars(c \in DOMAIN nextCycleTime /\ Send(c))

-----------------------------------------------------------------------------
(* Properties                                                              *)

\* What the clients on a thread of the server offer together.
Load(thread) ==
    SumFunctionOnSet(lambda, { c \in DOMAIN lambda : thread_of[c] = thread })

\* Clients of a complete batch on a thread: the pile-up, then one each. Nothing
\* keeps the skew level below the number of threads.
PerBatch(thread) ==
    IF thread = 0
    THEN IF SkewLevel < ServerThreads THEN SkewLevel ELSE ServerThreads
    ELSE IF thread <= ServerThreads - SkewLevel THEN 1 ELSE 0

Settled == AllConnected /\ \A c \in DOMAIN lambda : lambda[c] = qpsPerClient[serverTid[c]]

\* In the first run, what the master has written is the rate of the current
\* interval, what it has not come to yet that of the interval before: its loop over
\* the threads is never behind by more than one interval.
Written(thread) == IF thread < written THEN currentInterval ELSE currentInterval - 1

RatesWritten ==
    run = 1 => qpsPerClient = [t \in Threads |-> Rate(intervals[Written(t)], t)]

\* In the first run a client sends at the rate that the current interval or an
\* earlier one has for the thread of the server the client believes it is on.
RateInForce ==
    run = 1 => \A c \in DOMAIN lambda :
        \E i \in 1..currentInterval : lambda[c] = Rate(intervals[i], serverTid[c])

\* In the first run, with complete batches and until a client reconnects: once the
\* clients have the rates of an interval, thread 0 gets the skewed share of its goal
\* and every other thread an equal share of the rest, times the clients piled up there.
LoadAsScheduled ==
    run = 1 /\ Settled /\ written = ServerThreads /\ reconnects = 0 /\ Clients % ServerThreads = 0 =>
        LET interval == intervals[currentInterval]
            total    == interval.goal * Unit
        IN  \A t \in Threads :
              Load(t) * 100 * (ServerThreads - 1) = PerBatch(t) * total *
                  (IF t = 0 THEN interval.skew * (ServerThreads - 1) ELSE 100 - interval.skew)

\* Every client takes over the rate of the last interval while it lasts. A client
\* that was given the rate 0 before does not: its next request is a day away.
LastRateWritten == AllConnected /\ currentInterval = Len(intervals) /\ written = ServerThreads

AtRateOrAsleep(c) ==
    /\ c \in DOMAIN lambda
    /\ lambda[c] = qpsPerClient[serverTid[c]] \/ nextCycleTime[c] = "day"

RatesAdopted ==
    \A c \in 1..Clients : LastRateWritten ~> master_finished \/ AtRateOrAsleep(c)

=============================================================================
