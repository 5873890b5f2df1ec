---------------------------- MODULE SkewPlacement ----------------------------
(***************************************************************************)
(* client::prepare: which thread of the server every client ends up on.    *)
(*                                                                         *)
(* The server hands new connections to its threads in turn. A client opens *)
(* connections it does not want until the next one goes to thread 0, so    *)
(* that the first SkewLevel clients of every batch of ServerThreads pile   *)
(* up there. What it has counted tells it the thread it is on (serverTid), *)
(* which selects its request rate and the column its load is logged in.    *)
(*                                                                         *)
(* Clients are prepared one after the other, under one mutex; a run of the *)
(* benchmark prepares Clients of them, the counters are static and last    *)
(* for all the runs.                                                       *)
(***************************************************************************)
EXTENDS Integers, Sequences

CONSTANTS
    ServerThreads,   \* config->server_threads
    SkewLevel,       \* config->skew_level
    Clients,         \* config->threads * config->clients
    Runs,            \* config->run_count
    Reconnects       \* bound of the model: reconnections during all the runs

ASSUME ConfigAssumption ==
    /\ ServerThreads \in Nat \ {0} /\ SkewLevel \in Nat \ {0}
    /\ Clients \in Nat \ {0} /\ Runs \in Nat \ {0}
    /\ Reconnects \in Nat

VARIABLES
    skew_count, total_conns, real_conns,   \* statics of client
    last_thread,  \* the server's turn: where its next connection goes
    serverTid,    \* serverTid of each client of this run, in order
    thread_of,    \* the thread of the server each of them is really on
    history,      \* of every client of every run: the thread it was put on, and
                  \* the reconnections there had been by then
    run, reconnects,
    pc

statics == << skew_count, total_conns, real_conns >>
clients == << serverTid, thread_of, history >>

vars == << statics, last_thread, clients, run, reconnects, pc >>

Threads == 0..(ServerThreads - 1)

Init ==
    /\ skew_count = 0 /\ total_conns = 0 /\ real_conns = 0
    /\ last_thread = 0
    /\ serverTid = << >> /\ thread_of = << >> /\ history = << >>
    /\ run = 1 /\ reconnects = 0
    /\ pc = "idle"

-----------------------------------------------------------------------------

\* The server accepts a connection.
Accept == last_thread' = (last_thread + 1) % ServerThreads

\* prepare() of the next client. It takes the mutex and keeps it to its end.
Prepare ==
    /\ pc = "idle" /\ Len(serverTid) < Clients
    /\ pc' = IF skew_count < SkewLevel THEN "pile" ELSE "real"
    /\ UNCHANGED << statics, last_thread, clients, run, reconnects >>

\* The unwanted connection is not counted.
PileUpUncounted ==
    /\ pc = "pile" /\ total_conns % ServerThreads # 0
    /\ Accept
    /\ UNCHANGED << statics, clients, run, reconnects, pc >>

\* A connection that is dropped at once, to move the server's turn on. One
\* that cannot be made is tried again, uncounted.
PileUp ==
    /\ pc = "pile" /\ total_conns % ServerThreads # 0
    /\ Accept
    /\ total_conns' = total_conns + 1
    /\ UNCHANGED << skew_count, real_conns, clients, run, reconnects, pc >>

PiledUp ==
    /\ pc = "pile" /\ total_conns % ServerThreads = 0
    /\ skew_count' = skew_count + 1
    /\ pc' = "real"
    /\ UNCHANGED << total_conns, real_conns, last_thread, clients, run, reconnects >>

\* The unwanted connections count as clients of the batch.
ResetOnTotal == IF (total_conns + 1) % ServerThreads = 0 THEN 0 ELSE skew_count

\* "Reset the skewed counter for the next batch".
SkewAfter == IF (real_conns + 1) % ServerThreads = 0 THEN 0 ELSE skew_count

Tid == total_conns % ServerThreads

\* The connection the client keeps.
Connect ==
    /\ pc = "real"
    /\ Accept
    /\ serverTid' = Append(serverTid, Tid)
    /\ history' = Append(history, [thread |-> last_thread, moved |-> reconnects])
    /\ thread_of' = Append(thread_of, last_thread)
    /\ real_conns' = real_conns + 1
    /\ total_conns' = total_conns + 1
    /\ skew_count' = SkewAfter
    /\ pc' = "idle"
    /\ UNCHANGED << run, reconnects >>

\* connect() fails, or gurantee_sockfd_dispatch gets no answer: the program
\* exits, from the connections of the pile-up too.
Abort ==
    /\ pc \in {"pile", "real"}
    /\ pc = "pile" => total_conns % ServerThreads # 0
    /\ pc' = "exited"
    /\ UNCHANGED << statics, last_thread, clients, run, reconnects >>

\* A client of the running test reconnects (reconnect_interval): the server
\* takes its turn, the client's counters do not hear of it.
Reconnect(c) ==
    /\ pc = "idle" /\ Len(serverTid) = Clients
    /\ reconnects < Reconnects
    /\ Accept
    /\ thread_of' = [thread_of EXCEPT ![c] = last_thread]
    /\ reconnects' = reconnects + 1
    /\ UNCHANGED << statics, serverTid, history, run, pc >>

\* A run that starts counting from nothing.
NextRunFresh ==
    /\ pc = "idle" /\ Len(serverTid) = Clients
    /\ run < Runs
    /\ run' = run + 1
    /\ serverTid' = << >> /\ thread_of' = << >>
    /\ skew_count' = 0 /\ total_conns' = 0 /\ real_conns' = 0
    /\ UNCHANGED << last_thread, history, reconnects, pc >>

\* The run is over, its clients are deleted, the next one prepares its own.
NextRun ==
    /\ pc = "idle" /\ Len(serverTid) = Clients
    /\ run < Runs
    /\ run' = run + 1
    /\ serverTid' = << >> /\ thread_of' = << >>
    /\ UNCHANGED << statics, last_thread, history, reconnects, pc >>

Next ==
    \/ Prepare \/ PileUp \/ PiledUp \/ Connect \/ Abort
    \/ \E c \in 1..Len(thread_of) : Reconnect(c)
    \/ NextRun

Spec == Init /\ [][Next]_vars

-----------------------------------------------------------------------------
(* Properties                                                              *)

TypeOK ==
    /\ skew_count \in 0..SkewLevel
    /\ total_conns \in Nat /\ real_conns \in Nat
    /\ last_thread \in Threads
    /\ serverTid \in Seq(Threads) /\ thread_of \in Seq(Threads)
    /\ history \in Seq([thread : Threads, moved : 0..Reconnects])
    /\ run \in 1..Runs /\ reconnects \in 0..Reconnects
    /\ pc \in {"idle", "pile", "real", "exited"}

\* The "server thread id it connected to" (shard_connection.h:125) is the
\* thread the server put the client on, through every batch and run.
ServerTidTrue == serverTid = thread_of

\* It is, in every batch of every run, until the first reconnection.
TrueUntilReconnect == reconnects = 0 => ServerTidTrue

\* Where client i of all the runs is meant to go: of every batch of ServerThreads
\* clients the first SkewLevel to thread 0, the others to threads 1, 2, ... one each.
PileThread(i) ==
    LET place == (i - 1) % ServerThreads
    IN  IF place < SkewLevel THEN 0 ELSE (place - SkewLevel) + 1

\* "How many clients pileup on memcached's 1st thread"
\* (memtier_benchmark.cpp:998): the server puts every client of every run on the
\* thread it is meant for, moved on by one thread for each reconnection there has
\* been. So it is the first thread they pile up on until a client reconnects; the
\* runs after that pile their clients up on the threads that follow.
PileUpExact ==
    \A i \in 1..Len(history) :
        history[i].thread = (PileThread(i) + history[i].moved) % ServerThreads

\* Preparing ends: every client of the run is connected, or the program exits. A
\* server that refuses for ever would keep prepare, and the mutex it holds, in its
\* loop; the fairness assumed excludes it.
AllPrepared == <>(pc = "exited" \/ Len(serverTid) = Clients)

=============================================================================
