---------------------------- MODULE Verification ----------------------------
(***************************************************************************)
(* The keys and values the clients write, and the verify_client that       *)
(* afterwards draws them once more from an object generator of its own and *)
(* compares what the server returns. A key is its index or, without        *)
(* generate-keys, the number of an imported item's key; a value is a       *)
(* member of a small set. Clients are numbered from 1, Verifier comes last. *)
(* Tests end by their number of requests: one that ends by time has no end  *)
(* in verify_client::finished.                                              *)
(***************************************************************************)
EXTENDS Integers, Sequences, SequencesExt, FiniteSets, FiniteSetsExt

CONSTANTS
    Configs,        \* the configurations explored
    Word            \* bound of the model: what an unsigned int wraps at

ASSUME VerificationAssumption ==
    /\ Word \in Nat \ {0}
    /\ \A c \in Configs :
          /\ {c.clients, c.runs, c.pipeline} \subseteq Nat \ {0}
          /\ {c.requests, c.wait, c.multi, c.interval, c.garbage} \subseteq Nat
          /\ c.unset \in (SUBSET Nat) \ {{}}
          /\ c.minimum \in Nat /\ c.maximum \in Nat /\ c.minimum <= c.maximum
          /\ {c.set, c.get} \subseteq {"R", "S", "P"}   \* key-pattern
          /\ {c.generate, c.distinct, c.allkeys} \subseteq BOOLEAN
          /\ c.draws \in Seq(Nat) \ {<< >>}
          /\ c.file \in Seq([key : Nat, value : STRING])
          /\ c.ratio \in (Nat \X Nat) \ {<< 0, 0 >>}

VARIABLES
    config,
    phase, run_id,
    next_client_idx,
    store,              \* the server: the value of every key that was written
    clients,
    m_verified_keys, m_errors,
    touched,            \* history: the keys drawn in the runs
    written,            \* history: the SETs sent in the last run
    conflict            \* history: a key was written with another value

main    == << phase, run_id >>
results == << m_verified_keys, m_errors >>
history == << touched, written, conflict >>
vars == << config, main, next_client_idx, store, clients, results, history >>

Writers  == 1..config.clients
Verifier == config.clients + 1

-----------------------------------------------------------------------------
(* object_generator, import_object_generator and imported_keylist.         *)

Import == config.file # << >>

\* A list of the file's keys, unless keys are generated.
HasKeylist == Import /\ ~config.generate

\* The requests asked for or those of 'allkeys'; without any, the default.
Requests ==
    LET range == config.maximum - config.minimum
        asked == IF ~config.allkeys THEN config.requests
                 ELSE IF config.set = "P" /\ config.get = "P"
                      THEN range \div config.clients + 1 ELSE range
    IN  IF asked = 0 THEN 10000 ELSE asked

\* The width of a client's share of the keys.
ShareCutOff == (config.maximum - config.minimum) \div config.clients

Share == (config.maximum - config.minimum) \div config.clients + 1

\* Whoever comes last gets a share like all the others.
KeyRangeEven(idx) ==
    IF config.set = "P"
    THEN << config.minimum + Share * idx, config.minimum + Share * (idx + 1) >>
    ELSE IF HasKeylist THEN << 1, Len(config.file) >>
    ELSE << config.minimum, config.maximum >>

\* The share of a client's own, or all keys. The last client takes the leftover.
KeyRange(idx) ==
    IF config.set = "P"
    THEN << config.minimum + Share * idx,
            IF idx = config.clients - 1 THEN config.maximum
            ELSE config.minimum + Share * (idx + 1) >>
    ELSE IF HasKeylist THEN << 1, Len(config.file) >>
    ELSE << config.minimum, config.maximum >>

\* A client with the clone of the generator that setup_client makes for it. No
\* constructor sets m_reqs_generated.
Client(idx, garbage) ==
    [min |-> KeyRange(idx)[1], max |-> KeyRange(idx)[2], next |-> 0,
     seed |-> IF config.distinct THEN idx ELSE 0, drawn |-> 0, line |-> 1,
     set_count |-> 0, get_count |-> 0, sets |-> 0, waits |-> 0,
     unset |-> garbage, generated |-> garbage, processed |-> 0, queue |-> << >>, pc |-> "idle"]

\* The number a generator draws next.
Random(c) == config.draws[((c.seed + c.drawn) % Len(config.draws)) + 1]

KeyIndex(c, pattern) ==
    IF pattern = "R" THEN c.min + (Random(c) % (c.max - c.min + 1))
    ELSE Max({c.next, c.min})

\* Both patterns share one iterator.
AfterKey(c, pattern) ==
    LET k == KeyIndex(c, pattern)
    IN  IF pattern = "R" THEN [c EXCEPT !.drawn = @ + 1]
        ELSE [c EXCEPT !.next = IF k + 1 > c.max THEN c.min ELSE k + 1]

\* read_item: behind the last item the file is opened again.
Line(c) == IF c.line > Len(config.file) THEN 1 ELSE c.line

NoKey == -1

\* get_key.
GetKey(c) ==
    LET k == KeyIndex(c, config.get)
    IN  IF ~HasKeylist THEN k
        ELSE IF k \in DOMAIN config.file THEN config.file[k].key ELSE NoKey

\* A GET asks for one key, or with multi-key-get for as many as the ratio leaves.
keys_count(c) ==
    IF config.multi = 0 THEN 1 ELSE Min({config.multi, config.ratio[2] - c.get_count})

\* The client while the keys of one GET are drawn.
Drawing(c) ==
    LET after[n \in 0..keys_count(c)] ==
            IF n = 0 THEN c ELSE AfterKey(after[n - 1], config.get)
    IN  after

AfterKeys(c) == Drawing(c)[keys_count(c)]
GetKeys(c)   == { GetKey(Drawing(c)[n]) : n \in 0..(keys_count(c) - 1) }

\* get_object.

SetKey(c) == IF HasKeylist THEN config.file[Line(c)].key ELSE KeyIndex(c, config.set)

SetValue(c) == IF Import THEN config.file[Line(c)].value ELSE "x"

AfterObject(c) ==
    LET read == IF Import THEN [c EXCEPT !.line = Line(c) + 1] ELSE c
    IN  IF HasKeylist THEN read ELSE AfterKey(read, config.set)

-----------------------------------------------------------------------------
(* One turn of fill_pipeline: client::create_request and that of           *)
(* verify_client.                                                          *)

Overlap(c) ==
    IF c.set_count = config.ratio[1] /\ c.get_count = config.ratio[2]
    THEN [c EXCEPT !.set_count = 0, !.get_count = 0] ELSE c

WaitDue(c) == config.wait # 0 /\ (c.waits # 0 => c.sets \div c.waits > config.wait)
SetDue(c)  == c.set_count < config.ratio[1]
GetDue(c)  == ~SetDue(c) /\ c.get_count < config.ratio[2]

Push(c, type, key, value) ==
    [c EXCEPT !.queue = Append(@, [type |-> type, key |-> key, value |-> value])]

\* The number of replicas of a WAIT is drawn from the generator.
Wait(c) == [Push(c, "wait", NoKey, "") EXCEPT !.waits = @ + 1, !.drawn = @ + 1]

Set(c) ==
    [Push(AfterObject(c), "set", SetKey(c), SetValue(c)) EXCEPT !.set_count = @ + 1, !.sets = @ + 1]

Get(c) == [Push(AfterKeys(c), "get", NoKey, "") EXCEPT !.get_count = @ + keys_count(c)]

\* The keys of the request.
KeysOf(c) == IF WaitDue(c) THEN {} ELSE IF SetDue(c) THEN {SetKey(c)} ELSE GetKeys(c)

CreateRequest(c) ==
    LET sent == IF WaitDue(c) THEN Wait(c) ELSE IF SetDue(c) THEN Set(c) ELSE Get(c)
    IN  [Overlap(sent) EXCEPT !.generated = @ + 1]

\* A GET that is only drawn is not counted.
GetUncounted(c) == [AfterKeys(c) EXCEPT !.get_count = @ + keys_count(c)]

\* A GET of the run is drawn, to keep the generator in sync, and counted.
SkipGet(c) ==
    [AfterKeys(c) EXCEPT !.get_count = @ + keys_count(c), !.processed = @ + 1]

\* A SET of the run becomes a GET that carries the value to be compared.
VerifySet(c) ==
    [Push(AfterObject(c), "verify", SetKey(c), SetValue(c)) EXCEPT !.set_count = @ + 1]

\* The counters of the ratio are not reset.
VerifyNoReset(c) ==
    IF SetDue(c) THEN VerifySet(c) ELSE IF GetDue(c) THEN SkipGet(c) ELSE c

VerifyRequest(c) ==
    IF SetDue(c) THEN VerifySet(c)
    ELSE IF GetDue(c) THEN SkipGet(c)
    ELSE [c EXCEPT !.set_count = 0, !.get_count = 0]

-----------------------------------------------------------------------------
(* A client: the callbacks of its connection as far as requests go.        *)

finished(c) == Requests > 0 /\ c.processed >= Requests

\* Requests ahead of their replies, as unsigned numbers.
Ahead(c) == (c.generated - c.processed) % Word

hold_pipeline(c) ==
    \/ Requests > 0 /\ c.generated >= Requests
    \/ config.interval > 0
       /\ ((c.processed % config.interval) + Ahead(c)) % Word >= config.interval

Active(i) == i \in DOMAIN clients /\ (i = Verifier <=> phase = "verify")

Step(i, pc, c) ==
    /\ Active(i) /\ clients[i].pc = pc
    /\ clients' = [clients EXCEPT ![i] = c]

Return(c) == [c EXCEPT !.pc = IF finished(c) THEN "ended" ELSE "idle"]

Writable(i) ==
    /\ Step(i, "idle", [clients[i] EXCEPT !.pc = "start"])
    /\ UNCHANGED << config, main, next_client_idx, store, results, history >>

FillStart(i) ==
    /\ Step(i, "start", IF hold_pipeline(clients[i]) THEN Return(clients[i])
                        ELSE [clients[i] EXCEPT !.pc = "fill"])
    /\ UNCHANGED << config, main, next_client_idx, store, results, history >>

MayCreate(c) == ~finished(c) /\ Len(c.queue) < config.pipeline

\* The list has no key for a GET. The verify_client does not look at a single one.
KeyMissing(i) ==
    /\ GetDue(clients[i]) /\ NoKey \in GetKeys(clients[i])
    /\ IF i = Verifier THEN config.multi > 0 ELSE ~WaitDue(clients[i])

\* assert(key != NULL)
AssertFails(i) ==
    /\ Active(i) /\ clients[i].pc = "fill" /\ MayCreate(clients[i])
    /\ KeyMissing(i)
    /\ phase' = "assert_failed"
    /\ UNCHANGED << config, run_id, next_client_idx, store, clients, results, history >>

Write(i) ==
    LET c == clients[i]
        d == CreateRequest(c)
    IN  /\ i # Verifier /\ c.pc = "fill" /\ MayCreate(c)
        /\ WaitDue(c) \/ SetDue(c) \/ GetDue(c)
        /\ ~KeyMissing(i)
        /\ Step(i, "fill", d)
        /\ touched' = touched \cup KeysOf(c)
        /\ written' = written + (IF Last(d.queue).type = "set" THEN 1 ELSE 0)
        /\ UNCHANGED << config, main, next_client_idx, store, results, conflict >>

Verify(i) ==
    /\ i = Verifier /\ clients[i].pc = "fill" /\ MayCreate(clients[i])
    /\ ~KeyMissing(i)
    /\ Step(i, "fill", VerifyRequest(clients[i]))
    /\ UNCHANGED << config, main, next_client_idx, store, results, history >>

FillDone(i) ==
    /\ Step(i, "fill", Return(clients[i]))
    /\ UNCHANGED << config, main, next_client_idx, store, results, history >>

\* The server executes a SET.
Put(request) ==
    /\ store' = [k \in DOMAIN store \cup {request.key} |->
                    IF k = request.key THEN request.value ELSE store[k]]
    /\ conflict' = (conflict \/ (request.key \in DOMAIN store /\ store[request.key] # request.value))

\* The next reply is read; other replies may have come with it.
Reply(i) ==
    /\ Active(i) /\ clients[i].pc \in {"idle", "parse"} /\ clients[i].queue # << >>
    /\ clients' = [clients EXCEPT ![i].queue = Tail(@), ![i].processed = @ + 1, ![i].pc = "parse"]

HandleResponse(i) ==
    /\ Reply(i) /\ i # Verifier
    /\ LET request == Head(clients[i].queue)
       IN  IF request.type = "set" THEN Put(request) ELSE UNCHANGED << store, conflict >>
    /\ UNCHANGED << config, main, next_client_idx, results, touched, written >>

\* verify_client::handle_response: the value must be the expected one.
Compare(i) ==
    /\ Reply(i) /\ i = Verifier
    /\ LET request == Head(clients[i].queue)
           equal   == request.key \in DOMAIN store /\ store[request.key] = request.value
       IN  /\ m_verified_keys' = m_verified_keys + (IF equal THEN 1 ELSE 0)
           /\ m_errors' = m_errors + (IF equal THEN 0 ELSE 1)
    /\ UNCHANGED << config, main, next_client_idx, store, history >>

ParseDone(i) ==
    /\ Step(i, "parse", [clients[i] EXCEPT !.pc = "start"])
    /\ UNCHANGED << config, main, next_client_idx, store, results, history >>

\* What a client has not waited for is executed all the same.
Straggler(i) ==
    /\ i \in DOMAIN clients /\ i # Verifier
    /\ clients[i].pc = "ended" /\ clients[i].queue # << >>
    /\ clients' = [clients EXCEPT ![i].queue = Tail(@)]
    /\ LET request == Head(clients[i].queue)
       IN  IF request.type = "set" THEN Put(request) ELSE UNCHANGED << store, conflict >>
    /\ UNCHANGED << config, main, next_client_idx, results, touched, written >>

-----------------------------------------------------------------------------
(* main: the runs, then the verification.                                  *)

Run(idx, unset) == [i \in Writers |-> Client(idx + i - 1, unset[i])]

\* A run of new clients, whatever they find in m_reqs_generated.
Runs(idx) == { Run(idx, unset) : unset \in [Writers -> config.unset] }

Init ==
    /\ config \in Configs
    /\ phase = "run" /\ run_id = 1
    /\ clients \in Runs(0)
    /\ next_client_idx = config.clients
    /\ store = << >>
    /\ m_verified_keys = 0 /\ m_errors = 0
    /\ touched = {} /\ written = 0 /\ conflict = FALSE

RunOver == phase = "run" /\ \A i \in Writers : clients[i].pc = "ended"

\* The index of the clients goes on from run to run.
NextRun ==
    /\ RunOver /\ run_id < config.runs
    /\ run_id' = run_id + 1
    /\ \A i \in Writers : clients[i].queue = << >>
    /\ clients' \in Runs(next_client_idx)
    /\ next_client_idx' = next_client_idx + config.clients
    /\ written' = 0
    /\ UNCHANGED << config, phase, store, results, touched, conflict >>

\* The members the verify_client leaves unset have the garbage of config.
StartVerify ==
    /\ RunOver /\ run_id = config.runs /\ Import
    /\ phase' = "verify"
    /\ clients' = Append(clients, Client(next_client_idx, config.garbage))
    /\ next_client_idx' = next_client_idx + 1
    /\ UNCHANGED << config, run_id, store, results, history >>

Finish ==
    /\ \/ RunOver /\ run_id = config.runs /\ ~Import
       \/ phase = "verify" /\ clients[Verifier].pc = "ended"
    /\ phase' = "done"
    /\ UNCHANGED << config, run_id, next_client_idx, store, clients, results, history >>

Callback(i) ==
    \/ Writable(i) \/ FillStart(i) \/ AssertFails(i) \/ Write(i) \/ Verify(i)
    \/ HandleResponse(i) \/ Compare(i) \/ ParseDone(i)

Next ==
    \/ \E i \in DOMAIN clients : Callback(i) \/ FillDone(i) \/ Straggler(i)
    \/ NextRun \/ StartVerify \/ Finish

Spec == Init /\ [][Next]_vars

\* The server answers, libevent calls back, and a request is due at last: the
\* loop is left with room in the pipeline only until then.
Fairness ==
    /\ WF_vars(NextRun \/ StartVerify \/ Finish)
    /\ \A i \in 1..(Max({c.clients : c \in Configs}) + 1) :
          /\ WF_vars(i \in DOMAIN clients /\ (Writable(i) \/ FillStart(i) \/ ParseDone(i)))
          /\ WF_vars(i \in DOMAIN clients /\ FillDone(i))
          /\ WF_vars(i \in DOMAIN clients /\ Straggler(i))
          /\ SF_vars(i \in DOMAIN clients /\ (HandleResponse(i) \/ Compare(i)))
          /\ SF_vars(i \in DOMAIN clients /\ (AssertFails(i) \/ Write(i) \/ Verify(i)))

FairSpec == Spec /\ Fairness

-----------------------------------------------------------------------------
(* Properties                                                              *)

\* The keys of the clients lie between key-minimum and key-maximum. Shares that
\* are rounded up lead beyond it only if there are fewer keys than clients squared,
\* and in a second run.
KeysInRange ==
    /\ ~HasKeylist
    /\ config.set = "P" => /\ config.runs = 1
                           /\ config.maximum - config.minimum >= config.clients * (config.clients - 1)
    => touched \subseteq config.minimum..config.maximum

\* 'allkeys' runs on the entire key-range, unless keys are drawn at random or WAITs
\* take the place of keys. Where shares are not what it divides by, the last key
\* may be missed.
AllKeysTouched ==
    /\ config.allkeys /\ phase = "done" /\ ~HasKeylist
    /\ "R" \notin {config.set, config.get} /\ config.wait = 0
    => config.minimum..config.maximum \ touched
            \subseteq IF config.set = "P" /\ config.get = "P" THEN {} ELSE {config.maximum}

\* The verify_client can draw what the clients have drawn.
Comparable ==
    /\ config.wait = 0 /\ config.set # "P"
    /\ config.distinct => "R" \notin {config.set, config.get}

\* Unless clients have written a key with two values, the verification finds no
\* fault with a server that has none; with a pipeline it may ask for keys that
\* come after the last one written.
Verified ==
    phase = "done" /\ Import /\ Comparable /\ ~conflict =>
        /\ m_errors <= config.pipeline - 1
        /\ config.pipeline = 1 => m_verified_keys * config.clients = written

\* The program ends, unless what m_reqs_generated happens to hold keeps a client of
\* the runs from sending as many requests as it is asked for or holds the
\* verification, or the verification reconnects: its requests are not counted as
\* generated. Tests limited by time are left out: their verification has no end.
Ends ==
    (config.unset = {0} /\ config.garbage < Requests /\ (Import => config.interval = 0))
    => <>(phase \in {"done", "assert_failed"})

=============================================================================
