# Verification of memtier_skewsyn

memtier_skewsyn is a load generator for key-value servers (memcached, Redis), a
fork of memtier_benchmark that can skew its connections over the threads of the
server and follow a schedule of request rates. This directory holds TLA+ models
of it, the TLC configurations that check them on small instances, and theorems
about them whose proofs TLAPS checks.

    tlc -config MCConnFaults.cfg MCShardConnection   one run
    tlapm ShardConnection_proofs.tla                 one proof module

`PROJECT.json` lists the runs, the code lines every definition stands for, the
hazards and the findings.

## 1. The system

One process. The main thread prepares the clients, starts one worker thread per
client group and, when a rate schedule is given, a master thread; then it samples
the workers' counters until they are done, joins them and reports. Every worker
drives its clients from one libevent loop. A client owns one connection (several
against a Redis cluster) and decides what to send; a connection owns a socket,
two buffers and a pipeline of requests waiting for their replies.

| Component | State | Operations | Interacts with |
|---|---|---|---|
| `shard_connection` | socket, `m_connected`, event, setup states, `m_pipeline`, `m_pending_resp`, buffers, `nextCycleTime`, `serverTid` | `connect`, `disconnect`, `handle_event`, `process_response`, `fill_pipeline`, `send_*`, `gurantee_sockfd_dispatch` | client (`connections_manager` callbacks), libevent, server |
| `client` | `m_reqs_generated`, `m_reqs_processed`, ratio counters, `m_end_set`; statics `skew_count`, `total_conns`, `real_conns` | `prepare`, `create_request`, `hold_pipeline`, `handle_response`, `finished` | its connection, object generator, `run_stats`, `master_finished` |
| `client_group` | its clients, event base, `m_conn_mutex` | `create_clients`, `prepare`, `run`, totals, merging | worker thread, main thread |
| `run_stats` | current second, finished seconds, totals, latency maps; static latency logs and their atomic indices | `update_get/set/wait_op`, `roll_cur_stats`, `set_end_time`, `merge`, `summarize`, `aggregate_average` | all clients (logs), main thread (sampling, merging) |
| benchmark lifecycle (`memtier_benchmark.cpp`) | threads and their `m_finished`, `intervals`, `qpsPerClient`, `master_finished` | `main`, `run_benchmark`, `cg_thread`, `start_master`, `join_master`, `parse_config_file` | everything |
| generators (`generator.h`) | rate, last draw | `generate`, `set_lambda` | `fill_pipeline` |
| `cluster_client` | key pools per shard, `m_slot_to_shard`, set of connections | `connect`, `disconnect`, `handle_cluster_slots`, `get_key_for_conn`, `create_request` | its connections |
| `verify_client` | `m_finished`, counts of keys and errors | `create_request`, `handle_response`, `finished` | its connection |
| protocols | parser state per connection | `write_command_*`, `parse_response` | buffers of the connection |
| object generator | key range, next key, value buffer | `get_key`, `get_object`, `set_key_range` | client |
| `server_addr` | resolved addresses, the one in use, last error | `get_connect_info`, `resolve` | all connections of all threads, under a mutex |
| data import, JSON handler | files | read, write | object generator, main thread |

The hard behaviours are: callbacks interleaved with the clock, the network and the
master; the order in which pipelined requests meet their replies across failures
and reconnections; limits that are tested once and used later; counters that are
static and outlive clients and runs; and counters of running threads that the main
thread reads without a lock.

What makes each component correct:

- connection: requests sent less requests answered is what waits in the pipeline;
  what is on the wire is the pipeline, in order; limits hold; no assertion fails;
  after a failure somebody calls it back; it ends, and does nothing afterwards;
- client: the mix of commands is the one asked for, some command is always due; its
  place on the server is the one the skew level asks for and the one it believes;
- statistics: nothing counted is lost or counted twice by rolling, ending and merging;
  the latency logs stay inside their arrays;
- lifecycle: a run starts fresh, every thread is joined, the samples are consistent;
- cluster client: every key goes to the shard that owns its slot; limits hold;
- verify client: it ends, and checks exactly the keys that were written;
- server address: what a caller gets is what was resolved for it.

## 2. Modules

| Module | Models | Used by |
|---|---|---|
| `RequestMix` | `client::create_request` | `MCRequestMix`, `Load_proofs` |
| `ShardConnection` | `shard_connection.cpp` with the client that owns the connection, the server and the wire | `MCShardConnection`, `ShardConnection_proofs` |
| `ClosedLoop` | what a client promises its user: the abstract specification | refined by `ShardConnection` |
| `SkewPlacement` | `client::prepare` over all clients and runs, and the threads of the server: the abstract specification of placement | `Rates`, `Load_proofs` |
| `Rates` | the rate schedule: `parse_config_file`, `start_master`'s rates, the generators; composed with `SkewPlacement` and shown to implement it | `MCRates`, `Load_proofs` |
| `Benchmark` | `main`, `run_benchmark`, `cg_thread`, `start_master`, `join_master`, and the latency log the threads share | `MCBenchmark`, `Benchmark_proofs` |
| `RunStats` | the seconds and totals of `run_stats`, their merging and summing | `MCRunStats`, `RunStats_proofs` |
| `AbstractProtocol` | what the three protocols share: commands, a server, a stream that arrives in pieces | the next three |
| `RedisProtocol`, `MemcacheTextProtocol`, `MemcacheBinaryProtocol` | the three `parse_response` state machines and `write_command_*` functions | `Protocols` |
| `Protocols` | their composition, and what the responses must be | `MCProtocols`, `Protocols_proofs` |
| `ClusterClient` | `cluster_client.cpp` with its connections, and a cluster that moves slots | `MCClusterClient`, `ClusterClient_proofs` |
| `Verification` | the keys and values of clients (`obj_gen.cpp`, imported files), and the `verify_client` that draws them again | `MCVerification`, `Verification_proofs` |

The `MC*` modules only name small values for the constants; the `*_proofs` modules
extend the module they are about. `Load_proofs` holds what is proved of the load the clients put
on the server, where, how fast and with what: the theorems about `SkewPlacement`, `Rates` and
`RequestMix`, whose actions have names of their own (`MixSpec`) for that. `SumTheorems` is a library of its own: facts about
`SumFunction`, with which the properties that count are written, and the induction they
rest on.

### ShardConnection

Variables keep the names of the code's members. `sock` and `peer` are the two ends of
the TCP connection, `to_server` and `to_client` what is on its way, `armed` the events
`m_event` is registered for. `handle_event` runs to completion in its thread, but what
it looks at can change while it runs (the clock, the socket, `master_finished`), so it
is cut at those places: `pc` is the place reached, `site` the place `fill_pipeline`
was called from, and each of `FlushSome`, `ReadSome`, `ParseReply`, `SendSome`, ... is
one turn of the corresponding loop. A step of the kernel, the server or the master
(`KernelConnects`, `ServerReplies`, `ServerDrops`, `ServerStalls`, `MasterFinishes`)
may come between any two. Failed assertions are a place of their own
(`pc = "assert_failed"`).

A message is its type and number. A reply that has arrived in part is one still on its
way, because `parse_response` then returns 0 and the handler waits for more. The clock
is abstracted to choices: `nextCycleTime < currentTime` may or may not hold when
a generator paces the client (`Paced`), and always holds when there is none; the
time limit may pass whenever a counted reply moves the clock of the statistics
(`TimePasses`), and only then, as in `roll_cur_stats`.

`Faults` selects what the environment may do wrong: refuse a connection, fail a write,
drop a connection, answer with an error, split the reply of the dispatch request, stop
answering, and let a new connection fail before it is even connecting (`ReconnectFails`:
the address does not resolve, `socket()` or `::connect()` fails; then `assert(ret == 0)`
ends the program). `UninitValues` are the values `m_reqs_generated` may hold when a client is
created, because no constructor sets it.

### RequestMix

One step is one call of `create_request`; the state is every counter its choice depends
on. Keys and values are left out, except that the number of keys of a multi-GET is
counted. A whole family of configurations is checked in one run, by choosing the
configuration in the initial state.

### SkewPlacement

The server hands connections to its threads in turn (`Accept`, an assumption about
memcached that `prepare` itself relies on). `prepare` is cut at each connection it makes,
the static counters live as long as the process, and `NextRun` is the loop over runs of
`main`. `serverTid` is what the clients believe, `thread_of` where they are.

### Benchmark

The life of the process: `pc` is the place of the main thread, `wpc` that of every
worker, `mpc` that of the master. A step is what a thread does between two accesses to
something another thread reads or writes, since nothing here is locked: the sampling
loop reads one finished flag (`ReadFlag`), then one thread's counters (`ReadOps`), then
the totals of the servers' threads (`ReadTid`), and the workers count in between. A
worker stands for a client group with one client, an operation for a GET. `Send` is a turn
of the loop of `fill_pipeline`, which asks `client::finished` first; `End` is a callback that
finds the client finished and does not register its event again, whether or not it has ever
sent anything; `LoseConnection` is one that deletes the event, so that the loop of the
thread runs empty and the thread ends early. In the second run of a schedule `finished` is
true from the start and the workers send nothing. The schedule's k-th
interval is its number, so what the rates are does not matter, only which of them are in
force: `skew_at` and `goal_at` are the intervals `currentSkew` and `currGoalQPS` were
last taken from. `row` and `window` are history: the label of the row written last, and
what was in force when its second began and ended.

### RunStats

One action is one call on a client's `run_stats`. The clock is a number of ticks, and
`timeval` makes of it the pair of seconds and microseconds that the averages treat field
by field. When no client is active any more, `merge` takes them one after the other in
the order of the threads, and `summarize` adds up the rows. Merging is written with folds
over the rows, as the code's nested loops are. A client that loses its connection never
records an end (see `ShardConnection`, where nothing calls it back). A cluster client
(`Sharded`) ends at the callback of one of its connections, and the events of the others stay
registered: their replies are still counted, in the row that `set_end_time` has filed and
not reset, until their thread's loop is empty; and each connection that finds no reply
counted sets the start anew. `late` remembers the clients this happened to. Bytes, hits and
latencies are added up beside the operations and are left out. `timeval_factorial_average`
computes in doubles and cuts off: halves are exact, and with a weight of 3 or more a whole
result may come out a little too small and lose one (`Averages`).

### Rates

`qpsPerClient` holds the rate of every thread of the server, which the master writes one
element per step (`WriteRate`) while clients read it; `lambda` and `nextCycleTime` are a
generator's rate and next sending time, abstracted to "soon" and a "day" (86400 s, what
`generate` returns at rate 0). `Place`, `ConnectPaced`, `ReconnectPaced` and `NextRunPaced`
are the actions of `SkewPlacement` with what they do to the generators. The master starts in
every run, but the first one's `join_master` has deleted the intervals: a later master
writes what it finds in freed memory (`Garbage`), and the properties about rates speak of
the first run. Rates are integers:
a rate is multiplied by the common denominator `Unit` of the two formulas.

### Protocols

The stream is cut into items: a line, a data block with its CRLF, a binary header or body.
Every read of the code waits for one whole item, so an item that has arrived in part is one
still on its way. Each action is one turn of the loop of `parse_response`: `m_response_state`,
`m_last_response` and the stack of array levels are the code's. The three modules contribute
their writers, servers and parsers, `Protocols` takes the disjunction, and which protocol it
is comes with the configuration chosen in the initial state. With it come the bounds of the
replies: `keys` of a multi-GET, the `length` of a value, the `ranges` of a CLUSTER SLOTS reply,
of which there are no more than the cluster has slots (`cluster_client.h:33`); the counts of the
elements still to come are then far from where unsigned numbers wrap, except below zero. `asked`,
`replied`, `results` and `derailed` are history. Assertions that fail are a place (`pc = "assert_failed"`).

### ClusterClient

A key is the slot it hashes to and a slot range one slot: `get_key_for_conn` looks at nothing
else. `conns`, `pools` and `m_slot_to_shard` are the vectors and the array of the code, and
what an element of the array never written may hold is chosen from an index in range and one
out of it. `Connection` has a field `memory` for the members no constructor sets
(`shard_connection.cpp:477`): a generator that is no object ("wild"), a sending time that never
comes ("late"), or values that happen to work. CLUSTER SLOTS is answered with the owner map of
the moment, which may be out of date when the answer is processed. One callback runs
`handle_event` of one connection, cut at every turn of its loops. `generated` is what
`m_reqs_generated` holds at the start, which no constructor sets; a WAIT is sent without a
key (`CreateWait`), a turn at the end of a ratio cycle sends nothing (`RatioReset`), and a
node may refuse an added connection at once (`AddFails`) or later, when nobody is
called back any more (`ConnectFailed`).

### Verification

All clients of all runs, then the `verify_client`. A client carries its clone of the generator:
range, iterator, seed, how often it has drawn, its line in the imported file. A random number
is the `(seed + drawn)`-th of a fixed list, so that two generators with one seed draw alike and
with different seeds they need not. Values are members of a small set. A multi-key GET draws
its keys one after the other from the same generator (`Drawing`) and counts as one request.
`unset` is what a client of the runs may find in `m_reqs_generated`, `garbage` what the
`verify_client` finds there. A configuration without a number of requests has the default of
10000 (`config_init_defaults`); tests limited by time are left out, because
`verify_client::finished` (`client.cpp:555-562`) asks for requests alone and is never true
after one: such a verification has no end. The server executes a SET
when its reply is handled, or later (`Straggler`) if its client does not wait for it.

## 3. Runs

| Run | Module | Result | What it shows |
|---|---|---|---|
| `MCConnFaults` | ShardConnection | pass | all faults but the split dispatch reply, a connect() that fails at once among them, pipeline 2, limit 4, reconnection every 3, schedule, setup commands, arbitrary initial counter: `Accounting`, `RequestsBound`, `WireInOrder`, and the refinement `ImplementsClosedLoop` |
| `MCConnSerial` | ShardConnection | pass | pipeline 1, connections that may be refused but are not lost: no assertion fails, setup is answered before requests, the client completes unless a reconnection is refused |
| `MCConnText` | ShardConnection | pass | the text protocol, pipeline 2, a time limit, under error replies, failed writes and split dispatch replies: the client ends unless lost replies have taken its pipeline, and nothing happens after its end |
| `MCRequestMix` | RequestMix | pass | ratios up to 3, multi-GETs: some command is due, the mix is exact, WAITs are evenly spaced |
| `MCRates` | Rates | pass | placement over batches and three runs, on the thread the server chose, `serverTid` until the first reconnection, preparing ends; each thread of the server is offered its share of every interval's goal; every client takes over the last rates, unless it sleeps |
| `MCBenchmark` | Benchmark | pass | a schedule, a latency log that overflows, two runs, workers that lose their connection: nobody else ends before the schedule, the last sample is complete, rows are labelled with their own second, a log that is processed has every reply and lies inside its array, the program ends |
| `MCRunStats` | RunStats | pass | three clients of a thread over three seconds, one with connections that count on behind its end: rows are in order and unique up to the end, merging keeps every second's sum, the report contains every reply counted in time, the averaged duration is not negative |
| `MCProtocols` | Protocols | pass | the three protocols, streams cut anywhere, errors, arrays, empty arrays: responses are the replies, in order and with their own values; nothing parsable is left; every reply is returned in the end, but for one read behind an error line with nothing to follow |
| `MCCluster` | ClusterClient | pass | two nodes, full pools, a cluster that moves a slot, a refused CLUSTER SLOTS, a refused connection, WAITs, members nobody set: counted requests are somewhere, one connection and pool per node, keys wait where their slot is, the map is used unfilled only as named, the client completes |
| `MCVerification` | Verification | pass | parallel, sequential and random patterns, 'allkeys', two runs, multi-key GETs, imported items: keys stay in range, 'allkeys' leaves out at most the last one, the verification finds no fault that is not there, the program ends |
| `MCConnReconnectAssert` | ShardConnection | violation | with a pipeline, the assertion of an empty pipeline before a reconnection fails |
| `MCBenchmarkRuns` | Benchmark | violation | in the second run of a schedule a worker ends having sent nothing, before an interval is played |

The two violations are disagreements of the code with its own assertion and option text;
`PROJECT.json` quotes them. Other behaviours a user may stumble over are written into the
properties as the exceptions without which they fail:

- `RequestsBound`: up to `pipeline - 1` requests beyond the limit;
- `EndsOrStarves`: text-protocol error replies leave their requests in the pipeline, and whole
  replies behind them unparsed; a failed write leaves the connection without an event that
  fires; a split dispatch reply can make `pop_req`'s assertion fail;
- `Completes`, `EndsOrStarves` (connection): a comment expects that after `process_response` has
  disconnected "libevent" will "call us back sometime" (`shard_connection.cpp:558-559`). It does
  not after a failed write (463-469), where `disconnect` has deleted the event, nor after a
  reconnection that is refused (508-511), where the handler returns without one: the client
  never ends. `NoAssertFails` assumes in its run that a reconnection gets as far as
  connecting: a resolver or `connect` that fails at once fails `assert(ret == 0)` (425);
- `WaitsFollowSets`: the option is "Set:Wait ratio" (`memtier_benchmark.cpp:989`), but the code
  keeps a distance of (a div b) + 1 SETs: 3:1 gives four SETs to a WAIT, 1:2 one. The property
  states what the code does, so it passes and does not tell on this;
- `PileUpExact`: "How many clients pileup on memcached's 1st thread" (`memtier_benchmark.cpp:998`)
  is thread 0 only until a client reconnects. Each reconnection takes one turn of the server's
  that `total_conns` does not count, and the next run piles up one thread further on;
- `SchedulePlayed`: a thread whose clients have lost their connections ends early, and in a
  second run every thread does (`MCBenchmarkRuns`);
- `LogComplete`: `update_get_op` asks for `index > MAX_ENTRIES` (`client.cpp:829`), so the entry
  just behind the array is written. `process_results` finds that and aborts
  (`memtier_benchmark.cpp:1284-1292`, "Assuming memory corruption"): the property is about logs
  that have been processed, and these lie inside the array;
- `RowsInOrder`, `Ledger`, `ReportComplete`: replies that a cluster client's other connections
  count after its end are in the totals, but in the rows twice or not at all
  (`client.cpp:813`), and a lost connection keeps its last second from the report;
- `TrueUntilReconnect`: a reconnection takes the server's next turn without telling `serverTid`
  ("server thread id it connected to", `shard_connection.h:125`);
- `RatesAdopted`: a client given rate 0 has its next request a day ahead and never notices that
  the schedule raises the rate again;
- `ResponsesInOrder`: an error that makes `parse_response` return -1 marks the response after it;
  an array cut in front of a bulk's data, or an empty one, derails the Redis parser;
- `AllReturned`: a reply read together with such an error line, with nothing to follow, stays
  in the buffer, as nothing makes `parse_response` look at it again;
- `OneConnectionPerNode`, `MapKnown`, `Completes` (cluster): the piled-up connection adds a pool
  and fails an assertion; with a pipeline the slot map is read before it is filled; connections
  added later run on members nobody set, garbage in `m_reqs_generated` may hold the main
  connection before CLUSTER SLOTS is sent, and the keys in the pool of a connection that is
  refused wait for ever;
- `KeysInRange`, `AllKeysTouched`, `Verified`, `Ends` (verification): shares rounded up lead
  beyond key-maximum with few keys or in a second run; 'allkeys' misses the last key unless the
  keys are shared out, and more of them if WAITs are counted as requests or keys are random; a
  verification with WAITs, parallel patterns or distinct seeds draws other keys than the run;
  garbage in `m_reqs_generated` holds it, or a client of the runs, for ever, and so does a
  reconnection interval. That 'allkeys' misses a key contradicts its option text, "run on the
  entire key-range" (`memtier_benchmark.cpp:940`).

Some hazards have no property because the model leaves out what they are about: the row
partition of the latency log (`memtier_benchmark.cpp:1504`), the error text read after the
unlock in `server_addr` (`config_types.cpp:259`), the buffer moved under earlier keys of a
multi-GET (`protocol.cpp:1041`), an imported line without a number that is tried for ever
(`obj_gen.cpp:564`), the burst of a client behind its schedule (`shard_connection.cpp:478`).

Bounds. A pipeline of 2 is the smallest in which a request can be sent behind another
that is not answered, and every use of the pipeline compares its length with the
limit only. `MaxGenerated` bounds the requests of a run; it lies beyond `Requests` and
beyond two reconnection intervals, so limits, overshoot and a second connection are all
reached. Reaching it reads as a next request that is not due. In `RequestMix` 40
requests are several cycles of every ratio up to 3. In `MCConnText` a client can lose both
places of its pipeline before its five requests are used up. In `Rates` six clients of
three threads are two batches, of which the second begins with what the first left; the
schedule takes a thread's rate to 0 and back. In `Benchmark` two workers
can end before and after being sampled, and an interval can change between the two reads
of a label; with `MaxEntries` of 2 the two workers' four replies fill the array, write
the entry behind it and overflow it; `MaxOps` is
the number of requests a worker sends in a run, `MaxSamples` that of the samples
while a thread runs: a sample more finds nothing that one does not, because a row only
depends on the previous one. In `RunStats` `MaxTick` gives two ticks to each of three
seconds, so that a second without replies can lie between two with some, and `MaxStart` lets
clients start in the first two of them; three clients of one thread exercise the weights 1, 2
and 3 of the average, and that the weight restarts with every thread is left to the theorem.
`MaxOps` is there the number of replies of all clients: two are enough for one before and one
behind an end, or for two of one second; the kinds of operations are
interchangeable, hence the symmetry. In `Protocols` two or three requests are pipelined,
enough for what one reply leaves behind to meet the next; replies hold up to two values, two bytes
or two ranges, so that there is a first, a last and one in between to cut at. In `ClusterClient` pools hold one
key, so that a second finds them full, and `MaxGenerated` lies beyond the limits; two
nodes reached through one of them or through another address give up to three connections.
`Rates` has a third run, so that a reconnection in the second shows where the next one
piles up. In `Verification` ranges have four to seven keys, fewer or more than the clients' number
squared, and `Word` is where unsigned numbers wrap. CHECK_DEADLOCK is FALSE because every system
modelled stops: the client has ended or its event is gone, the bound is reached, the last
run is prepared or reported.

Fairness. The event loop goes on (weak fairness of `EventLoop`). libevent reports a
readable or writable descriptor again until it is served: an answer that stays in the
socket is eventually read, a write buffer eventually flushed (strong fairness, as the
handler can be called for other events meanwhile). A paced client's next request
becomes due, as the generators return finite times. The kernel completes connections,
a server that is up answers, the master reaches the end of the schedule. Nothing is
assumed of faults. `prepare` goes on as long as the server takes connections; the master
writes on, and a client whose request is due soon sends it (each weakly fair in `Rates`).
In `Protocols` the server answers, what it sends arrives, and a parser that was called
returns. In `ClusterClient` libevent calls back every connection in turn, a node answers,
and the generator draws every slot now and then (strong fairness of each: other
connections run in between). In `Verification` the same holds of each client, and the
server executes what it has received. In
`Benchmark` the main thread, the master and every worker are scheduled (weak fairness
of each): intervals are finite sleeps, and a worker's replies arrive unless its server is
silent, which is what `ShardConnection` is about.

## 4. Proofs

| Theorem | Statement |
|---|---|
| `ShardConnection_proofs!TypeCorrect` | `Spec => []TypeOK` |
| `ShardConnection_proofs!BooksBalance` | `Spec => []Accounting` |
| `ShardConnection_proofs!Overshoot` | `Spec => []RequestsBound` |
| `ShardConnection_proofs!QuietAfterEnd` | `Spec => NothingAfterEnd` |
| `ShardConnection_proofs!WireCorrect` | `Spec => []WireInOrder`, without "split" in `Faults` and without `MemcacheText` |
| `ShardConnection_proofs!SetupAnsweredFirst` | `Spec => []SetupFirst`, with a pipeline of 1, without "reply" and "split" in `Faults` |
| `ShardConnection_proofs!AssertionsHold` | `Spec => []NoAssertFails`, without "connect", "write", "drop" and "split" in `Faults`, with a pipeline of 1 or no reconnections |
| `ShardConnection_proofs!Refinement` | `Spec => ImplementsClosedLoop` |
| `Load_proofs!MixTypeCorrect`, `AlwaysSends`, `WaitSpacing`, `ExactMix` | for `MixSpec` of `RequestMix`: `MixTypeOK`, `SomeRequestDue`, `WaitsFollowSets` and `RatioExact` are invariants |
| `Load_proofs!TypeCorrect`, `PileUpCorrect`, `TidsTrue` | for `Spec` of `SkewPlacement`: `TypeOK`, `PileUpExact` and `TrueUntilReconnect` are invariants |
| `Load_proofs!Placement` | `PacedSpec => Spec`: the schedule implements `SkewPlacement` |
| `Load_proofs!PileUpScheduled`, `TidsScheduled` | hence `PacedSpec => []PileUpExact` and `[]TrueUntilReconnect` |
| `Load_proofs!MasterInOrder`, `RatesScheduled` | `PacedSpec => []RatesWritten`, `[]RateInForce` |
| `Load_proofs!LoadScheduled` | `PacedSpec => []LoadAsScheduled` |
| `Protocols_proofs!InvCorrect` | `Spec => []Inv`: where the parser is and what it has read |
| `Protocols_proofs!ResponsesInOrderCorrect`, `NothingOwedCorrect` | `Spec => []ResponsesInOrder`, `[]NothingOwed` |
| `Protocols_proofs!NoneUnasked` | until the parser is derailed there are no more responses than requests: `pop_req` never takes one from an empty pipeline |
| `ClusterClient_proofs!MapFirst` | `Spec => []MapKnown` |
| `ClusterClient_proofs!KeysAccountedFor` | `Spec => []KeysAccounted` |
| `ClusterClient_proofs!OneConnection` | `Spec => []OneConnectionPerNode` |
| `ClusterClient_proofs!KeysRouted` | `Spec => []PoolsRouted` |
| `RunStats_proofs!OrderOfSeconds` | `Spec => []RowsInOrder` |
| `RunStats_proofs!LedgerBalanced` | `Spec => []Ledger` |
| `RunStats_proofs!SecondsMerged` | `Spec => []MergedBySecond` |
| `RunStats_proofs!NothingLost` | `Spec => []ReportComplete` |
| `RunStats_proofs!DurationNotNegative` | `Spec => []DurationSane` |
| `Verification_proofs!KeysConfined` | `Spec => []KeysInRange` |
| `Verification_proofs!AllKeysDrawn` | `Spec => []AllKeysTouched` |
| `Verification_proofs!RedrawsTheRun` | `Spec => []Verified` |
| `Benchmark_proofs!TypeCorrect` | `Spec => []TypeOK` |
| `Benchmark_proofs!LastSample` | `Spec => []TotalsComplete` |
| `Benchmark_proofs!LatencyLog` | `Spec => []LogComplete` |
| `Benchmark_proofs!FullTest`, `Labels` | `SchedulePlayed` and `LabelFits` are invariants of a program that plays its schedule in one run |

They hold for every value of the constants that satisfies the `ASSUME` of the module they
are about: any limit, pipeline, reconnection interval, set of faults, initial value of the
counter, any ratios, any number of threads, clients, runs, intervals, nodes and slots, requests, values and ranges of replies. What
a theorem of `ShardConnection` assumes beyond that is in its statement and above.

Sums. What is counted in several places is a `SumFunction`, a fold the library gives no
theorem about. `SumTheorems` shows that a sum exists for every finite set (`FiniteInduct`,
an induction stated for a set of sets, which `WFMin` gives without an operator as parameter)
and hence how it changes when an element is added, removed or changed (`SumAdd`, `SumRemove`,
`SumChange`), when two functions are added (`SumPlus`), when an amount moves between two
elements (`SumMoved`), when elements of value 0 join (`SumWithZeros`) and when all values are the same
(`SumConstant`). Its `NatInduct` is
what the folds over sequences in `RunStats` are reasoned about with.

ShardConnection. `Accounting` says how long the pipeline is and that the setup
commands are at its front. It is not inductive: `fill_pipeline` appends setup commands
at the end, which is the front only if no request of the test waits there. So `IInv`
adds that whenever a setup command is still to be sent, the pipeline holds none. This
in turn holds because a connection is made only by `prepare` or by a reconnection that
has asserted an empty pipeline. From `IInv` come the bound on the requests
(in the loop of `fill_pipeline` the length of the pipeline bounds what was sent beyond
`hold_pipeline`), the fact that nothing is sent or counted after the end, and the
refinement: `SendRequest` is `Issue`, `ParseReply` of a request is `Complete`, `Rearm`
that records the end is `End`, every other step is hidden.

`WireInOrder` has an invariant of its own. Each queue between the two ends of
the pipeline passes its first messages to the end of the next, which leaves their
concatenation alone (`Cut`, `Pass`, `HeadMoves`); only `fill_pipeline` adds at its end and
`process_response` takes from its front, and both do the same to `m_pipeline`. `WInv` adds
that a connection still to be reported as connected carries nothing, as `reconnect` has
asserted an empty pipeline; a connection whose server is gone may hold anything. The two
assumptions are needed: a dispatch reply cut in two is in the stream without a request
in the pipeline, and an error line of the text protocol leaves its request there.

`SetupFirst` and `NoAssertFails` say what the replies of a connection may not do, and need
assumptions. Each excludes a case in which the code does abort or answer early, which TLC finds
when the assumption is dropped: a reply that does not parse, a dispatch reply cut in two,
a connection lost while `fill_pipeline` writes on, a second request in the pipeline when the
reconnect interval is over. `SInv` and `OneAtATime` say what a pipeline of one holds while
setup commands are due; `OInv` that the wire never carries more than the pipeline waits for,
with which the text protocol needs no exception; `AInv` follows the assertions through the
places of the handler. A `connect` of a reconnection that fails at once is the fourth case
`AssertionsHold` excludes (`ReconnectFails`).

RequestMix. The ratio counters are never both at their end, since the trailing step of
`create_request` restarts them: that is the strengthening of `TypeOK`, and it is what
makes some branch apply. The spacing of WAITs rests on a lemma about truncated
division, the exact mix on products staying equal from cycle to cycle.

SkewPlacement. `Batches` relates `skew_count` to the place in the batch and
`total_conns` to the thread the next connection gets; with it every `Connect` extends
`PileUpExact` by one place. `Turn` says that the server is as many turns ahead of the
client's count as there were reconnections, modulo the number of threads: hence where the
server puts each client, and, until the first reconnection, `TidsTrue`.

Rates. Every action is one of `SkewPlacement`'s with a change of the variables of its own, or
leaves placement alone, which is the refinement. `RatesWritten` says which interval each
thread's rate belongs to in the first run, while the master is in the middle of its loop; it is inductive
together with `Progress` (a first interval is written before the master starts). What a
client reads is therefore a rate of an interval already reached, and keeps being one
(`RateInForce`), although nothing is locked. That the threads get the load of the schedule is a
count: the clients of a run are the last of the history (`Latest`), so with complete batches
the thread of a client depends on its number alone (`TidOfClient`), every batch puts as many
clients on a thread as the next (`BatchCount`), and batches are added by induction
(`BatchesCount`); as the rates of a thread's clients are equal (`SumConstant`), their sum is
that count times the rate, and the quotients of the code cancel. Nothing in the code keeps the
skew level below the number of threads: then all of a batch is on thread 0, which the share
of a thread (`PerBatch`) allows for.

Benchmark. The loop that samples is left when it has found no thread active. That its
last sample is complete rests on the order of two reads: a thread's flag is read before
its counters. `SampleInv` says that for every worker already passed in this turn and not
found active, the parts taken from it are final, because a worker that has raised its
flag counts nothing more; a worker that was active keeps the loop going. `ScheduleInv`
says where the master is and that `master_finished` is raised by nobody else; it needs
that this is the only run, since the flag is never lowered (`MCBenchmarkRuns` is what
happens otherwise). `LabelInv` adds that `skew_at` and `goal_at` only grow, so that
what is read between the two ends of a second lies between their values there. `LogInv`
says that the shared index is the number of replies the workers have logged and that the slots
written are exactly those below it: a worker takes an index and raises it in one access
(`FetchAdd`), so two workers never write one slot, and after the joins the index is the total.
A slot behind the array is written when the index is `MaxEntries`, which it then exceeds for
good: `process_results` goes on only if it does not.

RunStats. `StatsInv` is one invariant for all five properties but the last. A client's rows
are in order because a row is filed under a second that `roll_cur_stats` has left for a later one.
Merging is a fold over the rows of the other side: for every prefix of them, the rows so far
name no second twice and each is the sum of its own second on both sides (`SameRow` finds the
one there is); `Sorted` exists and only permutes. The ledger of a client and the total of the
report are then sums that change by one and the same amount. What a client has counted after
its end is kept out of these clauses, but not out of those about merging: a row filed twice is
there twice on both sides. `DurationSane` is about averages that are cut off field by field and
may lose one more: whenever all starts come before the beginning of a second and all ends a
second or more after it, the averaged start comes before it and the averaged end does not
(`DurationInv`), since an average loses less than that second.

ClusterClient. With one request at a time and a cluster that does not refuse CLUSTER SLOTS
(`Serial`), the map is filled before it is used although nothing in `fill_pipeline` waits for
it: until then the main connection is the only one, and CLUSTER SLOTS takes the only place of
its pipeline (`Unmapped`). `KInv` says nothing of the time after, when no key can be
routed too early. A connection piled up by `prepare` asks again, which is the case a main
connection that does not (the mutant `ConnectAsksNothing`) breaks.

The other three need no assumption on the configuration. `CInv` is types, structure and
balance: addresses are distinct and every connection has its pool, with the one exception that
`prepare` may leave two pools, both empty, behind the assertion that then fails; and what was
generated, on top of what `m_reqs_generated` happened to hold, is what was processed, what
waits in pipelines and what waits in pools. Every step
either changes the requests of one connection and the keys of one pool by amounts that cancel
(`RequeueKeeps`), or is `HandleClusterSlots`, which extends connections and pools by empty ones
(`HandleMoves`) with addresses nobody had (`AdditionsAre`). `Routed` adds where keys wait: as
long as the cluster has not moved a slot, every answer in a pipeline names the owners, so does
the map once it is filled, and a key goes where the map says.

Verification. `Types` says what a client is; the pipeline is a sequence over its own range, since
its values are strings, which the provers cannot enumerate. All three properties need to know
what one call of `create_request` does to a generator (`Created`: the key drawn, the iterators
and the counters of the ratio moved on). A multi-key GET draws several: `Drawing` is unfolded
key by key by induction. What a client has sent is `Sent`, what it counted as generated
less what it found there.

`KeysInRange` follows from `RangeOK`: every share lies within the range, the iterator of a
sequential pattern within its share or before it. That shares rounded up fit, if the range is
not smaller than clients * (clients - 1), is a fact about quotients (`SharesFit`).

`AllKeysTouched` needs what a client has drawn when it ends. `PacedOK` counts: until then what it
sent is what it processed and what waits in its pipeline; at its end that is at least
`Requests`. `CoverOK` follows the iterator (`Walk`): the keys drawn are those from the beginning
of the range up to it, or all of them once it has come around. Shares overlap or touch
(`Dealt`), so that together they leave nothing out (`RunCovers`).

`Verified` compares two machines that draw alike but are not in step: the verification starts
the counters of the ratio over one turn later, skips GETs and has a pipeline of its own. Both
are related to a third, `IsRun`: the sequence of states a generator goes through when nobody
interrupts it. It exists for every length (`RunExists`, by induction). A client is at the place
of the run given by what it has sent, the SETs it waits for are those of the run, and those
answered are stored or were overwritten (`Follows`); the verification is at the place given by
what it has skipped, compared and still expects (`Redrawn`). That a skipped GET counts as
processed but is not waited for, and the late reset, are cases of `VerifyDraws`. When it starts
every client has ended, so what it compares is stored as far as the clients' requests go
(`EndedHeld`); only what a pipeline lets it ask beyond them can be missing, which `Faults`
counts. `WrittenOK` says that the SETs written are the sum of what the clients count.

Writing these invariants down corrected the model twice: the exception of `AllKeysTouched`
had named a single run, where it is WAITs that take the place of keys; and a ratio of 0:0,
which leaves no request to make, is now excluded by the assumption on configurations, as the
options exclude it (`config_ratio::is_defined`, `config_types.h:46`).

Protocols. `ResponsesInOrder` compares what has been returned with what was answered; it says
nothing of the reply the parser is in. `Inv` says where that is: there are a number `k` of replies
and a number `p` of items such that what is in the buffer and on its way, taken together, is what
comes behind the first `p` items of reply `k + 1` (`Behind`), the first `k` replies have been
answered for (`Answered`), and the parser's own variables are those of that place. Between two
replies (`Fresh`) these are none, or the errors the text protocol gave up on, which it hands on;
inside one (`Within`) they are a clause for each kind of reply: a bulk is its length, a packet its
header, the sections of a multi-GET are counted by the place among them, and the counts of an array
of arrays are those of `Levels`, whose every entry follows from the number of ranges behind it and
the place in this one. The clauses are needed together: that `add_mbulk_value` leaves a level at the
right moment is what makes the line behind the last node the next reply's.

How the stream is cut does not enter: an arrival moves items from one part of the sequence to the
other (`AtStays`), and every action of a parser takes one item off its front (`NextItem`), which
moves the place on by one. The server's answers come at its end (`OneMoreReply`). For each action a
lemma shows the next place; `NothingBehind` says that at the end of the stream the place is the end
of a reply, which gives `NothingOwed`. `Drained` keeps apart the one parser that stops with something
left to read, and `Types` that commands are those a server knows, from which it follows that replies
have one of the shapes the parser's clauses are about (`RedisReply`, `TextReply`, `BinaryReply`). The
proofs about these shapes (`RangesResponse`, `SectionsResponse`) count hits and elements without
recursion, as the cardinality of the places they are at. TLC had found `Inv` true in every state of
`MCProtocols`.

For these proofs the model lost constants that were only bounds: values, multi-GETs and CLUSTER
SLOTS replies are of any length, and the response of a reply is said without folds over it.
`derailed` stays an exception: of an array cut in front of a bulk or without elements the code
loses count, and nothing is claimed of what follows.

Only model-checked. Every liveness property (`Completes` of a connection and of the cluster
client, `EndsOrStarves`, `AllPrepared`, `RatesAdopted`, `RunEnds`, `AllReturned`,
`Ends`): they rest on fairness, and ENABLED is beyond the prover.

## 5. Not modelled

The bytes of commands, keys and values; the distributions of inter-arrival times and keys;
printed reports, the latency histograms, `aggregate_average` over several runs and the
configuration syntax (option parsing, `config_types.cpp`); CSV parsing and export
(`file_io.cpp` is the sequence of its items); the JSON handler; the video processes the
master may start; scripts, workload files and the vendored protocol headers beyond the
reply header. None of these takes a decision another part depends on. The shared resolver
`server_addr` is two calls under one mutex. The row partition of the latency log
(`getIndices`) is not in `Benchmark`: it would add, to every interleaving of the sampling loop,
the position of every entry.

## 6. What could follow

- the row partition of the latency log in a module of its own, composed with `Benchmark`;
- proofs of what the runs check by fairness, for a prover that knows ENABLED.
