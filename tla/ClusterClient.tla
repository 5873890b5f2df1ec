--------------------------- MODULE ClusterClient ----------------------------
(***************************************************************************)
(* One cluster_client: its connections to the shards of a Redis cluster,   *)
(* the map from slots to connections, and the keys drawn on one connection *)
(* that wait for another. A key is the slot it hashes to, a slot range one *)
(* slot. All of it runs in the event loop of one thread; pc is the place   *)
(* in fill_pipeline, cur the connection it runs for. Shard ids are the     *)
(* positions in m_connections, from 1.                                     *)
(***************************************************************************)
EXTENDS Integers, Sequences, SequencesExt, FiniteSets, FiniteSetsExt

CONSTANTS
    Slots,          \* the hash slots
    Nodes,          \* the addresses CLUSTER SLOTS names
    Configs,        \* the configurations explored
    QueueMax,       \* KEY_INDEX_QUEUE_MAX_SIZE
    MaxGenerated    \* bound of the model: requests counted in a run

ASSUME ClusterAssumption ==
    /\ Slots \subseteq Nat \ {0} /\ Slots # {} /\ IsFiniteSet(Slots) /\ Nodes # {}
    /\ {QueueMax, MaxGenerated} \subseteq Nat
    /\ \A c \in Configs :
          /\ c.requests \in Nat \ {0}       \* requests
          /\ c.pipeline \in Nat \ {0}       \* pipeline
          /\ c.pile \in Nat                 \* connections prepare piles up
          /\ c.paced \in BOOLEAN            \* a generator paces the client
          /\ c.waits \in BOOLEAN            \* the Set:Wait ratio asks for WAITs
          /\ c.generated \in Nat            \* what m_reqs_generated holds at the start
          /\ c.slots_fail \in BOOLEAN       \* CLUSTER SLOTS may be refused
          /\ c.refuse \in BOOLEAN           \* a node may refuse a connection
          /\ c.reshards \in Nat             \* bound: times the cluster moves slots
          /\ c.memory \subseteq {"good", "late", "wild"}

VARIABLES
    config,
    owner,              \* the cluster: the node of every slot
    reshards,
    conns,              \* m_connections
    pools,              \* m_key_index_pools
    m_slot_to_shard,
    m_reqs_generated, m_reqs_processed,
    mapped,             \* history: handle_cluster_slots has filled the map
    blind,              \* history: a key was routed before the map was filled
    piled,              \* connections prepare has piled up
    armed,              \* the connections whose event is registered
    pc, cur

cluster  == << owner, reshards >>
counters == << m_reqs_generated, m_reqs_processed >>
history  == << mapped, blind >>
vars == << config, cluster, conns, pools, m_slot_to_shard, counters, history,
           piled, armed, pc, cur >>

\* What an element of the map that was never written may hold.
OutOfRange == 99
Uninitialised == {1, OutOfRange}

\* m_pipeline holds the requests of a connection, oldest first. CLUSTER SLOTS
\* carries its answer once the node has given one, which is empty if it refuses.
Data     == [type |-> "data", answered |-> FALSE, answer |-> << >>]
SlotsReq == [type |-> "slots", answered |-> FALSE, answer |-> << >>]
SlotsAnswered(answer) == [type |-> "slots", answered |-> TRUE, answer |-> answer]

\* A shard_connection; its node has accepted the socket when it is "up", that of the
\* main one before prepare goes on. What the constructor does not set is its memory:
\* with "wild" the generator is no object, with "late" its first request never comes.
Connection(address, sock, memory) ==
    [address |-> address, slots |-> "none", queue |-> << >>, sock |-> sock, memory |-> memory]

finished == m_reqs_processed >= config.requests

Failed == pc \in {"assert_failed", "crashed"}

\* No constructor sets m_reqs_generated.
Init ==
    /\ config \in Configs
    /\ owner \in [Slots -> Nodes]
    /\ reshards = 0
    /\ \E main \in Nodes \cup {"alias"} : conns = << Connection(main, "up", "good") >>
    /\ pools = << >>
    /\ m_slot_to_shard \in { [s \in Slots |-> v] : v \in Uninitialised }
    /\ m_reqs_generated = config.generated /\ m_reqs_processed = 0
    /\ mapped = FALSE /\ blind = FALSE
    /\ piled = 0 /\ armed = {1}
    /\ pc = "prepare" /\ cur = 1

-----------------------------------------------------------------------------
(* connect() and disconnect(), as prepare calls them.                      *)

\* The main connection does not ask for the slots.
ConnectAsksNothing ==
    /\ pc = "prepare"
    /\ conns' = [conns EXCEPT ![1].slots = "done"]
    /\ pools' = Append(pools, << >>)
    /\ pc' = IF Len(conns) # Len(pools') THEN "assert_failed"
             ELSE IF piled < config.pile THEN "piled" ELSE "idle"
    /\ UNCHANGED << config, cluster, m_slot_to_shard, counters, history, piled, armed, cur >>

\* The pool of a connection that is made again is kept, and another added.
Connect ==
    /\ pc = "prepare"
    /\ conns' = [conns EXCEPT ![1].slots = "none"]
    /\ pools' = Append(pools, << >>)
    /\ pc' = IF Len(conns) # Len(pools') THEN "assert_failed"
             ELSE IF piled < config.pile THEN "piled" ELSE "idle"
    /\ UNCHANGED << config, cluster, m_slot_to_shard, counters, history, piled, armed, cur >>

Disconnect ==
    /\ pc = "piled"
    /\ piled' = piled + 1
    /\ conns' = SubSeq(conns, 1, 1)
    /\ pc' = "prepare"
    /\ UNCHANGED << config, cluster, pools, m_slot_to_shard, counters, history, armed, cur >>

-----------------------------------------------------------------------------
(* fill_pipeline(): the loop over create_request and get_key_for_conn.     *)

Pending == Len(conns[cur].queue)

\* The pool of the connection is not asked.
HoldOnRequests(i) == m_reqs_generated >= config.requests

hold_pipeline(i) == pools[i] = << >> /\ m_reqs_generated >= config.requests

\* The end of handle_event: the event is registered again until the client has
\* finished. What was registered before is still called back once.
Return ==
    /\ pc' = "idle"
    /\ armed' = IF finished THEN armed \ {cur} ELSE armed

\* handle_event calls fill_pipeline whenever the socket can be written, the first
\* time because it is connected.
Writable(i) ==
    /\ pc = "idle" /\ i \in armed
    /\ pc' = "start" /\ cur' = i
    /\ conns' = [conns EXCEPT ![i].sock = "up"]
    /\ UNCHANGED << config, cluster, pools, m_slot_to_shard, counters,
                    history, piled, armed >>

\* The node refused the connection: handle_event returns and nobody calls it again.
ConnectFailed(i) ==
    /\ config.refuse
    /\ pc = "idle" /\ i \in armed /\ conns[i].sock # "up"
    /\ armed' = armed \ {i}
    /\ UNCHANGED << config, cluster, conns, pools, m_slot_to_shard, counters,
                    history, piled, pc, cur >>

\* CLUSTER SLOTS is sent once; what follows does not wait for its answer.
FillStart ==
    /\ pc = "start"
    /\ IF hold_pipeline(cur)
       THEN Return /\ UNCHANGED conns
       ELSE /\ pc' = "fill"
            /\ conns' = IF conns[cur].slots # "none" THEN conns
                        ELSE [conns EXCEPT ![cur].slots = "sent",
                                           ![cur].queue = Append(@, SlotsReq)]
            /\ UNCHANGED armed
    /\ UNCHANGED << config, cluster, pools, m_slot_to_shard, counters, history,
                    piled, cur >>

\* The condition of the loop. A client without a generator is always due. The
\* bound of the model reads as a next request that lies beyond the run.
MayCreate ==
    /\ pc = "fill" /\ ~finished
    /\ Pending < config.pipeline
    /\ conns[cur].memory # "late"

MayStop ==
    \/ finished \/ Pending >= config.pipeline
    \/ conns[cur].memory = "late" \/ config.paced
    \/ m_reqs_generated >= MaxGenerated

FillDone ==
    /\ pc = "fill" /\ MayStop
    /\ Return
    /\ UNCHANGED << config, cluster, conns, pools, m_slot_to_shard, counters,
                    history, piled, cur >>

\* The end of a turn of the loop: intervalGenerator->generate().
TurnOver == pc' = IF conns[cur].memory = "wild" THEN "crashed" ELSE "fill"

Send == conns' = [conns EXCEPT ![cur].queue = Append(@, Data)]

\* A WAIT needs no key. How often one is due is RequestMix's question.
CreateWait ==
    /\ config.waits
    /\ MayCreate /\ m_reqs_generated < MaxGenerated
    /\ m_reqs_generated' = m_reqs_generated + 1
    /\ Send
    /\ TurnOver
    /\ UNCHANGED << config, cluster, pools, m_slot_to_shard, m_reqs_processed, history,
                    piled, armed, cur >>

\* At the end of a Set:Get cycle a turn resets the ratio counters and sends nothing.
RatioReset ==
    /\ MayCreate
    /\ TurnOver
    /\ UNCHANGED << config, cluster, conns, pools, m_slot_to_shard, counters, history,
                    piled, armed, cur >>

FromPool ==
    /\ MayCreate /\ pools[cur] # << >>
    /\ pools' = [pools EXCEPT ![cur] = Tail(@)]
    /\ Send
    /\ TurnOver
    /\ UNCHANGED << config, cluster, m_slot_to_shard, counters, history, piled, armed, cur >>

\* get_key_for_conn draws until a key is its own or the limit is reached.
Drawing ==
    /\ \/ pc = "draw"
       \/ MayCreate /\ pools[cur] = << >>
    /\ m_reqs_generated < MaxGenerated

Drawn(s) ==
    /\ Drawing
    /\ blind' = (blind \/ ~mapped)
    /\ UNCHANGED << config, cluster, m_slot_to_shard, m_reqs_processed, mapped,
                    piled, armed, cur >>

DrawOwn(s) ==
    /\ Drawn(s) /\ m_slot_to_shard[s] = cur
    /\ m_reqs_generated' = m_reqs_generated + 1
    /\ Send
    /\ TurnOver
    /\ UNCHANGED pools

\* A key that finds no room is counted all the same.
DrawOtherCountsAll(s) ==
    LET shard == m_slot_to_shard[s]
        room  == Len(pools[shard]) < QueueMax
    IN  /\ shard \in DOMAIN pools \ {cur}
        /\ Drawn(s)
        /\ pools' = IF room THEN [pools EXCEPT ![shard] = Append(@, s)] ELSE pools
        /\ m_reqs_generated' = m_reqs_generated + 1
        /\ IF m_reqs_generated' >= config.requests THEN TurnOver ELSE pc' = "draw"
        /\ UNCHANGED conns

\* The key goes to the pool of the connection that drew it.
DrawOtherKeeps(s) ==
    /\ m_slot_to_shard[s] \in DOMAIN pools \ {cur}
    /\ Drawn(s)
    /\ pools' = IF Len(pools[cur]) < QueueMax THEN [pools EXCEPT ![cur] = Append(@, s)] ELSE pools
    /\ m_reqs_generated' = m_reqs_generated + (IF Len(pools[cur]) < QueueMax THEN 1 ELSE 0)
    /\ IF m_reqs_generated' >= config.requests THEN TurnOver ELSE pc' = "draw"
    /\ UNCHANGED conns

\* Another connection's key goes to its pool, and nowhere when that is full.
DrawOther(s) ==
    LET shard == m_slot_to_shard[s]
        room  == Len(pools[shard]) < QueueMax
    IN  /\ shard \in DOMAIN pools \ {cur}
        /\ Drawn(s)
        /\ pools' = IF room THEN [pools EXCEPT ![shard] = Append(@, s)] ELSE pools
        /\ m_reqs_generated' = m_reqs_generated + (IF room THEN 1 ELSE 0)
        /\ IF m_reqs_generated' >= config.requests THEN TurnOver ELSE pc' = "draw"
        /\ UNCHANGED conns

\* A map that was never written leads outside m_key_index_pools.
DrawWild(s) ==
    /\ Drawn(s) /\ m_slot_to_shard[s] \notin DOMAIN pools
    /\ pc' = "crashed"
    /\ UNCHANGED << conns, pools, m_reqs_generated >>

Draw(s) == DrawOwn(s) \/ DrawOther(s) \/ DrawWild(s)

-----------------------------------------------------------------------------
(* process_response(): a turn of its loop per reply, then fill_pipeline.    *)

HasReply(i, type) ==
    /\ \/ pc = "idle" /\ i \in armed
       \/ pc = "parse" /\ i = cur
    /\ conns[i].queue # << >> /\ Head(conns[i].queue).type = type
    /\ cur' = i

HandleData(i) ==
    /\ HasReply(i, "data")
    /\ conns' = [conns EXCEPT ![i].queue = Tail(@)]
    /\ m_reqs_processed' = m_reqs_processed + 1
    /\ pc' = "parse"
    /\ UNCHANGED << config, cluster, pools, m_slot_to_shard, m_reqs_generated,
                    history, piled, armed >>

\* The other replies have not arrived yet.
ParseDone ==
    /\ pc = "parse"
    /\ pc' = "start"
    /\ UNCHANGED << config, cluster, conns, pools, m_slot_to_shard, counters,
                    history, piled, armed, cur >>

Answered(i) == Head(conns[i].queue).answered
Answer(i) == Head(conns[i].queue).answer

\* Only the main connection is looked at.
KnownMain == { conns[1].address }

Known == { conns[i].address : i \in DOMAIN conns }

\* The addresses of an answer that have no connection yet.
Unknown(answer) == { answer[s] : s \in Slots } \ Known

\* An answer names m before n.
Before(answer, m, n) ==
    \E s \in Slots : answer[s] = m /\ \A t \in Slots : answer[t] = n => s < t

\* The order in which its unknown addresses get their connections.
Additions(answer) ==
    { new \in [1..Cardinality(Unknown(answer)) -> Unknown(answer)] :
        /\ \A n \in Unknown(answer) : \E k \in DOMAIN new : new[k] = n
        /\ \A j, k \in DOMAIN new : j < k => Before(answer, new[j], new[k]) }

\* The first connection to an address.
ShardAt(all, address) == SelectInSeq(all, LAMBDA c : c.address = address)

\* handle_cluster_slots(): a connection and a pool for every new address, and
\* every slot to the connection of its address.
HandleClusterSlots(i) ==
    /\ HasReply(i, "slots") /\ Answered(i) /\ Answer(i) # << >>
    /\ \E new \in Additions(Answer(i)), memory \in [Nodes -> config.memory] :
          LET all == conns \o [k \in DOMAIN new |-> Connection(new[k], "connecting", memory[new[k]])]
          IN  /\ conns' = [all EXCEPT ![i].queue = Tail(@), ![i].slots = "done"]
              /\ pools' = pools \o [k \in DOMAIN new |-> << >>]
              /\ m_slot_to_shard' = [s \in Slots |-> ShardAt(all, Answer(i)[s])]
    /\ mapped' = TRUE
    /\ armed' = armed \cup (DOMAIN conns' \ DOMAIN conns)
    /\ pc' = "parse"
    /\ UNCHANGED << config, cluster, counters, blind, piled >>

\* An address that does not resolve or connect: assert(sc != NULL).
AddFails(i) ==
    /\ HasReply(i, "slots") /\ Answered(i) /\ Answer(i) # << >>
    /\ Unknown(Answer(i)) # {}
    /\ pc' = "assert_failed"
    /\ UNCHANGED << config, cluster, conns, pools, m_slot_to_shard, counters,
                    history, piled, armed >>

\* CLUSTER SLOTS was refused: process_response returns without filling, and
\* the request is not sent again.
SlotsFailed(i) ==
    /\ HasReply(i, "slots") /\ Answered(i) /\ Answer(i) = << >>
    /\ conns' = [conns EXCEPT ![i].queue = Tail(@)]
    /\ pc' = "idle" /\ armed' = IF finished THEN armed \ {i} ELSE armed
    /\ UNCHANGED << config, cluster, pools, m_slot_to_shard, counters, history, piled >>

-----------------------------------------------------------------------------
(* The cluster.                                                            *)

AnswerSlots(i) ==
    /\ ~Failed
    /\ conns[i].queue # << >> /\ Head(conns[i].queue) = SlotsReq
    /\ \E answer \in {owner} \cup (IF config.slots_fail THEN {<< >>} ELSE {}) :
          conns' = [conns EXCEPT ![i].queue[1] = SlotsAnswered(answer)]
    /\ UNCHANGED << config, cluster, pools, m_slot_to_shard, counters, history,
                    piled, armed, pc, cur >>

Reshard ==
    /\ ~Failed /\ reshards < config.reshards
    /\ reshards' = reshards + 1
    /\ owner' \in [Slots -> Nodes] \ {owner}
    /\ UNCHANGED << config, conns, pools, m_slot_to_shard, counters, history,
                    piled, armed, pc, cur >>

-----------------------------------------------------------------------------

Fill ==
    \/ ParseDone \/ FillStart \/ FillDone
    \/ CreateWait \/ RatioReset \/ FromPool \/ \E s \in Slots : Draw(s)

Callback(i) ==
    \/ Writable(i) \/ ConnectFailed(i)
    \/ HandleData(i) \/ HandleClusterSlots(i) \/ AddFails(i) \/ SlotsFailed(i)

SomeCallback == \E i \in DOMAIN conns : Callback(i)
SomeAnswer   == \E i \in DOMAIN conns : AnswerSlots(i)

Next ==
    \/ Connect \/ Disconnect
    \/ Fill \/ SomeCallback \/ SomeAnswer \/ Reshard

Spec == Init /\ [][Next]_vars

\* libevent calls back every connection in turn; a node answers; the generator
\* draws every slot now and then; a paced connection is due now and then.
Fairness ==
    /\ WF_vars(Connect \/ Disconnect) /\ WF_vars(Fill)
    /\ \A i \in 1..(Cardinality(Nodes) + 1) :
          /\ SF_vars(i \in DOMAIN conns /\ Writable(i))
          /\ SF_vars(i \in DOMAIN conns /\ (HandleData(i) \/ HandleClusterSlots(i) \/ SlotsFailed(i)))
          /\ SF_vars(cur = i /\ FromPool)
          /\ WF_vars(i \in DOMAIN conns /\ AnswerSlots(i))
    /\ \A s \in Slots : SF_vars(Draw(s))

FairSpec == Spec /\ Fairness

-----------------------------------------------------------------------------
(* Properties                                                              *)

\* Every request the client has counted is in one place: answered, in the pipeline
\* of a connection, or a key in the pool of one.
DataIn(queue) == Cardinality({ k \in DOMAIN queue : queue[k].type = "data" })

KeysAccounted ==
    m_reqs_generated - config.generated = m_reqs_processed
        + SumFunction([i \in DOMAIN conns |-> DataIn(conns[i].queue)])
        + SumFunction([i \in DOMAIN pools |-> Len(pools[i])])

\* However many CLUSTER SLOTS answers name it, a node gets one connection, and
\* every connection its pool, which holds no more than it may.
OneConnectionPerNode ==
    /\ \A i, j \in DOMAIN conns : conns[i].address = conns[j].address => i = j
    /\ pc \notin {"prepare", "piled", "assert_failed"} => Len(pools) = Len(conns)
    /\ \A i \in DOMAIN pools : Len(pools[i]) <= QueueMax

\* A key waits for the connection to the node that owns its slot, unless the
\* cluster has moved slots: the keys drawn under the old map stay where they are.
PoolsRouted ==
    reshards = 0 /\ ~blind =>
        \A i \in DOMAIN pools : \A k \in DOMAIN pools[i] :
            conns[i].address = owner[pools[i][k]]

\* The map is used before it is filled only if requests are sent behind CLUSTER
\* SLOTS without waiting, or if that was refused.
MapKnown == blind => config.pipeline > 1 \/ config.slots_fail

\* A connection no key belongs to.
Useless(i) == mapped /\ \A s \in Slots : m_slot_to_shard[s] # i

\* A connection its node has refused; what waits in its pool waits for ever.
Refused(i) == conns[i].sock # "up" /\ i \notin armed

\* A client with a limit ends. The exceptions are the code's: m_reqs_generated starts
\* with garbage, which may hold every connection back; an assertion fails or a
\* member nobody has set is used (Failed, "wild", "late"); keys are routed before
\* the map is filled; a connection owns no slot; a node refuses a connection.
Completes ==
    config.generated = 0 =>
      <>(\/ finished \/ Failed \/ blind
         \/ \E i \in DOMAIN conns :
               Useless(i) \/ Refused(i) \/ conns[i].memory # "good")

=============================================================================
