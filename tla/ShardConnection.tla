--------------------------- MODULE ShardConnection ---------------------------
(***************************************************************************)
(* One shard_connection and the client that owns it (the connections       *)
(* manager), driven by libevent callbacks, against a server reached over   *)
(* TCP.                                                                    *)
(*                                                                         *)
(* handle_event runs to completion in the event loop's thread, but it is   *)
(* split here wherever it looks at something another party changes: the    *)
(* clock that paces requests, the socket, and the master thread's          *)
(* master_finished. pc is the place reached inside handle_event, site the  *)
(* place fill_pipeline was called from. Requests and replies are whole     *)
(* messages; a reply that has arrived only in part counts as still on its  *)
(* way. What the commands carry is left out (see RequestMix).              *)
(***************************************************************************)
EXTENDS Integers, Sequences

CONSTANTS
    Requests,           \* config->requests, 0 = unlimited
    TestTime,           \* TRUE: config->test_time is set
    ConfigFile,         \* TRUE: a rate schedule is given (config->config_file)
    ReconnectInterval,  \* config->reconnect_interval, 0 = never
    Pipeline,           \* config->pipeline
    Authenticate,       \* TRUE: config->authenticate is set
    SelectDb,           \* TRUE: config->select_db is set
    Paced,              \* TRUE: intervals come from a Poisson or Uniform generator
    MemcacheText,       \* TRUE: an error reply makes parse_response return -1
    UninitValues,       \* values m_reqs_generated may hold: no constructor sets it
    Faults,             \* what the network and the server may do wrong
    MaxGenerated        \* bound of the model: requests created in a run

FaultKinds == {"refuse", "connect", "write", "drop", "reply", "split", "stall"}

ASSUME ConfigAssumption ==
    /\ Requests \in Nat /\ ReconnectInterval \in Nat
    /\ Pipeline \in Nat \ {0}
    /\ {TestTime, ConfigFile, Authenticate, SelectDb, Paced, MemcacheText}
          \subseteq BOOLEAN
    /\ UninitValues \subseteq Nat
    /\ Faults \subseteq FaultKinds
    /\ MaxGenerated \in Nat

VARIABLES
    sock,               \* m_sockfd and the TCP state behind it
    peer,               \* the server's end: "up", "stalled" (silent) or "down"
    m_connected,
    armed,              \* events m_event is registered for
    m_authentication, m_db_selection,
    m_pipeline,         \* requests waiting for a reply, oldest first
    m_write_buf, to_server, to_client, m_read_buf,
    m_reqs_generated, m_reqs_processed,
    m_end_set,
    master_finished,
    time_up,            \* m_stats.get_duration() >= test_time
    uninit,             \* history: what m_reqs_generated held at the start
    pc, site, evtype, responses_handled

setup    == << m_authentication, m_db_selection >>
buffers  == << m_write_buf, m_read_buf >>
wire     == << to_server, to_client >>
counters == << m_reqs_generated, m_reqs_processed >>
test     == << m_end_set, master_finished, time_up, uninit >>
link     == << sock, peer, m_connected, armed >>
control  == << pc, site, evtype, responses_handled >>

vars == << link, setup, m_pipeline, buffers, wire, counters, test, control >>

Auth     == [type |-> "rt_auth", id |-> 0]
Select   == [type |-> "rt_select_db", id |-> 0]
Data(n)  == [type |-> "rt_data", id |-> n]   \* rt_get, rt_set or rt_wait
Dispatch == [type |-> "dispatch", id |-> 0]  \* the GET of gurantee_sockfd_dispatch

\* A database selection taken for a request of the test.
IsAuth(r) == r.type = "rt_auth"

IsSetup(r) == r.type # "rt_data"

-----------------------------------------------------------------------------
(* What the code asks about the client and the connection.                 *)

m_pending_resp == Len(m_pipeline)

is_conn_setup_done == m_authentication = "done" /\ m_db_selection = "done"

\* Only the limit on requests ends a test.
FinishedByRequests ==
    master_finished /\ Requests > 0 /\ m_reqs_processed >= Requests

\* finished(): nothing ends before the master says so.
finished ==
    /\ master_finished
    /\ \/ ConfigFile
       \/ Requests > 0 /\ m_reqs_processed >= Requests
       \/ TestTime /\ time_up

\* hold_pipeline without the limit on requests.
HoldReconnectOnly ==
    /\ ReconnectInterval > 0
    /\ (m_reqs_processed % ReconnectInterval)
          + (m_reqs_generated - m_reqs_processed) >= ReconnectInterval

hold_pipeline ==
    \/ Requests > 0 /\ m_reqs_generated >= Requests
    \/ /\ ReconnectInterval > 0
       /\ (m_reqs_processed % ReconnectInterval)
             + (m_reqs_generated - m_reqs_processed) >= ReconnectInterval

\* nextCycleTime < currentTime. Without a generator it never moves past the
\* moment of prepare(); with one, time decides (both loop steps are enabled).
\* The bound of the model reads as a next request that lies beyond the run.
MayBeDue    == m_reqs_generated - uninit < MaxGenerated
MayNotBeDue == Paced \/ ~MayBeDue

-----------------------------------------------------------------------------
(* Operations of the connection used by several steps.                     *)

Drained == m_write_buf' = << >> /\ m_read_buf' = << >>

\* disconnect(): m_pipeline keeps its requests.
disconnect ==
    /\ sock' = "closed"
    /\ peer' = "down"
    /\ m_connected' = FALSE
    /\ armed' = {}
    /\ Drained
    /\ to_server' = << >> /\ to_client' = << >>
    /\ m_authentication' = "done" /\ m_db_selection' = "done"

\* A new connection whose event is not registered.
ReconnectUnarmed ==
    /\ sock' = "connecting"
    /\ peer' = "up"
    /\ m_connected' = FALSE
    /\ armed' = {}
    /\ Drained
    /\ to_server' = << >> /\ to_client' = << >>
    /\ m_authentication' = IF Authenticate THEN "none" ELSE "done"
    /\ m_db_selection' = IF SelectDb THEN "none" ELSE "done"

\* client::disconnect() then client::connect() returning 0: a new socket, a new
\* event.
reconnect ==
    /\ sock' = "connecting"
    /\ peer' = "up"
    /\ m_connected' = FALSE
    /\ armed' = {"EV_WRITE"}
    /\ Drained
    /\ to_server' = << >> /\ to_client' = << >>
    /\ m_authentication' = IF Authenticate THEN "none" ELSE "done"
    /\ m_db_selection' = IF SelectDb THEN "none" ELSE "done"

\* evbuffer_write of the first n messages of buf; what reaches a server that
\* is gone is lost.
Write(buf, n) ==
    /\ m_write_buf' = SubSeq(buf, n + 1, Len(buf))
    /\ to_server' = IF peer = "down" THEN to_server
                                     ELSE to_server \o SubSeq(buf, 1, n)

WriteMayFail == "write" \in Faults \/ peer = "down"

\* Where handle_event goes on when fill_pipeline returns.
AfterFill(connected) ==
    CASE site = "connect"    -> IF connected THEN "flush" ELSE "assert_failed"
      [] site = "response" -> IF connected THEN "writable" ELSE "aborted"
      [] site = "writable" -> "rearm"

-----------------------------------------------------------------------------

\* The state prepare() leaves: connected in the kernel, no callback yet. The
\* reply of gurantee_sockfd_dispatch may have been read only in part. Without
\* a schedule the master counts as finished from the start; with one it does
\* so again from the second run on, because nobody resets it.
Init ==
    /\ sock = "established" /\ peer = "up"
    /\ m_connected = FALSE
    /\ armed = {"EV_WRITE"}
    /\ m_authentication = IF Authenticate THEN "none" ELSE "done"
    /\ m_db_selection = IF SelectDb THEN "none" ELSE "done"
    /\ m_pipeline = << >>
    /\ m_write_buf = << >> /\ to_server = << >> /\ m_read_buf = << >>
    /\ \/ to_client = << >>
       \/ "split" \in Faults /\ to_client = << [req |-> Dispatch, err |-> FALSE] >>
    /\ uninit \in UninitValues
    /\ m_reqs_generated = uninit
    /\ m_reqs_processed = 0
    /\ m_end_set = FALSE
    /\ master_finished \in {TRUE, ~ConfigFile}
    /\ time_up = FALSE
    /\ pc = "idle" /\ site = "connect" /\ evtype = {}
    /\ responses_handled = FALSE

-----------------------------------------------------------------------------
(* handle_event(evtype)                                                    *)

EventReady(e) ==
    CASE e = "EV_WRITE" -> sock \in {"established", "refused"}
      [] e = "EV_READ"  -> sock = "established"
                             /\ (to_client # << >> \/ peer = "down")

\* libevent calls back with some of the registered events; m_event is not
\* persistent, so it is no longer registered.
Callback(evs) ==
    /\ pc = "idle"
    /\ evs # {} /\ evs \subseteq armed
    /\ \A e \in evs : EventReady(e)
    /\ armed' = {}
    /\ evtype' = evs

\* connect() returning: SO_ERROR says no. The handler returns, unregistered.
ConnectFailed(evs) ==
    /\ Callback(evs)
    /\ ~m_connected /\ sock = "refused"
    /\ UNCHANGED << sock, peer, m_connected, setup, m_pipeline, buffers, wire,
                    counters, test, pc, site, responses_handled >>

ConnectDone(evs) ==
    /\ Callback(evs)
    /\ ~m_connected /\ sock = "established"
    /\ m_connected' = TRUE
    /\ pc' = "fill" /\ site' = "connect"
    /\ UNCHANGED << sock, peer, setup, m_pipeline, buffers, wire, counters,
                    test, responses_handled >>

EventOnConnected(evs) ==
    /\ Callback(evs)
    /\ m_connected
    /\ pc' = "flush"
    /\ UNCHANGED << sock, peer, m_connected, setup, m_pipeline, buffers, wire,
                    counters, test, site, responses_handled >>

Flush(n) ==
    /\ pc = "flush"
    /\ IF "EV_WRITE" \in evtype
       THEN n \in 0..Len(m_write_buf) /\ Write(m_write_buf, n)
       ELSE n = 0 /\ UNCHANGED << m_write_buf, to_server >>
    /\ pc' = "read"
    /\ UNCHANGED << link, setup, m_pipeline, m_read_buf, to_client, counters,
                    test, site, evtype, responses_handled >>

FlushFails ==
    /\ pc = "flush"
    /\ "EV_WRITE" \in evtype /\ m_write_buf # << >> /\ WriteMayFail
    /\ disconnect
    /\ pc' = "idle"
    /\ UNCHANGED << m_pipeline, counters, test, site, evtype, responses_handled >>

\* The read loop stopped at EAGAIN with n more whole replies in m_read_buf.
Read(n) ==
    /\ pc = "read" /\ "EV_READ" \in evtype
    /\ to_client # << >> /\ n \in 0..Len(to_client)
    /\ m_read_buf' = m_read_buf \o SubSeq(to_client, 1, n)
    /\ to_client' = SubSeq(to_client, n + 1, Len(to_client))
    /\ pc' = "parse" /\ responses_handled' = FALSE
    /\ UNCHANGED << link, setup, m_pipeline, m_write_buf, to_server, counters,
                    test, site, evtype >>

\* The read loop ran into the end of the stream or an error: whatever it had
\* read goes with the connection.
ReadDropped ==
    /\ pc = "read" /\ "EV_READ" \in evtype
    /\ peer = "down"
    /\ disconnect
    /\ pc' = "idle"
    /\ UNCHANGED << m_pipeline, counters, test, site, evtype, responses_handled >>

NothingToRead ==
    /\ pc = "read" /\ "EV_READ" \notin evtype
    /\ pc' = "writable"
    /\ UNCHANGED << link, setup, m_pipeline, buffers, wire, counters, test,
                    site, evtype, responses_handled >>

\* process_response has disconnected: handle_event returns and leaves the rest
\* to a later callback.
Abort ==
    /\ pc = "aborted"
    /\ pc' = "idle"
    /\ UNCHANGED << link, setup, m_pipeline, buffers, wire, counters, test,
                    site, evtype, responses_handled >>

Writable ==
    /\ pc = "writable"
    /\ IF "EV_WRITE" \in evtype
       THEN pc' = "fill" /\ site' = "writable"
       ELSE pc' = "rearm" /\ UNCHANGED site
    /\ UNCHANGED << link, setup, m_pipeline, buffers, wire, counters, test,
                    evtype, responses_handled >>

\* The event is registered again although the client has finished.
RearmAlways ==
    /\ pc = "rearm"
    /\ m_end_set' = (m_end_set \/ finished)
    /\ armed' = {"EV_WRITE"} \cup (IF m_pending_resp > 0 THEN {"EV_READ"} ELSE {})
    /\ pc' = "idle"
    /\ UNCHANGED << sock, peer, m_connected, setup, m_pipeline, buffers, wire,
                    counters, master_finished, time_up, uninit, site, evtype,
                    responses_handled >>

\* The last lines of handle_event. finished() is asked three times there; it
\* only ever turns true, so the three answers are those of one moment.
\* An event added for fd -1 (after a failed write) counts, and never fires.
Rearm ==
    /\ pc = "rearm"
    /\ IF finished
       THEN m_end_set' = TRUE /\ UNCHANGED armed
       ELSE /\ armed' = {"EV_WRITE"} \cup (IF m_pending_resp > 0 THEN {"EV_READ"} ELSE {})
            /\ UNCHANGED m_end_set
    /\ pc' = "idle"
    /\ UNCHANGED << sock, peer, m_connected, setup, m_pipeline, buffers, wire,
                    counters, master_finished, time_up, uninit, site, evtype,
                    responses_handled >>

-----------------------------------------------------------------------------
(* process_response(): one step per reply parsed, then the reconnect test. *)

\* The duration of a test is that of its answered requests (run_stats), so
\* only an answer can make its time run out; by the bound of the model the
\* answer to the last request does.
TimePasses ==
    IF TestTime /\ m_reqs_processed + 1 >= MaxGenerated
    THEN time_up' = TRUE
    ELSE time_up' \in {time_up, TestTime}

ParseReply ==
    /\ pc = "parse" /\ m_read_buf # << >> /\ m_pipeline # << >>
    /\ LET reply == Head(m_read_buf)
           req   == Head(m_pipeline)
           fails == \/ req.type = "rt_auth" /\ reply.err
                    \/ req.type = "rt_select_db" /\ (reply.err \/ reply.req = Dispatch)
       IN  /\ ~(MemcacheText /\ reply.err)
           /\ m_read_buf' = Tail(m_read_buf)
           /\ m_pipeline' = Tail(m_pipeline)
           /\ m_authentication' = IF req.type = "rt_auth" /\ ~fails
                                  THEN "done" ELSE m_authentication
           /\ m_db_selection' = IF req.type = "rt_select_db" /\ ~fails
                                THEN "done" ELSE m_db_selection
           /\ IF IsSetup(req)
              THEN UNCHANGED << m_reqs_processed, responses_handled, time_up >>
              ELSE /\ m_reqs_processed' = m_reqs_processed + 1
                   /\ responses_handled' = TRUE
                   /\ TimePasses
           /\ pc' = IF fails THEN "writable" ELSE "parse"
    /\ UNCHANGED << link, m_write_buf, wire, m_reqs_generated, m_end_set,
                    master_finished, uninit, site, evtype >>

\* A reply no request waits for: pop_req on an empty queue.
ParseUnexpected ==
    /\ pc = "parse" /\ m_read_buf # << >> /\ m_pipeline = << >>
    /\ ~(MemcacheText /\ Head(m_read_buf).err)
    /\ pc' = "assert_failed"
    /\ UNCHANGED << link, setup, m_pipeline, buffers, wire, counters, test,
                    site, evtype, responses_handled >>

\* parse_response returns -1: the line is gone, its request stays queued and
\* the rest of m_read_buf waits for the next EV_READ.
ParseError ==
    /\ pc = "parse" /\ m_read_buf # << >>
    /\ MemcacheText /\ Head(m_read_buf).err
    /\ m_read_buf' = Tail(m_read_buf)
    /\ pc' = "parsed"
    /\ UNCHANGED << link, setup, m_pipeline, m_write_buf, wire, counters, test,
                    site, evtype, responses_handled >>

ParseDone ==
    /\ pc = "parse" /\ m_read_buf = << >>
    /\ pc' = "parsed"
    /\ UNCHANGED << link, setup, m_pipeline, buffers, wire, counters, test,
                    site, evtype, responses_handled >>

IntervalOver ==
    /\ ReconnectInterval > 0 /\ responses_handled
    /\ m_reqs_processed % ReconnectInterval = 0

\* Reconnect without the assertion on an empty pipeline.
ReconnectUnchecked ==
    /\ pc = "parsed" /\ IntervalOver
    /\ reconnect /\ pc' = "aborted"
    /\ UNCHANGED << m_pipeline, counters, test, site, evtype, responses_handled >>

Reconnect ==
    /\ pc = "parsed" /\ IntervalOver
    /\ IF m_pipeline = << >>
       THEN reconnect /\ pc' = "aborted"
       ELSE pc' = "assert_failed" /\ UNCHANGED << link, setup, buffers, wire >>
    /\ UNCHANGED << m_pipeline, counters, test, site, evtype, responses_handled >>

\* client::connect() returning -1: the address does not resolve, or socket() or
\* ::connect() fails at once. assert(ret == 0) ends the program.
ReconnectFails ==
    /\ pc = "parsed" /\ IntervalOver /\ m_pipeline = << >>
    /\ "connect" \in Faults
    /\ disconnect
    /\ pc' = "assert_failed"
    /\ UNCHANGED << m_pipeline, counters, test, site, evtype, responses_handled >>

ResponsesDone ==
    /\ pc = "parsed" /\ ~IntervalOver
    /\ pc' = "fill" /\ site' = "response"
    /\ UNCHANGED << link, setup, m_pipeline, buffers, wire, counters, test,
                    evtype, responses_handled >>

-----------------------------------------------------------------------------
(* fill_pipeline()                                                         *)

FillHeld ==
    /\ pc = "fill" /\ hold_pipeline
    /\ pc' = AfterFill(TRUE)
    /\ UNCHANGED << link, setup, m_pipeline, buffers, wire, counters, test,
                    site, evtype, responses_handled >>

\* The setup commands not sent yet, in the order send_conn_setup_commands
\* sends them.
SetupCommands ==
    (IF m_authentication = "none" THEN << Auth >> ELSE << >>)
        \o (IF m_db_selection = "none" THEN << Select >> ELSE << >>)

FillStart ==
    /\ pc = "fill" /\ ~hold_pipeline
    /\ m_pipeline' = m_pipeline \o SetupCommands
    /\ m_write_buf' = m_write_buf \o SetupCommands
    /\ m_authentication' = IF m_authentication = "none" THEN "sent"
                           ELSE m_authentication
    /\ m_db_selection' = IF m_db_selection = "none" THEN "sent"
                         ELSE m_db_selection
    /\ pc' = "loop"
    /\ UNCHANGED << link, m_read_buf, wire, counters, test, site, evtype,
                    responses_handled >>

\* Off by one: room for one request more than the pipeline holds.
MaySendOneMore == ~finished /\ Len(m_pipeline) <= Pipeline /\ MayBeDue

MaySend == ~finished /\ Len(m_pipeline) < Pipeline /\ MayBeDue

\* One turn of the loop: create_request, then write what the socket takes.
SendRequest(n) ==
    /\ pc = "loop" /\ MaySend
    /\ LET req == Data(m_reqs_generated + 1)
           buf == Append(m_write_buf, req)
       IN  /\ m_pipeline' = Append(m_pipeline, req)
           /\ n \in 0..Len(buf)
           /\ Write(buf, n)
    /\ m_reqs_generated' = m_reqs_generated + 1
    /\ UNCHANGED << link, setup, m_read_buf, to_client, m_reqs_processed, test,
                    control >>

SendRequestFails ==
    /\ pc = "loop" /\ MaySend /\ WriteMayFail
    /\ m_pipeline' = Append(m_pipeline, Data(m_reqs_generated + 1))
    /\ m_reqs_generated' = m_reqs_generated + 1
    /\ disconnect
    /\ pc' = AfterFill(FALSE)
    /\ UNCHANGED << m_reqs_processed, test, site, evtype, responses_handled >>

FillDone ==
    /\ pc = "loop"
    /\ finished \/ Len(m_pipeline) >= Pipeline \/ MayNotBeDue
    /\ pc' = AfterFill(TRUE)
    /\ UNCHANGED << link, setup, m_pipeline, buffers, wire, counters, test,
                    site, evtype, responses_handled >>

-----------------------------------------------------------------------------
(* The other parties: kernel and server, and the master thread.            *)

KernelConnects ==
    /\ sock = "connecting"
    /\ \/ sock' = "established"
       \/ "refuse" \in Faults /\ sock' = "refused"
    /\ UNCHANGED << peer, m_connected, armed, setup, m_pipeline, buffers, wire,
                    counters, test, control >>

\* The server answers requests in the order it receives them.
ServerReplies ==
    /\ peer = "up" /\ to_server # << >>
    /\ to_server' = Tail(to_server)
    /\ \E err \in BOOLEAN :
          /\ err => "reply" \in Faults
          /\ to_client' = Append(to_client, [req |-> Head(to_server), err |-> err])
    /\ UNCHANGED << link, setup, m_pipeline, buffers, counters, test, control >>

ServerDrops ==
    /\ "drop" \in Faults
    /\ peer # "down" /\ sock = "established"
    /\ peer' = "down"
    /\ to_server' = << >>
    /\ UNCHANGED << sock, m_connected, armed, setup, m_pipeline, buffers,
                    to_client, counters, test, control >>

\* The server stops answering and keeps its connections.
ServerStalls ==
    /\ "stall" \in Faults
    /\ peer = "up"
    /\ peer' = "stalled"
    /\ UNCHANGED << sock, m_connected, armed, setup, m_pipeline, buffers, wire,
                    counters, test, control >>

\* start_master has played every interval of the schedule.
MasterFinishes ==
    /\ ~master_finished
    /\ master_finished' = TRUE
    /\ UNCHANGED << link, setup, m_pipeline, buffers, wire, counters, m_end_set,
                    time_up, uninit, control >>

-----------------------------------------------------------------------------

HandleEvent ==
    \E evs \in SUBSET {"EV_READ", "EV_WRITE"} :
        ConnectFailed(evs) \/ ConnectDone(evs) \/ EventOnConnected(evs)

FlushSome == \E n \in 0..Len(m_write_buf) : Flush(n)
ReadSome == \E n \in 0..Len(to_client) : Read(n)
SendSome == \E n \in 0..(Len(m_write_buf) + 1) : SendRequest(n)

EventLoop ==
    \/ HandleEvent
    \/ FlushSome \/ FlushFails
    \/ ReadSome \/ ReadDropped \/ NothingToRead
    \/ ParseReply \/ ParseUnexpected \/ ParseError \/ ParseDone
    \/ Reconnect \/ ReconnectFails \/ ResponsesDone
    \/ FillHeld \/ FillStart \/ SendSome \/ SendRequestFails \/ FillDone
    \/ Abort \/ Writable \/ Rearm

Next ==
    \/ EventLoop
    \/ KernelConnects \/ ServerReplies \/ ServerDrops \/ ServerStalls
    \/ MasterFinishes

Spec == Init /\ [][Next]_vars

-----------------------------------------------------------------------------
(* Fairness. The event loop always goes on. libevent reports every         *)
(* descriptor that is ready, so a reply that stays in the socket is        *)
(* reported again and again until it is read; a socket the peer reads from *)
(* always takes data again; a paced client's next request becomes due.     *)

ReadCallback == \E evs \in SUBSET {"EV_READ", "EV_WRITE"} :
                    "EV_READ" \in evs /\ EventOnConnected(evs)
ReadAll  == to_client # << >> /\ Read(Len(to_client))
FlushAll == m_write_buf # << >> /\ "EV_WRITE" \in evtype
                /\ Flush(Len(m_write_buf))

Fairness ==
    /\ WF_vars(EventLoop)
    /\ SF_vars(ReadCallback) /\ SF_vars(ReadAll)
    /\ SF_vars(FlushAll) /\ SF_vars(SendSome)
    /\ WF_vars(KernelConnects) /\ WF_vars(ServerReplies)
    /\ WF_vars(MasterFinishes)

FairSpec == Spec /\ Fairness

-----------------------------------------------------------------------------
(* Properties                                                              *)

RequestSet == [type : {"rt_auth", "rt_select_db", "rt_data", "dispatch"}, id : Nat]
ReplySet == [req : RequestSet, err : BOOLEAN]

TypeOK ==
    /\ sock \in {"closed", "connecting", "established", "refused"}
    /\ peer \in {"up", "stalled", "down"}
    /\ m_connected \in BOOLEAN
    /\ armed \subseteq {"EV_READ", "EV_WRITE"}
    /\ m_authentication \in {"none", "sent", "done"}
    /\ m_db_selection \in {"none", "sent", "done"}
    /\ m_pipeline \in Seq(RequestSet)
    /\ m_write_buf \in Seq(RequestSet) /\ to_server \in Seq(RequestSet)
    /\ to_client \in Seq(ReplySet) /\ m_read_buf \in Seq(ReplySet)
    /\ m_reqs_generated \in Nat /\ m_reqs_processed \in Nat
    /\ m_end_set \in BOOLEAN /\ master_finished \in BOOLEAN
    /\ time_up \in BOOLEAN
    /\ uninit \in UninitValues
    /\ pc \in {"idle", "flush", "read", "parse", "parsed", "writable", "fill",
               "loop", "aborted", "rearm", "assert_failed"}
    /\ site \in {"connect", "response", "writable"}
    /\ evtype \subseteq {"EV_READ", "EV_WRITE"}
    /\ responses_handled \in BOOLEAN

sent == m_reqs_generated - uninit

\* A queue of n requests of the test, behind the setup commands.
Holds(queue, n) ==
    \E k \in 0..Len(queue) :
        /\ \A i \in 1..Len(queue) : IsSetup(queue[i]) <=> i <= k
        /\ n = Len(queue) - k

\* Every request of the test is answered or waits in the pipeline, behind the
\* setup commands: the two counters and the queue never disagree, through
\* failures and reconnections.
Accounting == Holds(m_pipeline, sent - m_reqs_processed)

\* Of a client with a limit, at most Pipeline - 1 requests more than asked
\* for are ever sent: hold_pipeline ("don't exceed requests") is asked once per
\* fill_pipeline, whose loop then sends until the pipeline is full.
RequestsBound ==
    Requests > 0 => m_reqs_generated \in UninitValues
                    \/ m_reqs_generated < Requests + Pipeline

\* Replies and requests stay in step: on a live connection what is on its way,
\* in either direction and in both buffers, is the pipeline, in order.
requests_of(replies) == [i \in DOMAIN replies |-> replies[i].req]

WireInOrder ==
    m_connected /\ peer # "down" =>
        requests_of(m_read_buf) \o requests_of(to_client)
            \o to_server \o m_write_buf = m_pipeline

\* No request of the test is sent before the connection's setup is answered.
SetupFirst ==
    (\E i \in DOMAIN m_pipeline : ~IsSetup(m_pipeline[i])) => is_conn_setup_done

\* No assertion of handle_event, process_response or pop_req fails, as long as
\* a new connection gets as far as being connecting.
NoAssertFails == pc # "assert_failed"

\* After set_end_time nothing is sent or counted any more, although answers
\* may still be on their way.
NothingAfterEnd == [][m_end_set => UNCHANGED counters]_vars

\* A client with a limit on requests ends ("Number of total requests per
\* client", memtier_benchmark.cpp:939), having been answered that many, unless a
\* reconnection is refused: handle_event then returns with m_event unregistered
\* and the client is never called back.
Completes ==
    <>(\/ m_end_set /\ m_reqs_processed >= Requests
       \/ sock = "refused")

\* The pipeline takes no further request and nothing is on its way that could
\* free a place: replies that do not parse took their requests' answers with
\* them, or stopped the parse before whole replies that no event looks at again.
\* At the bound of the model no further request comes whose answer would do so.
Starved ==
    /\ pc = "idle"
    /\ m_pipeline # << >> /\ (Len(m_pipeline) < Pipeline => ~MayBeDue)
    /\ m_write_buf = << >> /\ to_server = << >> /\ to_client = << >>

\* A client that follows a schedule ends once the master has played it, one with
\* a time limit ("Number of seconds to run the test") once that has passed,
\* unless a write failed, an assertion did, or replies that do not parse have
\* taken every place of the pipeline.
EndsOrStarves ==
    <>(m_end_set \/ sock = "closed" \/ pc = "assert_failed" \/ Starved)

\* The connection and its client implement a closed loop of Pipeline requests.
CL == INSTANCE ClosedLoop WITH Limit <- Requests, Window <- Pipeline,
          issued <- sent, completed <- m_reqs_processed, ended <- m_end_set

ImplementsClosedLoop == CL!Spec

=============================================================================
