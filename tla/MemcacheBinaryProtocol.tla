----------------------- MODULE MemcacheBinaryProtocol -----------------------
(***************************************************************************)
(* memcache_binary_protocol: its commands, the replies of memcached to     *)
(* them, and its parser. The kind of a header is its status, its n the     *)
(* length of the body that follows.                                        *)
(***************************************************************************)
EXTENDS AbstractProtocol

BinaryCommand(type) ==
    CASE type = "set" -> "CMD_SET" [] type = "get" -> "CMD_GET"
      [] type = "auth" -> "CMD_SASL_AUTH"

BinaryWrite ==
    /\ config.protocol = "memcache_binary"
    /\ \E type \in {"set", "get", "auth"} : Write(BinaryCommand(type), type)

BinaryUnsupported ==
    /\ config.protocol = "memcache_binary"
    /\ \E type \in {"mget", "wait"} : Unsupported(type)

\* The statuses that are reported as errors, of those a server may give.
ErrorStatuses == {"AUTH_ERROR", "EBUSY"}

Packet(status, n) == << Item(status, n), Item("data", n) >>

\* A body holds a value, or the text of a status that is not SUCCESS.
BinaryReplies(c) ==
    CASE c.cmd = "CMD_SET" ->
            {<< Item("SUCCESS", 0) >>} \cup
            { Packet(s, 3) : s \in {"EBUSY", "ENOMEM"} }
      [] c.cmd = "CMD_GET" ->
            { Packet("SUCCESS", n) : n \in 1..config.length } \cup
            { Packet(s, 3) : s \in {"EBUSY", "KEY_ENOENT"} }
      [] c.cmd = "CMD_SASL_AUTH" ->
            { Packet(s, 3) : s \in {"SUCCESS", "AUTH_ERROR"} }

BinaryServer == config.protocol = "memcache_binary" /\ Answer(BinaryReplies)

-----------------------------------------------------------------------------

BinaryStarted ==
    LET status == Head(m_read_buf).kind
    IN  [Cleared EXCEPT !.status = status, !.error = (status \in ErrorStatuses)]

\* Every header is taken to be followed by a body.
BinaryHeaderWaits ==
    /\ Parsing("memcache_binary", "rs_initial") /\ m_read_buf # << >> /\ Consume
    /\ m_response_len' = 1
    /\ m_bulk_len' = Head(m_read_buf).n
    /\ m_last_response' = BinaryStarted
    /\ m_response_state' = "rs_read_body"
    /\ Continue
    /\ UNCHANGED current_mbulk_level

\* A header; without a body it is the whole response.
BinaryHeader ==
    /\ Parsing("memcache_binary", "rs_initial") /\ m_read_buf # << >> /\ Consume
    /\ m_response_len' = 1
    /\ m_bulk_len' = Head(m_read_buf).n
    /\ IF Head(m_read_buf).n = 0
       THEN Return1(BinaryStarted) /\ UNCHANGED m_response_state
       ELSE /\ m_last_response' = BinaryStarted
            /\ m_response_state' = "rs_read_body"
            /\ Continue
    /\ UNCHANGED current_mbulk_level

\* The body, of an error too, is the value; set_total_len is never called.
BinaryBody ==
    /\ Parsing("memcache_binary", "rs_read_body") /\ m_read_buf # << >> /\ Consume
    /\ m_response_state' = "rs_initial"
    /\ m_response_len' = m_response_len + 1
    /\ Return1([m_last_response EXCEPT
          !.value = IF config.keep THEN m_bulk_len ELSE @,
          !.hits = IF m_last_response.status = "SUCCESS" THEN @ + 1 ELSE @])
    /\ UNCHANGED << m_bulk_len, current_mbulk_level >>

MemcacheBinary ==
    \/ BinaryWrite \/ BinaryUnsupported \/ BinaryServer
    \/ BinaryHeader \/ BinaryBody

=============================================================================
