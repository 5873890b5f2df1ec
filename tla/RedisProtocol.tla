--------------------------- MODULE RedisProtocol ----------------------------
(***************************************************************************)
(* redis_protocol: its commands, the replies of a Redis server to them,    *)
(* and its parser. An array is the answer to CLUSTER SLOTS only.           *)
(***************************************************************************)
EXTENDS AbstractProtocol

RedisCommand(type) ==
    CASE type = "set" -> IF config.offset THEN "SETRANGE"
                         ELSE IF config.expiry THEN "SETEX" ELSE "SET"
      [] type = "get" -> IF config.offset THEN "GETRANGE" ELSE "GET"
      [] type = "wait" -> "WAIT"
      [] type = "auth" -> "AUTH"
      [] type = "select" -> "SELECT"
      [] type = "slots" -> "CLUSTER SLOTS"

RedisWrite ==
    /\ config.protocol = "redis"
    /\ \E type \in Requests \ {"mget"} : Write(RedisCommand(type), type)

RedisMultiGet == config.protocol = "redis" /\ Unsupported("mget")

Bulk(n) == << Item("$", n), Item("data", n) >>

\* One range of slots: its ends and a node, which is an address and a port.
OneRange == << Item("*", 3), Item(":", 0), Item(":", 0),
               Item("*", 2), Item("$", 1), Item("data", 1), Item(":", 0) >>

\* The array of n ranges.
Ranges(n) ==
    << Item("*", n) >> \o [i \in 1..(n * Len(OneRange)) |-> OneRange[((i - 1) % Len(OneRange)) + 1]]

RedisReplies(c) ==
    {Line("-")} \cup
    CASE c.cmd = "GET"      -> { Bulk(n) : n \in 1..config.length } \cup {<< Item("$", -1) >>}
      [] c.cmd = "GETRANGE" -> { Bulk(n) : n \in 0..config.length }
      [] c.cmd \in {"SETRANGE", "WAIT"} -> {Line(":")}
      [] c.cmd = "CLUSTER SLOTS" -> { Ranges(n) : n \in 0..config.ranges }
      [] OTHER -> {Line("+")}

RedisServer == config.protocol = "redis" /\ Answer(RedisReplies)

-----------------------------------------------------------------------------
(* rs_initial                                                              *)

FirstLine(kinds) == Parsing("redis", "rs_initial") /\ HasItem(kinds) /\ Consume

\* The response before is not cleared.
NotCleared == [m_last_response EXCEPT !.status = Head(m_read_buf).kind]

Started == [Cleared EXCEPT !.status = Head(m_read_buf).kind]

RedisStatus ==
    /\ FirstLine({"+", "-", ":"})
    /\ Return1([Started EXCEPT !.error = (Head(m_read_buf).kind = "-"),
                               !.total_len = 1])
    /\ m_response_len' = 1
    /\ UNCHANGED << m_response_state, m_bulk_len, current_mbulk_level >>

\* No such key: the line is not counted in the length of the response.
RedisNull ==
    /\ FirstLine({"$"}) /\ Head(m_read_buf).n = -1
    /\ Return1(Started)
    /\ m_response_len' = 1
    /\ UNCHANGED << m_response_state, m_bulk_len, current_mbulk_level >>

RedisBulkHeader ==
    /\ FirstLine({"$"}) /\ Head(m_read_buf).n >= 0
    /\ m_bulk_len' = Head(m_read_buf).n
    /\ m_response_state' = "rs_read_bulk"
    /\ m_last_response' = Started
    /\ m_response_len' = 1
    /\ Continue
    /\ UNCHANGED current_mbulk_level

\* An array of no elements is waited for like any other, and never ends.
RedisArrayHeader ==
    /\ FirstLine({"*"})
    /\ m_response_state' = "rs_read_mbulk"
    /\ m_last_response' = [Started EXCEPT !.elements = 0]
    /\ current_mbulk_level' = << Head(m_read_buf).n >>
    /\ m_response_len' = 1
    /\ derailed' = (derailed \/ Head(m_read_buf).n = 0)
    /\ UNCHANGED << config, incoming, asked, replied, results, pc, m_bulk_len >>

-----------------------------------------------------------------------------
(* rs_read_bulk                                                            *)

\* An empty value is no hit.
RedisBulk ==
    /\ Parsing("redis", "rs_read_bulk") /\ m_read_buf # << >> /\ Consume
    /\ m_response_state' = "rs_initial"
    /\ Return1([m_last_response EXCEPT
          !.value = IF config.keep /\ m_bulk_len > 0 THEN m_bulk_len ELSE @,
          !.hits = IF m_bulk_len > 0 THEN @ + 1 ELSE @,
          !.total_len = m_response_len + 1])
    /\ UNCHANGED << m_response_len, m_bulk_len, current_mbulk_level >>

-----------------------------------------------------------------------------
(* rs_read_mbulk                                                           *)

\* The counts are unsigned: what is below zero is a large number.
CountWrap == 1073741824

\* A level is never left.
AddedToKeeps(levels) ==
    Append(Front(levels), (Last(levels) + CountWrap - 1) % CountWrap)

\* add_mbulk_value: one element less to come on the innermost level, which is
\* left when that was the last.
AddedTo(levels) ==
    LET count == (Last(levels) + CountWrap - 1) % CountWrap
    IN  IF count = 0 THEN Front(levels) ELSE Append(Front(levels), count)

NextLine(kinds) == Parsing("redis", "rs_read_mbulk") /\ HasItem(kinds) /\ Consume

WithElement == [m_last_response EXCEPT !.elements = @ + 1]

\* An element without elements of its own; the array may be complete.
AddValue ==
    LET levels == AddedTo(current_mbulk_level)
    IN  /\ current_mbulk_level' = levels
        /\ IF levels = << >>
           THEN Return1(WithElement) /\ m_response_state' = "rs_initial"
           ELSE /\ m_last_response' = WithElement
                /\ Continue
                /\ UNCHANGED m_response_state

RedisNestedArray ==
    /\ NextLine({"*"})
    /\ current_mbulk_level' = Append(AddedTo(current_mbulk_level), Head(m_read_buf).n)
    /\ m_last_response' = [WithElement EXCEPT !.status = "*"]
    /\ derailed' = (derailed \/ Head(m_read_buf).n = 0)
    /\ m_response_len' = 1
    /\ UNCHANGED << config, incoming, asked, replied, results, pc,
                    m_response_state, m_bulk_len >>

RedisInteger ==
    /\ NextLine({":"})
    /\ AddValue
    /\ m_response_len' = 1
    /\ UNCHANGED m_bulk_len

\* A bulk that has arrived whole. Of a null one the length is a huge unsigned
\* number, and the test for it overflows: all that has been read is its value.
RedisBulkElement ==
    /\ Parsing("redis", "rs_read_mbulk") /\ HasItem({"$"})
    /\ Len(m_read_buf) > 1
    /\ m_read_buf' = IF Head(m_read_buf).n = -1 THEN << >> ELSE Tail(Tail(m_read_buf))
    /\ m_bulk_len' = Head(m_read_buf).n
    /\ AddValue
    /\ m_response_len' = 1

\* return 0 in front of the data: the line is gone, and its data will be read
\* as a line.
RedisBulkCut ==
    /\ NextLine({"$"}) /\ Len(m_read_buf) = 1
    /\ m_bulk_len' = Head(m_read_buf).n
    /\ m_response_len' = 1
    /\ derailed' = TRUE
    /\ pc' = "idle"
    /\ UNCHANGED << config, incoming, asked, replied, results, m_response_state,
                    m_last_response, current_mbulk_level >>

\* Every other line is skipped.
RedisSkip ==
    /\ NextLine({"+", "-", "data"})
    /\ m_response_len' = 1
    /\ Continue
    /\ UNCHANGED << m_response_state, m_last_response, m_bulk_len,
                    current_mbulk_level >>

Redis ==
    \/ RedisWrite \/ RedisMultiGet \/ RedisServer
    \/ RedisStatus \/ RedisNull \/ RedisBulkHeader \/ RedisArrayHeader
    \/ RedisBulk
    \/ RedisNestedArray \/ RedisInteger \/ RedisBulkElement \/ RedisBulkCut
    \/ RedisSkip

=============================================================================
