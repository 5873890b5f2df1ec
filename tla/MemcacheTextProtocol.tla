------------------------ MODULE MemcacheTextProtocol ------------------------
(***************************************************************************)
(* memcache_text_protocol: its commands, the replies of memcached to them, *)
(* and its parser, which reads sections (a line, and data after VALUE)     *)
(* until END or STORED.                                                    *)
(***************************************************************************)
EXTENDS AbstractProtocol

TextCommand(type) == IF type = "set" THEN "set" ELSE "get"

TextWrite ==
    /\ config.protocol = "memcache_text"
    /\ \E type \in {"set", "get", "mget"} : Write(TextCommand(type), type)

TextWait == config.protocol = "memcache_text" /\ Unsupported("wait")

\* A line and data for each of the values, and the line that ends them.
Sections(hits) ==
    [i \in 1..(2 * hits) |-> Item(IF i % 2 = 1 THEN "VALUE" ELSE "data", 1)] \o Line("END")

\* A get of several keys is answered with a section for each that is there.
TextReplies(c) ==
    {Line("SERVER_ERROR")} \cup
    IF c.cmd = "set" THEN {Line("STORED")}
    ELSE { Sections(hits) : hits \in 0..c.keys }

TextServer == config.protocol = "memcache_text" /\ Answer(TextReplies)

-----------------------------------------------------------------------------

TextInitial ==
    /\ Parsing("memcache_text", "rs_initial")
    /\ m_last_response' = Cleared
    /\ m_response_state' = "rs_read_section"
    /\ m_response_len' = 0
    /\ Continue
    /\ UNCHANGED << m_read_buf, m_bulk_len, current_mbulk_level >>

\* A line of a section: the first one is the status.
SectionLine(kinds) ==
    Parsing("memcache_text", "rs_read_section") /\ HasItem(kinds) /\ Consume

WithLine ==
    [m_last_response EXCEPT
        !.status = IF @ = "NULL" THEN Head(m_read_buf).kind ELSE @,
        !.total_len = m_response_len + 1]

TextValueHeader ==
    /\ SectionLine({"VALUE"})
    /\ m_last_response' = WithLine
    /\ m_response_len' = m_response_len + 1
    /\ m_bulk_len' = Head(m_read_buf).n
    /\ m_response_state' = "rs_read_value"
    /\ Continue
    /\ UNCHANGED current_mbulk_level

TextEndLine ==
    /\ SectionLine({"END", "STORED"})
    /\ m_last_response' = WithLine
    /\ m_response_len' = m_response_len + 1
    /\ m_response_state' = "rs_read_end"
    /\ Continue
    /\ UNCHANGED << m_bulk_len, current_mbulk_level >>

\* return -1 on a line it does not know: the state, the status and the error
\* are those the next reply begins with.
TextUnknownLine ==
    /\ SectionLine({"SERVER_ERROR"})
    /\ m_last_response' = [WithLine EXCEPT !.error = TRUE]
    /\ m_response_len' = m_response_len + 1
    /\ pc' = "idle"
    /\ UNCHANGED << config, incoming, history, m_response_state, m_bulk_len,
                    current_mbulk_level >>

\* A value that is to be kept fails the assertion on what evbuffer_remove
\* returns, the number of bytes it removed.
TextValue ==
    /\ Parsing("memcache_text", "rs_read_value") /\ m_read_buf # << >>
    /\ IF config.keep
       THEN AssertFails
       ELSE /\ Consume
            /\ m_last_response' = [m_last_response EXCEPT !.hits = @ + 1]
            /\ m_response_len' = m_response_len + 1
            /\ m_response_state' = "rs_read_section"
            /\ Continue
            /\ UNCHANGED << m_bulk_len, current_mbulk_level >>

TextEnd ==
    /\ Parsing("memcache_text", "rs_read_end")
    /\ m_response_state' = "rs_initial"
    /\ Return1(m_last_response)
    /\ UNCHANGED << m_read_buf, m_response_len, m_bulk_len, current_mbulk_level >>

MemcacheText ==
    \/ TextWrite \/ TextWait \/ TextServer
    \/ TextInitial \/ TextValueHeader \/ TextEndLine \/ TextUnknownLine
    \/ TextValue \/ TextEnd

=============================================================================
