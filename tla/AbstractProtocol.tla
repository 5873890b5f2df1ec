-------------------------- MODULE AbstractProtocol --------------------------
(***************************************************************************)
(* What the three protocols share: requests are written as commands, the   *)
(* server answers them in order, the answers arrive in pieces, and         *)
(* process_response calls parse_response until it returns 0 or -1. Every   *)
(* action below parse_response is one turn of its loop.                    *)
(*                                                                         *)
(* The stream is cut into items: a line, a block of data with its CRLF, a  *)
(* binary header or body. An item that has arrived in part is one that is  *)
(* still on its way, because every read of the code waits for a whole one. *)
(* The length of a block stands for its contents too.                      *)
(***************************************************************************)
EXTENDS Integers, Sequences, SequencesExt

CONSTANTS
    Configs         \* the configurations explored. Their last fields are bounds of
                    \* the model: requests sent on the connection, bytes of a
                    \* value, and ranges in a reply to CLUSTER SLOTS

Protocols == {"redis", "memcache_text", "memcache_binary"}

\* What main lets pass: an offset only for redis and without expiry.
Admitted(c) ==
    /\ c.protocol \in Protocols
    /\ {c.offset, c.expiry, c.keep} \subseteq BOOLEAN
    /\ c.offset => c.protocol = "redis" /\ ~c.expiry
    /\ c.keys \in Nat

\* A cluster has no more ranges than it has slots.
Slots == 16384

ASSUME ProtocolAssumption ==
    \A c \in Configs :
        Admitted(c) /\ c.requests \in Nat /\ c.length \in Nat /\ c.ranges \in 0..Slots

VARIABLES
    config,             \* protocol, data_offset, expiry_range, data_verify,
                        \* multi_key_get
    asked,              \* history: the commands written, oldest first
    replied,            \* history: the replies of the server
    incoming,           \* items on their way to the client
    m_read_buf,         \* items read and not parsed
    m_response_state,
    m_last_response,
    m_response_len,     \* items that make the response so far
    m_bulk_len,
    current_mbulk_level,
    results,            \* history: the responses parse_response returned
    derailed,           \* history: an array was cut in front of a bulk, or empty
    pc                  \* "idle", "parsing" or "assert_failed"

parser  == << m_response_state, m_last_response, m_response_len, m_bulk_len,
              current_mbulk_level >>
history == << asked, replied, results, derailed >>
vars == << config, incoming, m_read_buf, parser, history, pc >>

Item(kind, n) == [kind |-> kind, n |-> n]
Line(kind)    == << Item(kind, 0) >>

\* protocol_response::clear(): no status, no value, no array.
Cleared == [status |-> "NULL", error |-> FALSE, hits |-> 0, value |-> 0,
            total_len |-> 0, elements |-> -1]

-----------------------------------------------------------------------------
(* The steps parse_response is made of.                                    *)

Parsing(protocol, state) ==
    /\ pc = "parsing"
    /\ config.protocol = protocol
    /\ m_response_state = state

HasItem(kinds) == m_read_buf # << >> /\ Head(m_read_buf).kind \in kinds

Consume == m_read_buf' = Tail(m_read_buf)

\* return 1: process_response takes the response and calls again.
Return1(response) ==
    /\ m_last_response' = response
    /\ results' = Append(results, response)
    /\ UNCHANGED << config, incoming, asked, replied, derailed, pc >>

\* Another turn of the loop.
Continue ==
    UNCHANGED << config, incoming, asked, replied, results, derailed, pc >>

\* return 0 for want of input.
ReturnZero ==
    /\ pc = "parsing" /\ m_read_buf = << >>
    /\ config.protocol = "memcache_text" =>
          m_response_state \in {"rs_read_section", "rs_read_value"}
    /\ pc' = "idle"
    /\ UNCHANGED << config, incoming, m_read_buf, parser, history >>

AssertFails ==
    /\ pc' = "assert_failed"
    /\ UNCHANGED << config, incoming, m_read_buf, parser, history >>

-----------------------------------------------------------------------------
(* Requests, the server and the network.                                   *)

Requests == {"set", "get", "mget", "wait", "auth", "select", "slots"}

\* The requests a connection may be asked for: main checks authentication and
\* databases, and that cluster mode is for redis.
MayAsk(type) ==
    /\ type = "auth" => config.protocol # "memcache_text"
    /\ type \in {"select", "slots"} => config.protocol = "redis"

Keys(type) == IF type = "mget" THEN config.keys ELSE 1

\* One of the write_command functions puts cmd in the write buffer.
Write(cmd, type) ==
    /\ pc = "idle" /\ Len(asked) < config.requests /\ MayAsk(type)
    /\ asked' = Append(asked, [cmd |-> cmd, keys |-> Keys(type)])
    /\ UNCHANGED << config, incoming, m_read_buf, parser, replied, results,
                    derailed, pc >>

\* A write_command that is not implemented: assert(0).
Unsupported(type) ==
    /\ pc = "idle" /\ Len(asked) < config.requests /\ MayAsk(type)
    /\ AssertFails

\* The server answers the oldest command that has no answer yet.
Answer(replies(_)) ==
    /\ Len(replied) < Len(asked) /\ pc # "assert_failed"
    /\ \E reply \in replies(asked[Len(replied) + 1]) :
          /\ incoming' = incoming \o reply
          /\ replied' = Append(replied, reply)
    /\ UNCHANGED << config, m_read_buf, parser, asked, results, derailed, pc >>

\* EV_READ: the next n items are read, and parsed.
Arrive(n) ==
    /\ pc = "idle" /\ n \in 1..Len(incoming)
    /\ m_read_buf' = m_read_buf \o SubSeq(incoming, 1, n)
    /\ incoming' = SubSeq(incoming, n + 1, Len(incoming))
    /\ pc' = "parsing"
    /\ UNCHANGED << config, parser, history >>

ArriveSome == \E n \in 1..Len(incoming) : Arrive(n)

Init ==
    /\ config \in Configs
    /\ asked = << >> /\ replied = << >> /\ results = << >>
    /\ incoming = << >> /\ m_read_buf = << >>
    /\ m_response_state = "rs_initial"
    /\ m_last_response = Cleared
    /\ m_response_len = 0 /\ m_bulk_len = 0
    /\ current_mbulk_level = << >>
    /\ derailed = FALSE
    /\ pc = "idle"

=============================================================================
