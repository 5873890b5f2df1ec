----------------------------- MODULE Protocols ------------------------------
(***************************************************************************)
(* A connection of any of the three protocols (protocol_factory), pipelined *)
(* as deep as the requests go: the responses parse_response returns, in     *)
(* order, are what the server answered, in order.                           *)
(***************************************************************************)
EXTENDS RedisProtocol, MemcacheTextProtocol, MemcacheBinaryProtocol, FiniteSets

Next == Redis \/ MemcacheText \/ MemcacheBinary \/ ReturnZero \/ ArriveSome

Spec == Init /\ [][Next]_vars

\* The server answers, what it sends arrives, and parse_response, called when
\* something arrives, runs until it returns.
Fairness ==
    /\ WF_vars(RedisServer \/ TextServer \/ BinaryServer)
    /\ WF_vars(ArriveSome)
    /\ WF_vars(pc = "parsing" /\ Next)

FairSpec == Spec /\ Fairness

-----------------------------------------------------------------------------
(* What the replies say.                                                   *)

\* The replies parse_response gives up on: they make no response.
Unparsable(reply) == Head(reply).kind = "SERVER_ERROR"

Count(reply, kinds) == Cardinality({ i \in DOMAIN reply : reply[i].kind \in kinds })

Has(reply, kind) == \E i \in DOMAIN reply : reply[i].kind = kind

\* The length of the value.
Value(reply) ==
    reply[CHOOSE i \in DOMAIN reply : reply[i].kind = "data"].n

\* A value was asked for and is there.
Hits(reply) ==
    CASE config.protocol = "redis" /\ Has(reply, "$") /\ ~Has(reply, "*") ->
            IF Head(reply).n > 0 THEN 1 ELSE 0
      [] config.protocol = "memcache_text" -> Count(reply, {"VALUE"})
      [] config.protocol = "memcache_binary" ->
            IF Has(reply, "SUCCESS") /\ Has(reply, "data") THEN 1 ELSE 0
      [] OTHER -> 0

\* The bytes the response is counted with: those of the null reply, of arrays and of
\* the binary protocol are missing.
TotalLen(reply) ==
    IF config.protocol = "memcache_binary" \/ Has(reply, "*") \/ Head(reply).n = -1
    THEN 0 ELSE Len(reply)

Response(reply) ==
    [status    |-> Head(reply).kind,
     error     |-> Head(reply).kind \in {"-", "AUTH_ERROR", "EBUSY"},
     hits      |-> Hits(reply),
     value     |-> IF config.keep /\ Has(reply, "data") /\ ~Has(reply, "*")
                   THEN Value(reply) ELSE 0,
     total_len |-> TotalLen(reply),
     elements  |-> IF Has(reply, "*") THEN Count(reply, {"*", ":", "$"}) - 1 ELSE -1]

\* The errors in front of reply k, one after the other.
ErrorsBefore(k) ==
    Cardinality({ i \in 1..(k - 1) : \A j \in i..(k - 1) : Unparsable(replied[j]) })

\* What is returned for reply k: errors in front of it leave their status, their
\* error flag and their length to it.
Returned(k) ==
    LET response == Response(replied[k])
    IN  IF ErrorsBefore(k) = 0 THEN response
        ELSE [response EXCEPT !.status = "SERVER_ERROR", !.error = TRUE,
                              !.total_len = @ + ErrorsBefore(k)]

\* The responses returned for the first k replies: the others are given up on.
Rank(k) == Cardinality({ i \in DOMAIN replied : i <= k /\ ~Unparsable(replied[i]) })

-----------------------------------------------------------------------------
(* Properties                                                              *)

\* However the stream is cut, the responses are those of the replies, in order,
\* each with its own hits, value, error and length: nothing of a response is
\* left in m_last_response for the next. The exceptions of the code are named: an
\* error the text protocol gives up on marks the reply behind it, and an array
\* that was cut in front of a bulk, or is empty, derails the Redis parser.
ResponsesInOrder ==
    ~derailed =>
        /\ Len(results) <= Rank(Len(replied))
        /\ \A k \in DOMAIN replied :
              ~Unparsable(replied[k]) /\ Rank(k) <= Len(results)
                  => results[Rank(k)] = Returned(k)

\* parse_response leaves nothing in the buffer that it could have parsed, except
\* behind an error it gave up on, and between two replies no response is owed:
\* a pipeline of requests is answered to the last one, until an array that was cut
\* or is empty derails the Redis parser.
NothingOwed ==
    pc = "idle" /\ ~derailed =>
        /\ m_read_buf = << >> \/ \E k \in DOMAIN replied : Unparsable(replied[k])
        /\ incoming = << >> /\ m_read_buf = << >> => Len(results) = Rank(Len(replied))

MaxRequests == Max({ c.requests : c \in Configs })

\* What was read together with an error the text protocol gave up on lies in the
\* buffer, and nothing is on its way that would have it looked at again.
LeftBehindError(k) ==
    /\ pc = "idle" /\ incoming = << >> /\ m_read_buf # << >>
    /\ \E j \in 1..(k - 1) : Unparsable(replied[j])

\* Every reply that is not given up on is returned in the end, unless the Redis
\* parser has been derailed, an assertion has failed, or the reply was read with
\* an error line in front of it and nothing follows.
AllReturned ==
    \A k \in 1..MaxRequests :
        Len(replied) >= k /\ ~Unparsable(replied[k]) ~>
            \/ derailed \/ pc = "assert_failed" \/ LeftBehindError(k)
            \/ Len(results) >= Rank(k)

=============================================================================
