---------------------------- MODULE MCProtocols -----------------------------
(* Small instances of Protocols: every option that changes a command or what *)
(* is kept of a response, alone.                                             *)
EXTENDS Protocols

Conf(protocol, offset, expiry, keep, requests) ==
    [protocol |-> protocol, offset |-> offset, expiry |-> expiry, keep |-> keep,
     keys |-> 2, requests |-> requests, length |-> 2, ranges |-> 2]

MCConfigs ==
    { Conf("redis", TRUE, FALSE, FALSE, 2), Conf("redis", FALSE, TRUE, TRUE, 2),
      Conf("memcache_text", FALSE, FALSE, FALSE, 3),
      Conf("memcache_text", FALSE, FALSE, TRUE, 2),
      Conf("memcache_binary", FALSE, FALSE, TRUE, 3) }

=============================================================================
