------------------------ MODULE MCShardConnection ---------------------------
(* Small instances of ShardConnection: a handful of requests, pipelines of   *)
(* one and two, with and without faults.                                     *)
EXTENDS ShardConnection

NoFaults   == {}
AllFaults  == {"refuse", "connect", "write", "drop", "reply", "stall"}
Refusals   == {"refuse"}
TextFaults == {"write", "reply", "split"}

Zeroed  == {0}
Garbage == {0, 7}

=============================================================================
