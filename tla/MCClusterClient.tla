-------------------------- MODULE MCClusterClient ---------------------------
(* Small instances of ClusterClient: two nodes and two slots, reached through *)
(* one of the nodes or an address of neither.                                *)
EXTENDS ClusterClient

Conf(limit, depth, moves) ==
    [requests |-> limit, pipeline |-> depth, reshards |-> moves, pile |-> 0,
     paced |-> TRUE, waits |-> FALSE, generated |-> 0, slots_fail |-> FALSE, refuse |-> FALSE,
     memory |-> {"good"}]

MCConfigs ==
    { [Conf(2, 1, 1) EXCEPT !.paced = FALSE], [Conf(1, 1, 0) EXCEPT !.pile = 1],
      [Conf(2, 2, 0) EXCEPT !.memory = {"good", "wild"}],
      [Conf(2, 1, 0) EXCEPT !.memory = {"good", "late"}],
      [Conf(1, 1, 0) EXCEPT !.slots_fail = TRUE],
      [Conf(2, 1, 0) EXCEPT !.generated = 1], [Conf(1, 1, 0) EXCEPT !.generated = 1],
      [Conf(1, 1, 0) EXCEPT !.waits = TRUE, !.refuse = TRUE] }

=============================================================================
