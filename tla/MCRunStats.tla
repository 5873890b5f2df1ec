----------------------------- MODULE MCRunStats ------------------------------
(* A small instance of RunStats: a thread with three clients, one of which    *)
(* has several connections. No action or property tells the kinds of          *)
(* operations apart.                                                          *)
EXTENDS RunStats

ThreeClients == << 3 >>
OneSharded == {<< 1, 1 >>}
KindSymmetry == Permutations(Kinds)

=============================================================================
