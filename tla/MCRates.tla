------------------------------ MODULE MCRates -------------------------------
(* A small instance of Rates: complete batches, and a schedule in which thread *)
(* 0 has no load for one interval.                                             *)
EXTENDS Rates

MCIntervals ==
    << [goal |-> 2, skew |-> 50], [goal |-> 3, skew |-> 0], [goal |-> 1, skew |-> 20] >>

\* A later master finds no load, or one that no interval has.
MCGarbage == {0, 1}

=============================================================================
