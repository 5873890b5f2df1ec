----------------------------- MODULE ClosedLoop -----------------------------
(***************************************************************************)
(* What a benchmark client promises its user, whatever happens on the      *)
(* wire: a closed loop. At most Window requests wait for an answer at any  *)
(* time; the client stops issuing within a window of its limit; it ends at *)
(* most once; and once it has ended nothing is issued or counted.          *)
(***************************************************************************)
EXTENDS Integers

CONSTANTS
    Limit,      \* requests the user asked for, 0 = unlimited
    Window      \* requests that may be outstanding at once

VARIABLES
    issued,     \* requests sent so far
    completed,  \* requests answered so far
    ended       \* the end of the test has been recorded

vars == << issued, completed, ended >>

Init == issued = 0 /\ completed = 0 /\ ended = FALSE

Issue ==
    /\ ~ended
    /\ issued - completed < Window
    /\ Limit > 0 => issued < Limit + Window - 1
    /\ issued' = issued + 1
    /\ UNCHANGED << completed, ended >>

Complete ==
    /\ ~ended
    /\ completed < issued
    /\ completed' = completed + 1
    /\ UNCHANGED << issued, ended >>

End ==
    /\ ~ended
    /\ ended' = TRUE
    /\ UNCHANGED << issued, completed >>

Next == Issue \/ Complete \/ End

Spec == Init /\ [][Next]_vars

=============================================================================
