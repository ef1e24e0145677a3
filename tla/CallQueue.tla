------------------------------ MODULE CallQueue ------------------------------
(* What RunOnLoop promises of the functions it is given: each runs once, in  *)
(* the order of the calls.                                                   *)
EXTENDS Naturals, Sequences

VARIABLES
    waiting,  \* the functions that have not run yet, oldest first
    ran       \* the number of the one that ran last; 0 when none has

Init == waiting = <<>> /\ ran = 0

\* The functions are numbered in the order of the calls.
Submit ==
    /\ waiting' = Append(waiting, ran + Len(waiting) + 1)
    /\ UNCHANGED ran

RunNext ==
    /\ waiting # <<>>
    /\ ran' = Head(waiting)
    /\ waiting' = Tail(waiting)

Spec == Init /\ [][Submit \/ RunNext]_<<waiting, ran>>
=============================================================================
