----------------------------- MODULE StartBarrier -----------------------------
(***************************************************************************)
(* What the start-up exchange promises to the cars of a group: a barrier.  *)
(* A car arrives once; it is released only after every car of the group    *)
(* has arrived; neither is ever taken back.  StartSync implements it.      *)
(***************************************************************************)

CONSTANT Car    \* the cars of the group

VARIABLES arrived, released

Init == arrived \subseteq Car /\ released = {}

Arrive(c) ==
    /\ c \notin arrived
    /\ arrived' = arrived \cup {c}
    /\ UNCHANGED released

Release(c) ==
    /\ c \notin released
    /\ arrived = Car
    /\ released' = released \cup {c}
    /\ UNCHANGED arrived

Next == \E c \in Car : Arrive(c) \/ Release(c)

Spec == Init /\ [][Next]_<<arrived, released>>
=============================================================================
