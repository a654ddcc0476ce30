------------------------------- MODULE BusOffer -------------------------------
(***************************************************************************)
(* What send_msg promises to the readers of the bus: a slot with one       *)
(* holder.  A thread takes the slot when it is free, puts a message on     *)
(* offer, withdraws it, and only then gives the slot back; what is on      *)
(* offer never changes.  ShmBus implements it.                             *)
(***************************************************************************)
CONSTANT Thread

VARIABLES
    holder,     \* the thread that has the slot, if any
    offer       \* the message on offer, if any

Init == holder = {} /\ offer = {}

Acquire(t) ==
    /\ holder = {}
    /\ holder' = {t}
    /\ UNCHANGED offer

Publish(t) ==
    /\ holder = {t}
    /\ offer = {}
    /\ offer' # {}
    /\ UNCHANGED holder

Withdraw(t) ==
    /\ holder = {t}
    /\ offer # {}
    /\ offer' = {}
    /\ UNCHANGED holder

Release(t) ==
    /\ holder = {t}
    /\ offer = {}
    /\ holder' = {}
    /\ UNCHANGED offer

Next == \E t \in Thread : Acquire(t) \/ Publish(t) \/ Withdraw(t) \/ Release(t)

Spec == Init /\ [][Next]_<<holder, offer>>
=============================================================================
