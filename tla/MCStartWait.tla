----------------------------- MODULE MCStartWait -----------------------------
(* StartWait for the cars of group 0, without a road-side unit.               *)
EXTENDS StartWait, MCStartSync

TwoCars == {[on |-> {c1, c2}, up |-> {}]}
=============================================================================
