------------------------------ MODULE MCShmBus ------------------------------
(* Instance of ShmBus: a car with its gateway, powertrain and brake.           *)
EXTENDS ShmBus, TLC

CONSTANTS gw, pt, br, eth, tick

CarNodes == {gw, pt, br}
CarOwner == (eth :> gw) @@ (tick :> br)

=============================================================================
