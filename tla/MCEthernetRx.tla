---------------------------- MODULE MCEthernetRx ----------------------------
(* EthernetRx with a socket buffer small enough to overflow.                 *)
EXTENDS EthernetRx
=============================================================================
