------------------------------- MODULE MCGroups -------------------------------
(***************************************************************************)
(* Groups as it is deployed: SECRET_KEY, the addresses of run_vms.sh       *)
(* (which are not those endpoint_from_vm builds), and of its VMs the       *)
(* road-side units 0 and 30 and the cars 1 and 31 of the groups 0 and 3,   *)
(* where car 1 asks for group 3.                                           *)
(***************************************************************************)
EXTENDS Groups, MessageCode

Body(m) == IF m.type = "GROUP_MOVE_NOTIFY" THEN NotifyBody(m.vm, m.old, m.new)
           ELSE GroupBody(m.group)

\* The frames whose code 0 is that of their body, computed once.
Passing == {m \in Frame : VerifyMsgac(SecretKey, 0, Body(m))}

PassesDeployed(m) == m \in Passing

RoadSideUnits == [g \in 0..3 |-> 10 * g]
Segments == [v \in VM |-> v \div 10]
=============================================================================
