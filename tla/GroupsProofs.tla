----------------------------- MODULE GroupsProofs -----------------------------
(***************************************************************************)
(* Proofs about Groups for any deployment, any choice of bodies that pass  *)
(* the message code and any value read in front of the array of            *)
(* coordinators.  What holds for the deployed SECRET_KEY is a theorem      *)
(* about every key that refuses the bodies of GROUP_ASSIGN.                *)
(***************************************************************************)
EXTENDS Groups, TLAPS

LEMMA KeysInt ==
    ASSUME Deployment
    PROVE  GroupKey \subseteq Int /\ -1 \in GroupKey /\ Group \subseteq GroupKey
BY DEF GroupKey, Deployment

\* After set_group_for_vm, get_group_of finds the group just set: the coordinator that
\* answers a GROUP_MOVE_REQUEST is that of the requested group.
LEMMA FoundWhereMoved ==
    ASSUME Deployment,
           NEW map \in [GroupKey -> SUBSET VM], NEW vm \in VM, NEW g \in Group
    PROVE  /\ Moved(map, vm, g) \in [GroupKey -> SUBSET VM]
           /\ GroupOf(Moved(map, vm, g), vm) = g
<1> DEFINE moved == Moved(map, vm, g)
<1>1. g \in GroupKey /\ g \in Int
  BY KeysInt
<1>2. moved \in [GroupKey -> SUBSET VM]
  BY DEF Moved
<1>3. \A k \in GroupKey : vm \in moved[k] <=> k = g
  BY DEF Moved
<1> HIDE DEF moved
<1>4. GroupOf(moved, vm) = g
  BY <1>1, <1>3 DEF GroupOf
<1> QED  BY <1>2, <1>4 DEF moved

LEMMA InitType ==
    ASSUME Deployment
    PROVE  Init => TypeOK
BY DEF Init, TypeOK, Deployment

LEMMA SentType ==
    ASSUME NEW boxes \in [VM -> SUBSET Frame], NEW to, NEW m \in Frame
    PROVE  Sent(boxes, to, m) \in [VM -> SUBSET Frame]
BY DEF Sent

LEMMA TakenType ==
    ASSUME TypeOK, NEW v \in VM, NEW m
    PROVE  Taken(v, m) \in [VM -> SUBSET Frame]
BY DEF TypeOK, Taken

LEMMA TransferredType ==
    ASSUME NEW map \in [GroupKey -> SUBSET VM], NEW vm \in VM,
           NEW old \in GroupKey, NEW new \in GroupKey
    PROVE  Transferred(map, vm, old, new) \in [GroupKey -> SUBSET VM]
BY DEF Transferred

LEMMA JoinGroupType ==
    ASSUME Deployment, TypeOK, NEW v \in VM, NEW g \in Group,
           NEW boxes \in [VM -> SUBSET Frame], JoinGroup(v, g, boxes)
    PROVE  /\ current' \in [VM -> Group]
           /\ groups' \in [VM -> [GroupKey -> SUBSET VM]]
           /\ inbox' \in [VM -> SUBSET Frame]
<1> DEFINE n == [type |-> "GROUP_MOVE_NOTIFY", vm |-> v, old |-> -1, new |-> g]
<1>1. n \in Frame
  BY KeysInt DEF Frame, Notify
<1>2. /\ current' = [current EXCEPT ![v] = g]
      /\ groups' = [groups EXCEPT ![v][g] = @ \cup {v}]
      /\ inbox' = boxes \/ inbox' = Sent(boxes, Coordinators[g], n)
  BY DEF JoinGroup
<1> HIDE DEF n
<1>3. inbox' \in [VM -> SUBSET Frame]
  BY <1>1, <1>2, SentType
<1>4. groups' \in [VM -> [GroupKey -> SUBSET VM]]
  BY <1>2, KeysInt DEF TypeOK
<1>5. current' \in [VM -> Group]
  BY <1>2 DEF TypeOK
<1> QED  BY <1>3, <1>4, <1>5

LEMMA MainType ==
    ASSUME Deployment, TypeOK, NEW v \in VM, Main(v)
    PROVE  TypeOK'
<1>1. CASE InitializeCommunicator(v)
  BY <1>1 DEF InitializeCommunicator, TypeOK
<1>2. CASE SetCurrentGroup(v)
  <2>1. /\ JoinGroup(v, Home[v], inbox)
        /\ stage' = [stage EXCEPT ![v] = "grouped"]
        /\ UNCHANGED <<audience, lost>>
    BY <1>2 DEF SetCurrentGroup
  <2>2. Home[v] \in Group /\ inbox \in [VM -> SUBSET Frame]
    BY DEF TypeOK, Deployment
  <2> QED  BY <2>1, <2>2, JoinGroupType DEF TypeOK
<1>3. CASE MoveGroup(v)
  <2> DEFINE m == [type |-> "GROUP_MOVE_REQUEST", vm |-> v, group |-> Target]
  <2>1. m \in Frame
    BY DEF Frame, Request, Deployment
  <2>2. /\ inbox' = [w \in VM |-> IF w \in audience'[v] THEN inbox[w] \cup {m} ELSE inbox[w]]
        /\ stage' = [stage EXCEPT ![v] = "asked"]
        /\ audience' = [audience EXCEPT ![v] = {w \in VM \ {v} : Receiving(w)}]
        /\ UNCHANGED <<current, groups, lost>>
    BY <1>3 DEF MoveGroup
  <2> HIDE DEF m
  <2> QED  BY <2>1, <2>2 DEF TypeOK
<1> QED  BY <1>1, <1>2, <1>3 DEF Main

LEMMA DropType ==
    ASSUME TypeOK, NEW v \in VM, NEW m \in inbox[v], DropUnauthorized(v, m) \/ Lose(v, m)
    PROVE  TypeOK'
<1>1. /\ inbox' = Taken(v, m) /\ lost' \in Nat
      /\ UNCHANGED <<stage, current, groups, audience>>
  BY DEF DropUnauthorized, Lose, TypeOK
<1> QED  BY <1>1, TakenType DEF TypeOK

LEMMA HandleMoveRequestType ==
    ASSUME Deployment, TypeOK, NEW v \in VM, NEW m \in inbox[v], HandleMoveRequest(v, m)
    PROVE  TypeOK'
<1> DEFINE moved  == Moved(groups[v], m.vm, m.group)
           sender == GroupOf(moved, m.vm)
           notice == [type |-> "GROUP_MOVE_NOTIFY", vm |-> m.vm, old |-> sender, new |-> m.group]
           assign == [type |-> "GROUP_ASSIGN", group |-> m.group]
           told   == [w \in VM |->
                        IF w # v /\ OwnAddress /\ Receiving(w) /\ w \in {Coordinators[g] : g \in Group}
                        THEN Taken(v, m)[w] \cup {notice}
                        ELSE Taken(v, m)[w]]
<1>1. /\ \/ /\ groups' = [groups EXCEPT ![v] = Transferred(moved, m.vm, sender, m.group)]
            /\ inbox' = Sent(told, m.vm, assign)
         \/ /\ groups' = [groups EXCEPT ![v] = moved]
            /\ inbox' = Taken(v, m)
      /\ UNCHANGED <<stage, current, audience, lost>>
      /\ m.type = "GROUP_MOVE_REQUEST"
  BY DEF HandleMoveRequest
<1>2. m.vm \in VM /\ m.group \in Group
  BY <1>1 DEF TypeOK, Frame, Request, Notify, Assign
<1>3. moved \in [GroupKey -> SUBSET VM] /\ sender = m.group
  <2>1. groups[v] \in [GroupKey -> SUBSET VM]
    BY DEF TypeOK
  <2> QED  BY <1>2, <2>1, FoundWhereMoved
<1>4. notice \in Frame /\ assign \in Frame
  BY <1>2, <1>3, KeysInt DEF Frame, Notify, Assign
<1>5. told \in [VM -> SUBSET Frame]
  BY <1>4, TakenType
<1> HIDE DEF moved, sender, notice, assign, told
<1>6. Transferred(moved, m.vm, sender, m.group) \in [GroupKey -> SUBSET VM]
  BY <1>2, <1>3, KeysInt, TransferredType
<1>7. groups' \in [VM -> [GroupKey -> SUBSET VM]]
  BY <1>1, <1>3, <1>6 DEF TypeOK
<1>8. inbox' \in [VM -> SUBSET Frame]
  BY <1>1, <1>4, <1>5, SentType, TakenType
<1> QED  BY <1>1, <1>7, <1>8 DEF TypeOK

LEMMA HandleMoveNotifyType ==
    ASSUME Deployment, TypeOK, NEW v \in VM, NEW m \in inbox[v], HandleMoveNotify(v, m)
    PROVE  TypeOK'
<1> DEFINE map == Transferred(groups[v], m.vm, m.old, m.new)
<1>1. /\ groups' = [groups EXCEPT ![v] = map] \/ groups' = groups
      /\ inbox' = Taken(v, m)
      /\ UNCHANGED <<stage, current, audience, lost>>
      /\ m.type = "GROUP_MOVE_NOTIFY"
  BY DEF HandleMoveNotify
<1>2. m.vm \in VM /\ m.old \in GroupKey /\ m.new \in GroupKey
  BY <1>1, KeysInt DEF TypeOK, Frame, Request, Notify, Assign
<1>3. map \in [GroupKey -> SUBSET VM]
  <2>1. groups[v] \in [GroupKey -> SUBSET VM]
    BY DEF TypeOK
  <2> QED  BY <1>2, <2>1, TransferredType
<1> HIDE DEF map
<1>4. groups' \in [VM -> [GroupKey -> SUBSET VM]]
  BY <1>1, <1>3 DEF TypeOK
<1> QED  BY <1>1, <1>4, TakenType DEF TypeOK

LEMMA HandleAssignType ==
    ASSUME Deployment, TypeOK, NEW v \in VM, NEW m \in inbox[v], HandleAssign(v, m)
    PROVE  TypeOK'
<1>1. JoinGroup(v, m.group, Taken(v, m)) /\ UNCHANGED <<stage, audience, lost>>
  BY DEF HandleAssign
<1>2. m.group \in Group
  BY DEF HandleAssign, TypeOK, Frame, Request, Notify, Assign
<1>3. /\ current' \in [VM -> Group]
      /\ groups' \in [VM -> [GroupKey -> SUBSET VM]]
      /\ inbox' \in [VM -> SUBSET Frame]
  BY <1>1, <1>2, TakenType, JoinGroupType
<1> QED  BY <1>1, <1>3 DEF TypeOK

LEMMA NextType ==
    ASSUME Deployment
    PROVE  TypeOK /\ [Next]_vars => TypeOK'
<1>1. TypeOK /\ UNCHANGED vars => TypeOK'
  BY DEF vars, TypeOK
<1> QED
  BY <1>1, MainType, DropType, HandleMoveRequestType, HandleMoveNotifyType, HandleAssignType
     DEF Next, Handle

\* The group maps and the frames keep their types, -1 as a key included.
THEOREM TypeCorrect ==
    ASSUME Deployment
    PROVE  Spec => []TypeOK
BY InitType, NextType, PTL DEF Spec

-----------------------------------------------------------------------------
(* A key that refuses GROUP_ASSIGN *)

\* No gateway ever works under another group than the one it was started with.
GroupsStable == \A v \in VM : current[v] \in {0, Home[v]}

\* If no body of a GROUP_ASSIGN has code 0, as under SECRET_KEY, current_group_id is
\* assigned once, whatever the addresses of the VMs and whatever becomes of the other
\* messages: vm_id / 10 is the group of a VM for good, and no move to a third group
\* is ever honoured.
THEOREM GroupsFixed ==
    ASSUME Deployment, \A m \in Assign : ~Passes(m)
    PROVE  Spec => []GroupsStable
<1>1. Init => GroupsStable
  BY DEF Init, GroupsStable
<1>2. TypeOK /\ GroupsStable /\ [Next]_vars => GroupsStable'
  <2> SUFFICES ASSUME TypeOK, GroupsStable, [Next]_vars
               PROVE  GroupsStable'
    OBVIOUS
  <2>1. CASE UNCHANGED vars
    BY <2>1 DEF vars, GroupsStable
  <2>2. ASSUME NEW v \in VM, Main(v)
        PROVE  GroupsStable'
    BY <2>2 DEF Main, InitializeCommunicator, SetCurrentGroup, MoveGroup, JoinGroup,
                GroupsStable, TypeOK
  <2>3. ASSUME NEW v \in VM, NEW m \in inbox[v], Handle(v, m) \/ Lose(v, m)
        PROVE  GroupsStable'
    <3>1. ~HandleAssign(v, m)
      <4>1. m.type = "GROUP_ASSIGN" => m \in Assign
        BY DEF TypeOK, Frame, Request, Notify
      <4> QED  BY <4>1 DEF HandleAssign
    <3>2. UNCHANGED current
      BY <2>3, <3>1 DEF Handle, DropUnauthorized, HandleMoveRequest, HandleMoveNotify, Lose
    <3> QED  BY <3>2 DEF GroupsStable
  <2> QED  BY <2>1, <2>2, <2>3 DEF Next
<1> QED  BY <1>1, <1>2, TypeCorrect, PTL DEF Spec
=============================================================================
