-------------------------------- MODULE Groups --------------------------------
(***************************************************************************)
(* The group maps of the gateways and the move of a VM to another group    *)
(* (protocol.h): set_current_group at boot, move_group from on_tick, and   *)
(* the GROUP_MOVE_REQUEST, GROUP_MOVE_NOTIFY and GROUP_ASSIGN branches of  *)
(* notify_by_port.  All of them send their control messages with the       *)
(* message code 0, and notify_by_port drops a control message whose code   *)
(* is not that of its body under SECRET_KEY: Passes tells which bodies     *)
(* have code 0 (module MessageCode computes it).  READY, GO and the clock  *)
(* exchange are left to StartSync and PtpSync, the GROUP_INFO text to      *)
(* DataPath; GROUP_REGISTER is never sent.                                 *)
(***************************************************************************)
EXTENDS Integers

CONSTANTS
    VM,             \* the VMs, by vm_id, which is the last byte of their address
    Coordinators,   \* GROUP_COORDINATORS: from group to vm_id
    Home,           \* vm_id / 10, the group_id given to initialize
    Mover,          \* the VMs whose on_tick asks for another group
    Target,         \* the group they ask for
    Passes(_),      \* the code of the message's body is 0
    OwnAddress,     \* the VMs have the addresses endpoint_from_vm builds
    Stray,          \* what GROUP_COORDINATORS[-1] reads
    MaxLost         \* bound: frames dropped

Group == DOMAIN Coordinators

\* -1 stands for "no group" in a GROUP_MOVE_NOTIFY, and becomes a key of _groups.
GroupKey == Group \cup {-1}

\* What a deployment looks like.
Deployment ==
    /\ VM \subseteq 0..255
    /\ Group \subseteq Nat /\ Coordinators \in [Group -> 0..255]
    /\ Home \in [VM -> Group] /\ 0 \in Group
    /\ Mover \subseteq VM /\ Target \in Group

VARIABLES
    stage,      \* where the main thread is, up to its first tick
    current,    \* current_group_id
    groups,     \* _groups: from group to its members
    audience,   \* history: the VMs that were receiving when move_group was called
    inbox,      \* frames received by the socket and not yet handled
    lost        \* number of frames dropped so far

vars == <<stage, current, groups, audience, inbox, lost>>

Request == [type : {"GROUP_MOVE_REQUEST"}, vm : VM, group : Group]
Notify  == [type : {"GROUP_MOVE_NOTIFY"}, vm : VM, old : GroupKey, new : Group]
Assign  == [type : {"GROUP_ASSIGN"}, group : Group]

Frame == Request \cup Notify \cup Assign

Init ==
    /\ stage = [v \in VM |-> "off"]
    /\ current = [v \in VM |-> 0]
    /\ groups = [v \in VM |-> [g \in GroupKey |-> {}]]
    /\ audience = [v \in VM |-> {}]
    /\ inbox = [v \in VM |-> {}]
    /\ lost = 0

-----------------------------------------------------------------------------
(* The network *)

Receiving(v) == stage[v] # "off"

\* A frame for one VM goes to the address endpoint_from_vm builds from its vm_id.
Sent(boxes, to, m) ==
    [w \in VM |-> IF w = to /\ OwnAddress /\ Receiving(w) THEN boxes[w] \cup {m} ELSE boxes[w]]

Taken(v, m) == [inbox EXCEPT ![v] = @ \ {m}]

Lose(v, m) ==
    /\ lost < MaxLost
    /\ lost' = lost + 1
    /\ inbox' = Taken(v, m)
    /\ UNCHANGED <<stage, current, groups, audience>>

-----------------------------------------------------------------------------
(* The group map *)

\* set_group_for_vm
Moved(map, vm, g) ==
    [k \in GroupKey |-> IF k = g THEN map[k] \cup {vm} ELSE map[k] \ {vm}]

\* get_group_of: the first group found in _groups, which is unordered.  It is called
\* here right after set_group_for_vm, when there is exactly one such group.
GroupOf(map, vm) == CHOOSE g \in GroupKey : vm \in map[g]

\* Erase from the old group, then insert into the new one.
Transferred(map, vm, old, new) == [map EXCEPT ![old] = @ \ {vm}, ![new] = @ \cup {vm}]

\* set_current_group, with the frames it finds in boxes: join the group, and tell
\* its coordinator.
JoinGroup(v, g, boxes) ==
    /\ current' = [current EXCEPT ![v] = g]
    /\ groups' = [groups EXCEPT ![v][g] = @ \cup {v}]
    /\ inbox' = IF Coordinators[g] # v
                THEN Sent(boxes, Coordinators[g],
                          [type |-> "GROUP_MOVE_NOTIFY", vm |-> v, old |-> -1, new |-> g])
                ELSE boxes

-----------------------------------------------------------------------------
(* The main thread *)

InitializeCommunicator(v) ==
    /\ stage[v] = "off"
    /\ stage' = [stage EXCEPT ![v] = "up"]
    /\ UNCHANGED <<current, groups, audience, inbox, lost>>

SetCurrentGroup(v) ==
    /\ stage[v] = "up"
    /\ stage' = [stage EXCEPT ![v] = "grouped"]
    /\ JoinGroup(v, Home[v], inbox)
    /\ UNCHANGED <<audience, lost>>

\* move_group, from on_tick, once.
MoveGroup(v) ==
    /\ v \in Mover
    /\ stage[v] = "grouped"
    /\ stage' = [stage EXCEPT ![v] = "asked"]
    /\ audience' = [audience EXCEPT ![v] = {w \in VM \ {v} : Receiving(w)}]
    /\ inbox' = [w \in VM |->
                    IF w \in audience'[v]
                    THEN inbox[w] \cup {[type |-> "GROUP_MOVE_REQUEST", vm |-> v, group |-> Target]}
                    ELSE inbox[w]]
    /\ UNCHANGED <<current, groups, lost>>

Main(v) == InitializeCommunicator(v) \/ SetCurrentGroup(v) \/ MoveGroup(v)

-----------------------------------------------------------------------------
(* The receive thread *)

\* verify_msgac fails.
DropUnauthorized(v, m) ==
    /\ ~Passes(m)
    /\ inbox' = Taken(v, m)
    /\ UNCHANGED <<stage, current, groups, audience, lost>>

\* Every VM moves the requester in its map before it looks for its group, so the
\* group it finds is the requested one.  The coordinator of that group tells the
\* other coordinators and the requester.
HandleMoveRequest(v, m) ==
    /\ m.type = "GROUP_MOVE_REQUEST"
    /\ Passes(m)
    /\ LET moved  == Moved(groups[v], m.vm, m.group)
           sender == GroupOf(moved, m.vm)
           notice == [type |-> "GROUP_MOVE_NOTIFY", vm |-> m.vm, old |-> sender, new |-> m.group]
           told   == [w \in VM |->
                        IF w # v /\ OwnAddress /\ Receiving(w) /\ w \in {Coordinators[g] : g \in Group}
                        THEN Taken(v, m)[w] \cup {notice}
                        ELSE Taken(v, m)[w]]
       IN  IF v = Coordinators[sender]
           THEN /\ groups' = [groups EXCEPT ![v] = Transferred(moved, m.vm, sender, m.group)]
                /\ inbox' = Sent(told, m.vm, [type |-> "GROUP_ASSIGN", group |-> m.group])
           ELSE /\ groups' = [groups EXCEPT ![v] = moved]
                /\ inbox' = Taken(v, m)
    /\ UNCHANGED <<stage, current, audience, lost>>

\* coordinator_for_group, which does not look at the bounds of the array.
CoordinatorForGroup(g) == IF g \in Group THEN Coordinators[g] ELSE Stray

\* Only the coordinators of the two groups listen.
HandleMoveNotify(v, m) ==
    /\ m.type = "GROUP_MOVE_NOTIFY"
    /\ Passes(m)
    /\ groups' = IF v \in {CoordinatorForGroup(m.old), CoordinatorForGroup(m.new)}
                 THEN [groups EXCEPT ![v] = Transferred(@, m.vm, m.old, m.new)]
                 ELSE groups
    /\ inbox' = Taken(v, m)
    /\ UNCHANGED <<stage, current, audience, lost>>

HandleAssign(v, m) ==
    /\ m.type = "GROUP_ASSIGN"
    /\ Passes(m)
    /\ JoinGroup(v, m.group, Taken(v, m))
    /\ UNCHANGED <<stage, audience, lost>>

Handle(v, m) ==
    \/ DropUnauthorized(v, m)
    \/ HandleMoveRequest(v, m)
    \/ HandleMoveNotify(v, m)
    \/ HandleAssign(v, m)

Next ==
    \E v \in VM :
        \/ Main(v)
        \/ \E m \in inbox[v] : Handle(v, m) \/ Lose(v, m)

Spec == Init /\ [][Next]_vars

\* The main thread and the receive thread of every VM run.
FairSpec ==
    /\ Spec
    /\ \A v \in VM : WF_vars(Main(v)) /\ WF_vars(\E m \in inbox[v] : Handle(v, m))

-----------------------------------------------------------------------------
(* Properties *)

\* Stages, group maps and frames have their types.
TypeOK ==
    /\ stage \in [VM -> {"off", "up", "grouped", "asked"}]
    /\ current \in [VM -> Group]
    /\ groups \in [VM -> [GroupKey -> SUBSET VM]]
    /\ audience \in [VM -> SUBSET VM]
    /\ inbox \in [VM -> SUBSET Frame]
    /\ lost \in Nat

\* A request that reaches the coordinator that is to handle it is honoured: the
\* coordinator sends GROUP_ASSIGN "so it updates its local group id", unless the
\* network drops a frame.
MoveHonoured ==
    \A v \in Mover :
        Coordinators[Target] \in audience[v] ~> current[v] = Target \/ lost > 0
=============================================================================
