------------------------------- MODULE DataPath -------------------------------
(***************************************************************************)
(* The way of a data message through the system.  A brake component sends  *)
(* on the bus of its VM; the gateway forwards what it reads there to the   *)
(* Ethernet segment (forward_message); the other gateways put it on their  *)
(* buses, once for each component (fanout_message); a brake component      *)
(* answers a command.  NIC, Protocol and Communicator choose the medium    *)
(* and filter by address, group and port.                                  *)
(*                                                                         *)
(* Both media are as weak as can be: a frame once sent may be read by any  *)
(* node on the medium, late, several times or never, in any order, and by  *)
(* its sender as well on the bus.  ShmBus tells how far the real bus is    *)
(* from that.  A VM boots while others already run.  The coordinator of a  *)
(* group announces it with a GROUP_INFO text, which is no message of the   *)
(* protocol: parse_message takes it for data of group 0.                   *)
(***************************************************************************)
EXTENDS Integers

CONSTANTS
    VM,             \* the VMs
    Component,      \* the components a Car object builds, named by their port
    Brake,          \* those that are a BrakeComponent
    Comps,          \* the components running in a VM: none on a road-side unit
    GroupOf,        \* vm_id / 10
    Announcer,      \* the VMs whose set_current_group broadcasts GROUP_INFO: the
                    \* coordinators, and VMs of groups without one
    Gateway,        \* the gateway and its port
    None,           \* no frame in the hands of the receive thread
    MaxSends        \* bound: messages a component makes

ASSUME PartsAssumption ==
    /\ Brake \subseteq Component /\ Gateway \notin Component
    /\ Comps \in [VM -> SUBSET Component]
ASSUME GroupAssumption == GroupOf \in [VM -> Nat] /\ Announcer \subseteq VM
ASSUME BoundAssumption == MaxSends \in Nat

VARIABLES
    stage,      \* where the main thread of a VM's gateway is
    ready,      \* components of a VM that called set_current_group
    sent,       \* _next_msg_id of a component
    bus,        \* frames sent on the bus of a VM
    eth,        \* data frames sent on the segment
    rx,         \* message the Ethernet receive thread has passed the filters with
    queue,      \* Communicator::_queue of a component: what it was handed.  Nobody
                \* takes anything out of it, and the gateway's is left out.
    echo        \* history: a gateway has read a frame of its own from its bus

vars == <<stage, ready, sent, bus, eth, rx, queue, echo>>

\* "up": frames are received.  "grouped": after set_current_group.  "released":
\* GO was handled.  "started": initialize has returned, components are being
\* forked.  "peers": after set_peer_ports.
Stage == {"off", "up", "grouped", "released", "started", "peers"}

Node == Component \cup {Gateway}

\* born and of tell who made a message, which its fields do not once a gateway has
\* passed it on; id is the msg_id of Communicator::send, kept by send_message.
Data == [born : VM, of : Component, id : Nat, body : {"brake!", "ack"}]

Announcement == [born : VM, of : {Gateway}, body : {"GROUP_INFO"}]

Message == Data \cup Announcement

\* from is the sending node, which no field of the real frame tells.
BusFrame == [port : Node, group : Nat, from : Node, msg : Message]

EthFrame == [src : VM, group : Nat, msg : Message]

\* current_group_id in the gateway's process and in a component's, 0 until set.
CurrentGroup(v) == IF stage[v] \in {"off", "up"} THEN 0 ELSE GroupOf[v]

ComponentGroup(v, c) == IF c \in ready[v] THEN GroupOf[v] ELSE 0

Init ==
    /\ stage = [v \in VM |-> "off"]
    /\ ready = [v \in VM |-> {}]
    /\ sent = [v \in VM |-> [c \in Component |-> 0]]
    /\ bus = [v \in VM |-> {}]
    /\ eth = {}
    /\ rx = [v \in VM |-> None]
    /\ queue = [v \in VM |-> [c \in Component |-> {}]]
    /\ echo = FALSE

-----------------------------------------------------------------------------
(* Car::start and the initialisation of its processes *)

Advance(v, from, to) == stage[v] = from /\ stage' = [stage EXCEPT ![v] = to]

InitializeCommunicator(v) ==
    /\ Advance(v, "off", "up")
    /\ UNCHANGED <<ready, sent, bus, eth, rx, queue, echo>>

\* With broadcast_group_info: a text without fields, so without a group, which
\* parse_message leaves at 0.  The control message the other VMs send instead is
\* in module Groups.
SetCurrentGroup(v) ==
    /\ Advance(v, "up", "grouped")
    /\ eth' = IF v \in Announcer
              THEN eth \cup {[src |-> v, group |-> 0,
                             msg |-> [born |-> v, of |-> Gateway, body |-> "GROUP_INFO"]]}
              ELSE eth
    /\ UNCHANGED <<ready, sent, bus, rx, queue, echo>>

\* Mutant: GO is handled by a thread of its own.
HandleGoApart(v) ==
    /\ Advance(v, "grouped", "released")
    /\ UNCHANGED <<ready, sent, bus, eth, rx, queue, echo>>

\* GO arrives after enable_start_sync.  The receive thread handles it, and so is
\* done with every frame it took before.
HandleGo(v) ==
    /\ Advance(v, "grouped", "released")
    /\ rx[v] = None
    /\ UNCHANGED <<ready, sent, bus, eth, rx, queue, echo>>

\* initialize returns, and the main thread begins to fork the components.
Start(v) ==
    /\ Advance(v, "released", "started")
    /\ UNCHANGED <<ready, sent, bus, eth, rx, queue, echo>>

SetPeerPorts(v) ==
    /\ Advance(v, "started", "peers")
    /\ UNCHANGED <<ready, sent, bus, eth, rx, queue, echo>>

\* CarComponent::initialize in the forked process, up to its tick loop.
InitializeComponent(v, c) ==
    /\ stage[v] \in {"started", "peers"}
    /\ c \in Comps[v] \ ready[v]
    /\ ready' = [ready EXCEPT ![v] = @ \cup {c}]
    /\ UNCHANGED <<stage, sent, bus, eth, rx, queue, echo>>

-----------------------------------------------------------------------------
(* Components *)

\* send_local without "TO=": to the gateway's port on the own bus.
SendLocal(v, c, body) ==
    /\ sent[v][c] < MaxSends
    /\ sent' = [sent EXCEPT ![v][c] = @ + 1]
    /\ bus' = [bus EXCEPT ![v] = @ \cup
                {[port |-> Gateway, group |-> ComponentGroup(v, c), from |-> c,
                  msg |-> [born |-> v, of |-> c, id |-> sent[v][c], body |-> body]]}]

\* on_tick of a brake component, in the loop after its initialisation.
TickBrake(v, c) ==
    /\ c \in Brake \cap ready[v]
    /\ SendLocal(v, c, "brake!")
    /\ UNCHANGED <<stage, ready, eth, rx, queue, echo>>

\* The port observers see a message of the own group for the own port.
ComponentAccepts(v, c, f) == f.group = ComponentGroup(v, c) /\ f.port = c

\* Mutant: whatever arrives is answered.
ComponentReceiveAnswersAll(v, c, f) ==
    /\ stage[v] \in {"started", "peers"}
    /\ c \in Comps[v]
    /\ ComponentAccepts(v, c, f)
    /\ queue' = [queue EXCEPT ![v][c] = @ \cup {f.msg}]
    /\ IF c \in Brake
       THEN SendLocal(v, c, "ack")
       ELSE UNCHANGED <<sent, bus>>
    /\ UNCHANGED <<stage, ready, eth, rx, echo>>

\* From the bus to on_receive: queued, and a command is answered.
ComponentReceive(v, c, f) ==
    /\ stage[v] \in {"started", "peers"}
    /\ c \in Comps[v]
    /\ ComponentAccepts(v, c, f)
    /\ queue' = [queue EXCEPT ![v][c] = @ \cup {f.msg}]
    /\ IF c \in Brake /\ f.msg.body = "brake!"
       THEN SendLocal(v, c, "ack")
       ELSE UNCHANGED <<sent, bus>>
    /\ UNCHANGED <<stage, ready, eth, rx, echo>>

-----------------------------------------------------------------------------
(* The gateway *)

\* Its observers take every port.
GatewayAccepts(v, group) == group = CurrentGroup(v)

\* From the bus to forward_message: the message goes on, under the gateway's
\* group, to the broadcast address.
GatewayForward(v, f) ==
    /\ GatewayAccepts(v, f.group)
    /\ eth' = eth \cup {[src |-> v, group |-> CurrentGroup(v), msg |-> f.msg]}
    /\ echo' = (echo \/ f.from = Gateway)
    /\ UNCHANGED <<stage, ready, sent, bus, rx, queue>>

\* From the segment to on_receive, on the receive thread.
GatewayTake(v, f) ==
    /\ stage[v] # "off"
    /\ f.src # v
    /\ rx[v] = None
    /\ GatewayAccepts(v, f.group)
    /\ rx' = [rx EXCEPT ![v] = f.msg]
    /\ UNCHANGED <<stage, ready, sent, bus, eth, queue, echo>>

\* The ports fanout_message walks over: _peer_ports, which set_peer_ports fills
\* without a lock, so that any part of it may be seen meanwhile.
PeerPorts(v) ==
    IF stage[v] = "peers" THEN {Component}
    ELSE IF stage[v] = "started" THEN SUBSET Component
    ELSE {{}}

\* Mutant: the gateway also forwards what came from the segment.
FanoutAndForward(v, ports) ==
    /\ rx[v] # None
    /\ bus' = [bus EXCEPT ![v] = @ \cup
                {[port |-> p, group |-> CurrentGroup(v), from |-> Gateway, msg |-> rx[v]] :
                    p \in ports}]
    /\ eth' = eth \cup {[src |-> v, group |-> CurrentGroup(v), msg |-> rx[v]]}
    /\ rx' = [rx EXCEPT ![v] = None]
    /\ UNCHANGED <<stage, ready, sent, queue, echo>>

\* fanout_message, which reads the group again.
Fanout(v, ports) ==
    /\ rx[v] # None
    /\ bus' = [bus EXCEPT ![v] = @ \cup
                {[port |-> p, group |-> CurrentGroup(v), from |-> Gateway, msg |-> rx[v]] :
                    p \in ports}]
    /\ rx' = [rx EXCEPT ![v] = None]
    /\ UNCHANGED <<stage, ready, sent, eth, queue, echo>>

-----------------------------------------------------------------------------
Main(v) ==
    \/ InitializeCommunicator(v)
    \/ SetCurrentGroup(v)
    \/ HandleGo(v)
    \/ Start(v)
    \/ SetPeerPorts(v)

\* on_receive of the gateway: from the bus to the segment, and the other way.
OnReceive(v) ==
    \/ \E f \in bus[v] : GatewayForward(v, f)
    \/ \E f \in eth : GatewayTake(v, f)
    \/ \E ports \in PeerPorts(v) : Fanout(v, ports)

Next ==
    \E v \in VM :
        \/ Main(v)
        \/ OnReceive(v)
        \/ \E c \in Component :
              \/ InitializeComponent(v, c)
              \/ TickBrake(v, c)
              \/ \E f \in bus[v] : ComponentReceive(v, c, f)

Spec == Init /\ [][Next]_vars

-----------------------------------------------------------------------------
(* Properties *)

\* Stages, frames in flight and the queues have their types.
TypeOK ==
    /\ stage \in [VM -> Stage]
    /\ ready \in [VM -> SUBSET Component]
    /\ sent \in [VM -> [Component -> Nat]]
    /\ bus \in [VM -> SUBSET BusFrame]
    /\ eth \in SUBSET EthFrame
    /\ rx \in [VM -> Message \cup {None}]
    /\ queue \in [VM -> [Component -> SUBSET Message]]
    /\ echo \in BOOLEAN

\* The group a message was first sent under: that of its maker, or 0 for an
\* announcement.
FirstGroup(m) == IF m.of = Gateway THEN 0 ELSE GroupOf[m.born]

\* A component never gets data that was made in another group, although a gateway
\* counts itself to group 0 while it boots and forwarding and fan-out write their
\* own group into the message; announcements, of whatever group they tell, reach
\* the components of group 0 and no others.
ComponentsHearOwnGroup ==
    \A v \in VM, c \in Component : \A m \in queue[v][c] : FirstGroup(m) = GroupOf[v]

\* As long as no gateway reads its own fan-out from the bus, gateways forward
\* nothing but messages of their local components, and no message comes back to
\* the VM that made it.
NothingReturns ==
    ~echo => /\ \A f \in eth : f.src = f.msg.born
             /\ \A v \in VM, c \in Component : \A m \in queue[v][c] : m.born # v

\* The component that made m had been handed a command by then.
Caused(m) == m.body = "ack" => \E k \in queue[m.born][m.of] : k.body = "brake!"

\* Nobody hears an acknowledgement, over however many forwards, fan-outs and
\* repetitions, whose maker was not handed a brake command: acknowledgements and
\* announcements are not answered themselves, so answers do not breed answers.
AcksAreCaused == \A v \in VM, c \in Component : \A m \in queue[v][c] : Caused(m)
=============================================================================
