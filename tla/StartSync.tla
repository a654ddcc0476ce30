------------------------------ MODULE StartSync ------------------------------
(***************************************************************************)
(* The READY/GO start barrier between VMs: Gateway::initialize (gateway.h) *)
(* with enable_start_sync and the READY and GO branches of notify_by_port  *)
(* (protocol.h).                                                           *)
(*                                                                         *)
(* In every VM three threads take part: the main thread, which runs        *)
(* initialize up to the wait for GO (the wait itself is in StartWait); the *)
(* Ethernet receive thread, which handles one frame at a time and already  *)
(* runs while the main thread initialises; and, in a car, the thread that  *)
(* repeats READY until _sync_done.  stage[v] is the program counter of the *)
(* main thread; the fields it assigns once on its way are read off it.     *)
(* rx[v] is that of the receive thread, which takes no lock: while the     *)
(* main thread is still writing what notify_by_port reads, the test of a   *)
(* frame's group and what follows from it are separate steps.              *)
(*                                                                         *)
(* READY and GO are sent after set_current_group of the sender, so that a  *)
(* frame is given by its kind and its sender u, and its group is           *)
(* GroupOf[u].  READY is repeated: a READY under way is never the last     *)
(* one, and losing it does not matter.  GO is sent once.                   *)
(***************************************************************************)
EXTENDS Integers, FiniteSets

CONSTANTS
    VM,             \* the VMs running a gateway
    Master,         \* the road-side ones (vm_id % 10 = 0): sync masters
    GroupOf,        \* vm_id / 10, the group_id given to initialize
    TotalSyncVms,   \* total_sync_vms of the command line
    Deployment,     \* scenarios: the VMs switched on, and those that wait already
    MaxLost         \* bound: GO frames the network or a socket buffer drops

Car == VM \ Master

ASSUME VMAssumption ==
    /\ IsFiniteSet(VM) /\ Master \subseteq VM /\ GroupOf \in [VM -> Nat]
    /\ Deployment \subseteq [on : SUBSET VM, up : SUBSET VM]
    /\ \A d \in Deployment : d.up \subseteq d.on
    /\ MaxLost \in Nat

\* The deployment gives every group the number of cars the barrier counts.
ASSUME TotalAssumption ==
    /\ TotalSyncVms \in Nat \ {0}
    /\ \A v \in VM : Cardinality({c \in Car : GroupOf[c] = GroupOf[v]}) = TotalSyncVms

VARIABLES
    on,         \* the VMs that are switched on
    stage,      \* where the main thread is
    ready,      \* _sync_ready_nodes
    goSent,     \* _sync_go_sent
    goReceived, \* _sync_go_received
    done,       \* _sync_done
    announced,  \* the cars that have sent READY
    inbox,      \* the VMs whose GO waits in the socket
    rx,         \* where the receive thread is in notify_by_port
    hand,       \* the sender of the frame it is handling
    lost,       \* number of GO frames dropped so far
    misled      \* history: VMs that acted on a frame of another group than theirs

vars == <<on, stage, ready, goSent, goReceived, done, announced, inbox, rx, hand, lost, misled>>

\* "up": the Ethernet engine receives.  "grouped": after set_current_group.
\* "hooked": after set_on_sync_done and set_master.  "total", "cleared",
\* "callback": inside enable_start_sync.  "waiting": after it.
Stage == {"off", "up", "grouped", "hooked", "total", "cleared", "callback", "waiting"}

\* "ready", "go": a READY or GO has passed the test of its group.  "counted": the
\* sender of a READY is in _sync_ready_nodes.  "foreign": a GO has failed the test,
\* and goes on to the observers of a master.
Rx == {"idle", "ready", "counted", "go", "foreign"}

\* current_group_id is 0 until set_current_group.
CurrentGroup(v) == IF stage[v] \in {"off", "up"} THEN 0 ELSE GroupOf[v]

\* _is_master
IsMaster(v) == v \in Master /\ stage[v] \notin {"off", "up", "grouped"}

SyncTotal(v) ==
    IF stage[v] \in {"off", "up", "grouped", "hooked"} THEN 0 ELSE TotalSyncVms

\* Mutant: control frames of every group are taken.
IsInternalAny(v, u) == TRUE

\* is_message_internal, for a frame sent by u.
IsInternal(v, u) == GroupOf[u] = CurrentGroup(v)

\* enable_start_sync has returned: a car has marked itself ready.
Enabled(v) == stage[v] = "waiting"

\* _sync_done_callback is set.
HasCallback(v) == stage[v] \in {"callback", "waiting"}

\* Some VMs have come as far as the wait before the others are switched on, and no
\* READY has been sent yet.
Init ==
    /\ \E d \in Deployment :
          /\ on = d.on
          /\ stage = [v \in VM |-> IF v \in d.up THEN "waiting" ELSE "off"]
          /\ ready = [v \in VM |-> {v} \cap d.up \cap Car]
    /\ goSent = [v \in VM |-> FALSE]
    /\ goReceived = [v \in VM |-> FALSE]
    /\ done = [v \in VM |-> FALSE]
    /\ announced = {}
    /\ inbox = [v \in VM |-> {}]
    /\ rx = [v \in VM |-> "idle"]
    /\ hand = [v \in VM |-> {}]
    /\ lost = 0
    /\ misled = {}

-----------------------------------------------------------------------------
(* The main thread: Gateway::initialize *)

Advance(v, from, to) ==
    /\ stage[v] = from
    /\ stage' = [stage EXCEPT ![v] = to]
    /\ UNCHANGED <<on, goSent, done, announced, inbox, rx, hand, lost, misled>>

\* initialize_communicator: the VM boots, opens the socket and starts rx_loop.
InitializeCommunicator(v) ==
    v \in on /\ Advance(v, "off", "up") /\ UNCHANGED <<ready, goReceived>>

\* The frames set_current_group sends (GROUP_MOVE_NOTIFY, GROUP_INFO) are not
\* handled by this protocol.  register_with_coordinator and
\* wait_for_ack_from_coordinator return at once: every gateway is a master node.
SetCurrentGroup(v) == Advance(v, "up", "grouped") /\ UNCHANGED <<ready, goReceived>>

SetOnSyncDone(v) == Advance(v, "grouped", "hooked") /\ UNCHANGED <<ready, goReceived>>

\* enable_start_sync, assignment by assignment: the receive thread is running.
EnableTotal(v) == Advance(v, "hooked", "total") /\ UNCHANGED <<ready, goReceived>>

\* Mutant: a GO that came early is forgotten with the READYs.
EnableClearGo(v) ==
    /\ Advance(v, "total", "cleared")
    /\ ready' = [ready EXCEPT ![v] = {}]
    /\ goReceived' = [goReceived EXCEPT ![v] = FALSE]

EnableClear(v) ==
    /\ Advance(v, "total", "cleared")
    /\ ready' = [ready EXCEPT ![v] = {}]
    /\ UNCHANGED goReceived

EnableCallback(v) == Advance(v, "cleared", "callback") /\ UNCHANGED <<ready, goReceived>>

\* Mutant: the car marks its group, not itself.
EnableReadyGroup(v) ==
    /\ Advance(v, "callback", "waiting")
    /\ ready' = [ready EXCEPT ![v] = IF v \in Master THEN @ ELSE @ \cup {GroupOf[v]}]
    /\ UNCHANGED goReceived

\* Mutant: the car does not mark itself.
EnableReadyOthers(v) == Advance(v, "callback", "waiting") /\ UNCHANGED <<ready, goReceived>>

\* Only a car marks itself ready, without looking whether it was the last one.
EnableReady(v) ==
    /\ Advance(v, "callback", "waiting")
    /\ ready' = [ready EXCEPT ![v] = IF v \in Master THEN @ ELSE @ \cup {v}]
    /\ UNCHANGED goReceived

Main(v) ==
    \/ InitializeCommunicator(v)
    \/ SetCurrentGroup(v)
    \/ SetOnSyncDone(v)
    \/ EnableTotal(v)
    \/ EnableClear(v)
    \/ EnableCallback(v)
    \/ EnableReady(v)

-----------------------------------------------------------------------------
(* The READY thread and the network *)

\* A car broadcasts READY every second until _sync_done.  From the first one on, a
\* READY of the car may come to any open socket at any time.
SendReady(v) ==
    /\ v \in Car
    /\ Enabled(v)
    /\ ~done[v]
    /\ announced' = announced \cup {v}
    /\ UNCHANGED <<on, stage, ready, goSent, goReceived, done, inbox, rx, hand, lost, misled>>

\* The frame of u is of another group and w, whose group is set, is no master:
\* notify_by_port does nothing with it.
Ignores(w, u) == stage[w] # "up" /\ w \notin Master /\ ~IsInternal(w, u)

\* The inboxes after v broadcasts GO: it comes to every other VM whose socket is
\* open (a VM ignores frames carrying its own address).
Broadcast(v) ==
    [w \in VM |-> IF w # v /\ stage[w] # "off" /\ ~Ignores(w, v)
                  THEN inbox[w] \cup {v} ELSE inbox[w]]

\* The inboxes after the GO of u has left the one of v.
Taken(v, u) == [inbox EXCEPT ![v] = @ \ {u}]

\* A GO is dropped on the network or by a full socket buffer.
Lose(v, u) ==
    /\ u \in inbox[v]
    /\ lost < MaxLost
    /\ lost' = lost + 1
    /\ inbox' = Taken(v, u)
    /\ UNCHANGED <<on, stage, ready, goSent, goReceived, done, announced, rx, hand, misled>>

-----------------------------------------------------------------------------
(* The receive thread: notify_by_port *)

\* Whoever finds its count of nodes complete, master or car, broadcasts GO, once.
SendGo(v, nodes) ==
    LET go == ~goSent[v] /\ Cardinality(nodes) = SyncTotal(v)
    IN  /\ goSent' = [goSent EXCEPT ![v] = @ \/ go]
        /\ inbox' = IF go THEN Broadcast(v) ELSE inbox

\* Mutant: the callback is not called.
NotifiesMaster(v, internal) == IsMaster(v)

\* The callback runs for the first GO of the own group only; then the observers of
\* the protocol run: at a master on_control calls notify_sync_done for any GO.
Notifies(v, internal) ==
    \/ internal /\ ~goReceived[v] /\ HasCallback(v)
    \/ IsMaster(v)

\* The GO branch and the observers; notify_sync_done sets _sync_done.
Notify(v, internal) ==
    /\ goReceived' = [goReceived EXCEPT ![v] = @ \/ internal]
    /\ done' = [done EXCEPT ![v] = @ \/ Notifies(v, internal)]

\* The main thread waits and writes nothing that the READY branch reads: one step.
\* A READY of another group changes nothing.
HandleReady(v, u) ==
    /\ Enabled(v) /\ rx[v] = "idle"
    /\ u \in announced \ {v}
    /\ IsInternal(v, u)
    /\ ready' = [ready EXCEPT ![v] = @ \cup {u}]
    /\ SendGo(v, ready[v] \cup {u})
    /\ UNCHANGED <<on, stage, goReceived, done, announced, rx, hand, lost, misled>>

\* Nor anything that the GO branch reads.
HandleGo(v, u) ==
    /\ Enabled(v) /\ rx[v] = "idle"
    /\ u \in inbox[v]
    /\ Notify(v, IsInternal(v, u))
    /\ inbox' = Taken(v, u)
    /\ UNCHANGED <<on, stage, ready, goSent, announced, rx, hand, lost, misled>>

\* While the main thread initialises, the receive thread of v holds a frame of u and
\* goes on at the given place.
Hold(v, u, to) ==
    /\ stage[v] # "off" /\ ~Enabled(v) /\ rx[v] = "idle"
    /\ rx' = [rx EXCEPT ![v] = to]
    /\ hand' = [hand EXCEPT ![v] = IF to = "idle" THEN {} ELSE {u}]
    /\ UNCHANGED <<on, stage, ready, goSent, goReceived, done, announced, lost, misled>>

\* It acts on the frame in hand, which belongs to another group when
\* current_group_id has changed since the group was tested.
Act(v) ==
    misled' = IF \E u \in hand[v] : ~IsInternal(v, u) THEN misled \cup {v} ELSE misled

\* The READY branch tests the group,
ReadyCheck(v, u) ==
    /\ u \in announced
    /\ IsInternal(v, u)
    /\ Hold(v, u, "ready")
    /\ UNCHANGED inbox

\* then _sync_total_vms, and notes the sender,
ReadyInsert(v) ==
    /\ rx[v] = "ready"
    /\ \/ /\ SyncTotal(v) > 0
          /\ ready' = [ready EXCEPT ![v] = @ \cup hand[v]]
          /\ rx' = [rx EXCEPT ![v] = "counted"]
          /\ Act(v)
       \/ /\ SyncTotal(v) = 0
          /\ rx' = [rx EXCEPT ![v] = "idle"]
          /\ UNCHANGED <<ready, misled>>
    /\ hand' = [hand EXCEPT ![v] = {}]
    /\ UNCHANGED <<on, stage, goSent, goReceived, done, announced, inbox, lost>>

\* and looks at the count.
ReadyCount(v) ==
    /\ rx[v] = "counted"
    /\ SendGo(v, ready[v])
    /\ rx' = [rx EXCEPT ![v] = "idle"]
    /\ UNCHANGED <<on, stage, ready, goReceived, done, announced, hand, lost, misled>>

\* The GO branch tests the group; the observers of a master see any GO.
GoCheck(v, u) ==
    /\ u \in inbox[v]
    /\ Hold(v, u, IF IsInternal(v, u) THEN "go" ELSE IF v \in Master THEN "foreign" ELSE "idle")
    /\ inbox' = Taken(v, u)

GoNotify(v) ==
    /\ rx[v] \in {"go", "foreign"}
    /\ Notify(v, rx[v] = "go")
    /\ IF rx[v] = "go" THEN Act(v) ELSE UNCHANGED misled
    /\ rx' = [rx EXCEPT ![v] = "idle"]
    /\ hand' = [hand EXCEPT ![v] = {}]
    /\ UNCHANGED <<on, stage, ready, goSent, announced, inbox, lost>>

-----------------------------------------------------------------------------

Next ==
    \E v \in VM :
        \/ Main(v)
        \/ SendReady(v)
        \/ ReadyInsert(v) \/ ReadyCount(v) \/ GoNotify(v)
        \/ \E u \in VM :
              \/ HandleReady(v, u) \/ HandleGo(v, u)
              \/ ReadyCheck(v, u) \/ GoCheck(v, u)
              \/ Lose(v, u)

Spec == Init /\ [][Next]_vars

\* The main and READY threads run.
FairSpec == Spec /\ \A v \in VM : WF_vars(Main(v)) /\ WF_vars(SendReady(v))

\* The receive thread of v runs, that is, no fan-out of a data frame blocks it for
\* good; the socket buffer is a queue, so that it comes to a GO, and to a READY of
\* each car that still repeats it.
Receives(v) ==
    /\ WF_vars(ReadyInsert(v) \/ ReadyCount(v) \/ GoNotify(v))
    /\ \A u \in VM : WF_vars(HandleReady(v, u) /\ ~done[u]) /\ WF_vars(HandleGo(v, u))

-----------------------------------------------------------------------------
(* Properties *)

\* Every field of Gateway and Protocol that takes part has its type.
TypeOK ==
    /\ on \in SUBSET VM
    /\ stage \in [VM -> Stage]
    /\ ready \in [VM -> SUBSET VM]
    /\ goSent \in [VM -> BOOLEAN]
    /\ goReceived \in [VM -> BOOLEAN]
    /\ done \in [VM -> BOOLEAN]
    /\ announced \in SUBSET Car
    /\ inbox \in [VM -> SUBSET VM]
    /\ rx \in [VM -> Rx]
    /\ hand \in [VM -> SUBSET VM]
    /\ lost \in Nat
    /\ misled \in SUBSET VM

SameGroup(v, w) == GroupOf[v] = GroupOf[w]

Crew(v) == {c \in Car : SameGroup(c, v)}

AllCarsReady(v) == \A c \in Crew(v) : Enabled(c)

\* No VM of the group of v acted on a frame of group 0 that it had taken for its
\* own before set_current_group.  In group 0 there is no such frame.
Sure(v) == GroupOf[v] = 0 \/ \A w \in misled : ~SameGroup(w, v)

\* The barrier holds cars back: notify_sync_done runs in a car only once every
\* car of its group has come out of enable_start_sync, whatever is lost,
\* delayed or repeated and however the boots interleave.  The one exception is
\* a group with a VM whose receive thread tested the group of a frame before
\* set_current_group and acted on the frame after it; it cannot happen in group 0.
NoCarStartsEarly == \A c \in Car : done[c] /\ Sure(c) => AllCarsReady(c)

\* The abstract barrier for the cars of group 0: a car has arrived once
\* enable_start_sync returned, and is released once notify_sync_done ran.
Barrier == INSTANCE StartBarrier WITH
              Car      <- {c \in Car : GroupOf[c] = 0},
              arrived  <- {c \in Car : GroupOf[c] = 0 /\ Enabled(c)},
              released <- {c \in Car : GroupOf[c] = 0 /\ done[c]}

\* READY and GO implement the barrier in group 0: no step of boots, retries, losses
\* or handlers, of this group or another one, releases a car, or takes an arrival
\* back, in any other way.
ImplementsBarrier == Barrier!Spec

\* The car has noted a GO without being released by it: it takes no other GO.
Deaf(c) == goReceived[c] /\ ~done[c]

\* As long as no GO was dropped, the GO of a group finds its cars: a car of the
\* group is released, or the GO waits in its socket, or the car is deaf, which only
\* a car can be whose group is not 0, since current_group_id is 0 while it boots.
GoOnItsWay ==
    \A v \in VM : \A c \in Car \ {v} :
        goSent[v] /\ SameGroup(v, c) /\ Sure(v) /\ lost = 0 =>
            \/ done[c]
            \/ v \in inbox[c]
            \/ Deaf(c) /\ GroupOf[c] # 0

\* A deaf car never starts: enable_start_sync does not clear _sync_go_received, and
\* the GO branch runs the callback for the first GO only.
DeafForGood == [][\A c \in Car : Deaf(c) => Deaf(c)']_vars

\* GO reaches the cars of a group that are all switched on: READY is repeated until
\* some other VM of the group has counted all of them, also one that forgot them
\* in enable_start_sync.  If no receive thread of the group is ever blocked,
\* _sync_done is eventually set in each of its cars, unless a GO was lost, the car
\* became deaf while it booted, or a VM of the group was misled (with a stranger in
\* _sync_ready_nodes the count passes the total unnoticed).  One blocked thread is too
\* many: a car that is released stops sending READY, and the last one of its group
\* can then only be counted by the receive thread of that car.
EveryCarReleased ==
    \A c \in Car :
        /\ Crew(c) \subseteq on
        /\ \E v \in on \ {c} : SameGroup(v, c)
        /\ \A v \in VM : SameGroup(v, c) => Receives(v)
        => <>(done[c] \/ lost > 0 \/ ~Sure(c) \/ (Deaf(c) /\ GroupOf[c] # 0))
=============================================================================
