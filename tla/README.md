# Formal model of the vehicle communication system

TLA+ modules, TLC instances and TLAPS proofs for the C++ program in `src/src`.

## The system

A run consists of virtual machines on one Ethernet segment. A VM is a car or a
road-side unit (`vm_id % 10 == 0`); its group (road segment) is `vm_id / 10`.

| Part | Source | Module | State of the model |
|---|---|---|---|
| shared-memory bus of a VM | `shm_node.*`, `engine_shm.*` | `ShmBus`, `BusOffer` | every step of reader and sender |
| start barrier READY/GO | `gateway.h`, `protocol.h`, `communicator.h` | `StartSync`, `StartBarrier`, `StartWait` | complete |
| clock exchange | `gateway.h`, `protocol.h` | `PtpSync` | complete; the kernel slews the clock as it likes |
| clock samples | `clock_syncer.h` | `ClockSyncer` | window, averages, time arithmetic |
| Ethernet receive path | `engine_ethernet.*` | `EthernetRx` | constructor, signal, drain, upcall |
| group management | `protocol.h`, `gateway.h` | `Groups` | maps, move of a VM, as deployed |
| message code | `protocol.h` | `MessageCode` | bodies of group messages |
| data path, forwarding | `nic.*`, `protocol.h`, `gateway.h`, `car_component.h` | `DataPath` | all but frame sizes |
| communicator | `communicator.h` | `DataPath`, `StartSync` | sending, delivery, GO |
| publish/subscribe | `publish_subscriber.h`, `car_component.h` | – | dormant |
| components | `components.h`, `car.cpp` | `ShmBus`, `DataPath` | brake, gateway |
| ports, texts, statistics | `ports.h`, `utils.h` | – | no state |

In a car the gateway process and one process per component share one
`SharedData` region. The gateway alone owns an Ethernet engine. A frame from the
segment is received by the engine's thread, checked by the protocol, and either
handled there (control frames) or fanned out over the bus; a frame from the bus
is delivered on the reader thread of each node.

## Modules

**ShmBus.** A thread is the reader of a node or a sending thread. `pc` follows
`receive_msg_routine` (`ReadWait` … `ReadDeliver`) and `send_msg` (`SendLock` …
`SendUnlock`). Critical sections of `new_msg_cond_mtx` are one step; everything
done outside it is a step of its own, so `using_bus`, `msg_len` and the bus are
seen as the other threads see them. `BarrierWait` is `pthread_barrier_wait` with
`nodes_count + 1` parties. Frames are abstracted to a number, a sender and
whether they are a command; `msgLen` names the frame the length belongs to. The
model starts when the gateway has mapped the region; a component that is not
forked yet is a reader that has not taken its first step. `BusOffer` is what
`send_msg` promises: a slot with one holder, whose message does not change while
it is on offer. `Coming` are the threads that can still arrive at the barrier a
sender waits in, and a sender is `Stuck` when they are too few.

**StartSync.** `stage` is the program counter of the main thread in
`Gateway::initialize`; `enable_start_sync` takes one step per assignment, because
the receive thread already runs. That thread takes no lock, so while the main
thread initialises it goes step by step too (`rx`, and `hand` for the frame it
holds): the test of the group (`ReadyCheck`, `GoCheck`), the insertion
(`ReadyInsert`), the count (`ReadyCount`) and the callback (`GoNotify`). Once the
main thread waits, it writes nothing that `notify_by_port` reads, and a frame is
handled in one step (`HandleReady`, `HandleGo`). The unlocked `std::set` that both
threads change is taken to hold after each operation what the operation says; a
torn set is not modelled. READY is repeated, so the model keeps only which cars
have `announced` themselves, and a READY of such a car may be handled at any time.
GO is sent once: it is in the `inbox` of each open socket until it is handled, in
any order, and `Lose` drops it. A `Deployment` says which VMs are switched on and
which of them have come as far as the wait already.

A car is `Deaf` when it has noted a GO without being released by it: while it
boots, its `current_group_id` is 0 and its callback is not set, so it notes a GO of
group 0, and `_sync_go_received` is never cleared. A VM is `misled` when it tested a
frame of group 0 before `set_current_group` and acted on it afterwards: it counts a
stranger, or is released by the GO of a stranger. A group is `Sure` while none of
its VMs is misled; in group 0 there is nothing to be misled by, because the group
tested and the group set are the same. `StartBarrier` is what the exchange
promises, and `ImplementsBarrier` claims it for the cars of group 0, where it holds
without exception.

**StartWait** adds the wait at the end of `Gateway::initialize` to `StartSync`: the
test of `_sync_done`, the decision to block, and blocking are three steps, and
`notify_sync_done` wakes only who is asleep.

**PtpSync.** `now` is the master's clock, `skew` what a car's clock is ahead of
it. `TickRequest`/`TickRunning` are `Gateway::on_tick`; the `Handle…` actions are
the four branches of `notify_by_port`. The road-side unit may come up after the
cars (`SetMaster`): a SYNC_REQ it gets earlier is dropped, as its `_is_master` and
group guards say. `HandleDelayResp` stores the sample in the car's `syncer` and hands the average
to `adjtimex`; from then on the kernel may move the clock by one at any time
(`Slew`), in a direction that is left open, so also in the middle of an exchange.
`stamped` and `unheard` are history: the skew at the time stamp of the exchange, and
the cars whose request found no master.

**ClockSyncer** holds the operators of the sample windows. `Average` keeps the
ranges of `average()`: an accumulator below `IntLimit`, an unsigned division below
twice `LongLimit` (2^31 and 2^63 in the build). The limits are constants, and no
more is assumed of them than that `long long` is not narrower than `int`.
`AdjustedTime` is the carry arithmetic of `adjust_system_time_by_us`, which nothing
calls at present.

**Groups.** `groups` is each VM's `_groups`, `current` its `current_group_id`.
`SetCurrentGroup` and `MoveGroup` are the two calls of the main thread, the
`Handle…` actions the branches of `notify_by_port`, which first drop a message
whose code is wrong (`Passes`). What the deployment decides is a constant: the key,
in `Passes`, and whether the addresses `endpoint_from_vm` builds
(`00:00:00:00:00:XX`) exist (`OwnAddress`). `Deployment` collects what the theorems
need of the constants. As deployed, no handler gets past `DropUnauthorized`; they
are modelled as they are written all the same. `Stray` is what
`GROUP_COORDINATORS[-1]` reads: a join carries -1 as the old group, and the array
is not checked. `get_group_of` is called after `set_group_for_vm` has moved the
requester, so that the group it finds is the requested one: a request is handled
by the coordinator of the new group, not of the old one as the comment above the
test says.

**MessageCode.** `generate_mac` and `verify_msgac` byte by byte, since `MCGroups`
computes with them which group messages pass under `SECRET_KEY`.

**EthernetRx.** SIGIO is one pending bit, `sem` the semaphore. `SemWaitInterrupted`
is the handler running in the blocked receive thread itself (`sa_flags` is 0, so
`sem_wait` returns and `rx_loop` does not look at the result). `Receive` takes a
frame and enters the upcall, which runs the whole receive path up to the bus;
`Return` is its end, and nothing makes it come.

**DataPath.** A message of a brake component goes over its bus to the gateway
(`GatewayForward`), over the segment to the other gateways (`GatewayTake`) and over
their buses to the components (`Fanout`, `ComponentReceive`). Buses and segment are
sets of frames that only grow, and any node may read any frame any number of
times or never: weaker than the real media, so a safety property that holds here
holds there, as long as readers get whole frames (a copy taken while the bus is
rewritten is in `ShmBus`, not here). Each gateway boots on its own (`stage`), and counts itself to group 0
until `set_current_group`. `GatewayTake` and `Fanout` are separate steps of the one
receive thread, which also handles GO. `set_peer_ports` races with the fan-out,
which may see any part of the list. A coordinator, or a VM of a group without
one, announces its group in `set_current_group` with a text that
`parse_message` takes for data of group 0 (`Announcement`); in group 0 it is fanned
out to the components like any data. The queue of the gateway is left out:
nobody reads it.

**How the modules fit together.** `StartSync`, `PtpSync` and `DataPath` take the
final group of a VM as a constant. `GroupsFixed` (in `GroupsProofs`) is what allows that:
with a key that refuses GROUP_ASSIGN, a VM has group 0 until
`set_current_group` and `vm_id / 10` from then on. `DataPath` takes GO as one event, of
which `StartSync` is the detail; its bus is weaker than the one of `ShmBus`, its
segment weaker than the receive path of `EthernetRx`. `PtpSync` extends
`ClockSyncer`, whose windows its samples fill. `StartWait` extends `StartSync`. The
upcall of `EthernetRx` ends in a `send_msg` of `ShmBus`, which may never return
(`shm_ack_deadlock`); this is why no module assumes that a receive thread goes on,
except as the hypothesis of a property and in the `groups` run.

Definitions introduced by a comment "Mutant" are faulty variants of the
definition that follows them. No specification uses them; they show that a
property would notice the fault.

## Runs

| Run | Shows |
|---|---|
| `shm_car` | in a car whose brake component answers commands, the bus is a slot with one holder whose message on offer is not overwritten; a send that finds no reader behind is read by all; a sender that is not stuck has an awake reader coming; only an answer makes one stuck, and then for good; every `send_msg` returns, unless a reader thread is itself sending an answer |
| `sync_groups` | two groups of two cars and a road-side unit, one GO lost: no car starts before its group is ready, unless a VM of the group was misled; in group 0 the exchange refines `StartBarrier`; a GO sent is in every car of the group or on its way; a deaf car stays deaf; a car with another VM in its group is released, with the exceptions below |
| `ptp_exchange` | exchanges of a car do not overlap; an offset is within half a round trip of the skew at its time stamp, also while the clock is slewed; an exchange is carried by a frame and ends when nothing is lost and the master is up; one whose frame was lost, or found no master, is never taken up again; the windows stay in step, and samples without a negative one are averaged correctly |
| `data_path` | components get data of their own group only, also while VMs boot; without an echo on a bus no message returns to its maker; an acknowledgement goes back to a command its maker heard |
| `eth_rx` | no lost wake-up; no signal before its handler; announced frames are received as long as upcalls return |

Runs that end in a counterexample, each against a statement in the source that
`PROJECT.json` quotes:

| Run | What happens |
|---|---|
| `shm_lost` | a reader of the previous message fills the barrier of the next |
| `shm_ack_deadlock` | an answer from the reader thread stops the bus |
| `sync_wakeup` | the notification falls between test and sleep |
| `ptp_lost` | one lost frame ends clock synchronisation for good |
| `clock_mean` | a negative sum of offsets averages to a huge number |
| `clock_sign` | the offset is car minus master and is added to the car's clock: its error doubles |
| `groups` | the request of VM 1 for group 3 is dropped by the coordinator that should handle it |

The models also contain behaviours that no run states a property about; the
hazards in `PROJECT.json` list them with a note: a node reads its own message (the
gateway then forwards its own fan-out) or one message twice; the length handed to
`on_receive_msg` is that of a later message; a road-side unit starts on the GO of any group, and with a single car is
released by nobody.

`EveryCarReleased` excepts what the code leaves behind: a car whose GO was lost (it
is not repeated); a deaf car of a group other than 0, since the GO branch asks for
the group the VM has at that moment and notes the GO whether or not there is a
callback to run; a group with a misled VM, where a stranger in `_sync_ready_nodes`
takes the count past the total; and a group one of whose receive threads is
blocked, since a released car stops sending READY and the last one may then only
be counted by that thread. `GoOnItsWay` and `DeafForGood` say exactly who can be
left behind when nobody is misled, and that nothing brings the car back.

The `groups` run has the deployed key and addresses. `send_control` sends group
messages with the code 0, which under `SECRET_KEY` is the code of none of their
bodies, so the request is dropped, and by `GroupsFixed` no VM ever changes its
group. The addresses would be the next obstacle: the VMs are started with
`52:54:00:12:34:XX`, and `endpoint_from_vm` sends unicast group messages to others.

The sign in `clock_sign`: `SampleAccuracy` says that DELAY_RESP brings the car's
clock minus the master's. `getSynchronizedTimeUs` and `applySync` add the average,
as if it were the master's clock minus the car's, which is what the comment on
`getAverageOffset` says ("Probable offset from local clock to remote clock").

**Bounds.** A car has the three nodes the program builds (gateway, powertrain,
brake) and two sending threads. Two sends, plus the answers to commands, are
enough for a reader to be one message behind while a second sender waits. Groups
of two cars, with `total_sync_vms` 2, are what `run_vms.sh` deploys. To boot five VMs at once
is out of reach, so `sync_groups` has four scenarios (`Boots`): a whole group with
its road-side unit; a group beside a car of group 0; one car while everybody else
waits; a road-side unit beside the cars of another group. One GO may be lost. The
safety theorems hold for any number of VMs and any scenario. Two cars with skews on
both sides of the master's clock, three exchanges (`MaxStarted`), a window of two
samples and one lost frame let requests be due early, late and after the clock
was slewed back, and let an old sample leave its window. Two cars of group 0, which are interchangeable, and one of
group 4, which has no coordinator and so announces itself, let data and
announcements cross between groups and an answer come back; each component
makes one message, because with two the instance is out of reach, and the
theorems of `DataPathProofs` have no such bound. The road-side units and one car
each of groups 0 and 3, with the move `on_tick` contains (VM 1 to group 3), are those of the
deployed VMs that this move concerns. Limits of 16 and 128
let sums pass the limit of `int`. The socket buffer holds 4 frames and 12 arrive. `CHECK_DEADLOCK` is off where a bounded run
may stop.

**Fairness.** Weak fairness per thread: the operating system schedules a thread
that can run. This covers the main and READY threads of `StartSync`, `on_tick` in
`PtpSync`, the threads of `ShmBus`, and `rx_loop` outside its upcalls. A receive
thread is different: the fan-out of a data frame can block it for good. That it
goes on is therefore never part of the specification of a passing run, but the hypothesis of the property
that needs it: `Receives` (`StartSync`), `Unblocked` (`PtpSync`), `UpcallsReturn`
(`EthernetRx`). Where it goes on it comes to every frame of its socket, which is
first in, first out. The counterexample of `groups` is found under fairness of main and
receive threads, so it owes nothing to a thread that stops. Nothing forces a send,
an arrival, the slewing or the clock.

## Proofs

All theorems hold for every value of the constants that satisfies the named
assumptions (finite sets of nodes and VMs, positive bounds, and in `StartSync`
that each group has `TotalSyncVms` cars, as deployed).

* `ShmBusProofs`: `TypeCorrect`, `OfferStable`, `CleanSendDelivers`, `Refinement`,
  `Served`, `StuckOnlyByAnswer`, `StuckStays`. The
  invariant adds to the types that only the holder of `bus_mtx` is past its lock
  (`Exclusion`), which program counters belong to which kind of thread (`Roles`),
  what is on the bus at each step of the holder (`Offer`), and where the readers
  stand during a clean send (`InStep`). The last needs a count: as many threads in
  the barrier as it has parties means every reader and the sender. `Refinement`
  maps each step of the holder to one of `BusOffer` and everything else to a stutter.
  `Served` needs a second invariant (`Wakeful`): a reader sleeps on `new_msg_cond`
  only while no message is on offer, and the barrier never holds as many threads
  as it counts; then a sender with enough threads `Coming` has one that is not yet
  in the barrier and not asleep. For `StuckStays` the set `Coming` is shown never to
  grow while its sender waits (`ComingShrinks`); for `StuckOnlyByAnswer` only
  readers of brake components are ever in `send_msg` (`Answering`). Together they
  say that the deadlock of `shm_ack_deadlock` is the only way the barrier of a
  `send_msg` stays unfilled for want of threads.
* `StartSyncProofs`: `TypeCorrect`, `BarrierHolds`, `Refinement`, `GoFindsCars`,
  `DeafStays`. A READY on its way comes from a car that is ready, a GO of a group
  that is `Sure` means that the group is ready (`FramesTellTruth`), a frame in the
  hands of a receive thread passed the test with the group of the VM or with 0
  (`HandsTellTruth`), and a VM of a group that is `Sure` counts only ready cars of
  its own (`CountedAreReady`); a full count is the whole group. A complete count
  also means that every car of the group has its callback by then, so the GO that
  follows releases each car that is not deaf; deaf can only be a car that took a GO
  of group 0 for its own (`DeafAbroad`). No scenario is assumed: the proofs hold for
  every `Deployment`.
* `PtpSyncProofs`: `TypeCorrect`, `ExchangesApart`, `SamplesAccurate`, `Carried`,
  `NoRecovery`, `InStep`, `Mean`. The time stamps of a frame are ordered when the
  car's is corrected by the skew at that moment, which `stamped` remembers
  (`StampsInOrder`); the slewing after it does not enter the offset, and a car has
  one exchange at a time; the rest is arithmetic (`OffsetBound`). `Carried` and
  `NoRecovery` are two sides of `_running_ptp`: each handler that takes a frame sends
  the next one or clears the flag, unless there is no master, and once no frame is
  left nothing does. `Mean` needs that the averages kept are those of the windows
  (`AveragesOfWindows`).
* `DataPathProofs`: `GroupsApart`, `NoReturn`, `AnswersCaused`. Frames on the segment and on a bus
  are of their sender's group (`EthInGroup`, `BusInGroup`); the receive thread may
  hold foreign data while the gateway still counts itself to group 0, but not
  after it has handled GO (`RxInGroup`), and before that there is nobody to fan
  out to. For `AnswersCaused` every message on a bus, on the segment, in a receive
  thread or in a queue has its cause in the queue of its maker (`AllCaused`), and
  queues only grow.
* `EthernetRxProofs`: `NoLostWakeup`, `HandlerInPlace`, by cases on the actions.
* `GroupsProofs`: `TypeCorrect`, `GroupsFixed`. Where no GROUP_ASSIGN passes, a VM is
  in group 0 until `set_current_group` and in its home group from then on, for every
  `Deployment` and whatever is lost, requested or notified. That none passes under
  `SECRET_KEY` is computed in `MCGroups`.
* `ClockSyncerProofs`: `TimeNormalised`, from the remainder of C++ division
  (`Division`); `SignLost`, the counterexample of `clock_mean` for every window and
  every range; and the lemmas on one sample (`KeepLength`, `SampleAdded`,
  `AverageExact`) that `PtpSyncProofs` uses. Partial sums of a window are recursive
  functions, and what holds of every prefix is shown by taking the shortest prefix
  for which it fails.

Only model-checked: all liveness properties, the message code (bitwise), and the
counterexamples.

## Not modelled

* Publish/subscribe: no component adds a capability, fills `_data` or subscribes,
  so `publisher_loop` walks over empty lists and `digest_subs` has nothing to
  enter. A model would be one of a program that does not exist yet.
* GROUP_REGISTER and `wait_for_ack_from_coordinator`: the gateway calls both with
  `is_master_node` true, which returns at once, and components do not call them.
* The failure of a node process on the bus: the barrier would never be filled
  again, and nothing in the code answers to that or says that it should.
* Frame sizes: the protocol refuses what exceeds its MTU, and the messages the
  components send are far below it.
* `DataPath` over the step-by-step bus of `ShmBus`: one message per component on
  the weak bus already makes a million states, and the weak bus allows more.
* `addNtpSample` and the form of `addPtpSample` with four time stamps: nothing calls
  them.
* How far and in which direction `adjtimex` slews a clock (every way is allowed), printing, the log file, statistics nobody reads
  (`hasEnoughSamplesCI` is computed and ignored), destructors (never reached), the
  components that are not instantiated.
* `busybox` (a vendored userland for the VM image), the scripts that build and
  start the VMs, the log evaluation in `tools`, and the old `main.cpp.bk`. They are
  most of the lines of the repository and none of the program.
