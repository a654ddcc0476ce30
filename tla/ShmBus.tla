------------------------------- MODULE ShmBus -------------------------------
(***************************************************************************)
(* The message bus inside one VM: ShmNode (shm_node.cpp) with the frame    *)
(* hooks of EngineShm (engine_shm.cpp) above it.  Every node of a vehicle  *)
(* (the gateway and its components, one process each) maps the same        *)
(* SharedData, runs one reader thread (receive_msg_routine) and sends with *)
(* send_msg.  A thread is either the reader of a node, named by the node,  *)
(* or a sending thread in Tx: the gateway's Ethernet receive thread (which *)
(* fans frames out) and the components' tick threads.                      *)
(*                                                                         *)
(* A critical section of new_msg_cond_mtx touches only msg_available and   *)
(* the condition variable, so it is one step.  Everything the code does    *)
(* outside a mutex (using_bus, bus, msg_len) is a step of its own.         *)
(***************************************************************************)
EXTENDS Integers, FiniteSets

CONSTANTS
    Node,       \* the nodes mapping the region (master gateway + components)
    Gateway,    \* the node whose Ethernet thread fans commands out
    Brake,      \* nodes running a BrakeComponent: they answer a command
    Tx,         \* sending threads other than the readers
    Owner,      \* the node each thread of Tx belongs to
    MaxSends,   \* bound: sends started by the threads of Tx
    NoMsg,      \* the zeroed bus after initialize_shared_memory_region
    Torn        \* the bus while memset and memcpy are rewriting it

ASSUME NodeAssumption == IsFiniteSet(Node) /\ Gateway \in Node /\ Brake \subseteq Node
ASSUME TxAssumption == Node \cap Tx = {} /\ Owner \in [Tx -> Node]
ASSUME BoundAssumption == MaxSends \in Nat

Thread == Node \cup Tx

NodeOf(t) == IF t \in Node THEN t ELSE Owner[t]

\* A frame on the bus.  cmd: a brake or hazard command for a brake component.
Message == [id : Nat, from : Node, cmd : BOOLEAN]

BusValue == Message \cup {NoMsg, Torn}

VARIABLES
    busMtx,         \* the threads holding bus_mtx (at most one)
    usingBus,       \* ShmNode::using_bus, one flag per node
    bus,            \* SharedData::bus
    msgLen,         \* SharedData::msg_len, named by the frame it was set for
    msgAvailable,   \* SharedData::msg_available
    pc,             \* where each thread is
    txMsg,          \* the argument of the send_msg a thread is executing
    rxMsg,          \* the private copy a reader took of the bus
    sends,          \* history: number of send_msg calls so far
    clean           \* history: no reader was behind when bus_mtx was taken

vars == <<busMtx, usingBus, bus, msgLen, msgAvailable, pc, txMsg, rxMsg,
          sends, clean>>

ReaderPc == {"wait", "asleep", "test", "copy", "arrive", "barrier", "deliver"}

SenderPc == {"lock", "write", "fill", "publish", "join", "joined", "clear",
             "release", "unlock"}

-----------------------------------------------------------------------------
(* all_read_done_barrier *)

\* The argument nodes_count of the constructor: the components of the vehicle,
\* the gateway not counted (components_len of Car::start, 0 on a road-side VM).
NodesCount == Cardinality(Node) - 1

\* Mutant: the sender is forgotten in the count of the barrier.
BarrierCountOfReaders == NodesCount

\* Mutant: the sender is counted besides every node.
BarrierCountTwice == NodesCount + 2

BarrierCount == NodesCount + 1

Waiting == {t \in Thread : pc[t] \in {"barrier", "joined"}}

\* Where pthread_barrier_wait returns to, in a reader and in send_msg.
Released(t) == IF pc[t] \in {"join", "joined"} THEN "clear" ELSE "deliver"

\* pthread_barrier_wait: the last of BarrierCount threads releases them all.
BarrierWait(t, blocked) ==
    pc' = IF Cardinality(Waiting \cup {t}) = BarrierCount
          THEN [u \in Thread |-> IF u \in Waiting \cup {t} THEN Released(u) ELSE pc[u]]
          ELSE [pc EXCEPT ![t] = blocked]

-----------------------------------------------------------------------------
Init ==
    /\ busMtx = {}
    /\ usingBus = [n \in Node |-> FALSE]
    /\ bus = NoMsg
    /\ msgLen = NoMsg
    /\ msgAvailable = FALSE
    /\ pc = [t \in Thread |-> IF t \in Node THEN "wait" ELSE "idle"]
    /\ txMsg = [t \in Thread |-> NoMsg]
    /\ rxMsg = [n \in Node |-> NoMsg]
    /\ sends = 0
    /\ clean = FALSE

Goto(t, l) == pc' = [pc EXCEPT ![t] = l]

(* receive_msg_routine *)

\* Lock new_msg_cond_mtx, look at msg_available, go on or sleep in the wait.
ReadWait(n) ==
    /\ pc[n] = "wait"
    /\ Goto(n, IF msgAvailable THEN "test" ELSE "asleep")
    /\ UNCHANGED <<busMtx, usingBus, bus, msgLen, msgAvailable, txMsg, rxMsg,
                   sends, clean>>

\* A node that is sending does not read its own message.
ReadTest(n) ==
    /\ pc[n] = "test"
    /\ Goto(n, IF usingBus[n] THEN "wait" ELSE "copy")
    /\ UNCHANGED <<busMtx, usingBus, bus, msgLen, msgAvailable, txMsg, rxMsg,
                   sends, clean>>

\* malloc and memcpy with the current msg_len; a length that is not the one of
\* the frame on the bus gives a copy that is not that frame.
ReadCopy(n) ==
    /\ pc[n] = "copy"
    /\ rxMsg' = [rxMsg EXCEPT ![n] = IF msgLen = bus THEN bus ELSE Torn]
    /\ Goto(n, "arrive")
    /\ UNCHANGED <<busMtx, usingBus, bus, msgLen, msgAvailable, txMsg,
                   sends, clean>>

ReadArrive(n) ==
    /\ pc[n] = "arrive"
    /\ BarrierWait(n, "barrier")
    /\ UNCHANGED <<busMtx, usingBus, bus, msgLen, msgAvailable, txMsg, rxMsg,
                   sends, clean>>

\* BrakeComponent::on_receive answers a command it received.
Answers(n) == n \in Brake /\ rxMsg[n] \in Message /\ rxMsg[n].cmd

\* on_receive_msg(msg_len, msg), msg_len read now: the frame is taken apart by
\* its own size field, so the length decides nothing.  The call runs on the
\* reader thread up to the component's on_receive, so an answer is a send_msg of
\* this very thread.
ReadDeliver(n) ==
    /\ pc[n] = "deliver"
    /\ IF Answers(n)
       THEN /\ Goto(n, "lock")
            /\ txMsg' = [txMsg EXCEPT ![n] = [id |-> sends + 1, from |-> n, cmd |-> FALSE]]
            /\ sends' = sends + 1
       ELSE /\ Goto(n, "wait")
            /\ UNCHANGED <<txMsg, sends>>
    /\ UNCHANGED <<busMtx, usingBus, bus, msgLen, msgAvailable, rxMsg, clean>>

-----------------------------------------------------------------------------
(* send_msg *)

\* Mutant: the frame names the sending thread instead of its node.
SendCallThreadName(t, cmd) ==
    /\ pc[t] = "idle"
    /\ sends < MaxSends
    /\ cmd => Owner[t] = Gateway /\ Brake # {}
    /\ txMsg' = [txMsg EXCEPT ![t] = [id |-> sends + 1, from |-> t, cmd |-> cmd]]
    /\ sends' = sends + 1
    /\ Goto(t, "lock")
    /\ UNCHANGED <<busMtx, usingBus, bus, msgLen, msgAvailable, rxMsg, clean>>

\* A thread of Tx calls send_msg.  Only the gateway's fan-out carries commands,
\* and they are told apart only where a brake component answers them.
SendCall(t, cmd) ==
    /\ pc[t] = "idle"
    /\ sends < MaxSends
    /\ cmd => Owner[t] = Gateway /\ Brake # {}
    /\ txMsg' = [txMsg EXCEPT ![t] = [id |-> sends + 1, from |-> Owner[t], cmd |-> cmd]]
    /\ sends' = sends + 1
    /\ Goto(t, "lock")
    /\ UNCHANGED <<busMtx, usingBus, bus, msgLen, msgAvailable, rxMsg, clean>>

\* A reader is behind when it saw an earlier message and has not yet left the
\* barrier of that message.
Behind(n) == pc[n] \in {"test", "copy", "arrive", "barrier"}

\* Mutant: bus_mtx does not exclude the other processes.
SendLockPrivate(t) ==
    /\ pc[t] = "lock"
    /\ busMtx' = busMtx \cup {t}
    /\ clean' = \A n \in Node : ~Behind(n)
    /\ Goto(t, "write")
    /\ UNCHANGED <<usingBus, bus, msgLen, msgAvailable, txMsg, rxMsg, sends>>

SendLock(t) ==
    /\ pc[t] = "lock"
    /\ busMtx = {}
    /\ busMtx' = {t}
    /\ clean' = \A n \in Node : ~Behind(n)
    /\ Goto(t, "write")
    /\ UNCHANGED <<usingBus, bus, msgLen, msgAvailable, txMsg, rxMsg, sends>>

\* using_bus = true; the memset begins.
SendWrite(t) ==
    /\ pc[t] = "write"
    /\ usingBus' = [usingBus EXCEPT ![NodeOf(t)] = TRUE]
    /\ bus' = Torn
    /\ Goto(t, "fill")
    /\ UNCHANGED <<busMtx, msgLen, msgAvailable, txMsg, rxMsg, sends, clean>>

\* The memcpy is done and msg_len stored.
SendFill(t) ==
    /\ pc[t] = "fill"
    /\ bus' = txMsg[t]
    /\ msgLen' = txMsg[t]
    /\ Goto(t, "publish")
    /\ UNCHANGED <<busMtx, usingBus, msgAvailable, txMsg, rxMsg, sends, clean>>

\* Mutant: the broadcast is missing.
SendPublishSilently(t) ==
    /\ pc[t] = "publish"
    /\ msgAvailable' = TRUE
    /\ Goto(t, "join")
    /\ UNCHANGED <<busMtx, usingBus, bus, msgLen, txMsg, rxMsg, sends, clean>>

\* msg_available = true and pthread_cond_broadcast wakes every sleeper.
SendPublish(t) ==
    /\ pc[t] = "publish"
    /\ msgAvailable' = TRUE
    /\ pc' = [u \in Thread |-> IF u = t THEN "join"
                               ELSE IF pc[u] = "asleep" THEN "wait" ELSE pc[u]]
    /\ UNCHANGED <<busMtx, usingBus, bus, msgLen, txMsg, rxMsg, sends, clean>>

SendJoin(t) ==
    /\ pc[t] = "join"
    /\ BarrierWait(t, "joined")
    /\ UNCHANGED <<busMtx, usingBus, bus, msgLen, msgAvailable, txMsg, rxMsg,
                   sends, clean>>

\* Mutant: msg_available is not cleared.
SendClearNothing(t) ==
    /\ pc[t] = "clear"
    /\ Goto(t, "release")
    /\ UNCHANGED <<busMtx, usingBus, bus, msgLen, msgAvailable, txMsg, rxMsg, sends, clean>>

SendClear(t) ==
    /\ pc[t] = "clear"
    /\ msgAvailable' = FALSE
    /\ Goto(t, "release")
    /\ UNCHANGED <<busMtx, usingBus, bus, msgLen, txMsg, rxMsg, sends, clean>>

SendRelease(t) ==
    /\ pc[t] = "release"
    /\ usingBus' = [usingBus EXCEPT ![NodeOf(t)] = FALSE]
    /\ Goto(t, "unlock")
    /\ UNCHANGED <<busMtx, bus, msgLen, msgAvailable, txMsg, rxMsg, sends, clean>>

\* send_msg returns: to the reader's loop, or to the tick or Ethernet thread.
SendUnlock(t) ==
    /\ pc[t] = "unlock"
    /\ busMtx' = busMtx \ {t}
    /\ Goto(t, IF t \in Node THEN "wait" ELSE "idle")
    /\ UNCHANGED <<usingBus, bus, msgLen, msgAvailable, txMsg, rxMsg,
                   sends, clean>>

-----------------------------------------------------------------------------
Read(n) ==
    \/ ReadWait(n)
    \/ ReadTest(n)
    \/ ReadCopy(n)
    \/ ReadArrive(n)
    \/ ReadDeliver(n)

Send(t) ==
    \/ SendLock(t)
    \/ SendWrite(t)
    \/ SendFill(t)
    \/ SendPublish(t)
    \/ SendJoin(t)
    \/ SendClear(t)
    \/ SendRelease(t)
    \/ SendUnlock(t)

Next ==
    \/ \E n \in Node : Read(n)
    \/ \E t \in Thread : Send(t)
    \/ \E t \in Tx, cmd \in BOOLEAN : SendCall(t, cmd)

Spec == Init /\ [][Next]_vars

\* Every thread that can take a step is eventually scheduled; nothing forces a
\* thread to call send_msg.
FairSpec ==
    /\ Spec
    /\ \A t \in Thread : WF_vars((t \in Node /\ Read(t)) \/ Send(t))
-----------------------------------------------------------------------------
(* Properties *)

\* Every variable has its type: SharedData, the using_bus flags, the program
\* counters of receive_msg_routine and send_msg, and the history variables.
TypeOK ==
    /\ busMtx \in SUBSET Thread
    /\ usingBus \in [Node -> BOOLEAN]
    /\ bus \in BusValue
    /\ msgLen \in BusValue
    /\ msgAvailable \in BOOLEAN
    /\ pc \in [Thread -> ReaderPc \cup SenderPc \cup {"idle"}]
    /\ txMsg \in [Thread -> BusValue]
    /\ rxMsg \in [Node -> BusValue]
    /\ sends \in Nat
    /\ clean \in BOOLEAN

\* From the moment send_msg sets msg_available until it clears it, the bus and
\* its length are the ones that sender wrote: no other send_msg, of the same
\* process or of another, overwrites a message that is on offer.
OfferIsStable ==
    msgAvailable => \E t \in busMtx : /\ pc[t] \in {"join", "joined", "clear"}
                                     /\ bus = txMsg[t]
                                     /\ msgLen = txMsg[t]

\* The abstract slot: held by the holder of bus_mtx, with the bus on offer while
\* msg_available is set.
Slot == INSTANCE BusOffer WITH
           holder <- busMtx,
           offer  <- IF msgAvailable THEN {bus} ELSE {}

\* send_msg implements the slot: whatever order the processes run in, nobody takes
\* bus_mtx, writes the bus or gives the mutex back while a message is on offer.
ImplementsSlot == Slot!Spec

\* t leaves the barrier of send_msg with every other node holding its message.
ReadByAll(t) ==
    \A n \in Node \ {NodeOf(t)} : pc'[n] = "deliver" /\ rxMsg'[n] = txMsg[t]

LeavesBarrier(t) == pc[t] # "clear" /\ pc'[t] = "clear"

\* When no reader was behind as send_msg took bus_mtx, then at the moment its
\* pthread_barrier_wait returns every other node has copied this very message
\* from the bus, and is about to hand it to on_receive_msg.
CleanSendReadByAll ==
    [][\A t \in Thread : clean /\ LeavesBarrier(t) => ReadByAll(t)]_vars

\* The same for every send_msg, which is what the code says of the point after
\* its barrier: "all nodes read the message".
EverySendReadByAll ==
    [][\A t \in Thread : LeavesBarrier(t) => ReadByAll(t)]_vars

\* The threads that can still arrive at the barrier t waits in: t itself, the
\* readers of the other nodes unless their answer is blocked on the bus_mtx that t
\* holds, and t's own reader where it is past the test of using_bus.
Coming(t) ==
    {t} \cup {n \in Node : IF n = NodeOf(t) THEN pc[n] \in {"copy", "arrive", "barrier"}
                                          ELSE pc[n] # "lock"}

\* t waits in the barrier of send_msg for more threads than can arrive.
Stuck(t) == pc[t] = "joined" /\ Cardinality(Coming(t)) < BarrierCount

\* A send_msg that waits in its barrier and is not stuck has a reader that can
\* still arrive, awake and on its way: no wakeup of new_msg_cond is lost, and no
\* reader sleeps through a message on offer.
ServedUnlessStuck ==
    \A t \in Thread : pc[t] = "joined" /\ ~Stuck(t) =>
        \E n \in Coming(t) : pc[n] \in {"wait", "test", "copy", "arrive", "deliver"}

\* Only an answer can make a send_msg stuck: the reader of a brake component of
\* another node is blocked on bus_mtx in the send_msg of its own on_receive.
StuckByAnswer ==
    \A t \in Thread : Stuck(t) => \E n \in Brake \ {NodeOf(t)} : pc[n] = "lock"

\* A send_msg that is stuck behind answering readers stays stuck, whatever the
\* other threads do: nobody else ever fills its barrier or takes its bus_mtx.
StuckForGood == [][\A t \in Thread : Stuck(t) => Stuck(t)']_vars

\* send_msg returns although senders compete and readers go to sleep or lag
\* behind, unless a reader thread is itself in send_msg: a thread that waits for
\* bus_mtx gets it, and the barrier is always filled.
SendReturnsUnanswered ==
    \A t \in Thread : pc[t] = "lock" ~>
        \/ pc[t] \notin SenderPc
        \/ \E n \in Node : pc[n] \in SenderPc

\* Every send_msg returns: a thread blocked on bus_mtx or in the barrier is not
\* blocked for ever.
SendReturns ==
    \A t \in Thread : pc[t] = "lock" ~> pc[t] \notin SenderPc
=============================================================================
