------------------------------ MODULE EthernetRx ------------------------------
(***************************************************************************)
(* The receive side of EngineEthernet (engine_ethernet.cpp): the socket    *)
(* that the constructor opens and switches to signal-driven input, the     *)
(* SIGIO handler that posts packet_sem, and the receive thread that waits  *)
(* for the semaphore and drains the socket into NIC::on_eth_frame.         *)
(* Of a frame only one thing matters here: announced, that it arrived      *)
(* after O_ASYNC was set, so that the kernel raised SIGIO for it.          *)
(***************************************************************************)
EXTENDS Integers, Sequences

CONSTANTS
    Capacity,       \* frames the socket buffer holds
    MaxFrames       \* bound: frames that arrive

ASSUME CapacityAssumption == Capacity \in Nat \ {0}
ASSUME FramesAssumption == MaxFrames \in Nat

VARIABLES
    setup,          \* how far the constructor and start() are
    buf,            \* socket buffer
    sigPending,     \* SIGIO pending for the process (signals do not queue)
    sem,            \* value of packet_sem
    rx,             \* the receive thread: none, wait in sem_wait, drain in
                    \* on_packet, upcall in NIC::on_eth_frame
    arrived         \* number of frames that reached the socket

vars == <<setup, buf, sigPending, sem, rx, arrived>>

Setup == {"bound", "sem", "handler", "owner", "async", "started"}

Frame == [announced : BOOLEAN]

\* Mutant: signal-driven input is switched on before the handler is installed.
AsyncBeforeHandler == setup # "bound"

\* The kernel raises SIGIO for a frame that arrives.
Async == setup \in {"async", "started"}

Init ==
    /\ setup = "bound"
    /\ buf = <<>>
    /\ sigPending = FALSE
    /\ sem = 0
    /\ rx = "none"
    /\ arrived = 0

-----------------------------------------------------------------------------
(* The constructor, and start() *)

SetupStep(from, to) ==
    /\ setup = from
    /\ setup' = to
    /\ UNCHANGED <<buf, sigPending, arrived>>

SemInit     == SetupStep("bound", "sem") /\ sem' = 0 /\ UNCHANGED rx
SetHandler  == SetupStep("sem", "handler") /\ UNCHANGED <<sem, rx>>
SetOwner    == SetupStep("handler", "owner") /\ UNCHANGED <<sem, rx>>
SetAsync    == SetupStep("owner", "async") /\ UNCHANGED <<sem, rx>>
StartThread == SetupStep("async", "started") /\ rx' = "wait" /\ UNCHANGED sem

Construct == SemInit \/ SetHandler \/ SetOwner \/ SetAsync \/ StartThread

-----------------------------------------------------------------------------
(* The kernel *)

\* A frame arrives: it is queued and announced, or dropped when the buffer is full.
Arrive ==
    /\ arrived < MaxFrames
    /\ arrived' = arrived + 1
    /\ \/ /\ Len(buf) < Capacity
          /\ buf' = Append(buf, [announced |-> Async])
          /\ sigPending' = (sigPending \/ Async)
       \/ /\ Len(buf) = Capacity
          /\ UNCHANGED <<buf, sigPending>>
    /\ UNCHANGED <<setup, sem, rx>>

\* Mutant: the handler does not post.
SigioHandlerNoPost ==
    /\ sigPending
    /\ sigPending' = FALSE
    /\ UNCHANGED <<setup, buf, sem, rx, arrived>>

\* sigio_handler runs in some thread of the process other than a waiting
\* receive thread.
SigioHandler ==
    /\ sigPending
    /\ sigPending' = FALSE
    /\ sem' = sem + 1
    /\ UNCHANGED <<setup, buf, rx, arrived>>

-----------------------------------------------------------------------------
(* The receive thread *)

SemWait ==
    /\ rx = "wait"
    /\ sem > 0
    /\ sem' = sem - 1
    /\ rx' = "drain"
    /\ UNCHANGED <<setup, buf, sigPending, arrived>>

\* The handler runs in the receive thread while it is blocked: without SA_RESTART
\* sem_wait returns EINTR, which rx_loop takes for a token.
SemWaitInterrupted ==
    /\ rx = "wait"
    /\ sem = 0
    /\ sigPending
    /\ sigPending' = FALSE
    /\ sem' = sem + 1
    /\ rx' = "drain"
    /\ UNCHANGED <<setup, buf, arrived>>

\* Mutant: one frame for each token.
ReceiveOne ==
    /\ rx = "drain"
    /\ buf # <<>>
    /\ buf' = Tail(buf)
    /\ rx' = "wait"
    /\ UNCHANGED <<setup, sigPending, sem, arrived>>

\* recvfrom returns a frame, which goes to NIC::on_eth_frame unless it is shorter
\* than a header.
Receive ==
    /\ rx = "drain"
    /\ buf # <<>>
    /\ buf' = Tail(buf)
    /\ \/ rx' = "upcall"
       \/ UNCHANGED rx
    /\ UNCHANGED <<setup, sigPending, sem, arrived>>

\* NIC::on_eth_frame returns.  It runs every handler and the fan-out to the components
\* (NIC::send, which waits for the acknowledgements of EngineSHM), so it may not.
Return ==
    /\ rx = "upcall"
    /\ rx' = "drain"
    /\ UNCHANGED <<setup, buf, sigPending, sem, arrived>>

\* recvfrom returns EAGAIN: back to sem_wait.
Drained ==
    /\ rx = "drain"
    /\ buf = <<>>
    /\ rx' = "wait"
    /\ UNCHANGED <<setup, buf, sigPending, sem, arrived>>

RxLoop == SemWait \/ SemWaitInterrupted \/ Receive \/ Drained

Next ==
    \/ Construct
    \/ Arrive
    \/ SigioHandler
    \/ RxLoop
    \/ Return

Spec == Init /\ [][Next]_vars

\* The constructor runs on, a pending signal is delivered, the receive thread is
\* scheduled.  Nothing makes frames arrive, and nothing here makes an upcall return.
FairSpec ==
    /\ Spec
    /\ WF_vars(Construct)
    /\ WF_vars(SigioHandler)
    /\ WF_vars(RxLoop)

-----------------------------------------------------------------------------
(* Properties *)

\* Every field of the receive path has its type, the buffer its capacity.
TypeOK ==
    /\ setup \in Setup
    /\ buf \in Seq(Frame) /\ Len(buf) <= Capacity
    /\ sigPending \in BOOLEAN
    /\ sem \in Nat
    /\ rx \in {"none", "wait", "drain", "upcall"}
    /\ arrived \in Nat

\* No wake-up is lost between the signal, the semaphore and the drain: when the
\* receive thread sleeps with nothing left to wake it, no announced frame is in
\* the socket buffer.
NoStrandedFrame ==
    rx = "wait" /\ sem = 0 /\ ~sigPending =>
        \A i \in DOMAIN buf : ~buf[i].announced

\* SIGIO is not raised before sigio_handler is installed (its default action
\* ends the process), nor the semaphore posted before sem_init.
SignalFindsHandler ==
    sigPending \/ sem > 0 => setup \notin {"bound", "sem"}

\* The upcalls of the receive thread return.  The code does not guarantee it: the
\* fan-out waits for components without a time limit (run shm_ack_deadlock).
UpcallsReturn == WF_vars(Return)

\* As long as the upcalls of rx_loop return, a frame that was announced does not stay
\* in the socket buffer, although signals are merged and the thread that serves them
\* varies.
AnnouncedIsReceived ==
    UpcallsReturn =>
        ((\E i \in DOMAIN buf : buf[i].announced) ~> (\A i \in DOMAIN buf : ~buf[i].announced))
=============================================================================
