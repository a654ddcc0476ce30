--------------------------- MODULE EthernetRxProofs ---------------------------
(***************************************************************************)
(* No wake-up of the receive thread is lost, for any socket buffer and any *)
(* number of frames.                                                       *)
(***************************************************************************)
EXTENDS EthernetRx, SequenceTheorems, TLAPS

\* What arrived before O_ASYNC was not announced; what was announced can be seen
\* by a thread that is not asleep for good.
IInv ==
    /\ TypeOK
    /\ SignalFindsHandler
    /\ NoStrandedFrame
    /\ ~Async => \A i \in DOMAIN buf : ~buf[i].announced
    /\ sigPending \/ sem > 0 => Async
    /\ rx # "none" => setup = "started"
    /\ Async /\ rx = "none" /\ sem = 0 /\ ~sigPending =>
            \A i \in DOMAIN buf : ~buf[i].announced

LEMMA InitIInv == Init => IInv
<1> SUFFICES ASSUME Init
             PROVE  IInv
  OBVIOUS
<1>1. TypeOK
  <2>1. buf \in Seq(Frame) /\ Len(buf) <= Capacity
    BY CapacityAssumption DEF Init
  <2> QED  BY <2>1 DEF Init, TypeOK, Setup
<1>2. DOMAIN buf = {}
  BY DEF Init
<1> QED  BY <1>1, <1>2 DEF Init, IInv, Async, NoStrandedFrame, SignalFindsHandler

LEMMA ConstructIInv == IInv /\ Construct => IInv'
<1> SUFFICES ASSUME IInv, Construct
             PROVE  IInv'
  OBVIOUS
<1>1. TypeOK'
  BY DEF IInv, Construct, SemInit, SetHandler, SetOwner, SetAsync, StartThread,
         SetupStep, TypeOK, Setup
<1> QED
  BY <1>1 DEF IInv, Construct, SemInit, SetHandler, SetOwner, SetAsync, StartThread,
              SetupStep, TypeOK, Setup, Async, NoStrandedFrame, SignalFindsHandler

LEMMA ArriveIInv ==
    ASSUME IInv, Arrive
    PROVE  IInv'
<1> DEFINE f == [announced |-> Async]
<1>0. buf \in Seq(Frame) /\ f \in Frame /\ Len(buf) \in Nat /\ Len(buf) <= Capacity
  BY DEF IInv, TypeOK, Frame, Async
<1>1. CASE /\ Len(buf) < Capacity
           /\ buf' = Append(buf, f)
           /\ sigPending' = (sigPending \/ Async)
  <2>1. /\ buf' \in Seq(Frame) /\ Len(buf') = Len(buf) + 1
        /\ \A i \in DOMAIN buf' : (i \in DOMAIN buf /\ buf'[i] = buf[i]) \/ buf'[i] = f
    <3> HIDE DEF f
    <3> QED  BY <1>0, <1>1
  <2>2. Async' <=> Async
    BY DEF Arrive, Async
  <2>3. TypeOK'
    <3>1. Len(buf') <= Capacity
      BY <1>0, <1>1, <2>1, CapacityAssumption
    <3>2. sigPending' \in BOOLEAN
      BY <1>1 DEF Async
    <3> QED  BY <2>1, <3>1, <3>2 DEF IInv, TypeOK, Arrive
  <2>4. CASE Async
    <3>1. sigPending'
      BY <1>1, <2>4
    <3> QED
      BY <2>2, <2>3, <2>4, <3>1 DEF IInv, Arrive, Async, NoStrandedFrame, SignalFindsHandler
  <2>5. CASE ~Async
    <3>1. \A i \in DOMAIN buf' : ~buf'[i].announced
      BY <2>1, <2>5 DEF IInv
    <3>2. sigPending' = sigPending
      BY <1>1, <2>5 DEF IInv, TypeOK
    <3> QED
      BY <2>2, <2>3, <2>5, <3>1, <3>2 DEF IInv, Arrive, Async, NoStrandedFrame, SignalFindsHandler
  <2> QED  BY <2>4, <2>5
<1>2. CASE UNCHANGED <<buf, sigPending>>
  BY <1>2 DEF IInv, Arrive, TypeOK, Async, NoStrandedFrame, SignalFindsHandler
<1> QED  BY <1>1, <1>2 DEF Arrive

\* The two ways the handler runs: the token it posts keeps the thread from
\* sleeping.
LEMMA PostIInv ==
    ASSUME IInv, sigPending, sigPending' = FALSE, sem' = sem + 1,
           UNCHANGED <<setup, buf, arrived>>,
           rx' = rx \/ (rx = "wait" /\ rx' = "drain")
    PROVE  IInv'
<1>1. sem \in Nat /\ sem' \in Nat /\ sem' > 0 /\ sem' # 0
  BY DEF IInv, TypeOK
<1>2. TypeOK'
  BY <1>1 DEF IInv, TypeOK
<1>3. setup' \in {"async", "started"} /\ Async'
  BY DEF IInv, SignalFindsHandler, Async
<1>4. rx' # "none" => setup' = "started"
  BY DEF IInv
<1> QED  BY <1>1, <1>2, <1>3, <1>4 DEF IInv, NoStrandedFrame, SignalFindsHandler

LEMMA HandlerIInv == IInv /\ SigioHandler => IInv'
BY PostIInv DEF SigioHandler

LEMMA RxLoopIInv == IInv /\ RxLoop => IInv'
<1> SUFFICES ASSUME IInv, RxLoop
             PROVE  IInv'
  OBVIOUS
<1>1. CASE SemWait
  BY <1>1 DEF IInv, SemWait, TypeOK, Async, NoStrandedFrame, SignalFindsHandler
<1>2. CASE SemWaitInterrupted
  BY <1>2, PostIInv DEF SemWaitInterrupted
<1>3. CASE Receive
  <2>1. buf \in Seq(Frame) /\ buf # <<>> /\ buf' = Tail(buf) /\ Len(buf) \in Nat
    BY <1>3 DEF IInv, TypeOK, Receive
  <2>2. buf' \in Seq(Frame) /\ Len(buf') = Len(buf) - 1
    BY <2>1
  <2>3. TypeOK'
    <3>1. Len(buf') <= Capacity
      BY <2>1, <2>2, CapacityAssumption DEF IInv, TypeOK
    <3> QED  BY <1>3, <2>2, <3>1 DEF IInv, TypeOK, Receive
  <2>4. rx' \in {"drain", "upcall"} /\ setup' = "started" /\ Async'
    BY <1>3 DEF Receive, IInv, Async
  <2> QED  BY <1>3, <2>3, <2>4 DEF IInv, Receive, NoStrandedFrame, SignalFindsHandler
<1>4. CASE Drained
  <2>1. DOMAIN buf' = {}
    BY <1>4 DEF Drained
  <2> QED  BY <1>4, <2>1 DEF IInv, Drained, TypeOK, Async, NoStrandedFrame, SignalFindsHandler
<1> QED  BY <1>1, <1>2, <1>3, <1>4 DEF RxLoop

LEMMA ReturnIInv == IInv /\ Return => IInv'
BY DEF IInv, Return, TypeOK, Async, NoStrandedFrame, SignalFindsHandler

LEMMA NextIInv == IInv /\ [Next]_vars => IInv'
<1>1. IInv /\ UNCHANGED vars => IInv'
  BY DEF vars, IInv, TypeOK, Async, NoStrandedFrame, SignalFindsHandler
<1> QED
  BY <1>1, ConstructIInv, ArriveIInv, HandlerIInv, RxLoopIInv, ReturnIInv DEF Next

\* The inductive invariant holds in every reachable state of the receive path.
THEOREM Invariance == Spec => []IInv
BY InitIInv, NextIInv, PTL DEF Spec

\* The receive thread never sleeps for good on a frame SIGIO was raised for,
\* whatever the size of the socket buffer and the timing of the signals.
THEOREM NoLostWakeup == Spec => []NoStrandedFrame
<1>1. IInv => NoStrandedFrame  BY DEF IInv
<1> QED  BY <1>1, Invariance, PTL

\* The order of the constructor of EngineEthernet: the signal and the semaphore it posts
\* are only used once sigio_handler is installed, after sem_init.
THEOREM HandlerInPlace == Spec => []SignalFindsHandler
<1>1. IInv => SignalFindsHandler  BY DEF IInv
<1> QED  BY <1>1, Invariance, PTL
=============================================================================
