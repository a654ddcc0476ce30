---------------------------- MODULE ShmBusProofs ----------------------------
(* Proofs about the shared-memory bus, for any number of nodes and senders.  *)
EXTENDS ShmBus, FiniteSetTheorems, TLAPS

-----------------------------------------------------------------------------
(* The inductive invariant *)

\* Between taking and releasing bus_mtx.
Critical == {"write", "fill", "publish", "join", "joined", "clear", "release", "unlock"}

\* bus_mtx is held exactly by the thread inside the critical part of send_msg.
Exclusion ==
    /\ \A t \in Thread : t \in busMtx <=> pc[t] \in Critical
    /\ \A t, u \in busMtx : t = u

\* Only reader threads run receive_msg_routine, and they are never idle.
Roles ==
    /\ \A t \in Tx : pc[t] \notin ReaderPc
    /\ \A n \in Node : pc[n] # "idle"

\* The flags and the bus while a message is being sent.
Offer ==
    /\ \A t \in Thread : pc[t] \in {"fill", "publish", "join", "joined", "clear", "release"}
                            => usingBus[NodeOf(t)]
    /\ msgAvailable => \E t \in busMtx : pc[t] \in {"join", "joined", "clear"}
    /\ \A t \in Thread : pc[t] \in {"publish", "join", "joined", "clear", "release", "unlock"}
                            => bus = txMsg[t] /\ msgLen = txMsg[t]

\* A reader that has joined the send of t: not of t's node, with t's message.
Follows(n, t) ==
    /\ n # NodeOf(t)
    /\ pc[n] \in {"arrive", "barrier"} => rxMsg[n] = txMsg[t]

\* During a clean send no reader is out of step with the sender.
InStep ==
    \A t \in busMtx : clean =>
        /\ pc[t] \in {"write", "fill", "publish"} => \A n \in Node : ~Behind(n)
        /\ pc[t] \in {"join", "joined"} =>
              \A n \in Node : Behind(n) => pc[n] = "test" \/ Follows(n, t)

IInv == TypeOK /\ Exclusion /\ Roles /\ Offer /\ InStep

-----------------------------------------------------------------------------
(* The barrier *)

\* The threads that must meet at the barrier of a send of t: t and the readers
\* of the other nodes.
Party(t) == {t} \cup (Node \ {NodeOf(t)})

\* There are as many of them as all_read_done_barrier counts.
LEMMA PartyCount ==
    ASSUME NEW t \in Thread
    PROVE  IsFiniteSet(Party(t)) /\ Cardinality(Party(t)) = BarrierCount
<1>1. IsFiniteSet(Node) /\ Cardinality(Node) \in Nat
  BY NodeAssumption, FS_CardinalityType
<1>2. BarrierCount = Cardinality(Node)
  BY <1>1 DEF BarrierCount, NodesCount
<1>3. CASE t \in Node
  <2>1. Party(t) = Node
    BY <1>3 DEF Party, NodeOf
  <2>2. QED
    BY <1>1, <1>2, <2>1
<1>4. CASE t \notin Node
  <2>1. NodeOf(t) \in Node
    BY <1>4, TxAssumption DEF NodeOf, Thread
  <2>2. /\ IsFiniteSet(Node \ {NodeOf(t)})
        /\ Cardinality(Node \ {NodeOf(t)}) = Cardinality(Node) - 1
    BY <1>1, <2>1, FS_RemoveElement
  <2>3. t \notin Node \ {NodeOf(t)}
    BY <1>4
  <2>4. Party(t) = (Node \ {NodeOf(t)}) \cup {t}
    BY DEF Party
  <2>5. /\ IsFiniteSet(Party(t))
        /\ Cardinality(Party(t)) = Cardinality(Node \ {NodeOf(t)}) + 1
    BY <2>2, <2>3, <2>4, FS_AddElement
  <2>6. QED
    BY <1>1, <1>2, <2>2, <2>5
<1>5. QED
  BY <1>3, <1>4

\* When the barrier opens during a clean send, it is that sender's party that
\* has met: nobody else was waiting.
LEMMA PartyMeets ==
    ASSUME IInv, NEW t \in busMtx, clean, pc[t] \in {"join", "joined"},
           NEW x \in Thread, pc[x] \in {"arrive", "join"},
           Cardinality(Waiting \cup {x}) = BarrierCount
    PROVE  Waiting \cup {x} = Party(t)
<1>1. t \in Thread
  BY DEF IInv, TypeOK
<1>2. ASSUME NEW u \in Waiting \cup {x}
      PROVE  u \in Party(t)
  <2>1. u \in Thread /\ pc[u] \in {"arrive", "barrier", "join", "joined"}
    BY DEF Waiting
  <2>2. CASE pc[u] \in {"join", "joined"}
    BY <2>1, <2>2 DEF IInv, Exclusion, Critical, Party
  <2>3. CASE pc[u] \in {"arrive", "barrier"}
    <3>1. u \in Node
      BY <2>1, <2>3 DEF IInv, Roles, ReaderPc, Thread
    <3>2. u # NodeOf(t)
      BY <2>3, <3>1 DEF IInv, InStep, Behind, Follows
    <3>3. QED
      BY <3>1, <3>2 DEF Party
  <2>4. QED
    BY <2>1, <2>2, <2>3
<1>3. QED
  BY <1>1, <1>2, PartyCount, FS_Subset

-----------------------------------------------------------------------------
(* Invariance *)

LEMMA InitIInv == Init => IInv
<1> SUFFICES ASSUME Init PROVE IInv
  OBVIOUS
<1>1. TypeOK
  BY TxAssumption DEF Init, TypeOK, Thread, BusValue, ReaderPc, SenderPc
<1>2. Exclusion /\ Roles /\ Offer /\ InStep
  BY TxAssumption DEF Init, Exclusion, Roles, Offer, InStep, Critical, ReaderPc, Thread
<1>3. QED
  BY <1>1, <1>2 DEF IInv

LEMMA ReadWaitIInv ==
    ASSUME IInv, NEW n \in Node, ReadWait(n)
    PROVE  IInv'
<1>1. TypeOK'
  BY TxAssumption DEF ReadWait, Goto, IInv, TypeOK, Thread, NodeOf, ReaderPc, SenderPc, BusValue
<1>2. Exclusion' /\ Roles'
  BY TxAssumption DEF ReadWait, Goto, IInv, TypeOK, Exclusion, Roles, Critical, Thread, ReaderPc
<1>3. Offer'
  BY TxAssumption DEF ReadWait, Goto, IInv, TypeOK, Exclusion, Offer, Critical, Thread, NodeOf
<1>4. InStep'
  BY TxAssumption DEF ReadWait, Goto, IInv, TypeOK, Exclusion, Roles, Offer, InStep, Critical, ReaderPc,
     Behind, Follows, Thread, NodeOf
<1>5. QED
  BY <1>1, <1>2, <1>3, <1>4 DEF IInv

LEMMA ReadTestIInv ==
    ASSUME IInv, NEW n \in Node, ReadTest(n)
    PROVE  IInv'
<1>1. TypeOK'
  BY TxAssumption DEF ReadTest, Goto, IInv, TypeOK, Thread, NodeOf, ReaderPc, SenderPc, BusValue
<1>2. Exclusion' /\ Roles'
  BY TxAssumption DEF ReadTest, Goto, IInv, TypeOK, Exclusion, Roles, Critical, Thread, ReaderPc
<1>3. Offer'
  BY TxAssumption DEF ReadTest, Goto, IInv, TypeOK, Exclusion, Offer, Critical, Thread, NodeOf
<1>4. InStep'
  BY TxAssumption DEF ReadTest, Goto, IInv, TypeOK, Exclusion, Roles, Offer, InStep, Critical, ReaderPc,
     Behind, Follows, Thread, NodeOf
<1>5. QED
  BY <1>1, <1>2, <1>3, <1>4 DEF IInv

LEMMA ReadCopyIInv ==
    ASSUME IInv, NEW n \in Node, ReadCopy(n)
    PROVE  IInv'
<1>1. TypeOK'
  BY TxAssumption DEF ReadCopy, Goto, IInv, TypeOK, Thread, NodeOf, ReaderPc, SenderPc, BusValue
<1>2. Exclusion' /\ Roles'
  BY TxAssumption DEF ReadCopy, Goto, IInv, TypeOK, Exclusion, Roles, Critical, Thread, ReaderPc
<1>3. Offer'
  BY TxAssumption DEF ReadCopy, Goto, IInv, TypeOK, Exclusion, Offer, Critical, Thread, NodeOf
<1>4. InStep'
  BY TxAssumption DEF ReadCopy, Goto, IInv, TypeOK, Exclusion, Roles, Offer, InStep, Critical, ReaderPc,
     Behind, Follows, Thread, NodeOf
<1>5. QED
  BY <1>1, <1>2, <1>3, <1>4 DEF IInv

LEMMA ReadDeliverIInv ==
    ASSUME IInv, NEW n \in Node, ReadDeliver(n)
    PROVE  IInv'
<1>1. TypeOK'
  <2>1. [id |-> sends + 1, from |-> n, cmd |-> FALSE] \in BusValue
    BY DEF IInv, TypeOK, Message, BusValue
  <2>2. txMsg' \in [Thread -> BusValue] /\ sends' \in Nat
    <3>1. CASE Answers(n)
      <4>1. /\ txMsg' = [txMsg EXCEPT ![n] = [id |-> sends + 1, from |-> n, cmd |-> FALSE]]
            /\ sends' = sends + 1
        BY <3>1 DEF ReadDeliver
      <4>2. QED
        BY <2>1, <4>1 DEF IInv, TypeOK, Thread
    <3>2. CASE ~Answers(n)
      BY <3>2 DEF ReadDeliver, IInv, TypeOK
    <3>3. QED
      BY <3>1, <3>2
  <2>3. pc' \in [Thread -> ReaderPc \cup SenderPc \cup {"idle"}]
    BY DEF ReadDeliver, Goto, IInv, TypeOK, ReaderPc, SenderPc
  <2>4. QED
    BY <2>2, <2>3 DEF ReadDeliver, IInv, TypeOK
<1>2. Exclusion' /\ Roles'
  BY TxAssumption DEF ReadDeliver, Answers, Goto, IInv, TypeOK, Exclusion, Roles, Critical, Thread, ReaderPc
<1>3. Offer'
  BY TxAssumption DEF ReadDeliver, Answers, Goto, IInv, TypeOK, Exclusion, Offer, Critical, Thread, NodeOf
<1>4. InStep'
  BY TxAssumption DEF ReadDeliver, Answers, Goto, IInv, TypeOK, Exclusion, Roles, Offer, InStep, Critical, ReaderPc,
     Behind, Follows, Thread, NodeOf
<1>5. QED
  BY <1>1, <1>2, <1>3, <1>4 DEF IInv

LEMMA SendLockIInv ==
    ASSUME IInv, NEW t \in Thread, SendLock(t)
    PROVE  IInv'
<1>1. TypeOK'
  BY TxAssumption DEF SendLock, Goto, IInv, TypeOK, Thread, NodeOf, ReaderPc, SenderPc, BusValue
<1>2. Exclusion' /\ Roles'
  BY TxAssumption DEF SendLock, Goto, IInv, TypeOK, Exclusion, Roles, Critical, Thread, ReaderPc
<1>3. Offer'
  BY TxAssumption DEF SendLock, Goto, IInv, TypeOK, Exclusion, Offer, Critical, Thread, NodeOf
<1>4. InStep'
  BY TxAssumption DEF SendLock, Goto, IInv, TypeOK, Exclusion, Roles, Offer, InStep, Critical, ReaderPc,
     Behind, Follows, Thread, NodeOf
<1>5. QED
  BY <1>1, <1>2, <1>3, <1>4 DEF IInv

LEMMA SendWriteIInv ==
    ASSUME IInv, NEW t \in Thread, SendWrite(t)
    PROVE  IInv'
<1>1. TypeOK'
  BY TxAssumption DEF SendWrite, Goto, IInv, TypeOK, Thread, NodeOf, ReaderPc, SenderPc, BusValue
<1>2. Exclusion' /\ Roles'
  BY TxAssumption DEF SendWrite, Goto, IInv, TypeOK, Exclusion, Roles, Critical, Thread, ReaderPc
<1>3. Offer'
  BY TxAssumption DEF SendWrite, Goto, IInv, TypeOK, Exclusion, Offer, Critical, Thread, NodeOf
<1>4. InStep'
  BY TxAssumption DEF SendWrite, Goto, IInv, TypeOK, Exclusion, Roles, Offer, InStep, Critical, ReaderPc,
     Behind, Follows, Thread, NodeOf
<1>5. QED
  BY <1>1, <1>2, <1>3, <1>4 DEF IInv

LEMMA SendFillIInv ==
    ASSUME IInv, NEW t \in Thread, SendFill(t)
    PROVE  IInv'
<1>1. TypeOK'
  BY TxAssumption DEF SendFill, Goto, IInv, TypeOK, Thread, NodeOf, ReaderPc, SenderPc, BusValue
<1>2. Exclusion' /\ Roles'
  BY TxAssumption DEF SendFill, Goto, IInv, TypeOK, Exclusion, Roles, Critical, Thread, ReaderPc
<1>3. Offer'
  BY TxAssumption DEF SendFill, Goto, IInv, TypeOK, Exclusion, Offer, Critical, Thread, NodeOf
<1>4. InStep'
  BY TxAssumption DEF SendFill, Goto, IInv, TypeOK, Exclusion, Roles, Offer, InStep, Critical, ReaderPc,
     Behind, Follows, Thread, NodeOf
<1>5. QED
  BY <1>1, <1>2, <1>3, <1>4 DEF IInv

LEMMA SendPublishIInv ==
    ASSUME IInv, NEW t \in Thread, SendPublish(t)
    PROVE  IInv'
<1>1. TypeOK'
  BY TxAssumption DEF SendPublish, Goto, IInv, TypeOK, Thread, NodeOf, ReaderPc, SenderPc, BusValue
<1>2. Exclusion' /\ Roles'
  BY TxAssumption DEF SendPublish, Goto, IInv, TypeOK, Exclusion, Roles, Critical, Thread, ReaderPc
<1>3. Offer'
  BY TxAssumption DEF SendPublish, Goto, IInv, TypeOK, Exclusion, Offer, Critical, Thread, NodeOf
<1>4. InStep'
  BY TxAssumption DEF SendPublish, Goto, IInv, TypeOK, Exclusion, Roles, Offer, InStep, Critical, ReaderPc,
     Behind, Follows, Thread, NodeOf
<1>5. QED
  BY <1>1, <1>2, <1>3, <1>4 DEF IInv

LEMMA SendClearIInv ==
    ASSUME IInv, NEW t \in Thread, SendClear(t)
    PROVE  IInv'
<1>1. TypeOK'
  BY TxAssumption DEF SendClear, Goto, IInv, TypeOK, Thread, NodeOf, ReaderPc, SenderPc, BusValue
<1>2. Exclusion' /\ Roles'
  BY TxAssumption DEF SendClear, Goto, IInv, TypeOK, Exclusion, Roles, Critical, Thread, ReaderPc
<1>3. Offer'
  BY TxAssumption DEF SendClear, Goto, IInv, TypeOK, Exclusion, Offer, Critical, Thread, NodeOf
<1>4. InStep'
  BY TxAssumption DEF SendClear, Goto, IInv, TypeOK, Exclusion, Roles, Offer, InStep, Critical, ReaderPc,
     Behind, Follows, Thread, NodeOf
<1>5. QED
  BY <1>1, <1>2, <1>3, <1>4 DEF IInv

LEMMA SendReleaseIInv ==
    ASSUME IInv, NEW t \in Thread, SendRelease(t)
    PROVE  IInv'
<1>1. TypeOK'
  BY TxAssumption DEF SendRelease, Goto, IInv, TypeOK, Thread, NodeOf, ReaderPc, SenderPc, BusValue
<1>2. Exclusion' /\ Roles'
  BY TxAssumption DEF SendRelease, Goto, IInv, TypeOK, Exclusion, Roles, Critical, Thread, ReaderPc
<1>3. Offer'
  BY TxAssumption DEF SendRelease, Goto, IInv, TypeOK, Exclusion, Offer, Critical, Thread, NodeOf
<1>4. InStep'
  BY TxAssumption DEF SendRelease, Goto, IInv, TypeOK, Exclusion, Roles, Offer, InStep, Critical, ReaderPc,
     Behind, Follows, Thread, NodeOf
<1>5. QED
  BY <1>1, <1>2, <1>3, <1>4 DEF IInv

LEMMA SendUnlockIInv ==
    ASSUME IInv, NEW t \in Thread, SendUnlock(t)
    PROVE  IInv'
<1>1. TypeOK'
  BY TxAssumption DEF SendUnlock, Goto, IInv, TypeOK, Thread, NodeOf, ReaderPc, SenderPc, BusValue
<1>2. Exclusion' /\ Roles'
  BY TxAssumption DEF SendUnlock, Goto, IInv, TypeOK, Exclusion, Roles, Critical, Thread, ReaderPc
<1>3. Offer'
  BY TxAssumption DEF SendUnlock, Goto, IInv, TypeOK, Exclusion, Offer, Critical, Thread, NodeOf
<1>4. InStep'
  BY TxAssumption DEF SendUnlock, Goto, IInv, TypeOK, Exclusion, Roles, Offer, InStep, Critical, ReaderPc,
     Behind, Follows, Thread, NodeOf
<1>5. QED
  BY <1>1, <1>2, <1>3, <1>4 DEF IInv

LEMMA SendCallIInv ==
    ASSUME IInv, NEW t \in Tx, NEW cmd \in BOOLEAN, SendCall(t, cmd)
    PROVE  IInv'
<1>1. TypeOK'
  <2>1. [id |-> sends + 1, from |-> Owner[t], cmd |-> cmd] \in BusValue
    BY TxAssumption DEF IInv, TypeOK, Message, BusValue
  <2>2. txMsg' \in [Thread -> BusValue] /\ sends' \in Nat
    BY <2>1 DEF SendCall, IInv, TypeOK, Thread
  <2>3. QED
    BY <2>2 DEF SendCall, Goto, IInv, TypeOK, Thread, SenderPc
<1>2. Exclusion' /\ Roles'
  BY TxAssumption DEF SendCall, Goto, IInv, TypeOK, Exclusion, Roles, Critical, Thread, ReaderPc
<1>3. Offer'
  BY TxAssumption DEF SendCall, Goto, IInv, TypeOK, Exclusion, Offer, Critical, Thread, NodeOf
<1>4. InStep'
  BY TxAssumption DEF SendCall, Goto, IInv, TypeOK, Exclusion, Roles, InStep, Critical, ReaderPc,
     Behind, Follows, Thread, NodeOf
<1>5. QED
  BY <1>1, <1>2, <1>3, <1>4 DEF IInv

\* A thread arriving at the barrier, in receive_msg_routine or in send_msg.
Arrives(x) ==
    /\ \/ x \in Node /\ pc[x] = "arrive" /\ BarrierWait(x, "barrier")
       \/ pc[x] = "join" /\ BarrierWait(x, "joined")
    /\ UNCHANGED <<busMtx, usingBus, bus, msgLen, msgAvailable, txMsg, rxMsg, sends, clean>>

LEMMA ArrivesIInv ==
    ASSUME IInv, NEW x \in Thread, Arrives(x)
    PROVE  IInv'
<1> DEFINE Opens == Cardinality(Waiting \cup {x}) = BarrierCount
<1>1. CASE Opens
  <2>1. pc' = [u \in Thread |-> IF u \in Waiting \cup {x} THEN Released(u) ELSE pc[u]]
    BY <1>1 DEF Arrives, BarrierWait
  <2>2. ASSUME NEW u \in Waiting \cup {x}
        PROVE  \/ pc[u] \in {"join", "joined"} /\ pc'[u] = "clear"
               \/ u \in Node /\ pc[u] \in {"arrive", "barrier"} /\ pc'[u] = "deliver"
    BY <2>1 DEF Arrives, Waiting, Released, IInv, Roles, ReaderPc, Thread
  <2>3. \A u \in Thread : u \in Waiting \cup {x} \/ pc'[u] = pc[u]
    BY <2>1
  <2>4. pc' \in [Thread -> ReaderPc \cup SenderPc \cup {"idle"}]
    BY <2>1, <2>2, <2>3 DEF IInv, TypeOK, ReaderPc, SenderPc
  <2>5. TypeOK'
    BY <2>4 DEF Arrives, IInv, TypeOK
  <2>6. Exclusion' /\ Roles'
    BY <2>2, <2>3, TxAssumption
    DEF Arrives, IInv, TypeOK, Exclusion, Roles, Critical, ReaderPc, Thread
  <2>7. Offer'
    BY <2>2, <2>3 DEF Arrives, IInv, TypeOK, Exclusion, Offer, Critical, NodeOf
  <2>8. ASSUME NEW t \in busMtx, clean
        PROVE  pc'[t] \notin {"write", "fill", "publish", "join", "joined"}
    <3>1. t \in Thread /\ pc[t] \in Critical
      BY DEF IInv, TypeOK, Exclusion
    <3>2. CASE pc[t] \in {"join", "joined"}
      <4>1. t \in Waiting \cup {x}
        BY <1>1, <2>8, <3>2, PartyMeets DEF Party, Arrives
      <4>2. QED
        BY <2>2, <3>2, <4>1
    <3>3. CASE pc[t] \in {"write", "fill", "publish"}
      <4>1. pc[x] # "arrive" \/ x \notin Node
        BY <2>8, <3>3 DEF IInv, InStep, Behind
      <4>2. pc[x] = "join" /\ x \in busMtx
        BY <4>1 DEF Arrives, IInv, Exclusion, Critical
      <4>3. QED
        BY <3>3, <4>2 DEF IInv, Exclusion
    <3>4. CASE pc[t] \in {"clear", "release", "unlock"}
      BY <2>2, <2>3, <3>1, <3>4
    <3>5. QED
      BY <3>1, <3>2, <3>3, <3>4 DEF Critical
  <2>9. InStep'
    BY <2>8 DEF Arrives, InStep
  <2>10. QED
    BY <2>5, <2>6, <2>7, <2>9 DEF IInv
<1>2. CASE ~Opens
  <2>1. \/ x \in Node /\ pc[x] = "arrive" /\ pc' = [pc EXCEPT ![x] = "barrier"]
        \/ pc[x] = "join" /\ pc' = [pc EXCEPT ![x] = "joined"]
    BY <1>2 DEF Arrives, BarrierWait
  <2>2. TypeOK'
    BY <2>1 DEF Arrives, IInv, TypeOK, ReaderPc, SenderPc
  <2>3. Exclusion' /\ Roles'
    BY <2>1, TxAssumption
    DEF Arrives, IInv, TypeOK, Exclusion, Roles, Critical, ReaderPc, Thread
  <2>4. Offer'
    BY <2>1 DEF Arrives, IInv, TypeOK, Exclusion, Offer, Critical, NodeOf
  <2>5. InStep'
    BY <2>1 DEF Arrives, IInv, TypeOK, Exclusion, InStep, Critical, Behind, Follows, NodeOf, Thread
  <2>6. QED
    BY <2>2, <2>3, <2>4, <2>5 DEF IInv
<1>3. QED
  BY <1>1, <1>2

\* Every step of the bus preserves the inductive invariant.
LEMMA NextIInv == IInv /\ [Next]_vars => IInv'
<1> SUFFICES ASSUME IInv, [Next]_vars PROVE IInv'
  OBVIOUS
<1>1. ASSUME NEW n \in Node, Read(n)
      PROVE  IInv'
  <2>1. CASE ReadWait(n)
    BY <2>1, ReadWaitIInv
  <2>2. CASE ReadTest(n)
    BY <2>2, ReadTestIInv
  <2>3. CASE ReadCopy(n)
    BY <2>3, ReadCopyIInv
  <2>4. CASE ReadArrive(n)
    BY <2>4, ArrivesIInv DEF ReadArrive, Arrives, Thread
  <2>5. CASE ReadDeliver(n)
    BY <2>5, ReadDeliverIInv
  <2>6. QED
    BY <1>1, <2>1, <2>2, <2>3, <2>4, <2>5 DEF Read
<1>2. ASSUME NEW t \in Thread, Send(t)
      PROVE  IInv'
  <2>1. CASE SendLock(t)
    BY <2>1, SendLockIInv
  <2>2. CASE SendWrite(t)
    BY <2>2, SendWriteIInv
  <2>3. CASE SendFill(t)
    BY <2>3, SendFillIInv
  <2>4. CASE SendPublish(t)
    BY <2>4, SendPublishIInv
  <2>5. CASE SendJoin(t)
    BY <2>5, ArrivesIInv DEF SendJoin, Arrives
  <2>6. CASE SendClear(t)
    BY <2>6, SendClearIInv
  <2>7. CASE SendRelease(t)
    BY <2>7, SendReleaseIInv
  <2>8. CASE SendUnlock(t)
    BY <2>8, SendUnlockIInv
  <2>9. QED
    BY <1>2, <2>1, <2>2, <2>3, <2>4, <2>5, <2>6, <2>7, <2>8 DEF Send
<1>3. ASSUME NEW t \in Tx, NEW cmd \in BOOLEAN, SendCall(t, cmd)
      PROVE  IInv'
  BY <1>3, SendCallIInv
<1>4. CASE UNCHANGED vars
  BY <1>4 DEF vars, IInv, TypeOK, Exclusion, Roles, Offer, InStep, Behind, Follows
<1>5. QED
  BY <1>1, <1>2, <1>3, <1>4 DEF Next

-----------------------------------------------------------------------------
(* Theorems *)

\* The invariant holds for every number of nodes, senders and messages.
THEOREM Invariance == Spec => []IInv
BY InitIInv, NextIInv, PTL DEF Spec

\* The variables of SharedData and of the threads keep their types.
THEOREM TypeCorrect == Spec => []TypeOK
<1>1. IInv => TypeOK
  BY DEF IInv
<1>2. QED
  BY <1>1, Invariance, PTL

\* A message on offer (msg_available) is never overwritten by another send_msg.
THEOREM OfferStable == Spec => []OfferIsStable
<1>1. IInv => OfferIsStable
  <2> SUFFICES ASSUME IInv, msgAvailable
      PROVE  \E t \in busMtx : /\ pc[t] \in {"join", "joined", "clear"}
                               /\ bus = txMsg[t]
                               /\ msgLen = txMsg[t]
    BY DEF OfferIsStable
  <2>1. PICK t \in busMtx : pc[t] \in {"join", "joined", "clear"}
    BY DEF IInv, Offer
  <2>2. bus = txMsg[t] /\ msgLen = txMsg[t]
    BY <2>1 DEF IInv, TypeOK, Offer
  <2>3. QED
    BY <2>1, <2>2
<1>2. QED
  BY <1>1, Invariance, PTL

\* A send_msg that found every reader caught up returns from its barrier only
\* after every other node has copied its message.
THEOREM CleanSendDelivers == Spec => CleanSendReadByAll
<1>1. IInv /\ [Next]_vars =>
          [\A t \in Thread : clean /\ LeavesBarrier(t) => ReadByAll(t)]_vars
  <2> SUFFICES ASSUME IInv, Next, NEW t \in Thread, clean, LeavesBarrier(t)
               PROVE  ReadByAll(t)
    OBVIOUS
  <2>1. PICK x \in Thread : Arrives(x) /\ Cardinality(Waiting \cup {x}) = BarrierCount
    <3>1. \E x \in Thread : Arrives(x)
      BY DEF LeavesBarrier, Next, Read, Send, ReadWait, ReadTest, ReadCopy, ReadArrive,
         ReadDeliver, SendCall, SendLock, SendWrite, SendFill, SendPublish, SendJoin,
         SendClear, SendRelease, SendUnlock, Goto, Arrives, IInv, TypeOK, Thread
    <3>2. PICK x \in Thread : Arrives(x)
      BY <3>1
    <3>3. Cardinality(Waiting \cup {x}) = BarrierCount
      BY <3>2 DEF Arrives, BarrierWait, LeavesBarrier, IInv, TypeOK
    <3>4. QED
      BY <3>2, <3>3
  <2>2. pc' = [u \in Thread |-> IF u \in Waiting \cup {x} THEN Released(u) ELSE pc[u]]
    BY <2>1 DEF Arrives, BarrierWait
  <2>3. pc[t] \in {"join", "joined"} /\ t \in busMtx
    BY <2>1, <2>2 DEF LeavesBarrier, Released, IInv, Exclusion, Critical
  <2>4. Waiting \cup {x} = Party(t)
    BY <2>1, <2>3, PartyMeets DEF Arrives
  <2>5. ASSUME NEW n \in Node \ {NodeOf(t)}
        PROVE  pc'[n] = "deliver" /\ rxMsg'[n] = txMsg[t]
    <3>1. n \in Waiting \cup {x} /\ n # t /\ n \in Thread
      BY <2>4 DEF Party, NodeOf, Thread
    <3>2. pc[n] \in {"arrive", "barrier", "join", "joined"}
      BY <2>1, <3>1 DEF Arrives, Waiting
    <3>3. pc[n] \in {"arrive", "barrier"}
      BY <2>3, <3>1, <3>2 DEF IInv, Exclusion, Critical
    <3>4. rxMsg[n] = txMsg[t]
      BY <2>3, <3>3 DEF IInv, InStep, Behind, Follows
    <3>5. QED
      BY <2>1, <2>2, <3>1, <3>3, <3>4 DEF Released, Arrives
  <2>6. QED
    BY <2>5 DEF ReadByAll
<1>2. QED
  BY <1>1, Invariance, PTL DEF Spec, CleanSendReadByAll

-----------------------------------------------------------------------------
(* Filling the barrier *)

\* While a send waits its message is on offer, nobody sleeps through an offer, and
\* the barrier never holds as many threads as open it.
Wakeful ==
    /\ \A t \in Thread : pc[t] \in {"join", "joined", "clear"} => msgAvailable
    /\ msgAvailable => \A t \in Thread : pc[t] # "asleep"
    /\ Cardinality(Waiting) < BarrierCount

\* The barrier counts the nodes, of which the gateway is one.
LEMMA BarrierSize == BarrierCount = Cardinality(Node) /\ BarrierCount \in Nat \ {0}
<1>1. IsFiniteSet(Node) /\ Cardinality(Node) \in Nat
  BY NodeAssumption, FS_CardinalityType
<1>2. Cardinality(Node) # 0
  BY <1>1, NodeAssumption, FS_EmptySet
<1>3. QED
  BY <1>1, <1>2 DEF BarrierCount, NodesCount

\* Only readers and the holder of bus_mtx ever wait in the barrier.
LEMMA WaitingFinite ==
    ASSUME IInv
    PROVE  IsFiniteSet(Waiting) /\ Cardinality(Waiting) \in Nat
<1>1. IsFiniteSet(busMtx)
  <2>1. CASE busMtx = {}
    BY <2>1, FS_EmptySet
  <2>2. CASE busMtx # {}
    <3>1. PICK t \in busMtx : TRUE
      BY <2>2
    <3>2. busMtx = {t}
      BY <3>1 DEF IInv, Exclusion
    <3>3. QED
      BY <3>2, FS_Singleton
  <2>3. QED
    BY <2>1, <2>2
<1>2. Waiting \subseteq Node \cup busMtx
  BY DEF Waiting, Thread, IInv, Exclusion, Roles, Critical, ReaderPc
<1>3. IsFiniteSet(Node \cup busMtx)
  BY <1>1, NodeAssumption, FS_Union
<1>4. QED
  BY <1>2, <1>3, FS_Subset, FS_CardinalityType

LEMMA InitWakeful == Init => Wakeful
<1> SUFFICES ASSUME Init PROVE Wakeful
  OBVIOUS
<1>1. Waiting = {}
  BY TxAssumption DEF Init, Waiting, Thread
<1>2. Cardinality(Waiting) = 0
  BY <1>1, FS_EmptySet
<1>3. QED
  BY <1>2, BarrierSize, TxAssumption DEF Init, Wakeful, Thread

\* A step that is not an arrival at the barrier.
Elsewhere ==
    \/ \E n \in Node : ReadWait(n) \/ ReadTest(n) \/ ReadCopy(n) \/ ReadDeliver(n)
    \/ \E t \in Thread : \/ SendLock(t) \/ SendWrite(t) \/ SendFill(t) \/ SendPublish(t)
                         \/ SendClear(t) \/ SendRelease(t) \/ SendUnlock(t)
    \/ \E t \in Tx, cmd \in BOOLEAN : SendCall(t, cmd)

LEMMA NextCases ==
    ASSUME Next
    PROVE  Elsewhere \/ \E x \in Thread : Arrives(x)
BY DEF Next, Read, Send, Elsewhere, ReadArrive, SendJoin, Arrives, Thread

\* An arrival opens the barrier and empties it, or adds the thread to it.
LEMMA ArrivesCases ==
    ASSUME IInv, NEW x \in Thread, Arrives(x)
    PROVE  \/ /\ Cardinality(Waiting \cup {x}) = BarrierCount
              /\ \A u \in Waiting \cup {x} : pc'[u] \in {"clear", "deliver"}
              /\ \A u \in Thread : u \notin Waiting \cup {x} => pc'[u] = pc[u]
           \/ /\ Cardinality(Waiting \cup {x}) # BarrierCount
              /\ pc'[x] = IF pc[x] = "arrive" THEN "barrier" ELSE "joined"
              /\ \A u \in Thread : u # x => pc'[u] = pc[u]
<1>1. CASE Cardinality(Waiting \cup {x}) = BarrierCount
  <2>1. pc' = [u \in Thread |-> IF u \in Waiting \cup {x} THEN Released(u) ELSE pc[u]]
    BY <1>1 DEF Arrives, BarrierWait
  <2>2. QED
    BY <1>1, <2>1 DEF Released, Waiting
<1>2. CASE Cardinality(Waiting \cup {x}) # BarrierCount
  <2>1. \/ pc[x] = "arrive" /\ pc' = [pc EXCEPT ![x] = "barrier"]
        \/ pc[x] = "join" /\ pc' = [pc EXCEPT ![x] = "joined"]
    BY <1>2 DEF Arrives, BarrierWait
  <2>2. QED
    BY <1>2, <2>1 DEF IInv, TypeOK
<1>3. QED
  BY <1>1, <1>2

LEMMA ElsewhereWakeful ==
    ASSUME IInv, Wakeful, Elsewhere
    PROVE  Wakeful'
<1>1. \A t \in Thread : pc'[t] \in {"join", "joined", "clear"} => msgAvailable'
  <2> SUFFICES ASSUME NEW t \in Thread, pc'[t] \in {"join", "joined", "clear"}
               PROVE  msgAvailable'
    OBVIOUS
  <2>1. CASE \E u \in Thread : SendClear(u)
    <3>1. PICK u \in Thread : SendClear(u)
      BY <2>1
    <3>2. t # u /\ pc[t] \in {"join", "joined", "clear"} /\ pc[u] = "clear"
      BY <3>1 DEF SendClear, Goto, IInv, TypeOK
    <3>3. QED
      BY <3>2 DEF IInv, Exclusion, Critical
  <2>2. CASE \E u \in Thread : SendPublish(u)
    BY <2>2 DEF SendPublish
  <2>3. CASE ~(\E u \in Thread : SendClear(u) \/ SendPublish(u))
    <3>1. pc[t] \in {"join", "joined", "clear"} /\ msgAvailable' = msgAvailable
      BY <2>3 DEF Elsewhere, Goto, IInv, TypeOK, ReadWait, ReadTest, ReadCopy, ReadDeliver,
         SendLock, SendWrite, SendFill, SendRelease, SendUnlock, SendCall, Thread
    <3>2. QED
      BY <3>1 DEF Wakeful
  <2>4. QED
    BY <2>1, <2>2, <2>3
<1>2. msgAvailable' => \A t \in Thread : pc'[t] # "asleep"
  BY DEF Elsewhere, Goto, IInv, TypeOK, Wakeful, ReadWait, ReadTest, ReadCopy,
     ReadDeliver, SendLock, SendWrite, SendFill, SendPublish, SendClear, SendRelease,
     SendUnlock, SendCall, Thread
<1>3. Waiting' \subseteq Waiting
  <2>1. SUFFICES ASSUME NEW t \in Thread, pc'[t] \in {"barrier", "joined"}
                 PROVE  pc[t] = pc'[t]
    BY DEF Waiting
  <2>2. CASE \E n \in Node : ReadWait(n) \/ ReadTest(n) \/ ReadCopy(n) \/ ReadDeliver(n)
    BY <2>1, <2>2 DEF ReadWait, ReadTest, ReadCopy, ReadDeliver, Goto, IInv, TypeOK, Thread
  <2>3. CASE \E u \in Thread : SendLock(u) \/ SendWrite(u) \/ SendFill(u) \/ SendPublish(u)
    BY <2>1, <2>3 DEF SendLock, SendWrite, SendFill, SendPublish, Goto, IInv, TypeOK
  <2>4. CASE \E u \in Thread : SendClear(u) \/ SendRelease(u) \/ SendUnlock(u)
    BY <2>1, <2>4 DEF SendClear, SendRelease, SendUnlock, Goto, IInv, TypeOK
  <2>5. CASE \E u \in Tx, cmd \in BOOLEAN : SendCall(u, cmd)
    BY <2>1, <2>5 DEF SendCall, Goto, IInv, TypeOK, Thread
  <2>6. QED
    BY <2>2, <2>3, <2>4, <2>5 DEF Elsewhere
<1>4. Cardinality(Waiting') <= Cardinality(Waiting) /\ Cardinality(Waiting') \in Nat
  BY <1>3, WaitingFinite, FS_Subset, FS_CardinalityType
<1>5. Cardinality(Waiting') < BarrierCount
  BY <1>4, WaitingFinite, BarrierSize DEF Wakeful
<1>6. BarrierCount' = BarrierCount
  BY DEF BarrierCount, NodesCount
<1>7. QED
  BY <1>1, <1>2, <1>5, <1>6 DEF Wakeful

LEMMA ArrivesWakeful ==
    ASSUME IInv, Wakeful, NEW x \in Thread, Arrives(x)
    PROVE  Wakeful'
<1>1. msgAvailable' = msgAvailable
  BY DEF Arrives
<1>2. pc[x] \in {"arrive", "join"} /\ x \notin Waiting
  BY DEF Arrives, Waiting
<1>3. \A t \in Thread : pc'[t] \in {"join", "joined", "clear"} => msgAvailable'
  <2> SUFFICES ASSUME NEW t \in Thread, pc'[t] \in {"join", "joined", "clear"}
               PROVE  pc[t] \in {"join", "joined", "clear"}
    BY <1>1 DEF Wakeful
  <2>1. CASE Cardinality(Waiting \cup {x}) = BarrierCount
    <3>1. pc' = [u \in Thread |-> IF u \in Waiting \cup {x} THEN Released(u) ELSE pc[u]]
      BY <2>1 DEF Arrives, BarrierWait
    <3>2. QED
      BY <3>1 DEF Released
  <2>2. CASE Cardinality(Waiting \cup {x}) # BarrierCount
    BY <1>2, <2>2, ArrivesCases
  <2>3. QED
    BY <2>1, <2>2
<1>4. msgAvailable' => \A t \in Thread : pc'[t] # "asleep"
  BY <1>1, ArrivesCases DEF Wakeful, Waiting
<1>5. Cardinality(Waiting)' < BarrierCount
  <2>1. CASE Cardinality(Waiting \cup {x}) = BarrierCount
    <3>1. Waiting' = {}
      BY <2>1, ArrivesCases DEF Waiting
    <3>2. QED
      BY <3>1, BarrierSize, FS_EmptySet
  <2>2. CASE Cardinality(Waiting \cup {x}) # BarrierCount
    <3>1. Waiting' = Waiting \cup {x}
      BY <1>2, <2>2, ArrivesCases DEF Waiting
    <3>2. Cardinality(Waiting \cup {x}) = Cardinality(Waiting) + 1
      BY <1>2, WaitingFinite, FS_AddElement
    <3>3. QED
      BY <2>2, <3>1, <3>2, WaitingFinite, BarrierSize DEF Wakeful
  <2>3. QED
    BY <2>1, <2>2
<1>6. BarrierCount' = BarrierCount
  BY DEF BarrierCount, NodesCount
<1>7. QED
  BY <1>3, <1>4, <1>5, <1>6 DEF Wakeful

LEMMA NextWakeful == IInv /\ Wakeful /\ [Next]_vars => Wakeful'
<1> SUFFICES ASSUME IInv, Wakeful, [Next]_vars PROVE Wakeful'
  OBVIOUS
<1>1. CASE Next
  BY <1>1, NextCases, ElsewhereWakeful, ArrivesWakeful
<1>2. CASE UNCHANGED vars
  BY <1>2 DEF vars, Wakeful, Waiting, BarrierCount, NodesCount
<1>3. QED
  BY <1>1, <1>2

\* The invariant of the offers, for every number of nodes and senders.
THEOREM NobodySleeps == Spec => []Wakeful
BY InitWakeful, NextWakeful, Invariance, PTL DEF Spec

\* Whoever waits in the barrier during the send of t can arrive there.
LEMMA WaitingComes ==
    ASSUME IInv, NEW t \in Thread, pc[t] = "joined",
           NEW u \in Thread, pc[u] \in {"arrive", "barrier", "join", "joined"}
    PROVE  u \in Coming(t)
<1>1. CASE pc[u] \in {"join", "joined"}
  BY <1>1 DEF IInv, Exclusion, Critical, Coming
<1>2. CASE pc[u] \in {"arrive", "barrier"}
  <2>1. u \in Node
    BY <1>2 DEF IInv, Roles, ReaderPc, Thread
  <2>2. QED
    BY <1>2, <2>1 DEF Coming
<1>3. QED
  BY <1>1, <1>2

LEMMA ComingFinite ==
    ASSUME NEW t
    PROVE  IsFiniteSet(Coming(t)) /\ Cardinality(Coming(t)) \in Nat
<1>1. Coming(t) \subseteq Node \cup {t}
  BY DEF Coming
<1>2. IsFiniteSet(Node \cup {t})
  BY NodeAssumption, FS_AddElement
<1>3. QED
  BY <1>1, <1>2, FS_Subset, FS_CardinalityType

\* No wakeup is lost: a send_msg that waits in its barrier either lacks readers
\* that are blocked on its own bus_mtx, or has one coming that is awake.
THEOREM Served == Spec => []ServedUnlessStuck
<1>1. IInv /\ Wakeful => ServedUnlessStuck
  <2> SUFFICES ASSUME IInv, Wakeful, NEW t \in Thread, pc[t] = "joined", ~Stuck(t)
               PROVE  \E n \in Coming(t) : pc[n] \in {"wait", "test", "copy", "arrive", "deliver"}
    BY DEF ServedUnlessStuck
  <2>1. Waiting \subseteq Coming(t)
    BY WaitingComes DEF Waiting
  <2>2. Cardinality(Waiting) < Cardinality(Coming(t))
    BY WaitingFinite, ComingFinite, BarrierSize DEF Stuck, Wakeful
  <2>3. Waiting # Coming(t)
    BY <2>2, WaitingFinite
  <2>4. PICK n \in Coming(t) : n \notin Waiting
    BY <2>1, <2>3
  <2>5. n \in Node /\ n # t /\ n \in Thread
    BY <2>4 DEF Coming, Waiting, Thread
  <2>6. pc[n] \notin Critical
    BY <2>5 DEF IInv, Exclusion, Critical
  <2>7. pc[n] # "asleep"
    BY <2>5 DEF Wakeful
  <2>8. pc[n] # "lock"
    BY <2>4, <2>5 DEF Coming
  <2>9. pc[n] \notin {"idle", "barrier", "joined"}
    BY <2>4, <2>5 DEF IInv, Roles, Waiting
  <2>10. pc[n] \in ReaderPc \cup SenderPc \cup {"idle"}
    BY <2>5 DEF IInv, TypeOK
  <2>11. QED
    BY <2>4, <2>6, <2>7, <2>8, <2>9, <2>10 DEF ReaderPc, SenderPc, Critical
<1>2. QED
  BY <1>1, Invariance, NobodySleeps, PTL

\* No step brings a reader back that the send of t has lost.
LEMMA ComingShrinks ==
    ASSUME IInv, Elsewhere, NEW t \in Thread, pc[t] = "joined"
    PROVE  pc'[t] = "joined" /\ Coming(t)' \subseteq Coming(t)
<1>1. pc'[t] = "joined"
  BY DEF Elsewhere, Goto, IInv, TypeOK, ReadWait, ReadTest, ReadCopy, ReadDeliver,
     SendLock, SendWrite, SendFill, SendPublish, SendClear, SendRelease, SendUnlock,
     SendCall, Thread
<1>2. t \in busMtx /\ usingBus[NodeOf(t)]
  BY DEF IInv, Exclusion, Critical, Offer
<1>3. \A u \in Thread : pc[u] \in Critical => u = t
  BY <1>2 DEF IInv, Exclusion
<1>4. ASSUME NEW n \in Node, n # t, n \in Coming(t)'
      PROVE  n \in Coming(t)
  <2>1. n \in Thread
    BY DEF Thread
  <2>2. CASE n = NodeOf(t)
    <3>1. pc'[n] \in {"copy", "arrive", "barrier"}
      BY <1>4, <2>2 DEF Coming, NodeOf
    <3>2. pc[n] \in {"copy", "arrive", "barrier"}
      BY <1>2, <2>1, <2>2, <3>1 DEF Elsewhere, Goto, IInv, TypeOK, ReadWait, ReadTest, ReadCopy,
         ReadDeliver, SendLock, SendWrite, SendFill, SendPublish, SendClear, SendRelease,
         SendUnlock, SendCall
    <3>3. QED
      BY <2>2, <3>2 DEF Coming
  <2>3. CASE n # NodeOf(t)
    <3>1. pc'[n] # "lock"
      BY <1>4, <2>3 DEF Coming, NodeOf
    <3>2. pc[n] # "lock"
      BY <1>2, <2>1, <3>1 DEF Elsewhere, Goto, IInv, TypeOK, ReadWait, ReadTest, ReadCopy,
         ReadDeliver, SendLock, SendWrite, SendFill, SendPublish, SendClear, SendRelease,
         SendUnlock, SendCall
    <3>3. QED
      BY <2>3, <3>2 DEF Coming
  <2>4. QED
    BY <2>2, <2>3
<1>5. QED
  BY <1>1, <1>4 DEF Coming

\* A stuck send_msg is stuck for ever: no later arrival, lock or answer of any
\* thread fills its barrier.
THEOREM StuckStays == Spec => StuckForGood
<1>1. IInv /\ [Next]_vars => [\A t \in Thread : Stuck(t) => Stuck(t)']_vars
  <2> SUFFICES ASSUME IInv, Next, NEW t \in Thread, Stuck(t)
               PROVE  Stuck(t)'
    OBVIOUS
  <2>1. pc[t] = "joined" /\ Cardinality(Coming(t)) < BarrierCount
    BY DEF Stuck
  <2>2. pc'[t] = "joined" /\ Coming(t)' \subseteq Coming(t)
    <3>1. CASE Elsewhere
      BY <2>1, <3>1, ComingShrinks
    <3>2. ASSUME NEW x \in Thread, Arrives(x)
          PROVE  pc'[t] = "joined" /\ Coming(t)' \subseteq Coming(t)
      <4>1. pc[x] \in {"arrive", "join"}
        BY <3>2 DEF Arrives
      <4>2. Waiting \cup {x} \subseteq Coming(t)
        BY <2>1, <4>1, WaitingComes DEF Waiting
      <4>3. Cardinality(Waiting \cup {x}) <= Cardinality(Coming(t))
        BY <4>2, ComingFinite, FS_Subset
      <4>4. IsFiniteSet(Waiting \cup {x}) /\ Cardinality(Waiting \cup {x}) \in Nat
        BY WaitingFinite, FS_AddElement, FS_CardinalityType
      <4>5. Cardinality(Waiting \cup {x}) # BarrierCount
        BY <2>1, <4>3, <4>4, ComingFinite, BarrierSize
      <4>6. /\ pc'[x] = IF pc[x] = "arrive" THEN "barrier" ELSE "joined"
            /\ \A u \in Thread : u # x => pc'[u] = pc[u]
        BY <3>2, <4>5, ArrivesCases
      <4>7. pc'[t] = "joined"
        BY <2>1, <4>1, <4>6
      <4>8. Coming(t)' \subseteq Coming(t)
        BY <4>1, <4>6 DEF Coming, NodeOf, Thread
      <4>9. QED
        BY <4>7, <4>8
    <3>3. QED
      BY <3>1, <3>2, NextCases
  <2>3. Cardinality(Coming(t)') <= Cardinality(Coming(t)) /\ Cardinality(Coming(t)') \in Nat
    BY <2>2, ComingFinite, FS_Subset, FS_CardinalityType
  <2>4. BarrierCount' = BarrierCount
    BY DEF BarrierCount, NodesCount
  <2>5. QED
    BY <2>1, <2>2, <2>3, <2>4, ComingFinite, BarrierSize DEF Stuck
<1>2. QED
  BY <1>1, Invariance, PTL DEF Spec, StuckForGood

\* Only the reader of a brake component is ever inside send_msg.
Answering == \A n \in Node : pc[n] \in SenderPc => n \in Brake

LEMMA NextAnswering == IInv /\ Answering /\ [Next]_vars => Answering'
<1> SUFFICES ASSUME IInv, Answering, [Next]_vars, NEW n \in Node, pc'[n] \in SenderPc
             PROVE  pc[n] \in SenderPc \/ n \in Brake
  BY DEF Answering
<1>1. n \in Thread /\ n \notin Tx
  BY TxAssumption DEF Thread
<1>2. CASE Elsewhere
  <2>1. ASSUME NEW k \in Node, ReadWait(k) \/ ReadTest(k) \/ ReadCopy(k)
        PROVE  pc[n] \in SenderPc
    BY <1>1, <2>1 DEF Goto, IInv, TypeOK, SenderPc, ReadWait, ReadTest, ReadCopy
  <2>2. ASSUME NEW k \in Node, ReadDeliver(k)
        PROVE  pc[n] \in SenderPc \/ n \in Brake
    <3>1. k = n \/ pc'[n] = pc[n]
      BY <1>1, <2>2 DEF Goto, IInv, TypeOK, ReadDeliver
    <3>2. k = n => Answers(n)
      BY <1>1, <2>2 DEF Goto, IInv, TypeOK, ReadDeliver, SenderPc
    <3>3. QED
      BY <3>1, <3>2 DEF Answers
  <2>3. ASSUME NEW t \in Thread,
               \/ SendLock(t) \/ SendWrite(t) \/ SendFill(t) \/ SendPublish(t)
               \/ SendClear(t) \/ SendRelease(t) \/ SendUnlock(t)
        PROVE  pc[n] \in SenderPc
    BY <1>1, <2>3 DEF Goto, IInv, TypeOK, SenderPc, SendLock, SendWrite, SendFill,
       SendPublish, SendClear, SendRelease, SendUnlock
  <2>4. ASSUME NEW t \in Tx, NEW cmd \in BOOLEAN, SendCall(t, cmd)
        PROVE  pc[n] \in SenderPc
    BY <1>1, <2>4 DEF Goto, IInv, TypeOK, SendCall
  <2>5. QED
    BY <1>2, <2>1, <2>2, <2>3, <2>4 DEF Elsewhere
<1>3. ASSUME NEW x \in Thread, Arrives(x)
      PROVE  pc[n] \in SenderPc
  <2>1. \/ pc' = [u \in Thread |-> IF u \in Waiting \cup {x} THEN Released(u) ELSE pc[u]]
        \/ pc[x] = "arrive" /\ pc' = [pc EXCEPT ![x] = "barrier"]
        \/ pc[x] = "join" /\ pc' = [pc EXCEPT ![x] = "joined"]
    BY <1>3 DEF Arrives, BarrierWait
  <2>2. QED
    BY <1>1, <2>1 DEF Released, SenderPc, IInv, TypeOK
<1>4. CASE UNCHANGED vars
  BY <1>4 DEF vars
<1>5. QED
  BY <1>2, <1>3, <1>4, NextCases

\* With no answer under way the readers of all other nodes can arrive, and they
\* are as many as the barrier counts.
THEOREM StuckOnlyByAnswer == Spec => []StuckByAnswer
<1>1. Init => Answering
  BY TxAssumption DEF Init, Answering, SenderPc, Thread
<1>2. Spec => []Answering
  BY <1>1, NextAnswering, Invariance, PTL DEF Spec
<1>3. IInv /\ Answering => StuckByAnswer
  <2> SUFFICES ASSUME IInv, Answering, NEW t \in Thread, Stuck(t),
                      \A n \in Node \ {NodeOf(t)} : pc[n] # "lock"
               PROVE  FALSE
    BY DEF StuckByAnswer, Answering, SenderPc
  <2>1. Party(t) \subseteq Coming(t)
    BY DEF Party, Coming
  <2>2. BarrierCount <= Cardinality(Coming(t))
    BY <2>1, PartyCount, ComingFinite, FS_Subset
  <2>3. QED
    BY <2>2, ComingFinite, BarrierSize DEF Stuck
<1>4. QED
  BY <1>2, <1>3, Invariance, PTL

-----------------------------------------------------------------------------
(* The slot *)

\* Steps of the bus are steps of the slot, or leave holder and offer alone.
LEMMA StepRefinement ==
    ASSUME IInv, Wakeful, Next
    PROVE  Slot!Next \/ UNCHANGED <<busMtx, IF msgAvailable THEN {bus} ELSE {}>>
<1>1. ASSUME NEW t \in Thread, pc[t] \in Critical
      PROVE  busMtx = {t} /\ (msgAvailable => pc[t] \in {"join", "joined", "clear"})
  BY <1>1 DEF IInv, Exclusion, Offer
<1>2. ASSUME NEW t \in Thread, SendLock(t)
      PROVE  Slot!Next
  BY <1>2 DEF SendLock, Slot!Next, Slot!Acquire
<1>3. ASSUME NEW t \in Thread, SendWrite(t) \/ SendFill(t)
      PROVE  UNCHANGED <<busMtx, IF msgAvailable THEN {bus} ELSE {}>>
  <2>1. ~msgAvailable
    BY <1>1, <1>3 DEF SendWrite, SendFill, Critical
  <2>2. QED
    BY <1>3, <2>1 DEF SendWrite, SendFill
<1>4. ASSUME NEW t \in Thread, SendPublish(t)
      PROVE  Slot!Next
  <2>1. busMtx = {t} /\ ~msgAvailable
    BY <1>1, <1>4 DEF SendPublish, Critical
  <2>2. Slot!Publish(t)
    BY <1>4, <2>1 DEF SendPublish, Slot!Publish
  <2>3. QED
    BY <2>2 DEF Slot!Next
<1>5. ASSUME NEW t \in Thread, SendClear(t)
      PROVE  Slot!Next
  <2>1. busMtx = {t} /\ msgAvailable
    BY <1>1, <1>5 DEF SendClear, Critical, Wakeful
  <2>2. Slot!Withdraw(t)
    BY <1>5, <2>1 DEF SendClear, Slot!Withdraw
  <2>3. QED
    BY <2>2 DEF Slot!Next
<1>6. ASSUME NEW t \in Thread, SendUnlock(t)
      PROVE  Slot!Next
  <2>1. busMtx = {t} /\ ~msgAvailable
    BY <1>1, <1>6 DEF SendUnlock, Critical
  <2>2. Slot!Release(t)
    BY <1>6, <2>1 DEF SendUnlock, Slot!Release
  <2>3. QED
    BY <2>2 DEF Slot!Next
<1>7. ASSUME NEW x \in Thread, Arrives(x) \/ SendRelease(x)
      PROVE  UNCHANGED <<busMtx, IF msgAvailable THEN {bus} ELSE {}>>
  BY <1>7 DEF Arrives, SendRelease
<1>8. ASSUME NEW n \in Node, ReadWait(n) \/ ReadTest(n) \/ ReadCopy(n) \/ ReadDeliver(n)
      PROVE  UNCHANGED <<busMtx, IF msgAvailable THEN {bus} ELSE {}>>
  BY <1>8 DEF ReadWait, ReadTest, ReadCopy, ReadDeliver
<1>9. ASSUME NEW t \in Tx, NEW cmd \in BOOLEAN, SendCall(t, cmd)
      PROVE  UNCHANGED <<busMtx, IF msgAvailable THEN {bus} ELSE {}>>
  BY <1>9 DEF SendCall
<1>10. QED
  BY <1>2, <1>3, <1>4, <1>5, <1>6, <1>7, <1>8, <1>9, NextCases DEF Elsewhere

\* send_msg implements the slot of BusOffer, for any nodes and sending threads.
THEOREM Refinement == Spec => ImplementsSlot
<1>1. Init => Slot!Init
  BY DEF Init, Slot!Init
<1>2. IInv /\ Wakeful /\ [Next]_vars
        => [Slot!Next]_<<busMtx, IF msgAvailable THEN {bus} ELSE {}>>
  BY StepRefinement DEF vars
<1>3. QED
  BY <1>1, <1>2, Invariance, NobodySleeps, PTL DEF Spec, ImplementsSlot, Slot!Spec

=============================================================================
