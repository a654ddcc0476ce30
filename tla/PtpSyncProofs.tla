---------------------------- MODULE PtpSyncProofs ----------------------------
(***************************************************************************)
(* Proofs about PtpSync for any set of cars, any clocks, any slewing and   *)
(* any number of lost frames.  A sample is accurate because the car takes  *)
(* one time stamp between the two of the master, and has no other exchange *)
(* that could mix with this one: IInv says what the time stamps of a frame *)
(* are worth next to OneExchange.                                          *)
(***************************************************************************)
EXTENDS PtpSync, ClockSyncerProofs

\* A time stamp of the master is not in its future; a time stamp of the car was
\* taken between the master's time stamp and now.
StampsInOrder ==
    \A m \in net :
        /\ m.type = "SYNC_RESP" => m.t1 <= now
        /\ m.type = "DELAY_REQ" =>
                /\ m.t2 = m.t3
                /\ m.t1 + stamped[m.car] <= m.t2
                /\ m.t3 <= now + stamped[m.car]

\* The averages are those of the windows.
AveragesOfWindows ==
    \A c \in Car : /\ syncer[c].avgRtt = Average(syncer[c].rtts)
                   /\ syncer[c].avgOffset = Average(syncer[c].offsets)

IInv ==
    /\ TypeOK /\ OneExchange /\ StampsInOrder /\ SampleAccuracy
    /\ WindowsInStep /\ AveragesOfWindows

\* The offset computed at the arrival of DELAY_REQ misses the skew s by at most
\* half of the time since the master's time stamp.
LEMMA OffsetBound ==
    ASSUME NEW t1 \in Int, NEW t2 \in Int, NEW t4 \in Int, NEW s \in Int,
           t1 + s <= t2, t2 <= t4 + s
    PROVE  /\ Half((t2 - t1) + (t2 - t4)) \in Int
           /\ 2 * (Half((t2 - t1) + (t2 - t4)) - s) <= (t4 - t1) + 1
           /\ 2 * (s - Half((t2 - t1) + (t2 - t4))) <= (t4 - t1) + 1
<1> DEFINE x == (t2 - t1) + (t2 - t4)
<1>1. x \in Int
  OBVIOUS
<1>2. /\ 2 * s - (t4 - t1) <= x
      /\ x <= 2 * s + (t4 - t1)
  OBVIOUS
<1>3. /\ Half(x) \in Int
      /\ x - 1 <= 2 * Half(x)
      /\ 2 * Half(x) <= x + 1
  <2> HIDE DEF x
  <2>1. CASE x >= 0
    <3>1. /\ x \div 2 \in Int
          /\ x - 1 <= 2 * (x \div 2)
          /\ 2 * (x \div 2) <= x
      BY <1>1, <2>1
    <3> QED  BY <1>1, <2>1, <3>1 DEF Half
  <2>2. CASE ~(x >= 0)
    <3>1. /\ (-x) \div 2 \in Int
          /\ (-x) - 1 <= 2 * ((-x) \div 2)
          /\ 2 * ((-x) \div 2) <= -x
      BY <1>1, <2>2
    <3> QED  BY <1>1, <2>2, <3>1 DEF Half
  <2> QED  BY <2>1, <2>2
<1> QED
  <2> HIDE DEF x
  <2>1. /\ 2 * (Half(x) - s) <= (t4 - t1) + 1
        /\ 2 * (s - Half(x)) <= (t4 - t1) + 1
    BY <1>1, <1>2, <1>3
  <2> QED  BY <1>3, <2>1 DEF x

LEMMA InitIInv == Init => IInv
<1> SUFFICES ASSUME Init
             PROVE  IInv
  OBVIOUS
<1>1. skew \in [Car -> Int]
  BY ClockAssumption DEF Init
<1>2. NoSamples \in Syncer
  BY DEF NoSamples, Syncer, NotDefined, Ptp
<1>3. TypeOK
  BY <1>1, <1>2, ClockAssumption DEF Init, TypeOK
<1>4. OneExchange /\ StampsInOrder /\ SampleAccuracy
  BY DEF Init, OneExchange, StampsInOrder, SampleAccuracy
<1>5. WindowsInStep /\ AveragesOfWindows
  BY WindowAssumption DEF Init, WindowsInStep, AveragesOfWindows, NoSamples, Average
<1> QED  BY <1>3, <1>4, <1>5 DEF IInv

\* The type of a frame says which fields it has.
LEMMA FrameFields ==
    ASSUME NEW m \in Frame
    PROVE  /\ m.car \in Car
           /\ m.type = "SYNC_RESP" => m.t1 \in Int
           /\ m.type = "DELAY_REQ" => m.t1 \in Int /\ m.t2 \in Int /\ m.t3 \in Int
           /\ m.type = "DELAY_RESP" => m.offset \in Int /\ m.rtt \in Int
BY DEF Frame, Request, SyncResp, DelayReq, DelayResp

\* Steps of clocks and flags, which leave the frames and what they mean alone: time
\* only makes the time stamps older.
LEMMA ClockIInv ==
    ASSUME IInv, TypeOK', now' = now \/ now' = now + 1,
           UNCHANGED <<running, net, syncer, stamped>>
    PROVE  IInv'
<1>1. OneExchange' /\ SampleAccuracy' /\ WindowsInStep' /\ AveragesOfWindows'
  BY DEF IInv, OneExchange, SampleAccuracy, WindowsInStep, AveragesOfWindows
<1>2. StampsInOrder'
  <2> SUFFICES ASSUME NEW m \in net
               PROVE  /\ m.type = "SYNC_RESP" => m.t1 <= now'
                      /\ m.type = "DELAY_REQ" =>
                            /\ m.t2 = m.t3
                            /\ m.t1 + stamped[m.car] <= m.t2
                            /\ m.t3 <= now' + stamped[m.car]
    BY DEF StampsInOrder
  <2>1. m \in Frame /\ now \in Int /\ stamped \in [Car -> Int]
    BY DEF IInv, TypeOK
  <2>2. CASE m.type = "SYNC_RESP"
    <3>1. m.t1 \in Int /\ m.t1 <= now
      BY <2>1, <2>2, FrameFields DEF IInv, StampsInOrder
    <3> QED  BY <2>1, <2>2, <3>1
  <2>3. CASE m.type = "DELAY_REQ"
    <3>1. m.t3 \in Int /\ m.car \in Car /\ m.t3 <= now + stamped[m.car]
      BY <2>1, <2>3, FrameFields DEF IInv, StampsInOrder
    <3>2. m.t3 <= now' + stamped[m.car]
      BY <2>1, <3>1
    <3> QED  BY <2>3, <3>2 DEF IInv, StampsInOrder
  <2> QED  BY <2>2, <2>3
<1> QED  BY <1>1, <1>2 DEF IInv

LEMMA BackgroundIInv ==
    ASSUME IInv, Tick \/ SetMaster \/ \E c \in Car : Slew(c) \/ TickRunning(c)
    PROVE  IInv'
<1>1. CASE Tick
  <2>1. TypeOK'
    BY <1>1 DEF IInv, Tick, TypeOK
  <2> QED  BY <1>1, <2>1, ClockIInv DEF Tick
<1>2. CASE SetMaster
  <2>1. TypeOK'
    BY <1>2 DEF IInv, SetMaster, TypeOK
  <2> QED  BY <1>2, <2>1, ClockIInv DEF SetMaster
<1>3. ASSUME NEW c \in Car, Slew(c)
      PROVE  IInv'
  <2>1. TypeOK'
    <3>1. PICK s \in Skew : skew' = [skew EXCEPT ![c] = s]
      BY <1>3 DEF Slew
    <3>2. skew' \in [Car -> Int]
      BY <3>1, ClockAssumption DEF IInv, TypeOK
    <3> QED  BY <1>3, <3>2 DEF IInv, Slew, TypeOK
  <2> QED  BY <1>3, <2>1, ClockIInv DEF Slew
<1>4. ASSUME NEW c \in Car, TickRunning(c)
      PROVE  IInv'
  <2>1. TypeOK'
    BY <1>4 DEF IInv, TickRunning, TypeOK
  <2> QED  BY <1>4, <2>1, ClockIInv DEF TickRunning
<1> QED  BY <1>1, <1>2, <1>3, <1>4

LEMMA TickRequestIInv ==
    ASSUME IInv, NEW c \in Car, TickRequest(c)
    PROVE  IInv'
<1> DEFINE f == [type |-> "SYNC_REQ", car |-> c]
<1>1. f \in Frame /\ f.type = "SYNC_REQ" /\ f.car = c
  BY DEF Frame, Request
<1>2. net' = net \cup {f} /\ UNCHANGED <<now, syncer, stamped>>
  BY DEF TickRequest, StartExchange
<1>3. \A m \in net : m.car # c
  BY DEF TickRequest, IInv, OneExchange
<1> HIDE DEF f
<1>4. TypeOK'
  <2>1. Clock(c) \in Int
    BY DEF IInv, TypeOK, Clock
  <2> QED  BY <1>1, <1>2, <2>1 DEF IInv, TypeOK, TickRequest, StartExchange
<1>5. OneExchange'
  <2>1. running \in [Car -> BOOLEAN] /\ running' = [running EXCEPT ![c] = TRUE]
    BY DEF TickRequest, StartExchange, IInv, TypeOK
  <2>2. \A m \in net : running[m.car]
    BY DEF IInv, OneExchange
  <2>3. \A m \in net' : running'[m.car]
    BY <1>1, <1>2, <1>3, <2>1, <2>2
  <2>4. \A m, k \in net' : m.car = k.car => m = k
    BY <1>1, <1>2, <1>3 DEF IInv, OneExchange
  <2> QED  BY <2>3, <2>4 DEF OneExchange
<1>6. StampsInOrder' /\ SampleAccuracy'
  BY <1>1, <1>2 DEF IInv, StampsInOrder, SampleAccuracy
<1>7. WindowsInStep' /\ AveragesOfWindows'
  BY <1>2 DEF IInv, WindowsInStep, AveragesOfWindows
<1> QED  BY <1>4, <1>5, <1>6, <1>7 DEF IInv

\* Taking a frame away keeps the invariant.
LEMMA DropIInv ==
    ASSUME IInv, NEW m \in net, net' = net \ {m}, TypeOK',
           UNCHANGED <<now, running, syncer, stamped>>
    PROVE  IInv'
BY DEF IInv, OneExchange, StampsInOrder, SampleAccuracy, WindowsInStep, AveragesOfWindows

\* A handler that replaces a frame by the next one of the same exchange keeps
\* the invariant when the new frame's time stamps are right.
LEMMA ReplyIInv ==
    ASSUME IInv, NEW m \in net, NEW f \in Frame, f.car = m.car,
           net' = (net \ {m}) \cup {f},
           UNCHANGED <<now, skew, isMaster, running, timeout, lastReq, syncer, adjusting,
                       lost, unheard, started>>,
           stamped' \in [Car -> Int],
           \A c \in Car \ {m.car} : stamped'[c] = stamped[c],
           f.type = "SYNC_RESP" => f.t1 <= now,
           f.type = "DELAY_REQ" =>
                f.t2 = f.t3 /\ f.t1 + stamped'[f.car] <= f.t2 /\ f.t3 <= now + stamped'[f.car],
           f.type = "DELAY_RESP" =>
                /\ 2 * (f.offset - stamped'[f.car]) <= f.rtt + 1
                /\ 2 * (stamped'[f.car] - f.offset) <= f.rtt + 1
    PROVE  IInv'
<1>0. \A k \in net \ {m} : k.car \in Car \ {m.car}
  BY FrameFields DEF IInv, TypeOK, OneExchange
<1>1. TypeOK'
  BY DEF IInv, TypeOK
<1>2. OneExchange'
  BY DEF IInv, OneExchange
<1>3. StampsInOrder'
  BY <1>0 DEF IInv, StampsInOrder
<1>4. SampleAccuracy'
  BY <1>0 DEF IInv, SampleAccuracy
<1>5. WindowsInStep' /\ AveragesOfWindows'
  BY DEF IInv, WindowsInStep, AveragesOfWindows
<1> QED  BY <1>1, <1>2, <1>3, <1>4, <1>5 DEF IInv

LEMMA HandleSyncReqIInv ==
    ASSUME IInv, NEW m \in net, HandleSyncReq(m)
    PROVE  IInv'
<1>c. m \in Frame /\ m.car \in Car /\ now \in Int
  BY FrameFields DEF IInv, TypeOK
<1>1. CASE isMaster
  <2> DEFINE f == [type |-> "SYNC_RESP", car |-> m.car, t1 |-> now]
  <2>1. f \in Frame
    BY <1>c DEF Frame, SyncResp
  <2>2. f.type = "SYNC_RESP" /\ f.t1 <= now /\ f.car = m.car
    BY <1>c
  <2>3. /\ net' = (net \ {m}) \cup {f}
        /\ UNCHANGED <<now, skew, isMaster, running, timeout, lastReq, syncer, adjusting,
                       lost, unheard, started, stamped>>
    BY <1>1 DEF HandleSyncReq
  <2>4. stamped' \in [Car -> Int]
    BY <2>3 DEF IInv, TypeOK
  <2> HIDE DEF f
  <2> QED  BY <2>1, <2>2, <2>3, <2>4, ReplyIInv
<1>2. CASE ~isMaster
  <2>1. net' = net \ {m}
    BY <1>2 DEF HandleSyncReq
  <2>2. TypeOK'
    BY <1>c, <1>2, <2>1 DEF HandleSyncReq, IInv, TypeOK
  <2> QED  BY <2>1, <2>2, DropIInv DEF HandleSyncReq
<1> QED  BY <1>1, <1>2

LEMMA HandleSyncRespIInv ==
    ASSUME IInv, NEW m \in net, HandleSyncResp(m)
    PROVE  IInv'
<1>c. m \in Frame /\ m.car \in Car /\ now \in Int /\ skew[m.car] \in Int
  BY FrameFields DEF IInv, TypeOK
<1> DEFINE t == Clock(m.car)
           f == [type |-> "DELAY_REQ", car |-> m.car, t1 |-> m.t1, t2 |-> t, t3 |-> t]
<1>1. m.t1 \in Int /\ m.t1 <= now
  BY <1>c, FrameFields DEF HandleSyncResp, IInv, StampsInOrder
<1>2. t = now + skew[m.car] /\ t \in Int
  BY <1>c DEF Clock
<1>3. stamped' \in [Car -> Int] /\ stamped'[m.car] = skew[m.car]
      /\ \A c \in Car \ {m.car} : stamped'[c] = stamped[c]
  BY <1>c DEF HandleSyncResp, IInv, TypeOK
<1>4. /\ net' = (net \ {m}) \cup {f}
      /\ UNCHANGED <<now, skew, isMaster, running, timeout, lastReq, syncer, adjusting,
                     lost, unheard, started>>
  BY DEF HandleSyncResp
<1> HIDE DEF t
<1>5. f \in Frame
  BY <1>c, <1>1, <1>2 DEF Frame, DelayReq
<1>6. /\ f.type = "DELAY_REQ" /\ f.car = m.car /\ f.t2 = f.t3
      /\ f.t1 + stamped'[f.car] <= f.t2 /\ f.t3 <= now + stamped'[f.car]
  BY <1>c, <1>1, <1>2, <1>3
<1> HIDE DEF f
<1> QED  BY <1>3, <1>4, <1>5, <1>6, ReplyIInv

LEMMA HandleDelayReqIInv ==
    ASSUME IInv, NEW m \in net, HandleDelayReq(m)
    PROVE  IInv'
<1>c. m \in Frame /\ m.car \in Car /\ now \in Int /\ stamped[m.car] \in Int
  BY FrameFields DEF IInv, TypeOK
<1> DEFINE off == Half((m.t2 - m.t1) + (m.t3 - now))
           rtt == (now - m.t1) - (m.t3 - m.t2)
           f == [type |-> "DELAY_RESP", car |-> m.car, offset |-> off, rtt |-> rtt]
<1>1. m.t1 \in Int /\ m.t2 \in Int /\ m.t3 \in Int
  BY <1>c, FrameFields DEF HandleDelayReq
<1>2. m.t2 = m.t3 /\ m.t1 + stamped[m.car] <= m.t2 /\ m.t2 <= now + stamped[m.car]
  BY DEF HandleDelayReq, IInv, StampsInOrder
<1>3. rtt = now - m.t1 /\ rtt \in Int
  BY <1>c, <1>1, <1>2
<1>4. /\ off \in Int
      /\ 2 * (off - stamped[m.car]) <= rtt + 1
      /\ 2 * (stamped[m.car] - off) <= rtt + 1
  BY <1>c, <1>1, <1>2, <1>3, OffsetBound
<1>5. /\ net' = (net \ {m}) \cup {f}
      /\ UNCHANGED <<now, skew, isMaster, running, timeout, lastReq, syncer, adjusting,
                     lost, unheard, started, stamped>>
  BY DEF HandleDelayReq
<1> HIDE DEF off, rtt
<1>6. f \in Frame
  BY <1>c, <1>3, <1>4 DEF Frame, DelayResp
<1>7. stamped' \in [Car -> Int]
  BY <1>5 DEF IInv, TypeOK
<1>8. /\ f.type = "DELAY_RESP" /\ f.car = m.car
      /\ 2 * (f.offset - stamped'[f.car]) <= f.rtt + 1
      /\ 2 * (stamped'[f.car] - f.offset) <= f.rtt + 1
  BY <1>4, <1>5
<1> HIDE DEF f
<1> QED  BY <1>5, <1>6, <1>7, <1>8, ReplyIInv

LEMMA HandleDelayRespIInv ==
    ASSUME IInv, NEW m \in net, HandleDelayResp(m)
    PROVE  IInv'
<1>c. m \in Frame /\ m.car \in Car
  BY FrameFields DEF IInv, TypeOK
<1> DEFINE t == AddPtpSample(syncer[m.car], m.offset, m.rtt)
<1>1. /\ net' = net \ {m} /\ now' = now
      /\ syncer' = [syncer EXCEPT ![m.car] = t]
      /\ adjusting' = [adjusting EXCEPT ![m.car] = TRUE]
      /\ running' = [running EXCEPT ![m.car] = FALSE]
      /\ stamped' = [stamped EXCEPT ![m.car] = 0]
      /\ UNCHANGED <<skew, isMaster, timeout, lastReq, lost, unheard, started>>
  BY DEF HandleDelayResp
<1>2. syncer \in [Car -> Syncer]
  BY DEF IInv, TypeOK
<1>3. /\ t \in Syncer /\ t.alg = Ptp
      /\ Len(t.rtts) = Len(t.offsets) /\ Len(t.rtts) <= MaxSamples /\ t.rtts # <<>>
      /\ t.avgRtt = Average(t.rtts) /\ t.avgOffset = Average(t.offsets)
  <2>1. m.offset \in Int /\ m.rtt \in Int
    BY <1>c, FrameFields DEF HandleDelayResp
  <2>2. syncer[m.car] \in Syncer
    BY <1>c, <1>2
  <2>3. Len(syncer[m.car].rtts) = Len(syncer[m.car].offsets) /\ Len(syncer[m.car].rtts) <= MaxSamples
    BY <1>c DEF IInv, WindowsInStep
  <2> QED  BY <2>1, <2>2, <2>3, SampleAdded
<1> HIDE DEF t
<1>4. \A k \in net' : k \in net /\ k.car # m.car /\ k.car \in Car
  BY <1>1, FrameFields DEF IInv, OneExchange, TypeOK
<1>5. \A k \in net' : stamped'[k.car] = stamped[k.car] /\ running'[k.car] = running[k.car]
  BY <1>1, <1>4 DEF IInv, TypeOK
<1>6. TypeOK'
  BY <1>1, <1>2, <1>3, <1>c DEF IInv, TypeOK
<1>7. OneExchange'
  BY <1>4, <1>5 DEF IInv, OneExchange
<1>8. StampsInOrder' /\ SampleAccuracy'
  BY <1>1, <1>4, <1>5 DEF IInv, StampsInOrder, SampleAccuracy
<1>9. \A c \in Car : syncer'[c] = IF c = m.car THEN t ELSE syncer[c]
  BY <1>1, <1>2
<1>10. WindowsInStep'
  BY <1>3, <1>9 DEF IInv, WindowsInStep, NotDefined, Ptp
<1>11. AveragesOfWindows'
  BY <1>3, <1>9 DEF IInv, AveragesOfWindows
<1> QED  BY <1>6, <1>7, <1>8, <1>10, <1>11 DEF IInv

LEMMA LoseIInv ==
    ASSUME IInv, NEW m \in net, Lose(m)
    PROVE  IInv'
<1>1. TypeOK'
  BY DEF IInv, Lose, TypeOK
<1> QED  BY <1>1, DropIInv DEF Lose

LEMMA NextIInv == IInv /\ [Next]_vars => IInv'
<1> SUFFICES ASSUME IInv, [Next]_vars
             PROVE  IInv'
  OBVIOUS
<1>1. CASE UNCHANGED vars
  <2>1. TypeOK'
    BY <1>1 DEF vars, IInv, TypeOK
  <2> QED  BY <1>1, <2>1, ClockIInv DEF vars
<1>2. CASE Next
  BY <1>2, BackgroundIInv, TickRequestIInv, HandleSyncReqIInv, HandleSyncRespIInv,
     HandleDelayReqIInv, HandleDelayRespIInv, LoseIInv DEF Next, OnTick, AtMaster, AtCar
<1> QED  BY <1>1, <1>2

-----------------------------------------------------------------------------
(* Theorems *)

\* The inductive invariant holds in every reachable state of the exchange.
THEOREM Invariance == Spec => []IInv
BY InitIInv, NextIInv, PTL DEF Spec

\* Every field of the exchange keeps its type, for any cars and clocks.
THEOREM TypeCorrect == Spec => []TypeOK
<1>1. IInv => TypeOK  BY DEF IInv
<1> QED  BY <1>1, Invariance, PTL

\* set_running_ptp keeps the exchanges of a car apart: never two of its frames
\* are in flight, and none when it may start another exchange.
THEOREM ExchangesApart == Spec => []OneExchange
<1>1. IInv => OneExchange  BY DEF IInv
<1> QED  BY <1>1, Invariance, PTL

\* The offset in every DELAY_RESP is within half a round trip of how far the clock of
\* the car was ahead of the master's when the car took its time stamp, for any delays
\* of the frames and while adjtimex is slewing that clock.
THEOREM SamplesAccurate == Spec => []SampleAccuracy
<1>1. IInv => SampleAccuracy  BY DEF IInv
<1> QED  BY <1>1, Invariance, PTL

\* The offsets and the round trip times in the windows of every car stay in step,
\* whatever MAX_SAMPLES_IN_CLOCK_SYNCER is.
THEOREM InStep == Spec => []WindowsInStep
<1>1. IInv => WindowsInStep  BY DEF IInv
<1> QED  BY <1>1, Invariance, PTL

\* getAverageOffset and getAverageRTT return the rounded mean of a window without
\* negative samples whose sum is an int, for every window size and every range of
\* int and long long: no sum on the way leaves int, and the conversion to
\* unsigned changes nothing.
THEOREM Mean == Spec => []MeanOfNonNegative
<1>1. ASSUME IInv PROVE MeanOfNonNegative
  <2> SUFFICES ASSUME NEW c \in Car
               PROVE  LET s == syncer[c] IN
                      /\ s.offsets # <<>> /\ NonNegative(s.offsets) /\ FitsInt(s.offsets)
                            => s.avgOffset = SumOf(s.offsets) \div Len(s.offsets)
                      /\ s.rtts # <<>> /\ NonNegative(s.rtts) /\ FitsInt(s.rtts)
                            => s.avgRtt = SumOf(s.rtts) \div Len(s.rtts)
    BY DEF MeanOfNonNegative
  <2>1. syncer[c].rtts \in Seq(Int) /\ syncer[c].offsets \in Seq(Int)
    BY <1>1 DEF IInv, TypeOK, Syncer
  <2>2. /\ syncer[c].avgRtt = Average(syncer[c].rtts)
        /\ syncer[c].avgOffset = Average(syncer[c].offsets)
    BY <1>1 DEF IInv, AveragesOfWindows
  <2> QED  BY <2>1, <2>2, AverageExact
<1> QED  BY <1>1, Invariance, PTL

-----------------------------------------------------------------------------
(* Exchanges that lose a frame *)

\* A handler answers for its car with one frame, ends the exchange, or ignores a
\* request before the road-side unit is master.
LEMMA HandleCases ==
    ASSUME IInv, NEW m \in net, AtMaster(m) \/ AtCar(m)
    PROVE  /\ m.car \in Car /\ lost' = lost /\ unheard \subseteq unheard'
           /\ \/ running' = running /\ \E f : f.car = m.car /\ net' = (net \ {m}) \cup {f}
              \/ net' = net \ {m} /\ running' = [running EXCEPT ![m.car] = FALSE]
              \/ net' = net \ {m} /\ running' = running /\ m.car \in unheard'
<1>1. m.car \in Car
  BY FrameFields DEF IInv, TypeOK
<1>2. CASE HandleSyncReq(m) /\ isMaster
  <2> DEFINE f == [type |-> "SYNC_RESP", car |-> m.car, t1 |-> now]
  <2>1. /\ f.car = m.car /\ net' = (net \ {m}) \cup {f}
        /\ UNCHANGED <<running, lost, unheard>>
    BY <1>2 DEF HandleSyncReq
  <2> QED  BY <1>1, <2>1
<1>3. CASE HandleSyncReq(m) /\ ~isMaster
  BY <1>1, <1>3 DEF HandleSyncReq
<1>4. CASE HandleSyncResp(m)
  <2> DEFINE f == [type |-> "DELAY_REQ", car |-> m.car, t1 |-> m.t1,
                   t2 |-> Clock(m.car), t3 |-> Clock(m.car)]
  <2>1. /\ f.car = m.car /\ net' = (net \ {m}) \cup {f}
        /\ UNCHANGED <<running, lost, unheard>>
    BY <1>4 DEF HandleSyncResp
  <2> QED  BY <1>1, <2>1
<1>5. CASE HandleDelayReq(m)
  <2> DEFINE f == [type |-> "DELAY_RESP", car |-> m.car,
                   offset |-> Half((m.t2 - m.t1) + (m.t3 - now)),
                   rtt |-> (now - m.t1) - (m.t3 - m.t2)]
  <2>1. /\ f.car = m.car /\ net' = (net \ {m}) \cup {f}
        /\ UNCHANGED <<running, lost, unheard>>
    BY <1>5 DEF HandleDelayReq
  <2> QED  BY <1>1, <2>1
<1>6. CASE HandleDelayResp(m)
  BY <1>1, <1>6 DEF HandleDelayResp
<1> QED  BY <1>2, <1>3, <1>4, <1>5, <1>6 DEF AtMaster, AtCar

\* The steps of the environment and of on_tick while an exchange runs.
LEMMA BackgroundStep ==
    ASSUME Tick \/ SetMaster \/ \E c \in Car : Slew(c) \/ TickRunning(c)
    PROVE  UNCHANGED <<running, net, lost, unheard>>
BY DEF Tick, SetMaster, Slew, TickRunning

LEMMA NextCarried == IInv /\ ExchangeCarried /\ [Next]_vars => ExchangeCarried'
<1> SUFFICES ASSUME IInv, ExchangeCarried, [Next]_vars,
                    NEW c \in Car, running'[c], lost' = 0, c \notin unheard'
             PROVE  \E m \in net' : m.car = c
  BY DEF ExchangeCarried
<1>1. CASE UNCHANGED <<running, net, lost, unheard>>
  BY <1>1 DEF ExchangeCarried
<1>2. ASSUME NEW d \in Car, TickRequest(d)
      PROVE  \E m \in net' : m.car = c
  <2> DEFINE f == [type |-> "SYNC_REQ", car |-> d]
  <2>1. net' = net \cup {f} /\ f.car = d /\ UNCHANGED <<lost, unheard>>
    BY <1>2 DEF TickRequest, StartExchange
  <2>2. c # d => running[c]
    BY <1>2 DEF TickRequest, StartExchange, IInv, TypeOK
  <2> HIDE DEF f
  <2> QED  BY <2>1, <2>2 DEF ExchangeCarried
<1>3. ASSUME NEW m \in net, AtMaster(m) \/ AtCar(m)
      PROVE  \E k \in net' : k.car = c
  <2>0. lost = 0 /\ c \notin unheard
    BY <1>3, HandleCases
  <2>1. CASE running' = running /\ \E f : f.car = m.car /\ net' = (net \ {m}) \cup {f}
    <3>1. PICK f : f.car = m.car /\ net' = (net \ {m}) \cup {f}
      BY <2>1
    <3>2. PICK k \in net : k.car = c
      BY <2>0, <2>1 DEF ExchangeCarried
    <3> QED  BY <3>1, <3>2
  <2>2. CASE net' = net \ {m} /\ running' = [running EXCEPT ![m.car] = FALSE]
    <3>1. c # m.car /\ running[c]
      BY <1>3, <2>2, HandleCases DEF IInv, TypeOK
    <3>2. PICK k \in net : k.car = c
      BY <2>0, <3>1 DEF ExchangeCarried
    <3> QED  BY <2>2, <3>1, <3>2
  <2>3. CASE net' = net \ {m} /\ running' = running /\ m.car \in unheard'
    <3>1. c # m.car /\ running[c]
      BY <2>3
    <3>2. PICK k \in net : k.car = c
      BY <2>0, <3>1 DEF ExchangeCarried
    <3> QED  BY <2>3, <3>1, <3>2
  <2> QED  BY <1>3, <2>1, <2>2, <2>3, HandleCases
<1>4. ASSUME NEW m \in net, Lose(m)
      PROVE  FALSE
  BY <1>4 DEF Lose, IInv, TypeOK
<1>5. CASE UNCHANGED vars
  BY <1>1, <1>5 DEF vars
<1> QED  BY <1>1, <1>2, <1>3, <1>4, <1>5, BackgroundStep DEF Next, OnTick

\* Where no frame is lost and the requests of the car find a master, a running
\* exchange always has a frame under way, whose handler carries it on or ends it.
THEOREM Carried == Spec => []ExchangeCarried
<1>1. Init => ExchangeCarried
  BY DEF Init, ExchangeCarried
<1> QED  BY <1>1, NextCarried, Invariance, PTL DEF Spec

\* The first frame that is dropped or ignored ends the synchronisation of its car for
\* good: on_tick starts no exchange while _running_ptp is set, nobody else clears it.
THEOREM NoRecovery == Spec => AbandonedForGood
<1>1. IInv /\ [Next]_vars => [\A c \in Car : Abandoned(c) => Abandoned(c)']_vars
  <2> SUFFICES ASSUME IInv, Next, NEW c \in Car, running[c], \A m \in net : m.car # c
               PROVE  running'[c] /\ \A m \in net' : m.car # c
    BY DEF Abandoned
  <2>1. CASE UNCHANGED <<running, net, lost, unheard>>
    BY <2>1
  <2>2. ASSUME NEW d \in Car, TickRequest(d)
        PROVE  running'[c] /\ \A m \in net' : m.car # c
    <3> DEFINE f == [type |-> "SYNC_REQ", car |-> d]
    <3>1. net' = net \cup {f} /\ f.car = d /\ d # c
      BY <2>2 DEF TickRequest, StartExchange
    <3>2. running'[c]
      BY <2>2 DEF TickRequest, StartExchange, IInv, TypeOK
    <3> HIDE DEF f
    <3> QED  BY <3>1, <3>2
  <2>3. ASSUME NEW m \in net, AtMaster(m) \/ AtCar(m)
        PROVE  running'[c] /\ \A k \in net' : k.car # c
    BY <2>3, HandleCases DEF IInv, TypeOK
  <2>4. ASSUME NEW m \in net, Lose(m)
        PROVE  running'[c] /\ \A k \in net' : k.car # c
    BY <2>4 DEF Lose
  <2> QED  BY <2>1, <2>2, <2>3, <2>4, BackgroundStep DEF Next, OnTick
<1> QED  BY <1>1, Invariance, PTL DEF Spec, AbandonedForGood
=============================================================================
