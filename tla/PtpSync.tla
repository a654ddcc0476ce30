------------------------------- MODULE PtpSync -------------------------------
(***************************************************************************)
(* The clock synchronisation exchange between the cars of a group and the  *)
(* group's road-side unit: Gateway::on_tick (gateway.h) starts it, the     *)
(* SYNC_REQ, SYNC_RESP, DELAY_REQ and DELAY_RESP branches of               *)
(* notify_by_port (protocol.h) carry it on, and every car keeps its        *)
(* samples in a ClockSyncer.  now is the master's clock, a car's clock is  *)
(* skew ahead of it.  The cars have passed the start barrier; the          *)
(* road-side unit may still be booting, since any car may send GO.         *)
(* Control frames of other groups fail is_message_internal, so one group   *)
(* is modelled, with its one master.                                       *)
(***************************************************************************)
EXTENDS ClockSyncer, FiniteSets

CONSTANTS
    Car,            \* the cars of the group
    Period,         \* the 3 seconds of on_tick
    StartTime,      \* the clock when the cars pass the start barrier
    MaxTime,        \* bound on the clock
    Skew,           \* how far a car's clock may be ahead of the master's
    MaxStarted,     \* bound: exchanges that all cars together start
    MaxLost         \* bound: frames dropped

ASSUME ClockAssumption ==
    /\ Period \in Nat /\ StartTime \in Nat /\ MaxTime \in Nat
    /\ Skew \subseteq Int
ASSUME BoundAssumption == MaxStarted \in Nat /\ MaxLost \in Nat

VARIABLES
    now,        \* the master's clock
    skew,       \* clock of the car minus clock of the master
    isMaster,   \* _is_master of the road-side unit, after set_current_group
    running,    \* _running_ptp
    timeout,    \* _probabilistic_ptp_timeout
    lastReq,    \* _last_sync_request_us
    syncer,     \* _clock_syncer
    adjusting,  \* adjtimex was given an offset
    net,        \* frames in flight
    lost,       \* number of frames dropped so far
    unheard,    \* history: cars whose SYNC_REQ found no master
    stamped,    \* history: skew of the car when it took the time stamp of its exchange
    started     \* number of exchanges started so far

vars == <<now, skew, isMaster, running, timeout, lastReq, syncer, adjusting, net, lost,
          unheard, stamped, started>>

Request   == [type : {"SYNC_REQ"}, car : Car]
SyncResp  == [type : {"SYNC_RESP"}, car : Car, t1 : Int]
DelayReq  == [type : {"DELAY_REQ"}, car : Car, t1 : Int, t2 : Int, t3 : Int]
DelayResp == [type : {"DELAY_RESP"}, car : Car, offset : Int, rtt : Int]

Frame == Request \cup SyncResp \cup DelayReq \cup DelayResp

Clock(c) == now + skew[c]

Init ==
    /\ now = StartTime
    /\ skew \in [Car -> Skew]
    /\ isMaster \in BOOLEAN
    /\ running = [c \in Car |-> FALSE]
    /\ timeout = [c \in Car |-> FALSE]
    /\ lastReq = [c \in Car |-> 0]
    /\ syncer = [c \in Car |-> NoSamples]
    /\ adjusting = [c \in Car |-> FALSE]
    /\ net = {}
    /\ lost = 0
    /\ unheard = {}
    /\ stamped = [c \in Car |-> 0]
    /\ started = 0

-----------------------------------------------------------------------------
(* The clocks and the boot of the road-side unit *)

Tick ==
    /\ now < MaxTime
    /\ now' = now + 1
    /\ UNCHANGED <<skew, isMaster, running, timeout, lastReq, syncer, adjusting, net, lost,
                   unheard, stamped, started>>

\* The kernel slews the clock of c, by itself and gradually, once adjtimex was given
\* an offset.  How far and in which direction is left open.
Slew(c) ==
    /\ adjusting[c]
    /\ \E s \in {skew[c] - 1, skew[c] + 1} \cap Skew : skew' = [skew EXCEPT ![c] = s]
    /\ UNCHANGED <<now, isMaster, running, timeout, lastReq, syncer, adjusting, net, lost,
                   unheard, stamped, started>>

SetMaster ==
    /\ ~isMaster
    /\ isMaster' = TRUE
    /\ UNCHANGED <<now, skew, running, timeout, lastReq, syncer, adjusting, net, lost,
                   unheard, stamped, started>>

-----------------------------------------------------------------------------
(* on_tick *)

\* now_us - _last_sync_request_us is unsigned: a clock set back behind the last
\* request gives a huge difference.
Due(c) ==
    \/ Clock(c) < lastReq[c]
    \/ Clock(c) - lastReq[c] >= Period

\* on_tick while an exchange is running: only the flag, no new request.
TickRunning(c) ==
    /\ Due(c)
    /\ running[c]
    /\ timeout' = [timeout EXCEPT ![c] = TRUE]
    /\ UNCHANGED <<now, skew, isMaster, running, lastReq, syncer, adjusting, net, lost,
                   unheard, stamped, started>>

\* A request is sent, and the exchange runs.
StartExchange(c) ==
    /\ running' = [running EXCEPT ![c] = TRUE]
    /\ timeout' = [timeout EXCEPT ![c] = FALSE]
    /\ lastReq' = [lastReq EXCEPT ![c] = Clock(c)]
    /\ net' = net \cup {[type |-> "SYNC_REQ", car |-> c]}
    /\ started < MaxStarted
    /\ started' = started + 1
    /\ UNCHANGED <<now, skew, isMaster, syncer, adjusting, lost, unheard, stamped>>

\* Mutant: a new request although an exchange is running.
TickRequestAnyway(c) == Due(c) /\ StartExchange(c)

TickRequest(c) == Due(c) /\ ~running[c] /\ StartExchange(c)

-----------------------------------------------------------------------------
(* notify_by_port *)

\* Mutant: the answer carries no time.
HandleSyncReqNoTime(m) ==
    /\ m.type = "SYNC_REQ"
    /\ net' = (net \ {m}) \cup
                IF isMaster THEN {[type |-> "SYNC_RESP", car |-> m.car]} ELSE {}
    /\ unheard' = IF isMaster THEN unheard ELSE unheard \cup {m.car}
    /\ UNCHANGED <<now, skew, isMaster, running, timeout, lastReq, syncer, adjusting, lost, stamped, started>>

\* The master answers with its time t1.  A road-side unit that is off, not yet in
\* its group or not yet master does nothing.
HandleSyncReq(m) ==
    /\ m.type = "SYNC_REQ"
    /\ net' = (net \ {m}) \cup
                IF isMaster THEN {[type |-> "SYNC_RESP", car |-> m.car, t1 |-> now]} ELSE {}
    /\ unheard' = IF isMaster THEN unheard ELSE unheard \cup {m.car}
    /\ UNCHANGED <<now, skew, isMaster, running, timeout, lastReq, syncer, adjusting, lost, stamped, started>>

\* The car takes its time, one stamp for t2 and t3.
HandleSyncResp(m) ==
    /\ m.type = "SYNC_RESP"
    /\ net' = (net \ {m}) \cup
                {[type |-> "DELAY_REQ", car |-> m.car, t1 |-> m.t1,
                  t2 |-> Clock(m.car), t3 |-> Clock(m.car)]}
    /\ stamped' = [stamped EXCEPT ![m.car] = skew[m.car]]
    /\ UNCHANGED <<now, skew, isMaster, running, timeout, lastReq, syncer, adjusting, lost, unheard, started>>

\* Division of C++: towards zero.
Half(x) == IF x >= 0 THEN x \div 2 ELSE -((-x) \div 2)

\* Mutant: the way back is added with the wrong sign.
HandleDelayReqSwapped(m) ==
    /\ m.type = "DELAY_REQ"
    /\ net' = (net \ {m}) \cup
                {[type |-> "DELAY_RESP", car |-> m.car,
                  offset |-> Half((m.t2 - m.t1) + (now - m.t3)),
                  rtt |-> (now - m.t1) - (m.t3 - m.t2)]}
    /\ UNCHANGED <<now, skew, isMaster, running, timeout, lastReq, syncer, adjusting, lost,
                   unheard, stamped, started>>

\* The master takes t4 and computes offset and round trip time.  It has answered the
\* SYNC_REQ of this exchange, so it is still the master.
HandleDelayReq(m) ==
    /\ m.type = "DELAY_REQ"
    /\ net' = (net \ {m}) \cup
                {[type |-> "DELAY_RESP", car |-> m.car,
                  offset |-> Half((m.t2 - m.t1) + (m.t3 - now)),
                  rtt |-> (now - m.t1) - (m.t3 - m.t2)]}
    /\ UNCHANGED <<now, skew, isMaster, running, timeout, lastReq, syncer, adjusting, lost,
                   unheard, stamped, started>>

\* Mutant: set_running_ptp(false) is missing.
HandleDelayRespStillRunning(m) ==
    /\ m.type = "DELAY_RESP"
    /\ net' = net \ {m}
    /\ syncer' = [syncer EXCEPT ![m.car] = AddPtpSample(@, m.offset, m.rtt)]
    /\ adjusting' = [adjusting EXCEPT ![m.car] = TRUE]
    /\ UNCHANGED <<now, skew, isMaster, running, timeout, lastReq, lost, unheard, stamped, started>>

\* The car stores the sample and, whatever hasEnoughSamplesCI and the timeout say
\* (the test is "if(true)"), gives the average to adjtimex and ends the exchange.
HandleDelayResp(m) ==
    /\ m.type = "DELAY_RESP"
    /\ net' = net \ {m}
    /\ syncer' = [syncer EXCEPT ![m.car] = AddPtpSample(@, m.offset, m.rtt)]
    /\ adjusting' = [adjusting EXCEPT ![m.car] = TRUE]
    /\ running' = [running EXCEPT ![m.car] = FALSE]
    /\ stamped' = [stamped EXCEPT ![m.car] = 0]
    /\ UNCHANGED <<now, skew, isMaster, timeout, lastReq, lost, unheard, started>>

Lose(m) ==
    /\ lost < MaxLost
    /\ lost' = lost + 1
    /\ net' = net \ {m}
    /\ UNCHANGED <<now, skew, isMaster, running, timeout, lastReq, syncer, adjusting,
                   unheard, stamped, started>>

-----------------------------------------------------------------------------
OnTick(c) == TickRunning(c) \/ TickRequest(c)

AtMaster(m) == HandleSyncReq(m) \/ HandleDelayReq(m)

AtCar(m) == HandleSyncResp(m) \/ HandleDelayResp(m)

Next ==
    \/ Tick \/ SetMaster
    \/ \E c \in Car : Slew(c) \/ OnTick(c)
    \/ \E m \in net : AtMaster(m) \/ AtCar(m) \/ Lose(m)

Spec == Init /\ [][Next]_vars

\* The main threads of the cars, which call on_tick, run.
FairSpec == Spec /\ \A c \in Car : WF_vars(TickRequest(c))

\* Neither the receive thread of the master nor that of c is ever blocked for good
\* in the fan-out of a data frame: frames of c that are not lost are handled.
Unblocked(c) ==
    /\ WF_vars(\E m \in net : m.car = c /\ AtMaster(m))
    /\ WF_vars(\E m \in net : m.car = c /\ AtCar(m))

-----------------------------------------------------------------------------
(* Properties *)

\* Every field of the exchange has its type.
TypeOK ==
    /\ now \in Nat
    /\ skew \in [Car -> Int]
    /\ isMaster \in BOOLEAN
    /\ running \in [Car -> BOOLEAN]
    /\ timeout \in [Car -> BOOLEAN]
    /\ lastReq \in [Car -> Int]
    /\ syncer \in [Car -> Syncer]
    /\ adjusting \in [Car -> BOOLEAN]
    /\ net \in SUBSET Frame
    /\ lost \in Nat
    /\ unheard \in SUBSET Car
    /\ stamped \in [Car -> Int]
    /\ started \in Nat

\* A car never has two frames of clock exchanges in flight, and none after
\* set_running_ptp(false): the samples of two exchanges are never mixed.
OneExchange ==
    /\ \A m \in net : running[m.car]
    /\ \A m, k \in net : m.car = k.car => m = k

\* The offset that DELAY_RESP brings is the car's clock minus the master's (so that
\* the car would have to subtract it) as it was when the car took its time stamp,
\* up to half the measured round trip and one for the division.  This holds however
\* long the three frames were under way, and although adjtimex goes on slewing the
\* clock in the middle of an exchange.
SampleAccuracy ==
    \A m \in net : m.type = "DELAY_RESP" =>
        /\ 2 * (m.offset - stamped[m.car]) <= m.rtt + 1
        /\ 2 * (stamped[m.car] - m.offset) <= m.rtt + 1

\* A running exchange is carried by a frame, and set_running_ptp(false) comes with
\* the last of them: unless a frame was dropped, or a request of the car came when
\* the road-side unit was not yet the master of the group.
ExchangeCarried ==
    \A c \in Car : running[c] /\ lost = 0 /\ c \notin unheard => \E m \in net : m.car = c

\* c waits for an exchange none of whose frames is left.
Abandoned(c) == running[c] /\ \A m \in net : m.car # c

\* A car whose frame was dropped, or found no master, never synchronises again: no
\* tick, no timeout flag, no later frame and no master that comes up later restarts
\* its exchange.
AbandonedForGood == [][\A c \in Car : Abandoned(c) => Abandoned(c)']_vars

\* Where the receive threads of the car and of the master are not blocked for good,
\* an exchange that was started ends, unless a frame was lost or the request found
\* no master.
ExchangeEnds ==
    \A c \in Car :
        Unblocked(c) => (running[c] ~> (~running[c] \/ lost > 0 \/ c \in unheard))

\* The same whatever is lost: the next request can be sent, every 3 seconds.
ExchangeAlwaysEnds == \A c \in Car : Unblocked(c) => (running[c] ~> ~running[c])

\* Offset and round trip time of a sample enter and leave the two windows of
\* addOffsetMeasurement together, also when it erases old samples.
WindowsInStep ==
    \A c \in Car :
        /\ Len(syncer[c].rtts) = Len(syncer[c].offsets)
        /\ Len(syncer[c].rtts) <= MaxSamples
        /\ syncer[c].alg = NotDefined <=> syncer[c].rtts = <<>>

\* Where no sample of a window is negative and their sum fits an int, getAverageOffset
\* and getAverageRTT return the mean of the window, rounded down.
MeanOfNonNegative ==
    \A c \in Car : LET s == syncer[c] IN
        /\ s.offsets # <<>> /\ NonNegative(s.offsets) /\ FitsInt(s.offsets)
                => s.avgOffset = SumOf(s.offsets) \div Len(s.offsets)
        /\ s.rtts # <<>> /\ NonNegative(s.rtts) /\ FitsInt(s.rtts)
                => s.avgRtt = SumOf(s.rtts) \div Len(s.rtts)

\* average() is the mean of the samples: it lies between two of them.
AverageIsMean ==
    \A c \in Car : LET s == syncer[c] IN
        s.offsets # <<>> =>
            /\ \E i \in DOMAIN s.offsets : s.offsets[i] <= s.avgOffset
            /\ \E i \in DOMAIN s.offsets : s.avgOffset <= s.offsets[i]

Distance(x, y) == IF x <= y THEN y - x ELSE x - y

\* getSynchronizedTimeUs
SynchronizedTime(c) == Clock(c) + syncer[c].avgOffset

\* The average offset leads from the clock of the car to that of the master, as
\* getSynchronizedTimeUs and applySync use it: the synchronised time is no farther
\* from the master's clock than the car's own clock, up to the round trip.
SynchronizedTimeIsBetter ==
    \A c \in Car : syncer[c].offsets # <<>> =>
        Distance(SynchronizedTime(c), now) <= Distance(Clock(c), now) + syncer[c].avgRtt + 1
=============================================================================
