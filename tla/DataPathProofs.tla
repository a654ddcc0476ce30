---------------------------- MODULE DataPathProofs ----------------------------
(***************************************************************************)
(* Data stays in its group, and does not return, for any number of VMs,    *)
(* components and messages and whatever the media lose, repeat or delay.   *)
(***************************************************************************)
EXTENDS DataPath, TLAPS

Started(v) == stage[v] \in {"started", "peers"}

Released(v) == Started(v) \/ stage[v] = "released"

\* A frame on the segment carries the group its message was first sent under.
EthInGroup ==
    \A f \in eth : FirstGroup(f.msg) = f.group

\* Nothing is on a bus before components are forked; what is on it is of the
\* VM's group.
BusInGroup ==
    \A v \in VM : \A f \in bus[v] : Started(v) /\ FirstGroup(f.msg) = GroupOf[v]

\* The receive thread may hold data of another group only until GO.
RxInGroup ==
    \A v \in VM : rx[v] # None /\ Released(v) => FirstGroup(rx[v]) = GroupOf[v]

ReadyStarted == \A v \in VM, c \in Component : c \in ready[v] => Started(v)

\* Components address the gateway, with messages of their own.
ComponentFrames ==
    \A v \in VM : \A f \in bus[v] :
        f.from # Gateway => f.port = Gateway /\ f.msg.born = v

\* What a gateway holds or has fanned out was made elsewhere.
Foreign ==
    ~echo => \A v \in VM : /\ rx[v] # None => rx[v].born # v
                          /\ \A f \in bus[v] : f.from = Gateway => f.msg.born # v

IInv ==
    /\ TypeOK
    /\ EthInGroup /\ BusInGroup /\ RxInGroup /\ ReadyStarted
    /\ ComponentFrames /\ Foreign
    /\ ComponentsHearOwnGroup /\ NothingReturns

LEMMA InitIInv == Init => IInv
<1> SUFFICES ASSUME Init
             PROVE  IInv
  OBVIOUS
<1>1. TypeOK
  BY DEF Init, TypeOK, Stage, Node
<1>2. /\ \A v \in VM : bus[v] = {} /\ rx[v] = None /\ ready[v] = {}
      /\ \A v \in VM, c \in Component : queue[v][c] = {}
      /\ eth = {}
  BY DEF Init, Node
<1> QED
  BY <1>1, <1>2 DEF IInv, EthInGroup, BusInGroup, RxInGroup, ReadyStarted, ComponentFrames,
                    Foreign, ComponentsHearOwnGroup, NothingReturns

\* The boot of a gateway: only an announcement is sent, under group 0.
LEMMA MainIInv ==
    ASSUME IInv, NEW v \in VM, Main(v)
    PROVE  IInv'
<1> DEFINE m == [born |-> v, of |-> Gateway, body |-> "GROUP_INFO"]
           g == [src |-> v, group |-> 0, msg |-> m]
<1>0. m \in Message /\ FirstGroup(m) = 0
  BY DEF Message, Announcement, FirstGroup
<1>5. g \in EthFrame /\ g.msg = m /\ g.group = 0 /\ g.src = m.born
  BY <1>0 DEF EthFrame
<1>6. eth' = eth \/ eth' = eth \cup {g}
  BY DEF Main, InitializeCommunicator, SetCurrentGroup, HandleGo, Start, SetPeerPorts
<1> HIDE DEF m, g
<1>1. /\ UNCHANGED <<ready, sent, bus, rx, queue, echo>>
      /\ stage' \in [VM -> Stage]
      /\ \A w \in VM : Started(w) => Started(w)'
      /\ \A w \in VM : Released(w)' => Released(w) \/ rx[w] = None
  BY DEF IInv, TypeOK, Main, InitializeCommunicator, SetCurrentGroup, HandleGo, Start,
         SetPeerPorts, Advance, Stage, Started, Released
<1>2. TypeOK'
  BY <1>1, <1>5, <1>6 DEF IInv, TypeOK
<1>7. (EthInGroup /\ NothingReturns)'
  BY <1>0, <1>1, <1>5, <1>6 DEF IInv, EthInGroup, NothingReturns
<1>3. (ComponentFrames /\ Foreign /\ ComponentsHearOwnGroup)'
  BY <1>1 DEF IInv, ComponentFrames, Foreign, ComponentsHearOwnGroup
<1>4. (BusInGroup /\ RxInGroup /\ ReadyStarted)'
  BY <1>1 DEF IInv, BusInGroup, RxInGroup, ReadyStarted, Released
<1> QED  BY <1>2, <1>3, <1>4, <1>7 DEF IInv

LEMMA InitializeComponentIInv ==
    ASSUME IInv, NEW v \in VM, NEW c \in Component, InitializeComponent(v, c)
    PROVE  IInv'
<1>1. /\ UNCHANGED <<stage, sent, bus, eth, rx, queue, echo>>
      /\ Started(v)
      /\ ready' = [ready EXCEPT ![v] = @ \cup {c}]
  BY DEF InitializeComponent, Started
<1>2. TypeOK'
  BY <1>1 DEF IInv, TypeOK
<1>3. ReadyStarted'
  BY <1>1 DEF IInv, TypeOK, ReadyStarted, Started
<1> QED
  BY <1>1, <1>2, <1>3 DEF IInv, EthInGroup, BusInGroup, RxInGroup, ComponentFrames, Foreign,
                          ComponentsHearOwnGroup, NothingReturns, Started, Released

\* A message that a component of a started VM puts on the bus.
LEMMA SendLocalIInv ==
    ASSUME IInv, NEW v \in VM, NEW c \in Component, NEW body \in {"brake!", "ack"},
           Started(v), SendLocal(v, c, body)
    PROVE  /\ sent' \in [VM -> [Component -> Nat]]
           /\ bus' \in [VM -> SUBSET BusFrame]
           /\ \A w \in VM : \A f \in bus'[w] :
                 \/ f \in bus[w]
                 \/ w = v /\ f.from = c /\ f.port = Gateway /\ f.msg.born = v /\ f.msg.of = c
<1> DEFINE m == [born |-> v, of |-> c, id |-> sent[v][c], body |-> body]
           f == [port |-> Gateway, group |-> ComponentGroup(v, c), from |-> c, msg |-> m]
<1>1. sent[v][c] \in Nat
  BY DEF IInv, TypeOK
<1>2. m \in Message
  BY <1>1 DEF Message, Data
<1>3. ComponentGroup(v, c) \in Nat
  BY GroupAssumption DEF ComponentGroup
<1>4. f \in BusFrame
  BY <1>2, <1>3 DEF BusFrame, Node
<1>5. bus' = [bus EXCEPT ![v] = @ \cup {f}]
  BY DEF SendLocal
<1>6. f.from = c /\ f.port = Gateway /\ f.msg.born = v /\ f.msg.of = c
  OBVIOUS
<1>7. sent' \in [VM -> [Component -> Nat]]
  BY <1>1 DEF IInv, TypeOK, SendLocal
<1> HIDE DEF f
<1> QED  BY <1>4, <1>5, <1>6, <1>7 DEF IInv, TypeOK

LEMMA TickBrakeIInv ==
    ASSUME IInv, NEW v \in VM, NEW c \in Component, TickBrake(v, c)
    PROVE  IInv'
<1>1. Started(v) /\ SendLocal(v, c, "brake!") /\ UNCHANGED <<stage, ready, eth, rx, queue, echo>>
  BY DEF IInv, ReadyStarted, TickBrake
<1>2. /\ sent' \in [VM -> [Component -> Nat]]
      /\ bus' \in [VM -> SUBSET BusFrame]
      /\ \A w \in VM : \A f \in bus'[w] :
            \/ f \in bus[w]
            \/ w = v /\ f.from = c /\ f.port = Gateway /\ f.msg.born = v /\ f.msg.of = c
  BY <1>1, SendLocalIInv
<1>3. c # Gateway
  BY PartsAssumption
<1>4. TypeOK'
  BY <1>1, <1>2 DEF IInv, TypeOK
<1>5. (BusInGroup /\ ComponentFrames /\ Foreign)'
  BY <1>1, <1>2, <1>3 DEF IInv, BusInGroup, ComponentFrames, Foreign, Started, FirstGroup
<1> QED
  BY <1>1, <1>4, <1>5 DEF IInv, EthInGroup, RxInGroup, ReadyStarted,
                          ComponentsHearOwnGroup, NothingReturns, Started, Released

LEMMA ComponentReceiveIInv ==
    ASSUME IInv, NEW v \in VM, NEW c \in Component, NEW f \in bus[v], ComponentReceive(v, c, f)
    PROVE  IInv'
<1>1. /\ Started(v) /\ UNCHANGED <<stage, ready, eth, rx, echo>>
      /\ f.port = c /\ queue' = [queue EXCEPT ![v][c] = @ \cup {f.msg}]
  BY DEF ComponentReceive, ComponentAccepts, Started
<1>2. f \in BusFrame /\ f.msg \in Message /\ f.from \in Node
  BY DEF IInv, TypeOK, BusFrame
<1>3. c # Gateway /\ c \in Node
  BY PartsAssumption DEF Node
<1>4. f.from = Gateway
  BY <1>1, <1>3 DEF IInv, ComponentFrames
<1>5. /\ sent' \in [VM -> [Component -> Nat]]
      /\ bus' \in [VM -> SUBSET BusFrame]
      /\ \A w \in VM : \A g \in bus'[w] :
            \/ g \in bus[w]
            \/ w = v /\ g.from = c /\ g.port = Gateway /\ g.msg.born = v /\ g.msg.of = c
  <2>1. CASE SendLocal(v, c, "ack")
    BY <1>1, <2>1, SendLocalIInv
  <2>2. CASE UNCHANGED <<sent, bus>>
    BY <2>2 DEF IInv, TypeOK
  <2> QED  BY <2>1, <2>2 DEF ComponentReceive
<1>6. /\ queue' \in [VM -> [Component -> SUBSET Message]]
      /\ \A w \in VM, k \in Component : \A q \in queue'[w][k] :
            q \in queue[w][k] \/ (w = v /\ k = c /\ q = f.msg)
  BY <1>1, <1>2 DEF IInv, TypeOK
<1>7. TypeOK'
  BY <1>1, <1>5, <1>6 DEF IInv, TypeOK
<1>8. (BusInGroup /\ ComponentFrames /\ Foreign)'
  BY <1>1, <1>3, <1>5 DEF IInv, BusInGroup, ComponentFrames, Foreign, Started, FirstGroup
<1>9. ComponentsHearOwnGroup'
  BY <1>6 DEF IInv, BusInGroup, ComponentsHearOwnGroup
<1>10. NothingReturns'
  BY <1>1, <1>4, <1>6 DEF IInv, Foreign, NothingReturns
<1> QED
  BY <1>1, <1>7, <1>8, <1>9, <1>10 DEF IInv, EthInGroup, RxInGroup, ReadyStarted, Started, Released

LEMMA GatewayForwardIInv ==
    ASSUME IInv, NEW v \in VM, NEW f \in bus[v], GatewayForward(v, f)
    PROVE  IInv'
<1> DEFINE g == [src |-> v, group |-> CurrentGroup(v), msg |-> f.msg]
<1>1. /\ UNCHANGED <<stage, ready, sent, bus, rx, queue>>
      /\ eth' = eth \cup {g}
      /\ echo' = (echo \/ f.from = Gateway)
  BY DEF GatewayForward
<1>2. f.msg \in Message /\ f.from \in Node /\ Gateway \in Node
  BY DEF IInv, TypeOK, BusFrame, Node
<1>3. Started(v) /\ FirstGroup(f.msg) = GroupOf[v] /\ CurrentGroup(v) = GroupOf[v]
  BY DEF IInv, BusInGroup, Started, CurrentGroup
<1>4. GroupOf[v] \in Nat
  BY GroupAssumption
<1>5. g \in EthFrame /\ g.src = v /\ g.group = GroupOf[v] /\ g.msg = f.msg
  BY <1>2, <1>3, <1>4 DEF EthFrame
<1> HIDE DEF g
<1>8. TypeOK'
  BY <1>1, <1>5 DEF IInv, TypeOK
<1>9. EthInGroup'
  BY <1>1, <1>3, <1>5 DEF IInv, EthInGroup
<1>10. ~echo' => ~echo /\ f.msg.born = v
  BY <1>1 DEF IInv, TypeOK, ComponentFrames
<1>11. NothingReturns'
  BY <1>1, <1>5, <1>10 DEF IInv, NothingReturns
<1>12. ComponentsHearOwnGroup'
  BY <1>1 DEF IInv, ComponentsHearOwnGroup
<1>13. Foreign'
  BY <1>1, <1>10 DEF IInv, Foreign
<1> QED
  BY <1>1, <1>8, <1>9, <1>11, <1>12, <1>13
     DEF IInv, BusInGroup, RxInGroup, ReadyStarted, ComponentFrames, Started, Released

LEMMA GatewayTakeIInv ==
    ASSUME IInv, NEW v \in VM, NEW f \in eth, GatewayTake(v, f)
    PROVE  IInv'
<1>1. /\ UNCHANGED <<stage, ready, sent, bus, eth, queue, echo>>
      /\ rx' = [rx EXCEPT ![v] = f.msg]
      /\ f.src # v /\ f.group = CurrentGroup(v)
  BY DEF GatewayTake, GatewayAccepts
<1>2. f.msg \in Message
  BY DEF IInv, TypeOK, EthFrame
<1>5. TypeOK'
  BY <1>1, <1>2 DEF IInv, TypeOK
<1>6. \A w \in VM : rx'[w] = IF w = v THEN f.msg ELSE rx[w]
  BY <1>1 DEF IInv, TypeOK
<1>7. Released(v) => FirstGroup(f.msg) = GroupOf[v]
  BY <1>1 DEF IInv, EthInGroup, Started, Released, CurrentGroup
<1>8. RxInGroup'
  BY <1>1, <1>6, <1>7 DEF IInv, RxInGroup, Started, Released
<1>9. Foreign'
  BY <1>1, <1>6 DEF IInv, Foreign, NothingReturns
<1>10. (ComponentsHearOwnGroup /\ NothingReturns)'
  BY <1>1 DEF IInv, ComponentsHearOwnGroup, NothingReturns
<1> QED
  BY <1>1, <1>5, <1>8, <1>9, <1>10
     DEF IInv, EthInGroup, BusInGroup, ReadyStarted, ComponentFrames, Started, Released

LEMMA FanoutIInv ==
    ASSUME IInv, NEW v \in VM, NEW ports \in PeerPorts(v), Fanout(v, ports)
    PROVE  IInv'
<1> DEFINE F == {[port |-> p, group |-> CurrentGroup(v), from |-> Gateway, msg |-> rx[v]] :
                    p \in ports}
<1>1. /\ UNCHANGED <<stage, ready, sent, eth, queue, echo>>
      /\ rx[v] # None
      /\ bus' = [bus EXCEPT ![v] = @ \cup F]
      /\ rx' = [rx EXCEPT ![v] = None]
  BY DEF Fanout
<1>2. ports \subseteq Component /\ (ports # {} => Started(v))
  BY DEF PeerPorts, Started
<1>3. rx[v] \in Message
  BY <1>1 DEF IInv, TypeOK
<1>4. CurrentGroup(v) \in Nat
  BY GroupAssumption DEF CurrentGroup
<1>5. F \subseteq BusFrame
  BY <1>2, <1>3, <1>4 DEF BusFrame, Node
<1>6. \A f \in F : f.from = Gateway /\ f.msg = rx[v] /\ Started(v)
  BY <1>2
<1> HIDE DEF F
<1>7. TypeOK'
  BY <1>1, <1>5 DEF IInv, TypeOK
<1>8. \A w \in VM : /\ \A f \in bus'[w] : f \in bus[w] \/ (w = v /\ f \in F)
                    /\ rx'[w] = IF w = v THEN None ELSE rx[w]
  BY <1>1 DEF IInv, TypeOK
<1>9. BusInGroup'
  BY <1>1, <1>6, <1>8 DEF IInv, BusInGroup, RxInGroup, Started, Released
<1>10. (RxInGroup /\ ComponentFrames)'
  BY <1>1, <1>6, <1>8 DEF IInv, RxInGroup, ComponentFrames, Started, Released
<1>11. Foreign'
  BY <1>1, <1>6, <1>8 DEF IInv, Foreign
<1> QED
  BY <1>1, <1>7, <1>9, <1>10, <1>11
     DEF IInv, EthInGroup, ReadyStarted, ComponentsHearOwnGroup, NothingReturns, Started, Released

LEMMA NextIInv == IInv /\ [Next]_vars => IInv'
<1> SUFFICES ASSUME IInv, [Next]_vars
             PROVE  IInv'
  OBVIOUS
<1>1. CASE UNCHANGED vars
  BY <1>1 DEF vars, IInv, TypeOK, EthInGroup, BusInGroup, RxInGroup, ReadyStarted, Started, Released,
              ComponentFrames, Foreign, ComponentsHearOwnGroup, NothingReturns
<1>2. CASE Next
  BY <1>2, MainIInv, InitializeComponentIInv, TickBrakeIInv, ComponentReceiveIInv,
     GatewayForwardIInv, GatewayTakeIInv, FanoutIInv DEF Next, OnReceive
<1> QED  BY <1>1, <1>2

\* The inductive invariant holds in every reachable state of the data path.
THEOREM Invariance == Spec => []IInv
BY InitIInv, NextIInv, PTL DEF Spec

\* No component is handed data of another group: the group tests of notify_by_port,
\* with GO handled by the receive thread, keep the groups apart during boot too.
THEOREM GroupsApart == Spec => []ComponentsHearOwnGroup
<1>1. IInv => ComponentsHearOwnGroup  BY DEF IInv
<1> QED  BY <1>1, Invariance, PTL

\* Without an echo on a bus, gateways forward only what their own components sent,
\* and forward_message and fanout_message bring no message back to its maker.
THEOREM NoReturn == Spec => []NothingReturns
<1>1. IInv => NothingReturns  BY DEF IInv
<1> QED  BY <1>1, Invariance, PTL

-----------------------------------------------------------------------------
(* Answers *)

\* Caused, with the queues as they are in q.
CausedIn(q, m) == m.body = "ack" => \E k \in q[m.born][m.of] : k.body = "brake!"

\* The same of every message that is still under way.
AllCaused ==
    /\ \A v \in VM : \A f \in bus[v] : Caused(f.msg)
    /\ \A f \in eth : Caused(f.msg)
    /\ \A v \in VM : rx[v] # None => Caused(rx[v])
    /\ AcksAreCaused

\* Nothing is taken out of a queue, so what was caused stays caused.
LEMMA CausedStays ==
    ASSUME \A v \in VM, c \in Component : queue[v][c] \subseteq queue'[v][c],
           NEW m \in Message, Caused(m)
    PROVE  CausedIn(queue', m)
<1> SUFFICES ASSUME m.body = "ack"
             PROVE  \E k \in queue'[m.born][m.of] : k.body = "brake!"
  BY DEF CausedIn
<1>1. m.born \in VM /\ m.of \in Component
  BY DEF Message, Data, Announcement
<1> QED  BY <1>1 DEF Caused

\* A step that brings only messages known before, or caused, into the media.
LEMMA CausedStep ==
    ASSUME IInv, AllCaused, TypeOK',
           \A v \in VM, c \in Component : queue[v][c] \subseteq queue'[v][c],
           \A v \in VM : \A f \in bus'[v] :
               f \in bus[v] \/ (rx[v] # None /\ f.msg = rx[v]) \/ CausedIn(queue', f.msg),
           \A f \in eth' : f \in eth \/ (\E v \in VM : \E g \in bus[v] : f.msg = g.msg)
                                      \/ CausedIn(queue', f.msg),
           \A v \in VM : rx'[v] \in {rx[v], None} \/ (\E f \in eth : rx'[v] = f.msg),
           \A v \in VM, c \in Component : \A m \in queue'[v][c] :
               m \in queue[v][c] \/ (\E f \in bus[v] : m = f.msg)
    PROVE  AllCaused'
<1>1. /\ \A v \in VM : \A f \in bus[v] : f.msg \in Message
      /\ \A f \in eth : f.msg \in Message
      /\ \A v \in VM : rx[v] # None => rx[v] \in Message
      /\ \A v \in VM, c \in Component : queue[v][c] \subseteq Message
  BY DEF IInv, TypeOK, BusFrame, EthFrame
<1>2. /\ \A v \in VM : \A f \in bus[v] : CausedIn(queue', f.msg)
      /\ \A f \in eth : CausedIn(queue', f.msg)
      /\ \A v \in VM : rx[v] # None => CausedIn(queue', rx[v])
      /\ \A v \in VM, c \in Component : \A m \in queue[v][c] : CausedIn(queue', m)
  BY <1>1, CausedStays DEF AllCaused, AcksAreCaused
<1>3. \A v \in VM : \A f \in bus'[v] : CausedIn(queue', f.msg)
  BY <1>2
<1>4. \A f \in eth' : CausedIn(queue', f.msg)
  BY <1>2
<1>5. \A v \in VM : rx'[v] # None => CausedIn(queue', rx'[v])
  BY <1>2
<1>6. \A v \in VM, c \in Component : \A m \in queue'[v][c] : CausedIn(queue', m)
  BY <1>2
<1> QED  BY <1>3, <1>4, <1>5, <1>6 DEF AllCaused, AcksAreCaused, Caused, CausedIn

\* What a component sends is no answer, or it holds the command.
LEMMA SendLocalCaused ==
    ASSUME IInv, NEW v \in VM, NEW c \in Component, NEW body, SendLocal(v, c, body),
           body = "ack" => \E k \in queue'[v][c] : k.body = "brake!"
    PROVE  \A w \in VM : \A f \in bus'[w] : f \in bus[w] \/ CausedIn(queue', f.msg)
<1> DEFINE m == [born |-> v, of |-> c, id |-> sent[v][c], body |-> body]
           f == [port |-> Gateway, group |-> ComponentGroup(v, c), from |-> c, msg |-> m]
<1>1. bus' = [bus EXCEPT ![v] = @ \cup {f}] /\ f.msg = m
  BY DEF SendLocal
<1>2. m.born = v /\ m.of = c /\ m.body = body
  OBVIOUS
<1> HIDE DEF m
<1>3. m.body = "ack" => \E k \in queue'[m.born][m.of] : k.body = "brake!"
  BY <1>2
<1>4. CausedIn(queue', m)
  BY <1>3 DEF CausedIn
<1> HIDE DEF f
<1> QED  BY <1>1, <1>4 DEF IInv, TypeOK

LEMMA NextCaused == IInv /\ IInv' /\ AllCaused /\ [Next]_vars => AllCaused'
<1> SUFFICES ASSUME IInv, TypeOK', AllCaused, [Next]_vars
             PROVE  AllCaused'
  BY DEF IInv
<1>1. CASE UNCHANGED vars
  BY <1>1 DEF vars, AllCaused, AcksAreCaused, Caused
<1>2. ASSUME NEW v \in VM, Main(v)
      PROVE  AllCaused'
  <2> DEFINE m == [born |-> v, of |-> Gateway, body |-> "GROUP_INFO"]
             g == [src |-> v, group |-> 0, msg |-> m]
  <2>1. CausedIn(queue', m)
    BY DEF CausedIn
  <2>2. g.msg = m
    OBVIOUS
  <2>3. (eth' = eth \/ eth' = eth \cup {g}) /\ UNCHANGED <<bus, rx, queue>>
    BY <1>2 DEF Main, InitializeCommunicator, SetCurrentGroup, HandleGo, Start, SetPeerPorts
  <2> HIDE DEF m, g
  <2> QED  BY <2>1, <2>2, <2>3, CausedStep
<1>3. ASSUME NEW v \in VM, NEW c \in Component, InitializeComponent(v, c)
      PROVE  AllCaused'
  BY <1>3, CausedStep DEF InitializeComponent
<1>4. ASSUME NEW v \in VM, NEW c \in Component, TickBrake(v, c)
      PROVE  AllCaused'
  <2>1. SendLocal(v, c, "brake!") /\ UNCHANGED <<eth, rx, queue>>
    BY <1>4 DEF TickBrake
  <2>2. \A w \in VM : \A f \in bus'[w] : f \in bus[w] \/ CausedIn(queue', f.msg)
    BY <2>1, SendLocalCaused
  <2> QED  BY <2>1, <2>2, CausedStep
<1>5. ASSUME NEW v \in VM, NEW c \in Component, NEW f \in bus[v], ComponentReceive(v, c, f)
      PROVE  AllCaused'
  <2>1. UNCHANGED <<eth, rx>> /\ queue' = [queue EXCEPT ![v][c] = @ \cup {f.msg}]
    BY <1>5 DEF ComponentReceive
  <2>2. /\ f.msg \in queue'[v][c]
        /\ \A w \in VM, d \in Component : queue[w][d] \subseteq queue'[w][d]
        /\ \A w \in VM, d \in Component : \A q \in queue'[w][d] :
              q \in queue[w][d] \/ (w = v /\ q = f.msg)
    BY <2>1 DEF IInv, TypeOK
  <2>3. CASE f.msg.body = "brake!" /\ SendLocal(v, c, "ack")
    <3>1. \A w \in VM : \A g \in bus'[w] : g \in bus[w] \/ CausedIn(queue', g.msg)
      BY <2>2, <2>3, SendLocalCaused
    <3> QED  BY <2>1, <2>2, <3>1, CausedStep
  <2>4. CASE UNCHANGED bus
    BY <2>1, <2>2, <2>4, CausedStep
  <2> QED  BY <1>5, <2>3, <2>4 DEF ComponentReceive
<1>6. ASSUME NEW v \in VM, NEW f \in bus[v], GatewayForward(v, f)
      PROVE  AllCaused'
  <2> DEFINE g == [src |-> v, group |-> CurrentGroup(v), msg |-> f.msg]
  <2>1. eth' = eth \cup {g} /\ g.msg = f.msg /\ UNCHANGED <<bus, rx, queue>>
    BY <1>6 DEF GatewayForward
  <2> HIDE DEF g
  <2> QED  BY <2>1, CausedStep
<1>7. ASSUME NEW v \in VM, NEW f \in eth, GatewayTake(v, f)
      PROVE  AllCaused'
  <2>1. UNCHANGED <<bus, eth, queue>> /\ \A w \in VM : rx'[w] \in {rx[w], f.msg}
    BY <1>7 DEF GatewayTake, IInv, TypeOK
  <2> QED  BY <2>1, CausedStep
<1>8. ASSUME NEW v \in VM, NEW ports \in PeerPorts(v), Fanout(v, ports)
      PROVE  AllCaused'
  <2> DEFINE F == {[port |-> p, group |-> CurrentGroup(v), from |-> Gateway, msg |-> rx[v]] :
                      p \in ports}
  <2>1. /\ UNCHANGED <<eth, queue>> /\ rx[v] # None
        /\ bus' = [bus EXCEPT ![v] = @ \cup F]
        /\ \A f \in F : f.msg = rx[v]
        /\ rx' = [rx EXCEPT ![v] = None]
    BY <1>8 DEF Fanout
  <2> HIDE DEF F
  <2>2. /\ \A w \in VM : \A f \in bus'[w] : f \in bus[w] \/ (w = v /\ f \in F)
        /\ \A w \in VM : rx'[w] \in {rx[w], None}
    BY <2>1 DEF IInv, TypeOK
  <2> QED  BY <2>1, <2>2, CausedStep
<1> QED  BY <1>1, <1>2, <1>3, <1>4, <1>5, <1>6, <1>7, <1>8 DEF Next, OnReceive

\* An acknowledgement that on_receive hands to a component goes back to a brake
\* command its maker was handed, whatever the media repeat, reorder or lose.
THEOREM AnswersCaused == Spec => []AcksAreCaused
<1>1. Init => AllCaused
  BY DEF Init, AllCaused, AcksAreCaused
<1>2. Spec => []AllCaused
  BY <1>1, NextCaused, Invariance, PTL DEF Spec
<1>3. AllCaused => AcksAreCaused
  BY DEF AllCaused
<1> QED  BY <1>2, <1>3, PTL
=============================================================================
