--------------------------- MODULE StartSyncProofs ---------------------------
(* Proofs about the READY/GO barrier, for any set of VMs and of groups.       *)
EXTENDS StartSync, FiniteSetTheorems, TLAPS

-----------------------------------------------------------------------------
(* The inductive invariant *)

\* What READY and GO say is true, and stays true.  A GO is only to be trusted when
\* no VM of its group was misled.
FramesTellTruth ==
    /\ \A u \in announced : Enabled(u)
    /\ \A v \in VM : \A u \in inbox[v] : Sure(u) => AllCarsReady(u)

\* The frame in the hands of a receive thread passed the test of its group with the
\* group of the VM or with the initial one, 0.
HandsTellTruth ==
    \A v \in VM :
        /\ rx[v] = "counted" => SyncTotal(v) = TotalSyncVms
        /\ rx[v] = "go" => hand[v] # {}
        /\ \A u \in hand[v] :
              /\ rx[v] = "ready" => u \in announced
              /\ rx[v] \in {"go", "foreign"} /\ Sure(u) => AllCarsReady(u)
              /\ rx[v] \in {"ready", "go"} => GroupOf[u] \in {0, GroupOf[v]}

\* _sync_ready_nodes holds only cars of the own group that are ready.
CountedAreReady ==
    \A v \in VM : Sure(v) => \A u \in ready[v] : u \in Crew(v) /\ Enabled(u)

IInv == TypeOK /\ FramesTellTruth /\ HandsTellTruth /\ CountedAreReady /\ NoCarStartsEarly

\* Counting total_sync_vms ready cars of the own group means counting them all.
LEMMA FullCount ==
    ASSUME NEW v \in VM, NEW S \in SUBSET Crew(v), Cardinality(S) = TotalSyncVms
    PROVE  S = Crew(v)
<1>1. Cardinality(Crew(v)) = TotalSyncVms
  BY TotalAssumption DEF Crew, SameGroup
<1>2. IsFiniteSet(Crew(v))
  BY VMAssumption, FS_Subset DEF Crew, Car
<1>3. QED
  BY <1>1, <1>2, FS_Subset

\* VMs of one group are misled together.
LEMMA SureTogether ==
    ASSUME NEW v \in VM, NEW w \in VM, SameGroup(v, w)
    PROVE  /\ Sure(v) <=> Sure(w)
           /\ AllCarsReady(v) <=> AllCarsReady(w)
BY DEF Sure, SameGroup, AllCarsReady, Crew

LEMMA InitIInv == Init => IInv
<1> SUFFICES ASSUME Init PROVE IInv
  OBVIOUS
<1> PICK d \in Deployment :
        /\ on = d.on
        /\ stage = [v \in VM |-> IF v \in d.up THEN "waiting" ELSE "off"]
        /\ ready = [v \in VM |-> {v} \cap d.up \cap Car]
  BY DEF Init
<1>1. d.on \in SUBSET VM
  BY VMAssumption
<1>2. TypeOK
  BY <1>1 DEF Init, TypeOK, Stage, Rx, Car
<1>3. CountedAreReady
  BY DEF CountedAreReady, Crew, SameGroup, Enabled
<1>4. QED
  BY <1>2, <1>3 DEF Init, IInv, FramesTellTruth, HandsTellTruth, NoCarStartsEarly, Car

\* A step that takes no readiness back and keeps frames, counts and releases, or
\* drops some of them, keeps the invariant.
LEMMA QuietStep ==
    ASSUME IInv, TypeOK',
           \A c \in Car : Enabled(c) => Enabled(c)',
           misled \subseteq misled',
           announced' = announced,
           \A v \in VM : inbox'[v] \subseteq inbox[v] /\ ready'[v] \subseteq ready[v],
           \A v \in VM : rx'[v] = "counted" => SyncTotal(v)' = TotalSyncVms,
           \A v \in VM : (hand'[v] = {} /\ rx'[v] = "idle") \/ (hand'[v] = hand[v] /\ rx'[v] = rx[v]),
           \A c \in Car : done'[c] => done[c]
    PROVE  IInv'
<1>1. \A v \in VM : (Sure(v)' => Sure(v)) /\ (AllCarsReady(v) => AllCarsReady(v)')
  BY DEF Sure, AllCarsReady, Crew, SameGroup
<1>2. FramesTellTruth'
  BY <1>1 DEF IInv, TypeOK, FramesTellTruth
<1>3. HandsTellTruth'
  BY <1>1 DEF IInv, TypeOK, HandsTellTruth
<1>4. CountedAreReady'
  BY <1>1 DEF IInv, CountedAreReady, Crew, SameGroup
<1>5. NoCarStartsEarly'
  BY <1>1 DEF IInv, NoCarStartsEarly, Car
<1>6. QED
  BY <1>2, <1>3, <1>4, <1>5 DEF IInv

\* The main thread moves on, never back.
LEMMA MainMoves ==
    ASSUME IInv, NEW v \in VM, Main(v)
    PROVE  /\ TypeOK'
           /\ UNCHANGED <<on, goSent, goReceived, done, announced, inbox, rx, hand, lost, misled>>
           /\ \A c \in Car : Enabled(c) => Enabled(c)'
           /\ \A w \in VM : SyncTotal(w) = TotalSyncVms => SyncTotal(w)' = TotalSyncVms
           /\ EnableReady(v) \/ \A w \in VM : ready'[w] \subseteq ready[w]
<1>1. UNCHANGED <<on, goSent, goReceived, done, announced, inbox, rx, hand, lost, misled>>
  BY DEF Main, InitializeCommunicator, SetCurrentGroup, SetOnSyncDone, EnableTotal,
     EnableClear, EnableCallback, EnableReady, Advance
<1>2. TypeOK'
  <2>1. stage' \in [VM -> Stage]
    BY DEF Main, InitializeCommunicator, SetCurrentGroup, SetOnSyncDone, EnableTotal,
       EnableClear, EnableCallback, EnableReady, Advance, IInv, TypeOK, Stage
  <2>2. ready' \in [VM -> SUBSET VM]
    BY DEF Main, InitializeCommunicator, SetCurrentGroup, SetOnSyncDone, EnableTotal,
       EnableClear, EnableCallback, EnableReady, IInv, TypeOK
  <2>3. QED
    BY <1>1, <2>1, <2>2 DEF IInv, TypeOK
<1>3. \A c \in Car : Enabled(c) => Enabled(c)'
  BY DEF Main, InitializeCommunicator, SetCurrentGroup, SetOnSyncDone, EnableTotal,
     EnableClear, EnableCallback, EnableReady, Advance, IInv, TypeOK, Enabled, Car
<1>4. \A w \in VM : SyncTotal(w) = TotalSyncVms => SyncTotal(w)' = TotalSyncVms
  BY TotalAssumption
  DEF Main, InitializeCommunicator, SetCurrentGroup, SetOnSyncDone, EnableTotal,
     EnableClear, EnableCallback, EnableReady, Advance, IInv, TypeOK, SyncTotal
<1>5. EnableReady(v) \/ \A w \in VM : ready'[w] \subseteq ready[w]
  BY DEF Main, InitializeCommunicator, SetCurrentGroup, SetOnSyncDone, EnableTotal,
     EnableClear, EnableCallback, IInv, TypeOK
<1>6. QED
  BY <1>1, <1>2, <1>3, <1>4, <1>5

\* Only EnableReady counts somebody, the car itself, which is ready from then on.
LEMMA MainIInv ==
    ASSUME IInv, NEW v \in VM, Main(v)
    PROVE  IInv'
<1>1. CASE \A w \in VM : ready'[w] \subseteq ready[w]
  BY <1>1, MainMoves, QuietStep DEF IInv, HandsTellTruth
<1>2. CASE EnableReady(v)
  <2>1. \A w \in VM : (Sure(w)' => Sure(w)) /\ (AllCarsReady(w) => AllCarsReady(w)')
    BY MainMoves DEF Sure, AllCarsReady, Crew, SameGroup
  <2>2. FramesTellTruth' /\ HandsTellTruth' /\ NoCarStartsEarly'
    BY <2>1, MainMoves
    DEF IInv, TypeOK, FramesTellTruth, HandsTellTruth, NoCarStartsEarly, Car
  <2>3. Enabled(v)'
    BY <1>2 DEF EnableReady, Advance, Enabled, IInv, TypeOK
  <2>4. \A w \in VM : \A u \in ready'[w] : u \in ready[w] \/ (w = v /\ u = v /\ v \in Car)
    BY <1>2 DEF EnableReady, IInv, TypeOK, Car
  <2>5. CountedAreReady'
    BY <2>1, <2>3, <2>4, MainMoves DEF IInv, CountedAreReady, Crew, SameGroup
  <2>6. QED
    BY <2>2, <2>5, MainMoves DEF IInv
<1>3. QED
  BY <1>1, <1>2, MainMoves

\* A car repeats READY only after it has marked itself ready.
LEMMA SendReadyIInv ==
    ASSUME IInv, NEW v \in VM, SendReady(v)
    PROVE  IInv'
<1>1. TypeOK'
  BY DEF SendReady, IInv, TypeOK
<1>2. FramesTellTruth'
  BY DEF SendReady, IInv, FramesTellTruth, Enabled, Sure, AllCarsReady
<1>3. HandsTellTruth'
  BY DEF SendReady, IInv, HandsTellTruth, SyncTotal, Sure, AllCarsReady, Enabled
<1>4. CountedAreReady' /\ NoCarStartsEarly'
  BY DEF SendReady, IInv, CountedAreReady, NoCarStartsEarly, Sure, AllCarsReady, Enabled
<1>5. QED
  BY <1>1, <1>2, <1>3, <1>4 DEF IInv

LEMMA LoseIInv ==
    ASSUME IInv, NEW v \in VM, NEW u \in VM, Lose(v, u)
    PROVE  IInv'
<1>1. TypeOK'
  BY DEF Lose, Taken, IInv, TypeOK
<1>2. QED
  BY <1>1, QuietStep DEF Lose, Taken, IInv, TypeOK, Enabled, HandsTellTruth, SyncTotal

\* A VM that has counted total_sync_vms cars has counted every car of its group.
LEMMA CountComplete ==
    ASSUME NEW v \in VM, NEW S, Cardinality(S) = TotalSyncVms,
           \A u \in S : u \in Crew(v) /\ Enabled(u)
    PROVE  AllCarsReady(v)
<1>1. S \in SUBSET Crew(v)
  OBVIOUS
<1>2. S = Crew(v)
  BY <1>1, FullCount
<1>3. QED
  BY <1>2 DEF AllCarsReady

\* GO is broadcast only by a VM whose count is full, and then it is true.
LEMMA SendGoTruth ==
    ASSUME IInv, NEW v \in VM, NEW S, SendGo(v, S), SyncTotal(v) = TotalSyncVms,
           Sure(v) => \A u \in S : u \in Crew(v) /\ Enabled(u)
    PROVE  /\ goSent' \in [VM -> BOOLEAN] /\ inbox' \in [VM -> SUBSET VM]
           /\ \A w \in VM : inbox[w] \subseteq inbox'[w]
           /\ \A w \in VM \ {v} : goSent'[w] = goSent[w]
           /\ \A w \in VM : \A u \in inbox'[w] : u \in inbox[w] \/ (u = v /\ (Sure(v) => AllCarsReady(v)))
           /\ goSent'[v] /\ ~goSent[v] /\ Sure(v) =>
                 AllCarsReady(v) /\ \A w \in Crew(v) \ {v} : v \in inbox'[w]
<1> DEFINE go == ~goSent[v] /\ Cardinality(S) = SyncTotal(v)
<1>1. /\ goSent' = [goSent EXCEPT ![v] = @ \/ go]
      /\ inbox' = IF go THEN Broadcast(v) ELSE inbox
  BY DEF SendGo
<1>2. go /\ Sure(v) => AllCarsReady(v)
  BY CountComplete
<1>3. goSent' \in [VM -> BOOLEAN]
  BY <1>1 DEF IInv, TypeOK
<1> HIDE DEF go
<1>4. inbox' \in [VM -> SUBSET VM]
  BY <1>1 DEF Broadcast, IInv, TypeOK
<1>5. \A w \in VM : \A u \in inbox'[w] : u \in inbox[w] \/ (go /\ u = v)
  BY <1>1 DEF Broadcast, IInv, TypeOK
<1>6. \A w \in VM : inbox[w] \subseteq inbox'[w]
  BY <1>1 DEF Broadcast, IInv, TypeOK
<1>7. goSent'[v] /\ ~goSent[v] => go
  BY <1>1 DEF IInv, TypeOK
<1>8. ASSUME go, Sure(v), NEW w \in Crew(v) \ {v}
      PROVE  v \in inbox'[w]
  <2>1. w \in VM /\ Enabled(w) /\ SameGroup(w, v)
    BY <1>2, <1>8 DEF AllCarsReady, Crew, Car
  <2>2. stage[w] # "off" /\ ~Ignores(w, v)
    BY <2>1 DEF Enabled, Ignores, IsInternal, CurrentGroup, SameGroup
  <2>3. QED
    BY <1>1, <1>8, <2>1, <2>2 DEF Broadcast
<1>9. \A w \in VM \ {v} : goSent'[w] = goSent[w]
  BY <1>1 DEF IInv, TypeOK
<1>10. QED
  BY <1>2, <1>3, <1>4, <1>5, <1>6, <1>7, <1>8, <1>9

\* A step that counts, and broadcasts GO when the count is full.
LEMMA CountStep ==
    ASSUME IInv, NEW v \in VM, NEW S \in SUBSET VM, SendGo(v, S), SyncTotal(v) = TotalSyncVms,
           Sure(v) => \A u \in S : u \in Crew(v) /\ Enabled(u),
           ready' = [ready EXCEPT ![v] = S],
           rx' = rx \/ rx' = [rx EXCEPT ![v] = "idle"],
           UNCHANGED <<on, stage, goReceived, done, announced, hand, lost, misled>>
    PROVE  IInv'
<1>1. TypeOK'
  <2>1. ready' \in [VM -> SUBSET VM] /\ rx' \in [VM -> Rx]
    BY DEF IInv, TypeOK, Rx
  <2>2. QED
    BY <2>1, SendGoTruth DEF IInv, TypeOK
<1>2. \A w \in VM : /\ Enabled(w)' <=> Enabled(w)
                    /\ Sure(w)' <=> Sure(w)
                    /\ AllCarsReady(w)' <=> AllCarsReady(w)
                    /\ SyncTotal(w)' = SyncTotal(w)
  BY DEF Enabled, Sure, AllCarsReady, SyncTotal
<1>3. FramesTellTruth'
  BY <1>2, SendGoTruth DEF IInv, TypeOK, FramesTellTruth, Car
<1>4. \A w \in VM : rx'[w] = rx[w] \/ rx'[w] = "idle"
  BY DEF IInv, TypeOK
<1>5. HandsTellTruth'
  BY <1>2, <1>4 DEF IInv, TypeOK, HandsTellTruth
<1>6. CountedAreReady'
  BY <1>2 DEF IInv, TypeOK, CountedAreReady, Crew, Car
<1>7. NoCarStartsEarly'
  BY <1>2 DEF IInv, NoCarStartsEarly, Car
<1>8. QED
  BY <1>1, <1>3, <1>5, <1>6, <1>7 DEF IInv

\* A READY that is taken once the main thread waits names a ready car of the group.
LEMMA HandleReadyIInv ==
    ASSUME IInv, NEW v \in VM, NEW u \in VM, HandleReady(v, u)
    PROVE  IInv'
<1>1. SyncTotal(v) = TotalSyncVms /\ SameGroup(u, v)
  BY DEF HandleReady, Enabled, SyncTotal, IsInternal, CurrentGroup, SameGroup
<1>2. u \in Car /\ Enabled(u)
  BY DEF HandleReady, IInv, TypeOK, FramesTellTruth
<1>3. ready[v] \cup {u} \in SUBSET VM
  BY DEF IInv, TypeOK
<1>4. Sure(v) => \A w \in ready[v] \cup {u} : w \in Crew(v) /\ Enabled(w)
  BY <1>1, <1>2 DEF IInv, CountedAreReady, Crew
<1>5. QED
  BY <1>1, <1>3, <1>4, CountStep DEF HandleReady

LEMMA ReadyCountIInv ==
    ASSUME IInv, NEW v \in VM, ReadyCount(v)
    PROVE  IInv'
<1>1. SyncTotal(v) = TotalSyncVms
  BY DEF ReadyCount, IInv, HandsTellTruth
<1>2. ready[v] \in SUBSET VM /\ ready' = [ready EXCEPT ![v] = ready[v]]
  BY DEF ReadyCount, IInv, TypeOK
<1>3. Sure(v) => \A w \in ready[v] : w \in Crew(v) /\ Enabled(w)
  BY DEF IInv, CountedAreReady
<1>4. QED
  BY <1>1, <1>2, <1>3, CountStep DEF ReadyCount

\* A frame that passes the test has the group of the VM or the initial one.
LEMMA HoldIInv ==
    ASSUME IInv, NEW v \in VM, NEW u \in VM, NEW to \in Rx \ {"counted"}, Hold(v, u, to),
           \A w \in VM : inbox'[w] \subseteq inbox[w],
           inbox' \in [VM -> SUBSET VM],
           to = "ready" => u \in announced,
           to \in {"go", "foreign"} => u \in inbox[v],
           to \in {"ready", "go"} => IsInternal(v, u)
    PROVE  IInv'
<1>1. TypeOK'
  BY DEF Hold, IInv, TypeOK
<1>2. \A w \in VM : /\ Enabled(w)' <=> Enabled(w)
                    /\ Sure(w)' <=> Sure(w)
                    /\ AllCarsReady(w)' <=> AllCarsReady(w)
                    /\ SyncTotal(w)' = SyncTotal(w)
  BY DEF Hold, Enabled, Sure, AllCarsReady, SyncTotal
<1>3. UNCHANGED <<announced, ready, done>>
  BY DEF Hold
<1>4. FramesTellTruth' /\ CountedAreReady' /\ NoCarStartsEarly'
  BY <1>2, <1>3 DEF IInv, TypeOK, FramesTellTruth, CountedAreReady, NoCarStartsEarly, Crew, Car
<1>5. \A w \in VM \ {v} : rx'[w] = rx[w] /\ hand'[w] = hand[w]
  BY DEF Hold, IInv, TypeOK
<1>6. rx'[v] = to /\ hand'[v] = IF to = "idle" THEN {} ELSE {u}
  BY DEF Hold, IInv, TypeOK
<1>7. to \in {"ready", "go"} => GroupOf[u] \in {0, GroupOf[v]}
  BY DEF IsInternal, CurrentGroup
<1>8. to \in {"go", "foreign"} /\ Sure(u) => AllCarsReady(u)
  BY DEF IInv, FramesTellTruth
<1>9. HandsTellTruth'
  <2> SUFFICES ASSUME NEW w \in VM
               PROVE  /\ rx'[w] = "counted" => SyncTotal(w)' = TotalSyncVms
                      /\ rx'[w] = "go" => hand'[w] # {}
                      /\ \A x \in hand'[w] :
                            /\ rx'[w] = "ready" => x \in announced'
                            /\ rx'[w] \in {"go", "foreign"} /\ Sure(x)' => AllCarsReady(x)'
                            /\ rx'[w] \in {"ready", "go"} => GroupOf[x] \in {0, GroupOf[w]}
    BY DEF HandsTellTruth
  <2>1. CASE w = v
    BY <1>2, <1>3, <1>6, <1>7, <1>8, <2>1
  <2>2. CASE w # v
    BY <1>2, <1>3, <1>5, <2>2 DEF IInv, TypeOK, HandsTellTruth
  <2>3. QED
    BY <2>1, <2>2
<1>10. QED
  BY <1>1, <1>4, <1>9 DEF IInv

LEMMA ReadyCheckIInv ==
    ASSUME IInv, NEW v \in VM, NEW u \in VM, ReadyCheck(v, u)
    PROVE  IInv'
<1>1. "ready" \in Rx \ {"counted"} /\ inbox' \in [VM -> SUBSET VM]
  BY DEF ReadyCheck, Rx, IInv, TypeOK
<1>2. QED
  BY <1>1, HoldIInv DEF ReadyCheck

LEMMA GoCheckIInv ==
    ASSUME IInv, NEW v \in VM, NEW u \in VM, GoCheck(v, u)
    PROVE  IInv'
<1> DEFINE to == IF IsInternal(v, u) THEN "go" ELSE IF v \in Master THEN "foreign" ELSE "idle"
<1>1. to \in Rx \ {"counted"} /\ to # "ready" /\ (to = "go" => IsInternal(v, u))
  BY DEF Rx
<1>2. inbox' \in [VM -> SUBSET VM] /\ \A w \in VM : inbox'[w] \subseteq inbox[w]
  BY DEF GoCheck, Taken, IInv, TypeOK
<1>3. u \in inbox[v] /\ Hold(v, u, to)
  BY DEF GoCheck
<1> HIDE DEF to
<1>4. QED
  BY <1>1, <1>2, <1>3, HoldIInv

\* The frame in hand is of the group of the VM, or the VM is misled by acting on it.
LEMMA ActedOn ==
    ASSUME IInv, NEW v \in VM, NEW u \in hand[v], rx[v] \in {"ready", "go"},
           stage[v] \notin {"off", "up"}, Act(v), Sure(v)'
    PROVE  SameGroup(u, v)
<1>1. CASE GroupOf[v] = 0
  BY <1>1 DEF IInv, HandsTellTruth, SameGroup
<1>2. CASE GroupOf[v] # 0
  <2>1. v \notin misled'
    BY <1>2 DEF Sure, SameGroup
  <2>2. IsInternal(v, u)
    BY <2>1 DEF Act
  <2>3. QED
    BY <2>2 DEF IsInternal, CurrentGroup, SameGroup
<1>3. QED
  BY <1>1, <1>2

LEMMA ReadyInsertIInv ==
    ASSUME IInv, NEW v \in VM, ReadyInsert(v)
    PROVE  IInv'
<1>1. CASE SyncTotal(v) = 0
  <2>1. TypeOK'
    BY <1>1 DEF ReadyInsert, IInv, TypeOK, Rx
  <2>2. /\ rx' = [rx EXCEPT ![v] = "idle"] /\ hand' = [hand EXCEPT ![v] = {}]
        /\ UNCHANGED <<stage, ready, misled, announced, inbox, done>>
    BY <1>1 DEF ReadyInsert
  <2>3. \A w \in VM : rx'[w] = "counted" => SyncTotal(w)' = TotalSyncVms
    BY <2>2 DEF IInv, TypeOK, HandsTellTruth, SyncTotal
  <2>4. \A w \in VM : (hand'[w] = {} /\ rx'[w] = "idle") \/ (hand'[w] = hand[w] /\ rx'[w] = rx[w])
    BY <2>2 DEF IInv, TypeOK
  <2>5. QED
    BY <2>1, <2>2, <2>3, <2>4, QuietStep DEF Enabled
<1>2. CASE SyncTotal(v) > 0
  <2>0. /\ rx[v] = "ready" /\ rx' = [rx EXCEPT ![v] = "counted"]
        /\ hand' = [hand EXCEPT ![v] = {}]
        /\ ready' = [ready EXCEPT ![v] = @ \cup hand[v]] /\ Act(v)
        /\ UNCHANGED <<on, stage, goSent, goReceived, done, announced, inbox, lost>>
    BY <1>2 DEF ReadyInsert
  <2>1. TypeOK'
    BY <2>0 DEF IInv, TypeOK, Rx, Act
  <2>2. SyncTotal(v) = TotalSyncVms /\ stage[v] \notin {"off", "up"}
    BY <1>2 DEF SyncTotal
  <2>3. misled \subseteq misled'
    BY <2>0 DEF Act
  <2>4. \A w \in VM : /\ Enabled(w)' <=> Enabled(w)
                      /\ Sure(w)' => Sure(w)
                      /\ AllCarsReady(w)' <=> AllCarsReady(w)
                      /\ SyncTotal(w)' = SyncTotal(w)
    BY <2>0, <2>3 DEF Enabled, Sure, AllCarsReady, SyncTotal
  <2>5. FramesTellTruth' /\ NoCarStartsEarly'
    BY <2>0, <2>4 DEF IInv, TypeOK, FramesTellTruth, NoCarStartsEarly, Car
  <2>6. HandsTellTruth'
    BY <2>0, <2>2, <2>4 DEF IInv, TypeOK, HandsTellTruth
  <2>7. ASSUME NEW u \in hand[v], Sure(v)'
        PROVE  u \in Crew(v) /\ Enabled(u)
    <3>1. u \in Car /\ Enabled(u)
      BY <2>0 DEF IInv, TypeOK, HandsTellTruth, FramesTellTruth
    <3>2. SameGroup(u, v)
      BY <2>0, <2>2, <2>7, ActedOn
    <3>3. QED
      BY <3>1, <3>2 DEF Crew
  <2>8. \A w \in VM : \A u \in ready'[w] : u \in ready[w] \/ (w = v /\ u \in hand[v])
    BY <2>0 DEF IInv, TypeOK
  <2>9. CountedAreReady'
    BY <2>4, <2>7, <2>8 DEF IInv, TypeOK, CountedAreReady, Crew, Car
  <2>10. QED
    BY <2>1, <2>5, <2>6, <2>9 DEF IInv
<1>3. QED
  BY <1>1, <1>2 DEF ReadyInsert

\* A car that the GO branch releases is one of the cars that the GO speaks of.
LEMMA NotifyStep ==
    ASSUME IInv, TypeOK', NEW v \in VM, NEW internal \in BOOLEAN, Notify(v, internal),
           internal /\ Sure(v)' /\ HasCallback(v) => AllCarsReady(v),
           misled \subseteq misled',
           \A w \in VM : inbox'[w] \subseteq inbox[w],
           \A w \in VM : (rx'[w] = rx[w] /\ hand'[w] = hand[w]) \/ (rx'[w] = "idle" /\ hand'[w] = {}),
           UNCHANGED <<stage, ready, announced>>
    PROVE  IInv'
<1>1. \A w \in VM : /\ Enabled(w)' <=> Enabled(w)
                    /\ Sure(w)' => Sure(w)
                    /\ AllCarsReady(w)' <=> AllCarsReady(w)
                    /\ SyncTotal(w)' = SyncTotal(w)
  BY DEF Enabled, Sure, AllCarsReady, SyncTotal
<1>2. FramesTellTruth' /\ CountedAreReady'
  BY <1>1 DEF IInv, TypeOK, FramesTellTruth, CountedAreReady, Crew, Car
<1>3. HandsTellTruth'
  BY <1>1 DEF IInv, TypeOK, HandsTellTruth
<1>4. ASSUME NEW c \in Car, done'[c], Sure(c)'
      PROVE  AllCarsReady(c)
  <2>1. CASE done[c]
    BY <1>1, <1>4, <2>1 DEF IInv, NoCarStartsEarly, Car
  <2>2. CASE ~done[c]
    <3>1. c = v /\ Notifies(v, internal)
      BY <1>4, <2>2 DEF Notify, IInv, TypeOK, Car
    <3>2. internal /\ HasCallback(v)
      BY <3>1 DEF Notifies, IsMaster, Car
    <3>3. QED
      BY <1>4, <3>1, <3>2
  <2>3. QED
    BY <2>1, <2>2
<1>5. NoCarStartsEarly'
  BY <1>1, <1>4 DEF NoCarStartsEarly, Car
<1>6. QED
  BY <1>2, <1>3, <1>5 DEF IInv

LEMMA NotifyType ==
    ASSUME IInv, NEW v \in VM, NEW internal \in BOOLEAN, Notify(v, internal)
    PROVE  /\ goReceived' \in [VM -> BOOLEAN] /\ done' \in [VM -> BOOLEAN]
           /\ \A w \in VM \ {v} : done'[w] = done[w] /\ goReceived'[w] = goReceived[w]
           /\ goReceived'[v] = (goReceived[v] \/ internal)
           /\ done'[v] = (done[v] \/ Notifies(v, internal))
<1>1. Notifies(v, internal) \in BOOLEAN
  BY DEF Notifies, IsMaster, HasCallback
<1>2. QED
  BY <1>1 DEF Notify, IInv, TypeOK

LEMMA HandleGoIInv ==
    ASSUME IInv, NEW v \in VM, NEW u \in VM, HandleGo(v, u)
    PROVE  IInv'
<1>1. IsInternal(v, u) \in BOOLEAN
  BY DEF IsInternal
<1>2. TypeOK'
  BY <1>1, NotifyType DEF HandleGo, Taken, IInv, TypeOK
<1>3. IsInternal(v, u) /\ Sure(v)' => AllCarsReady(v)
  <2> SUFFICES ASSUME IsInternal(v, u), Sure(v)' PROVE AllCarsReady(v)
    OBVIOUS
  <2>1. SameGroup(u, v) /\ Sure(v)
    BY DEF HandleGo, IsInternal, CurrentGroup, Enabled, SameGroup, Sure
  <2>2. QED
    BY <2>1, SureTogether DEF HandleGo, IInv, FramesTellTruth
<1>4. \A w \in VM : inbox'[w] \subseteq inbox[w]
  BY DEF HandleGo, Taken, IInv, TypeOK
<1>5. QED
  BY <1>1, <1>2, <1>3, <1>4, NotifyStep DEF HandleGo

LEMMA GoNotifyIInv ==
    ASSUME IInv, NEW v \in VM, GoNotify(v)
    PROVE  IInv'
<1> DEFINE internal == rx[v] = "go"
<1>1. internal \in BOOLEAN /\ Notify(v, internal)
  BY DEF GoNotify
<1>2. misled' \in SUBSET VM /\ misled \subseteq misled'
  BY DEF GoNotify, Act, IInv, TypeOK
<1>3. TypeOK'
  <2>1. rx' \in [VM -> Rx] /\ hand' \in [VM -> SUBSET VM]
    BY DEF GoNotify, IInv, TypeOK, Rx
  <2>2. goReceived' \in [VM -> BOOLEAN] /\ done' \in [VM -> BOOLEAN]
    BY <1>1, NotifyType
  <2>3. QED
    BY <1>2, <2>1, <2>2 DEF GoNotify, IInv, TypeOK
<1>4. ASSUME internal, Sure(v)', HasCallback(v)
      PROVE  AllCarsReady(v)
  <2>1. PICK u \in VM : u \in hand[v]
    BY <1>4 DEF IInv, TypeOK, HandsTellTruth
  <2>2. SameGroup(u, v)
    BY <1>4, <2>1, ActedOn DEF GoNotify, HasCallback
  <2>3. Sure(u)
    BY <1>2, <1>4, <2>2, SureTogether DEF Sure, SameGroup
  <2>4. AllCarsReady(u)
    BY <1>4, <2>1, <2>3 DEF IInv, HandsTellTruth
  <2>5. QED
    BY <2>2, <2>4, SureTogether
<1>5. \A w \in VM : (rx'[w] = rx[w] /\ hand'[w] = hand[w]) \/ (rx'[w] = "idle" /\ hand'[w] = {})
  BY DEF GoNotify, IInv, TypeOK
<1> HIDE DEF internal
<1>6. QED
  BY <1>1, <1>2, <1>3, <1>4, <1>5, NotifyStep DEF GoNotify

LEMMA NextIInv == IInv /\ [Next]_vars => IInv'
<1> SUFFICES ASSUME IInv, [Next]_vars PROVE IInv'
  OBVIOUS
<1>1. CASE UNCHANGED vars
  BY <1>1, QuietStep DEF vars, IInv, TypeOK, HandsTellTruth, SyncTotal, Enabled
<1>2. CASE Next
  BY <1>2, MainIInv, SendReadyIInv, ReadyInsertIInv, ReadyCountIInv, GoNotifyIInv,
     HandleReadyIInv, HandleGoIInv, ReadyCheckIInv, GoCheckIInv, LoseIInv DEF Next
<1>3. QED
  BY <1>1, <1>2

-----------------------------------------------------------------------------
(* Theorems *)

\* The invariant holds for every deployment in which each group has as many
\* cars as total_sync_vms says.
THEOREM Invariance == Spec => []IInv
BY InitIInv, NextIInv, PTL DEF Spec

\* The fields of Gateway and Protocol keep their types.
THEOREM TypeCorrect == Spec => []TypeOK
<1>1. IInv => TypeOK
  BY DEF IInv
<1>2. QED
  BY <1>1, Invariance, PTL

\* No car leaves the start barrier before every car of its group is ready, unless
\* a VM of its group acted on a frame of group 0 whose group it had tested before
\* set_current_group.
THEOREM BarrierHolds == Spec => []NoCarStartsEarly
<1>1. IInv => NoCarStartsEarly
  BY DEF IInv
<1>2. QED
  BY <1>1, Invariance, PTL

\* Only the GO branch and the observers of a GO touch what a GO has done.
LEMMA GoStep ==
    ASSUME IInv, Next
    PROVE  \/ UNCHANGED <<goReceived, done>>
           \/ /\ \E v \in VM : \E internal \in BOOLEAN : Notify(v, internal)
              /\ UNCHANGED stage
<1>1. ASSUME NEW v \in VM, GoNotify(v)
      PROVE  /\ \E internal \in BOOLEAN : Notify(v, internal)
             /\ UNCHANGED stage
  BY <1>1 DEF GoNotify
<1>2. ASSUME NEW v \in VM, NEW u \in VM, HandleGo(v, u)
      PROVE  /\ \E internal \in BOOLEAN : Notify(v, internal)
             /\ UNCHANGED stage
  BY <1>2 DEF HandleGo, IsInternal
<1>3. ASSUME NEW v \in VM,
             Main(v) \/ SendReady(v) \/ ReadyInsert(v) \/ ReadyCount(v)
      PROVE  UNCHANGED <<goReceived, done>>
  BY <1>3, MainMoves DEF SendReady, ReadyInsert, ReadyCount
<1>4. ASSUME NEW v \in VM, NEW u \in VM,
             HandleReady(v, u) \/ ReadyCheck(v, u) \/ GoCheck(v, u) \/ Lose(v, u)
      PROVE  UNCHANGED <<goReceived, done>>
  BY <1>4 DEF HandleReady, ReadyCheck, GoCheck, Hold, Lose
<1>5. QED
  BY <1>1, <1>2, <1>3, <1>4 DEF Next

\* Only the main thread moves the main thread.
LEMMA StageStep ==
    ASSUME Next
    PROVE  (\E v \in VM : Main(v)) \/ UNCHANGED stage
BY DEF Next, SendReady, ReadyInsert, ReadyCount, GoNotify, HandleReady, HandleGo,
   ReadyCheck, GoCheck, Hold, Lose

Home == {c \in Car : GroupOf[c] = 0}

\* Arrivals and releases of the cars of group 0 are those of the abstract barrier.
LEMMA StepRefinement ==
    ASSUME IInv, IInv', Next
    PROVE  Barrier!Next \/ UNCHANGED <<{c \in Car : GroupOf[c] = 0 /\ Enabled(c)},
                                       {c \in Car : GroupOf[c] = 0 /\ done[c]}>>
<1>1. ASSUME NEW v \in VM, Main(v)
      PROVE  Barrier!Next \/ UNCHANGED <<{c \in Car : GroupOf[c] = 0 /\ Enabled(c)},
                                         {c \in Car : GroupOf[c] = 0 /\ done[c]}>>
  <2>0. UNCHANGED done
    BY <1>1, MainMoves
  <2>1. CASE EnableReady(v) /\ v \in Home
    <3>1. ~Enabled(v) /\ Enabled(v)' /\ \A c \in Car \ {v} : Enabled(c)' <=> Enabled(c)
      BY <2>1 DEF EnableReady, Advance, Enabled, IInv, TypeOK, Car, Home
    <3>2. Barrier!Arrive(v)
      BY <2>0, <2>1, <3>1 DEF Barrier!Arrive, Home
    <3>3. QED
      BY <2>1, <3>2 DEF Barrier!Next, Home
  <2>2. CASE ~(EnableReady(v) /\ v \in Home)
    <3>1. \A c \in Home : Enabled(c)' <=> Enabled(c)
      BY <1>1, <2>2, SMTT(30) DEF Main, InitializeCommunicator, SetCurrentGroup, SetOnSyncDone,
         EnableTotal, EnableClear, EnableCallback, EnableReady, Advance, IInv, TypeOK,
         Enabled, Car, Home
    <3>2. QED
      BY <2>0, <3>1 DEF Home
  <2>3. QED
    BY <2>1, <2>2
<1>2. ASSUME NEW v \in VM, NEW internal \in BOOLEAN, Notify(v, internal), UNCHANGED stage
      PROVE  Barrier!Next \/ UNCHANGED <<{c \in Car : GroupOf[c] = 0 /\ Enabled(c)},
                                         {c \in Car : GroupOf[c] = 0 /\ done[c]}>>
  <2>1. \A c \in Car : Enabled(c)' <=> Enabled(c)
    BY <1>2 DEF Enabled
  <2>2. \A c \in Car \ {v} : done'[c] = done[c]
    BY <1>2, NotifyType DEF Car
  <2>3. CASE v \in Home /\ ~done[v] /\ done'[v]
    <3>1. AllCarsReady(v)
      BY <2>1, <2>3 DEF IInv, NoCarStartsEarly, AllCarsReady, Crew, Sure, Home
    <3>2. {c \in Car : GroupOf[c] = 0 /\ Enabled(c)} = {c \in Car : GroupOf[c] = 0}
      BY <2>3, <3>1 DEF AllCarsReady, Crew, SameGroup, Home
    <3>3. {c \in Car : GroupOf[c] = 0 /\ done'[c]} = {c \in Car : GroupOf[c] = 0 /\ done[c]} \cup {v}
      BY <2>2, <2>3 DEF Home
    <3>4. Barrier!Release(v)
      BY <2>1, <2>3, <3>2, <3>3 DEF Barrier!Release
    <3>5. QED
      BY <2>3, <3>4 DEF Barrier!Next, Home
  <2>4. CASE ~(v \in Home /\ ~done[v] /\ done'[v])
    <3>1. done[v] => done'[v]
      BY <1>2, NotifyType
    <3>2. \A c \in Home : done'[c] <=> done[c]
      BY <2>2, <2>4, <3>1 DEF Home
    <3>3. QED
      BY <2>1, <3>2 DEF Home
  <2>5. QED
    BY <2>3, <2>4
<1>3. CASE UNCHANGED <<goReceived, done>> /\ UNCHANGED stage
  BY <1>3 DEF Enabled
<1>4. QED
  BY <1>1, <1>2, <1>3, GoStep, StageStep

\* READY and GO implement the abstract barrier StartBarrier for the cars of group 0,
\* the only group whose number current_group_id has from the start.
THEOREM Refinement == Spec => ImplementsBarrier
<1>1. Init => Barrier!Init
  BY DEF Init, Barrier!Init, Car
<1>2. IInv /\ IInv' /\ [Next]_vars
        => [Barrier!Next]_<<{c \in Car : GroupOf[c] = 0 /\ Enabled(c)},
                            {c \in Car : GroupOf[c] = 0 /\ done[c]}>>
  BY StepRefinement DEF vars, Enabled
<1>3. QED
  BY <1>1, <1>2, Invariance, PTL DEF Spec, ImplementsBarrier, Barrier!Spec

-----------------------------------------------------------------------------
(* The way of a GO *)

\* A car of group 0 is never deaf: a GO it takes for one of its own group is one.
DeafAbroad == \A c \in Car : Deaf(c) => GroupOf[c] # 0

\* Nobody but the GO branch touches what makes a car deaf, and it does not cure it.
LEMMA DeafStep ==
    ASSUME IInv, Next, NEW c \in Car, Deaf(c)
    PROVE  Deaf(c)'
<1>0. c \in VM /\ c \notin Master
  BY DEF Car
<1>1. ASSUME NEW v \in VM, NEW internal \in BOOLEAN, Notify(v, internal)
      PROVE  Deaf(c)'
  <2>1. CASE v = c
    <3>1. ~Notifies(c, internal)
      BY <1>0 DEF Notifies, IsMaster, Deaf
    <3>2. QED
      BY <1>1, <2>1, <3>1, NotifyType DEF Deaf
  <2>2. CASE v # c
    BY <1>0, <1>1, <2>2, NotifyType DEF Deaf
  <2>3. QED
    BY <2>1, <2>2
<1>2. CASE UNCHANGED <<goReceived, done>>
  BY <1>2 DEF Deaf
<1>3. QED
  BY <1>1, <1>2, GoStep

\* A car of group 0 takes a GO only when it is ready, with the callback set.
LEMMA GoTakenAtHome ==
    ASSUME IInv, NEW c \in Car, GroupOf[c] = 0, NEW u \in VM, GroupOf[u] = 0, AllCarsReady(u)
    PROVE  HasCallback(c)
BY DEF AllCarsReady, Crew, SameGroup, Enabled, HasCallback

LEMMA NextDeafAbroad == IInv /\ DeafAbroad /\ [Next]_vars => DeafAbroad'
<1> SUFFICES ASSUME IInv, DeafAbroad, [Next]_vars, NEW c \in Car, Deaf(c)', GroupOf[c] = 0
             PROVE  FALSE
  BY DEF DeafAbroad
<1>0. c \in VM /\ c \notin Master /\ ~Deaf(c)
  BY DEF Car, DeafAbroad
<1>1. ASSUME NEW v \in VM, NEW internal \in BOOLEAN, Notify(v, internal),
             internal /\ v = c => HasCallback(c)
      PROVE  FALSE
  <2>1. v = c /\ internal /\ ~goReceived[c] /\ ~Notifies(c, internal)
    BY <1>0, <1>1, NotifyType DEF Deaf
  <2>2. QED
    BY <1>1, <2>1 DEF Notifies
<1>2. ASSUME NEW u \in VM, HandleGo(c, u), IsInternal(c, u)
      PROVE  HasCallback(c)
  BY <1>2 DEF HandleGo, Enabled, HasCallback
<1>3. ASSUME GoNotify(c), rx[c] = "go"
      PROVE  HasCallback(c)
  <2>1. PICK u \in VM : u \in hand[c]
    BY <1>0, <1>3 DEF IInv, TypeOK, HandsTellTruth
  <2>2. GroupOf[u] = 0
    BY <1>0, <1>3, <2>1 DEF IInv, HandsTellTruth
  <2>3. AllCarsReady(u)
    BY <1>0, <1>3, <2>1, <2>2 DEF IInv, HandsTellTruth, Sure
  <2>4. QED
    BY <2>2, <2>3, GoTakenAtHome
<1>4. ASSUME NEW v \in VM, NEW u \in VM, HandleGo(v, u)
      PROVE  FALSE
  <2>1. IsInternal(v, u) \in BOOLEAN /\ Notify(v, IsInternal(v, u))
    BY <1>4 DEF HandleGo, IsInternal
  <2>2. QED
    BY <1>1, <1>2, <1>4, <2>1
<1>5. ASSUME NEW v \in VM, GoNotify(v)
      PROVE  FALSE
  <2>1. (rx[v] = "go") \in BOOLEAN /\ Notify(v, rx[v] = "go")
    BY <1>5 DEF GoNotify
  <2>2. QED
    BY <1>1, <1>3, <1>5, <2>1
<1>6. CASE UNCHANGED <<goReceived, done>>
  BY <1>0, <1>6 DEF Deaf
<1>7. ASSUME NEW v \in VM,
             Main(v) \/ SendReady(v) \/ ReadyInsert(v) \/ ReadyCount(v)
      PROVE  UNCHANGED <<goReceived, done>>
  BY <1>7, MainMoves DEF SendReady, ReadyInsert, ReadyCount
<1>8. ASSUME NEW v \in VM, NEW u \in VM,
             HandleReady(v, u) \/ ReadyCheck(v, u) \/ GoCheck(v, u) \/ Lose(v, u)
      PROVE  UNCHANGED <<goReceived, done>>
  BY <1>8 DEF HandleReady, ReadyCheck, GoCheck, Hold, Lose
<1>9. CASE UNCHANGED vars
  BY <1>6, <1>9 DEF vars
<1>10. QED
  BY <1>4, <1>5, <1>6, <1>7, <1>8, <1>9 DEF Next

LEMMA NextGoOnItsWay ==
    IInv /\ IInv' /\ DeafAbroad' /\ GoOnItsWay /\ [Next]_vars => GoOnItsWay'
<1> SUFFICES ASSUME IInv, IInv', DeafAbroad', GoOnItsWay, [Next]_vars,
                    NEW v \in VM, NEW c \in Car \ {v},
                    goSent'[v], SameGroup(v, c), Sure(v)', lost' = 0
             PROVE  done'[c] \/ v \in inbox'[c] \/ Deaf(c)'
  BY DEF GoOnItsWay, DeafAbroad, SameGroup
<1>0. c \in VM /\ c \notin Master /\ c # v /\ c \in Crew(v)
  BY DEF Car, Crew, SameGroup
<1>g. ASSUME goSent[v], lost = 0, Sure(v)
      PROVE  done[c] \/ v \in inbox[c] \/ Deaf(c)
  BY <1>g DEF GoOnItsWay
<1>d. ASSUME Next
      PROVE  /\ Deaf(c) => Deaf(c)'
             /\ done[c] => done'[c]
  <2>1. done[c] => done'[c]
    BY <1>d, <1>0, GoStep, NotifyType
  <2>2. QED
    BY <1>d, <2>1, DeafStep
<1>k. ASSUME Next, UNCHANGED <<goSent, lost>>, misled \subseteq misled', inbox[c] \subseteq inbox'[c]
      PROVE  done'[c] \/ v \in inbox'[c] \/ Deaf(c)'
  <2>1. Sure(v)
    BY <1>k DEF Sure
  <2>2. QED
    BY <1>d, <1>g, <1>k, <2>1
<1>1. CASE UNCHANGED vars
  BY <1>1, <1>g DEF vars, Deaf, Sure
<1>2. ASSUME NEW u \in VM, Main(u) \/ SendReady(u) \/ ReadyInsert(u) \/ GoNotify(u)
      PROVE  done'[c] \/ v \in inbox'[c] \/ Deaf(c)'
  <2>1. UNCHANGED <<goSent, lost, inbox>> /\ misled \subseteq misled'
    BY <1>2, MainMoves DEF SendReady, ReadyInsert, GoNotify, Act
  <2>2. QED
    BY <1>2, <1>k, <2>1 DEF Next
<1>s. ASSUME NEW u \in VM, NEW S \in SUBSET VM, Next, SendGo(u, S), SyncTotal(u) = TotalSyncVms,
             Sure(u) => \A w \in S : w \in Crew(u) /\ Enabled(w),
             UNCHANGED <<lost, misled>>
      PROVE  done'[c] \/ v \in inbox'[c] \/ Deaf(c)'
  <2>0. Sure(v)
    BY <1>s DEF Sure
  <2>1. CASE goSent[v]
    BY <1>0, <1>d, <1>g, <1>s, <2>0, <2>1, SendGoTruth
  <2>2. CASE ~goSent[v]
    <3>1. u = v
      BY <1>s, <2>2, SendGoTruth
    <3>2. QED
      BY <1>0, <1>s, <2>0, <2>2, <3>1, SendGoTruth
  <2>3. QED
    BY <2>1, <2>2
<1>3. ASSUME NEW u \in VM, ReadyCount(u)
      PROVE  done'[c] \/ v \in inbox'[c] \/ Deaf(c)'
  <2>1. SyncTotal(u) = TotalSyncVms /\ ready[u] \in SUBSET VM
    BY <1>3 DEF ReadyCount, IInv, TypeOK, HandsTellTruth
  <2>2. Sure(u) => \A w \in ready[u] : w \in Crew(u) /\ Enabled(w)
    BY DEF IInv, CountedAreReady
  <2>3. Next
    BY <1>3 DEF Next
  <2>4. QED
    BY <1>3, <1>s, <2>1, <2>2, <2>3 DEF ReadyCount
<1>4. ASSUME NEW u \in VM, NEW w \in VM, HandleReady(u, w)
      PROVE  done'[c] \/ v \in inbox'[c] \/ Deaf(c)'
  <2>1. SyncTotal(u) = TotalSyncVms /\ SameGroup(w, u) /\ ready[u] \cup {w} \in SUBSET VM
    <3>1. stage[u] = "waiting" /\ IsInternal(u, w)
      BY <1>4 DEF HandleReady, Enabled
    <3>2. SyncTotal(u) = TotalSyncVms
      BY <3>1 DEF SyncTotal
    <3>3. SameGroup(w, u)
      BY <3>1 DEF IsInternal, CurrentGroup, SameGroup
    <3>4. ready \in [VM -> SUBSET VM]
      BY DEF IInv, TypeOK
    <3>5. QED
      BY <3>2, <3>3, <3>4
  <2>2. w \in Car /\ Enabled(w)
    BY <1>4 DEF HandleReady, IInv, TypeOK, FramesTellTruth
  <2>3. Sure(u) => \A x \in ready[u] \cup {w} : x \in Crew(u) /\ Enabled(x)
    BY <2>1, <2>2 DEF IInv, CountedAreReady, Crew
  <2>4. Next
    BY <1>4 DEF Next
  <2>5. QED
    BY <1>4, <1>s, <2>1, <2>3, <2>4 DEF HandleReady
<1>5. ASSUME NEW u \in VM, NEW w \in VM, ReadyCheck(u, w)
      PROVE  done'[c] \/ v \in inbox'[c] \/ Deaf(c)'
  <2>1. Next
    BY <1>5 DEF Next
  <2>2. QED
    BY <1>5, <1>k, <2>1 DEF ReadyCheck, Hold
<1>6. ASSUME NEW u \in VM, NEW w \in VM, HandleGo(u, w) \/ GoCheck(u, w)
      PROVE  done'[c] \/ v \in inbox'[c] \/ Deaf(c)'
  <2>0. Next
    BY <1>6 DEF Next
  <2>1. UNCHANGED <<goSent, lost, misled>> /\ inbox' = Taken(u, w) /\ w \in inbox[u]
    BY <1>6 DEF HandleGo, GoCheck, Hold
  <2>2. Sure(v)
    BY <2>1 DEF Sure
  <2>3. CASE u = c /\ w = v
    <3>1. Enabled(c)
      BY <1>0, <2>1, <2>2, <2>3 DEF IInv, FramesTellTruth, AllCarsReady
    <3>2. HandleGo(c, v)
      BY <1>6, <2>3, <3>1 DEF GoCheck, Hold
    <3>3. IsInternal(c, v) /\ HasCallback(c)
      BY <3>1 DEF IsInternal, CurrentGroup, Enabled, HasCallback, SameGroup
    <3>4. goReceived'[c] /\ (done'[c] \/ goReceived[c])
      BY <1>0, <3>2, <3>3, NotifyType DEF HandleGo, Notifies
    <3>5. QED
      BY <3>4 DEF Deaf
  <2>4. CASE ~(u = c /\ w = v)
    <3>1. v \in inbox[c] => v \in inbox'[c]
      BY <1>0, <2>1, <2>4 DEF Taken, IInv, TypeOK
    <3>2. QED
      BY <1>d, <1>g, <2>0, <2>1, <2>2, <3>1
  <2>5. QED
    BY <2>3, <2>4
<1>7. ASSUME NEW u \in VM, NEW w \in VM, Lose(u, w)
      PROVE  FALSE
  BY <1>7 DEF Lose, IInv, TypeOK
<1>8. QED
  BY <1>1, <1>2, <1>3, <1>4, <1>5, <1>6, <1>7 DEF Next

\* The GO of a group is not lost between the VMs: unless a frame was dropped or a VM
\* of the group misled, each car of the group is released, has the GO before it, or
\* took a GO of group 0 for its own while it booted.
THEOREM GoFindsCars == Spec => []GoOnItsWay
<1>1. Init => DeafAbroad /\ GoOnItsWay
  BY DEF Init, DeafAbroad, GoOnItsWay, Deaf, Car
<1>2. Spec => []DeafAbroad
  BY <1>1, NextDeafAbroad, Invariance, PTL DEF Spec
<1>3. QED
  BY <1>1, <1>2, NextGoOnItsWay, Invariance, PTL DEF Spec

\* A car that noted a GO before its callback was set stays behind the barrier.
THEOREM DeafStays == Spec => DeafForGood
<1>1. IInv /\ [Next]_vars => [\A c \in Car : Deaf(c) => Deaf(c)']_vars
  BY DeafStep
<1>2. QED
  BY <1>1, Invariance, PTL DEF Spec, DeafForGood
=============================================================================
