------------------------------ MODULE StartWait ------------------------------
(***************************************************************************)
(* The wait at the end of Gateway::initialize (gateway.h), composed with   *)
(* the exchange of READY and GO: notify_sync_done sets _sync_done and      *)
(* notifies _sync_cv without holding _sync_mtx.                            *)
(***************************************************************************)
EXTENDS StartSync

VARIABLE
    wait        \* where the main thread is in _sync_cv.wait, once it is Enabled

waitVars == <<vars, wait>>

\* "test": about to test _sync_done.  "committed": it was not set, about to block.
Wait == {"test", "committed", "asleep", "passed"}

WaitInit == Init /\ wait = [v \in VM |-> "test"]

WaitTest(v) ==
    /\ Enabled(v)
    /\ wait[v] = "test"
    /\ wait' = [wait EXCEPT ![v] = IF done[v] THEN "passed" ELSE "committed"]
    /\ UNCHANGED vars

WaitBlock(v) ==
    /\ wait[v] = "committed"
    /\ wait' = [wait EXCEPT ![v] = "asleep"]
    /\ UNCHANGED vars

\* notify_all wakes a main thread that has blocked.
Wake(v, notifies) ==
    wait' = [wait EXCEPT ![v] = IF notifies /\ @ = "asleep" THEN "test" ELSE @]

WaitNext ==
    \E v \in VM :
        \/ WaitTest(v) \/ WaitBlock(v)
        \/ GoNotify(v) /\ Wake(v, Notifies(v, rx[v] = "go"))
        \/ \E u \in VM : HandleGo(v, u) /\ Wake(v, Notifies(v, IsInternal(v, u)))
        \/ /\ \/ Main(v) \/ SendReady(v)
              \/ ReadyInsert(v) \/ ReadyCount(v)
              \/ \E u \in VM : HandleReady(v, u) \/ ReadyCheck(v, u) \/ GoCheck(v, u) \/ Lose(v, u)
           /\ UNCHANGED wait

WaitSpec ==
    /\ WaitInit /\ [][WaitNext]_waitVars
    /\ \A v \in VM :
          /\ WF_waitVars((Main(v) \/ SendReady(v)) /\ UNCHANGED wait)
          /\ WF_waitVars(WaitTest(v) \/ WaitBlock(v))

\* _sync_done is the flag for passing the initialization barrier: once it is
\* set, initialize returns.
FlagPassesBarrier == \A v \in VM : done[v] /\ Enabled(v) ~> wait[v] = "passed"
=============================================================================
