------------------------------- MODULE Scraper -------------------------------
(***************************************************************************)
(* A scraper: the goroutine of its scan, its subscription and its monitor, *)
(* in one process.  What ends one of them by a panic ends all, and a start *)
(* begins all of them anew.                                                *)
(***************************************************************************)
EXTENDS BlockScan, MonitorRounds, FiniteSets

ASSUME TransferAssumption == IsFiniteSet(Transfer)

vars == <<scraper, started, head, end, next, wrapped, subscribed, tried, waiting, missed,
          row, loop, group, work, late, panicked>>

TypeOK == ScanTypeOK /\ RoundTypeOK

Init == ScanInit /\ RoundInit

\* The chain goes on whether the service runs or not.
Environment ==
    \/ NewBlock /\ UNCHANGED roundVars
    \/ (\E x \in Transfer : Mine(x)) /\ UNCHANGED scanVars

\* Start begins the scan and the monitor.
Service ==
    /\ ~panicked
    /\ \/ Scan /\ UNCHANGED roundVars
       \/ started /\ Monitor /\ UNCHANGED scanVars

\* The process ends, for whatever reason, and begins again.
Restart == ScanRestarts /\ MonitorRestarts

Next == Environment \/ Service \/ Restart

Spec == Init /\ [][Next]_vars

-----------------------------------------------------------------------------

\* wg.Wait: whether the loop waits or not, it leaves a round only when nobody of
\* it is at work.
WaitIsABarrier ==
    [][loop # "sleep" /\ loop' = "sleep" /\ started' => \A x \in Transfer : ~AtWork(x)]_vars

\* The goroutine of the scan runs on, whether the node answers or not.
LiveSpec == Spec /\ WF_vars(Service /\ (ReadOldBlock \/ ReadPacket))

\* A scan comes through all blocks of before its start, the first included.
ScanCompletes ==
    started ~> panicked \/ ~started \/ (\A b \in 0 .. end : b \in tried)

-----------------------------------------------------------------------------
(* The inductive invariant of the proofs. *)

\* The counter counts; the loop is parked as long as the group has a waiter, and
\* then somebody is there to wake it.
GroupOK ==
    /\ group.counter = Cardinality({x \in Transfer : AtWork(x)})
    /\ group.waiters = IF loop = "parked" THEN 1 ELSE 0
    /\ \A x \in Transfer : work[x] = "zero" => loop = "parked" /\ group.counter = 0
    /\ \A x, y \in Transfer : work[x] = "zero" /\ work[y] = "zero" => x = y

LoopOK ==
    /\ loop = "parked" /\ group.counter = 0 => \E x \in Transfer : work[x] = "zero"
    /\ loop = "woken" => \E x \in Transfer : work[x] = "end"

\* Packets only get lower; a new scan has not wrapped around; nothing waits without
\* a subscription.
ScanOK ==
    /\ end <= head
    /\ scraper = "events" => next <= end
    /\ ~started => ~wrapped
    /\ ~subscribed => waiting = {}

\* A service that panics does not move any more.
IInv ==
    /\ TypeOK /\ ScanOK /\ NothingIsForgotten
    /\ PanicNeedsLateStart
    /\ ~panicked => GroupOK /\ LoopOK
=============================================================================
