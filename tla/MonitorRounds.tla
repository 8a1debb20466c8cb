---------------------------- MODULE MonitorRounds ----------------------------
(***************************************************************************)
(* The loops monitorTopUpTransactions and monitorEvents of the scrapers:   *)
(* once a minute fetch what is pending, start a goroutine for each row,    *)
(* wait for them with a sync.WaitGroup.                                    *)
(*                                                                         *)
(* A goroutine adds itself to the group, so that Wait may find the group   *)
(* empty before it has begun, or again before it has: rounds may overlap,  *)
(* and the WaitGroup (of the Go release the program is built with) panics  *)
(* when it notices.  Nobody recovers: the process ends.                    *)
(***************************************************************************)
EXTENDS Naturals

CONSTANTS
    Transfer  \* rows of the transfers table the monitor looks for

VARIABLES
    row,      \* a transfer: pending and in the pool or in a block, or settled
    loop,     \* the goroutine of the loop
    group,    \* the WaitGroup of the round it is in
    work,     \* the goroutines of that round
    late,     \* those of earlier rounds that have not begun yet
    panicked

roundVars == <<row, loop, group, work, late, panicked>>

EmptyGroup == [counter |-> 0, waiters |-> 0]
Nobody == [x \in Transfer |-> "none"]

\* "work" is between Add and Done, "zero" after the Done that brings the counter
\* to zero while the loop waits.
RoundTypeOK ==
    /\ row \in [Transfer -> {"pool", "block", "settled"}]
    /\ loop \in {"sleep", "wait", "parked", "woken"}
    /\ group \in [counter : Nat, waiters : {0, 1}]
    /\ work \in [Transfer -> {"none", "spawned", "work", "leave", "zero", "end"}]
    /\ late \subseteq Transfer
    /\ panicked \in BOOLEAN

RoundInit ==
    /\ row = [x \in Transfer |-> "pool"]
    /\ loop = "sleep"
    /\ group = EmptyGroup
    /\ work = Nobody
    /\ late = {}
    /\ panicked = FALSE

AtWork(x) == work[x] \in {"work", "leave"}

Goes(x, pc) == work' = [work EXCEPT ![x] = pc]
Panic == panicked' = TRUE

\* The transaction gets into a block.
Mine(x) ==
    /\ row[x] = "pool"
    /\ row' = [row EXCEPT ![x] = "block"]
    /\ UNCHANGED <<loop, group, work, late, panicked>>

-----------------------------------------------------------------------------
(* The loop. *)

\* A query that fails or finds nothing goes back to sleep.
Fetch ==
    LET pending == {x \in Transfer : row[x] # "settled"}
    IN  /\ loop = "sleep" /\ pending # {}
        /\ loop' = "wait"
        /\ group' = EmptyGroup
        /\ work' = [x \in Transfer |-> IF x \in pending THEN "spawned" ELSE "none"]
        /\ UNCHANGED <<row, late, panicked>>

\* Whoever has not begun will do so next to the rounds that follow. Nobody waits
\* for its group any more.
LeavesRound ==
    /\ loop' = "sleep"
    /\ late' = late \cup {x \in Transfer : work[x] = "spawned"}
    /\ work' = [x \in Transfer |-> IF AtWork(x) THEN work[x] ELSE "none"]

\* Mutant: wg.Wait is missing.
WaitReturnsAnyway ==
    /\ loop = "wait"
    /\ LeavesRound
    /\ UNCHANGED <<row, group, panicked>>

WaitReturns ==
    /\ loop = "wait" /\ group.counter = 0
    /\ LeavesRound
    /\ UNCHANGED <<row, group, panicked>>

WaitParks ==
    /\ loop = "wait" /\ group.counter # 0
    /\ group' = [group EXCEPT !.waiters = 1]
    /\ loop' = "parked"
    /\ UNCHANGED <<row, work, late, panicked>>

\* "WaitGroup is reused before previous Wait has returned"
WaitWakes ==
    /\ loop = "woken"
    /\ \/ group = EmptyGroup /\ LeavesRound /\ UNCHANGED panicked
       \/ group # EmptyGroup /\ Panic /\ UNCHANGED <<loop, work, late>>
    /\ UNCHANGED <<row, group>>

-----------------------------------------------------------------------------
(* A goroutine of a round. *)

\* Mutant: wg.Add is missing.
AddNothing(x) ==
    /\ work[x] = "spawned"
    /\ Goes(x, "work")
    /\ UNCHANGED <<row, loop, group, late, panicked>>

\* "Add called concurrently with Wait"
AddOne(x) ==
    /\ work[x] = "spawned"
    /\ group' = [group EXCEPT !.counter = @ + 1]
    /\ IF group.waiters # 0 /\ group.counter = 0 THEN Panic ELSE UNCHANGED panicked
    /\ Goes(x, "work")
    /\ UNCHANGED <<row, loop, late>>

\* TransactionByHash; a transfer in a block is completed or failed. When there is
\* no answer, or a statement fails, the next round tries again.
Settle(x) == row' \in {row, IF row[x] = "pool" THEN row ELSE [row EXCEPT ![x] = "settled"]}

Work(x) ==
    /\ work[x] = "work"
    /\ Settle(x)
    /\ Goes(x, "leave")
    /\ UNCHANGED <<loop, group, late, panicked>>

\* "negative WaitGroup counter"
Done(x) ==
    /\ work[x] = "leave"
    /\ IF group.counter = 0
       THEN Panic /\ UNCHANGED group
       ELSE group' = [group EXCEPT !.counter = @ - 1] /\ UNCHANGED panicked
    /\ Goes(x, IF group = [counter |-> 1, waiters |-> 1] THEN "zero" ELSE "end")
    /\ UNCHANGED <<row, loop, late>>

\* Whoever brings the counter to zero resets the group and wakes the loop.
Release(x) ==
    /\ work[x] = "zero"
    /\ \/ group.counter = 0 /\ group' = EmptyGroup /\ loop' = "woken" /\ UNCHANGED panicked
       \/ group.counter # 0 /\ Panic /\ UNCHANGED <<group, loop>>
    /\ Goes(x, "end")
    /\ UNCHANGED <<row, late>>

WorkLate(x) ==
    /\ x \in late
    /\ Settle(x)
    /\ late' = late \ {x}
    /\ UNCHANGED <<loop, group, work, panicked>>

\* The listener comes first, or what an earlier round has started with "go".
SettledElsewhere(x) ==
    /\ row[x] = "block"
    /\ row' = [row EXCEPT ![x] = "settled"]
    /\ UNCHANGED <<loop, group, work, late, panicked>>

Goroutine(x) == AddOne(x) \/ Work(x) \/ Done(x) \/ Release(x) \/ WorkLate(x)

Monitor ==
    \/ Fetch \/ WaitReturns \/ WaitParks \/ WaitWakes
    \/ \E x \in Transfer : Goroutine(x) \/ SettledElsewhere(x)

\* Its goroutines are gone; the table is still there.
MonitorRestarts ==
    /\ loop' = "sleep" /\ group' = EmptyGroup
    /\ work' = Nobody /\ late' = {}
    /\ panicked' = FALSE
    /\ UNCHANGED row

-----------------------------------------------------------------------------
(* Properties *)

\* A round with one row cannot panic: it takes a goroutine that begins after
\* another one of its round has been the last at work.
PanicNeedsLateStart ==
    panicked => \E x, y \in Transfer : work[x] \in {"zero", "end"} /\ AtWork(y)
=============================================================================
