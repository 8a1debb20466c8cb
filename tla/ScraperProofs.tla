--------------------------- MODULE ScraperProofs ---------------------------
(***************************************************************************)
(* Proofs about Scraper: for any width of a word, any size of packets, any *)
(* number of blocks and any finite set of rows.                            *)
(***************************************************************************)
EXTENDS Scraper, FiniteSetTheorems, TLAPS

-----------------------------------------------------------------------------
(* Words. *)

\* One less, or the greatest word after 0.
LEMMA Decrement ==
    ASSUME NEW n \in 0 .. Word - 1
    PROVE  IF n = 0 THEN (n + Word - 1) % Word = Word - 1 ELSE (n + Word - 1) % Word = n - 1
  <1>1. Word \in Nat /\ Word > 1
    BY ScanAssumption
  <1>2. CASE n = 0
    BY <1>1, <1>2
  <1>3. CASE n # 0
    <2>1. n + Word - 1 = (n - 1) + 1 * Word /\ n - 1 \in 0 .. Word - 1
      BY <1>1, <1>3
    <2> QED
      BY <1>1, <1>3, <2>1
  <1> QED
    BY <1>2, <1>3

\* A packet begins below its end.
LEMMA PacketGoesDown ==
    ASSUME NEW n \in 1 .. Word - 1
    PROVE  PacketStart(n) \in 0 .. n - 1
  <1>1. Word \in Nat /\ PacketSize \in 1 .. Word - 1
    BY ScanAssumption
  <1>2. CASE PacketSize <= n
    <2>1. n - PacketSize \in 0 .. Word - 1 /\ n + Word - PacketSize = (n - PacketSize) + 1 * Word
      BY <1>1, <1>2
    <2>2. (n + Word - PacketSize) % Word = n - PacketSize
      BY <1>1, <2>1
    <2> QED
      BY <1>1, <1>2, <2>2 DEF PacketStart
  <1>3. CASE PacketSize > n
    <2>1. n + Word - PacketSize \in 0 .. Word - 1 /\ n + Word - PacketSize > n
      BY <1>1, <1>3
    <2>2. (n + Word - PacketSize) % Word = n + Word - PacketSize
      BY <1>1, <2>1
    <2> QED
      BY <1>1, <2>1, <2>2 DEF PacketStart
  <1> QED
    BY <1>1, <1>2, <1>3

-----------------------------------------------------------------------------
(* The scan. *)

ScanInv == ScanTypeOK /\ ScanOK /\ NothingIsForgotten

LEMMA ScanInitially == ScanInit => ScanInv
  <1> SUFFICES ASSUME ScanInit PROVE ScanInv
    OBVIOUS
  <1>1. ScanTypeOK
    <2>1. 0 \in Block /\ 0 \in 0 .. Word - 1
      BY ScanAssumption DEF Block
    <2> QED
      BY <2>1 DEF ScanInit, ScanTypeOK
  <1>2. ScanOK /\ NothingIsForgotten
    BY ScanAssumption DEF ScanInit, ScanOK, NothingIsForgotten
  <1> QED
    BY <1>1, <1>2 DEF ScanInv

LEMMA ScanStutters ==
    ASSUME ScanInv, UNCHANGED scanVars
    PROVE  ScanInv'
  BY DEF ScanInv, ScanTypeOK, ScanOK, NothingIsForgotten, Ahead, scanVars

\* A new block waits in the subscription, or is missed.
LEMMA BlockAppears ==
    ASSUME ScanInv, NewBlock
    PROVE  ScanInv'
  <1> USE DEF ScanInv
  <1>1. head \in Nat /\ end \in Nat /\ end <= head /\ head' = head + 1 /\ head' \in 1 .. MaxHead
    BY ScanAssumption DEF NewBlock, ScanTypeOK, ScanOK, Block
  <1>2. waiting \subseteq waiting' /\ missed \subseteq missed'
        /\ waiting' \subseteq waiting \cup {head'} /\ missed' \subseteq missed \cup {head'}
    BY DEF NewBlock
  <1>3. ScanTypeOK'
    <2>1. head' \in Block
      BY <1>1 DEF Block
    <2> QED
      BY <1>1, <1>2, <2>1 DEF NewBlock, ScanTypeOK
  <1>4. ScanOK'
    BY <1>1 DEF NewBlock, ScanOK
  <1>5. ASSUME started', NEW b \in 0 .. end'
        PROVE  b \in tried' \/ Ahead(b)'
    BY <1>5 DEF NewBlock, NothingIsForgotten, Ahead
  <1>6. ASSUME started', NEW b \in end' + 1 .. head'
        PROVE  b \in tried' \cup waiting' \cup missed'
    <2>1. CASE b = head'
      BY <1>6, <2>1 DEF NewBlock
    <2>2. CASE b # head'
      <3>1. started /\ b \in end + 1 .. head
        BY <1>1, <1>6, <2>2 DEF NewBlock
      <3> QED
        BY <1>2, <3>1 DEF NewBlock, NothingIsForgotten
    <2> QED
      BY <2>1, <2>2
  <1> QED
    BY <1>3, <1>4, <1>5, <1>6 DEF NothingIsForgotten

LEMMA ScanBegins ==
    ASSUME ScanInv, Start
    PROVE  ScanInv'
  <1> USE DEF ScanInv, Start
  <1>1. ScanTypeOK'
    BY ScanAssumption DEF ScanTypeOK, Block
  <1>2. ScanOK'
    BY DEF ScanOK, ScanTypeOK, Block
  <1>3. NothingIsForgotten'
    BY DEF NothingIsForgotten, Ahead, ScanTypeOK, ScanOK, Block
  <1> QED
    BY <1>1, <1>2, <1>3

\* What leaves the subscription is asked for or missed.
LEMMA Subscriptions ==
    ASSUME ScanInv, Subscribe \/ HandleBlock \/ Disconnect
    PROVE  ScanInv'
  <1>1. /\ UNCHANGED <<scraper, started, head, end, next, wrapped>>
        /\ subscribed' \in BOOLEAN
        /\ tried \subseteq tried' /\ waiting' \subseteq waiting
        /\ tried' \subseteq tried \cup waiting /\ missed' \subseteq missed \cup waiting
        /\ tried \cup waiting \cup missed \subseteq tried' \cup waiting' \cup missed'
    BY DEF Subscribe, HandleBlock, Disconnect
  <1>2. ScanTypeOK'
    BY <1>1 DEF ScanInv, ScanTypeOK
  <1>3. ScanOK'
    BY DEF ScanInv, ScanOK, Subscribe, HandleBlock, Disconnect
  <1>4. NothingIsForgotten'
    BY <1>1 DEF ScanInv, NothingIsForgotten, Ahead
  <1> QED
    BY <1>2, <1>3, <1>4 DEF ScanInv

LEMMA OldBlock ==
    ASSUME ScanInv, ReadOldBlock
    PROVE  ScanInv'
  <1> USE DEF ScanInv, ReadOldBlock
  <1>1. next \in 0 .. Word - 1 /\ head \in Nat /\ end \in 0 .. head /\ Word \in Nat /\ Word > 1
    BY ScanAssumption DEF ScanTypeOK, ScanOK, Block
  <1>2. next' = IF next = 0 THEN Word - 1 ELSE next - 1
    BY <1>1, Decrement
  <1>3. ScanTypeOK'
    <2>1. next' \in 0 .. Word - 1
      BY <1>1, <1>2
    <2>2. 0 .. head \subseteq Block
      BY ScanAssumption DEF ScanTypeOK, Block
    <2> QED
      BY <2>1, <2>2 DEF ScanTypeOK
  <1>4. ScanOK'
    BY DEF ScanOK
  <1>5. ASSUME NEW b \in 0 .. end'
        PROVE  b \in tried' \/ Ahead(b)'
    <2>1. b \in tried \/ Ahead(b)
      BY <1>5 DEF NothingIsForgotten
    <2>2. CASE b = next
      BY <1>1, <1>5, <2>2
    <2>3. CASE b # next /\ Ahead(b)
      <3>1. b \in Nat /\ next # 0
        BY <1>1, <1>5, <2>3 DEF Ahead
      <3>2. b <= next'
        BY <1>1, <1>2, <2>3, <3>1 DEF Ahead
      <3>3. scraper = "txes" /\ ~wrapped /\ wrapped' = (wrapped \/ next = 0) /\ scraper' = scraper
        BY <2>3 DEF Ahead
      <3>4. ~wrapped'
        BY <3>1, <3>3, Zenon
      <3> QED
        BY <3>2, <3>3, <3>4 DEF Ahead
    <2> QED
      BY <2>1, <2>2, <2>3
  <1>6. started => \A b \in end' + 1 .. head' : b \in tried' \cup waiting' \cup missed'
    BY DEF NothingIsForgotten
  <1> QED
    BY <1>3, <1>4, <1>5, <1>6 DEF NothingIsForgotten

LEMMA Packet ==
    ASSUME ScanInv, ReadPacket
    PROVE  ScanInv' /\ next' < next
  <1> USE DEF ScanInv, ReadPacket
  <1>1. next \in 1 .. Word - 1 /\ end \in Nat /\ next <= end /\ end <= MaxHead /\ MaxHead \in Nat
    BY ScanAssumption DEF ScanTypeOK, ScanOK, Block
  <1>2. next' = PacketStart(next) /\ next' \in 0 .. next - 1
    BY <1>1, PacketGoesDown
  <1>3. ScanTypeOK'
    <2>1. next' .. next \subseteq Block /\ next' \in 0 .. Word - 1
      BY <1>1, <1>2, ScanAssumption DEF Block
    <2> QED
      BY <1>2, <2>1 DEF ScanTypeOK
  <1>4. ScanOK' /\ next' < next
    BY <1>1, <1>2 DEF ScanOK
  <1>5. ASSUME NEW b \in 0 .. end'
        PROVE  b \in tried' \/ Ahead(b)'
    <2>1. b \in tried \/ Ahead(b)
      BY <1>5 DEF NothingIsForgotten
    <2>2. CASE b <= next /\ next' <= b
      BY <1>1, <1>2, <1>5, <2>2
    <2>3. CASE b <= next /\ ~(next' <= b)
      BY <1>1, <1>2, <1>5, <2>3 DEF Ahead
    <2> QED
      BY <2>1, <2>2, <2>3 DEF Ahead
  <1>6. \A b \in end' + 1 .. head' : b \in tried' \cup waiting' \cup missed'
    BY DEF NothingIsForgotten
  <1> QED
    BY <1>3, <1>4, <1>5, <1>6 DEF NothingIsForgotten

LEMMA ScanIsGone ==
    ASSUME ScanInv, ScanRestarts
    PROVE  ScanInv'
  <1>1. ScanTypeOK'
    <2>1. 0 \in Block /\ 0 \in 0 .. Word - 1
      BY ScanAssumption DEF Block
    <2> QED
      BY <2>1 DEF ScanInv, ScanRestarts, ScanTypeOK
  <1>2. ScanOK' /\ NothingIsForgotten'
    BY DEF ScanInv, ScanRestarts, ScanTypeOK, ScanOK, NothingIsForgotten
  <1> QED
    BY <1>1, <1>2 DEF ScanInv

LEMMA ScanSteps ==
    ASSUME ScanInv, Scan \/ NewBlock \/ ScanRestarts \/ UNCHANGED scanVars
    PROVE  ScanInv'
  BY BlockAppears, ScanBegins, Subscriptions, OldBlock, Packet, ScanIsGone, ScanStutters DEF Scan

-----------------------------------------------------------------------------
(* The rounds of the monitor. *)

Workers == {x \in Transfer : AtWork(x)}

RoundInv ==
    /\ RoundTypeOK /\ PanicNeedsLateStart
    /\ ~panicked => GroupOK /\ LoopOK

\* The rows are finitely many, so that a counter can count the goroutines.
LEMMA WorkersCount ==
    ASSUME RoundTypeOK
    PROVE  /\ IsFiniteSet(Workers) /\ Cardinality(Workers) \in Nat
           /\ Cardinality(Workers) = 0 <=> Workers = {}
           /\ \A x \in Transfer \ Workers : Cardinality(Workers \cup {x}) = Cardinality(Workers) + 1
           /\ \A x \in Workers : Cardinality(Workers \ {x}) = Cardinality(Workers) - 1
  <1>1. IsFiniteSet(Workers)
    BY TransferAssumption, FS_Subset DEF Workers
  <1> QED
    BY <1>1, FS_CardinalityType, FS_EmptySet, FS_AddElement, FS_RemoveElement DEF Workers

LEMMA RoundInitially == RoundInit => RoundInv
  <1> SUFFICES ASSUME RoundInit PROVE RoundInv
    OBVIOUS
  <1>1. RoundTypeOK
    BY DEF RoundInit, RoundTypeOK, EmptyGroup, Nobody
  <1>2. Workers = {}
    BY DEF RoundInit, Workers, AtWork, Nobody
  <1>3. GroupOK
    BY <1>1, <1>2, WorkersCount DEF RoundInit, GroupOK, EmptyGroup, Nobody, Workers
  <1>4. PanicNeedsLateStart /\ LoopOK
    BY DEF RoundInit, PanicNeedsLateStart, LoopOK
  <1> QED
    BY <1>1, <1>3, <1>4 DEF RoundInv

LEMMA RoundStutters ==
    ASSUME RoundInv, UNCHANGED <<loop, group, work, panicked>>,
           row' \in [Transfer -> {"pool", "block", "settled"}], late' \subseteq Transfer
    PROVE  RoundInv'
  <1>1. RoundTypeOK'
    BY DEF RoundInv, RoundTypeOK
  <1>2. PanicNeedsLateStart' /\ (~panicked' => GroupOK' /\ LoopOK')
    BY DEF RoundInv, PanicNeedsLateStart, GroupOK, LoopOK, AtWork
  <1> QED
    BY <1>1, <1>2 DEF RoundInv

\* The loop leaves a round when nobody of it is at work.
LEMMA Leaves ==
    ASSUME RoundInv, ~panicked, LeavesRound, UNCHANGED <<row, group, panicked>>,
           group.counter = 0, loop # "parked"
    PROVE  RoundInv' /\ Workers = {}
  <1>1. RoundTypeOK /\ GroupOK /\ Workers = {}
    BY WorkersCount DEF RoundInv, GroupOK, Workers
  <1>2. \A x \in Transfer : work'[x] = "none"
    BY <1>1 DEF LeavesRound, Workers
  <1>3. RoundTypeOK'
    BY <1>1 DEF RoundTypeOK, LeavesRound
  <1>4. Workers' = {}
    BY <1>2 DEF Workers, AtWork
  <1>5. Cardinality(Workers') = 0
    BY <1>4, FS_EmptySet
  <1>6. GroupOK'
    BY <1>1, <1>2, <1>5 DEF GroupOK, LeavesRound, Workers, AtWork
  <1>7. LoopOK' /\ PanicNeedsLateStart'
    BY DEF LoopOK, PanicNeedsLateStart, LeavesRound
  <1> QED
    BY <1>1, <1>3, <1>6, <1>7 DEF RoundInv

LEMMA Fetches ==
    ASSUME RoundInv, ~panicked, Fetch
    PROVE  RoundInv'
  <1>1. RoundTypeOK /\ GroupOK /\ loop = "sleep"
    BY DEF RoundInv, Fetch
  <1>2. RoundTypeOK'
    BY <1>1 DEF RoundTypeOK, Fetch, EmptyGroup
  <1>3. \A x \in Transfer : work'[x] \in {"spawned", "none"}
    BY DEF Fetch
  <1>4. Workers' = {}
    BY <1>3 DEF Workers, AtWork
  <1>5. Cardinality(Workers') = 0
    BY <1>4, FS_EmptySet
  <1>6. GroupOK'
    BY <1>3, <1>5 DEF GroupOK, Fetch, EmptyGroup, Workers
  <1>7. LoopOK' /\ PanicNeedsLateStart'
    BY DEF LoopOK, PanicNeedsLateStart, Fetch
  <1> QED
    BY <1>2, <1>6, <1>7 DEF RoundInv

LEMMA Returns ==
    ASSUME RoundInv, ~panicked, WaitReturns
    PROVE  RoundInv' /\ Workers = {}
  BY Leaves DEF WaitReturns

LEMMA Parks ==
    ASSUME RoundInv, ~panicked, WaitParks
    PROVE  RoundInv'
  <1>1. RoundTypeOK /\ GroupOK /\ loop = "wait" /\ group.counter # 0
    BY DEF RoundInv, WaitParks
  <1>2. RoundTypeOK'
    BY <1>1 DEF RoundTypeOK, WaitParks
  <1>3. group'.counter = group.counter /\ group'.waiters = 1 /\ loop' = "parked"
        /\ UNCHANGED <<row, work, late, panicked>>
    BY <1>1 DEF RoundTypeOK, WaitParks
  <1>4. Workers' = Workers
    BY <1>3 DEF Workers, AtWork
  <1>5. GroupOK'
    BY <1>1, <1>3, <1>4 DEF GroupOK, Workers
  <1>6. LoopOK' /\ PanicNeedsLateStart'
    BY <1>1, <1>3 DEF LoopOK, PanicNeedsLateStart
  <1> QED
    BY <1>2, <1>5, <1>6 DEF RoundInv

\* A group that a woken loop finds in use is in use by somebody at work.
LEMMA Wakes ==
    ASSUME RoundInv, ~panicked, WaitWakes
    PROVE  RoundInv' /\ (loop' = "sleep" => Workers = {})
  <1>1. RoundTypeOK /\ GroupOK /\ LoopOK /\ loop = "woken"
    BY DEF RoundInv, WaitWakes
  <1>2. CASE group = EmptyGroup
    <2>1. group.counter = 0 /\ LeavesRound /\ UNCHANGED <<row, group, panicked>>
      BY <1>2 DEF WaitWakes, EmptyGroup
    <2> QED
      BY <1>1, <2>1, Leaves
  <1>3. CASE group # EmptyGroup
    <2>1. panicked' = TRUE /\ UNCHANGED <<row, loop, group, work, late>>
      BY <1>3 DEF WaitWakes, Panic
    <2>2. group.counter # 0
      BY <1>1, <1>3 DEF GroupOK, EmptyGroup, RoundTypeOK
    <2>3. PICK y \in Transfer : AtWork(y)
      BY <1>1, <2>2, WorkersCount DEF GroupOK, Workers
    <2>4. PICK x \in Transfer : work[x] = "end"
      BY <1>1 DEF LoopOK
    <2>5. PanicNeedsLateStart'
      BY <2>1, <2>3, <2>4 DEF PanicNeedsLateStart, AtWork
    <2>6. RoundTypeOK'
      BY <1>1, <2>1 DEF RoundTypeOK
    <2> QED
      BY <1>1, <2>1, <2>5, <2>6 DEF RoundInv
  <1> QED
    BY <1>2, <1>3

LEMMA Adds ==
    ASSUME RoundInv, ~panicked, NEW x \in Transfer, AddOne(x)
    PROVE  RoundInv'
  <1>1. RoundTypeOK /\ GroupOK /\ LoopOK /\ work[x] = "spawned"
    BY DEF RoundInv, AddOne
  <1>2. /\ work' = [work EXCEPT ![x] = "work"]
        /\ group' = [group EXCEPT !.counter = @ + 1]
        /\ UNCHANGED <<row, loop, late>>
    BY DEF AddOne, Goes
  <1>3. /\ panicked' \in BOOLEAN
        /\ panicked' <=> group.waiters # 0 /\ group.counter = 0
    <2>1. panicked = FALSE
      BY <1>1 DEF RoundTypeOK
    <2>2. CASE group.waiters # 0 /\ group.counter = 0
      BY <2>2, Zenon DEF AddOne, Panic
    <2>3. CASE ~(group.waiters # 0 /\ group.counter = 0)
      BY <2>1, <2>3, Zenon DEF AddOne
    <2> QED
      BY <2>2, <2>3
  <1>4. RoundTypeOK'
    BY <1>1, <1>2, <1>3 DEF RoundTypeOK
  <1>5. AtWork(x)' /\ \A y \in Transfer \ {x} : work'[y] = work[y]
    BY <1>1, <1>2 DEF AtWork, RoundTypeOK
  <1>6. CASE group.waiters # 0 /\ group.counter = 0
    <2>1. loop = "parked"
      BY <1>1, <1>6 DEF GroupOK
    <2>2. PICK y \in Transfer : work[y] = "zero"
      BY <1>1, <1>6, <2>1 DEF LoopOK
    <2>3. y # x /\ work'[y] = "zero"
      BY <1>1, <1>5, <2>2
    <2>4. PanicNeedsLateStart'
      BY <1>5, <2>3 DEF PanicNeedsLateStart, AtWork
    <2> QED
      BY <1>3, <1>4, <1>6, <2>4 DEF RoundInv
  <1>7. CASE ~(group.waiters # 0 /\ group.counter = 0)
    <2>1. x \notin Workers /\ Workers' = Workers \cup {x}
      BY <1>1, <1>5 DEF Workers, AtWork
    <2>2. Cardinality(Workers') = Cardinality(Workers) + 1
      BY <1>1, <2>1, WorkersCount
    <2>3. group'.counter = group.counter + 1 /\ group'.waiters = group.waiters
      BY <1>1, <1>2 DEF RoundTypeOK
    <2>4. \A y \in Transfer : work[y] # "zero"
      BY <1>1, <1>7 DEF GroupOK, RoundTypeOK
    <2>5. \A y \in Transfer : work'[y] # "zero"
      BY <1>1, <1>2, <2>4 DEF RoundTypeOK
    <2>6. GroupOK'
      BY <1>1, <1>2, <2>2, <2>3, <2>5 DEF GroupOK, Workers
    <2>7. LoopOK'
      <3>1. group'.counter # 0
        BY <1>1, <2>3 DEF RoundTypeOK
      <3>2. loop' = "woken" => \E y \in Transfer : work'[y] = "end"
        BY <1>1, <1>2, <1>5 DEF LoopOK
      <3> QED
        BY <3>1, <3>2 DEF LoopOK
    <2>8. ~panicked'
      BY <1>3, <1>7
    <2> QED
      BY <1>4, <2>6, <2>7, <2>8 DEF RoundInv, PanicNeedsLateStart
  <1> QED
    BY <1>6, <1>7

\* Nobody takes the counter below zero, and who takes it to zero while the loop
\* waits is the only one to do so.
LEMMA Dones ==
    ASSUME RoundInv, ~panicked, NEW x \in Transfer, Done(x)
    PROVE  RoundInv'
  <1>1. RoundTypeOK /\ GroupOK /\ LoopOK /\ work[x] = "leave" /\ PanicNeedsLateStart
    BY DEF RoundInv, Done
  <1>2. x \in Workers
    BY <1>1 DEF Workers, AtWork
  <1>3. group.counter # 0 /\ group.counter = Cardinality(Workers)
    BY <1>1, <1>2, WorkersCount DEF GroupOK, Workers
  <1> DEFINE pc == IF group = [counter |-> 1, waiters |-> 1] THEN "zero" ELSE "end"
  <1>4. /\ work' = [work EXCEPT ![x] = pc]
        /\ group' = [group EXCEPT !.counter = @ - 1]
        /\ UNCHANGED <<row, loop, late, panicked>>
    BY <1>3, Zenon DEF Done, Goes
  <1>5. group'.counter = group.counter - 1 /\ group'.waiters = group.waiters
        /\ group.counter \in Nat /\ group.waiters \in {0, 1}
    BY <1>1, <1>4 DEF RoundTypeOK
  <1>6. pc = "zero" <=> group.counter = 1 /\ group.waiters = 1
    BY <1>1 DEF RoundTypeOK
  <1>7. pc \in {"zero", "end"}
    OBVIOUS
  <1> HIDE DEF pc
  <1>8. RoundTypeOK'
    BY <1>1, <1>3, <1>4, <1>7 DEF RoundTypeOK
  <1>9. work'[x] = pc /\ \A y \in Transfer \ {x} : work'[y] = work[y]
    BY <1>1, <1>4 DEF RoundTypeOK
  <1>10. Workers' = Workers \ {x}
    BY <1>7, <1>9 DEF Workers, AtWork
  <1>11. Cardinality(Workers') = Cardinality(Workers) - 1
    BY <1>1, <1>2, <1>10, WorkersCount
  <1>12. \A y \in Transfer : work[y] # "zero"
    BY <1>1, <1>3 DEF GroupOK
  <1>13. GroupOK'
    <2>1. group'.counter = Cardinality(Workers') /\ group'.waiters = IF loop' = "parked" THEN 1 ELSE 0
      BY <1>1, <1>3, <1>4, <1>5, <1>11 DEF GroupOK
    <2>2. ASSUME NEW y \in Transfer, work'[y] = "zero"
          PROVE  y = x /\ loop' = "parked" /\ group'.counter = 0
      <3>1. y = x /\ pc = "zero"
        BY <1>9, <1>12, <2>2
      <3>2. group.counter = 1 /\ group.waiters = 1
        BY <1>6, <3>1
      <3> QED
        BY <1>1, <1>4, <1>5, <3>1, <3>2 DEF GroupOK
    <2> QED
      BY <2>1, <2>2 DEF GroupOK, Workers
  <1>14. LoopOK'
    <2>1. ASSUME loop' = "parked", group'.counter = 0
          PROVE  \E y \in Transfer : work'[y] = "zero"
      <3>1. group.counter = 1 /\ group.waiters = 1
        BY <1>1, <1>4, <1>5, <2>1 DEF GroupOK
      <3> QED
        BY <1>6, <1>9, <3>1
    <2>2. ASSUME loop' = "woken"
          PROVE  \E y \in Transfer : work'[y] = "end"
      BY <1>1, <1>4, <1>9, <2>2 DEF LoopOK
    <2> QED
      BY <2>1, <2>2 DEF LoopOK
  <1>15. ~panicked'
    BY <1>4
  <1> QED
    BY <1>8, <1>13, <1>14, <1>15 DEF RoundInv, PanicNeedsLateStart

LEMMA Releases ==
    ASSUME RoundInv, ~panicked, NEW x \in Transfer, Release(x)
    PROVE  RoundInv'
  <1>1. RoundTypeOK /\ GroupOK /\ LoopOK /\ work[x] = "zero"
    BY DEF RoundInv, Release
  <1>2. group.counter = 0 /\ \A y \in Transfer \ {x} : work[y] # "zero"
    BY <1>1 DEF GroupOK
  <1>3. /\ work' = [work EXCEPT ![x] = "end"] /\ group' = EmptyGroup /\ loop' = "woken"
        /\ UNCHANGED <<row, late, panicked>>
    BY <1>2 DEF Release, Goes
  <1>4. RoundTypeOK'
    BY <1>1, <1>3 DEF RoundTypeOK, EmptyGroup
  <1>5. work'[x] = "end" /\ \A y \in Transfer \ {x} : work'[y] = work[y]
    BY <1>1, <1>3 DEF RoundTypeOK
  <1>6. Workers' = Workers
    BY <1>1, <1>5 DEF Workers, AtWork
  <1>7. GroupOK'
    BY <1>1, <1>2, <1>3, <1>5, <1>6 DEF GroupOK, Workers, EmptyGroup
  <1>8. LoopOK' /\ ~panicked'
    BY <1>3, <1>5 DEF LoopOK
  <1> QED
    BY <1>4, <1>7, <1>8 DEF RoundInv, PanicNeedsLateStart

LEMMA Works ==
    ASSUME RoundInv, ~panicked, NEW x \in Transfer, Work(x)
    PROVE  RoundInv'
  <1>1. RoundTypeOK /\ GroupOK /\ LoopOK /\ work[x] = "work"
    BY DEF RoundInv, Work
  <1>2. /\ work' = [work EXCEPT ![x] = "leave"]
        /\ row' \in [Transfer -> {"pool", "block", "settled"}]
        /\ UNCHANGED <<loop, group, late, panicked>>
    BY <1>1 DEF Work, Goes, Settle, RoundTypeOK
  <1>3. RoundTypeOK'
    BY <1>1, <1>2 DEF RoundTypeOK
  <1>4. work'[x] = "leave" /\ \A y \in Transfer \ {x} : work'[y] = work[y]
    BY <1>1, <1>2 DEF RoundTypeOK
  <1>5. Workers' = Workers
    BY <1>1, <1>4 DEF Workers, AtWork
  <1>6. GroupOK'
    BY <1>1, <1>2, <1>4, <1>5 DEF GroupOK, Workers
  <1>7. LoopOK' /\ ~panicked'
    BY <1>1, <1>2, <1>4 DEF LoopOK
  <1> QED
    BY <1>3, <1>6, <1>7 DEF RoundInv, PanicNeedsLateStart

LEMMA Beside ==
    ASSUME RoundInv, NEW x \in Transfer, WorkLate(x) \/ Mine(x) \/ SettledElsewhere(x)
    PROVE  RoundInv'
  <1>1. row' \in [Transfer -> {"pool", "block", "settled"}] /\ late' \subseteq Transfer
        /\ UNCHANGED <<loop, group, work, panicked>>
    BY DEF RoundInv, RoundTypeOK, WorkLate, Mine, Settle, SettledElsewhere
  <1> QED
    BY <1>1, RoundStutters

LEMMA RoundIsGone ==
    ASSUME RoundInv, MonitorRestarts
    PROVE  RoundInv'
  <1>1. RoundTypeOK'
    BY DEF RoundInv, RoundTypeOK, MonitorRestarts, EmptyGroup, Nobody
  <1>2. \A x \in Transfer : work'[x] = "none"
    BY DEF MonitorRestarts, Nobody
  <1>3. Workers' = {}
    BY <1>2 DEF Workers, AtWork
  <1>4. Cardinality(Workers') = 0
    BY <1>3, FS_EmptySet
  <1>5. GroupOK'
    BY <1>2, <1>4 DEF GroupOK, MonitorRestarts, EmptyGroup, Workers
  <1>6. LoopOK' /\ PanicNeedsLateStart'
    BY DEF LoopOK, PanicNeedsLateStart, MonitorRestarts
  <1> QED
    BY <1>1, <1>5, <1>6 DEF RoundInv

\* The loop goes back to sleep only through a Wait that found nobody at work.
LEMMA RoundSteps ==
    ASSUME RoundInv, ~panicked, Monitor
    PROVE  RoundInv' /\ (loop # "sleep" /\ loop' = "sleep" => Workers = {})
  <1>1. CASE Fetch
    <2>1. loop = "sleep"
      BY <1>1 DEF Fetch
    <2> QED
      BY <1>1, <2>1, Fetches
  <1>2. CASE WaitReturns
    BY <1>2, Returns
  <1>3. CASE WaitParks
    BY <1>3, Parks DEF WaitParks
  <1>4. CASE WaitWakes
    BY <1>4, Wakes
  <1>5. ASSUME NEW x \in Transfer, Goroutine(x) \/ SettledElsewhere(x)
        PROVE  RoundInv' /\ (loop' = loop \/ loop' = "woken")
    <2>1. CASE AddOne(x)
      BY <2>1, Adds DEF AddOne
    <2>2. CASE Work(x)
      BY <2>2, Works DEF Work
    <2>3. CASE Done(x)
      BY <2>3, Dones DEF Done
    <2>4. CASE Release(x)
      BY <2>4, Releases DEF Release
    <2>5. CASE WorkLate(x)
      BY <2>5, Beside DEF WorkLate
    <2>6. CASE SettledElsewhere(x)
      BY <2>6, Beside DEF SettledElsewhere
    <2> QED
      BY <1>5, <2>1, <2>2, <2>3, <2>4, <2>5, <2>6 DEF Goroutine
  <1> QED
    BY <1>1, <1>2, <1>3, <1>4, <1>5 DEF Monitor

-----------------------------------------------------------------------------
(* Theorems. *)

LEMMA Parts == IInv <=> ScanInv /\ RoundInv
  BY DEF IInv, TypeOK, ScanInv, RoundInv

LEMMA PartsNext == IInv' <=> ScanInv' /\ RoundInv'
  BY DEF IInv, TypeOK, ScanInv, RoundInv

LEMMA StepKeeps ==
    ASSUME IInv, [Next]_vars
    PROVE  IInv'
  <1>1. ScanInv /\ RoundInv
    BY Parts
  <1>2. CASE UNCHANGED vars
    <2>1. UNCHANGED scanVars /\ UNCHANGED roundVars
      BY <1>2 DEF vars, scanVars, roundVars
    <2>2. RoundInv'
      BY <1>1, <2>1, RoundStutters DEF roundVars, RoundInv, RoundTypeOK
    <2> QED
      BY <1>1, <2>1, <2>2, ScanStutters, PartsNext
  <1>3. ASSUME Scan \/ NewBlock, UNCHANGED roundVars
        PROVE  IInv'
    <2>1. RoundInv'
      BY <1>1, <1>3, RoundStutters DEF roundVars, RoundInv, RoundTypeOK
    <2> QED
      BY <1>1, <1>3, <2>1, ScanSteps, PartsNext
  <1>4. ASSUME RoundInv', UNCHANGED scanVars
        PROVE  IInv'
    BY <1>1, <1>4, ScanStutters, PartsNext
  <1>5. CASE Environment
    BY <1>1, <1>3, <1>4, <1>5, Beside DEF Environment
  <1>6. CASE Service
    BY <1>1, <1>3, <1>4, <1>6, RoundSteps DEF Service
  <1>7. CASE Restart
    BY <1>1, <1>7, ScanSteps, RoundIsGone, PartsNext DEF Restart
  <1> QED
    BY <1>2, <1>5, <1>6, <1>7 DEF Next

\* The inductive invariant holds: the scan has come to every block down to where it
\* is, and the counter of the group counts the goroutines at work.
THEOREM Invariance == Spec => []IInv
  <1>1. Init => IInv
    BY ScanInitially, RoundInitially, Parts DEF Init
  <1>2. IInv /\ [Next]_vars => IInv'
    BY StepKeeps
  <1> QED
    BY <1>1, <1>2, PTL DEF Spec

\* A block that was there at the start is asked for or still ahead, whatever an
\* earlier run of the service has missed; a later one escapes only by appearing
\* while there is no subscription, or by being dropped with one.
THEOREM NoBlockIsForgotten == Spec => []NothingIsForgotten
  <1>1. IInv => NothingIsForgotten
    BY DEF IInv
  <1> QED
    BY <1>1, Invariance, PTL

\* The WaitGroup panics only when a goroutine of a round begins after another has
\* been the last at work: never with a single row.
THEOREM OnlyLateStartsPanic == Spec => []PanicNeedsLateStart
  <1>1. IInv => PanicNeedsLateStart
    BY DEF IInv
  <1> QED
    BY <1>1, Invariance, PTL

\* The loop over packets descends, whatever the sizes of word and packet.
THEOREM PacketsGoDown == Spec => PacketsDescend
  <1> DEFINE Down == scraper = "events" /\ started /\ started' /\ next' # next => next' < next
  <1>1. IInv /\ [Next]_vars => [Down]_scanVars
    <2> SUFFICES ASSUME IInv, Next, scraper = "events", started, started', next' # next
                 PROVE  next' < next
      BY DEF vars, scanVars
    <2>1. ScanInv
      BY Parts
    <2>2. CASE ReadPacket
      BY <2>1, <2>2, Packet
    <2>3. ReadPacket
      BY DEF Next, Environment, Service, Restart, Scan, scanVars, NewBlock, Start, Subscribe,
             HandleBlock, Disconnect, ReadOldBlock, ScanRestarts
    <2> QED
      BY <2>2, <2>3
  <1> QED
    BY <1>1, Invariance, PTL DEF Spec, PacketsDescend

\* Until the process ends, the loop leaves a round only when nobody of it is at
\* work, although goroutines add themselves to the group.
THEOREM RoundsDoNotOverlap == Spec => WaitIsABarrier
  <1> DEFINE Barrier == loop # "sleep" /\ loop' = "sleep" /\ started' =>
                            \A x \in Transfer : ~AtWork(x)
  <1>1. IInv /\ [Next]_vars => [Barrier]_vars
    <2> SUFFICES ASSUME IInv, Next, loop # "sleep", loop' = "sleep", started'
                 PROVE  \A x \in Transfer : ~AtWork(x)
      OBVIOUS
    <2>1. RoundInv
      BY Parts
    <2>2. CASE Service
      <3>1. ~panicked /\ Monitor
        BY <2>2 DEF Service, roundVars
      <3>2. Workers = {}
        BY <2>1, <3>1, RoundSteps
      <3> QED
        BY <3>2 DEF Workers
    <2>3. CASE Environment
      BY <2>3 DEF Environment, roundVars, Mine
    <2>4. CASE Restart
      BY <2>4 DEF Restart, ScanRestarts
    <2> QED
      BY <2>2, <2>3, <2>4 DEF Next
  <1> QED
    BY <1>1, Invariance, PTL DEF Spec, WaitIsABarrier
=============================================================================
