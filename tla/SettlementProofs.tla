-------------------------- MODULE SettlementProofs --------------------------
(***************************************************************************)
(* What becomes of the rows of a pair when several goroutines work on the  *)
(* same top-up, for any number of users, pairs, calls and top-ups and      *)
(* under every combination of the faults: whoever saves late takes no      *)
(* completed row back, and a tax that is taken alone is told of.           *)
(***************************************************************************)
EXTENDS GaslessProofs

-----------------------------------------------------------------------------
(* What the steps may do: to calls, to rows, to goroutines, to a pair.       *)

\* A call neither begins anew nor goes on after its end; hashes it takes into
\* memory are those of the table.
CallAdvances(c) ==
    /\ call'[c].pc = "idle" => call[c].pc = "idle"
    /\ call[c].pc = "done" => call'[c].pc = "done"
    /\ \A i \in TokenId :
          call'[c].mem[i].hash \in {call[c].mem[i].hash, transfers[i].hash, NULL}
    /\ CallHolds(c)'

\* The hash of a row stays, is one that a confirmation holds, or nobody has sent
\* the row without saving it.
HashGoes(i) ==
    \/ transfers'[i].hash \in {transfers[i].hash, NULL}
    \/ \E c \in ConfirmCall : transfers'[i].hash = call[c].mem[i].hash
    \/ \A k \in Job : job'[k].mem[i].status # "pending"

RowGoes(i) ==
    /\ HashGoes(i)
    /\ transfers[i].topUp # NULL => transfers'[i].topUp # NULL
    /\ transfers'[i].topUp # NULL =>
          transfers[i].topUp # NULL \/ \E c \in {i[1]} \X Attempt : call'[c].pc = "done"
    /\ transfers'[i].nonce = transfers[i].nonce \/ transfers[i].status = "absent"
    /\ Known(i)' => Known(i) \/ transfers[i].topUp # NULL

\* A goroutine sends rows that the node does not have, and is done when it has
\* sent what it holds.
JobSends(j) ==
    /\ job'[j].pc \in {"settle", "save"} => job'[j].todo = {}
    /\ \A i \in Loaded(job'[j].mem) :
          /\ transfers[i].topUp # NULL
          /\ job'[j].mem[i].nonce = transfers[i].nonce
          /\ job'[j].mem[i].status = "pending" => job[j].mem[i].status = "pending" \/ ~Known(i)
          /\ job'[j].pc \in Sending \cup {"settle", "save"} =>
                i \in job'[j].todo \/ job'[j].mem[i].status = "pending"

\* One goroutine moves, or all of them are gone.
OneJob ==
    \A j, k \in Job :
        job'[j] = job[j] \/ job'[k] = job[k] \/ j = k \/ job'[j] = IdleJob

\* A row that waits for a top-up keeps it and, unsent, is at most failed.
LegGoes(i) ==
    /\ transfers'[i].topUp = transfers[i].topUp
    /\ Known(i) => Known(i)'
    /\ transfers[i].topUp # NULL /\ ~Known(i)' =>
          transfers'[i].status \in {transfers[i].status, "failed"}

TokenTold(p) == transfers[TokenOf(p)].status = "failed"

\* A goroutine takes the rows of its top-up, the tax alone only when the transfer
\* is sent or failed.
JobFollows(j, p) ==
    /\ \A i \in Legs(p) \cap Loaded(job'[j].mem) :
          i \in Loaded(job[j].mem) \/ transfers[i].topUp = TopUp(j)
    /\ job'[j].pc \in Sending /\ TaxOf(p) \in job'[j].todo =>
          \/ TokenOf(p) \in job'[j].todo \/ Known(TokenOf(p))' \/ TokenTold(p)
          \/ /\ job[j].pc \in Sending
             /\ TaxOf(p) \in job[j].todo /\ TokenOf(p) \notin job[j].todo

PairGoes(p) ==
    /\ \A i \in Legs(p) : LegGoes(i)
    /\ Known(TaxOf(p))' => Known(TaxOf(p)) \/ Known(TokenOf(p)) \/ TokenTold(p)
    /\ \A j \in Job : JobFollows(j, p)

-----------------------------------------------------------------------------
(* Such steps keep the invariant. *)

\* The rows of a pair are two token rows.
LEMMA PairRows ==
  ASSUME NEW p \in Pair
  PROVE  /\ TokenOf(p) \in TokenId /\ TaxOf(p) \in TokenId /\ TokenOf(p) # TaxOf(p)
         /\ Legs(p) = {TokenOf(p), TaxOf(p)}
         /\ TokenOf(p)[1] = p /\ TaxOf(p)[1] = p
  BY SMT DEF TokenOf, TaxOf, Legs, TokenId

\* A token row is one of the rows of its pair.
LEMMA RowOfPair ==
  ASSUME NEW i \in TokenId
  PROVE  /\ i[1] \in Pair /\ i \in Legs(i[1])
         /\ i = TokenOf(i[1]) \/ i = TaxOf(i[1])
         /\ \A p \in Pair : i \in Legs(p) => i[1] = p
  BY SMT DEF TokenOf, TaxOf, Legs, TokenId

\* No row is in two calls' pairs; a call is one of its pair.
LEMMA CallOfPair ==
  ASSUME NEW c \in ConfirmCall
  PROVE  /\ c \in {c[1]} \X Attempt
         /\ \A i \in Legs(c[1]) : i[1] = c[1]
         /\ \A p \in Pair : {p} \X Attempt \subseteq ConfirmCall
  BY SMT DEF ConfirmCall, Legs

\* Who has a row in mind as sent holds it, and the node has it.
LEMMA PendingIsHeld ==
  ASSUME IInv, NEW j \in Job, NEW i \in TokenId, job[j].mem[i].status = "pending"
  PROVE  i \in Loaded(job[j].mem) /\ Known(i) /\ job[j].mem[i].hash = i
<1>1. NoRow.status = "absent"
  BY SMT DEF NoRow
<1>2. i \in Loaded(job[j].mem)
  BY <1>1, SMT DEF Loaded
<1>3. JobRowOK(i, job[j].mem[i], TopUp(j))
  BY <1>2, Zenon DEF IInv, JobOK
<1>4. job[j].mem[i].hash = i /\ HashOK(i, job[j].mem[i])
  BY <1>3, Zenon DEF JobRowOK
<1>5. i # NULL
  BY IdsDiffer
<1> QED
  BY <1>2, <1>4, <1>5, Zenon DEF HashOK

\* Nobody has the hash of a transaction that the node does not have.
LEMMA UnsentIsUnsaved ==
  ASSUME IInv, NEW j \in Job, NEW i \in TokenId, ~Known(i)
  PROVE  Unsaved(j, i)
<1>1. transfers[i].hash = NULL
  BY Zenon DEF IInv, TokenRowOK, HashOK
<1>2. ASSUME NEW c \in ConfirmCall
      PROVE  call[c].mem[i].hash = NULL
  <2>1. CASE i \in Loaded(call[c].mem)
    <3>1. CallRowOK(i, call[c].mem[i], c[1])
      BY <2>1, Zenon DEF IInv, CallOK
    <3> QED
      BY <3>1, Zenon DEF CallRowOK, HashOK
  <2>2. CASE i \notin Loaded(call[c].mem)
    <3>1. call[c].mem[i] = NoRow
      BY <2>2, Zenon DEF Loaded
    <3> QED
      BY <3>1, SMT DEF NoRow
  <2> QED
    BY <2>1, <2>2
<1>3. \A k \in Job : job[k].mem[i].status # "pending"
  BY PendingIsHeld, Zenon
<1> QED
  BY <1>1, <1>2, <1>3, Zenon DEF Unsaved

\* What a goroutine has sent and not saved, nobody else has saved after the step.
LEMMA UnsavedStays ==
  ASSUME IInv, RaceInv, \A c \in ConfirmCall : CallAdvances(c), \A k \in Job : JobSends(k), OneJob,
         NEW j \in Job, NEW i \in TokenId, HashGoes(i), IInv',
         job'[j].mem[i].status = "pending"
  PROVE  Unsaved(j, i)'
<1>1. \A k \in Job : job[k].mem[i].status = "pending" => Unsaved(k, i)
  BY PendingIsHeld, Zenon DEF RaceInv, SentOK
<1>2. \A k \in Job : job'[k].mem[i].status = "pending" => i \in Loaded(job'[k].mem)
  <2>1. NoRow.status # "pending"
    BY SMT DEF NoRow
  <2> QED
    BY <2>1, Zenon DEF Loaded
<1>3. \A k \in Job : job'[k].mem[i].status = "pending" =>
         job[k].mem[i].status = "pending" \/ ~Known(i)
  BY <1>2, Zenon DEF JobSends
<1>4. Unsaved(j, i)
  BY <1>1, <1>3, UnsentIsUnsaved, Zenon
<1>5. transfers'[i].hash = NULL
  BY <1>4, SMT DEF HashGoes, Unsaved
<1>6. \A c \in ConfirmCall : call'[c].mem[i].hash = NULL
  BY <1>4, SMT DEF CallAdvances, Unsaved
<1>7. ASSUME NEW k \in Job, job'[k].mem[i].status = "pending", k # j
      PROVE  FALSE
  <2>1. CASE job'[k] = job[k]
    BY <1>4, <1>7, <2>1, Zenon DEF Unsaved
  <2>2. CASE job'[j] = job[j]
    <3>1. job[j].mem[i].status = "pending"
      BY <2>2, Zenon
    <3>2. Known(i)
      BY <3>1, PendingIsHeld
    <3> QED
      BY <1>3, <1>4, <1>7, <3>2, Zenon DEF Unsaved
  <2>3. CASE job'[j] = IdleJob
    <3>1. job'[j].mem[i] = NoRow
      BY <2>3, SMT DEF IdleJob, Nothing
    <3> QED
      BY <3>1, SMT DEF NoRow
  <2> QED
    BY <1>7, <2>1, <2>2, <2>3, Zenon DEF OneJob
<1> QED
  BY <1>5, <1>6, <1>7, Zenon DEF Unsaved

\* What is true of the rows, the calls and the goroutines.
LEMMA RaceFrame ==
  ASSUME IInv, RaceInv, IInv', \A c \in ConfirmCall : CallAdvances(c),
         \A i \in TokenId : RowGoes(i), \A k \in Job : JobSends(k), OneJob
  PROVE  /\ \A i \in TokenId : LinkOK(i)'
         /\ \A c \in ConfirmCall : CallHolds(c)'
         /\ \A j \in Job : SentOK(j)'
<1>1. ASSUME NEW i \in TokenId
      PROVE  LinkOK(i)'
  <2>1. LinkOK(i) /\ RowGoes(i)
    BY Zenon DEF RaceInv
  <2>2. {i[1]} \X Attempt \subseteq ConfirmCall
    BY CallOfPair, RowOfPair, SMT DEF ConfirmCall
  <2>3. transfers'[i].topUp # NULL => \E c \in {i[1]} \X Attempt : call'[c].pc = "done"
    BY <2>1, <2>2, Zenon DEF LinkOK, RowGoes, CallAdvances
  <2>4. Known(i)' => transfers'[i].topUp # NULL
    BY <2>1, Zenon DEF LinkOK, RowGoes
  <2> QED
    BY <2>3, <2>4, Zenon DEF LinkOK
<1>2. \A c \in ConfirmCall : CallHolds(c)'
  BY Zenon DEF CallAdvances
<1>3. ASSUME NEW j \in Job
      PROVE  SentOK(j)'
  <2>1. JobSends(j) /\ JobOK(j)'
    BY Zenon DEF IInv
  <2>2. ASSUME NEW i \in Loaded(job'[j].mem)
        PROVE  /\ transfers'[i].topUp # NULL
               /\ job'[j].mem[i].nonce = transfers'[i].nonce
               /\ job'[j].mem[i].status = "pending" => Unsaved(j, i)'
               /\ job'[j].pc \in Sending \cup {"settle", "save"} =>
                     i \in job'[j].todo \/ job'[j].mem[i].status = "pending"
    <3>1. i \in TokenId
      BY Zenon DEF Loaded
    <3>2. /\ transfers[i].topUp # NULL /\ job'[j].mem[i].nonce = transfers[i].nonce
          /\ job'[j].pc \in Sending \cup {"settle", "save"} =>
                i \in job'[j].todo \/ job'[j].mem[i].status = "pending"
      BY <2>1, Zenon DEF JobSends
    <3>3. Taken(i)
      BY <3>1, <3>2, Zenon DEF IInv, TokenRowOK
    <3>4. transfers[i].status # "absent"
      BY <3>3, SMT DEF Taken
    <3>5. RowGoes(i)
      BY <3>1
    <3>6. transfers'[i].topUp # NULL /\ job'[j].mem[i].nonce = transfers'[i].nonce
      BY <3>2, <3>4, <3>5, Zenon DEF RowGoes
    <3>7. job'[j].mem[i].status = "pending" => Unsaved(j, i)'
      BY <3>1, <3>5, UnsavedStays, Zenon DEF RowGoes
    <3> QED
      BY <3>2, <3>6, <3>7
  <2>3. job'[j].pc \in {"settle", "save"} => job'[j].todo = {}
    BY <2>1, Zenon DEF JobSends
  <2> QED
    BY <2>2, <2>3, Zenon DEF SentOK
<1> QED
  BY <1>1, <1>2, <1>3

\* Confirmed once after the step, a pair was confirmed once before it.
LEMMA OnceBefore ==
  ASSUME \A c \in ConfirmCall : CallAdvances(c), NEW p \in Pair, Once(p)'
  PROVE  Once(p)
<1>1. {p} \X Attempt \subseteq ConfirmCall
  BY SMT DEF ConfirmCall
<1> QED
  BY <1>1, Zenon DEF Once, CallAdvances

\* What is true of a pair that was confirmed once.
LEMMA PairFrame ==
  ASSUME IInv, RaceInv, IInv', \A c \in ConfirmCall : CallAdvances(c),
         \A i \in TokenId : RowGoes(i), NEW p \in Pair, Once(p)', PairGoes(p)
  PROVE  PairOK(p)'
<1> DEFINE token == TokenOf(p)
           tax == TaxOf(p)
<1>1. /\ token \in TokenId /\ tax \in TokenId /\ token \in Legs(p) /\ tax \in Legs(p)
      /\ Legs(p) = {token, tax} /\ token' = token /\ tax' = tax
  BY PairRows, SMT DEF TokenOf, TaxOf
<1>2. PairOK(p) /\ LegGoes(token) /\ LegGoes(tax)
  BY <1>1, OnceBefore, Zenon DEF RaceInv, PairGoes
<1>3. (transfers[token].topUp = transfers[tax].topUp)'
  BY <1>1, <1>2, Zenon DEF PairOK, LegGoes
<1>4. ASSUME NEW i \in Legs(p), transfers'[i].topUp # NULL, ~Known(i)'
      PROVE  transfers'[i].status \in {"queued", "failed"}
  <2>1. LegGoes(i) /\ transfers[i].topUp # NULL /\ ~Known(i)
    BY <1>4, Zenon DEF PairGoes, LegGoes
  <2>2. transfers[i].status \in {"queued", "failed"}
    BY <1>2, <2>1, Zenon DEF PairOK
  <2> QED
    BY <1>4, <2>1, <2>2, SMT DEF LegGoes
<1>5. ASSUME NEW j \in Job, NEW i \in Legs(p) \cap Loaded(job'[j].mem)
      PROVE  transfers'[i].topUp = TopUp(j)
  <2>1. JobFollows(j, p) /\ LegGoes(i)
    BY Zenon DEF PairGoes
  <2>2. transfers[i].topUp = TopUp(j)
    BY <1>2, <2>1, Zenon DEF JobFollows, PairOK
  <2> QED
    BY <2>1, <2>2, Zenon DEF LegGoes
\* A transfer that has failed and is not sent stays so.
<1>6. TokenTold(p) /\ transfers[token].topUp # NULL => Known(token)' \/ TokenTold(p)'
  BY <1>1, <1>2, SMT DEF TokenTold, LegGoes
<1>7. ASSUME NEW j \in Job, job'[j].pc \in Sending, tax \in job'[j].todo
      PROVE  token \in job'[j].todo \/ Known(token)' \/ TokenTold(p)'
  <2>1. tax \in Legs(p) \cap Loaded(job'[j].mem)
    BY <1>1, <1>7, Zenon DEF IInv, JobOK
  <2>2. transfers'[tax].topUp = TopUp(j) /\ TopUp(j) # NULL
    BY <1>5, <2>1, TopUpType, IdsDiffer, Zenon
  <2>3. transfers[token].topUp # NULL
    BY <1>2, <2>2, Zenon DEF PairOK, LegGoes
  <2>4. \/ token \in job'[j].todo \/ Known(token)' \/ TokenTold(p)
        \/ job[j].pc \in Sending /\ tax \in job[j].todo /\ token \notin job[j].todo
    BY <1>7, Zenon DEF PairGoes, JobFollows
  <2>5. job[j].pc \in Sending /\ tax \in job[j].todo /\ token \notin job[j].todo =>
           Known(token) \/ TokenTold(p)
    BY <1>2, Zenon DEF PairOK, TaxFollows, TokenTold
  <2> QED
    BY <1>2, <1>6, <2>3, <2>4, <2>5, Zenon DEF LegGoes
<1>8. Known(tax)' => Known(token)' \/ TokenTold(p)'
  <2> SUFFICES ASSUME Known(tax)'
               PROVE  Known(token)' \/ TokenTold(p)'
    OBVIOUS
  <2>1. Known(token) \/ TokenTold(p)
    BY <1>1, <1>2, Zenon DEF PairGoes, PairOK, TokenTold
  <2>2. transfers[token].topUp # NULL \/ Known(token)
    <3>1. Known(tax) \/ transfers[tax].topUp # NULL
      BY <1>1, Zenon DEF RowGoes
    <3>2. transfers[tax].topUp # NULL
      BY <1>1, <3>1, Zenon DEF RaceInv, LinkOK
    <3> QED
      BY <1>2, <3>2, Zenon DEF PairOK
  <2> QED
    BY <1>2, <1>6, <2>1, <2>2, Zenon DEF LegGoes
<1> QED
  BY <1>1, <1>3, <1>4, <1>5, <1>7, <1>8, Zenon DEF PairOK, TaxFollows, TokenTold

-----------------------------------------------------------------------------
(* Confirmations: what their steps do to the calls                           *)

\* A call that stays as it is.
LEMMA CallStays ==
  ASSUME RaceInv, NEW c \in ConfirmCall, call'[c] = call[c]
  PROVE  CallAdvances(c)
  BY Zenon DEF RaceInv, CallAdvances, CallHolds

\* A call that ends or answers with an error.
LEMMA CallEnds ==
  ASSUME IInv, RaceInv, NEW c \in ConfirmCall,
         Return(c) \/ (Reject(c) /\ call[c].pc # "done")
  PROVE  \A d \in ConfirmCall : CallAdvances(d)
<1>1. call \in [ConfirmCall -> CallState]
  BY Zenon DEF IInv, TypeOK
<1>2. /\ call'[c].pc \in {"reject", "done"} /\ call'[c].mem = Nothing
      /\ call[c].pc = "done" => call'[c].pc = "done"
      /\ \A d \in ConfirmCall : d # c => call'[d] = call[d]
  BY <1>1, RejectEffect, ReturnEffect, SMT
<1>3. \A i \in TokenId : Nothing[i].hash = NULL
  BY SMT DEF Nothing, NoRow
<1>4. CallAdvances(c)
  BY <1>2, <1>3, SMT DEF CallAdvances, CallHolds
<1> QED
  BY <1>2, <1>4, CallStays, Zenon

\* A call that goes on with what it holds.
LEMMA CallGoesOn ==
  ASSUME IInv, RaceInv, NEW c \in ConfirmCall, NEW pc \in CallPc \ {"idle"},
         NEW todo \in SUBSET TokenId, Goto(c, pc, todo), call[c].pc # "done",
         pc \in {"record", "save"} => Legs(c[1]) \subseteq Loaded(call[c].mem)
  PROVE  \A d \in ConfirmCall : CallAdvances(d)
<1>1. call \in [ConfirmCall -> CallState] /\ pc \in CallPc
  BY Zenon DEF IInv, TypeOK
<1>2. /\ call'[c].pc = pc /\ call'[c].mem = call[c].mem
      /\ \A d \in ConfirmCall : d # c => call'[d] = call[d]
  BY <1>1, GotoEffect, Zenon
<1>3. CallAdvances(c)
  BY <1>2, SMT DEF CallAdvances, CallHolds
<1> QED
  BY <1>2, <1>3, CallStays, Zenon

\* Whatever step a confirmation makes.
LEMMA ConfirmGoes ==
  ASSUME IInv, RaceInv, NEW c \in ConfirmCall, CallWhole(c), ConfirmTransfer(c)
  PROVE  /\ \A d \in ConfirmCall : CallAdvances(d)
         /\ \A d \in ConfirmCall : d # c => call'[d] = call[d]
         /\ call[c].pc # "done" /\ call'[c].pc # "idle"
<1>1. /\ call \in [ConfirmCall -> CallState] /\ call[c].todo \in SUBSET TokenId
      /\ Legs(c[1]) \in SUBSET TokenId /\ {} \in SUBSET TokenId
  BY LegsType, Zenon DEF IInv, TypeOK, CallState
<1> DEFINE Goal == /\ \A d \in ConfirmCall : CallAdvances(d)
                   /\ \A d \in ConfirmCall : d # c => call'[d] = call[d]
                   /\ call[c].pc # "done" /\ call'[c].pc # "idle"
<1>2. ASSUME call[c].pc # "done", Reject(c) \/ Return(c)
      PROVE  Goal
  <2>1. call'[c].pc \in {"reject", "done"} /\ \A d \in ConfirmCall : d # c => call'[d] = call[d]
    BY <1>1, <1>2, RejectEffect, ReturnEffect, SMT
  <2>2. \A d \in ConfirmCall : CallAdvances(d)
    BY <1>2, CallEnds
  <2>3. call'[c].pc # "idle"
    BY <2>1, SMT
  <2> QED
    BY <1>2, <2>1, <2>2, <2>3
<1>3. ASSUME NEW pc \in CallPc \ {"idle"}, NEW todo \in SUBSET TokenId,
             Goto(c, pc, todo), call[c].pc # "done",
             pc \in {"record", "save"} => Legs(c[1]) \subseteq Loaded(call[c].mem)
      PROVE  Goal
  <2>1. call'[c].pc = pc /\ \A d \in ConfirmCall : d # c => call'[d] = call[d]
    BY <1>1, <1>3, GotoEffect, Zenon
  <2>2. \A d \in ConfirmCall : CallAdvances(d)
    BY <1>3, CallGoesOn, Zenon
  <2> QED
    BY <1>3, <2>1, <2>2, Zenon
\* Steps that leave more than the place changed, and no later place than "send".
<1>4. ASSUME call[c].pc # "done", call'[c].pc \in {"validate", "fund", "mark", "send"},
             \A d \in ConfirmCall : d # c => call'[d] = call[d],
             \A i \in TokenId :
                call'[c].mem[i].hash \in {call[c].mem[i].hash, transfers[i].hash, NULL}
      PROVE  Goal
  <2>1. CallAdvances(c) /\ call'[c].pc # "idle"
    BY <1>4, SMT DEF CallAdvances, CallHolds
  <2>2. \A d \in ConfirmCall : CallAdvances(d)
    BY <1>4, <2>1, CallStays, Zenon
  <2> QED
    BY <1>4, <2>1, <2>2
<1>5. {"mark", "load", "validate", "reject", "record", "save"} \subseteq CallPc \ {"idle"}
  BY SMT DEF CallPc
<1>6. CASE StartConfirm(c)
  <2>1. call[c].pc # "done"
    <3>1. call[c].pc = "idle"
      BY <1>6, Zenon DEF StartConfirm
    <3> QED
      BY <3>1, SMT
  <2>2. CASE Reject(c)
    BY <1>2, <2>1, <2>2
  <2>3. CASE ~Reject(c)
    <3>1. PICK n : call' = [call EXCEPT ![c] =
                      [@ EXCEPT !.pc = "validate", !.acc = n, !.todo = Legs(c[1])]]
      BY <1>6, <2>3, Zenon DEF StartConfirm
    <3>2. /\ call'[c].pc = "validate" /\ call'[c].mem = call[c].mem
          /\ \A d \in ConfirmCall : d # c => call'[d] = call[d]
      BY <1>1, <3>1, Zenon DEF CallState
    <3> QED
      BY <1>4, <2>1, <3>2, SMT
  <2> QED
    BY <2>2, <2>3
<1>7. CASE Validate(c)
  <2>1. PICK i \in call[c].todo :
           \/ Reject(c)
           \/ Goto(c, "mark", Legs(c[1]))
           \/ Goto(c, "validate", call[c].todo \ {i})
    BY <1>7, Zenon DEF Validate
  <2>2. call[c].todo \ {i} \in SUBSET TokenId
    BY <1>1, Zenon
  <2>3. call[c].pc # "done"
    <3>1. call[c].pc = "validate"
      BY <1>7, Zenon DEF Validate
    <3> QED
      BY <3>1, SMT
  <2> QED
    BY <1>1, <1>2, <1>3, <1>5, <2>1, <2>2, <2>3, SMT
<1>8. CASE RejectTransfer(c)
  <2>1. PICK i \in call[c].todo : Return(c) \/ Goto(c, "reject", call[c].todo \ {i})
    BY <1>8, Zenon DEF RejectTransfer
  <2>2. call[c].todo \ {i} \in SUBSET TokenId
    BY <1>1, Zenon
  <2>3. call[c].pc # "done"
    <3>1. call[c].pc = "reject"
      BY <1>8, Zenon DEF RejectTransfer
    <3> QED
      BY <3>1, SMT
  <2> QED
    BY <1>2, <1>3, <1>5, <2>1, <2>2, <2>3, SMT
<1>9. CASE MarkConfirming(c)
  <2>1. Return(c) \/ Goto(c, "load", call[c].todo)
    BY <1>9, Zenon DEF MarkConfirming
  <2>2. call[c].pc # "done"
    <3>1. call[c].pc = "mark"
      BY <1>9, Zenon DEF MarkConfirming
    <3> QED
      BY <3>1, SMT
  <2> QED
    BY <1>1, <1>2, <1>3, <1>5, <2>1, <2>2, SMT
<1>10. CASE LoadTransfer(c)
  <2>1. call[c].pc # "done"
    <3>1. call[c].pc = "load"
      BY <1>10, Zenon DEF LoadTransfer
    <3> QED
      BY <3>1, SMT
  <2>2. CASE Return(c)
    BY <1>2, <2>1, <2>2
  <2>3. CASE ~Return(c)
    <3>1. PICK i \in call[c].todo :
             call' = [call EXCEPT ![c] =
                [@ EXCEPT !.pc = IF call[c].todo \ {i} = {} THEN "fund" ELSE "mark",
                          !.todo = call[c].todo \ {i},
                          !.mem[i] = [transfers[i] EXCEPT !.raw = i, !.status = "queued"]]]
      BY <1>10, <2>3, Zenon DEF LoadTransfer
    <3>2. /\ call'[c].pc \in {"fund", "mark"}
          /\ call'[c].mem = [call[c].mem EXCEPT ![i] =
                               [transfers[i] EXCEPT !.raw = i, !.status = "queued"]]
          /\ \A d \in ConfirmCall : d # c => call'[d] = call[d]
      BY <1>1, <3>1, Zenon DEF CallState
    <3>3. call[c].mem \in [TokenId -> Row] /\ i \in TokenId /\ transfers[i] \in Row
      BY <1>1, IdsDiffer, Zenon DEF IInv, TypeOK, CallState, Memory
    <3>4. [transfers[i] EXCEPT !.raw = i, !.status = "queued"].hash = transfers[i].hash
      BY <3>3, SMT DEF Row
    <3>5. \A k \in TokenId : call'[c].mem[k].hash \in {call[c].mem[k].hash, transfers[k].hash}
      BY <3>2, <3>3, <3>4, Zenon
    <3> QED
      BY <1>4, <2>1, <3>2, <3>5, SMT
  <2> QED
    BY <2>2, <2>3
<1>11. CASE ReadBankNonce(c)
  <2>1. call[c].pc # "done"
    <3>1. call[c].pc = "fund"
      BY <1>11, Zenon DEF ReadBankNonce
    <3> QED
      BY <3>1, SMT
  <2>2. CASE Reject(c)
    BY <1>2, <2>1, <2>2
  <2>3. CASE ~Reject(c)
    <3>1. PICK n : call' = [call EXCEPT ![c] = [@ EXCEPT !.pc = "send", !.nonce = n]]
      BY <1>11, <2>3, Zenon DEF ReadBankNonce
    <3>2. /\ call'[c].pc = "send" /\ call'[c].mem = call[c].mem
          /\ \A d \in ConfirmCall : d # c => call'[d] = call[d]
      BY <1>1, <3>1, Zenon DEF CallState
    <3> QED
      BY <1>4, <2>1, <3>2, SMT
  <2> QED
    BY <2>2, <2>3
<1>12. CASE SendTopUp(c)
  <2>1. call[c].pc = "send" /\ (Reject(c) \/ Goto(c, "record", {}))
    BY <1>12, Zenon DEF SendTopUp
  <2>2. Legs(c[1]) \subseteq Loaded(call[c].mem)
    BY <2>1, SMT DEF CallWhole
  <2>3. call[c].pc # "done"
    BY <2>1, SMT
  <2> QED
    BY <1>1, <1>2, <1>3, <1>5, <2>1, <2>2, <2>3, SMT
<1>13. CASE RecordTopUp(c)
  <2>1. call[c].pc = "record" /\ (Reject(c) \/ Goto(c, "save", {}))
    BY <1>13, Zenon DEF RecordTopUp
  <2>2. Legs(c[1]) \subseteq Loaded(call[c].mem)
    BY <2>1, SMT DEF RaceInv, CallHolds
  <2>3. call[c].pc # "done"
    BY <2>1, SMT
  <2> QED
    BY <1>1, <1>2, <1>3, <1>5, <2>1, <2>2, <2>3, SMT
<1>14. CASE SaveQueued(c)
  <2>1. call[c].pc # "done" /\ Return(c)
    BY <1>14, SMT DEF SaveQueued
  <2> QED
    BY <1>2, <2>1
<1> QED
  BY <1>6, <1>7, <1>8, <1>9, <1>10, <1>11, <1>12, <1>13, <1>14, Zenon DEF ConfirmTransfer

\* A pair that is confirmed once, by a call that has not ended, waits for nothing.
LEMMA NothingLinked ==
  ASSUME IInv, RaceInv, NEW c \in ConfirmCall, Once(c[1])',
         \A d \in ConfirmCall : CallAdvances(d),
         call[c].pc # "done", call'[c].pc # "idle"
  PROVE  \A i \in Legs(c[1]) :
            transfers[i].topUp = NULL /\ ~Known(i) /\ \A j \in Job : i \notin Loaded(job[j].mem)
<1>1. ASSUME NEW i \in Legs(c[1]), transfers[i].topUp # NULL
      PROVE  FALSE
  <2>1. i \in TokenId /\ i[1] = c[1]
    BY LegsType, CallOfPair, Zenon
  <2>2. PICK d \in {c[1]} \X Attempt : call[d].pc = "done"
    BY <1>1, <2>1, Zenon DEF RaceInv, LinkOK
  <2>3. d \in ConfirmCall /\ c \in {c[1]} \X Attempt
    BY CallOfPair, LegsType, Zenon
  <2>4. call'[d].pc # "idle"
    BY <2>2, <2>3, SMT DEF CallAdvances
  <2>5. d = c
    BY <2>3, <2>4, Zenon DEF Once
  <2> QED
    BY <2>2, <2>5
<1>2. \A i \in Legs(c[1]) : i \in TokenId
  BY LegsType, Zenon
<1> QED
  BY <1>1, <1>2, Zenon DEF RaceInv, LinkOK, SentOK

-----------------------------------------------------------------------------
(* The parts put together                                                    *)

\* A step that does to each part what it may keeps the invariant.
LEMMA RaceStep ==
  ASSUME IInv, RaceInv, IInv', \A c \in ConfirmCall : CallAdvances(c),
         \A i \in TokenId : RowGoes(i), \A k \in Job : JobSends(k), OneJob,
         \A p \in Pair : NonceOK(p)', \A p \in Pair : Once(p)' => PairGoes(p)
  PROVE  RaceInv'
  BY RaceFrame, PairFrame, Zenon DEF RaceInv

\* A row of which at most the status and the deletion are written.
SameRow(i) ==
    /\ transfers'[i].hash = transfers[i].hash
    /\ transfers'[i].topUp = transfers[i].topUp
    /\ transfers'[i].nonce = transfers[i].nonce
    /\ transfers'[i].status # "absent" => transfers[i].status # "absent"

\* The statements that set a status.
LEMMA StatusRows ==
  ASSUME TypeOK, NEW S, NEW status, transfers' = SetStatus(transfers, S, status)
  PROVE  \A i \in TokenId :
            /\ SameRow(i)
            /\ transfers'[i].status = transfers[i].status
               \/ (i \in S /\ transfers'[i].status = status)
<1> TAKE i \in TokenId
<1>1. i \in Id /\ transfers[i] \in Row
  BY IdsDiffer, Zenon DEF TypeOK
<1>2. transfers'[i] = IF i \in S /\ Live(transfers, i)
                      THEN [transfers[i] EXCEPT !.status = status] ELSE transfers[i]
  BY <1>1, Zenon DEF SetStatus
<1> QED
  BY <1>1, <1>2, SMT DEF SameRow, Live, Row

\* The soft deletion.
LEMMA ClearedRows ==
  ASSUME TypeOK, NEW u, transfers' = ClearUnsignedTransfers(transfers, u)
  PROVE  \A i \in TokenId : SameRow(i) /\ transfers'[i].status = transfers[i].status
<1> TAKE i \in TokenId
<1>1. i \in Id /\ transfers[i] \in Row
  BY IdsDiffer, Zenon DEF TypeOK
<1>2. transfers'[i] = transfers[i] \/ transfers'[i] = [transfers[i] EXCEPT !.deleted = TRUE]
  BY <1>1, Zenon DEF ClearUnsignedTransfers
<1> QED
  BY <1>1, <1>2, SMT DEF SameRow, Row

\* The row of a top-up.
LEMMA TopUpRow ==
  ASSUME TypeOK, NEW t \in TopUpId, transfers' = CreateEthTransfer(transfers, t)
  PROVE  \A i \in TokenId : SameRow(i) /\ transfers'[i].status = transfers[i].status
<1>1. \A i \in TokenId : transfers'[i] = transfers[i]
  BY IdsDiffer, Zenon DEF CreateEthTransfer, TypeOK
<1> QED
  BY <1>1, Zenon DEF SameRow

\* Nothing is written.
LEMMA NoRows ==
  ASSUME UNCHANGED transfers
  PROVE  \A i \in TokenId : SameRow(i) /\ transfers'[i].status = transfers[i].status
  BY Zenon DEF SameRow

\* Neither a row nor the node's knowledge of a pair's transactions goes further.
StatusGoes(p) ==
    \A i \in Legs(p) : transfers[i].topUp # NULL /\ ~Known(i) =>
        transfers'[i].status \in {transfers[i].status, "failed"}

\* A step that writes statuses only.
LEMMA RelabelStep ==
  ASSUME IInv, RaceInv, IInv', \A c \in ConfirmCall : CallAdvances(c),
         \A i \in TokenId : SameRow(i) /\ (Known(i)' <=> Known(i)),
         \A k \in Job : JobSends(k), OneJob,
         \A p \in Pair : Once(p)' => StatusGoes(p) /\ \A j \in Job : JobFollows(j, p)
  PROVE  RaceInv'
<1>1. \A i \in TokenId : RowGoes(i)
  BY Zenon DEF SameRow, RowGoes, HashGoes
<1>2. ASSUME NEW p \in Pair
      PROVE  NonceOK(p)'
  <2>1. /\ TokenOf(p) \in TokenId /\ TaxOf(p) \in TokenId
        /\ TokenOf(p)' = TokenOf(p) /\ TaxOf(p)' = TaxOf(p)
    BY PairRows, Zenon DEF TokenOf, TaxOf
  <2>2. SameRow(TokenOf(p)) /\ SameRow(TaxOf(p)) /\ NonceOK(p)
    BY <2>1, Zenon DEF RaceInv
  <2> QED
    BY <2>1, <2>2, Zenon DEF NonceOK, SameRow
<1>3. ASSUME NEW p \in Pair, Once(p)'
      PROVE  PairGoes(p)
  <2>1. \A i \in Legs(p) : i \in TokenId
    BY PairRows, SMT
  <2>2. \A i \in Legs(p) : LegGoes(i)
    BY <1>3, <2>1, Zenon DEF LegGoes, SameRow, StatusGoes
  <2>3. Known(TaxOf(p))' => Known(TaxOf(p))
    BY PairRows, Zenon DEF TaxOf
  <2> QED
    BY <1>3, <2>2, <2>3, Zenon DEF PairGoes
<1> QED
  BY <1>1, <1>2, <1>3, RaceStep

-----------------------------------------------------------------------------
(* Goroutines: what their steps do to the goroutines                         *)

\* A goroutine that stays as it is.
LEMMA JobStays ==
  ASSUME RaceInv, NEW j \in Job, job'[j] = job[j]
  PROVE  JobSends(j) /\ \A p \in Pair : JobFollows(j, p)
<1>1. SentOK(j)
  BY Zenon DEF RaceInv
<1>2. JobSends(j)
  BY <1>1, Zenon DEF JobSends, SentOK
<1>3. \A p \in Pair : JobFollows(j, p)
  BY Zenon DEF JobFollows
<1> QED
  BY <1>2, <1>3

\* Nobody of the goroutines moves.
LEMMA JobsStay ==
  ASSUME RaceInv, UNCHANGED job
  PROVE  /\ \A k \in Job : JobSends(k)
         /\ OneJob
         /\ \A k \in Job : \A p \in Pair : JobFollows(k, p)
  BY JobStays, Zenon DEF OneJob

\* Goroutines that end or were at rest hold nothing.
LEMMA IdleKeeps ==
  ASSUME NEW j \in Job, job'[j] = IdleJob
  PROVE  JobSends(j) /\ \A p \in Pair : JobFollows(j, p)
<1>1. /\ job'[j].pc = "idle" /\ job'[j].todo = {} /\ job'[j].mem = Nothing
  BY SMT DEF IdleJob
<1>2. Loaded(job'[j].mem) = {}
  BY <1>1, NothingLoaded
<1>3. job'[j].pc \notin Sending /\ job'[j].pc \notin {"settle", "save"}
  BY <1>1, SMT DEF Sending
<1> QED
  BY <1>2, <1>3, Zenon DEF JobSends, JobFollows

\* Only one moves.
LEMMA OnlyOneMoves ==
  ASSUME RaceInv, NEW j \in Job, \A k \in Job : k # j => job'[k] = job[k],
         JobSends(j), \A p \in Pair : JobFollows(j, p)
  PROVE  /\ \A k \in Job : JobSends(k)
         /\ OneJob
         /\ \A k \in Job : \A p \in Pair : JobFollows(k, p)
<1>1. ASSUME NEW k \in Job
      PROVE  JobSends(k) /\ \A p \in Pair : JobFollows(k, p)
  <2>1. CASE k = j
    BY <2>1
  <2>2. CASE k # j
    <3>1. job'[k] = job[k]
      BY <2>2
    <3> QED
      BY <3>1, JobStays
  <2> QED
    BY <2>1, <2>2
<1>2. OneJob
  BY Zenon DEF OneJob
<1> QED
  BY <1>1, <1>2

\* One ends.
LEMMA JobEndsRace ==
  ASSUME IInv, RaceInv, NEW j \in Job, End(j)
  PROVE  /\ \A k \in Job : JobSends(k)
         /\ OneJob
         /\ \A k \in Job : \A p \in Pair : JobFollows(k, p)
<1>1. job'[j] = IdleJob /\ \A k \in Job : k # j => job'[k] = job[k]
  BY EndEffect, Zenon DEF IInv, TypeOK
<1>2. JobSends(j) /\ \A p \in Pair : JobFollows(j, p)
  BY <1>1, IdleKeeps
<1> QED
  BY <1>1, <1>2, OnlyOneMoves

\* One goes on with what it holds.
LEMMA JobGoesRace ==
  ASSUME IInv, RaceInv, NEW j \in Job, NEW pc \in JobPc, NEW todo \in SUBSET TokenId,
         JobTo(j, pc, todo),
         pc \in Sending => job[j].pc \in Sending /\ todo = job[j].todo,
         pc \in {"settle", "save"} => job[j].pc \in {"settle", "save"} /\ todo = job[j].todo
  PROVE  /\ \A k \in Job : JobSends(k)
         /\ OneJob
         /\ \A k \in Job : \A p \in Pair : JobFollows(k, p)
<1>1. /\ job'[j].pc = pc /\ job'[j].todo = todo /\ job'[j].mem = job[j].mem
      /\ \A k \in Job : k # j => job'[k] = job[k]
  BY JobToEffect, Zenon DEF IInv, TypeOK
<1>2. SentOK(j)
  BY Zenon DEF RaceInv
<1>3. JobSends(j)
  <2>1. pc \in {"settle", "save"} => todo = {}
    BY <1>2, Zenon DEF SentOK
  <2>2. ASSUME pc \in Sending \cup {"settle", "save"}
        PROVE  todo = job[j].todo /\ job[j].pc \in Sending \cup {"settle", "save"}
    BY <2>2, Zenon
  <2>3. ASSUME NEW i \in Loaded(job[j].mem)
        PROVE  /\ transfers[i].topUp # NULL
               /\ job[j].mem[i].nonce = transfers[i].nonce
               /\ pc \in Sending \cup {"settle", "save"} =>
                     i \in todo \/ job[j].mem[i].status = "pending"
    BY <1>2, <2>2, Zenon DEF SentOK
  <2> QED
    BY <1>1, <2>1, <2>3, Zenon DEF JobSends
<1>4. \A p \in Pair : JobFollows(j, p)
  BY <1>1, Zenon DEF JobFollows
<1> QED
  BY <1>1, <1>3, <1>4, OnlyOneMoves

-----------------------------------------------------------------------------
(* Confirmations: what their steps do to the rows                            *)

\* Rows that are written back from memory keep their nonce; the others keep all.
LEMMA UpdateEffect ==
  ASSUME IInv, NEW mem \in Memory, transfers' = UpdateTransfers(transfers, mem)
  PROVE  /\ \A i \in TokenId :
               /\ transfers'[i].nonce = transfers[i].nonce
               /\ i \notin Loaded(mem) => transfers'[i] = transfers[i]
               /\ i \in Loaded(mem) /\ Live(transfers, i) =>
                     /\ transfers'[i].status = mem[i].status /\ transfers'[i].hash = mem[i].hash
                     /\ transfers'[i].topUp = mem[i].topUp
         /\ \A t \in TopUpId : transfers'[t] = transfers[t]
<1>1. ASSUME NEW i \in TokenId
      PROVE  /\ transfers'[i].nonce = transfers[i].nonce
             /\ i \notin Loaded(mem) => transfers'[i] = transfers[i]
             /\ i \in Loaded(mem) /\ Live(transfers, i) =>
                   /\ transfers'[i].status = mem[i].status /\ transfers'[i].hash = mem[i].hash
                   /\ transfers'[i].topUp = mem[i].topUp
  <2>1. i \in Id /\ transfers[i] \in Row
    BY IdsDiffer, Zenon DEF IInv, TypeOK
  <2>2. CASE ~(Live(transfers, i) /\ mem[i] # NoRow)
    BY <2>1, <2>2, Zenon DEF UpdateTransfers, Loaded
  <2>3. CASE Live(transfers, i) /\ mem[i] # NoRow
    <3>1. transfers'[i] = [transfers[i] EXCEPT !.hash = mem[i].hash,
             !.raw = mem[i].raw, !.status = mem[i].status, !.topUp = mem[i].topUp]
      BY <2>1, <2>3, Zenon DEF UpdateTransfers
    <3>2. i \in Loaded(mem)
      BY <2>3, Zenon DEF Loaded
    <3> QED
      BY <2>1, <3>1, <3>2, SMT DEF Row
  <2> QED
    BY <2>2, <2>3
<1>2. \A t \in TopUpId : transfers'[t] = transfers[t]
  BY IdsDiffer, Zenon DEF UpdateTransfers
<1> QED
  BY <1>1, <1>2

\* A row a confirmation or a goroutine holds is live.
LEMMA TakenIsLive ==
  ASSUME IInv, NEW i \in TokenId, Taken(i)
  PROVE  Live(transfers, i)
<1>1. TokenRowOK(i)
  BY Zenon DEF IInv
<1> QED
  BY <1>1, SMT DEF TokenRowOK, Taken, Live

\* The node's knowledge of the pairs' transactions is the same.
SameKnown == \A i \in TokenId : Known(i)' <=> Known(i)

\* A confirmation writes statuses of its own pair, until it queues the rows.
LEMMA ConfirmRelabels ==
  ASSUME IInv, NEW c \in ConfirmCall, ConfirmTransfer(c), ~SaveQueued(c)
  PROVE  /\ SameKnown
         /\ \A i \in TokenId :
               /\ SameRow(i)
               /\ transfers'[i].status = transfers[i].status \/ i \in Legs(c[1])
<1>1. TypeOK
  BY Zenon DEF IInv
<1>2. CASE StartConfirm(c) \/ Validate(c) \/ LoadTransfer(c) \/ ReadBankNonce(c)
  <2>1. UNCHANGED <<transfers, chain>>
    BY <1>2, Zenon DEF StartConfirm, Validate, LoadTransfer, ReadBankNonce
  <2> QED
    BY <2>1, NoRows, Zenon DEF SameKnown, Known
<1>3. ASSUME RejectTransfer(c) \/ MarkConfirming(c)
      PROVE  /\ UNCHANGED chain
             /\ UNCHANGED transfers
                \/ \E S \in SUBSET Legs(c[1]) : \E status :
                      transfers' = SetStatus(transfers, S, status)
  <2>1. call[c].todo \subseteq Legs(c[1])
    BY Zenon DEF IInv, CallOK
  <2>2. CASE RejectTransfer(c)
    <3>1. PICK i \in call[c].todo :
             transfers' = WriteTransferError(transfers, i) \/ UNCHANGED transfers
      BY <2>2, Zenon DEF RejectTransfer
    <3>2. {i} \in SUBSET Legs(c[1])
      BY <2>1, Zenon
    <3> QED
      BY <2>2, <3>1, <3>2, Zenon DEF RejectTransfer, WriteTransferError
  <2>3. CASE MarkConfirming(c)
    <3>1. PICK i \in call[c].todo :
             transfers' = ConfirmTransferByID(transfers, i, Owner[c[1]]) \/ UNCHANGED transfers
      BY <2>3, Zenon DEF MarkConfirming
    <3>2. {k \in {i} : From(k) = Owner[c[1]]} \in SUBSET Legs(c[1])
      BY <2>1, Zenon
    <3> QED
      BY <2>3, <3>1, <3>2, Zenon DEF MarkConfirming, ConfirmTransferByID
  <2> QED
    BY <1>3, <2>2, <2>3
<1>4. CASE RejectTransfer(c) \/ MarkConfirming(c)
  <2>1. SameKnown
    BY <1>3, <1>4, Zenon DEF SameKnown, Known
  <2>2. CASE UNCHANGED transfers
    BY <2>1, <2>2, NoRows, Zenon
  <2>3. CASE \E S \in SUBSET Legs(c[1]) : \E status : transfers' = SetStatus(transfers, S, status)
    <3>1. PICK S \in SUBSET Legs(c[1]) : \E status : transfers' = SetStatus(transfers, S, status)
      BY <2>3
    <3>2. PICK status : transfers' = SetStatus(transfers, S, status)
      BY <3>1
    <3>3. \A i \in TokenId :
            /\ SameRow(i)
            /\ transfers'[i].status = transfers[i].status
               \/ (i \in S /\ transfers'[i].status = status)
      BY <1>1, <3>2, StatusRows
    <3> QED
      BY <2>1, <3>3, Zenon
  <2> QED
    BY <1>3, <1>4, <2>2, <2>3
<1>5. TopUpOf(c) \in TopUpId
  BY TopUpOfType, Zenon DEF IInv
<1>6. CASE SendTopUp(c)
  <2>1. UNCHANGED transfers /\ (UNCHANGED chain \/ Accept(TopUpOf(c)))
    BY <1>6, Zenon DEF SendTopUp
  <2>2. SameKnown
    BY <1>5, <2>1, IdsDiffer, Zenon DEF SameKnown, Known, Accept, TypeOK, IInv
  <2> QED
    BY <2>1, <2>2, NoRows, Zenon
<1>7. CASE RecordTopUp(c)
  <2>1. /\ UNCHANGED chain
        /\ transfers' = CreateEthTransfer(transfers, TopUpOf(c)) \/ UNCHANGED transfers
    BY <1>7, Zenon DEF RecordTopUp
  <2>2. SameKnown
    BY <2>1, Zenon DEF SameKnown, Known
  <2>3. \A i \in TokenId : SameRow(i) /\ transfers'[i].status = transfers[i].status
    BY <1>1, <1>5, <2>1, TopUpRow, NoRows, Zenon
  <2> QED
    BY <2>2, <2>3
<1> QED
  BY <1>2, <1>4, <1>6, <1>7, Zenon DEF ConfirmTransfer

\* Until it queues the rows, a confirmation disturbs nobody who waits.
LEMMA ConfirmRace ==
  ASSUME IInv, RaceInv, IInv', NEW c \in ConfirmCall, CallWhole(c), ConfirmTransfer(c),
         ~SaveQueued(c)
  PROVE  RaceInv'
<1>1. /\ \A d \in ConfirmCall : CallAdvances(d)
      /\ call[c].pc # "done" /\ call'[c].pc # "idle"
  BY ConfirmGoes
<1>2. UNCHANGED job
  BY Zenon DEF ConfirmTransfer, StartConfirm, Validate, RejectTransfer, MarkConfirming,
     LoadTransfer, ReadBankNonce, SendTopUp, RecordTopUp, SaveQueued
<1>3. /\ \A k \in Job : JobSends(k)
      /\ OneJob
      /\ \A k \in Job : \A p \in Pair : JobFollows(k, p)
  BY <1>2, JobsStay
<1>4. /\ SameKnown
      /\ \A i \in TokenId : /\ SameRow(i)
                            /\ transfers'[i].status = transfers[i].status \/ i \in Legs(c[1])
  BY ConfirmRelabels
<1>5. ASSUME NEW p \in Pair, Once(p)'
      PROVE  StatusGoes(p)
  <2>1. CASE p = c[1]
    <3>1. \A i \in Legs(c[1]) : transfers[i].topUp = NULL
      BY <1>1, <1>5, <2>1, NothingLinked
    <3> QED
      BY <2>1, <3>1, Zenon DEF StatusGoes
  <2>2. CASE p # c[1]
    <3>1. \A i \in Legs(p) : i \in TokenId /\ i \notin Legs(c[1])
      BY <2>2, SMT DEF Legs, TokenId
    <3> QED
      BY <1>4, <3>1, Zenon DEF StatusGoes
  <2> QED
    BY <2>1, <2>2
<1> QED
  BY <1>1, <1>3, <1>4, <1>5, RelabelStep, Zenon DEF SameKnown

\* What SaveQueued writes: both rows of the pair are queued for the call's top-up.
LEMMA QueuedRows ==
  ASSUME IInv, RaceInv, NEW c \in ConfirmCall, call[c].pc = "save",
         transfers' = UpdateTransfers(transfers, Linked(call[c].mem, TopUpOf(c)))
  PROVE  /\ TopUpOf(c) # NULL
         /\ \A i \in TokenId :
               /\ transfers'[i].nonce = transfers[i].nonce
               /\ i \notin Legs(c[1]) => transfers'[i] = transfers[i]
               /\ i \in Legs(c[1]) =>
                     /\ transfers[i].status # "absent"
                     /\ transfers'[i].status = "queued" /\ transfers'[i].topUp = TopUpOf(c)
                     /\ transfers'[i].hash = call[c].mem[i].hash
<1>1. /\ CallOK(c) /\ CallHolds(c) /\ call[c].mem \in Memory
  BY Zenon DEF IInv, RaceInv, TypeOK, CallState
<1>2. PICK t, mem : t = TopUpOf(c) /\ mem = Linked(call[c].mem, t)
  OBVIOUS
<1>3. t \in TopUpId /\ t # NULL /\ t \in Reference
  BY <1>2, TopUpOfType, IdsDiffer, Zenon DEF IInv, Reference
<1>4. /\ \A i \in Legs(c[1]) : i \in TokenId /\ i \in Loaded(call[c].mem)
      /\ \A i \in Loaded(call[c].mem) : i \in TokenId /\ i \in Legs(c[1])
  <2>1. Legs(c[1]) \subseteq Loaded(call[c].mem)
    BY <1>1, SMT DEF CallHolds
  <2> QED
    BY <1>1, <2>1, Zenon DEF CallOK, CallRowOK, Loaded
<1>5. ASSUME NEW i \in Loaded(call[c].mem)
      PROVE  /\ mem[i] \in Row /\ mem[i].topUp = t /\ mem[i].status = "queued"
             /\ mem[i].hash = call[c].mem[i].hash /\ Live(transfers, i)
  <2>1. call[c].mem[i] \in Row /\ i \in TokenId /\ CallRowOK(i, call[c].mem[i], c[1])
    BY <1>1, <1>4, Zenon DEF Memory, CallOK
  <2>2. mem[i] = [call[c].mem[i] EXCEPT !.topUp = t]
    BY <1>2, <2>1, Zenon DEF Linked
  <2>3. /\ mem[i] \in Row /\ mem[i].topUp = t /\ mem[i].status = call[c].mem[i].status
        /\ mem[i].hash = call[c].mem[i].hash
    BY <1>3, <2>1, <2>2, Zenon DEF Row
  <2>4. Live(transfers, i)
    BY <2>1, TakenIsLive, Zenon DEF CallRowOK
  <2> QED
    BY <2>1, <2>3, <2>4, Zenon DEF CallRowOK
<1>6. mem \in Memory /\ Loaded(mem) = Legs(c[1])
  <2>1. NoRow.status # "queued"
    BY SMT DEF NoRow
  <2>2. \A i \in TokenId : i \notin Loaded(call[c].mem) => mem[i] = NoRow
    BY <1>2, Zenon DEF Linked
  <2>3. mem \in Memory
    BY <1>2, <1>5, <2>2, NoRowType, Zenon DEF Linked, Memory
  <2> QED
    BY <1>4, <1>5, <2>1, <2>2, <2>3, Zenon DEF Loaded
<1>7. ASSUME NEW i \in TokenId
      PROVE  /\ transfers'[i].nonce = transfers[i].nonce
             /\ i \notin Legs(c[1]) => transfers'[i] = transfers[i]
             /\ i \in Legs(c[1]) =>
                   /\ transfers[i].status # "absent"
                   /\ transfers'[i].status = "queued" /\ transfers'[i].topUp = t
                   /\ transfers'[i].hash = call[c].mem[i].hash
  <2>1. /\ transfers'[i].nonce = transfers[i].nonce
        /\ i \notin Loaded(mem) => transfers'[i] = transfers[i]
        /\ i \in Loaded(mem) /\ Live(transfers, i) =>
              /\ transfers'[i].status = mem[i].status /\ transfers'[i].hash = mem[i].hash
              /\ transfers'[i].topUp = mem[i].topUp
    BY <1>2, <1>6, UpdateEffect
  <2> QED
    BY <1>4, <1>5, <1>6, <2>1, Zenon DEF Live
<1> QED
  BY <1>2, <1>3, <1>7

\* A pair that is queued for the first time is queued as a whole.
LEMMA SaveQueuedRace ==
  ASSUME IInv, RaceInv, IInv', NEW c \in ConfirmCall, CallWhole(c), SaveQueued(c)
  PROVE  RaceInv'
<1>1. ConfirmTransfer(c)
  BY Zenon DEF ConfirmTransfer
<1>2. /\ \A d \in ConfirmCall : CallAdvances(d)
      /\ call[c].pc # "done" /\ call'[c].pc # "idle"
  BY <1>1, ConfirmGoes
<1>3. /\ call[c].pc = "save" /\ call'[c].pc = "done" /\ UNCHANGED <<chain, job>>
  BY ReturnEffect, Zenon DEF SaveQueued, IInv, TypeOK
<1>4. /\ \A k \in Job : JobSends(k)
      /\ OneJob
      /\ \A k \in Job : \A p \in Pair : JobFollows(k, p)
  BY <1>3, JobsStay
<1>5. \A i : Known(i)' <=> Known(i)
  BY <1>3, Zenon DEF Known
<1>6. CASE UNCHANGED transfers
  <2>1. \A i \in TokenId : SameRow(i) /\ (Known(i)' <=> Known(i))
    BY <1>5, <1>6, NoRows, Zenon
  <2>2. \A p \in Pair : StatusGoes(p)
    BY <1>6, PairRows, Zenon DEF StatusGoes
  <2> QED
    BY <1>2, <1>4, <2>1, <2>2, RelabelStep
<1>7. CASE transfers' = UpdateTransfers(transfers, Linked(call[c].mem, TopUpOf(c)))
  <2>1. PICK t : t = TopUpOf(c)
    OBVIOUS
  <2>2. /\ t # NULL
        /\ \A i \in TokenId :
               /\ transfers'[i].nonce = transfers[i].nonce
               /\ i \notin Legs(c[1]) => transfers'[i] = transfers[i]
               /\ i \in Legs(c[1]) =>
                     /\ transfers[i].status # "absent"
                     /\ transfers'[i].status = "queued" /\ transfers'[i].topUp = t
                     /\ transfers'[i].hash = call[c].mem[i].hash
    BY <1>3, <1>7, <2>1, QueuedRows
  <2>3. ASSUME NEW i \in TokenId
        PROVE  RowGoes(i)
    <3>1. CASE i \notin Legs(c[1])
      <4>1. transfers'[i] = transfers[i]
        BY <2>2, <3>1
      <4> QED
        BY <1>5, <4>1, Zenon DEF RowGoes, HashGoes
    <3>2. CASE i \in Legs(c[1])
      <4>1. c \in {i[1]} \X Attempt
        BY <3>2, CallOfPair, Zenon
      <4>2. HashGoes(i)
        BY <2>2, <3>2, Zenon DEF HashGoes
      <4> QED
        BY <1>3, <1>5, <2>2, <3>2, <4>1, <4>2, Zenon DEF RowGoes
    <3> QED
      BY <3>1, <3>2
  <2>4. ASSUME NEW p \in Pair
        PROVE  NonceOK(p)'
    <3>1. /\ TokenOf(p) \in TokenId /\ TaxOf(p) \in TokenId /\ NonceOK(p)
          /\ TokenOf(p)' = TokenOf(p) /\ TaxOf(p)' = TaxOf(p)
      BY PairRows, Zenon DEF RaceInv, TokenOf, TaxOf
    <3>2. transfers'[TaxOf(p)].status # "absent" => transfers[TaxOf(p)].status # "absent"
      BY <2>2, <3>1, Zenon
    <3> QED
      BY <2>2, <3>1, <3>2, Zenon DEF NonceOK
  <2>5. /\ \A i \in TokenId : LinkOK(i)'
        /\ \A d \in ConfirmCall : CallHolds(d)'
        /\ \A j \in Job : SentOK(j)'
    BY <1>2, <1>4, <2>3, RaceFrame
  <2>6. ASSUME Once(c[1])'
        PROVE  PairOK(c[1])'
    <3>1. PICK p \in Pair : p = c[1]
      BY LegsType
    <3>2. /\ TokenOf(p) \in Legs(p) /\ TaxOf(p) \in Legs(p)
          /\ TokenOf(p)' = TokenOf(p) /\ TaxOf(p)' = TaxOf(p)
          /\ \A i \in Legs(p) : i \in TokenId
      BY PairRows, SMT DEF TokenOf, TaxOf
    <3>3. \A i \in Legs(p) : ~Known(i)' /\ \A j \in Job : i \notin Loaded(job'[j].mem)
      BY <1>2, <1>3, <1>5, <2>6, <3>1, NothingLinked, Zenon
    <3>4. \A i \in Legs(p) : transfers'[i].topUp = t /\ transfers'[i].status = "queued"
      BY <2>2, <3>1, <3>2, Zenon
    <3>5. \A j \in Job : TaxOf(p) \notin job'[j].todo
      BY <3>2, <3>3, Zenon DEF IInv, JobOK
    <3>6. PairOK(p)'
      BY <3>2, <3>3, <3>4, <3>5, Zenon DEF PairOK, TaxFollows
    <3> QED
      BY <3>1, <3>6
  <2>7. ASSUME NEW p \in Pair, Once(p)', p # c[1]
        PROVE  PairOK(p)'
    <3>1. \A i \in Legs(p) : i \in TokenId /\ i \notin Legs(c[1])
      BY <2>7, SMT DEF Legs, TokenId
    <3>2. \A i \in Legs(p) : LegGoes(i)
      BY <1>5, <2>2, <3>1, Zenon DEF LegGoes
    <3>3. Known(TaxOf(p))' => Known(TaxOf(p))
      BY <1>5, Zenon DEF TaxOf
    <3>4. PairGoes(p)
      BY <1>4, <3>2, <3>3, Zenon DEF PairGoes
    <3> QED
      BY <1>2, <1>4, <2>3, <2>7, <3>4, PairFrame
  <2>8. \A p \in Pair : Once(p)' => PairOK(p)'
    BY <2>6, <2>7
  <2> QED
    BY <2>4, <2>5, <2>8, Zenon DEF RaceInv
<1> QED
  BY <1>6, <1>7, Zenon DEF SaveQueued

-----------------------------------------------------------------------------
(* CreateTransfer, the node and the events                                   *)

\* A step of neither a confirmation nor a goroutine that writes no status of a row
\* that waits and is not sent.
LEMMA AsideRace ==
  ASSUME IInv, RaceInv, IInv', UNCHANGED <<call, job>>, SameKnown,
         \A i \in TokenId :
            /\ SameRow(i)
            /\ transfers'[i].status = transfers[i].status \/ Known(i)
  PROVE  RaceInv'
<1>1. \A c \in ConfirmCall : CallAdvances(c)
  BY CallStays, Zenon
<1>2. /\ \A k \in Job : JobSends(k)
      /\ OneJob
      /\ \A k \in Job : \A p \in Pair : JobFollows(k, p)
  BY JobsStay
<1>3. ASSUME NEW p \in Pair
      PROVE  StatusGoes(p)
  <2>1. \A i \in Legs(p) : i \in TokenId
    BY PairRows, SMT
  <2> QED
    BY <2>1, Zenon DEF StatusGoes
<1> QED
  BY <1>1, <1>2, <1>3, RelabelStep, Zenon DEF SameKnown

\* The rows of a pair are inserted: nobody has heard of them yet.
LEMMA InsertRace ==
  ASSUME IInv, RaceInv, IInv', NEW p \in Pair, InsertTransfers(p)
  PROVE  RaceInv'
<1>1. /\ UNCHANGED <<chain, call, job>> /\ transfers \in [Id -> Row]
      /\ transfers' = CreateTransfers(transfers, p, draft[p].nonce)
      /\ draft[p].pc # "done"
  BY SMT DEF InsertTransfers, IInv, TypeOK
<1>2. \A i \in Legs(p) : /\ i \in TokenId /\ transfers[i].status = "absent"
                         /\ transfers[i].topUp = NULL /\ transfers[i].hash = NULL
  <2>1. \A i \in Legs(p) : transfers[i].status = "absent" /\ i \in TokenId
    BY <1>1, PairRows, SMT DEF IInv, DraftOK
  <2> QED
    BY <2>1, Zenon DEF IInv, TokenRowOK, Taken
<1>3. PICK token, tax : token = TokenOf(p) /\ tax = TaxOf(p)
  OBVIOUS
<1>4. PICK n : n = draft[p].nonce /\ n \in Nat /\ n + 1 \in Nat
  <2>1. draft[p].nonce \in Nonce
    BY OtherType, Zenon DEF DraftState
  <2> QED
    BY <2>1, SMT DEF Nonce
<1>5. PICK a, b : /\ a = [NoRow EXCEPT !.status = "new", !.nonce = n]
                  /\ b = [NoRow EXCEPT !.status = "new", !.nonce = n + 1]
  OBVIOUS
<1>6. /\ a.topUp = NULL /\ a.hash = NULL /\ a.nonce = n
      /\ b.topUp = NULL /\ b.hash = NULL /\ b.nonce = n + 1
  BY <1>5, SMT DEF NoRow
<1>7. /\ transfers'[token] = a /\ transfers'[tax] = b
      /\ \A i \in Id : i \notin Legs(p) => transfers'[i] = transfers[i]
  <2>1. transfers' = [transfers EXCEPT ![token] = a, ![tax] = b]
    BY <1>1, <1>3, <1>4, <1>5, Zenon DEF CreateTransfers, TokenOf, TaxOf
  <2>2. token \in Id /\ tax \in Id /\ token # tax /\ Legs(p) = {token, tax}
    BY <1>3, PairRows, IdsDiffer, Zenon
  <2> QED
    BY <1>1, <2>1, <2>2, SMT
<1>8. ASSUME NEW i \in TokenId
      PROVE  /\ i \notin Legs(p) => transfers'[i] = transfers[i]
             /\ transfers'[i].topUp = transfers[i].topUp
             /\ transfers'[i].hash = transfers[i].hash
             /\ transfers[i].topUp # NULL => transfers'[i] = transfers[i]
             /\ i \in Legs(p) => transfers[i].status = "absent"
  <2>1. Legs(p) = {token, tax} /\ i \in Id
    BY <1>3, PairRows, IdsDiffer, Zenon
  <2> QED
    BY <1>2, <1>6, <1>7, <2>1, Zenon
<1>9. \A i : Known(i)' <=> Known(i)
  BY <1>1, Zenon DEF Known
<1>10. \A c \in ConfirmCall : CallAdvances(c)
  BY <1>1, CallStays, Zenon
<1>11. /\ \A k \in Job : JobSends(k)
       /\ OneJob
       /\ \A k \in Job : \A q \in Pair : JobFollows(k, q)
  BY <1>1, JobsStay
<1>12. \A i \in TokenId : RowGoes(i)
  BY <1>8, <1>9, Zenon DEF RowGoes, HashGoes
<1>13. ASSUME NEW q \in Pair
       PROVE  NonceOK(q)'
  <2>1. /\ TokenOf(q) \in TokenId /\ TaxOf(q) \in TokenId /\ NonceOK(q)
        /\ TokenOf(q)' = TokenOf(q) /\ TaxOf(q)' = TaxOf(q)
    BY PairRows, Zenon DEF RaceInv, TokenOf, TaxOf
  <2>2. CASE q = p
    BY <1>3, <1>6, <1>7, <2>1, <2>2, Zenon DEF NonceOK
  <2>3. CASE q # p
    <3>1. TokenOf(q) \notin Legs(p) /\ TaxOf(q) \notin Legs(p)
      BY <2>3, SMT DEF TokenOf, TaxOf, Legs
    <3>2. transfers'[TokenOf(q)] = transfers[TokenOf(q)] /\ transfers'[TaxOf(q)] = transfers[TaxOf(q)]
      BY <1>8, <2>1, <3>1
    <3> QED
      BY <2>1, <3>2, Zenon DEF NonceOK
  <2> QED
    BY <2>2, <2>3
<1>14. ASSUME NEW q \in Pair
       PROVE  PairGoes(q)
  <2>1. \A i \in Legs(q) : i \in TokenId
    BY PairRows, SMT
  <2>2. \A i \in Legs(q) : LegGoes(i)
    BY <1>8, <1>9, <2>1, Zenon DEF LegGoes
  <2>3. Known(TaxOf(q))' => Known(TaxOf(q))
    BY <1>9, Zenon DEF TaxOf
  <2> QED
    BY <1>11, <2>2, <2>3, Zenon DEF PairGoes
<1> QED
  BY <1>10, <1>11, <1>12, <1>13, <1>14, RaceStep

\* CreateTransfer.
LEMMA CreateRace ==
  ASSUME IInv, RaceInv, IInv', NEW p \in Pair, CreateTransfer(p)
  PROVE  RaceInv'
<1>1. CASE ReadUserNonce(p) \/ AbortCreateTransfer(p)
  <2>1. UNCHANGED <<transfers, chain, call, job>>
    BY <1>1, Zenon DEF ReadUserNonce, AbortCreateTransfer
  <2> QED
    BY <2>1, NoRows, AsideRace, Zenon DEF SameKnown, Known
<1>2. CASE ClearUnsigned(p)
  <2>1. /\ UNCHANGED <<chain, call, job>> /\ TypeOK
        /\ transfers' = ClearUnsignedTransfers(transfers, Owner[p])
    BY <1>2, Zenon DEF ClearUnsigned, IInv
  <2>2. \A i \in TokenId : SameRow(i) /\ transfers'[i].status = transfers[i].status
    BY <2>1, ClearedRows
  <2> QED
    BY <2>1, <2>2, AsideRace, Zenon DEF SameKnown, Known
<1> QED
  BY <1>1, <1>2, InsertRace, Zenon DEF CreateTransfer

\* The node mines what it has; a restart forgets what handlers and goroutines know.
LEMMA EnvironmentRace ==
  ASSUME IInv, RaceInv, IInv', Environment
  PROVE  RaceInv'
<1>1. ASSUME NEW k \in Id, Mine(k)
      PROVE  RaceInv'
  <2>1. /\ chain \in [Id -> {"none", "pooled", "mined", "reverted"}] /\ chain[k] = "pooled"
        /\ UNCHANGED <<transfers, call, job>>
    BY <1>1, Zenon DEF IInv, TypeOK, Mine
  <2>2. PICK v \in {"mined"} \cup {r \in {"reverted"} : "revert" \in Faults} :
            chain' = [chain EXCEPT ![k] = v]
    BY <1>1, Zenon DEF Mine
  <2>3. v # "none" /\ chain[k] # "none"
    BY <2>1, SMT
  <2>4. \A i \in Id : Known(i)' <=> Known(i)
    BY <2>1, <2>2, <2>3, Zenon DEF Known
  <2> QED
    BY <2>1, <2>4, IdsDiffer, NoRows, AsideRace, Zenon DEF SameKnown
<1>2. ASSUME NEW u \in User, ForeignTransaction(u)
      PROVE  RaceInv'
  <2>1. UNCHANGED <<transfers, chain, call, job>>
    BY <1>2, Zenon DEF ForeignTransaction
  <2> QED
    BY <2>1, NoRows, AsideRace, Zenon DEF SameKnown, Known
<1>3. CASE Restart
  <2>1. UNCHANGED <<transfers, chain>> /\ \A j \in Job : job'[j] = IdleJob
    BY <1>3, Zenon DEF Restart
  <2>2. ASSUME NEW c \in ConfirmCall
        PROVE  CallAdvances(c)
    <3>1. CASE call'[c] = call[c]
      BY <3>1, CallStays
    <3>2. CASE call[c].pc # "idle" /\ call'[c] = [IdleCall EXCEPT !.pc = "done"]
      <4>1. call'[c].pc = "done" /\ call'[c].mem = Nothing
        BY <3>2, SMT DEF IdleCall
      <4>2. \A i \in TokenId : Nothing[i].hash = NULL
        BY SMT DEF Nothing, NoRow
      <4> QED
        BY <4>1, <4>2, SMT DEF CallAdvances, CallHolds
    <3> QED
      BY <1>3, <3>1, <3>2, Zenon DEF Restart
  <2>3. /\ \A k \in Job : JobSends(k)
        /\ OneJob
        /\ \A k \in Job : \A p \in Pair : JobFollows(k, p)
    BY <2>1, IdleKeeps, Zenon DEF OneJob
  <2>4. \A i \in TokenId : SameRow(i) /\ (Known(i)' <=> Known(i))
    BY <2>1, NoRows, Zenon DEF Known
  <2>5. \A p \in Pair : StatusGoes(p)
    BY <2>1, Zenon DEF StatusGoes
  <2> QED
    BY <2>2, <2>3, <2>4, <2>5, RelabelStep
<1> QED
  BY <1>1, <1>2, <1>3, Zenon DEF Environment

\* A row that is completed by its hash has been sent.
LEMMA CompletedRows ==
  ASSUME IInv, NEW hash \in TokenId,
         transfers' = CompleteTransfer(transfers, NULL, hash) \/ UNCHANGED transfers
  PROVE  \A i \in TokenId :
            /\ SameRow(i)
            /\ transfers'[i].status = transfers[i].status
               \/ (Known(i) /\ transfers'[i].status = "completed")
<1>1. CASE UNCHANGED transfers
  BY <1>1, NoRows, Zenon
<1>2. CASE transfers' = CompleteTransfer(transfers, NULL, hash)
  <2>1. PICK S : S = {i \in Id : i = NULL \/ (hash # NULL /\ transfers[i].hash = hash)}
    OBVIOUS
  <2>2. \A i \in S : transfers[i].hash = hash /\ hash # NULL
    BY <2>1, IdsDiffer, StoreAssumption, Zenon
  <2>3. TypeOK /\ transfers' = SetStatus(transfers, S, "completed")
    BY <1>2, <2>1, Zenon DEF CompleteTransfer, IInv
  <2>4. \A i \in TokenId :
            /\ SameRow(i)
            /\ transfers'[i].status = transfers[i].status
               \/ (i \in S /\ transfers'[i].status = "completed")
    BY <2>3, StatusRows
  <2>5. \A i \in S \cap TokenId : Known(i)
    <3>1. \A i \in TokenId : TokenRowOK(i)
      BY Zenon DEF IInv
    <3>2. \A i \in TokenId : HashOK(i, transfers[i])
      BY <3>1, Zenon DEF TokenRowOK
    <3> QED
      BY <2>2, <3>2, Zenon DEF HashOK
  <2> QED
    BY <2>4, <2>5, Zenon
<1> QED
  BY <1>1, <1>2

\* The goroutines that complete token transfers.
LEMMA EventsRace ==
  ASSUME IInv, RaceInv, IInv', (\E i \in TokenId : ListenerSeesEvent(i)) \/ MonitorEvents
  PROVE  RaceInv'
<1>1. UNCHANGED <<chain, call, job>>
  BY Zenon DEF ListenerSeesEvent, MonitorEvents, WatchPending, CheckPending
<1>2. PICK hash \in TokenId \cup {NULL} :
          UNCHANGED transfers
          \/ (hash \in TokenId /\ transfers' = CompleteTransfer(transfers, NULL, hash))
  BY Zenon DEF ListenerSeesEvent, MonitorEvents, WatchPending, CheckPending, IInv
<1>3. ASSUME NEW i \in TokenId
      PROVE  SameRow(i) /\ (transfers'[i].status = transfers[i].status \/ Known(i))
  <2>1. CASE UNCHANGED transfers
    BY <2>1, NoRows, Zenon
  <2>2. CASE hash \in TokenId /\ transfers' = CompleteTransfer(transfers, NULL, hash)
    BY <2>2, CompletedRows
  <2> QED
    BY <1>2, <2>1, <2>2
<1> QED
  BY <1>1, <1>3, AsideRace, Zenon DEF SameKnown, Known
-----------------------------------------------------------------------------
(* The goroutines that end a top-up                                          *)

\* A goroutine at its top-up that writes no status of a row that waits and is not
\* sent, but "failed".
LEMMA WorkRace ==
  ASSUME IInv, RaceInv, IInv', UNCHANGED call, SameKnown,
         \A k \in Job : JobSends(k), OneJob, \A k \in Job : \A p \in Pair : JobFollows(k, p),
         \A i \in TokenId :
            SameRow(i) /\ transfers'[i].status \in {transfers[i].status, "failed"}
  PROVE  RaceInv'
<1>1. \A c \in ConfirmCall : CallAdvances(c)
  BY CallStays, Zenon
<1>2. ASSUME NEW p \in Pair
      PROVE  StatusGoes(p)
  <2>1. \A i \in Legs(p) : i \in TokenId
    BY PairRows, SMT
  <2> QED
    BY <2>1, Zenon DEF StatusGoes
<1> QED
  BY <1>1, <1>2, RelabelStep, Zenon DEF SameKnown

\* Steps that read the node, or find that there is nothing to do.
LEMMA ReadsRace ==
  ASSUME IInv, RaceInv, IInv', NEW j \in Job,
         \/ ListenerFinds(j) \/ ListenerReadsReceipt(j) \/ MonitorFinds(j)
         \/ MonitorChecks(j) \/ CheckBalance(j)
  PROVE  RaceInv'
<1>1. UNCHANGED <<transfers, chain, call>>
  BY Zenon DEF ListenerFinds, ListenerReadsReceipt, MonitorFinds, MonitorChecks, CheckBalance
<1>2. \/ End(j)
      \/ \E pc \in {"receipt", "check", "revert", "queue", "fail"} :
            \E todo \in SUBSET TokenId : JobTo(j, pc, todo)
      \/ job[j].pc = "balance" /\ JobTo(j, "send", job[j].todo)
  <2>1. job[j].todo \in SUBSET TokenId /\ {} \in SUBSET TokenId
    BY Zenon DEF IInv, TypeOK, JobState
  <2>2. CASE ListenerFinds(j) \/ MonitorFinds(j)
    BY <2>1, <2>2, Zenon DEF ListenerFinds, MonitorFinds
  <2>3. CASE ListenerReadsReceipt(j) \/ MonitorChecks(j)
    <3>1. \/ End(j) \/ JobTo(j, "queue", {})
          \/ JobTo(j, IF chain[TopUp(j)] = "reverted" THEN "revert" ELSE "queue", {})
      BY <2>3, Zenon DEF ListenerReadsReceipt, MonitorChecks, ByReceipt
    <3> QED
      BY <2>1, <3>1, Zenon
  <2>4. CASE CheckBalance(j)
    BY <2>1, <2>4, Zenon DEF CheckBalance
  <2> QED
    BY <2>2, <2>3, <2>4
<1>3. /\ \A k \in Job : JobSends(k)
      /\ OneJob
      /\ \A k \in Job : \A p \in Pair : JobFollows(k, p)
  <2>1. CASE End(j)
    BY <2>1, JobEndsRace
  <2>2. ASSUME NEW pc \in {"receipt", "check", "revert", "queue", "fail"},
               NEW todo \in SUBSET TokenId, JobTo(j, pc, todo)
        PROVE  /\ \A k \in Job : JobSends(k)
               /\ OneJob
               /\ \A k \in Job : \A p \in Pair : JobFollows(k, p)
    <3>1. pc \in JobPc /\ pc \notin Sending /\ pc \notin {"settle", "save"}
      BY SMT DEF JobPc, Sending
    <3> QED
      BY <2>2, <3>1, JobGoesRace
  <2>3. CASE job[j].pc = "balance" /\ JobTo(j, "send", job[j].todo)
    <3>1. /\ "send" \in JobPc /\ "send" \notin {"settle", "save"} /\ job[j].pc \in Sending
          /\ job[j].todo \in SUBSET TokenId
      BY <2>3, SMT DEF JobPc, Sending, IInv, TypeOK, JobState
    <3> QED
      BY <2>3, <3>1, JobGoesRace
  <2> QED
    BY <1>2, <2>1, <2>2, <2>3
<1>4. SameKnown /\ UNCHANGED call
  BY <1>1, Zenon DEF SameKnown, Known
<1>5. \A i \in TokenId : SameRow(i) /\ transfers'[i].status \in {transfers[i].status, "failed"}
  BY <1>1, NoRows, Zenon
<1> QED
  BY <1>3, <1>4, <1>5, WorkRace

\* What the statements on a top-up, and those that report an error, write.
LEMMA ReportRows ==
  ASSUME IInv, NEW j \in Job,
         \/ StartProcessing(j) \/ FailTransfers(j) \/ CompleteTopUp(j)
         \/ FailTopUp(j) \/ FailLinked(j)
  PROVE  \A i \in TokenId :
            SameRow(i) /\ transfers'[i].status \in {transfers[i].status, "failed"}
<1>1. TypeOK /\ TopUp(j) \in TopUpId
  BY TopUpType, Zenon DEF IInv
<1>2. \/ UNCHANGED transfers
      \/ \E S : transfers' = SetStatus(transfers, S, "failed")
      \/ \E status : transfers' = SetStatus(transfers, {TopUp(j)}, status)
      \/ transfers' = CompleteTransfer(transfers, TopUp(j), NULL)
  BY Zenon DEF StartProcessing, FailTransfers, CompleteTopUp, FailTopUp, FailLinked,
     StartEthTransferProcessing, WriteTransferError, FailLinkedTransfers
<1>3. CASE UNCHANGED transfers
  BY <1>3, NoRows, Zenon
<1>4. CASE \E S : transfers' = SetStatus(transfers, S, "failed")
  <2>1. PICK S : transfers' = SetStatus(transfers, S, "failed")
    BY <1>4
  <2>2. \A i \in TokenId :
           /\ SameRow(i)
           /\ transfers'[i].status = transfers[i].status
              \/ (i \in S /\ transfers'[i].status = "failed")
    BY <1>1, <2>1, StatusRows
  <2> QED
    BY <2>2, Zenon
<1>5. ASSUME NEW S, NEW status, transfers' = SetStatus(transfers, S, status), S \subseteq TopUpId
      PROVE  \A i \in TokenId :
                SameRow(i) /\ transfers'[i].status \in {transfers[i].status, "failed"}
  <2>1. \A i \in TokenId :
           /\ SameRow(i)
           /\ transfers'[i].status = transfers[i].status
              \/ (i \in S /\ transfers'[i].status = status)
    BY <1>1, <1>5, StatusRows
  <2> QED
    BY <1>5, <2>1, IdsDiffer, Zenon
<1>6. CASE \E status : transfers' = SetStatus(transfers, {TopUp(j)}, status)
  <2>1. PICK status : transfers' = SetStatus(transfers, {TopUp(j)}, status)
    BY <1>6
  <2>2. {TopUp(j)} \subseteq TopUpId
    BY <1>1, Zenon
  <2> QED
    BY <1>5, <2>1, <2>2
<1>7. CASE transfers' = CompleteTransfer(transfers, TopUp(j), NULL)
  <2>1. PICK S : S = {i \in Id : i = TopUp(j) \/ (NULL # NULL /\ transfers[i].hash = NULL)}
    OBVIOUS
  <2>2. transfers' = SetStatus(transfers, S, "completed") /\ S \subseteq TopUpId
    BY <1>1, <1>7, <2>1, Zenon DEF CompleteTransfer
  <2> QED
    BY <1>5, <2>2
<1> QED
  BY <1>2, <1>3, <1>4, <1>6, <1>7

\* Statements on a top-up, and those that report an error.
LEMMA ReportsRace ==
  ASSUME IInv, RaceInv, IInv', NEW j \in Job,
         \/ StartProcessing(j) \/ FailTransfers(j) \/ CompleteTopUp(j)
         \/ FailTopUp(j) \/ FailLinked(j)
  PROVE  RaceInv'
<1>1. UNCHANGED <<chain, call>>
  BY Zenon DEF StartProcessing, FailTransfers, CompleteTopUp, FailTopUp, FailLinked
<1>2. /\ job[j].todo \in SUBSET TokenId /\ {} \in SUBSET TokenId /\ SentOK(j)
  BY Zenon DEF IInv, TypeOK, JobState, RaceInv
<1>3. /\ \A k \in Job : JobSends(k)
      /\ OneJob
      /\ \A k \in Job : \A p \in Pair : JobFollows(k, p)
  <2>1. CASE End(j)
    BY <2>1, JobEndsRace
  <2>2. ASSUME NEW pc \in {"fail", "revertLinked"},
               NEW todo \in SUBSET TokenId, JobTo(j, pc, todo)
        PROVE  /\ \A k \in Job : JobSends(k)
               /\ OneJob
               /\ \A k \in Job : \A p \in Pair : JobFollows(k, p)
    <3>1. pc \in JobPc /\ pc \notin Sending /\ pc \notin {"settle", "save"}
      BY SMT DEF JobPc, Sending
    <3> QED
      BY <2>2, <3>1, JobGoesRace
  <2>3. CASE StartProcessing(j)
    <3>1. job[j].pc = "start" /\ JobTo(j, "balance", job[j].todo)
      BY <2>3, Zenon DEF StartProcessing
    <3>2. "balance" \in JobPc /\ "balance" \notin {"settle", "save"} /\ job[j].pc \in Sending
      BY <3>1, SMT DEF JobPc, Sending
    <3> QED
      BY <1>2, <3>1, <3>2, JobGoesRace
  <2>4. CASE CompleteTopUp(j)
    <3>1. job[j].pc = "settle" /\ JobTo(j, "save", {})
      BY <2>4, Zenon DEF CompleteTopUp
    <3>2. "save" \in JobPc /\ "save" \notin Sending /\ job[j].pc \in {"settle", "save"}
      BY <3>1, SMT DEF JobPc, Sending
    <3>3. job[j].todo = {}
      BY <1>2, <3>2, Zenon DEF SentOK
    <3> QED
      BY <1>2, <3>1, <3>2, <3>3, JobGoesRace
  <2>5. CASE FailTransfers(j) \/ FailTopUp(j) \/ FailLinked(j)
    <3>1. End(j) \/ \E pc \in {"fail", "revertLinked"} :
                      \E todo \in SUBSET TokenId : JobTo(j, pc, todo)
      <4>1. ASSUME NEW i \in job[j].todo
            PROVE  job[j].todo \ {i} \in SUBSET TokenId
        BY <1>2, Zenon
      <4> QED
        BY <1>2, <2>5, <4>1, Zenon DEF FailTransfers, FailTopUp, FailLinked
    <3> QED
      BY <2>1, <2>2, <3>1
  <2> QED
    BY <2>3, <2>4, <2>5
<1>4. SameKnown /\ UNCHANGED call
  BY <1>1, Zenon DEF SameKnown, Known
<1>5. \A i \in TokenId : SameRow(i) /\ transfers'[i].status \in {transfers[i].status, "failed"}
  BY ReportRows
<1> QED
  BY <1>3, <1>4, <1>5, WorkRace
\* The goroutines that do not move.
LEMMA OthersFollow ==
  ASSUME RaceInv, NEW j \in Job, \A k \in Job : k # j => job'[k] = job[k]
  PROVE  /\ \A k \in Job : k # j => JobSends(k) /\ \A p \in Pair : JobFollows(k, p)
         /\ OneJob
<1>1. ASSUME NEW k \in Job, k # j
      PROVE  JobSends(k) /\ \A p \in Pair : JobFollows(k, p)
  <2>1. job'[k] = job[k]
    BY <1>1
  <2> QED
    BY <2>1, JobStays
<1>2. OneJob
  BY Zenon DEF OneJob
<1> QED
  BY <1>1, <1>2

\* The rows that are queued for a top-up: of a pair that was confirmed once the tax
\* is among them without the transfer only when that is sent or failed.
LEMMA LoadQueuedRace ==
  ASSUME IInv, RaceInv, IInv', NEW j \in Job, LoadQueued(j)
  PROVE  RaceInv'
<1>1. UNCHANGED <<transfers, chain, call>>
  BY Zenon DEF LoadQueued
<1>2. \A c \in ConfirmCall : CallAdvances(c)
  BY <1>1, CallStays, Zenon
<1>3. \A i \in TokenId : SameRow(i) /\ (Known(i)' <=> Known(i))
  BY <1>1, NoRows, Zenon DEF Known
<1>4. \A p \in Pair : StatusGoes(p)
  BY <1>1, Zenon DEF StatusGoes
<1>5. CASE End(j)
  <2>1. /\ \A k \in Job : JobSends(k)
        /\ OneJob
        /\ \A k \in Job : \A p \in Pair : JobFollows(k, p)
    BY <1>5, JobEndsRace
  <2> QED
    BY <1>2, <1>3, <1>4, <2>1, RelabelStep
<1>6. CASE ~End(j)
  <2>1. PICK rows : rows = QueuedTransfersFor(transfers, TopUp(j))
    OBVIOUS
  <2>2. PICK mem : mem = [i \in TokenId |-> IF i \in rows THEN transfers[i] ELSE NoRow]
    OBVIOUS
  <2>3. job' = [job EXCEPT ![j] = [pc |-> "start", todo |-> rows, mem |-> mem]]
    BY <1>6, <2>1, <2>2, Zenon DEF LoadQueued
  <2>4. PICK moved : moved = [pc |-> "start", todo |-> rows, mem |-> mem]
    OBVIOUS
  <2>5. moved.pc = "start" /\ moved.todo = rows /\ moved.mem = mem
    BY <2>4
  <2>6. job'[j] = moved /\ \A k \in Job : k # j => job'[k] = job[k]
    BY <2>3, <2>4, Zenon DEF IInv, TypeOK
  <2>7. ASSUME NEW i \in rows
        PROVE  /\ i \in TokenId => mem[i] = transfers[i]
               /\ transfers[i].topUp = TopUp(j) /\ transfers[i].status = "queued"
               /\ transfers[i].topUp # NULL
    BY <2>1, <2>2, TopUpType, IdsDiffer, Zenon DEF QueuedTransfersFor
  <2>8. \A i \in Loaded(mem) : i \in rows /\ i \in TokenId
    BY <2>2, Zenon DEF Loaded
  <2>9. "start" \notin {"settle", "save"} /\ "queued" # "pending"
    OBVIOUS
  <2>10. JobSends(j)
    BY <2>5, <2>6, <2>7, <2>8, <2>9, Zenon DEF JobSends
  <2>11. ASSUME NEW p \in Pair, Once(p)'
         PROVE  JobFollows(j, p)
    <3>1. /\ TokenOf(p) \in TokenId /\ TaxOf(p) \in TokenId
          /\ TokenOf(p) \in Legs(p) /\ PairOK(p)
      BY <1>2, <2>11, PairRows, OnceBefore, SMT DEF RaceInv
    <3>2. ASSUME TaxOf(p) \in rows, ~Known(TokenOf(p)), ~TokenTold(p)
          PROVE  TokenOf(p) \in rows
      <4>1. transfers[TokenOf(p)].topUp = TopUp(j) /\ transfers[TokenOf(p)].topUp # NULL
        BY <2>7, <3>1, <3>2, Zenon DEF PairOK
      <4>2. transfers[TokenOf(p)].status = "queued"
        BY <3>1, <3>2, <4>1, SMT DEF PairOK, TokenTold
      <4>3. Taken(TokenOf(p))
        BY <3>1, <4>1, Zenon DEF IInv, TokenRowOK
      <4>4. Live(transfers, TokenOf(p)) /\ TokenOf(p) \in Id
        BY <3>1, <4>3, TakenIsLive, IdsDiffer, Zenon
      <4> QED
        BY <2>1, <4>1, <4>2, <4>4, Zenon DEF QueuedTransfersFor
    <3>3. Known(TokenOf(p)) => Known(TokenOf(p))'
      BY <1>1, Zenon DEF Known, TokenOf
    <3> QED
      BY <2>5, <2>6, <2>7, <2>8, <3>2, <3>3, Zenon DEF JobFollows
  <2>12. /\ \A k \in Job : k # j => JobSends(k) /\ \A p \in Pair : JobFollows(k, p)
         /\ OneJob
    BY <2>6, OthersFollow
  <2>13. \A k \in Job : JobSends(k)
    BY <2>10, <2>12
  <2>14. \A p \in Pair : Once(p)' => StatusGoes(p) /\ \A k \in Job : JobFollows(k, p)
    BY <1>4, <2>11, <2>12
  <2> QED
    BY <1>2, <1>3, <2>12, <2>13, <2>14, RelabelStep
<1> QED
  BY <1>5, <1>6

\* The rows of the goroutine are written back, those it has sent, and nobody else
\* has saved any of them.
LEMMA SavePendingRace ==
  ASSUME IInv, RaceInv, IInv', NEW j \in Job, SavePending(j)
  PROVE  RaceInv'
<1>1. UNCHANGED <<chain, call>> /\ job[j].pc = "save" /\ End(j)
  BY Zenon DEF SavePending
<1>2. \A c \in ConfirmCall : CallAdvances(c)
  BY <1>1, CallStays, Zenon
<1>3. /\ \A k \in Job : JobSends(k)
      /\ OneJob
      /\ \A k \in Job : \A p \in Pair : JobFollows(k, p)
  BY <1>1, JobEndsRace
<1>4. \A i : Known(i)' <=> Known(i)
  BY <1>1, Zenon DEF Known
<1>5. CASE UNCHANGED transfers
  BY <1>1, <1>3, <1>4, <1>5, NoRows, WorkRace, Zenon DEF SameKnown
<1>6. CASE transfers' = UpdateTransfers(transfers, job[j].mem)
  <2>1. /\ job'[j] = IdleJob /\ \A k \in Job : k # j => job'[k] = job[k]
    BY <1>1, EndEffect, Zenon DEF IInv, TypeOK
  <2>2. ASSUME NEW i \in Loaded(job[j].mem)
        PROVE  /\ i \in TokenId /\ Live(transfers, i) /\ Known(i) /\ Unsaved(j, i)
               /\ job[j].mem[i].topUp = TopUp(j) /\ transfers[i].topUp # NULL
    <3>1. SentOK(j) /\ JobRowOK(i, job[j].mem[i], TopUp(j)) /\ i \in TokenId
      BY Zenon DEF RaceInv, IInv, JobOK, Loaded
    <3>2. job[j].mem[i].status = "pending"
      BY <1>1, <3>1, SMT DEF SentOK
    <3>3. Live(transfers, i)
      BY <3>1, TakenIsLive, Zenon DEF JobRowOK
    <3>4. Known(i)
      BY <3>1, <3>2, PendingIsHeld
    <3> QED
      BY <3>1, <3>2, <3>3, <3>4, Zenon DEF SentOK, JobRowOK
  <2>3. job[j].mem \in Memory /\ TopUp(j) # NULL
    BY TopUpType, IdsDiffer, Zenon DEF IInv, TypeOK, JobState
  <2>4. ASSUME NEW i \in TokenId
        PROVE  /\ transfers'[i].nonce = transfers[i].nonce
               /\ i \notin Loaded(job[j].mem) => transfers'[i] = transfers[i]
               /\ i \in Loaded(job[j].mem) => /\ transfers'[i].topUp = TopUp(j)
                                              /\ transfers[i].status # "absent"
    <3>1. /\ transfers'[i].nonce = transfers[i].nonce
          /\ i \notin Loaded(job[j].mem) => transfers'[i] = transfers[i]
          /\ i \in Loaded(job[j].mem) /\ Live(transfers, i) =>
                transfers'[i].topUp = job[j].mem[i].topUp
      BY <1>6, <2>3, UpdateEffect
    <3> QED
      BY <2>2, <3>1, Zenon DEF Live
  <2>5. ASSUME NEW i \in TokenId
        PROVE  RowGoes(i)
    <3>1. CASE i \notin Loaded(job[j].mem)
      <4>1. transfers'[i] = transfers[i]
        BY <2>4, <3>1
      <4> QED
        BY <1>4, <4>1, Zenon DEF RowGoes, HashGoes
    <3>2. CASE i \in Loaded(job[j].mem)
      <4>1. ASSUME NEW k \in Job
            PROVE  job'[k].mem[i].status # "pending"
        <5>1. CASE k = j
          <6>1. job'[k].mem[i] = NoRow
            BY <2>1, <5>1, SMT DEF IdleJob, Nothing
          <6> QED
            BY <6>1, SMT DEF NoRow
        <5>2. CASE k # j
          BY <2>1, <2>2, <3>2, <5>2, Zenon DEF Unsaved
        <5> QED
          BY <5>1, <5>2
      <4>2. HashGoes(i)
        BY <4>1, Zenon DEF HashGoes
      <4> QED
        BY <1>4, <2>2, <2>3, <2>4, <3>2, <4>2, Zenon DEF RowGoes
    <3> QED
      BY <3>1, <3>2
  <2>6. ASSUME NEW p \in Pair
        PROVE  NonceOK(p)'
    <3>1. /\ TokenOf(p) \in TokenId /\ TaxOf(p) \in TokenId /\ NonceOK(p)
          /\ TokenOf(p)' = TokenOf(p) /\ TaxOf(p)' = TaxOf(p)
      BY PairRows, Zenon DEF RaceInv, TokenOf, TaxOf
    <3>2. transfers'[TaxOf(p)].status # "absent" => transfers[TaxOf(p)].status # "absent"
      BY <2>4, <3>1, Zenon
    <3> QED
      BY <2>4, <3>1, <3>2, Zenon DEF NonceOK
  <2>7. ASSUME NEW p \in Pair, Once(p)'
        PROVE  PairGoes(p)
    <3>1. PairOK(p) /\ \A i \in Legs(p) : i \in TokenId
      BY <1>2, <2>7, PairRows, OnceBefore, SMT DEF RaceInv
    <3>2. ASSUME NEW i \in Legs(p)
          PROVE  LegGoes(i)
      <4>1. CASE i \notin Loaded(job[j].mem)
        <5>1. transfers'[i] = transfers[i]
          BY <2>4, <3>1, <4>1
        <5> QED
          BY <1>4, <5>1, Zenon DEF LegGoes
      <4>2. CASE i \in Loaded(job[j].mem)
        <5>1. transfers[i].topUp = TopUp(j)
          BY <3>1, <4>2, Zenon DEF PairOK
        <5> QED
          BY <1>4, <2>2, <2>4, <3>1, <4>2, <5>1, Zenon DEF LegGoes
      <4> QED
        BY <4>1, <4>2
    <3>3. Known(TaxOf(p))' => Known(TaxOf(p))
      BY <1>4, Zenon DEF TaxOf
    <3> QED
      BY <1>3, <3>2, <3>3, Zenon DEF PairGoes
  <2> QED
    BY <1>2, <1>3, <2>5, <2>6, <2>7, RaceStep
<1> QED
  BY <1>5, <1>6, Zenon DEF SavePending
\* A goroutine sends the tax of a pair first only when the transfer is sent or failed.
LEMMA TaxIsSecond ==
  ASSUME IInv, RaceInv, NEW j \in Job, job[j].pc = "send", NEW p \in Pair, PairOK(p),
         LowestNonce(j, TaxOf(p))
  PROVE  Known(TokenOf(p)) \/ TokenTold(p)
<1>1. /\ SentOK(j) /\ NonceOK(p) /\ job[j].todo \subseteq Loaded(job[j].mem)
      /\ TaxOf(p) \in job[j].todo /\ TaxOf(p) \in TokenId /\ TokenOf(p) \in TokenId
  BY PairRows, Zenon DEF RaceInv, IInv, JobOK, LowestNonce
<1>2. job[j].pc \in Sending
  BY SMT DEF Sending
<1>3. CASE TokenOf(p) \in job[j].todo
  <2>1. /\ job[j].mem[TaxOf(p)].nonce = transfers[TaxOf(p)].nonce
        /\ job[j].mem[TokenOf(p)].nonce = transfers[TokenOf(p)].nonce
        /\ transfers[TaxOf(p)].topUp # NULL
    BY <1>1, <1>3, Zenon DEF SentOK
  <2>2. transfers[TaxOf(p)].status # "absent"
    <3>1. Taken(TaxOf(p))
      BY <1>1, <2>1, Zenon DEF IInv, TokenRowOK
    <3> QED
      BY <3>1, SMT DEF Taken
  <2>3. transfers[TaxOf(p)].nonce <= transfers[TokenOf(p)].nonce
    BY <1>3, <2>1, Zenon DEF LowestNonce
  <2>4. transfers[TokenOf(p)].nonce \in Nat
    BY <1>1, IdsDiffer, Zenon DEF IInv, TypeOK, Row
  <2>5. transfers[TaxOf(p)].nonce = transfers[TokenOf(p)].nonce + 1
    BY <1>1, <2>2, Zenon DEF NonceOK
  <2> QED
    BY <2>3, <2>4, <2>5, SMT
<1>4. CASE TokenOf(p) \notin job[j].todo
  BY <1>1, <1>2, <1>4, Zenon DEF PairOK, TaxFollows, TokenTold
<1> QED
  BY <1>3, <1>4

\* What the node's acceptance of a row does to rows and pairs.
LEMMA BroadcastGoes ==
  ASSUME IInv, RaceInv, NEW j \in Job, job[j].pc = "send", UNCHANGED <<transfers, call>>,
         NEW i \in Loaded(job[j].mem), LowestNonce(j, i), Accept(i)
  PROVE  /\ \A k \in TokenId : RowGoes(k) /\ LegGoes(k)
         /\ \A p \in Pair : NonceOK(p)'
         /\ \A p \in Pair : PairOK(p) /\ Known(TaxOf(p))' =>
               Known(TaxOf(p)) \/ Known(TokenOf(p)) \/ TokenTold(p)
         /\ Known(i)'
<1>1. i \in TokenId /\ transfers[i].topUp # NULL
  BY Zenon DEF RaceInv, SentOK, Loaded
<1>2. chain \in [Id -> {"none", "pooled", "mined", "reverted"}] /\ i \in Id
  BY <1>1, IdsDiffer, Zenon DEF IInv, TypeOK
<1>3. "pooled" # "none"
  OBVIOUS
<1>4. Known(i)' /\ \A k \in TokenId : k # i => (Known(k)' <=> Known(k))
  BY <1>2, <1>3, IdsDiffer, Zenon DEF Known, Accept
<1>5. \A k \in TokenId : RowGoes(k) /\ LegGoes(k)
  BY <1>1, <1>4, Zenon DEF RowGoes, HashGoes, LegGoes
<1>6. \A p \in Pair : NonceOK(p)'
  BY Zenon DEF RaceInv, NonceOK, TokenOf, TaxOf
<1>7. ASSUME NEW p \in Pair, PairOK(p), Known(TaxOf(p))'
      PROVE  Known(TaxOf(p)) \/ Known(TokenOf(p)) \/ TokenTold(p)
  <2>1. CASE TaxOf(p) = i
    BY <1>7, <2>1, TaxIsSecond
  <2>2. CASE TaxOf(p) # i
    BY <1>4, <1>7, <2>2, PairRows, Zenon DEF TaxOf
  <2> QED
    BY <2>1, <2>2
<1> QED
  BY <1>4, <1>5, <1>6, <1>7

\* The rows of a pair are sent one after the other, the transfer first.
LEMMA SendTransferRace ==
  ASSUME IInv, RaceInv, IInv', NEW j \in Job, SendTransfer(j)
  PROVE  RaceInv'
<1>1. UNCHANGED <<transfers, call>> /\ job[j].pc = "send"
  BY Zenon DEF SendTransfer
<1>2. /\ job[j].todo \in SUBSET Loaded(job[j].mem)
      /\ \A i \in Loaded(job[j].mem) : JobRowOK(i, job[j].mem[i], TopUp(j)) /\ i \in TokenId
  BY Zenon DEF IInv, JobOK, Loaded
<1>3. PICK i \in job[j].todo :
        /\ LowestNonce(j, i)
        /\ LET tx == job[j].mem[i].raw
           IN \/ /\ Acceptable(tx) /\ Accept(tx)
                 /\ job' = [job EXCEPT ![j] =
                      [@ EXCEPT !.pc = IF job[j].todo \ {i} = {} THEN "settle" ELSE "send",
                                !.todo = job[j].todo \ {i},
                                !.mem[i] = [job[j].mem[i] EXCEPT !.status = "pending", !.hash = tx]]]
              \/ Acceptable(tx) /\ Accept(tx) /\ JobTo(j, "fail", {i})
              \/ JobTo(j, "fail", {i}) /\ UNCHANGED chain
  BY Zenon DEF SendTransfer
<1>4. i \in Loaded(job[j].mem) /\ i \in TokenId /\ job[j].mem[i].raw = i
  BY <1>2, Zenon DEF JobRowOK
<1>5. \A c \in ConfirmCall : CallAdvances(c)
  BY <1>1, CallStays, Zenon
<1>6. ASSUME JobTo(j, "fail", {i})
      PROVE  /\ \A k \in Job : JobSends(k)
             /\ OneJob
             /\ \A k \in Job : \A p \in Pair : JobFollows(k, p)
  <2>1. "fail" \in JobPc /\ "fail" \notin Sending /\ "fail" \notin {"settle", "save"}
    BY SMT DEF JobPc, Sending
  <2>2. {i} \in SUBSET TokenId
    BY <1>4, Zenon
  <2> QED
    BY <1>6, <2>1, <2>2, JobGoesRace
<1>7. CASE JobTo(j, "fail", {i}) /\ UNCHANGED chain
  <2>1. SameKnown
    BY <1>7, Zenon DEF SameKnown, Known
  <2>2. \A k \in TokenId : SameRow(k) /\ transfers'[k].status \in {transfers[k].status, "failed"}
    BY <1>1, NoRows, Zenon
  <2> QED
    BY <1>1, <1>6, <1>7, <2>1, <2>2, WorkRace
<1>8. ASSUME Accept(i), \A k \in Job : JobSends(k), OneJob,
             \A k \in Job : \A p \in Pair : JobFollows(k, p)
      PROVE  RaceInv'
  <2>1. /\ \A k \in TokenId : RowGoes(k) /\ LegGoes(k)
        /\ \A p \in Pair : NonceOK(p)'
        /\ \A p \in Pair : PairOK(p) /\ Known(TaxOf(p))' =>
              Known(TaxOf(p)) \/ Known(TokenOf(p)) \/ TokenTold(p)
    BY <1>1, <1>3, <1>4, <1>8, BroadcastGoes
  <2>2. ASSUME NEW p \in Pair, Once(p)'
        PROVE  PairGoes(p)
    <3>1. PairOK(p) /\ \A k \in Legs(p) : k \in TokenId
      BY <1>5, <2>2, PairRows, OnceBefore, SMT DEF RaceInv
    <3> QED
      BY <1>8, <2>1, <3>1, Zenon DEF PairGoes
  <2> QED
    BY <1>5, <1>8, <2>1, <2>2, RaceStep
<1>9. CASE Accept(i) /\ JobTo(j, "fail", {i})
  BY <1>6, <1>8, <1>9
<1>10. CASE /\ Acceptable(i) /\ Accept(i)
            /\ job' = [job EXCEPT ![j] =
                  [@ EXCEPT !.pc = IF job[j].todo \ {i} = {} THEN "settle" ELSE "send",
                            !.todo = job[j].todo \ {i},
                            !.mem[i] = [job[j].mem[i] EXCEPT !.status = "pending", !.hash = i]]]
  <2>1. PICK pc : pc = IF job[j].todo \ {i} = {} THEN "settle" ELSE "send"
    OBVIOUS
  <2>2. PICK row : row = [job[j].mem[i] EXCEPT !.status = "pending", !.hash = i]
    OBVIOUS
  <2>3. job' = [job EXCEPT ![j] = [job[j] EXCEPT !.pc = pc, !.todo = job[j].todo \ {i},
                                                 !.mem = [job[j].mem EXCEPT ![i] = row]]]
    <3>1. job' = [job EXCEPT ![j] =
             [job[j] EXCEPT !.pc = IF job[j].todo \ {i} = {} THEN "settle" ELSE "send",
                !.todo = job[j].todo \ {i},
                !.mem = [job[j].mem EXCEPT ![i] =
                   [job[j].mem[i] EXCEPT !.status = "pending", !.hash = i]]]]
      BY <1>10, Zenon
    <3> QED
      BY <2>1, <2>2, <3>1, Zenon
  <2>4. job \in [Job -> JobState] /\ job[j].mem \in Memory /\ job[j].mem[i] \in Row
    BY <1>4, Zenon DEF IInv, TypeOK, JobState, Memory
  <2>5. row.status = "pending" /\ row.nonce = job[j].mem[i].nonce
    BY <2>2, <2>4, SMT DEF Row
  <2>6. /\ job'[j].pc = pc /\ job'[j].todo = job[j].todo \ {i}
        /\ job'[j].mem = [job[j].mem EXCEPT ![i] = row]
        /\ \A k \in Job : k # j => job'[k] = job[k]
    BY <2>3, <2>4, Zenon DEF JobState
  <2>7. job'[j].mem[i] = row /\ \A k \in TokenId : k # i => job'[j].mem[k] = job[j].mem[k]
    BY <1>4, <2>4, <2>6, Zenon DEF Memory
  <2>8. \A k \in Loaded(job'[j].mem) : k \in TokenId /\ k \in Loaded(job[j].mem)
    BY <1>4, <2>7, Zenon DEF Loaded
  <2>9. /\ pc \in {"settle", "save"} => job[j].todo \ {i} = {}
        /\ job[j].pc \in Sending
    BY <1>1, <2>1, SMT DEF Sending
  <2>10. SentOK(j) /\ ~Known(i)
    BY <1>10, Zenon DEF RaceInv, Acceptable
  <2>11. JobSends(j)
    <3>1. ASSUME NEW k \in Loaded(job'[j].mem)
          PROVE  /\ transfers[k].topUp # NULL
                 /\ job'[j].mem[k].nonce = transfers[k].nonce
                 /\ job'[j].mem[k].status = "pending" => job[j].mem[k].status = "pending" \/ ~Known(k)
                 /\ k \in job'[j].todo \/ job'[j].mem[k].status = "pending"
      <4>1. /\ transfers[k].topUp # NULL /\ job[j].mem[k].nonce = transfers[k].nonce
            /\ k \in job[j].todo \/ job[j].mem[k].status = "pending"
        BY <2>8, <2>9, <2>10, Zenon DEF SentOK
      <4>2. CASE k = i
        BY <2>5, <2>7, <2>10, <4>1, <4>2
      <4>3. CASE k # i
        BY <2>6, <2>7, <2>8, <4>1, <4>3, Zenon
      <4> QED
        BY <4>2, <4>3
    <3>2. job'[j].pc \in {"settle", "save"} => job'[j].todo = {}
      BY <2>6, <2>9, Zenon
    <3> QED
      BY <3>1, <3>2, Zenon DEF JobSends
  <2>12. Known(i)'
    BY <1>1, <1>3, <1>4, <1>10, BroadcastGoes
  <2>13. \A p \in Pair : JobFollows(j, p)
    <3>1. ASSUME NEW p \in Pair, TaxOf(p) \in job'[j].todo
          PROVE  \/ TokenOf(p) \in job'[j].todo \/ Known(TokenOf(p))'
                 \/ TaxOf(p) \in job[j].todo /\ TokenOf(p) \notin job[j].todo
      <4>1. CASE TokenOf(p) = i
        BY <2>12, <4>1, Zenon DEF TokenOf
      <4>2. CASE TokenOf(p) # i
        BY <2>6, <3>1, <4>2, Zenon
      <4> QED
        BY <4>1, <4>2
    <3> QED
      BY <2>8, <2>9, <3>1, Zenon DEF JobFollows
  <2>14. /\ \A k \in Job : JobSends(k)
         /\ OneJob
         /\ \A k \in Job : \A p \in Pair : JobFollows(k, p)
    BY <2>6, <2>11, <2>13, OnlyOneMoves
  <2> QED
    BY <1>8, <1>10, <2>14
<1> QED
  BY <1>3, <1>4, <1>7, <1>9, <1>10, Zenon
-----------------------------------------------------------------------------
(* Every step keeps the invariant *)

\* Confirmations.
LEMMA ConfirmKeepsRace ==
  ASSUME IInv, RaceInv, IInv', NEW c \in ConfirmCall, CallWhole(c), ConfirmTransfer(c)
  PROVE  RaceInv'
  BY ConfirmRace, SaveQueuedRace

\* Goroutines.
LEMMA EndTopUpRace ==
  ASSUME IInv, RaceInv, IInv', NEW j \in Job, EndTopUp(j)
  PROVE  RaceInv'
  BY ReadsRace, ReportsRace, LoadQueuedRace, SendTransferRace, SavePendingRace,
     Zenon DEF EndTopUp, CompleteTransfers, FailEthTransfer

\* Every step.
LEMMA RaceNext == GaslessInv /\ IInv' /\ RaceInv /\ [Next]_vars => RaceInv'
<1> SUFFICES ASSUME GaslessInv, IInv', RaceInv, [Next]_vars
             PROVE  RaceInv'
  OBVIOUS
<1>1. IInv /\ \A c \in ConfirmCall : CallWhole(c)
  BY Zenon DEF GaslessInv
<1>2. CASE UNCHANGED vars
  <2>1. UNCHANGED <<transfers, chain, call, job>>
    BY <1>2, Zenon DEF vars
  <2> QED
    BY <1>1, <2>1, NoRows, AsideRace, Zenon DEF SameKnown, Known
<1>3. ASSUME NEW c \in ConfirmCall, ConfirmTransfer(c)
      PROVE  RaceInv'
  BY <1>1, <1>3, ConfirmKeepsRace
<1>4. ASSUME NEW j \in Job, EndTopUp(j)
      PROVE  RaceInv'
  BY <1>1, <1>4, EndTopUpRace
<1>5. ASSUME NEW p \in Pair, CreateTransfer(p)
      PROVE  RaceInv'
  BY <1>1, <1>5, CreateRace
<1>6. CASE Environment
  BY <1>1, <1>6, EnvironmentRace
<1>7. CASE (\E i \in TokenId : ListenerSeesEvent(i)) \/ MonitorEvents
  BY <1>1, <1>7, EventsRace
<1> QED
  BY <1>2, <1>3, <1>4, <1>5, <1>6, <1>7, Zenon DEF Next

\* At the start no pair is confirmed and no goroutine works.
LEMMA RaceInit == Init => RaceInv
<1> SUFFICES ASSUME Init
             PROVE  RaceInv
  OBVIOUS
<1>1. /\ \A i \in TokenId : transfers[i] = NoRow /\ ~Known(i)
      /\ \A c \in ConfirmCall : call[c] = IdleCall
      /\ \A j \in Job : job[j] = IdleJob
  BY IdsDiffer, Zenon DEF Init, Known
<1>2. /\ NoRow.topUp = NULL /\ NoRow.status = "absent"
      /\ IdleCall.pc = "idle" /\ IdleJob.pc = "idle" /\ IdleJob.todo = {}
      /\ IdleJob.mem = Nothing
  BY SMT DEF NoRow, IdleCall, IdleJob
<1>3. \A i \in TokenId : LinkOK(i)
  BY <1>1, <1>2, Zenon DEF LinkOK
<1>4. \A p \in Pair : NonceOK(p)
  BY <1>1, <1>2, PairRows, Zenon DEF NonceOK
<1>5. \A c \in ConfirmCall : CallHolds(c)
  BY <1>1, <1>2, SMT DEF CallHolds
<1>6. \A j \in Job : Loaded(job[j].mem) = {} /\ job[j].todo = {} /\ job[j].pc = "idle"
  BY <1>1, <1>2, NothingLoaded
<1>7. \A j \in Job : SentOK(j)
  <2>1. "idle" \notin {"settle", "save"}
    OBVIOUS
  <2> QED
    BY <1>6, <2>1, Zenon DEF SentOK
<1>8. ASSUME NEW p \in Pair
      PROVE  PairOK(p)
  <2>1. /\ TokenOf(p) \in TokenId /\ TaxOf(p) \in TokenId
        /\ \A i \in Legs(p) : i \in TokenId
    BY PairRows, SMT
  <2> QED
    BY <1>1, <1>2, <1>6, <2>1, Zenon DEF PairOK, TaxFollows
<1> QED
  BY <1>3, <1>4, <1>5, <1>7, <1>8, Zenon DEF RaceInv

\* The invariants hold together.
LEMMA RaceInvariance == Spec => [](GaslessInv /\ RaceInv)
<1>1. Init => GaslessInv /\ RaceInv
  BY InitMaps, RaceInit
<1>2. GaslessInv /\ RaceInv /\ [Next]_vars => (GaslessInv /\ RaceInv)'
  <2> SUFFICES ASSUME GaslessInv, RaceInv, [Next]_vars
               PROVE  (GaslessInv /\ RaceInv)'
    OBVIOUS
  <2>1. IInv'
    BY NextInv, Zenon DEF GaslessInv
  <2>2. GaslessInv'
    BY <2>1, StepMaps, Zenon DEF GaslessInv, Kept
  <2> QED
    BY <2>1, <2>2, RaceNext
<1> QED
  BY <1>1, <1>2, PTL DEF Spec

-----------------------------------------------------------------------------
(* What a reader should know *)

\* Of a pair that was confirmed once the tax alone is sent only when the row of the
\* transfer says that it failed: rows are sent by nonce, and a goroutine loads the
\* tax without the transfer after the other one has failed the transfer. Nothing is
\* assumed of the faults or of how many goroutines work on the top-up.
THEOREM TaxIsToldOf == Spec => []TaxAloneIsTold
<1>1. RaceInv => TaxAloneIsTold
  <2> SUFFICES ASSUME RaceInv, NEW p \in Pair,
                      Known(<<p, "tax">>), ~Known(<<p, "transfer_token">>), Once(p)
               PROVE  transfers[<<p, "transfer_token">>].status = "failed"
    BY Zenon DEF TaxAloneIsTold
  <2>1. PairOK(p)
    BY Zenon DEF RaceInv
  <2> QED
    BY <2>1, Zenon DEF PairOK, TokenOf, TaxOf
<1> QED
  BY <1>1, RaceInvariance, PTL
\* What the steps do to a completed row.
Settled(i) == transfers'[i].status \in {"completed", "failed"}

\* A completed row has its hash; what a goroutine has sent and not saved has none.
LEMMA SavedIsNotSettled ==
  ASSUME IInv, RaceInv, NEW j \in Job, SavePending(j), NEW i \in TokenId,
         transfers[i].status = "completed"
  PROVE  Settled(i)
<1>1. transfers[i].hash # NULL
  <2>1. transfers[i].hash = i
    BY SMT DEF IInv, TokenRowOK
  <2> QED
    BY <2>1, IdsDiffer
<1>2. CASE UNCHANGED transfers
  BY <1>2, Zenon DEF Settled
<1>3. CASE transfers' = UpdateTransfers(transfers, job[j].mem)
  <2>1. SentOK(j) /\ job[j].pc = "save" /\ job[j].mem \in Memory
    BY Zenon DEF RaceInv, SavePending, IInv, TypeOK, JobState
  <2>2. i \notin Loaded(job[j].mem)
    <3> SUFFICES ASSUME i \in Loaded(job[j].mem)
                 PROVE  FALSE
      OBVIOUS
    <3>1. job[j].mem[i].status = "pending"
      BY <2>1, SMT DEF SentOK
    <3> QED
      BY <1>1, <2>1, <3>1, Zenon DEF SentOK, Unsaved
  <2>3. transfers'[i] = transfers[i]
    BY <1>3, <2>1, <2>2, UpdateEffect
  <2> QED
    BY <2>3, Zenon DEF Settled
<1> QED
  BY <1>2, <1>3, Zenon DEF SavePending

\* A row that was handed out is not inserted again.
LEMMA InsertedIsNotSettled ==
  ASSUME IInv, NEW p \in Pair, InsertTransfers(p), NEW i \in TokenId,
         transfers[i].status = "completed"
  PROVE  Settled(i)
<1>1. transfers' = CreateTransfers(transfers, p, draft[p].nonce) /\ draft[p].pc # "done"
  BY SMT DEF InsertTransfers
<1>2. \A k \in Legs(p) : transfers[k].status = "absent"
  BY <1>1, Zenon DEF IInv, DraftOK
<1>3. i \notin Legs(p)
  BY <1>2, SMT
<1>4. i # TokenOf(p) /\ i # TaxOf(p) /\ i \in Id
  BY <1>3, PairRows, IdsDiffer, SMT
<1>5. transfers'[i] = transfers[i]
  BY <1>1, <1>4, Zenon DEF CreateTransfers, TokenOf, TaxOf, IInv, TypeOK
<1> QED
  BY <1>5, Zenon DEF Settled

\* A confirmation writes rows of its own pair.
LEMMA ConfirmedIsNotSettled ==
  ASSUME IInv, RaceInv, NEW c \in ConfirmCall, ConfirmTransfer(c), NEW i \in TokenId,
         transfers[i].status = "completed"
  PROVE  Settled(i) \/ c \in {i[1]} \X Attempt
<1>1. CASE i \in Legs(c[1])
  BY <1>1, CallOfPair, Zenon
<1>2. CASE i \notin Legs(c[1])
  <2>1. CASE ~SaveQueued(c)
    <3>1. transfers'[i].status = transfers[i].status
      BY <1>2, <2>1, ConfirmRelabels
    <3> QED
      BY <3>1, Zenon DEF Settled
  <2>2. CASE SaveQueued(c)
    <3>1. call[c].pc = "save"
      BY <2>2, Zenon DEF SaveQueued
    <3>2. CASE UNCHANGED transfers
      BY <3>2, Zenon DEF Settled
    <3>3. CASE transfers' = UpdateTransfers(transfers, Linked(call[c].mem, TopUpOf(c)))
      <4>1. transfers'[i] = transfers[i]
        BY <1>2, <3>1, <3>3, QueuedRows
      <4> QED
        BY <4>1, Zenon DEF Settled
    <3> QED
      BY <2>2, <3>2, <3>3, Zenon DEF SaveQueued
  <2> QED
    BY <2>1, <2>2
<1> QED
  BY <1>1, <1>2

\* Every step.
LEMMA SettledNext ==
  ASSUME IInv, RaceInv, [Next]_vars, NEW i \in TokenId, transfers[i].status = "completed"
  PROVE  Settled(i) \/ \E c \in {i[1]} \X Attempt : ConfirmTransfer(c)
<1>1. CASE UNCHANGED transfers
  BY <1>1, Zenon DEF Settled
<1>2. CASE UNCHANGED vars
  BY <1>1, <1>2, Zenon DEF vars
<1>3. CASE Environment
  BY <1>1, <1>3, Zenon DEF Environment, Mine, ForeignTransaction, Restart
<1>4. ASSUME NEW p \in Pair, CreateTransfer(p)
      PROVE  Settled(i)
  <2>1. CASE ReadUserNonce(p) \/ AbortCreateTransfer(p)
    BY <2>1, Zenon DEF ReadUserNonce, AbortCreateTransfer, Settled
  <2>2. CASE ClearUnsigned(p)
    <3>1. transfers'[i].status = transfers[i].status
      BY <2>2, ClearedRows, Zenon DEF ClearUnsigned, IInv
    <3> QED
      BY <3>1, Zenon DEF Settled
  <2> QED
    BY <1>4, <2>1, <2>2, InsertedIsNotSettled, Zenon DEF CreateTransfer
<1>5. ASSUME NEW c \in ConfirmCall, ConfirmTransfer(c)
      PROVE  Settled(i) \/ \E d \in {i[1]} \X Attempt : ConfirmTransfer(d)
  BY <1>5, ConfirmedIsNotSettled
<1>6. ASSUME NEW j \in Job, EndTopUp(j)
      PROVE  Settled(i)
  <2>1. CASE \/ ListenerFinds(j) \/ ListenerReadsReceipt(j) \/ MonitorFinds(j)
             \/ MonitorChecks(j) \/ LoadQueued(j) \/ CheckBalance(j) \/ SendTransfer(j)
    <3>1. UNCHANGED transfers
      BY <2>1, Zenon DEF ListenerFinds, ListenerReadsReceipt, MonitorFinds, MonitorChecks,
         LoadQueued, CheckBalance, SendTransfer
    <3> QED
      BY <3>1, Zenon DEF Settled
  <2>2. CASE \/ StartProcessing(j) \/ FailTransfers(j) \/ CompleteTopUp(j)
             \/ FailTopUp(j) \/ FailLinked(j)
    <3>1. transfers'[i].status \in {transfers[i].status, "failed"}
      BY <2>2, ReportRows
    <3> QED
      BY <3>1, Zenon DEF Settled
  <2> QED
    BY <1>6, <2>1, <2>2, SavedIsNotSettled, Zenon DEF EndTopUp, CompleteTransfers, FailEthTransfer
<1>7. CASE (\E k \in TokenId : ListenerSeesEvent(k)) \/ MonitorEvents
  <2>1. PICK hash \in TokenId \cup {NULL} :
            UNCHANGED transfers
            \/ (hash \in TokenId /\ transfers' = CompleteTransfer(transfers, NULL, hash))
    BY <1>7, Zenon DEF ListenerSeesEvent, MonitorEvents, WatchPending, CheckPending, IInv
  <2>2. CASE hash \in TokenId /\ transfers' = CompleteTransfer(transfers, NULL, hash)
    <3>1. transfers'[i].status \in {transfers[i].status, "completed"}
      BY <2>2, CompletedRows
    <3> QED
      BY <3>1, Zenon DEF Settled
  <2> QED
    BY <1>1, <2>1, <2>2
<1> QED
  BY <1>2, <1>3, <1>4, <1>5, <1>6, <1>7, Zenon DEF Next

\* No row that was loaded some steps before is saved over a completed one: the
\* goroutine that has sent a row is the only one who can save its hash, so that the
\* row is not completed before it saves it. What is left is the error of the slower
\* of two goroutines, and a confirmation of the same pair.
THEOREM CompletionIsSettled == Spec => CompletedIsSettled
<1>1. GaslessInv /\ RaceInv /\ [Next]_vars =>
         [\A i \in TokenId : transfers[i].status = "completed" =>
             \/ transfers'[i].status \in {"completed", "failed"}
             \/ \E c \in {i[1]} \X Attempt : ConfirmTransfer(c)]_vars
  <2> SUFFICES ASSUME IInv, RaceInv, [Next]_vars, NEW i \in TokenId,
                      transfers[i].status = "completed"
               PROVE  \/ transfers'[i].status \in {"completed", "failed"}
                      \/ \E c \in {i[1]} \X Attempt : ConfirmTransfer(c)
    BY Zenon DEF GaslessInv
  <2> QED
    BY SettledNext, Zenon DEF Settled
<1> QED
  BY <1>1, RaceInvariance, PTL DEF Spec, CompletedIsSettled
=============================================================================
