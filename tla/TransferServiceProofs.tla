----------------------- MODULE TransferServiceProofs -----------------------
(***************************************************************************)
(* Safety of TransferService for any number of users, pairs, calls and     *)
(* top-ups and under every combination of the modelled faults.             *)
(***************************************************************************)
EXTENDS TransferInvariant, TLAPS

-----------------------------------------------------------------------------
(* The statements of the store map tables to tables. *)

\* The row that stands for "no such row" is a row.
LEMMA NoRowType == NoRow \in Row
  BY StoreAssumption, SMT DEF NoRow, Row, Status, Reference

\* A statement that sets a status returns a table.
LEMMA SetStatusType ==
  ASSUME NEW T \in [Id -> Row], NEW S, NEW status \in Status
  PROVE  SetStatus(T, S, status) \in [Id -> Row]
  BY Zenon DEF SetStatus, Row

\* The two INSERTs of CreateTransfer return a table.
LEMMA CreateTransfersType ==
  ASSUME NEW T \in [Id -> Row], NEW p \in Pair, NEW nonce \in Nat
  PROVE  CreateTransfers(T, p, nonce) \in [Id -> Row]
<1>1. \A n \in Nat : [NoRow EXCEPT !.status = "new", !.nonce = n] \in Row
  <2> SUFFICES ASSUME NEW n \in Nat
               PROVE  [NoRow EXCEPT !.status = "new", !.nonce = n] \in Row
    OBVIOUS
  <2>1. "new" \in Status
    BY DEF Status
  <2> QED
    BY <2>1, NoRowType, Zenon DEF Row
<1>2. nonce + 1 \in Nat
  BY SMT
<1> QED
  BY <1>1, <1>2, Zenon DEF CreateTransfers

\* The soft deletion returns a table.
LEMMA ClearUnsignedType ==
  ASSUME NEW T \in [Id -> Row], NEW u
  PROVE  ClearUnsignedTransfers(T, u) \in [Id -> Row]
  BY Zenon DEF ClearUnsignedTransfers, Row

\* Writing rows from memory returns a table.
LEMMA UpdateTransfersType ==
  ASSUME NEW T \in [Id -> Row], NEW mem \in Memory
  PROVE  UpdateTransfers(T, mem) \in [Id -> Row]
<1>1. ASSUME NEW i \in TokenId, NEW r \in Row
      PROVE  [r EXCEPT !.hash = mem[i].hash, !.raw = mem[i].raw,
                       !.status = mem[i].status, !.topUp = mem[i].topUp] \in Row
  BY Zenon DEF Row, Memory
<1> QED
  BY <1>1, Zenon DEF UpdateTransfers

\* The INSERT of a top-up returns a table.
LEMMA CreateEthTransferType ==
  ASSUME NEW T \in [Id -> Row], NEW t \in TopUpId
  PROVE  CreateEthTransfer(T, t) \in [Id -> Row]
<1>1. t[1] \in Nat /\ t \in Reference /\ "pending" \in Status
  BY StoreAssumption, SMT DEF TopUpId, Id, Reference, Status
<1>2. [NoRow EXCEPT !.status = "pending", !.nonce = t[1], !.hash = t] \in Row
  BY <1>1, NoRowType, Zenon DEF Row
<1> QED
  BY <1>2, Zenon DEF CreateEthTransfer

-----------------------------------------------------------------------------
(* Control state *)

\* What Goto changes in a call, and what it keeps.
LEMMA GotoEffect ==
  ASSUME call \in [ConfirmCall -> CallState], NEW c \in ConfirmCall,
         NEW pc \in CallPc, NEW todo \in SUBSET TokenId, Goto(c, pc, todo)
  PROVE  /\ call' \in [ConfirmCall -> CallState]
         /\ call'[c].pc = pc /\ call'[c].todo = todo
         /\ call'[c].mem = call[c].mem /\ call'[c].nonce = call[c].nonce
         /\ \A d \in ConfirmCall : d # c => call'[d] = call[d]
<1>1. [call[c] EXCEPT !.pc = pc, !.todo = todo] \in CallState
  BY Zenon DEF CallState
<1> QED
  BY <1>1, Zenon DEF Goto, CallState

\* A call that has not begun holds nothing.
LEMMA IdleCallType == IdleCall \in CallState
<1>1. Nothing \in Memory
  BY NoRowType, Zenon DEF Nothing, Memory
<1>2. 0 \in Nat /\ 0 \in 0 .. MaxTopUps - 1 /\ "idle" \in CallPc
  BY StoreAssumption, SMT DEF CallPc
<1> QED
  BY <1>1, <1>2, Zenon DEF IdleCall, CallState

\* A call that returns forgets its memory.
LEMMA ReturnEffect ==
  ASSUME call \in [ConfirmCall -> CallState], NEW c \in ConfirmCall, Return(c)
  PROVE  /\ call' \in [ConfirmCall -> CallState]
         /\ call'[c].pc = "done" /\ call'[c].todo = {} /\ call'[c].mem = Nothing
         /\ \A d \in ConfirmCall : d # c => call'[d] = call[d]
<1>1. "done" \in CallPc
  BY DEF CallPc
<1>2. [IdleCall EXCEPT !.pc = "done"] \in CallState
  BY <1>1, IdleCallType, Zenon DEF CallState
<1>3. /\ [IdleCall EXCEPT !.pc = "done"].pc = "done"
      /\ [IdleCall EXCEPT !.pc = "done"].todo = {}
      /\ [IdleCall EXCEPT !.pc = "done"].mem = Nothing
  BY SMT DEF IdleCall
<1> QED
  BY <1>2, <1>3, Zenon DEF Return

\* The legs of a pair are token rows.
LEMMA LegsType ==
  ASSUME NEW c \in ConfirmCall
  PROVE  Legs(c[1]) \in SUBSET TokenId /\ c[1] \in Pair
  BY SMT DEF Legs, TokenId, ConfirmCall

\* A rejected call forgets its memory and goes through the rows of its pair.
LEMMA RejectEffect ==
  ASSUME call \in [ConfirmCall -> CallState], NEW c \in ConfirmCall, Reject(c)
  PROVE  /\ call' \in [ConfirmCall -> CallState]
         /\ call'[c].pc = "reject" /\ call'[c].todo = Legs(c[1]) /\ call'[c].mem = Nothing
         /\ \A d \in ConfirmCall : d # c => call'[d] = call[d]
<1> DEFINE rejected == [IdleCall EXCEPT !.pc = "reject", !.todo = Legs(c[1])]
<1>1. "reject" \in CallPc
  BY DEF CallPc
<1>2. rejected \in CallState
  BY <1>1, IdleCallType, LegsType, Zenon DEF CallState
<1>3. rejected.pc = "reject" /\ rejected.todo = Legs(c[1]) /\ rejected.mem = Nothing
  BY SMT DEF IdleCall
<1> QED
  BY <1>2, <1>3, Zenon DEF Reject

\* What JobTo changes in a goroutine, and what it keeps.
LEMMA JobToEffect ==
  ASSUME job \in [Job -> JobState], NEW j \in Job,
         NEW pc \in JobPc, NEW todo \in SUBSET TokenId, JobTo(j, pc, todo)
  PROVE  /\ job' \in [Job -> JobState]
         /\ job'[j].pc = pc /\ job'[j].todo = todo /\ job'[j].mem = job[j].mem
         /\ \A k \in Job : k # j => job'[k] = job[k]
<1>1. [job[j] EXCEPT !.pc = pc, !.todo = todo] \in JobState
  BY Zenon DEF JobState
<1> QED
  BY <1>1, Zenon DEF JobTo, JobState

\* A goroutine that has ended holds nothing.
LEMMA IdleJobType == IdleJob \in JobState
<1>1. Nothing \in Memory
  BY NoRowType, Zenon DEF Nothing, Memory
<1>2. "idle" \in JobPc
  BY DEF JobPc
<1> QED
  BY <1>1, <1>2, Zenon DEF IdleJob, JobState

\* A goroutine that ends is as it was before it began.
LEMMA EndEffect ==
  ASSUME job \in [Job -> JobState], NEW j \in Job, End(j)
  PROVE  /\ job' \in [Job -> JobState]
         /\ job'[j] = IdleJob
         /\ \A k \in Job : k # j => job'[k] = job[k]
  BY IdleJobType, Zenon DEF End

\* The top-up of a call is a top-up.
LEMMA TopUpOfType ==
  ASSUME TypeOK, NEW c \in ConfirmCall
  PROVE  TopUpOf(c) \in TopUpId
<1>1. call[c].nonce \in 0 .. MaxTopUps - 1
  BY Zenon DEF TypeOK, CallState
<1> QED
  BY <1>1, Zenon DEF TopUpOf, TopUpId

\* The top-up of a goroutine is a top-up.
LEMMA TopUpType ==
  ASSUME NEW j \in Job
  PROVE  TopUp(j) \in TopUpId
  BY Zenon DEF TopUp, Job

\* Token rows, top-up rows and NULL are told apart.
LEMMA IdsDiffer ==
  /\ \A i \in TokenId : i \in Id /\ i # NULL /\ i \notin TopUpId /\ i[1] \in Pair
  /\ \A t \in TopUpId : t \in Id /\ t # NULL /\ t \notin TokenId
  BY StoreAssumption, SMT DEF Id, TokenId, TopUpId

-----------------------------------------------------------------------------
(* Every step except a restart lets the table and the chain grow: nothing a  *)
(* handler or a goroutine relies on is taken back.                           *)

Grows ==
    /\ \A i \in Id : Known(i) => Known(i)'
    /\ \A i \in Id : InBlock(i) => chain'[i] = chain[i]
    /\ \A t \in TopUpId : Known(t) => paidFor'[t] = paidFor[t]
    /\ \A i \in Id : transfers[i].status # "absent" => transfers'[i].status # "absent"
    /\ \A i \in TokenId : Taken(i) => Taken(i)'
    /\ \A i \in TokenId : transfers[i].deleted /\ transfers[i].status # "absent"
                             => transfers'[i].deleted

\* What a call relies on survives the steps of the others.
LEMMA CallFrame ==
  ASSUME TypeOK, Grows, NEW c \in ConfirmCall, CallOK(c), call'[c] = call[c]
  PROVE  CallOK(c)'
<1> USE DEF Grows
<1>1. TopUpOf(c)' = TopUpOf(c) /\ TopUpOf(c) \in TopUpId
  BY TopUpOfType, Zenon DEF TopUpOf
<1>2. TopUpOf(c) \in Id
  BY <1>1, IdsDiffer
<1>3. Legs(c[1]) \subseteq TokenId /\ Legs(c[1]) \subseteq Id
  BY LegsType, IdsDiffer, Zenon
<1>4. (call[c].todo \subseteq Legs(c[1]))'
  BY Zenon DEF CallOK
<1>5. (call[c].pc \notin {"idle", "done"} =>
          \A i \in Legs(c[1]) : transfers[i].status # "absent")'
  BY <1>3, Zenon DEF CallOK
<1>6. (call[c].pc = "load" =>
          \A i \in call[c].todo :
             ListedFirst(call[c].todo, i) => Taken(i) \/ transfers[i].deleted)'
  <2> SUFFICES ASSUME call[c].pc = "load", NEW i \in call[c].todo, ListedFirst(call[c].todo, i)
               PROVE  Taken(i)' \/ transfers'[i].deleted
    BY Zenon DEF ListedFirst
  <2>1. i \in TokenId /\ i \in Legs(c[1])
    BY <1>3, Zenon DEF CallOK
  <2>2. transfers[i].status # "absent"
    BY <2>1, SMT DEF CallOK
  <2> QED
    BY <2>1, <2>2, Zenon DEF CallOK
<1>7. (\A i \in Loaded(call[c].mem) : CallRowOK(i, call[c].mem[i], c[1]))'
  <2> SUFFICES ASSUME NEW i \in Loaded(call[c].mem)
               PROVE  CallRowOK(i, call[c].mem[i], c[1])'
    BY Zenon DEF CallRowOK, HashOK
  <2>1. i \in TokenId /\ i \in Id
    BY IdsDiffer, Zenon DEF Loaded
  <2> QED
    BY <2>1, ZenonT(40) DEF CallOK, CallRowOK, HashOK
<1>8. (call[c].pc \in {"record", "save"} => Known(TopUpOf(c)) /\ paidFor[TopUpOf(c)] = c[1])'
  BY <1>1, <1>2, Zenon DEF CallOK
<1>9. (call[c].pc = "save" => transfers[TopUpOf(c)].status # "absent")'
  BY <1>1, <1>2, Zenon DEF CallOK
<1> QED
  BY <1>4, <1>5, <1>6, <1>7, <1>8, <1>9, Zenon DEF CallOK

\* What a goroutine relies on survives the steps of the others.
LEMMA JobFrame ==
  ASSUME Grows, NEW j \in Job, JobOK(j), job'[j] = job[j]
  PROVE  JobOK(j)'
<1> USE DEF Grows
<1>1. TopUp(j) \in TopUpId /\ TopUp(j) \in Id /\ TopUp(j)' = TopUp(j)
  BY TopUpType, IdsDiffer, Zenon DEF TopUp
<1>2. (job[j].pc \notin {"idle", "check"} => InBlock(TopUp(j)))'
  BY <1>1, Zenon DEF JobOK, InBlock
<1>3. (job[j].pc \in {"revert", "revertLinked"} => chain[TopUp(j)] = "reverted")'
  BY <1>1, Zenon DEF JobOK, InBlock
<1>4. (\A i \in Loaded(job[j].mem) : JobRowOK(i, job[j].mem[i], TopUp(j)))'
  <2> SUFFICES ASSUME NEW i \in Loaded(job[j].mem)
               PROVE  JobRowOK(i, job[j].mem[i], TopUp(j))'
    BY Zenon DEF JobRowOK, HashOK, TopUp
  <2>1. i \in TokenId /\ i \in Id
    BY IdsDiffer, Zenon DEF Loaded
  <2>2. Known(TopUp(j))
    <3>1. job[j].pc \notin {"idle", "check"}
      BY Zenon DEF JobOK
    <3> QED
      BY <3>1, SMT DEF JobOK, InBlock, Known
  <2>3. JobRowOK(i, job[j].mem[i], TopUp(j))
    BY Zenon DEF JobOK
  <2>4. HashOK(i, job[j].mem[i])'
    BY <2>1, <2>3, Zenon DEF JobRowOK, HashOK
  <2> QED
    BY <1>1, <2>1, <2>2, <2>3, <2>4, Zenon DEF JobRowOK
<1> QED
  BY <1>2, <1>3, <1>4, Zenon DEF JobOK

\* A link to a top-up is never undone.
LEMMA LinkFrame ==
  ASSUME Grows, NEW i, NEW t, LinkedTo(i, t), transfers[t].status # "absent"
  PROVE  LinkedTo(i, t)' /\ transfers'[t].status # "absent"
  BY IdsDiffer, Zenon DEF Grows, LinkedTo

\* A token row nobody wrote stays in order; it may have been sent if it was taken.
LEMMA TokenRowFrame ==
  ASSUME Grows, NEW i \in TokenId, TokenRowOK(i), transfers'[i] = transfers[i],
         Known(i)' => Known(i) \/ Taken(i)
  PROVE  TokenRowOK(i)'
<1> USE DEF Grows
<1>1. i \in Id /\ TopUpId \subseteq Id
  BY IdsDiffer, Zenon
<1>2. Taken(i)' <=> Taken(i)
  BY Zenon DEF Taken
<1>3. HashOK(i, transfers[i])'
  BY <1>1, Zenon DEF TokenRowOK, HashOK
<1>4. (transfers[i].topUp # NULL =>
          LinkedTo(i, transfers[i].topUp) /\ transfers[transfers[i].topUp].status # "absent")'
  BY <1>1, ZenonT(40) DEF TokenRowOK, LinkedTo
<1>5. (transfers[i].status = "completed" => InBlock(i))'
  BY <1>1, Zenon DEF TokenRowOK, InBlock
<1> QED
  BY <1>2, <1>3, <1>4, <1>5, Zenon DEF TokenRowOK

\* A top-up row nobody wrote stays in order.
LEMMA TopUpRowFrame ==
  ASSUME Grows, NEW t \in TopUpId, TopUpRowOK(t), transfers'[t] = transfers[t]
  PROVE  TopUpRowOK(t)'
<1>1. t \in Id
  BY IdsDiffer
<1> QED
  BY <1>1, Zenon DEF TopUpRowOK, InBlock, Grows

-----------------------------------------------------------------------------
(* The statements that write, one lemma for each kind of change.             *)

Tables ==
    /\ transfers \in [Id -> Row]
    /\ \A i \in TokenId : TokenRowOK(i)
    /\ \A t \in TopUpId : TopUpRowOK(t)

\* No token row is inserted.
NoInsert == \A i \in TokenId : transfers[i].status = "absent" => transfers'[i].status = "absent"

\* Nothing is written and nothing is sent.
LEMMA QuietStep ==
  ASSUME Tables, UNCHANGED <<transfers, chain, paidFor>>
  PROVE  Grows /\ Tables' /\ NoInsert
<1>1. Grows /\ NoInsert
  BY Zenon DEF Grows, Known, InBlock, Taken, NoInsert
<1>2. \A i \in TokenId : TokenRowOK(i)'
  BY <1>1, TokenRowFrame, Zenon DEF Tables, Known
<1>3. \A t \in TopUpId : TopUpRowOK(t)'
  BY <1>1, TopUpRowFrame, Zenon DEF Tables
<1> QED
  BY <1>1, <1>2, <1>3, Zenon DEF Tables

\* A status is set: on token rows that may have it, on top-ups that are mined.
LEMMA StatusStep ==
  ASSUME Tables, UNCHANGED <<chain, paidFor>>, NEW S,
         NEW status \in {"confirming", "processing", "completed", "failed"},
         transfers' = SetStatus(transfers, S, status),
         \A i \in S \cap TokenId : Live(transfers, i) =>
             \/ status \in {"confirming", "failed"}
             \/ status = "completed" /\ InBlock(i) /\ transfers[i].hash = i,
         \A t \in S \cap TopUpId : Live(transfers, t) =>
             \/ status \in {"processing", "completed"} /\ InBlock(t)
             \/ status = "failed" /\ chain[t] = "reverted"
  PROVE  Grows /\ Tables' /\ NoInsert
<1>1. /\ status \in Status /\ status \notin {"absent", "new", "queued", "pending"}
  BY SMT DEF Status
<1>2. \A i \in Id :
         /\ transfers'[i].deleted = transfers[i].deleted /\ transfers'[i].hash = transfers[i].hash
         /\ transfers'[i].raw = transfers[i].raw /\ transfers'[i].topUp = transfers[i].topUp
         /\ i \in S /\ Live(transfers, i) => transfers'[i].status = status
         /\ ~(i \in S /\ Live(transfers, i)) => transfers'[i] = transfers[i]
  BY SMT DEF SetStatus, Tables, Row
<1>3. Grows /\ NoInsert
  <2>1. \A i \in Id : transfers[i].status # "absent" => transfers'[i].status # "absent"
    BY <1>1, <1>2, SMT
  <2>2. \A i \in TokenId : Taken(i) => Taken(i)'
    BY <1>1, <1>2, IdsDiffer, SMT DEF Taken
  <2>3. NoInsert
    BY <1>2, IdsDiffer, SMT DEF NoInsert, Live
  <2> QED
    BY <1>2, <2>1, <2>2, <2>3, IdsDiffer, Zenon DEF Grows, Known, InBlock
<1>4. transfers' \in [Id -> Row]
  BY <1>1, SetStatusType, Zenon DEF Tables
<1>5. ASSUME NEW i \in TokenId
      PROVE  TokenRowOK(i)'
  <2>1. TokenRowOK(i) /\ i \in Id
    BY IdsDiffer, Zenon DEF Tables
  <2>2. CASE ~(i \in S /\ Live(transfers, i))
    BY <1>2, <1>3, <2>1, <2>2, TokenRowFrame, Zenon DEF Known
  <2>3. CASE i \in S /\ Live(transfers, i)
    <3>1. /\ transfers'[i].status = status /\ ~transfers'[i].deleted /\ Taken(i)'
      BY <1>1, <1>2, <2>1, <2>3, SMT DEF Live, Taken
    <3>2. HashOK(i, transfers[i])'
      BY <1>2, <2>1, Zenon DEF TokenRowOK, HashOK, Known
    <3>3. (transfers[i].topUp # NULL => LinkedTo(i, transfers[i].topUp)
             /\ transfers[transfers[i].topUp].status # "absent")'
      <4> SUFFICES ASSUME transfers[i].topUp # NULL
                   PROVE  /\ LinkedTo(i, transfers[i].topUp)'
                          /\ transfers'[transfers[i].topUp].status # "absent"
        BY <1>2, <2>1, Zenon DEF LinkedTo, Known
      <4>1. LinkedTo(i, transfers[i].topUp) /\ transfers[transfers[i].topUp].status # "absent"
        BY <2>1, Zenon DEF TokenRowOK
      <4> QED
        BY <4>1, <1>2, <1>3, <2>1, IdsDiffer, Zenon DEF Grows, LinkedTo, Known
    <3>4. (transfers[i].status \in {"pending", "completed"} => transfers[i].hash = i)'
      BY <1>1, <1>2, <2>1, <2>3, <3>1, SMT
    <3>5. (transfers[i].status = "completed" => InBlock(i))'
      BY <2>3, <3>1, SMT DEF InBlock
    <3>6. transfers'[i].raw \in {NULL, i}
      BY <1>2, <2>1, Zenon DEF TokenRowOK
    <3> QED
      BY <1>1, <3>1, <3>2, <3>3, <3>4, <3>5, <3>6, Zenon DEF TokenRowOK
  <2> QED
    BY <2>2, <2>3
<1>6. ASSUME NEW t \in TopUpId
      PROVE  TopUpRowOK(t)'
  <2>1. TopUpRowOK(t) /\ t \in Id
    BY IdsDiffer, Zenon DEF Tables
  <2>2. CASE ~(t \in S /\ Live(transfers, t))
    BY <1>2, <1>3, <2>1, <2>2, TopUpRowFrame
  <2>3. CASE t \in S /\ Live(transfers, t)
    BY <1>2, <2>1, <2>3, SMT DEF TopUpRowOK, InBlock
  <2> QED
    BY <2>2, <2>3
<1> QED
  BY <1>3, <1>4, <1>5, <1>6, Zenon DEF Tables

\* Rows that read "new" are soft-deleted.
LEMMA ClearStep ==
  ASSUME Tables, UNCHANGED <<chain, paidFor>>, NEW u,
         transfers' = ClearUnsignedTransfers(transfers, u)
  PROVE  Grows /\ Tables' /\ NoInsert
<1>1. \A i \in Id :
         /\ transfers'[i].status = transfers[i].status /\ transfers'[i].hash = transfers[i].hash
         /\ transfers'[i].raw = transfers[i].raw /\ transfers'[i].topUp = transfers[i].topUp
         /\ transfers[i].deleted => transfers'[i].deleted
         /\ transfers'[i].deleted => transfers[i].deleted \/ transfers[i].status = "new"
  BY SMT DEF ClearUnsignedTransfers, Tables, Row
<1>2. Grows /\ NoInsert
  BY <1>1, IdsDiffer, Zenon DEF Grows, NoInsert, Known, InBlock, Taken
<1>3. transfers' \in [Id -> Row]
  BY ClearUnsignedType, Zenon DEF Tables
<1>4. ASSUME NEW i \in TokenId
      PROVE  TokenRowOK(i)'
  <2>1. TokenRowOK(i) /\ i \in Id
    BY IdsDiffer, Zenon DEF Tables
  <2>2. Taken(i)' <=> Taken(i)
    BY <1>1, <2>1, Zenon DEF Taken
  <2>3. HashOK(i, transfers[i])'
    BY <1>1, <2>1, Zenon DEF TokenRowOK, HashOK, Known
  <2>4. (transfers[i].topUp # NULL => LinkedTo(i, transfers[i].topUp)
             /\ transfers[transfers[i].topUp].status # "absent")'
    <3>1. PICK t : t = transfers[i].topUp
      OBVIOUS
    <3>2. t # NULL => LinkedTo(i, t) /\ transfers[t].status # "absent"
      BY <2>1, <3>1, Zenon DEF TokenRowOK
    <3>3. t # NULL => LinkedTo(i, t)' /\ transfers'[t].status # "absent"
      BY <1>2, <3>2, LinkFrame, Zenon
    <3>4. transfers'[i].topUp = t
      BY <1>1, <2>1, <3>1, Zenon
    <3> QED
      BY <3>3, <3>4, Zenon DEF LinkedTo, Known
  <2> QED
    BY <1>1, <2>1, <2>2, <2>3, <2>4, Zenon DEF TokenRowOK, InBlock, Known
<1>5. ASSUME NEW t \in TopUpId
      PROVE  TopUpRowOK(t)'
  <2>1. TopUpRowOK(t) /\ t \in Id
    BY IdsDiffer, Zenon DEF Tables
  <2>2. /\ transfers'[t].status = transfers[t].status /\ transfers'[t].hash = transfers[t].hash
        /\ transfers'[t].topUp = transfers[t].topUp /\ chain'[t] = chain[t]
    BY <1>1, <2>1, Zenon
  <2> QED
    BY <2>1, <2>2, SMT DEF TopUpRowOK, InBlock
<1> QED
  BY <1>2, <1>3, <1>4, <1>5, Zenon DEF Tables

\* A row in memory that may be written back over the token row i.
Writable(i, row) ==
    /\ Taken(i) /\ row.status \in {"queued", "pending"}
    /\ row.raw = i /\ HashOK(i, row)
    /\ row.status = "pending" => row.hash = i
    /\ row.topUp # NULL /\ LinkedTo(i, row.topUp)
    /\ transfers[row.topUp].status # "absent"

\* Rows are written back from memory.
LEMMA UpdateStep ==
  ASSUME Tables, UNCHANGED <<chain, paidFor>>, NEW mem \in Memory,
         transfers' = UpdateTransfers(transfers, mem),
         \A i \in Loaded(mem) : Writable(i, mem[i])
  PROVE  Grows /\ Tables' /\ NoInsert
<1> DEFINE written(i) == i \in TokenId /\ Live(transfers, i) /\ mem[i] # NoRow
<1>1. ASSUME NEW i \in Id
      PROVE  /\ ~written(i) => transfers'[i] = transfers[i]
             /\ written(i) =>
                  /\ transfers'[i].status = mem[i].status /\ transfers'[i].hash = mem[i].hash
                  /\ transfers'[i].raw = mem[i].raw /\ transfers'[i].topUp = mem[i].topUp
                  /\ transfers'[i].deleted = transfers[i].deleted
  <2>1. transfers[i] \in Row
    BY Zenon DEF Tables
  <2>2. ~written(i) => transfers'[i] = transfers[i]
    BY Zenon DEF UpdateTransfers
  <2>3. written(i) => transfers'[i] = [transfers[i] EXCEPT !.hash = mem[i].hash,
           !.raw = mem[i].raw, !.status = mem[i].status, !.topUp = mem[i].topUp]
    BY Zenon DEF UpdateTransfers
  <2> HIDE DEF written
  <2> QED
    BY <2>1, <2>2, <2>3, Zenon DEF Row
<1>2. \A i \in Id : written(i) => i \in Loaded(mem) /\ Writable(i, mem[i]) /\ ~transfers[i].deleted
  BY Zenon DEF Loaded, Live
<1> HIDE DEF written
<1>3. Grows /\ NoInsert
  <2>1. \A i \in Id : transfers[i].status # "absent" => transfers'[i].status # "absent"
    BY <1>1, <1>2, SMT DEF Writable
  <2>2. \A i \in TokenId : Taken(i) => Taken(i)'
    <3> SUFFICES ASSUME NEW i \in TokenId, Taken(i)
                 PROVE  Taken(i)'
      OBVIOUS
    <3>1. i \in Id
      BY IdsDiffer
    <3>2. CASE ~written(i)
      BY <1>1, <3>1, <3>2, Zenon DEF Taken
    <3>3. CASE written(i)
      BY <1>1, <1>2, <3>1, <3>3, SMT DEF Taken, Writable
    <3> QED
      BY <3>2, <3>3
  <2>3. NoInsert
    BY <1>1, <1>2, IdsDiffer, Zenon DEF NoInsert, Writable, Taken
  <2>4. \A i \in Id : transfers[i].deleted => transfers'[i].deleted
    BY <1>1, <1>2, Zenon
  <2> QED
    BY <2>1, <2>2, <2>3, <2>4, IdsDiffer, Zenon DEF Grows, Known, InBlock
<1>4. transfers' \in [Id -> Row]
  BY UpdateTransfersType, Zenon DEF Tables
<1>5. ASSUME NEW i \in TokenId
      PROVE  TokenRowOK(i)'
  <2>1. TokenRowOK(i) /\ i \in Id
    BY IdsDiffer, Zenon DEF Tables
  <2>2. CASE ~written(i)
    BY <1>1, <1>3, <2>1, <2>2, TokenRowFrame, Zenon DEF Known
  <2>3. CASE written(i)
    <3> DEFINE row == mem[i]
    <3>1. /\ transfers'[i].status = row.status /\ transfers'[i].hash = row.hash
          /\ transfers'[i].raw = row.raw /\ transfers'[i].topUp = row.topUp
          /\ ~transfers'[i].deleted /\ Writable(i, row)
      BY <1>1, <1>2, <2>1, <2>3, Zenon
    <3> HIDE DEF row
    <3>2. HashOK(i, transfers[i])'
      BY <3>1, Zenon DEF Writable, HashOK, Known
    <3>3. (transfers[i].topUp # NULL => LinkedTo(i, transfers[i].topUp)
             /\ transfers[transfers[i].topUp].status # "absent")'
      <4>1. LinkedTo(i, row.topUp)' /\ transfers'[row.topUp].status # "absent"
        BY <1>3, <3>1, LinkFrame, ZenonT(40) DEF Writable
      <4> QED
        BY <3>1, <4>1, Zenon DEF LinkedTo, Known
    <3>4. Taken(i)'
      BY <1>3, <3>1, Zenon DEF Writable, Grows
    <3>5. transfers'[i].status # "completed"
      BY <3>1, SMT DEF Writable
    <3> QED
      BY <3>1, <3>2, <3>3, <3>4, <3>5, Zenon DEF TokenRowOK, Writable
  <2> QED
    BY <2>2, <2>3
<1>6. ASSUME NEW t \in TopUpId
      PROVE  TopUpRowOK(t)'
  <2>1. TopUpRowOK(t) /\ t \in Id /\ ~written(t)
    BY IdsDiffer, Zenon DEF Tables, written
  <2> QED
    BY <1>1, <1>3, <2>1, TopUpRowFrame
<1> QED
  BY <1>3, <1>4, <1>5, <1>6, Zenon DEF Tables

\* Two rows are inserted for a pair that has none.
LEMMA InsertStep ==
  ASSUME Tables, UNCHANGED <<chain, paidFor>>, NEW p \in Pair, NEW nonce \in Nat,
         \A i \in Legs(p) : transfers[i].status = "absent",
         transfers' = CreateTransfers(transfers, p, nonce)
  PROVE  /\ Grows /\ Tables'
         /\ \A i \in TokenId : i \notin Legs(p) => transfers'[i] = transfers[i]
<1> DEFINE new == <<p, "transfer_token">>
           tax == <<p, "tax">>
           fresh(n) == [NoRow EXCEPT !.status = "new", !.nonce = n]
<1>1. /\ Legs(p) = {new, tax} /\ new # tax /\ Legs(p) \subseteq TokenId
  BY SMT DEF Legs, TokenId
<1>2. /\ \A i \in Id : i \notin Legs(p) => transfers'[i] = transfers[i]
      /\ transfers'[new] = fresh(nonce) /\ transfers'[tax] = fresh(nonce + 1)
  <2>1. new \in Id /\ tax \in Id
    BY <1>1, IdsDiffer, Zenon
  <2>2. transfers' = [transfers EXCEPT ![new] = fresh(nonce), ![tax] = fresh(nonce + 1)]
    BY Zenon DEF CreateTransfers
  <2> HIDE DEF fresh, new, tax
  <2> QED
    BY <1>1, <2>1, <2>2, SMT DEF Tables
<1>3. \A n : /\ fresh(n).status = "new" /\ fresh(n).hash = NULL /\ fresh(n).raw = NULL
             /\ fresh(n).topUp = NULL /\ ~fresh(n).deleted
  BY SMT DEF NoRow
<1> HIDE DEF fresh, new, tax
<1>4. \A i \in Legs(p) :
         /\ transfers'[i].status = "new" /\ transfers'[i].hash = NULL
         /\ transfers'[i].raw = NULL /\ transfers'[i].topUp = NULL /\ ~transfers'[i].deleted
  <2>1. \A i \in Legs(p) : transfers'[i] = fresh(nonce) \/ transfers'[i] = fresh(nonce + 1)
    BY <1>1, <1>2, Zenon
  <2> QED
    BY <1>3, <2>1, SMT
<1>5. Grows
  <2>1. \A i \in Id : transfers[i].status # "absent" => transfers'[i].status # "absent"
    BY <1>2, <1>4, Zenon
  <2>2. \A i \in TokenId : Taken(i) => Taken(i)'
    BY <1>2, <1>4, IdsDiffer, Zenon DEF Taken
  <2>3. \A i \in TokenId : transfers[i].deleted /\ transfers[i].status # "absent"
                             => transfers'[i].deleted
    BY <1>2, IdsDiffer, Zenon
  <2> QED
    BY <2>1, <2>2, <2>3, Zenon DEF Grows, Known, InBlock
<1>6. transfers' \in [Id -> Row]
  BY CreateTransfersType, Zenon DEF Tables
<1>7. ASSUME NEW i \in TokenId
      PROVE  TokenRowOK(i)'
  <2>1. TokenRowOK(i) /\ i \in Id
    BY IdsDiffer, Zenon DEF Tables
  <2>2. CASE i \notin Legs(p)
    BY <1>2, <1>5, <2>1, <2>2, TokenRowFrame, Zenon DEF Known
  <2>3. CASE i \in Legs(p)
    <3>1. ~Known(i)
      BY <2>1, <2>3, Zenon DEF TokenRowOK, Taken
    <3>2. ~Taken(i)' /\ ~Known(i)'
      BY <1>4, <2>3, <3>1, Zenon DEF Taken, Known
    <3>3. transfers'[i].status = "new"
      BY <1>4, <2>3
    <3> QED
      BY <1>4, <2>3, <3>2, <3>3, SMT DEF TokenRowOK, HashOK
  <2> QED
    BY <2>2, <2>3
<1>8. ASSUME NEW t \in TopUpId
      PROVE  TopUpRowOK(t)'
  <2>1. TopUpRowOK(t) /\ t \in Id /\ t \notin Legs(p)
    BY <1>1, IdsDiffer, Zenon DEF Tables
  <2> QED
    BY <1>2, <1>5, <2>1, TopUpRowFrame
<1> QED
  BY <1>1, <1>2, <1>5, <1>6, <1>7, <1>8, IdsDiffer, Zenon DEF Tables

\* A top-up is recorded as pending.
LEMMA RecordStep ==
  ASSUME Tables, UNCHANGED <<chain, paidFor>>, NEW t \in TopUpId,
         transfers' = CreateEthTransfer(transfers, t)
  PROVE  Grows /\ Tables' /\ NoInsert /\ transfers'[t].status # "absent"
<1> DEFINE row == [NoRow EXCEPT !.status = "pending", !.nonce = t[1], !.hash = t]
<1>1. /\ \A i \in Id : i # t => transfers'[i] = transfers[i]
      /\ transfers'[t] = row /\ t \in Id /\ t \notin TokenId
  <2>1. transfers' = [transfers EXCEPT ![t] = row] /\ t \in Id /\ t \notin TokenId
    BY IdsDiffer, Zenon DEF CreateEthTransfer
  <2> HIDE DEF row
  <2> QED
    BY <2>1, SMT DEF Tables
<1>2. row.status = "pending" /\ row.hash = t /\ row.topUp = NULL
  BY SMT DEF NoRow
<1> HIDE DEF row
<1>3. Grows /\ NoInsert
  <2>1. \A i \in TokenId : transfers'[i] = transfers[i]
    BY <1>1, IdsDiffer, Zenon
  <2>2. \A i \in Id : transfers[i].status # "absent" => transfers'[i].status # "absent"
    BY <1>1, <1>2, SMT
  <2> QED
    BY <2>1, <2>2, Zenon DEF Grows, NoInsert, Known, InBlock, Taken
<1>4. transfers' \in [Id -> Row]
  BY CreateEthTransferType, Zenon DEF Tables
<1>5. ASSUME NEW i \in TokenId
      PROVE  TokenRowOK(i)'
  BY <1>1, <1>3, TokenRowFrame, IdsDiffer, Zenon DEF Tables, Known
<1>6. ASSUME NEW s \in TopUpId
      PROVE  TopUpRowOK(s)'
  <2>1. CASE s # t
    BY <1>1, <1>3, <2>1, TopUpRowFrame, IdsDiffer, Zenon DEF Tables
  <2>2. CASE s = t
    BY <1>1, <1>2, <2>2, SMT DEF TopUpRowOK
  <2> QED
    BY <2>1, <2>2
<1>7. transfers'[t].status # "absent"
  BY <1>1, <1>2, SMT
<1> QED
  BY <1>3, <1>4, <1>5, <1>6, <1>7, Zenon DEF Tables

\* The node takes a transaction or puts one in a block.
LEMMA ChainStep ==
  ASSUME Tables, UNCHANGED transfers, NEW k \in Id, NEW v \in {"pooled", "mined", "reverted"},
         chain \in [Id -> {"none", "pooled", "mined", "reverted"}],
         chain' = [chain EXCEPT ![k] = v], ~InBlock(k), k \in TokenId => Taken(k),
         \A t \in TopUpId : Known(t) => paidFor'[t] = paidFor[t]
  PROVE  /\ Grows /\ Tables' /\ NoInsert
         /\ chain' \in [Id -> {"none", "pooled", "mined", "reverted"}]
         /\ chain'[k] # "none" /\ \A i \in Id : i # k => chain'[i] = chain[i]
<1>1. /\ chain' \in [Id -> {"none", "pooled", "mined", "reverted"}]
      /\ chain'[k] = v /\ v # "none" /\ \A i \in Id : i # k => chain'[i] = chain[i]
  BY SMT
<1>2. Grows /\ NoInsert
  BY <1>1, Zenon DEF Grows, NoInsert, Known, InBlock, Taken
<1>3. ASSUME NEW i \in TokenId
      PROVE  TokenRowOK(i)'
  BY <1>1, <1>2, TokenRowFrame, IdsDiffer, Zenon DEF Tables, Known
<1>4. ASSUME NEW t \in TopUpId
      PROVE  TopUpRowOK(t)'
  BY <1>2, TopUpRowFrame, Zenon DEF Tables
<1> QED
  BY <1>1, <1>2, <1>3, <1>4, Zenon DEF Tables, Known

\* A broadcast stays funded; one more is funded if a mined top-up is for it.
LEMMA FundedFrame ==
  ASSUME Grows, FundedBeforeBroadcast,
         \A i \in TokenId : Known(i)' =>
             Known(i) \/ \E t \in TopUpId : paidFor[t] = i[1] /\ InBlock(t)
  PROVE  FundedBeforeBroadcast'
<1> SUFFICES ASSUME NEW i \in TokenId, Known(i)'
             PROVE  \E t \in TopUpId : paidFor'[t] = i[1] /\ InBlock(t)'
  BY Zenon DEF FundedBeforeBroadcast, InBlock
<1>1. PICK t \in TopUpId : paidFor[t] = i[1] /\ InBlock(t)
  BY Zenon DEF FundedBeforeBroadcast
<1>2. t \in Id /\ Known(t)
  BY <1>1, IdsDiffer, SMT DEF InBlock, Known
<1> QED
  BY <1>1, <1>2, Zenon DEF Grows, InBlock

-----------------------------------------------------------------------------
(* One process moves, the others stay where they are. *)

\* A handler or goroutine that has loaded nothing holds nothing.
LEMMA NothingLoaded == Loaded(Nothing) = {}
  BY Zenon DEF Loaded, Nothing

\* A call that goes on keeps what it holds.
LEMMA CallGoes ==
  ASSUME TypeOK, Grows, NEW c \in ConfirmCall, CallOK(c), call[c].pc \notin {"idle", "done"},
         NEW pc \in CallPc, NEW todo \in SUBSET Legs(c[1]), Goto(c, pc, todo),
         pc = "load" => \A i \in todo :
             ListedFirst(todo, i) => Taken(i)' \/ transfers'[i].deleted,
         pc \in {"record", "save"} => Known(TopUpOf(c))' /\ paidFor'[TopUpOf(c)] = c[1],
         pc = "save" => transfers'[TopUpOf(c)].status # "absent"
  PROVE  /\ CallOK(c)' /\ call' \in [ConfirmCall -> CallState]
         /\ \A d \in ConfirmCall : d # c => call'[d] = call[d]
<1>1. Legs(c[1]) \subseteq TokenId /\ Legs(c[1]) \subseteq Id /\ todo \in SUBSET TokenId
  BY LegsType, IdsDiffer, Zenon
<1>2. /\ call' \in [ConfirmCall -> CallState]
      /\ call'[c].pc = pc /\ call'[c].todo = todo
      /\ call'[c].mem = call[c].mem /\ call'[c].nonce = call[c].nonce
      /\ \A d \in ConfirmCall : d # c => call'[d] = call[d]
  BY <1>1, GotoEffect, Zenon DEF TypeOK
<1>3. TopUpOf(c)' = TopUpOf(c)
  BY <1>2, Zenon DEF TopUpOf
<1>4. \A i \in Legs(c[1]) : transfers'[i].status # "absent"
  BY <1>1, Zenon DEF CallOK, Grows
<1>5. \A i \in Loaded(call[c].mem) : CallRowOK(i, call[c].mem[i], c[1])'
  <2> SUFFICES ASSUME NEW i \in Loaded(call[c].mem)
               PROVE  CallRowOK(i, call[c].mem[i], c[1])'
    BY <1>2, Zenon DEF CallRowOK, HashOK
  <2>1. i \in TokenId /\ i \in Id /\ CallRowOK(i, call[c].mem[i], c[1])
    BY IdsDiffer, Zenon DEF Loaded, CallOK
  <2> QED
    BY <1>2, <2>1, Zenon DEF CallRowOK, HashOK, Grows
<1>6. (\A i \in Loaded(call[c].mem) : CallRowOK(i, call[c].mem[i], c[1]))'
  BY <1>2, <1>5, Zenon DEF CallRowOK, HashOK
<1>7. (call[c].pc = "load" =>
          \A i \in call[c].todo :
             ListedFirst(call[c].todo, i) => Taken(i) \/ transfers[i].deleted)'
  BY <1>2, Zenon DEF ListedFirst
<1>8. (call[c].pc \in {"record", "save"} => Known(TopUpOf(c)) /\ paidFor[TopUpOf(c)] = c[1])'
  BY <1>2, <1>3, Zenon
<1>9. (call[c].pc = "save" => transfers[TopUpOf(c)].status # "absent")'
  BY <1>2, <1>3, Zenon
<1> QED
  BY <1>2, <1>4, <1>6, <1>7, <1>8, <1>9, Zenon DEF CallOK

\* A call goes on with rows in order, to a step that asks for nothing more.
LEMMA CallMoves ==
  ASSUME TypeOK, Grows, NEW c \in ConfirmCall, CallOK(c),
         \A i \in Legs(c[1]) : transfers[i].status # "absent",
         NEW moved \in CallState, call' = [call EXCEPT ![c] = moved],
         \A i \in Loaded(moved.mem) : CallRowOK(i, moved.mem[i], c[1]),
         moved.todo \subseteq Legs(c[1]), moved.pc \notin {"load", "record", "save"}
  PROVE  /\ CallOK(c)' /\ call' \in [ConfirmCall -> CallState]
         /\ \A d \in ConfirmCall : d # c => call'[d] = call[d]
<1>1. /\ call' \in [ConfirmCall -> CallState] /\ call'[c] = moved
      /\ \A d \in ConfirmCall : d # c => call'[d] = call[d]
  BY Zenon DEF TypeOK
<1>2. \A i \in Loaded(moved.mem) : CallRowOK(i, moved.mem[i], c[1])'
  <2> SUFFICES ASSUME NEW i \in Loaded(moved.mem)
               PROVE  CallRowOK(i, moved.mem[i], c[1])'
    OBVIOUS
  <2>1. i \in TokenId /\ i \in Id /\ CallRowOK(i, moved.mem[i], c[1])
    BY IdsDiffer, Zenon DEF Loaded
  <2> QED
    BY <2>1, Zenon DEF CallRowOK, HashOK, Grows
<1>3. (\A i \in Loaded(call[c].mem) : CallRowOK(i, call[c].mem[i], c[1]))'
  BY <1>1, <1>2, Zenon DEF CallRowOK, HashOK
<1>4. (call[c].pc \notin {"load", "record", "save"})'
  BY <1>1, SMT
<1>5. \A i \in Legs(c[1]) : transfers'[i].status # "absent"
  BY LegsType, IdsDiffer, Zenon DEF Grows
<1> QED
  BY <1>1, <1>3, <1>4, <1>5, Zenon DEF CallOK

\* A call that rejects its transfers holds nothing.
LEMMA CallRejects ==
  ASSUME TypeOK, Grows, NEW c \in ConfirmCall, Reject(c),
         \A i \in Legs(c[1]) : transfers[i].status # "absent"
  PROVE  /\ CallOK(c)' /\ call' \in [ConfirmCall -> CallState]
         /\ \A d \in ConfirmCall : d # c => call'[d] = call[d]
<1>1. /\ call' \in [ConfirmCall -> CallState]
      /\ call'[c].pc = "reject" /\ call'[c].todo = Legs(c[1]) /\ call'[c].mem = Nothing
      /\ \A d \in ConfirmCall : d # c => call'[d] = call[d]
  BY RejectEffect, Zenon DEF TypeOK
<1>2. \A i \in Legs(c[1]) : transfers'[i].status # "absent"
  BY LegsType, IdsDiffer, Zenon DEF Grows
<1>3. Loaded(call[c].mem)' = {}
  BY <1>1, NothingLoaded, Zenon
<1>4. (call[c].pc \notin {"load", "record", "save"})'
  BY <1>1, SMT
<1> QED
  BY <1>1, <1>2, <1>3, <1>4, Zenon DEF CallOK

\* A call that returns holds nothing.
LEMMA CallReturns ==
  ASSUME TypeOK, NEW c \in ConfirmCall, Return(c)
  PROVE  /\ CallOK(c)' /\ call' \in [ConfirmCall -> CallState]
         /\ \A d \in ConfirmCall : d # c => call'[d] = call[d]
<1>1. /\ call' \in [ConfirmCall -> CallState]
      /\ call'[c].pc = "done" /\ call'[c].todo = {} /\ call'[c].mem = Nothing
      /\ \A d \in ConfirmCall : d # c => call'[d] = call[d]
  BY ReturnEffect, Zenon DEF TypeOK
<1>2. Loaded(call[c].mem)' = {}
  BY <1>1, NothingLoaded, Zenon
<1>3. (call[c].pc \notin {"load", "record", "save"})'
  BY <1>1, SMT
<1> QED
  BY <1>1, <1>2, <1>3, Zenon DEF CallOK

\* A goroutine that goes on keeps what it holds.
LEMMA JobGoes ==
  ASSUME TypeOK, Grows, NEW j \in Job, JobOK(j),
         NEW pc \in JobPc, NEW todo \in SUBSET Loaded(job[j].mem), JobTo(j, pc, todo),
         pc \notin {"idle", "check"} => InBlock(TopUp(j)),
         pc \in {"revert", "revertLinked"} => chain[TopUp(j)] = "reverted",
         pc \in {"idle", "check"} => Loaded(job[j].mem) = {}
  PROVE  /\ JobOK(j)' /\ job' \in [Job -> JobState]
         /\ \A k \in Job : k # j => job'[k] = job[k]
<1>1. todo \in SUBSET TokenId
  BY Zenon DEF Loaded
<1>2. /\ job' \in [Job -> JobState]
      /\ job'[j].pc = pc /\ job'[j].todo = todo /\ job'[j].mem = job[j].mem
      /\ \A k \in Job : k # j => job'[k] = job[k]
  BY <1>1, JobToEffect, Zenon DEF TypeOK
<1>3. TopUp(j) \in TopUpId /\ TopUp(j) \in Id /\ TopUp(j)' = TopUp(j)
  BY TopUpType, IdsDiffer, Zenon DEF TopUp
<1>4. \A i \in Loaded(job[j].mem) : JobRowOK(i, job[j].mem[i], TopUp(j))'
  <2> SUFFICES ASSUME NEW i \in Loaded(job[j].mem)
               PROVE  JobRowOK(i, job[j].mem[i], TopUp(j))'
    BY <1>2, Zenon DEF JobRowOK, HashOK, TopUp
  <2>1. i \in TokenId /\ i \in Id /\ JobRowOK(i, job[j].mem[i], TopUp(j))
    BY IdsDiffer, Zenon DEF Loaded, JobOK
  <2>2. Known(TopUp(j))
    <3>1. InBlock(TopUp(j))
      BY Zenon DEF JobOK
    <3> QED
      BY <3>1, SMT DEF InBlock, Known
  <2> QED
    BY <1>2, <1>3, <2>1, <2>2, Zenon DEF JobRowOK, HashOK, Grows
<1>5. (\A i \in Loaded(job[j].mem) : JobRowOK(i, job[j].mem[i], TopUp(j)))'
  BY <1>2, <1>3, <1>4, Zenon DEF JobRowOK, HashOK
<1>6. (job[j].pc \notin {"idle", "check"} => InBlock(TopUp(j)))'
  BY <1>2, <1>3, Zenon DEF InBlock, Grows
<1>7. (job[j].pc \in {"revert", "revertLinked"} => chain[TopUp(j)] = "reverted")'
  BY <1>2, <1>3, Zenon DEF InBlock, Grows
<1> QED
  BY <1>2, <1>5, <1>6, <1>7, Zenon DEF JobOK

\* A goroutine that ends holds nothing.
LEMMA JobEnds ==
  ASSUME TypeOK, NEW j \in Job, End(j)
  PROVE  /\ JobOK(j)' /\ job' \in [Job -> JobState]
         /\ \A k \in Job : k # j => job'[k] = job[k]
<1>1. /\ job' \in [Job -> JobState] /\ job'[j] = IdleJob
      /\ \A k \in Job : k # j => job'[k] = job[k]
  BY EndEffect, Zenon DEF TypeOK
<1>2. IdleJob.pc = "idle" /\ IdleJob.todo = {} /\ IdleJob.mem = Nothing
  BY SMT DEF IdleJob
<1>3. Loaded(job[j].mem)' = {}
  BY <1>1, <1>2, NothingLoaded, Zenon
<1>4. (job[j].pc \notin {"revert", "revertLinked"})'
  BY <1>1, <1>2, SMT
<1> QED
  BY <1>1, <1>2, <1>3, <1>4, Zenon DEF JobOK

\* The chain, the payments and the foreign nonces have their types.
NodeType ==
    /\ chain \in [Id -> {"none", "pooled", "mined", "reverted"}]
    /\ paidFor \in [TopUpId -> Pair \cup {NULL}]

\* The invariant holds after a step of one ConfirmTransfer call.
LEMMA CallStep ==
  ASSUME IInv, NEW c \in ConfirmCall, Grows, Tables', NoInsert, NodeType',
         FundedBeforeBroadcast', CallOK(c)', call' \in [ConfirmCall -> CallState],
         \A d \in ConfirmCall : d # c => call'[d] = call[d],
         UNCHANGED <<foreign, draft, job, watch, seen>>
  PROVE  IInv'
<1>1. TypeOK'
  BY Zenon DEF IInv, TypeOK, Tables, NodeType
<1>2. \A d \in ConfirmCall : CallOK(d)'
  BY CallFrame, Zenon DEF IInv
<1>3. \A j \in Job : JobOK(j)'
  BY JobFrame, Zenon DEF IInv
<1>4. ASSUME NEW p \in Pair
      PROVE  DraftOK(p)'
  <2>1. Legs(p) \subseteq TokenId /\ DraftOK(p)
    BY SMT DEF Legs, TokenId, IInv
  <2> QED
    BY <2>1, Zenon DEF DraftOK, NoInsert
<1> QED
  BY <1>1, <1>2, <1>3, <1>4, Zenon DEF IInv, Tables

\* The invariant holds after a step of one goroutine that ends a top-up.
LEMMA JobStep ==
  ASSUME IInv, NEW j \in Job, Grows, Tables', NoInsert, NodeType',
         FundedBeforeBroadcast', JobOK(j)', job' \in [Job -> JobState],
         \A k \in Job : k # j => job'[k] = job[k],
         UNCHANGED <<foreign, draft, call, watch, seen>>
  PROVE  IInv'
<1>1. TypeOK'
  BY Zenon DEF IInv, TypeOK, Tables, NodeType
<1>2. \A d \in ConfirmCall : CallOK(d)'
  BY CallFrame, Zenon DEF IInv
<1>3. \A k \in Job : JobOK(k)'
  BY JobFrame, Zenon DEF IInv
<1>4. ASSUME NEW p \in Pair
      PROVE  DraftOK(p)'
  <2>1. Legs(p) \subseteq TokenId /\ DraftOK(p)
    BY SMT DEF Legs, TokenId, IInv
  <2> QED
    BY <2>1, Zenon DEF DraftOK, NoInsert
<1> QED
  BY <1>1, <1>2, <1>3, <1>4, Zenon DEF IInv, Tables

\* The chain is as it was: it still has its type and what is sent is funded.
LEMMA SameChain ==
  ASSUME IInv, Grows, UNCHANGED <<chain, paidFor>>
  PROVE  NodeType' /\ FundedBeforeBroadcast'
<1>1. FundedBeforeBroadcast'
  BY FundedFrame, Zenon DEF IInv, Known
<1> QED
  BY <1>1, Zenon DEF IInv, TypeOK, NodeType

\* The part of the invariant that is about the table.
LEMMA InvTables == ASSUME IInv PROVE Tables
  BY Zenon DEF IInv, TypeOK, Tables

-----------------------------------------------------------------------------
(* ConfirmTransfer *)

\* StartConfirm reads the pending nonce and goes on to the validation.
LEMMA StartConfirmInv ==
  ASSUME IInv, NEW c \in ConfirmCall, StartConfirm(c)
  PROVE  IInv'
<1>1. Grows /\ Tables' /\ NoInsert
  BY InvTables, QuietStep, Zenon DEF StartConfirm
<1>2. NodeType' /\ FundedBeforeBroadcast'
  BY <1>1, SameChain, Zenon DEF StartConfirm
<1>3. TypeOK /\ CallOK(c)
  BY Zenon DEF IInv
<1>4. \A i \in Legs(c[1]) : transfers[i].status # "absent"
  BY Zenon DEF StartConfirm
<1>5. CASE Reject(c)
  BY <1>1, <1>2, <1>3, <1>4, <1>5, CallRejects, CallStep, Zenon DEF StartConfirm
<1>6. ASSUME NEW n \in 0 .. MaxNonce + 1,
             call' = [call EXCEPT ![c] =
                        [@ EXCEPT !.pc = "validate", !.acc = n, !.todo = Legs(c[1])]]
      PROVE  IInv'
  <2> DEFINE started == [call[c] EXCEPT !.pc = "validate", !.acc = n, !.todo = Legs(c[1])]
  <2>1. n \in Nat /\ "validate" \in CallPc /\ Legs(c[1]) \in SUBSET TokenId
    BY LegsType, SMT DEF CallPc
  <2>2. call[c] \in CallState
    BY <1>3, Zenon DEF TypeOK
  <2>3. /\ started \in CallState /\ started.pc = "validate" /\ started.todo = Legs(c[1])
        /\ started.mem = call[c].mem
    BY <2>1, <2>2, Zenon DEF CallState
  <2>4. call' = [call EXCEPT ![c] = started]
    BY <1>6
  <2> HIDE DEF started
  <2>5. started.pc \notin {"load", "record", "save"} /\ started.todo \subseteq Legs(c[1])
    BY <2>3, SMT
  <2>6. \A i \in Loaded(started.mem) : CallRowOK(i, started.mem[i], c[1])
    BY <1>3, <2>3, Zenon DEF CallOK
  <2> QED
    BY <1>1, <1>2, <1>3, <1>4, <2>3, <2>4, <2>5, <2>6, CallMoves, CallStep, Zenon DEF StartConfirm
<1> QED
  BY <1>5, <1>6, Zenon DEF StartConfirm

\* Validate goes through the rows and writes nothing.
LEMMA ValidateInv ==
  ASSUME IInv, NEW c \in ConfirmCall, Validate(c)
  PROVE  IInv'
<1>1. Grows /\ Tables' /\ NoInsert
  BY InvTables, QuietStep, Zenon DEF Validate
<1>2. NodeType' /\ FundedBeforeBroadcast'
  BY <1>1, SameChain, Zenon DEF Validate
<1>3. TypeOK /\ CallOK(c)
  BY Zenon DEF IInv
<1>4. call[c].pc \notin {"idle", "done"}
  BY SMT DEF Validate
<1>5. \A i \in Legs(c[1]) : transfers[i].status # "absent"
  BY <1>3, <1>4, Zenon DEF CallOK
<1>6. CASE Reject(c)
  BY <1>1, <1>2, <1>3, <1>5, <1>6, CallRejects, CallStep, Zenon DEF Validate
<1>7. ASSUME NEW pc \in {"mark", "validate"}, NEW todo \in SUBSET Legs(c[1]), Goto(c, pc, todo)
      PROVE  IInv'
  <2>1. pc \in CallPc /\ pc \notin {"load", "record", "save"}
    BY SMT DEF CallPc
  <2> QED
    BY <1>1, <1>2, <1>3, <1>4, <1>7, <2>1, CallGoes, CallStep, Zenon DEF Validate
<1>8. call[c].todo \subseteq Legs(c[1])
  BY <1>3, Zenon DEF CallOK
<1>9. \/ Reject(c) \/ Goto(c, "mark", Legs(c[1]))
      \/ \E i \in call[c].todo : Goto(c, "validate", call[c].todo \ {i})
  BY Zenon DEF Validate
<1>10. CASE Goto(c, "mark", Legs(c[1]))
  BY <1>7, <1>10, Zenon
<1>11. CASE \E i \in call[c].todo : Goto(c, "validate", call[c].todo \ {i})
  <2>1. PICK i \in call[c].todo : Goto(c, "validate", call[c].todo \ {i})
    BY <1>11
  <2>2. call[c].todo \ {i} \in SUBSET Legs(c[1])
    BY <1>8, Zenon
  <2> QED
    BY <1>7, <2>1, <2>2, Zenon
<1> QED
  BY <1>6, <1>9, <1>10, <1>11, Zenon

\* RejectTransfer fails a row, and only its status changes.
LEMMA RejectTransferInv ==
  ASSUME IInv, NEW c \in ConfirmCall, RejectTransfer(c)
  PROVE  IInv'
<1>1. TypeOK /\ CallOK(c) /\ Tables /\ call[c].pc = "reject"
  BY InvTables, Zenon DEF IInv, RejectTransfer
<1>2. PICK i \in call[c].todo :
        /\ transfers' = WriteTransferError(transfers, i) \/ UNCHANGED transfers
        /\ Return(c) \/ Goto(c, "reject", call[c].todo \ {i})
  BY Zenon DEF RejectTransfer
<1>3. i \in TokenId /\ i \notin TopUpId
  BY <1>1, LegsType, IdsDiffer, Zenon DEF CallOK
<1>4. Grows /\ Tables' /\ NoInsert
  <2>1. CASE UNCHANGED transfers
    BY <1>1, <2>1, QuietStep, Zenon DEF RejectTransfer
  <2>2. CASE transfers' = WriteTransferError(transfers, i)
    <3>1. transfers' = SetStatus(transfers, {i}, "failed") /\ UNCHANGED <<chain, paidFor>>
      BY <2>2, Zenon DEF WriteTransferError, RejectTransfer
    <3>2. /\ "failed" \in {"confirming", "processing", "completed", "failed"}
          /\ {i} \cap TopUpId = {}
      BY <1>3, SMT
    <3> QED
      BY <1>1, <3>1, <3>2, StatusStep, Zenon
  <2> QED
    BY <1>2, <2>1, <2>2
<1>5. NodeType' /\ FundedBeforeBroadcast'
  BY <1>4, SameChain, Zenon DEF RejectTransfer
<1>6. CASE Return(c)
  BY <1>1, <1>4, <1>5, <1>6, CallReturns, CallStep, Zenon DEF RejectTransfer
<1>7. CASE Goto(c, "reject", call[c].todo \ {i})
  <2>1. "reject" \in CallPc /\ call[c].todo \ {i} \in SUBSET Legs(c[1])
    BY <1>1, Zenon DEF CallPc, CallOK
  <2> QED
    BY <1>1, <1>4, <1>5, <1>7, <2>1, CallGoes, CallStep, Zenon DEF RejectTransfer
<1> QED
  BY <1>2, <1>6, <1>7

\* Of the rows that are left, one is listed first.
LEMMA ListedFirstUnique ==
  ASSUME NEW c \in ConfirmCall, NEW todo \in SUBSET Legs(c[1]), NEW i, NEW k,
         ListedFirst(todo, i), ListedFirst(todo, k)
  PROVE  i = k
  BY SMT DEF ListedFirst, Legs

\* A row of the pair of a call belongs to the user who makes the call.
LEMMA FromLegs ==
  ASSUME NEW c \in ConfirmCall, NEW i \in Legs(c[1])
  PROVE  i \in TokenId /\ i \in Id /\ i \notin TopUpId /\ From(i) = Owner[c[1]]
<1>1. i \in TokenId /\ i[1] = c[1]
  BY LegsType, SMT DEF Legs
<1> QED
  BY <1>1, IdsDiffer, Zenon DEF From

\* MarkConfirming sets the status of one row, which may then be loaded.
LEMMA MarkConfirmingInv ==
  ASSUME IInv, NEW c \in ConfirmCall, MarkConfirming(c)
  PROVE  IInv'
<1>1. TypeOK /\ CallOK(c) /\ Tables /\ call[c].pc = "mark"
  BY InvTables, Zenon DEF IInv, MarkConfirming
<1>2. call[c].todo \in SUBSET Legs(c[1]) /\ \A i \in Legs(c[1]) : transfers[i].status # "absent"
  BY <1>1, Zenon DEF CallOK
<1>3. CASE Return(c) /\ UNCHANGED transfers
  <2>1. Grows /\ Tables' /\ NoInsert
    BY <1>1, <1>3, QuietStep, Zenon DEF MarkConfirming
  <2> QED
    BY <1>1, <1>3, <2>1, SameChain, CallReturns, CallStep, Zenon DEF MarkConfirming
<1>4. ASSUME NEW i \in call[c].todo, ListedFirst(call[c].todo, i),
             transfers' = ConfirmTransferByID(transfers, i, Owner[c[1]]),
             Goto(c, "load", call[c].todo)
      PROVE  IInv'
  <2> DEFINE S == {k \in {i} : From(k) = Owner[c[1]]}
  <2>1. i \in TokenId /\ i \in Id /\ i \notin TopUpId /\ From(i) = Owner[c[1]] /\ i \in Legs(c[1])
    BY <1>2, FromLegs, Zenon
  <2>2. /\ transfers' = SetStatus(transfers, S, "confirming") /\ UNCHANGED <<chain, paidFor>>
        /\ "confirming" \in {"confirming", "processing", "completed", "failed"}
        /\ S \cap TopUpId = {} /\ i \in S
    BY <1>4, <2>1, Zenon DEF ConfirmTransferByID, MarkConfirming
  <2> HIDE DEF S
  <2>3. Grows /\ Tables' /\ NoInsert
    BY <1>1, <2>2, StatusStep, Zenon
  <2>4. Taken(i)' \/ transfers'[i].deleted
    <3>1. CASE Live(transfers, i)
      <4>1. transfers'[i].status = "confirming"
        BY <1>1, <2>1, <2>2, <3>1, SMT DEF SetStatus, Tables, Row
      <4> QED
        BY <4>1, SMT DEF Taken
    <3>2. CASE ~Live(transfers, i)
      BY <1>2, <2>1, <2>3, <3>2, Zenon DEF Live, Grows
    <3> QED
      BY <3>1, <3>2
  <2>5. \A k \in call[c].todo : ListedFirst(call[c].todo, k) => Taken(k)' \/ transfers'[k].deleted
    <3> SUFFICES ASSUME NEW k \in call[c].todo, ListedFirst(call[c].todo, k)
                 PROVE  Taken(k)' \/ transfers'[k].deleted
      OBVIOUS
    <3>1. k = i
      BY <1>2, <1>4, ListedFirstUnique, Zenon
    <3> QED
      BY <2>4, <3>1
  <2>6. "load" \in CallPc /\ "load" \notin {"record", "save"} /\ call[c].pc \notin {"idle", "done"}
    BY <1>1, SMT DEF CallPc
  <2>7. CallOK(c)' /\ call' \in [ConfirmCall -> CallState]
        /\ \A d \in ConfirmCall : d # c => call'[d] = call[d]
    BY <1>1, <1>2, <1>4, <2>3, <2>5, <2>6, CallGoes, SMT
  <2> QED
    BY <2>3, <2>7, SameChain, CallStep, Zenon DEF MarkConfirming
<1> QED
  BY <1>3, <1>4, Zenon DEF MarkConfirming

\* A row put into memory is held there with the rows that were there before.
LEMMA MemoryWith ==
  ASSUME NEW mem \in Memory, NEW i \in TokenId, NEW row \in Row
  PROVE  /\ [mem EXCEPT ![i] = row] \in Memory
         /\ Loaded([mem EXCEPT ![i] = row]) \subseteq Loaded(mem) \cup {i}
         /\ [mem EXCEPT ![i] = row][i] = row
         /\ \A k \in TokenId : k # i => [mem EXCEPT ![i] = row][k] = mem[k]
  BY Zenon DEF Memory, Loaded

\* LoadTransfer adds to the memory a row that has been taken, with its raw transaction.
LEMMA LoadTransferInv ==
  ASSUME IInv, NEW c \in ConfirmCall, LoadTransfer(c)
  PROVE  IInv'
<1>1. TypeOK /\ CallOK(c) /\ Tables /\ call[c].pc = "load" /\ call[c] \in CallState
  BY InvTables, Zenon DEF IInv, LoadTransfer, TypeOK
<1>2. call[c].todo \in SUBSET Legs(c[1]) /\ \A i \in Legs(c[1]) : transfers[i].status # "absent"
  BY <1>1, SMT DEF CallOK
<1>3. Grows /\ Tables' /\ NoInsert
  BY <1>1, QuietStep, Zenon DEF LoadTransfer
<1>4. NodeType' /\ FundedBeforeBroadcast'
  BY <1>3, SameChain, Zenon DEF LoadTransfer
<1>5. CASE Return(c)
  BY <1>1, <1>3, <1>4, <1>5, CallReturns, CallStep, Zenon DEF LoadTransfer
<1>6. ASSUME NEW i \in call[c].todo, ListedFirst(call[c].todo, i), HasTransfer(transfers, i, Owner[c[1]]),
             NEW pc \in {"fund", "mark"},
             call' = [call EXCEPT ![c] =
                [@ EXCEPT !.pc = pc, !.todo = call[c].todo \ {i},
                          !.mem[i] = [transfers[i] EXCEPT !.raw = i, !.status = "queued"]]]
      PROVE  IInv'
  <2> DEFINE row == [transfers[i] EXCEPT !.raw = i, !.status = "queued"]
             mem == [call[c].mem EXCEPT ![i] = row]
             moved == [call[c] EXCEPT !.pc = pc, !.todo = call[c].todo \ {i}, !.mem = mem]
  <2>1. i \in TokenId /\ i \in Id /\ i \in Legs(c[1]) /\ i \in Reference /\ transfers[i] \in Row
    BY <1>1, <1>2, FromLegs, Zenon DEF Tables, Reference
  <2>2. Taken(i)
    BY <1>1, <1>6, Zenon DEF CallOK, HasTransfer, Live
  <2>3. "queued" \in Status /\ pc \in CallPc /\ pc \notin {"load", "record", "save"}
    BY SMT DEF Status, CallPc
  <2>4. /\ row \in Row /\ row.status = "queued" /\ row.raw = i /\ row.hash = transfers[i].hash
    BY <2>1, <2>3, Zenon DEF Row
  <2>5. CallRowOK(i, row, c[1])
    <3>1. HashOK(i, transfers[i])
      BY <1>1, <2>1, Zenon DEF Tables, TokenRowOK
    <3> QED
      BY <2>1, <2>2, <2>4, <3>1, Zenon DEF CallRowOK, HashOK
  <2> HIDE DEF row
  <2>6. call[c].mem \in Memory
    BY <1>1, Zenon DEF CallState
  <2>7. /\ mem \in Memory /\ Loaded(mem) \subseteq Loaded(call[c].mem) \cup {i}
        /\ mem[i] = row /\ \A k \in TokenId : k # i => mem[k] = call[c].mem[k]
    BY <2>1, <2>4, <2>6, MemoryWith
  <2>8. \A k \in Loaded(mem) : CallRowOK(k, mem[k], c[1])
    BY <1>1, <2>5, <2>7, Zenon DEF CallOK, Loaded
  <2>9. call' = [call EXCEPT ![c] = moved]
    BY <1>6, Zenon DEF row, mem
  <2> HIDE DEF mem
  <2>10. /\ moved \in CallState /\ moved.pc = pc /\ moved.todo = call[c].todo \ {i}
         /\ moved.mem = mem
    <3>1. call[c].todo \ {i} \in SUBSET TokenId
      BY <1>2, LegsType, Zenon
    <3> QED
      BY <1>1, <2>3, <2>7, <3>1, Zenon DEF CallState
  <2> HIDE DEF moved
  <2>11. /\ moved.todo \subseteq Legs(c[1]) /\ moved.pc \notin {"load", "record", "save"}
         /\ \A k \in Loaded(moved.mem) : CallRowOK(k, moved.mem[k], c[1])
    BY <1>2, <2>3, <2>8, <2>10, Zenon
  <2> QED
    BY <1>1, <1>2, <1>3, <1>4, <2>9, <2>10, <2>11, CallMoves, CallStep, Zenon DEF LoadTransfer
<1> QED
  BY <1>5, <1>6, Zenon DEF LoadTransfer

\* ReadBankNonce changes nothing but the call.
LEMMA ReadBankNonceInv ==
  ASSUME IInv, NEW c \in ConfirmCall, ReadBankNonce(c)
  PROVE  IInv'
<1>1. TypeOK /\ CallOK(c) /\ Tables /\ call[c].pc = "fund" /\ call[c] \in CallState
  BY InvTables, Zenon DEF IInv, ReadBankNonce, TypeOK
<1>2. call[c].todo \in SUBSET Legs(c[1]) /\ \A i \in Legs(c[1]) : transfers[i].status # "absent"
  BY <1>1, SMT DEF CallOK
<1>3. Grows /\ Tables' /\ NoInsert
  BY <1>1, QuietStep, Zenon DEF ReadBankNonce
<1>4. NodeType' /\ FundedBeforeBroadcast'
  BY <1>3, SameChain, Zenon DEF ReadBankNonce
<1>5. CASE Reject(c)
  BY <1>1, <1>2, <1>3, <1>4, <1>5, CallRejects, CallStep, Zenon DEF ReadBankNonce
<1>6. ASSUME NEW n \in 0 .. MaxTopUps - 1,
             call' = [call EXCEPT ![c] = [@ EXCEPT !.pc = "send", !.nonce = n]]
      PROVE  IInv'
  <2> DEFINE moved == [call[c] EXCEPT !.pc = "send", !.nonce = n]
  <2>1. call' = [call EXCEPT ![c] = moved]
    BY <1>6
  <2>2. "send" \in CallPc
    BY SMT DEF CallPc
  <2>3. /\ moved \in CallState /\ moved.pc = "send" /\ moved.todo = call[c].todo
        /\ moved.mem = call[c].mem
    BY <1>1, <2>2, Zenon DEF CallState
  <2> HIDE DEF moved
  <2>4. moved.todo \subseteq Legs(c[1]) /\ moved.pc \notin {"load", "record", "save"}
    BY <1>2, <2>3, SMT
  <2>5. \A i \in Loaded(moved.mem) : CallRowOK(i, moved.mem[i], c[1])
    BY <1>1, <2>3, Zenon DEF CallOK
  <2> QED
    BY <1>1, <1>2, <1>3, <1>4, <2>1, <2>3, <2>4, <2>5, CallMoves, CallStep, Zenon DEF ReadBankNonce
<1> QED
  BY <1>5, <1>6, Zenon DEF ReadBankNonce

\* SendTopUp hands a new top-up to the node, for the pair of the call.
LEMMA SendTopUpInv ==
  ASSUME IInv, NEW c \in ConfirmCall, SendTopUp(c)
  PROVE  IInv'
<1>1. TypeOK /\ CallOK(c) /\ Tables /\ call[c].pc = "send"
  BY InvTables, Zenon DEF IInv, SendTopUp
<1>2. call[c].pc \notin {"idle", "done"} /\ \A i \in Legs(c[1]) : transfers[i].status # "absent"
  BY <1>1, SMT DEF CallOK
<1>3. CASE Reject(c) /\ UNCHANGED <<chain, paidFor>>
  <2>1. Grows /\ Tables' /\ NoInsert
    BY <1>1, <1>3, QuietStep, Zenon DEF SendTopUp
  <2> QED
    BY <1>1, <1>2, <1>3, <2>1, SameChain, CallRejects, CallStep, Zenon DEF SendTopUp
<1>4. ASSUME ~Known(TopUpOf(c)), Accept(TopUpOf(c)),
             paidFor' = [paidFor EXCEPT ![TopUpOf(c)] = c[1]],
             Goto(c, "record", {}) \/ Reject(c)
      PROVE  IInv'
  <2> DEFINE t == TopUpOf(c)
  <2>1. t \in TopUpId /\ t \in Id /\ t \notin TokenId /\ c[1] \in Pair
    BY <1>1, TopUpOfType, IdsDiffer, LegsType, Zenon
  <2>2. /\ ~InBlock(t) /\ chain \in [Id -> {"none", "pooled", "mined", "reverted"}]
        /\ "pooled" \in {"pooled", "mined", "reverted"}
    BY <1>1, <1>4, SMT DEF InBlock, Known, TypeOK
  <2>3. /\ paidFor' \in [TopUpId -> Pair \cup {NULL}] /\ paidFor'[t] = c[1]
        /\ \A s \in TopUpId : s # t => paidFor'[s] = paidFor[s]
    <3>1. paidFor \in [TopUpId -> Pair \cup {NULL}]
      BY <1>1, Zenon DEF TypeOK
    <3> QED
      BY <1>4, <2>1, <3>1, SMT
  <2>4. \A s \in TopUpId : Known(s) => paidFor'[s] = paidFor[s]
    BY <1>4, <2>3, Zenon
  <2>5. chain' = [chain EXCEPT ![t] = "pooled"] /\ UNCHANGED transfers
    BY <1>4, Zenon DEF Accept, SendTopUp
  <2>6. /\ Grows /\ Tables' /\ NoInsert
        /\ chain' \in [Id -> {"none", "pooled", "mined", "reverted"}]
        /\ chain'[t] # "none" /\ \A i \in Id : i # t => chain'[i] = chain[i]
    <3>1. t \in TokenId => Taken(t)
      BY <2>1
    <3> HIDE DEF t
    <3> QED
      BY <1>1, <2>1, <2>2, <2>4, <2>5, <3>1, ChainStep
  <2>7. NodeType'
    BY <2>3, <2>6, Zenon DEF NodeType
  <2>8. FundedBeforeBroadcast'
    <3>1. \A i \in TokenId : Known(i)' => Known(i)
      BY <2>1, <2>6, IdsDiffer, Zenon DEF Known
    <3> QED
      BY <2>6, <3>1, FundedFrame, Zenon DEF IInv
  <2>9. CASE Reject(c)
    BY <1>1, <1>2, <2>6, <2>7, <2>8, <2>9, CallRejects, CallStep, Zenon DEF SendTopUp
  <2>10. CASE Goto(c, "record", {})
    <3>1. "record" \in CallPc /\ {} \in SUBSET Legs(c[1]) /\ "record" \notin {"load", "save"}
      BY SMT DEF CallPc
    <3>2. Known(TopUpOf(c))' /\ paidFor'[TopUpOf(c)] = c[1]
      <4>1. call \in [ConfirmCall -> CallState] /\ {} \in SUBSET TokenId
        BY <1>1, Zenon DEF TypeOK
      <4>2. call'[c].nonce = call[c].nonce
        BY <2>10, <3>1, <4>1, GotoEffect
      <4>3. TopUpOf(c)' = TopUpOf(c)
        BY <4>2, Zenon DEF TopUpOf
      <4> QED
        BY <2>3, <2>6, <4>3, Zenon DEF Known
    <3>3. CallOK(c)' /\ call' \in [ConfirmCall -> CallState]
          /\ \A d \in ConfirmCall : d # c => call'[d] = call[d]
      BY <1>1, <1>2, <2>6, <2>10, <3>1, <3>2, CallGoes, SMT
    <3> QED
      BY <2>6, <2>7, <2>8, <3>3, CallStep, Zenon DEF SendTopUp
  <2> QED
    BY <1>4, <2>9, <2>10
<1> QED
  BY <1>3, <1>4, Zenon DEF SendTopUp

\* RecordTopUp inserts the row of a top-up the node has.
LEMMA RecordTopUpInv ==
  ASSUME IInv, NEW c \in ConfirmCall, RecordTopUp(c)
  PROVE  IInv'
<1>1. TypeOK /\ CallOK(c) /\ Tables /\ call[c].pc = "record"
  BY InvTables, Zenon DEF IInv, RecordTopUp
<1>2. call[c].pc \notin {"idle", "done"} /\ \A i \in Legs(c[1]) : transfers[i].status # "absent"
  BY <1>1, SMT DEF CallOK
<1>3. CASE Reject(c) /\ UNCHANGED transfers
  <2>1. Grows /\ Tables' /\ NoInsert
    BY <1>1, <1>3, QuietStep, Zenon DEF RecordTopUp
  <2> QED
    BY <1>1, <1>2, <1>3, <2>1, SameChain, CallRejects, CallStep, Zenon DEF RecordTopUp
<1>4. CASE transfers' = CreateEthTransfer(transfers, TopUpOf(c)) /\ Goto(c, "save", {})
  <2>1. TopUpOf(c) \in TopUpId /\ Known(TopUpOf(c)) /\ paidFor[TopUpOf(c)] = c[1]
    <3>1. call[c].pc \in {"record", "save"}
      BY <1>1, SMT
    <3> QED
      BY <1>1, <3>1, TopUpOfType, Zenon DEF CallOK
  <2>2. Grows /\ Tables' /\ NoInsert /\ transfers'[TopUpOf(c)].status # "absent"
    BY <1>1, <1>4, <2>1, RecordStep, Zenon DEF RecordTopUp
  <2>3. "save" \in CallPc /\ {} \in SUBSET Legs(c[1]) /\ "save" # "load"
    BY SMT DEF CallPc
  <2>4. TopUpOf(c)' = TopUpOf(c)
    <3>1. call \in [ConfirmCall -> CallState] /\ {} \in SUBSET TokenId
      BY <1>1, Zenon DEF TypeOK
    <3>2. call'[c].nonce = call[c].nonce
      BY <1>4, <2>3, <3>1, GotoEffect
    <3> QED
      BY <3>2, Zenon DEF TopUpOf
  <2>5. Known(TopUpOf(c))' /\ paidFor'[TopUpOf(c)] = c[1]
    BY <2>1, <2>4, Zenon DEF RecordTopUp, Known
  <2>6. CallOK(c)' /\ call' \in [ConfirmCall -> CallState]
        /\ \A d \in ConfirmCall : d # c => call'[d] = call[d]
    BY <1>1, <1>2, <1>4, <2>2, <2>3, <2>5, CallGoes, SMT
  <2> QED
    BY <2>2, <2>6, SameChain, CallStep, Zenon DEF RecordTopUp
<1> QED
  BY <1>3, <1>4, Zenon DEF RecordTopUp

\* SaveQueued writes the rows of the call, linked to its top-up.
LEMMA SaveQueuedInv ==
  ASSUME IInv, NEW c \in ConfirmCall, SaveQueued(c)
  PROVE  IInv'
<1>1. TypeOK /\ CallOK(c) /\ Tables /\ call[c].pc = "save" /\ call[c].mem \in Memory
  BY InvTables, Zenon DEF IInv, SaveQueued, TypeOK, CallState
<1>2. /\ TopUpOf(c) \in TopUpId /\ Known(TopUpOf(c)) /\ paidFor[TopUpOf(c)] = c[1]
      /\ transfers[TopUpOf(c)].status # "absent"
  <2>1. call[c].pc \in {"record", "save"}
    BY <1>1, SMT
  <2> QED
    BY <1>1, <2>1, TopUpOfType, Zenon DEF CallOK
<1> DEFINE t == TopUpOf(c)
           mem == Linked(call[c].mem, t)
<1>3. t \in Reference /\ t # NULL
  BY <1>2, IdsDiffer, Zenon DEF Reference
<1>4. \A i \in Loaded(call[c].mem) :
         [call[c].mem[i] EXCEPT !.topUp = t] \in Row /\ i \in TokenId
  BY <1>1, <1>3, Zenon DEF Memory, Row, Loaded
<1>5. mem \in Memory /\ Loaded(mem) \subseteq Loaded(call[c].mem)
  BY <1>4, NoRowType, Zenon DEF Linked, Memory, Loaded
<1>6. ASSUME NEW i \in Loaded(mem)
      PROVE  Writable(i, mem[i])
  <2>1. i \in Loaded(call[c].mem) /\ i \in TokenId /\ call[c].mem[i] \in Row
    BY <1>1, <1>5, Zenon DEF Loaded, Memory
  <2>2. mem[i] = [call[c].mem[i] EXCEPT !.topUp = t]
    BY <2>1, Zenon DEF Linked
  <2>3. /\ mem[i].status = call[c].mem[i].status /\ mem[i].raw = call[c].mem[i].raw
        /\ mem[i].hash = call[c].mem[i].hash /\ mem[i].topUp = t
    BY <2>1, <2>2, Zenon DEF Row
  <2>4. CallRowOK(i, call[c].mem[i], c[1]) /\ i[1] = c[1]
    <3>1. CallRowOK(i, call[c].mem[i], c[1])
      BY <1>1, <2>1, Zenon DEF CallOK
    <3> QED
      BY <3>1, SMT DEF CallRowOK, Legs
  <2>5. mem[i].status = "queued" /\ mem[i].status # "pending"
    BY <2>3, <2>4, SMT DEF CallRowOK
  <2> HIDE DEF mem
  <2> QED
    BY <1>2, <1>3, <2>3, <2>4, <2>5, Zenon DEF Writable, CallRowOK, HashOK, LinkedTo
<1>7. transfers' = UpdateTransfers(transfers, mem) \/ UNCHANGED transfers
  BY Zenon DEF SaveQueued
<1> HIDE DEF mem
<1>8. Grows /\ Tables' /\ NoInsert
  <2>1. CASE UNCHANGED transfers
    BY <1>1, <2>1, QuietStep, Zenon DEF SaveQueued
  <2>2. CASE transfers' = UpdateTransfers(transfers, mem)
    BY <1>1, <1>5, <1>6, <2>2, UpdateStep, Zenon DEF SaveQueued
  <2> QED
    BY <1>7, <2>1, <2>2
<1> QED
  BY <1>1, <1>8, SameChain, CallReturns, CallStep, Zenon DEF SaveQueued

-----------------------------------------------------------------------------
(* The goroutines that end a top-up *)

\* What every step of such a goroutine leaves alone.
JobKeeps == UNCHANGED <<paidFor, foreign, draft, call, watch, seen>>

\* The goroutine goes on after a step that has not upset the table.
LEMMA JobGoesInv ==
  ASSUME IInv, NEW j \in Job, JobKeeps, Grows, Tables', NoInsert, NodeType',
         FundedBeforeBroadcast',
         NEW pc \in JobPc, NEW todo \in SUBSET Loaded(job[j].mem), JobTo(j, pc, todo),
         pc \notin {"idle", "check"} => InBlock(TopUp(j)),
         pc \in {"revert", "revertLinked"} => chain[TopUp(j)] = "reverted",
         pc \in {"idle", "check"} => Loaded(job[j].mem) = {}
  PROVE  IInv'
<1>1. TypeOK /\ JobOK(j)
  BY Zenon DEF IInv
<1>2. /\ JobOK(j)' /\ job' \in [Job -> JobState]
      /\ \A k \in Job : k # j => job'[k] = job[k]
  BY <1>1, JobGoes
<1> QED
  BY <1>2, JobStep, Zenon DEF JobKeeps

\* The goroutine ends after a step that has not upset the table.
LEMMA JobEndsInv ==
  ASSUME IInv, NEW j \in Job, JobKeeps, Grows, Tables', NoInsert, NodeType',
         FundedBeforeBroadcast', End(j)
  PROVE  IInv'
<1>1. /\ JobOK(j)' /\ job' \in [Job -> JobState]
      /\ \A k \in Job : k # j => job'[k] = job[k]
  BY JobEnds, Zenon DEF IInv
<1> QED
  BY <1>1, JobStep, Zenon DEF JobKeeps

\* A step that only moves the goroutine upsets nothing.
LEMMA JobQuiet ==
  ASSUME IInv, UNCHANGED <<transfers, chain, paidFor>>
  PROVE  Grows /\ Tables' /\ NoInsert /\ NodeType' /\ FundedBeforeBroadcast'
<1>1. Grows /\ Tables' /\ NoInsert
  BY InvTables, QuietStep, Zenon
<1> QED
  BY <1>1, SameChain, Zenon

\* The receipt leads to a branch that its result allows.
LEMMA ByReceiptInv ==
  ASSUME IInv, NEW j \in Job, UNCHANGED <<transfers, chain>>, JobKeeps,
         job[j].pc # "idle", InBlock(TopUp(j)),
         ByReceipt(j) \/ JobTo(j, "queue", {})
  PROVE  IInv'
<1>1. Grows /\ Tables' /\ NoInsert /\ NodeType' /\ FundedBeforeBroadcast'
  BY JobQuiet, Zenon DEF JobKeeps
<1>2. ASSUME NEW pc \in {"queue", "revert"}, JobTo(j, pc, {}),
             pc = "revert" => chain[TopUp(j)] = "reverted"
      PROVE  IInv'
  <2>1. /\ pc \in JobPc /\ {} \in SUBSET Loaded(job[j].mem)
        /\ pc \notin {"idle", "check"} /\ pc # "revertLinked"
    BY SMT DEF JobPc
  <2>2. pc \in {"revert", "revertLinked"} => chain[TopUp(j)] = "reverted"
    BY <1>2, <2>1
  <2> QED
    BY <1>1, <1>2, <2>1, <2>2, JobGoesInv, Zenon
<1>3. \/ JobTo(j, "queue", {})
      \/ JobTo(j, "revert", {}) /\ chain[TopUp(j)] = "reverted"
  BY Zenon DEF ByReceipt
<1>4. CASE JobTo(j, "queue", {})
  BY <1>2, <1>4, SMT
<1>5. CASE JobTo(j, "revert", {}) /\ chain[TopUp(j)] = "reverted"
  BY <1>2, <1>5, SMT
<1> QED
  BY <1>3, <1>4, <1>5

\* The listener begins with a top-up that is in a block.
LEMMA ListenerFindsInv ==
  ASSUME IInv, NEW j \in Job, ListenerFinds(j)
  PROVE  IInv'
<1>1. Grows /\ Tables' /\ NoInsert /\ NodeType' /\ FundedBeforeBroadcast' /\ JobKeeps
  BY JobQuiet, Zenon DEF ListenerFinds, JobKeeps
<1>2. /\ "receipt" \in JobPc /\ {} \in SUBSET Loaded(job[j].mem)
      /\ "receipt" \notin {"idle", "check"} /\ "receipt" \notin {"revert", "revertLinked"}
  BY SMT DEF JobPc
<1> QED
  BY <1>1, <1>2, JobGoesInv, Zenon DEF ListenerFinds

\* The listener goes by the receipt, or completes without one.
LEMMA ListenerReadsReceiptInv ==
  ASSUME IInv, NEW j \in Job, ListenerReadsReceipt(j)
  PROVE  IInv'
<1>1. job[j].pc = "receipt" /\ job[j].pc \notin {"idle", "check"} /\ job[j].pc # "idle"
  BY SMT DEF ListenerReadsReceipt
<1>2. InBlock(TopUp(j))
  BY <1>1, Zenon DEF IInv, JobOK
<1> QED
  BY <1>1, <1>2, ByReceiptInv, Zenon DEF ListenerReadsReceipt, JobKeeps

\* The monitor begins with a top-up whose row is pending, and knows nothing yet.
LEMMA MonitorFindsInv ==
  ASSUME IInv, NEW j \in Job, MonitorFinds(j)
  PROVE  IInv'
<1>1. Grows /\ Tables' /\ NoInsert /\ NodeType' /\ FundedBeforeBroadcast' /\ JobKeeps
  BY JobQuiet, Zenon DEF MonitorFinds, JobKeeps
<1>2. /\ "check" \in JobPc /\ {} \in SUBSET Loaded(job[j].mem)
      /\ "check" \in {"idle", "check"} /\ "check" \notin {"revert", "revertLinked"}
  BY SMT DEF JobPc
<1>3. Loaded(job[j].mem) = {}
  BY SMT DEF IInv, JobOK, MonitorFinds
<1> QED
  BY <1>1, <1>2, <1>3, JobGoesInv, Zenon DEF MonitorFinds

\* The monitor goes on only when the top-up is in a block.
LEMMA MonitorChecksInv ==
  ASSUME IInv, NEW j \in Job, MonitorChecks(j)
  PROVE  IInv'
<1>1. Grows /\ Tables' /\ NoInsert /\ NodeType' /\ FundedBeforeBroadcast' /\ JobKeeps
  BY JobQuiet, Zenon DEF MonitorChecks, JobKeeps
<1>2. job[j].pc # "idle"
  BY SMT DEF MonitorChecks
<1>3. CASE End(j)
  BY <1>1, <1>3, JobEndsInv
<1>4. CASE InBlock(TopUp(j)) /\ ByReceipt(j)
  BY <1>1, <1>2, <1>4, ByReceiptInv, Zenon DEF MonitorChecks
<1> QED
  BY <1>3, <1>4, Zenon DEF MonitorChecks

\* The goroutine leaves "balance" with the rows and the top-up it came with.
LEMMA CheckBalanceInv ==
  ASSUME IInv, NEW j \in Job, CheckBalance(j)
  PROVE  IInv'
<1>1. Grows /\ Tables' /\ NoInsert /\ NodeType' /\ FundedBeforeBroadcast' /\ JobKeeps
  BY JobQuiet, Zenon DEF CheckBalance, JobKeeps
<1>2. job[j].pc \notin {"idle", "check"}
  BY SMT DEF CheckBalance
<1>3. InBlock(TopUp(j)) /\ job[j].todo \in SUBSET Loaded(job[j].mem)
  BY <1>2, Zenon DEF IInv, JobOK
<1>4. ASSUME NEW pc \in {"send", "fail"}, JobTo(j, pc, job[j].todo)
      PROVE  IInv'
  <2>1. pc \in JobPc /\ pc \notin {"idle", "check"} /\ pc \notin {"revert", "revertLinked"}
    BY SMT DEF JobPc
  <2> QED
    BY <1>1, <1>3, <1>4, <2>1, JobGoesInv, Zenon
<1>5. JobTo(j, "send", job[j].todo) \/ JobTo(j, "fail", job[j].todo)
  BY Zenon DEF CheckBalance
<1> QED
  BY <1>4, <1>5, SMT

\* A goroutine sets a status, or fails to, and goes on or ends.
LEMMA JobStatus ==
  ASSUME IInv, JobKeeps, UNCHANGED chain, NEW S,
         NEW status \in {"processing", "completed", "failed"},
         transfers' = SetStatus(transfers, S, status) \/ UNCHANGED transfers,
         S \cap TokenId = {} \/ status = "failed",
         \A t \in S \cap TopUpId :
             \/ status # "failed" /\ InBlock(t)
             \/ status = "failed" /\ chain[t] = "reverted"
  PROVE  Grows /\ Tables' /\ NoInsert /\ NodeType' /\ FundedBeforeBroadcast'
<1>1. CASE UNCHANGED transfers
  BY <1>1, JobQuiet, Zenon DEF JobKeeps
<1>2. CASE transfers' = SetStatus(transfers, S, status)
  <2>1. UNCHANGED <<chain, paidFor>> /\ Tables
    BY InvTables, Zenon DEF JobKeeps
  <2>2. status \in {"confirming", "processing", "completed", "failed"}
    BY SMT
  <2>3. \A i \in S \cap TokenId : Live(transfers, i) =>
             \/ status \in {"confirming", "failed"}
             \/ status = "completed" /\ InBlock(i) /\ transfers[i].hash = i
    BY SMT
  <2>4. \A t \in S \cap TopUpId : Live(transfers, t) =>
             \/ status \in {"processing", "completed"} /\ InBlock(t)
             \/ status = "failed" /\ chain[t] = "reverted"
    BY SMT
  <2>5. Grows /\ Tables' /\ NoInsert
    BY <1>2, <2>1, <2>2, <2>3, <2>4, StatusStep
  <2> QED
    BY <2>1, <2>5, SameChain
<1> QED
  BY <1>1, <1>2

\* StartProcessing marks a top-up that is in a block.
LEMMA StartProcessingInv ==
  ASSUME IInv, NEW j \in Job, StartProcessing(j)
  PROVE  IInv'
<1>1. /\ JobKeeps /\ UNCHANGED chain /\ JobTo(j, "balance", job[j].todo)
      /\ transfers' = SetStatus(transfers, {TopUp(j)}, "processing") \/ UNCHANGED transfers
  BY Zenon DEF StartProcessing, JobKeeps, StartEthTransferProcessing
<1>2. job[j].pc \notin {"idle", "check"}
  BY SMT DEF StartProcessing
<1>3. InBlock(TopUp(j)) /\ job[j].todo \in SUBSET Loaded(job[j].mem)
  BY <1>2, Zenon DEF IInv, JobOK
<1>4. {TopUp(j)} \cap TokenId = {}
  BY TopUpType, IdsDiffer, Zenon
<1>5. Grows /\ Tables' /\ NoInsert /\ NodeType' /\ FundedBeforeBroadcast'
  BY <1>1, <1>3, <1>4, JobStatus, SMT
<1>6. /\ "balance" \in JobPc /\ "balance" \notin {"idle", "check"}
      /\ "balance" \notin {"revert", "revertLinked"}
  BY SMT DEF JobPc
<1> QED
  BY <1>1, <1>3, <1>5, <1>6, JobGoesInv, Zenon

\* FailTransfers fails a token row.
LEMMA FailTransfersInv ==
  ASSUME IInv, NEW j \in Job, FailTransfers(j)
  PROVE  IInv'
<1>1. PICK i \in job[j].todo :
        /\ transfers' = SetStatus(transfers, {i}, "failed") \/ UNCHANGED transfers
        /\ End(j) \/ JobTo(j, "fail", job[j].todo \ {i})
  BY Zenon DEF FailTransfers, WriteTransferError
<1>2. job[j].pc \notin {"idle", "check"}
  BY SMT DEF FailTransfers
<1>3. /\ InBlock(TopUp(j)) /\ job[j].todo \in SUBSET Loaded(job[j].mem)
  BY <1>2, Zenon DEF IInv, JobOK
<1>4. {i} \cap TopUpId = {}
  BY <1>3, IdsDiffer, Zenon DEF Loaded
<1>5. JobKeeps /\ UNCHANGED chain
  BY Zenon DEF FailTransfers, JobKeeps
<1>6. Grows /\ Tables' /\ NoInsert /\ NodeType' /\ FundedBeforeBroadcast'
  BY <1>1, <1>4, <1>5, JobStatus, SMT
<1>7. CASE End(j)
  BY <1>5, <1>6, <1>7, JobEndsInv
<1>8. CASE JobTo(j, "fail", job[j].todo \ {i})
  <2>1. /\ "fail" \in JobPc /\ "fail" \notin {"idle", "check"}
        /\ "fail" \notin {"revert", "revertLinked"}
        /\ job[j].todo \ {i} \in SUBSET Loaded(job[j].mem)
    BY <1>3, SMT DEF JobPc
  <2> QED
    BY <1>3, <1>5, <1>6, <1>8, <2>1, JobGoesInv, Zenon
<1> QED
  BY <1>1, <1>7, <1>8

\* CompleteTopUp completes the top-up the goroutine works on.
LEMMA CompleteTopUpInv ==
  ASSUME IInv, NEW j \in Job, CompleteTopUp(j)
  PROVE  IInv'
<1> DEFINE S == {i \in Id : i = TopUp(j) \/ (NULL # NULL /\ transfers[i].hash = NULL)}
<1>1. /\ JobKeeps /\ UNCHANGED chain /\ JobTo(j, "save", {})
      /\ transfers' = SetStatus(transfers, S, "completed") \/ UNCHANGED transfers
  BY Zenon DEF CompleteTopUp, JobKeeps, CompleteTransfer
<1>2. job[j].pc \notin {"idle", "check"}
  BY SMT DEF CompleteTopUp
<1>3. InBlock(TopUp(j))
  BY <1>2, Zenon DEF IInv, JobOK
<1>4. S \subseteq {TopUp(j)} /\ S \cap TokenId = {}
  BY TopUpType, IdsDiffer, Zenon
<1> HIDE DEF S
<1>5. Grows /\ Tables' /\ NoInsert /\ NodeType' /\ FundedBeforeBroadcast'
  <2>1. \A t \in S \cap TopUpId : "completed" # "failed" /\ InBlock(t)
    BY <1>3, <1>4, SMT
  <2> QED
    BY <1>1, <1>4, <2>1, JobStatus, SMT
<1>6. /\ "save" \in JobPc /\ "save" \notin {"idle", "check"}
      /\ "save" \notin {"revert", "revertLinked"} /\ {} \in SUBSET Loaded(job[j].mem)
  BY SMT DEF JobPc
<1> QED
  BY <1>1, <1>3, <1>5, <1>6, JobGoesInv, Zenon

\* FailTopUp fails a top-up that was mined and reverted.
LEMMA FailTopUpInv ==
  ASSUME IInv, NEW j \in Job, FailTopUp(j)
  PROVE  IInv'
<1>1. /\ JobKeeps /\ UNCHANGED chain
      /\ JobTo(j, "revertLinked", {}) \/ End(j)
      /\ transfers' = SetStatus(transfers, {TopUp(j)}, "failed") \/ UNCHANGED transfers
  BY Zenon DEF FailTopUp, JobKeeps, WriteTransferError
<1>2. job[j].pc \notin {"idle", "check"} /\ job[j].pc \in {"revert", "revertLinked"}
  BY SMT DEF FailTopUp
<1>3. InBlock(TopUp(j)) /\ chain[TopUp(j)] = "reverted"
  BY <1>2, Zenon DEF IInv, JobOK
<1>4. {TopUp(j)} \cap TokenId = {}
  BY TopUpType, IdsDiffer, Zenon
<1>5. Grows /\ Tables' /\ NoInsert /\ NodeType' /\ FundedBeforeBroadcast'
  BY <1>1, <1>3, <1>4, JobStatus, SMT
<1>6. CASE End(j)
  BY <1>1, <1>5, <1>6, JobEndsInv
<1>7. CASE JobTo(j, "revertLinked", {})
  <2>1. /\ "revertLinked" \in JobPc /\ "revertLinked" \notin {"idle", "check"}
        /\ {} \in SUBSET Loaded(job[j].mem)
    BY SMT DEF JobPc
  <2> QED
    BY <1>1, <1>3, <1>5, <1>7, <2>1, JobGoesInv, Zenon
<1> QED
  BY <1>1, <1>6, <1>7

\* FailLinked fails the token rows that wait for the top-up, and no top-up.
LEMMA FailLinkedInv ==
  ASSUME IInv, NEW j \in Job, FailLinked(j)
  PROVE  IInv'
<1> DEFINE S == {i \in Id : transfers[i].topUp = TopUp(j)}
<1>1. /\ JobKeeps /\ UNCHANGED chain /\ End(j)
      /\ transfers' = SetStatus(transfers, S, "failed") \/ UNCHANGED transfers
  BY Zenon DEF FailLinked, JobKeeps, FailLinkedTransfers
<1>2. S \cap TopUpId = {}
  <2>1. \A t \in TopUpId : transfers[t].topUp = NULL
    BY Zenon DEF IInv, TopUpRowOK
  <2> QED
    BY <2>1, TopUpType, IdsDiffer, Zenon
<1> HIDE DEF S
<1>3. Grows /\ Tables' /\ NoInsert /\ NodeType' /\ FundedBeforeBroadcast'
  BY <1>1, <1>2, JobStatus, SMT
<1> QED
  BY <1>1, <1>3, JobEndsInv

\* SavePending writes back rows that were loaded as queued and sent.
LEMMA SavePendingInv ==
  ASSUME IInv, NEW j \in Job, SavePending(j)
  PROVE  IInv'
<1>1. /\ JobKeeps /\ UNCHANGED <<chain, paidFor>> /\ End(j)
      /\ transfers' = UpdateTransfers(transfers, job[j].mem) \/ UNCHANGED transfers
  BY Zenon DEF SavePending, JobKeeps
<1>2. job[j].pc \notin {"idle", "check"}
  BY SMT DEF SavePending
<1>3. InBlock(TopUp(j)) /\ Known(TopUp(j)) /\ TopUp(j) \in TopUpId /\ TopUp(j) # NULL
  <2>1. InBlock(TopUp(j))
    BY <1>2, Zenon DEF IInv, JobOK
  <2> QED
    BY <2>1, TopUpType, IdsDiffer, SMT DEF InBlock, Known
<1>4. \A i \in Loaded(job[j].mem) : Writable(i, job[j].mem[i])
  <2> SUFFICES ASSUME NEW i \in Loaded(job[j].mem)
               PROVE  Writable(i, job[j].mem[i])
    OBVIOUS
  <2>1. JobRowOK(i, job[j].mem[i], TopUp(j))
    BY Zenon DEF IInv, JobOK
  <2> QED
    BY <1>3, <2>1, Zenon DEF JobRowOK, Writable, LinkedTo
<1>5. job[j].mem \in Memory
  BY Zenon DEF IInv, TypeOK, JobState
<1>6. Grows /\ Tables' /\ NoInsert
  <2>1. CASE UNCHANGED transfers
    BY <1>1, <2>1, InvTables, QuietStep, Zenon
  <2>2. CASE transfers' = UpdateTransfers(transfers, job[j].mem)
    BY <1>1, <1>4, <1>5, <2>2, InvTables, UpdateStep
  <2> QED
    BY <1>1, <2>1, <2>2
<1>7. NodeType' /\ FundedBeforeBroadcast'
  BY <1>1, <1>6, SameChain
<1> QED
  BY <1>1, <1>6, <1>7, JobEndsInv

\* A row in memory stays in order while the table and the chain grow.
LEMMA JobRowFrame ==
  ASSUME Grows, NEW j \in Job, InBlock(TopUp(j)), NEW i \in TokenId, NEW row,
         JobRowOK(i, row, TopUp(j))
  PROVE  JobRowOK(i, row, TopUp(j))'
<1>1. TopUp(j) \in TopUpId /\ TopUp(j) \in Id /\ TopUp(j)' = TopUp(j) /\ i \in Id
  BY TopUpType, IdsDiffer, Zenon DEF TopUp
<1>2. Known(TopUp(j))
  BY SMT DEF InBlock, Known
<1> QED
  BY <1>1, <1>2, Zenon DEF JobRowOK, HashOK, Grows

\* A goroutine past its receipt goes on with rows in order.
LEMMA JobMoves ==
  ASSUME IInv, NEW j \in Job, JobKeeps, Grows, Tables', NoInsert, NodeType',
         FundedBeforeBroadcast', NEW moved \in JobState, job' = [job EXCEPT ![j] = moved],
         InBlock(TopUp(j)), moved.pc \notin {"idle", "check", "revert", "revertLinked"},
         moved.todo \subseteq Loaded(moved.mem),
         \A i \in Loaded(moved.mem) : JobRowOK(i, moved.mem[i], TopUp(j))'
  PROVE  IInv'
<1>1. /\ job' \in [Job -> JobState] /\ job'[j] = moved
      /\ \A k \in Job : k # j => job'[k] = job[k]
  BY Zenon DEF IInv, TypeOK
<1>2. TopUp(j) \in Id /\ TopUp(j)' = TopUp(j)
  BY TopUpType, IdsDiffer, Zenon DEF TopUp
<1>3. InBlock(TopUp(j))'
  BY <1>2, Zenon DEF Grows, InBlock
<1>4. (\A i \in Loaded(job[j].mem) : JobRowOK(i, job[j].mem[i], TopUp(j)))'
  BY <1>1, <1>2, Zenon DEF JobRowOK, HashOK, TopUp
<1>5. (job[j].pc \notin {"idle", "check"} /\ job[j].pc \notin {"revert", "revertLinked"})'
  BY <1>1, SMT
<1>6. JobOK(j)'
  BY <1>1, <1>3, <1>4, <1>5, Zenon DEF JobOK
<1> QED
  BY <1>1, <1>6, JobStep, Zenon DEF JobKeeps

\* LoadQueued takes rows that are ready and that wait for this top-up.
LEMMA LoadQueuedInv ==
  ASSUME IInv, NEW j \in Job, LoadQueued(j)
  PROVE  IInv'
<1> DEFINE rows == QueuedTransfersFor(transfers, TopUp(j))
           mem == [i \in TokenId |-> IF i \in rows THEN transfers[i] ELSE NoRow]
           moved == [pc |-> "start", todo |-> rows, mem |-> mem]
<1>1. Grows /\ Tables' /\ NoInsert /\ NodeType' /\ FundedBeforeBroadcast' /\ JobKeeps
  BY JobQuiet, Zenon DEF LoadQueued, JobKeeps
<1>2. job[j].pc \notin {"idle", "check"}
  BY SMT DEF LoadQueued
<1>3. InBlock(TopUp(j))
  BY <1>2, Zenon DEF IInv, JobOK
<1>4. CASE End(j)
  BY <1>1, <1>4, JobEndsInv
<1>5. CASE job' = [job EXCEPT ![j] = moved]
  <2>1. TopUp(j) \in TopUpId /\ TopUp(j) # NULL
    BY TopUpType, IdsDiffer, Zenon
  <2>2. \A i \in rows :
           /\ i \in TokenId /\ transfers[i].topUp = TopUp(j) /\ transfers[i].status = "queued"
           /\ transfers[i] # NoRow
    <3>1. \A t \in TopUpId : transfers[t].topUp = NULL
      BY Zenon DEF IInv, TopUpRowOK
    <3>2. NoRow.topUp = NULL
      BY SMT DEF NoRow
    <3> QED
      BY <2>1, <3>1, <3>2, Zenon DEF QueuedTransfersFor, Id
  <2>3. mem \in Memory /\ Loaded(mem) = rows /\ \A i \in rows : mem[i] = transfers[i]
    <3>1. \A i \in TokenId : transfers[i] \in Row
      BY IdsDiffer, Zenon DEF IInv, TypeOK
    <3> HIDE DEF rows
    <3> QED
      BY <2>2, <3>1, NoRowType, Zenon DEF Memory, Loaded
  <2>4. rows \in SUBSET TokenId
    BY <2>2, Zenon
  <2> HIDE DEF rows, mem
  <2>5. moved \in JobState /\ moved.pc = "start" /\ moved.todo = rows /\ moved.mem = mem
    BY <2>3, <2>4, SMT DEF JobState, JobPc
  <2>6. \A i \in rows : JobRowOK(i, transfers[i], TopUp(j))
    <3> SUFFICES ASSUME NEW i \in rows
                 PROVE  JobRowOK(i, transfers[i], TopUp(j))
      OBVIOUS
    <3>1. TokenRowOK(i) /\ transfers[i].topUp = TopUp(j) /\ transfers[i].status = "queued"
      BY <2>2, Zenon DEF IInv
    <3>2. Taken(i) /\ transfers[i].status \in {"queued", "pending"} /\ transfers[i].status # "pending"
      BY <3>1, SMT DEF Taken
    <3> QED
      BY <2>1, <3>1, <3>2, Zenon DEF TokenRowOK, LinkedTo, JobRowOK
  <2> HIDE DEF moved
  <2>7. PICK next : next = moved
    OBVIOUS
  <2>8. /\ next \in JobState /\ job' = [job EXCEPT ![j] = next]
        /\ next.pc \notin {"idle", "check", "revert", "revertLinked"}
        /\ next.todo \subseteq Loaded(next.mem)
    BY <1>5, <2>3, <2>5, <2>7, SMT
  <2>9. \A i \in Loaded(next.mem) : JobRowOK(i, next.mem[i], TopUp(j))
    BY <2>3, <2>5, <2>6, <2>7, Zenon
  <2>10. \A i \in Loaded(next.mem) : JobRowOK(i, next.mem[i], TopUp(j))'
    BY <1>1, <1>3, <2>9, JobRowFrame, Zenon DEF Loaded
  <2> QED
    BY <1>1, <1>3, <2>8, <2>10, JobMoves
<1> QED
  BY <1>4, <1>5, Zenon DEF LoadQueued

\* The node accepts a row of the goroutine, whose top-up is in a block.
LEMMA BroadcastStep ==
  ASSUME IInv, NEW j \in Job, JobKeeps, UNCHANGED transfers, NEW i \in Loaded(job[j].mem),
         ~Known(i), Accept(i)
  PROVE  /\ Grows /\ Tables' /\ NoInsert /\ NodeType' /\ FundedBeforeBroadcast'
         /\ Known(i)'
<1>1. /\ JobRowOK(i, job[j].mem[i], TopUp(j)) /\ InBlock(TopUp(j)) /\ i \in TokenId /\ i \in Id
  <2>1. JobOK(j) /\ i \in TokenId /\ i \in Id
    BY IdsDiffer, Zenon DEF IInv, Loaded
  <2>2. job[j].pc \notin {"idle", "check"}
    BY <2>1, Zenon DEF JobOK
  <2> QED
    BY <2>1, <2>2, Zenon DEF JobOK
<1>2. /\ Tables /\ UNCHANGED transfers /\ ~InBlock(i) /\ (i \in TokenId => Taken(i))
      /\ chain \in [Id -> {"none", "pooled", "mined", "reverted"}]
      /\ chain' = [chain EXCEPT ![i] = "pooled"]
      /\ "pooled" \in {"pooled", "mined", "reverted"}
      /\ \A t \in TopUpId : Known(t) => paidFor'[t] = paidFor[t]
  <2>1. ~InBlock(i)
    BY SMT DEF InBlock, Known
  <2>2. Taken(i)
    BY <1>1, Zenon DEF JobRowOK
  <2>3. chain \in [Id -> {"none", "pooled", "mined", "reverted"}]
    BY Zenon DEF IInv, TypeOK
  <2> QED
    BY <2>1, <2>2, <2>3, InvTables, SMT DEF JobKeeps, Accept
<1>3. /\ Grows /\ Tables' /\ NoInsert
      /\ chain' \in [Id -> {"none", "pooled", "mined", "reverted"}]
      /\ chain'[i] # "none" /\ \A k \in Id : k # i => chain'[k] = chain[k]
  BY <1>1, <1>2, ChainStep
<1>4. NodeType'
  BY <1>3, Zenon DEF NodeType, IInv, TypeOK, JobKeeps
<1>5. \A k \in TokenId : Known(k)' =>
         Known(k) \/ \E t \in TopUpId : paidFor[t] = k[1] /\ InBlock(t)
  <2>1. TopUp(j) \in TopUpId /\ paidFor[TopUp(j)] = i[1] /\ InBlock(TopUp(j))
    BY <1>1, TopUpType, Zenon DEF JobRowOK
  <2>2. \A k \in TokenId : k # i /\ Known(k)' => Known(k)
    BY <1>3, IdsDiffer, Zenon DEF Known
  <2> QED
    BY <2>1, <2>2, Zenon
<1>6. FundedBeforeBroadcast'
  BY <1>3, <1>5, FundedFrame, Zenon DEF IInv
<1> QED
  BY <1>3, <1>4, <1>6, Zenon DEF Known

\* SendTransfer broadcasts a row in memory and notes its hash, or gives up.
LEMMA SendTransferInv ==
  ASSUME IInv, NEW j \in Job, SendTransfer(j)
  PROVE  IInv'
<1>1. JobKeeps /\ UNCHANGED transfers /\ job[j].pc \notin {"idle", "check"}
  BY SMT DEF SendTransfer, JobKeeps
<1>2. /\ InBlock(TopUp(j)) /\ job[j].todo \in SUBSET Loaded(job[j].mem)
      /\ \A i \in Loaded(job[j].mem) : JobRowOK(i, job[j].mem[i], TopUp(j)) /\ i \in TokenId
  BY <1>1, Zenon DEF IInv, JobOK, Loaded
<1>3. PICK i \in job[j].todo :
        LET tx == job[j].mem[i].raw
        IN \/ /\ Acceptable(tx) /\ Accept(tx)
              /\ job' = [job EXCEPT ![j] =
                    [@ EXCEPT !.pc = IF job[j].todo \ {i} = {} THEN "settle" ELSE "send",
                              !.todo = job[j].todo \ {i},
                              !.mem[i] = [job[j].mem[i] EXCEPT !.status = "pending", !.hash = tx]]]
           \/ Acceptable(tx) /\ Accept(tx) /\ JobTo(j, "fail", {i})
           \/ JobTo(j, "fail", {i}) /\ UNCHANGED chain
  BY Zenon DEF SendTransfer
<1>4. i \in Loaded(job[j].mem) /\ i \in TokenId /\ job[j].mem[i].raw = i
  BY <1>2, Zenon DEF JobRowOK
<1>5. /\ "fail" \in JobPc /\ "fail" \notin {"idle", "check"}
      /\ "fail" \notin {"revert", "revertLinked"} /\ {i} \in SUBSET Loaded(job[j].mem)
  BY <1>4, SMT DEF JobPc
<1>6. CASE JobTo(j, "fail", {i}) /\ UNCHANGED chain
  <2>1. Grows /\ Tables' /\ NoInsert /\ NodeType' /\ FundedBeforeBroadcast'
    BY <1>1, <1>6, JobQuiet, Zenon DEF JobKeeps
  <2> QED
    BY <1>1, <1>2, <1>5, <1>6, <2>1, JobGoesInv, Zenon
<1>7. CASE Acceptable(i) /\ Accept(i)
  <2>1. /\ Grows /\ Tables' /\ NoInsert /\ NodeType' /\ FundedBeforeBroadcast'
        /\ Known(i)'
    BY <1>1, <1>4, <1>7, BroadcastStep, Zenon DEF Acceptable
  <2>2. CASE JobTo(j, "fail", {i})
    BY <1>1, <1>2, <1>5, <2>1, <2>2, JobGoesInv, Zenon
  <2>3. ASSUME NEW pc \in {"settle", "send"},
               job' = [job EXCEPT ![j] =
                  [@ EXCEPT !.pc = pc, !.todo = job[j].todo \ {i},
                            !.mem[i] = [job[j].mem[i] EXCEPT !.status = "pending", !.hash = i]]]
        PROVE  IInv'
    <3>1. PICK old, row, mem, moved :
            /\ old = job[j].mem
            /\ row = [old[i] EXCEPT !.status = "pending", !.hash = i]
            /\ mem = [old EXCEPT ![i] = row]
            /\ moved = [job[j] EXCEPT !.pc = pc, !.todo = job[j].todo \ {i}, !.mem = mem]
      OBVIOUS
    <3>2. job' = [job EXCEPT ![j] = moved]
      <4>1. job' = [job EXCEPT ![j] =
               [job[j] EXCEPT !.pc = pc, !.todo = job[j].todo \ {i},
                  !.mem = [job[j].mem EXCEPT ![i] =
                     [job[j].mem[i] EXCEPT !.status = "pending", !.hash = i]]]]
        BY <2>3, Zenon
      <4> QED
        BY <3>1, <4>1, Zenon
    <3>3. old \in Memory /\ old[i] \in Row /\ job[j] \in JobState
      BY <1>4, <3>1, Zenon DEF IInv, TypeOK, JobState, Memory
    <3>4. i \in Reference /\ "pending" \in Status
      BY <1>4, IdsDiffer, SMT DEF Reference, Status
    <3>5. /\ row \in Row /\ row.status = "pending" /\ row.hash = i
          /\ row.raw = old[i].raw /\ row.topUp = old[i].topUp
      BY <3>1, <3>3, <3>4, Zenon DEF Row
    <3>6. /\ mem \in Memory /\ Loaded(mem) \subseteq Loaded(old) \cup {i}
          /\ mem[i] = row /\ \A k \in TokenId : k # i => mem[k] = old[k]
      BY <1>4, <3>1, <3>3, <3>5, MemoryWith
    <3>7. /\ moved \in JobState /\ moved.pc = pc /\ moved.todo = job[j].todo \ {i}
          /\ moved.mem = mem
      <4>1. pc \in JobPc /\ job[j].todo \ {i} \in SUBSET TokenId
        BY <1>2, SMT DEF JobPc, Loaded
      <4> QED
        BY <3>1, <3>3, <3>6, <4>1, Zenon DEF JobState
    <3>8. moved.pc \notin {"idle", "check", "revert", "revertLinked"}
      BY <3>7, SMT
    <3>9. moved.todo \subseteq Loaded(moved.mem)
      <4> SUFFICES ASSUME NEW k \in job[j].todo, k # i
                   PROVE  k \in Loaded(mem)
        BY <3>7, Zenon
      <4>1. k \in Loaded(old) /\ k \in TokenId
        BY <1>2, <3>1, Zenon DEF Loaded
      <4> QED
        BY <3>6, <4>1, Zenon DEF Loaded
    <3>10. \A k \in Loaded(old) : JobRowOK(k, old[k], TopUp(j))'
      BY <1>2, <2>1, <3>1, JobRowFrame, Zenon DEF Loaded
    <3>11. JobRowOK(i, row, TopUp(j))'
      <4>1. JobRowOK(i, old[i], TopUp(j))'
        BY <1>4, <3>1, <3>10, Zenon
      <4>2. HashOK(i, row)' /\ row.status \in {"queued", "pending"}
        BY <2>1, <3>5, SMT DEF HashOK, Known
      <4> QED
        BY <3>5, <4>1, <4>2, Zenon DEF JobRowOK
    <3>12. \A k \in Loaded(mem) : JobRowOK(k, mem[k], TopUp(j))'
      BY <3>6, <3>10, <3>11, Zenon DEF Loaded
    <3>13. \A k \in Loaded(moved.mem) : JobRowOK(k, moved.mem[k], TopUp(j))'
      BY <3>7, <3>12, Zenon
    <3> QED
      BY <1>1, <1>2, <2>1, <3>2, <3>7, <3>8, <3>9, <3>13, JobMoves
  <2>4. \/ JobTo(j, "fail", {i})
        \/ \E pc \in {"settle", "send"} :
              job' = [job EXCEPT ![j] =
                  [@ EXCEPT !.pc = pc, !.todo = job[j].todo \ {i},
                            !.mem[i] = [job[j].mem[i] EXCEPT !.status = "pending", !.hash = i]]]
    BY <1>3, <1>4, Zenon
  <2> QED
    BY <2>2, <2>3, <2>4, Zenon
<1> QED
  BY <1>3, <1>4, <1>6, <1>7, Zenon

-----------------------------------------------------------------------------
(* CreateTransfer, the environment and the goroutines that complete a transfer *)

\* A draft that goes on has inserted nothing yet.
LEMMA DraftFrame ==
  ASSUME IInv, NoInsert,
         \A p \in Pair : draft'[p].pc # "done" => draft[p].pc # "done"
  PROVE  \A p \in Pair : DraftOK(p)'
<1> SUFFICES ASSUME NEW p \in Pair
             PROVE  DraftOK(p)'
  OBVIOUS
<1>1. Legs(p) \subseteq TokenId /\ DraftOK(p)
  BY SMT DEF Legs, TokenId, IInv
<1> QED
  BY <1>1, Zenon DEF DraftOK, NoInsert

\* The invariant holds after a step that moves no call and no goroutine.
LEMMA OtherStep ==
  ASSUME IInv, Grows, Tables', NodeType', FundedBeforeBroadcast', UNCHANGED <<call, job>>,
         foreign' \in [User -> SUBSET Nonce], draft' \in [Pair -> DraftState],
         watch' \subseteq TokenId, seen' \subseteq TokenId,
         \A p \in Pair : DraftOK(p)'
  PROVE  IInv'
<1>1. TypeOK'
  BY IdsDiffer, Zenon DEF IInv, TypeOK, Tables, NodeType
<1>2. \A c \in ConfirmCall : CallOK(c)'
  BY CallFrame, Zenon DEF IInv
<1>3. \A j \in Job : JobOK(j)'
  BY JobFrame, Zenon DEF IInv
<1> QED
  BY <1>1, <1>2, <1>3, Zenon DEF IInv, Tables

\* The rest of the state has its type.
LEMMA OtherType ==
  ASSUME IInv
  PROVE  /\ foreign \in [User -> SUBSET Nonce] /\ draft \in [Pair -> DraftState]
         /\ watch \subseteq TokenId /\ seen \subseteq TokenId
  BY Zenon DEF IInv, TypeOK

\* A transaction enters a block; it was taken, for the node had it.
LEMMA MineInv ==
  ASSUME IInv, NEW k \in Id, Mine(k)
  PROVE  IInv'
<1>1. /\ chain \in [Id -> {"none", "pooled", "mined", "reverted"}] /\ chain[k] = "pooled"
      /\ UNCHANGED <<transfers, paidFor, foreign, draft, call, job, watch, seen>>
  BY Zenon DEF IInv, TypeOK, Mine
<1>2. PICK v \in {"pooled", "mined", "reverted"} : chain' = [chain EXCEPT ![k] = v]
  <2>1. PICK v \in {"mined"} \cup {r \in {"reverted"} : "revert" \in Faults} :
            chain' = [chain EXCEPT ![k] = v]
    BY Zenon DEF Mine
  <2> QED
    BY <2>1, Zenon
<1>3. ~InBlock(k) /\ (k \in TokenId => Taken(k))
  <2>1. k \in TokenId => TokenRowOK(k)
    BY Zenon DEF IInv
  <2> QED
    BY <1>1, <2>1, SMT DEF InBlock, TokenRowOK, Known
<1>4. \A t \in TopUpId : Known(t) => paidFor'[t] = paidFor[t]
  BY <1>1, Zenon
<1>5. /\ Grows /\ Tables' /\ NoInsert
      /\ chain' \in [Id -> {"none", "pooled", "mined", "reverted"}]
      /\ \A i \in Id : i # k => chain'[i] = chain[i]
  BY <1>1, <1>2, <1>3, <1>4, InvTables, ChainStep
<1>6. NodeType'
  BY <1>1, <1>5, Zenon DEF NodeType, IInv, TypeOK
<1>7. \A i \in TokenId : Known(i)' => Known(i)
  BY <1>1, <1>5, IdsDiffer, SMT DEF Known
<1>8. FundedBeforeBroadcast'
  BY <1>5, <1>7, FundedFrame, Zenon DEF IInv
<1>9. \A p \in Pair : DraftOK(p)'
  BY <1>1, <1>5, DraftFrame, Zenon
<1> QED
  BY <1>1, <1>5, <1>6, <1>8, <1>9, OtherType, OtherStep, Zenon

\* A transaction sent without the service only takes a nonce.
LEMMA ForeignTransactionInv ==
  ASSUME IInv, NEW u \in User, ForeignTransaction(u)
  PROVE  IInv'
<1>1. UNCHANGED <<transfers, chain, paidFor, draft, call, job, watch, seen>>
  BY Zenon DEF ForeignTransaction
<1>2. foreign' \in [User -> SUBSET Nonce]
  <2>1. PICK n \in Nonce : foreign' = [foreign EXCEPT ![u] = @ \cup {n}]
    BY Zenon DEF ForeignTransaction
  <2>2. foreign \in [User -> SUBSET Nonce]
    BY OtherType
  <2>3. foreign[u] \cup {n} \in SUBSET Nonce
    BY <2>2, Zenon
  <2> QED
    BY <2>1, <2>2, <2>3, Zenon
<1>3. Grows /\ Tables' /\ NoInsert /\ NodeType' /\ FundedBeforeBroadcast'
  BY <1>1, JobQuiet, Zenon
<1>4. \A p \in Pair : DraftOK(p)'
  BY <1>1, <1>3, DraftFrame, Zenon
<1> QED
  BY <1>1, <1>2, <1>3, <1>4, OtherType, OtherStep, Zenon

\* A stuttering step changes nothing.
LEMMA StutterInv ==
  ASSUME IInv, UNCHANGED vars
  PROVE  IInv'
<1>1. UNCHANGED <<transfers, chain, paidFor, foreign, draft, call, job, watch, seen>>
  BY Zenon DEF vars
<1>2. Grows /\ Tables' /\ NoInsert /\ NodeType' /\ FundedBeforeBroadcast'
  BY <1>1, JobQuiet, Zenon
<1>3. \A p \in Pair : DraftOK(p)'
  BY <1>1, <1>2, DraftFrame, Zenon
<1> QED
  BY <1>1, <1>2, <1>3, OtherType, OtherStep, Zenon

\* After a restart no handler and no goroutine holds anything.
LEMMA RestartInv ==
  ASSUME IInv, Restart
  PROVE  IInv'
<1>1. /\ UNCHANGED <<transfers, chain, paidFor, foreign>>
      /\ watch' = {} /\ seen' \subseteq TokenId
  BY OtherType, Zenon DEF Restart
<1>2. Grows /\ Tables' /\ NoInsert /\ NodeType' /\ FundedBeforeBroadcast'
  BY <1>1, JobQuiet, Zenon
<1>3. draft' \in [Pair -> DraftState] /\ \A p \in Pair : draft'[p].pc # "done" => draft[p].pc # "done"
  <2>1. ASSUME NEW p \in Pair
        PROVE  /\ [draft[p] EXCEPT !.pc = "done"] \in DraftState
               /\ [draft[p] EXCEPT !.pc = "done"].pc = "done" /\ draft[p] \in DraftState
    BY OtherType, SMT DEF DraftState
  <2>2. draft' = [p \in Pair |->
          IF draft[p].pc = "idle" THEN draft[p] ELSE [draft[p] EXCEPT !.pc = "done"]]
    BY Zenon DEF Restart
  <2> QED
    BY <2>1, <2>2, SMT
<1>4. \A p \in Pair : DraftOK(p)'
  BY <1>2, <1>3, DraftFrame, Zenon
<1>5. /\ call' \in [ConfirmCall -> CallState]
      /\ \A c \in ConfirmCall :
            \/ call'[c] = call[c]
            \/ call'[c].pc = "done" /\ call'[c].todo = {} /\ call'[c].mem = Nothing
  <2> DEFINE gone == [IdleCall EXCEPT !.pc = "done"]
  <2>1. "done" \in CallPc
    BY DEF CallPc
  <2>2. gone \in CallState
    BY <2>1, IdleCallType, Zenon DEF CallState
  <2>3. gone.pc = "done" /\ gone.todo = {} /\ gone.mem = Nothing
    BY SMT DEF IdleCall
  <2>4. call' = [c \in ConfirmCall |-> IF call[c].pc = "idle" THEN call[c] ELSE gone]
    BY Zenon DEF Restart
  <2>5. call \in [ConfirmCall -> CallState]
    BY Zenon DEF IInv, TypeOK
  <2> HIDE DEF gone
  <2> QED
    BY <2>2, <2>3, <2>4, <2>5, Zenon
<1>6. ASSUME NEW c \in ConfirmCall
      PROVE  CallOK(c)'
  <2>1. CASE call'[c] = call[c]
    BY <1>2, <2>1, CallFrame, Zenon DEF IInv
  <2>2. CASE call'[c].pc = "done" /\ call'[c].todo = {} /\ call'[c].mem = Nothing
    <3>1. (call[c].pc \notin {"load", "record", "save"})'
      BY <2>2, SMT
    <3>2. Loaded(call[c].mem)' = {}
      BY <2>2, NothingLoaded, Zenon
    <3> QED
      BY <2>2, <3>1, <3>2, Zenon DEF CallOK
  <2> QED
    BY <1>5, <2>1, <2>2
<1>7. /\ job' \in [Job -> JobState] /\ \A j \in Job : job'[j] = IdleJob
  BY IdleJobType, Zenon DEF Restart
<1>8. ASSUME NEW j \in Job
      PROVE  JobOK(j)'
  <2>1. IdleJob.pc = "idle" /\ IdleJob.todo = {} /\ IdleJob.mem = Nothing
    BY SMT DEF IdleJob
  <2>2. Loaded(job[j].mem)' = {}
    BY <1>7, <2>1, NothingLoaded, Zenon
  <2>3. (job[j].pc \notin {"revert", "revertLinked"})'
    BY <1>7, <2>1, SMT
  <2> QED
    BY <1>7, <2>1, <2>2, <2>3, Zenon DEF JobOK
<1>9. TypeOK'
  BY <1>1, <1>2, <1>3, <1>5, <1>7, OtherType, Zenon DEF TypeOK, Tables, NodeType
<1> QED
  BY <1>1, <1>2, <1>4, <1>6, <1>8, <1>9, Zenon DEF IInv, Tables

\* The rows a mined token transaction completes are its own.
LEMMA CompleteByHash ==
  ASSUME IInv, UNCHANGED <<chain, paidFor>>, NEW hash \in TokenId, InBlock(hash),
         transfers' = CompleteTransfer(transfers, NULL, hash)
  PROVE  Grows /\ Tables' /\ NoInsert /\ NodeType' /\ FundedBeforeBroadcast'
<1> DEFINE S == {i \in Id : i = NULL \/ (hash # NULL /\ transfers[i].hash = hash)}
<1>1. hash \in Id /\ hash # NULL /\ hash \notin TopUpId /\ NULL \notin Id
  BY StoreAssumption, IdsDiffer, Zenon
<1>2. S \cap TopUpId = {}
  <2>1. \A t \in TopUpId : transfers[t].hash = NULL \/ transfers[t].hash = t
    BY SMT DEF IInv, TopUpRowOK
  <2> QED
    BY <1>1, <2>1, Zenon
<1>3. \A i \in S \cap TokenId : InBlock(i) /\ transfers[i].hash = i
  <2>1. \A i \in TokenId : transfers[i].hash = NULL \/ transfers[i].hash = i
    BY Zenon DEF IInv, TokenRowOK, HashOK
  <2> QED
    BY <1>1, <2>1, Zenon
<1>4. transfers' = SetStatus(transfers, S, "completed")
  BY Zenon DEF CompleteTransfer
<1> HIDE DEF S
<1>5. "completed" \in {"confirming", "processing", "completed", "failed"}
  OBVIOUS
<1>6. Grows /\ Tables' /\ NoInsert
  BY <1>2, <1>3, <1>4, <1>5, InvTables, StatusStep
<1> QED
  BY <1>6, SameChain

\* A Transfer event completes the row of its transaction.
LEMMA ListenerSeesEventInv ==
  ASSUME IInv, NEW i \in TokenId, ListenerSeesEvent(i)
  PROVE  IInv'
<1>1. /\ UNCHANGED <<chain, paidFor, foreign, draft, call, job, watch>>
      /\ seen' \subseteq TokenId /\ InBlock(i)
      /\ transfers' = CompleteTransfer(transfers, NULL, i) \/ UNCHANGED transfers
  BY OtherType, SMT DEF ListenerSeesEvent, InBlock
<1>2. Grows /\ Tables' /\ NoInsert /\ NodeType' /\ FundedBeforeBroadcast'
  <2>1. CASE UNCHANGED transfers
    BY <1>1, <2>1, JobQuiet, Zenon
  <2>2. CASE transfers' = CompleteTransfer(transfers, NULL, i)
    BY <1>1, <2>2, CompleteByHash
  <2> QED
    BY <1>1, <2>1, <2>2
<1>3. \A p \in Pair : DraftOK(p)'
  BY <1>1, <1>2, DraftFrame, Zenon
<1> QED
  BY <1>1, <1>2, <1>3, OtherType, OtherStep, Zenon

\* Only hashes of token rows are watched.
LEMMA WatchPendingInv ==
  ASSUME IInv, NEW i \in TokenId, WatchPending(i)
  PROVE  IInv'
<1>1. UNCHANGED <<transfers, chain, paidFor, foreign, draft, call, job, seen>>
  BY Zenon DEF WatchPending
<1>2. watch' \subseteq TokenId
  <2>1. transfers[i].status = "pending" /\ TokenRowOK(i)
    BY Zenon DEF WatchPending, PendingTransfers, IInv
  <2>2. transfers[i].hash = i
    BY <2>1, SMT DEF TokenRowOK
  <2> QED
    BY <2>2, OtherType, Zenon DEF WatchPending
<1>3. Grows /\ Tables' /\ NoInsert /\ NodeType' /\ FundedBeforeBroadcast'
  BY <1>1, JobQuiet, Zenon
<1>4. \A p \in Pair : DraftOK(p)'
  BY <1>1, <1>3, DraftFrame, Zenon
<1> QED
  BY <1>1, <1>2, <1>3, <1>4, OtherType, OtherStep, Zenon

\* A watched transaction is completed when it is in a block.
LEMMA CheckPendingInv ==
  ASSUME IInv, NEW hash \in watch, CheckPending(hash)
  PROVE  IInv'
<1>1. /\ UNCHANGED <<chain, paidFor, foreign, draft, call, job, seen>>
      /\ watch' \subseteq TokenId /\ hash \in TokenId
      /\ \/ InBlock(hash) /\ transfers' = CompleteTransfer(transfers, NULL, hash)
         \/ UNCHANGED transfers
  BY OtherType, Zenon DEF CheckPending
<1>2. Grows /\ Tables' /\ NoInsert /\ NodeType' /\ FundedBeforeBroadcast'
  <2>1. CASE UNCHANGED transfers
    BY <1>1, <2>1, JobQuiet, Zenon
  <2>2. CASE InBlock(hash) /\ transfers' = CompleteTransfer(transfers, NULL, hash)
    BY <1>1, <2>2, CompleteByHash
  <2> QED
    BY <1>1, <2>1, <2>2
<1>3. \A p \in Pair : DraftOK(p)'
  BY <1>1, <1>2, DraftFrame, Zenon
<1> QED
  BY <1>1, <1>2, <1>3, OtherType, OtherStep, Zenon

\* A draft that moves without a statement, or with the soft deletion.
LEMMA DraftStep ==
  ASSUME IInv, UNCHANGED <<chain, paidFor, foreign, call, job, watch, seen>>,
         Grows, Tables', NoInsert, NEW p \in Pair, draft[p].pc # "done",
         NEW moved \in DraftState, draft' = [draft EXCEPT ![p] = moved]
  PROVE  IInv'
<1>1. /\ draft' \in [Pair -> DraftState]
      /\ \A q \in Pair : draft'[q].pc # "done" => draft[q].pc # "done"
  <2>1. /\ draft' \in [Pair -> DraftState] /\ \A q \in Pair : q # p => draft'[q] = draft[q]
    BY OtherType, Zenon
  <2> QED
    BY <2>1, Zenon
<1>2. \A q \in Pair : DraftOK(q)'
  BY <1>1, DraftFrame
<1>3. NodeType' /\ FundedBeforeBroadcast'
  BY SameChain, Zenon
<1> QED
  BY <1>1, <1>2, <1>3, OtherType, OtherStep, Zenon

\* What SetDraft changes.
LEMMA SetDraftEffect ==
  ASSUME IInv, NEW p \in Pair, NEW pc \in {"idle", "cleared", "nonce", "done"}, SetDraft(p, pc)
  PROVE  \E moved \in DraftState : moved.pc = pc /\ draft' = [draft EXCEPT ![p] = moved]
<1>1. [draft[p] EXCEPT !.pc = pc] \in DraftState /\ [draft[p] EXCEPT !.pc = pc].pc = pc
  BY OtherType, Zenon DEF DraftState
<1> QED
  BY <1>1, Zenon DEF SetDraft

\* The steps of CreateTransfer that insert nothing.
LEMMA DraftInv ==
  ASSUME IInv, NEW p \in Pair,
         ClearUnsigned(p) \/ ReadUserNonce(p) \/ AbortCreateTransfer(p)
  PROVE  IInv'
<1>1. CASE ClearUnsigned(p)
  <2>1. /\ UNCHANGED <<chain, paidFor, foreign, call, job, watch, seen>> /\ draft[p].pc # "done"
        /\ transfers' = ClearUnsignedTransfers(transfers, Owner[p]) /\ SetDraft(p, "cleared")
    BY <1>1, SMT DEF ClearUnsigned
  <2>2. Grows /\ Tables' /\ NoInsert
    BY <2>1, InvTables, ClearStep
  <2>3. PICK moved \in DraftState : draft' = [draft EXCEPT ![p] = moved]
    BY <2>1, SetDraftEffect, Zenon
  <2> QED
    BY <2>1, <2>2, <2>3, DraftStep
<1>2. CASE ReadUserNonce(p)
  <2>1. /\ UNCHANGED <<transfers, chain, paidFor, foreign, call, job, watch, seen>>
        /\ draft[p].pc # "done"
    BY <1>2, SMT DEF ReadUserNonce
  <2>2. Grows /\ Tables' /\ NoInsert
    BY <2>1, JobQuiet, Zenon
  <2>3. PICK n \in Nonce : draft' = [draft EXCEPT ![p] = [pc |-> "nonce", nonce |-> n]]
    BY <1>2, Zenon DEF ReadUserNonce
  <2>4. [pc |-> "nonce", nonce |-> n] \in DraftState
    BY SMT DEF DraftState
  <2> QED
    BY <2>1, <2>2, <2>3, <2>4, DraftStep
<1>3. CASE AbortCreateTransfer(p)
  <2>1. /\ UNCHANGED <<transfers, chain, paidFor, foreign, call, job, watch, seen>>
        /\ draft[p].pc # "done" /\ SetDraft(p, "done")
    BY <1>3, SMT DEF AbortCreateTransfer
  <2>2. Grows /\ Tables' /\ NoInsert
    BY <2>1, JobQuiet, Zenon
  <2>3. PICK moved \in DraftState : draft' = [draft EXCEPT ![p] = moved]
    BY <2>1, SetDraftEffect, Zenon
  <2> QED
    BY <2>1, <2>2, <2>3, DraftStep
<1> QED
  BY <1>1, <1>2, <1>3

\* InsertTransfers inserts the rows of a pair that has none, and ends its draft.
LEMMA InsertTransfersInv ==
  ASSUME IInv, NEW p \in Pair, InsertTransfers(p)
  PROVE  IInv'
<1>1. /\ UNCHANGED <<chain, paidFor, foreign, call, job, watch, seen>>
      /\ draft[p].pc # "done" /\ SetDraft(p, "done")
      /\ transfers' = CreateTransfers(transfers, p, draft[p].nonce)
  BY SMT DEF InsertTransfers
<1>2. draft[p].nonce \in Nat
  <2>1. draft[p].nonce \in Nonce
    BY OtherType, Zenon DEF DraftState
  <2> QED
    BY <2>1, SMT DEF Nonce
<1>3. \A i \in Legs(p) : transfers[i].status = "absent"
  BY <1>1, Zenon DEF IInv, DraftOK
<1>4. /\ Grows /\ Tables'
      /\ \A i \in TokenId : i \notin Legs(p) => transfers'[i] = transfers[i]
  BY <1>1, <1>2, <1>3, InvTables, InsertStep
<1>5. PICK moved \in DraftState : moved.pc = "done" /\ draft' = [draft EXCEPT ![p] = moved]
  BY <1>1, SetDraftEffect
<1>6. /\ draft' \in [Pair -> DraftState] /\ draft'[p].pc = "done"
      /\ \A q \in Pair : q # p => draft'[q] = draft[q]
  BY <1>5, OtherType, Zenon
<1>7. ASSUME NEW q \in Pair
      PROVE  DraftOK(q)'
  <2>1. CASE q = p
    BY <1>6, <2>1, Zenon DEF DraftOK
  <2>2. CASE q # p
    <3>1. \A i \in Legs(q) : i \in TokenId /\ i \notin Legs(p)
      BY <2>2, SMT DEF Legs, TokenId
    <3>2. DraftOK(q)
      BY Zenon DEF IInv
    <3> QED
      BY <1>4, <1>6, <2>2, <3>1, <3>2, Zenon DEF DraftOK
  <2> QED
    BY <2>1, <2>2
<1>8. NodeType' /\ FundedBeforeBroadcast'
  BY <1>1, <1>4, SameChain, Zenon
<1> QED
  BY <1>1, <1>4, <1>6, <1>7, <1>8, OtherType, OtherStep, Zenon

-----------------------------------------------------------------------------
(* The invariant and what follows from it *)

\* Nothing is in the table and nothing is under way at the start.
LEMMA InitInv == Init => IInv
<1> SUFFICES ASSUME Init
             PROVE  IInv
  OBVIOUS
<1> USE DEF Init
<1>1. TypeOK
  <2>1. transfers \in [Id -> Row] /\ call \in [ConfirmCall -> CallState] /\ job \in [Job -> JobState]
    BY NoRowType, IdleCallType, IdleJobType, Zenon
  <2>2. chain \in [Id -> {"none", "pooled", "mined", "reverted"}]
    BY Zenon
  <2>3. paidFor \in [TopUpId -> Pair \cup {NULL}] /\ foreign \in [User -> SUBSET Nonce]
    BY Zenon
  <2>4. draft \in [Pair -> DraftState]
    BY ServiceAssumption, SMT DEF DraftState, Nonce
  <2> QED
    BY <2>1, <2>2, <2>3, <2>4, Zenon DEF TypeOK
<1>2. /\ NoRow.status = "absent" /\ NoRow.hash = NULL /\ NoRow.raw = NULL
      /\ NoRow.topUp = NULL /\ ~NoRow.deleted
  BY SMT DEF NoRow
<1>3. \A i \in Id : ~Known(i) /\ transfers[i] = NoRow
  BY SMT DEF Known
<1>4. \A i \in TokenId : TokenRowOK(i)
  <2> SUFFICES ASSUME NEW i \in TokenId
               PROVE  TokenRowOK(i)
    OBVIOUS
  <2>1. ~Known(i) /\ transfers[i] = NoRow
    BY <1>3, IdsDiffer
  <2> QED
    BY <1>2, <2>1, SMT DEF TokenRowOK, Taken, HashOK
<1>5. \A t \in TopUpId : TopUpRowOK(t)
  BY <1>2, <1>3, IdsDiffer, SMT DEF TopUpRowOK
<1>6. FundedBeforeBroadcast
  BY <1>3, IdsDiffer, Zenon DEF FundedBeforeBroadcast
<1>7. \A p \in Pair : DraftOK(p)
  <2>1. \A p \in Pair : Legs(p) \subseteq Id
    BY SMT DEF Legs, TokenId, Id
  <2> QED
    BY <1>2, <1>3, <2>1, Zenon DEF DraftOK
<1>8. \A c \in ConfirmCall : CallOK(c)
  <2>1. IdleCall.pc = "idle" /\ IdleCall.todo = {} /\ IdleCall.mem = Nothing
    BY SMT DEF IdleCall
  <2>2. \A c \in ConfirmCall : call[c] = IdleCall
    BY Zenon
  <2> QED
    BY <2>1, <2>2, NothingLoaded, SMT DEF CallOK
<1>9. \A j \in Job : JobOK(j)
  <2>1. IdleJob.pc = "idle" /\ IdleJob.todo = {} /\ IdleJob.mem = Nothing
    BY SMT DEF IdleJob
  <2>2. \A j \in Job : job[j] = IdleJob
    BY Zenon
  <2> QED
    BY <2>1, <2>2, NothingLoaded, SMT DEF JobOK
<1> QED
  BY <1>1, <1>4, <1>5, <1>6, <1>7, <1>8, <1>9, Zenon DEF IInv

\* No step of the service, of its node or of its users breaks the invariant.
LEMMA NextInv == IInv /\ [Next]_vars => IInv'
<1> SUFFICES ASSUME IInv, [Next]_vars
             PROVE  IInv'
  OBVIOUS
<1>1. CASE Environment
  BY <1>1, MineInv, ForeignTransactionInv, RestartInv, Zenon DEF Environment
<1>2. ASSUME NEW p \in Pair, CreateTransfer(p)
      PROVE  IInv'
  BY <1>2, DraftInv, InsertTransfersInv, Zenon DEF CreateTransfer
<1>3. ASSUME NEW c \in ConfirmCall, ConfirmTransfer(c)
      PROVE  IInv'
  BY <1>3, StartConfirmInv, ValidateInv, RejectTransferInv, MarkConfirmingInv,
     LoadTransferInv, ReadBankNonceInv, SendTopUpInv, RecordTopUpInv, SaveQueuedInv,
     Zenon DEF ConfirmTransfer
<1>4. ASSUME NEW j \in Job, EndTopUp(j)
      PROVE  IInv'
  <2>1. CASE CompleteTransfers(j)
    BY <2>1, LoadQueuedInv, StartProcessingInv, CheckBalanceInv, FailTransfersInv,
       SendTransferInv, CompleteTopUpInv, SavePendingInv, Zenon DEF CompleteTransfers
  <2>2. CASE FailEthTransfer(j)
    BY <2>2, FailTopUpInv, FailLinkedInv, Zenon DEF FailEthTransfer
  <2> QED
    BY <1>4, <2>1, <2>2, ListenerFindsInv, ListenerReadsReceiptInv, MonitorFindsInv,
       MonitorChecksInv, Zenon DEF EndTopUp
<1>5. CASE \E i \in TokenId : ListenerSeesEvent(i)
  BY <1>5, ListenerSeesEventInv, Zenon
<1>6. CASE MonitorEvents
  BY <1>6, WatchPendingInv, CheckPendingInv, Zenon DEF MonitorEvents
<1>7. CASE UNCHANGED vars
  BY <1>7, StutterInv
<1> QED
  BY <1>1, <1>2, <1>3, <1>4, <1>5, <1>6, <1>7, Zenon DEF Next

\* What the table, the memory of handlers and goroutines and the node know of
\* one another is always consistent.
THEOREM Invariance == Spec => []IInv
  BY InitInv, NextInv, PTL DEF Spec

\* Every value the program stores is of the kind its column or field is for.
THEOREM TypeCorrect == Spec => []TypeOK
<1>1. IInv => TypeOK
  BY Zenon DEF IInv
<1> QED
  BY <1>1, Invariance, PTL

\* CompleteTransfers broadcasts a row only when a top-up sent for its pair is in
\* a block.
THEOREM Funded == Spec => []FundedBeforeBroadcast
<1>1. IInv => FundedBeforeBroadcast
  BY Zenon DEF IInv
<1> QED
  BY <1>1, Invariance, PTL

\* ClearUnsignedTransfers never deletes a row whose transaction is broadcast,
\* before or after.
THEOREM ClearedIsSafe == Spec => []ClearedNeverBroadcast
<1>1. IInv => ClearedNeverBroadcast
  <2> SUFFICES ASSUME IInv, NEW i \in TokenId, transfers[i].deleted
               PROVE  ~Known(i)
    BY Zenon DEF ClearedNeverBroadcast
  <2>1. TokenRowOK(i)
    BY Zenon DEF IInv
  <2>2. ~Taken(i)
    BY <2>1, Zenon DEF TokenRowOK, Taken
  <2> QED
    BY <2>1, <2>2, Zenon DEF TokenRowOK
<1> QED
  BY <1>1, Invariance, PTL

\* A row that GetQueuedTransfersFor returns has its raw transaction and a
\* recorded top-up that was paid for its pair.
THEOREM QueuedCanBeSent == Spec => []QueuedIsReady
<1>1. IInv => QueuedIsReady
  <2> SUFFICES ASSUME IInv, NEW i \in TokenId, transfers[i].status = "queued"
               PROVE  /\ transfers[i].raw = i
                      /\ \E t \in TopUpId : /\ transfers[i].topUp = t /\ paidFor[t] = i[1]
                                            /\ transfers[t].status # "absent"
    BY Zenon DEF QueuedIsReady
  <2>1. TokenRowOK(i)
    BY Zenon DEF IInv
  <2> QED
    BY <2>1, Zenon DEF TokenRowOK, LinkedTo
<1> QED
  BY <1>1, Invariance, PTL

\* A row that CompleteTransfers saved as pending has the hash of a transaction
\* that the node knows.
THEOREM PendingCanBeWatched == Spec => []PendingIsBroadcast
<1>1. IInv => PendingIsBroadcast
  <2> SUFFICES ASSUME IInv, NEW i \in TokenId, transfers[i].status \in {"pending", "completed"}
               PROVE  transfers[i].hash = i /\ Known(i)
    BY Zenon DEF PendingIsBroadcast
  <2>1. TokenRowOK(i) /\ i # NULL
    BY IdsDiffer, Zenon DEF IInv
  <2> QED
    BY <2>1, Zenon DEF TokenRowOK, HashOK
<1> QED
  BY <1>1, Invariance, PTL

\* Neither the event listener nor monitorEvents completes a row too early.
THEOREM CompletionIsSound == Spec => []CompletedIsInBlock
<1>1. IInv => CompletedIsInBlock
  BY Zenon DEF IInv, TokenRowOK, CompletedIsInBlock
<1> QED
  BY <1>1, Invariance, PTL

\* The listener and the monitor act on a top-up only once it is in a block, and
\* fail it only when it was reverted.
THEOREM TopUpIsSettled == Spec => []TopUpSettledInBlock
<1>1. IInv => TopUpSettledInBlock
  BY Zenon DEF IInv, TopUpRowOK, TopUpSettledInBlock
<1> QED
  BY <1>1, Invariance, PTL

=============================================================================
