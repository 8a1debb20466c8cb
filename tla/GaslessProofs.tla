---------------------------- MODULE GaslessProofs ----------------------------
(***************************************************************************)
(* TransferService implements GaslessTransfer, for any number of users,    *)
(* pairs, calls and top-ups and under every combination of the faults.     *)
(***************************************************************************)
EXTENDS TransferServiceProofs

\* Before it pays, a confirmation has loaded every row of its pair.
CallWhole(c) ==
    /\ call[c].pc \in {"mark", "load", "fund", "send"} =>
          Legs(c[1]) \subseteq call[c].todo \cup Loaded(call[c].mem)
    /\ call[c].pc \in {"fund", "send"} => call[c].todo = {}

\* "processing" is for top-ups only.
NotProcessing == \A i \in TokenId : transfers[i].status # "processing"

GaslessInv ==
    /\ IInv
    /\ NotProcessing
    /\ \A c \in ConfirmCall : CallWhole(c)

-----------------------------------------------------------------------------
(* What a statement may write into the rows of a pair that are there already. *)

Written == {"confirming", "queued", "pending", "completed", "failed"}

Writes ==
    /\ \A i \in TokenId :
          /\ transfers[i].status = "absent" <=> transfers'[i].status = "absent"
          /\ Taken(i) => Taken(i)'
          /\ transfers[i].deleted => transfers'[i].deleted
          /\ transfers'[i].status = transfers[i].status \/ transfers'[i].status \in Written
    /\ UNCHANGED <<chain, paidFor>>

\* The statements that set a status.
LEMMA WritesStatus ==
  ASSUME TypeOK, UNCHANGED <<chain, paidFor>>, NEW S, NEW status,
         transfers' = SetStatus(transfers, S, status),
         status \in Written \/ S \cap TokenId = {}
  PROVE  Writes
<1>1. \A i \in TokenId :
         \/ transfers'[i] = transfers[i]
         \/ /\ status \in Written /\ transfers[i].status # "absent"
            /\ transfers'[i].status = status /\ transfers'[i].deleted = transfers[i].deleted
  BY IdsDiffer, SMT DEF SetStatus, Live, TypeOK, Row
<1>2. \A v \in Written : v # "absent" /\ v # "new"
  BY SMT DEF Written
<1> QED
  BY <1>1, <1>2, Zenon DEF Writes, Taken

\* A statement that fails writes nothing.
LEMMA WritesNothing ==
  ASSUME UNCHANGED <<transfers, chain, paidFor>>
  PROVE  Writes
  BY Zenon DEF Writes, Taken

\* The soft deletion changes no status.
LEMMA WritesDeletion ==
  ASSUME TypeOK, UNCHANGED <<chain, paidFor>>, NEW u,
         transfers' = ClearUnsignedTransfers(transfers, u)
  PROVE  Writes
<1>1. \A i \in TokenId :
         /\ transfers'[i].status = transfers[i].status
         /\ transfers[i].deleted => transfers'[i].deleted
  BY IdsDiffer, SMT DEF ClearUnsignedTransfers, TypeOK, Row
<1> QED
  BY <1>1, Zenon DEF Writes, Taken

\* Rows from memory are queued or pending.
LEMMA WritesMemory ==
  ASSUME TypeOK, UNCHANGED <<chain, paidFor>>, NEW mem \in Memory,
         transfers' = UpdateTransfers(transfers, mem),
         \A i \in Loaded(mem) : mem[i].status \in {"queued", "pending"}
  PROVE  Writes
<1>1. \A i \in TokenId :
         \/ transfers'[i] = transfers[i]
         \/ /\ i \in Loaded(mem) /\ transfers[i].status # "absent"
            /\ transfers'[i].status = mem[i].status
            /\ transfers'[i].deleted = transfers[i].deleted
  <2> TAKE i \in TokenId
  <2>1. i \in Id /\ transfers[i] \in Row
    BY IdsDiffer, Zenon DEF TypeOK
  <2>2. transfers'[i] = IF Live(transfers, i) /\ mem[i] # NoRow
                        THEN [transfers[i] EXCEPT !.hash = mem[i].hash, !.raw = mem[i].raw,
                                 !.status = mem[i].status, !.topUp = mem[i].topUp]
                        ELSE transfers[i]
    BY <2>1, Zenon DEF UpdateTransfers
  <2>3. CASE ~(Live(transfers, i) /\ mem[i] # NoRow)
    BY <2>2, <2>3
  <2>4. CASE Live(transfers, i) /\ mem[i] # NoRow
    BY <2>1, <2>2, <2>4, SMT DEF Live, Loaded, Row
  <2> QED
    BY <2>3, <2>4
<1>2. \A i \in Loaded(mem) :
         mem[i].status \in Written /\ mem[i].status # "absent" /\ mem[i].status # "new"
  BY SMT DEF Written
<1> QED
  BY <1>1, <1>2, Zenon DEF Writes, Taken

\* The row of a top-up is no row of a pair.
LEMMA WritesTopUp ==
  ASSUME TypeOK, UNCHANGED <<chain, paidFor>>, NEW t \in TopUpId,
         transfers' = CreateEthTransfer(transfers, t)
  PROVE  Writes
<1>1. \A i \in TokenId : transfers'[i] = transfers[i]
  BY IdsDiffer, Zenon DEF CreateEthTransfer, TypeOK
<1> QED
  BY <1>1, Zenon DEF Writes, Taken

-----------------------------------------------------------------------------
(* Steps of the promise *)

\* A step the client and the chain do not see.
LEMMA Unseen ==
  ASSUME UNCHANGED <<Told, BecameOf, PaidPairs, FundedPairs>>
  PROVE  [Gasless!GaslessNext]_(Gasless!gaslessVars)
  BY Zenon DEF Gasless!gaslessVars

\* Top-ups and their pairs do not change with the table.
LEMMA SameBank ==
  ASSUME UNCHANGED <<chain, paidFor>>
  PROVE  UNCHANGED <<BecameOf, PaidPairs, FundedPairs>>
  BY Zenon DEF BecameOf, PaidPairs, FundedPairs, Known, InBlock

\* The transactions of the promise are the rows of the pairs.
LEMMA LegsAreTokens == Gasless!Leg = TokenId
  BY Zenon DEF Gasless!Leg, TokenId

\* Whatever a statement writes into the rows of a pair may be told.
LEMMA WritesTell ==
  ASSUME IInv, IInv', NotProcessing', Writes
  PROVE  Gasless!Tell
<1>1. ASSUME NEW i \in TokenId
      PROVE  Told'[i] \in Gasless!Tale
  <2>1. i \in Id
    BY IdsDiffer
  <2>2. transfers'[i].status \in Status \ {"processing"}
    BY <2>1, SMT DEF IInv, TypeOK, Row, NotProcessing
  <2>3. Told'[i] = "cleared" \/ Told'[i] = transfers'[i].status
    BY Zenon DEF Told
  <2> QED
    BY <2>2, <2>3, SMT DEF Status, Gasless!Tale
<1>2. ASSUME NEW i \in TokenId, Told'[i] # Told[i]
      PROVE  Told[i] \notin {"absent", "cleared"} /\ Gasless!MayTell(i, Told'[i])
  <2>1. /\ TokenRowOK(i) /\ TokenRowOK(i)' /\ i \in Id /\ i[1] \in Pair /\ i # NULL
        /\ transfers[i].status \in Status
    BY IdsDiffer, Zenon DEF IInv, TypeOK, Row
  <2>2. /\ Told[i] = (IF transfers[i].deleted THEN "cleared" ELSE transfers[i].status)
        /\ Told'[i] = (IF transfers'[i].deleted THEN "cleared" ELSE transfers'[i].status)
        /\ BecameOf[i] = chain[i] /\ chain'[i] = chain[i]
    BY Zenon DEF Told, BecameOf, Writes
  <2>3. ~transfers[i].deleted
    BY <1>2, <2>2, Zenon DEF Writes
  <2>4. transfers[i].status # "absent"
    <3> SUFFICES ASSUME transfers[i].status = "absent"
                 PROVE  FALSE
      OBVIOUS
    <3>1. transfers'[i].status = "absent"
      BY Zenon DEF Writes
    <3>2. ~transfers'[i].deleted
      BY <2>1, <3>1, SMT DEF TokenRowOK
    <3> QED
      BY <1>2, <2>2, <2>3, <3>1, <3>2
  <2>5. Told[i] \notin {"absent", "cleared"}
    BY <2>1, <2>2, <2>3, <2>4, SMT DEF Status
  <2>6. CASE transfers'[i].deleted
    <3>1. ~Taken(i)
      BY <2>1, <2>6, SMT DEF TokenRowOK, Writes, Taken
    <3> QED
      BY <2>2, <2>3, <2>4, <2>5, <2>6, <3>1, SMT DEF Taken, Gasless!MayTell
  <2>7. CASE ~transfers'[i].deleted
    <3>1. Told'[i] = transfers'[i].status /\ transfers'[i].status \in Written
      BY <1>2, <2>2, <2>3, <2>7, Zenon DEF Writes
    <3>2. CASE transfers'[i].status \in {"confirming", "failed"}
      BY <2>5, <3>1, <3>2, Zenon DEF Gasless!MayTell
    <3>3. CASE transfers'[i].status = "queued"
      <4>1. LinkedTo(i, transfers[i].topUp)'
        BY <2>1, <3>3, SMT DEF TokenRowOK
      <4>2. i[1] \in PaidPairs
        BY <2>1, <4>1, Zenon DEF PaidPairs, LinkedTo, Known, Writes
      <4> QED
        BY <2>5, <3>1, <3>3, <4>2, Zenon DEF Gasless!MayTell
    <3>4. CASE transfers'[i].status = "pending"
      <4>1. Known(i)'
        BY <2>1, <3>4, SMT DEF TokenRowOK, HashOK
      <4> QED
        BY <2>2, <2>5, <3>1, <3>4, <4>1, Zenon DEF Gasless!MayTell, Known
    <3>5. CASE transfers'[i].status = "completed"
      <4>1. InBlock(i)'
        BY <2>1, <3>5, Zenon DEF TokenRowOK
      <4> QED
        BY <2>2, <2>5, <3>1, <3>5, <4>1, Zenon DEF Gasless!MayTell, InBlock
    <3> QED
      BY <3>1, <3>2, <3>3, <3>4, <3>5, Zenon DEF Written
  <2> QED
    BY <2>6, <2>7, <2>5
<1>3. Told' \in [Gasless!Leg -> Gasless!Tale]
  <2>1. Told' = [i \in TokenId |-> Told'[i]]
    BY Zenon DEF Told
  <2> QED
    BY <1>1, <2>1, LegsAreTokens, Zenon
<1>4. UNCHANGED <<BecameOf, PaidPairs, FundedPairs>>
  BY SameBank, Zenon DEF Writes
<1> QED
  BY <1>2, <1>3, <1>4, LegsAreTokens, Zenon DEF Gasless!Tell

\* A step that writes only rows of pairs tells something, or nothing.
LEMMA WritesStep ==
  ASSUME IInv, IInv', NotProcessing, Writes
  PROVE  [Gasless!GaslessNext]_(Gasless!gaslessVars) /\ NotProcessing'
<1>1. NotProcessing'
  BY SMT DEF NotProcessing, Writes, Written
<1> QED
  BY <1>1, WritesTell, Zenon DEF Gasless!GaslessNext

\* The rows of a pair are inserted at once: it is offered.
LEMMA InsertOffers ==
  ASSUME IInv, IInv', NotProcessing, NEW p \in Pair, InsertTransfers(p)
  PROVE  [Gasless!GaslessNext]_(Gasless!gaslessVars) /\ NotProcessing'
<1>1. /\ UNCHANGED <<chain, paidFor>> /\ draft[p].pc # "done"
      /\ transfers' = CreateTransfers(transfers, p, draft[p].nonce)
  BY SMT DEF InsertTransfers
<1>2. Gasless!LegsOf(p) = Legs(p) /\ Legs(p) \subseteq TokenId
  BY SMT DEF Gasless!LegsOf, Legs, TokenId
<1>3. \A i \in Legs(p) : Told[i] = "absent"
  <2> SUFFICES ASSUME NEW i \in Legs(p)
               PROVE  Told[i] = "absent"
    OBVIOUS
  <2>1. i \in TokenId /\ transfers[i].status = "absent" /\ TokenRowOK(i)
    BY <1>1, <1>2, Zenon DEF IInv, DraftOK
  <2>2. ~transfers[i].deleted
    BY <2>1, SMT DEF TokenRowOK
  <2> QED
    BY <2>1, <2>2, Zenon DEF Told
<1>4. ASSUME NEW i \in TokenId
      PROVE  /\ i \in Legs(p) => transfers'[i].status = "new" /\ ~transfers'[i].deleted
             /\ i \notin Legs(p) => transfers'[i] = transfers[i]
  <2>1. transfers \in [Id -> Row] /\ i \in Id
    BY IdsDiffer, Zenon DEF IInv, TypeOK
  <2>2. i \in Legs(p) => i = <<p, "transfer_token">> \/ i = <<p, "tax">>
    BY SMT DEF Legs
  <2>3. <<p, "transfer_token">> \in Legs(p) /\ <<p, "tax">> \in Legs(p)
    BY SMT DEF Legs
  <2>4. \A n : /\ [NoRow EXCEPT !.status = "new", !.nonce = n].status = "new"
               /\ ~[NoRow EXCEPT !.status = "new", !.nonce = n].deleted
    BY SMT DEF NoRow
  <2> QED
    BY <1>1, <2>1, <2>2, <2>3, <2>4, Zenon DEF CreateTransfers
<1>5. Told' = [i \in TokenId |-> IF i \in Legs(p) THEN "new" ELSE Told[i]]
  BY <1>4, Zenon DEF Told
<1>6. Gasless!Offer(p)
  BY <1>1, <1>2, <1>3, <1>5, SameBank, LegsAreTokens, Zenon DEF Gasless!Offer
<1>7. NotProcessing'
  BY <1>4, SMT DEF NotProcessing
<1> QED
  BY <1>6, <1>7, Zenon DEF Gasless!GaslessNext

\* The table is not touched: nothing is told.
LEMMA SameTable ==
  ASSUME UNCHANGED transfers, NotProcessing
  PROVE  UNCHANGED Told /\ NotProcessing'
  BY Zenon DEF Told, NotProcessing

\* A confirmation sends a top-up for a pair it has loaded as a whole.
LEMMA TopUpPays ==
  ASSUME IInv, NotProcessing, NEW c \in ConfirmCall, CallWhole(c), SendTopUp(c)
  PROVE  [Gasless!GaslessNext]_(Gasless!gaslessVars) /\ NotProcessing'
<1>1. call[c].pc = "send" /\ UNCHANGED transfers
  BY Zenon DEF SendTopUp
<1>2. UNCHANGED Told /\ NotProcessing'
  BY <1>1, SameTable
<1>3. CASE UNCHANGED <<chain, paidFor>>
  BY <1>2, <1>3, SameBank, Unseen
<1>4. CASE /\ ~Known(TopUpOf(c)) /\ Accept(TopUpOf(c))
           /\ paidFor' = [paidFor EXCEPT ![TopUpOf(c)] = c[1]]
  <2> DEFINE t == TopUpOf(c)
  <2>1. t \in TopUpId /\ t \in Id /\ t \notin TokenId /\ c[1] \in Pair
    BY TopUpOfType, LegsType, IdsDiffer, Zenon DEF IInv
  <2>2. chain \in [Id -> {"none", "pooled", "mined", "reverted"}]
        /\ paidFor \in [TopUpId -> Pair \cup {NULL}]
    BY Zenon DEF IInv, TypeOK
  <2>3. /\ chain[t] = "none" /\ chain'[t] = "pooled" /\ paidFor'[t] = c[1]
        /\ \A i \in Id : i # t => chain'[i] = chain[i]
        /\ \A s \in TopUpId : s # t => paidFor'[s] = paidFor[s]
    BY <1>4, <2>1, <2>2, Zenon DEF Known, Accept
  <2> HIDE DEF t
  <2>4. \A s \in TopUpId : s \in Id
    BY IdsDiffer
  <2>5. PaidPairs' = PaidPairs \cup {c[1]}
    BY <2>1, <2>3, <2>4, SMT DEF PaidPairs, Known
  <2>6. FundedPairs' = FundedPairs
    BY <2>1, <2>3, <2>4, SMT DEF FundedPairs, InBlock
  <2>7. BecameOf' = BecameOf
    BY <2>1, <2>3, IdsDiffer, Zenon DEF BecameOf
  <2>8. ASSUME NEW i \in Legs(c[1])
        PROVE  Gasless!TakenOn(i)
    <3>1. i \in Loaded(call[c].mem) /\ i \in TokenId
      BY <1>1, LegsType, SMT DEF CallWhole
    <3>2. Taken(i) /\ TokenRowOK(i)
      BY <3>1, Zenon DEF IInv, CallOK, CallRowOK
    <3>3. Told[i] = transfers[i].status /\ transfers[i].status \in Status
      BY <3>1, <3>2, IdsDiffer, SMT DEF Told, TokenRowOK, Taken, IInv, TypeOK, Row
    <3> QED
      BY <3>2, <3>3, SMT DEF Gasless!TakenOn, Taken, Status
  <2>9. Gasless!LegsOf(c[1]) = Legs(c[1])
    BY Zenon DEF Gasless!LegsOf, Legs
  <2>10. Gasless!Pay(c[1])
    BY <1>2, <2>5, <2>6, <2>7, <2>8, <2>9, Zenon DEF Gasless!Pay
  <2> QED
    BY <1>2, <2>1, <2>10, Zenon DEF Gasless!GaslessNext
<1> QED
  BY <1>3, <1>4, Zenon DEF SendTopUp

\* A goroutine broadcasts the raw transaction of a row that its top-up paid for.
LEMMA BroadcastSends ==
  ASSUME IInv, NotProcessing, NEW j \in Job, SendTransfer(j)
  PROVE  [Gasless!GaslessNext]_(Gasless!gaslessVars) /\ NotProcessing'
<1>1. UNCHANGED <<transfers, paidFor>> /\ job[j].pc = "send"
  BY Zenon DEF SendTransfer
<1>2. UNCHANGED Told /\ NotProcessing'
  BY <1>1, SameTable
<1>3. PICK i \in job[j].todo :
         \/ Acceptable(job[j].mem[i].raw) /\ Accept(job[j].mem[i].raw)
         \/ UNCHANGED chain
  BY Zenon DEF SendTransfer
<1>4. CASE UNCHANGED chain
  BY <1>1, <1>2, <1>4, SameBank, Unseen
<1>5. CASE Acceptable(job[j].mem[i].raw) /\ Accept(job[j].mem[i].raw)
  <2>1. /\ i \in TokenId /\ i \in Id /\ i[1] \in Pair
        /\ JobRowOK(i, job[j].mem[i], TopUp(j)) /\ InBlock(TopUp(j))
    BY <1>1, IdsDiffer, SMT DEF IInv, JobOK, Loaded
  <2>2. job[j].mem[i].raw = i /\ Taken(i) /\ paidFor[TopUp(j)] = i[1] /\ TopUp(j) \in TopUpId
    BY <2>1, TopUpType, Zenon DEF JobRowOK
  <2>3. chain \in [Id -> {"none", "pooled", "mined", "reverted"}]
    BY Zenon DEF IInv, TypeOK
  <2>4. /\ chain[i] = "none" /\ chain'[i] = "pooled"
        /\ \A k \in Id : k # i => chain'[k] = chain[k]
    BY <1>5, <2>1, <2>2, <2>3, Zenon DEF Acceptable, Accept, Known
  <2>5. BecameOf' = [BecameOf EXCEPT ![i] = "pooled"] /\ BecameOf[i] = "none"
    BY <2>1, <2>4, IdsDiffer, Zenon DEF BecameOf
  <2>6. UNCHANGED <<PaidPairs, FundedPairs>>
    <3>1. \A t \in TopUpId : chain'[t] = chain[t]
      BY <2>1, <2>4, IdsDiffer, Zenon
    <3> QED
      BY <1>1, <3>1, Zenon DEF PaidPairs, FundedPairs, Known, InBlock
  <2>7. Gasless!TakenOn(i)
    <3>1. TokenRowOK(i)
      BY <2>1, Zenon DEF IInv
    <3>2. Told[i] = transfers[i].status /\ transfers[i].status \in Status
      BY <2>1, <2>2, <3>1, SMT DEF Told, TokenRowOK, Taken, IInv, TypeOK, Row
    <3> QED
      BY <2>2, <3>2, SMT DEF Gasless!TakenOn, Taken, Status
  <2>8. i[1] \in FundedPairs
    BY <2>1, <2>2, Zenon DEF FundedPairs
  <2>9. Gasless!Send(i)
    BY <1>2, <2>5, <2>6, <2>7, <2>8, Zenon DEF Gasless!Send
  <2> QED
    BY <1>2, <2>1, <2>9, LegsAreTokens, Zenon DEF Gasless!GaslessNext
<1> QED
  BY <1>3, <1>4, <1>5

\* A block ends a transaction, or funds the pair of a top-up.
LEMMA BlockEnds ==
  ASSUME IInv, NotProcessing, NEW k \in Id, Mine(k)
  PROVE  [Gasless!GaslessNext]_(Gasless!gaslessVars) /\ NotProcessing'
<1>1. UNCHANGED <<transfers, paidFor>> /\ chain[k] = "pooled"
  BY Zenon DEF Mine
<1>2. PICK result \in {"mined", "reverted"} : chain' = [chain EXCEPT ![k] = result]
  BY Zenon DEF Mine
<1>3. UNCHANGED Told /\ NotProcessing'
  BY <1>1, SameTable
<1>4. /\ chain \in [Id -> {"none", "pooled", "mined", "reverted"}]
      /\ paidFor \in [TopUpId -> Pair \cup {NULL}]
  BY Zenon DEF IInv, TypeOK
<1>5. chain'[k] = result /\ \A i \in Id : i # k => chain'[i] = chain[i]
  BY <1>2, <1>4, Zenon
<1>6. \A t \in TopUpId : t \in Id /\ (Known(t) <=> Known(t)')
  BY <1>1, <1>5, IdsDiffer, SMT DEF Known
<1>7. UNCHANGED PaidPairs
  BY <1>1, <1>6, Zenon DEF PaidPairs
<1>8. CASE k \in TokenId
  <2>1. BecameOf' = [BecameOf EXCEPT ![k] = result] /\ BecameOf[k] = "pooled"
    BY <1>1, <1>5, <1>8, IdsDiffer, Zenon DEF BecameOf
  <2>2. UNCHANGED FundedPairs
    <3>1. \A t \in TopUpId : chain'[t] = chain[t]
      BY <1>5, <1>8, IdsDiffer, Zenon
    <3> QED
      BY <1>1, <3>1, Zenon DEF FundedPairs, InBlock
  <2>3. Gasless!Mined(k)
    BY <1>3, <1>7, <2>1, <2>2, Zenon DEF Gasless!Mined
  <2> QED
    BY <1>3, <1>8, <2>3, LegsAreTokens, Zenon DEF Gasless!GaslessNext
<1>9. CASE k \in TopUpId
  <2>1. UNCHANGED BecameOf
    BY <1>5, <1>9, IdsDiffer, Zenon DEF BecameOf
  <2>2. InBlock(k)' /\ ~InBlock(k) /\ Known(k)
    BY <1>1, <1>5, SMT DEF InBlock, Known
  <2>3. \A t \in TopUpId : t # k => (InBlock(t)' <=> InBlock(t))
    BY <1>5, <1>6, Zenon DEF InBlock
  <2>4. CASE paidFor[k] \in Pair
    <3>1. FundedPairs' = FundedPairs \cup {paidFor[k]}
      BY <1>1, <1>9, <2>2, <2>3, <2>4, SMT DEF FundedPairs
    <3>2. paidFor[k] \in PaidPairs
      BY <1>9, <2>2, <2>4, Zenon DEF PaidPairs
    <3>3. Gasless!Fund(paidFor[k])
      BY <1>3, <1>7, <2>1, <3>1, <3>2, Zenon DEF Gasless!Fund
    <3> QED
      BY <1>3, <2>4, <3>3, Zenon DEF Gasless!GaslessNext
  <2>5. CASE paidFor[k] \notin Pair
    <3>1. UNCHANGED FundedPairs
      BY <1>1, <2>3, <2>5, SMT DEF FundedPairs
    <3> QED
      BY <1>3, <1>7, <2>1, <3>1, Unseen
  <2> QED
    BY <2>4, <2>5
<1> QED
  BY <1>8, <1>9, Zenon DEF Id

\* Nothing is written and nothing is sent.
LEMMA QuietSteps ==
  ASSUME NotProcessing, UNCHANGED <<transfers, chain, paidFor>>
  PROVE  [Gasless!GaslessNext]_(Gasless!gaslessVars) /\ NotProcessing'
  BY SameTable, SameBank, Unseen

-----------------------------------------------------------------------------
(* The steps of the service that write *)

\* A confirmation queues what it has loaded, for the top-up it has sent.
LEMMA SaveQueuedWrites ==
  ASSUME IInv, NEW c \in ConfirmCall, SaveQueued(c)
  PROVE  Writes
<1> DEFINE mem == Linked(call[c].mem, TopUpOf(c))
<1>1. /\ TypeOK /\ CallOK(c) /\ call[c].mem \in Memory /\ UNCHANGED <<chain, paidFor>>
      /\ transfers' = UpdateTransfers(transfers, mem) \/ UNCHANGED transfers
  BY Zenon DEF IInv, SaveQueued, TypeOK, CallState
<1>2. TopUpOf(c) \in Reference
  BY <1>1, TopUpOfType, IdsDiffer, Zenon DEF Reference
<1>3. \A i \in Loaded(call[c].mem) :
         [call[c].mem[i] EXCEPT !.topUp = TopUpOf(c)] \in Row /\ i \in TokenId
  BY <1>1, <1>2, Zenon DEF Memory, Row, Loaded
<1>4. mem \in Memory /\ Loaded(mem) \subseteq Loaded(call[c].mem)
  BY <1>3, NoRowType, Zenon DEF Linked, Memory, Loaded
<1>5. ASSUME NEW i \in Loaded(mem)
      PROVE  mem[i].status \in {"queued", "pending"}
  <2>1. i \in Loaded(call[c].mem) /\ i \in TokenId /\ call[c].mem[i] \in Row
    BY <1>1, <1>4, Zenon DEF Loaded, Memory
  <2>2. mem[i] = [call[c].mem[i] EXCEPT !.topUp = TopUpOf(c)]
    BY <2>1, Zenon DEF Linked
  <2>3. mem[i].status = call[c].mem[i].status
    BY <2>1, <2>2, Zenon DEF Row
  <2>4. call[c].mem[i].status = "queued"
    BY <1>1, <2>1, Zenon DEF CallOK, CallRowOK
  <2> QED
    BY <2>3, <2>4, Zenon
<1> HIDE DEF mem
<1> QED
  BY <1>1, <1>4, <1>5, WritesMemory, WritesNothing

\* A goroutine saves rows it has loaded as queued and may have sent.
LEMMA SavePendingWrites ==
  ASSUME IInv, NEW j \in Job, SavePending(j)
  PROVE  Writes
<1>1. /\ TypeOK /\ job[j].mem \in Memory /\ UNCHANGED <<chain, paidFor>>
      /\ transfers' = UpdateTransfers(transfers, job[j].mem) \/ UNCHANGED transfers
  BY Zenon DEF IInv, TypeOK, JobState, SavePending
<1>2. \A i \in Loaded(job[j].mem) : job[j].mem[i].status \in {"queued", "pending"}
  BY Zenon DEF IInv, JobOK, JobRowOK
<1> QED
  BY <1>1, <1>2, WritesMemory, WritesNothing

\* The steps of a confirmation that write.
LEMMA ConfirmWrites ==
  ASSUME IInv, NEW c \in ConfirmCall,
         RejectTransfer(c) \/ MarkConfirming(c) \/ RecordTopUp(c) \/ SaveQueued(c)
  PROVE  Writes
<1>1. TypeOK /\ "failed" \in Written /\ "confirming" \in Written
  BY SMT DEF IInv, Written
<1>2. CASE RejectTransfer(c)
  <2>1. PICK i \in call[c].todo :
           transfers' = SetStatus(transfers, {i}, "failed") \/ UNCHANGED transfers
    BY <1>2, Zenon DEF RejectTransfer, WriteTransferError
  <2>2. UNCHANGED <<chain, paidFor>>
    BY <1>2, Zenon DEF RejectTransfer
  <2> QED
    BY <1>1, <2>1, <2>2, WritesStatus, WritesNothing
<1>3. CASE MarkConfirming(c)
  <2>1. PICK i \in call[c].todo :
           \/ transfers' = SetStatus(transfers, {k \in {i} : From(k) = Owner[c[1]]}, "confirming")
           \/ UNCHANGED transfers
    BY <1>3, Zenon DEF MarkConfirming, ConfirmTransferByID
  <2>2. UNCHANGED <<chain, paidFor>>
    BY <1>3, Zenon DEF MarkConfirming
  <2> QED
    BY <1>1, <2>1, <2>2, WritesStatus, WritesNothing
<1>4. CASE RecordTopUp(c)
  <2>1. /\ transfers' = CreateEthTransfer(transfers, TopUpOf(c)) \/ UNCHANGED transfers
        /\ UNCHANGED <<chain, paidFor>>
    BY <1>4, Zenon DEF RecordTopUp
  <2> QED
    BY <1>1, <2>1, TopUpOfType, WritesTopUp, WritesNothing
<1> QED
  BY <1>2, <1>3, <1>4, SaveQueuedWrites

\* The steps of a goroutine that ends a top-up that write.
LEMMA EndTopUpWrites ==
  ASSUME IInv, NEW j \in Job,
         \/ StartProcessing(j) \/ FailTransfers(j) \/ CompleteTopUp(j) \/ SavePending(j)
         \/ FailTopUp(j) \/ FailLinked(j)
  PROVE  Writes
<1>1. TypeOK /\ "failed" \in Written /\ "completed" \in Written
  BY SMT DEF IInv, Written
<1>2. CASE StartProcessing(j)
  <2>1. /\ \/ transfers' = SetStatus(transfers, {TopUp(j)}, "processing")
           \/ UNCHANGED transfers
        /\ UNCHANGED <<chain, paidFor>>
    BY <1>2, Zenon DEF StartProcessing, StartEthTransferProcessing
  <2>2. {TopUp(j)} \cap TokenId = {}
    BY TopUpType, IdsDiffer, Zenon
  <2> QED
    BY <1>1, <2>1, <2>2, WritesStatus, WritesNothing
<1>3. CASE FailTransfers(j)
  <2>1. PICK i \in job[j].todo :
           transfers' = SetStatus(transfers, {i}, "failed") \/ UNCHANGED transfers
    BY <1>3, Zenon DEF FailTransfers, WriteTransferError
  <2>2. UNCHANGED <<chain, paidFor>>
    BY <1>3, Zenon DEF FailTransfers
  <2> QED
    BY <1>1, <2>1, <2>2, WritesStatus, WritesNothing
<1>4. CASE CompleteTopUp(j)
  <2> DEFINE S == {i \in Id : i = TopUp(j) \/ (NULL # NULL /\ transfers[i].hash = NULL)}
  <2>1. /\ transfers' = SetStatus(transfers, S, "completed") \/ UNCHANGED transfers
        /\ UNCHANGED <<chain, paidFor>>
    BY <1>4, Zenon DEF CompleteTopUp, CompleteTransfer
  <2> HIDE DEF S
  <2> QED
    BY <1>1, <2>1, WritesStatus, WritesNothing
<1>5. CASE FailTopUp(j)
  <2>1. /\ transfers' = SetStatus(transfers, {TopUp(j)}, "failed") \/ UNCHANGED transfers
        /\ UNCHANGED <<chain, paidFor>>
    BY <1>5, Zenon DEF FailTopUp, WriteTransferError
  <2> QED
    BY <1>1, <2>1, WritesStatus, WritesNothing
<1>6. CASE FailLinked(j)
  <2> DEFINE S == {i \in Id : transfers[i].topUp = TopUp(j)}
  <2>1. /\ transfers' = SetStatus(transfers, S, "failed") \/ UNCHANGED transfers
        /\ UNCHANGED <<chain, paidFor>>
    BY <1>6, Zenon DEF FailLinked, FailLinkedTransfers
  <2> HIDE DEF S
  <2> QED
    BY <1>1, <2>1, WritesStatus, WritesNothing
<1> QED
  BY <1>2, <1>3, <1>4, <1>5, <1>6, SavePendingWrites

\* Those who complete a token transfer write its status.
LEMMA CompletionWrites ==
  ASSUME IInv, NEW hash,
         transfers' = CompleteTransfer(transfers, NULL, hash) \/ UNCHANGED transfers,
         UNCHANGED <<chain, paidFor>>
  PROVE  Writes
<1> DEFINE S == {i \in Id : i = NULL \/ (hash # NULL /\ transfers[i].hash = hash)}
<1>1. transfers' = SetStatus(transfers, S, "completed") \/ UNCHANGED transfers
  BY Zenon DEF CompleteTransfer
<1>2. TypeOK /\ "completed" \in Written
  BY SMT DEF IInv, Written
<1> HIDE DEF S
<1> QED
  BY <1>1, <1>2, WritesStatus, WritesNothing

-----------------------------------------------------------------------------
(* Before it pays, a confirmation has loaded every row of its pair. *)

\* One call moves, the others are as they were.
OneMoves(c) == CallWhole(c)' /\ \A d \in ConfirmCall : d # c => call'[d] = call[d]

\* A call that ends, or that answers with an error, pays no more.
LEMMA GivesUp ==
  ASSUME IInv, NEW c \in ConfirmCall, Reject(c) \/ Return(c)
  PROVE  OneMoves(c)
<1>1. call \in [ConfirmCall -> CallState]
  BY Zenon DEF IInv, TypeOK
<1>2. /\ call'[c].pc \in {"reject", "done"}
      /\ \A d \in ConfirmCall : d # c => call'[d] = call[d]
  BY <1>1, RejectEffect, ReturnEffect, SMT
<1> QED
  BY <1>2, SMT DEF CallWhole, OneMoves

\* A call that goes on keeps what it has loaded.
LEMMA GoesOn ==
  ASSUME IInv, NEW c \in ConfirmCall, NEW pc \in CallPc, NEW todo \in SUBSET TokenId,
         Goto(c, pc, todo),
         \/ pc \notin {"mark", "load", "fund", "send"}
         \/ pc \in {"mark", "load"} /\ Legs(c[1]) \subseteq todo \cup Loaded(call[c].mem)
  PROVE  OneMoves(c)
<1>1. call \in [ConfirmCall -> CallState]
  BY Zenon DEF IInv, TypeOK
<1>2. /\ call'[c].pc = pc /\ call'[c].todo = todo /\ call'[c].mem = call[c].mem
      /\ \A d \in ConfirmCall : d # c => call'[d] = call[d]
  BY <1>1, GotoEffect
<1> QED
  BY <1>2, SMT DEF CallWhole, OneMoves

\* The SELECT takes a row off the list of those to load when it has loaded it.
LEMMA LoadWhole ==
  ASSUME IInv, NEW c \in ConfirmCall, CallWhole(c), LoadTransfer(c)
  PROVE  OneMoves(c)
<1>1. call \in [ConfirmCall -> CallState] /\ call[c] \in CallState
  BY Zenon DEF IInv, TypeOK
<1>2. CASE Return(c)
  BY <1>2, GivesUp
<1>3. CASE ~Return(c)
  <2>1. PICK i \in call[c].todo :
           call' = [call EXCEPT ![c] =
              [@ EXCEPT !.pc = IF call[c].todo \ {i} = {} THEN "fund" ELSE "mark",
                        !.todo = call[c].todo \ {i},
                        !.mem[i] = [transfers[i] EXCEPT !.raw = i, !.status = "queued"]]]
    BY <1>3, Zenon DEF LoadTransfer
  <2> DEFINE row == [transfers[i] EXCEPT !.raw = i, !.status = "queued"]
             todo == call[c].todo \ {i}
             mem == [call[c].mem EXCEPT ![i] = row]
  <2>2. i \in TokenId /\ i \in Id /\ call[c].mem \in Memory /\ call[c].pc = "load"
    BY <1>1, IdsDiffer, Zenon DEF CallState, LoadTransfer
  <2>3. row # NoRow
    <3>1. transfers[i] \in Row
      BY <2>2, Zenon DEF IInv, TypeOK
    <3>2. row.status = "queued"
      BY <3>1, Zenon DEF Row
    <3>3. NoRow.status = "absent"
      BY SMT DEF NoRow
    <3> QED
      BY <3>2, <3>3
  <2>4. Loaded(call[c].mem) \cup {i} \subseteq Loaded(mem)
    BY <2>2, <2>3, Zenon DEF Loaded, Memory
  <2>5. /\ call'[c].pc = (IF todo = {} THEN "fund" ELSE "mark")
        /\ call'[c].todo = todo /\ call'[c].mem = mem
        /\ \A d \in ConfirmCall : d # c => call'[d] = call[d]
    BY <1>1, <2>1, Zenon DEF CallState
  <2>6. Legs(c[1]) \subseteq call[c].todo \cup Loaded(call[c].mem)
    BY <2>2, SMT DEF CallWhole
  <2> HIDE DEF row, mem
  <2>7. Legs(c[1]) \subseteq todo \cup Loaded(mem)
    BY <2>4, <2>6, Zenon
  <2> QED
    BY <2>5, <2>7, SMT DEF CallWhole, OneMoves
<1> QED
  BY <1>2, <1>3

\* No step of a confirmation leaves a row of its pair out.
LEMMA ConfirmWhole ==
  ASSUME IInv, NEW c \in ConfirmCall, CallWhole(c), ConfirmTransfer(c)
  PROVE  OneMoves(c)
<1>1. call \in [ConfirmCall -> CallState] /\ call[c].todo \in SUBSET TokenId
  BY Zenon DEF IInv, TypeOK, CallState
<1>2. {"mark", "load", "validate", "reject", "record", "save"} \subseteq CallPc
  BY SMT DEF CallPc
<1>3. Legs(c[1]) \in SUBSET TokenId
  BY LegsType
<1>4. CASE StartConfirm(c)
  <2>1. CASE Reject(c)
    BY <2>1, GivesUp
  <2>2. CASE ~Reject(c)
    <3>1. PICK n : call' = [call EXCEPT ![c] =
                      [@ EXCEPT !.pc = "validate", !.acc = n, !.todo = Legs(c[1])]]
      BY <1>4, <2>2, Zenon DEF StartConfirm
    <3>2. /\ call'[c].pc = "validate"
          /\ \A d \in ConfirmCall : d # c => call'[d] = call[d]
      BY <1>1, <3>1, Zenon DEF CallState
    <3> QED
      BY <3>2, SMT DEF CallWhole, OneMoves
  <2> QED
    BY <2>1, <2>2
<1>5. CASE Validate(c)
  <2>1. PICK i \in call[c].todo :
           \/ Reject(c)
           \/ Goto(c, "mark", Legs(c[1]))
           \/ Goto(c, "validate", call[c].todo \ {i})
    BY <1>5, Zenon DEF Validate
  <2>2. call[c].todo \ {i} \in SUBSET TokenId
    BY <1>1, Zenon
  <2> QED
    BY <1>2, <1>3, <2>1, <2>2, GivesUp, GoesOn, SMT
<1>6. CASE RejectTransfer(c)
  <2>1. PICK i \in call[c].todo : Return(c) \/ Goto(c, "reject", call[c].todo \ {i})
    BY <1>6, Zenon DEF RejectTransfer
  <2>2. call[c].todo \ {i} \in SUBSET TokenId
    BY <1>1, Zenon
  <2> QED
    BY <1>2, <2>1, <2>2, GivesUp, GoesOn, SMT
<1>7. CASE MarkConfirming(c)
  <2>1. Return(c) \/ Goto(c, "load", call[c].todo)
    BY <1>7, Zenon DEF MarkConfirming
  <2>2. Legs(c[1]) \subseteq call[c].todo \cup Loaded(call[c].mem)
    BY <1>7, SMT DEF MarkConfirming, CallWhole
  <2> QED
    BY <1>1, <1>2, <2>1, <2>2, GivesUp, GoesOn, SMT
<1>8. CASE LoadTransfer(c)
  BY <1>8, LoadWhole
<1>9. CASE ReadBankNonce(c)
  <2>1. CASE Reject(c)
    BY <2>1, GivesUp
  <2>2. CASE ~Reject(c)
    <3>1. PICK n : call' = [call EXCEPT ![c] = [@ EXCEPT !.pc = "send", !.nonce = n]]
      BY <1>9, <2>2, Zenon DEF ReadBankNonce
    <3>2. /\ call'[c].pc = "send" /\ call'[c].todo = call[c].todo
          /\ call'[c].mem = call[c].mem
          /\ \A d \in ConfirmCall : d # c => call'[d] = call[d]
      BY <1>1, <3>1, Zenon DEF CallState
    <3>3. call[c].pc = "fund"
      BY <1>9, Zenon DEF ReadBankNonce
    <3> QED
      BY <3>2, <3>3, SMT DEF CallWhole, OneMoves
  <2> QED
    BY <2>1, <2>2
<1>10. CASE SendTopUp(c)
  <2>1. Reject(c) \/ Goto(c, "record", {})
    BY <1>10, Zenon DEF SendTopUp
  <2> QED
    BY <1>2, <2>1, GivesUp, GoesOn, SMT
<1>11. CASE RecordTopUp(c)
  <2>1. Reject(c) \/ Goto(c, "save", {})
    BY <1>11, Zenon DEF RecordTopUp
  <2> QED
    BY <1>2, <2>1, GivesUp, GoesOn, SMT
<1>12. CASE SaveQueued(c)
  BY <1>12, GivesUp, Zenon DEF SaveQueued
<1> QED
  BY <1>4, <1>5, <1>6, <1>7, <1>8, <1>9, <1>10, <1>11, <1>12, Zenon DEF ConfirmTransfer

\* The steps of the others move no confirmation.
LEMMA StillWhole ==
  ASSUME \A c \in ConfirmCall : CallWhole(c), UNCHANGED call
  PROVE  \A c \in ConfirmCall : CallWhole(c)'
  BY Zenon DEF CallWhole

-----------------------------------------------------------------------------
(* Every step is a step of the promise *)

Kept == NotProcessing' /\ \A c \in ConfirmCall : CallWhole(c)'

Promised == [Gasless!GaslessNext]_(Gasless!gaslessVars)

\* Mining, transactions sent without the service, and a restart.
LEMMA EnvironmentMaps ==
  ASSUME GaslessInv, Environment
  PROVE  Promised /\ Kept
<1>1. IInv /\ NotProcessing /\ \A c \in ConfirmCall : CallWhole(c)
  BY Zenon DEF GaslessInv
<1>2. ASSUME NEW i \in Id, Mine(i)
      PROVE  Promised /\ Kept
  <2>1. UNCHANGED call
    BY <1>2, Zenon DEF Mine
  <2> QED
    BY <1>1, <1>2, <2>1, BlockEnds, StillWhole, Zenon DEF Promised, Kept
<1>3. ASSUME NEW u \in User, ForeignTransaction(u)
      PROVE  Promised /\ Kept
  <2>1. UNCHANGED <<transfers, chain, paidFor>> /\ UNCHANGED call
    BY <1>3, Zenon DEF ForeignTransaction
  <2> QED
    BY <1>1, <2>1, QuietSteps, StillWhole, Zenon DEF Promised, Kept
<1>4. CASE Restart
  <2>1. UNCHANGED <<transfers, chain, paidFor>>
    BY <1>4, Zenon DEF Restart
  <2>2. \A c \in ConfirmCall : call'[c].pc \in {"idle", "done"}
    <3>1. [IdleCall EXCEPT !.pc = "done"].pc = "done"
      BY SMT DEF IdleCall
    <3> QED
      BY <1>4, <3>1, Zenon DEF Restart
  <2>3. \A c \in ConfirmCall : CallWhole(c)'
    BY <2>2, SMT DEF CallWhole
  <2> QED
    BY <1>1, <2>1, <2>3, QuietSteps, Zenon DEF Promised, Kept
<1> QED
  BY <1>2, <1>3, <1>4, Zenon DEF Environment

\* CreateTransfer clears pairs nobody has signed and offers a new one.
LEMMA CreateTransferMaps ==
  ASSUME GaslessInv, IInv', NEW p \in Pair, CreateTransfer(p)
  PROVE  Promised /\ Kept
<1>1. IInv /\ TypeOK /\ NotProcessing /\ \A c \in ConfirmCall : CallWhole(c)
  BY Zenon DEF GaslessInv, IInv
<1>2. UNCHANGED call
  BY Zenon DEF CreateTransfer, ClearUnsigned, ReadUserNonce, InsertTransfers, AbortCreateTransfer
<1>3. Promised /\ NotProcessing'
  <2>1. CASE ClearUnsigned(p)
    <3>1. /\ transfers' = ClearUnsignedTransfers(transfers, Owner[p])
          /\ UNCHANGED <<chain, paidFor>>
      BY <2>1, Zenon DEF ClearUnsigned
    <3>2. Writes
      BY <1>1, <3>1, WritesDeletion
    <3> QED
      BY <1>1, <3>2, WritesStep, Zenon DEF Promised
  <2>2. CASE InsertTransfers(p)
    BY <1>1, <2>2, InsertOffers, Zenon DEF Promised
  <2>3. CASE ReadUserNonce(p) \/ AbortCreateTransfer(p)
    <3>1. UNCHANGED <<transfers, chain, paidFor>>
      BY <2>3, Zenon DEF ReadUserNonce, AbortCreateTransfer
    <3> QED
      BY <1>1, <3>1, QuietSteps, Zenon DEF Promised
  <2> QED
    BY <2>1, <2>2, <2>3, Zenon DEF CreateTransfer
<1> QED
  BY <1>1, <1>2, <1>3, StillWhole, Zenon DEF Kept

\* ConfirmTransfer takes a pair on and pays for it.
LEMMA ConfirmTransferMaps ==
  ASSUME GaslessInv, IInv', NEW c \in ConfirmCall, ConfirmTransfer(c)
  PROVE  Promised /\ Kept
<1>1. IInv /\ NotProcessing /\ \A d \in ConfirmCall : CallWhole(d)
  BY Zenon DEF GaslessInv
<1>2. Promised /\ NotProcessing'
  <2>1. CASE RejectTransfer(c) \/ MarkConfirming(c) \/ RecordTopUp(c) \/ SaveQueued(c)
    <3>1. Writes
      BY <1>1, <2>1, ConfirmWrites
    <3> QED
      BY <1>1, <3>1, WritesStep, Zenon DEF Promised
  <2>2. CASE SendTopUp(c)
    BY <1>1, <2>2, TopUpPays, Zenon DEF Promised
  <2>3. CASE StartConfirm(c) \/ Validate(c) \/ LoadTransfer(c) \/ ReadBankNonce(c)
    <3>1. UNCHANGED <<transfers, chain, paidFor>>
      BY <2>3, Zenon DEF StartConfirm, Validate, LoadTransfer, ReadBankNonce
    <3> QED
      BY <1>1, <3>1, QuietSteps, Zenon DEF Promised
  <2> QED
    BY <2>1, <2>2, <2>3, Zenon DEF ConfirmTransfer
<1>3. OneMoves(c)
  BY <1>1, ConfirmWhole
<1>4. \A d \in ConfirmCall : CallWhole(d)'
  BY <1>1, <1>3, Zenon DEF OneMoves, CallWhole
<1> QED
  BY <1>2, <1>4, Zenon DEF Kept

\* The goroutines that end a top-up send what it pays for.
LEMMA EndTopUpMaps ==
  ASSUME GaslessInv, IInv', NEW j \in Job, EndTopUp(j)
  PROVE  Promised /\ Kept
<1>1. IInv /\ NotProcessing /\ \A c \in ConfirmCall : CallWhole(c)
  BY Zenon DEF GaslessInv
<1>2. CASE \/ StartProcessing(j) \/ FailTransfers(j) \/ CompleteTopUp(j) \/ SavePending(j)
           \/ FailTopUp(j) \/ FailLinked(j)
  <2>1. Writes
    BY <1>1, <1>2, EndTopUpWrites
  <2>2. UNCHANGED call
    BY <1>2, Zenon DEF StartProcessing, FailTransfers, CompleteTopUp, SavePending,
       FailTopUp, FailLinked
  <2> QED
    BY <1>1, <2>1, <2>2, WritesStep, StillWhole, Zenon DEF Promised, Kept
<1>3. CASE SendTransfer(j)
  <2>1. UNCHANGED call
    BY <1>3, Zenon DEF SendTransfer
  <2> QED
    BY <1>1, <1>3, <2>1, BroadcastSends, StillWhole, Zenon DEF Promised, Kept
<1>4. CASE \/ ListenerFinds(j) \/ ListenerReadsReceipt(j) \/ MonitorFinds(j)
           \/ MonitorChecks(j) \/ LoadQueued(j) \/ CheckBalance(j)
  <2>1. UNCHANGED <<transfers, chain, paidFor>> /\ UNCHANGED call
    BY <1>4, Zenon DEF ListenerFinds, ListenerReadsReceipt, MonitorFinds, MonitorChecks,
       LoadQueued, CheckBalance
  <2> QED
    BY <1>1, <2>1, QuietSteps, StillWhole, Zenon DEF Promised, Kept
<1> QED
  BY <1>2, <1>3, <1>4, Zenon DEF EndTopUp, CompleteTransfers, FailEthTransfer

\* Those who watch token transactions tell that they are completed.
LEMMA EventsMap ==
  ASSUME GaslessInv, IInv',
         (\E i \in TokenId : ListenerSeesEvent(i)) \/ MonitorEvents
  PROVE  Promised /\ Kept
<1>1. IInv /\ NotProcessing /\ \A c \in ConfirmCall : CallWhole(c)
  BY Zenon DEF GaslessInv
<1>2. UNCHANGED call
  BY Zenon DEF ListenerSeesEvent, MonitorEvents, WatchPending, CheckPending
<1>3. Writes
  <2>1. ASSUME NEW i \in TokenId, ListenerSeesEvent(i)
        PROVE  Writes
    <3>1. /\ transfers' = CompleteTransfer(transfers, NULL, i) \/ UNCHANGED transfers
          /\ UNCHANGED <<chain, paidFor>>
      BY <2>1, Zenon DEF ListenerSeesEvent
    <3> QED
      BY <1>1, <3>1, CompletionWrites
  <2>2. ASSUME NEW i \in TokenId, WatchPending(i)
        PROVE  Writes
    BY <2>2, WritesNothing, Zenon DEF WatchPending
  <2>3. ASSUME NEW hash \in watch, CheckPending(hash)
        PROVE  Writes
    <3>1. /\ transfers' = CompleteTransfer(transfers, NULL, hash) \/ UNCHANGED transfers
          /\ UNCHANGED <<chain, paidFor>>
      BY <2>3, Zenon DEF CheckPending
    <3> QED
      BY <1>1, <3>1, CompletionWrites
  <2> QED
    BY <2>1, <2>2, <2>3, Zenon DEF MonitorEvents
<1> QED
  BY <1>1, <1>2, <1>3, WritesStep, StillWhole, Zenon DEF Promised, Kept

\* No step pays, sends or tells what was not promised.
LEMMA StepMaps == GaslessInv /\ IInv' /\ [Next]_vars => Promised /\ Kept
<1> SUFFICES ASSUME GaslessInv, IInv', [Next]_vars
             PROVE  Promised /\ Kept
  OBVIOUS
<1>1. CASE UNCHANGED vars
  <2>1. UNCHANGED <<transfers, chain, paidFor>> /\ UNCHANGED call
    BY <1>1, Zenon DEF vars
  <2> QED
    BY <2>1, QuietSteps, StillWhole, Zenon DEF GaslessInv, Promised, Kept
<1> QED
  BY <1>1, EnvironmentMaps, CreateTransferMaps, ConfirmTransferMaps, EndTopUpMaps, EventsMap,
     Zenon DEF Next

\* At the start nothing is told, paid or sent.
LEMMA InitMaps == Init => GaslessInv /\ Gasless!GaslessInit
<1> SUFFICES ASSUME Init
             PROVE  GaslessInv /\ Gasless!GaslessInit
  OBVIOUS
<1>1. /\ \A i \in Id : transfers[i].status = "absent" /\ ~transfers[i].deleted
      /\ \A i \in Id : chain[i] = "none"
  BY SMT DEF Init, NoRow
<1>2. NotProcessing
  BY <1>1, IdsDiffer, SMT DEF NotProcessing
<1>3. \A c \in ConfirmCall : CallWhole(c)
  BY SMT DEF Init, IdleCall, CallWhole
<1>4. Told = [i \in TokenId |-> "absent"] /\ BecameOf = [i \in TokenId |-> "none"]
  BY <1>1, IdsDiffer, Zenon DEF Told, BecameOf
<1>5. PaidPairs = {} /\ FundedPairs = {}
  BY <1>1, IdsDiffer, SMT DEF PaidPairs, FundedPairs, Known, InBlock
<1> QED
  BY <1>2, <1>3, <1>4, <1>5, InitInv, LegsAreTokens, Zenon DEF GaslessInv, Gasless!GaslessInit

\* Handlers, scrapers and table keep the promise of GaslessTransfer.
THEOREM ServiceIsGasless == Spec => IsGasless
<1>1. GaslessInv /\ [Next]_vars => GaslessInv' /\ [Gasless!GaslessNext]_(Gasless!gaslessVars)
  <2> SUFFICES ASSUME GaslessInv, [Next]_vars
               PROVE  GaslessInv' /\ [Gasless!GaslessNext]_(Gasless!gaslessVars)
    OBVIOUS
  <2>1. IInv'
    BY NextInv, Zenon DEF GaslessInv
  <2> QED
    BY <2>1, StepMaps, Zenon DEF GaslessInv, Promised, Kept
<1> QED
  BY <1>1, InitMaps, PTL DEF Spec, IsGasless, Gasless!GaslessSpec
=============================================================================
