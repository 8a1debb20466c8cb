--------------------------- MODULE TransferService ---------------------------
(***************************************************************************)
(* The life of a gas-less token transfer.  A user asks for a pair of       *)
(* unsigned transactions (CreateTransfer), signs them and hands them back  *)
(* (ConfirmTransfer); the service sends ETH from its bank wallet to pay    *)
(* for their gas, and once that top-up is in a block it broadcasts the     *)
(* signed pair (CompleteTransfers) and waits for it to be mined.           *)
(*                                                                         *)
(* The processes are the HTTP handlers of app/transaction/manager.go and   *)
(* the goroutines of app/scrapper/scrappers.  They share nothing but the   *)
(* transfers table and the node, and every statement and every call to the *)
(* node is a step of its own: anything may happen in between.              *)
(***************************************************************************)
EXTENDS TransferStore

CONSTANTS
    Attempt,   \* the ConfirmTransfer calls a client may make for one pair
    Source,    \* who looks for mined top-ups: "listen", "monitor"
    MaxNonce,  \* bound: the highest nonce of a user's transaction
    Faults     \* what may go wrong in the run

ASSUME ServiceAssumption ==
    /\ Source \subseteq {"listen", "monitor"}
    /\ MaxNonce \in Nat
    /\ NULL \notin Pair
    /\ Faults \subseteq
          {"rpc",        \* a call to the node fails
           "lost",       \* the node accepts a transaction, its answer is lost
           "db",         \* a statement fails and changes nothing
           "malformed",  \* a client sends a transaction that does not decode
           "foreign",    \* a user sends transactions without the service
           "revert",     \* a transaction is mined but fails
           "funds",      \* an account has too little ETH
           "restart"}    \* the service stops and starts again

VARIABLES
    transfers,  \* the transfers table
    chain,      \* what the node knows of the transaction with this hash
    paidFor,    \* the pair whose confirmation sent this top-up
    foreign,    \* nonces used by transactions sent without the service
    draft,      \* the CreateTransfer call of each pair
    call,       \* the ConfirmTransfer calls
    job,        \* goroutines that end a top-up, one per source and top-up
    watch,      \* hashes that goroutines of monitorEvents are about to check
    seen        \* token transactions whose Transfer event was consumed

vars == <<transfers, chain, paidFor, foreign, draft, call, job, watch, seen>>

Nonce == 0 .. MaxNonce
ConfirmCall == Pair \X Attempt

\* Bound: one goroutine per source and top-up. The code starts one for every find:
\* a slow one may meet another of the same source, as it meets that of the other.
Job == Source \X TopUpId

Memory == [TokenId -> Row]
Nothing == [i \in TokenId |-> NoRow]

\* The two rows of a pair.
Legs(p) == {p} \X {"transfer_token", "tax"}

IdleCall == [pc |-> "idle", todo |-> {}, acc |-> 0, nonce |-> 0, mem |-> Nothing]
IdleJob == [pc |-> "idle", todo |-> {}, mem |-> Nothing]

\* Where a handler or a goroutine is: the statement or node call it makes next.
CallPc == {"idle", "validate", "reject", "mark", "load", "fund", "send",
           "record", "save", "done"}
JobPc == {"idle", "receipt", "check", "queue", "start", "balance", "fail",
          "send", "settle", "save", "revert", "revertLinked"}

DraftState == [pc : {"idle", "cleared", "nonce", "done"}, nonce : Nonce]

CallState ==
    [pc : CallPc, todo : SUBSET TokenId, acc : Nat,
     nonce : 0 .. MaxTopUps - 1, mem : Memory]

JobState == [pc : JobPc, todo : SUBSET TokenId, mem : Memory]

TypeOK ==
    /\ transfers \in [Id -> Row]
    /\ chain \in [Id -> {"none", "pooled", "mined", "reverted"}]
    /\ paidFor \in [TopUpId -> Pair \cup {NULL}]
    /\ foreign \in [User -> SUBSET Nonce]
    /\ draft \in [Pair -> DraftState]
    /\ call \in [ConfirmCall -> CallState]
    /\ job \in [Job -> JobState]
    /\ watch \subseteq Id \cup {NULL}
    /\ seen \subseteq TokenId

Init ==
    /\ transfers = [i \in Id |-> NoRow]
    /\ chain = [i \in Id |-> "none"]
    /\ paidFor = [t \in TopUpId |-> NULL]
    /\ foreign = [u \in User |-> {}]
    /\ draft = [p \in Pair |-> [pc |-> "idle", nonce |-> 0]]
    /\ call = [c \in ConfirmCall |-> IdleCall]
    /\ job = [j \in Job |-> IdleJob]
    /\ watch = {}
    /\ seen = {}

-----------------------------------------------------------------------------
(* The Ethereum node, as the service sees it. *)

Known(i) == chain[i] # "none"
InBlock(i) == chain[i] \in {"mined", "reverted"}

UsedNonces(u) ==
    foreign[u] \cup {transfers[i].nonce : i \in {k \in TokenId : From(k) = u /\ Known(k)}}

BankNonces == {t[1] : t \in {s \in TopUpId : Known(s)}}

\* PendingNonceAt: the first nonce that no known transaction of the account has.
IsPendingNonce(used, n) == n \notin used /\ \A m \in 0 .. n - 1 : m \in used

\* The node refuses a transaction it has and one whose nonce is taken; a gap
\* before the nonce only keeps the transaction waiting in the pool.
Acceptable(i) == ~Known(i) /\ transfers[i].nonce \notin UsedNonces(From(i))

Accept(i) == chain' = [chain EXCEPT ![i] = "pooled"]

\* Transactions of an account enter blocks in the order of their nonces.
TurnOf(i) ==
    IF i \in TopUpId
    THEN \A t \in TopUpId : t[1] < i[1] => InBlock(t)
    ELSE \A n \in 0 .. transfers[i].nonce - 1 :
            \/ n \in foreign[From(i)]
            \/ \E k \in TokenId : From(k) = From(i) /\ InBlock(k) /\ transfers[k].nonce = n

Mine(i) ==
    /\ chain[i] = "pooled" /\ TurnOf(i)
    /\ \E result \in {"mined"} \cup {r \in {"reverted"} : "revert" \in Faults} :
          chain' = [chain EXCEPT ![i] = result]
    /\ UNCHANGED <<transfers, paidFor, foreign, draft, call, job, watch, seen>>

ForeignTransaction(u) ==
    /\ "foreign" \in Faults
    /\ \E n \in Nonce : /\ IsPendingNonce(UsedNonces(u), n)
                        /\ foreign' = [foreign EXCEPT ![u] = @ \cup {n}]
    /\ UNCHANGED <<transfers, chain, paidFor, draft, call, job, watch, seen>>

-----------------------------------------------------------------------------
(* CreateTransfer *)

SetDraft(p, pc) == draft' = [draft EXCEPT ![p].pc = pc]

ClearUnsigned(p) ==
    /\ draft[p].pc = "idle"
    /\ transfers' = ClearUnsignedTransfers(transfers, Owner[p])
    /\ SetDraft(p, "cleared")
    /\ UNCHANGED <<chain, paidFor, foreign, call, job, watch, seen>>

\* Gas price, token balance and chain id are read in the same step.
ReadUserNonce(p) ==
    /\ draft[p].pc = "cleared"
    /\ \E n \in Nonce : /\ n + 1 \in Nonce
                        /\ IsPendingNonce(UsedNonces(Owner[p]), n)
                        /\ draft' = [draft EXCEPT ![p] = [pc |-> "nonce", nonce |-> n]]
    /\ UNCHANGED <<transfers, chain, paidFor, foreign, call, job, watch, seen>>

InsertTransfers(p) ==
    /\ draft[p].pc = "nonce"
    /\ transfers' = CreateTransfers(transfers, p, draft[p].nonce)
    /\ SetDraft(p, "done")
    /\ UNCHANGED <<chain, paidFor, foreign, call, job, watch, seen>>

\* An estimate, a balance, a nonce or a statement fails: the call returns.
AbortCreateTransfer(p) ==
    /\ \/ draft[p].pc = "cleared" /\ Faults \cap {"rpc", "funds"} # {}
       \/ draft[p].pc \in {"idle", "nonce"} /\ "db" \in Faults
    /\ SetDraft(p, "done")
    /\ UNCHANGED <<transfers, chain, paidFor, foreign, call, job, watch, seen>>

-----------------------------------------------------------------------------
(* ConfirmTransfer *)

\* The client lists the token transfer first, as CreateTransfer returned it.
ListedFirst(S, i) == i \in S /\ (i[2] = "tax" => S = {i})

Goto(c, pc, todo) == call' = [call EXCEPT ![c] = [@ EXCEPT !.pc = pc, !.todo = todo]]
Return(c) == call' = [call EXCEPT ![c] = [IdleCall EXCEPT !.pc = "done"]]
Reject(c) == call' = [call EXCEPT ![c] = [IdleCall EXCEPT !.pc = "reject", !.todo = Legs(c[1])]]

StartConfirm(c) ==
    /\ call[c].pc = "idle" /\ draft[c[1]].pc = "done"
    /\ \A i \in Legs(c[1]) : transfers[i].status # "absent"
    /\ \/ \E n \in 0 .. MaxNonce + 1 :
             /\ IsPendingNonce(UsedNonces(Owner[c[1]]), n)
             /\ call' = [call EXCEPT ![c] =
                   [@ EXCEPT !.pc = "validate", !.acc = n, !.todo = Legs(c[1])]]
       \/ "rpc" \in Faults /\ Reject(c)
    /\ UNCHANGED <<transfers, chain, paidFor, foreign, draft, job, watch, seen>>

\* IsNoncePending takes a failed query for "not pending".
Validate(c) ==
    /\ call[c].pc = "validate"
    /\ \E i \in call[c].todo :
          LET nonce == transfers[i].nonce
              todo == call[c].todo \ {i}
              pending == IsNoncePending(transfers, nonce, Owner[c[1]])
          IN /\ ListedFirst(call[c].todo, i)
             /\ \/ /\ call[c].acc > nonce \/ pending \/ "malformed" \in Faults
                   /\ Reject(c)
                \/ /\ call[c].acc <= nonce
                   /\ pending => "db" \in Faults
                   /\ IF todo = {} THEN Goto(c, "mark", Legs(c[1])) ELSE Goto(c, "validate", todo)
    /\ UNCHANGED <<transfers, chain, paidFor, foreign, draft, job, watch, seen>>

\* The error of WriteTransferError is ignored.
RejectTransfer(c) ==
    /\ call[c].pc = "reject"
    /\ \E i \in call[c].todo :
          LET todo == call[c].todo \ {i}
          IN /\ ListedFirst(call[c].todo, i)
             /\ \/ transfers' = WriteTransferError(transfers, i)
                \/ "db" \in Faults /\ UNCHANGED transfers
             /\ IF todo = {} THEN Return(c) ELSE Goto(c, "reject", todo)
    /\ UNCHANGED <<chain, paidFor, foreign, draft, job, watch, seen>>

\* The UPDATE of GetAndConfirmTransferByID.
MarkConfirming(c) ==
    /\ call[c].pc = "mark"
    /\ \E i \in call[c].todo :
          /\ ListedFirst(call[c].todo, i)
          /\ \/ /\ transfers' = ConfirmTransferByID(transfers, i, Owner[c[1]])
                /\ Goto(c, "load", call[c].todo)
             \/ "db" \in Faults /\ Return(c) /\ UNCHANGED transfers
    /\ UNCHANGED <<chain, paidFor, foreign, draft, job, watch, seen>>

\* Mutant: forgets the raw transaction.
LoadTransferUnsigned(c) ==
    /\ call[c].pc = "load"
    /\ \E i \in call[c].todo :
          LET row == transfers[i]
              todo == call[c].todo \ {i}
              found == HasTransfer(transfers, i, Owner[c[1]]) /\ ~IsProcessing(row)
          IN /\ ListedFirst(call[c].todo, i)
             /\ \/ /\ found
                   /\ call' = [call EXCEPT ![c] =
                         [@ EXCEPT !.pc = IF todo = {} THEN "fund" ELSE "mark",
                                   !.todo = todo,
                                   !.mem[i] = [row EXCEPT !.status = "queued"]]]
                \/ (~found \/ "db" \in Faults) /\ Return(c)
    /\ UNCHANGED <<transfers, chain, paidFor, foreign, draft, job, watch, seen>>

\* Its SELECT, and the checks on the row it returns.
LoadTransfer(c) ==
    /\ call[c].pc = "load"
    /\ \E i \in call[c].todo :
          LET row == transfers[i]
              todo == call[c].todo \ {i}
              found == HasTransfer(transfers, i, Owner[c[1]]) /\ ~IsProcessing(row)
          IN /\ ListedFirst(call[c].todo, i)
             /\ \/ /\ found
                   /\ call' = [call EXCEPT ![c] =
                         [@ EXCEPT !.pc = IF todo = {} THEN "fund" ELSE "mark",
                                   !.todo = todo,
                                   !.mem[i] = [row EXCEPT !.raw = i, !.status = "queued"]]]
                \/ (~found \/ "db" \in Faults) /\ Return(c)
    /\ UNCHANGED <<transfers, chain, paidFor, foreign, draft, job, watch, seen>>

\* topUpEthBalance: the nonce of the bank's transaction is read first.
ReadBankNonce(c) ==
    /\ call[c].pc = "fund"
    /\ \/ \E n \in 0 .. MaxTopUps - 1 :
             /\ IsPendingNonce(BankNonces, n)
             /\ call' = [call EXCEPT ![c] = [@ EXCEPT !.pc = "send", !.nonce = n]]
       \/ "rpc" \in Faults /\ Reject(c)
    /\ UNCHANGED <<transfers, chain, paidFor, foreign, draft, job, watch, seen>>

TopUpOf(c) == <<call[c].nonce, "ethtopup">>

\* Gas price, balance and chain id are read in the same step as the send.
SendTopUp(c) ==
    /\ call[c].pc = "send"
    /\ \/ /\ ~Known(TopUpOf(c))
          /\ Accept(TopUpOf(c))
          /\ paidFor' = [paidFor EXCEPT ![TopUpOf(c)] = c[1]]
          /\ \/ Goto(c, "record", {})
             \/ "lost" \in Faults /\ Reject(c)
       \/ /\ Known(TopUpOf(c)) \/ Faults \cap {"rpc", "funds"} # {}
          /\ Reject(c)
          /\ UNCHANGED <<chain, paidFor>>
    /\ UNCHANGED <<transfers, foreign, draft, job, watch, seen>>

RecordTopUp(c) ==
    /\ call[c].pc = "record"
    /\ \/ /\ transfers' = CreateEthTransfer(transfers, TopUpOf(c))
          /\ Goto(c, "save", {})
       \/ "db" \in Faults /\ Reject(c) /\ UNCHANGED transfers
    /\ UNCHANGED <<chain, paidFor, foreign, draft, job, watch, seen>>

Linked(mem, t) ==
    [i \in TokenId |-> IF i \in Loaded(mem) THEN [mem[i] EXCEPT !.topUp = t] ELSE NoRow]

SaveQueued(c) ==
    /\ call[c].pc = "save"
    /\ \/ transfers' = UpdateTransfers(transfers, Linked(call[c].mem, TopUpOf(c)))
       \/ "db" \in Faults /\ UNCHANGED transfers
    /\ Return(c)
    /\ UNCHANGED <<chain, paidFor, foreign, draft, job, watch, seen>>

-----------------------------------------------------------------------------
(* The goroutines that end a top-up: makeNewTransactionFromTx and            *)
(* monitorTopUpTransactions, then CompleteTransfers or FailEthTransfer.      *)

TopUp(j) == j[2]
JobTo(j, pc, todo) == job' = [job EXCEPT ![j] = [@ EXCEPT !.pc = pc, !.todo = todo]]
End(j) == job' = [job EXCEPT ![j] = IdleJob]

\* Where the receipt of the top-up sends the goroutine.
ByReceipt(j) == JobTo(j, IF chain[TopUp(j)] = "reverted" THEN "revert" ELSE "queue", {})

\* Mutant: acts on a transaction that is not in a block.
ListenerFindsPooled(j) ==
    /\ j[1] = "listen" /\ job[j].pc = "idle"
    /\ TopUp(j) \in TxHasQueuedTransfers(transfers, TopUp(j))
    /\ JobTo(j, "receipt", {})
    /\ UNCHANGED <<transfers, chain, paidFor, foreign, draft, call, watch, seen>>

\* The listener reads a block with a top-up whose row is pending.
ListenerFinds(j) ==
    /\ j[1] = "listen" /\ job[j].pc = "idle"
    /\ InBlock(TopUp(j))
    /\ TopUp(j) \in TxHasQueuedTransfers(transfers, TopUp(j))
    /\ JobTo(j, "receipt", {})
    /\ UNCHANGED <<transfers, chain, paidFor, foreign, draft, call, watch, seen>>

\* Without a receipt the listener completes the transfers all the same.
ListenerReadsReceipt(j) ==
    /\ job[j].pc = "receipt"
    /\ ByReceipt(j) \/ ("rpc" \in Faults /\ JobTo(j, "queue", {}))
    /\ UNCHANGED <<transfers, chain, paidFor, foreign, draft, call, watch, seen>>

MonitorFinds(j) ==
    /\ j[1] = "monitor" /\ job[j].pc = "idle"
    /\ TopUp(j) \in PendingTopUps(transfers)
    /\ JobTo(j, "check", {})
    /\ UNCHANGED <<transfers, chain, paidFor, foreign, draft, call, watch, seen>>

\* Mutant: ignores isPending.
MonitorChecksNothing(j) ==
    /\ job[j].pc = "check"
    /\ \/ ByReceipt(j)
       \/ (~InBlock(TopUp(j)) \/ "rpc" \in Faults) /\ End(j)
    /\ UNCHANGED <<transfers, chain, paidFor, foreign, draft, call, watch, seen>>

\* Mutant: fails a top-up that has no receipt yet.
MonitorChecksFailing(j) ==
    /\ job[j].pc = "check"
    /\ \/ InBlock(TopUp(j)) /\ ByReceipt(j)
       \/ ~InBlock(TopUp(j)) /\ JobTo(j, "revert", {})
       \/ "rpc" \in Faults /\ End(j)
    /\ UNCHANGED <<transfers, chain, paidFor, foreign, draft, call, watch, seen>>

MonitorChecks(j) ==
    /\ job[j].pc = "check"
    /\ \/ InBlock(TopUp(j)) /\ ByReceipt(j)
       \/ (~InBlock(TopUp(j)) \/ "rpc" \in Faults) /\ End(j)
    /\ UNCHANGED <<transfers, chain, paidFor, foreign, draft, call, watch, seen>>

LoadQueued(j) ==
    /\ job[j].pc = "queue"
    /\ LET rows == QueuedTransfersFor(transfers, TopUp(j))
       IN \/ /\ rows # {}
             /\ job' = [job EXCEPT ![j] =
                   [pc |-> "start", todo |-> rows,
                    mem |-> [i \in TokenId |-> IF i \in rows THEN transfers[i] ELSE NoRow]]]
          \/ (rows = {} \/ "db" \in Faults) /\ End(j)
    /\ UNCHANGED <<transfers, chain, paidFor, foreign, draft, call, watch, seen>>

\* A failure of StartEthTransferProcessing is only logged.
StartProcessing(j) ==
    /\ job[j].pc = "start"
    /\ \/ transfers' = StartEthTransferProcessing(transfers, TopUp(j))
       \/ "db" \in Faults /\ UNCHANGED transfers
    /\ JobTo(j, "balance", job[j].todo)
    /\ UNCHANGED <<chain, paidFor, foreign, draft, call, watch, seen>>

\* The top-up pays exactly the gas of its pair: it does not last when another
\* goroutine has sent a row of it already.  ETH from elsewhere may do too.
CheckBalance(j) ==
    /\ job[j].pc = "balance"
    /\ \/ JobTo(j, "send", job[j].todo)
       \/ /\ \/ chain[TopUp(j)] = "reverted"
             \/ \E i \in job[j].todo : InBlock(i)
             \/ Faults \cap {"rpc", "funds"} # {}
          /\ JobTo(j, "fail", job[j].todo)
    /\ UNCHANGED <<transfers, chain, paidFor, foreign, draft, call, watch, seen>>

\* Mutant: no ORDER BY.
AnyNonce(j, i) == i \in job[j].todo

LowestNonce(j, i) ==
    i \in job[j].todo /\ \A k \in job[j].todo : job[j].mem[i].nonce <= job[j].mem[k].nonce

\* WriteTransferError for the rows in todo, then the goroutine ends.
FailTransfers(j) ==
    /\ job[j].pc = "fail"
    /\ \E i \in job[j].todo :
          LET todo == job[j].todo \ {i}
          IN /\ LowestNonce(j, i)
             /\ \/ transfers' = WriteTransferError(transfers, i)
                \/ "db" \in Faults /\ UNCHANGED transfers
             /\ IF todo = {} THEN End(j) ELSE JobTo(j, "fail", todo)
    /\ UNCHANGED <<chain, paidFor, foreign, draft, call, watch, seen>>

\* Mutant: does not keep the hash.
SendTransferUnhashed(j) ==
    /\ job[j].pc = "send"
    /\ \E i \in job[j].todo :
          LET todo == job[j].todo \ {i}
              row == job[j].mem[i]
              tx == row.raw
          IN /\ LowestNonce(j, i)
             /\ \/ /\ Acceptable(tx) /\ Accept(tx)
                   /\ job' = [job EXCEPT ![j] =
                         [@ EXCEPT !.pc = IF todo = {} THEN "settle" ELSE "send",
                                   !.todo = todo,
                                   !.mem[i] = [row EXCEPT !.status = "pending"]]]
                \/ /\ "lost" \in Faults
                   /\ Acceptable(tx) /\ Accept(tx)
                   /\ JobTo(j, "fail", {i})
                \/ /\ ~Acceptable(tx) \/ Faults \cap {"rpc", "funds"} # {}
                   /\ JobTo(j, "fail", {i})
                   /\ UNCHANGED chain
    /\ UNCHANGED <<transfers, paidFor, foreign, draft, call, watch, seen>>

\* Mutant: one error fails every row.
SendTransferAllOrNothing(j) ==
    /\ job[j].pc = "send"
    /\ \E i \in job[j].todo :
          LET todo == job[j].todo \ {i}
              row == job[j].mem[i]
              tx == row.raw
          IN /\ LowestNonce(j, i)
             /\ \/ /\ Acceptable(tx) /\ Accept(tx)
                   /\ job' = [job EXCEPT ![j] =
                         [@ EXCEPT !.pc = IF todo = {} THEN "settle" ELSE "send",
                                   !.todo = todo,
                                   !.mem[i] = [row EXCEPT !.status = "pending", !.hash = tx]]]
                \/ /\ "lost" \in Faults
                   /\ Acceptable(tx) /\ Accept(tx)
                   /\ JobTo(j, "fail", Loaded(job[j].mem))
                \/ /\ ~Acceptable(tx) \/ Faults \cap {"rpc", "funds"} # {}
                   /\ JobTo(j, "fail", Loaded(job[j].mem))
                   /\ UNCHANGED chain
    /\ UNCHANGED <<transfers, paidFor, foreign, draft, call, watch, seen>>

\* eth_sendRawTransaction with the raw transaction of the row; the first error
\* ends the loop, and nothing that was sent before it is saved.
SendTransfer(j) ==
    /\ job[j].pc = "send"
    /\ \E i \in job[j].todo :
          LET todo == job[j].todo \ {i}
              row == job[j].mem[i]
              tx == row.raw
          IN /\ LowestNonce(j, i)
             /\ \/ /\ Acceptable(tx) /\ Accept(tx)
                   /\ job' = [job EXCEPT ![j] =
                         [@ EXCEPT !.pc = IF todo = {} THEN "settle" ELSE "send",
                                   !.todo = todo,
                                   !.mem[i] = [row EXCEPT !.status = "pending", !.hash = tx]]]
                \/ /\ "lost" \in Faults
                   /\ Acceptable(tx) /\ Accept(tx)
                   /\ JobTo(j, "fail", {i})
                \/ /\ ~Acceptable(tx) \/ Faults \cap {"rpc", "funds"} # {}
                   /\ JobTo(j, "fail", {i})
                   /\ UNCHANGED chain
    /\ UNCHANGED <<transfers, paidFor, foreign, draft, call, watch, seen>>

CompleteTopUp(j) ==
    /\ job[j].pc = "settle"
    /\ \/ transfers' = CompleteTransfer(transfers, TopUp(j), NULL)
       \/ "db" \in Faults /\ UNCHANGED transfers
    /\ JobTo(j, "save", {})
    /\ UNCHANGED <<chain, paidFor, foreign, draft, call, watch, seen>>

\* Mutant: saves again what was saved.
SavePendingTwice(j) ==
    /\ job[j].pc = "save"
    /\ \/ transfers' = UpdateTransfers(transfers, job[j].mem)
       \/ "db" \in Faults /\ UNCHANGED transfers
    /\ End(j) \/ UNCHANGED job
    /\ UNCHANGED <<chain, paidFor, foreign, draft, call, watch, seen>>

\* Mutant: does not save.
SavePendingNever(j) ==
    /\ job[j].pc = "save"
    /\ End(j)
    /\ UNCHANGED <<transfers, chain, paidFor, foreign, draft, call, watch, seen>>

SavePending(j) ==
    /\ job[j].pc = "save"
    /\ \/ transfers' = UpdateTransfers(transfers, job[j].mem)
       \/ "db" \in Faults /\ UNCHANGED transfers
    /\ End(j)
    /\ UNCHANGED <<chain, paidFor, foreign, draft, call, watch, seen>>

\* FailEthTransfer: two statements outside a database transaction.
FailTopUp(j) ==
    /\ job[j].pc = "revert"
    /\ \/ /\ transfers' = WriteTransferError(transfers, TopUp(j))
          /\ JobTo(j, "revertLinked", {})
       \/ "db" \in Faults /\ End(j) /\ UNCHANGED transfers
    /\ UNCHANGED <<chain, paidFor, foreign, draft, call, watch, seen>>

FailLinked(j) ==
    /\ job[j].pc = "revertLinked"
    /\ \/ transfers' = FailLinkedTransfers(transfers, TopUp(j))
       \/ "db" \in Faults /\ UNCHANGED transfers
    /\ End(j)
    /\ UNCHANGED <<chain, paidFor, foreign, draft, call, watch, seen>>

-----------------------------------------------------------------------------
(* The goroutines that complete a token transfer: Listen and monitorEvents.  *)

\* The contract emits a Transfer event only when the transaction succeeds.
ListenerSeesEvent(i) ==
    /\ chain[i] = "mined" /\ i \notin seen
    /\ seen' = seen \cup {i}
    /\ \/ transfers' = CompleteTransfer(transfers, NULL, i)
       \/ "db" \in Faults /\ UNCHANGED transfers
    /\ UNCHANGED <<chain, paidFor, foreign, draft, call, job, watch>>

WatchPending(i) ==
    /\ i \in PendingTransfers(transfers)
    /\ watch' = watch \cup {transfers[i].hash}
    /\ UNCHANGED <<transfers, chain, paidFor, foreign, draft, call, job, seen>>

\* Mutant: ignores isPending.
CheckPendingNothing(hash) ==
    /\ hash \in watch
    /\ watch' = watch \ {hash}
    /\ \/ /\ hash # NULL
          /\ transfers' = CompleteTransfer(transfers, NULL, hash)
       \/ /\ hash = NULL \/ ~InBlock(hash) \/ Faults \cap {"rpc", "db"} # {}
          /\ UNCHANGED transfers
    /\ UNCHANGED <<chain, paidFor, foreign, draft, call, job, seen>>

\* Mutant: reads isPending the wrong way round.
CheckPendingSwapped(hash) ==
    /\ hash \in watch
    /\ watch' = watch \ {hash}
    /\ \/ /\ hash # NULL /\ ~InBlock(hash)
          /\ transfers' = CompleteTransfer(transfers, NULL, hash)
       \/ /\ hash = NULL \/ InBlock(hash) \/ Faults \cap {"rpc", "db"} # {}
          /\ UNCHANGED transfers
    /\ UNCHANGED <<chain, paidFor, foreign, draft, call, job, seen>>

\* TransactionByHash: in a block or not; the receipt is not read.
CheckPending(hash) ==
    /\ hash \in watch
    /\ watch' = watch \ {hash}
    /\ \/ /\ hash # NULL /\ InBlock(hash)
          /\ transfers' = CompleteTransfer(transfers, NULL, hash)
       \/ /\ hash = NULL \/ ~InBlock(hash) \/ Faults \cap {"rpc", "db"} # {}
          /\ UNCHANGED transfers
    /\ UNCHANGED <<chain, paidFor, foreign, draft, call, job, seen>>

-----------------------------------------------------------------------------

\* Handlers and goroutines are gone; the table and the chain are still there.
\* Events of transactions mined before the start are not watched any more.
Restart ==
    /\ "restart" \in Faults
    /\ draft' = [p \in Pair |->
          IF draft[p].pc = "idle" THEN draft[p] ELSE [draft[p] EXCEPT !.pc = "done"]]
    /\ call' = [c \in ConfirmCall |->
          IF call[c].pc = "idle" THEN call[c] ELSE [IdleCall EXCEPT !.pc = "done"]]
    /\ job' = [j \in Job |-> IdleJob]
    /\ watch' = {}
    /\ seen' = seen \cup {i \in TokenId : chain[i] = "mined"}
    /\ UNCHANGED <<transfers, chain, paidFor, foreign>>

Environment ==
    \/ \E i \in Id : Mine(i)
    \/ \E u \in User : ForeignTransaction(u)
    \/ Restart

CreateTransfer(p) ==
    ClearUnsigned(p) \/ ReadUserNonce(p) \/ InsertTransfers(p) \/ AbortCreateTransfer(p)

ConfirmTransfer(c) ==
    \/ StartConfirm(c) \/ Validate(c) \/ RejectTransfer(c)
    \/ MarkConfirming(c) \/ LoadTransfer(c)
    \/ ReadBankNonce(c) \/ SendTopUp(c) \/ RecordTopUp(c) \/ SaveQueued(c)

CompleteTransfers(j) ==
    \/ LoadQueued(j) \/ StartProcessing(j) \/ CheckBalance(j) \/ FailTransfers(j)
    \/ SendTransfer(j) \/ CompleteTopUp(j) \/ SavePending(j)

FailEthTransfer(j) == FailTopUp(j) \/ FailLinked(j)

EndTopUp(j) ==
    \/ ListenerFinds(j) \/ ListenerReadsReceipt(j)
    \/ MonitorFinds(j) \/ MonitorChecks(j)
    \/ CompleteTransfers(j) \/ FailEthTransfer(j)

MonitorEvents ==
    \/ \E i \in TokenId : WatchPending(i)
    \/ \E hash \in watch : CheckPending(hash)

Next ==
    \/ Environment
    \/ \E p \in Pair : CreateTransfer(p)
    \/ \E c \in ConfirmCall : ConfirmTransfer(c)
    \/ \E j \in Job : EndTopUp(j)
    \/ \E i \in TokenId : ListenerSeesEvent(i)
    \/ MonitorEvents

Spec == Init /\ [][Next]_vars

-----------------------------------------------------------------------------
(* Properties *)

\* A signed transaction reaches the node only after a top-up for its own pair
\* is in a block: CompleteTransfers is called by those who saw it there.
FundedBeforeBroadcast ==
    \A i \in TokenId : Known(i) =>
        \E t \in TopUpId : paidFor[t] = i[1] /\ InBlock(t)

\* A pair that a later CreateTransfer cleared as unsigned is never broadcast,
\* though ConfirmTransfer may be working on it at the same time.
ClearedNeverBroadcast ==
    \A i \in TokenId : transfers[i].deleted => ~Known(i)

\* What CompleteTransfers selects can be sent: the raw transaction it takes the
\* address of is there, and so is the top-up row that was paid for this pair.
QueuedIsReady ==
    \A i \in TokenId : transfers[i].status = "queued" =>
        /\ transfers[i].raw = i
        /\ \E t \in TopUpId : /\ transfers[i].topUp = t /\ paidFor[t] = i[1]
                              /\ transfers[t].status # "absent"

\* A row that reads "pending" names the hash of its transaction, which the node
\* has: monitorEvents can find out what became of it.
PendingIsBroadcast ==
    \A i \in TokenId : transfers[i].status \in {"pending", "completed"} =>
        transfers[i].hash = i /\ Known(i)

\* No row reads "completed" before its transaction is in a block.
CompletedIsInBlock ==
    \A i \in TokenId : transfers[i].status = "completed" => InBlock(i)

\* A top-up in the pool is neither failed nor acted upon ("do not fail transfer
\* because we have tx that is still in map pool here, just try later"), and one
\* that was mined successfully is never failed.
TopUpSettledInBlock ==
    \A t \in TopUpId :
        /\ transfers[t].status \in {"processing", "completed", "failed"} => InBlock(t)
        /\ transfers[t].status = "failed" => chain[t] = "reverted"

\* The pair has been confirmed at most once so far.
Once(p) ==
    \A c, d \in {p} \X Attempt : call[c].pc # "idle" /\ call[d].pc # "idle" => c = d

\* The user whose tax is taken for a transfer that the node does not have has been
\* told that the transfer failed. It happens: one goroutine fails to send the
\* transfer, the other one then loads the tax alone and sends it. A repeated
\* confirmation may set the row back.
TaxAloneIsTold ==
    \A p \in Pair :
        Known(<<p, "tax">>) /\ ~Known(<<p, "transfer_token">>) =>
            transfers[<<p, "transfer_token">>].status = "failed" \/ ~Once(p)

\* "do not allow double transfers": the bank pays at most once for a pair.
NoDoubleTopUp ==
    \A s, t \in TopUpId : paidFor[s] = paidFor[t] /\ paidFor[s] # NULL => s = t

\* "failed to send a raw transaction" is written for rows that were not sent.
FailedIsNotBroadcast ==
    \A i \in TokenId : transfers[i].status = "failed" => ~Known(i)

\* Who saves late does not take a completed row back to "pending" or "queued": what
\* is written over it is the error of the slower of two goroutines, or else it is
\* written by a repeated confirmation of the pair.
CompletedIsSettled ==
    [][\A i \in TokenId : transfers[i].status = "completed" =>
          \/ transfers'[i].status \in {"completed", "failed"}
          \/ \E c \in {i[1]} \X Attempt : ConfirmTransfer(c)]_vars

\* Every queued transfer is completed or failed in the end.
TransferSettles ==
    \A i \in TokenId :
        transfers[i].status = "queued" ~> transfers[i].status \in {"completed", "failed"}

\* "send raw transactions and update statuses": what was sent is recorded.
BroadcastIsRecorded ==
    \A i \in TokenId : Known(i) ~> transfers[i].hash = i

\* Handlers run on, the monitors come round again, the chain takes what is in
\* the pool.  The subscriptions may miss anything.
Fairness ==
    /\ \A i \in Id : WF_vars(Mine(i))
    /\ \A c \in ConfirmCall : WF_vars(call[c].pc # "idle" /\ ConfirmTransfer(c))
    /\ \A j \in Job : WF_vars((job[j].pc # "idle" \/ j[1] = "monitor") /\ EndTopUp(j))
    /\ \A i \in TokenId : WF_vars(WatchPending(i)) /\ WF_vars(CheckPending(i))

LiveSpec == Spec /\ Fairness

\* A client that waits for the answer before it confirms the pair again.
OneAtATime ==
    \A c, d \in ConfirmCall :
        c[1] = d[1] /\ {call[c].pc, call[d].pc} \cap {"idle", "done"} = {} => c = d

PatientSpec == Init /\ [][Next /\ OneAtATime']_vars
=============================================================================
