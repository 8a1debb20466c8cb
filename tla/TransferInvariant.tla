------------------------- MODULE TransferInvariant -------------------------
(***************************************************************************)
(* The inductive invariant behind the safety properties of TransferService *)
(* that hold whatever faults occur and however many calls are made: what   *)
(* the table, the handlers' memory and the node know of one another.       *)
(***************************************************************************)
EXTENDS TransferService

\* The top-up t was sent, for the pair of the token row i.
LinkedTo(i, t) == t \in TopUpId /\ Known(t) /\ paidFor[t] = i[1]

\* The hash of a token row is its own, and the node has the transaction.
HashOK(i, row) == row.hash = NULL \/ (row.hash = i /\ Known(i))

\* The row has been handed to a confirmation.
Taken(i) == transfers[i].status \notin {"absent", "new"}

\* A token row: what was signed, what was sent and what it is waiting for.
TokenRowOK(i) ==
    /\ ~Taken(i) => /\ ~Known(i) /\ transfers[i].hash = NULL
                    /\ transfers[i].raw = NULL /\ transfers[i].topUp = NULL
    /\ transfers[i].deleted => transfers[i].status = "new"
    /\ HashOK(i, transfers[i])
    /\ transfers[i].raw \in {NULL, i}
    /\ transfers[i].topUp # NULL =>
          LinkedTo(i, transfers[i].topUp) /\ transfers[transfers[i].topUp].status # "absent"
    /\ transfers[i].status = "queued" => transfers[i].raw = i /\ transfers[i].topUp # NULL
    /\ transfers[i].status \in {"pending", "completed"} => transfers[i].hash = i
    /\ transfers[i].status = "completed" => InBlock(i)

TopUpRowOK(t) ==
    /\ transfers[t].topUp = NULL /\ transfers[t].hash \in {NULL, t}
    /\ transfers[t].status \in {"processing", "completed", "failed"} => InBlock(t)
    /\ transfers[t].status = "failed" => chain[t] = "reverted"

\* Rows are inserted by the call that has not returned yet.
DraftOK(p) == draft[p].pc # "done" => \A i \in Legs(p) : transfers[i].status = "absent"

CallRowOK(i, row, p) ==
    /\ i \in Legs(p) /\ Taken(i)
    /\ row.status = "queued" /\ row.raw = i /\ HashOK(i, row)

\* What a confirmation holds in memory belongs to its pair.
CallOK(c) ==
    /\ call[c].todo \subseteq Legs(c[1])
    /\ call[c].pc \notin {"idle", "done"} =>
          \A i \in Legs(c[1]) : transfers[i].status # "absent"
    /\ call[c].pc = "load" =>
          \A i \in call[c].todo :
             ListedFirst(call[c].todo, i) => Taken(i) \/ transfers[i].deleted
    /\ \A i \in Loaded(call[c].mem) : CallRowOK(i, call[c].mem[i], c[1])
    /\ call[c].pc \in {"record", "save"} => Known(TopUpOf(c)) /\ paidFor[TopUpOf(c)] = c[1]
    /\ call[c].pc = "save" => transfers[TopUpOf(c)].status # "absent"

JobRowOK(i, row, t) ==
    /\ Taken(i)
    /\ row.status \in {"queued", "pending"}
    /\ row.raw = i /\ HashOK(i, row)
    /\ row.status = "pending" => row.hash = i
    /\ row.topUp = t /\ paidFor[t] = i[1]
    /\ transfers[t].status # "absent"

\* A goroutine past its receipt works on a mined top-up and on rows it paid for.
JobOK(j) ==
    /\ job[j].pc \notin {"idle", "check"} => InBlock(TopUp(j))
    /\ job[j].pc \in {"revert", "revertLinked"} => chain[TopUp(j)] = "reverted"
    /\ job[j].todo \subseteq Loaded(job[j].mem)
    /\ Loaded(job[j].mem) # {} => job[j].pc \notin {"idle", "check"}
    /\ \A i \in Loaded(job[j].mem) : JobRowOK(i, job[j].mem[i], TopUp(j))

IInv ==
    /\ TypeOK
    /\ FundedBeforeBroadcast
    /\ \A i \in TokenId : TokenRowOK(i)
    /\ \A t \in TopUpId : TopUpRowOK(t)
    /\ \A p \in Pair : DraftOK(p)
    /\ \A c \in ConfirmCall : CallOK(c)
    /\ \A j \in Job : JobOK(j)
    /\ watch \subseteq TokenId

-----------------------------------------------------------------------------
(* What a goroutine has sent and not saved, and what it leaves to another one *)
(* that works on the same top-up.                                            *)

TokenOf(p) == <<p, "transfer_token">>
TaxOf(p) == <<p, "tax">>

\* A row waits for a top-up after a confirmation has returned, and is sent later.
LinkOK(i) ==
    /\ transfers[i].topUp # NULL => \E c \in {i[1]} \X Attempt : call[c].pc = "done"
    /\ Known(i) => transfers[i].topUp # NULL

\* The tax has the nonce after the token transfer's.
NonceOK(p) ==
    transfers[TaxOf(p)].status # "absent" =>
        transfers[TaxOf(p)].nonce = transfers[TokenOf(p)].nonce + 1

\* A confirmation that has paid holds both rows of its pair.
CallHolds(c) == call[c].pc \in {"record", "save"} => Legs(c[1]) \subseteq Loaded(call[c].mem)

\* A row that a goroutine has sent and not saved: no table, no confirmation and no
\* other goroutine knows its hash.
Unsaved(j, i) ==
    /\ transfers[i].hash = NULL
    /\ \A c \in ConfirmCall : call[c].mem[i].hash = NULL
    /\ \A k \in Job : job[k].mem[i].status = "pending" => k = j

Sending == {"start", "balance", "send"}

\* What a goroutine holds is sent or still to be sent.
SentOK(j) ==
    /\ job[j].pc \in {"settle", "save"} => job[j].todo = {}
    /\ \A i \in Loaded(job[j].mem) :
          /\ transfers[i].topUp # NULL
          /\ job[j].mem[i].nonce = transfers[i].nonce
          /\ job[j].mem[i].status = "pending" => Unsaved(j, i)
          /\ job[j].pc \in Sending \cup {"settle", "save"} =>
                i \in job[j].todo \/ job[j].mem[i].status = "pending"

\* A goroutine that has the tax and not the transfer does not go before it.
TaxFollows(j, p) ==
    job[j].pc \in Sending /\ TaxOf(p) \in job[j].todo =>
        \/ TokenOf(p) \in job[j].todo \/ Known(TokenOf(p))
        \/ transfers[TokenOf(p)].status = "failed"

\* A pair that was confirmed once waits for one top-up, and says so until it is sent.
PairOK(p) ==
    /\ transfers[TokenOf(p)].topUp = transfers[TaxOf(p)].topUp
    /\ \A i \in Legs(p) : transfers[i].topUp # NULL /\ ~Known(i) =>
          transfers[i].status \in {"queued", "failed"}
    /\ \A j \in Job : \A i \in Legs(p) \cap Loaded(job[j].mem) : transfers[i].topUp = TopUp(j)
    /\ \A j \in Job : TaxFollows(j, p)
    /\ Known(TaxOf(p)) =>
          Known(TokenOf(p)) \/ transfers[TokenOf(p)].status = "failed"

RaceInv ==
    /\ \A i \in TokenId : LinkOK(i)
    /\ \A p \in Pair : NonceOK(p)
    /\ \A c \in ConfirmCall : CallHolds(c)
    /\ \A j \in Job : SentOK(j)
    /\ \A p \in Pair : Once(p) => PairOK(p)

-----------------------------------------------------------------------------
(* What the service promises, and that it keeps it. *)

\* What a row says to a client; the row of a cleared pair is not shown.
Told == [i \in TokenId |-> IF transfers[i].deleted THEN "cleared" ELSE transfers[i].status]

BecameOf == [i \in TokenId |-> chain[i]]

\* The bank's transactions for a pair, by what the node knows of them.
PaidPairs == {p \in Pair : \E t \in TopUpId : Known(t) /\ paidFor[t] = p}
FundedPairs == {p \in Pair : \E t \in TopUpId : InBlock(t) /\ paidFor[t] = p}

Gasless == INSTANCE GaslessTransfer WITH
    told <- Told, tx <- BecameOf, paid <- PaidPairs, funded <- FundedPairs

\* Handlers, scrapers and table together are the service of GaslessTransfer: they
\* pay only for pairs that were handed over as a whole, send only what is funded,
\* never touch a cleared pair again, and no write of a row that was loaded some
\* steps before tells more of a transaction than is true when it is written.
IsGasless == Gasless!GaslessSpec
=============================================================================
