---------------------------- MODULE TransferStore ----------------------------
(***************************************************************************)
(* The "transfers" table of the service's database: one operator per       *)
(* statement that app/storage/database/postgres.go runs on it.  A table is *)
(* a function from row ids to rows; a statement that writes maps a table   *)
(* to the next one, a statement that reads maps it to the matching ids.    *)
(*                                                                         *)
(* A call of CreateTransfer inserts two rows, the token transfer and the   *)
(* tax: together they are a Pair.  A row id is <<key, transfer_type>>,     *)
(* where the key is the pair or, for a top-up of the user's ETH balance,   *)
(* the nonce of the bank's transaction.  The hash of a transaction is      *)
(* written as the id of the row it was signed for.                         *)
(***************************************************************************)
EXTENDS Integers

CONSTANTS
    User,       \* wallet addresses, compared with LOWER(...) in every statement
    Bank,       \* the address of the service wallet that pays the top-ups
    Pair,       \* the pairs of rows CreateTransfer can insert
    Owner,      \* the from_address of each pair
    MaxTopUps,  \* bound: transactions the bank can send
    NULL        \* SQL NULL

TokenId == Pair \X {"transfer_token", "tax"}
TopUpId == (0 .. MaxTopUps - 1) \X {"ethtopup"}
Id == TokenId \cup TopUpId

ASSUME StoreAssumption ==
    /\ Bank \notin User
    /\ Owner \in [Pair -> User]
    /\ MaxTopUps \in Nat \ {0}
    /\ NULL \notin Id

\* "absent": no such row.
Status == {"absent", "new", "confirming", "queued", "pending",
           "processing", "completed", "failed"}

\* A column that refers to a row, or to a transaction by its hash.
Reference == Id \cup {NULL}

\* eth_transfer_id is the field topUp; deleted stands for deleted_at IS NOT NULL.
Row == [status : Status, nonce : Nat, deleted : BOOLEAN,
        hash : Reference, raw : Reference, topUp : Reference]

NoRow == [status |-> "absent", nonce |-> 0, deleted |-> FALSE,
          hash |-> NULL, raw |-> NULL, topUp |-> NULL]

From(i) == IF i \in TopUpId THEN Bank ELSE Owner[i[1]]

\* The row is there and not soft-deleted: every "... AND deleted_at IS NULL".
Live(T, i) == T[i].status # "absent" /\ ~T[i].deleted

SetStatus(T, S, status) ==
    [i \in Id |-> IF i \in S /\ Live(T, i) THEN [T[i] EXCEPT !.status = status]
                                           ELSE T[i]]

-----------------------------------------------------------------------------
(* Statements that write. *)

\* One database transaction inserts both rows; the tax has the next nonce.
CreateTransfers(T, p, nonce) ==
    [T EXCEPT ![<<p, "transfer_token">>] =
                   [NoRow EXCEPT !.status = "new", !.nonce = nonce],
              ![<<p, "tax">>] =
                   [NoRow EXCEPT !.status = "new", !.nonce = nonce + 1]]

\* Mutant: clears what has been confirmed as well.
ClearUnfinishedTransfers(T, u) ==
    [i \in Id |-> IF From(i) = u /\ T[i].status \in {"new", "confirming", "queued"}
                  THEN [T[i] EXCEPT !.deleted = TRUE] ELSE T[i]]

\* The statement has no "deleted_at IS NULL": it may date a deletion again.
ClearUnsignedTransfers(T, u) ==
    [i \in Id |-> IF From(i) = u /\ T[i].status = "new"
                  THEN [T[i] EXCEPT !.deleted = TRUE] ELSE T[i]]

\* The UPDATE of GetAndConfirmTransferByID: whatever the status was.
ConfirmTransferByID(T, i, u) ==
    SetStatus(T, {k \in {i} : From(k) = u}, "confirming")

\* One database transaction writes the rows a handler holds in memory.
UpdateTransfers(T, mem) ==
    [i \in Id |->
        IF i \in TokenId /\ Live(T, i) /\ mem[i] # NoRow
        THEN [T[i] EXCEPT !.hash = mem[i].hash, !.raw = mem[i].raw,
                          !.status = mem[i].status, !.topUp = mem[i].topUp]
        ELSE T[i]]

CreateEthTransfer(T, t) ==
    [T EXCEPT ![t] = [NoRow EXCEPT !.status = "pending", !.nonce = t[1], !.hash = t]]

\* By id or by hash: the callers leave the other one empty (here NULL), and in
\* SQL an empty string matches no row.
CompleteTransfer(T, id, hash) ==
    SetStatus(T, {i \in Id : i = id \/ (hash # NULL /\ T[i].hash = hash)}, "completed")

StartEthTransferProcessing(T, t) == SetStatus(T, {t}, "processing")

WriteTransferError(T, i) == SetStatus(T, {i}, "failed")

\* The second statement of FailEthTransfer; the first is WriteTransferError.
FailLinkedTransfers(T, t) == SetStatus(T, {i \in Id : T[i].topUp = t}, "failed")

-----------------------------------------------------------------------------
(* Statements that read. *)

\* The SELECT of GetAndConfirmTransferByID.
HasTransfer(T, i, u) == Live(T, i) /\ From(i) = u

QueuedTransfersFor(T, t) ==
    {i \in Id : Live(T, i) /\ T[i].topUp = t /\ T[i].status = "queued"}

IsNoncePending(T, nonce, u) ==
    \E i \in Id : /\ Live(T, i) /\ From(i) = u /\ T[i].nonce = nonce
                  /\ T[i].status \in {"queued", "pending"}

PendingTopUps(T) == {t \in TopUpId : Live(T, t) /\ T[t].status = "pending"}

PendingTransfers(T) == {i \in TokenId : Live(T, i) /\ T[i].status = "pending"}

TxHasQueuedTransfers(T, hash) == {t \in PendingTopUps(T) : T[t].hash = hash}

\* The rows a handler has loaded into memory.
Loaded(mem) == {i \in TokenId : mem[i] # NoRow}

\* The guard against double transfers, on a row in memory.
IsProcessing(row) == row.status \notin {"new", "confirming"}
=============================================================================
