--------------------------- MODULE TransactionLog ----------------------------
(***************************************************************************)
(* The transactions table and what GET /transactions makes of it. Several  *)
(* goroutines store the same transaction: the listener and the scan of     *)
(* events, the listener of blocks, the monitor of pending transfers. They  *)
(* know different things about it, and the first of them makes the row.    *)
(*                                                                         *)
(* All transactions here call the token contract. Those that the service   *)
(* sends have a row in the transfers table; how that row gets its hash is  *)
(* in TransferService and only summed up here. Rows and queries compare    *)
(* addresses in lower case, so that a row holds accounts here. Amounts,    *)
(* pages and the rows of taxes and top-ups, which the queries leave out,   *)
(* are left out.                                                           *)
(***************************************************************************)
EXTENDS Integers, FiniteSets, WalletCache

CONSTANTS
    Contract,  \* the address of the token contract
    Users,     \* addresses that may be registered
    Tx,        \* transactions that call the token contract
    From, To,  \* who gives and who gets the tokens
    Source,    \* which goroutines store
    MaxTime,   \* bound of the clock
    Faults     \* what may go wrong in the run

ASSUME LogAssumption ==
    /\ Contract \in Address /\ Account[Contract] = Contract
    /\ Users \subseteq Address
    /\ {From, To} \subseteq [Tx -> {a \in Address \ {Contract} : Account[a] = a}]
    /\ Source \subseteq {"event", "oldEvent", "block", "monitor"}
    /\ MaxTime \in Nat \ {0}
    /\ Faults \subseteq {"receipt",  \* the receipt or a block cannot be read
                         "query",    \* the query for a wallet fails
                         "db",       \* the INSERT fails
                         "revert",   \* a transaction is reverted
                         "restart"}  \* the service stops and starts

VARIABLES
    now,        \* the clock
    chain,      \* the time of each transaction's block (0: none) and its result
    transfers,  \* rows of the transfers table: status and date
    log,        \* rows of the transactions table
    task,       \* where each goroutine is with each transaction
    found,      \* what its query for a wallet has returned
    failed      \* history: transactions for which a call or statement failed

logVars == <<now, chain, transfers, log, task, found, failed>>
vars == <<logVars, walletVars>>

Task == Source \X Tx
Time == 0 .. MaxTime
NoRow == [type |-> "none"]
Row == [type : {"ethereum_tx", "transfer_token"}, from : Address, to : Address,
        time : Time, created : Time]

TypeOK ==
    /\ WalletTypeOK
    /\ now \in Time
    /\ chain \in [Tx -> [time : Time, ok : BOOLEAN]]
    /\ transfers \in [Tx -> [status : {"none", "queued", "pending", "completed"},
                             created : Time]]
    /\ log \in [Tx -> Row \cup {NoRow}]
    /\ task \in [Task -> {"idle", "cache", "store", "complete", "end"}]
    /\ found \in [Task -> SUBSET Address]
    /\ failed \subseteq Tx

Init ==
    /\ WalletInit
    /\ now = 1
    /\ chain = [t \in Tx |-> [time |-> 0, ok |-> TRUE]]
    /\ transfers = [t \in Tx |-> [status |-> "none", created |-> 0]]
    /\ log = [t \in Tx |-> NoRow]
    /\ task = [x \in Task |-> IF x[1] = "oldEvent" THEN "end" ELSE "idle"]
    /\ found = [x \in Task |-> {}]
    /\ failed = {}

Status(t) == transfers[t].status
Mined(t) == chain[t].time > 0
HasHash(t) == Status(t) \in {"pending", "completed"}

-----------------------------------------------------------------------------
(* The clock, the chain, users, and the transfers table. *)

Tick ==
    /\ now < MaxTime
    /\ now' = now + 1
    /\ UNCHANGED <<chain, transfers, log, task, found, failed, walletVars>>

\* One without a row in transfers was sent by its owner.
Mine(t) ==
    /\ ~Mined(t)
    /\ \E ok \in {TRUE} \cup {b \in {FALSE} : "revert" \in Faults} :
          chain' = [chain EXCEPT ![t] = [time |-> now, ok |-> ok]]
    /\ UNCHANGED <<now, transfers, log, task, found, failed, walletVars>>

Wallets ==
    /\ \E a \in Users : CreateWallet(a) \/ RegisterWallet(a)
    /\ UNCHANGED logVars

CacheExpires ==
    /\ \E a \in Address : Expire(a)
    /\ UNCHANGED logVars

\* A transfer is created, signed and paid for. Its sender has a wallet.
Queue(t) ==
    /\ Status(t) = "none" /\ ~Mined(t)
    /\ \E w \in wallets : Account[w] = From[t]
    /\ transfers' = [transfers EXCEPT ![t] = [status |-> "queued", created |-> now]]
    /\ UNCHANGED <<now, chain, log, task, found, failed, walletVars>>

\* It was sent, and its hash is saved: that may be after it was mined.
SavePending(t) ==
    /\ Status(t) = "queued"
    /\ transfers' = [transfers EXCEPT ![t].status = "pending"]
    /\ UNCHANGED <<now, chain, log, task, found, failed, walletVars>>

-----------------------------------------------------------------------------
(* The goroutines that store transactions. *)

At(s, t, pc) == task[<<s, t>>] = pc
Goes(s, t, pc) == task' = [task EXCEPT ![<<s, t>>] = pc]

\* Whose wallets a goroutine asks for. A block has only who called the contract.
Parties(s, t) == <<From[t], IF s = "block" THEN Contract ELSE To[t]>>

\* What it hears of; a reverted transaction has no events.
Hears(s, t) == Mined(t) /\ (s = "block" \/ chain[t].ok)

AskCache(s, t) ==
    /\ s # "monitor" /\ At(s, t, "idle") /\ Hears(s, t)
    /\ LET p == Parties(s, t)
       IN  /\ BothCached(p[1], p[2])
           /\ Goes(s, t, IF CachedAnswer(p[1], p[2]) THEN "store" ELSE "end")
    /\ UNCHANGED <<now, chain, transfers, log, found, failed, walletVars>>

AskTable(s, t) ==
    /\ s # "monitor" /\ At(s, t, "idle") /\ Hears(s, t)
    /\ LET p == Parties(s, t)
           w == ExistingWallet(p[1], p[2])
       IN  /\ ~BothCached(p[1], p[2])
           /\ \/ /\ \E f \in IF w = {} THEN {{}} ELSE {{a} : a \in w} :
                       found' = [found EXCEPT ![<<s, t>>] = f]
                 /\ UNCHANGED failed
              \/ /\ "query" \in Faults
                 /\ found' = [found EXCEPT ![<<s, t>>] = {}]
                 /\ failed' = failed \cup {t}
    /\ Goes(s, t, "cache")
    /\ UNCHANGED <<now, chain, transfers, log, walletVars>>

FillCache(s, t) ==
    /\ At(s, t, "cache")
    /\ LET p == Parties(s, t) IN Remember(p[1], p[2], found[<<s, t>>])
    /\ Goes(s, t, IF found[<<s, t>>] = {} THEN "end" ELSE "store")
    /\ found' = [found EXCEPT ![<<s, t>>] = {}]
    /\ UNCHANGED <<now, chain, transfers, log, failed, wallets, registering>>

\* Mutant: looks at transfers before they have a hash.
WatchQueued(s, t) ==
    /\ s = "monitor" /\ At(s, t, "idle")
    /\ Status(t) = "queued" /\ Mined(t)
    /\ Goes(s, t, "store")
    /\ UNCHANGED <<now, chain, transfers, log, found, failed, walletVars>>

\* The node says that it is in a block; nobody asks for its result.
Watch(s, t) ==
    /\ s = "monitor" /\ At(s, t, "idle")
    /\ Status(t) = "pending" /\ Mined(t)
    /\ Goes(s, t, "store")
    /\ UNCHANGED <<now, chain, transfers, log, found, failed, walletVars>>

\* What events, receipts and transfers know; and what a block alone knows.
TokenRow(t, time) ==
    [type |-> "transfer_token", from |-> From[t], to |-> To[t],
     time |-> time, created |-> now]
CallRow(t, time) == [TokenRow(t, time) EXCEPT !.type = "ethereum_tx", !.to = Contract]

\* Mutant: calls of the contract are not turned into transfers.
MakesCalls(s, t) ==
    CASE s \in {"event", "monitor"} -> TokenRow(t, 0)
      [] s = "oldEvent" -> TokenRow(t, chain[t].time)
      [] s = "block" -> CallRow(t, chain[t].time)

\* The row a goroutine makes. The log in the receipt turns the call in a block
\* into a transfer of tokens; the scan of events fetches the block for the time.
Makes(s, t) ==
    CASE s \in {"event", "monitor"} -> TokenRow(t, 0)
      [] s = "oldEvent" \/ (s = "block" /\ chain[t].ok) -> TokenRow(t, chain[t].time)
      [] s = "block" /\ ~chain[t].ok -> CallRow(t, chain[t].time)

\* ... and when the receipt or the block for it cannot be read.
MakesDespite(s, t) == IF s = "block" THEN CallRow(t, chain[t].time) ELSE TokenRow(t, 0)

\* Mutant: the last one makes the row.
Overwrite(old, new) == new

\* ON CONFLICT: the first one makes the row, a time is added.
OnConflict(old, new) ==
    IF old = NoRow THEN new
    ELSE IF new.time # 0 THEN [old EXCEPT !.time = new.time] ELSE old

Saves(t, row) == log' = [log EXCEPT ![t] = OnConflict(log[t], row)]

CreateTransaction(s, t) ==
    /\ At(s, t, "store")
    /\ \/ Saves(t, Makes(s, t)) /\ UNCHANGED failed
       \/ /\ "receipt" \in Faults /\ s \in {"oldEvent", "block"}
          /\ Saves(t, MakesDespite(s, t))
          /\ failed' = failed \cup {t}
       \/ "db" \in Faults /\ failed' = failed \cup {t} /\ UNCHANGED log
    /\ Goes(s, t, IF s \in {"event", "monitor"} THEN "complete" ELSE "end")
    /\ UNCHANGED <<now, chain, transfers, found, walletVars>>

\* By its hash: no row has it before SavePending. The monitor comes again.
CompleteTransfer(s, t) ==
    /\ At(s, t, "complete")
    /\ \/ /\ HasHash(t)
          /\ transfers' = [transfers EXCEPT ![t].status = "completed"]
       \/ /\ ~HasHash(t) \/ "db" \in Faults
          /\ UNCHANGED transfers
    /\ Goes(s, t, IF s = "monitor" THEN "idle" ELSE "end")
    /\ UNCHANGED <<now, chain, log, found, failed, walletVars>>

\* The cache and the goroutines are gone. What is in a block already is left to
\* the scans; that of old blocks does what the listener of blocks does.
Restart ==
    /\ "restart" \in Faults /\ now < MaxTime
    /\ now' = now + 1
    /\ task' = [x \in Task |-> IF x[1] = (IF Mined(x[2]) THEN "event" ELSE "oldEvent")
                              THEN "end" ELSE "idle"]
    /\ found' = [x \in Task |-> {}]
    /\ cache' = [a \in Address |-> "unknown"]
    /\ registering' = {}
    /\ UNCHANGED <<chain, transfers, log, failed, wallets>>

Step(s, t) ==
    \/ AskCache(s, t) \/ AskTable(s, t) \/ FillCache(s, t) \/ Watch(s, t)
    \/ CreateTransaction(s, t) \/ CompleteTransfer(s, t)

Next ==
    \/ Tick \/ Wallets \/ CacheExpires \/ Restart
    \/ \E t \in Tx : Mine(t) \/ Queue(t) \/ SavePending(t) \/ \E s \in Source : Step(s, t)

Spec == Init /\ [][Next]_vars

-----------------------------------------------------------------------------
(* The query of GET /transactions, without order and pages. *)

Stored(t) == log[t] # NoRow /\ log[t].type = "transfer_token"
TimeOf(row) == IF row.time # 0 THEN row.time ELSE row.created

\* Mutant: shows when the transfer was asked for.
SentAsAsked(t) ==
    [tx |-> t, by |-> IF HasHash(t) THEN "hash" ELSE "id",
     status |-> IF HasHash(t) /\ log[t] # NoRow THEN "completed" ELSE Status(t),
     from |-> From[t], to |-> To[t], direction |-> "out",
     type |-> IF HasHash(t) /\ log[t] # NoRow THEN log[t].type ELSE "transfer_token",
     time |-> transfers[t].created]

\* A transfer of the service, with what its row in transactions says of it.
Sent(t) ==
    LET row == transfers[t]
        joined == HasHash(t) /\ log[t] # NoRow
    IN  [tx |-> t, by |-> IF HasHash(t) THEN "hash" ELSE "id",
         status |-> IF joined THEN "completed" ELSE row.status,
         from |-> From[t], to |-> To[t], direction |-> "out",
         type |-> IF joined THEN log[t].type ELSE "transfer_token",
         time |-> IF joined THEN TimeOf(log[t]) ELSE row.created]

Logged(t, direction) ==
    [tx |-> t, by |-> "hash", status |-> "completed", from |-> log[t].from,
     to |-> log[t].to, direction |-> direction, type |-> log[t].type,
     time |-> TimeOf(log[t])]

\* The UNION of three queries; only two of them look at after.
TransactionHistory(address, after) ==
    LET a == Account[address]
        StoredSince == {t \in Tx : Stored(t) /\ log[t].time >= after}
    IN  {Sent(t) : t \in {u \in Tx : From[u] = a /\ Status(u) # "none"}}
        \cup {Logged(t, "in") : t \in {u \in StoredSince : log[u].to = a}}
        \cup {Logged(t, "out") : t \in {u \in StoredSince : log[u].from = a}}

\* DetectDirection: who sends tokens to himself gets them.
Direction(t, a) == IF log[t].to = a THEN "in" ELSE "out"

\* Mutant: knows the transfers of the service only.
LookIntoTransfers(a, t, by) ==
    IF Status(t) # "none" /\ From[t] = a /\ (by = "id" \/ HasHash(t))
    THEN {[Sent(t) EXCEPT !.by = "id", !.status = Status(t)]}
    ELSE {}

\* GetTransactionOrTransfer: one row at most, of transactions if there is one. A
\* row of transfers comes under its id, whatever it was asked for by.
GetTransactionOrTransfer(a, t, by) ==
    IF by = "hash" /\ log[t] # NoRow /\ a \in {log[t].from, log[t].to}
    THEN {Logged(t, Direction(t, a))}
    ELSE IF Status(t) # "none" /\ From[t] = a /\ (by = "id" \/ HasHash(t))
    THEN {[tx |-> t, by |-> "id", status |-> Status(t), from |-> From[t], to |-> To[t],
           direction |-> "out", type |-> "transfer_token", time |-> transfers[t].created]}
    ELSE {}

\* GET /transactions/:hash. The receipt of what comes with a hash tells the result.
GetTransaction(address, t, by) ==
    LET result == IF chain[t].ok THEN "confirmed" ELSE "failed"
    IN  {IF i.by = "hash" THEN [i EXCEPT !.status = result] ELSE i :
            i \in GetTransactionOrTransfer(Account[address], t, by)}

-----------------------------------------------------------------------------
(* Properties *)

\* Whoever comes first, a row of a successful transfer names its parties, and
\* once it is there only its time may be added: "update time only".
RowOnlyGainsTime ==
    [][\A t \in Tx : log[t] # NoRow =>
          log'[t] = log[t] \/ (log[t].time = 0 /\ log'[t] = [log[t] EXCEPT !.time = chain[t].time])]_vars

\* A transaction of a registered wallet is ignored only when the cache says "no"
\* of both parties, or the query fails: never on the word of one entry.
IgnoredOnlyByCache ==
    [][\A s \in Source, t \in Tx :
          LET p == Parties(s, t)
              ignored == At(s, t, "end") \/ (At(s, t, "cache") /\ found[<<s, t>>] = {})
          IN  At(s, t, "idle") /\ ignored' /\ now' = now =>
                 \/ ExistingWallet(p[1], p[2]) = {}
                 \/ cache[p[1]] = "no" /\ cache[p[2]] = "no"
                 \/ t \in failed']_vars

Shows(a, t, direction) ==
    \E i \in TransactionHistory(a, 0) : i.tx = t /\ i.direction = direction /\ i.by = "hash"

\* A completed transfer is in the history of who got it and of who gave it,
\* whichever goroutine stored it first.
ShownToBoth ==
    \A t \in Tx : Status(t) = "completed" /\ chain[t].ok /\ t \notin failed =>
        Shows(From[t], t, "out") /\ Shows(To[t], t, "in")

\* A transfer with a hash is in the sender's history once, though two of the
\* queries find it: what they say of it is the same, so that UNION drops one.
ShownOnce ==
    \A t \in Tx : HasHash(t) =>
        Cardinality({i \in TransactionHistory(From[t], 0) : i.tx = t /\ i.direction = "out"}) = 1

\* Whatever a history lists can be looked up by the hash or id it is listed with,
\* though the two ask different tables. The answer has the same parties and tells
\* whether a transfer that is listed as completed has succeeded.
ListedIsFound ==
    \A a \in Address : \A i \in TransactionHistory(a, 0) : \E f \in GetTransaction(a, i.tx, i.by) :
        \/ i.tx \in failed
        \/ /\ f.from = i.from
           /\ f.to = i.to \/ ~chain[i.tx].ok
           /\ f.direction = i.direction \/ From[i.tx] = To[i.tx]
           /\ i.status = "completed" =>
                 f.status = IF chain[i.tx].ok THEN "confirmed" ELSE "failed"

\* "fallback": the monitor alone brings a mined transfer into the history.
PendingIsShown ==
    \A t \in Tx :
        Status(t) = "pending" /\ Mined(t) ~>
            Shows(To[t], t, "in") \/ ~chain[t].ok \/ t \in failed

-----------------------------------------------------------------------------
(* The inductive invariant of the proofs. *)

FoundOK == \A x \in Task : found[x] \subseteq wallets

\* Work on a transaction begins when it is mined; whoever completes has stored.
TaskOK ==
    \A s \in Source, t \in Tx :
        /\ task[<<s, t>>] \in {"cache", "store", "complete"} =>
              Mined(t) /\ (s # "monitor" => Hears(s, t))
        /\ At(s, t, "complete") => log[t] # NoRow \/ t \in failed

TransferOK ==
    \A t \in Tx : Status(t) = "completed" => log[t] # NoRow \/ t \in failed

RowOK ==
    \A t \in Tx : log[t] # NoRow =>
        /\ Mined(t)
        /\ log[t].from = From[t]
        /\ log[t].time \in {0, chain[t].time}
        /\ log[t].to = IF log[t].type = "transfer_token" THEN To[t] ELSE Contract
        /\ chain[t].ok => log[t].type = "transfer_token" \/ t \in failed

\* Rows say what is on the chain, and what goroutines hold is still so.
IInv == TypeOK /\ YesIsRegistered /\ FoundOK /\ TaskOK /\ TransferOK /\ RowOK

-----------------------------------------------------------------------------
\* The monitor's loop goes on; its goroutines run on.
LiveSpec ==
    Spec /\ \A t \in Tx : WF_vars(Step("monitor", t))
=============================================================================
