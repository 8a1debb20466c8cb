------------------------- MODULE TransactionLogProofs -------------------------
(***************************************************************************)
(* Proofs about TransactionLog: the rows of the transactions table say     *)
(* what is on the chain, whoever stores them, and the history shows them.  *)
(***************************************************************************)
EXTENDS TransactionLog, TLAPS, FiniteSetTheorems

USE AccountAssumption, LogAssumption

\* The service starts with empty tables and an empty cache.
LEMMA InitInv == Init => IInv
<1> SUFFICES ASSUME Init
             PROVE  IInv
  OBVIOUS
<1>1. TypeOK
  BY DEF Init, TypeOK, WalletInit, WalletTypeOK, NoRow, Time, Task
<1>2. YesIsRegistered /\ FoundOK
  BY DEF Init, WalletInit, YesIsRegistered, FoundOK
<1>3. TaskOK
  BY DEF Init, TaskOK, Task, At
<1>4. TransferOK /\ RowOK
  BY DEF Init, TransferOK, RowOK, Status
<1> QED
  BY <1>1, <1>2, <1>3, <1>4 DEF IInv

\* Time goes on.
LEMMA TickInv == IInv /\ Tick => IInv'
BY DEF IInv, Tick, walletVars, TypeOK, WalletTypeOK, Time, YesIsRegistered, FoundOK,
       TaskOK, TransferOK, RowOK, At, Hears, Mined, Status

\* A transaction is mined once, and has no row before.
LEMMA MineInv == ASSUME IInv, NEW t \in Tx, Mine(t) PROVE IInv'
<1>0. PICK ok \in BOOLEAN : chain' = [chain EXCEPT ![t] = [time |-> now, ok |-> ok]]
  BY DEF Mine
<1>1. TypeOK'
  <2>1. chain' \in [Tx -> [time : Time, ok : BOOLEAN]]
    BY <1>0 DEF IInv, TypeOK
  <2> QED
    BY <2>1 DEF IInv, Mine, walletVars, TypeOK, WalletTypeOK
<1>2. YesIsRegistered' /\ FoundOK'
  BY DEF IInv, Mine, walletVars, YesIsRegistered, FoundOK
<1>3. \A u \in Tx : (Mined(u) => chain'[u] = chain[u]) /\ (u # t => chain'[u] = chain[u])
  BY DEF IInv, Mine, TypeOK, Mined
<1>4. TaskOK'
  BY <1>3 DEF IInv, Mine, TaskOK, Hears, Mined, At
<1>5. TransferOK' /\ RowOK'
  BY <1>3 DEF IInv, Mine, TransferOK, RowOK, Mined, Status
<1> QED
  BY <1>1, <1>2, <1>4, <1>5 DEF IInv

\* A registration adds to the table before it adds to the cache.
LEMMA WalletsInv == IInv /\ Wallets => IInv'
<1> SUFFICES ASSUME IInv, Wallets
             PROVE  IInv'
  OBVIOUS
<1> PICK a \in Users : CreateWallet(a) \/ RegisterWallet(a)
  BY DEF Wallets
<1>1. WalletTypeOK' /\ YesIsRegistered' /\ wallets \subseteq wallets'
  <2>1. CASE CreateWallet(a)
    BY <2>1 DEF IInv, TypeOK, WalletTypeOK, CreateWallet, YesIsRegistered
  <2>2. CASE RegisterWallet(a)
    BY <2>2 DEF IInv, TypeOK, WalletTypeOK, RegisterWallet, YesIsRegistered
  <2> QED
    BY <2>1, <2>2
<1>2. UNCHANGED logVars
  BY DEF Wallets
<1> QED
  BY <1>1, <1>2 DEF IInv, logVars, TypeOK, FoundOK, TaskOK, TransferOK, RowOK, At, Hears,
                    Mined, Status, Row, Time

\* An entry of the cache expires.
LEMMA CacheExpiresInv == IInv /\ CacheExpires => IInv'
<1> SUFFICES ASSUME IInv, CacheExpires
             PROVE  IInv'
  OBVIOUS
<1> PICK a \in Address : Expire(a)
  BY DEF CacheExpires
<1>1. WalletTypeOK' /\ YesIsRegistered' /\ UNCHANGED <<wallets, logVars>>
  BY DEF IInv, TypeOK, WalletTypeOK, CacheExpires, Expire, YesIsRegistered
<1> QED
  BY <1>1 DEF IInv, logVars, TypeOK, FoundOK, TaskOK, TransferOK, RowOK, At, Hears,
              Mined, Status, Row, Time

\* The life of a transfer up to its hash adds no row.
LEMMA TransferInv ==
    ASSUME IInv, NEW t \in Tx, Queue(t) \/ SavePending(t)
    PROVE  IInv'
<1>1. /\ transfers' \in [Tx -> [status : {"none", "queued", "pending", "completed"},
                                created : Time]]
      /\ \A u \in Tx : transfers'[u].status = "completed" => Status(u) = "completed"
  <2>1. CASE Queue(t)
    BY <2>1 DEF IInv, TypeOK, Queue, Status
  <2>2. CASE SavePending(t)
    BY <2>2 DEF IInv, TypeOK, SavePending, Status
  <2> QED
    BY <2>1, <2>2
<1>2. UNCHANGED <<now, chain, log, task, found, failed, walletVars>>
  BY DEF Queue, SavePending
<1> QED
  BY <1>1, <1>2 DEF IInv, walletVars, TypeOK, WalletTypeOK, YesIsRegistered, FoundOK,
                    TaskOK, TransferOK, RowOK, At, Hears, Mined, Status, Row, Time

\* A goroutine's step changes one entry of task.
LEMMA GoesTo ==
    ASSUME IInv, NEW s \in Source, NEW t \in Tx,
           NEW pc \in {"idle", "cache", "store", "complete", "end"}, Goes(s, t, pc)
    PROVE  /\ task' \in [Task -> {"idle", "cache", "store", "complete", "end"}]
           /\ task'[<<s, t>>] = pc
           /\ \A r \in Source, u \in Tx : r # s \/ u # t => task'[<<r, u>>] = task[<<r, u>>]
BY DEF IInv, TypeOK, Goes, Task

\* Nothing that a goroutine knows of a transaction is taken back.
LEMMA TaskMoves ==
    ASSUME IInv, NEW s \in Source, NEW t \in Tx,
           NEW pc \in {"idle", "cache", "store", "complete", "end"}, Goes(s, t, pc),
           chain' = chain, failed \subseteq failed',
           \A u \in Tx : log[u] # NoRow => log'[u] # NoRow,
           pc \in {"cache", "store", "complete"} => Mined(t) /\ (s # "monitor" => Hears(s, t)),
           pc = "complete" => log'[t] # NoRow \/ t \in failed'
    PROVE  TaskOK'
<1>0. /\ task'[<<s, t>>] = pc
      /\ \A r \in Source, u \in Tx : r # s \/ u # t => task'[<<r, u>>] = task[<<r, u>>]
  BY DEF IInv, TypeOK, Goes, Task
<1> SUFFICES ASSUME NEW r \in Source, NEW u \in Tx
             PROVE  /\ task'[<<r, u>>] \in {"cache", "store", "complete"} =>
                          Mined(u) /\ (r # "monitor" => Hears(r, u))
                    /\ task'[<<r, u>>] = "complete" => log'[u] # NoRow \/ u \in failed'
  BY DEF TaskOK, At, Hears, Mined
<1>1. CASE r = s /\ u = t
  BY <1>0, <1>1
<1>2. CASE r # s \/ u # t
  <2>1. task'[<<r, u>>] = task[<<r, u>>]
    BY <1>0, <1>2
  <2> QED
    BY <2>1 DEF IInv, TaskOK, At
<1> QED
  BY <1>1, <1>2

\* Asking the cache changes nothing else.
LEMMA AskCacheInv ==
    ASSUME IInv, NEW s \in Source, NEW t \in Tx, AskCache(s, t)
    PROVE  IInv'
<1>0. PICK pc \in {"store", "end"} : Goes(s, t, pc)
  BY DEF AskCache
<1>1. UNCHANGED <<now, chain, transfers, log, found, failed, walletVars>>
  BY DEF AskCache
<1>2. TaskOK'
  BY <1>0, <1>1, TaskMoves DEF AskCache, Hears
<1> QED
  BY <1>0, <1>1, <1>2, GoesTo DEF IInv, walletVars, TypeOK, WalletTypeOK, YesIsRegistered,
     FoundOK, TransferOK, RowOK, Mined, Status

\* What the query returns is in the table, and stays there.
LEMMA AskTableInv ==
    ASSUME IInv, NEW s \in Source, NEW t \in Tx, AskTable(s, t)
    PROVE  IInv'
<1>1. UNCHANGED <<now, chain, transfers, log, walletVars>> /\ Goes(s, t, "cache")
  BY DEF AskTable
<1>2. PICK f \in SUBSET wallets : found' = [found EXCEPT ![<<s, t>>] = f]
  BY DEF AskTable, ExistingWallet
<1>3. failed' \in {failed, failed \cup {t}}
  BY DEF AskTable
<1>4. FoundOK' /\ found' \in [Task -> SUBSET Address]
  BY <1>1, <1>2 DEF IInv, TypeOK, WalletTypeOK, FoundOK, walletVars
<1>5. TaskOK'
  BY <1>1, <1>3, TaskMoves DEF AskTable, Hears
<1>6. TransferOK' /\ RowOK'
  BY <1>1, <1>3 DEF IInv, TransferOK, RowOK, Mined, Status
<1>7. TypeOK' /\ YesIsRegistered'
  BY <1>1, <1>3, <1>4, GoesTo DEF IInv, walletVars, TypeOK, WalletTypeOK, YesIsRegistered
<1> QED
  BY <1>4, <1>5, <1>6, <1>7 DEF IInv

\* The cache learns of a row that was found, though the table may have changed.
LEMMA FillCacheInv ==
    ASSUME IInv, NEW s \in Source, NEW t \in Tx, FillCache(s, t)
    PROVE  IInv'
<1>1. UNCHANGED <<now, chain, transfers, log, failed, wallets, registering>>
  BY DEF FillCache
<1>2. PICK pc \in {"store", "end"} : Goes(s, t, pc)
  BY DEF FillCache
<1>3. found[<<s, t>>] \subseteq wallets
  BY DEF IInv, FoundOK, Task
<1>4. WalletTypeOK' /\ YesIsRegistered'
  <2>1. /\ cache' \in [Address -> {"unknown", "yes", "no"}]
        /\ \A a \in Address : cache'[a] = "yes" => a \in found[<<s, t>>] \/ cache[a] = "yes"
    BY DEF FillCache, Remember, IInv, TypeOK, WalletTypeOK
  <2> QED
    BY <1>1, <1>3, <2>1 DEF IInv, TypeOK, WalletTypeOK, YesIsRegistered
<1>5. FoundOK' /\ found' \in [Task -> SUBSET Address]
  BY <1>1 DEF FillCache, IInv, TypeOK, FoundOK
<1>6. TaskOK'
  <2>1. Mined(t) /\ (s # "monitor" => Hears(s, t))
    BY DEF FillCache, IInv, TaskOK, At
  <2> QED
    BY <1>1, <1>2, <2>1, TaskMoves
<1>7. TypeOK' /\ TransferOK' /\ RowOK'
  BY <1>1, <1>2, <1>4, <1>5, GoesTo DEF IInv, TypeOK, TransferOK, RowOK, Mined, Status
<1> QED
  BY <1>4, <1>5, <1>6, <1>7 DEF IInv

\* The monitor takes up what is in a block.
LEMMA WatchInv ==
    ASSUME IInv, NEW s \in Source, NEW t \in Tx, Watch(s, t)
    PROVE  IInv'
<1>1. UNCHANGED <<now, chain, transfers, log, found, failed, walletVars>> /\ Goes(s, t, "store")
  BY DEF Watch
<1>2. TaskOK'
  BY <1>1, TaskMoves DEF Watch
<1> QED
  BY <1>1, <1>2, GoesTo DEF IInv, walletVars, TypeOK, WalletTypeOK, YesIsRegistered,
     FoundOK, TransferOK, RowOK, Mined, Status

\* What a row may be that somebody makes of a transaction.
TrueRow(t, row) ==
    /\ row \in Row
    /\ row.from = From[t]
    /\ row.time \in {0, chain[t].time}
    /\ row.to = IF row.type = "transfer_token" THEN To[t] ELSE Contract

\* Every source tells the truth; whatever fails, it tells only less.
LEMMA MakesTrueRows ==
    ASSUME IInv, NEW s \in Source, NEW t \in Tx
    PROVE  /\ TrueRow(t, Makes(s, t))
           /\ TrueRow(t, MakesDespite(s, t))
           /\ Hears(s, t) /\ chain[t].ok => Makes(s, t).type = "transfer_token"
           /\ s = "monitor" => Makes(s, t).type = "transfer_token"
<1>1. now \in Time /\ chain[t].time \in Time /\ chain[t].ok \in BOOLEAN /\ 0 \in Time
  BY DEF IInv, TypeOK, Time
<1>2. s \in {"event", "oldEvent", "block", "monitor"}
  OBVIOUS
<1>3. \A time \in {0, chain[t].time} :
        /\ TrueRow(t, TokenRow(t, time)) /\ TokenRow(t, time).type = "transfer_token"
        /\ TrueRow(t, CallRow(t, time))
  BY <1>1 DEF TrueRow, TokenRow, CallRow, Row
<1> QED
  BY <1>1, <1>2, <1>3 DEF Makes, MakesDespite

\* Saving a true row leaves a true row.
LEMMA SavesTrueRows ==
    ASSUME IInv, NEW t \in Tx, NEW row, TrueRow(t, row), Saves(t, row)
    PROVE  /\ log' \in [Tx -> Row \cup {NoRow}]
           /\ TrueRow(t, log'[t]) /\ log'[t] # NoRow
           /\ log'[t].type = (IF log[t] = NoRow THEN row.type ELSE log[t].type)
           /\ \A u \in Tx : u # t => log'[u] = log[u]
           /\ log[t] # NoRow =>
                 \/ log'[t] = log[t]
                 \/ /\ log'[t] = [log[t] EXCEPT !.time = chain[t].time]
                    /\ log[t].time = 0
<1>0. log'[t] = OnConflict(log[t], row) /\ log \in [Tx -> Row \cup {NoRow}]
  BY DEF Saves, IInv, TypeOK
<1>1. \A r \in Row : r # NoRow
  BY DEF Row, NoRow
<1>2. CASE log[t] = NoRow
  BY <1>0, <1>1, <1>2 DEF Saves, OnConflict, TrueRow
<1>3. CASE log[t] # NoRow
  <2>1. TrueRow(t, log[t])
    BY <1>0, <1>3 DEF IInv, RowOK, TrueRow
  <2>2. CASE row.time = 0
    BY <1>0, <1>1, <1>3, <2>1, <2>2 DEF Saves, OnConflict
  <2>3. CASE row.time # 0
    <3>1. log'[t] = [log[t] EXCEPT !.time = chain[t].time] /\ chain[t].time \in Time
      BY <1>0, <1>3, <2>3 DEF OnConflict, TrueRow, IInv, TypeOK
    <3>2. TrueRow(t, log'[t])
      BY <3>1, <2>1 DEF TrueRow, Row
    <3>3. log'[t] = log[t] \/ log[t].time = 0
      BY <3>1, <2>1 DEF TrueRow, Row
    <3> QED
      BY <1>0, <1>1, <1>3, <3>1, <3>2, <3>3 DEF Saves, TrueRow, Row
  <2> QED
    BY <2>2, <2>3
<1> QED
  BY <1>2, <1>3

\* Whoever stores first and whatever fails, the table stays true.
LEMMA CreateTransactionInv ==
    ASSUME IInv, NEW s \in Source, NEW t \in Tx, CreateTransaction(s, t)
    PROVE  IInv'
<1> DEFINE pc == IF s \in {"event", "monitor"} THEN "complete" ELSE "end"
<1>1. /\ UNCHANGED <<now, chain, transfers, found, walletVars>>
      /\ Goes(s, t, pc)
      /\ Mined(t) /\ (s # "monitor" => Hears(s, t))
  BY DEF CreateTransaction, IInv, TaskOK, At
<1>2. /\ log' \in [Tx -> Row \cup {NoRow}]
      /\ failed' \in {failed, failed \cup {t}}
      /\ log'[t] # NoRow \/ t \in failed'
      /\ \A u \in Tx : log[u] # NoRow => log'[u] # NoRow
      /\ RowOK'
  <2>0. log \in [Tx -> Row \cup {NoRow}] /\ RowOK /\ chain[t].ok \in BOOLEAN
    BY DEF IInv, TypeOK
  <2>1. CASE Saves(t, Makes(s, t)) /\ UNCHANGED failed
    <3>1. /\ log' \in [Tx -> Row \cup {NoRow}]
          /\ TrueRow(t, log'[t]) /\ log'[t] # NoRow
          /\ log'[t].type = (IF log[t] = NoRow THEN Makes(s, t).type ELSE log[t].type)
          /\ \A u \in Tx : u # t => log'[u] = log[u]
      BY <2>1, MakesTrueRows, SavesTrueRows
    <3>2. chain[t].ok => log'[t].type = "transfer_token" \/ t \in failed
      BY <1>1, <2>0, <3>1, MakesTrueRows DEF RowOK
    <3>3. RowOK'
      BY <1>1, <2>0, <2>1, <3>1, <3>2 DEF RowOK, TrueRow, Mined
    <3> QED
      BY <2>1, <3>1, <3>3
  <2>2. CASE Saves(t, MakesDespite(s, t)) /\ failed' = failed \cup {t}
    <3>1. /\ log' \in [Tx -> Row \cup {NoRow}]
          /\ TrueRow(t, log'[t]) /\ log'[t] # NoRow
          /\ \A u \in Tx : u # t => log'[u] = log[u]
      BY <2>2, MakesTrueRows, SavesTrueRows
    <3>2. RowOK'
      BY <1>1, <2>0, <2>2, <3>1 DEF RowOK, TrueRow, Mined
    <3> QED
      BY <2>2, <3>1, <3>2
  <2>3. CASE failed' = failed \cup {t} /\ UNCHANGED log
    BY <1>1, <2>0, <2>3 DEF RowOK, Mined
  <2> QED
    BY <2>1, <2>2, <2>3 DEF CreateTransaction
<1>3. TaskOK'
  BY <1>1, <1>2, TaskMoves
<1>4. TransferOK'
  BY <1>1, <1>2 DEF IInv, TransferOK, Status
<1>5. TypeOK' /\ YesIsRegistered' /\ FoundOK'
  BY <1>1, <1>2, GoesTo DEF IInv, walletVars, TypeOK, WalletTypeOK, YesIsRegistered, FoundOK
<1> QED
  BY <1>2, <1>3, <1>4, <1>5 DEF IInv

\* A transfer is completed by somebody who has stored it, or has failed to.
LEMMA CompleteTransferInv ==
    ASSUME IInv, NEW s \in Source, NEW t \in Tx, CompleteTransfer(s, t)
    PROVE  IInv'
<1>1. UNCHANGED <<now, chain, log, found, failed, walletVars>>
  BY DEF CompleteTransfer
<1>2. PICK pc \in {"idle", "end"} : Goes(s, t, pc)
  BY DEF CompleteTransfer
<1>3. log[t] # NoRow \/ t \in failed
  BY DEF CompleteTransfer, IInv, TaskOK
<1>4. /\ transfers' \in [Tx -> [status : {"none", "queued", "pending", "completed"},
                                created : Time]]
      /\ TransferOK'
  <2>1. CASE transfers' = [transfers EXCEPT ![t].status = "completed"]
    <3>1. transfers' \in [Tx -> [status : {"none", "queued", "pending", "completed"},
                                created : Time]]
      <4>1. transfers[t] \in [status : {"none", "queued", "pending", "completed"},
                              created : Time]
        BY DEF IInv, TypeOK
      <4>2. [transfers[t] EXCEPT !.status = "completed"] \in
                [status : {"none", "queued", "pending", "completed"}, created : Time]
        BY <4>1
      <4> QED
        BY <2>1, <4>2 DEF IInv, TypeOK
    <3>2. \A u \in Tx : u # t => transfers'[u] = transfers[u]
      BY <2>1 DEF IInv, TypeOK
    <3> QED
      BY <1>1, <1>3, <3>1, <3>2 DEF IInv, TransferOK, Status
  <2>2. CASE UNCHANGED transfers
    BY <1>1, <2>2 DEF IInv, TypeOK, TransferOK, Status
  <2> QED
    BY <2>1, <2>2 DEF CompleteTransfer
<1>5. TaskOK'
  BY <1>1, <1>2, TaskMoves
<1>6. TypeOK' /\ YesIsRegistered' /\ FoundOK' /\ RowOK'
  BY <1>1, <1>2, <1>4, GoesTo DEF IInv, walletVars, TypeOK, WalletTypeOK, YesIsRegistered,
     FoundOK, RowOK, Mined
<1> QED
  BY <1>4, <1>5, <1>6 DEF IInv

\* A restart forgets what is in memory and no row.
LEMMA RestartInv == IInv /\ Restart => IInv'
<1> SUFFICES ASSUME IInv, Restart
             PROVE  IInv'
  OBVIOUS
<1>1. /\ task' \in [Task -> {"idle", "end"}]
      /\ found' = [x \in Task |-> {}] /\ now' \in Time
      /\ UNCHANGED <<chain, transfers, log, failed, wallets>>
  BY DEF Restart, IInv, TypeOK, Time
<1>2. WalletTypeOK' /\ YesIsRegistered'
  BY DEF Restart, IInv, TypeOK, WalletTypeOK, YesIsRegistered
<1>3. TypeOK' /\ FoundOK' /\ TransferOK' /\ RowOK'
  BY <1>1, <1>2 DEF IInv, TypeOK, FoundOK, TransferOK, RowOK, Mined, Status
<1>4. TaskOK'
  BY <1>1 DEF TaskOK, At, Task
<1> QED
  BY <1>2, <1>3, <1>4 DEF IInv

\* Every step preserves the invariant.
LEMMA StepInv == IInv /\ [Next]_vars => IInv'
<1> SUFFICES ASSUME IInv, [Next]_vars
             PROVE  IInv'
  OBVIOUS
<1>1. CASE Tick \/ Wallets \/ CacheExpires \/ Restart
  BY <1>1, TickInv, WalletsInv, CacheExpiresInv, RestartInv
<1>2. ASSUME NEW t \in Tx, Mine(t) \/ Queue(t) \/ SavePending(t)
      PROVE  IInv'
  BY <1>2, MineInv, TransferInv
<1>3. ASSUME NEW t \in Tx, NEW s \in Source, Step(s, t)
      PROVE  IInv'
  BY <1>3, AskCacheInv, AskTableInv, FillCacheInv, WatchInv, CreateTransactionInv,
     CompleteTransferInv DEF Step
<1>4. CASE UNCHANGED vars
  BY <1>4 DEF vars, logVars, walletVars, IInv, TypeOK, WalletTypeOK, YesIsRegistered,
     FoundOK, TaskOK, TransferOK, RowOK, At, Hears, Mined, Status
<1> QED
  BY <1>1, <1>2, <1>3, <1>4 DEF Next

\* The inductive invariant holds for any number of transactions and wallets,
\* any set of sources and any fault.
THEOREM Invariance == Spec => []IInv
BY InitInv, StepInv, PTL DEF Spec

\* The cache says "yes" only of a registered wallet.
THEOREM CacheIsSound == Spec => []YesIsRegistered
<1>1. IInv => YesIsRegistered
  BY DEF IInv
<1> QED
  BY <1>1, Invariance, PTL

\* Only CreateTransaction touches a row, and adds a time to it at most.
LEMMA RowStep ==
    ASSUME IInv, [Next]_vars, NEW t \in Tx, log[t] # NoRow
    PROVE  \/ log'[t] = log[t]
           \/ /\ log[t].time = 0
              /\ log'[t] = [log[t] EXCEPT !.time = chain[t].time]
<1>1. CASE UNCHANGED log
  BY <1>1
<1>2. ASSUME NEW u \in Tx, NEW s \in Source, CreateTransaction(s, u), ~UNCHANGED log
      PROVE  \/ log'[t] = log[t]
             \/ /\ log[t].time = 0
                /\ log'[t] = [log[t] EXCEPT !.time = chain[t].time]
  <2>1. PICK row : TrueRow(u, row) /\ Saves(u, row)
    BY <1>2, MakesTrueRows DEF CreateTransaction
  <2> QED
    BY <2>1, SavesTrueRows
<1>3. CASE Next
  <2>1. CASE Tick \/ Wallets \/ CacheExpires \/ Restart
    BY <1>1, <2>1, Zenon DEF Tick, Wallets, CacheExpires, Restart, logVars
  <2>2. ASSUME NEW u \in Tx, Mine(u) \/ Queue(u) \/ SavePending(u)
        PROVE  UNCHANGED log
    BY <2>2, Zenon DEF Mine, Queue, SavePending
  <2>3. ASSUME NEW u \in Tx, NEW s \in Source, Step(s, u), ~CreateTransaction(s, u)
        PROVE  UNCHANGED log
    BY <2>3, Zenon DEF Step, AskCache, AskTable, FillCache, Watch, CompleteTransfer
  <2> QED
    BY <1>1, <1>2, <1>3, <2>1, <2>2, <2>3, Zenon DEF Next
<1> QED
  BY <1>1, <1>3 DEF vars, logVars

\* The first one makes the row; after it only the time may be added, and it is
\* that of the block.
THEOREM FirstMakesTheRow == Spec => RowOnlyGainsTime
<1>1. IInv /\ [Next]_vars =>
        [\A t \in Tx : log[t] # NoRow =>
             log'[t] = log[t] \/ (log[t].time = 0 /\ log'[t] = [log[t] EXCEPT !.time = chain[t].time])]_vars
  BY RowStep
<1> QED
  BY <1>1, Invariance, PTL DEF Spec, RowOnlyGainsTime

\* A goroutine gives a transaction up on the answer of the cache for both
\* parties, or on that of the table.
THEOREM IgnoredOnDoubleNo == Spec => IgnoredOnlyByCache
<1> DEFINE Ignored(s, t) == At(s, t, "end") \/ (At(s, t, "cache") /\ found[<<s, t>>] = {})
           Denied(s, t) == \/ ExistingWallet(Parties(s, t)[1], Parties(s, t)[2]) = {}
                           \/ cache[Parties(s, t)[1]] = "no" /\ cache[Parties(s, t)[2]] = "no"
                           \/ t \in failed'
<1>1. ASSUME IInv, [Next]_vars, NEW s \in Source, NEW t \in Tx,
             At(s, t, "idle"), Ignored(s, t)', now' = now
      PROVE  Denied(s, t)
  <2>1. task[<<s, t>>] = "idle" /\ task'[<<s, t>>] \in {"end", "cache"}
    BY <1>1 DEF At
  <2>2. PICK r \in Source, u \in Tx : Step(r, u)
    <3>1. Next /\ task' # task
      BY <1>1, <2>1 DEF vars, logVars
    <3>2. ~Tick /\ ~Restart
      BY <1>1 DEF Tick, Restart, IInv, TypeOK, Time
    <3>3. ~Wallets /\ ~CacheExpires
      BY <3>1 DEF Wallets, CacheExpires, logVars
    <3>4. \A v \in Tx : ~Mine(v) /\ ~Queue(v) /\ ~SavePending(v)
      BY <3>1 DEF Mine, Queue, SavePending
    <3> QED
      BY <3>1, <3>2, <3>3, <3>4 DEF Next
  <2>3. r = s /\ u = t
    <3>1. PICK pc \in {"idle", "cache", "store", "complete", "end"} : Goes(r, u, pc)
      BY <2>2 DEF Step, AskCache, AskTable, FillCache, Watch, CreateTransaction, CompleteTransfer
    <3>2. r # s \/ u # t => task'[<<s, t>>] = task[<<s, t>>]
      BY <1>1, <3>1 DEF IInv, TypeOK, Goes, Task
    <3> QED
      BY <2>1, <3>2
  <2>4. CASE AskCache(s, t)
    <3>1. task'[<<s, t>>] = (IF CachedAnswer(Parties(s, t)[1], Parties(s, t)[2])
                             THEN "store" ELSE "end")
      BY <1>1, <2>4 DEF AskCache, Goes, IInv, TypeOK, Task
    <3>2. /\ Parties(s, t)[1] \in Address /\ Parties(s, t)[2] \in Address
          /\ BothCached(Parties(s, t)[1], Parties(s, t)[2])
      BY <2>4 DEF AskCache, Parties
    <3> QED
      BY <1>1, <2>1, <3>1, <3>2 DEF CachedAnswer, BothCached, IInv, TypeOK, WalletTypeOK
  <2>5. CASE AskTable(s, t)
    <3>1. task'[<<s, t>>] = "cache"
      BY <1>1, <2>5 DEF AskTable, Goes, IInv, TypeOK, Task
    <3>2. found'[<<s, t>>] = {}
      BY <1>1, <3>1 DEF At
    <3>3. ASSUME NEW f, found' = [found EXCEPT ![<<s, t>>] = f]
          PROVE  f = {}
      BY <1>1, <3>2, <3>3 DEF IInv, TypeOK, Task
    <3> QED
      BY <2>5, <3>3 DEF AskTable
  <2> QED
    BY <1>1, <2>1, <2>2, <2>3, <2>4, <2>5 DEF Step, FillCache, Watch, CreateTransaction,
       CompleteTransfer, At, Goes, IInv, TypeOK, Task
<1>2. IInv /\ [Next]_vars =>
        [\A s \in Source, t \in Tx :
            LET p == Parties(s, t)
                ignored == At(s, t, "end") \/ (At(s, t, "cache") /\ found[<<s, t>>] = {})
            IN  At(s, t, "idle") /\ ignored' /\ now' = now =>
                   \/ ExistingWallet(p[1], p[2]) = {}
                   \/ cache[p[1]] = "no" /\ cache[p[2]] = "no"
                   \/ t \in failed']_vars
  BY <1>1
<1> QED
  BY <1>2, Invariance, PTL DEF Spec, IgnoredOnlyByCache

\* Who gave and who got the tokens of a completed transfer both see it.
THEOREM BothSeeIt == Spec => []ShownToBoth
<1>1. ASSUME IInv, NEW t \in Tx, Status(t) = "completed", chain[t].ok, t \notin failed
      PROVE  Shows(From[t], t, "out") /\ Shows(To[t], t, "in")
  <2>1. /\ log[t] # NoRow /\ log[t] \in Row
        /\ log[t].type = "transfer_token"
        /\ log[t].from = From[t] /\ log[t].to = To[t]
    BY <1>1 DEF IInv, TypeOK, TransferOK, RowOK
  <2>2. t \in {u \in Tx : Stored(u) /\ log[u].time >= 0}
    BY <2>1 DEF Stored, Row, Time
  <2>3. Account[From[t]] = From[t] /\ Account[To[t]] = To[t]
    OBVIOUS
  <2>4. /\ Logged(t, "out") \in TransactionHistory(From[t], 0)
        /\ Logged(t, "in") \in TransactionHistory(To[t], 0)
    BY <2>1, <2>2, <2>3 DEF TransactionHistory
  <2> QED
    BY <2>4 DEF Shows, Logged
<1>2. IInv => ShownToBoth
  BY <1>1 DEF ShownToBoth
<1> QED
  BY <1>2, Invariance, PTL

\* The queries agree on what the sender sees of a transfer.
THEOREM SeenOnce == Spec => []ShownOnce
<1>1. ASSUME IInv, NEW t \in Tx, HasHash(t)
      PROVE  {i \in TransactionHistory(From[t], 0) : i.tx = t /\ i.direction = "out"} = {Sent(t)}
  <2>1. Account[From[t]] = From[t] /\ From[t] \in Address
    OBVIOUS
  <2>2. Sent(t) \in TransactionHistory(From[t], 0)
    BY <1>1, <2>1 DEF TransactionHistory, HasHash, Status
  <2>3. Sent(t).tx = t /\ Sent(t).direction = "out"
    BY DEF Sent
  <2>4. Stored(t) => Logged(t, "out") = Sent(t)
    BY <1>1 DEF Stored, Logged, Sent, IInv, RowOK
  <2>5. ASSUME NEW i \in TransactionHistory(From[t], 0), i.tx = t, i.direction = "out"
        PROVE  i = Sent(t)
    <3>1. CASE \E u \in Tx : i = Sent(u)
      BY <2>5, <3>1 DEF Sent
    <3>2. CASE \E u \in Tx : Stored(u) /\ i = Logged(u, "in")
      BY <2>5, <3>2 DEF Logged
    <3>3. CASE \E u \in Tx : Stored(u) /\ i = Logged(u, "out")
      BY <2>4, <2>5, <3>3 DEF Logged
    <3> QED
      BY <2>5, <3>1, <3>2, <3>3 DEF TransactionHistory
  <2> QED
    BY <2>2, <2>3, <2>5
<1>2. IInv => ShownOnce
  <2> SUFFICES ASSUME IInv, NEW t \in Tx, HasHash(t)
               PROVE  Cardinality({i \in TransactionHistory(From[t], 0) :
                                      i.tx = t /\ i.direction = "out"}) = 1
    BY DEF ShownOnce
  <2>1. {i \in TransactionHistory(From[t], 0) : i.tx = t /\ i.direction = "out"} = {Sent(t)}
    BY <1>1
  <2>2. Cardinality({Sent(t)}) = 1
    BY FS_Singleton, Zenon
  <2> QED
    BY <2>1, <2>2, Zenon
<1> QED
  BY <1>2, Invariance, PTL

\* What a history lists can be looked up, and the answer tells what became of it.
THEOREM ListedCanBeLookedUp == Spec => []ListedIsFound
<1>1. ASSUME IInv, NEW a \in Address, NEW i \in TransactionHistory(a, 0)
      PROVE  \E f \in GetTransaction(a, i.tx, i.by) :
                \/ i.tx \in failed
                \/ /\ f.from = i.from
                   /\ f.to = i.to \/ ~chain[i.tx].ok
                   /\ f.direction = i.direction \/ From[i.tx] = To[i.tx]
                   /\ i.status = "completed" =>
                         f.status = IF chain[i.tx].ok THEN "confirmed" ELSE "failed"
  <2> DEFINE b == Account[a]
             result(t) == IF chain[t].ok THEN "confirmed" ELSE "failed"
             Lists(t) == \/ i = Logged(t, "in") /\ log[t].to = b
                         \/ i = Logged(t, "out") /\ log[t].from = b
             Agrees(t, f) ==
                \/ t \in failed
                \/ /\ f.from = i.from
                   /\ f.to = i.to \/ ~chain[t].ok
                   /\ f.direction = i.direction \/ From[t] = To[t]
                   /\ i.status = "completed" => f.status = result(t)
  <2> SUFFICES \E f \in GetTransaction(a, i.tx, i.by) : Agrees(i.tx, f)
    BY Zenon
  <2>1. ASSUME NEW t \in Tx, log[t] # NoRow, b \in {log[t].from, log[t].to}, i.tx = t, i.by = "hash",
               i.from = From[t], i.to = To[t],
               i.direction = Direction(t, b) \/ From[t] = To[t]
        PROVE  \E f \in GetTransaction(a, i.tx, i.by) : Agrees(i.tx, f)
    <3> DEFINE f == [Logged(t, Direction(t, b)) EXCEPT !.status = result(t)]
    <3>1. f \in GetTransaction(a, t, "hash")
      BY <2>1 DEF GetTransaction, GetTransactionOrTransfer, Logged
    <3>2. /\ f.from = log[t].from /\ f.to = log[t].to
          /\ f.direction = Direction(t, b) /\ f.status = result(t)
      BY DEF Logged
    <3>3. log[t].from = From[t] /\ (log[t].to = To[t] \/ ~chain[t].ok \/ t \in failed)
      BY <1>1, <2>1 DEF IInv, RowOK
    <3> HIDE DEF f, result
    <3> QED
      BY <2>1, <3>1, <3>2, <3>3
  <2>2. CASE \E t \in Tx : i = Sent(t) /\ From[t] = b /\ Status(t) # "none"
    <3>1. PICK t \in Tx : i = Sent(t) /\ From[t] = b /\ Status(t) # "none"
      BY <2>2
    <3>2. i.tx = t /\ i.from = From[t] /\ i.to = To[t] /\ i.direction = "out"
          /\ i.by = (IF HasHash(t) THEN "hash" ELSE "id")
      BY <3>1 DEF Sent
    <3>3. CASE HasHash(t) /\ log[t] # NoRow
      <4>1. log[t].from = b /\ log[t].to \in {To[t], Contract} /\ b # Contract
        BY <1>1, <3>1, <3>3 DEF IInv, RowOK
      <4>2. "out" = Direction(t, b) \/ From[t] = To[t]
        BY <3>1, <4>1 DEF Direction
      <4> QED
        BY <2>1, <3>2, <3>3, <4>1, <4>2
    <3>4. CASE ~(HasHash(t) /\ log[t] # NoRow)
      <4> DEFINE f == [tx |-> t, by |-> "id", status |-> Status(t), from |-> From[t], to |-> To[t],
                       direction |-> "out", type |-> "transfer_token",
                       time |-> transfers[t].created]
      <4>1. GetTransactionOrTransfer(b, t, i.by) = {f}
        BY <3>1, <3>2, <3>4 DEF GetTransactionOrTransfer
      <4>2. f \in GetTransaction(a, t, i.by)
        BY <4>1 DEF GetTransaction
      <4>3. i.status = "completed" => t \in failed
        BY <1>1, <3>1, <3>4 DEF Sent, HasHash, Status, IInv, TransferOK
      <4> QED
        BY <3>2, <4>2, <4>3
    <3> QED
      BY <3>3, <3>4
  <2>3. CASE \E t \in Tx : Stored(t) /\ Lists(t)
    <3>1. PICK t \in Tx : Stored(t) /\ Lists(t)
      BY <2>3
    <3>2. log[t] # NoRow /\ log[t].from = From[t] /\ log[t].to = To[t]
      <4>1. log[t] # NoRow /\ log[t].type = "transfer_token"
        BY <3>1, Zenon DEF Stored
      <4> QED
        BY <1>1, <4>1 DEF IInv, RowOK
    <3>3. i.tx = t /\ i.by = "hash" /\ i.from = From[t] /\ i.to = To[t]
      BY <3>1, <3>2 DEF Logged
    <3>4. i.direction = Direction(t, b) \/ From[t] = To[t]
      BY <3>1, <3>2 DEF Logged, Direction
    <3> QED
      BY <2>1, <3>1, <3>2, <3>3, <3>4
  <2>4. (\E t \in Tx : i = Sent(t) /\ From[t] = b /\ Status(t) # "none")
        \/ (\E t \in Tx : Stored(t) /\ Lists(t))
    BY DEF TransactionHistory
  <2> QED
    BY <2>2, <2>3, <2>4
<1>2. IInv => ListedIsFound
  BY <1>1 DEF ListedIsFound
<1> QED
  BY <1>2, Invariance, PTL
=============================================================================
