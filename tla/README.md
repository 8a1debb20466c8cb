# Verification of the SDR wallet service

The service lets users move SDR tokens without owning ETH. A user asks for a
pair of unsigned transactions (the transfer and a tax), signs them and hands
them back; the service pays for their gas from its *bank* wallet (a *top-up*),
and once the top-up is in a block it broadcasts the signed pair, follows it
until it is mined and tells the two parties over websockets.

This directory models the parts of the program where processes really
interfere or numbers really matter: the **life of a transfer** (HTTP handlers, goroutines of the
scrapers, the `transfers` table and the node), the **notifier** (a hub
goroutine, two goroutines per websocket, the goroutines that notify), the
**reconnect loop** (the connection to the node, two goroutines that listen on
it, a timer), the **log of transactions** (the goroutines that store what is
on the chain, the cache of known wallets, the history a client reads), the
**scrapers** as processes (the scan of old blocks, the subscription, the rounds
of the monitor) and the **fees** (what a transfer costs in tokens, what the bank
pays in ETH). All are model-checked with TLC on small instances and proved about
with TLAPS for all values of their constants.

    tlc -config transfer_faults.cfg MCTransferService    # a run, see "Runs"
    tlapm TransferServiceProofs.tla                      # the proofs

## 1. Inventory

| component | source | state | operations | status |
|---|---|---|---|---|
| transfers table | `app/storage/database/postgres.go` | rows: status, nonce, hash, raw transaction, top-up, deletion, amounts | one SQL statement each | modelled |
| transaction manager | `app/transaction/manager.go` | none of its own; rows in memory during a call | `CreateTransfer`, `ConfirmTransfer`, `CompleteTransfers`, `FailEthTransfer`, `CompleteTransfer`, `TransactionHistory`, `GetTransaction` | modelled |
| transaction scraper | `app/scrapper/scrappers/txscrapper.go` | goroutines | `Listen` (new blocks), `monitorTopUpTransactions` (polling), `extractOldTransactions` | modelled, without the rows of other transactions |
| events scraper | `app/scrapper/scrappers/eventscraper.go` | goroutines | `Listen` (Transfer events), `monitorEvents` (polling), `extractOldEvents` | modelled |
| notifier | `app/notifier/manager.go`, `NotifyClients` in `app/scrapper/manager.go` | the hub's table, channels, connections | `Subscribe`, `Notify`, `Start`, `read`, `write` | modelled |
| scrapper manager, wallet cache | `app/scrapper/manager.go`, `app/wallet/manager.go` | cache of known wallets | `IsWalletExist`, `RegisterWallet` | modelled |
| reconnect loop | `cmd/main.go` | channels `loopNext`, `connClosed`, `stop` | reconnect on a timer or an error | modelled, without start-up |
| transactions table, history | `postgres.go`, `queries.go` | rows by hash | `CreateTransaction`, history queries, lookup | modelled for token transactions |
| amounts | `pkg/eth/utils.go`, `estimateTax` in `app/transaction/manager.go` | none | conversions to and from wei, the tax | modelled |
| wallet manager | `app/wallet/manager.go` | none of its own | `CreateWallet` | modelled |
| rate sidecar client | `app/sdrsidecar/manager.go` | none | `EthToSdr` | its answers only |
| REST server, authentication, configuration, migrations, contract binding | see PROJECT.json | none that matters | decode, check, forward | not modelled |

**How they interact.** The REST server calls the transaction manager, one
goroutine per request. The scrapers call the same manager through the scrapper
manager's interface. Handlers and scrapers share no memory: they meet in the
`transfers` table, statement by statement, without locks and (except for the
two multi-row writes) without database transactions, and at the node, call by
call. The events scraper calls `NotifyClients`, which sends twice on a channel
of the notifier's hub; the hub sends on a channel of every subscription.

**What is hard.**

* *Check-then-act through the table.* Nonces are read and checked, rows are
  marked, loaded, held in memory and written back several calls later. Between
  any two of these steps another call, a listener or a monitor may change the
  row. `UpdateTransfers` writes what was loaded, whatever has happened since.
* *Two sources for one fact.* Listener and monitor look for the same top-ups
  and for the same mined transfers; either may come first, both may come at
  once, the listener may miss anything.
* *Partial failure.* Sends are followed by statements that record them; any of
  them may fail, an answer may be lost, the service may stop in between.
* *First come, first written.* Up to four goroutines store the same transaction,
  each with other knowledge of it, and the first one makes the row.
* *A cache that is filled from old answers.* Between the query and the entry a
  wallet may be registered; an entry is kept per spelling of an address, while
  the table compares addresses in lower case.
* *Unsigned counters.* Both scans count blocks down in `uint64`, one of them
  with a loop condition that is always true.
* *A group that counts itself.* The goroutines of a monitor's round add
  themselves to the `WaitGroup` the loop waits for.
* *Prices that move.* Tax and gas price are fixed when a pair is created, the
  top-up is sent later, and every amount goes through decimals, floats and
  integers, each of which rounds.
* *Unbuffered channels.* The hub is one goroutine that everybody waits for and
  that itself waits for the writers.

**What makes the components correct.**

* transfers: nothing is broadcast before it is paid for; a cleared pair is
  never broadcast; the table never says more than the chain does; what was
  broadcast is recorded; every queued transfer ends; the bank pays once for a
  pair; a nonce is used once; the tax is taken without the transfer only if the
  transfer is told to have failed; nobody who saves late takes a completed row
  back. Some of these the code does not keep: see "Runs".
* notifier: a subscription gets exactly what was published to its client while
  it lasted, once and in order; the hub never sends on a closed channel; a
  caller returns; a broken connection is forgotten.
* reconnect loop: goroutines of old rounds end, but for the one that a reconnect
  by the timer leaves; one connection is open at a time; a broken one is
  replaced; no listener listens on alone.
* wallet cache: "yes" is true; a transaction is ignored only if the cache denies
  both parties.
* transactions table: a row says what is on the chain, whoever made it; a
  completed transfer is in both parties' history, in the sender's once.
  What the history lists can be looked up, and the answer says what the chain
  says.
* scrapers: since a start every block is asked for or waits in the subscription,
  unless it appeared while there was none or was dropped with one; the loop of a
  monitor leaves a round with nobody at work; the monitor does not panic.
* fees: the tax pays for the gas; a pair is created only for what the wallet
  has; the ETH for the gas of a funded pair is there until the pair is mined.

PROJECT.json lists every hazard at its line, with the property that covers it.

## 2. Modules

| module | what it is |
|---|---|
| `TransferStore` | the `transfers` table, one operator per SQL statement |
| `TransferService` | the processes that use it, and the node; extends `TransferStore` |
| `GaslessTransfer` | what the service promises about a pair (abstract specification) |
| `TransferInvariant` | the inductive invariant `IInv` of `TransferService`, and the refinement mapping |
| `MCTransferService` | constants for TLC |
| `TransferServiceProofs` | the proofs of the safety properties |
| `GaslessProofs` | `TransferService` implements `GaslessTransfer`, proved |
| `SettlementProofs` | what several goroutines at the same top-up may do to each other's rows, proved |
| `NotificationFeed` | what the notifier promises (abstract specification) |
| `Notifier` | hub, readers, writers, callers; its invariant and the refinement mapping |
| `MCNotifier` | constants for TLC |
| `NotifierProofs` | the invariant and the refinement, proved |
| `Reconnect` | `scrappersListen`, the goroutines it starts, `main`'s wait; its invariant |
| `ReconnectProofs` | the invariant and what follows from it, proved |
| `WalletCache` | the `wallets` table and the cache of known wallets |
| `TransactionLog` | who stores a transaction, and the history; extends `WalletCache`; its invariant |
| `MCTransactionLog` | constants for TLC |
| `TransactionLogProofs` | the invariant and the safety properties, proved |
| `BlockScan` | which blocks a scraper looks at: scan and subscription, in unsigned words |
| `MonitorRounds` | the rounds of a monitor and its `WaitGroup` |
| `Scraper` | both in one process, with the chain and restarts; the inductive invariant |
| `ScraperProofs` | the invariant and the safety properties, proved |
| `Fees` | tax, balance checks, top-ups and gas, with every rounding; its invariant |
| `MCFees` | the symmetry of the pairs, for TLC |
| `FeesProofs` | the invariant and what follows from it, proved |

A definition whose comment begins with "Mutant" is a variant of the definition
after it with a plausible bug. No specification uses it; it is there to show
that a property notices the bug.

### TransferStore

A row id is `<<pair, "transfer_token">>`, `<<pair, "tax">>` or, for a top-up,
`<<nonce of the bank, "ethtopup">>`. The hash of a transaction is written as
the id of the row it was signed for, so "hash = own id" says the row names its
own transaction. Columns that nothing modelled reads (amounts, gas, message,
dates) are left out. A statement is one step: PostgreSQL makes it atomic, and
`CreateTransfers` and `UpdateTransfers` are database transactions.
`FailEthTransfer` is two statements in the code and two steps here. In SQL an
empty string matches no hash, and `NULL` matches nothing; here the callers'
empty argument is `NULL`. `ClearUnsignedTransfers` has no
`deleted_at IS NULL`, which makes no difference to what is stored but a date.

### TransferService

| variable | stands for |
|---|---|
| `transfers` | the table |
| `chain` | for each transaction: unknown to the node, in its pool, mined, mined and reverted |
| `paidFor` | history: the pair whose confirmation sent a top-up |
| `foreign` | nonces a user consumed without the service |
| `draft`, `call` | running `CreateTransfer` and `ConfirmTransfer` calls: the next step (`pc`), the transactions still to handle, nonces read, rows in memory |
| `job` | a goroutine on its way from a found top-up through `CompleteTransfers` or `FailEthTransfer` |
| `watch`, `seen` | hashes `monitorEvents` is about to check; events the listener has consumed |

| code | actions |
|---|---|
| `CreateTransfer` | `ClearUnsigned`, `ReadUserNonce`, `InsertTransfers`, `AbortCreateTransfer` |
| `ConfirmTransfer`: nonce, validation | `StartConfirm`, `Validate`, `RejectTransfer` |
| ... `GetAndConfirmTransferByID` and `IsProcessing`, per transaction | `MarkConfirming`, `LoadTransfer` |
| ... `topUpEthBalance` | `ReadBankNonce`, `SendTopUp`, `RecordTopUp` |
| ... `UpdateTransfers` | `SaveQueued` |
| `makeNewTransactionFromTx` and its goroutine | `ListenerFinds`, `ListenerReadsReceipt` |
| `monitorTopUpTransactions` | `MonitorFinds`, `MonitorChecks` |
| `CompleteTransfers` | `LoadQueued`, `StartProcessing`, `CheckBalance`, `SendTransfer`, `FailTransfers`, `CompleteTopUp`, `SavePending` |
| `FailEthTransfer` | `FailTopUp`, `FailLinked` |
| events: `Listen`, `monitorEvents` | `ListenerSeesEvent`, `WatchPending`, `CheckPending` |
| the node, users, the operator | `Mine`, `ForeignTransaction`, `Restart` |

What goes wrong is chosen by the constant `Faults`; a run names what it allows.
With `"rpc"` any call to the node may fail, with `"lost"` it may take effect
and its answer be lost, with `"db"` any statement may fail and change nothing,
and so on: see the `ASSUME` in the module. Every error path of the code is in
the actions, including those that ignore an error.

Choices worth knowing:

* Reads without a consequence of their own (gas price, chain id, balances, token
  decimals) are part of the neighbouring step; that they fail is part of it too.
* `CheckBalance` has no arithmetic (that is in `Fees`): the top-up pays exactly
  the gas of its pair, so the balance may be short when the top-up was reverted
  or when a row of the pair has been mined already.
* The client lists the token transfer before the tax, as `CreateTransfer`
  returned them, and signs the rows as given. Calls of one user for another's
  rows are not modelled.
* A foreign transaction is mined at once: only its nonce matters.
* There are no reorganisations of the chain: the code has no notion of them.
* Bounds: `MaxTopUps` (top-ups the bank can send), `MaxNonce` (nonces of a
  user), `Attempt` (confirmations per pair), and one goroutine per source and
  top-up (`Job`). The code starts one for every find and waits for none: those of
  two rounds of the monitor overlap if one outlasts the polling interval, and
  those of the block listener and of the scan of old blocks, which share a
  source, if a top-up is found twice. Two sources show the same races, and the
  proofs hold for any number of sources.
* After a restart `extractOldTransactions` walks through old blocks and hands
  their top-ups to the same code as the listener; `ListenerFinds` is therefore
  enabled for a mined top-up at any time. Events of before the restart are only
  stored, never completed, hence `seen` in `Restart`.

### GaslessTransfer

The promise without handlers, scrapers, faults and memory: pairs are offered,
taken on, paid for, funded, sent and mined, and the service tells a client what
it knows. `IsGasless` says that `TransferService` implements it, with

* `told` = the status of a token row, "cleared" once it is deleted,
* `tx` = `chain` of a token transaction,
* `paid`, `funded` = the pairs for which some top-up is known to the node, or is
  in a block.

| step of the promise | steps of the service |
|---|---|
| `Offer` | `InsertTransfers`: both rows in one database transaction |
| `Tell` | every statement that writes token rows; a write of several rows is one step |
| `Pay` | a `SendTopUp` that the node accepts, whether or not its answer arrives |
| `Fund` | a top-up is mined, reverted or not |
| `Send` | a `SendTransfer` that the node accepts |
| `Mined` | a token transaction is mined |

All other steps are stutters. A row may go back from "completed" to
"confirming" or from anything to "failed" (the findings show how): the promise
is that what is *told* is true, that "cleared" is final and excludes a
broadcast, and that nothing is paid before the whole pair was handed over and
nothing sent before it is funded. That a pair is told about in the end, or paid
once, is not promised, since the code does not keep it.

### Notifier

Channels are unbuffered, so a send and its receive are one step: `Register`,
`Unregister`, `Take` (hub receives from `NotifyClients`) and `Send` (a writer
receives from the hub). `Subscribe`, `ReadFails`, `ReaderCloses`, `Write`,
`PingFails`, `SeesClosed`, `WriterCloses`, `Disconnect` and `NotifyClients` are
steps of one goroutine or of the network. `got` is a history variable: what was
written to each connection. A write to a broken connection may still succeed
(the kernel buffers it) or fail. Each subscription is opened once and each
message is handled once: that two scrapers may notify of one transaction twice
is two messages here.

`NotificationFeed` promises: a message is published once to its receiver, then
once to its sender; publishing appends it to the queue of every subscription of
that client; a queue is delivered in order; when a subscription ends its queue
may be lost. `IsAFeed` says that `Notifier` implements it, with

* `published` = the sides of handled messages no caller holds any more,
* `subscription` = not yet registered, in the table with a live writer, or over,
* `queue` = what the writer holds, followed by what the hub still has for it.

### Reconnect

Each round of the loop has a connection, two stop channels and a `loopNext` of
its own, each with room for one value; a channel is the set of rounds (or of
rounds and goroutines) for which it holds one. `listener` is where each
goroutine of each round is: in `Listen` (`"subscribe"`, `"listen"`, `"handle"`,
`"hung"`, `"deaf"`), before the send to the other's stop channel (`"stop"`),
before the send to `loopNext` (`"next"`), or at its `"end"`. `left` is a history
variable: what ended a round.

* `connClosed` has no room: `ReportClosed` is one step of the loop and `main`,
  and the loop waits for ever when `main` has left its `select`.
* After a failed dial the client is nil; whoever uses it ends the process
  (`crashed`). The error branch after `NewToken` is not modelled: parsing a
  constant ABI does not fail.
* The subscription of the events closes its error channel when it ends. That of
  the blocks is the client's own and gives an error and no more when the
  connection breaks; the code logs it and listens on, which is `"deaf"`.
* What a handler does is left out but for the fact that it may never return
  (`"hang"`): it calls `NotifyClients`.

The first two bullets together with `CrashOnlyInShutdown` are the whole story of
a node that cannot be reached: the service reports it, `main` begins to shut
down, and the goroutines, started all the same, crash the process on the nil
client unless the shutdown is faster.

### WalletCache and TransactionLog

An address is a spelling; `Account` gives the spelling with a checksum, which is
what comes from the chain. Clients register any spelling (`Users`). The table
finds a wallet however it is spelt, the cache only as it is spelt. An entry of
the cache is `"unknown"`, `"yes"` or `"no"` and may expire at any time.
`IsWalletExist` is `BothCached` and `CachedAnswer`, or the query
(`ExistingWallet`) and, in a later step, `Remember`; its two or three `Set`s are
one step, and so are the two `Get`s of `BothCached`, so that an entry that
expires or changes between them is left out. `CreateWallet` is the INSERT, and
later `RegisterWallet`. In the run the sender is registered in lower case only:
the branch of `Remember` for one who is registered as the chain spells him is in
the proofs and not in the run.

| variable of `TransactionLog` | stands for |
|---|---|
| `chain`, `now` | the time of a transaction's block and its result; the clock |
| `transfers` | status and date of the service's own transfers |
| `log` | rows of the `transactions` table by hash |
| `task`, `found` | where a goroutine is with a transaction; the wallet its query found |
| `failed` | history: transactions for which a call or a statement failed |

| code | actions |
|---|---|
| `makeNewTransactionFromTx`, `makeNewTransactionFromEvent` | `AskCache`, `AskTable`, `FillCache`; the row is `Makes` |
| `makeTokenTransferIfNeeded`, reading the block's time | in `Makes`; `MakesDespite` when the node does not answer |
| `CreateTransaction` | `CreateTransaction`, with `OnConflict` |
| `monitorEvents` | `Watch`, then the two steps that `Listen` has too |
| `CompleteTransfer` | `CompleteTransfer` |
| `GET /transactions` | `TransactionHistory`, a function of the state |
| `GET /transactions/:hash` | `GetTransaction`, `GetTransactionOrTransfer` |

A source is `"event"` (the listener), `"oldEvent"` (the scan after a start),
`"block"` (the listener of blocks and the scan of old ones, which call the same
code) or `"monitor"`. Every transaction here calls the token contract; how a
transfer of the service gets its hash is `Queue` and `SavePending`, the details
being in `TransferService`. Rows and queries compare addresses in lower case, so
rows hold accounts. The queries leave out what the bank sends or gets; the bank
is no party here. An error that the code logs and ignores puts the transaction
into `failed`: `ShownToBoth` and `PendingIsShown` do not hold for those, because
nothing in the code comes back to them. They also speak of transfers that
succeeded: a reverted one is stored by the monitor as if it had.

A wallet that is registered in another spelling than the chain's is found in the
table, but the entry under the chain's spelling says "no". `IgnoredOnlyByCache`
is what remains: such an entry alone never hides a transaction.

The history joins the two tables, the lookup asks `transactions` and then
`transfers`, and does not join: a transfer of the service that nobody has stored
comes from `transfers` under its id, even if it was asked for by its hash. Only
what comes with a hash gets its result from the receipt. `ListedIsFound` says
that the two agree all the same: what a history lists is found under the hash or
id it is listed with, with the same sender and receiver, and when it is listed as
completed the lookup says whether it succeeded. It makes two exceptions that the
code makes: a reverted transfer may be stored as a call of the contract (another
receiver), and who sends tokens to himself sees one direction of the two.

### BlockScan, MonitorRounds, Scraper

Both scrapers have the same shape: `Start` reads the newest block, a goroutine
goes down from there, another one polls the table, and later `Listen` subscribes
to what is new. `scraper` says which of the two a behaviour is about; they share
nothing but the chain.

| code | actions |
|---|---|
| `Start` | `Start` |
| `extractOldTransactions` | `ReadOldBlock`, a step per block |
| `extractOldEvents` | `ReadPacket`, a step per packet, from `PacketStart` |
| `Listen` | `Subscribe`, then `HandleBlock` for what it is told of |
| a reconnect by the timer or after an error | `Disconnect` |
| the node | `NewBlock`, which tells a subscription |
| `monitorTopUpTransactions`, `monitorEvents`: query, spawn | `Fetch` |
| ... `wg.Wait` | `WaitReturns`, or `WaitParks` and `WaitWakes` |
| ... `wg.Add`, the work, `wg.Done` | `AddOne`, `Work`, `Done`, `Release` |
| ... a goroutine that begins after its round was left | `WorkLate` |
| the listener, or `go completeTransfer` of an earlier round | `SettledElsewhere` |
| `main` | `Service`, `Restart` |

Block numbers are words of `Word` values, so that `n - 1` and `n - PacketSize`
wrap around as they do in `uint64`; the configuration refuses a packet size of 0.
`tried` is what was asked for: a block or packet the node does not return is
passed over and not asked for again until the next start. What a subscription has
told of waits in it (`waiting`) until the loop of `Listen` is back at its `select`;
a handler that hangs never is. When the connection is closed, by the timer or from
outside, what waits is lost: `missed` is that, and the blocks that appeared while
there was no subscription. No later round asks for them; only a start does. The
chain has at least one block after block 0 (`ScanInit`): `extractOldEvents` asks
for nothing when the newest one is block 0. That the chain is reorganised, and that
the rpc client connects again by itself, are left out. The condition `i >= 0`
is always true: after block 0 the scan of transactions goes on at 2^64 - 1 and
asks for blocks that do not exist until the service ends (`wrapped`).

A `WaitGroup` is `counter` and `waiters`. The last `Done` of a group with a
waiter is two steps in the library (the counter reaches zero; the waiter is
released), and whatever happens in between makes it panic, as do a negative
counter and an `Add` that meets a `Wait`. With two pending rows this can happen:
one goroutine is done before the other has begun, which then adds itself while
the loop is being woken. Nobody recovers, the service ends. `PanicNeedsLateStart`
says that it takes exactly this, so that a round with one row never panics.
What a goroutine does with its row is `Settle`: what matters here is whether the
next round finds the row again.

### Fees

A pair is one record: what the wallet was asked to sign (`amount`, `tax`,
`price`), the rate of the estimate, the top-up and the gas price at which the
bank sent it (`topUp`, `at`), and how far it has come. Here `CreateTransfer` and
`ConfirmTransfer` are one step each, and so is a call of `CompleteTransfers`: the
interleaving of their own steps is in `TransferService`. But the listener, the
monitor and the scan after a restart may each call `CompleteTransfers` for the
same top-up, any number of times: `loads` are the rows (transfer, tax or both) as
such calls may have loaded them, and a call may come to its balance check, with
what it loaded, when the transactions that another one has sent (`sent`) are
mined already (`mined`). It then fails rows for the want of ETH although nobody
has spent any: `CheckBalance` of `TransferService` allows the same. Which rows a
call leaves queued for a later one is over-approximated (`written`).

Units make every conversion one of integers, with what it loses: `ToETH` divides
with 16 digits and rounds half away from zero (`Lost` wei to a unit), the rate
and the surcharge multiply decimals without loss, `Float` gives any value within
1/`Precision` of a decimal or a sum, and `ToWei` keeps the integral part of
`Fine` parts: `SetString` stops at the point and the code ignores its result.
The sum of amount and tax that the balance is compared with is rounded once more
than the two amounts that are signed, which is why `ShortByRounding` allows a unit
and the error of a float.

| code | actions |
|---|---|
| `estimateTax`, `CreateTransfer` | `CreateTransfer`, with `Tax` and `Draft` |
| `ConfirmTransfer`, `topUpEthBalance` | `ConfirmTransfer`, with `TopUp` |
| `CompleteTransfers` | `CompleteTransfers`, with `Queued`, `Accepted` |
| the chain | `Fund`, `Mine` |
| the user, without the service | `Spend` |

The three properties say where each check's promise ends.
`LossNeedsHigherPrice`: the bank never gives more than the tax is worth at the
rate of the estimate, unless the gas price has risen when the top-up is sent; the
gas of the signed pair itself is covered even then. `ShortByRounding`: the check
at the creation covers the pair until another pair of the wallet is mined or the
user spends tokens (`outdated`). `GasIsSetAside`: unless the user has spent some,
the ETH for what is still to be mined of all funded pairs is in the wallet,
however pairs and calls overlap, and a call that fails rows for the want of it
comes too late: one of the rows it loaded is mined (`short` are the pairs of any
other such call).

## 3. Runs

| run | instance | checks |
|---|---|---|
| `transfer_faults` | one pair, one confirmation, listener and monitor, all eight faults and restarts | `IInv`, `FundedBeforeBroadcast`, `QueuedIsReady`, `PendingIsBroadcast`, `CompletedIsInBlock`, `TopUpSettledInBlock`, `TaxAloneIsTold`, `CompletedIsSettled` |
| `transfer_pairs` | two pairs of one user, nonces overlap or not, drafts clear each other, one source, all faults but a lost answer, a failed statement and a restart | `IsGasless`, `FailedIsNotBroadcast` |
| `transfer_live` | one pair, listener and monitor race, fair, no faults | `TransferSettles`, `BroadcastIsRecorded` |
| `notifier_feed` | two connections of one client, two messages (one to oneself), two callers, disconnections, fair | `IInv`, `NoSendOnClosed`, `IsAFeed`, `ReturnsUnlessStuck`, `BrokenIsForgotten` |
| `reconnect` | two rounds; refused subscriptions, broken connections, hanging handlers, failed dials, fair | `IInv`, `OnlyTimerLeavesOne`, `OneConnection`, `CrashOnlyInShutdown`, `Reconnects`, `NobodyListensAlone` |
| `log_sources` | one transfer, four sources, two users of whom one registers another spelling, two units of time, all faults and a restart, the monitor fair | `IInv`, `ShownToBoth`, `ShownOnce`, `ListedIsFound`, `RowOnlyGainsTime`, `IgnoredOnlyByCache`, `PendingIsShown` |
| `scraper` | words of four values, up to four blocks, packets of two, two pending rows, panics and restarts, the scan fair | `IInv`, `NothingIsForgotten`, `PanicNeedsLateStart`, `PacketsDescend`, `WaitIsABarrier`, `ScanCompletes` |
| `fees` | two interchangeable pairs of one wallet, two gas prices, two balances of tokens, a bank that can pay for them or not, a user who spends at most once, any number of calls for a top-up | `IInv`, `LossNeedsHigherPrice`, `ShortByRounding`, `GasIsSetAside` |

Every `IInv` contains the type invariant of its module; that of `TransactionLog`
also has `YesIsRegistered` (the cache says "yes" of registered wallets only).

Four runs expect a violation: each states what a comment or a message says, and TLC finds a behaviour of the code against it (PROJECT.json, "findings").

| run | property | what happens |
|---|---|---|
| `patient_double_topup` | `NoDoubleTopUp` | a client confirms, waits for the answer and confirms again: the second call holds an old nonce while the pair is sent and completed, passes both checks, resets the rows and the bank pays twice. Two simultaneous confirmations do it in fewer steps. |
| `failed_but_sent` | `FailedIsNotBroadcast` | listener and monitor complete one top-up; the slower one is refused and writes "failed" over what the faster one sent |
| `stuck_queued` | `TransferSettles` | two pairs with the same nonces are confirmed at once; both pass `IsNoncePending` and are queued; one is refused and its tax row stays "queued" for ever |
| `notifier_stuck` | `NotifyReturns` | the hub has taken a notification for a writer that has ended: hub, reader and all callers wait for ever |

Other behaviours of the code that the models contain and a reader may not expect:

* When the second send of a pair fails, `CompleteTransfers` returns before
  `UpdateTransfers`: the first transaction is on the chain and its row keeps the
  status "queued" and no hash. `BroadcastIsRecorded` is therefore checked without
  faults (`transfer_live`).
* The first of the three queries of `GET /transactions` does not look at `after`,
  so that every transfer of the service is listed however old it is; the other
  two compare the column `time`, which is 0 in rows stored by the events listener
  and the monitors, although the item then shows `created_at`.
* A round of a monitor with two rows may end the service by a panic of its
  `WaitGroup`.
* The scan of old transactions never ends.
* A packet of events whose query fails is not read before the next start.
* When the gas price rises between creation and confirmation, the bank may pay
  more than the tax is worth.
* `NewTransfer.Validate` accepts any amount, its check is commented out; `Fees`
  has amounts from 0 up only.

What the passing runs say next to these. The repository always has both, listener
and monitor, and they may get in each other's way. Without any fault the
slower one writes "failed" over what the other has sent, even if that is completed
by then; and if the first fails to send the transfer, the second may load the tax
alone and send it. `transfer_faults` says what still holds with both of them, under
every fault: the transfer of a tax that was taken alone reads "failed"
(`TaxAloneIsTold`), and over a completed row only "failed" is written, never an
older status (`CompletedIsSettled`). Both leave out a pair that is confirmed
again: a second confirmation sets rows back (`patient_double_topup`).
`transfer_pairs` has one source: there, as long as no answer and no statement is
lost, a "failed" row was never sent, which `failed_but_sent` shows to need that
one source. With one confirmation and no faults every row ends, though two sources
race (`transfer_live`); the notifier hangs for that one reason (`notifier_feed`).

**Why the bounds are enough.** Every race in this code is between two parties
over one row, one pair or one nonce: two confirmations, two pairs, two sources,
a draft and a confirmation. Each run has the two parties and the resource they
compete for. `MaxNonce = 1` leaves only one nonce for the first row of a pair,
so that pairs collide; with 3 they may also follow one another. With
`MaxNonce = 2` and foreign transactions the account's nonce overtakes a pair.
Sources of a transaction meet at its row and in the cache; one transaction asks
for two different pairs of addresses (its parties, the caller and the contract),
which is enough for an entry left by one pair to meet another. Two units of time
tell "before" from "after" a block, a restart or a registration. For the hub two subscriptions and two callers give every order of a
registration, a departure and a notification. Rounds of the reconnect loop share
nothing but `current`: two are an old one and the one the loop is in. The scraper's words have four values and its
packets two blocks, so that the scan of transactions and the start of a packet
both wrap around, at the border of a packet and within one; two rows are what a
panic needs. In `fees` prices and rates are so small that every rounding shows,
and two pairs are one that overtakes the other; a second call for a top-up is
enough to come late, and one that spends to tell "has spent" from "has not". The
run `transfer_faults` has one confirmation, for which the clause on repeated
confirmations in `TaxAloneIsTold` and `CompletedIsSettled` says nothing. The proofs
remove the bounds for safety, and are for any number of confirmations of one pair,
which the passing runs leave out.

`CHECK_DEADLOCK FALSE` in all runs but `scraper`: clients make a bounded number of
calls, rounds and pairs are bounded, so a run ends when all are served. Everyone waiting for everyone is checked as a
liveness property instead.

**Fairness.** `LiveSpec` of `TransferService`: a handler that has started runs
on, goroutines that complete or fail a top-up run on, the monitors (`for` loops
with a sleep) come round again, the chain mines what is at the head of the
pool. All weak: each such step stays enabled until it is taken, or something
else has done its work. This presumes that a monitor neither hangs in
`NotifyClients` (`notifier_stuck`) nor panics (`scraper`), which are other parts of
the same process: `transfer_live` and the liveness of `log_sources` are about the
service while neither has happened. Nothing is assumed of the listeners, which may miss
every block and event, of clients, or of faults. `LiveSpec` of `Notifier`: every
goroutine takes its next step when it can; a write or a read on a broken
connection ends by its deadline (`writeWait`, `pongWait`). Nothing is assumed of
pings, of new subscriptions or of disconnections. `LiveSpec` of `Reconnect`: the
loop runs on and its timer fires, each goroutine runs on unless it hangs; main,
the dial's outcome and the connection are free. `LiveSpec` of `TransactionLog`:
the monitor's loop and its goroutines run on; listeners and scans are free.
`LiveSpec` of `Scraper`: the goroutine of the scan runs on, as long as the process
does; `ScanCompletes` asks for no more than that, since a call to the node that
fails is passed over too.

## 4. Proofs

All theorems hold for any constants that satisfy the named assumptions
(`StoreAssumption`, `ServiceAssumption`, `NotifierAssumption`,
`AccountAssumption`, `LogAssumption`, `ScanAssumption`, `TransferAssumption`,
`FeesAssumption`, `SurchargeAssumption`): any number of users, pairs,
confirmations, top-ups, subscriptions, messages, callers, wallets, spellings,
transactions, blocks and pending rows, words and packets of any size, any prices
and amounts, with any of the faults.

**TransferServiceProofs.** `Invariance`: `Spec => []IInv`. The safety
properties relate table and chain, but a step of a handler writes what it holds
in *memory*, loaded several steps before. So `IInv` adds what that memory may
contain: rows of a confirmation belong to its pair and have been marked
(`CallRowOK`), rows of a job carry their raw transaction and a top-up that was
paid for them and is in a block (`JobRowOK`); and what a program counter implies
(`CallOK`, `JobOK`). The second ingredient is monotonicity, the lemmas about
`Grows`: a known transaction stays known, one in a block stays there, a row never
returns to "absent" or "new". So what was true of a row when it was loaded is
still true when it is written, although the row itself may have changed. There is
one lemma per action (`...Inv`). `TypeCorrect`, `Funded`, `ClearedIsSafe`,
`QueuedCanBeSent`, `PendingCanBeWatched`, `CompletionIsSound` and
`TopUpIsSettled` follow from `IInv`. `ClearedIsSafe` has no run of its own: the
runs check it as a part of `IInv` and of `IsGasless`.

**GaslessProofs.** `ServiceIsGasless`: `Spec => IsGasless`. `IInv` nearly
suffices: `TokenRowOK` of the state *after* a write says that "queued",
"pending" and "completed" are true, so that one lemma (`WritesTell`) covers
every statement, once each is shown to keep to a common form (`Writes`). `Pay`
needs one more fact, that a confirmation which is about to pay has loaded every
row of its pair (`CallWhole`); with it, the monotonicity of rows gives that all
of them are still taken on when the top-up is sent, some calls later.

**SettlementProofs.** What goroutines that work on the same top-up may do to each
other's rows, for any number of sources, pairs, confirmations and restarts and
under every fault. `TaxIsToldOf`: `Spec => []TaxAloneIsTold`.
`CompletionIsSettled`: `Spec => CompletedIsSettled`. Neither restricts the
specification; the properties themselves make the exception of a pair that is
confirmed again. `RaceInv`, with `IInv`, is the invariant. Its idea is the row that
a goroutine has sent and not yet saved. The node accepts a transaction once, so
nobody else has it as "pending" in memory, and no row and no confirmation has its
hash (`Unsaved`): a row that is completed was saved before, hence whoever comes to
save "pending" holds no completed row. That is `CompletionIsSettled`; a goroutine
saves only what it has sent (`SentOK`). For the tax, a pair that was confirmed once
waits for one top-up with both rows, and as long as a row is not sent it reads
"queued" or "failed" (`PairOK`); rows are loaded in the order of their nonces and
the tax has the one after the transfer (`NonceOK`), so that a goroutine has the tax
without the transfer only if the transfer was failed when it was loaded, or was
sent by another one (`TaxFollows`). Lemmas say what a step may do to calls
(`CallAdvances`), rows (`RowGoes`), goroutines (`JobSends`) and a pair
(`PairGoes`), that such steps keep `RaceInv` (`RaceStep`), and that each action is
one (`...Race`).

**NotifierProofs.** `Invariance` of its `IInv`: the hub only has unsent messages
for subscriptions in its table, a subscription is in the table exactly while its
reader is between registration and unregistration, its channel is closed only
after that, and each message is with one caller at most. `NeverSendsOnClosed`
follows. `NotifierIsAFeed` (`Spec => Feed!FeedSpec`) shows that each action is a
step of the feed or a stutter: `Register` is `Join`, `Take` is `Publish`, a
successful `Write` is `Deliver`, `ReadFails` and its like are a stutter, and
whatever ends a writer or takes the subscription out of the table is `Leave`.

**ReconnectProofs.** `Invariance` of its `IInv`, for any number of rounds: a
value in a stop channel was sent by a goroutine that has gone on, `loopNext`
holds a value exactly when one more goroutine has ended than the loop has taken
note of (`ChannelsOK`), and the loop's place says what connections and rounds
are like (`RoundOK`). `AtMostOneIsLeft` follows from the count, `OneIsOpen` and
`NoCrashBefore` from the rounds.

**TransactionLogProofs.** `Invariance` of its `IInv`: what a query has found is
still in the table (`FoundOK`), since wallets are never deleted; a goroutine is
on its way only with a mined transaction (`TaskOK`); a row has the parties of its
transaction and no time or that of the block, and it is a plain call of the
contract only if the transaction was reverted or something failed (`RowOK`). `MakesTrueRows` says this
of what each source makes, `SavesTrueRows` that `ON CONFLICT` keeps it.
`CacheIsSound`, `BothSeeIt`, `SeenOnce`, `ListedCanBeLookedUp` and the action
properties `FirstMakesTheRow` and `IgnoredOnDoubleNo` follow; for `SeenOnce`, the
two queries that find a transfer of the service are shown to return equal items,
so that `UNION` drops one; for `ListedCanBeLookedUp` there is one case for each of
the three queries, and the row of `transactions`, when there is one, is compared
with the item by `RowOK`.

**ScraperProofs.** The two halves have no variable in common, so that `IInv` is
the conjunction of an invariant of the scan and one of the rounds, and a step of
one half leaves the other alone. For the scan, `Decrement` and `PacketGoesDown`
say what the words do at 0; `NoBlockIsForgotten` is inductive with the fact that
`next` is at most the newest block at the start while packets are read, and that
nothing waits without a subscription (`ScanOK`): what is skipped between `next` and
its successor is what was asked for, and `HandleBlock` and `Disconnect` only move
what waits to `tried` and to `missed`. For the rounds
the counter is the number of goroutines at work (`GroupOK`), by the library's
facts about the cardinality of finite sets, and a parked loop whose counter is
zero has somebody to wake it (`LoopOK`). `RoundsDoNotOverlap` follows: the loop
leaves a round with an empty group. `OnlyLateStartsPanic` holds because each of
the panics needs a group between zero and its release.

**FeesProofs.** Two lines of argument. `TaxPays` rests on `SurchargeAssumption`:
what rounding a quotient to 16 digits, a float and the integral part may lose of
the cheapest tax is less than the surcharge adds. With the configuration of the
repository (a surcharge of 1, that is 100 %, and 161 000 gas) it holds by many
orders of magnitude; a surcharge of next to nothing with a gas price of a few wei
would break it. It is used once, when a pair is created; after that the row keeps
its tax and price (`RowOK`), and the top-up is the gas of the row. `ChecksCover`
is inductive as it stands: whatever takes tokens from the wallet puts the other
pairs in flight into `outdated`. `FundsAreSetAside` needs the sum of the gas of a
set of pairs, which is a fold of the library. The induction theorems for finite
sets take an operator and cannot be used, so that `SubsetInduction` goes through
a minimal counterexample in the well-founded order of the subsets of a finite
set. With it the fold is shown to exist (`SumExists`), to be an amount, to depend on
its pairs only (`GasSame`), and to give up any one of them, whichever was picked
first (`GasWithout`). The rest is one lemma per action: a top-up is the gas of the
pair that joins the sum, by `RowOK`; a transaction that is mined pays at most its
own part of what is due (`Due`); and a call of `CompleteTransfers` that fails rows
for the want of ETH with none of them mined would compare the balance with a part
of what is due, which is there. Which calls there are, and what they have loaded,
does not matter: what is due depends on what is mined alone. That only finitely many
pairs are funded is part of the invariant (`Aside`) and no assumption.

**Only model-checked.** Liveness (`TransferSettles`, `BroadcastIsRecorded`,
`ReturnsUnlessStuck`, `BrokenIsForgotten`, `Reconnects`,
`NobodyListensAlone`, `PendingIsShown`, `ScanCompletes`): fairness means `ENABLED`, which the
prover does not handle; and `FailedIsNotBroadcast`, which holds in the run with one
source and not in general. Every other invariant and every action property of the
passing runs is proved, without further hypotheses. `RaceInv` has no run of its
own: it was checked with TLC on small instances before it was proved.

## 5. Plan

1. Done: `TransferStore`, `TransferService`, invariant and proofs.
2. Done: `NotificationFeed`, `Notifier`, refinement and proofs.
3. Done: `Reconnect`, its invariant and proofs.
4. Done: `WalletCache`, composed with the scrapers' decision to save.
5. Done: `TransactionLog` with the history and the lookup, its invariant and
   proofs. Left: rows of top-ups and of other Ethereum transactions.
6. Done: `BlockScan`, `MonitorRounds` and their composition `Scraper`, with proofs.
7. Done: `Fees` (the conversions with what they lose, and everything made of
   them), with proofs.
8. Done: `GaslessTransfer`, implemented by `TransferService`, with the proof.
9. Done: `SettlementProofs`, and `GasIsSetAside` with the sums it needs. Left: the
   statuses a stale write can take a row to after a second confirmation.
10. Liveness of a monitor's rounds (every mined row is settled unless the monitor
   panics): it needs fairness for each goroutine, which multiplies the states of
   `scraper` beyond what a run can hold.

## 6. Not modelled

Access control and authentication (stateless checks by a library), rendering and
parsing of requests, the rate service (its answer is a constant of `Fees`, its
failure the failure of an estimate), migrations, generated code, configuration
(what it refuses is in the assumptions) and logging. The rows of top-ups and of
other Ethereum transactions in the `transactions` table; negative amounts and gas
prices of 0; a change of `Surcharge` or of the gas limits between two starts. `TransferService` does not write the `transactions`
table: no decision on a transfer reads it.
