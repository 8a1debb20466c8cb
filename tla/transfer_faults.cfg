\* One pair, everything that can go wrong.
CONSTANTS
    u = u
    User = {u}
    Bank = bank
    Pair = {p}
    Owner <- MCOwner
    MaxTopUps = 1
    NULL = NULL
    Attempt = {a}
    Source = {"listen", "monitor"}
    MaxNonce = 2
    Faults = {"rpc", "lost", "db", "malformed", "foreign", "revert", "funds", "restart"}
SPECIFICATION Spec
INVARIANTS
    IInv
    FundedBeforeBroadcast
    QueuedIsReady
    PendingIsBroadcast
    CompletedIsInBlock
    TopUpSettledInBlock
    TaxAloneIsTold
PROPERTIES
    CompletedIsSettled
\* The clients make a bounded number of calls: when all have been served and
\* everything is mined, nothing more can happen.
CHECK_DEADLOCK FALSE
