\* Every goroutine stores a transfer, everything may fail, wallets are
\* registered and forgotten by the cache meanwhile.
CONSTANTS
    alice = alice
    bob = bob
    low = low
    Address = {alice, low, bob, token}
    Account <- MCAccount
    Contract = token
    Users = {low, bob}
    Tx = {t}
    From <- MCFrom
    To <- MCTo
    Source = {"event", "oldEvent", "block", "monitor"}
    MaxTime = 2
    Faults = {"receipt", "query", "db", "revert", "restart"}
SPECIFICATION LiveSpec
INVARIANTS
    IInv
    ShownToBoth
    ShownOnce
    ListedIsFound
PROPERTIES
    RowOnlyGainsTime
    IgnoredOnlyByCache
    PendingIsShown
\* Each goroutine stores a transaction once.
CHECK_DEADLOCK FALSE
