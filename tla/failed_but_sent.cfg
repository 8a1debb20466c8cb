\* Listener and monitor find the same top-up.
CONSTANTS
    u = u
    User = {u}
    Bank = bank
    Pair = {p}
    Owner <- MCOwner
    MaxTopUps = 1
    NULL = NULL
    Attempt = {a}
    Source = {"listen", "monitor"}
    MaxNonce = 1
    Faults = {}
SPECIFICATION Spec
INVARIANTS
    FailedIsNotBroadcast
\* The clients make a bounded number of calls: when all have been served and
\* everything is mined, nothing more can happen.
CHECK_DEADLOCK FALSE
