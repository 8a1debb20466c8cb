\* Two pairs of one user compete for nonces; calls to the node fail, but no answer
\* and no statement is lost.
CONSTANTS
    u = u
    User = {u}
    Bank = bank
    Pair = {p, q}
    Owner <- MCOwner
    MaxTopUps = 2
    NULL = NULL
    Attempt = {a}
    Source = {"monitor"}
    MaxNonce = 3
    Faults = {"rpc", "funds", "revert", "malformed", "foreign"}
SPECIFICATION Spec
INVARIANTS
    FailedIsNotBroadcast
PROPERTIES
    IsGasless
\* The clients make a bounded number of calls: when all have been served and
\* everything is mined, nothing more can happen.
CHECK_DEADLOCK FALSE
