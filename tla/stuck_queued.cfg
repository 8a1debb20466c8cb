\* Two pairs of one user compete for nonces; nothing is lost or delayed for ever.
CONSTANTS
    u = u
    User = {u}
    Bank = bank
    Pair = {p, q}
    Owner <- MCOwner
    MaxTopUps = 2
    NULL = NULL
    Attempt = {a}
    Source = {"monitor"}
    MaxNonce = 1
    Faults = {}
SPECIFICATION LiveSpec
PROPERTIES
    TransferSettles
\* The clients make a bounded number of calls: when all have been served and
\* everything is mined, nothing more can happen.
CHECK_DEADLOCK FALSE
