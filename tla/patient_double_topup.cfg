\* The client confirms again only after the first call has answered.
CONSTANTS
    u = u
    User = {u}
    Bank = bank
    Pair = {p}
    Owner <- MCOwner
    MaxTopUps = 2
    NULL = NULL
    Attempt = {a, b}
    Source = {"listen"}
    MaxNonce = 1
    Faults = {}
SPECIFICATION PatientSpec
INVARIANTS
    NoDoubleTopUp
\* The clients make a bounded number of calls: when all have been served and
\* everything is mined, nothing more can happen.
CHECK_DEADLOCK FALSE
