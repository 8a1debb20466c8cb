\* Connections may break at any time.
CONSTANTS
    alice = alice
    bob = bob
    s1 = s1
    s2 = s2
    s3 = s3
    m1 = m1
    m2 = m2
    Client = {alice, bob}
    Sub = {s1, s2}
    Message = {m1, m2}
    ClientOf <- MCClientOf
    To <- MCTo
    From <- MCFrom
    Caller = {"listen", "monitor"}
    NoMessage = NoMessage
    Faults = {"disconnect"}
SPECIFICATION LiveSpec
INVARIANTS
    IInv
    NoSendOnClosed
PROPERTIES
    IsAFeed
    BrokenIsForgotten
    ReturnsUnlessStuck
\* Clients connect once and a bounded number of transactions is notified: then
\* nothing more can happen.
CHECK_DEADLOCK FALSE
