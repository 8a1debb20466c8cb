\* Connections of two clients may break while notifications are on their way.
CONSTANTS
    alice = alice
    bob = bob
    s1 = s1
    s2 = s2
    s3 = s3
    m1 = m1
    m2 = m2
    Client = {alice, bob}
    Sub = {s1, s3}
    Message = {m1, m2}
    ClientOf <- MCClientOf
    To <- MCTo
    From <- MCFrom
    Caller = {"listen", "monitor"}
    NoMessage = NoMessage
    Faults = {"disconnect"}
SPECIFICATION LiveSpec
PROPERTIES
    NotifyReturns
\* Clients connect once and a bounded number of transactions is notified: then
\* nothing more can happen.
CHECK_DEADLOCK FALSE
