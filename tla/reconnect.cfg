\* Subscriptions are refused, connections break, handlers hang, the node may
\* be gone; two rounds.
CONSTANTS
    MaxConn = 2
    Faults = {"dial", "refuse", "break", "hang"}
SPECIFICATION LiveSpec
INVARIANTS
    IInv
    OnlyTimerLeavesOne
    OneConnection
    CrashOnlyInShutdown
PROPERTIES
    Reconnects
    NobodyListensAlone
\* The bound on rounds, the end of the service and a crash end everything.
CHECK_DEADLOCK FALSE
