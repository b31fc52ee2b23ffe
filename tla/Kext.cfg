SPECIFICATION KextSpec
CONSTANTS
    Procs = {p1, p2, p3}
    States = {s1, s2, s3, s4}
    NULL = NULL
    MaxStarts = 3
INVARIANTS
    DoublyLinked
    AllFound
    HandlersServed
PROPERTIES
    ImplementsMap
CHECK_DEADLOCK FALSE
