SPECIFICATION Spec
CONSTANTS
    t1 = t1
    t2 = t2
    t3 = t3
    p1 = p1
    p2 = p2
    NULL = NULL
    MaxOpens = 3
    Threads = {t1, t2, t3}
    Procs = {p1, p2}
    ProcOf <- MCProcOf
    States = {s1, s2}
    Vcpus = {w1, w2}
    Discipline = {"mapped"}
SYMMETRY MCSymmetry
INVARIANTS
    CloseAlone
