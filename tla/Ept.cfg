SPECIFICATION Spec
CONSTANTS
    Fanout = 2
    Tables = {t1, t2, t3, t4, t5, t6, t7, t8, t9, t10, t11, t12, t13, t14, t15}
    Frames = {f1, f2}
    Apic = apic
    ApicGfn = 13
    NULL = NULL
    HostPages = {0, 1}
    Bases = {0, 3, 12, 15}
    MaxPages = 2
    MaxCalls = 2
INVARIANTS
    WalksAgree
    RegionMapped
    FreedOnce
PROPERTIES
    ImplementsMap
