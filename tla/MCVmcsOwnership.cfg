SPECIFICATION Spec
CONSTANTS
    t1 = t1
    t2 = t2
    t3 = t3
    v1 = v1
    v2 = v2
    None = None
    Threads = {t1, t2, t3}
    Cpus = {c1, c2}
    Vms = {v1, v2}
    VmOf <- MCVmOf
SYMMETRY MCSymmetry
INVARIANTS
    TypeOK
    VmcsAccessLocal
    LaunchFromClear
    HostStateLocal
    IdleVmcsInactive
    InterruptsRestored
    LoadedWhileAccessed
