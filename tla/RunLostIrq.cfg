SPECIFICATION Spec
CONSTANTS
    Irqs = {0, 1}
    MaxCont = 2
    RipMod = 2
INVARIANTS
    NoLostIrq
