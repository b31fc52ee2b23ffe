SPECIFICATION FairSpec
CONSTANTS
    Irqs = {0}
    MaxCont = 3
    RipMod = 2
PROPERTIES
    RunReturns
    InterruptDelivered
