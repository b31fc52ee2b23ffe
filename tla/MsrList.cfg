SPECIFICATION Spec
CONSTANTS
    Versions = {1}
    Hosts = {1}
    Leaves <- MCLeaves
    MaxSets = 0
    MaxRuns = 0
    MaxCalls = 0
    Touched <- MCTouched
    MaxChanges = 0
    Offered <- MCMsrList
INVARIANT
    MsrListReturned
CHECK_DEADLOCK FALSE
