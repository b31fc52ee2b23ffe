SPECIFICATION Spec
CONSTANTS
    Versions = {1, 2}
    Hosts = {1, 2}
    Leaves <- MCLeaves
    MaxSets = 2
    MaxRuns = 2
    MaxCalls = 3
    Touched <- MCTouched
    MaxChanges = 1
    Offered <- MCOffered
INVARIANTS
    GuestSees
    AccessRights
    HostKept
    ClientSees
    RefusalTold
CHECK_DEADLOCK FALSE
