\* Three callers, two names, two VMs that are replaced after two or three scripts, three calls.
SPECIFICATION FairSpec
CONSTANTS
    Callers = {c1, c2, c3}
    Keys = {k1, k2}
    NoCaller = nobody
    NoKey = none
    PoolSize = 2
    Lifetimes = {0}
    MaxCalls = 3
INVARIANTS VmExclusive ObservationsCounted FirstSightingsBounded
PROPERTIES HandleReturns ImplementsSlots
CHECK_DEADLOCK FALSE
