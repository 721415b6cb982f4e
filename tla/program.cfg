\* Two processes, which may overlap, two services, one command and every fault.
SPECIFICATION FairSpec
CONSTANTS
    Order <- MCOrder
    Enabled = {"http"}
    Processes = {1, 2}
    MaxControls = 1
    Faults = {"disk", "tls", "socket", "service", "crash", "overlap"}
INVARIANTS StartComesUp ServesWholeConfig Reachable ExitStops
PROPERTY SignalEnds
CHECK_DEADLOCK FALSE
