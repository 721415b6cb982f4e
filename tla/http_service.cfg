\* Two clients, three commands, and a busy port or a slow request.
SPECIFICATION FairSpec
CONSTANTS
    Clients = {c1, c2}
    MaxCommands = 3
    Faults = {"foreign", "slow"}
INVARIANTS RunningMeansListening OrderlyStateMatchesPort
PROPERTY CommandsAnswered
CHECK_DEADLOCK FALSE
