\* Two clients and two commands (a restart makes the second Server); sockets that
\* cannot be opened or fail.
SPECIFICATION ServiceFairSpec
CONSTANTS
    Clients = {c1, c2}
    MaxCommands = 2
    MaxStarts = 2
    SocketFaults = {"bind", "serve"}
INVARIANTS OrderlyStateMatchesSockets StopMeansQuiet OnlyFlushKills
PROPERTIES CommandsAnswered FailureReported
CHECK_DEADLOCK FALSE
