\* Two clients, three commands, a second that passes; multipliers of either sign
\* with a fraction, and one that is not finite.
SPECIFICATION FairSpec
CONSTANTS
    Clients = {c1, c2}
    MaxCommands = 3
    MaxNow = 1
    Unit = 2
    Multipliers <- MCMultipliers
    Configured = 3
    NotFinite = notfinite
    NoTime = notime
INVARIANTS RunningMeansServing OrderlyStateMatchesPort NoReplyAfterStop DeathNeedsRace
    ClockDrift
PROPERTIES TimeNeverLeaps CommandsAnswered
CHECK_DEADLOCK FALSE
