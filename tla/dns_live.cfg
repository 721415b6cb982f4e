\* Two Servers: queries that a failed Stop left behind go on while the next Server
\* answers and is stopped; one name, which may be ignored, one pool address and one rule.
SPECIFICATION FairSpec
CONSTANTS
    Domains = {d1}
    Handlers = {h1, h2}
    Instances = {s1, s2}
    NoInstance = noserver
    PoolIPs = {p1}
    UpstreamIPs = {}
    AnalysisIP = sandbox
    NilIP = nil
    EmptyIP = empty
    NoDomain = none
    VerifyUpstream = FALSE
    Tables <- MCTables
    MaxRules = 1
    Faults = {"crash"}
PROPERTIES QueryCompletes StopCompletes
