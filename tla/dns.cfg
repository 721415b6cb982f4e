\* Two Servers: queries that a failed Stop left behind meet the next Server and its
\* stop.  Every provisioning, with iptables that may fail, crashes and flushes, and one
\* pool address that two names and both Servers draw.
SPECIFICATION Spec
CONSTANTS
    Domains = {d1, d2}
    Handlers = {h1, h2}
    Instances = {s1, s2}
    NoInstance = noserver
    PoolIPs = {p1}
    UpstreamIPs = {}
    AnalysisIP = sandbox
    NilIP = nil
    EmptyIP = empty
    NoDomain = none
    VerifyUpstream = TRUE
    Tables <- MCSpoofTables
    MaxRules = 2
    Faults = {"iptables", "crash", "flush"}
SYMMETRY MCSymmetry
INVARIANTS AddressAttribution RuleBacking
PROPERTY StoppedIsQuiet
