\* No fault, and scripts that spoof: looks for an answer without a rule.
SPECIFICATION Spec
CONSTANTS
    Domains = {d1, d2}
    Handlers = {h1, h2}
    Instances = {s1}
    NoInstance = noserver
    PoolIPs = {p1, p2}
    UpstreamIPs = {u1}
    AnalysisIP = sandbox
    NilIP = nil
    EmptyIP = empty
    NoDomain = none
    VerifyUpstream = TRUE
    Tables <- MCSpoofTables
    MaxRules = 2
    Faults = {}
INVARIANT AnswerRedirected
