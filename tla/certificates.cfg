\* Two processes in one directory, two handshakes, every fault.
SPECIFICATION Spec
CONSTANTS
    Processes = {p1, p2}
    Roots = {r1, r2}
    Handshakers = {h1, h2}
    Faults = {"crash", "write", "issue"}
    Names <- MCNames
    Spellings <- MCSpellings
    Canon <- MCCanon
    None = None
    Partial = Partial
SYMMETRY Symmetric
INVARIANTS RootPairMatches LeavesChainToRoot MintedOnce
