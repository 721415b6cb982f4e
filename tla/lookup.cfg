\* Chains of up to seven CNAME records, six directories, and exchanges that fail.
SPECIFICATION Spec
CONSTANTS
    Labels <- MCLabels
    LowerOf <- MCLowerOf
    Names <- MCNames
    Listings <- MCListings
    Zones <- MCZones
    Apex <- MCApex
    NoApex = "no apex"
    Default <- MCDefault
INVARIANTS VerdictFollowsChain AskedOnce RuleIsMostSpecific
CHECK_DEADLOCK FALSE
