\* Every list of up to three rules against three hosts.
SPECIFICATION Spec
CONSTANTS
    Segment <- MCSegment
    Hosts <- MCHosts
    RuleLists <- MCRuleLists
INVARIANTS
    TypeOK
    ScanInv
    ScanDecides
\* A scan is over when it is done.
CHECK_DEADLOCK FALSE
