\* Unique service names, one of which ends with the other.
SPECIFICATION Spec
CONSTANTS
    c1 = c1
    c2 = c2
    NoClient = NoClient
    Clients <- MCClients
    Names <- MCNames
    Core = 2
    HostOf <- MCHostOf
    Mentions <- MCMentions
    Cuts <- MCCuts
    BadTargets <- MCBadTargets
    Lists <- MCLists
    RuleLists <- MCRuleLists
    MaxChanges = 0
INVARIANT SingleTarget
CHECK_DEADLOCK FALSE
