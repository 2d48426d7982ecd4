\* Two clients, connect tasks and relays for two threads, a configuration that
\* changes twice, and a target that no socket address can be made of.
SPECIFICATION Spec
CONSTANTS
    c1 = c1
    c2 = c2
    NoClient = NoClient
    Clients <- MCClients
    Names <- MCNames
    Core = 2
    HostOf <- MCHostOf
    Mentions <- MCMentions
    Cuts <- MCCuts
    BadTargets <- OneBadTarget
    Lists <- MCLists
    RuleLists <- MCRuleLists
    MaxChanges = 2
INVARIANTS
    TypeOK
    ClientOwned
    RemotePaired
PROPERTIES
    NoStaleForward
    ImplementsService
    EveryoneAccepted
    EveryoneClosed
\* When every client has been served nothing need happen.
CHECK_DEADLOCK FALSE
