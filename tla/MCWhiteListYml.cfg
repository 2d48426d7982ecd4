\* The white list of application.yml against the loopback addresses.
SPECIFICATION Spec
CONSTANTS
    Segment <- YmlSegment
    Hosts <- YmlHosts
    RuleLists <- YmlRuleLists
INVARIANT LocalhostAdmitted
CHECK_DEADLOCK FALSE
