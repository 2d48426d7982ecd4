\* Peers that stall, end and reset at any moment; tasks that may be slow at any
\* step.
SPECIFICATION Spec
CONSTANTS
    Short = 1
    So = 2
    Idle = 3
    MaxInt = 2
    MaxSent = 2
    Stallers = {"client", "remote"}
    Prompt = FALSE
INVARIANTS
    TypeOK
    Accounted
    SettledTimeouts
    ClosedByEnd
PROPERTIES
    ImplementsDuplex
    PatientReads
    SilenceMeetsTimeout
\* A connection whose tasks are done stops.
CHECK_DEADLOCK FALSE
