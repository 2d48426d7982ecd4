\* The ends of a connection: both tasks and both sockets, after any of the ways
\* a task can end.  The service may stop taking data, the header included; the
\* same with the client in its place passes too.
SPECIFICATION Spec
CONSTANTS
    Short = 1
    So = 2
    Idle = 3
    MaxInt = 2
    MaxSent = 1
    Stallers = {"remote"}
    Prompt = FALSE
PROPERTIES
    BothEnd
    EndOfStreamCloses
\* A connection whose tasks are done stops.
CHECK_DEADLOCK FALSE
