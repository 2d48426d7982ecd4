\* Tasks that lose no time, against the comment on the silence test.
SPECIFICATION Spec
CONSTANTS
    Short = 1
    So = 2
    Idle = 3
    MaxInt = 2
    MaxSent = 2
    Stallers = {"client", "remote"}
    Prompt = TRUE
PROPERTY EndedForSilence
CHECK_DEADLOCK FALSE
