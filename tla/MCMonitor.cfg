\* The first sample, a minute later another and a clear, so that samplers, the
\* clear and readings overlap; one thread that answers (answers are received in
\* any order all the same), and one request of somebody else.
SPECIFICATION Spec
CONSTANTS
    h1 = h1
    Handlers <- OneHandler
    Period = 2
    MaxMinutes = 2
    MaxOthers = 1
INVARIANTS
    TypeOK
    ListSound
    ShownInOrder
    ChartsTrue
    OneLoop
PROPERTIES
    ImplementsLog
    LoopEndsForReason
    Answered
CHECK_DEADLOCK FALSE
