\* A page and nobody else.
SPECIFICATION Spec
CONSTANTS
    h1 = h1
    Handlers <- OneHandler
    Period = 2
    MaxMinutes = 2
    MaxOthers = 0
PROPERTY AnswerKeepsPolling
CHECK_DEADLOCK FALSE
