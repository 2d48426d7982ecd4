\* An update while a start- or stop-forward holds the object of before.
SPECIFICATION Spec
CONSTANTS
    th1 = th1
    th2 = th2
    a = a
    b = b
    c = c
    x = x
    y = y
    Threads <- MCThreads
    Names <- MCNames
    Targets <- MCTargets
    Defaults <- MCDefaults
    Requests <- MCTwoOfOne
    MaxId = 3
    MaxRequests = 2
    MaxCrashes = 0
SYMMETRY MCSymmetry
PROPERTY ForwardKeepsRow
\* The requests are bounded.
CHECK_DEADLOCK FALSE
