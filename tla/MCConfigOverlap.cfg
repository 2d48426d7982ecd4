\* Two requests at the same time.
SPECIFICATION Spec
CONSTANTS
    th1 = th1
    th2 = th2
    a = a
    b = b
    c = c
    x = x
    y = y
    Threads <- MCThreads
    Names <- MCNames
    Targets <- MCTargets
    Defaults <- MCDefaults
    Requests <- MCRequests
    MaxId = 3
    MaxRequests = 2
    MaxCrashes = 0
SYMMETRY MCSymmetry
INVARIANT DatabaseInUse
\* The requests are bounded.
CHECK_DEADLOCK FALSE
