\* Requests of two web threads, overlapping or not, with start() and with each
\* other; the process dies once, anywhere.
SPECIFICATION Spec
CONSTANTS
    th1 = th1
    th2 = th2
    a = a
    b = b
    c = c
    x = x
    y = y
    Threads <- MCThreads
    Names <- MCNames
    Targets <- MCTargets
    Defaults <- MCDefaults
    Requests <- MCRequests
    MaxId = 3
    MaxRequests = 2
    MaxCrashes = 1
SYMMETRY MCSymmetry
INVARIANTS
    TypeOK
    CacheFresh
    Repaired
PROPERTIES
    ChangeObeyed
    CountSuffices
\* The requests are bounded.
CHECK_DEADLOCK FALSE
