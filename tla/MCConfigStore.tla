---------------------------- MODULE MCConfigStore ----------------------------
(* Two threads; as in application.yml two mappings to begin with, whose ids a
   batch may get wrong.  The white list has one entry. *)
EXTENDS ConfigStore, TLC

CONSTANTS th1, th2, a, b, c, x, y

MCThreads == {th1, th2}
MCNames == [t \in Table |-> IF t = "mapping" THEN {a, b, c} ELSE {a, b}]
MCTargets == [t \in Table |-> IF t = "mapping" THEN {x, y} ELSE {x}]
MCDefaults == [t \in Table |-> IF t = "mapping"
                                THEN {entry(0, a, x, TRUE), entry(0, b, x, TRUE)}
                                ELSE {entry(0, a, x, TRUE)}]

\* For every kind of write one that clashes with another row, one that does not,
\* and one that changes what an open page still shows.
MCRequests ==
    {request("get", "mapping", entry(0, a, x, TRUE)),
     request("add", "mapping", entry(0, c, x, TRUE)),
     request("delete", "mapping", entry(1, a, x, TRUE)),
     request("update", "mapping", entry(1, a, y, TRUE)),
     request("update", "mapping", entry(1, b, x, TRUE)),
     request("set", "mapping", entry(1, a, x, FALSE)),
     request("set", "mapping", entry(1, a, y, FALSE)),
     request("update", "ip", entry(1, b, x, TRUE)),
     request("add", "ip", entry(0, b, x, TRUE))}

\* An update and a stop-forward of the same entry.
MCTwoOfOne ==
    {request("update", "mapping", entry(1, a, y, TRUE)),
     request("set", "mapping", entry(1, a, x, FALSE))}

MCSymmetry == Permutations(MCThreads)
=============================================================================
