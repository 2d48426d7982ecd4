------------------------------ MODULE SampleLog ------------------------------
(***************************************************************************)
(* What a list of samples promises, without slots and sizes: a log.  A     *)
(* save that has begun appends its sample once, when it ends, and a clear  *)
(* empties the log.  The promise is off from the moment a save overlaps    *)
(* another save or a clear, and on again after a clear that meets no save. *)
(***************************************************************************)
EXTENDS Naturals, Sequences

CONSTANTS Writers,   \* the tasks that save
          Sample,    \* samples
          None       \* no sample

VARIABLES log,       \* the samples since the last clear, while sound
          saving,    \* saving[w]: the sample task w is saving, or None
          sound      \* the promise is on
vars == <<log, saving, sound>>

Init == /\ log = <<>>
        /\ saving = [w \in Writers |-> None]
        /\ sound = TRUE

Nobody == \A w \in Writers : saving[w] = None
Breaks == log' = <<>> /\ sound' = FALSE

Begin(w, s) ==
    /\ saving[w] = None
    /\ saving' = [saving EXCEPT ![w] = s]
    /\ Breaks \/ (Nobody /\ UNCHANGED <<log, sound>>)

End(w) ==
    /\ saving[w] # None
    /\ saving' = [saving EXCEPT ![w] = None]
    /\ log' = IF sound THEN Append(log, saving[w]) ELSE log
    /\ UNCHANGED sound

Clear ==
    /\ log' = <<>>
    /\ IF Nobody THEN sound' \in {sound, TRUE} ELSE sound' = FALSE
    /\ UNCHANGED saving

Next == \/ \E w \in Writers : End(w) \/ \E s \in Sample : Begin(w, s)
        \/ Clear

Spec == Init /\ [][Next]_vars
=============================================================================
