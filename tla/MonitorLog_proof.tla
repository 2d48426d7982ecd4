--------------------------- MODULE MonitorLog_proof ---------------------------
(***************************************************************************)
(* The list implements SampleLog.  The inductive invariant is the one of   *)
(* the order of the list: while nothing has overlapped there is one save   *)
(* at a time, at the end of the list and never during a clear.             *)
(***************************************************************************)
EXTENDS Monitor_proof

LogStep == [Log!Next]_(Log!vars)

\* A save under way has a sample, and any other writer has none.
LEMMA SavedFacts ==
    ASSUME ListInv
    PROVE  /\ DOMAIN Saved = Writers
           /\ \A w \in Writers : /\ (Saved[w] = Null) <=> ~Saving(w)
                                 /\ Saving(w) => Saved[w] = writer[w].date
           /\ Log!Nobody <=> \A w \in Writers : ~Saving(w)
<1>1. \A w \in Writers : Saving(w) => writer[w].date # Null
  BY ListFacts DEF Minute, Null
<1> QED  BY <1>1 DEF Saved, Log!Nobody

\* The slots a sound list has behind it.
LEMMA StoredFacts ==
    ASSUME ListInv, OrderInv, damage # "torn"
    PROVE  /\ \A w \in Writers : writer[w].pc = "store" => Stored = size - 1 /\ size \in Slots
           /\ (\A w \in Writers : writer[w].pc # "store") => Stored = size
           /\ Stored \in 0..MaxMinutes
<1>1. \A w \in Writers : writer[w].pc = "store" => size \in Slots
  BY ListFacts DEF OrderInv, Alone, Saving
<1> QED  BY <1>1, ListFacts DEF Stored, Slots

\* The end of an add puts the sample behind the others.
LEMMA Appended ==
    ASSUME NEW S, NEW a, NEW b, NEW n \in Nat, NEW x \in S,
           \A i \in 1..n : a[i] \in S /\ b[i] = a[i], b[n + 1] = x
    PROVE  SubSeq(b, 1, n + 1) = Append(SubSeq(a, 1, n), x)
<1>1. /\ SubSeq(a, 1, n) \in Seq(S) /\ Len(SubSeq(a, 1, n)) = n
      /\ \A i \in 1..n : SubSeq(a, 1, n)[i] = a[i]
  <2>1. \A i \in 1..n : a[i] \in S
    OBVIOUS
  <2>2. /\ SubSeq(a, 1, n) \in Seq(S)
        /\ Len(SubSeq(a, 1, n)) = IF 1 <= n THEN n - 1 + 1 ELSE 0
        /\ \A i \in 1..(n - 1 + 1) : SubSeq(a, 1, n)[i] = a[1 + i - 1]
    BY <2>1, SubSeqProperties
  <2> QED  BY <2>2
<1>2. /\ SubSeq(b, 1, n + 1) \in Seq(S) /\ Len(SubSeq(b, 1, n + 1)) = n + 1
      /\ \A i \in 1..(n + 1) : SubSeq(b, 1, n + 1)[i] = b[i]
  <2>1. \A i \in 1..(n + 1) : b[i] \in S
    OBVIOUS
  <2>2. /\ SubSeq(b, 1, n + 1) \in Seq(S)
        /\ Len(SubSeq(b, 1, n + 1)) = IF 1 <= n + 1 THEN n + 1 - 1 + 1 ELSE 0
        /\ \A i \in 1..(n + 1 - 1 + 1) : SubSeq(b, 1, n + 1)[i] = b[1 + i - 1]
    BY <2>1, SubSeqProperties
  <2> QED  BY <2>2
<1> DEFINE s == SubSeq(a, 1, n)
           t == SubSeq(b, 1, n + 1)
<1>3. /\ Append(s, x) \in Seq(S) /\ Len(Append(s, x)) = n + 1
      /\ \A i \in 1..n : Append(s, x)[i] = a[i]
      /\ Append(s, x)[n + 1] = x
  <2> HIDE DEF s
  <2>1. s \in Seq(S) /\ Len(s) = n /\ \A i \in 1..n : s[i] = a[i]
    BY <1>1 DEF s
  <2> QED  BY <2>1, AppendProperties
<1>4. \A i \in 1..(n + 1) : t[i] = Append(s, x)[i]
  BY <1>2, <1>3
<1> HIDE DEF s, t
<1>5. t = Append(s, x)
  BY <1>2, <1>3, <1>4, SeqEqual DEF t
<1> QED  BY <1>5 DEF s, t

\* A step that changes no slot the log consists of, nor who saves what.
LEMMA LogStays ==
    ASSUME ListInv, ListInv', UNCHANGED <<array, damage>>,
           clearing' = "nulled" <=> clearing = "nulled",
           damage # "torn" => Stored' = Stored,
           \A w \in Writers : /\ Saving(w)' <=> Saving(w)
                              /\ Saving(w) => writer'[w].date = writer[w].date
    PROVE  LogStep
<1>1. Logged' = Logged
  BY DEF Logged
<1>2. Saved' = Saved
  BY DEF Saved
<1> QED  BY <1>1, <1>2 DEF LogStep, Log!vars

\* A save is a Begin, an End, and a stutter in between.
LEMMA SaveBeginsLogs ==
    ASSUME ListInv, ListInv', OrderInv, NEW w \in Writers, SaveBegins(w)
    PROVE  Log!Begin(w, Stamp(w)) /\ Stamp(w) \in Minute
<1>1. /\ UNCHANGED <<topic, now, array, size, clearing>> /\ writer[w].pc = "pull"
      /\ damage' = Harm(w)
      /\ \A v \in Writers \ {w} : writer'[v] = writer[v]
      /\ writer'[w] = [pc |-> "grow", at |-> size + 1, date |-> Stamp(w)]
  BY ListFacts DEF SaveBegins, OnlyList
<1>2. Stamp(w) \in Minute
  BY <1>1 DEF ListInv, ListTypes, Room, Stamp
<1>3. ~Saving(w) /\ Saved[w] = Null
  BY <1>1, SavedFacts DEF Saving
<1>4. Saved' = [Saved EXCEPT ![w] = Stamp(w)]
  <2>1. \A v \in Writers : Saved'[v] = [Saved EXCEPT ![w] = Stamp(w)][v]
    BY <1>1 DEF Saved, Saving
  <2>2. Saved' = [v \in Writers |-> Saved'[v]]
    BY DEF Saved
  <2> QED  BY <2>1, <2>2 DEF Saved
<1>5. CASE Overlaps(w)
  <2>1. damage' = "torn"
    BY <1>1, <1>5 DEF Harm
  <2> QED  BY <1>2, <1>3, <1>4, <2>1 DEF Log!Begin, Log!Breaks, Logged
<1>6. CASE ~Overlaps(w)
  <2>1. /\ clearing # "nulled" /\ \A v \in Writers : ~Saving(v)
        /\ damage' = "torn" <=> damage = "torn"
    BY <1>1, <1>6 DEF Overlaps, Harm
  <2>2. Log!Nobody
    BY <2>1, SavedFacts
  <2>3. Stored' = Stored
    BY <1>1 DEF Stored
  <2>4. Logged' = Logged
    BY <1>1, <2>1, <2>3 DEF Logged
  <2> QED  BY <1>2, <1>3, <1>4, <2>1, <2>2, <2>4 DEF Log!Begin
<1> QED  BY <1>5, <1>6

LEMMA SaveGrowsLogs ==
    ASSUME ListInv, ListInv', OrderInv, NEW w \in Writers, SaveGrows(w)
    PROVE  LogStep
<1>1. /\ UNCHANGED <<array, clearing, damage>> /\ size' = writer[w].at
      /\ Saving(w) /\ writer[w].pc = "grow"
      /\ \A v \in Writers \ {w} : writer'[v] = writer[v]
      /\ writer'[w].pc = "store" /\ writer'[w].date = writer[w].date
  BY ListFacts DEF SaveGrows, OnlyList, Saving
<1>2. \A v \in Writers : (Saving(v)' <=> Saving(v)) /\ writer'[v].date = writer[v].date
  BY <1>1 DEF Saving
<1>3. ASSUME damage # "torn" PROVE Stored' = Stored
  <2>1. size' = size + 1 /\ \A v \in Writers : writer[v].pc # "store"
    BY <1>1, <1>3 DEF OrderInv, Alone, Saving
  <2> QED  BY <1>1, <2>1, ListFacts DEF Stored
<1> QED  BY <1>1, <1>2, <1>3, LogStays

LEMMA SaveStoresLogs ==
    ASSUME ListInv, OrderInv, NEW w \in Writers, SaveStores(w)
    PROVE  Log!End(w)
<1>1. /\ UNCHANGED <<size, clearing, damage>> /\ Saving(w) /\ writer[w].pc = "store"
      /\ array' = [array EXCEPT ![writer[w].at] = writer[w].date]
      /\ \A v \in Writers \ {w} : writer'[v] = writer[v]
      /\ writer'[w] = idle
  BY ListFacts DEF SaveStores, OnlyList, Saving
<1>2. Saved[w] # Null /\ Saved[w] = writer[w].date
  BY <1>1, SavedFacts
<1>3. Saved' = [Saved EXCEPT ![w] = Null]
  <2>1. \A v \in Writers : Saved'[v] = [Saved EXCEPT ![w] = Null][v]
    BY <1>1 DEF Saved, Saving, idle
  <2>2. Saved' = [v \in Writers |-> Saved'[v]]
    BY DEF Saved
  <2> QED  BY <2>1, <2>2 DEF Saved
<1>4. CASE damage = "torn"
  BY <1>1, <1>2, <1>3, <1>4 DEF Log!End, Logged
<1>5. CASE damage # "torn"
  <2>1. /\ clearing # "nulled" /\ writer[w].at = size /\ size \in Slots
        /\ \A v \in Writers \ {w} : ~Saving(v)
    BY <1>1, <1>5, ListFacts DEF OrderInv, Alone
  <2>2. Stored = size - 1 /\ Stored \in Nat
    BY <1>1, <1>5, <2>1, StoredFacts, ListFacts
  <2>3. Stored' = size
    BY <1>1, <2>1 DEF Stored, Saving, idle
  <2>4. /\ array'[size] = writer[w].date /\ writer[w].date \in Slot
        /\ \A i \in 1..Stored : array[i] \in Slot /\ array'[i] = array[i]
    BY <1>1, <2>1, <2>2, ListFacts DEF Slots, Slot
  <2>5. size = Stored + 1
    BY <2>2, ListFacts
  <2>6. SubSeq(array', 1, Stored + 1) = Append(SubSeq(array, 1, Stored), writer[w].date)
    BY <2>2, <2>4, <2>5, Appended
  <2>7. Logged' = Append(Logged, writer[w].date)
    BY <1>1, <1>5, <2>1, <2>3, <2>5, <2>6 DEF Logged
  <2> QED  BY <1>1, <1>2, <1>3, <1>5, <2>7 DEF Log!End
<1> QED  BY <1>4, <1>5

\* Both halves of a clear are a Clear, the second one of an empty log.
LEMMA ClearLogs ==
    ASSUME ListInv, OrderInv, ClearNulls \/ ClearEnds
    PROVE  Log!Clear
<1>1. UNCHANGED writer
  BY DEF ClearNulls, ClearEnds, OnlyList
<1>2. Saved' = Saved
  BY <1>1 DEF Saved, Saving
<1>3. CASE ClearNulls
  <2>1. Logged' = <<>>
    BY <1>3 DEF ClearNulls, Logged
  <2>2. damage' = IF \E w \in Writers : Saving(w) THEN "torn" ELSE damage
    BY <1>3 DEF ClearNulls
  <2>3. CASE Log!Nobody
    BY <1>2, <2>1, <2>2, <2>3, SavedFacts DEF Log!Clear
  <2>4. CASE ~Log!Nobody
    BY <1>2, <2>1, <2>2, <2>4, SavedFacts DEF Log!Clear
  <2> QED  BY <2>3, <2>4
<1>4. CASE ClearEnds
  <2>1. /\ clearing = "nulled" /\ size' = 0
        /\ damage' = IF damage # "none" /\ ~\E w \in Writers : Saving(w) THEN "healed" ELSE damage
    BY <1>4 DEF ClearEnds
  <2>2. CASE Log!Nobody
    <3>1. damage' # "torn" /\ \A w \in Writers : ~Saving(w)
      BY <2>1, <2>2, SavedFacts
    <3>2. Stored' = 0
      BY <1>1, <2>1, <3>1 DEF Stored, Saving
    <3>3. Logged' = <<>>
      BY <3>2, SubSeqEmpty DEF Logged
    <3> QED  BY <1>2, <2>2, <3>1, <3>3 DEF Log!Clear
  <2>3. CASE ~Log!Nobody
    <3>1. damage = "torn" /\ damage' = "torn"
      BY <2>1, <2>3, SavedFacts DEF OrderInv, Alone
    <3> QED  BY <1>2, <2>3, <3>1 DEF Log!Clear, Logged
  <2> QED  BY <2>2, <2>3
<1> QED  BY <1>3, <1>4

LEMMA LogSteps ==
    ASSUME ListInv, ListInv', OrderInv, [Next]_vars
    PROVE  LogStep
<1>1. CASE Tick \/ BootPulls \/ \E w \in Writers : PullFails(w)
  <2>1. /\ UNCHANGED <<array, size, damage>> /\ (clearing' = "nulled" <=> clearing = "nulled")
        /\ \A w \in Writers : \/ writer'[w] = writer[w]
                              \/ ~Saving(w) /\ writer'[w].pc \in {"pull", "idle"}
    BY <1>1, ListFacts DEF Tick, BootPulls, PullFails, OnlyList, Writers, Saving, idle
  <2>2. \A w \in Writers : /\ Saving(w)' <=> Saving(w)
                           /\ Saving(w) => writer'[w] = writer[w]
                           /\ writer'[w].pc = "store" <=> writer[w].pc = "store"
    BY <2>1 DEF Saving
  <2>3. Stored' = Stored
    BY <2>1, <2>2 DEF Stored
  <2> QED  BY <2>1, <2>2, <2>3, LogStays
<1>2. ASSUME NEW w \in Writers, SaveBegins(w) PROVE LogStep
  BY <1>2, SaveBeginsLogs DEF LogStep, Log!Next
<1>3. ASSUME NEW w \in Writers, SaveGrows(w) PROVE LogStep
  BY <1>3, SaveGrowsLogs
<1>4. ASSUME NEW w \in Writers, SaveStores(w) PROVE LogStep
  BY <1>4, SaveStoresLogs DEF LogStep, Log!Next
<1>5. CASE ClearNulls \/ ClearEnds
  BY <1>5, ClearLogs DEF LogStep, Log!Next
<1>6. CASE Server \/ OtherAsks \/ Connect \/ Lose \/ Browser \/ UNCHANGED vars
  <2>1. UNCHANGED <<array, size, writer, clearing, damage>>
    BY <1>6, ListKept
  <2> QED  BY <2>1 DEF LogStep, Log!vars, Logged, Stored, Saved, Saving
<1> QED  BY <1>1, <1>2, <1>3, <1>4, <1>5, <1>6 DEF Next, Sampling

\* The list of a topic is a log, whatever the samplers, the clears and the readings
\* do between each other's steps: a save adds its sample once and at the end, a clear
\* leaves nothing, and nothing else changes what has been saved, from the start to
\* the first overlap and from each clear that meets no save to the next.
THEOREM ListImplementsLog == Spec => ImplementsLog
<1>1. Init => Log!Init
  <2> SUFFICES ASSUME Init PROVE Log!Init
    OBVIOUS
  <2>1. /\ size = 0 /\ damage = "none"
        /\ \A w \in Writers : writer[w].pc \in {"idle", "start"}
    BY DEF Init, Writers, idle
  <2>2. Stored = 0 /\ Saved = [w \in Writers |-> Null]
    BY <2>1 DEF Stored, Saved, Saving
  <2>3. Logged = <<>>
    BY <2>2, SubSeqEmpty DEF Logged
  <2> QED  BY <2>1, <2>2, <2>3 DEF Log!Init
<1>2. ListInv /\ ListInv' /\ OrderInv /\ [Next]_vars => LogStep
  BY LogSteps
<1> QED
  BY <1>1, <1>2, ListInductive, PTL DEF Spec, ImplementsLog, Log!Spec, LogStep
=============================================================================
