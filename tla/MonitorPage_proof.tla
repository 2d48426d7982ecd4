-------------------------- MODULE MonitorPage_proof --------------------------
(***************************************************************************)
(* What the page shows is in the order of time, for any number of minutes, *)
(* readings and requests: on its way element by element an answer never    *)
(* falls behind what the list, or a save on its way to the list, has next. *)
(*                                                                         *)
(* And each line of a chart is what its label says.                        *)
(***************************************************************************)
EXTENDS Monitor_proof

\* In order, but for slots in which the reading found nothing.
Tidy(data) == \A i, j \in 1..Len(data) : i <= j /\ data[j] # Null => data[i] <= data[j]
TidyData == {data \in Data : Tidy(data)}

\* What has been read is no later than anything that may be read after it.
NotAfter(d, n) ==
    /\ d <= now
    /\ \A j \in Slots : j > n /\ array[j] # Null => d <= array[j]
    /\ \A w \in Writers : /\ Saving(w) => d <= writer[w].date
                          /\ Pulling(w) => d <= Stamp(w)
Before(data) == \A i \in 1..Len(data) : NotAfter(data[i], Len(data))

\* There is nothing in the list but the samples it counts.
Clean == \A i \in Slots : array[i] # Null => Settled(i) /\ clearing # "nulled"

PageInv == damage = "none" =>
               /\ Clean
               /\ \A h \in Handlers : Tidy(reading[h].got) /\ Before(reading[h].got)
               /\ replies \in Seq(TidyData)
               /\ \A c \in DOMAIN shown : Ascending(shown[c])

\* Damage is not forgotten.
LEMMA DamageStays ==
    ASSUME [Next]_vars, damage' = "none"
    PROVE  damage = "none"
<1>1. CASE Tick \/ BootPulls
  BY <1>1 DEF Tick, BootPulls
<1>2. ASSUME NEW w \in Writers, PullFails(w) \/ SaveBegins(w) \/ SaveGrows(w) \/ SaveStores(w)
      PROVE  damage = "none"
  BY <1>2 DEF PullFails, SaveBegins, SaveGrows, SaveStores, Harm
<1>3. CASE ClearNulls \/ ClearEnds
  BY <1>3 DEF ClearNulls, ClearEnds
<1>4. CASE Server \/ OtherAsks \/ Connect \/ Lose \/ Browser \/ UNCHANGED vars
  BY <1>4, ListKept
<1> QED
  BY <1>1, <1>2, <1>3, <1>4 DEF Next, Sampling

-----------------------------------------------------------------------------
(* The samplers and the clear. *)

\* A sample that begins, is given up, or goes on without a change to the slots,
\* has a date no earlier than what has been read.
LEMMA WriterStep ==
    ASSUME ListInv, ListInv', NEW d \in Nat, NEW n, NotAfter(d, n), array' = array, now' >= now,
           topic' = topic,
           \A w \in Writers :
              \/ writer'[w].pc = "pull" /\ writer'[w].date \in {writer[w].date, now'}
                 /\ (writer'[w].date = now' \/ Pulling(w))
              \/ Saving(w)' /\ Saving(w) /\ writer'[w].date = writer[w].date
              \/ Saving(w)' /\ Pulling(w) /\ writer'[w].date = Stamp(w)
              \/ ~Saving(w)' /\ ~Pulling(w)'
    PROVE  NotAfter(d, n)'
<1>1. /\ now \in Nat /\ now' \in Nat /\ \A w \in Writers : writer[w].date \in Nat /\ Stamp(w) \in Nat
      /\ \A w \in Writers : writer'[w].date \in Nat
  BY ListFacts, BoundAssumption DEF ListInv, ListTypes, Minute, Slot, Null
<1>2. d <= now /\ d <= now'
  BY <1>1 DEF NotAfter
<1>3. ASSUME NEW w \in Writers
      PROVE  (Saving(w) => d <= writer[w].date)' /\ (Pulling(w) => d <= Stamp(w))'
  <2>1. CASE writer'[w].pc = "pull" /\ writer'[w].date = now'
    BY <1>1, <1>2, <2>1 DEF Saving, Pulling, Stamp
  <2>2. CASE writer'[w].pc = "pull" /\ Pulling(w) /\ writer'[w].date = writer[w].date
    <3>1. d <= Stamp(w) /\ ~Saving(w)'
      BY <2>2 DEF NotAfter, Saving
    <3>2. d <= Stamp(w)'
      BY <1>1, <1>2, <2>2, <3>1 DEF Stamp
    <3> QED  BY <3>1, <3>2
  <2>3. CASE Saving(w)' /\ Saving(w) /\ writer'[w].date = writer[w].date
    BY <2>3 DEF NotAfter, Saving, Pulling
  <2>4. CASE Saving(w)' /\ Pulling(w) /\ writer'[w].date = Stamp(w)
    BY <2>4 DEF NotAfter, Saving, Pulling
  <2>5. CASE ~Saving(w)' /\ ~Pulling(w)'
    BY <2>5
  <2> QED  BY <2>1, <2>2, <2>3, <2>4, <2>5
<1> QED  BY <1>2, <1>3 DEF NotAfter

LEMMA SamplingStep ==
    ASSUME ListInv, ListInv', OrderInv, Sampling, damage = "none", damage' = "none", Clean
    PROVE  /\ Clean'
           /\ \A d \in Nat, n \in Nat : NotAfter(d, n) => NotAfter(d, n)'
<1>0. Alone
  BY DEF OrderInv
<1>1. CASE Tick \/ BootPulls \/ \E w \in Writers : PullFails(w) \/ SaveBegins(w) \/ SaveGrows(w)
  <2>1. /\ array' = array /\ topic' = topic /\ now' >= now
        /\ \A w \in Writers :
              \/ writer'[w].pc = "pull" /\ writer'[w].date \in {writer[w].date, now'}
                 /\ (writer'[w].date = now' \/ Pulling(w))
              \/ Saving(w)' /\ Saving(w) /\ writer'[w].date = writer[w].date
              \/ Saving(w)' /\ Pulling(w) /\ writer'[w].date = Stamp(w)
              \/ ~Saving(w)' /\ ~Pulling(w)'
    <3>1. CASE Tick \/ BootPulls
      BY <3>1, ListFacts DEF Tick, BootPulls, OnlyList, Writers, Saving, Pulling
    <3>2. ASSUME NEW w \in Writers, PullFails(w) \/ SaveBegins(w) \/ SaveGrows(w)
          PROVE  <2>1
      <4>1. /\ UNCHANGED <<topic, now, array>> /\ \A v \in Writers \ {w} : writer'[v] = writer[v]
            /\ \/ writer'[w].pc = "idle"
               \/ writer'[w].pc = "grow" /\ Pulling(w) /\ writer'[w].date = Stamp(w)
               \/ writer'[w].pc = "store" /\ Saving(w) /\ writer'[w].date = writer[w].date
        BY <3>2, ListFacts DEF PullFails, SaveBegins, SaveGrows, OnlyList, idle, Pulling, Saving
      <4> QED  BY <4>1, ListFacts DEF Saving, Pulling
    <3> QED  BY <1>1, <3>1, <3>2
  <2>2. \A d \in Nat, n \in Nat : NotAfter(d, n) => NotAfter(d, n)'
    BY <2>1, WriterStep
  <2>3. ASSUME NEW i \in Slots, Settled(i) PROVE Settled(i)'
    <3>1. CASE Tick \/ BootPulls
      BY <2>3, <3>1, ListFacts DEF Tick, BootPulls, OnlyList, Writers, Settled
    <3>2. ASSUME NEW w \in Writers, PullFails(w) \/ SaveBegins(w)
          PROVE  Settled(i)'
      BY <2>3, <3>2, ListFacts DEF PullFails, SaveBegins, OnlyList, idle, Settled
    <3>3. ASSUME NEW w \in Writers, SaveGrows(w)
          PROVE  Settled(i)'
      <4>1. /\ writer[w].at = size + 1 /\ size' = size + 1 /\ writer'[w].at = size + 1
            /\ \A v \in Writers \ {w} : writer'[v] = writer[v]
        BY <1>0, <3>3, ListFacts DEF SaveGrows, Alone, Saving
      <4> QED  BY <2>3, <4>1, ListFacts DEF Settled
    <3> QED  BY <1>1, <3>1, <3>2, <3>3
  <2>4. clearing' = "nulled" => clearing = "nulled"
    BY <1>1 DEF Tick, BootPulls, PullFails, SaveBegins, SaveGrows
  <2> QED  BY <2>1, <2>2, <2>3, <2>4 DEF Clean
<1>2. ASSUME NEW w \in Writers, SaveStores(w)
      PROVE  /\ Clean'
             /\ \A d \in Nat, n \in Nat : NotAfter(d, n) => NotAfter(d, n)'
  <2>1. /\ Saving(w) /\ clearing # "nulled" /\ UNCHANGED <<topic, now, size, clearing>>
        /\ writer[w].at = size /\ size \in Slots
        /\ \A v \in Writers \ {w} : writer'[v] = writer[v] /\ ~Saving(v)
        /\ writer'[w].pc = "idle"
        /\ array'[size] = writer[w].date /\ \A i \in Slots \ {size} : array'[i] = array[i]
    BY <1>0, <1>2, ListFacts DEF SaveStores, OnlyList, Saving, Alone, idle
  <2>2. \A v \in Writers : ~Saving(v)' /\ (Pulling(v)' => Pulling(v) /\ Stamp(v)' = Stamp(v))
    BY <2>1 DEF Saving, Pulling, Stamp
  <2>3. Settled(size)' /\ \A i \in Slots : Settled(i) => Settled(i)'
    BY <2>1, <2>2, ListFacts DEF Settled, Saving, Slots
  <2>4. Clean'
    BY <2>1, <2>3 DEF Clean
  <2>5. ASSUME NEW d \in Nat, NEW n \in Nat, NotAfter(d, n) PROVE NotAfter(d, n)'
    <3>1. d <= writer[w].date
      BY <2>1, <2>5 DEF NotAfter
    <3> QED  BY <2>1, <2>2, <2>5, <3>1 DEF NotAfter
  <2> QED  BY <2>4, <2>5
<1>3. CASE ClearNulls \/ ClearEnds
  <2>1. /\ UNCHANGED <<topic, now, writer>>
        /\ \A i \in Slots : array'[i] # Null => array'[i] = array[i] /\ array[i] # Null
    BY <1>3 DEF ClearNulls, ClearEnds, OnlyList
  <2>2. \A w \in Writers : /\ Saving(w)' <=> Saving(w)
                           /\ Pulling(w)' <=> Pulling(w)
                           /\ Stamp(w)' = Stamp(w)
    BY <2>1 DEF Saving, Pulling, Stamp
  <2>3. \A i \in Slots : array'[i] = Null
    <3>1. CASE ClearNulls
      <4>1. \A i \in Slots : array[i] # Null => i <= size
        BY ListFacts DEF Clean, Settled
      <4> QED  BY <3>1, <4>1 DEF ClearNulls
    <3>2. CASE ClearEnds
      BY <3>2 DEF ClearEnds, OnlyList, Clean
    <3> QED  BY <1>3, <3>1, <3>2
  <2>4. \A d \in Nat, n \in Nat : NotAfter(d, n) => NotAfter(d, n)'
    BY <2>1, <2>2, <2>3 DEF NotAfter
  <2> QED  BY <2>3, <2>4 DEF Clean
<1> QED  BY <1>1, <1>2, <1>3 DEF Sampling

-----------------------------------------------------------------------------
(* The readings and the page. *)

LEMMA EmptyTidy == Tidy(<<>>) /\ Before(<<>>)
  BY DEF Tidy, Before

\* An element more is no earlier than those before it, and no later than what is
\* still to come.
LEMMA ReadNextTidy ==
    ASSUME ListInv, Past, OrderInv, SocketTypes, damage = "none", Clean,
           NEW h \in Handlers, ReadNext(h), Tidy(reading[h].got), Before(reading[h].got)
    PROVE  /\ Tidy(Append(reading[h].got, array[next(h)]))
           /\ Before(Append(reading[h].got, array[next(h)]))
<1> DEFINE got == reading[h].got
           n == Len(got)
           x == array[n + 1]
           more == Append(got, x)
<1>1. got \in Seq(Slot) /\ n \in Nat /\ next(h) = n + 1 /\ n + 1 <= size
  BY LenProperties DEF SocketTypes, Data, ReadNext, next
<1>2. n + 1 \in Slots /\ x \in Slot /\ x \in Nat
  BY <1>1, ListFacts DEF Slots
<1>3. \A i \in 1..n : got[i] \in Slot /\ got[i] \in Nat
  BY <1>1, ListFacts
<1>4. more \in Seq(Slot) /\ Len(more) = n + 1 /\ more[n + 1] = x /\ \A i \in 1..n : more[i] = got[i]
  BY <1>1, <1>2, AppendProperties
<1>5. \A i \in 1..n : NotAfter(got[i], n)
  BY DEF Before
<1>6. x # Null => \A i \in 1..n : got[i] <= x
  BY <1>1, <1>2, <1>5 DEF NotAfter
<1>7. NotAfter(x, n + 1)
  <2>1. CASE x = Null
    BY <2>1, ListFacts DEF NotAfter, Null, Saving
  <2>2. CASE x # Null
    <3>1. Settled(n + 1) /\ clearing # "nulled" /\ InOrder
      BY <1>2, <2>2 DEF Clean, OrderInv, Orderly
    <3>2. \A j \in Slots : j > n + 1 /\ array[j] # Null => x <= array[j]
      <4> SUFFICES ASSUME NEW j \in Slots, j > n + 1, array[j] # Null PROVE x <= array[j]
        OBVIOUS
      <4>1. Settled(j) /\ n + 1 <= j
        BY <1>1 DEF Clean, Slots
      <4> QED  BY <1>2, <3>1, <4>1 DEF InOrder
    <3>3. x <= now
      BY <1>2 DEF Past
    <3>4. \A w \in Writers : /\ Saving(w) => x <= writer[w].date
                             /\ Pulling(w) => x <= Stamp(w)
      BY <1>2, <3>1 DEF InOrder
    <3> QED  BY <3>2, <3>3, <3>4 DEF NotAfter
  <2> QED  BY <2>1, <2>2
<1> HIDE DEF got, n, x, more
<1>8. Tidy(more)
  <2> SUFFICES ASSUME NEW i \in 1..(n + 1), NEW j \in 1..(n + 1), i <= j, more[j] # Null
               PROVE  more[i] <= more[j]
    BY <1>4 DEF Tidy
  <2>1. CASE j = n + 1
    BY <1>1, <1>2, <1>4, <1>6, <2>1
  <2>2. CASE j # n + 1
    <3>1. i \in 1..n /\ j \in 1..n
      BY <1>1, <2>2
    <3> QED  BY <1>4, <3>1 DEF Tidy, got, n
  <2> QED  BY <2>1, <2>2
<1>9. Before(more)
  <2>1. ASSUME NEW i \in 1..n PROVE NotAfter(more[i], n + 1)
    <3>1. NotAfter(got[i], n)
      BY <1>5
    <3>2. \A j \in Slots : j > n + 1 => j > n
      BY <1>1 DEF Slots
    <3> QED  BY <1>4, <3>1, <3>2 DEF NotAfter
  <2>2. \A i \in 1..(n + 1) : i = n + 1 \/ i \in 1..n
    BY <1>1
  <2> QED  BY <1>4, <1>7, <2>1, <2>2 DEF Before
<1> QED  BY <1>1, <1>8, <1>9 DEF got, n, x, more

\* An answer without a null is in order.
LEMMA DrawnInOrder ==
    ASSUME NEW data \in TidyData, Drawable(data)
    PROVE  Ascending(data)
  BY DEF TidyData, Tidy, Drawable, Ascending

\* What the readings, the answers and the page become when the list stays as it is.
LEMMA OtherStep ==
    ASSUME ListInv, Past, OrderInv, SocketInv, damage = "none", PageInv,
           Server \/ OtherAsks \/ Connect \/ Lose \/ Browser \/ UNCHANGED vars
    PROVE  PageInv'
<1>1. UNCHANGED <<topic, now, array, size, writer, clearing, damage>>
  BY ListKept
<1>2. /\ Clean /\ replies \in Seq(TidyData) /\ \A c \in DOMAIN shown : Ascending(shown[c])
      /\ \A h \in Handlers : Tidy(reading[h].got) /\ Before(reading[h].got)
  BY DEF PageInv
<1>3. Clean'
  BY <1>1, <1>2 DEF Clean, Settled
<1>4. \A d, n : NotAfter(d, n)' <=> NotAfter(d, n)
  BY <1>1 DEF NotAfter, Saving, Pulling, Stamp
<1>5. \A data : Before(data)' <=> Before(data)
  BY <1>4 DEF Before
<1>6. /\ DOMAIN reading = Handlers
      /\ \A h \in Handlers : DOMAIN reading[h] = {"for", "len", "got"} /\ reading[h].got \in Data
  BY DEF SocketInv, SocketTypes
<1>7. /\ \A h \in Handlers : Tidy(reading'[h].got) /\ Before(reading'[h].got)
      /\ replies' \in Seq(TidyData)
      /\ \A c \in DOMAIN shown' : Ascending(shown'[c])
  <2>1. CASE UNCHANGED <<reading, replies, shown>>
    BY <1>2, <2>1
  <2>2. ASSUME NEW h \in Handlers, Serve(h) \/ ServeOther(h) \/ ReadFails(h)
        PROVE  <1>7
    <3>1. UNCHANGED <<replies, shown>> /\ reading'[h].got = <<>>
          /\ \A o \in Handlers \ {h} : reading'[o] = reading[o]
      BY <1>6, <2>2 DEF Serve, ServeOther, Takes, ReadFails, OnlyReading, OnlySocket, pageVars, free
    <3> QED  BY <1>2, <3>1, EmptyTidy
  <2>3. ASSUME NEW h \in Handlers, ReadNext(h)
        PROVE  <1>7
    <3>1. UNCHANGED <<replies, shown>> /\ reading'[h].got = Append(reading[h].got, array[next(h)])
          /\ \A o \in Handlers \ {h} : reading'[o] = reading[o]
      BY <1>6, <2>3 DEF ReadNext, OnlyReading, OnlySocket, pageVars
    <3>2. Tidy(Append(reading[h].got, array[next(h)])) /\ Before(Append(reading[h].got, array[next(h)]))
      BY <1>2, <2>3, ReadNextTidy DEF SocketInv
    <3> QED  BY <1>2, <3>1, <3>2
  <2>4. ASSUME NEW h \in Handlers, Publish(h)
        PROVE  <1>7
    <3>1. shown' = shown /\ reading'[h].got = <<>> /\ replies' \in {replies, Append(replies, reading[h].got)}
          /\ \A o \in Handlers \ {h} : reading'[o] = reading[o]
      BY <1>6, <2>4 DEF Publish, OnlyReading, OnlySocket, pageVars, free
    <3>2. reading[h].got \in TidyData
      BY <1>2, <1>6 DEF TidyData
    <3>3. Append(replies, reading[h].got) \in Seq(TidyData)
      BY <1>2, <3>2, AppendProperties
    <3> QED  BY <1>2, <3>1, <3>3, EmptyTidy
  <2>5. CASE Lose
    <3>1. shown' = shown /\ replies' = <<>> /\ \A h \in Handlers : reading'[h].got = reading[h].got
      BY <1>6, <2>5 DEF Lose
    <3> QED  BY <1>2, <3>1
  <2>6. ASSUME NEW i \in 1..Len(replies), Draw(i) \/ DrawThrows(i)
        PROVE  <1>7
    <3>1. reading' = reading /\ replies' = Without(replies, i)
          /\ \/ shown' = shown
             \/ shown' = Drawn(replies[i]) /\ Drawable(replies[i])
      BY <2>6 DEF Draw, DrawThrows, Receive
    <3>2. replies' \in Seq(TidyData)
      BY <1>2, <3>1, WithoutOne
    <3>3. replies[i] \in TidyData
      BY <1>2, LenProperties
    <3>4. Drawable(replies[i]) => \A c \in DOMAIN Drawn(replies[i]) : Ascending(Drawn(replies[i])[c])
      BY <3>3, DrawnInOrder DEF Drawn
    <3> QED  BY <1>2, <3>1, <3>2, <3>4
  <2>7. CASE Subscribe \/ OtherAsks \/ Connect \/ Fire \/ UNCHANGED vars
    <3>1. UNCHANGED <<reading, replies, shown>>
      BY <2>7 DEF Subscribe, OtherAsks, Connect, Fire, OnlySocket, OnlyPage, pageVars, vars
    <3> QED  BY <2>1, <3>1
  <2> QED  BY <2>2, <2>3, <2>4, <2>5, <2>6, <2>7 DEF Server, Browser
<1> QED  BY <1>3, <1>5, <1>7 DEF PageInv

LEMMA PageStep ==
    ASSUME ListInv, ListInv', Past, OrderInv, SocketInv, PageInv, [Next]_vars
    PROVE  PageInv'
<1> SUFFICES ASSUME damage' = "none" PROVE PageInv'
  BY DEF PageInv
<1>1. damage = "none"
  BY DamageStays
<1>2. CASE Sampling
  <2>1. /\ Clean /\ replies \in Seq(TidyData) /\ \A c \in DOMAIN shown : Ascending(shown[c])
        /\ \A h \in Handlers : Tidy(reading[h].got) /\ Before(reading[h].got)
    BY <1>1 DEF PageInv
  <2>2. UNCHANGED <<reading, replies, shown>>
    BY <1>2, SocketKept
  <2>3. Clean' /\ \A d \in Nat, n \in Nat : NotAfter(d, n) => NotAfter(d, n)'
    BY <1>1, <1>2, <2>1, SamplingStep
  <2>4. ASSUME NEW h \in Handlers PROVE Before(reading[h].got)'
    <3>1. reading[h].got \in Seq(Slot) /\ Slot \subseteq Nat
      BY ListFacts DEF SocketInv, SocketTypes, Data
    <3>2. Len(reading[h].got) \in Nat /\ \A i \in 1..Len(reading[h].got) : reading[h].got[i] \in Nat
      BY <3>1, LenProperties
    <3> QED  BY <2>1, <2>2, <2>3, <3>2 DEF Before
  <2> QED  BY <2>1, <2>2, <2>3, <2>4 DEF PageInv
<1>3. CASE ~Sampling
  BY <1>1, <1>3, OtherStep DEF Next
<1> QED  BY <1>2, <1>3

\* What a page shows is in the order of time, whatever the list went through while
\* the answer was read from it, as long as no save has overlapped another or a clear
\* and none has overtaken another.
THEOREM ShownAlwaysInOrder == Spec => []ShownInOrder
<1>1. Init => ListInv /\ SocketInv /\ Past /\ OrderInv /\ PageInv
  <2> SUFFICES ASSUME Init PROVE Past /\ OrderInv /\ PageInv
    BY InitTypes
  <2>1. /\ now = 1 /\ size = 0 /\ \A i \in Slots : array[i] = 0
        /\ \A w \in Writers : writer[w].pc \in {"idle", "start"} /\ writer[w].date = 0
    BY DEF Init, Null, Writers, idle
  <2>2. (\A i : ~Settled(i)) /\ \A w \in Writers : ~Saving(w) /\ ~Pulling(w)
    BY <2>1 DEF Settled, Saving, Pulling
  <2>3. Past /\ OrderInv /\ Clean
    BY <2>1, <2>2 DEF OrderInv, Past, Alone, Full, InOrder, Clean, Null
  <2>4. /\ replies \in Seq(TidyData)
        /\ \A h \in Handlers : reading[h].got = <<>>
        /\ \A c \in DOMAIN shown : shown[c] = <<>>
    BY DEF Init, free, Drawn
  <2>5. Ascending(<<>>)
    BY DEF Ascending
  <2> QED  BY <2>3, <2>4, <2>5, EmptyTidy DEF PageInv
<1>2. ListInv /\ SocketInv /\ Past /\ OrderInv /\ PageInv /\ [Next]_vars =>
          ListInv' /\ SocketInv' /\ Past' /\ OrderInv' /\ PageInv'
  BY ListStep, SocketStep, PastStep, OrderStep, PageStep DEF ListInv
<1>3. PageInv => ShownInOrder
  BY DEF PageInv, ShownInOrder
<1> QED  BY <1>1, <1>2, <1>3, PTL DEF Spec

-----------------------------------------------------------------------------
\* The line of a chart that a label names shows that quantity in the chart's unit.
LineTrue(t, c, it, label) ==
    /\ it.lines[label] \in DOMAIN sample(t)
    /\ sample(t)[it.lines[label]] = value(Stands(c, label), it.unit)
ChartTrue(t, c, it) == \A label \in DOMAIN it.lines : LineTrue(t, c, it, label)

LEMMA GcSample ==
    /\ sample("gc") = pullGc
    /\ DOMAIN pullGc = {"s0C", "s1C", "s0U", "s1U", "ec", "eu", "oc", "ou", "mc", "mu",
                        "ccsc", "ccsu", "ygc", "ygct", "fgc", "fgct", "gct"}
    /\ pullGc.s0C = value("S0C", "MB") /\ pullGc.s0U = value("S0U", "MB")
    /\ pullGc.s1C = value("S1C", "MB") /\ pullGc.s1U = value("S1U", "MB")
    /\ pullGc.ec = value("EC", "MB") /\ pullGc.eu = value("EU", "MB")
    /\ pullGc.oc = value("OC", "MB") /\ pullGc.ou = value("OU", "MB")
    /\ pullGc.mc = value("MC", "MB") /\ pullGc.mu = value("MU", "MB")
    /\ pullGc.ccsc = value("CCSC", "MB") /\ pullGc.ccsu = value("CCSU", "MB")
    /\ pullGc.ygc = value("YGC", "number") /\ pullGc.fgc = value("FGC", "number")
    /\ pullGc.ygct = value("YGCT", "s") /\ pullGc.fgct = value("FGCT", "s")
    /\ pullGc.gct = value("GCT", "s")
  BY DEF sample, pullGc, GcColumns, getMB, value

LEMMA ClassSample ==
    /\ sample("cl") = pullClassload
    /\ DOMAIN pullClassload = {"loaded", "bytes1", "unloaded", "bytes2", "time1",
                               "compiled", "failed", "invalid", "time2"}
    /\ pullClassload.loaded = value("Loaded", "number")
    /\ pullClassload.bytes1 = value("LoadedBytes", "MB")
    /\ pullClassload.unloaded = value("Unloaded", "number")
    /\ pullClassload.bytes2 = value("UnloadedBytes", "MB")
    /\ pullClassload.time1 = value("LoadTime", "s")
    /\ pullClassload.compiled = value("Compiled", "number")
    /\ pullClassload.failed = value("Failed", "number")
    /\ pullClassload.invalid = value("Invalid", "number")
    /\ pullClassload.time2 = value("CompileTime", "s")
  BY DEF sample, pullClassload, ClassColumns, getMB, value

LEMMA ThreadSample ==
    /\ sample("thread") = pullThread
    /\ DOMAIN pullThread = {"total", "runnable", "timed_WAITING", "waiting"}
    /\ pullThread.total = value("nid", "number")
    /\ pullThread.runnable = value("RUNNABLE", "number")
    /\ pullThread.timed_WAITING = value("TIMED_WAITING", "number")
    /\ pullThread.waiting = value("WAITING", "number")
  BY DEF sample, pullThread

\* The fourteen scripts, one by one.
LEMMA ChartsAgree ==
    ASSUME NEW t \in Topics, NEW c \in DOMAIN charts(t)
    PROVE  ChartTrue(t, c, charts(t)[c])
<1>1. CASE t = "gc"
  <2>0. charts("gc") = [s0 |-> s0, s1 |-> s1, eden |-> eden, old |-> old,
                        mc |-> mc, ccsc |-> ccsc, gcn |-> gcn, gct |-> gct]
    BY DEF charts
  <2> USE DEF ChartTrue, LineTrue, chart, Stands
  <2>1. ChartTrue("gc", "s0", s0)      BY GcSample DEF s0
  <2>2. ChartTrue("gc", "s1", s1)      BY GcSample DEF s1
  <2>3. ChartTrue("gc", "eden", eden)  BY GcSample DEF eden
  <2>4. ChartTrue("gc", "old", old)    BY GcSample DEF old
  <2>5. ChartTrue("gc", "mc", mc)      BY GcSample DEF mc
  <2>6. ChartTrue("gc", "ccsc", ccsc)  BY GcSample DEF ccsc
  <2>7. ChartTrue("gc", "gcn", gcn)    BY GcSample DEF gcn
  <2>8. ChartTrue("gc", "gct", gct)    BY GcSample DEF gct
  <2> HIDE DEF ChartTrue, LineTrue, chart, Stands
  <2> QED
    BY <1>1, <2>0, <2>1, <2>2, <2>3, <2>4, <2>5, <2>6, <2>7, <2>8
<1>2. CASE t = "cl"
  <2>0. charts("cl") = [classn |-> classn, classt |-> classt, comn |-> comn,
                        comt |-> comt, combyte |-> combyte]
    BY DEF charts
  <2> USE DEF ChartTrue, LineTrue, chart, Stands
  <2>1. ChartTrue("cl", "classn", classn)    BY ClassSample DEF classn
  <2>2. ChartTrue("cl", "classt", classt)    BY ClassSample DEF classt
  <2>3. ChartTrue("cl", "comn", comn)        BY ClassSample DEF comn
  <2>4. ChartTrue("cl", "comt", comt)        BY ClassSample DEF comt
  <2>5. ChartTrue("cl", "combyte", combyte)  BY ClassSample DEF combyte
  <2> HIDE DEF ChartTrue, LineTrue, chart, Stands
  <2> QED
    BY <1>2, <2>0, <2>1, <2>2, <2>3, <2>4, <2>5
<1>3. CASE t = "thread"
  <2>0. charts("thread") = [thread |-> threadData]
    BY DEF charts
  <2> USE DEF ChartTrue, LineTrue, chart, Stands
  <2>1. ChartTrue("thread", "thread", threadData)    BY ThreadSample DEF threadData
  <2> HIDE DEF ChartTrue, LineTrue, chart, Stands
  <2> QED  BY <1>3, <2>0, <2>1
<1> QED  BY <1>1, <1>2, <1>3 DEF Topics

\* Every line of every chart shows the quantity its label names, in the unit its
\* title names, whichever topic is followed and whatever has been drawn.
THEOREM ChartsAlwaysTrue == Spec => []ChartsTrue
<1>1. TypeOK => ChartsTrue
  <2> SUFFICES ASSUME TypeOK, NEW c \in DOMAIN shown
               PROVE  ChartTrue(topic, c, charts(topic)[c])
    BY DEF ChartsTrue, ChartTrue, LineTrue
  <2>1. topic \in Topics /\ c \in DOMAIN charts(topic)
    BY DEF TypeOK, ListTypes, PageTypes
  <2> QED  BY <2>1, ChartsAgree
<1> QED
  BY <1>1, TypeCorrect, PTL
=============================================================================
