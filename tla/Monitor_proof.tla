---------------------------- MODULE Monitor_proof ----------------------------
(***************************************************************************)
(* Safety of the monitor, for any number of minutes between two clears, of *)
(* threads that answer and of requests of others.                          *)
(*                                                                         *)
(* First what a step does to the number of readings for a page; then the   *)
(* types, with the reason why the list never outgrows the minutes; then    *)
(* the number of requests under way; then the list.                        *)
(***************************************************************************)
EXTENDS Monitor, FiniteSetTheorems, SequenceTheorems, TLAPS

-----------------------------------------------------------------------------
(* Counting. *)

Those(f, x) == {h \in Handlers : f[h].for = x}
Count(f, x) == Cardinality(Those(f, x))

LEMMA CountType ==
    ASSUME NEW f, NEW x
    PROVE  IsFiniteSet(Those(f, x)) /\ Count(f, x) \in Nat
<1>1. Those(f, x) \in SUBSET Handlers
  BY DEF Those
<1>2. IsFiniteSet(Those(f, x))
  BY <1>1, HandlersAssumption, FS_Subset
<1> QED
  BY <1>2, FS_CardinalityType DEF Count

\* One handler more that works for x.
LEMMA CountJoins ==
    ASSUME NEW f, NEW g, NEW x, NEW h \in Handlers,
           f[h].for # x, g[h].for = x,
           \A i \in Handlers \ {h} : g[i].for = f[i].for
    PROVE  Count(g, x) = Count(f, x) + 1
<1>1. Those(g, x) = Those(f, x) \cup {h} /\ h \notin Those(f, x)
  BY DEF Those
<1>2. IsFiniteSet(Those(f, x))
  BY CountType
<1> QED
  BY <1>1, <1>2, FS_AddElement DEF Count

LEMMA CountStays ==
    ASSUME NEW f, NEW g, NEW x,
           \A i \in Handlers : (g[i].for = x) <=> (f[i].for = x)
    PROVE  Count(g, x) = Count(f, x)
<1>1. Those(g, x) = Those(f, x)
  BY DEF Those
<1> QED
  BY <1>1 DEF Count

\* Disjoint sets add up.
LEMMA CountUnion ==
    ASSUME NEW f, NEW x, NEW y, x # y
    PROVE  Cardinality(Those(f, x) \cup Those(f, y)) = Count(f, x) + Count(f, y)
<1>1. Those(f, x) \cap Those(f, y) = {}
  BY DEF Those
<1>2. /\ IsFiniteSet(Those(f, x)) /\ IsFiniteSet(Those(f, y))
      /\ Count(f, x) \in Nat /\ Count(f, y) \in Nat
  BY CountType
<1>3. Cardinality(Those(f, x) \cup Those(f, y)) = Count(f, x) + Count(f, y) - Cardinality({})
  BY <1>1, <1>2, FS_Union DEF Count
<1> QED
  BY <1>2, <1>3, FS_EmptySet

\* An answer taken out of those on their way.
LEMMA WithoutOne ==
    ASSUME NEW S, NEW s \in Seq(S), NEW i \in 1..Len(s)
    PROVE  Without(s, i) \in Seq(S) /\ Len(Without(s, i)) = Len(s) - 1
<1> DEFINE before == SubSeq(s, 1, i - 1)
           after == SubSeq(s, i + 1, Len(s))
<1>0. Len(s) \in Nat /\ \A j \in 1..Len(s) : s[j] \in S
  BY LenProperties
<1>1. before \in Seq(S) /\ Len(before) = i - 1
  <2>1. \A j \in 1..(i - 1) : s[j] \in S
    BY <1>0
  <2> QED
    BY <2>1, <1>0, SubSeqProperties
<1>2. after \in Seq(S) /\ Len(after) = Len(s) - i
  <2>1. \A j \in (i + 1)..Len(s) : s[j] \in S
    BY <1>0
  <2>2. Len(after) = IF i + 1 <= Len(s) THEN Len(s) - (i + 1) + 1 ELSE 0
    BY <2>1, <1>0, SubSeqProperties
  <2> QED
    BY <2>1, <2>2, <1>0, SubSeqProperties
<1>3. Without(s, i) = before \o after
  BY DEF Without
<1> HIDE DEF before, after
<1>4. before \o after \in Seq(S) /\ Len(before \o after) = Len(before) + Len(after)
  BY <1>1, <1>2, ConcatProperties
<1> QED
  BY <1>0, <1>1, <1>2, <1>3, <1>4

-----------------------------------------------------------------------------
(* The list and its writers. *)

\* Each sample that is being taken has a slot left for it: there are no more
\* samples, taken or being taken, than minutes.
Due(w) == IF writer[w].pc \in {"start", "pull"} THEN 1 ELSE 0
Taking == Due("cron") + Due("boot")
Room == /\ size + Taking <= now
        /\ \A w \in Writers : Saving(w) => writer[w].at >= 1 /\ writer[w].at + Taking <= now
        /\ \A w \in Writers : writer[w].pc = "pull" \/ Saving(w) => writer[w].date \in Minute

ListInv == ListTypes /\ Room

\* Only the samplers touch the list, the clock and the choice of a topic.
LEMMA ListKept ==
    ASSUME Server \/ OtherAsks \/ Connect \/ Lose \/ Browser \/ UNCHANGED vars
    PROVE  UNCHANGED <<topic, now, array, size, writer, clearing, damage>>
<1> USE DEF OnlySocket, OnlyReading, OnlyPage, listVars
<1>1. CASE Server
  BY <1>1 DEF Server, Subscribe, Serve, ServeOther, Takes, ReadNext, ReadFails, Publish
<1>2. CASE OtherAsks
  BY <1>2 DEF OtherAsks
<1>3. CASE Connect \/ Lose
  BY <1>3 DEF Connect, Lose
<1>4. CASE Browser
  BY <1>4 DEF Browser, Fire, Draw, DrawThrows, Receive
<1> QED
  BY <1>1, <1>2, <1>3, <1>4 DEF vars

LEMMA ListStep ==
    ASSUME ListInv, [Next]_vars
    PROVE  ListInv'
<1> USE BoundAssumption, PeriodAssumption
    DEF ListInv, ListTypes, Room, Taking, Due, Saving, Writers, Length, Minute, Slot, Slots,
        Null, idle, OnlyList
<1>1. CASE Tick
  <2>1. /\ now < MaxMinutes /\ now' = now + 1
        /\ UNCHANGED <<topic, array, size, damage>>
        /\ clearing' \in {clearing, "due"}
    BY <1>1 DEF Tick
  <2>2. CASE writer["cron"].pc = "idle"
    <3>0. now' \in Minute /\ 0 \in Length
      BY <2>1
    <3>1. /\ writer' = [writer EXCEPT !["cron"] = [pc |-> "pull", at |-> 0, date |-> now']]
          /\ writer \in [Writers -> [pc : {"idle", "start", "pull", "grow", "store"},
                                     at : Length, date : Slot]]
      BY <1>1, <2>2 DEF Tick
    <3> DEFINE new == [pc |-> "pull", at |-> 0, date |-> now']
    <3>a. new \in [pc : {"idle", "start", "pull", "grow", "store"}, at : Length, date : Slot]
      BY <3>0
    <3>b. new.pc = "pull" /\ new.date = now'
      OBVIOUS
    <3> HIDE DEF new
    <3>2. /\ writer' \in [Writers -> [pc : {"idle", "start", "pull", "grow", "store"},
                                       at : Length, date : Slot]]
          /\ writer'["boot"] = writer["boot"]
          /\ writer'["cron"].pc = "pull" /\ writer'["cron"].date = now'
      BY <3>1, <3>a, <3>b DEF new
    <3>3. Taking \in Nat /\ Taking' = Taking + 1
      BY <2>2, <3>2
    <3>4. size + Taking <= now /\ now \in Minute /\ size \in Length
      OBVIOUS
    <3>5. (size + Taking <= now)' /\ now' \in Minute
      BY <2>1, <3>3, <3>4
    <3>6. ASSUME NEW w \in Writers, Saving(w)'
          PROVE  (writer[w].at >= 1 /\ writer[w].at + Taking <= now /\ writer[w].date \in Minute)'
      <4>1. w = "boot" /\ Saving("boot")
        BY <3>2, <3>6
      <4>2. writer["boot"].at >= 1 /\ writer["boot"].at + Taking <= now
            /\ writer["boot"].date \in Minute /\ writer["boot"].at \in Length
        BY <4>1
      <4> QED
        BY <2>1, <3>2, <3>3, <3>4, <4>1, <4>2
    <3>7. ASSUME NEW w \in Writers, writer'[w].pc = "pull"
          PROVE  writer'[w].date \in Minute
      BY <3>0, <3>2, <3>7
    <3> QED
      BY <2>1, <3>2, <3>5, <3>6, <3>7
  <2>3. CASE writer["cron"].pc # "idle"
    <3>1. writer' = writer
      BY <1>1, <2>3 DEF Tick
    <3> QED
      BY <2>1, <3>1
  <2> QED
    BY <2>2, <2>3
<1>0. CASE BootPulls
  BY <1>0 DEF BootPulls
<1>2. ASSUME NEW w \in Writers, PullFails(w)
      PROVE  ListInv'
  BY <1>2 DEF PullFails
<1>3. ASSUME NEW w \in Writers, SaveBegins(w)
      PROVE  ListInv'
  <2>1. /\ writer' = [writer EXCEPT ![w] = [pc |-> "grow", at |-> size + 1, date |-> Stamp(w)]]
        /\ UNCHANGED <<topic, now, array, size, clearing>> /\ writer[w].pc = "pull"
    BY <1>3 DEF SaveBegins
  <2>2. Stamp(w) \in Minute /\ damage' \in {"none", "order", "torn", "healed"}
    <3>1. Stamp(w) \in Minute
      BY <2>1 DEF Stamp
    <3>2. Harm(w) \in {"none", "order", "torn", "healed"}
      BY DEF Harm
    <3> QED
      BY <1>3, <3>1, <3>2 DEF SaveBegins
  <2>3. /\ Taking' = Taking - 1 /\ Taking' \in Nat
        /\ \A v \in Writers \ {w} : writer'[v] = writer[v]
        /\ writer'[w] = [pc |-> "grow", at |-> size + 1, date |-> Stamp(w)]
    BY <2>1
  <2>4. size \in Nat /\ size + Taking <= now /\ now <= MaxMinutes /\ now \in Nat
    OBVIOUS
  <2>5. size + 1 + Taking' <= now /\ size + 1 \in Length /\ Stamp(w) \in Slot
    BY <2>2, <2>3, <2>4
  <2>6. ListTypes'
    BY <2>1, <2>2, <2>3, <2>5
  <2>7. Room'
    <3>1. (size + Taking <= now)'
      BY <2>1, <2>3, <2>4
    <3>2. ASSUME NEW v \in Writers, (writer[v].pc = "pull" \/ Saving(v))'
          PROVE  /\ writer'[v].date \in Minute
                 /\ Saving(v)' => writer'[v].at >= 1 /\ writer'[v].at + Taking' <= now'
      <4>1. CASE v = w
        BY <2>1, <2>2, <2>3, <2>4, <2>5, <4>1
      <4>2. CASE v # w
        BY <2>1, <2>3, <2>4, <3>2, <4>2
      <4> QED
        BY <4>1, <4>2
    <3> QED
      BY <3>1, <3>2
  <2> QED
    BY <2>6, <2>7
<1>4. ASSUME NEW w \in Writers, SaveGrows(w)
      PROVE  ListInv'
  BY <1>4 DEF SaveGrows
<1>5. ASSUME NEW w \in Writers, SaveStores(w)
      PROVE  ListInv'
  BY <1>5 DEF SaveStores
<1>6. CASE ClearNulls \/ ClearEnds
  BY <1>6 DEF ClearNulls, ClearEnds
<1>7. CASE Server \/ OtherAsks \/ Connect \/ Lose \/ Browser \/ UNCHANGED vars
  BY <1>7, ListKept
<1> QED
  BY <1>0, <1>1, <1>2, <1>3, <1>4, <1>5, <1>6, <1>7 DEF Next, Sampling

-----------------------------------------------------------------------------
(* The web socket and the page. *)

SocketInv == /\ SocketTypes /\ PageTypes
             /\ \A h \in Handlers : Len(reading[h].got) <= reading[h].len

LEMMA SocketKept ==
    ASSUME Sampling \/ UNCHANGED vars
    PROVE  UNCHANGED <<topic, subs, requests, others, strange, reading, replies,
                       conn, timers, shown>>
<1> USE DEF OnlyList, socketVars, pageVars
<1>1. CASE Sampling
  BY <1>1 DEF Sampling, Tick, BootPulls, PullFails, SaveBegins, SaveGrows, SaveStores, ClearNulls, ClearEnds
<1>2. CASE UNCHANGED vars
  BY <1>2 DEF vars
<1> QED
  BY <1>1, <1>2

\* An element more, within the size the reading began with.
LEMMA ReadNextTypes ==
    ASSUME ListTypes, SocketTypes, NEW h \in Handlers, ReadNext(h)
    PROVE  /\ Append(reading[h].got, array[next(h)]) \in Data
           /\ Len(Append(reading[h].got, array[next(h)])) <= reading[h].len
           /\ reading' = [reading EXCEPT ![h].got = Append(reading[h].got, array[next(h)])]
           /\ UNCHANGED <<topic, subs, requests, others, strange, replies, conn, timers, shown>>
<1>1. /\ reading[h].got \in Seq(Slot) /\ reading[h].len \in Nat
      /\ size \in 0..MaxMinutes /\ array \in [1..MaxMinutes -> Slot]
  BY BoundAssumption DEF ListTypes, SocketTypes, Data, Length, Slots
<1>2. Len(reading[h].got) \in Nat
  BY <1>1, LenProperties
<1>3. next(h) \in 1..MaxMinutes /\ next(h) <= reading[h].len
  BY <1>1, <1>2, BoundAssumption DEF ReadNext, Unread, next
<1>4. array[next(h)] \in Slot
  BY <1>1, <1>3
<1>5. /\ Append(reading[h].got, array[next(h)]) \in Seq(Slot)
      /\ Len(Append(reading[h].got, array[next(h)])) = next(h)
  BY <1>1, <1>4, AppendProperties DEF next
<1> QED
  BY <1>3, <1>5 DEF ReadNext, OnlyReading, OnlySocket, pageVars, Data

LEMMA ReceiveTypes ==
    ASSUME SocketTypes, NEW i \in 1..Len(replies), Receive(i)
    PROVE  /\ replies' \in Seq(Data) /\ Len(replies') = Len(replies) - 1
           /\ Len(replies) \in Nat /\ replies[i] \in Data
           /\ UNCHANGED <<topic, subs, requests, others, strange, reading, conn>>
<1>1. replies \in Seq(Data)
  BY DEF SocketTypes
<1>2. Without(replies, i) \in Seq(Data) /\ Len(Without(replies, i)) = Len(replies) - 1
  BY <1>1, WithoutOne
<1> QED
  BY <1>1, <1>2, LenProperties DEF Receive, OnlyPage

LEMMA SocketStep ==
    ASSUME ListTypes, SocketInv, [Next]_vars
    PROVE  SocketInv'
<1> DEFINE Reading == [for : {"nobody", "page", "other"}, len : Length, got : Data]
<1>0. <<>> \in Data /\ free \in Reading /\ Len(<<>>) = 0 /\ 0 \in Length
  BY BoundAssumption DEF Data, free, Length
<1> USE DEF SocketInv, SocketTypes, PageTypes
<1>1. CASE Sampling \/ UNCHANGED vars
  BY <1>1, SocketKept
<1>2. CASE Subscribe \/ OtherAsks
  <2>1. CASE Subscribe
    BY <2>1 DEF Subscribe, OnlySocket, pageVars
  <2>2. CASE OtherAsks
    <3>1. others' \in 0..MaxOthers /\ strange' \in 0..others'
      BY <2>2, BoundAssumption DEF OtherAsks
    <3> QED
      BY <2>2, <3>1 DEF OtherAsks, OnlySocket, pageVars
  <2> QED
    BY <1>2, <2>1, <2>2
<1>3. ASSUME NEW h \in Handlers, NEW whose \in {"page", "other"}, Takes(h, whose),
             requests' \in Nat, strange' \in 0..others
      PROVE  SocketInv'
  <2>1. /\ reading' = [reading EXCEPT ![h] = [for |-> whose, len |-> size, got |-> <<>>]]
        /\ UNCHANGED <<topic, subs, others, replies, conn, timers, shown>>
    BY <1>3 DEF Takes, OnlySocket, pageVars
  <2>2. size \in Length /\ size >= 0
    BY BoundAssumption DEF ListTypes, Length
  <2> QED
    BY <1>0, <1>3, <2>1, <2>2
<1>4. ASSUME NEW h \in Handlers, Serve(h) \/ ServeOther(h)
      PROVE  SocketInv'
  BY <1>3, <1>4, BoundAssumption DEF Serve, ServeOther
<1>5. ASSUME NEW h \in Handlers, ReadNext(h)
      PROVE  SocketInv'
  BY <1>5, ReadNextTypes
<1>6. ASSUME NEW h \in Handlers, ReadFails(h) \/ Publish(h)
      PROVE  SocketInv'
  <2>1. /\ reading' = [reading EXCEPT ![h] = free]
        /\ UNCHANGED <<topic, subs, requests, others, strange, conn, timers, shown>>
    BY <1>6 DEF ReadFails, Publish, OnlyReading, OnlySocket, pageVars
  <2>2. reading[h].got \in Data
    OBVIOUS
  <2>3. replies \in Seq(Data) /\ Append(replies, reading[h].got) \in Seq(Data)
    BY <2>2, AppendProperties
  <2>4. replies' \in Seq(Data)
    BY <1>6, <2>3 DEF ReadFails, Publish
  <2> QED
    BY <1>0, <2>1, <2>4 DEF free
<1>7. CASE Connect \/ Lose
  <2>1. CASE Connect
    BY <2>1 DEF Connect, OnlyPage
  <2>2. CASE Lose
    <3>1. \A h \in Handlers : /\ [reading[h] EXCEPT !.for = "other"] \in Reading
                              /\ [reading[h] EXCEPT !.for = "other"].got = reading[h].got
                              /\ [reading[h] EXCEPT !.for = "other"].len = reading[h].len
      OBVIOUS
    <3>2. reading' = [h \in Handlers |-> IF reading[h].for = "page"
                                        THEN [reading[h] EXCEPT !.for = "other"] ELSE reading[h]]
      BY <2>2 DEF Lose
    <3>3. /\ reading' \in [Handlers -> Reading]
          /\ \A h \in Handlers : reading'[h].got = reading[h].got /\ reading'[h].len = reading[h].len
      BY <3>1, <3>2
    <3>4. <<>> \in Seq(Data)
      OBVIOUS
    <3> QED
      BY <2>2, <3>3, <3>4 DEF Lose, OnlyPage
  <2> QED
    BY <1>7, <2>1, <2>2
<1>8. CASE Fire
  BY <1>8 DEF Fire, OnlyPage
<1>9. ASSUME NEW i \in 1..Len(replies), Draw(i) \/ DrawThrows(i)
      PROVE  SocketInv'
  <2>1. Receive(i)
    BY <1>9 DEF Draw, DrawThrows
  <2>2. CASE Draw(i)
    BY <2>1, <2>2, ReceiveTypes DEF Draw, Drawn
  <2>3. CASE DrawThrows(i)
    BY <2>1, <2>3, ReceiveTypes DEF DrawThrows
  <2> QED
    BY <1>9, <2>2, <2>3
<1> QED
  BY <1>1, <1>2, <1>4, <1>5, <1>6, <1>7, <1>8, <1>9 DEF Next, Server, Browser

-----------------------------------------------------------------------------
(* The requests under way. *)

\* What the page and the others have under way came from the page's connection or
\* from a request of others, and each of those accounts for one.
UnderWay == timers + requests + Len(replies) + strange
                + Count(reading, "page") + Count(reading, "other")
Origins == others + (IF conn = "none" THEN 0 ELSE 1)
Accounted == UnderWay <= Origins

LEMMA Numbers ==
    ASSUME SocketInv
    PROVE  /\ timers \in Nat /\ requests \in Nat /\ Len(replies) \in Nat
           /\ strange \in Nat /\ others \in Nat
           /\ Count(reading, "page") \in Nat /\ Count(reading, "other") \in Nat
           /\ Loops = timers + requests + Count(reading, "page") + Len(replies)
           /\ UnderWay \in Nat
<1>1. /\ timers \in Nat /\ requests \in Nat /\ strange \in Nat /\ others \in Nat
      /\ replies \in Seq(Data)
  BY BoundAssumption DEF SocketInv, SocketTypes, PageTypes
<1>2. Len(replies) \in Nat
  BY <1>1, LenProperties
<1>3. Count(reading, "page") \in Nat /\ Count(reading, "other") \in Nat
  BY CountType
<1>4. Loops = timers + requests + Count(reading, "page") + Len(replies)
  BY DEF Loops, Serving, Count, Those
<1> QED
  BY <1>1, <1>2, <1>3, <1>4 DEF UnderWay

\* A thread takes up a request.
LEMMA TakesCount ==
    ASSUME SocketInv, NEW h \in Handlers, NEW whose \in {"page", "other"}, Takes(h, whose)
    PROVE  /\ Count(reading', whose) = Count(reading, whose) + 1
           /\ \A x \in {"page", "other"} \ {whose} : Count(reading', x) = Count(reading, x)
           /\ UNCHANGED <<others, timers, replies, conn>>
<1>1. /\ reading[h].for = "nobody" /\ reading'[h].for = whose
      /\ \A i \in Handlers \ {h} : reading'[i] = reading[i]
      /\ UNCHANGED <<others, timers, replies, conn>>
  BY DEF SocketInv, SocketTypes, Takes, free, OnlySocket, pageVars
<1>2. Count(reading', whose) = Count(reading, whose) + 1
  BY <1>1, CountJoins
<1>3. ASSUME NEW x \in {"page", "other"} \ {whose}
      PROVE  Count(reading', x) = Count(reading, x)
  <2>1. \A i \in Handlers : (reading'[i].for = x) <=> (reading[i].for = x)
    BY <1>1
  <2> QED
    BY <2>1, CountStays
<1> QED
  BY <1>1, <1>2, <1>3

\* A thread is done with one.
LEMMA FreesCount ==
    ASSUME SocketInv, NEW h \in Handlers, Busy(h), reading' = [reading EXCEPT ![h] = free]
    PROVE  Count(reading', "page") + Count(reading', "other") =
               Count(reading, "page") + Count(reading, "other") - 1
<1>1. /\ reading[h].for \in {"page", "other"} /\ reading'[h].for = "nobody"
      /\ \A i \in Handlers \ {h} : reading'[i] = reading[i]
  BY DEF SocketInv, SocketTypes, Busy, free
<1>2. ASSUME NEW x, NEW y, reading[h].for = x, {x, y} = {"page", "other"}
      PROVE  Count(reading', x) + Count(reading', y) = Count(reading, x) + Count(reading, y) - 1
  <2>0. /\ reading[h].for = x /\ reading'[h].for # x
        /\ \A i \in Handlers \ {h} : reading'[i].for = reading[i].for
    BY <1>1, <1>2
  <2>1. Count(reading', x) = Count(reading, x) - 1
    <3>1. Those(reading', x) = Those(reading, x) \ {h} /\ h \in Those(reading, x)
      BY <2>0 DEF Those
    <3>2. IsFiniteSet(Those(reading, x))
      BY CountType
    <3> QED
      BY <3>1, <3>2, FS_RemoveElement DEF Count
  <2>2. \A i \in Handlers : (reading'[i].for = y) <=> (reading[i].for = y)
    BY <1>1, <1>2
  <2>3. Count(reading', y) = Count(reading, y)
    BY <2>2, CountStays
  <2>4. Count(reading, x) \in Nat /\ Count(reading, y) \in Nat
    BY CountType
  <2> QED
    BY <2>1, <2>3, <2>4
<1>3. CASE reading[h].for = "page"
  BY <1>2, <1>3
<1>4. CASE reading[h].for = "other"
  <2>1. Count(reading', "other") + Count(reading', "page") =
            Count(reading, "other") + Count(reading, "page") - 1
    BY <1>2, <1>4
  <2>2. /\ Count(reading', "other") \in Nat /\ Count(reading', "page") \in Nat
        /\ Count(reading, "other") \in Nat /\ Count(reading, "page") \in Nat
    BY CountType
  <2> QED
    BY <2>1, <2>2
<1> QED
  BY <1>1, <1>3, <1>4

LEMMA AccountedStep ==
    ASSUME ListTypes, SocketInv, Accounted, [Next]_vars
    PROVE  Accounted'
<1> DEFINE Sum == timers + requests + Len(replies) + strange
           NewSum == timers' + requests' + Len(replies') + strange'
<1>0. /\ SocketInv' /\ conn \in {"none", "open", "lost"}
      /\ others \in Nat /\ others' \in Nat /\ timers \in Nat /\ requests \in Nat
      /\ strange \in Nat /\ Len(replies) \in Nat
  BY SocketStep, BoundAssumption, Numbers DEF SocketInv, PageTypes, SocketTypes
<1>a. /\ Count(reading, "page") \in Nat /\ Count(reading', "page") \in Nat
      /\ Count(reading, "other") \in Nat /\ Count(reading', "other") \in Nat
  BY CountType
<1>b. Accounted <=> Sum + Count(reading, "page") + Count(reading, "other") <= Origins
  BY DEF Accounted, UnderWay
<1>c. Accounted' <=> NewSum + Count(reading', "page") + Count(reading', "other") <= Origins'
  BY DEF Accounted, UnderWay
<1> USE <1>0, <1>a, <1>b, <1>c DEF Origins
<1>1. CASE Sampling \/ UNCHANGED vars
  BY <1>1, SocketKept
<1>2. CASE Subscribe \/ OtherAsks
  BY <1>2 DEF Subscribe, OtherAsks, OnlySocket, pageVars
<1>3. ASSUME NEW h \in Handlers, Serve(h)
      PROVE  Accounted'
  <2>1. Takes(h, "page") /\ requests' = requests - 1 /\ strange' = strange
    BY <1>3 DEF Serve
  <2> QED
    BY <2>1, TakesCount
<1>4. ASSUME NEW h \in Handlers, ServeOther(h)
      PROVE  Accounted'
  <2>1. Takes(h, "other") /\ strange' = strange - 1 /\ requests' = requests
    BY <1>4 DEF ServeOther
  <2> QED
    BY <2>1, TakesCount
<1>5. ASSUME NEW h \in Handlers, ReadNext(h)
      PROVE  Accounted'
  <2>1. /\ \A i \in Handlers : reading'[i].for = reading[i].for
        /\ UNCHANGED <<requests, others, strange, replies, conn, timers>>
    <3>1. /\ reading' = [reading EXCEPT ![h].got = Append(reading[h].got, array[next(h)])]
          /\ UNCHANGED <<requests, others, strange, replies, conn, timers>>
      BY <1>5, ReadNextTypes DEF SocketInv
    <3>2. reading \in [Handlers -> [for : {"nobody", "page", "other"}, len : Length, got : Data]]
      BY DEF SocketInv, SocketTypes
    <3> QED
      BY <3>1, <3>2
  <2>2. /\ Count(reading', "page") = Count(reading, "page")
        /\ Count(reading', "other") = Count(reading, "other")
    <3>1. ASSUME NEW x
          PROVE  Count(reading', x) = Count(reading, x)
      <4>1. \A i \in Handlers : (reading'[i].for = x) <=> (reading[i].for = x)
        BY <2>1
      <4> QED
        BY <4>1, CountStays
    <3> QED
      BY <3>1
  <2> QED
    BY <2>1, <2>2
<1>6. ASSUME NEW h \in Handlers, ReadFails(h) \/ Publish(h)
      PROVE  Accounted'
  <2>1. /\ Busy(h) /\ reading' = [reading EXCEPT ![h] = free]
        /\ UNCHANGED <<requests, others, strange, conn, timers>>
    BY <1>6 DEF ReadFails, Publish, Unread, OnlyReading, OnlySocket, pageVars
  <2>2. replies \in Seq(Data) /\ reading[h].got \in Data
    BY DEF SocketInv, SocketTypes
  <2>3. Len(Append(replies, reading[h].got)) = Len(replies) + 1
    BY <2>2, AppendProperties
  <2>4. Len(replies') \in {Len(replies), Len(replies) + 1}
    BY <1>6, <2>3 DEF ReadFails, Publish
  <2>5. Count(reading', "page") + Count(reading', "other") =
            Count(reading, "page") + Count(reading, "other") - 1
    BY <2>1, FreesCount
  <2> QED
    BY <1>0, <2>1, <2>4, <2>5
<1>7. CASE Connect
  BY <1>7 DEF Connect, OnlyPage
<1>8. CASE Lose
  <2>1. \A h \in Handlers : reading'[h].for = IF reading[h].for = "page" THEN "other"
                                               ELSE reading[h].for
    BY <1>8 DEF Lose, SocketInv, SocketTypes
  <2>2. /\ Count(reading', "page") = 0
        /\ Count(reading', "other") = Count(reading, "page") + Count(reading, "other")
    <3>1. /\ Those(reading', "page") = {}
          /\ Those(reading', "other") = Those(reading, "page") \cup Those(reading, "other")
      BY <2>1 DEF Those
    <3>2. Cardinality(Those(reading, "page") \cup Those(reading, "other")) =
              Count(reading, "page") + Count(reading, "other")
      BY CountUnion
    <3> QED
      BY <3>1, <3>2, FS_EmptySet DEF Count
  <2>3. /\ requests' = 0 /\ timers' = 0 /\ Len(replies') = 0
        /\ UNCHANGED <<others, strange>>
        /\ conn = "open" /\ conn' = "lost"
    BY <1>8 DEF Lose, OnlyPage
  <2> QED
    BY <2>2, <2>3
<1>9. CASE Fire
  BY <1>9 DEF Fire, OnlyPage
<1>10. ASSUME NEW i \in 1..Len(replies), Draw(i) \/ DrawThrows(i)
       PROVE  Accounted'
  <2>1. Receive(i) /\ timers' \in {timers, timers + 1}
    BY <1>10 DEF Draw, DrawThrows
  <2>2. /\ Len(replies') = Len(replies) - 1
        /\ UNCHANGED <<requests, others, strange, reading, conn>>
    BY <2>1, ReceiveTypes DEF SocketInv
  <2> QED
    BY <2>1, <2>2
<1> QED
  BY <1>1, <1>2, <1>3, <1>4, <1>5, <1>6, <1>7, <1>8, <1>9, <1>10 DEF Next, Server, Browser

LEMMA InitTypes == Init => ListInv /\ SocketInv
<1> SUFFICES ASSUME Init PROVE ListInv /\ SocketInv
  OBVIOUS
<1>1. ListInv
  <2> USE BoundAssumption DEF Init, Slots, Slot, Null, Minute, Length, Writers, idle
  <2>1. ListTypes
    BY DEF ListTypes
  <2>2. writer["cron"].pc = "idle" /\ writer["boot"].pc = "start" /\ now = 1 /\ size = 0
    OBVIOUS
  <2>3. Room
    BY <2>2 DEF Room, Taking, Due, Saving
  <2> QED
    BY <2>1, <2>3 DEF ListInv
<1>2. <<>> \in Data /\ Len(<<>>) = 0 /\ 0 \in Length /\ <<>> \in Seq(Data)
  BY BoundAssumption DEF Data, Length
<1>3. SocketInv
  BY <1>2, BoundAssumption DEF Init, SocketInv, SocketTypes, PageTypes, free, Drawn
<1> QED
  BY <1>1, <1>3

\* The variables stay in their ranges: no save runs off the array and no thread
\* serializes more elements than it set out to, however samplers, clears and
\* requests interleave.
THEOREM TypeCorrect == Spec => []TypeOK
<1>1. Init => ListInv /\ SocketInv
  BY InitTypes
<1>2. ListInv /\ SocketInv /\ [Next]_vars => ListInv' /\ SocketInv'
  BY ListStep, SocketStep DEF ListInv
<1>3. ListInv /\ SocketInv => TypeOK
  BY DEF ListInv, SocketInv, TypeOK
<1> QED
  BY <1>1, <1>2, <1>3, PTL DEF Spec

\* A page never has more than one request, answer or timer under way, but for one
\* for each request of others.
THEOREM OneLoopAlways == Spec => []OneLoop
<1>1. Init => ListInv /\ SocketInv
  BY InitTypes
<1>2. Init => Accounted
  <2> SUFFICES ASSUME Init PROVE Accounted
    OBVIOUS
  <2>1. Those(reading, "page") = {} /\ Those(reading, "other") = {}
    BY DEF Those, Init, free
  <2>2. Count(reading, "page") = 0 /\ Count(reading, "other") = 0
    BY <2>1, FS_EmptySet DEF Count
  <2>3. timers = 0 /\ requests = 0 /\ Len(replies) = 0 /\ strange = 0 /\ others = 0
        /\ conn = "none"
    BY DEF Init
  <2> QED
    BY <2>2, <2>3 DEF Accounted, UnderWay, Origins
<1>3. ListInv /\ SocketInv /\ Accounted /\ [Next]_vars => ListInv' /\ SocketInv' /\ Accounted'
  BY ListStep, SocketStep, AccountedStep DEF ListInv
<1>4. SocketInv /\ Accounted => OneLoop
  <2> SUFFICES ASSUME SocketInv, Accounted PROVE OneLoop
    OBVIOUS
  <2>1. UnderWay <= Origins
    BY DEF Accounted
  <2> QED
    BY <2>1, Numbers DEF OneLoop, UnderWay, Origins
<1> QED
  BY <1>1, <1>2, <1>3, <1>4, PTL DEF Spec

-----------------------------------------------------------------------------
(* The end of a loop. *)

\* A page that is not connected has not subscribed, and one that has not has
\* nothing under way.
Silent == /\ conn # "open" => subs = "none"
          /\ subs = "none" => Loops = 0

\* A step leaves as much of the page under way, or more if it has subscribed, or
\* there is a reason.
LEMMA LoopStep ==
    ASSUME ListInv, SocketInv, Silent, [Next]_vars
    PROVE  \/ Loops' = Loops
           \/ Loops' >= Loops /\ subs' # "none"
           \/ conn' = "lost" /\ subs' = "none" /\ Loops' = 0
           \/ subs = "pending"
           \/ \E h \in Serving("page") : size < reading[h].len
           \/ \E i \in 1..Len(replies) : ~Drawable(replies[i])
<1>0. SocketInv'
  BY SocketStep DEF ListInv
<1> DEFINE N(f) == Count(f, "page")
<1>1. /\ Loops = timers + requests + N(reading) + Len(replies)
      /\ timers \in Nat /\ requests \in Nat /\ N(reading) \in Nat /\ Len(replies) \in Nat
  BY Numbers
<1>2. /\ Loops' = timers' + requests' + N(reading') + Len(replies')
      /\ timers' \in Nat /\ requests' \in Nat /\ N(reading') \in Nat /\ Len(replies') \in Nat
  <2>1. Loops' = timers' + requests' + N(reading') + Len(replies')
    BY DEF Loops, Serving, Count, Those
  <2>2. replies' \in Seq(Data) /\ timers' \in Nat /\ requests' \in Nat
    BY <1>0 DEF SocketInv, SocketTypes, PageTypes
  <2> QED
    BY <2>1, <2>2, CountType, LenProperties
<1>3. \A h \in Handlers : reading[h].for \in {"nobody", "page", "other"}
  BY DEF SocketInv, SocketTypes
<1> HIDE DEF N
<1>4. CASE Sampling \/ UNCHANGED vars
  BY <1>1, <1>2, <1>4, SocketKept
<1>5. CASE Subscribe \/ OtherAsks
  BY <1>1, <1>2, <1>5 DEF Subscribe, OtherAsks, OnlySocket, pageVars
<1>6. ASSUME NEW h \in Handlers, Serve(h)
      PROVE  Loops' = Loops
  <2>1. Takes(h, "page") /\ requests' = requests - 1
    BY <1>6 DEF Serve
  <2>2. N(reading') = N(reading) + 1 /\ UNCHANGED <<timers, replies>>
    BY <2>1, TakesCount DEF N
  <2> QED
    BY <2>1, <2>2, <1>1, <1>2
<1>7. ASSUME NEW h \in Handlers, ServeOther(h)
      PROVE  Loops' = Loops
  <2>1. Takes(h, "other") /\ requests' = requests
    BY <1>7 DEF ServeOther
  <2>2. N(reading') = N(reading) /\ UNCHANGED <<timers, replies>>
    BY <2>1, TakesCount DEF N
  <2> QED
    BY <2>1, <2>2, <1>1, <1>2
<1>8. ASSUME NEW h \in Handlers, ReadNext(h)
      PROVE  Loops' = Loops
  <2>1. /\ reading' = [reading EXCEPT ![h].got = Append(reading[h].got, array[next(h)])]
        /\ UNCHANGED <<requests, replies, timers>>
    BY <1>8, ReadNextTypes DEF SocketInv, ListInv
  <2>2. \A i \in Handlers : (reading'[i].for = "page") <=> (reading[i].for = "page")
    BY <2>1 DEF SocketInv, SocketTypes
  <2>3. N(reading') = N(reading)
    BY <2>2, CountStays DEF N
  <2> QED
    BY <2>1, <2>3, <1>1, <1>2
\* A thread that is done with a request of others.
<1>9. ASSUME NEW h \in Handlers, reading[h].for # "page", reading' = [reading EXCEPT ![h] = free]
      PROVE  N(reading') = N(reading)
  <2>1. \A i \in Handlers : (reading'[i].for = "page") <=> (reading[i].for = "page")
    BY <1>9 DEF SocketInv, SocketTypes, free
  <2> QED
    BY <2>1, CountStays DEF N
<1>10. ASSUME NEW h \in Handlers, ReadFails(h)
       PROVE  Loops' = Loops \/ \E g \in Serving("page") : size < reading[g].len
  <2>1. CASE reading[h].for = "page"
    <3>1. next(h) <= reading[h].len /\ next(h) > size
      BY <1>10 DEF ReadFails, Unread
    <3>2. reading[h].got \in Seq(Slot) /\ reading[h].len \in Nat /\ size \in Nat
      BY BoundAssumption DEF SocketInv, SocketTypes, Data, Length, ListInv, ListTypes
    <3>3. Len(reading[h].got) \in Nat
      BY <3>2, LenProperties
    <3>4. size < reading[h].len
      BY <3>1, <3>2, <3>3 DEF next
    <3> QED
      BY <2>1, <3>4 DEF Serving
  <2>2. CASE reading[h].for # "page"
    <3>1. /\ reading' = [reading EXCEPT ![h] = free]
          /\ UNCHANGED <<requests, replies, timers>>
      BY <1>10 DEF ReadFails, OnlyReading, OnlySocket, pageVars
    <3> QED
      BY <1>1, <1>2, <1>9, <2>2, <3>1
  <2> QED
    BY <2>1, <2>2
<1>11. ASSUME NEW h \in Handlers, Publish(h)
       PROVE  \/ Loops' = Loops \/ subs = "pending"
              \/ Loops' >= Loops /\ subs' # "none"
  <2>1. /\ Busy(h) /\ reading' = [reading EXCEPT ![h] = free]
        /\ UNCHANGED <<requests, timers, subs>>
        /\ replies' = IF subs = "on" THEN Append(replies, reading[h].got) ELSE replies
    BY <1>11 DEF Publish, OnlyReading, OnlySocket, pageVars
  <2>2. \/ subs = "on" /\ Len(replies') = Len(replies) + 1
        \/ subs # "on" /\ Len(replies') = Len(replies)
    <3>1. replies \in Seq(Data) /\ reading[h].got \in Data
      BY DEF SocketInv, SocketTypes
    <3>2. Len(Append(replies, reading[h].got)) = Len(replies) + 1
      BY <3>1, AppendProperties
    <3> QED
      BY <2>1, <3>2
  <2>3. CASE reading[h].for # "page"
    <3>1. N(reading') = N(reading)
      BY <1>9, <2>1, <2>3
    <3> QED
      BY <1>1, <1>2, <2>1, <2>2, <3>1
  <2>4. CASE reading[h].for = "page"
    <3>1. Those(reading', "page") = Those(reading, "page") \ {h} /\ h \in Those(reading, "page")
      BY <2>1, <2>4 DEF Those, SocketInv, SocketTypes, free
    <3>2. N(reading') = N(reading) - 1
      <4>1. IsFiniteSet(Those(reading, "page"))
        BY CountType
      <4> QED
        BY <3>1, <4>1, FS_RemoveElement DEF N, Count
    <3>3. CASE subs = "on"
      BY <1>1, <1>2, <2>1, <2>2, <3>2, <3>3
    <3>4. CASE subs = "none"
      <4>1. Loops = 0
        BY <3>4 DEF Silent
      <4>2. N(reading) = 0
        BY <1>1, <4>1
      <4>3. N(reading') \in Nat
        BY <1>2
      <4> QED
        BY <3>2, <4>2, <4>3
    <3> QED
      BY <3>3, <3>4 DEF SocketInv, SocketTypes
  <2> QED
    BY <2>3, <2>4
<1>12. CASE Connect
  <2>1. /\ requests' = 1 /\ UNCHANGED <<reading, replies, timers>> /\ subs' = "pending"
        /\ Loops = 0
    BY <1>12 DEF Connect, OnlyPage, Silent
  <2>2. Loops' >= Loops
    BY <1>1, <1>2, <2>1
  <2> QED
    BY <2>1, <2>2
<1>13. CASE Lose
  <2>1. /\ requests' = 0 /\ timers' = 0 /\ replies' = <<>> /\ conn' = "lost" /\ subs' = "none"
        /\ \A h \in Handlers : reading'[h].for # "page"
    BY <1>13 DEF Lose, SocketInv, SocketTypes
  <2>2. N(reading') = 0
    <3>1. Those(reading', "page") = {}
      BY <2>1 DEF Those
    <3> QED
      BY <3>1, FS_EmptySet DEF N, Count
  <2> QED
    BY <1>2, <2>1, <2>2
<1>14. CASE Fire
  <2>1. /\ timers' = timers - 1 /\ requests' = requests + 1
        /\ UNCHANGED <<reading, replies>>
    BY <1>14 DEF Fire, OnlyPage
  <2> QED
    BY <1>1, <1>2, <2>1
<1>15. ASSUME NEW i \in 1..Len(replies), Draw(i)
       PROVE  Loops' = Loops
  <2>1. Receive(i) /\ timers' = timers + 1
    BY <1>15 DEF Draw
  <2>2. Len(replies') = Len(replies) - 1 /\ UNCHANGED <<requests, reading>>
    BY <2>1, ReceiveTypes DEF SocketInv
  <2> QED
    BY <1>1, <1>2, <2>1, <2>2
<1>16. ASSUME NEW i \in 1..Len(replies), DrawThrows(i)
       PROVE  ~Drawable(replies[i])
  BY <1>16 DEF DrawThrows
<1> QED
  BY <1>4, <1>5, <1>6, <1>7, <1>8, <1>10, <1>11, <1>12, <1>13, <1>14, <1>15, <1>16
     DEF Next, Server, Browser

LEMMA SilentStep ==
    ASSUME ListInv, SocketInv, Silent, [Next]_vars
    PROVE  Silent'
<1>1. Loops = timers + requests + Count(reading, "page") + Len(replies)
      /\ timers \in Nat /\ requests \in Nat /\ Count(reading, "page") \in Nat
      /\ Len(replies) \in Nat
  BY Numbers
<1>2. /\ subs' = "none" => subs = "none" \/ Lose
      /\ (conn' # conn \/ subs' # subs) => Subscribe \/ Connect \/ Lose
  <2>1. CASE Sampling \/ UNCHANGED vars
    BY <2>1, SocketKept
  <2>2. CASE Subscribe \/ Connect \/ Lose
    BY <2>2 DEF Subscribe, Connect, Lose
  <2>3. CASE OtherAsks \/ Fire
    BY <2>3 DEF OtherAsks, Fire, OnlySocket, OnlyPage, pageVars
  <2>4. ASSUME NEW h \in Handlers, Serve(h) \/ ServeOther(h) \/ ReadNext(h) \/ ReadFails(h)
                                     \/ Publish(h)
        PROVE  UNCHANGED <<subs, conn>>
    BY <2>4 DEF Serve, ServeOther, Takes, ReadNext, ReadFails, Publish, OnlyReading,
                OnlySocket, pageVars
  <2>5. ASSUME NEW i, Draw(i) \/ DrawThrows(i)
        PROVE  UNCHANGED <<subs, conn>>
    BY <2>5 DEF Draw, DrawThrows, Receive
  <2> QED
    BY <2>1, <2>2, <2>3, <2>4, <2>5 DEF Next, Server, Browser
<1>3. conn' # "open" => subs' = "none"
  <2>1. CASE Subscribe \/ Connect \/ Lose
    BY <2>1 DEF Subscribe, Connect, Lose, OnlySocket, pageVars, Silent
  <2> QED
    BY <1>2, <2>1 DEF Silent
<1>4. ASSUME subs' = "none" PROVE Loops' = 0
  <2>1. CASE Lose
    <3>1. /\ requests' = 0 /\ timers' = 0 /\ replies' = <<>>
          /\ \A h \in Handlers : reading'[h].for # "page"
      BY <2>1 DEF Lose, SocketInv, SocketTypes
    <3>2. Serving("page")' = {}
      BY <3>1 DEF Serving
    <3>3. Cardinality(Serving("page"))' = 0
      BY <3>2, FS_EmptySet
    <3>4. Loops' = timers' + requests' + Cardinality(Serving("page"))' + Len(replies')
      BY DEF Loops
    <3> QED
      BY <3>1, <3>3, <3>4
  <2>2. CASE ~Lose
    <3>1. subs = "none" /\ Loops = 0
      BY <1>2, <1>4, <2>2 DEF Silent
    <3>2. Count(reading, "page") = 0 /\ Len(replies) = 0
      BY <1>1, <3>1
    <3>3. Serving("page") = {}
      <4>1. IsFiniteSet(Serving("page")) /\ Cardinality(Serving("page")) = 0
        BY <3>2, CountType DEF Serving, Count, Those
      <4> QED
        BY <4>1, FS_EmptySet
    <3> QED
      BY <1>4, <3>1, <3>2, <3>3, LoopStep
  <2> QED
    BY <2>1, <2>2
<1> QED
  BY <1>3, <1>4 DEF Silent

\* A page's loop ends only when its connection is lost, when an answer came before
\* its subscription, when a reading for it met a clear, or on an answer that cannot
\* be drawn.
THEOREM LoopsEndForReason == Spec => LoopEndsForReason
<1>1. Init => ListInv /\ SocketInv
  BY InitTypes
<1>2. Init => Silent
  <2> SUFFICES ASSUME Init PROVE Silent
    OBVIOUS
  <2>1. Serving("page") = {}
    BY DEF Init, Serving, free
  <2>2. Cardinality(Serving("page")) = 0
    BY <2>1, FS_EmptySet
  <2>3. timers = 0 /\ requests = 0 /\ Len(replies) = 0 /\ subs = "none"
    BY DEF Init
  <2> QED
    BY <2>2, <2>3 DEF Silent, Loops
<1>3. ListInv /\ SocketInv /\ Silent /\ [Next]_vars => ListInv' /\ SocketInv' /\ Silent'
  BY ListStep, SocketStep, SilentStep DEF ListInv
<1>4. ListInv /\ SocketInv /\ Silent /\ [Next]_vars =>
          [(Loops > 0 /\ Loops' = 0) =>
              \/ conn' = "lost"
              \/ subs = "pending"
              \/ \E h \in Serving("page") : size < reading[h].len
              \/ \E i \in 1..Len(replies) : ~Drawable(replies[i])]_vars
  <2> SUFFICES ASSUME ListInv, SocketInv, Silent, [Next]_vars, Loops > 0, Loops' = 0
               PROVE  \/ conn' = "lost"
                      \/ subs = "pending"
                      \/ \E h \in Serving("page") : size < reading[h].len
                      \/ \E i \in 1..Len(replies) : ~Drawable(replies[i])
    OBVIOUS
  <2>1. Loops \in Nat
    BY Numbers
  <2>2. ~(Loops' >= Loops) /\ Loops' # Loops
    BY <2>1
  <2> QED
    BY <2>2, LoopStep
<1> QED
  BY <1>1, <1>2, <1>3, <1>4, PTL DEF Spec, LoopEndsForReason

-----------------------------------------------------------------------------
(* The order of the list. *)

\* A slot within the size that no save has still to fill.
Settled(i) == i \in 1..size /\ \A w \in Writers : writer[w].pc = "store" => writer[w].at # i

Pulling(w) == writer[w].pc = "pull"

\* No date lies ahead.
Past == /\ \A i \in Slots : array[i] <= now
        /\ \A w \in Writers : writer[w].date <= now

\* One save at a time, never during a clear, at the end of the list.
Alone == /\ \A v, w \in Writers : Saving(v) /\ Saving(w) => v = w
         /\ \A w \in Writers : Saving(w) =>
                /\ clearing # "nulled"
                /\ writer[w].at = IF writer[w].pc = "grow" THEN size + 1 ELSE size

Full == clearing # "nulled" => \A i \in Slots : Settled(i) => array[i] # Null

\* First the dates in the list, then that of a save under way, then those of the
\* samples that are being taken.
InOrder ==
    clearing # "nulled" =>
        /\ \A i, j \in Slots : Settled(i) /\ Settled(j) /\ i <= j => array[i] <= array[j]
        /\ \A i \in Slots : Settled(i) =>
               \A w \in Writers : /\ Saving(w) => array[i] <= writer[w].date
                                  /\ Pulling(w) => array[i] <= Stamp(w)
        /\ \A v, w \in Writers : Saving(v) /\ Pulling(w) => writer[v].date <= Stamp(w)

Orderly == topic = "gc" \/ damage # "order"

OrderInv == damage # "torn" => Alone /\ Full /\ (Orderly => InOrder)

\* What the types say, in the form the proofs use it.
LEMMA ListFacts ==
    ASSUME ListInv
    PROVE  /\ now \in Nat /\ now >= 1 /\ size \in Nat /\ size <= MaxMinutes /\ MaxMinutes \in Nat
           /\ array \in [Slots -> Slot] /\ Slot \subseteq Nat
           /\ DOMAIN writer = Writers
           /\ \A i \in Slots : array[i] \in Nat
           /\ \A w \in Writers : /\ DOMAIN writer[w] = {"pc", "at", "date"}
                                 /\ writer[w].date \in Nat /\ writer[w].at \in Nat
                                 /\ Stamp(w) \in Nat
                                 /\ Saving(w) => writer[w].date \in Minute
                                 /\ Saving(w) => writer[w].at \in Slots
BY BoundAssumption DEF ListInv, ListTypes, Room, Taking, Due, Saving, Writers, Minute, Slot,
                       Slots, Null, Length, Stamp

LEMMA PastStep ==
    ASSUME ListInv, Past, [Next]_vars
    PROVE  Past'
<1>0. /\ now \in Nat /\ array \in [Slots -> Slot] /\ now >= 1
      /\ Slot \subseteq Nat /\ \A w \in Writers : writer[w].date \in Nat
      /\ \A w \in Writers : DOMAIN writer[w] = {"pc", "at", "date"}
      /\ DOMAIN writer = Writers
  BY ListFacts
<1>1. CASE Tick
  <2>1. now' = now + 1 /\ array' = array
        /\ \A w \in Writers : writer'[w].date \in {writer[w].date, now + 1}
    BY <1>0, <1>1 DEF Tick, Writers
  <2>2. \A n \in Nat : n <= now => n <= now + 1
    BY <1>0
  <2>3. /\ \A i \in Slots : array[i] \in Nat /\ array[i] <= now
        /\ \A w \in Writers : writer[w].date \in Nat /\ writer[w].date <= now
    BY <1>0 DEF Past
  <2>4. /\ \A i \in Slots : array'[i] <= now'
        /\ \A w \in Writers : writer'[w].date <= now'
    BY <1>0, <2>1, <2>2, <2>3
  <2> QED
    BY <2>4 DEF Past
<1>2. ASSUME BootPulls \/ \E w \in Writers : PullFails(w) \/ SaveBegins(w) \/ SaveGrows(w)
      PROVE  Past'
  <2>1. /\ now' = now /\ array' = array
        /\ \A v \in Writers : writer'[v].date \in {writer[v].date, now, 0}
    BY <1>0, <1>2 DEF BootPulls, PullFails, SaveBegins, SaveGrows, OnlyList, idle, Null, Stamp
  <2> QED
    BY <1>0, <2>1 DEF Past
<1>3. ASSUME NEW w \in Writers, SaveStores(w)
      PROVE  Past'
  <2>1. /\ now' = now /\ \A i \in Slots : array'[i] \in {array[i], writer[w].date}
        /\ \A v \in Writers : writer'[v].date \in {writer[v].date, 0}
    BY <1>0, <1>3 DEF SaveStores, OnlyList, idle, Null
  <2> QED
    BY <1>0, <2>1 DEF Past
<1>4. CASE ClearNulls \/ ClearEnds
  <2>1. /\ now' = now /\ writer' = writer /\ \A i \in Slots : array'[i] \in {array[i], 0}
    BY <1>4 DEF ClearNulls, ClearEnds, OnlyList, Null
  <2> QED
    BY <1>0, <2>1 DEF Past
<1>5. CASE Server \/ OtherAsks \/ Connect \/ Lose \/ Browser \/ UNCHANGED vars
  BY <1>5, ListKept DEF Past
<1> QED
  BY <1>1, <1>2, <1>3, <1>4, <1>5 DEF Next, Sampling

\* A step that neither saves nor clears: a sample may begin, with the present as its
\* date, or be given up.
LEMMA QuietStep ==
    ASSUME ListInv, ListInv', Past', OrderInv,
           UNCHANGED <<topic, array, size, damage>>,
           clearing' = "nulled" <=> clearing = "nulled",
           \A w \in Writers : /\ Saving(w)' <=> Saving(w)
                              /\ Saving(w) => writer'[w] = writer[w],
           \A w \in Writers : Pulling(w)' => \/ Stamp(w)' = now'
                                             \/ Pulling(w) /\ Stamp(w)' >= Stamp(w)
    PROVE  OrderInv'
<1>1. \A w \in Writers : writer'[w].pc = "store" <=> writer[w].pc = "store"
  BY DEF Saving
<1>2. \A i : Settled(i)' <=> Settled(i)
  BY <1>1 DEF Settled, Saving
<1>3. Alone => Alone'
  BY DEF Alone
<1>4. Full => Full'
  BY <1>2 DEF Full
<1>5. ASSUME InOrder, clearing # "nulled" PROVE InOrder'
  <2>1. /\ \A i \in Slots : array[i] \in Nat /\ array[i] <= now'
        /\ \A w \in Writers : Saving(w) => writer[w].date \in Nat /\ writer[w].date <= now'
        /\ \A w \in Writers : Stamp(w) \in Nat /\ Stamp(w)' \in Nat
    <3>1. /\ \A i \in Slots : array'[i] <= now'
          /\ \A w \in Writers : writer'[w].date <= now'
      BY DEF Past
    <3>2. \A w \in Writers : Stamp(w)' \in Nat
      <4>1. now' \in Nat /\ \A w \in Writers : writer'[w].date \in Nat
        BY BoundAssumption DEF ListInv, ListTypes, Minute, Slot, Null
      <4> QED
        BY <4>1 DEF Stamp
    <3> QED
      BY <3>1, <3>2, ListFacts
  <2>2. ASSUME NEW i \in Slots, Settled(i)', NEW w \in Writers
        PROVE  (Saving(w) => array[i] <= writer[w].date)' /\ (Pulling(w) => array[i] <= Stamp(w))'
    <3>1. Settled(i) /\ array'[i] = array[i]
      BY <1>2, <2>2
    <3>2. /\ Saving(w) => array[i] <= writer[w].date
          /\ Pulling(w) => array[i] <= Stamp(w)
      BY <1>5, <3>1 DEF InOrder
    <3> QED
      BY <2>1, <3>1, <3>2
  <2>3. ASSUME NEW v \in Writers, NEW w \in Writers, Saving(v)', Pulling(w)'
        PROVE  writer'[v].date <= Stamp(w)'
    <3>1. Saving(v) /\ writer'[v] = writer[v]
      BY <2>3
    <3>2. Pulling(w) => writer[v].date <= Stamp(w)
      BY <1>5, <3>1 DEF InOrder
    <3> QED
      BY <2>1, <2>3, <3>1, <3>2
  <2>4. ASSUME NEW i \in Slots, NEW j \in Slots, Settled(i)', Settled(j)', i <= j
        PROVE  array'[i] <= array'[j]
    BY <1>2, <1>5, <2>4 DEF InOrder
  <2> QED
    BY <2>2, <2>3, <2>4 DEF InOrder
<1>6. clearing = "nulled" => InOrder'
  BY DEF InOrder
<1> QED
  BY <1>3, <1>4, <1>5, <1>6 DEF OrderInv, Orderly

\* The first and the second half of an add, undisturbed.
LEMMA SaveBeginsOrder ==
    ASSUME ListInv, Past, OrderInv, NEW w \in Writers, SaveBegins(w)
    PROVE  OrderInv'
<1> SUFFICES ASSUME damage' # "torn" PROVE Alone' /\ Full' /\ (Orderly' => InOrder')
  BY DEF OrderInv
<1>1. /\ UNCHANGED <<topic, now, array, size, clearing>> /\ Pulling(w) /\ damage' = Harm(w)
      /\ \A v \in Writers \ {w} : writer'[v] = writer[v]
      /\ writer'[w] = [pc |-> "grow", at |-> size + 1, date |-> Stamp(w)]
  BY ListFacts DEF SaveBegins, OnlyList, Pulling
<1>2. ~Overlaps(w) /\ damage # "torn"
  BY <1>1 DEF Harm
<1>3. clearing # "nulled" /\ \A v \in Writers : ~Saving(v)
  BY <1>2 DEF Overlaps
<1>4. Alone /\ Full /\ (Orderly => InOrder)
  BY <1>2 DEF OrderInv
<1>5. \A i : Settled(i)' <=> Settled(i)
  BY <1>1, <1>3 DEF Settled, Saving
<1>6. Saving(w)' /\ \A v \in Writers \ {w} : ~Saving(v)'
  BY <1>1, <1>3 DEF Saving
<1>7. Alone'
  BY <1>1, <1>3, <1>6 DEF Alone
<1>8. Full'
  BY <1>1, <1>4, <1>5 DEF Full
<1>9. ASSUME Orderly' PROVE InOrder'
  <2>1. Orderly /\ ~Overtakes(w)
    <3>1. CASE topic = "gc"
      BY <3>1, ListFacts DEF Orderly, Overtakes, Stamp
    <3>2. CASE topic # "gc"
      <4>1. damage' # "order"
        BY <1>1, <1>9, <3>2 DEF Orderly
      <4> QED
        BY <1>1, <1>2, <4>1 DEF Harm, Orderly
    <3> QED
      BY <3>1, <3>2
  <2>2. InOrder
    BY <1>4, <2>1
  <2>3. /\ \A v \in Writers : Stamp(v) \in Nat
        /\ \A v \in Writers : Pulling(v) => Stamp(w) <= Stamp(v)
    BY <2>1, ListFacts DEF Overtakes, Pulling
  <2>4. \A v \in Writers \ {w} : Stamp(v)' = Stamp(v) /\ (Pulling(v)' <=> Pulling(v))
    BY <1>1 DEF Stamp, Pulling
  <2>5. ~Pulling(w)' /\ writer'[w].date = Stamp(w)
    BY <1>1 DEF Pulling
  <2>6. ASSUME NEW i \in Slots, Settled(i)', NEW v \in Writers
        PROVE  (Saving(v) => array[i] <= writer[v].date)' /\ (Pulling(v) => array[i] <= Stamp(v))'
    <3>1. \A u \in Writers : Pulling(u) => array[i] <= Stamp(u)
      BY <1>3, <1>5, <2>2, <2>6 DEF InOrder
    <3> QED
      BY <1>1, <1>6, <2>4, <2>5, <3>1
  <2>7. ASSUME NEW u \in Writers, NEW v \in Writers, Saving(u)', Pulling(v)'
        PROVE  writer'[u].date <= Stamp(v)'
    <3>1. u = w /\ v # w /\ Pulling(v)
      BY <1>6, <2>4, <2>5, <2>7
    <3> QED
      BY <2>3, <2>4, <2>5, <3>1
  <2>8. ASSUME NEW i \in Slots, NEW j \in Slots, Settled(i)', Settled(j)', i <= j
        PROVE  array'[i] <= array'[j]
    BY <1>1, <1>3, <1>5, <2>2, <2>8 DEF InOrder
  <2> QED
    BY <2>6, <2>7, <2>8 DEF InOrder
<1> QED
  BY <1>7, <1>8, <1>9

LEMMA SaveGrowsOrder ==
    ASSUME ListInv, OrderInv, NEW w \in Writers, SaveGrows(w)
    PROVE  OrderInv'
<1>0. UNCHANGED <<topic, now, array, clearing, damage>>
  BY DEF SaveGrows, OnlyList
<1> SUFFICES ASSUME damage # "torn" PROVE Alone' /\ Full' /\ (Orderly' => InOrder')
  BY <1>0 DEF OrderInv
<1>1. Alone /\ Full /\ (Orderly => InOrder)
  BY DEF OrderInv
<1>2. /\ Saving(w) /\ writer[w].pc = "grow" /\ clearing # "nulled"
      /\ writer[w].at = size + 1 /\ size' = size + 1
      /\ \A v \in Writers \ {w} : writer'[v] = writer[v] /\ ~Saving(v)
      /\ writer'[w].pc = "store" /\ writer'[w].at = writer[w].at
      /\ writer'[w].date = writer[w].date
  BY <1>1, ListFacts DEF SaveGrows, Saving, Alone
<1>3. Saving(w)' /\ \A v \in Writers \ {w} : ~Saving(v)'
  BY <1>2 DEF Saving
<1>4. \A i : Settled(i)' <=> Settled(i)
  BY <1>2, ListFacts DEF Settled, Saving
<1>5. Alone'
  BY <1>0, <1>2, <1>3 DEF Alone
<1>6. Full'
  BY <1>0, <1>1, <1>4 DEF Full
<1>7. \A v \in Writers : /\ writer'[v].date = writer[v].date /\ Stamp(v)' = Stamp(v)
                         /\ Saving(v)' => Saving(v)
                         /\ Pulling(v)' => Pulling(v)
  BY <1>0, <1>2, <1>3 DEF Stamp, Pulling
<1>8. ASSUME Orderly' PROVE InOrder'
  <2>1. InOrder
    BY <1>0, <1>1, <1>8 DEF Orderly
  <2> QED
    BY <1>0, <1>2, <1>4, <1>7, <2>1 DEF InOrder
<1> QED
  BY <1>5, <1>6, <1>8

LEMMA SaveStoresOrder ==
    ASSUME ListInv, OrderInv, NEW w \in Writers, SaveStores(w)
    PROVE  OrderInv'
<1>0. UNCHANGED <<topic, now, size, clearing, damage>>
  BY DEF SaveStores, OnlyList
<1> SUFFICES ASSUME damage # "torn" PROVE Alone' /\ Full' /\ (Orderly' => InOrder')
  BY <1>0 DEF OrderInv
<1>1. Alone /\ Full /\ (Orderly => InOrder)
  BY DEF OrderInv
<1>2. /\ Saving(w) /\ clearing # "nulled"
      /\ writer[w].at = size /\ writer[w].pc = "store" /\ size \in Slots
      /\ \A v \in Writers \ {w} : writer'[v] = writer[v] /\ ~Saving(v)
      /\ writer'[w].pc = "idle"
      /\ writer[w].date \in Minute
  BY <1>1, ListFacts DEF SaveStores, Saving, Alone, idle
<1>3. /\ array'[size] = writer[w].date
      /\ \A i \in Slots \ {size} : array'[i] = array[i]
  BY <1>2, ListFacts DEF SaveStores
<1>4. \A v \in Writers : ~Saving(v)'
  BY <1>2 DEF Saving
<1>5. \A i \in Slots : Settled(i)' => i = size \/ (i < size /\ Settled(i))
  BY <1>0, <1>2, ListFacts DEF Settled, Saving, Slots
<1>6. Alone'
  BY <1>4 DEF Alone
<1>7. \A i \in Slots : Settled(i)' => array'[i] # Null
  BY <1>1, <1>2, <1>3, <1>5 DEF Full, Minute, Null
<1>8. ASSUME Orderly' PROVE InOrder'
  <2>1. InOrder
    BY <1>0, <1>1, <1>8 DEF Orderly
  <2>2. \A i \in Slots : Settled(i) => array[i] <= writer[w].date
    BY <1>2, <2>1 DEF InOrder
  <2>3. ASSUME NEW i \in Slots, NEW j \in Slots, Settled(i)', Settled(j)', i <= j
        PROVE  array'[i] <= array'[j]
    <3>1. CASE i = size /\ j = size
      BY <1>2, <1>3, <3>1, ListFacts
    <3>2. CASE i # size /\ j = size
      BY <1>3, <1>5, <2>2, <2>3, <3>2
    <3>3. CASE j # size
      <4>1. Settled(j) /\ Settled(i) /\ i # size
        <5>1. j < size /\ size \in Nat /\ i \in Nat /\ j \in Nat
          BY <1>5, <2>3, <3>3, ListFacts DEF Slots
        <5> QED
          BY <1>5, <2>3, <3>3, <5>1
      <4> QED
        BY <1>2, <1>3, <2>1, <2>3, <3>3, <4>1 DEF InOrder
    <3> QED
      BY <3>1, <3>2, <3>3
  <2>4. \A v \in Writers : Pulling(v)' => Pulling(v) /\ Stamp(v)' = Stamp(v)
    BY <1>0, <1>2 DEF Pulling, Stamp
  <2>5. ASSUME NEW i \in Slots, Settled(i)', NEW v \in Writers, Pulling(v)'
        PROVE  array'[i] <= Stamp(v)'
    <3>1. CASE i = size
      BY <1>2, <1>3, <2>1, <2>4, <2>5, <3>1 DEF InOrder
    <3>2. CASE i # size
      BY <1>2, <1>3, <1>5, <2>1, <2>4, <2>5, <3>2 DEF InOrder
    <3> QED
      BY <3>1, <3>2
  <2> QED
    BY <1>4, <2>3, <2>5 DEF InOrder
<1> QED
  BY <1>6, <1>7, <1>8 DEF Full

\* A clear makes a list that is torn or not in order whole if nobody saves meanwhile.
LEMMA ClearOrder ==
    ASSUME OrderInv, ClearNulls \/ ClearEnds
    PROVE  OrderInv'
<1> SUFFICES ASSUME damage' # "torn" PROVE Alone' /\ Full' /\ InOrder'
  BY DEF OrderInv
<1>1. writer' = writer /\ \A v \in Writers : ~Saving(v)
  <2>1. CASE ClearNulls
    BY <2>1 DEF ClearNulls
  <2>2. CASE ClearEnds
    BY <2>2 DEF ClearEnds, OrderInv, Alone
  <2> QED
    BY <2>1, <2>2
<1>2. \A v \in Writers : ~Saving(v)'
  BY <1>1 DEF Saving
<1>3. clearing' = "nulled" \/ \A i : ~Settled(i)'
  BY DEF ClearNulls, ClearEnds, Settled
<1> QED
  BY <1>2, <1>3 DEF Alone, Full, InOrder

LEMMA OrderStep ==
    ASSUME ListInv, ListInv', Past, Past', OrderInv, [Next]_vars
    PROVE  OrderInv'
<1>1. CASE Tick
  <2>1. /\ UNCHANGED <<topic, array, size, damage>> /\ now' = now + 1 /\ now \in Nat
        /\ (clearing' = "nulled" <=> clearing = "nulled")
        /\ \A w \in Writers : \/ writer'[w] = writer[w]
                              \/ ~Saving(w) /\ writer'[w].pc = "pull" /\ writer'[w].date = now'
    BY <1>1, ListFacts DEF Tick, Writers, Saving
  <2>2. \A w \in Writers : /\ Saving(w)' <=> Saving(w)
                           /\ Saving(w) => writer'[w] = writer[w]
    BY <2>1 DEF Saving
  <2>3. ASSUME NEW w \in Writers, Pulling(w)'
        PROVE  Stamp(w)' = now' \/ (Pulling(w) /\ Stamp(w)' >= Stamp(w))
    BY <2>1, <2>3, ListFacts DEF Pulling, Stamp
  <2> QED
    BY <2>1, <2>2, <2>3, QuietStep
<1>2. CASE BootPulls
  <2>1. /\ UNCHANGED <<topic, now, array, size, damage, clearing>>
        /\ \A w \in Writers : \/ writer'[w] = writer[w]
                              \/ ~Saving(w) /\ writer'[w].pc = "pull" /\ writer'[w].date = now'
    BY <1>2, ListFacts DEF BootPulls, OnlyList, Writers, Saving
  <2>2. \A w \in Writers : /\ Saving(w)' <=> Saving(w)
                           /\ Saving(w) => writer'[w] = writer[w]
    BY <2>1 DEF Saving
  <2>3. ASSUME NEW w \in Writers, Pulling(w)'
        PROVE  Stamp(w)' = now' \/ (Pulling(w) /\ Stamp(w)' >= Stamp(w))
    BY <2>1, <2>3, ListFacts DEF Pulling, Stamp
  <2> QED
    BY <2>1, <2>2, <2>3, QuietStep
<1>3. ASSUME NEW w \in Writers, PullFails(w)
      PROVE  OrderInv'
  <2>1. /\ UNCHANGED <<topic, now, array, size, damage, clearing>>
        /\ \A v \in Writers : \/ writer'[v] = writer[v]
                              \/ ~Saving(v) /\ writer'[v].pc = "idle"
    BY <1>3, ListFacts DEF PullFails, OnlyList, idle, Saving
  <2>2. \A v \in Writers : /\ Saving(v)' <=> Saving(v)
                           /\ Saving(v) => writer'[v] = writer[v]
    BY <2>1 DEF Saving
  <2>3. ASSUME NEW v \in Writers, Pulling(v)'
        PROVE  Stamp(v)' = now' \/ (Pulling(v) /\ Stamp(v)' >= Stamp(v))
    BY <2>1, <2>3, ListFacts DEF Pulling, Stamp
  <2> QED
    BY <2>1, <2>2, <2>3, QuietStep
<1>4. ASSUME NEW w \in Writers, SaveBegins(w) \/ SaveGrows(w) \/ SaveStores(w)
      PROVE  OrderInv'
  BY <1>4, SaveBeginsOrder, SaveGrowsOrder, SaveStoresOrder
<1>5. CASE ClearNulls \/ ClearEnds
  BY <1>5, ClearOrder
<1>6. CASE Server \/ OtherAsks \/ Connect \/ Lose \/ Browser \/ UNCHANGED vars
  <2>1. UNCHANGED <<topic, now, array, size, writer, clearing, damage>>
    BY <1>6, ListKept
  <2> QED
    BY <2>1 DEF OrderInv, Orderly, Alone, Full, InOrder, Settled, Saving, Pulling, Stamp
<1> QED
  BY <1>1, <1>2, <1>3, <1>4, <1>5, <1>6 DEF Next, Sampling

\* The inductive invariant of the list, for every theorem about it.
LEMMA ListInductive == Spec => [](ListInv /\ OrderInv)
<1>1. Init => ListInv /\ SocketInv
  BY InitTypes
<1>2. Init => Past /\ OrderInv
  <2> SUFFICES ASSUME Init PROVE Past /\ OrderInv
    OBVIOUS
  <2>1. /\ now = 1 /\ size = 0 /\ \A i \in Slots : array[i] = 0
        /\ \A w \in Writers : writer[w].pc \in {"idle", "start"} /\ writer[w].date = 0
    BY DEF Init, Null, Writers, idle
  <2>2. \A i : ~Settled(i)
    BY <2>1 DEF Settled
  <2>3. \A w \in Writers : ~Saving(w) /\ ~Pulling(w)
    BY <2>1 DEF Saving, Pulling
  <2> QED
    BY <2>1, <2>2, <2>3 DEF OrderInv, Past, Alone, Full, InOrder
<1>3. ListInv /\ Past /\ OrderInv /\ [Next]_vars => ListInv' /\ Past' /\ OrderInv'
  BY ListStep, PastStep, OrderStep
<1> QED
  BY <1>1, <1>2, <1>3, PTL DEF Spec

\* Between clears the list is full of samples but for the slot being filled, unless
\* a save has overlapped a save or a clear, and in the order of their dates, unless
\* one has overtaken another, which never happens to the list of GcService; the next
\* clear that nobody disturbs makes it so again.
THEOREM ListAlwaysSound == Spec => []ListSound
<1>1. ListInv /\ OrderInv => ListSound
  <2> SUFFICES ASSUME ListInv, OrderInv, damage # "torn", clearing # "nulled"
               PROVE  LET pending == {writer[w].at : w \in {v \in Writers : writer[v].pc = "store"}} IN
                      /\ \A i \in (1..size) \ pending : array[i] # Null
                      /\ (topic = "gc" \/ damage # "order") =>
                             \A i, j \in (1..size) \ pending : i <= j => array[i] <= array[j]
    BY DEF ListSound
  <2> DEFINE pending == {writer[w].at : w \in {v \in Writers : writer[v].pc = "store"}}
  <2>1. ASSUME NEW i \in (1..size) \ pending
        PROVE  i \in Slots /\ Settled(i)
    <3>1. size \in 0..MaxMinutes /\ MaxMinutes \in Nat
      BY BoundAssumption DEF ListInv, ListTypes, Length
    <3>2. \A w \in Writers : writer[w].pc = "store" => writer[w].at # i
      OBVIOUS
    <3> QED
      BY <3>1, <3>2 DEF Slots, Settled
  <2> HIDE DEF pending
  <2>2. \A i \in (1..size) \ pending : array[i] # Null
    BY <2>1 DEF OrderInv, Full
  <2>3. (topic = "gc" \/ damage # "order") =>
            \A i, j \in (1..size) \ pending : i <= j => array[i] <= array[j]
    BY <2>1 DEF OrderInv, Orderly, InOrder
  <2> QED
    BY <2>2, <2>3 DEF pending
<1> QED
  BY <1>1, ListInductive, PTL
=============================================================================
