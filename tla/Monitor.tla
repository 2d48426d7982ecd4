------------------------------- MODULE Monitor -------------------------------
(***************************************************************************)
(* The monitor: the tasks that take a sample every minute and clear the    *)
(* list every two hours (MonitiorTask), the plain ArrayList they share     *)
(* with the requests (GcService, ThreadService, ClassService), the web     *)
(* socket that answers a request to all who have subscribed                *)
(* (WebSocketController), and the page, which asks again some time after   *)
(* each answer (socket.js).                                                *)
(*                                                                         *)
(* The three topics have a list, a connection and a loop each and share    *)
(* nothing; a behaviour follows one of them.  It follows one page; of the  *)
(* others, and of what a page left or loaded anew has sent, that page sees *)
(* only the answers to their requests.                                     *)
(*                                                                         *)
(* Definitions marked "deviation" are faulty variants of the definition    *)
(* after them; no behaviour of Spec uses one.                              *)
(***************************************************************************)
EXTENDS Charts, FiniteSets

CONSTANTS Handlers,    \* threads that answer requests
          Period,      \* minutes between two clears
          MaxMinutes,  \* bound: the clock
          MaxOthers    \* bound: requests of other pages

ASSUME HandlersAssumption == IsFiniteSet(Handlers)
ASSUME PeriodAssumption == Period \in Nat \ {0}
ASSUME BoundAssumption == MaxMinutes \in Nat \ {0} /\ MaxOthers \in Nat

\* A sample is known by the minute of its date; a slot without one holds null.
\* The clock starts at 1.
Minute == 1..MaxMinutes
Null == 0
Slot == Minute \cup {Null}

\* The task a cron expression starts, and run(), which takes the first sample.
Writers == {"cron", "boot"}
\* The one takes a sample a minute at most, from the second, the other one sample.
Slots == 1..MaxMinutes
idle == [pc |-> "idle", at |-> 0, date |-> Null]

VARIABLES
  topic,     \* the topic followed
  now,       \* the minute
  \* the list
  array,     \* elementData
  size,
  writer,    \* writer[w]: where a save is, the slot it fills, the date it has
  clearing,  \* clearAll: "idle", "due" or "nulled"
  damage,    \* history: "none"; "order", a sample has overtaken another; "torn",
             \* a save has overlapped another or a clear; "healed" by a clear since
  \* the web socket
  subs,      \* SUBSCRIBE of the page: "none", "pending" or "on"
  requests,  \* SENDs of the page that have not been taken up
  others,    \* history: requests of others so far
  strange,   \* those of them that have not been taken up
  reading,   \* reading[h]: whose request h answers, what it has serialized
  replies,   \* answers on their way to the page
  \* the page
  conn,      \* "none", "open" or "lost"
  timers,    \* timers armed
  shown      \* what each chart shows

listVars == <<array, size, writer, clearing, damage>>
socketVars == <<subs, requests, others, strange, reading, replies>>
pageVars == <<conn, timers, shown>>
vars == <<topic, now, array, size, writer, clearing, damage,
          subs, requests, others, strange, reading, replies, conn, timers, shown>>

free == [for |-> "nobody", len |-> 0, got |-> <<>>]

\* What every chart of the page shows.
Drawn(data) == [c \in DOMAIN charts(topic) |-> data]

\* The web server is up before run() takes the first sample.
Init == /\ topic \in Topics
        /\ now = 1
        /\ array = [i \in Slots |-> Null] /\ size = 0
        /\ writer = [w \in Writers |-> IF w = "boot" THEN [idle EXCEPT !.pc = "start"] ELSE idle]
        /\ clearing = "idle" /\ damage = "none"
        /\ subs = "none" /\ requests = 0 /\ others = 0 /\ strange = 0
        /\ reading = [h \in Handlers |-> free] /\ replies = <<>>
        /\ conn = "none" /\ timers = 0 /\ shown = Drawn(<<>>)

-----------------------------------------------------------------------------
(* The samplers and the clear. *)

\* A minute begins.  A cron task still at work is not started again.
Tick ==
    /\ now < MaxMinutes
    /\ now' = now + 1
    /\ writer' = IF writer["cron"].pc = "idle"
                 THEN [writer EXCEPT !["cron"] = [pc |-> "pull", at |-> 0, date |-> now']]
                 ELSE writer
    /\ clearing' = IF clearing = "idle" /\ now' % Period = 0 THEN "due" ELSE clearing
    /\ UNCHANGED <<topic, array, size, damage, socketVars, pageVars>>

Saving(w) == writer[w].pc \in {"grow", "store"}
OnlyList == UNCHANGED <<topic, now, socketVars, pageVars>>

\* run() takes its samples one after the other; each takes its date first.
BootPulls ==
    /\ writer["boot"].pc = "start"
    /\ writer' = [writer EXCEPT !["boot"].pc = "pull", !["boot"].date = now]
    /\ OnlyList /\ UNCHANGED <<array, size, clearing, damage>>

\* The external command fails, or what it prints is not what is expected.
PullFails(w) ==
    /\ writer[w].pc = "pull"
    /\ writer' = [writer EXCEPT ![w] = idle]
    /\ OnlyList /\ UNCHANGED <<array, size, clearing, damage>>

\* GcService.save takes the date anew.
Stamp(w) == IF topic = "gc" THEN now ELSE writer[w].date

\* What a save that begins does to the list.
Overlaps(w) == clearing = "nulled" \/ \E v \in Writers : Saving(v)
Overtakes(w) == \E v \in Writers : writer[v].pc = "pull" /\ Stamp(v) < Stamp(w)
Harm(w) == CASE Overlaps(w) -> "torn"
             [] Overtakes(w) /\ ~Overlaps(w) /\ damage # "torn" -> "order"
             [] OTHER -> damage

\* (deviation: the date the task has taken before the command, in all three)
SaveBeginsDated(w) ==
    /\ writer[w].pc = "pull"
    /\ writer' = [writer EXCEPT ![w].pc = "grow", ![w].at = size + 1]
    /\ damage' = Harm(w)
    /\ OnlyList /\ UNCHANGED <<array, size, clearing>>

\* save: add is elementData[size++] = e without a lock.
SaveBegins(w) ==
    /\ writer[w].pc = "pull"
    /\ writer' = [writer EXCEPT ![w] = [pc |-> "grow", at |-> size + 1, date |-> Stamp(w)]]
    /\ damage' = Harm(w)
    /\ OnlyList /\ UNCHANGED <<array, size, clearing>>

\* (deviation: the new element counted only by the next add)
SaveGrowsLate(w) ==
    /\ writer[w].pc = "grow"
    /\ writer' = [writer EXCEPT ![w].pc = "store"]
    /\ OnlyList /\ UNCHANGED <<array, size, clearing, damage>>

SaveGrows(w) ==
    /\ writer[w].pc = "grow"
    /\ size' = writer[w].at
    /\ writer' = [writer EXCEPT ![w].pc = "store"]
    /\ OnlyList /\ UNCHANGED <<array, clearing, damage>>

SaveStores(w) ==
    /\ writer[w].pc = "store"
    /\ array' = [array EXCEPT ![writer[w].at] = writer[w].date]
    /\ writer' = [writer EXCEPT ![w] = idle]
    /\ OnlyList /\ UNCHANGED <<size, clearing, damage>>

\* ArrayList.clear: the slots, then the size.
ClearNulls ==
    /\ clearing = "due"
    /\ array' = [i \in Slots |-> IF i <= size THEN Null ELSE array[i]]
    /\ clearing' = "nulled"
    /\ damage' = IF \E w \in Writers : Saving(w) THEN "torn" ELSE damage
    /\ OnlyList /\ UNCHANGED <<size, writer>>

\* (deviation: only the slots)
ClearKeepsSize ==
    /\ clearing = "nulled"
    /\ clearing' = "idle"
    /\ OnlyList /\ UNCHANGED <<array, size, writer, damage>>

ClearEnds ==
    /\ clearing = "nulled"
    /\ size' = 0
    /\ clearing' = "idle"
    /\ damage' = IF damage # "none" /\ ~\E w \in Writers : Saving(w) THEN "healed" ELSE damage
    /\ OnlyList /\ UNCHANGED <<array, writer>>

Sampling == \/ Tick \/ BootPulls
            \/ \E w \in Writers : PullFails(w) \/ SaveBegins(w) \/ SaveGrows(w) \/ SaveStores(w)
            \/ ClearNulls \/ ClearEnds

-----------------------------------------------------------------------------
(* The web socket: each message is handled by any thread of a pool. *)

\* What of the page is under way and leads to a request in the end.
Serving(whose) == {h \in Handlers : reading[h].for = whose}
Loops == timers + requests + Cardinality(Serving("page")) + Len(replies)

OnlySocket == UNCHANGED <<topic, now, listVars, pageVars>>

Subscribe ==
    /\ subs = "pending"
    /\ subs' = "on"
    /\ OnlySocket /\ UNCHANGED <<requests, others, strange, reading, replies>>

\* Another page asks.
OtherAsks ==
    /\ others < MaxOthers
    /\ others' = others + 1 /\ strange' = strange + 1
    /\ OnlySocket /\ UNCHANGED <<subs, requests, reading, replies>>

\* The list itself is returned; the converter goes over it, up to the size it
\* has at the start.
Takes(h, whose) ==
    /\ reading[h] = free
    /\ reading' = [reading EXCEPT ![h] = [for |-> whose, len |-> size, got |-> <<>>]]
    /\ OnlySocket /\ UNCHANGED <<subs, others, replies>>

Serve(h) ==
    /\ requests > 0 /\ requests' = requests - 1
    /\ Takes(h, "page") /\ UNCHANGED strange

ServeOther(h) ==
    /\ strange > 0 /\ strange' = strange - 1
    /\ Takes(h, "other") /\ UNCHANGED requests

\* The next element to serialize.
next(h) == Len(reading[h].got) + 1
Busy(h) == reading[h].for # "nobody"
\* (deviation: one too many)
UnreadOneMore(h) == Busy(h) /\ next(h) <= reading[h].len + 1
Unread(h) == Busy(h) /\ next(h) <= reading[h].len
OnlyReading == OnlySocket /\ UNCHANGED <<subs, requests, others, strange>>

\* (deviation: a list that waits for an element)
ReadNextFilled(h) ==
    /\ Unread(h) /\ next(h) <= size /\ array[next(h)] # Null
    /\ reading' = [reading EXCEPT ![h].got = Append(@, array[next(h)])]
    /\ OnlyReading /\ UNCHANGED replies

ReadNext(h) ==
    /\ Unread(h) /\ next(h) <= size
    /\ reading' = [reading EXCEPT ![h].got = Append(@, array[next(h)])]
    /\ OnlyReading /\ UNCHANGED replies

\* IndexOutOfBoundsException: the list has become shorter; nobody is answered.
ReadFails(h) ==
    /\ Unread(h) /\ next(h) > size
    /\ reading' = [reading EXCEPT ![h] = free]
    /\ OnlyReading /\ UNCHANGED replies

\* The answer goes to everybody who has subscribed, whoever has asked.
Publish(h) ==
    /\ Busy(h) /\ ~Unread(h)
    /\ replies' = IF subs = "on" THEN Append(replies, reading[h].got) ELSE replies
    /\ reading' = [reading EXCEPT ![h] = free]
    /\ OnlyReading

Server == \/ Subscribe
          \/ \E h \in Handlers : \/ Serve(h) \/ ServeOther(h)
                                 \/ ReadNext(h) \/ ReadFails(h) \/ Publish(h)

-----------------------------------------------------------------------------
(* The page. *)

OnlyPage == UNCHANGED <<topic, now, listVars, others, strange>>

\* (deviation: it asks before it subscribes, and after)
ConnectAsksTwice ==
    /\ conn = "none"
    /\ conn' = "open" /\ subs' = "pending" /\ requests' = 2
    /\ OnlyPage /\ UNCHANGED <<reading, replies, timers, shown>>

\* The page is loaded and connected: it subscribes and asks for the first time.
Connect ==
    /\ conn = "none"
    /\ conn' = "open" /\ subs' = "pending" /\ requests' = 1
    /\ OnlyPage /\ UNCHANGED <<reading, replies, timers, shown>>

\* The page is left, or its connection breaks, which nothing on the page looks
\* out for.  What it has sent may still be handled, for others to hear; a timer
\* that fires afterwards finds the socket closed.
Lose ==
    /\ conn = "open"
    /\ conn' = "lost" /\ subs' = "none"
    /\ requests' = 0 /\ replies' = <<>> /\ timers' = 0
    /\ reading' = [h \in Handlers |-> IF reading[h].for = "page"
                                      THEN [reading[h] EXCEPT !.for = "other"] ELSE reading[h]]
    /\ OnlyPage /\ UNCHANGED shown

\* Every chart reads the date of the first element and of all: an answer that is
\* empty or has a null in it throws in the first chart.
Drawable(data) == data # <<>> /\ \A i \in 1..Len(data) : data[i] # Null

Without(s, i) == SubSeq(s, 1, i - 1) \o SubSeq(s, i + 1, Len(s))
Receive(i) == /\ replies' = Without(replies, i)
              /\ OnlyPage /\ UNCHANGED <<subs, requests, reading, conn>>

\* (deviation: nothing new, nothing to do)
DrawNews(i) ==
    /\ Receive(i)
    /\ Drawable(replies[i])
    /\ shown' = Drawn(replies[i])
    /\ timers' = IF shown' = shown THEN timers ELSE timers + 1

\* The callback of the subscription; answers may overtake each other.
Draw(i) ==
    /\ Receive(i)
    /\ Drawable(replies[i])
    /\ shown' = Drawn(replies[i])
    /\ timers' = timers + 1

\* The exception leaves the callback before setTimeout.
DrawThrows(i) ==
    /\ Receive(i)
    /\ ~Drawable(replies[i])
    /\ UNCHANGED <<shown, timers>>

\* The timer, interval_time later; how long that is makes no difference here.
Fire ==
    /\ timers > 0
    /\ timers' = timers - 1 /\ requests' = requests + 1
    /\ OnlyPage /\ UNCHANGED <<subs, reading, replies, conn, shown>>

Browser == Fire \/ \E i \in 1..Len(replies) : Draw(i) \/ DrawThrows(i)

Next == Sampling \/ OtherAsks \/ Server \/ Connect \/ Lose \/ Browser

\* The server's threads and the page's script go on while they can; nothing is
\* assumed of the samplers, whose command may hang, or of the user.
Fairness == WF_vars(Server) /\ WF_vars(Browser)

Spec == Init /\ [][Next]_vars /\ Fairness
-----------------------------------------------------------------------------
Data == Seq(Slot)
Length == 0..MaxMinutes
ListTypes ==
    /\ topic \in Topics /\ now \in Minute
    /\ array \in [Slots -> Slot] /\ size \in Length
    /\ writer \in [Writers -> [pc : {"idle", "start", "pull", "grow", "store"},
                               at : Length, date : Slot]]
    /\ clearing \in {"idle", "due", "nulled"} /\ damage \in {"none", "order", "torn", "healed"}
SocketTypes ==
    /\ subs \in {"none", "pending", "on"} /\ requests \in Nat
    /\ others \in 0..MaxOthers /\ strange \in 0..others
    /\ reading \in [Handlers -> [for : {"nobody", "page", "other"}, len : Length, got : Data]]
    /\ replies \in Seq(Data)
PageTypes ==
    /\ conn \in {"none", "open", "lost"} /\ timers \in Nat
    /\ shown \in [DOMAIN charts(topic) -> Data]

\* The variables stay in their ranges: no save runs off the array, and a handler
\* never has more elements than it set out to read.
TypeOK == /\ ListTypes /\ SocketTypes /\ PageTypes
          /\ \A h \in Handlers : Len(reading[h].got) <= reading[h].len

Ascending(data) == \A i, j \in 1..Len(data) : i <= j => data[i] <= data[j]

\* The list is full of samples except for the slot of the save under way and while
\* it is being cleared -- unless a save has overlapped another save or a clear, and
\* then until the next clear nobody disturbs.  The samples are in the order of their
\* dates, too, unless one has overtaken another, which the date GcService takes anew
\* rules out for its list.
ListSound ==
    (damage # "torn" /\ clearing # "nulled") =>
        LET pending == {writer[w].at : w \in {v \in Writers : writer[v].pc = "store"}} IN
        /\ \A i \in (1..size) \ pending : array[i] # Null
        /\ (topic = "gc" \/ damage # "order") =>
               \A i, j \in (1..size) \ pending : i <= j => array[i] <= array[j]

\* What the list holds besides the slot of a save under way.
Stored == IF \E w \in Writers : writer[w].pc = "store" THEN size - 1 ELSE size
Logged == IF damage = "torn" \/ clearing = "nulled" THEN <<>> ELSE SubSeq(array, 1, Stored)
Saved == [w \in Writers |-> IF Saving(w) THEN writer[w].date ELSE Null]

\* An ArrayList two tasks add to and a third clears, without a lock, is a log all
\* the same while one comes after the other: every save adds its sample, once, at
\* the end, a clear leaves nothing, and no sample already there is lost or changed
\* in between -- nor after an overlap, once a clear has come that met no save.
Log == INSTANCE SampleLog WITH log <- Logged, saving <- Saved, sound <- damage # "torn",
                               Sample <- Minute, None <- Null
ImplementsLog == Log!Spec

\* What a page shows is in the order of time, although each answer was read
\* element by element from a list that grew or was cleared meanwhile, as long as
\* no save has overlapped another or a clear and none has overtaken another.
ShownInOrder ==
    damage = "none" => \A c \in DOMAIN shown : Ascending(shown[c])

\* Labels that are not the name of the column.
Stands(c, label) ==
    CASE c = "classt" -> "LoadTime"
      [] c = "comt" -> "CompileTime"
      [] c = "combyte" -> IF label = "Loaded" THEN "LoadedBytes" ELSE "UnloadedBytes"
      [] OTHER -> LET alias == [SOC |-> "S0C", SOU |-> "S0U", UnLoaded |-> "Unloaded",
                                Total |-> "nid", Waiting |-> "WAITING",
                                Runnable |-> "RUNNABLE", Sleeping |-> "TIMED_WAITING"]
                  IN IF label \in DOMAIN alias THEN alias[label] ELSE label

\* Once something is shown, each line of each chart shows the quantity its label
\* names, in the unit of the chart's title: the order of the tool's columns, the
\* numbers in pullGc, the names JSON gives the getters and those in fourteen
\* scripts agree.
ChartsTrue ==
    \A c \in DOMAIN shown :
        LET it == charts(topic)[c] IN
        shown[c] # <<>> =>
            \A label \in DOMAIN it.lines :
                /\ it.lines[label] \in DOMAIN sample(topic)
                /\ sample(topic)[it.lines[label]] = value(Stands(c, label), it.unit)

\* The page has one request, answer or timer under way, and one more for each
\* request of others at most: alone it does ask at the frequency that is set.
OneLoop == Loops <= 1 + others

\* The loop of a page ends only when its connection is lost, when the first answer
\* came before the subscription, when the reading for it met a clear, or on an
\* answer that cannot be drawn.
LoopEndsForReason ==
    [][(Loops > 0 /\ Loops' = 0) =>
           \/ conn' = "lost"
           \/ subs = "pending"
           \/ \E h \in Serving("page") : size < reading[h].len
           \/ \E i \in 1..Len(replies) : ~Drawable(replies[i])]_vars

\* A page that has asked is answered and has its next timer, or its loop has ended
\* for one of the reasons above.
Answered == Loops > 0 ~> (timers > 0 \/ Loops = 0)

\* What the page tells the user, that the charts are refreshed at the frequency
\* set: every answer an open page gets leads to the next request.
AnswerKeepsPolling ==
    [][(conn' = "open" /\ Len(replies') < Len(replies)) => timers' > timers]_vars
=============================================================================
