----------------------------- MODULE ConfigStore -----------------------------
(***************************************************************************)
(* The configuration: two tables in the database, the two lists of objects *)
(* SocketConfigProperties holds for the forwarder, the thread that runs    *)
(* SocketServer.start and takes the lists over from the database, and the  *)
(* requests of the web interface (SocketController), each of which writes  *)
(* the database, or an object of the list and then the database, and loads *)
(* both lists again.  A database call is one step; nothing is locked       *)
(* between two of them.                                                    *)
(*                                                                         *)
(* A list the database returns is a new object: "heap" is the lists in     *)
(* memory by number, and a change to an entry shows wherever its list is   *)
(* held.                                                                   *)
(*                                                                         *)
(* Definitions marked "deviation" are faulty variants of the definition    *)
(* after them; no behaviour of Spec uses one.                              *)
(***************************************************************************)
EXTENDS Naturals, Sequences, FiniteSets

CONSTANTS Threads,      \* the web server's threads
          Names,        \* Names[t]: service names, addresses of the white list
          Targets,      \* Targets[t]: what else an entry says, target IP and port, notes
          Defaults,     \* Defaults[t]: the entries application.yml has
          Requests,     \* what pages may send
          MaxId,        \* bound: ids a table gives out
          MaxRequests,  \* bound: requests
          MaxCrashes    \* bound: times the process dies

Table == {"mapping", "ip"}

\* id 0: an object not (yet) known to the database.  A white list entry has no
\* enable; here it is always TRUE.
Entry(t) == [id : 0..MaxId, name : Names[t], target : Targets[t], enable : BOOLEAN]

entry(i, n, a, e) == [id |-> i, name |-> n, target |-> a, enable |-> e]
request(kind, t, e) == [kind |-> kind, table |-> t, entry |-> e]

\* get-config and get-ip-white-list are one request here; a delete names one id;
\* a "set" is start-forward or stop-forward, by the enable it carries.
Request ==
    {request("get", "mapping", e) : e \in Entry("mapping")}
    \cup (UNION {{request(kind, t, e) : kind \in {"add", "delete", "update"},
                                       e \in {d \in Entry(t) : d.enable}} : t \in Table})
    \cup {request("set", "mapping", e) : e \in Entry("mapping")}

ASSUME ThreadsAssumption == IsFiniteSet(Threads)
ASSUME DefaultsAssumption ==
    \A t \in Table : /\ \A e \in Defaults[t] : e \in Entry(t) /\ e.id = 0
                     /\ \A d, e \in Defaults[t] : d.name = e.name => d = e
                     /\ IsFiniteSet(Defaults[t]) /\ Cardinality(Defaults[t]) <= MaxId
ASSUME RequestsAssumption == Requests \subseteq Request
ASSUME BoundsAssumption == {MaxId, MaxRequests, MaxCrashes} \subseteq Nat

\* At most one per table, one per thread, and one for start() are held at once.
ListNumber == 1..(Cardinality(Threads) + 4)

VARIABLES
  db,        \* db[t]: the rows of table t
  lastId,    \* lastId[t]: the highest id it has given out
  heap,      \* the lists of entries in memory
  cache,     \* cache[t]: the list SocketConfigProperties holds
  starting,  \* start(): <<stage, table>>
  found,     \* the list start() has got and still needs, 0 for none
  pc,        \* pc[th]: the next step of the request th serves
  req,       \* req[th]: that request
  held,      \* held[th]: the list it has got and still needs, 0 for none
  known,     \* the mapping list in place has come from the database
  requests, crashes,
  quiet      \* history: "yes" while requests have come one after another and
             \* after start(); "no" from the first that overlaps another or
             \* start(); "blind" from the first start- or stop-forward that comes
             \* alone, on the defaults start() has just saved (their ids in memory
             \* may be wrong or missing); after either, "loading" in a load
             \* nothing disturbs, "again" after it

dbVars == <<db, lastId>>
requestVars == <<pc, req, held, known, requests, quiet>>
startVars == <<starting, found, crashes>>
vars == <<db, lastId, heap, cache, starting, found, pc, req, held, known,
          requests, crashes, quiet>>

\* All of es with the ids after last, in the order they have in the list.
Numbered(es, last) ==
    LET place == CHOOSE f \in [es -> 1..Cardinality(es)] :
                   \A d, e \in es : f[d] = f[e] => d = e
    IN  {[e EXCEPT !.id = last + place[e]] : e \in es}

\* PortMapperAddress.equals: the names and targets, not the ids.
Same(d, e) == d.name = e.name /\ d.target = e.target
NoEntry == CHOOSE e \in Defaults["mapping"] : TRUE
NoRequest == request("get", "mapping", NoEntry)

\* The process has just started; the database is new, or holds the defaults.
Init == /\ \/ db = [t \in Table |-> {}] /\ lastId = [t \in Table |-> 0]
           \/ /\ lastId = [t \in Table |-> Cardinality(Defaults[t])]
              /\ db = [t \in Table |-> Numbered(Defaults[t], 0)]
        /\ heap = <<Defaults["mapping"], Defaults["ip"]>>
        /\ cache = [t \in Table |-> IF t = "mapping" THEN 1 ELSE 2]
        /\ starting = <<"list", "mapping">> /\ found = 0
        /\ pc = [th \in Threads |-> "idle"]
        /\ req = [th \in Threads |-> NoRequest]
        /\ held = [th \in Threads |-> 0]
        /\ known = FALSE
        /\ requests = 0 /\ crashes = 0 /\ quiet = "yes"

-----------------------------------------------------------------------------
(* The database (external): an id of its own for every row, no two rows of *)
(* one name.                                                               *)

Taken(t, name, others) == \E e \in db[t] \ others : e.name = name
RowWith(t, id) == {e \in db[t] : e.id = id}

\* updateById: the row of that id, if there is one, becomes e.  (It would leave
\* alone a column whose field is null; the controller refuses forms with an empty
\* name or target, and enable is always set.)
Replaced(t, e) ==
    IF RowWith(t, e.id) = {} THEN db
    ELSE [db EXCEPT ![t] = (@ \ RowWith(t, e.id)) \cup {e}]
Refuses(t, e) == RowWith(t, e.id) # {} /\ Taken(t, e.name, RowWith(t, e.id))

\* list(): a new list in memory.  Lists nobody holds are gone.
InUse == {cache[t] : t \in Table} \cup (({found} \cup {held[th] : th \in Threads}) \ {0})
NewList == CHOOSE n \in ListNumber : n \notin InUse
Listed(t) == heap' = [n \in InUse \cup {NewList} |-> IF n = NewList THEN db[t] ELSE heap[n]]

-----------------------------------------------------------------------------
(* start(), table by table, before the port is opened. *)

StartGoes(stage) == starting' = <<stage, starting[2]>>
NextTable == starting' = IF starting[2] = "mapping" THEN <<"list", "ip">> ELSE <<"up", "ip">>

\* (deviation: the test for an empty table the wrong way round)
StartListInverted ==
    /\ starting[1] = "list"
    /\ IF db[starting[2]] = {}
       THEN StartGoes("set") /\ UNCHANGED <<heap, found>>
       ELSE StartGoes("save") /\ Listed(starting[2]) /\ found' = NewList
    /\ UNCHANGED <<db, lastId, cache, requestVars, crashes>>

StartList ==
    /\ starting[1] = "list"
    /\ IF db[starting[2]] = {}
       THEN StartGoes("save") /\ UNCHANGED <<heap, found>>
       ELSE StartGoes("set") /\ Listed(starting[2]) /\ found' = NewList
    /\ UNCHANGED <<db, lastId, cache, requestVars, crashes>>

StartSet ==
    /\ starting[1] = "set"
    /\ cache' = [cache EXCEPT ![starting[2]] = found]
    /\ known' = (known \/ starting[2] = "mapping")
    /\ found' = 0
    /\ NextTable
    /\ UNCHANGED <<dbVars, heap, pc, req, held, requests, quiet, crashes>>

\* saveBatch of the list held now, in one transaction.  Which of the new ids the
\* driver hands back to the objects of a batch is its own affair.
StartSave ==
    LET t == starting[2]
        es == heap[cache[t]] IN
    /\ starting[1] = "save"
    /\ lastId[t] + Cardinality(es) <= MaxId
    /\ ~\E e \in es : Taken(t, e.name, {})
    /\ db' = [db EXCEPT ![t] = @ \cup Numbered(es, lastId[t])]
    /\ lastId' = [lastId EXCEPT ![t] = @ + Cardinality(es)]
    /\ \E ids \in [es -> {0} \cup {lastId[t] + j : j \in 1..Cardinality(es)}] :
         heap' = [heap EXCEPT ![cache[t]] = {[e EXCEPT !.id = ids[e]] : e \in es}]
    /\ NextTable
    /\ UNCHANGED <<cache, found, requestVars, crashes>>

\* A name taken meanwhile: the exception ends the thread, the port stays closed.
StartThrows ==
    /\ starting[1] = "save"
    /\ \E e \in heap[cache[starting[2]]] : Taken(starting[2], e.name, {})
    /\ StartGoes("dead")
    /\ UNCHANGED <<db, lastId, heap, cache, found, requestVars, crashes>>

Start == StartList \/ StartSet \/ StartSave \/ StartThrows

-----------------------------------------------------------------------------
(* Requests. *)

Idle == \A th \in Threads : pc[th] = "idle"
Started == starting[1] = "up"

FirstStep(kind) == CASE kind = "get" -> "list"
                     [] kind \in {"add", "update"} -> "count"
                     [] kind = "delete" -> "write"
                     [] kind = "set" -> "find"

\* The thread goes on with its request, or has answered it.
Goes(th, from, to) == pc[th] = from /\ pc' = [pc EXCEPT ![th] = to] /\ UNCHANGED req
Answers(th, from) == /\ pc[th] = from /\ pc' = [pc EXCEPT ![th] = "idle"]
                     /\ req' = [req EXCEPT ![th] = NoRequest]
Holds(th, list) == held' = [held EXCEPT ![th] = list]

otherVars == <<startVars, known, requests>>

Receive(th, r) ==
    /\ pc[th] = "idle" /\ pc' = [pc EXCEPT ![th] = FirstStep(r.kind)]
    /\ requests < MaxRequests /\ requests' = requests + 1
    /\ req' = [req EXCEPT ![th] = r]
    /\ quiet' = IF quiet = "no" \/ ~(Started /\ Idle) THEN "no"
                ELSE IF r.kind = "set" /\ ~known THEN "blind" ELSE quiet
    /\ UNCHANGED <<dbVars, heap, cache, startVars, held, known>>

\* The count of rows with the name, those of the entry's own id left out in an
\* update; the request is refused if there is one.
Counted(r) == Taken(r.table, r.entry.name,
                    IF r.kind = "update" THEN RowWith(r.table, r.entry.id) ELSE {})

\* (deviation: the names counted for a new entry only)
CountAddOnly(th) ==
    LET r == req[th] IN
    /\ IF r.kind = "add" /\ Counted(r) THEN Answers(th, "count") ELSE Goes(th, "count", "write")
    /\ UNCHANGED <<dbVars, heap, cache, held, quiet, otherVars>>

Count(th) ==
    /\ IF Counted(req[th]) THEN Answers(th, "count") ELSE Goes(th, "count", "write")
    /\ UNCHANGED <<dbVars, heap, cache, held, quiet, otherVars>>

Writes(th, kind) == /\ req[th].kind = kind /\ Goes(th, "write", "list")
                    /\ UNCHANGED <<heap, cache, held, quiet, otherVars>>

Save(th) ==
    LET t == req[th].table IN
    /\ Writes(th, "add")
    /\ lastId[t] < MaxId
    /\ ~Taken(t, req[th].entry.name, {})
    /\ lastId' = [lastId EXCEPT ![t] = @ + 1]
    /\ db' = [db EXCEPT ![t] = @ \cup {[req[th].entry EXCEPT !.id = lastId[t] + 1]}]

RemoveByIds(th) ==
    /\ Writes(th, "delete")
    /\ db' = [db EXCEPT ![req[th].table] = @ \ RowWith(req[th].table, req[th].entry.id)]
    /\ UNCHANGED lastId

\* The controller has set enable.
UpdateById(th) ==
    /\ Writes(th, "update")
    /\ ~Refuses(req[th].table, req[th].entry)
    /\ db' = Replaced(req[th].table, req[th].entry)
    /\ UNCHANGED lastId

\* The unique index refuses what the count let pass.
WriteThrows(th) ==
    LET r == req[th] IN
    /\ Answers(th, "write")
    /\ \/ r.kind = "add" /\ Taken(r.table, r.entry.name, {})
       \/ r.kind = "update" /\ Refuses(r.table, r.entry)
    /\ UNCHANGED <<dbVars, heap, cache, held, quiet, otherVars>>

\* setForward.
Meant(th, list) == {e \in heap[list] : Same(req[th].entry, e)}
Marked(th) == {IF Same(req[th].entry, e) THEN [e EXCEPT !.enable = req[th].entry.enable] ELSE e :
                 e \in heap[held[th]]}

\* The loop over the list in place now, to the entry that equals the request's.
\* Nothing equal: nothing is done, and the answer is the same.
Find(th) ==
    /\ IF Meant(th, cache["mapping"]) = {}
       THEN Answers(th, "find") /\ UNCHANGED held
       ELSE Goes(th, "find", "mark") /\ Holds(th, cache["mapping"])
    /\ UNCHANGED <<dbVars, heap, cache, quiet, otherVars>>

\* (deviation: enable left as it was)
MarkNothing(th) ==
    /\ Goes(th, "mark", "store")
    /\ UNCHANGED <<dbVars, heap, cache, held, quiet, otherVars>>

Mark(th) ==
    /\ Goes(th, "mark", "store")
    /\ heap' = [heap EXCEPT ![held[th]] = Marked(th)]
    /\ UNCHANGED <<dbVars, cache, held, quiet, otherVars>>

\* updateById of the whole entry as it is in memory, under the id it has there:
\* after saveBatch that may be 0, and no row is updated, or another's, and the
\* unique index refuses the name.
Store(th) ==
    /\ Goes(th, "store", "list")
    /\ \E e \in Meant(th, held[th]) : ~Refuses("mapping", e) /\ db' = Replaced("mapping", e)
    /\ Holds(th, 0)
    /\ UNCHANGED <<lastId, heap, cache, quiet, otherVars>>

StoreThrows(th) ==
    /\ Answers(th, "store")
    /\ \E e \in Meant(th, held[th]) : Refuses("mapping", e)
    /\ Holds(th, 0)
    /\ UNCHANGED <<dbVars, heap, cache, quiet, otherVars>>

\* loadData: both tables, read and put in place one after the other.
List(th) ==
    /\ Goes(th, "list", "set")
    /\ Listed("mapping") /\ Holds(th, NewList)
    /\ quiet' = IF quiet \in {"no", "blind"} /\ Started /\ \A o \in Threads \ {th} : pc[o] = "idle"
                THEN "loading" ELSE quiet
    /\ UNCHANGED <<dbVars, cache, otherVars>>

\* (deviation: the list not put in place)
SetMappingNot(th) ==
    /\ Goes(th, "set", "listIp")
    /\ Holds(th, 0)
    /\ UNCHANGED <<dbVars, heap, cache, quiet, otherVars>>

SetMapping(th) ==
    /\ Goes(th, "set", "listIp")
    /\ cache' = [cache EXCEPT !["mapping"] = held[th]]
    /\ known' = TRUE
    /\ Holds(th, 0)
    /\ UNCHANGED <<dbVars, heap, quiet, startVars, requests>>

ListIp(th) ==
    /\ Goes(th, "listIp", "setIp")
    /\ Listed("ip") /\ Holds(th, NewList)
    /\ UNCHANGED <<dbVars, cache, quiet, otherVars>>

\* After setForward's own loadData its loop goes on over the old list, in which
\* no other entry is equal.
SetIp(th) ==
    /\ Answers(th, "setIp")
    /\ cache' = [cache EXCEPT !["ip"] = held[th]]
    /\ Holds(th, 0)
    /\ quiet' = IF quiet = "loading" THEN "again" ELSE quiet
    /\ UNCHANGED <<dbVars, heap, otherVars>>

Serve(th) == \/ Count(th) \/ Save(th) \/ RemoveByIds(th) \/ UpdateById(th) \/ WriteThrows(th)
             \/ Find(th) \/ Mark(th) \/ Store(th) \/ StoreThrows(th)
             \/ List(th) \/ SetMapping(th) \/ ListIp(th) \/ SetIp(th)

\* run() after the process has died, between any two steps.
Restart ==
    /\ crashes < MaxCrashes /\ crashes' = crashes + 1
    /\ heap' = <<Defaults["mapping"], Defaults["ip"]>>
    /\ cache' = [t \in Table |-> IF t = "mapping" THEN 1 ELSE 2]
    /\ starting' = <<"list", "mapping">> /\ found' = 0
    /\ pc' = [th \in Threads |-> "idle"]
    /\ req' = [th \in Threads |-> NoRequest]
    /\ held' = [th \in Threads |-> 0]
    /\ known' = FALSE
    /\ quiet' = "yes"
    /\ UNCHANGED <<db, lastId, requests>>

Next == \/ Start
        \/ \E th \in Threads : Serve(th) \/ \E r \in Requests : Receive(th, r)
        \/ Restart

Spec == Init /\ [][Next]_vars
-----------------------------------------------------------------------------
\* The variables stay in their ranges.
TypeOK ==
    /\ DOMAIN db = Table /\ \A t \in Table : db[t] \subseteq Entry(t)
    /\ lastId \in [Table -> 0..MaxId]
    /\ \A t \in Table : \A e \in db[t] : e.id \in 1..lastId[t]
    /\ DOMAIN heap \subseteq ListNumber /\ InUse \subseteq DOMAIN heap
    /\ \A n \in DOMAIN heap : heap[n] \subseteq Entry("mapping") \cup Entry("ip")
    /\ cache \in [Table -> ListNumber]
    /\ starting \in {"list", "save", "set", "up", "dead"} \X Table
    /\ found \in {0} \cup ListNumber
    /\ pc \in [Threads -> {"idle", "count", "write", "find", "mark", "store",
                           "list", "set", "listIp", "setIp"}]
    /\ \A th \in Threads : req[th].table \in Table
    /\ held \in [Threads -> {0} \cup ListNumber]
    /\ known \in BOOLEAN /\ quiet \in {"yes", "no", "blind", "loading", "again"}
    /\ requests \in 0..MaxRequests /\ crashes \in 0..MaxCrashes

\* What an entry says, its id aside.
Said(es) == {<<e.name, e.target, e.enable>> : e \in es}

Fresh == \A t \in Table : Said(heap[cache[t]]) = Said(db[t])

\* When nothing is under way, and every request came after the one before had
\* been answered, the lists the forwarder works from say what the database says
\* -- a request refused, a crash between a write and the load after it, a first
\* start or another, in any sequence.  Not claimed of a start-forward or
\* stop-forward that comes between a first start and the first load ("blind"):
\* it marks the object, and when its id is another's the row is not written and
\* no load follows.
CacheFresh == (Started /\ Idle /\ quiet = "yes") => Fresh

\* When requests have overlapped, with each other or with start(), or one has
\* marked an object and failed to store it, one load that nothing disturbs -- a
\* page loaded, a change made -- repairs the lists.
Repaired == (Started /\ Idle /\ quiet = "again") => Fresh

\* What the rows or the list es of its table say once such a request is done.
Done(r, es) ==
    /\ r.kind \in {"add", "set"} => <<r.entry.name, r.entry.target, r.entry.enable>> \in Said(es)
    /\ r.kind = "delete" => \A e \in es : e.id # r.entry.id
    /\ r.kind = "update" => \A e \in es : e.id = r.entry.id => e = r.entry

\* Whoever is answered, when nothing has overlapped, finds the change in use: an
\* added entry is in the list the forwarder works from, a deleted one is not, an
\* updated one is as it was sent, one that was started or stopped is there and on
\* or off -- although each request writes one table, a reload of both stands
\* between the write and the answer, and what is in use is neither the row nor the
\* object the request has written.  (Not claimed of a start-forward or stop-forward
\* that is "blind": without an id it updates no row, and is answered all the same.)
ChangeObeyed ==
    [][\A th \in Threads :
         (quiet \in {"yes", "again"} /\ pc[th] = "setIp" /\ pc'[th] = "idle" /\ crashes' = crashes) =>
         Done(req[th], heap'[cache'[req[th].table]])]_vars

\* The count before a write and the entry found in memory are enough: a request
\* that ends in the exception of the unique index has overlapped another, or is a
\* start-forward or stop-forward that is "blind", or follows such.
CountSuffices ==
    [][\A th \in Threads :
         (pc[th] \in {"write", "store"} /\ pc'[th] = "idle" /\ crashes' = crashes) =>
         quiet \in {"no", "blind"}]_vars

\* What the comment on setForward says: it sets whether an entry is forwarded,
\* and so leaves every row its name and target.
ForwardKeepsRow ==
    [][\A th \in Threads : (pc[th] = "store" /\ pc'[th] = "list") =>
         {<<e.id, e.name, e.target>> : e \in db'["mapping"]} =
         {<<e.id, e.name, e.target>> : e \in db["mapping"]}]_vars

\* What application.yml says: once started, everything uses the data of the
\* database.  (Asked only of lists that have come from it, so that the ids a
\* driver hands back after saveBatch do not matter.)
DatabaseInUse == (Started /\ Idle /\ known) => Fresh
=============================================================================
