-------------------------- MODULE ConfigStore_proof --------------------------
(***************************************************************************)
(* The configuration, for any threads, entries, requests and bounds.       *)
(*                                                                         *)
(* First what is true whatever overlaps: the rows of a table differ in id  *)
(* and name, every list somebody still needs is there and is a list of its *)
(* table, and a request is at a step of its own kind.  On this rests, as   *)
(* long as nothing has overlapped ("calm"), what each step of the one      *)
(* request, or of start(), knows of the database and of the lists.         *)
(***************************************************************************)
EXTENDS ConfigStore, FiniteSetTheorems, FunctionTheorems, TLAPS

Distinct(es) == \A d, e \in es : d.name = e.name => d = e
ListOf(t, es) == es \subseteq Entry(t) /\ Distinct(es) /\ IsFiniteSet(es)

RowsOf(t, rows, last) == /\ ListOf(t, rows)
                         /\ \A e \in rows : e.id \in 1..last
                         /\ \A d, e \in rows : d.id = e.id => d = e
RowsOK == /\ db = [t \in Table |-> db[t]] /\ lastId \in [Table -> 0..MaxId]
          /\ \A t \in Table : RowsOf(t, db[t], lastId[t])

HeapOK == /\ DOMAIN heap \subseteq ListNumber /\ InUse \subseteq DOMAIN heap
          /\ \A n \in DOMAIN heap : heap[n] \subseteq Entry("mapping") \cup Entry("ip")

Stages == {"list", "save", "set", "up", "dead"}
Steps == {"idle", "count", "write", "find", "mark", "store", "list", "set", "listIp", "setIp"}
ControlOK == /\ cache \in [Table -> ListNumber]
             /\ starting \in Stages \X Table
             /\ found \in {0} \cup ListNumber
             /\ pc \in [Threads -> Steps]
             /\ req = [th \in Threads |-> req[th]] /\ \A th \in Threads : req[th].table \in Table
             /\ held \in [Threads -> {0} \cup ListNumber]
             /\ known \in BOOLEAN /\ quiet \in {"yes", "no", "blind", "loading", "again"}
             /\ requests \in 0..MaxRequests /\ crashes \in 0..MaxCrashes

ListsOK ==
    /\ \A t \in Table : ListOf(t, heap[cache[t]])
    /\ starting[1] = "set" <=> found # 0
    /\ found # 0 => ListOf(starting[2], heap[found])
    /\ \A th \in Threads :
          /\ pc[th] \in {"mark", "store", "set"} =>
                held[th] # 0 /\ ListOf("mapping", heap[held[th]])
          /\ pc[th] = "setIp" => held[th] # 0 /\ ListOf("ip", heap[held[th]])

RequestsOK ==
    \A th \in Threads :
        /\ pc[th] # "idle" => req[th] \in Request
        /\ pc[th] \in {"count", "write"} => req[th].kind \in {"add", "delete", "update"}
        /\ pc[th] \in {"find", "mark", "store"} => req[th].kind = "set"

Sound == RowsOK /\ HeapOK /\ ControlOK /\ ListsOK /\ RequestsOK

\* Nothing has overlapped or been marked blindly, or a load nothing disturbs has
\* begun since.
Calm == quiet \notin {"no", "blind"}

\* The mapping list in place is the one the database returned.
Loaded == heap[cache["mapping"]] = db["mapping"]
Current == Fresh /\ (known => Loaded)

\* What start() knows, table by table.
StartKnows ==
    /\ Idle
    /\ cache["mapping"] # cache["ip"]
    /\ starting[2] = "mapping" => ~known
    /\ starting[2] = "ip" => /\ Said(heap[cache["mapping"]]) = Said(db["mapping"])
                             /\ known => Loaded
    /\ starting[1] = "set" => /\ heap[found] = db[starting[2]]
                              /\ \A t \in Table : found # cache[t]
    /\ starting[1] = "save" => db[starting[2]] = {}

MarkOf(r, e) == IF Same(r.entry, e) THEN [e EXCEPT !.enable = r.entry.enable] ELSE e
MarkedBy(r, es) == {MarkOf(r, e) : e \in es}

\* The rows are as the request asked.
Obeyed(r) == Done(r, db[r.table])

\* What the one request knows at each of its steps.
RequestKnows(th) ==
    /\ pc[th] = "count" => Current
    /\ pc[th] = "write" => Current /\ (req[th].kind # "delete" => ~Counted(req[th]))
    /\ pc[th] \in {"find", "mark"} => Current /\ known
    /\ pc[th] \in {"mark", "store"} => held[th] = cache["mapping"]
    /\ pc[th] = "store" => heap[held[th]] = MarkedBy(req[th], db["mapping"])
    /\ pc[th] = "set" => heap[held[th]] = db["mapping"]
    /\ pc[th] \in {"listIp", "setIp"} => known /\ Loaded
    /\ pc[th] = "setIp" => heap[held[th]] = db["ip"]
    /\ (pc[th] \in {"list", "set", "listIp", "setIp"} /\ quiet # "loading") => Obeyed(req[th])

Loads(th) == pc[th] \in {"set", "listIp", "setIp"}

CalmKnows ==
    Calm => /\ \A o, th \in Threads : pc[o] # "idle" /\ pc[th] # "idle" => o = th
            /\ ~Started => StartKnows
            /\ Started /\ Idle => Current
            /\ \A th \in Threads : RequestKnows(th)
            /\ quiet = "loading" => \E th \in Threads : Loads(th)

ConfigInv == Sound /\ CalmKnows

-----------------------------------------------------------------------------
(* Entries and lists of entries. *)

LEMMA NewId ==
    ASSUME NEW t \in Table, NEW e \in Entry(t), NEW i \in 0..MaxId
    PROVE  /\ [e EXCEPT !.id = i] \in Entry(t)
           /\ [e EXCEPT !.id = i].id = i
           /\ [e EXCEPT !.id = i].name = e.name
           /\ [e EXCEPT !.id = i].target = e.target
           /\ [e EXCEPT !.id = i].enable = e.enable
  BY DEF Entry

LEMMA NewEnable ==
    ASSUME NEW t \in Table, NEW e \in Entry(t), NEW b \in BOOLEAN
    PROVE  /\ [e EXCEPT !.enable = b] \in Entry(t)
           /\ [e EXCEPT !.enable = b].id = e.id
           /\ [e EXCEPT !.enable = b].name = e.name
           /\ [e EXCEPT !.enable = b].target = e.target
           /\ [e EXCEPT !.enable = b].enable = b
  BY DEF Entry

LEMMA ImageFinite ==
    ASSUME NEW S, NEW T, NEW f \in [S -> T], IsFiniteSet(S), \A y \in T : \E x \in S : f[x] = y
    PROVE  IsFiniteSet(T) /\ Cardinality(T) <= Cardinality(S)
<1>1. f \in Surjection(S, T)
  BY Fun_IsSurj
<1> QED  BY <1>1, FS_Surjection

WithIds(es, ids) == {[e EXCEPT !.id = ids[e]] : e \in es}

\* A list with other ids is still a list, and says the same.
LEMMA Renumber ==
    ASSUME NEW t \in Table, NEW es, ListOf(t, es), NEW ids, \A e \in es : ids[e] \in 0..MaxId
    PROVE  ListOf(t, WithIds(es, ids)) /\ Said(WithIds(es, ids)) = Said(es)
<1> DEFINE image(e) == [e EXCEPT !.id = ids[e]]
           fs == {image(e) : e \in es}
<1>1. \A e \in es : /\ image(e) \in Entry(t) /\ image(e).name = e.name
                    /\ image(e).target = e.target /\ image(e).enable = e.enable
  <2> SUFFICES ASSUME NEW e \in es
               PROVE  /\ image(e) \in Entry(t) /\ image(e).name = e.name
                      /\ image(e).target = e.target /\ image(e).enable = e.enable
    OBVIOUS
  <2>1. e \in Entry(t) /\ ids[e] \in 0..MaxId
    BY DEF ListOf
  <2> QED  BY <2>1, NewId
<1>2. \A f \in fs : \E e \in es : f = image(e)
  OBVIOUS
<1>3. \A e \in es : image(e) \in fs
  OBVIOUS
<1>4. IsFiniteSet(fs)
  <2>1. [e \in es |-> image(e)] \in [es -> fs]
    BY <1>3
  <2>2. \A f \in fs : \E e \in es : [d \in es |-> image(d)][e] = f
    BY <1>2
  <2> HIDE DEF image, fs
  <2> QED  BY <2>1, <2>2, ImageFinite DEF ListOf
<1> HIDE DEF image, fs
<1>5. fs \subseteq Entry(t)
  BY <1>1, <1>2
<1>6. Distinct(fs)
  <2> SUFFICES ASSUME NEW f \in fs, NEW g \in fs, f.name = g.name PROVE f = g
    BY DEF Distinct
  <2>1. PICK d \in es : f = image(d)
    BY <1>2
  <2>2. PICK e \in es : g = image(e)
    BY <1>2
  <2>3. d = e
    BY <1>1, <2>1, <2>2 DEF ListOf, Distinct
  <2> QED  BY <2>1, <2>2, <2>3
<1>7. Said(fs) = Said(es)
  <2>1. \A f \in fs : \E e \in es : <<f.name, f.target, f.enable>> = <<e.name, e.target, e.enable>>
    BY <1>1, <1>2
  <2>2. \A e \in es : \E f \in fs : <<f.name, f.target, f.enable>> = <<e.name, e.target, e.enable>>
    BY <1>1, <1>3
  <2> QED  BY <2>1, <2>2 DEF Said
<1>8. fs = WithIds(es, ids)
  BY DEF WithIds, image, fs
<1> QED  BY <1>4, <1>5, <1>6, <1>7, <1>8 DEF ListOf

\* The rows a list makes: ids of their own, above those given out before.
LEMMA NumberedRows ==
    ASSUME NEW t \in Table, NEW es, ListOf(t, es), NEW last \in Nat,
           last + Cardinality(es) <= MaxId
    PROVE  /\ ListOf(t, Numbered(es, last))
           /\ Said(Numbered(es, last)) = Said(es)
           /\ \A e \in Numbered(es, last) :
                 e.id \in (last + 1)..(last + Cardinality(es)) /\ \E d \in es : d.name = e.name
           /\ \A d, e \in Numbered(es, last) : d.id = e.id => d = e
<1> DEFINE N == Cardinality(es)
           place == CHOOSE f \in [es -> 1..N] : \A d, e \in es : f[d] = f[e] => d = e
           ids == [e \in es |-> last + place[e]]
           image(e) == [e EXCEPT !.id = ids[e]]
<1>1. N \in Nat /\ \E f \in [es -> 1..N] : \A d, e \in es : f[d] = f[e] => d = e
  <2>1. N \in Nat /\ ExistsBijection(1..N, es)
    BY FS_CardinalityType DEF ListOf
  <2>2. ExistsBijection(es, 1..N)
    BY <2>1, Fun_ExistsBijSymmetric
  <2>3. PICK f \in Bijection(es, 1..N) : TRUE
    BY <2>2, Fun_ExistsBij
  <2>4. f \in [es -> 1..N] /\ \A d, e \in es : f[d] = f[e] => d = e
    BY <2>3, Fun_BijectionProperties
  <2> QED  BY <2>1, <2>4
<1>2. place \in [es -> 1..N] /\ \A d, e \in es : place[d] = place[e] => d = e
  BY <1>1
<1>3. Numbered(es, last) = {image(e) : e \in es}
  <2>1. Numbered(es, last) = {[e EXCEPT !.id = last + place[e]] : e \in es}
    BY DEF Numbered
  <2> HIDE DEF place
  <2> QED  BY <2>1
<1> HIDE DEF place
<1>4. \A e \in es : ids[e] \in (last + 1)..(last + N) /\ ids[e] \in 0..MaxId
  BY <1>1, <1>2, BoundsAssumption
<1>5. \A d, e \in es : ids[d] = ids[e] => d = e
  BY <1>1, <1>2
<1>6. ListOf(t, {image(e) : e \in es}) /\ Said({image(e) : e \in es}) = Said(es)
  <2>1. \A e \in es : ids[e] \in 0..MaxId
    BY <1>4
  <2> HIDE DEF ids
  <2>2. {image(e) : e \in es} = WithIds(es, ids)
    BY DEF WithIds
  <2> HIDE DEF image
  <2> QED  BY <2>1, <2>2, Renumber
<1>7. \A e \in es : image(e).id = ids[e] /\ image(e).name = e.name
  BY <1>4, NewId DEF ListOf
<1>8. \A f \in {image(e) : e \in es} : \E e \in es : f = image(e)
  OBVIOUS
<1> HIDE DEF ids, image
<1>9. \A f \in Numbered(es, last) :
         f.id \in (last + 1)..(last + N) /\ \E d \in es : d.name = f.name
  BY <1>3, <1>4, <1>7, <1>8
<1>10. \A f, g \in Numbered(es, last) : f.id = g.id => f = g
  BY <1>3, <1>5, <1>7, <1>8
<1> QED  BY <1>3, <1>6, <1>9, <1>10

\* Marking one entry keeps a list a list.
LEMMA MarkedList ==
    ASSUME NEW t \in Table, NEW es, ListOf(t, es), NEW r, r.entry.enable \in BOOLEAN
    PROVE  /\ ListOf(t, MarkedBy(r, es))
           /\ \A e \in es : /\ MarkOf(r, e).id = e.id /\ MarkOf(r, e).name = e.name
                            /\ MarkOf(r, e).target = e.target
                            /\ Same(r.entry, e) => MarkOf(r, e).enable = r.entry.enable
                            /\ MarkOf(r, e) \in Entry(t)
<1> DEFINE fs == {MarkOf(r, e) : e \in es}
<1>1. \A e \in es : /\ MarkOf(r, e).id = e.id /\ MarkOf(r, e).name = e.name
                    /\ MarkOf(r, e).target = e.target
                    /\ Same(r.entry, e) => MarkOf(r, e).enable = r.entry.enable
                    /\ MarkOf(r, e) \in Entry(t)
  <2> SUFFICES ASSUME NEW e \in es
               PROVE  /\ MarkOf(r, e).id = e.id /\ MarkOf(r, e).name = e.name
                      /\ MarkOf(r, e).target = e.target
                      /\ Same(r.entry, e) => MarkOf(r, e).enable = r.entry.enable
                      /\ MarkOf(r, e) \in Entry(t)
    OBVIOUS
  <2>1. e \in Entry(t)
    BY DEF ListOf
  <2> QED  BY <2>1, NewEnable DEF MarkOf
<1>2. \A f \in fs : \E e \in es : f = MarkOf(r, e)
  OBVIOUS
<1>3. \A e \in es : MarkOf(r, e) \in fs
  OBVIOUS
<1>4. IsFiniteSet(fs)
  <2>1. [e \in es |-> MarkOf(r, e)] \in [es -> fs]
    BY <1>3
  <2>2. \A f \in fs : \E e \in es : [d \in es |-> MarkOf(r, d)][e] = f
    BY <1>2
  <2> HIDE DEF fs
  <2> QED  BY <2>1, <2>2, ImageFinite DEF ListOf
<1> HIDE DEF fs
<1>5. Distinct(fs)
  <2> SUFFICES ASSUME NEW f \in fs, NEW g \in fs, f.name = g.name PROVE f = g
    BY DEF Distinct
  <2>1. PICK d \in es : f = MarkOf(r, d)
    BY <1>2
  <2>2. PICK e \in es : g = MarkOf(r, e)
    BY <1>2
  <2>3. d = e
    BY <1>1, <2>1, <2>2 DEF ListOf, Distinct
  <2> QED  BY <2>1, <2>2, <2>3
<1>6. fs = MarkedBy(r, es)
  BY DEF MarkedBy, fs
<1> QED  BY <1>1, <1>2, <1>4, <1>5, <1>6 DEF ListOf

LEMMA SoundTypes == Sound => TypeOK
  BY DEF Sound, RowsOK, RowsOf, ListOf, HeapOK, ControlOK, Stages, Steps, TypeOK

-----------------------------------------------------------------------------
(* The tables. *)

LEMMA RowsChange ==
    ASSUME RowsOK, NEW t \in Table, NEW rows, NEW last \in 0..MaxId, RowsOf(t, rows, last),
           db' = [db EXCEPT ![t] = rows], lastId' = [lastId EXCEPT ![t] = last]
    PROVE  RowsOK'
  BY DEF RowsOK

LEMMA RowsAdded ==
    ASSUME RowsOK, NEW t \in Table, NEW rows, NEW last \in lastId[t]..MaxId,
           ListOf(t, rows), \A e \in rows : e.id \in (lastId[t] + 1)..last /\ ~Taken(t, e.name, {}),
           \A d, e \in rows : d.id = e.id => d = e
    PROVE  RowsOf(t, db[t] \cup rows, last) /\ last \in 0..MaxId
<1>1. lastId[t] \in 0..MaxId /\ RowsOf(t, db[t], lastId[t])
  BY DEF RowsOK
<1>2. IsFiniteSet(db[t] \cup rows)
  BY <1>1, FS_Union DEF RowsOf, ListOf
<1>3. \A e \in db[t] \cup rows : e.id \in 1..last
  BY <1>1, BoundsAssumption DEF RowsOf
<1>4. \A d \in db[t], e \in rows : d.id # e.id /\ d.name # e.name
  BY <1>1, BoundsAssumption DEF RowsOf, Taken
<1>5. \A d, e \in db[t] \cup rows : d.name = e.name \/ d.id = e.id => d = e
  BY <1>1, <1>4 DEF RowsOf, ListOf, Distinct
<1> QED
  BY <1>1, <1>2, <1>3, <1>5, BoundsAssumption DEF RowsOf, ListOf, Distinct

LEMMA RowsFewer ==
    ASSUME NEW t \in Table, NEW rows, NEW last, RowsOf(t, rows, last), NEW fewer \in SUBSET rows
    PROVE  RowsOf(t, fewer, last)
  BY FS_Subset DEF RowsOf, ListOf, Distinct

\* The row that is replaced keeps its id, and takes nobody's name.
LEMMA RowsReplaced ==
    ASSUME RowsOK, NEW t \in Table, NEW e \in Entry(t), ~Refuses(t, e)
    PROVE  RowsOf(t, Replaced(t, e)[t], lastId[t]) /\ Replaced(t, e) = [db EXCEPT ![t] = Replaced(t, e)[t]]
<1>1. lastId[t] \in 0..MaxId /\ RowsOf(t, db[t], lastId[t]) /\ db = [u \in Table |-> db[u]]
  BY DEF RowsOK
<1>2. CASE RowWith(t, e.id) = {}
  <2>1. Replaced(t, e) = db
    BY <1>2 DEF Replaced
  <2>2. db = [db EXCEPT ![t] = db[t]]
    BY <1>1
  <2> QED  BY <1>1, <2>1, <2>2
<1>3. CASE RowWith(t, e.id) # {}
  <2> DEFINE others == db[t] \ RowWith(t, e.id)
  <2>1. Replaced(t, e) = [db EXCEPT ![t] = others \cup {e}]
    BY <1>3 DEF Replaced
  <2>2. Replaced(t, e)[t] = others \cup {e}
    BY <1>1, <2>1
  <2>3. RowsOf(t, others, lastId[t])
    BY <1>1, RowsFewer
  <2>4. e.id \in 1..lastId[t]
    BY <1>1, <1>3 DEF RowsOf, RowWith
  <2>5. \A d \in others : d.id # e.id /\ d.name # e.name
    BY <1>3 DEF Refuses, Taken, RowWith
  <2>6. IsFiniteSet(others \cup {e})
    BY <2>3, FS_AddElement DEF RowsOf, ListOf
  <2> HIDE DEF others
  <2>7. RowsOf(t, others \cup {e}, lastId[t])
    BY <2>3, <2>4, <2>5, <2>6 DEF RowsOf, ListOf, Distinct
  <2> QED  BY <2>1, <2>2, <2>7
<1> QED  BY <1>2, <1>3

-----------------------------------------------------------------------------
(* The lists in memory. *)

LEMMA InUseOf ==
    /\ \A t \in Table : cache[t] \in InUse
    /\ found # 0 => found \in InUse
    /\ \A th \in Threads : held[th] # 0 => held[th] \in InUse
  BY DEF InUse

LEMMA InUseNext ==
    ASSUME NEW S, \A t \in Table : cache'[t] \in S, found' \in S \cup {0},
           \A th \in Threads : held'[th] \in S \cup {0}
    PROVE  InUse' \subseteq S
  BY DEF InUse

LEMMA OneMore ==
    ASSUME NEW S, IsFiniteSet(S), NEW x
    PROVE  /\ IsFiniteSet(S \cup {x})
           /\ Cardinality(S \cup {x}) \in Nat
           /\ Cardinality(S \cup {x}) <= Cardinality(S) + 1
<1>1. Cardinality(S) \in Nat /\ IsFiniteSet(S \cup {x}) /\ Cardinality(S \cup {x}) \in Nat
  BY FS_AddElement, FS_CardinalityType
<1>2. Cardinality(S \cup {x}) = IF x \in S THEN Cardinality(S) ELSE Cardinality(S) + 1
  BY FS_AddElement
<1> QED  BY <1>1, <1>2

\* There is always a free number.
LEMMA FreeNumber ==
    ASSUME ControlOK
    PROVE  NewList \in ListNumber /\ NewList \notin InUse
<1> DEFINE N == Cardinality(Threads)
           hs == {held[th] : th \in Threads}
           all == ((hs \cup {cache["mapping"]}) \cup {cache["ip"]}) \cup {found}
<1>1. N \in Nat
  BY ThreadsAssumption, FS_CardinalityType
<1>2. IsFiniteSet(hs) /\ Cardinality(hs) <= N /\ Cardinality(hs) \in Nat
  <2>1. [th \in Threads |-> held[th]] \in [Threads -> hs]
    OBVIOUS
  <2>2. \A h \in hs : \E th \in Threads : [o \in Threads |-> held[o]][th] = h
    OBVIOUS
  <2> HIDE DEF hs
  <2> QED  BY <2>1, <2>2, ThreadsAssumption, ImageFinite, FS_CardinalityType
<1> HIDE DEF hs
<1>3. IsFiniteSet(all) /\ Cardinality(all) <= N + 3 /\ Cardinality(all) \in Nat
  <2> DEFINE h1 == hs \cup {cache["mapping"]}
             h2 == h1 \cup {cache["ip"]}
  <2>1. IsFiniteSet(h1) /\ Cardinality(h1) \in Nat /\ Cardinality(h1) <= N + 1
    <3>1. Cardinality(h1) <= Cardinality(hs) + 1 /\ IsFiniteSet(h1) /\ Cardinality(h1) \in Nat
      BY <1>2, OneMore
    <3> QED  BY <1>1, <1>2, <3>1
  <2> HIDE DEF h1
  <2>2. IsFiniteSet(h2) /\ Cardinality(h2) \in Nat /\ Cardinality(h2) <= N + 2
    <3>1. Cardinality(h2) <= Cardinality(h1) + 1 /\ IsFiniteSet(h2) /\ Cardinality(h2) \in Nat
      BY <2>1, OneMore
    <3> QED  BY <1>1, <2>1, <3>1
  <2> HIDE DEF h2
  <2>3. /\ Cardinality(h2 \cup {found}) <= Cardinality(h2) + 1
        /\ IsFiniteSet(h2 \cup {found}) /\ Cardinality(h2 \cup {found}) \in Nat
    BY <2>2, OneMore
  <2> QED  BY <1>1, <2>2, <2>3 DEF h1, h2
<1>4. InUse \subseteq all
  BY DEF InUse, Table, hs
<1> HIDE DEF all
<1>5. IsFiniteSet(ListNumber) /\ Cardinality(ListNumber) = N + 4
  BY <1>1, FS_Interval DEF ListNumber
<1>6. ~(ListNumber \subseteq all)
  BY <1>1, <1>3, <1>5, FS_Subset
<1>7. \E n \in ListNumber : n \notin InUse
  BY <1>4, <1>6
<1> QED  BY <1>7 DEF NewList

\* A list of the database is new, and every list somebody needs stays.
LEMMA ListedKeeps ==
    ASSUME Sound, NEW t \in Table, Listed(t)
    PROVE  /\ NewList \in ListNumber /\ NewList \notin InUse /\ NewList # 0
           /\ DOMAIN heap' = InUse \cup {NewList}
           /\ heap'[NewList] = db[t] /\ ListOf(t, db[t])
           /\ \A n \in InUse : heap'[n] = heap[n]
           /\ InUse' \subseteq InUse \cup {NewList} => HeapOK'
<1>1. NewList \in ListNumber /\ NewList \notin InUse
  BY FreeNumber DEF Sound
<1>2. /\ DOMAIN heap' = InUse \cup {NewList}
      /\ heap'[NewList] = db[t]
      /\ \A n \in InUse : heap'[n] = heap[n]
  BY <1>1 DEF Listed
<1>3. ListOf(t, db[t])
  BY DEF Sound, RowsOK, RowsOf
<1>4. \A n \in InUse \cup {NewList} : heap'[n] \subseteq Entry("mapping") \cup Entry("ip")
  BY <1>2, <1>3 DEF Sound, HeapOK, ListOf, Table
<1>5. InUse \subseteq ListNumber
  BY DEF Sound, HeapOK
<1>6. NewList # 0
  BY <1>1, ThreadsAssumption, FS_CardinalityType DEF ListNumber
<1> QED  BY <1>1, <1>2, <1>3, <1>4, <1>5, <1>6 DEF HeapOK

LEMMA HeapSame ==
    ASSUME HeapOK, heap' = heap, InUse' \subseteq InUse
    PROVE  HeapOK'
  BY DEF HeapOK

\* Every list stays a list when the entries of one get other ids, or are marked.
LEMMA HeapChanged ==
    ASSUME HeapOK, NEW n \in DOMAIN heap, NEW es, heap' = [heap EXCEPT ![n] = es],
           es \subseteq Entry("mapping") \cup Entry("ip"), InUse' \subseteq InUse,
           \A t \in Table : ListOf(t, heap[n]) => ListOf(t, es)
    PROVE  /\ HeapOK' /\ heap'[n] = es
           /\ \A m \in InUse : m # n => heap'[m] = heap[m]
           /\ \A m \in InUse, t \in Table : ListOf(t, heap[m]) => ListOf(t, heap'[m])
<1>1. heap'[n] = es /\ \A m \in DOMAIN heap : m # n => heap'[m] = heap[m]
  OBVIOUS
<1>2. InUse \subseteq DOMAIN heap /\ DOMAIN heap' = DOMAIN heap
  BY DEF HeapOK
<1> QED  BY <1>1, <1>2 DEF HeapOK

-----------------------------------------------------------------------------
(* What holds whatever overlaps. *)

\* The process has just been started.
Booted == /\ heap = <<Defaults["mapping"], Defaults["ip"]>>
          /\ cache = [t \in Table |-> IF t = "mapping" THEN 1 ELSE 2]
          /\ starting = <<"list", "mapping">> /\ found = 0
          /\ pc = [th \in Threads |-> "idle"]
          /\ req = [th \in Threads |-> NoRequest]
          /\ held = [th \in Threads |-> 0]
          /\ known = FALSE /\ quiet = "yes"
Counts == requests \in 0..MaxRequests /\ crashes \in 0..MaxCrashes
BootSound == HeapOK /\ ControlOK /\ ListsOK /\ RequestsOK

LEMMA NoRequestTable == NoRequest.table = "mapping"
  BY DEF NoRequest, request

LEMMA DefaultLists == \A t \in Table : ListOf(t, Defaults[t])
  BY DefaultsAssumption DEF ListOf, Distinct

LEMMA BootedSound == Booted /\ Counts => BootSound
<1> SUFFICES ASSUME Booted, Counts PROVE BootSound
  OBVIOUS
<1>1. DOMAIN heap = {1, 2} /\ heap[1] = Defaults["mapping"] /\ heap[2] = Defaults["ip"]
  BY DEF Booted
<1>2. 1 \in ListNumber /\ 2 \in ListNumber
  BY ThreadsAssumption, FS_CardinalityType DEF ListNumber
<1>3. cache["mapping"] = 1 /\ cache["ip"] = 2 /\ \A t \in Table : heap[cache[t]] = Defaults[t]
  BY <1>1 DEF Booted, Table
<1>4. InUse \subseteq {1, 2}
  BY <1>3 DEF Booted, InUse, Table
<1>5. HeapOK
  BY <1>1, <1>2, <1>4, DefaultLists DEF HeapOK, ListOf, Table
<1>6. ControlOK
  BY <1>2, NoRequestTable DEF Booted, Counts, ControlOK, Stages, Steps, Table
<1>7. ListsOK
  BY <1>3, DefaultLists DEF Booted, ListsOK
<1>8. RequestsOK
  BY DEF Booted, RequestsOK
<1> QED  BY <1>5, <1>6, <1>7, <1>8 DEF BootSound

LEMMA BootedSoundNext == (Booted /\ Counts)' => BootSound'
  BY BootedSound, PTL

LEMMA InitSound == Init => Sound
<1> SUFFICES ASSUME Init PROVE Sound
  OBVIOUS
<1>1. Booted /\ Counts
  BY BoundsAssumption DEF Init, Booted, Counts
<1>2. RowsOK
  <2>1. CASE db = [t \in Table |-> {}] /\ lastId = [t \in Table |-> 0]
    BY <2>1, FS_EmptySet, BoundsAssumption DEF RowsOK, RowsOf, ListOf, Distinct
  <2>2. CASE /\ lastId = [t \in Table |-> Cardinality(Defaults[t])]
             /\ db = [t \in Table |-> Numbered(Defaults[t], 0)]
    <3>1. ASSUME NEW t \in Table PROVE RowsOf(t, db[t], lastId[t]) /\ lastId[t] \in 0..MaxId
      <4>1. ListOf(t, Defaults[t]) /\ Cardinality(Defaults[t]) <= MaxId
            /\ Cardinality(Defaults[t]) \in Nat
        BY DefaultLists, DefaultsAssumption, FS_CardinalityType
      <4>2. /\ ListOf(t, db[t])
            /\ \A e \in db[t] : e.id \in 1..lastId[t]
            /\ \A d, e \in db[t] : d.id = e.id => d = e
        BY <2>2, <4>1, NumberedRows
      <4> QED  BY <2>2, <4>1, <4>2, BoundsAssumption DEF RowsOf
    <3> QED  BY <2>2, <3>1 DEF RowsOK
  <2> QED  BY <2>1, <2>2 DEF Init
<1> QED  BY <1>1, <1>2, BootedSound DEF Sound, BootSound

LEMMA RestartSound ==
    ASSUME Sound, Restart
    PROVE  Sound' /\ Booted'
<1>1. (Booted /\ Counts)'
  BY BoundsAssumption DEF Restart, Booted, Counts, Sound, ControlOK
<1>2. RowsOK'
  BY DEF Restart, Sound, RowsOK
<1> QED  BY <1>1, <1>2, BootedSoundNext DEF Sound, BootSound

Kept == \A n \in InUse, t \in Table : ListOf(t, heap[n]) => ListOf(t, heap'[n])

\* One thread's step, by what it leaves the lists and its request.
LEMMA ListsServe ==
    ASSUME Sound, NEW th \in Threads, Kept, UNCHANGED <<starting, found>>,
           \A o \in Threads \ {th} : pc'[o] = pc[o] /\ held'[o] = held[o],
           \A t \in Table : cache'[t] = cache[t] \/ ListOf(t, heap'[cache'[t]]),
           pc'[th] \in {"mark", "store", "set"} =>
              held'[th] # 0 /\ ListOf("mapping", heap'[held'[th]]),
           pc'[th] = "setIp" => held'[th] # 0 /\ ListOf("ip", heap'[held'[th]])
    PROVE  ListsOK'
<1>0. "mapping" \in Table /\ "ip" \in Table /\ starting[2] \in Table
  BY DEF Table, Sound, ControlOK
<1>1. \A t \in Table : ListOf(t, heap'[cache'[t]])
  BY InUseOf DEF Sound, ListsOK, Kept
<1>2. found # 0 => ListOf(starting[2], heap'[found])
  BY <1>0, InUseOf DEF Sound, ListsOK, Kept
<1>3. ASSUME NEW o \in Threads, o # th
      PROVE  /\ pc'[o] \in {"mark", "store", "set"} =>
                  held'[o] # 0 /\ ListOf("mapping", heap'[held'[o]])
             /\ pc'[o] = "setIp" => held'[o] # 0 /\ ListOf("ip", heap'[held'[o]])
  BY <1>0, <1>3, InUseOf DEF Sound, ListsOK, Kept
<1> QED  BY <1>1, <1>2, <1>3 DEF Sound, ListsOK

LEMMA GoesSound ==
    ASSUME Sound, NEW th \in Threads, NEW from, NEW to \in Steps \ {"idle"}, from # "idle",
           Goes(th, from, to),
           to \in {"count", "write"} => req[th].kind \in {"add", "delete", "update"},
           to \in {"find", "mark", "store"} => req[th].kind = "set"
    PROVE  /\ RequestsOK' /\ req' = req /\ pc[th] = from /\ pc'[th] = to
           /\ pc' \in [Threads -> Steps] /\ \A o \in Threads \ {th} : pc'[o] = pc[o]
  BY DEF Sound, ControlOK, RequestsOK, Goes

LEMMA AnswersSound ==
    ASSUME Sound, NEW th \in Threads, NEW from, Answers(th, from)
    PROVE  /\ RequestsOK' /\ pc[th] = from /\ pc'[th] = "idle"
           /\ pc' \in [Threads -> Steps] /\ \A o \in Threads \ {th} : pc'[o] = pc[o]
           /\ req' = [o \in Threads |-> req'[o]] /\ \A o \in Threads : req'[o].table \in Table
           /\ \A o \in Threads \ {th} : req'[o] = req[o]
  BY NoRequestTable DEF Sound, ControlOK, RequestsOK, Answers, Steps, Table

\* A step that leaves tables, lists and caches alone, but for who holds what.
LEMMA QuietStep ==
    ASSUME Sound, NEW th \in Threads, UNCHANGED <<dbVars, heap, cache, starting, found>>,
           \A o \in Threads \ {th} : pc'[o] = pc[o] /\ held'[o] = held[o],
           held'[th] \in {0, held[th], cache["mapping"]},
           pc'[th] \in {"mark", "store"} =>
              held'[th] = cache["mapping"] \/ (held'[th] = held[th] /\ pc[th] \in {"mark", "store"}),
           pc'[th] \notin {"set", "setIp"}
    PROVE  RowsOK' /\ HeapOK' /\ ListsOK'
<1>1. RowsOK'
  BY DEF Sound, RowsOK, dbVars
<1>2. \A o \in Threads : held'[o] \in InUse \cup {0}
  <2>1. cache["mapping"] \in InUse
    BY InUseOf DEF Table
  <2> QED  BY <2>1, InUseOf
<1>3. InUse' \subseteq InUse
  BY <1>2, InUseOf, InUseNext
<1>4. HeapOK'
  BY <1>3, HeapSame DEF Sound
<1>5. Kept
  BY DEF Kept
<1>6. pc'[th] \in {"mark", "store", "set"} => held'[th] # 0 /\ ListOf("mapping", heap'[held'[th]])
  <2>1. cache["mapping"] # 0 /\ ListOf("mapping", heap[cache["mapping"]])
    BY ThreadsAssumption, FS_CardinalityType DEF Sound, ControlOK, ListsOK, Table, ListNumber
  <2> QED  BY <2>1 DEF Sound, ListsOK
<1>7. ListsOK'
  BY <1>5, <1>6, ListsServe
<1> QED  BY <1>1, <1>4, <1>7

\* A step that writes a table.
LEMMA WriteStep ==
    ASSUME Sound, NEW th \in Threads, RowsOK', UNCHANGED <<heap, cache, starting, found>>,
           \A o \in Threads \ {th} : pc'[o] = pc[o] /\ held'[o] = held[o],
           held'[th] \in {0, held[th]}, pc'[th] = "list"
    PROVE  HeapOK' /\ ListsOK'
<1>1. InUse' \subseteq InUse
  BY InUseOf, InUseNext
<1>2. Kept
  BY DEF Kept
<1> QED  BY <1>1, <1>2, HeapSame, ListsServe DEF Sound

LEMMA RequestTyped ==
    ASSUME Sound, NEW th \in Threads, pc[th] # "idle"
    PROVE  /\ req[th].table \in Table /\ req[th].entry \in Entry(req[th].table)
           /\ req[th].kind = "set" => req[th].table = "mapping"
           /\ req[th].entry.enable \in BOOLEAN
<1>1. req[th] \in Request
  BY DEF Sound, RequestsOK
<1>2. \E t \in Table : \E e \in Entry(t) : \E kind \in {"get", "add", "delete", "update", "set"} :
         req[th] = request(kind, t, e) /\ (kind = "set" => t = "mapping")
  <2>1. CASE req[th] \in {request("get", "mapping", e) : e \in Entry("mapping")}
    BY <2>1 DEF Table
  <2>2. CASE req[th] \in {request("set", "mapping", e) : e \in Entry("mapping")}
    BY <2>2 DEF Table
  <2>3. CASE req[th] \in UNION {{request(kind, t, e) : kind \in {"add", "delete", "update"},
                                e \in {d \in Entry(t) : d.enable}} : t \in Table}
    <3>1. PICK t \in Table : req[th] \in {request(kind, t, e) : kind \in {"add", "delete", "update"},
                                                          e \in {d \in Entry(t) : d.enable}}
      BY <2>3
    <3>2. PICK kind \in {"add", "delete", "update"}, e \in {d \in Entry(t) : d.enable} :
             req[th] = request(kind, t, e)
      BY <3>1
    <3>3. e \in Entry(t) /\ kind \in {"get", "add", "delete", "update", "set"} /\ kind # "set"
      OBVIOUS
    <3> QED  BY <3>2, <3>3
  <2>4. \/ req[th] \in {request("get", "mapping", e) : e \in Entry("mapping")}
        \/ req[th] \in UNION {{request(kind, t, e) : kind \in {"add", "delete", "update"},
                                e \in {d \in Entry(t) : d.enable}} : t \in Table}
        \/ req[th] \in {request("set", "mapping", e) : e \in Entry("mapping")}
    BY <1>1 DEF Request
  <2> QED  BY <2>1, <2>2, <2>3, <2>4
<1>3. PICK t \in Table : \E e \in Entry(t) : \E kind \in {"get", "add", "delete", "update", "set"} :
         req[th] = request(kind, t, e) /\ (kind = "set" => t = "mapping")
  BY <1>2
<1>4. PICK e \in Entry(t) : \E kind \in {"get", "add", "delete", "update", "set"} :
         req[th] = request(kind, t, e) /\ (kind = "set" => t = "mapping")
  BY <1>3
<1>5. PICK kind \in {"get", "add", "delete", "update", "set"} :
         req[th] = request(kind, t, e) /\ (kind = "set" => t = "mapping")
  BY <1>4
<1>6. req[th].kind = kind /\ req[th].table = t /\ req[th].entry = e
  BY <1>5 DEF request
<1> QED  BY <1>5, <1>6 DEF Entry

LEMMA WritesSound ==
    ASSUME Sound, NEW th \in Threads, Save(th) \/ RemoveByIds(th) \/ UpdateById(th)
    PROVE  RowsOK'
<1> DEFINE t == req[th].table
           e == req[th].entry
<1>0. pc[th] = "write"
  BY DEF Save, RemoveByIds, UpdateById, Writes, Goes
<1>1. t \in Table /\ e \in Entry(t)
  BY <1>0, RequestTyped
<1>2. RowsOK /\ RowsOf(t, db[t], lastId[t]) /\ lastId[t] \in 0..MaxId
      /\ lastId = [lastId EXCEPT ![t] = lastId[t]]
  BY <1>1 DEF Sound, RowsOK
<1>3. CASE Save(th)
  <2> DEFINE row == [e EXCEPT !.id = lastId[t] + 1]
  <2>1. lastId[t] + 1 \in 0..MaxId /\ lastId[t] + 1 \in lastId[t]..MaxId
    BY <1>2, <1>3, BoundsAssumption DEF Save
  <2>2. row \in Entry(t) /\ row.id = lastId[t] + 1 /\ row.name = e.name
    BY <1>1, <2>1, NewId
  <2>3. /\ db' = [db EXCEPT ![t] = db[t] \cup {row}]
        /\ lastId' = [lastId EXCEPT ![t] = lastId[t] + 1]
        /\ ~Taken(t, e.name, {})
    BY <1>3 DEF Save
  <2> HIDE DEF row, t, e
  <2>4. ListOf(t, {row})
    BY <2>2, FS_Singleton DEF ListOf, Distinct
  <2>5. RowsOf(t, db[t] \cup {row}, lastId[t] + 1)
    BY <1>1, <1>2, <2>1, <2>2, <2>3, <2>4, RowsAdded
  <2> QED  BY <1>1, <1>2, <2>1, <2>3, <2>5, RowsChange
<1>4. CASE RemoveByIds(th)
  <2>1. RowsOf(t, db[t] \ RowWith(t, e.id), lastId[t])
    BY <1>1, <1>2, RowsFewer
  <2>2. db' = [db EXCEPT ![t] = db[t] \ RowWith(t, e.id)] /\ lastId' = lastId
    BY <1>4 DEF RemoveByIds
  <2> HIDE DEF t, e
  <2> QED  BY <1>1, <1>2, <2>1, <2>2, RowsChange
<1>5. CASE UpdateById(th)
  <2>1. ~Refuses(t, e) /\ db' = Replaced(t, e) /\ lastId' = lastId
    BY <1>5 DEF UpdateById
  <2> HIDE DEF t, e
  <2>2. RowsOf(t, db'[t], lastId[t]) /\ db' = [db EXCEPT ![t] = db'[t]]
    BY <1>1, <1>2, <2>1, RowsReplaced
  <2> QED  BY <1>1, <1>2, <2>1, <2>2, RowsChange
<1> QED  BY <1>3, <1>4, <1>5

LEMMA StoreRows ==
    ASSUME Sound, NEW th \in Threads, Store(th)
    PROVE  RowsOK'
<1>1. pc[th] = "store" /\ lastId' = lastId
  BY DEF Store, Goes
<1>2. PICK e \in Meant(th, held[th]) : ~Refuses("mapping", e) /\ db' = Replaced("mapping", e)
  BY DEF Store
<1>3. e \in Entry("mapping") /\ "mapping" \in Table
  BY <1>1, <1>2 DEF Meant, Sound, ListsOK, ListOf, Table
<1>4. RowsOK /\ lastId["mapping"] \in 0..MaxId
      /\ lastId = [lastId EXCEPT !["mapping"] = lastId["mapping"]]
  BY <1>3 DEF Sound, RowsOK
<1>5. RowsOf("mapping", db'["mapping"], lastId["mapping"])
      /\ db' = [db EXCEPT !["mapping"] = db'["mapping"]]
  BY <1>2, <1>3, <1>4, RowsReplaced
<1> QED  BY <1>1, <1>3, <1>4, <1>5, RowsChange

\* The rest of a step of a request.
LEMMA ControlServe ==
    ASSUME Sound, pc' \in [Threads -> Steps],
           req' = [o \in Threads |-> req'[o]], \A o \in Threads : req'[o].table \in Table,
           held' \in [Threads -> {0} \cup ListNumber],
           cache' \in [Table -> ListNumber], UNCHANGED <<startVars, requests>>,
           known' \in BOOLEAN, quiet' \in {"yes", "no", "blind", "loading", "again"}
    PROVE  ControlOK'
  BY DEF Sound, ControlOK, startVars

\* The steps that read, refuse or look for the entry meant.
LEMMA ReadsSound ==
    ASSUME Sound, NEW th \in Threads, Count(th) \/ WriteThrows(th) \/ Find(th) \/ StoreThrows(th)
    PROVE  Sound'
<1>1. /\ UNCHANGED <<dbVars, heap, cache, quiet, startVars, known, requests>>
      /\ held' = held \/ held' = [held EXCEPT ![th] = cache["mapping"]]
         \/ held' = [held EXCEPT ![th] = 0]
  BY DEF Count, WriteThrows, Find, StoreThrows, otherVars, Holds
<1>2. /\ \/ Goes(th, "count", "write") \/ (Goes(th, "find", "mark") /\ Holds(th, cache["mapping"]))
         \/ Answers(th, "count") \/ Answers(th, "write")
         \/ Answers(th, "find") \/ Answers(th, "store")
  BY DEF Count, WriteThrows, Find, StoreThrows
<1>3. held' \in [Threads -> {0} \cup ListNumber]
      /\ held'[th] \in {0, held[th], cache["mapping"]}
      /\ \A o \in Threads \ {th} : held'[o] = held[o]
  BY <1>1 DEF Sound, ControlOK, Table
<1>4. /\ RequestsOK' /\ pc' \in [Threads -> Steps] /\ \A o \in Threads \ {th} : pc'[o] = pc[o]
      /\ req' = [o \in Threads |-> req'[o]] /\ \A o \in Threads : req'[o].table \in Table
      /\ pc'[th] = "write" \/ (pc'[th] = "mark" /\ held'[th] = cache["mapping"]) \/ pc'[th] = "idle"
  <2>1. CASE Goes(th, "count", "write")
    <3>1. req[th].kind \in {"add", "delete", "update"}
      BY <2>1 DEF Goes, Sound, RequestsOK
    <3>2. RequestsOK' /\ req' = req /\ pc'[th] = "write" /\ pc' \in [Threads -> Steps]
          /\ \A o \in Threads \ {th} : pc'[o] = pc[o]
      BY <2>1, <3>1, GoesSound DEF Steps
    <3> QED  BY <3>2 DEF Sound, ControlOK
  <2>2. CASE Goes(th, "find", "mark") /\ Holds(th, cache["mapping"])
    <3>1. req[th].kind = "set"
      BY <2>2 DEF Goes, Sound, RequestsOK
    <3>2. RequestsOK' /\ req' = req /\ pc'[th] = "mark" /\ pc' \in [Threads -> Steps]
          /\ \A o \in Threads \ {th} : pc'[o] = pc[o]
      BY <2>2, <3>1, GoesSound DEF Steps
    <3>3. held'[th] = cache["mapping"]
      BY <2>2 DEF Holds, Sound, ControlOK
    <3> QED  BY <3>2, <3>3 DEF Sound, ControlOK
  <2>3. ASSUME NEW from, Answers(th, from)
        PROVE  <1>4
    BY <2>3, AnswersSound
  <2> QED  BY <1>2, <2>1, <2>2, <2>3
<1>5. RowsOK' /\ HeapOK' /\ ListsOK'
  <2>1. UNCHANGED <<starting, found>>
    BY <1>1 DEF startVars
  <2> QED  BY <1>1, <1>3, <1>4, <2>1, QuietStep
<1>6. ControlOK'
  <2>1. cache' \in [Table -> ListNumber] /\ known' \in BOOLEAN
        /\ quiet' \in {"yes", "no", "blind", "loading", "again"}
    BY <1>1 DEF Sound, ControlOK
  <2> QED  BY <1>1, <1>3, <1>4, <2>1, ControlServe
<1> QED  BY <1>4, <1>5, <1>6 DEF Sound

\* The steps that write a table.
LEMMA DbSound ==
    ASSUME Sound, NEW th \in Threads, Save(th) \/ RemoveByIds(th) \/ UpdateById(th) \/ Store(th)
    PROVE  Sound'
<1>1. /\ UNCHANGED <<heap, cache, quiet, startVars, known, requests>>
      /\ held' = held \/ held' = [held EXCEPT ![th] = 0]
      /\ Goes(th, "write", "list") \/ Goes(th, "store", "list")
  BY DEF Save, RemoveByIds, UpdateById, Store, Writes, otherVars, Holds
<1>2. RequestsOK' /\ req' = req /\ pc'[th] = "list" /\ pc' \in [Threads -> Steps]
      /\ \A o \in Threads \ {th} : pc'[o] = pc[o]
  BY <1>1, GoesSound DEF Steps
<1>3. held' \in [Threads -> {0} \cup ListNumber] /\ held'[th] \in {0, held[th]}
      /\ \A o \in Threads \ {th} : held'[o] = held[o]
  BY <1>1 DEF Sound, ControlOK
<1>4. RowsOK'
  BY WritesSound, StoreRows
<1>5. HeapOK' /\ ListsOK'
  <2>1. UNCHANGED <<starting, found>>
    BY <1>1 DEF startVars
  <2> QED  BY <1>1, <1>2, <1>3, <1>4, <2>1, WriteStep
<1>6. ControlOK'
  <2>1. cache' \in [Table -> ListNumber] /\ known' \in BOOLEAN
        /\ quiet' \in {"yes", "no", "blind", "loading", "again"}
        /\ req' = [o \in Threads |-> req'[o]] /\ \A o \in Threads : req'[o].table \in Table
    BY <1>1, <1>2 DEF Sound, ControlOK
  <2> QED  BY <1>1, <1>2, <1>3, <2>1, ControlServe
<1> QED  BY <1>2, <1>4, <1>5, <1>6 DEF Sound

\* The entry marked: the list held stays a list, for whoever holds it too.
LEMMA MarkSound ==
    ASSUME Sound, NEW th \in Threads, Mark(th)
    PROVE  /\ Sound'
           /\ heap'[held[th]] = MarkedBy(req[th], heap[held[th]])
           /\ \A m \in InUse : m # held[th] => heap'[m] = heap[m]
<1> DEFINE n == held[th]
           es == MarkedBy(req[th], heap[n])
<1>1. /\ UNCHANGED <<dbVars, cache, held, quiet, startVars, known, requests>>
      /\ Goes(th, "mark", "store") /\ heap' = [heap EXCEPT ![n] = es]
  BY DEF Mark, otherVars, Marked, MarkedBy, MarkOf
<1>2. req[th].kind = "set" /\ req[th].entry.enable \in BOOLEAN /\ pc[th] = "mark"
  BY <1>1, RequestTyped DEF Goes, Sound, RequestsOK
<1>3. RequestsOK' /\ req' = req /\ pc'[th] = "store" /\ pc' \in [Threads -> Steps]
      /\ \A o \in Threads \ {th} : pc'[o] = pc[o]
  BY <1>1, <1>2, GoesSound DEF Steps
<1>4. n # 0 /\ ListOf("mapping", heap[n]) /\ "mapping" \in Table
  BY <1>2 DEF Sound, ListsOK, Table
<1>5. n \in InUse /\ n \in DOMAIN heap
  BY <1>4, InUseOf DEF Sound, HeapOK
<1> HIDE DEF n
<1>6. /\ es \subseteq Entry("mapping") \cup Entry("ip")
      /\ \A t \in Table : ListOf(t, heap[n]) => ListOf(t, es)
  <2>1. ASSUME NEW t \in Table, ListOf(t, heap[n]) PROVE ListOf(t, es)
    BY <1>2, <2>1, MarkedList
  <2> HIDE DEF es
  <2> QED  BY <1>4, <2>1 DEF ListOf
<1>7. InUse' = InUse
  BY <1>1 DEF InUse, startVars
<1> HIDE DEF es
<1>8. /\ HeapOK' /\ heap'[n] = es /\ Kept
      /\ \A m \in InUse : m # n => heap'[m] = heap[m]
  <2>1. HeapOK /\ InUse' \subseteq InUse
    BY <1>7 DEF Sound
  <2> QED  BY <1>1, <1>5, <1>6, <2>1, HeapChanged DEF Kept
<1>9. ListsOK'
  <2>1. held'[th] # 0 /\ ListOf("mapping", heap'[held'[th]])
    BY <1>1, <1>4, <1>5, <1>8 DEF Kept, n
  <2>2. UNCHANGED <<starting, found>>
    BY <1>1 DEF startVars
  <2> QED  BY <1>1, <1>3, <1>5, <1>8, <2>1, <2>2, ListsServe
<1>10. RowsOK'
  BY <1>1 DEF Sound, RowsOK, dbVars
<1>11. ControlOK'
  <2>1. cache' \in [Table -> ListNumber] /\ known' \in BOOLEAN
        /\ held' \in [Threads -> {0} \cup ListNumber]
        /\ quiet' \in {"yes", "no", "blind", "loading", "again"}
        /\ req' = [o \in Threads |-> req'[o]] /\ \A o \in Threads : req'[o].table \in Table
    BY <1>1, <1>3 DEF Sound, ControlOK
  <2> QED  BY <1>1, <1>3, <2>1, ControlServe
<1> QED  BY <1>3, <1>5, <1>8, <1>9, <1>10, <1>11 DEF Sound, n, es

\* A table read: the list is new, the others stay.
LEMMA ReadSound ==
    ASSUME Sound, NEW th \in Threads, List(th) \/ ListIp(th)
    PROVE  Sound'
<1> DEFINE t == IF pc[th] = "list" THEN "mapping" ELSE "ip"
<1>1. /\ UNCHANGED <<dbVars, cache, startVars, known, requests>>
      /\ Listed(t) /\ Holds(th, NewList)
      /\ quiet' \in {quiet, "loading"}
      /\ (Goes(th, "list", "set") /\ t = "mapping") \/ (Goes(th, "listIp", "setIp") /\ t = "ip")
  BY DEF List, ListIp, otherVars, Goes
<1>2. t \in Table
  BY DEF Table
<1> HIDE DEF t
<1>3. /\ NewList \in ListNumber /\ NewList # 0 /\ heap'[NewList] = db[t] /\ ListOf(t, db[t])
      /\ \A n \in InUse : heap'[n] = heap[n]
      /\ InUse' \subseteq InUse \cup {NewList} => HeapOK'
  BY <1>1, <1>2, ListedKeeps
<1>4. /\ held' \in [Threads -> {0} \cup ListNumber] /\ held'[th] = NewList
      /\ \A o \in Threads \ {th} : held'[o] = held[o]
  BY <1>1, <1>3 DEF Holds, Sound, ControlOK
<1>5. /\ RequestsOK' /\ req' = req /\ pc' \in [Threads -> Steps]
      /\ \A o \in Threads \ {th} : pc'[o] = pc[o]
      /\ (pc'[th] = "set" /\ t = "mapping") \/ (pc'[th] = "setIp" /\ t = "ip")
  BY <1>1, GoesSound DEF Steps
<1>6. HeapOK'
  <2>1. \A o \in Threads : held'[o] \in (InUse \cup {NewList}) \cup {0}
    BY <1>4, InUseOf
  <2>2. InUse' \subseteq InUse \cup {NewList}
    BY <1>1, <2>1, InUseOf, InUseNext DEF startVars
  <2> QED  BY <1>3, <2>2
<1>7. ListsOK'
  <2>1. Kept
    BY <1>3 DEF Kept
  <2>2. UNCHANGED <<starting, found>>
    BY <1>1 DEF startVars
  <2> QED  BY <1>1, <1>3, <1>4, <1>5, <2>1, <2>2, ListsServe
<1>8. RowsOK'
  BY <1>1 DEF Sound, RowsOK, dbVars
<1>9. ControlOK'
  <2>1. cache' \in [Table -> ListNumber] /\ known' \in BOOLEAN
        /\ quiet' \in {"yes", "no", "blind", "loading", "again"}
        /\ req' = [o \in Threads |-> req'[o]] /\ \A o \in Threads : req'[o].table \in Table
    BY <1>1, <1>5 DEF Sound, ControlOK
  <2> QED  BY <1>1, <1>4, <1>5, <2>1, ControlServe
<1> QED  BY <1>5, <1>6, <1>7, <1>8, <1>9 DEF Sound

\* A list put in place.
LEMMA PutSound ==
    ASSUME Sound, NEW th \in Threads, SetMapping(th) \/ SetIp(th)
    PROVE  Sound'
<1> DEFINE t == IF pc[th] = "set" THEN "mapping" ELSE "ip"
<1>1. /\ UNCHANGED <<dbVars, heap, startVars, requests>>
      /\ cache' = [cache EXCEPT ![t] = held[th]] /\ Holds(th, 0)
      /\ known' \in {known, TRUE} /\ quiet' \in {quiet, "again"}
      /\ (pc[th] = "set" /\ Goes(th, "set", "listIp")) \/ (pc[th] = "setIp" /\ Answers(th, "setIp"))
  BY DEF SetMapping, SetIp, otherVars, Goes, Answers
<1>2. t \in Table
  BY DEF Table
<1>3. held[th] # 0 /\ ListOf(t, heap[held[th]]) /\ held[th] \in InUse /\ held[th] \in ListNumber
  <2>1. held[th] # 0 /\ ListOf(t, heap[held[th]])
    BY <1>1 DEF Sound, ListsOK
  <2> QED  BY <2>1, InUseOf DEF Sound, ControlOK
<1> HIDE DEF t
<1>4. cache' \in [Table -> ListNumber] /\ cache'[t] = held[th]
      /\ \A u \in Table \ {t} : cache'[u] = cache[u]
  BY <1>1, <1>2, <1>3 DEF Sound, ControlOK
<1>5. /\ held' \in [Threads -> {0} \cup ListNumber] /\ held'[th] = 0
      /\ \A o \in Threads \ {th} : held'[o] = held[o]
  BY <1>1 DEF Holds, Sound, ControlOK
<1>6. /\ RequestsOK' /\ pc' \in [Threads -> Steps] /\ \A o \in Threads \ {th} : pc'[o] = pc[o]
      /\ req' = [o \in Threads |-> req'[o]] /\ \A o \in Threads : req'[o].table \in Table
      /\ pc'[th] \in {"idle", "listIp"}
  <2>1. CASE Goes(th, "set", "listIp")
    <3>1. RequestsOK' /\ req' = req /\ pc'[th] = "listIp" /\ pc' \in [Threads -> Steps]
          /\ \A o \in Threads \ {th} : pc'[o] = pc[o]
      BY <2>1, GoesSound DEF Steps
    <3> QED  BY <3>1 DEF Sound, ControlOK
  <2>2. CASE Answers(th, "setIp")
    BY <2>2, AnswersSound
  <2> QED  BY <1>1, <2>1, <2>2
<1>7. HeapOK'
  <2>1. \A u \in Table : cache'[u] \in InUse
    BY <1>3, <1>4, InUseOf
  <2>2. \A o \in Threads : held'[o] \in InUse \cup {0}
    BY <1>5, InUseOf
  <2>3. InUse' \subseteq InUse
    BY <1>1, <2>1, <2>2, InUseOf, InUseNext DEF startVars
  <2> QED  BY <1>1, <2>3, HeapSame DEF Sound
<1>8. ListsOK'
  <2>1. Kept /\ UNCHANGED <<starting, found>>
    BY <1>1 DEF Kept, startVars
  <2>2. \A u \in Table : cache'[u] = cache[u] \/ ListOf(u, heap'[cache'[u]])
    BY <1>1, <1>3, <1>4
  <2> QED  BY <1>5, <1>6, <2>1, <2>2, ListsServe
<1>9. RowsOK'
  BY <1>1 DEF Sound, RowsOK, dbVars
<1>10. ControlOK'
  <2>1. known' \in BOOLEAN /\ quiet' \in {"yes", "no", "blind", "loading", "again"}
    BY <1>1 DEF Sound, ControlOK
  <2> QED  BY <1>1, <1>4, <1>5, <1>6, <2>1, ControlServe
<1> QED  BY <1>6, <1>7, <1>8, <1>9, <1>10 DEF Sound

LEMMA ServeSound ==
    ASSUME Sound, NEW th \in Threads, Serve(th)
    PROVE  Sound'
  BY ReadsSound, DbSound, MarkSound, ReadSound, PutSound DEF Serve

LEMMA ReceiveSound ==
    ASSUME Sound, NEW th \in Threads, NEW r \in Requests, Receive(th, r)
    PROVE  Sound'
<1>1. /\ UNCHANGED <<dbVars, heap, cache, startVars, held, known>>
      /\ pc[th] = "idle" /\ pc' = [pc EXCEPT ![th] = FirstStep(r.kind)]
      /\ requests < MaxRequests /\ requests' = requests + 1
      /\ req' = [req EXCEPT ![th] = r] /\ quiet' \in {quiet, "no", "blind"}
  BY DEF Receive
<1>2. r \in Request
  BY RequestsAssumption
<1>3. \E t \in Table : \E e \in Entry(t) : \E kind \in {"get", "add", "delete", "update", "set"} :
         r = request(kind, t, e)
  BY <1>2 DEF Request, Table
<1>4. r.table \in Table /\ r.kind \in {"get", "add", "delete", "update", "set"}
  <2>1. PICK t \in Table : \E e \in Entry(t) : \E kind \in {"get", "add", "delete", "update", "set"} :
           r = request(kind, t, e)
    BY <1>3
  <2> QED  BY <2>1 DEF request
<1>5. /\ FirstStep(r.kind) \in {"list", "count", "write", "find"}
      /\ FirstStep(r.kind) \in {"count", "write"} => r.kind \in {"add", "delete", "update"}
      /\ FirstStep(r.kind) = "find" => r.kind = "set"
  BY <1>4 DEF FirstStep
<1>6. /\ pc' \in [Threads -> Steps] /\ pc'[th] = FirstStep(r.kind)
      /\ \A o \in Threads \ {th} : pc'[o] = pc[o] /\ req'[o] = req[o]
      /\ req'[th] = r /\ req' = [o \in Threads |-> req'[o]]
      /\ \A o \in Threads : req'[o].table \in Table
  BY <1>1, <1>4, <1>5 DEF Sound, ControlOK, Steps
<1>7. RequestsOK'
  BY <1>2, <1>5, <1>6 DEF Sound, RequestsOK
<1>8. RowsOK' /\ HeapOK' /\ ListsOK'
  BY <1>1, <1>5, <1>6, QuietStep DEF startVars
<1>9. ControlOK'
  BY <1>1, <1>6, BoundsAssumption DEF Sound, ControlOK, startVars
<1> QED  BY <1>7, <1>8, <1>9 DEF Sound

\* A step of start(), by what it leaves the lists.
LEMMA ListsStart ==
    ASSUME Sound, Kept, UNCHANGED <<pc, held>>,
           \A t \in Table : cache'[t] = cache[t] \/ ListOf(t, heap'[cache'[t]]),
           starting'[1] = "set" <=> found' # 0,
           found' # 0 => ListOf(starting'[2], heap'[found'])
    PROVE  ListsOK'
<1>0. "mapping" \in Table /\ "ip" \in Table
  BY DEF Table
<1>1. \A t \in Table : ListOf(t, heap'[cache'[t]])
  BY InUseOf DEF Sound, ListsOK, Kept
<1>2. ASSUME NEW o \in Threads
      PROVE  /\ pc'[o] \in {"mark", "store", "set"} =>
                  held'[o] # 0 /\ ListOf("mapping", heap'[held'[o]])
             /\ pc'[o] = "setIp" => held'[o] # 0 /\ ListOf("ip", heap'[held'[o]])
  BY <1>0, InUseOf DEF Sound, ListsOK, Kept
<1> QED  BY <1>1, <1>2 DEF ListsOK

LEMMA ControlStart ==
    ASSUME Sound, UNCHANGED <<pc, req, held, requests, quiet, crashes>>,
           cache' \in [Table -> ListNumber], starting' \in Stages \X Table,
           found' \in {0} \cup ListNumber, known' \in BOOLEAN
    PROVE  ControlOK' /\ RequestsOK'
  BY DEF Sound, ControlOK, RequestsOK

LEMMA StageOf == Sound => /\ starting \in Stages \X Table /\ starting[2] \in Table
                          /\ starting = <<starting[1], starting[2]>> /\ starting[1] \in Stages
  BY DEF Sound, ControlOK

LEMMA StartListSound ==
    ASSUME Sound, StartList
    PROVE  Sound'
<1> DEFINE t == starting[2]
<1>1. /\ UNCHANGED <<db, lastId, cache, requestVars, crashes>>
      /\ \/ StartGoes("save") /\ UNCHANGED <<heap, found>>
         \/ StartGoes("set") /\ Listed(t) /\ found' = NewList
  BY DEF StartList
<1>2. t \in Table /\ starting[1] = "list" /\ found = 0
  BY StageOf DEF StartList, Sound, ListsOK
<1>3. RowsOK' /\ UNCHANGED <<pc, req, held, requests, quiet, crashes, known>>
  BY <1>1 DEF Sound, RowsOK, requestVars
<1>4. CASE StartGoes("save") /\ UNCHANGED <<heap, found>>
  <2>1. starting'[1] = "save" /\ starting'[2] = t /\ starting' \in Stages \X Table
    BY <1>2, <1>4 DEF StartGoes, Stages
  <2>2. HeapOK'
    <3>1. InUse' = InUse
      BY <1>1, <1>3, <1>4 DEF InUse
    <3> QED  BY <1>4, <3>1, HeapSame DEF Sound
  <2>3. ListsOK'
    BY <1>1, <1>2, <1>3, <1>4, <2>1, ListsStart DEF Kept
  <2>4. ControlOK' /\ RequestsOK'
    <3>1. cache' \in [Table -> ListNumber] /\ found' \in {0} \cup ListNumber /\ known' \in BOOLEAN
      BY <1>1, <1>3, <1>4 DEF Sound, ControlOK
    <3> QED  BY <1>1, <1>3, <2>1, <3>1, ControlStart
  <2> QED  BY <1>3, <2>2, <2>3, <2>4 DEF Sound
<1>5. CASE StartGoes("set") /\ Listed(t) /\ found' = NewList
  <2>1. starting'[1] = "set" /\ starting'[2] = t /\ starting' \in Stages \X Table
    BY <1>2, <1>5 DEF StartGoes, Stages
  <2> HIDE DEF t
  <2>2. /\ NewList \in ListNumber /\ NewList # 0 /\ heap'[NewList] = db[t] /\ ListOf(t, db[t])
        /\ \A n \in InUse : heap'[n] = heap[n]
        /\ InUse' \subseteq InUse \cup {NewList} => HeapOK'
    BY <1>2, <1>5, ListedKeeps
  <2>3. HeapOK'
    <3>1. InUse' \subseteq InUse \cup {NewList}
      BY <1>1, <1>3, <1>5, InUseOf, InUseNext
    <3> QED  BY <2>2, <3>1
  <2>4. ListsOK'
    <3>1. Kept
      BY <2>2 DEF Kept
    <3> QED  BY <1>1, <1>2, <1>3, <1>5, <2>1, <2>2, <3>1, ListsStart
  <2>5. ControlOK' /\ RequestsOK'
    <3>1. cache' \in [Table -> ListNumber] /\ found' \in {0} \cup ListNumber /\ known' \in BOOLEAN
      BY <1>1, <1>3, <1>5, <2>2 DEF Sound, ControlOK
    <3> QED  BY <1>1, <1>3, <2>1, <3>1, ControlStart
  <2> QED  BY <1>3, <2>3, <2>4, <2>5 DEF Sound
<1> QED  BY <1>1, <1>4, <1>5

LEMMA NextTableStage ==
    ASSUME Sound, NextTable
    PROVE  /\ starting' \in Stages \X Table /\ starting'[1] \in {"list", "up"} /\ starting'[2] = "ip"
           /\ starting'[1] = "list" <=> starting[2] = "mapping"
  BY StageOf DEF NextTable, Stages, Table

LEMMA StartSetSound ==
    ASSUME Sound, StartSet
    PROVE  Sound'
<1> DEFINE t == starting[2]
<1>1. /\ UNCHANGED <<dbVars, heap, pc, req, held, requests, quiet, crashes>>
      /\ cache' = [cache EXCEPT ![t] = found] /\ known' \in {known, TRUE}
      /\ found' = 0 /\ NextTable /\ starting[1] = "set"
  BY DEF StartSet, Sound, ControlOK
<1>2. t \in Table /\ found # 0 /\ ListOf(t, heap[found]) /\ found \in InUse /\ found \in ListNumber
  BY <1>1, StageOf, InUseOf DEF Sound, ListsOK, ControlOK
<1> HIDE DEF t
<1>3. cache' \in [Table -> ListNumber] /\ cache'[t] = found
      /\ \A u \in Table \ {t} : cache'[u] = cache[u]
  BY <1>1, <1>2 DEF Sound, ControlOK
<1>4. HeapOK'
  <2>1. InUse' \subseteq InUse
    BY <1>1, <1>2, <1>3, InUseOf, InUseNext
  <2> QED  BY <1>1, <2>1, HeapSame DEF Sound
<1>5. ListsOK'
  <2>1. \A u \in Table : cache'[u] = cache[u] \/ ListOf(u, heap'[cache'[u]])
    BY <1>1, <1>2, <1>3
  <2> QED  BY <1>1, <2>1, NextTableStage, ListsStart DEF Kept
<1>6. RowsOK'
  BY <1>1 DEF Sound, RowsOK, dbVars
<1>7. ControlOK' /\ RequestsOK'
  <2>1. known' \in BOOLEAN
    BY <1>1 DEF Sound, ControlOK
  <2> QED  BY <1>1, <1>3, <2>1, NextTableStage, ControlStart
<1> QED  BY <1>4, <1>5, <1>6, <1>7 DEF Sound

\* saveBatch: the rows are the list's, the list says what it said.
LEMMA StartSaveSound ==
    ASSUME Sound, StartSave
    PROVE  /\ Sound'
           /\ Said(heap'[cache[starting[2]]]) = Said(heap[cache[starting[2]]])
           /\ db'[starting[2]] = db[starting[2]] \cup Numbered(heap[cache[starting[2]]], lastId[starting[2]])
           /\ Said(Numbered(heap[cache[starting[2]]], lastId[starting[2]])) = Said(heap[cache[starting[2]]])
           /\ \A u \in Table \ {starting[2]} : db'[u] = db[u]
           /\ \A n \in InUse : n # cache[starting[2]] => heap'[n] = heap[n]
<1> DEFINE t == starting[2]
           n == cache[t]
           es == heap[n]
           N == Cardinality(es)
           rows == Numbered(es, lastId[t])
<1>1. /\ starting[1] = "save" /\ lastId[t] + N <= MaxId
      /\ ~\E e \in es : Taken(t, e.name, {})
      /\ db' = [db EXCEPT ![t] = db[t] \cup rows]
      /\ lastId' = [lastId EXCEPT ![t] = lastId[t] + N]
      /\ NextTable /\ UNCHANGED <<cache, found, requestVars, crashes>>
      /\ \E ids \in [es -> {0} \cup {lastId[t] + j : j \in 1..N}] :
            heap' = [heap EXCEPT ![n] = WithIds(es, ids)]
  BY DEF StartSave, WithIds
<1>2. PICK ids \in [es -> {0} \cup {lastId[t] + j : j \in 1..N}] :
         heap' = [heap EXCEPT ![n] = WithIds(es, ids)]
  BY <1>1
<1>3. t \in Table /\ starting[1] = "save" /\ found = 0
  BY <1>1, StageOf DEF Sound, ListsOK
<1>4. ListOf(t, es) /\ n \in InUse /\ n \in DOMAIN heap
  BY <1>3, InUseOf DEF Sound, ListsOK, HeapOK
<1>5. N \in Nat /\ RowsOK /\ lastId[t] \in 0..MaxId /\ lastId[t] \in Nat /\ db = [u \in Table |-> db[u]]
  BY <1>3, <1>4, FS_CardinalityType, BoundsAssumption DEF ListOf, Sound, RowsOK
<1> HIDE DEF t, n, es, N
<1>6. /\ ListOf(t, rows) /\ Said(rows) = Said(es)
      /\ \A e \in rows : e.id \in (lastId[t] + 1)..(lastId[t] + N) /\ \E d \in es : d.name = e.name
      /\ \A d, e \in rows : d.id = e.id => d = e
  BY <1>1, <1>3, <1>4, <1>5, NumberedRows DEF N
<1> HIDE DEF rows
<1>7. RowsOK' /\ db'[t] = db[t] \cup rows /\ \A u \in Table \ {t} : db'[u] = db[u]
  <2>1. lastId[t] + N \in lastId[t]..MaxId /\ lastId[t] + N \in 0..MaxId
    BY <1>1, <1>5, BoundsAssumption
  <2>2. \A e \in rows : ~Taken(t, e.name, {})
    BY <1>1, <1>6
  <2>3. RowsOf(t, db[t] \cup rows, lastId[t] + N)
    BY <1>3, <1>5, <1>6, <2>1, <2>2, RowsAdded
  <2>4. RowsOK'
    BY <1>1, <1>3, <1>5, <2>1, <2>3, RowsChange
  <2> QED  BY <1>1, <1>3, <1>5, <2>4
<1>8. ListOf(t, WithIds(es, ids)) /\ Said(WithIds(es, ids)) = Said(es)
      /\ WithIds(es, ids) \subseteq Entry("mapping") \cup Entry("ip")
      /\ \A u \in Table : ListOf(u, es) => ListOf(u, WithIds(es, ids))
  <2>1. \A e \in es : ids[e] \in 0..MaxId
    <3>1. \A j \in 1..N : lastId[t] + j \in 0..MaxId
      BY <1>1, <1>5, BoundsAssumption
    <3>2. 0 \in 0..MaxId
      BY BoundsAssumption
    <3> QED  BY <3>1, <3>2
  <2>2. ASSUME NEW u \in Table, ListOf(u, es)
        PROVE  ListOf(u, WithIds(es, ids)) /\ Said(WithIds(es, ids)) = Said(es)
    BY <2>1, <2>2, Renumber
  <2> QED  BY <1>3, <1>4, <2>2 DEF ListOf, Table
<1>9. UNCHANGED <<pc, req, held, requests, quiet, crashes, known>> /\ cache' = cache /\ found' = found
  BY <1>1 DEF requestVars
<1>10. HeapOK' /\ heap'[n] = WithIds(es, ids) /\ Kept
       /\ \A m \in InUse : m # n => heap'[m] = heap[m]
  <2>1. HeapOK /\ InUse' \subseteq InUse
    <3>1. InUse' = InUse
      BY <1>9 DEF InUse
    <3> QED  BY <3>1 DEF Sound
  <2>2. \A u \in Table : ListOf(u, heap[n]) => ListOf(u, WithIds(es, ids))
    BY <1>8 DEF es
  <2> QED  BY <1>2, <1>4, <1>8, <2>1, <2>2, HeapChanged DEF Kept
<1>11. ListsOK'
  BY <1>1, <1>3, <1>9, <1>10, NextTableStage, ListsStart
<1>12. ControlOK' /\ RequestsOK'
  <2>1. cache' \in [Table -> ListNumber] /\ found' \in {0} \cup ListNumber /\ known' \in BOOLEAN
    BY <1>9 DEF Sound, ControlOK
  <2> QED  BY <1>1, <1>9, <2>1, NextTableStage, ControlStart
<1>13. Sound'
  BY <1>7, <1>10, <1>11, <1>12 DEF Sound
<1> QED  BY <1>6, <1>7, <1>8, <1>10, <1>13 DEF t, n, es, rows

LEMMA StartThrowsSound ==
    ASSUME Sound, StartThrows
    PROVE  Sound'
<1>1. /\ UNCHANGED <<db, lastId, heap, cache, found, requestVars, crashes>>
      /\ starting[1] = "save" /\ StartGoes("dead")
  BY DEF StartThrows
<1>2. UNCHANGED <<pc, req, held, requests, quiet, crashes, known>> /\ found = 0
  BY <1>1 DEF requestVars, Sound, ListsOK
<1>3. starting'[1] = "dead" /\ starting' \in Stages \X Table
  BY <1>1, StageOf DEF StartGoes, Stages
<1>4. HeapOK'
  <2>1. InUse' = InUse
    BY <1>1, <1>2 DEF InUse
  <2> QED  BY <1>1, <2>1, HeapSame DEF Sound
<1>5. ListsOK'
  BY <1>1, <1>2, <1>3, ListsStart DEF Kept
<1>6. RowsOK'
  BY <1>1 DEF Sound, RowsOK
<1>7. ControlOK' /\ RequestsOK'
  <2>1. cache' \in [Table -> ListNumber] /\ found' \in {0} \cup ListNumber /\ known' \in BOOLEAN
    BY <1>1, <1>2 DEF Sound, ControlOK
  <2> QED  BY <1>1, <1>2, <1>3, <2>1, ControlStart
<1> QED  BY <1>4, <1>5, <1>6, <1>7 DEF Sound

LEMMA NextSound ==
    ASSUME Sound, [Next]_vars
    PROVE  Sound'
<1>1. CASE Start
  BY <1>1, StartListSound, StartSetSound, StartSaveSound, StartThrowsSound DEF Start
<1>2. CASE \E th \in Threads : Serve(th) \/ \E r \in Requests : Receive(th, r)
  BY <1>2, ServeSound, ReceiveSound
<1>3. CASE Restart
  BY <1>3, RestartSound
<1>4. CASE UNCHANGED vars
  BY <1>4 DEF vars, Sound, RowsOK, HeapOK, InUse, ControlOK, ListsOK, RequestsOK
<1> QED  BY <1>1, <1>2, <1>3, <1>4 DEF Next

\* The variables stay in their ranges, for any threads and requests.
THEOREM TypeCorrect == Spec => []TypeOK
<1>1. Spec => []Sound
  BY InitSound, NextSound, PTL DEF Spec
<1> QED  BY <1>1, SoundTypes, PTL

-----------------------------------------------------------------------------
(* What holds while nothing overlaps. *)

LEMMA SameLists ==
    ASSUME UNCHANGED <<db, heap, cache, known>>, Current
    PROVE  Current'
  BY DEF Current, Fresh, Loaded

\* After a step of the one request.
LEMMA CalmServe ==
    ASSUME NEW th \in Threads, \A o \in Threads \ {th} : pc'[o] = "idle", Started',
           pc'[th] = "idle" => Current', RequestKnows(th)', quiet' = "loading" => Loads(th)'
    PROVE  CalmKnows'
<1>1. \A o \in Threads \ {th} : RequestKnows(o)'
  BY DEF RequestKnows
<1> QED  BY <1>1 DEF CalmKnows, Idle

\* What the request knows before it.
LEMMA Alone ==
    ASSUME CalmKnows, Calm, NEW th \in Threads, pc[th] # "idle"
    PROVE  /\ Started /\ RequestKnows(th) /\ \A o \in Threads \ {th} : pc[o] = "idle"
           /\ quiet = "loading" => Loads(th)
<1>1. \A o \in Threads \ {th} : pc[o] = "idle"
  BY DEF CalmKnows
<1>2. quiet = "loading" => Loads(th)
  BY <1>1 DEF CalmKnows, Loads
<1> QED  BY <1>1, <1>2 DEF CalmKnows, StartKnows, Idle

\* The entry a start-forward means in the list is one row, marked.
LEMMA StoreKnows ==
    ASSUME Sound, CalmKnows, Calm, NEW th \in Threads, pc[th] = "store",
           NEW e \in Meant(th, held[th])
    PROVE  \E d \in db["mapping"] :
              /\ e.id = d.id /\ e.name = d.name /\ e.target = d.target
              /\ Same(req[th].entry, d) /\ e.enable = req[th].entry.enable
              /\ RowWith("mapping", e.id) = {d} /\ ~Refuses("mapping", e)
<1> DEFINE rows == db["mapping"]
           r == req[th]
<1>1. heap[held[th]] = MarkedBy(r, rows)
  BY Alone DEF RequestKnows
<1>2. e \in MarkedBy(r, rows) /\ Same(r.entry, e)
  BY <1>1 DEF Meant
<1>3. PICK d \in rows : e = MarkOf(r, d)
  BY <1>2 DEF MarkedBy
<1>4. RowsOf("mapping", rows, lastId["mapping"]) /\ "mapping" \in Table
  BY DEF Sound, RowsOK, Table
<1>5. r.entry.enable \in BOOLEAN
  BY RequestTyped
<1>6. /\ e.id = d.id /\ e.name = d.name /\ e.target = d.target
      /\ Same(r.entry, d) => e.enable = r.entry.enable
  <2>1. ListOf("mapping", rows)
    BY <1>4 DEF RowsOf
  <2> HIDE DEF rows, r
  <2>2. \A x \in rows : /\ MarkOf(r, x).id = x.id /\ MarkOf(r, x).name = x.name
                        /\ MarkOf(r, x).target = x.target
                        /\ Same(r.entry, x) => MarkOf(r, x).enable = r.entry.enable
    BY <1>4, <1>5, <2>1, MarkedList
  <2> QED  BY <1>3, <2>2
<1>7. Same(r.entry, d)
  BY <1>2, <1>6 DEF Same
<1>8. RowWith("mapping", e.id) = {d}
  BY <1>4, <1>6 DEF RowWith, RowsOf
<1>9. ~Refuses("mapping", e)
  BY <1>4, <1>6, <1>8 DEF Refuses, Taken, RowsOf, ListOf, Distinct
<1> QED  BY <1>6, <1>7, <1>8, <1>9

\* So its write changes that row's enable.
LEMMA StoreWrites ==
    ASSUME Sound, CalmKnows, Calm, NEW th \in Threads, Store(th)
    PROVE  \E d \in db["mapping"], e \in Entry("mapping") :
              /\ e.id = d.id /\ e.name = d.name /\ e.target = d.target
              /\ Same(req[th].entry, d) /\ e.enable = req[th].entry.enable
              /\ db'["mapping"] = (db["mapping"] \ {d}) \cup {e}
<1>1. PICK e \in Meant(th, held[th]) : db' = Replaced("mapping", e)
  BY DEF Store
<1>2. pc[th] = "store" /\ held[th] # 0 /\ ListOf("mapping", heap[held[th]])
  BY DEF Store, Goes, Sound, ListsOK
<1>3. e \in Entry("mapping")
  BY <1>1, <1>2 DEF Meant, ListOf
<1>4. PICK d \in db["mapping"] :
         /\ e.id = d.id /\ e.name = d.name /\ e.target = d.target
         /\ Same(req[th].entry, d) /\ e.enable = req[th].entry.enable
         /\ RowWith("mapping", e.id) = {d}
  BY <1>2, StoreKnows
<1>5. db'["mapping"] = (db["mapping"] \ {d}) \cup {e}
  BY <1>1, <1>4 DEF Replaced, Sound, RowsOK, Table
<1> QED  BY <1>3, <1>4, <1>5

\* No write is refused.
LEMMA NothingThrows ==
    ASSUME Sound, CalmKnows, Calm, NEW th \in Threads
    PROVE  ~WriteThrows(th) /\ ~StoreThrows(th)
<1>1. ASSUME WriteThrows(th) PROVE FALSE
  <2>1. pc[th] = "write"
    BY <1>1 DEF WriteThrows, Answers
  <2>2. RequestKnows(th)
    BY <2>1, Alone
  <2>3. req[th].kind # "delete" => ~Counted(req[th])
    BY <2>1, <2>2 DEF RequestKnows
  <2> QED  BY <1>1, <2>3 DEF WriteThrows, Counted, Refuses
<1>2. ASSUME StoreThrows(th) PROVE FALSE
  <2>1. pc[th] = "store" /\ \E e \in Meant(th, held[th]) : Refuses("mapping", e)
    BY <1>2 DEF StoreThrows, Answers
  <2> QED  BY <2>1, StoreKnows
<1> QED  BY <1>1, <1>2

\* A step of a request moves no other.
LEMMA ServeMoves ==
    ASSUME Sound, NEW th \in Threads, Serve(th)
    PROVE  /\ pc[th] # "idle" /\ UNCHANGED startVars /\ requests' = requests
           /\ \A o \in Threads \ {th} : pc'[o] = pc[o]
<1>1. UNCHANGED startVars /\ requests' = requests
  BY DEF Serve, Count, Save, RemoveByIds, UpdateById, WriteThrows, Find, Mark, Store, StoreThrows,
         List, SetMapping, ListIp, SetIp, Writes, otherVars
<1>2. pc[th] # "idle" /\ \E to : pc' = [pc EXCEPT ![th] = to]
  BY DEF Serve, Count, Save, RemoveByIds, UpdateById, WriteThrows, Find, Mark, Store, StoreThrows,
         List, SetMapping, ListIp, SetIp, Writes, Goes, Answers
<1>3. pc \in [Threads -> Steps]
  BY DEF Sound, ControlOK
<1> QED  BY <1>1, <1>2, <1>3

\* After its write the rows are as an add, a delete or an update has asked.
LEMMA WritesDone ==
    ASSUME Sound, NEW th \in Threads, Save(th) \/ RemoveByIds(th) \/ UpdateById(th)
    PROVE  Done(req[th], db'[req[th].table])
<1> DEFINE r == req[th]
<1>1. /\ r.table \in Table /\ r.entry \in Entry(r.table) /\ DOMAIN db = Table
      /\ ListOf(r.table, db[r.table])
  BY RequestTyped DEF Save, RemoveByIds, UpdateById, Writes, Goes, Sound, RowsOK, RowsOf
<1>2. CASE Save(th)
  <2>1. db'[r.table] = db[r.table] \cup {[r.entry EXCEPT !.id = lastId[r.table] + 1]}
        /\ r.kind = "add"
    BY <1>1, <1>2 DEF Save, Writes
  <2>2. /\ [r.entry EXCEPT !.id = lastId[r.table] + 1].name = r.entry.name
        /\ [r.entry EXCEPT !.id = lastId[r.table] + 1].target = r.entry.target
        /\ [r.entry EXCEPT !.id = lastId[r.table] + 1].enable = r.entry.enable
    BY <1>1 DEF Entry
  <2> QED  BY <2>1, <2>2 DEF Done, Said
<1>3. CASE RemoveByIds(th)
  BY <1>1, <1>3 DEF RemoveByIds, Writes, RowWith, Done
<1>4. CASE UpdateById(th)
  <2>1. db' = Replaced(r.table, r.entry) /\ r.kind = "update"
    BY <1>4 DEF UpdateById, Writes
  <2>2. \A e \in db'[r.table] : e.id = r.entry.id => e = r.entry
    BY <1>1, <2>1 DEF Replaced, RowWith
  <2> QED  BY <2>1, <2>2 DEF Done
<1> QED  BY <1>2, <1>3, <1>4

\* Before the load: the count, the write, the mark.
LEMMA EarlyCalm ==
    ASSUME Sound, CalmKnows, Calm, NEW th \in Threads,
           \/ Count(th) \/ Save(th) \/ RemoveByIds(th) \/ UpdateById(th) \/ WriteThrows(th)
           \/ Find(th) \/ Mark(th) \/ Store(th) \/ StoreThrows(th)
    PROVE  CalmKnows'
<1>1. Serve(th) /\ quiet' = quiet /\ known' = known /\ cache' = cache
      /\ pc[th] \in {"count", "write", "find", "mark", "store"}
  BY DEF Serve, Count, Save, RemoveByIds, UpdateById, WriteThrows, Find, Mark, Store, StoreThrows,
         Writes, Goes, Answers, otherVars
<1>2. Started /\ RequestKnows(th) /\ quiet # "loading"
  BY <1>1, Alone DEF Loads
<1>3. Started' /\ \A o \in Threads \ {th} : pc'[o] = "idle"
  BY <1>1, Alone, ServeMoves DEF Started, startVars
<1>4. pc \in [Threads -> Steps] /\ req \in [Threads -> {req[o] : o \in Threads}]
      /\ held \in [Threads -> {0} \cup ListNumber]
  BY DEF Sound, ControlOK
<1>5. (pc'[th] = "idle" => Current') /\ (pc'[th] # "idle" => RequestKnows(th)')
  <2>1. CASE Count(th)
    <3>1. Current' /\ pc'[th] \in {"write", "idle"}
      <4>1. Current /\ UNCHANGED <<db, heap, cache, known>> /\ pc'[th] \in {"write", "idle"}
        BY <1>2, <1>4, <2>1 DEF Count, Goes, Answers, RequestKnows, dbVars, otherVars
      <4> QED  BY <4>1, SameLists
    <3>2. pc'[th] = "write" => ~Counted(req[th])'
      <4> SUFFICES ASSUME pc'[th] = "write" PROVE ~Counted(req[th])'
        OBVIOUS
      <4>1. ~Counted(req[th]) /\ req' = req /\ db' = db
        BY <1>4, <2>1 DEF Count, Goes, Answers, dbVars
      <4> QED  BY <4>1 DEF Counted, Taken, RowWith
    <3> QED  BY <3>1, <3>2 DEF RequestKnows
  <2>2. CASE Save(th) \/ RemoveByIds(th) \/ UpdateById(th)
    <3>1. pc'[th] = "list" /\ req' = req /\ req[th].kind # "set"
      BY <1>4, <2>2 DEF Save, RemoveByIds, UpdateById, Writes, Goes
    <3>2. Done(req[th], db'[req[th].table])
      BY <2>2, WritesDone
    <3> QED  BY <3>1, <3>2 DEF RequestKnows, Obeyed
  <2>3. CASE Find(th)
    <3>1. Current' /\ known'
      <4>1. Current /\ known /\ UNCHANGED <<db, heap, cache, known>>
        BY <1>2, <2>3 DEF Find, Goes, Answers, RequestKnows, dbVars, otherVars
      <4> QED  BY <4>1, SameLists
    <3>2. pc'[th] = "idle" \/ (pc'[th] = "mark" /\ held'[th] = cache'["mapping"])
      BY <1>1, <1>4, <2>3 DEF Find, Goes, Answers, Holds
    <3> QED  BY <3>1, <3>2 DEF RequestKnows
  <2>4. CASE Mark(th)
    <3>1. pc[th] = "mark" /\ pc'[th] = "store" /\ req' = req /\ held' = held /\ db' = db
      BY <1>4, <2>4 DEF Mark, Goes, dbVars
    <3>2. held[th] = cache["mapping"] /\ heap[held[th]] = db["mapping"]
      BY <1>2, <3>1 DEF RequestKnows, Current, Loaded
    <3>3. heap'[held[th]] = MarkedBy(req[th], heap[held[th]])
      BY <2>4, MarkSound
    <3>4. heap'[held'[th]] = MarkedBy(req'[th], db'["mapping"]) /\ held'[th] = cache'["mapping"]
      BY <1>1, <3>1, <3>2, <3>3
    <3> QED  BY <3>1, <3>4 DEF RequestKnows
  <2>5. CASE Store(th)
    <3>1. pc'[th] = "list" /\ req' = req
      BY <1>4, <2>5 DEF Store, Goes
    <3>2. Obeyed(req[th])'
      <4>1. PICK d \in db["mapping"], e \in Entry("mapping") :
               /\ e.id = d.id /\ e.name = d.name /\ e.target = d.target
               /\ Same(req[th].entry, d) /\ e.enable = req[th].entry.enable
               /\ db'["mapping"] = (db["mapping"] \ {d}) \cup {e}
        BY <2>5, StoreWrites
      <4>3. req[th].kind = "set" /\ req[th].table = "mapping"
        <5>1. req[th].kind = "set" /\ req[th] \in Request
          BY <2>5 DEF Store, Goes, Sound, RequestsOK
        <5> QED  BY <5>1 DEF Request, request
      <4>4. <<e.name, e.target, e.enable>> \in Said(db'["mapping"])
        BY <4>1 DEF Said
      <4>5. e.name = req[th].entry.name /\ e.target = req[th].entry.target
        BY <4>1 DEF Same
      <4>6. Done(req[th], db'["mapping"])
        BY <4>1, <4>3, <4>4, <4>5 DEF Done
      <4> QED  BY <3>1, <4>3, <4>6 DEF Obeyed
    <3> QED  BY <3>1, <3>2 DEF RequestKnows
  <2>6. CASE WriteThrows(th) \/ StoreThrows(th)
    BY <2>6, NothingThrows
  <2> QED  BY <2>1, <2>2, <2>3, <2>4, <2>5, <2>6
<1>6. quiet' # "loading"
  BY <1>1, <1>2
<1>7. \/ pc'[th] = "idle" /\ Current'
      \/ pc'[th] # "idle" /\ RequestKnows(th)'
  BY <1>5
<1>8. pc'[th] = "idle" => RequestKnows(th)'
  BY DEF RequestKnows
<1> QED  BY <1>3, <1>6, <1>7, <1>8, CalmServe

\* The load.
LEMMA LoadCalm ==
    ASSUME Sound, CalmKnows, Calm, NEW th \in Threads,
           List(th) \/ SetMapping(th) \/ ListIp(th) \/ SetIp(th)
    PROVE  CalmKnows'
<1>1. Serve(th) /\ db' = db /\ pc[th] \in {"list", "set", "listIp", "setIp"}
  BY DEF Serve, List, SetMapping, ListIp, SetIp, Goes, Answers, dbVars
<1>2. /\ Started /\ RequestKnows(th) /\ (quiet = "loading" => Loads(th))
      /\ \A o \in Threads \ {th} : pc[o] = "idle"
  BY <1>1, Alone
<1>3. Started' /\ \A o \in Threads \ {th} : pc'[o] = "idle"
  BY <1>1, <1>2, ServeMoves DEF Started, startVars
<1>4. pc \in [Threads -> Steps] /\ held \in [Threads -> {0} \cup ListNumber]
      /\ cache \in [Table -> ListNumber] /\ "mapping" \in Table /\ "ip" \in Table
  BY DEF Sound, ControlOK, Table
<1>5. /\ pc'[th] = "idle" => Current'
      /\ pc'[th] # "idle" => RequestKnows(th)'
      /\ quiet' = "loading" => Loads(th)'
  <2>1. CASE List(th)
    <3>1. /\ pc[th] = "list" /\ pc'[th] = "set" /\ req' = req /\ held'[th] = NewList
          /\ quiet' = quiet
      BY <1>4, <2>1 DEF List, Goes, Holds, Calm
    <3>2. heap'[NewList] = db["mapping"]
      BY <1>4, <2>1, ListedKeeps DEF List
    <3>3. Obeyed(req[th])'
      BY <1>1, <1>2, <3>1 DEF RequestKnows, Obeyed, Done, Said, Loads
    <3> QED  BY <1>1, <3>1, <3>2, <3>3 DEF RequestKnows, Loads
  <2>2. CASE SetMapping(th)
    <3>1. /\ pc[th] = "set" /\ pc'[th] = "listIp" /\ req' = req /\ heap' = heap /\ quiet' = quiet
          /\ cache'["mapping"] = held[th] /\ known'
      BY <1>4, <2>2 DEF SetMapping, Goes
    <3>2. Loaded'
      BY <1>1, <1>2, <3>1 DEF RequestKnows, Loaded
    <3>3. quiet # "loading" => Obeyed(req[th])'
      BY <1>1, <1>2, <3>1 DEF RequestKnows, Obeyed, Done, Said
    <3> QED  BY <3>1, <3>2, <3>3 DEF RequestKnows, Loads
  <2>3. CASE ListIp(th)
    <3>1. /\ pc[th] = "listIp" /\ pc'[th] = "setIp" /\ req' = req /\ quiet' = quiet
          /\ cache' = cache /\ held'[th] = NewList /\ known' = known
      BY <1>4, <2>3 DEF ListIp, Goes, Holds, otherVars
    <3>2. heap'[NewList] = db["ip"] /\ heap'[cache["mapping"]] = heap[cache["mapping"]]
      BY <1>4, <2>3, ListedKeeps, InUseOf DEF ListIp
    <3>3. known' /\ Loaded'
      BY <1>1, <1>2, <3>1, <3>2 DEF RequestKnows, Loaded
    <3>4. quiet # "loading" => Obeyed(req[th])'
      BY <1>1, <1>2, <3>1 DEF RequestKnows, Obeyed, Done, Said
    <3> QED  BY <1>1, <3>1, <3>2, <3>3, <3>4 DEF RequestKnows, Loads
  <2>4. CASE SetIp(th)
    <3>1. /\ pc[th] = "setIp" /\ pc'[th] = "idle" /\ heap' = heap /\ known' = known
          /\ quiet' # "loading" /\ cache'["ip"] = held[th] /\ cache'["mapping"] = cache["mapping"]
      BY <1>4, <2>4 DEF SetIp, Answers, otherVars
    <3>2. heap'[cache'["mapping"]] = db'["mapping"] /\ heap'[cache'["ip"]] = db'["ip"]
      BY <1>1, <1>2, <3>1 DEF RequestKnows, Loaded
    <3> QED  BY <3>1, <3>2 DEF Current, Fresh, Loaded, Table
  <2> QED  BY <2>1, <2>2, <2>3, <2>4
<1>6. pc'[th] = "idle" => RequestKnows(th)'
  BY DEF RequestKnows
<1> QED  BY <1>3, <1>5, <1>6, CalmServe

\* A load nothing disturbs makes it calm again.
LEMMA LoadAgain ==
    ASSUME Sound, ~Calm, NEW th \in Threads, Serve(th)
    PROVE  CalmKnows'
<1>1. CASE ~Calm'
  BY <1>1 DEF CalmKnows
<1>2. CASE Calm'
  <2>1. List(th) /\ quiet' = "loading" /\ Started /\ \A o \in Threads \ {th} : pc[o] = "idle"
    BY <1>2 DEF Serve, Count, Save, RemoveByIds, UpdateById, WriteThrows, Find, Mark, Store,
                StoreThrows, List, SetMapping, ListIp, SetIp, Writes, otherVars, Calm
  <2>2. pc'[th] = "set" /\ held'[th] = NewList /\ db' = db
    BY <2>1 DEF List, Goes, Holds, Sound, ControlOK, dbVars
  <2>3. heap'[NewList] = db["mapping"]
    BY <2>1, ListedKeeps DEF List, Table
  <2>4. RequestKnows(th)' /\ Loads(th)'
    BY <2>1, <2>2, <2>3 DEF RequestKnows, Loads
  <2>5. Started' /\ \A o \in Threads \ {th} : pc'[o] = "idle"
    BY <2>1, ServeMoves DEF Started, startVars
  <2> QED  BY <2>2, <2>4, <2>5, CalmServe
<1> QED  BY <1>1, <1>2

LEMMA ReceiveCalm ==
    ASSUME Sound, CalmKnows, NEW th \in Threads, NEW r \in Requests, Receive(th, r)
    PROVE  CalmKnows'
<1>1. CASE ~Calm'
  BY <1>1 DEF CalmKnows
<1>2. CASE Calm'
  <2>1. Started /\ Idle /\ quiet' = quiet /\ Calm /\ (known \/ r.kind # "set")
    BY <1>2 DEF Receive, Calm
  <2>2. Current /\ quiet # "loading"
    BY <2>1 DEF CalmKnows, Idle, Loads
  <2>3. /\ pc'[th] = FirstStep(r.kind) /\ req'[th] = r
        /\ UNCHANGED <<db, heap, cache, known, starting>>
        /\ \A o \in Threads \ {th} : pc'[o] = "idle"
    BY <2>1 DEF Receive, Idle, Sound, ControlOK, dbVars, startVars
  <2>4. /\ FirstStep(r.kind) \in {"list", "count", "write", "find"}
        /\ FirstStep(r.kind) = "list" => r.kind = "get"
        /\ FirstStep(r.kind) = "write" => r.kind = "delete"
        /\ FirstStep(r.kind) = "find" => r.kind = "set"
    <3>1. r.kind \in {"get", "add", "delete", "update", "set"}
      BY RequestsAssumption DEF Request, request
    <3> QED  BY <3>1 DEF FirstStep
  <2>5. Current' /\ Started'
    BY <2>1, <2>2, <2>3, SameLists DEF Started
  <2>6. RequestKnows(th)'
    BY <2>1, <2>3, <2>4, <2>5 DEF RequestKnows, Obeyed, Done
  <2> QED  BY <2>1, <2>2, <2>3, <2>4, <2>5, <2>6, CalmServe
<1> QED  BY <1>1, <1>2

\* After a step of start().
LEMMA CalmStart ==
    ASSUME UNCHANGED pc, Idle, quiet # "loading", quiet' = quiet,
           ~Started' => StartKnows', Started' => Current'
    PROVE  CalmKnows'
<1>1. \A th \in Threads : pc'[th] = "idle" /\ RequestKnows(th)'
  BY DEF Idle, RequestKnows
<1> QED  BY <1>1 DEF CalmKnows

LEMMA StartCalm ==
    ASSUME Sound, CalmKnows, Start
    PROVE  CalmKnows'
<1> DEFINE t == starting[2]
<1>0. UNCHANGED <<pc, quiet>> /\ ~Started /\ t \in Table /\ "mapping" \in Table /\ "ip" \in Table
  BY StageOf DEF Start, StartList, StartSet, StartSave, StartThrows, requestVars, Started, Table
<1>1. CASE ~Calm
  BY <1>0, <1>1 DEF CalmKnows, Calm
<1>2. CASE Calm
  <2>1. StartKnows /\ Idle /\ quiet # "loading"
    BY <1>0, <1>2 DEF CalmKnows, StartKnows, Idle, Loads
  <2>2. Idle'
    BY <1>0, <2>1 DEF Idle
  <2>3. (~Started' => StartKnows') /\ (Started' => Current')
    <3>1. CASE StartList
      <4>1. starting[1] = "list" /\ UNCHANGED <<db, cache, known>>
        BY <3>1 DEF StartList, requestVars
      <4>2. CASE db[t] = {}
        <5>1. starting'[1] = "save" /\ starting'[2] = t /\ heap' = heap
          BY <3>1, <4>2 DEF StartList, StartGoes
        <5>2. StartKnows'
          BY <2>1, <2>2, <4>1, <4>2, <5>1 DEF StartKnows, Loaded
        <5> QED  BY <5>1, <5>2 DEF Started
      <4>3. CASE db[t] # {}
        <5>1. starting'[1] = "set" /\ starting'[2] = t /\ Listed(t) /\ found' = NewList
          BY <3>1, <4>3 DEF StartList, StartGoes
        <5>2. /\ heap'[NewList] = db[t] /\ heap'[cache["mapping"]] = heap[cache["mapping"]]
              /\ \A u \in Table : NewList # cache[u]
          BY <1>0, <5>1, ListedKeeps, InUseOf
        <5>3. StartKnows'
          BY <2>1, <2>2, <4>1, <5>1, <5>2 DEF StartKnows, Loaded
        <5> QED  BY <5>1, <5>3 DEF Started
      <4> QED  BY <4>2, <4>3
    <3>2. CASE StartSet
      <4>1. /\ starting[1] = "set" /\ UNCHANGED <<db, heap>> /\ known' = (known \/ t = "mapping")
            /\ cache'[t] = found /\ \A u \in Table \ {t} : cache'[u] = cache[u]
        BY <1>0, <3>2 DEF StartSet, dbVars, Sound, ControlOK
      <4>2. heap[found] = db[t] /\ \A u \in Table : found # cache[u]
        BY <2>1, <4>1 DEF StartKnows
      <4>3. CASE t = "mapping"
        <5>1. starting' = <<"list", "ip">>
          BY <3>2, <4>3 DEF StartSet, NextTable
        <5>2. Loaded' /\ cache'["mapping"] # cache'["ip"]
          BY <1>0, <4>1, <4>2, <4>3 DEF Loaded
        <5> QED  BY <2>2, <5>1, <5>2 DEF StartKnows, Started, Loaded
      <4>4. CASE t = "ip"
        <5>1. starting' = <<"up", "ip">>
          BY <3>2, <4>4 DEF StartSet, NextTable
        <5>2. /\ Said(heap'[cache'["mapping"]]) = Said(db'["mapping"])
              /\ heap'[cache'["ip"]] = db'["ip"] /\ (known' => Loaded')
          BY <1>0, <2>1, <4>1, <4>2, <4>4 DEF StartKnows, Loaded
        <5> QED  BY <5>1, <5>2 DEF Current, Fresh, Started, Table
      <4> QED  BY <1>0, <4>3, <4>4 DEF Table
    <3>3. CASE StartSave
      <4>1. starting[1] = "save" /\ UNCHANGED <<cache, known>> /\ NextTable
        BY <3>3 DEF StartSave, requestVars
      <4>2. db[t] = {} /\ cache["mapping"] # cache["ip"]
        BY <2>1, <4>1 DEF StartKnows
      <4>3. /\ Said(heap'[cache[t]]) = Said(db'[t])
            /\ \A u \in Table \ {t} : db'[u] = db[u]
            /\ \A n \in InUse : n # cache[t] => heap'[n] = heap[n]
        <5>1. db'[t] = Numbered(heap[cache[t]], lastId[t])
          BY <3>3, <4>2, StartSaveSound
        <5> QED  BY <3>3, <5>1, StartSaveSound
      <4>4. CASE t = "mapping"
        <5>1. starting' = <<"list", "ip">>
          BY <4>1, <4>4 DEF NextTable
        <5>2. ~known'
          BY <2>1, <4>1, <4>4 DEF StartKnows
        <5> QED  BY <2>2, <4>1, <4>2, <4>3, <4>4, <5>1, <5>2 DEF StartKnows, Started
      <4>5. CASE t = "ip"
        <5>1. starting' = <<"up", "ip">>
          BY <4>1, <4>5 DEF NextTable
        <5>2. heap'[cache["mapping"]] = heap[cache["mapping"]] /\ db'["mapping"] = db["mapping"]
          BY <1>0, <4>2, <4>3, <4>5, InUseOf
        <5>3. /\ Said(heap'[cache'["mapping"]]) = Said(db'["mapping"])
              /\ Said(heap'[cache'["ip"]]) = Said(db'["ip"]) /\ (known' => Loaded')
          BY <2>1, <4>1, <4>3, <4>5, <5>2 DEF StartKnows, Loaded
        <5> QED  BY <5>1, <5>3 DEF Current, Fresh, Started, Table
      <4> QED  BY <1>0, <4>4, <4>5 DEF Table
    <3>4. CASE StartThrows
      BY <2>1, <3>4 DEF StartThrows, StartKnows, Taken
    <3> QED  BY <3>1, <3>2, <3>3, <3>4 DEF Start
  <2> QED  BY <1>0, <2>1, <2>3, CalmStart
<1> QED  BY <1>1, <1>2

LEMMA BootedCalm == Booted => CalmKnows
  BY DEF Booted, CalmKnows, StartKnows, Idle, Started, RequestKnows, Table

LEMMA BootedCalmNext == Booted' => CalmKnows'
  BY BootedCalm, PTL

LEMMA InitConfig == Init => ConfigInv
  BY InitSound, BootedCalm DEF Init, Booted, ConfigInv

LEMMA NextConfig ==
    ASSUME ConfigInv, [Next]_vars
    PROVE  ConfigInv'
<1> USE DEF ConfigInv
<1>1. Sound'
  BY NextSound
<1>2. CASE Start
  BY <1>1, <1>2, StartCalm
<1>3. ASSUME NEW th \in Threads, Serve(th) PROVE CalmKnows'
  <2>1. CASE Calm
    BY <1>3, <2>1, EarlyCalm, LoadCalm DEF Serve
  <2>2. CASE ~Calm
    BY <1>3, <2>2, LoadAgain
  <2> QED  BY <2>1, <2>2
<1>4. ASSUME NEW th \in Threads, NEW r \in Requests, Receive(th, r) PROVE CalmKnows'
  BY <1>4, ReceiveCalm
<1>5. CASE Restart
  BY <1>5, RestartSound, BootedCalmNext
<1>6. CASE UNCHANGED vars
  <2>1. UNCHANGED <<db, heap, cache, starting, found, pc, req, held, known, quiet>>
    BY <1>6 DEF vars
  <2>2. Idle' = Idle /\ Started' = Started /\ Calm' = Calm
    BY <2>1 DEF Idle, Started, Calm
  <2>3. Current => Current'
    BY <2>1, SameLists
  <2>4. StartKnows => StartKnows'
    BY <2>1, <2>2 DEF StartKnows, Loaded
  <2>5. ASSUME NEW th \in Threads, RequestKnows(th) PROVE RequestKnows(th)'
    BY <2>1, <2>3, <2>5 DEF RequestKnows, Counted, Taken, RowWith, Obeyed, Done, Said, Loaded
  <2> QED  BY <1>1, <2>1, <2>2, <2>3, <2>4, <2>5 DEF CalmKnows, Loads
<1> QED  BY <1>1, <1>2, <1>3, <1>4, <1>5, <1>6 DEF Next

LEMMA ConfigAlways == Spec => []ConfigInv
  BY InitConfig, NextConfig, PTL DEF Spec

\* A request goes on by a step of its own, or dies with the process.
LEMMA OwnStep ==
    ASSUME Sound, [Next]_vars, NEW th \in Threads, pc[th] # "idle", pc'[th] # pc[th]
    PROVE  Serve(th) \/ (Restart /\ pc'[th] = "idle" /\ crashes' # crashes)
<1>1. ASSUME NEW o \in Threads, Serve(o) PROVE o = th
  BY <1>1, ServeMoves
<1>2. ASSUME NEW o \in Threads, NEW r \in Requests, Receive(o, r) PROVE FALSE
  BY <1>2 DEF Receive, Sound, ControlOK
<1>3. ~Start /\ ~UNCHANGED vars
  BY DEF Start, StartList, StartSet, StartSave, StartThrows, requestVars, vars
<1>4. Restart => pc'[th] = "idle" /\ crashes' # crashes
  BY BoundsAssumption DEF Restart, Sound, ControlOK
<1> QED  BY <1>1, <1>2, <1>3, <1>4 DEF Next

-----------------------------------------------------------------------------
(* The theorems, for any threads, entries, requests and bounds. *)

\* With nothing under way, requests that came one after another, and no start- or
\* stop-forward on defaults just saved, the lists the forwarder works from say what
\* the database says.
THEOREM ListsFresh == Spec => []CacheFresh
<1>1. ConfigInv => CacheFresh
  BY DEF ConfigInv, CalmKnows, Calm, Current, CacheFresh
<1> QED  BY <1>1, ConfigAlways, PTL

\* After requests that overlapped, or such a start- or stop-forward, one load that
\* nothing disturbs repairs them.
THEOREM LoadRepairs == Spec => []Repaired
<1>1. ConfigInv => Repaired
  BY DEF ConfigInv, CalmKnows, Calm, Current, Repaired
<1> QED  BY <1>1, ConfigAlways, PTL

\* Whoever is answered, nothing having overlapped and no object having been marked
\* blindly, finds what was asked in the list in use.
THEOREM ChangesDone == Spec => ChangeObeyed
<1>1. ASSUME ConfigInv, [Next]_vars, NEW th \in Threads, quiet \in {"yes", "again"},
             pc[th] = "setIp", pc'[th] = "idle", crashes' = crashes
      PROVE  Done(req[th], heap'[cache'[req[th].table]])
  <2>1. SetIp(th) /\ pc \in [Threads -> Steps] /\ cache \in [Table -> ListNumber]
    <3>1. Serve(th)
      BY <1>1, OwnStep DEF ConfigInv
    <3>2. pc \in [Threads -> Steps] /\ cache \in [Table -> ListNumber]
      BY <1>1 DEF ConfigInv, Sound, ControlOK
    <3> QED  BY <1>1, <3>1, <3>2
             DEF Serve, Count, Save, RemoveByIds, UpdateById, WriteThrows, Find, Mark, Store,
                 StoreThrows, List, SetMapping, ListIp, Writes, Goes, Answers
  <2>2. RequestKnows(th) /\ req[th].table \in Table
    BY <1>1, Alone, RequestTyped DEF ConfigInv, Calm
  <2>3. heap'[cache'["mapping"]] = db["mapping"] /\ heap'[cache'["ip"]] = db["ip"]
    BY <1>1, <2>1, <2>2 DEF SetIp, RequestKnows, Loaded, Table
  <2>4. Done(req[th], db[req[th].table])
    BY <1>1, <2>2 DEF RequestKnows, Obeyed
  <2>5. req[th].table = "mapping" \/ req[th].table = "ip"
    BY <2>2 DEF Table
  <2> QED  BY <2>3, <2>4, <2>5
<1>2. ASSUME ConfigInv, [Next]_vars
      PROVE  [\A th \in Threads :
                (quiet \in {"yes", "again"} /\ pc[th] = "setIp" /\ pc'[th] = "idle"
                 /\ crashes' = crashes) =>
                Done(req[th], heap'[cache'[req[th].table]])]_vars
  BY <1>1, <1>2
<1> QED  BY <1>2, ConfigAlways, PTL DEF Spec, ChangeObeyed

\* A request that ends in the exception of the unique index has overlapped another,
\* or follows (or is) such a start- or stop-forward.
THEOREM CountEnough == Spec => CountSuffices
<1>1. ASSUME ConfigInv, [Next]_vars, NEW th \in Threads,
             pc[th] \in {"write", "store"}, pc'[th] = "idle", crashes' = crashes
      PROVE  quiet \in {"no", "blind"}
  <2>1. Serve(th)
    BY <1>1, OwnStep DEF ConfigInv
  <2>2. pc \in [Threads -> Steps]
    BY <1>1 DEF ConfigInv, Sound, ControlOK
  <2>3. WriteThrows(th) \/ StoreThrows(th)
    BY <1>1, <2>1, <2>2
       DEF Serve, Count, Save, RemoveByIds, UpdateById, Find, Mark, Store,
           List, SetMapping, ListIp, SetIp, Writes, Goes, Answers
  <2> QED  BY <1>1, <2>3, NothingThrows DEF ConfigInv, Calm
<1>2. ASSUME ConfigInv, [Next]_vars
      PROVE  [\A th \in Threads :
                (pc[th] \in {"write", "store"} /\ pc'[th] = "idle" /\ crashes' = crashes) =>
                quiet \in {"no", "blind"}]_vars
  BY <1>1, <1>2
<1> QED  BY <1>2, ConfigAlways, PTL DEF Spec, CountSuffices
=============================================================================
