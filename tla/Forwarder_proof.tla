--------------------------- MODULE Forwarder_proof ---------------------------
(***************************************************************************)
(* Safety of the acceptor and its pool, for any clients, services, lists,  *)
(* rules and number of threads.                                            *)
(*                                                                         *)
(* First what the pool's operations do to the set of pending tasks; then   *)
(* TypeOK and PoolBounded, inductive together; then ownership, with the    *)
(* addition that a client whose match loop has found an entry no longer    *)
(* depends on the acceptor; then the pairing of relays.                    *)
(***************************************************************************)
EXTENDS Forwarder, FiniteSetTheorems, SequenceTheorems, TLAPS

\* Task records are determined by their three fields.
LEMMA TaskShape ==
    ASSUME NEW t \in Task
    PROVE  /\ t.kind \in Kind /\ t.client \in Clients /\ t.name \in Names
           /\ t = task(t.kind, t.client, t.name)
           /\ \A kind \in Kind : /\ [t EXCEPT !.kind = kind] = task(kind, t.client, t.name)
                                 /\ [t EXCEPT !.kind = kind] \in Task
  BY DEF Task, task

LEMMA MadeTask ==
    ASSUME NEW kind \in Kind, NEW c \in Clients, NEW n \in Names
    PROVE  /\ task(kind, c, n) \in Task
           /\ task(kind, c, n).kind = kind
           /\ task(kind, c, n).client = c
           /\ task(kind, c, n).name = n
  BY DEF Task, task

LEMMA OneMore ==
    ASSUME NEW S, IsFiniteSet(S), NEW x
    PROVE  /\ IsFiniteSet(S \cup {x})
           /\ Cardinality(S) \in Nat /\ Cardinality(S \cup {x}) \in Nat
           /\ Cardinality(S \cup {x}) <= Cardinality(S) + 1
<1>1. IsFiniteSet(S \cup {x})
  BY FS_AddElement
<1>2. Cardinality(S) \in Nat /\ Cardinality(S \cup {x}) \in Nat
  BY <1>1, FS_CardinalityType
<1>3. Cardinality(S \cup {x}) = IF x \in S THEN Cardinality(S) ELSE Cardinality(S) + 1
  BY FS_AddElement
<1> QED
  BY <1>1, <1>2, <1>3

-----------------------------------------------------------------------------
(* The pool. *)

\* What ThreadPoolExecutor keeps of itself: no thread has two tasks, and a task
\* waits only when every core thread exists.
PoolBounded ==
    /\ Cardinality(running) <= workers
    /\ queue # <<>> => workers = Core
PoolOK == PoolTypes /\ PoolBounded

\* A submitted task becomes pending, whichever way it goes, and nothing else does.
LEMMA SubmitAdds ==
    ASSUME PoolOK, NEW t \in Task, NEW others \in SUBSET Task,
           IsFiniteSet(others), Cardinality(others) <= workers,
           Submit(t, others)
    PROVE  PoolOK' /\ Pending' = others \cup Waiting \cup {t}
<1> USE CoreAssumption DEF PoolOK, PoolTypes, PoolBounded
<1>0. Cardinality(others) \in Nat
  BY FS_CardinalityType
<1>1. CASE workers < Core
  <2>1. /\ workers' = workers + 1 /\ running' = others \cup {t} /\ queue' = queue
    BY <1>1 DEF Submit
  <2>2. queue = <<>>
    BY <1>1
  <2>3. IsFiniteSet(others \cup {t}) /\ Cardinality(others \cup {t}) <= Cardinality(others) + 1
    BY OneMore
  <2>4. Cardinality(running') <= workers' /\ workers' \in 0..Core
    BY <1>0, <1>1, <2>1, <2>3, FS_CardinalityType
  <2>5. running' \subseteq Task /\ IsFiniteSet(running')
    BY <2>1, <2>3
  <2>6. Pending' = others \cup Waiting \cup {t}
    BY <2>1 DEF Pending, Waiting
  <2> QED  BY <2>1, <2>2, <2>4, <2>5, <2>6
<1>2. CASE ~(workers < Core)
  <2>1. /\ workers' = workers /\ running' = others /\ queue' = Append(queue, t)
    BY <1>2 DEF Submit
  <2>2. /\ queue' \in Seq(Task) /\ Len(queue') = Len(queue) + 1
        /\ \A i \in 1..Len(queue) : queue'[i] = queue[i]
        /\ queue'[Len(queue) + 1] = t
    BY <2>1, AppendProperties
  <2>3. Waiting' = Waiting \cup {t}
    <3>1. Len(queue) \in Nat
      OBVIOUS
    <3> QED  BY <2>2, <3>1 DEF Waiting
  <2>4. workers' = Core
    BY <1>2, <2>1
  <2> QED  BY <2>1, <2>2, <2>3, <2>4 DEF Pending
<1> QED  BY <1>1, <1>2

\* Taking a task from the queue leaves it pending.
LEMMA TakeKeeps ==
    ASSUME PoolOK, Take
    PROVE  PoolOK' /\ Pending' = Pending
<1> USE DEF PoolOK, PoolTypes, PoolBounded
<1>1. /\ Head(queue) \in Task /\ Tail(queue) \in Seq(Task)
      /\ Len(Tail(queue)) = Len(queue) - 1
      /\ \A i \in 1..Len(Tail(queue)) : Tail(queue)[i] = queue[i + 1]
  BY HeadTailProperties DEF Take
<1>2. Len(queue) \in Nat /\ Len(queue) > 0 /\ Head(queue) = queue[1]
  BY DEF Take
<1>3. Waiting = Waiting' \cup {Head(queue)}
  <2>1. ASSUME NEW i \in 1..Len(queue) PROVE queue[i] \in Waiting' \cup {Head(queue)}
    <3>1. CASE i = 1  BY <1>2, <3>1
    <3>2. CASE i # 1
      <4>1. i - 1 \in 1..Len(Tail(queue)) /\ Tail(queue)[i - 1] = queue[i]
        BY <1>1, <1>2, <3>2
      <4> QED  BY <4>1 DEF Take, Waiting
    <3> QED  BY <3>1, <3>2
  <2>2. ASSUME NEW i \in 1..Len(Tail(queue)) PROVE Tail(queue)[i] \in Waiting
    <3>1. i + 1 \in 1..Len(queue)
      BY <1>1, <1>2
    <3> QED  BY <1>1, <3>1 DEF Waiting
  <2>3. Head(queue) \in Waiting
    BY <1>2 DEF Waiting
  <2> QED  BY <2>1, <2>2, <2>3 DEF Take, Waiting
<1>4. /\ IsFiniteSet(running') /\ running' \subseteq Task
      /\ Cardinality(running') <= workers
  <2>1. Cardinality(running) \in Nat
    BY FS_CardinalityType
  <2>2. IsFiniteSet(running') /\ Cardinality(running') <= Cardinality(running) + 1
    <3>1. running' = running \cup {Head(queue)}
      BY DEF Take
    <3> QED  BY <3>1, OneMore
  <2> QED  BY <1>1, <2>1, <2>2, FS_CardinalityType DEF Take
<1> QED
  BY <1>1, <1>3, <1>4 DEF Take, Pending

\* A task that is over, or goes on to its next stage, keeps its thread's place.
LEMMA RunningShrinks ==
    ASSUME PoolOK, NEW t \in running
    PROVE  /\ running \ {t} \subseteq Task
           /\ IsFiniteSet(running \ {t})
           /\ Cardinality(running \ {t}) <= workers
           /\ \A kind \in Kind :
                 /\ Advanced(t, kind) \subseteq Task
                 /\ IsFiniteSet(Advanced(t, kind))
                 /\ Cardinality(Advanced(t, kind)) <= workers
<1> USE DEF PoolOK, PoolTypes, PoolBounded
<1>1. Cardinality(running) \in Nat /\ Cardinality(running \ {t}) = Cardinality(running) - 1
      /\ IsFiniteSet(running \ {t})
  BY FS_CardinalityType, FS_RemoveElement
<1>2. ASSUME NEW kind \in Kind
      PROVE  /\ Advanced(t, kind) \subseteq Task
             /\ IsFiniteSet(Advanced(t, kind))
             /\ Cardinality(Advanced(t, kind)) <= workers
  <2>1. [t EXCEPT !.kind = kind] \in Task
    BY TaskShape
  <2>2. /\ IsFiniteSet(Advanced(t, kind))
        /\ Cardinality(Advanced(t, kind)) <= Cardinality(running \ {t}) + 1
    BY <1>1, OneMore DEF Advanced
  <2>3. Cardinality(Advanced(t, kind)) \in Nat
    BY <2>2, FS_CardinalityType
  <2> QED  BY <1>1, <2>1, <2>2, <2>3 DEF Advanced
<1> QED  BY <1>1, <1>2

-----------------------------------------------------------------------------
(* Types. *)

LEMMA NoEntry == <<>> \in Seq(Mapping) /\ 1 \in 1..(Len(<<>>) + 1)
<1>1. Len(<<>>) = 0
  BY EmptySeq
<1> QED  BY <1>1, EmptySeq

\* The kinds of step by the variables they leave alone.
ClientStep == \E c \in Clients : Connect(c) \/ Speak(c) \/ Leave(c) \/ Reset(c)

LEMMA EnabledNamesTyped ==
    ASSUME NEW list \in Seq(Mapping)
    PROVE  EnabledNames(list) \subseteq Names
<1>1. \A i \in 1..Len(list) : list[i] \in Mapping
  BY ElementOfSeq
<1> QED  BY <1>1 DEF EnabledNames, Mapping

LEMMA ClientTyped ==
    ASSUME TypeOK, ClientStep
    PROVE  TypeOK' /\ UNCHANGED <<sock, remote, accVars, configVars, poolVars, historyVars>>
<1>1. PICK c \in Clients : Connect(c) \/ Speak(c) \/ Leave(c) \/ Reset(c)
  BY DEF ClientStep
<1>2. UNCHANGED <<sock, remote, accVars, configVars, poolVars, historyVars>>
  BY <1>1 DEF Connect, Speak, Leave, Reset, Turns
<1>3. peer' \in [Clients -> {"away", "silent", "spoken", "ended", "reset"}]
  BY <1>1 DEF Connect, Speak, Leave, Reset, Turns, TypeOK, ClientTypes
<1>4. backlog' \in Seq(Clients)
  BY <1>1, AppendProperties DEF Connect, Speak, Leave, Reset, Turns, TypeOK, ClientTypes
<1> QED
  BY <1>2, <1>3, <1>4 DEF TypeOK, ClientTypes, AcceptorTypes, ConfigTypes, PoolTypes,
       accVars, configVars, poolVars, historyVars

\* At an entry the acceptor holds a client, and the entry is a mapping.
LEMMA EntryTyped ==
    ASSUME TypeOK, AtEntry
    PROVE  cur \in Clients /\ snap[k] \in Mapping /\ k \in 1..Len(snap)
<1>1. k \in 1..Len(snap)
  BY DEF TypeOK, AcceptorTypes, AtEntry
<1> QED
  BY <1>1, ElementOfSeq DEF TypeOK, AcceptorTypes, AtEntry

LEMMA AcceptorTyped ==
    ASSUME TypeOK, PoolBounded, Acceptor
    PROVE  TypeOK' /\ PoolBounded'
<1> USE DEF TypeOK, configVars, poolVars, historyVars
<1>1. ASSUME NextTurn, UNCHANGED <<configVars, poolVars>>
      PROVE  AcceptorTypes' /\ ConfigTypes' /\ PoolTypes' /\ PoolBounded'
  BY <1>1, NoEntry DEF NextTurn, AcceptorTypes, ConfigTypes, PoolTypes, PoolBounded
<1>2. ASSUME NEW c \in Clients, CloseClient(c)
      PROVE  sock' \in [Clients -> {"none", "open", "closed"}]
  BY <1>2 DEF CloseClient, ClientTypes
<1>3. acc # "accept" => cur \in Clients
  BY DEF AcceptorTypes
<1>4. CASE Accept
  <2>1. Head(backlog) \in Clients /\ Tail(backlog) \in Seq(Clients)
    BY <1>4, HeadTailProperties DEF Accept, ClientTypes
  <2>2. ClientTypes'
    BY <1>4, <2>1 DEF Accept, ClientTypes
  <2>3. AcceptorTypes'
    BY <1>4, <2>1, ClientAssumption DEF Accept, AcceptorTypes
  <2> QED  BY <1>4, <2>2, <2>3 DEF Accept, ConfigTypes, PoolTypes, PoolBounded
<1>5. CASE Admit
  BY <1>5 DEF Admit, ClientTypes, AcceptorTypes, ConfigTypes, PoolTypes, PoolBounded
<1>6. CASE Reject
  BY <1>1, <1>2, <1>3, <1>6 DEF Reject, ClientTypes
<1>7. CASE ReadHeader
  <2>1. header' \subseteq Names /\ eligible' \subseteq Names
    <3>1. Mentions[cur] \subseteq Names
      BY <1>3, <1>7, MentionsAssumption DEF ReadHeader
    <3>2. eligible' \subseteq Names
      BY <1>7, EnabledNamesTyped DEF ReadHeader, ConfigTypes
    <3>3. header' \subseteq Mentions[cur]
      BY <1>3, <1>7, CutsAssumption DEF ReadHeader
    <3> QED  BY <3>1, <3>2, <3>3
  <2>2. AcceptorTypes'
    <3>1. Len(mappings) \in Nat
      BY LenProperties DEF ConfigTypes
    <3>2. acc' = "match" /\ cur' = cur /\ cur \in Clients
      BY <1>3, <1>7 DEF ReadHeader
    <3>3. snap' \in Seq(Mapping) /\ shared' \in BOOLEAN /\ isClose' \in BOOLEAN
      BY <1>7 DEF ReadHeader, ConfigTypes, AcceptorTypes
    <3>4. k' \in 1..(Len(snap') + 1)
      BY <1>7, <3>1 DEF ReadHeader, AcceptorTypes
    <3> QED  BY <2>1, <3>2, <3>3, <3>4, ClientAssumption DEF AcceptorTypes
  <2> QED
    BY <1>7, <2>2 DEF ReadHeader, ClientTypes, ConfigTypes, PoolTypes, PoolBounded
<1>8. CASE ReadThrows
  BY <1>1, <1>3, <1>8 DEF ReadThrows, ClientTypes
<1>9. CASE SkipEntry
  <2>1. k + 1 \in 1..(Len(snap) + 1)
    BY <1>9, EntryTyped DEF SkipEntry
  <2> QED
    BY <1>9, <2>1 DEF SkipEntry, ClientTypes, AcceptorTypes, ConfigTypes, PoolTypes,
                      PoolBounded
<1>10. CASE RefuseEntry
  <2>1. k + 1 \in 1..(Len(snap) + 1) /\ cur \in Clients
    BY <1>10, EntryTyped DEF RefuseEntry
  <2>2. ClientTypes'
    BY <1>2, <1>10, <2>1 DEF RefuseEntry, ClientTypes
  <2> QED
    BY <1>10, <2>1, <2>2 DEF RefuseEntry, AcceptorTypes, ConfigTypes, PoolTypes,
                             PoolBounded
<1>11. CASE ForwardEntry
  <2>1. k + 1 \in 1..(Len(snap) + 1) /\ cur \in Clients /\ snap[k].name \in Names
    BY <1>11, EntryTyped DEF ForwardEntry, Mapping
  <2>2. task("connect", cur, snap[k].name) \in Task
    BY <2>1, MadeTask DEF Kind
  <2>3. PoolTypes' /\ PoolBounded'
    BY <1>11, <2>2, SubmitAdds DEF ForwardEntry, PoolOK, PoolTypes, PoolBounded
  <2> QED
    BY <1>11, <2>1, <2>3 DEF ForwardEntry, ClientTypes, AcceptorTypes, ConfigTypes
<1>12. CASE EndMatch
  <2>1. sock' \in [Clients -> {"none", "open", "closed"}]
    BY <1>2, <1>3, <1>12 DEF EndMatch, ClientTypes
  <2> QED
    BY <1>1, <1>12, <2>1 DEF EndMatch, ClientTypes
<1> QED
  BY <1>4, <1>5, <1>6, <1>7, <1>8, <1>9, <1>10, <1>11, <1>12 DEF Acceptor

LEMMA PoolTyped ==
    ASSUME TypeOK, PoolBounded, Pool
    PROVE  TypeOK' /\ PoolBounded'
<1> USE DEF TypeOK, accVars, configVars, historyVars, OthersKeep
<1>1. CASE Take
  BY <1>1, TakeKeeps DEF Take, PoolOK, ClientTypes, AcceptorTypes, ConfigTypes
<1>2. ASSUME NEW t \in running, Work(t) PROVE TypeOK' /\ PoolBounded'
  <2>1. t \in Task /\ t.client \in Clients /\ t.name \in Names
    BY TaskShape DEF PoolTypes
  <2>2. UNCHANGED <<peer, backlog, accVars, configVars, eligible>>
    BY <1>2 DEF Work, Reach, Miss, Throw, SubmitClientRelay, SubmitRemoteRelay, Return,
                RelayEnds
  <2>3. sock' \in [Clients -> {"none", "open", "closed"}]
    BY <1>2, <2>1 DEF Work, Reach, Miss, Throw, SubmitClientRelay, SubmitRemoteRelay,
                      Return, RelayEnds, CloseClient, ClientTypes
  <2>4. remote' \in [Clients \X Names -> {"none", "open", "closed"}]
    BY <1>2, <2>1 DEF Work, Reach, Miss, Throw, SubmitClientRelay, SubmitRemoteRelay,
                      Return, RelayEnds, ClientTypes
  <2>5. leaked' \subseteq Clients
    BY <1>2, <2>1 DEF Work, Reach, Miss, Throw, SubmitClientRelay, SubmitRemoteRelay,
                      Return, RelayEnds, ClientTypes
  <2>6. PoolTypes' /\ PoolBounded'
    <3>1. CASE Reach(t) \/ Miss(t) \/ Throw(t) \/ Return(t) \/ RelayEnds(t)
      <4>1. /\ running' \in {running \ {t}, Advanced(t, "connected")}
            /\ UNCHANGED <<workers, queue>>
        BY <3>1 DEF Reach, Miss, Throw, Return, RelayEnds
      <4>2. /\ running' \subseteq Task /\ IsFiniteSet(running')
            /\ Cardinality(running') <= workers
        BY <4>1, RunningShrinks DEF PoolOK, Kind
      <4> QED  BY <4>1, <4>2 DEF PoolTypes, PoolBounded
    <3>2. CASE SubmitClientRelay(t)
      <4>1. task("c2s", t.client, t.name) \in Task
        BY <2>1, MadeTask DEF Kind
      <4> QED
        BY <3>2, <4>1, SubmitAdds, RunningShrinks DEF SubmitClientRelay, PoolOK, Kind
    <3>3. CASE SubmitRemoteRelay(t)
      <4>1. task("s2c", t.client, t.name) \in Task
        BY <2>1, MadeTask DEF Kind
      <4> QED
        BY <3>3, <4>1, SubmitAdds, RunningShrinks DEF SubmitRemoteRelay, PoolOK, Kind
    <3> QED  BY <1>2, <3>1, <3>2, <3>3 DEF Work
  <2> QED
    BY <2>2, <2>3, <2>4, <2>5, <2>6 DEF ClientTypes, AcceptorTypes, ConfigTypes
<1> QED
  BY <1>1, <1>2 DEF Pool

LEMMA AdminTyped ==
    ASSUME TypeOK, Admin
    PROVE  TypeOK' /\ UNCHANGED <<peer, backlog, sock, remote, acc, cur, isClose, poolVars, leaked>>
<1>0. ASSUME NEW list \in Seq(Mapping), Configured(list)
      PROVE  /\ UNCHANGED <<peer, backlog, sock, remote, acc, cur, header, k, isClose,
                            poolVars, leaked>>
             /\ mappings' = list /\ changes' \in 0..MaxChanges
             /\ eligible' \subseteq Names
  <2>1. changes' \in 0..MaxChanges
    BY <1>0, ChangesAssumption DEF Configured, TypeOK, ConfigTypes
  <2>2. eligible' \subseteq Names
    BY <1>0, EnabledNamesTyped DEF Configured, TypeOK, AcceptorTypes
  <2> QED  BY <1>0, <2>1, <2>2 DEF Configured
<1>1. ASSUME NEW j \in 1..Len(mappings), NEW enable \in BOOLEAN, SetForward(j, enable)
      PROVE  /\ TypeOK'
             /\ UNCHANGED <<peer, backlog, sock, remote, acc, cur, isClose, poolVars, leaked>>
  <2> DEFINE list == [mappings EXCEPT ![j].enable = enable]
             e == [mappings[j] EXCEPT !.enable = enable]
  <2>1. mappings \in Seq(Mapping) /\ mappings[j] \in Mapping
    BY ElementOfSeq DEF TypeOK, ConfigTypes
  <2>2. e \in Mapping
    BY <2>1 DEF Mapping
  <2>3. list = [mappings EXCEPT ![j] = e]
    OBVIOUS
  <2>4. list \in Seq(Mapping) /\ Len(list) = Len(mappings)
    BY <2>1, <2>2, <2>3, ExceptSeq
  <2>5. Configured(list)
    BY <1>1 DEF SetForward
  <2> HIDE DEF list, e
  <2>6. /\ UNCHANGED <<peer, backlog, sock, remote, acc, cur, header, k, isClose,
                       poolVars, leaked>>
        /\ mappings' = list /\ changes' \in 0..MaxChanges
        /\ eligible' \subseteq Names
    BY <1>0, <2>4, <2>5
  <2>7. /\ snap' = (IF shared THEN mappings' ELSE snap)
        /\ UNCHANGED <<shared, rules>>
    BY <1>1 DEF SetForward
  <2>8. snap' \in Seq(Mapping) /\ Len(snap') = Len(snap)
    BY <2>4, <2>6, <2>7 DEF TypeOK, ConfigTypes, AcceptorTypes
  <2> QED
    BY <2>4, <2>6, <2>7, <2>8
       DEF TypeOK, ClientTypes, AcceptorTypes, ConfigTypes, PoolTypes, poolVars
<1>2. ASSUME NEW list \in Lists, NEW ruleList \in RuleLists, LoadData(list, ruleList)
      PROVE  /\ TypeOK'
             /\ UNCHANGED <<peer, backlog, sock, remote, acc, cur, isClose, poolVars, leaked>>
  <2>1. list \in Seq(Mapping)
    BY ListsAssumption
  <2>2. /\ UNCHANGED <<peer, backlog, sock, remote, acc, cur, header, k, isClose,
                       poolVars, leaked>>
        /\ mappings' = list /\ changes' \in 0..MaxChanges
        /\ eligible' \subseteq Names
    BY <1>0, <1>2, <2>1 DEF LoadData
  <2>3. rules' = ruleList /\ shared' = FALSE /\ snap' = snap
    BY <1>2 DEF LoadData
  <2> QED
    BY <2>1, <2>2, <2>3
       DEF TypeOK, ClientTypes, AcceptorTypes, ConfigTypes, PoolTypes, poolVars
<1>3. ASSUME NEW j \in 1..Len(snap), NEW enable \in BOOLEAN, SetReplaced(j, enable)
      PROVE  /\ TypeOK'
             /\ UNCHANGED <<peer, backlog, sock, remote, acc, cur, isClose, poolVars, leaked>>
  <2> DEFINE list == [snap EXCEPT ![j].enable = enable]
             e == [snap[j] EXCEPT !.enable = enable]
  <2>1. snap \in Seq(Mapping) /\ snap[j] \in Mapping
    BY ElementOfSeq DEF TypeOK, AcceptorTypes
  <2>2. e \in Mapping
    BY <2>1 DEF Mapping
  <2>3. list = [snap EXCEPT ![j] = e]
    OBVIOUS
  <2>4. list \in Seq(Mapping) /\ Len(list) = Len(snap)
    BY <2>1, <2>2, <2>3, ExceptSeq
  <2>5. snap' = list
    BY <1>3 DEF SetReplaced
  <2> HIDE DEF list, e
  <2>6. changes' \in 0..MaxChanges
    BY <1>3, ChangesAssumption DEF SetReplaced, TypeOK, ConfigTypes
  <2>7. eligible' \subseteq Names
    BY <1>3, <2>4, <2>5, EnabledNamesTyped DEF SetReplaced, TypeOK, AcceptorTypes
  <2>8. /\ UNCHANGED <<peer, backlog, sock, remote, acc, cur, header, shared, k, isClose,
                       mappings, rules, poolVars, leaked>>
        /\ ~shared
    BY <1>3 DEF SetReplaced
  <2> QED
    BY <2>4, <2>5, <2>6, <2>7, <2>8
       DEF TypeOK, ClientTypes, AcceptorTypes, ConfigTypes, PoolTypes, poolVars
<1> QED
  BY <1>1, <1>2, <1>3 DEF Admin

LEMMA InitTyped == Init => TypeOK /\ PoolBounded
<1> SUFFICES ASSUME Init PROVE TypeOK /\ PoolBounded
  OBVIOUS
<1>1. ClientTypes
  BY EmptySeq DEF Init, ClientTypes
<1>2. AcceptorTypes
  BY NoEntry DEF Init, AcceptorTypes
<1>3. ConfigTypes
  BY ListsAssumption, ChangesAssumption DEF Init, ConfigTypes
<1>4. PoolTypes /\ PoolBounded
  BY EmptySeq, FS_EmptySet, CoreAssumption DEF Init, PoolTypes, PoolBounded
<1> QED  BY <1>1, <1>2, <1>3, <1>4 DEF TypeOK

\* The two invariants hold together.
LEMMA Typed == Spec => [](TypeOK /\ PoolBounded)
<1>1. TypeOK /\ PoolBounded /\ [Next]_vars => (TypeOK /\ PoolBounded)'
  <2> SUFFICES ASSUME TypeOK, PoolBounded, [Next]_vars PROVE TypeOK' /\ PoolBounded'
    OBVIOUS
  <2>1. CASE ClientStep  BY <2>1, ClientTyped DEF PoolBounded, poolVars
  <2>2. CASE Acceptor    BY <2>2, AcceptorTyped
  <2>3. CASE Pool        BY <2>3, PoolTyped
  <2>4. CASE Admin       BY <2>4, AdminTyped DEF PoolBounded, poolVars
  <2>5. CASE UNCHANGED vars
    BY <2>5 DEF vars, TypeOK, ClientTypes, AcceptorTypes, ConfigTypes, PoolTypes,
                PoolBounded
  <2> QED  BY <2>1, <2>2, <2>3, <2>4, <2>5 DEF Next, ClientStep
<1> QED
  BY <1>1, InitTyped, PTL DEF Spec

\* Every variable keeps its range.
THEOREM TypeCorrect == Spec => []TypeOK
  BY Typed, PTL

-----------------------------------------------------------------------------
(* Ownership. *)

\* What a step of task t does to the other tasks, and to its own place.
LEMMA WorkKeeps ==
    ASSUME TypeOK, PoolBounded, NEW t \in running, Work(t)
    PROVE  /\ \A u \in running : u # t => u \in running'
           /\ \A u \in Pending : u # t => u \in Pending'
           /\ running' \subseteq Pending'
           /\ Reach(t) => task("connected", t.client, t.name) \in running'
           /\ SubmitClientRelay(t) => /\ task("half", t.client, t.name) \in running'
                                      /\ task("c2s", t.client, t.name) \in Pending'
           /\ SubmitRemoteRelay(t) => task("s2c", t.client, t.name) \in Pending'
<1>1. t \in Task /\ t.client \in Clients /\ t.name \in Names
  BY TaskShape DEF TypeOK, PoolTypes
<1>2. \A kind \in Kind : /\ [t EXCEPT !.kind = kind] = task(kind, t.client, t.name)
                         /\ task(kind, t.client, t.name) \in Advanced(t, kind)
                         /\ \A u \in running : u # t => u \in Advanced(t, kind)
  BY <1>1, TaskShape DEF Advanced
<1>3. running' \subseteq Pending'
  BY DEF Pending
<1>4. CASE Reach(t)
  <2>1. running' = Advanced(t, "connected") /\ Waiting' = Waiting
    BY <1>4 DEF Reach, OthersKeep, Waiting
  <2>2. task("connected", t.client, t.name) \in running'
        /\ \A u \in running : u # t => u \in running'
    BY <1>2, <2>1 DEF Kind
  <2>3. ~SubmitClientRelay(t) /\ ~SubmitRemoteRelay(t)
    BY <1>4 DEF Reach, SubmitClientRelay, SubmitRemoteRelay
  <2> QED  BY <2>1, <2>2, <2>3 DEF Pending
<1>5. CASE Miss(t) \/ Throw(t) \/ Return(t) \/ RelayEnds(t)
  <2>1. running' = running \ {t} /\ Waiting' = Waiting
    BY <1>5 DEF Miss, Throw, Return, RelayEnds, OthersKeep, Waiting
  <2>2. CASE ~Reach(t)
    <3>1. ~SubmitClientRelay(t) /\ ~SubmitRemoteRelay(t)
      BY <1>5 DEF Miss, Throw, Return, RelayEnds, SubmitClientRelay, SubmitRemoteRelay
    <3> QED  BY <2>1, <2>2, <3>1 DEF Pending
  <2> QED  BY <1>4, <2>2
<1>6. CASE SubmitClientRelay(t)
  <2>1. Pending' = Advanced(t, "half") \cup Waiting \cup {task("c2s", t.client, t.name)}
    BY <1>1, <1>6, MadeTask, RunningShrinks, SubmitAdds
       DEF SubmitClientRelay, PoolOK, TypeOK, Kind
  <2>2. Advanced(t, "half") \subseteq running'
    BY <1>6 DEF SubmitClientRelay, Submit
  <2>3. ~Reach(t) /\ ~SubmitRemoteRelay(t)
    BY <1>6 DEF Reach, SubmitClientRelay, SubmitRemoteRelay
  <2> QED  BY <1>2, <2>1, <2>2, <2>3 DEF Pending, Kind
<1>7. CASE SubmitRemoteRelay(t)
  <2>1. Pending' = Advanced(t, "over") \cup Waiting \cup {task("s2c", t.client, t.name)}
    BY <1>1, <1>7, MadeTask, RunningShrinks, SubmitAdds
       DEF SubmitRemoteRelay, PoolOK, TypeOK, Kind
  <2>2. Advanced(t, "over") \subseteq running'
    BY <1>7 DEF SubmitRemoteRelay, Submit
  <2>3. ~Reach(t) /\ ~SubmitClientRelay(t)
    BY <1>7 DEF Reach, SubmitClientRelay, SubmitRemoteRelay
  <2> QED  BY <1>2, <2>1, <2>2, <2>3 DEF Pending, Kind
<1> QED
  BY <1>4, <1>5, <1>6, <1>7 DEF Work

\* A client no longer in need of the acceptor.
Tasked(c) == \/ sock[c] # "open"
             \/ c \in leaked
             \/ \E t \in Pending : t.client = c /\ t.kind # "over"

\* A client for which the match loop has found an entry is one.
MatchedTasked == (acc = "match" /\ ~isClose) => Tasked(cur)

LEMMA OwnedAs == ClientOwned <=> \A c \in Clients : c = cur \/ Tasked(c)
  BY DEF ClientOwned, Tasked

LEMMA PoolKeepsTasked ==
    ASSUME TypeOK, PoolBounded, Pool, NEW c \in Clients, Tasked(c)
    PROVE  Tasked(c)'
<1>1. CASE Take
  BY <1>1, TakeKeeps DEF Take, Tasked, TypeOK, PoolOK, historyVars
<1>2. ASSUME NEW t \in running, Work(t) PROVE Tasked(c)'
  <2>1. t \in Task /\ t.client \in Clients /\ t.name \in Names
    BY TaskShape DEF TypeOK, PoolTypes
  <2>2. sock'[c] = sock[c] \/ sock'[c] # "open"
    BY <1>2, <2>1 DEF Work, Reach, Miss, Throw, SubmitClientRelay, SubmitRemoteRelay,
                      Return, RelayEnds, CloseClient, TypeOK, ClientTypes
  <2>3. leaked \subseteq leaked'
    BY <1>2 DEF Work, Reach, Miss, Throw, SubmitClientRelay, SubmitRemoteRelay,
                Return, RelayEnds, historyVars
  <2>4. ASSUME NEW u \in Pending, u.client = c, u.kind # "over", u # t
        PROVE  \E v \in Pending' : v.client = c /\ v.kind # "over"
    BY <1>2, <2>4, WorkKeeps
  <2>5. ASSUME t.client = c, t.kind # "over"
        PROVE  Tasked(c)'
    <3>1. CASE Reach(t)
      <4>1. task("connected", c, t.name) \in Pending'
        BY <1>2, <2>5, <3>1, WorkKeeps
      <4> QED  BY <2>1, <4>1, MadeTask DEF Tasked, Kind
    <3>2. CASE Miss(t) \/ RelayEnds(t)
      BY <2>1, <2>5, <3>2 DEF Miss, RelayEnds, CloseClient, Tasked, TypeOK, ClientTypes
    <3>3. CASE Throw(t)
      BY <2>5, <3>3 DEF Throw, Tasked
    <3>4. CASE SubmitClientRelay(t)
      <4>1. task("c2s", c, t.name) \in Pending'
        BY <1>2, <2>5, <3>4, WorkKeeps
      <4> QED  BY <2>1, <4>1, MadeTask DEF Tasked, Kind
    <3>5. CASE SubmitRemoteRelay(t)
      <4>1. task("s2c", c, t.name) \in Pending'
        BY <1>2, <2>5, <3>5, WorkKeeps
      <4> QED  BY <2>1, <4>1, MadeTask DEF Tasked, Kind
    <3>6. CASE Return(t)
      BY <2>5, <3>6 DEF Return
    <3> QED  BY <1>2, <3>1, <3>2, <3>3, <3>4, <3>5, <3>6 DEF Work
  <2> QED  BY <2>2, <2>3, <2>4, <2>5 DEF Tasked
<1> QED  BY <1>1, <1>2 DEF Pool

\* Every open client socket has an owner, through all the hands it passes.
THEOREM ClientsOwned == Spec => []ClientOwned
<1> DEFINE Owned == ClientOwned /\ MatchedTasked
<1>1. Init => Owned
  BY DEF Init, ClientOwned, MatchedTasked
<1>2. TypeOK /\ PoolBounded /\ TypeOK' /\ Owned /\ [Next]_vars => Owned'
  <2> SUFFICES ASSUME TypeOK, PoolBounded, TypeOK', Owned, [Next]_vars PROVE Owned'
    OBVIOUS
  <2>0. \A c \in Clients : c = cur \/ Tasked(c)
    BY OwnedAs
  <2>1. SUFFICES (\A c \in Clients : c = cur' \/ Tasked(c)') /\ MatchedTasked'
    BY DEF ClientOwned, Tasked
  <2>2. CASE ClientStep \/ Admin \/ UNCHANGED vars
    <3>1. UNCHANGED <<sock, acc, cur, isClose, poolVars, leaked>>
      BY <2>2, ClientTyped, AdminTyped DEF vars, accVars, historyVars, poolVars
    <3> QED  BY <2>0, <3>1 DEF Tasked, MatchedTasked, Pending, Waiting, poolVars
  <2>3. CASE Pool
    <3>1. UNCHANGED <<acc, cur, isClose>>
      BY <2>3 DEF Pool, Take, Work, Reach, Miss, Throw, SubmitClientRelay,
                  SubmitRemoteRelay, Return, RelayEnds, OthersKeep, accVars
    <3>2. acc = "match" => cur \in Clients
      BY DEF TypeOK, AcceptorTypes
    <3> QED  BY <2>0, <2>3, <3>1, <3>2, PoolKeepsTasked DEF MatchedTasked
  <2>4. CASE Acceptor
    <3>1. \A c \in Clients : c # cur => Tasked(c)
      BY <2>0
    <3> USE DEF poolVars, historyVars, Tasked, MatchedTasked, TypeOK, ClientTypes
    <3>2. CASE Accept
      BY <2>0, <3>2, ClientAssumption DEF Accept, AcceptorTypes, Pending, Waiting
    <3>3. CASE Admit
      BY <2>0, <3>3 DEF Admit, Pending, Waiting
    <3>4. CASE Reject
      BY <2>0, <3>4 DEF Reject, NextTurn, CloseClient, Pending, Waiting
    <3>5. CASE ReadHeader
      BY <2>0, <3>5 DEF ReadHeader, Pending, Waiting
    <3>6. CASE ReadThrows
      BY <2>0, <3>6 DEF ReadThrows, NextTurn, Pending, Waiting
    <3>7. CASE SkipEntry
      BY <2>0, <3>7 DEF SkipEntry, Pending, Waiting
    <3>8. CASE RefuseEntry
      BY <2>0, <3>8, EntryTyped DEF RefuseEntry, CloseClient, Pending, Waiting
    <3>9. CASE ForwardEntry
      <4>1. cur \in Clients /\ snap[k].name \in Names
        BY <3>9, EntryTyped DEF ForwardEntry, Mapping
      <4> DEFINE t == task("connect", cur, snap[k].name)
      <4>2. t \in Task /\ t.client = cur /\ t.kind = "connect"
        BY <4>1, MadeTask DEF Kind
      <4>3. Pending' = running \cup Waiting \cup {t}
        BY <3>9, <4>2, SubmitAdds DEF ForwardEntry, PoolOK, PoolTypes, PoolBounded
      <4>4. UNCHANGED <<sock, leaked, cur>>
        BY <3>9 DEF ForwardEntry
      <4> HIDE DEF t
      <4> QED  BY <2>0, <4>2, <4>3, <4>4 DEF Pending
    <3>10. CASE EndMatch
      <4>1. cur \in Clients
        BY <3>10 DEF EndMatch, AcceptorTypes
      <4>2. \A c \in Clients : c # cur => Tasked(c)'
        BY <3>1, <3>10 DEF EndMatch, NextTurn, CloseClient, Pending, Waiting
      <4>3. \A c \in Clients : c = cur => Tasked(c)'
        <5>1. CASE isClose
          BY <3>10, <4>1, <5>1 DEF EndMatch, CloseClient
        <5>2. CASE ~isClose
          BY <2>0, <3>10, <5>2 DEF EndMatch, NextTurn, Pending, Waiting
        <5> QED  BY <5>1, <5>2
      <4> QED  BY <3>10, <4>2, <4>3 DEF EndMatch, NextTurn
    <3> QED
      BY <2>4, <3>2, <3>3, <3>4, <3>5, <3>6, <3>7, <3>8, <3>9, <3>10 DEF Acceptor
  <2> QED  BY <2>2, <2>3, <2>4 DEF Next, ClientStep
<1> QED
  BY <1>1, <1>2, Typed, PTL DEF Spec

-----------------------------------------------------------------------------
(* The two directions of a connection. *)

Paired(c, n) ==
    \/ remote[<<c, n>>] # "open"
    \/ task("connected", c, n) \in running
    \/ task("half", c, n) \in running /\ task("c2s", c, n) \in Pending
    \/ task("c2s", c, n) \in Pending /\ task("s2c", c, n) \in Pending

LEMMA PairedAs == RemotePaired <=> \A c \in Clients, n \in Names : Paired(c, n)
  BY DEF RemotePaired, Paired

LEMMA PairedFrame ==
    ASSUME NEW c \in Clients, NEW n \in Names, Paired(c, n),
           remote'[<<c, n>>] = remote[<<c, n>>],
           running \subseteq running', Pending \subseteq Pending'
    PROVE  Paired(c, n)'
  BY DEF Paired

\* A task's step leaves every pair complete that was.
LEMMA WorkKeepsPaired ==
    ASSUME TypeOK, PoolBounded, NEW t \in running, Work(t),
           NEW c \in Clients, NEW n \in Names, Paired(c, n)
    PROVE  Paired(c, n)'
<1>1. t \in Task /\ t.client \in Clients /\ t.name \in Names
      /\ t = task(t.kind, t.client, t.name)
  BY TaskShape DEF TypeOK, PoolTypes
<1> DEFINE connected == task("connected", c, n)
           half == task("half", c, n)
           c2s == task("c2s", c, n)
           s2c == task("s2c", c, n)
<1>2. /\ connected.kind = "connected" /\ half.kind = "half"
      /\ c2s.kind = "c2s" /\ s2c.kind = "s2c"
      /\ \A u \in {connected, half, c2s, s2c} : u.client = c /\ u.name = n
  BY MadeTask DEF Kind
<1>3. /\ \A u \in running : u # t => u \in running'
      /\ \A u \in Pending : u # t => u \in Pending'
  BY WorkKeeps
<1>4. CASE Reach(t)
  <2>1. CASE t.client = c /\ t.name = n
    BY <1>4, <2>1, WorkKeeps DEF Paired
  <2>2. CASE ~(t.client = c /\ t.name = n)
    <3>1. remote'[<<c, n>>] = remote[<<c, n>>]
      BY <1>1, <1>4, <2>2 DEF Reach, TypeOK, ClientTypes
    <3>2. t \notin {connected, half, c2s, s2c}
      BY <1>2, <2>2
    <3> QED  BY <1>3, <3>1, <3>2 DEF Paired
  <2> QED  BY <2>1, <2>2
<1>5. CASE Miss(t) \/ Throw(t) \/ Return(t)
  <2>1. t \notin {connected, half, c2s, s2c}
    BY <1>2, <1>5 DEF Miss, Throw, Return
  <2>2. remote' = remote
    BY <1>5 DEF Miss, Throw, Return
  <2> QED  BY <1>3, <2>1, <2>2 DEF Paired
<1>6. CASE SubmitClientRelay(t)
  <2>1. remote' = remote /\ t.kind = "connected"
    BY <1>6 DEF SubmitClientRelay
  <2>2. CASE t = connected
    BY <1>2, <1>6, <2>2, WorkKeeps DEF Paired
  <2>3. CASE t # connected
    <3>1. t \notin {connected, half, c2s, s2c}
      BY <1>2, <2>1, <2>3
    <3> QED  BY <1>3, <2>1, <3>1 DEF Paired
  <2> QED  BY <2>2, <2>3
<1>7. CASE SubmitRemoteRelay(t)
  <2>1. remote' = remote /\ t.kind = "half"
    BY <1>7 DEF SubmitRemoteRelay
  <2>2. t \notin {connected, c2s, s2c}
    BY <1>2, <2>1
  <2>3. CASE t = half
    <3>1. s2c \in Pending'
      BY <1>2, <1>7, <2>3, WorkKeeps
    <3> QED  BY <1>3, <2>1, <2>2, <3>1 DEF Paired
  <2>4. CASE t # half
    BY <1>3, <2>1, <2>2, <2>4 DEF Paired
  <2> QED  BY <2>3, <2>4
<1>8. CASE RelayEnds(t)
  <2>1. remote' = [remote EXCEPT ![<<t.client, t.name>>] = "closed"]
    BY <1>8 DEF RelayEnds
  <2>2. CASE t.client = c /\ t.name = n
    BY <2>1, <2>2 DEF Paired, TypeOK, ClientTypes
  <2>3. CASE ~(t.client = c /\ t.name = n)
    <3>1. remote'[<<c, n>>] = remote[<<c, n>>]
      BY <1>1, <2>1, <2>3 DEF TypeOK, ClientTypes
    <3>2. t \notin {connected, half, c2s, s2c}
      BY <1>2, <2>3
    <3> QED  BY <1>3, <3>1, <3>2 DEF Paired
  <2> QED  BY <2>2, <2>3
<1> QED
  BY <1>4, <1>5, <1>6, <1>7, <1>8 DEF Work

\* No connection to a service lacks a direction for want of a task.
THEOREM RemotesPaired == Spec => []RemotePaired
<1>1. Init => RemotePaired
  BY DEF Init, RemotePaired
<1>2. TypeOK /\ PoolBounded /\ RemotePaired /\ [Next]_vars => RemotePaired'
  <2> SUFFICES ASSUME TypeOK, PoolBounded, RemotePaired, [Next]_vars,
                      NEW c \in Clients, NEW n \in Names
               PROVE  Paired(c, n)'
    BY DEF RemotePaired, Paired
  <2>0. Paired(c, n)
    BY PairedAs
  <2>1. CASE ClientStep \/ Admin \/ UNCHANGED vars
    <3>1. UNCHANGED <<remote, poolVars>>
      BY <2>1, ClientTyped, AdminTyped DEF vars, poolVars
    <3> QED  BY <2>0, <3>1 DEF Paired, Pending, Waiting, poolVars
  <2>2. CASE Acceptor /\ ~ForwardEntry
    <3>1. UNCHANGED <<remote, poolVars>>
      BY <2>2 DEF Acceptor, Accept, Admit, Reject, ReadHeader, ReadThrows, SkipEntry,
                  RefuseEntry, EndMatch
    <3> QED  BY <2>0, <3>1 DEF Paired, Pending, Waiting, poolVars
  <2>3. CASE ForwardEntry
    <3>1. cur \in Clients /\ snap[k].name \in Names
      BY <2>3, EntryTyped DEF ForwardEntry, Mapping
    <3>2. task("connect", cur, snap[k].name) \in Task
      BY <3>1, MadeTask DEF Kind
    <3>3. Pending \subseteq Pending'
      BY <2>3, <3>2, SubmitAdds
         DEF ForwardEntry, PoolOK, TypeOK, PoolTypes, PoolBounded, Pending
    <3>4. running \subseteq running' /\ remote' = remote
      BY <2>3 DEF ForwardEntry, Submit
    <3> QED  BY <2>0, <3>3, <3>4, PairedFrame
  <2>4. CASE Take
    <3>1. Pending' = Pending
      BY <2>4, TakeKeeps DEF PoolOK, TypeOK
    <3>2. running \subseteq running' /\ remote' = remote
      BY <2>4 DEF Take
    <3> QED  BY <2>0, <3>1, <3>2, PairedFrame
  <2>5. ASSUME NEW t \in running, Work(t) PROVE Paired(c, n)'
    BY <2>0, <2>5, WorkKeepsPaired
  <2> QED
    BY <2>1, <2>2, <2>3, <2>4, <2>5 DEF Next, ClientStep, Pool
<1> QED
  BY <1>1, <1>2, Typed, PTL DEF Spec

-----------------------------------------------------------------------------
(* Stopped services. *)

\* Connect tasks come from the acceptor only.
LEMMA WorkAddsNoConnect ==
    ASSUME TypeOK, PoolBounded, NEW t \in running, Work(t), NEW u \in Pending'
    PROVE  u \in Pending \/ u.kind # "connect"
<1>1. t \in Task /\ t.client \in Clients /\ t.name \in Names
  BY TaskShape DEF TypeOK, PoolTypes
<1>2. \A kind \in Kind : Advanced(t, kind) = (running \ {t}) \cup {task(kind, t.client, t.name)}
  BY <1>1, TaskShape DEF Advanced
<1>3. \A kind \in Kind : task(kind, t.client, t.name).kind = kind
  BY <1>1, MadeTask
<1>4. CASE Reach(t)
  <2>1. Pending' = Advanced(t, "connected") \cup Waiting
    BY <1>4 DEF Reach, OthersKeep, Pending, Waiting
  <2> QED  BY <1>2, <1>3, <2>1 DEF Pending, Kind
<1>5. CASE Miss(t) \/ Throw(t) \/ Return(t) \/ RelayEnds(t)
  BY <1>5 DEF Miss, Throw, Return, RelayEnds, OthersKeep, Pending, Waiting
<1>6. CASE SubmitClientRelay(t)
  <2>1. Pending' = Advanced(t, "half") \cup Waiting \cup {task("c2s", t.client, t.name)}
    BY <1>1, <1>6, MadeTask, RunningShrinks, SubmitAdds
       DEF SubmitClientRelay, PoolOK, TypeOK, Kind
  <2> QED  BY <1>2, <1>3, <2>1 DEF Pending, Kind
<1>7. CASE SubmitRemoteRelay(t)
  <2>1. Pending' = Advanced(t, "over") \cup Waiting \cup {task("s2c", t.client, t.name)}
    BY <1>1, <1>7, MadeTask, RunningShrinks, SubmitAdds
       DEF SubmitRemoteRelay, PoolOK, TypeOK, Kind
  <2> QED  BY <1>2, <1>3, <2>1 DEF Pending, Kind
<1> QED
  BY <1>4, <1>5, <1>6, <1>7 DEF Work

\* What the list in hand enables has been enabled since the header was read.
SnapFresh == acc = "match" => EnabledNames(snap) \subseteq eligible

\* A service stopped before the header was read gets no connect task for it.
THEOREM StopIsRespected == Spec => NoStaleForward
<1>1. Init => SnapFresh
  BY DEF Init, SnapFresh
<1>2. TypeOK /\ SnapFresh /\ [Next]_vars => SnapFresh'
  <2> SUFFICES ASSUME TypeOK, SnapFresh, [Next]_vars, acc' = "match"
               PROVE  (EnabledNames(snap) \subseteq eligible)'
    BY DEF SnapFresh
  <2>1. CASE Acceptor
    BY <2>1 DEF Acceptor, Accept, Admit, Reject, ReadHeader, ReadThrows, SkipEntry,
                RefuseEntry, ForwardEntry, EndMatch, NextTurn, SnapFresh, historyVars
  <2>2. CASE Admin
    <3>1. ASSUME NEW list, Configured(list)
          PROVE  /\ mappings' = list /\ acc = "match"
                 /\ eligible' = eligible \cup EnabledNames(mappings')
      BY <3>1 DEF Configured
    <3>2. CASE \E j \in 1..Len(mappings), enable \in BOOLEAN : SetForward(j, enable)
      <4>1. /\ acc = "match" /\ eligible' = eligible \cup EnabledNames(mappings')
            /\ snap' \in {snap, mappings'}
        BY <3>1, <3>2 DEF SetForward
      <4> QED  BY <4>1 DEF SnapFresh
    <3>3. CASE \E list \in Lists, ruleList \in RuleLists : LoadData(list, ruleList)
      <4>1. /\ acc = "match" /\ eligible' = eligible \cup EnabledNames(mappings')
            /\ snap' = snap
        BY <3>1, <3>3 DEF LoadData
      <4> QED  BY <4>1 DEF SnapFresh
    <3>4. CASE \E j \in 1..Len(snap), enable \in BOOLEAN : SetReplaced(j, enable)
      BY <3>4 DEF SetReplaced
    <3> QED  BY <2>2, <3>2, <3>3, <3>4 DEF Admin
  <2>3. CASE ClientStep \/ Pool \/ UNCHANGED vars
    <3>1. UNCHANGED <<acc, snap, eligible>>
      BY <2>3 DEF ClientStep, Connect, Speak, Leave, Reset, Turns, Pool, Take, Work,
                  Reach, Miss, Throw, SubmitClientRelay, SubmitRemoteRelay, Return,
                  RelayEnds, OthersKeep, accVars, historyVars, vars
    <3> QED  BY <3>1 DEF SnapFresh
  <2> QED  BY <2>1, <2>2, <2>3 DEF Next, ClientStep
<1>3. TypeOK /\ PoolBounded /\ SnapFresh /\ [Next]_vars =>
        [\A n \in Names :
            LET t == task("connect", cur, n) IN
            (cur # NoClient /\ t \in Pending' /\ t \notin Pending) => n \in eligible]_vars
  <2> SUFFICES ASSUME TypeOK, PoolBounded, SnapFresh, [Next]_vars,
                      NEW n \in Names, cur # NoClient,
                      task("connect", cur, n) \in Pending',
                      task("connect", cur, n) \notin Pending
               PROVE  n \in eligible
    OBVIOUS
  <2>0. cur \in Clients /\ task("connect", cur, n).kind = "connect"
        /\ task("connect", cur, n).name = n
    BY MadeTask DEF TypeOK, AcceptorTypes, Kind
  <2>1. CASE ClientStep \/ Admin \/ UNCHANGED vars
    <3>1. UNCHANGED poolVars
      BY <2>1, ClientTyped, AdminTyped DEF vars, poolVars
    <3> QED  BY <3>1 DEF Pending, Waiting, poolVars
  <2>2. CASE Acceptor /\ ~ForwardEntry
    <3>1. UNCHANGED poolVars
      BY <2>2 DEF Acceptor, Accept, Admit, Reject, ReadHeader, ReadThrows, SkipEntry,
                  RefuseEntry, EndMatch
    <3> QED  BY <3>1 DEF Pending, Waiting, poolVars
  <2>3. CASE ForwardEntry
    <3>1. k \in 1..Len(snap) /\ snap[k].enable /\ acc = "match"
      BY <2>3, EntryTyped DEF ForwardEntry, AtEntry
    <3>2. snap[k].name \in Names
      BY <2>3, EntryTyped DEF ForwardEntry, Mapping
    <3>3. task("connect", cur, snap[k].name) \in Task
          /\ task("connect", cur, snap[k].name).name = snap[k].name
      BY <2>0, <3>2, MadeTask DEF Kind
    <3>4. Pending' = running \cup Waiting \cup {task("connect", cur, snap[k].name)}
      BY <2>3, <3>3, SubmitAdds
         DEF ForwardEntry, PoolOK, TypeOK, PoolTypes, PoolBounded
    <3>5. n = snap[k].name
      BY <2>0, <3>3, <3>4 DEF Pending
    <3> QED  BY <3>1, <3>5 DEF SnapFresh, EnabledNames
  <2>4. CASE Pool
    BY <2>0, <2>4, TakeKeeps, WorkAddsNoConnect DEF Pool, PoolOK, TypeOK
  <2> QED
    BY <2>1, <2>2, <2>3, <2>4 DEF Next, ClientStep
<1> QED
  BY <1>1, <1>2, <1>3, Typed, PTL DEF Spec, NoStaleForward
=============================================================================
