------------------------ MODULE ForwarderService_proof ------------------------
(***************************************************************************)
(* The forwarder implements Service.  What has to be known of it beyond    *)
(* its types and the pairing of relays: a client has to do with a service  *)
(* only after the acceptor has come to the entry of that name, which       *)
(* happens once; so a connect task is the first and only one of its client *)
(* and service.                                                            *)
(***************************************************************************)
EXTENDS Forwarder_proof

\* The forwarder has begun to connect the client to the service, or has done so.
Tasks(c, n) == \E t \in Pending : t.client = c /\ t.name = n
Touched(c, n) == remote[<<c, n>>] # "none" \/ Tasks(c, n)

NamesOnce(list) == \A i, j \in 1..Len(list) : list[i].name = list[j].name => i = j

ClientsKnown ==
    \A c \in Clients :
        /\ peer[c] = "away" => sock[c] = "none"
        /\ \A n \in Names : Touched(c, n) => sock[c] # "none" /\ n \in Mentions[c]

BacklogNew ==
    /\ \A i \in 1..Len(backlog) : peer[backlog[i]] # "away" /\ sock[backlog[i]] = "none"
    /\ \A i, j \in 1..Len(backlog) : backlog[i] = backlog[j] => i = j

CurrentNew ==
    /\ acc # "accept" => sock[cur] # "none"
    /\ acc \in {"filter", "read"} => \A n \in Names : ~Touched(cur, n)
    /\ acc = "match" => /\ header \subseteq Mentions[cur]
                        /\ \A j \in k..Len(snap) : ~Touched(cur, snap[j].name)
    /\ NamesOnce(mappings) /\ NamesOnce(snap)

ConnectFirst ==
    \A t \in Pending : t.kind = "connect" <=> remote[<<t.client, t.name>>] = "none"
ConnectOnce ==
    \A i \in 1..Len(queue) :
        queue[i].kind = "connect" =>
            queue[i] \notin running /\ \A j \in 1..Len(queue) : queue[i] = queue[j] => i = j

ServiceInv == ClientsKnown /\ BacklogNew /\ CurrentNew /\ ConnectFirst /\ ConnectOnce

-----------------------------------------------------------------------------
(* The pool. *)

LEMMA PendingTyped ==
    ASSUME TypeOK
    PROVE  /\ Pending \subseteq Task /\ running \subseteq Pending
           /\ \A i \in 1..Len(queue) : queue[i] \in Pending /\ queue[i] \in Task
<1>1. \A i \in 1..Len(queue) : queue[i] \in Task
  BY ElementOfSeq DEF TypeOK, PoolTypes
<1> QED  BY <1>1 DEF Pending, Waiting, TypeOK, PoolTypes

\* A submitted task does not repeat a connect task if it is none, or a new one.
LEMMA SubmitOnce ==
    ASSUME TypeOK, ConnectOnce, NEW t \in Task, NEW others, Submit(t, others),
           \A u \in others : u \in running \/ u.kind # "connect",
           t.kind = "connect" => t \notin Pending
    PROVE  ConnectOnce'
<1>1. queue \in Seq(Task) /\ Len(queue) \in Nat
  BY LenProperties DEF TypeOK, PoolTypes
<1>2. \A i \in 1..Len(queue) : queue[i] \in Pending
  BY PendingTyped
<1>3. CASE workers < Core
  BY <1>2, <1>3 DEF Submit, ConnectOnce
<1>4. CASE ~(workers < Core)
  <2>1. running' = others /\ queue' = Append(queue, t)
    BY <1>4 DEF Submit
  <2>2. /\ Len(queue') = Len(queue) + 1
        /\ \A i \in 1..Len(queue) : queue'[i] = queue[i]
        /\ queue'[Len(queue) + 1] = t
    BY <1>1, <2>1, AppendProperties
  <2>3. running \subseteq Pending
    BY PendingTyped
  <2>4. SUFFICES ASSUME NEW i \in 1..(Len(queue) + 1), queue'[i].kind = "connect"
                 PROVE  /\ queue'[i] \notin others
                        /\ \A j \in 1..(Len(queue) + 1) : queue'[i] = queue'[j] => i = j
    BY <2>1, <2>2 DEF ConnectOnce
  <2>5. CASE i = Len(queue) + 1
    <3>1. t.kind = "connect" /\ t \notin Pending
      BY <2>2, <2>4, <2>5
    <3>2. t \notin others
      BY <2>3, <3>1
    <3>3. ASSUME NEW j \in 1..Len(queue) PROVE t # queue'[j]
      BY <1>2, <2>2, <3>1
    <3> QED  BY <1>1, <2>2, <2>5, <3>2, <3>3
  <2>6. CASE i \in 1..Len(queue)
    <3>1. queue[i].kind = "connect" /\ queue'[i] = queue[i]
      BY <2>2, <2>4, <2>6
    <3>2. /\ queue[i] \notin running
          /\ \A j \in 1..Len(queue) : queue[i] = queue[j] => i = j
      BY <2>6, <3>1 DEF ConnectOnce
    <3>3. queue[i] \notin others
      BY <3>1, <3>2
    <3>4. queue[i] # t
      BY <1>2, <2>6, <3>1
    <3> QED  BY <1>1, <2>2, <3>1, <3>2, <3>3, <3>4
  <2> QED  BY <1>1, <2>5, <2>6
<1> QED  BY <1>3, <1>4

LEMMA TakeOnce ==
    ASSUME TypeOK, ConnectOnce, Take
    PROVE  ConnectOnce'
<1>1. queue \in Seq(Task) /\ queue # <<>> /\ queue' = Tail(queue)
      /\ running' = running \cup {Head(queue)}
  BY DEF Take, TypeOK, PoolTypes
<1>2. /\ Len(queue) \in Nat /\ Len(queue') = Len(queue) - 1
      /\ Head(queue) = queue[1]
      /\ \A i \in 1..Len(queue') : queue'[i] = queue[i + 1]
  BY <1>1, HeadTailProperties, LenProperties
<1>3. SUFFICES ASSUME NEW i \in 1..Len(queue'), queue'[i].kind = "connect"
               PROVE  /\ queue'[i] \notin running'
                      /\ \A j \in 1..Len(queue') : queue'[i] = queue'[j] => i = j
  BY DEF ConnectOnce
<1>4. /\ i + 1 \in 1..Len(queue) /\ 1 \in 1..Len(queue)
      /\ \A j \in 1..Len(queue') : j + 1 \in 1..Len(queue)
  BY <1>2
<1>5. /\ queue[i + 1] \notin running
      /\ \A j \in 1..Len(queue) : queue[i + 1] = queue[j] => i + 1 = j
  BY <1>2, <1>3, <1>4 DEF ConnectOnce
<1>6. queue[i + 1] # queue[1]
  BY <1>4, <1>5
<1>7. ASSUME NEW j \in 1..Len(queue'), queue'[i] = queue'[j] PROVE i = j
  <2>1. i + 1 = j + 1
    BY <1>2, <1>4, <1>5, <1>7
  <2> QED  BY <2>1
<1> QED  BY <1>1, <1>2, <1>5, <1>6, <1>7

\* What a step of task t adds is another stage of it, or one of its relays.
LEMMA WorkAdds ==
    ASSUME TypeOK, PoolBounded, NEW t \in running, Work(t), NEW u \in Pending'
    PROVE  u \in Pending \/ /\ u.client = t.client /\ u.name = t.name /\ u.kind # "connect"
                            /\ t.kind = "connect" => Reach(t)
<1>1. t \in Task /\ t.client \in Clients /\ t.name \in Names
  BY TaskShape DEF TypeOK, PoolTypes
<1>2. \A kind \in Kind : Advanced(t, kind) = (running \ {t}) \cup {task(kind, t.client, t.name)}
  BY <1>1, TaskShape DEF Advanced
<1>3. \A kind \in Kind : /\ task(kind, t.client, t.name).kind = kind
                         /\ task(kind, t.client, t.name).client = t.client
                         /\ task(kind, t.client, t.name).name = t.name
  BY <1>1, MadeTask
<1>4. CASE Reach(t)
  <2>1. Pending' = Advanced(t, "connected") \cup Waiting
    BY <1>4 DEF Reach, OthersKeep, Pending, Waiting
  <2> QED  BY <1>2, <1>3, <1>4, <2>1 DEF Pending, Kind
<1>5. CASE Miss(t) \/ Throw(t) \/ Return(t) \/ RelayEnds(t)
  BY <1>5 DEF Miss, Throw, Return, RelayEnds, OthersKeep, Pending, Waiting
<1>6. CASE SubmitClientRelay(t)
  <2>1. Pending' = Advanced(t, "half") \cup Waiting \cup {task("c2s", t.client, t.name)}
    BY <1>1, <1>6, MadeTask, RunningShrinks, SubmitAdds
       DEF SubmitClientRelay, PoolOK, TypeOK, Kind
  <2>2. t.kind = "connected"
    BY <1>6 DEF SubmitClientRelay
  <2> QED  BY <1>2, <1>3, <2>1, <2>2 DEF Pending, Kind
<1>7. CASE SubmitRemoteRelay(t)
  <2>1. Pending' = Advanced(t, "over") \cup Waiting \cup {task("s2c", t.client, t.name)}
    BY <1>1, <1>7, MadeTask, RunningShrinks, SubmitAdds
       DEF SubmitRemoteRelay, PoolOK, TypeOK, Kind
  <2>2. t.kind = "half"
    BY <1>7 DEF SubmitRemoteRelay
  <2> QED  BY <1>2, <1>3, <2>1, <2>2 DEF Pending, Kind
<1> QED
  BY <1>4, <1>5, <1>6, <1>7 DEF Work

\* What a step of task t does to the sockets.
LEMMA WorkSockets ==
    ASSUME TypeOK, NEW t \in running, Work(t)
    PROVE  /\ \A c \in Clients : /\ sock'[c] # sock[c] => c = t.client
                                 /\ sock'[c] = "none" => sock[c] = "none"
           /\ \A c \in Clients, n \in Names :
                 /\ remote'[<<c, n>>] # remote[<<c, n>>] => c = t.client /\ n = t.name
                 /\ remote'[<<c, n>>] = "none" => remote[<<c, n>>] = "none"
           /\ remote' # remote => Reach(t) \/ RelayEnds(t)
           /\ UNCHANGED <<peer, backlog, accVars, configVars>>
<1>1. t \in Task /\ t.client \in Clients /\ t.name \in Names
  BY TaskShape DEF TypeOK, PoolTypes
<1> USE DEF TypeOK, ClientTypes, CloseClient, OthersKeep
<1>2. CASE Reach(t)              BY <1>1, <1>2 DEF Reach
<1>3. CASE Miss(t)               BY <1>1, <1>3 DEF Miss
<1>4. CASE Throw(t)              BY <1>1, <1>4 DEF Throw
<1>5. CASE SubmitClientRelay(t)  BY <1>5 DEF SubmitClientRelay
<1>6. CASE SubmitRemoteRelay(t)  BY <1>6 DEF SubmitRemoteRelay
<1>7. CASE Return(t)             BY <1>7 DEF Return
<1>8. CASE RelayEnds(t)          BY <1>1, <1>8 DEF RelayEnds
<1> QED  BY <1>2, <1>3, <1>4, <1>5, <1>6, <1>7, <1>8 DEF Work

\* The pool touches nothing that was not touched, and accepts no client.
LEMMA PoolFrame ==
    ASSUME TypeOK, PoolBounded, Pool
    PROVE  /\ UNCHANGED <<peer, backlog, accVars, configVars>>
           /\ \A c \in Clients, n \in Names : Touched(c, n)' => Touched(c, n)
           /\ \A c \in Clients : sock'[c] # sock[c] => \E n \in Names : Touched(c, n)
           /\ \A c \in Clients : sock'[c] = "none" => sock[c] = "none"
<1>1. CASE Take
  <2>1. Pending' = Pending
    BY <1>1, TakeKeeps DEF PoolOK, TypeOK
  <2> QED  BY <1>1, <2>1 DEF Take, Touched, Tasks
<1>2. ASSUME NEW t \in running, Work(t)
      PROVE  /\ UNCHANGED <<peer, backlog, accVars, configVars>>
             /\ \A c \in Clients, n \in Names : Touched(c, n)' => Touched(c, n)
             /\ \A c \in Clients : sock'[c] # sock[c] => \E n \in Names : Touched(c, n)
             /\ \A c \in Clients : sock'[c] = "none" => sock[c] = "none"
  <2>1. t \in Task /\ t.client \in Clients /\ t.name \in Names /\ t \in Pending
    BY TaskShape, PendingTyped DEF TypeOK, PoolTypes
  <2>2. Tasks(t.client, t.name)
    BY <2>1 DEF Tasks
  <2>3. \A u \in Pending' : u \in Pending \/ (u.client = t.client /\ u.name = t.name)
    BY <1>2, WorkAdds
  <2>4. \A c \in Clients, n \in Names : Tasks(c, n)' => Tasks(c, n)
    BY <2>2, <2>3 DEF Tasks
  <2> QED  BY <1>2, <2>1, <2>2, <2>4, WorkSockets DEF Touched
<1> QED  BY <1>1, <1>2 DEF Pool

LEMMA PoolOnce ==
    ASSUME TypeOK, PoolBounded, ConnectFirst, ConnectOnce, Pool
    PROVE  ConnectFirst' /\ ConnectOnce'
<1>1. CASE Take
  <2>1. Pending' = Pending
    BY <1>1, TakeKeeps DEF PoolOK, TypeOK
  <2> QED  BY <1>1, <2>1, TakeOnce DEF Take, ConnectFirst
<1>2. ASSUME NEW t \in running, Work(t) PROVE ConnectFirst'
  <2>1. t \in Task /\ t.client \in Clients /\ t.name \in Names /\ t \in Pending
        /\ t = task(t.kind, t.client, t.name)
    BY TaskShape, PendingTyped DEF TypeOK, PoolTypes
  <2>2. SUFFICES ASSUME NEW u \in Pending'
                 PROVE  u.kind = "connect" <=> remote'[<<u.client, u.name>>] = "none"
    BY DEF ConnectFirst
  <2>3. u \in Pending \/ /\ u.client = t.client /\ u.name = t.name /\ u.kind # "connect"
                         /\ t.kind = "connect" => Reach(t)
    BY <1>2, WorkAdds
  <2>4. ASSUME Reach(t) PROVE remote'[<<t.client, t.name>>] = "open"
    BY <2>1, <2>4 DEF Reach, TypeOK, ClientTypes
  <2>5. CASE u \notin Pending
    <3>1. CASE Reach(t)
      BY <2>3, <2>4, <2>5, <3>1
    <3>2. CASE ~Reach(t)
      <4>1. remote[<<t.client, t.name>>] # "none"
        BY <2>1, <2>3, <2>5, <3>2 DEF ConnectFirst
      <4> QED  BY <1>2, <2>1, <2>3, <2>5, <4>1, WorkSockets
    <3> QED  BY <3>1, <3>2
  <2>6. CASE u \in Pending
    <3>1. /\ u.client \in Clients /\ u.name \in Names /\ u = task(u.kind, u.client, u.name)
          /\ u.kind = "connect" <=> remote[<<u.client, u.name>>] = "none"
      BY <2>6, PendingTyped, TaskShape DEF ConnectFirst
    <3>2. CASE ~(u.client = t.client /\ u.name = t.name)
      BY <1>2, <3>1, <3>2, WorkSockets
    <3>3. CASE u.client = t.client /\ u.name = t.name /\ Reach(t)
      <4>1. u.kind # "connect"
        <5>1. SUFFICES ASSUME u = t PROVE FALSE
          BY <2>1, <3>1, <3>3 DEF Reach
        <5>2. t.kind = "connect" /\ running' = Advanced(t, "connected") /\ queue' = queue
          BY <3>3 DEF Reach, OthersKeep
        <5>3. t \notin Advanced(t, "connected")
          <6>1. [t EXCEPT !.kind = "connected"].kind = "connected"
            BY <2>1, MadeTask, TaskShape DEF Kind
          <6> QED  BY <5>2, <6>1 DEF Advanced
        <5>4. t \notin Waiting
          BY <5>2 DEF ConnectOnce, Waiting
        <5> QED  BY <2>2, <5>1, <5>2, <5>3, <5>4 DEF Pending, Waiting
      <4> QED  BY <2>4, <3>3, <4>1
    <3>4. CASE u.client = t.client /\ u.name = t.name /\ RelayEnds(t)
      <4>1. remote[<<t.client, t.name>>] # "none"
        BY <2>1, <3>4 DEF ConnectFirst, RelayEnds
      <4> QED  BY <1>2, <2>1, <3>1, <3>4, <4>1, WorkSockets
    <3>5. CASE remote' = remote
      BY <3>1, <3>5
    <3> QED  BY <1>2, <3>2, <3>3, <3>4, <3>5, WorkSockets
  <2> QED  BY <2>5, <2>6
<1>3. ASSUME NEW t \in running, Work(t) PROVE ConnectOnce'
  <2>1. t \in Task /\ t.client \in Clients /\ t.name \in Names
    BY TaskShape DEF TypeOK, PoolTypes
  <2>2. ASSUME NEW kind \in {"connected", "half", "over"}, NEW u \in Advanced(t, kind)
        PROVE  u \in running \/ u.kind # "connect"
    BY <2>1, <2>2, MadeTask, TaskShape DEF Advanced, Kind
  <2>3. CASE Reach(t) \/ Miss(t) \/ Throw(t) \/ Return(t) \/ RelayEnds(t)
    <3>1. queue' = queue /\ \A u \in running' : u \in running \/ u.kind # "connect"
      BY <2>2, <2>3 DEF Reach, Miss, Throw, Return, RelayEnds, OthersKeep
    <3> QED  BY <3>1 DEF ConnectOnce
  <2>4. CASE SubmitClientRelay(t)
    <3>1. task("c2s", t.client, t.name) \in Task /\ task("c2s", t.client, t.name).kind = "c2s"
      BY <2>1, MadeTask DEF Kind
    <3> QED  BY <2>2, <2>4, <3>1, SubmitOnce DEF SubmitClientRelay
  <2>5. CASE SubmitRemoteRelay(t)
    <3>1. task("s2c", t.client, t.name) \in Task /\ task("s2c", t.client, t.name).kind = "s2c"
      BY <2>1, MadeTask DEF Kind
    <3> QED  BY <2>2, <2>5, <3>1, SubmitOnce DEF SubmitRemoteRelay
  <2> QED  BY <1>3, <2>3, <2>4, <2>5 DEF Work
<1> QED  BY <1>1, <1>2, <1>3 DEF Pool

-----------------------------------------------------------------------------
(* The invariant. *)

LEMMA InitServiceInv == Init => ServiceInv
<1> SUFFICES ASSUME Init PROVE ServiceInv
  OBVIOUS
<1>1. Len(<<>>) = 0 /\ Len(queue) = 0 /\ Len(backlog) = 0 /\ Len(snap) = 0
  BY EmptySeq DEF Init
<1>2. Pending = {}
  BY <1>1 DEF Init, Pending, Waiting
<1>3. \A c \in Clients, n \in Names : ~Touched(c, n)
  BY <1>2 DEF Init, Touched, Tasks
<1>4. NamesOnce(mappings) /\ NamesOnce(snap)
  BY <1>1, NamesAssumption DEF Init, NamesOnce
<1>5. ClientsKnown
  BY <1>3 DEF Init, ClientsKnown
<1>6. BacklogNew /\ ConnectFirst /\ ConnectOnce
  BY <1>1, <1>2 DEF BacklogNew, ConnectFirst, ConnectOnce
<1>7. CurrentNew
  BY <1>4 DEF Init, CurrentNew
<1> QED  BY <1>5, <1>6, <1>7 DEF ServiceInv

\* The pool's part of a step that leaves it, and the connections, alone.
LEMMA PoolAlone ==
    ASSUME UNCHANGED <<remote, poolVars>>
    PROVE  /\ Pending' = Pending
           /\ \A c, n : (Touched(c, n)' <=> Touched(c, n)) /\ (Tasks(c, n)' <=> Tasks(c, n))
           /\ ConnectFirst => ConnectFirst'
           /\ ConnectOnce => ConnectOnce'
<1>1. remote' = remote /\ running' = running /\ queue' = queue
  BY DEF poolVars
<1>2. Pending' = Pending
  BY <1>1 DEF Pending, Waiting
<1>3. \A c, n : (Touched(c, n)' <=> Touched(c, n)) /\ (Tasks(c, n)' <=> Tasks(c, n))
  BY <1>1, <1>2 DEF Touched, Tasks
<1>4. ConnectFirst => ConnectFirst'
  BY <1>1, <1>2 DEF ConnectFirst
<1>5. ConnectOnce => ConnectOnce'
  BY <1>1 DEF ConnectOnce
<1> QED  BY <1>2, <1>3, <1>4, <1>5

LEMMA ClientServiceInv ==
    ASSUME TypeOK, ServiceInv, ClientStep
    PROVE  ServiceInv'
<1>1. UNCHANGED <<sock, remote, accVars, configVars, poolVars, historyVars>>
  BY ClientTyped
<1>2. PICK c \in Clients : Connect(c) \/ Speak(c) \/ Leave(c) \/ Reset(c)
  BY DEF ClientStep
<1>3. \A d \in Clients : peer'[d] = "away" => peer[d] = "away"
  BY <1>2 DEF Connect, Speak, Leave, Reset, Turns, TypeOK, ClientTypes
<1>4. ClientsKnown'
  BY <1>1, <1>3, PoolAlone DEF ServiceInv, ClientsKnown
<1>5. CurrentNew'
  BY <1>1, PoolAlone DEF ServiceInv, CurrentNew, accVars, configVars
<1>6. BacklogNew'
  <2>0. backlog \in Seq(Clients) /\ Len(backlog) \in Nat
        /\ \A i \in 1..Len(backlog) : backlog[i] \in Clients
    BY LenProperties, ElementOfSeq DEF TypeOK, ClientTypes
  <2>1. CASE Connect(c)
    <3>1. /\ Len(backlog') = Len(backlog) + 1
          /\ \A i \in 1..Len(backlog) : backlog'[i] = backlog[i]
          /\ backlog'[Len(backlog) + 1] = c
      BY <2>0, <2>1, AppendProperties DEF Connect
    <3>2. /\ peer[c] = "away" /\ peer'[c] = "silent" /\ sock'[c] = "none"
          /\ \A d \in Clients : d # c => peer'[d] = peer[d]
      BY <1>1, <2>1 DEF Connect, TypeOK, ClientTypes, ServiceInv, ClientsKnown
    <3>3. \A i \in 1..Len(backlog) : /\ peer[backlog[i]] # "away" /\ sock[backlog[i]] = "none"
                                     /\ backlog[i] # c
      BY <3>2 DEF ServiceInv, BacklogNew
    <3>4. \A i \in 1..Len(backlog) : peer'[backlog[i]] # "away" /\ sock'[backlog[i]] = "none"
      BY <1>1, <2>0, <3>2, <3>3
    <3>5. ASSUME NEW i \in 1..(Len(backlog) + 1), NEW j \in 1..(Len(backlog) + 1),
                 backlog'[i] = backlog'[j]
          PROVE  i = j
      BY <2>0, <3>1, <3>3, <3>5 DEF ServiceInv, BacklogNew
    <3>6. ASSUME NEW i \in 1..(Len(backlog) + 1)
          PROVE  peer'[backlog'[i]] # "away" /\ sock'[backlog'[i]] = "none"
      BY <2>0, <3>1, <3>2, <3>4
    <3> QED  BY <3>1, <3>5, <3>6 DEF BacklogNew
  <2>2. CASE ~Connect(c)
    <3>1. backlog' = backlog
      BY <1>2, <2>2 DEF Speak, Leave, Reset, Turns
    <3> QED  BY <1>1, <1>3, <2>0, <3>1 DEF ServiceInv, BacklogNew
  <2> QED  BY <2>1, <2>2
<1> QED
  BY <1>1, <1>4, <1>5, <1>6, PoolAlone DEF ServiceInv

\* Marking an entry leaves the length of a list and its names as they were.
LEMMA MarkKeepsNames ==
    ASSUME NEW list \in Seq(Mapping), NEW j \in 1..Len(list), NEW enable \in BOOLEAN,
           NEW marked, marked = [list EXCEPT ![j].enable = enable]
    PROVE  /\ Len(marked) = Len(list)
           /\ \A i \in 1..Len(list) : marked[i].name = list[i].name
<1>1. \A i \in 1..Len(list) : list[i] \in Mapping
  BY ElementOfSeq
<1>2. marked = [list EXCEPT ![j] = [list[j] EXCEPT !.enable = enable]]
  OBVIOUS
<1>3. [list[j] EXCEPT !.enable = enable] \in Mapping
      /\ [list[j] EXCEPT !.enable = enable].name = list[j].name
  BY <1>1 DEF Mapping
<1>4. Len(marked) = Len(list)
      /\ \A i \in 1..Len(list) :
           marked[i] = IF i = j THEN [list[j] EXCEPT !.enable = enable] ELSE list[i]
  BY <1>1, <1>2, <1>3, ExceptSeq
<1> QED  BY <1>3, <1>4

LEMMA AdminServiceInv ==
    ASSUME TypeOK, ServiceInv, Admin
    PROVE  ServiceInv'
<1>1. UNCHANGED <<peer, backlog, sock, remote, acc, cur, isClose, poolVars, leaked>>
  BY AdminTyped
<1>2. UNCHANGED <<header, k>>
  BY DEF Admin, SetForward, SetReplaced, LoadData, Configured
<1>3. /\ NamesOnce(mappings') /\ NamesOnce(snap')
      /\ Len(snap') = Len(snap)
      /\ \A j \in 1..Len(snap) : snap'[j].name = snap[j].name
  <2>0. NamesOnce(mappings) /\ NamesOnce(snap)
    BY DEF ServiceInv, CurrentNew
  <2>1. ASSUME NEW j \in 1..Len(mappings), NEW enable \in BOOLEAN, SetForward(j, enable)
        PROVE  <1>3!1 /\ <1>3!2 /\ <1>3!3
    <3>1. mappings' = [mappings EXCEPT ![j].enable = enable]
      BY <2>1 DEF SetForward, Configured
    <3>2. mappings \in Seq(Mapping)
      BY DEF TypeOK, ConfigTypes
    <3>3. /\ Len(mappings') = Len(mappings)
          /\ \A i \in 1..Len(mappings) : mappings'[i].name = mappings[i].name
      BY <3>1, <3>2, MarkKeepsNames
    <3>4. NamesOnce(mappings')
      BY <2>0, <3>3 DEF NamesOnce
    <3>5. snap' = IF shared THEN mappings' ELSE snap
      BY <2>1 DEF SetForward
    <3>6. shared => snap = mappings
      BY DEF TypeOK, ConfigTypes
    <3> QED  BY <2>0, <3>3, <3>4, <3>5, <3>6
  <2>2. ASSUME NEW list \in Lists, NEW ruleList \in RuleLists, LoadData(list, ruleList)
        PROVE  <1>3!1 /\ <1>3!2 /\ <1>3!3
    BY <2>0, <2>2, NamesAssumption DEF LoadData, Configured, NamesOnce
  <2>3. ASSUME NEW j \in 1..Len(snap), NEW enable \in BOOLEAN, SetReplaced(j, enable)
        PROVE  <1>3!1 /\ <1>3!2 /\ <1>3!3
    <3>1. snap' = [snap EXCEPT ![j].enable = enable] /\ mappings' = mappings
      BY <2>3 DEF SetReplaced
    <3>2. snap \in Seq(Mapping)
      BY DEF TypeOK, AcceptorTypes
    <3>3. /\ Len(snap') = Len(snap)
          /\ \A i \in 1..Len(snap) : snap'[i].name = snap[i].name
      BY <3>1, <3>2, MarkKeepsNames
    <3> QED  BY <2>0, <3>1, <3>3 DEF NamesOnce
  <2> QED  BY <2>1, <2>2, <2>3 DEF Admin
<1>4. CurrentNew'
  <2>1. k \in 1..(Len(snap) + 1)
    BY DEF TypeOK, AcceptorTypes
  <2>2. acc = "match" => \A j \in k..Len(snap) : ~Touched(cur, snap'[j].name)
    <3>1. \A j \in k..Len(snap) : j \in 1..Len(snap)
      BY <2>1
    <3> QED  BY <1>3, <3>1 DEF ServiceInv, CurrentNew
  <2> QED
    BY <1>1, <1>2, <1>3, <2>2, PoolAlone DEF ServiceInv, CurrentNew
<1>5. ClientsKnown' /\ BacklogNew' /\ ConnectFirst' /\ ConnectOnce'
  BY <1>1, PoolAlone DEF ServiceInv, ClientsKnown, BacklogNew
<1> QED  BY <1>4, <1>5 DEF ServiceInv

LEMMA NamesTyped ==
    ASSUME NEW list \in Seq(Mapping)
    PROVE  \A j \in 1..Len(list) : list[j].name \in Names
<1>1. \A j \in 1..Len(list) : list[j] \in Mapping
  BY ElementOfSeq
<1> QED  BY <1>1 DEF Mapping

LEMMA PoolServiceInv ==
    ASSUME TypeOK, PoolBounded, ServiceInv, Pool
    PROVE  ServiceInv'
<1>1. /\ UNCHANGED <<peer, backlog, acc, cur, header, snap, k, mappings>>
      /\ \A c \in Clients, n \in Names : Touched(c, n)' => Touched(c, n)
      /\ \A c \in Clients : sock'[c] # sock[c] => \E n \in Names : Touched(c, n)
      /\ \A c \in Clients : sock'[c] = "none" => sock[c] = "none"
  BY PoolFrame DEF accVars, configVars
<1>2. \A c \in Clients : sock'[c] = "none" <=> sock[c] = "none"
  BY <1>1 DEF ServiceInv, ClientsKnown
<1>3. ClientsKnown'
  BY <1>1, <1>2 DEF ServiceInv, ClientsKnown
<1>4. BacklogNew'
  <2>1. \A i \in 1..Len(backlog) : backlog[i] \in Clients
    BY ElementOfSeq DEF TypeOK, ClientTypes
  <2> QED  BY <1>1, <1>2, <2>1 DEF ServiceInv, BacklogNew
<1>5. CurrentNew'
  <2>1. acc # "accept" => cur \in Clients
    BY DEF TypeOK, AcceptorTypes
  <2>2. \A j \in k..Len(snap) : snap[j].name \in Names
    <3>1. \A j \in k..Len(snap) : j \in 1..Len(snap)
      BY DEF TypeOK, AcceptorTypes
    <3> QED  BY <3>1, NamesTyped DEF TypeOK, AcceptorTypes
  <2> QED  BY <1>1, <1>2, <2>1, <2>2 DEF ServiceInv, CurrentNew
<1> QED  BY <1>3, <1>4, <1>5, PoolOnce DEF ServiceInv

\* The entry the loop forwards to is touched by it, and was not before.
LEMMA ForwardTouches ==
    ASSUME TypeOK, PoolBounded, ServiceInv, ForwardEntry
    PROVE  LET t == task("connect", cur, snap[k].name) IN
           /\ t \in Task /\ t \notin Pending
           /\ t.kind = "connect" /\ t.client = cur /\ t.name = snap[k].name
           /\ Pending' = Pending \cup {t}
           /\ cur \in Clients /\ snap[k].name \in Names /\ k \in 1..Len(snap)
           /\ ~Touched(cur, snap[k].name)
<1>1. cur \in Clients /\ snap[k].name \in Names /\ k \in 1..Len(snap) /\ acc = "match"
  BY EntryTyped DEF ForwardEntry, AtEntry, Mapping
<1> DEFINE t == task("connect", cur, snap[k].name)
<1>2. t \in Task /\ t.kind = "connect" /\ t.client = cur /\ t.name = snap[k].name
  BY <1>1, MadeTask DEF Kind
<1>3. Pending' = Pending \cup {t}
  BY <1>2, SubmitAdds
     DEF ForwardEntry, PoolOK, TypeOK, PoolTypes, PoolBounded, Pending
<1>4. ~Touched(cur, snap[k].name)
  BY <1>1 DEF ServiceInv, CurrentNew
<1>5. t \notin Pending
  BY <1>2, <1>4 DEF Touched, Tasks
<1> QED  BY <1>1, <1>2, <1>3, <1>4, <1>5

LEMMA AcceptorServiceInv ==
    ASSUME TypeOK, PoolBounded, ServiceInv, Acceptor
    PROVE  ServiceInv'
<1>0. /\ acc # "accept" => cur \in Clients
      /\ k \in 1..(Len(snap) + 1) /\ Len(snap) \in Nat
      /\ NamesOnce(mappings) /\ NamesOnce(snap) /\ NamesOnce(<<>>)
  BY EmptySeq, LenProperties
     DEF TypeOK, AcceptorTypes, ServiceInv, CurrentNew, NamesOnce
<1>1. backlog \in Seq(Clients) /\ \A i \in 1..Len(backlog) : backlog[i] \in Clients
  BY ElementOfSeq DEF TypeOK, ClientTypes
<1> USE DEF historyVars, configVars
<1>2. ASSUME NEW c \in Clients, CloseClient(c), sock[c] # "none"
      PROVE  \A d \in Clients : sock'[d] = "none" <=> sock[d] = "none"
  BY <1>2 DEF CloseClient, TypeOK, ClientTypes
\* Nothing but the sockets of clients that have one, and the acceptor's locals.
<1>3. ASSUME UNCHANGED <<peer, backlog, remote, poolVars, mappings>>,
             \A d \in Clients : sock'[d] = "none" <=> sock[d] = "none"
      PROVE  ClientsKnown' /\ BacklogNew' /\ ConnectFirst' /\ ConnectOnce'
  BY <1>1, <1>3, PoolAlone DEF ServiceInv, ClientsKnown, BacklogNew
<1>4. ASSUME NextTurn, UNCHANGED mappings PROVE CurrentNew'
  BY <1>0, <1>4 DEF NextTurn, CurrentNew
<1>5. CASE Accept
  <2>1. /\ Len(backlog) \in Nat /\ Len(backlog) > 0 /\ Len(backlog') = Len(backlog) - 1
        /\ cur' = backlog[1] /\ backlog[1] \in Clients
        /\ \A i \in 1..Len(backlog') : backlog'[i] = backlog[i + 1] /\ i + 1 \in 1..Len(backlog)
    BY <1>1, <1>5, HeadTailProperties, LenProperties DEF Accept
  <2>2. /\ sock'[cur'] = "open" /\ sock[cur'] = "none" /\ peer[cur'] # "away"
        /\ \A d \in Clients : d # cur' => sock'[d] = sock[d]
        /\ acc' = "filter"
        /\ UNCHANGED <<peer, remote, poolVars, snap, mappings>>
    BY <1>5, <2>1 DEF Accept, ServiceInv, BacklogNew, TypeOK, ClientTypes
  <2>3. ClientsKnown'
    BY <2>1, <2>2, PoolAlone DEF ServiceInv, ClientsKnown
  <2>4. BacklogNew'
    <3>1. \A i \in 1..Len(backlog') : backlog'[i] \in Clients /\ backlog'[i] # cur'
      BY <1>1, <2>1 DEF ServiceInv, BacklogNew
    <3>2. ASSUME NEW i \in 1..Len(backlog')
          PROVE  peer'[backlog'[i]] # "away" /\ sock'[backlog'[i]] = "none"
      <4>1. peer[backlog'[i]] # "away" /\ sock[backlog'[i]] = "none"
        BY <2>1 DEF ServiceInv, BacklogNew
      <4> QED  BY <2>2, <3>1, <4>1
    <3>3. ASSUME NEW i \in 1..Len(backlog'), NEW j \in 1..Len(backlog'), backlog'[i] = backlog'[j]
          PROVE  i = j
      <4>1. i + 1 = j + 1
        BY <2>1, <3>3 DEF ServiceInv, BacklogNew
      <4> QED  BY <4>1
    <3> QED  BY <3>2, <3>3 DEF BacklogNew
  <2>5. CurrentNew'
    <3>1. \A n \in Names : ~Touched(cur', n)
      BY <2>1, <2>2 DEF ServiceInv, ClientsKnown
    <3>2. \A n \in Names : ~Touched(cur, n)'
      BY <2>2, <3>1, PoolAlone DEF Touched, Tasks
    <3> QED  BY <1>0, <2>2, <3>2 DEF CurrentNew
  <2> QED  BY <2>2, <2>3, <2>4, <2>5, PoolAlone DEF ServiceInv
<1>6. CASE Admit
  <2>1. UNCHANGED <<peer, backlog, sock, remote, poolVars, mappings, snap, cur>>
        /\ acc = "filter" /\ acc' = "read"
    BY <1>6 DEF Admit
  <2>2. CurrentNew'
    BY <2>1, PoolAlone DEF ServiceInv, CurrentNew
  <2> QED  BY <1>3, <2>1, <2>2 DEF ServiceInv
<1>7. CASE Reject
  <2>1. \A d \in Clients : sock'[d] = "none" <=> sock[d] = "none"
    BY <1>0, <1>2, <1>7 DEF Reject, ServiceInv, CurrentNew
  <2> QED  BY <1>3, <1>4, <1>7, <2>1 DEF Reject, ServiceInv
<1>8. CASE ReadHeader
  <2>1. UNCHANGED <<peer, backlog, sock, remote, poolVars, mappings, cur>>
        /\ acc = "read" /\ acc' = "match" /\ k' = 1 /\ snap' = mappings
        /\ header' \subseteq Mentions[cur]
    BY <1>8, CutsAssumption DEF ReadHeader, TypeOK, AcceptorTypes
  <2>2. \A j \in 1..Len(mappings) : mappings[j].name \in Names
    BY NamesTyped DEF TypeOK, ConfigTypes
  <2>3. CurrentNew'
    BY <1>0, <2>1, <2>2, PoolAlone DEF ServiceInv, CurrentNew
  <2> QED  BY <1>3, <2>1, <2>3 DEF ServiceInv
<1>9. CASE ReadThrows
  BY <1>3, <1>4, <1>9 DEF ReadThrows, ServiceInv
<1>10. CASE SkipEntry
  <2>1. UNCHANGED <<peer, backlog, sock, remote, poolVars, mappings, snap, cur, acc, header>>
        /\ k' = k + 1
    BY <1>10 DEF SkipEntry
  <2>2. \A j \in k'..Len(snap) : j \in k..Len(snap)
    BY <1>0, <2>1
  <2>3. CurrentNew'
    BY <2>1, <2>2, PoolAlone DEF ServiceInv, CurrentNew
  <2> QED  BY <1>3, <2>1, <2>3 DEF ServiceInv
<1>11. CASE RefuseEntry
  <2>1. UNCHANGED <<peer, backlog, remote, poolVars, mappings, snap, cur, acc, header>>
        /\ k' = k + 1 /\ CloseClient(cur) /\ acc = "match" /\ cur \in Clients
    BY <1>0, <1>11 DEF RefuseEntry, AtEntry
  <2>2. \A j \in k'..Len(snap) : j \in k..Len(snap)
    BY <1>0, <2>1
  <2>3. sock[cur] # "none" /\ \A d \in Clients : sock'[d] = "none" <=> sock[d] = "none"
    BY <1>2, <2>1 DEF ServiceInv, CurrentNew
  <2>4. CurrentNew'
    BY <2>1, <2>2, <2>3, PoolAlone DEF ServiceInv, CurrentNew
  <2> QED  BY <1>3, <2>1, <2>3, <2>4 DEF ServiceInv
<1>12. CASE ForwardEntry
  <2> DEFINE t == task("connect", cur, snap[k].name)
  <2>1. /\ t \in Task /\ t \notin Pending
        /\ t.kind = "connect" /\ t.client = cur /\ t.name = snap[k].name
        /\ Pending' = Pending \cup {t}
        /\ cur \in Clients /\ snap[k].name \in Names /\ k \in 1..Len(snap)
        /\ ~Touched(cur, snap[k].name)
    BY <1>12, ForwardTouches
  <2>2. /\ UNCHANGED <<peer, backlog, sock, remote, mappings, snap, cur, acc, header>>
        /\ k' = k + 1 /\ acc = "match" /\ snap[k].name \in header /\ Submit(t, running)
    BY <1>12 DEF ForwardEntry, AtEntry, Matches
  <2> HIDE DEF t
  <2>3. \A c \in Clients, n \in Names :
           Touched(c, n)' => Touched(c, n) \/ (c = cur /\ n = snap[k].name)
    BY <2>1, <2>2 DEF Touched, Tasks
  <2>4. ClientsKnown'
    BY <2>1, <2>2, <2>3 DEF ServiceInv, ClientsKnown, CurrentNew
  <2>5. BacklogNew'
    BY <2>2 DEF ServiceInv, BacklogNew
  <2>6. CurrentNew'
    <3>1. ASSUME NEW j \in (k + 1)..Len(snap) PROVE ~Touched(cur, snap[j].name)'
      <4>1. j \in 1..Len(snap) /\ j \in k..Len(snap) /\ j # k
        BY <2>1
      <4>2. snap[j].name \in Names /\ snap[j].name # snap[k].name
        BY <1>0, <2>1, <4>1, NamesTyped DEF NamesOnce, TypeOK, AcceptorTypes
      <4>3. ~Touched(cur, snap[j].name)
        BY <2>2, <4>1 DEF ServiceInv, CurrentNew
      <4>4. ~Tasks(cur, snap[j].name)'
        BY <2>1, <2>2, <4>2, <4>3 DEF Tasks, Touched
      <4> QED  BY <2>2, <4>3, <4>4 DEF Touched
    <3> QED  BY <1>0, <2>2, <3>1 DEF ServiceInv, CurrentNew, Touched, Tasks
  <2>7. ConnectFirst'
    BY <2>1, <2>2 DEF ServiceInv, ConnectFirst, Touched
  <2>8. ConnectOnce'
    BY <2>1, <2>2, SubmitOnce DEF ServiceInv
  <2> QED  BY <2>4, <2>5, <2>6, <2>7, <2>8 DEF ServiceInv
<1>13. CASE EndMatch
  <2>1. \A d \in Clients : sock'[d] = "none" <=> sock[d] = "none"
    BY <1>0, <1>2, <1>13 DEF EndMatch, ServiceInv, CurrentNew
  <2> QED  BY <1>3, <1>4, <1>13, <2>1 DEF EndMatch, ServiceInv
<1> QED
  BY <1>5, <1>6, <1>7, <1>8, <1>9, <1>10, <1>11, <1>12, <1>13 DEF Acceptor

LEMMA ServiceInvHolds == Spec => []ServiceInv
<1>1. TypeOK /\ PoolBounded /\ ServiceInv /\ [Next]_vars => ServiceInv'
  <2> SUFFICES ASSUME TypeOK, PoolBounded, ServiceInv, [Next]_vars PROVE ServiceInv'
    OBVIOUS
  <2>1. CASE ClientStep  BY <2>1, ClientServiceInv
  <2>2. CASE Acceptor    BY <2>2, AcceptorServiceInv
  <2>3. CASE Pool        BY <2>3, PoolServiceInv
  <2>4. CASE Admin       BY <2>4, AdminServiceInv
  <2>5. CASE UNCHANGED vars
    <3>1. UNCHANGED <<peer, backlog, sock, remote, accVars, configVars, poolVars>>
      BY <2>5 DEF vars, accVars, configVars, poolVars
    <3> QED
      BY <3>1, PoolAlone DEF ServiceInv, ClientsKnown, BacklogNew, CurrentNew, accVars, configVars
  <2> QED  BY <2>1, <2>2, <2>3, <2>4, <2>5 DEF Next, ClientStep
<1> QED
  BY <1>1, InitServiceInv, Typed, PTL DEF Spec

-----------------------------------------------------------------------------
(* The refinement. *)

LEMMA SamePasses == \A list, host : Promise!Passes(list, host) <=> Passes(list, host)
  BY DEF Passes, Admits, SegmentMatches, AllHosts, AnySegment, Promise!Passes,
         Promise!Admits, Promise!SegmentMatches, Promise!AllHosts, Promise!AnySegment

\* "standing" without overlapping cases.
Served(c) == (c = cur /\ acc # "filter") \/ \E t \in Pending : t.client = c
StandingOf(c) == IF peer[c] = "away" THEN "away"
                 ELSE IF sock[c] = "none" THEN "waiting"
                 ELSE IF c = cur /\ acc = "filter" THEN "held"
                 ELSE IF Served(c) THEN "served" ELSE "gone"
Standing == standing = [c \in Clients |-> StandingOf(c)]
Safe == TypeOK /\ PoolBounded /\ RemotePaired /\ ServiceInv

LEMMA ServedNotNew ==
    ASSUME TypeOK, ServiceInv, NEW t \in Pending
    PROVE  /\ t.client \in Clients /\ t.name \in Names
           /\ sock[t.client] # "none" /\ peer[t.client] # "away"
           /\ t.name \in Mentions[t.client]
           /\ ~(t.client = cur /\ acc \in {"filter", "read"})
<1>1. t.client \in Clients /\ t.name \in Names
  BY PendingTyped, TaskShape
<1>2. Touched(t.client, t.name)
  BY DEF Touched, Tasks
<1> QED  BY <1>1, <1>2 DEF ServiceInv, ClientsKnown, CurrentNew

LEMMA StandingAs == TypeOK /\ ServiceInv => Standing
<1> SUFFICES ASSUME TypeOK, ServiceInv PROVE Standing
  OBVIOUS
<1>1. ASSUME NEW c \in Clients PROVE standing[c] = StandingOf(c)
  <2>1. c = cur => acc # "accept" /\ sock[c] # "none" /\ peer[c] # "away"
    BY ClientAssumption DEF TypeOK, AcceptorTypes, ServiceInv, CurrentNew, ClientsKnown
  <2>2. peer[c] = "away" => sock[c] = "none"
    BY DEF ServiceInv, ClientsKnown
  <2>3. (\E t \in Pending : t.client = c) =>
           sock[c] # "none" /\ peer[c] # "away" /\ ~(c = cur /\ acc = "filter")
    BY ServedNotNew
  <2> QED  BY <2>1, <2>2, <2>3 DEF standing, StandingOf, Served
<1>2. standing = [c \in Clients |-> standing[c]]
  BY DEF standing
<1> QED  BY <1>1, <1>2 DEF Standing

LEMMA StandingAsNext == (TypeOK /\ ServiceInv)' => Standing'
  BY StandingAs, PTL

\* How a change of one client's standing is a step of Service.
LEMMA TurnIs ==
    ASSUME Standing, Standing', NEW c \in Clients,
           \A d \in Clients : d # c => StandingOf(d)' = StandingOf(d)
    PROVE  /\ Promise!Turns(c, StandingOf(c), StandingOf(c)')
           /\ StandingOf(c)' = StandingOf(c) => standing' = standing
           /\ standing[c] = StandingOf(c)
  BY DEF Standing, Promise!Turns

LEMMA StandingKept ==
    ASSUME Standing, Standing', \A d \in Clients : StandingOf(d)' = StandingOf(d)
    PROVE  standing' = standing
  BY DEF Standing

\* What a client is to the service depends on nothing else.
LEMMA StandingFrame ==
    ASSUME NEW d \in Clients, peer'[d] = "away" <=> peer[d] = "away",
           sock'[d] = "none" <=> sock[d] = "none",
           (d = cur /\ acc = "filter")' <=> (d = cur /\ acc = "filter"),
           Served(d)' <=> Served(d)
    PROVE  StandingOf(d)' = StandingOf(d)
  BY DEF StandingOf

PromiseStep == [Promise!Next]_(Promise!vars)

LEMMA ClientRefines ==
    ASSUME Safe, Standing, Standing', ClientStep
    PROVE  PromiseStep
<1>1. UNCHANGED <<sock, remote, accVars, configVars, poolVars, historyVars>>
  BY ClientTyped DEF Safe
<1>2. PICK c \in Clients : Connect(c) \/ Speak(c) \/ Leave(c) \/ Reset(c)
  BY DEF ClientStep
<1>3. \A d \in Clients : Served(d)' <=> Served(d)
  BY <1>1, PoolAlone DEF Served, accVars
<1>4. UNCHANGED <<remote, rules, acc, cur, sock>>
  BY <1>1 DEF configVars, accVars
<1>5. \A d \in Clients : d # c => peer'[d] = peer[d]
  BY <1>2 DEF Connect, Speak, Leave, Reset, Turns, Safe, TypeOK, ClientTypes
<1>6. \A d \in Clients : d # c => StandingOf(d)' = StandingOf(d)
  BY <1>3, <1>4, <1>5, StandingFrame
<1>7. CASE Connect(c)
  <2>1. peer[c] = "away" /\ peer'[c] = "silent" /\ sock'[c] = "none"
    BY <1>4, <1>7 DEF Connect, Safe, TypeOK, ClientTypes, ServiceInv, ClientsKnown
  <2>2. StandingOf(c) = "away" /\ StandingOf(c)' = "waiting"
    BY <2>1 DEF StandingOf
  <2>3. Promise!Turns(c, "away", "waiting")
    BY <1>6, <2>2, TurnIs
  <2> QED  BY <1>4, <2>3 DEF PromiseStep, Promise!Next, Promise!Arrive
<1>8. CASE ~Connect(c)
  <2>1. peer[c] # "away" /\ peer'[c] # "away"
    BY <1>2, <1>8 DEF Speak, Leave, Reset, Turns, Unread, Safe, TypeOK, ClientTypes
  <2>2. StandingOf(c)' = StandingOf(c)
    BY <1>3, <1>4, <2>1, StandingFrame
  <2>3. standing' = standing
    BY <1>6, <2>2, StandingKept
  <2> QED  BY <1>4, <2>3 DEF PromiseStep, Promise!vars
<1> QED  BY <1>7, <1>8

LEMMA AdminRefines ==
    ASSUME Safe, Standing, Standing', Admin
    PROVE  PromiseStep
<1>1. UNCHANGED <<peer, sock, remote, acc, cur, poolVars>>
  BY AdminTyped DEF Safe
<1>2. \A d \in Clients : Served(d)' <=> Served(d)
  BY <1>1, PoolAlone DEF Served
<1>3. standing' = standing
  BY <1>1, <1>2, StandingFrame, StandingKept
<1>4. rules' \in RuleLists
  BY DEF Safe, TypeOK, ConfigTypes, Admin, SetForward, SetReplaced, LoadData
<1> QED  BY <1>1, <1>3, <1>4 DEF PromiseStep, Promise!Next, Promise!Reconfigure

\* No task of a client is left: no connection of it is open.
LEMMA NothingOpen ==
    ASSUME TypeOK, RemotePaired, NEW c \in Clients, \A t \in Pending : t.client # c
    PROVE  \A n \in Names : remote[<<c, n>>] # "open"
<1> SUFFICES ASSUME NEW n \in Names, remote[<<c, n>>] = "open" PROVE FALSE
  OBVIOUS
<1>1. \E kind \in {"connected", "half", "c2s"} : task(kind, c, n) \in Pending
  BY PendingTyped DEF RemotePaired
<1> QED  BY <1>1, MadeTask DEF Kind

LEMMA NothingOpenNext ==
    ASSUME NEW c \in Clients
    PROVE  (TypeOK /\ RemotePaired /\ \A t \in Pending : t.client # c)' =>
              \A n \in Names : remote'[<<c, n>>] # "open"
<1> DEFINE Before == TypeOK /\ RemotePaired /\ \A t \in Pending : t.client # c
           After == \A n \in Names : remote[<<c, n>>] # "open"
<1>1. Before => After
  BY NothingOpen
<1>2. Before' => After'
  BY <1>1, PTL
<1> QED  BY <1>2

\* A client that has nothing left to wait for is let go.
LEMMA LeaveRefines ==
    ASSUME Standing, Standing', NEW c \in Clients,
           \A d \in Clients : d # c => StandingOf(d)' = StandingOf(d),
           StandingOf(c) = "served", StandingOf(c)' \in {"served", "gone"},
           UNCHANGED <<remote, rules>>,
           StandingOf(c)' = "gone" => \A n \in Names : remote[<<c, n>>] # "open"
    PROVE  PromiseStep
<1>1. CASE StandingOf(c)' = "gone"
  <2>1. Promise!Turns(c, "served", "gone")
    BY <1>1, TurnIs
  <2> QED  BY <1>1, <2>1 DEF PromiseStep, Promise!Next, Promise!Leave
<1>2. CASE StandingOf(c)' = "served"
  BY <1>2, StandingKept DEF PromiseStep, Promise!vars
<1> QED  BY <1>1, <1>2

LEMMA AcceptorRefines ==
    ASSUME Safe, Safe', Standing, Standing', Acceptor
    PROVE  PromiseStep
<1> USE DEF Safe, configVars, historyVars
<1>0. /\ acc # "accept" => cur \in Clients
      /\ acc = "accept" => cur = NoClient
      /\ NoClient \notin Clients
  BY ClientAssumption DEF TypeOK, AcceptorTypes
<1>a. ASSUME NEW c \in Clients, c = cur
      PROVE  /\ acc # "accept" /\ sock[c] # "none" /\ peer[c] # "away"
             /\ StandingOf(c) = IF acc = "filter" THEN "held" ELSE "served"
  BY <1>0, <1>a DEF ServiceInv, CurrentNew, ClientsKnown, StandingOf, Served
<1>1. UNCHANGED <<remote, rules, peer>>
  BY DEF Acceptor, Accept, Admit, Reject, ReadHeader, ReadThrows, SkipEntry,
         RefuseEntry, ForwardEntry, EndMatch
<1>2. acc \in {"filter", "read"} => \A t \in Pending : t.client # cur
  BY ServedNotNew
<1>3. \A c \in Clients : CloseClient(c) => /\ sock'[c] = "closed"
                                         /\ \A d \in Clients : d # c => sock'[d] = sock[d]
  BY DEF CloseClient, TypeOK, ClientTypes
\* The turn ends: nobody else is concerned, and cur is nobody's.
<1>4. ASSUME NextTurn, UNCHANGED poolVars, NEW c \in Clients, c = cur, sock'[c] # "none",
             \A d \in Clients : d # c => sock'[d] = sock[d]
      PROVE  /\ \A d \in Clients : d # c => StandingOf(d)' = StandingOf(d)
             /\ StandingOf(c)' = IF \E t \in Pending : t.client = c THEN "served" ELSE "gone"
  <2>1. acc' = "accept" /\ cur' = NoClient /\ Pending' = Pending
    BY <1>1, <1>4, PoolAlone DEF NextTurn
  <2>2. \A d \in Clients : d # c => (Served(d)' <=> Served(d))
    BY <1>0, <1>4, <2>1 DEF Served
  <2>3. \A d \in Clients : d # c => StandingOf(d)' = StandingOf(d)
    BY <1>0, <1>1, <1>4, <2>1, <2>2, StandingFrame
  <2>4. peer[c] # "away"
    BY <1>4, <1>a
  <2> QED  BY <1>0, <1>1, <1>4, <2>1, <2>3, <2>4 DEF StandingOf, Served
\* The client is served before and after.
<1>5. ASSUME acc \in {"read", "match"}, acc' \in {"read", "match"}, cur' = cur,
             NEW c \in Clients, c = cur, sock'[c] # "none",
             \A d \in Clients : d # c => sock'[d] = sock[d],
             \A d \in Clients : d # c => (Served(d)' <=> Served(d))
      PROVE  PromiseStep
  <2>1. Served(c) /\ Served(c)' /\ sock[c] # "none"
    BY <1>5, <1>a DEF Served
  <2>2. StandingOf(c)' = StandingOf(c)
    BY <1>1, <1>5, <2>1, StandingFrame
  <2>3. \A d \in Clients : d # c => StandingOf(d)' = StandingOf(d)
    BY <1>1, <1>5, StandingFrame
  <2> QED  BY <1>1, <2>2, <2>3, StandingKept DEF PromiseStep, Promise!vars
<1>6. CASE Accept
  <2>1. cur' = backlog[1] /\ backlog[1] \in Clients /\ Len(backlog) \in Nat /\ Len(backlog) > 0
    BY <1>6, HeadTailProperties, LenProperties, ElementOfSeq DEF Accept, TypeOK, ClientTypes
  <2>2. /\ acc = "accept" /\ acc' = "filter" /\ UNCHANGED poolVars
        /\ sock' = [sock EXCEPT ![cur'] = "open"]
    BY <1>6, <2>1 DEF Accept
  <2>3. /\ sock[cur'] = "none" /\ peer[cur'] # "away" /\ sock'[cur'] = "open"
        /\ \A d \in Clients : d # cur' => sock'[d] = sock[d]
    BY <2>1, <2>2 DEF ServiceInv, BacklogNew, TypeOK, ClientTypes
  <2>5. \A d \in Clients : d # cur' => (Served(d)' <=> Served(d))
    BY <1>0, <1>1, <2>2, PoolAlone DEF Served
  <2>6. \A d \in Clients : d # cur' => StandingOf(d)' = StandingOf(d)
    BY <1>0, <1>1, <2>2, <2>3, <2>5, StandingFrame
  <2>7. PICK c \in Clients : c = cur'
    BY <2>1
  <2>8. StandingOf(c) = "waiting" /\ StandingOf(c)' = "held"
    BY <1>1, <2>2, <2>3, <2>7 DEF StandingOf
  <2>9. Promise!Turns(c, "waiting", "held")
    BY <2>6, <2>7, <2>8, TurnIs
  <2> QED  BY <1>1, <2>9 DEF PromiseStep, Promise!Next, Promise!Accept
<1>7. CASE Admit
  <2>1. /\ acc = "filter" /\ acc' = "read" /\ UNCHANGED <<sock, cur, poolVars>>
        /\ Passes(rules, HostOf[cur])
    BY <1>7 DEF Admit
  <2>2. PICK c \in Clients : c = cur
    BY <1>0, <2>1
  <2>3. \A d \in Clients : d # c => (Served(d)' <=> Served(d))
    BY <1>1, <2>1, <2>2, PoolAlone DEF Served
  <2>4. \A d \in Clients : d # c => StandingOf(d)' = StandingOf(d)
    BY <1>1, <2>1, <2>2, <2>3, StandingFrame
  <2>5. StandingOf(c) = "held" /\ StandingOf(c)' = "served"
    BY <1>1, <1>a, <2>1, <2>2 DEF StandingOf, Served
  <2>6. Promise!Turns(c, "held", "served")
    BY <2>4, <2>5, TurnIs
  <2> QED
    BY <1>1, <2>1, <2>2, <2>6, SamePasses DEF PromiseStep, Promise!Next, Promise!Admit
<1>8. CASE Reject
  <2>1. /\ acc = "filter" /\ NextTurn /\ UNCHANGED poolVars /\ CloseClient(cur)
        /\ ~Passes(rules, HostOf[cur])
    BY <1>8 DEF Reject
  <2>2. PICK c \in Clients : c = cur
    BY <1>0, <2>1
  <2>3. sock'[c] = "closed" /\ \A d \in Clients : d # c => sock'[d] = sock[d]
    BY <1>3, <2>1, <2>2
  <2>4. StandingOf(c) = "held"
    BY <1>a, <2>1, <2>2
  <2>5. /\ StandingOf(c)' = "gone"
        /\ \A d \in Clients : d # c => StandingOf(d)' = StandingOf(d)
    BY <1>2, <1>4, <2>1, <2>2, <2>3
  <2>6. Promise!Turns(c, "held", "gone")
    BY <2>4, <2>5, TurnIs
  <2> QED
    BY <1>1, <2>1, <2>2, <2>6, SamePasses DEF PromiseStep, Promise!Next, Promise!Reject
<1>9. CASE ReadHeader
  <2>1. /\ acc = "read" /\ acc' = "match" /\ UNCHANGED <<cur, sock, poolVars>>
    BY <1>9 DEF ReadHeader
  <2>2. \A d \in Clients : d # cur => (Served(d)' <=> Served(d))
    BY <1>1, <2>1, PoolAlone DEF Served
  <2>3. PICK c \in Clients : c = cur
    BY <1>0, <2>1
  <2>4. sock'[c] # "none" /\ \A d \in Clients : d # c => sock'[d] = sock[d]
    BY <1>3, <1>a, <2>1, <2>3
  <2> QED  BY <1>5, <2>1, <2>2, <2>3, <2>4
<1>10. CASE ReadThrows
  <2>1. acc = "read" /\ NextTurn /\ UNCHANGED <<sock, poolVars>>
    BY <1>10 DEF ReadThrows
  <2>2. PICK c \in Clients : c = cur
    BY <1>0, <2>1
  <2>3. StandingOf(c) = "served" /\ sock[c] # "none"
    BY <1>a, <2>1, <2>2
  <2>4. /\ StandingOf(c)' = "gone"
        /\ \A d \in Clients : d # c => StandingOf(d)' = StandingOf(d)
    BY <1>2, <1>4, <2>1, <2>2, <2>3
  <2>5. \A n \in Names : remote[<<c, n>>] # "open"
    BY <2>1, <2>2 DEF ServiceInv, CurrentNew, Touched
  <2> QED  BY <1>1, <2>3, <2>4, <2>5, LeaveRefines
<1>11. CASE SkipEntry
  <2>1. acc = "match" /\ UNCHANGED <<acc, cur, sock, poolVars>>
    BY <1>11 DEF SkipEntry, AtEntry
  <2>2. \A d \in Clients : d # cur => (Served(d)' <=> Served(d))
    BY <1>1, <2>1, PoolAlone DEF Served
  <2>3. PICK c \in Clients : c = cur
    BY <1>0, <2>1
  <2>4. sock'[c] # "none" /\ \A d \in Clients : d # c => sock'[d] = sock[d]
    BY <1>3, <1>a, <2>1, <2>3
  <2> QED  BY <1>5, <2>1, <2>2, <2>3, <2>4
<1>12. CASE RefuseEntry
  <2>1. acc = "match" /\ UNCHANGED <<acc, cur, poolVars>> /\ CloseClient(cur)
    BY <1>12 DEF RefuseEntry, AtEntry
  <2>2. \A d \in Clients : d # cur => (Served(d)' <=> Served(d))
    BY <1>1, <2>1, PoolAlone DEF Served
  <2>3. PICK c \in Clients : c = cur
    BY <1>0, <2>1
  <2>4. sock'[c] # "none" /\ \A d \in Clients : d # c => sock'[d] = sock[d]
    BY <1>3, <1>a, <2>1, <2>3
  <2> QED  BY <1>5, <2>1, <2>2, <2>3, <2>4
<1>13. CASE ForwardEntry
  <2>1. acc = "match" /\ UNCHANGED <<acc, cur, sock>>
    BY <1>13 DEF ForwardEntry, AtEntry
  <2>2. \A d \in Clients : d # cur => (Served(d)' <=> Served(d))
    BY <1>13, <2>1, ForwardTouches DEF Served
  <2>3. PICK c \in Clients : c = cur
    BY <1>0, <2>1
  <2>4. sock'[c] # "none" /\ \A d \in Clients : d # c => sock'[d] = sock[d]
    BY <1>3, <1>a, <2>1, <2>3
  <2> QED  BY <1>5, <2>1, <2>2, <2>3, <2>4
<1>14. CASE EndMatch
  <2>1. /\ acc = "match" /\ NextTurn /\ UNCHANGED poolVars
        /\ CloseClient(cur) \/ UNCHANGED sock
    BY <1>14 DEF EndMatch
  <2>2. PICK c \in Clients : c = cur
    BY <1>0, <2>1
  <2>3. StandingOf(c) = "served" /\ sock[c] # "none"
    BY <1>a, <2>1, <2>2
  <2>4. sock'[c] # "none" /\ \A d \in Clients : d # c => sock'[d] = sock[d]
    BY <1>3, <2>1, <2>2, <2>3
  <2>5. /\ StandingOf(c)' = IF \E t \in Pending : t.client = c THEN "served" ELSE "gone"
        /\ \A d \in Clients : d # c => StandingOf(d)' = StandingOf(d)
    BY <1>4, <2>1, <2>2, <2>4
  <2>6. StandingOf(c)' = "gone" => \A n \in Names : remote[<<c, n>>] # "open"
    BY <2>5, NothingOpen
  <2> QED  BY <1>1, <2>3, <2>5, <2>6, LeaveRefines
<1> QED
  BY <1>6, <1>7, <1>8, <1>9, <1>10, <1>11, <1>12, <1>13, <1>14 DEF Acceptor

\* A task's step concerns its own client only, which is served before it.
LEMMA WorkStanding ==
    ASSUME Safe, NEW t \in running, Work(t)
    PROVE  /\ t.client \in Clients /\ t.name \in Names
           /\ t.name \in Mentions[t.client] /\ t \in Pending
           /\ StandingOf(t.client) = "served"
           /\ \A c \in Clients :
                 /\ c # t.client => StandingOf(c)' = StandingOf(c)
                 /\ c = t.client =>
                      /\ StandingOf(c)' \in {"served", "gone"}
                      /\ (\E u \in Pending' : u.client = c) => StandingOf(c)' = "served"
                      /\ StandingOf(c)' = "gone" => \A u \in Pending' : u.client # c
<1> USE DEF Safe
<1>1. /\ t \in Pending /\ t.client \in Clients /\ t.name \in Names
      /\ sock[t.client] # "none" /\ peer[t.client] # "away"
      /\ t.name \in Mentions[t.client]
      /\ ~(t.client = cur /\ acc \in {"filter", "read"})
  BY PendingTyped, ServedNotNew
<1>2. StandingOf(t.client) = "served"
  BY <1>1 DEF StandingOf, Served
<1>3. /\ UNCHANGED <<peer, acc, cur>>
      /\ \A c \in Clients : /\ c # t.client => sock'[c] = sock[c]
                            /\ sock'[c] = "none" => sock[c] = "none"
  BY WorkSockets DEF accVars
<1>4. ASSUME NEW c \in Clients, c # t.client PROVE StandingOf(c)' = StandingOf(c)
  <2>1. \A u \in Pending : u.client = c => u \in Pending'
    BY <1>4, WorkKeeps
  <2>2. \A u \in Pending' : u.client = c => u \in Pending
    BY <1>4, WorkAdds
  <2>3. Served(c)' <=> Served(c)
    BY <1>3, <2>1, <2>2 DEF Served
  <2> QED  BY <1>3, <1>4, <2>3, StandingFrame
<1>5. ASSUME NEW c \in Clients, c = t.client
      PROVE  /\ StandingOf(c)' \in {"served", "gone"}
             /\ (\E u \in Pending' : u.client = c) => StandingOf(c)' = "served"
             /\ StandingOf(c)' = "gone" => \A u \in Pending' : u.client # c
  <2>1. sock'[c] # "none" /\ peer'[c] # "away" /\ ~(c = cur' /\ acc' = "filter")
    BY <1>1, <1>3, <1>5
  <2> QED  BY <2>1 DEF StandingOf, Served
<1> QED  BY <1>1, <1>2, <1>4, <1>5

LEMMA PoolRefines ==
    ASSUME Safe, Safe', Standing, Standing', Pool
    PROVE  PromiseStep
<1> USE DEF Safe
<1>1. CASE Take
  <2>1. Pending' = Pending
    BY <1>1, TakeKeeps DEF PoolOK, TypeOK
  <2>2. UNCHANGED <<peer, sock, remote, acc, cur, rules>>
    BY <1>1 DEF Take, accVars, configVars
  <2>3. \A d \in Clients : Served(d)' <=> Served(d)
    BY <2>1, <2>2 DEF Served
  <2>4. standing' = standing
    BY <2>2, <2>3, StandingFrame, StandingKept
  <2> QED  BY <2>2, <2>4 DEF PromiseStep, Promise!vars
<1>2. ASSUME NEW t \in running, Work(t) PROVE PromiseStep
  <2>1. PICK c \in Clients, n \in Names : c = t.client /\ n = t.name
    BY <1>2, WorkStanding
  <2>2. /\ n \in Mentions[c] /\ t \in Pending
        /\ StandingOf(c) = "served" /\ StandingOf(c)' \in {"served", "gone"}
        /\ \A d \in Clients : d # c => StandingOf(d)' = StandingOf(d)
        /\ (\E u \in Pending' : u.client = c) => StandingOf(c)' = "served"
        /\ StandingOf(c)' = "gone" => \A u \in Pending' : u.client # c
    BY <1>2, <2>1, WorkStanding
  <2>3. rules' = rules
    BY <1>2, WorkSockets DEF configVars
  <2>4. StandingOf(c)' = "gone" => \A m \in Names : remote'[<<c, m>>] # "open"
    BY <2>2, NothingOpenNext
  <2>5. CASE remote' = remote
    <3>1. StandingOf(c)' = "gone" => \A m \in Names : remote[<<c, m>>] # "open"
      BY <2>4, <2>5
    <3> QED  BY <2>2, <2>3, <2>5, <3>1, LeaveRefines
  <2>6. ASSUME StandingOf(c)' = "served"
        PROVE  standing' = standing /\ standing[c] = "served"
    BY <2>2, <2>6, StandingKept, TurnIs
  <2>7. CASE Reach(t)
    <3>1. task("connected", c, n) \in Pending' /\ task("connected", c, n).client = c
      BY <1>2, <2>1, <2>7, WorkKeeps, MadeTask DEF Kind
    <3>2. standing' = standing /\ standing[c] = "served"
      BY <2>2, <2>6, <3>1
    <3>3. remote' = [remote EXCEPT ![<<c, n>>] = "open"] /\ remote[<<c, n>>] = "none"
      BY <2>1, <2>2, <2>7 DEF Reach, ServiceInv, ConnectFirst
    <3> QED
      BY <2>2, <2>3, <3>2, <3>3 DEF PromiseStep, Promise!Next, Promise!Open
  <2>8. CASE RelayEnds(t) /\ remote' # remote
    <3>1. /\ remote' = [remote EXCEPT ![<<c, n>>] = "closed"]
          /\ remote[<<c, n>>] # "none" /\ t.kind \in {"c2s", "s2c"}
      BY <2>1, <2>2, <2>8 DEF RelayEnds, ServiceInv, ConnectFirst
    <3>2. remote[<<c, n>>] = "open"
      <4>1. remote \in [Clients \X Names -> {"none", "open", "closed"}]
        BY DEF TypeOK, ClientTypes
      <4>2. remote[<<c, n>>] # "closed"
        BY <2>8, <3>1, <4>1
      <4> QED  BY <3>1, <4>1, <4>2
    <3>3. \E u \in Pending : u # t /\ u.client = c
      <4>1. \E kind \in {"connected", "half", "c2s", "s2c"} :
               kind # t.kind /\ task(kind, c, n) \in Pending
        BY <3>1, <3>2, PendingTyped DEF RemotePaired
      <4> QED  BY <4>1, MadeTask DEF Kind
    <3>4. \E u \in Pending' : u.client = c
      BY <1>2, <3>3, WorkKeeps
    <3>5. standing' = standing /\ standing[c] = "served"
      BY <2>2, <2>6, <3>4
    <3> QED
      BY <2>3, <3>1, <3>2, <3>5 DEF PromiseStep, Promise!Next, Promise!Shut
  <2> QED  BY <1>2, <2>5, <2>7, <2>8, WorkSockets
<1> QED  BY <1>1, <1>2 DEF Pool

\* The forwarder keeps the promises of Service: a client is admitted by the rules
\* of the moment, is connected at most once to each service it names, and is not
\* let go while one of its connections is open (SocketServer.start, filterRule,
\* DataForwardingSocket).
THEOREM PromiseKept == Spec => ImplementsService
<1>1. Init => Promise!Init
  <2> SUFFICES ASSUME Init PROVE Promise!Init
    OBVIOUS
  <2>1. Standing
    BY InitTyped, InitServiceInv, StandingAs
  <2>2. \A c \in Clients : StandingOf(c) = "away"
    BY DEF Init, StandingOf
  <2>3. standing = [c \in Clients |-> "away"]
    BY <2>1, <2>2 DEF Standing
  <2> QED  BY <2>3 DEF Init, Promise!Init
<1>2. Safe /\ Safe' /\ [Next]_vars => PromiseStep
  <2> SUFFICES ASSUME Safe, Safe', [Next]_vars PROVE PromiseStep
    OBVIOUS
  <2>1. Standing /\ Standing'
    BY StandingAs, StandingAsNext DEF Safe
  <2>2. CASE ClientStep  BY <2>1, <2>2, ClientRefines
  <2>3. CASE Acceptor    BY <2>1, <2>3, AcceptorRefines
  <2>4. CASE Pool        BY <2>1, <2>4, PoolRefines
  <2>5. CASE Admin       BY <2>1, <2>5, AdminRefines
  <2>6. CASE UNCHANGED vars
    <3>1. UNCHANGED <<peer, sock, remote, acc, cur, rules, poolVars>>
      BY <2>6 DEF vars, poolVars
    <3>2. \A d \in Clients : Served(d)' <=> Served(d)
      BY <3>1, PoolAlone DEF Served
    <3>3. standing' = standing
      BY <2>1, <3>1, <3>2, StandingFrame, StandingKept
    <3> QED  BY <3>1, <3>3 DEF PromiseStep, Promise!vars
  <2> QED  BY <2>2, <2>3, <2>4, <2>5, <2>6 DEF Next, ClientStep
<1>3. Spec => []Safe
  BY Typed, RemotesPaired, ServiceInvHolds, PTL DEF Safe
<1> QED
  BY <1>1, <1>2, <1>3, PTL DEF Spec, ImplementsService, Promise!Spec, PromiseStep

\* What the README says of the service name holds for clients whose first bytes name
\* one service only, whatever the mapping list is and however it changes: the run
\* forwarder_target refutes it with a client that names two.
THEOREM OneTarget ==
    ASSUME \A c \in Clients : \A m, n \in Mentions[c] : m = n
    PROVE  Spec => []SingleTarget
<1> DEFINE reached(c) == {n \in Names : remote[<<c, n>>] # "none"}
<1>1. ServiceInv => SingleTarget
  <2> SUFFICES ASSUME ServiceInv, NEW c \in Clients PROVE Cardinality(reached(c)) <= 1
    BY DEF SingleTarget
  <2>1. \A n \in reached(c) : n \in Mentions[c]
    BY DEF ServiceInv, ClientsKnown, Touched
  <2>2. \A m, n \in reached(c) : m = n
    BY <2>1
  <2> HIDE DEF reached
  <2>3. CASE reached(c) = {}
    <3>1. Cardinality(reached(c)) = 0
      BY <2>3, FS_EmptySet, Zenon
    <3> QED  BY <3>1
  <2>4. CASE reached(c) # {}
    <3>1. PICK n : n \in reached(c)
      BY <2>4
    <3>2. reached(c) = {n}
      BY <2>2, <3>1
    <3>3. Cardinality(reached(c)) = 1
      BY <3>2, FS_Singleton, Zenon
    <3> QED  BY <3>3
  <2> QED  BY <2>3, <2>4
<1> QED
  BY <1>1, ServiceInvHolds, PTL
=============================================================================
