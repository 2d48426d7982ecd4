------------------------------ MODULE Forwarder ------------------------------
(***************************************************************************)
(* SocketServer: one acceptor thread that takes clients from the listening *)
(* socket, checks the white list, reads the first bytes of each client to  *)
(* find the services they name, and submits a connect task per service to  *)
(* the thread pool; the pool (core threads, unbounded queue); the connect  *)
(* tasks, which open the connection to the service and submit the two      *)
(* relay tasks to the same pool; and the configuration the web interface   *)
(* changes under all of them.                                              *)
(*                                                                         *)
(* A relay task is one step here, its end, which closes both sockets; what *)
(* it does before is module Relay.                                         *)
(*                                                                         *)
(* Definitions marked "deviation" are faulty variants of the definition    *)
(* after them; no behaviour of Spec uses one.                              *)
(***************************************************************************)
EXTENDS WhiteListRules, FiniteSets

CONSTANTS Clients,     \* clients, each of which connects at most once
          Names,       \* service names
          Core,        \* poolCore
          NoClient,    \* cur when the acceptor holds no client
          HostOf,      \* HostOf[c]: the client's address
          Mentions,    \* Mentions[c]: the names n for which "n)" occurs in
                       \* the first bytes of client c
          Cuts,        \* Cuts[c]: what is found of them when the read gets only
                       \* a beginning of these bytes
          BadTargets,  \* names whose target no socket address can be made of:
                       \* the web form takes any number for a port
          Lists,       \* mapping lists the database may hold
          RuleLists,   \* white lists the database may hold
          MaxChanges   \* bound: configuration changes

ASSUME CoreAssumption == Core \in Nat \ {0}
ASSUME ClientAssumption == NoClient \notin Clients
ASSUME MentionsAssumption == Mentions \in [Clients -> SUBSET Names]
ASSUME CutsAssumption == \A c \in Clients : Cuts[c] \subseteq SUBSET Mentions[c]

\* PortMapperAddress.
Mapping == [name : Names, enable : BOOLEAN]
ASSUME ListsAssumption == Lists \subseteq Seq(Mapping)
\* The unique index of the table.
ASSUME NamesAssumption ==
    \A list \in Lists : \A i, j \in 1..Len(list) : list[i].name = list[j].name => i = j
ASSUME ChangesAssumption == MaxChanges \in Nat

\* A task of the pool; "connected", "half" and "over" are a connect task that has
\* reached its target, has submitted its first relay, and its second.
Kind == {"connect", "connected", "half", "over", "c2s", "s2c"}
Task == [kind : Kind, client : Clients, name : Names]
task(kind, c, n) == [kind |-> kind, client |-> c, name |-> n]

VARIABLES
  peer,      \* peer[c]: "away", "silent", "spoken", "ended" or "reset"
  backlog,   \* clients connected and not yet accepted
  sock,      \* sock[c]: clientSocket, "none", "open" or "closed"
  remote,    \* remote[<<c, n>>]: remoteServerSocket, likewise
  \* the acceptor thread
  acc,       \* "accept", "filter", "read" or "match"
  cur,       \* the client it holds
  header,    \* the names found in what it read
  snap,      \* the mapping list its loop iterates over
  shared,    \* snap is still the list object SocketConfigProperties holds
  k,         \* the position in snap
  isClose,   \* no entry has matched so far
  \* SocketConfigProperties
  mappings, rules, changes,
  \* the pool
  workers,   \* threads started
  queue,     \* tasks waiting for a thread
  running,   \* tasks that have one
  \* history
  leaked,    \* clients an exception left without an owner
  eligible   \* names enabled at some time since cur's header was read

accVars == <<acc, cur, header, snap, shared, k, isClose>>
configVars == <<mappings, rules, changes>>
poolVars == <<workers, queue, running>>
historyVars == <<leaked, eligible>>
vars == <<peer, backlog, sock, remote, acc, cur, header, snap, shared, k, isClose,
          mappings, rules, changes, workers, queue, running, leaked, eligible>>

EnabledNames(list) == {list[j].name : j \in {i \in 1..Len(list) : list[i].enable}}

\* start() has loaded the lists and opened the port.
Init == /\ peer = [c \in Clients |-> "away"]
        /\ backlog = <<>>
        /\ sock = [c \in Clients |-> "none"]
        /\ remote = [p \in Clients \X Names |-> "none"]
        /\ acc = "accept" /\ cur = NoClient
        /\ header = {} /\ snap = <<>> /\ shared = FALSE /\ k = 1 /\ isClose = TRUE
        /\ mappings \in Lists /\ rules \in RuleLists /\ changes = 0
        /\ workers = 0 /\ queue = <<>> /\ running = {}
        /\ leaked = {} /\ eligible = {}

-----------------------------------------------------------------------------
(* Clients. *)

Connect(c) ==
    /\ peer[c] = "away"
    /\ peer' = [peer EXCEPT ![c] = "silent"]
    /\ backlog' = Append(backlog, c)
    /\ UNCHANGED <<sock, remote, accVars, configVars, poolVars, historyVars>>

\* What a client does before its header is read; later it is the relays' affair.
Unread(c) == peer[c] \in {"silent", "spoken"} /\ (sock[c] = "none" \/ (cur = c /\ acc # "match"))

Turns(c, to) ==
    /\ Unread(c)
    /\ peer' = [peer EXCEPT ![c] = to]
    /\ UNCHANGED <<backlog, sock, remote, accVars, configVars, poolVars, historyVars>>

Speak(c) == peer[c] = "silent" /\ Turns(c, "spoken")
Leave(c) == peer[c] = "silent" /\ Turns(c, "ended")
Reset(c) == Turns(c, "reset")

-----------------------------------------------------------------------------
(* The acceptor. *)

\* "continue", or the end of the body: the locals of the turn are gone.
NextTurn == /\ acc' = "accept" /\ cur' = NoClient
            /\ header' = {} /\ snap' = <<>> /\ shared' = FALSE
            /\ k' = 1 /\ isClose' = TRUE /\ eligible' = {}
CloseClient(c) == sock' = [sock EXCEPT ![c] = "closed"]

Accept ==
    /\ acc = "accept" /\ backlog # <<>>
    /\ cur' = Head(backlog)
    /\ backlog' = Tail(backlog)
    /\ sock' = [sock EXCEPT ![Head(backlog)] = "open"]
    /\ acc' = "filter"
    /\ UNCHANGED <<peer, remote, header, snap, shared, k, isClose, configVars,
                   poolVars, historyVars>>

\* (deviation: the answer of the check not looked at)
AdmitAll ==
    /\ acc = "filter"
    /\ acc' = "read"
    /\ UNCHANGED <<peer, backlog, sock, remote, cur, header, snap, shared, k, isClose,
                   configVars, poolVars, historyVars>>

Admit ==
    /\ acc = "filter" /\ Passes(rules, HostOf[cur])
    /\ acc' = "read"
    /\ UNCHANGED <<peer, backlog, sock, remote, cur, header, snap, shared, k, isClose,
                   configVars, poolVars, historyVars>>

Reject ==
    /\ acc = "filter" /\ ~Passes(rules, HostOf[cur])
    /\ CloseClient(cur)
    /\ NextTurn
    /\ UNCHANGED <<peer, backlog, remote, configVars, poolVars, leaked>>

\* The blocking read of the header, without a timeout, and the mapping list
\* taken after it.  A read that gets only the beginning of the header finds some
\* of the names, and a client that has ended its stream reads as an empty header.
ReadHeader ==
    /\ acc = "read" /\ peer[cur] \in {"spoken", "ended"}
    /\ header' \in IF peer[cur] = "spoken" THEN {Mentions[cur]} \cup Cuts[cur] ELSE {{}}
    /\ acc' = "match" /\ k' = 1 /\ isClose' = TRUE
    /\ snap' = mappings /\ shared' = TRUE
    /\ eligible' = EnabledNames(mappings)
    /\ UNCHANGED <<peer, backlog, sock, remote, cur, configVars, poolVars, leaked>>

\* (deviation: the exception leaves the accept loop)
ReadThrowsOut ==
    /\ acc = "read" /\ peer[cur] = "reset"
    /\ acc' = "dead" /\ cur' = NoClient
    /\ leaked' = leaked \cup {cur}
    /\ UNCHANGED <<peer, backlog, sock, remote, header, snap, shared, k, isClose,
                   configVars, poolVars, eligible>>

\* The catch around the loop's body logs and goes on; nobody closes the socket.
ReadThrows ==
    /\ acc = "read" /\ peer[cur] = "reset"
    /\ NextTurn
    /\ leaked' = leaked \cup {cur}
    /\ UNCHANGED <<peer, backlog, sock, remote, configVars, poolVars>>

AtEntry == acc = "match" /\ k <= Len(snap)
Matches == snap[k].name \in header

\* (deviation: the entry after a match is jumped over)
SkipTwo ==
    /\ AtEntry /\ ~Matches
    /\ k' = k + 2
    /\ UNCHANGED <<peer, backlog, sock, remote, acc, cur, header, snap, shared, isClose,
                   configVars, poolVars, historyVars>>

SkipEntry ==
    /\ AtEntry /\ ~Matches
    /\ k' = k + 1
    /\ UNCHANGED <<peer, backlog, sock, remote, acc, cur, header, snap, shared, isClose,
                   configVars, poolVars, historyVars>>

\* A stopped service closes the client and the loop goes on to the next entry.
RefuseEntry ==
    /\ AtEntry /\ Matches /\ ~snap[k].enable
    /\ CloseClient(cur)
    /\ isClose' = FALSE /\ k' = k + 1
    /\ UNCHANGED <<peer, backlog, remote, acc, cur, header, snap, shared,
                   configVars, poolVars, historyVars>>

\* ThreadPoolExecutor.execute with an unbounded queue: a new thread while there
\* are fewer than Core, idle threads or not, else the queue.
Submit(t, others) ==
    IF workers < Core
    THEN workers' = workers + 1 /\ running' = others \cup {t} /\ UNCHANGED queue
    ELSE queue' = Append(queue, t) /\ running' = others /\ UNCHANGED workers

\* (deviation: the entry's enable flag not looked at)
ForwardAnyway ==
    /\ AtEntry /\ Matches
    /\ Submit(task("connect", cur, snap[k].name), running)
    /\ isClose' = FALSE /\ k' = k + 1
    /\ UNCHANGED <<peer, backlog, sock, remote, acc, cur, header, snap, shared,
                   configVars, historyVars>>

ForwardEntry ==
    /\ AtEntry /\ Matches /\ snap[k].enable
    /\ Submit(task("connect", cur, snap[k].name), running)
    /\ isClose' = FALSE /\ k' = k + 1
    /\ UNCHANGED <<peer, backlog, sock, remote, acc, cur, header, snap, shared,
                   configVars, historyVars>>

\* (deviation: a client that names no service is left alone)
EndMatchOpen ==
    /\ acc = "match" /\ k > Len(snap)
    /\ NextTurn
    /\ UNCHANGED <<peer, backlog, sock, remote, configVars, poolVars, leaked>>

EndMatch ==
    /\ acc = "match" /\ k > Len(snap)
    /\ IF isClose THEN CloseClient(cur) ELSE UNCHANGED sock
    /\ NextTurn
    /\ UNCHANGED <<peer, backlog, remote, configVars, poolVars, leaked>>

Acceptor == \/ Accept \/ Admit \/ Reject \/ ReadHeader \/ ReadThrows
            \/ SkipEntry \/ RefuseEntry \/ ForwardEntry \/ EndMatch

-----------------------------------------------------------------------------
(* The pool's threads. *)

Take ==
    /\ queue # <<>> /\ Cardinality(running) < workers
    /\ running' = running \cup {Head(queue)}
    /\ queue' = Tail(queue)
    /\ UNCHANGED <<peer, backlog, sock, remote, accVars, configVars, workers, historyVars>>

\* running, with task t replaced by itself at a later stage.
Advanced(t, kind) == (running \ {t}) \cup {[t EXCEPT !.kind = kind]}
OthersKeep == UNCHANGED <<peer, backlog, accVars, configVars, workers, queue>>

Reach(t) ==
    /\ t.kind = "connect" /\ t.name \notin BadTargets
    /\ remote' = [remote EXCEPT ![<<t.client, t.name>>] = "open"]
    /\ running' = Advanced(t, "connected")
    /\ OthersKeep /\ UNCHANGED <<sock, historyVars>>

\* (deviation: only the log line of the catch clause)
MissSilently(t) ==
    /\ t.kind = "connect" /\ t.name \notin BadTargets
    /\ running' = running \ {t}
    /\ OthersKeep /\ UNCHANGED <<sock, remote, historyVars>>

\* IOException: refused, unknown host, or no answer within timeOut.
Miss(t) ==
    /\ t.kind = "connect" /\ t.name \notin BadTargets
    /\ CloseClient(t.client)
    /\ running' = running \ {t}
    /\ OthersKeep /\ UNCHANGED <<remote, historyVars>>

\* Any other exception ends the task, and the thread, which the pool replaces.
Throw(t) ==
    /\ t.kind = "connect" /\ t.name \in BadTargets
    /\ running' = running \ {t}
    /\ leaked' = leaked \cup {t.client}
    /\ OthersKeep /\ UNCHANGED <<sock, remote, eligible>>

SubmitClientRelay(t) ==
    /\ t.kind = "connected"
    /\ Submit(task("c2s", t.client, t.name), Advanced(t, "half"))
    /\ UNCHANGED <<peer, backlog, sock, remote, accVars, configVars, historyVars>>

SubmitRemoteRelay(t) ==
    /\ t.kind = "half"
    /\ Submit(task("s2c", t.client, t.name), Advanced(t, "over"))
    /\ UNCHANGED <<peer, backlog, sock, remote, accVars, configVars, historyVars>>

Return(t) ==
    /\ t.kind = "over"
    /\ running' = running \ {t}
    /\ OthersKeep /\ UNCHANGED <<sock, remote, historyVars>>

\* (deviation: a relay closes only the socket it reads from)
RelayClosesSource(t) ==
    /\ t.kind \in {"c2s", "s2c"}
    /\ IF t.kind = "c2s"
       THEN CloseClient(t.client) /\ UNCHANGED remote
       ELSE remote' = [remote EXCEPT ![<<t.client, t.name>>] = "closed"] /\ UNCHANGED sock
    /\ running' = running \ {t}
    /\ OthersKeep /\ UNCHANGED historyVars

\* A relay ends for any of the reasons module Relay has, and at once when it
\* finds a socket closed; it leaves both sockets closed.
RelayEnds(t) ==
    /\ t.kind \in {"c2s", "s2c"}
    /\ CloseClient(t.client)
    /\ remote' = [remote EXCEPT ![<<t.client, t.name>>] = "closed"]
    /\ running' = running \ {t}
    /\ OthersKeep /\ UNCHANGED historyVars

Work(t) == \/ Reach(t) \/ Miss(t) \/ Throw(t)
           \/ SubmitClientRelay(t) \/ SubmitRemoteRelay(t) \/ Return(t)
           \/ RelayEnds(t)

Pool == Take \/ \E t \in running : Work(t)

-----------------------------------------------------------------------------
(* The web interface. *)

Configured(list) ==
    /\ changes < MaxChanges
    /\ changes' = changes + 1
    /\ mappings' = list
    /\ eligible' = IF acc = "match" THEN eligible \cup EnabledNames(list) ELSE {}
    /\ UNCHANGED <<peer, backlog, sock, remote, acc, cur, header, k, isClose,
                   poolVars, leaked>>

\* start-forward and stop-forward change an entry of the list everybody shares.
SetForward(j, enable) ==
    /\ Configured([mappings EXCEPT ![j].enable = enable])
    /\ snap' = IF shared THEN mappings' ELSE snap
    /\ UNCHANGED <<shared, rules>>

\* A request that found its entry before loadData put another list in place marks
\* the old one, which the acceptor may still go over.
SetReplaced(j, enable) ==
    /\ acc = "match" /\ ~shared
    /\ changes < MaxChanges
    /\ changes' = changes + 1
    /\ snap' = [snap EXCEPT ![j].enable = enable]
    /\ eligible' = eligible \cup EnabledNames(snap')
    /\ UNCHANGED <<peer, backlog, sock, remote, acc, cur, header, shared, k, isClose,
                   mappings, rules, poolVars, leaked>>

\* loadData puts fresh lists in place of the old ones.
LoadData(list, ruleList) ==
    /\ Configured(list)
    /\ rules' = ruleList
    /\ shared' = FALSE
    /\ UNCHANGED snap

Admin == \/ \E j \in 1..Len(mappings), enable \in BOOLEAN : SetForward(j, enable)
         \/ \E j \in 1..Len(snap), enable \in BOOLEAN : SetReplaced(j, enable)
         \/ \E list \in Lists, ruleList \in RuleLists : LoadData(list, ruleList)

Next == \/ \E c \in Clients : Connect(c) \/ Speak(c) \/ Leave(c) \/ Reset(c)
        \/ Acceptor
        \/ Pool
        \/ Admin

\* The acceptor and the pool's threads go on while they can.  Of the clients and
\* the services it is assumed that a client in the header read does not stay
\* silent for ever (the read has no timeout) and that every relay ends one day
\* (its own timeouts see to that once a peer falls silent).
Fairness == /\ WF_vars(Acceptor)
            /\ WF_vars(Pool)
            /\ WF_vars(\E c \in Clients : Speak(c) \/ Leave(c))

Spec == Init /\ [][Next]_vars /\ Fairness
-----------------------------------------------------------------------------
\* Tasks submitted and not yet over.
Waiting == {queue[i] : i \in 1..Len(queue)}
Pending == running \cup Waiting

ClientTypes ==
    /\ peer \in [Clients -> {"away", "silent", "spoken", "ended", "reset"}]
    /\ backlog \in Seq(Clients)
    /\ sock \in [Clients -> {"none", "open", "closed"}]
    /\ remote \in [Clients \X Names -> {"none", "open", "closed"}]
    /\ leaked \subseteq Clients
AcceptorTypes ==
    /\ acc \in {"accept", "filter", "read", "match"}
    /\ cur \in Clients \cup {NoClient}
    /\ acc = "accept" <=> cur = NoClient
    /\ header \subseteq Names /\ eligible \subseteq Names
    /\ snap \in Seq(Mapping) /\ k \in 1..(Len(snap) + 1)
    /\ shared \in BOOLEAN /\ isClose \in BOOLEAN
ConfigTypes ==
    /\ mappings \in Seq(Mapping) /\ rules \in RuleLists /\ changes \in 0..MaxChanges
    /\ shared => snap = mappings
PoolTypes ==
    /\ workers \in 0..Core
    /\ queue \in Seq(Task)
    /\ running \subseteq Task /\ IsFiniteSet(running)

\* The variables stay in their ranges, the acceptor holds a client exactly while
\* it is between two accepts, and the list it goes over is the current one while
\* nobody has replaced that.
TypeOK == ClientTypes /\ AcceptorTypes /\ ConfigTypes /\ PoolTypes

\* An open client socket always has somebody who will close it -- the acceptor,
\* or a task, submitted or running, of whatever stage -- unless an exception
\* nobody catches in the right place has lost it.  Over the whole life of a
\* connection this passes through the acceptor, a queue, a connect task, the
\* queue again and two relays.
ClientOwned ==
    \A c \in Clients :
        sock[c] = "open" => \/ c \in leaked
                            \/ c = cur
                            \/ \E t \in Pending : t.client = c /\ t.kind # "over"

\* An open connection to a service has both its relays, or a connect task that
\* is about to submit those it lacks: no connection is carried in one direction
\* only for want of a task.
RemotePaired ==
    \A c \in Clients, n \in Names :
        remote[<<c, n>>] = "open" =>
            \/ task("connected", c, n) \in running
            \/ task("half", c, n) \in running /\ task("c2s", c, n) \in Pending
            \/ task("c2s", c, n) \in Pending /\ task("s2c", c, n) \in Pending

\* A service stopped before the client's header was read, and not started again
\* since, gets no connection for that client: the list the loop goes over is no
\* older than the header.  (A stop after that moment may come too late.)
NoStaleForward ==
    [][\A n \in Names :
         LET t == task("connect", cur, n) IN
         (cur # NoClient /\ t \in Pending' /\ t \notin Pending) => n \in eligible]_vars

\* One thread accepts for everybody; whatever a client does there -- rejected,
\* silent for a time, gone, reset -- those behind it are reached.
EveryoneAccepted ==
    \A c \in Clients : (peer[c] # "away" /\ sock[c] = "none") ~> sock[c] # "none"

\* Every client socket is closed in the end, or was lost to an exception.
EveryoneClosed ==
    \A c \in Clients : sock[c] = "open" ~> (sock[c] = "closed" \/ c \in leaked)

\* What a client is to the service: the one the acceptor has admitted, and those
\* with a task of any stage, are served.
standing == [c \in Clients |->
    CASE peer[c] = "away" -> "away"
      [] sock[c] = "none" /\ peer[c] # "away" -> "waiting"
      [] c = cur /\ acc = "filter" -> "held"
      [] (c = cur /\ acc # "filter") \/ \E t \in Pending : t.client = c -> "served"
      [] OTHER -> "gone"]

\* The forwarder keeps the promises of Service: through queues, tasks of five
\* stages and lists that change, a client is admitted by the rules of the moment,
\* is connected once to each service it names, and is not let go while one of its
\* connections is open.
Promise == INSTANCE Service WITH client <- standing, link <- remote
ImplementsService == Promise!Spec

\* What the README says of the unique service name: it maps a connection to a
\* target.
SingleTarget ==
    \A c \in Clients : Cardinality({n \in Names : remote[<<c, n>>] # "none"}) <= 1
=============================================================================
