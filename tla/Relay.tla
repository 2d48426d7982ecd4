-------------------------------- MODULE Relay --------------------------------
(***************************************************************************)
(* One forwarded connection: the accepted client socket, the socket to the *)
(* target service, and the two DataForwardingSocket tasks that copy        *)
(* between them, each in a pool thread.  Both tasks set the SO timeouts of *)
(* BOTH sockets, look at both sockets at the top of their loop, and close  *)
(* both sockets when they end, with no lock between them.                  *)
(*                                                                         *)
(* The client may have further relays, and the acceptor or a connect task  *)
(* may still turn it away for a later entry of the list: all of them can   *)
(* close its socket under these two (ClosedElsewhere).  That relays of two *)
(* entries also read the same stream and set the same SO timeouts is left  *)
(* out: what is said here of pieces and timeouts is said of a client that  *)
(* one entry has matched.                                                  *)
(*                                                                         *)
(* A piece of data is what one read returns, numbered from 1 per sender.   *)
(* Time is counted in units so coarse that the three limits of the code,   *)
(* timeOut, timeOut*20 and timeOut*30, keep their order.                   *)
(*                                                                         *)
(* Definitions marked "deviation" are faulty variants of the definition    *)
(* after them; no behaviour of Spec uses one.                              *)
(***************************************************************************)
EXTENDS Sequences, Naturals

CONSTANTS Short,     \* timeOut:    SO timeout while a task sets up
          So,        \* timeOut*20: SO timeout of every later read
          Idle,      \* timeOut*30: silence after which the loop ends
          MaxInt,    \* the longest SO timeout that fits an int
          MaxSent,   \* bound: pieces one peer sends
          Stallers,  \* the peers that may stop taking data
          Prompt     \* whether time passes only while both tasks wait

ASSUME LimitsAssumption ==
    /\ Short \in Nat \ {0} /\ So \in Nat /\ Idle \in Nat
    /\ Short < So /\ So < Idle
\* connect() has converted timeOut before there are any relays; timeOut*30 is
\* compared as a long.
ASSUME IntAssumption == MaxInt \in Nat /\ Short <= MaxInt
ASSUME BoundAssumption == MaxSent \in Nat \ {0}
ASSUME SwitchAssumption ==
    Stallers \subseteq {"client", "remote"} /\ Prompt \in BOOLEAN

Side == {"client", "remote"}
Dir == {"c2s", "s2c"}
Source(d) == IF d = "c2s" THEN "client" ELSE "remote"
Target(d) == IF d = "c2s" THEN "remote" ELSE "client"

Settling == {"queued", "s1", "t1", "s20", "t20"}
Looping == {"top", "read", "check", "sleep", "write"}
Ending == {"closeT", "closeS", "done"}

VARIABLES
  \* the peers and the network
  sent,       \* sent[s]: pieces the peer at s has sent
  peer,       \* peer[s]: "sending", "ended" its stream, or connection "reset"
  stalled,    \* stalled[s]: the peer at s takes no data, a write to s blocks
  \* the two sockets
  open,       \* open[s]: close() has not been called on the socket
  soTimeout,  \* soTimeout[s]: its SO timeout (0: none)
  got,        \* got[s]: pieces read from it
  delivered,  \* delivered[s]: pieces written to it
  \* the two tasks
  pc,
  buf,        \* data: the piece held, 0 for none
  idle,       \* time since lastTime, while the loop runs
  left        \* time left to the present read, by the SO timeout at its call

peerVars == <<sent, peer, stalled>>
socketVars == <<open, soTimeout, got, delivered>>
taskVars == <<pc, buf, idle, left>>
vars == <<sent, peer, stalled, open, soTimeout, got, delivered, pc, buf, idle, left>>

\* The connect task has submitted both tasks; the client's header has been read
\* by the acceptor and travels with the first of them.
Init == /\ sent = [s \in Side |-> IF s = "client" THEN 1 ELSE 0]
        /\ peer = [s \in Side |-> "sending"]
        /\ stalled = [s \in Side |-> FALSE]
        /\ open = [s \in Side |-> TRUE]
        /\ soTimeout = [s \in Side |-> 0]
        /\ got = sent
        /\ delivered = [s \in Side |-> <<>>]
        /\ pc = [d \in Dir |-> "queued"]
        /\ buf = [d \in Dir |-> IF d = "c2s" THEN 1 ELSE 0]
        /\ idle = [d \in Dir |-> 0]
        /\ left = [d \in Dir |-> 0]

Goto(d, from, to) == pc[d] = from /\ pc' = [pc EXCEPT ![d] = to]

\* Leaving the loop, or never reaching it: the clocks of the task stop.
End(d, from) == /\ Goto(d, from, "closeT")
                /\ idle' = [idle EXCEPT ![d] = 0]
                /\ left' = [left EXCEPT ![d] = 0]
                /\ UNCHANGED <<peerVars, socketVars, buf>>

-----------------------------------------------------------------------------
(* run(): from the pool's queue through the four setSoTimeout calls. *)

Start(d) ==
    /\ Goto(d, "queued", "s1")
    /\ UNCHANGED <<peerVars, socketVars, buf, idle, left>>

SetTimeout(s, value) == soTimeout' = [soTimeout EXCEPT ![s] = value]

SetSourceShort(d) ==
    /\ Goto(d, "s1", "t1")
    /\ open[Source(d)]
    /\ SetTimeout(Source(d), Short)
    /\ UNCHANGED <<peerVars, open, got, delivered, buf, idle, left>>

SetTargetShort(d) ==
    /\ Goto(d, "t1", "s20")
    /\ open[Target(d)]
    /\ SetTimeout(Target(d), Short)
    /\ UNCHANGED <<peerVars, open, got, delivered, buf, idle, left>>

\* (deviation: the second call on the source left out)
SetSourceNever(d) ==
    /\ Goto(d, "s20", "t20")
    /\ open[Source(d)] /\ open[Target(d)]
    /\ UNCHANGED <<peerVars, socketVars, buf, idle, left>>

\* Taking the streams needs the sockets open, as setSoTimeout does, which also
\* needs a timeout that fits (Math.toIntExact).
SetSourceLong(d) ==
    /\ Goto(d, "s20", "t20")
    /\ So <= MaxInt
    /\ open[Source(d)] /\ open[Target(d)]
    /\ SetTimeout(Source(d), So)
    /\ UNCHANGED <<peerVars, open, got, delivered, buf, idle, left>>

\* (deviation: the limit of the silence test used as SO timeout)
SetTargetIdle(d) ==
    /\ Goto(d, "t20", "top")
    /\ open[Target(d)]
    /\ SetTimeout(Target(d), Idle)
    /\ idle' = [idle EXCEPT ![d] = 0]
    /\ UNCHANGED <<peerVars, open, got, delivered, buf, left>>

\* (deviation: the second call on the target left out)
SetTargetNever(d) ==
    /\ Goto(d, "t20", "top")
    /\ idle' = [idle EXCEPT ![d] = 0]
    /\ UNCHANGED <<peerVars, socketVars, buf, left>>

SetTargetLong(d) ==
    /\ Goto(d, "t20", "top")
    /\ open[Target(d)]
    /\ SetTimeout(Target(d), So)
    /\ idle' = [idle EXCEPT ![d] = 0]
    /\ UNCHANGED <<peerVars, open, got, delivered, buf, left>>

\* A call on a socket the other task has closed throws, and so does the
\* conversion of a timeout that is too long: on to finally.
SetupFails(d) ==
    /\ \/ pc[d] = "s1" /\ ~open[Source(d)]
       \/ pc[d] \in {"t1", "t20"} /\ ~open[Target(d)]
       \/ pc[d] = "s20" /\ ~(open[Source(d)] /\ open[Target(d)] /\ So <= MaxInt)
    /\ End(d, pc[d])

-----------------------------------------------------------------------------
(* The loop. *)

FoundClosed(d) ==
    /\ End(d, "top")
    /\ ~(open[Source(d)] /\ open[Target(d)])

\* data is not null at the top only for the header the task came with.
TakeHeader(d) ==
    /\ Goto(d, "top", "write")
    /\ open[Source(d)] /\ open[Target(d)]
    /\ buf[d] # 0
    /\ idle' = [idle EXCEPT ![d] = 0]
    /\ UNCHANGED <<peerVars, socketVars, buf, left>>

BeginRead(d) ==
    /\ Goto(d, "top", "read")
    /\ open[Source(d)] /\ open[Target(d)]
    /\ buf[d] = 0
    /\ left' = [left EXCEPT ![d] = soTimeout[Source(d)]]
    /\ UNCHANGED <<peerVars, socketVars, buf, idle>>

ReadPiece(d) ==
    LET s == Source(d) IN
    /\ Goto(d, "read", "check")
    /\ open[s] /\ peer[s] # "reset"
    /\ got[s] < sent[s]
    /\ got' = [got EXCEPT ![s] = @ + 1]
    /\ buf' = [buf EXCEPT ![d] = got[s] + 1]
    /\ left' = [left EXCEPT ![d] = 0]
    /\ UNCHANGED <<peerVars, open, soTimeout, delivered, idle>>

\* (deviation: the -1 of the end of the stream taken for a length)
ReadEofAsPiece(d) ==
    LET s == Source(d) IN
    /\ Goto(d, "read", "check")
    /\ open[s] /\ peer[s] = "ended"
    /\ got[s] = sent[s]
    /\ buf' = [buf EXCEPT ![d] = got[s] + 1]
    /\ left' = [left EXCEPT ![d] = 0]
    /\ UNCHANGED <<peerVars, socketVars, idle>>

\* (deviation: a SocketTimeoutException taken for "nothing yet")
ReadTimesOutAsNothing(d) ==
    LET s == Source(d) IN
    /\ Goto(d, "read", "check")
    /\ open[s] /\ got[s] = sent[s]
    /\ peer[s] = "ended" \/ left[d] = 0
    /\ left' = [left EXCEPT ![d] = 0]
    /\ UNCHANGED <<peerVars, socketVars, buf, idle>>

\* The end of the stream: read returns -1, at once and every time.
ReadEof(d) ==
    LET s == Source(d) IN
    /\ Goto(d, "read", "check")
    /\ open[s] /\ peer[s] = "ended"
    /\ got[s] = sent[s]
    /\ left' = [left EXCEPT ![d] = 0]
    /\ UNCHANGED <<peerVars, socketVars, buf, idle>>

\* A read throws when its socket is closed under it, on a reset, and when the
\* SO timeout has run out -- a piece arriving just then stays unread.
ReadFails(d) ==
    LET s == Source(d) IN
    /\ End(d, "read")
    /\ ~open[s] \/ peer[s] = "reset" \/ left[d] = 0

\* (deviation: no test of the silence)
NeverSilent(d) ==
    /\ FALSE
    /\ End(d, "check")

\* The test of the silence comes after the read and before the piece it
\* returned is looked at.
TooLongSilent(d) ==
    /\ End(d, "check")
    /\ idle[d] > Idle

NothingRead(d) ==
    /\ Goto(d, "check", "sleep")
    /\ idle[d] <= Idle
    /\ buf[d] = 0
    /\ UNCHANGED <<peerVars, socketVars, buf, idle, left>>

SomethingRead(d) ==
    /\ Goto(d, "check", "write")
    /\ idle[d] <= Idle
    /\ buf[d] # 0
    /\ idle' = [idle EXCEPT ![d] = 0]
    /\ UNCHANGED <<peerVars, socketVars, buf, left>>

WakeUp(d) ==
    /\ Goto(d, "sleep", "top")
    /\ UNCHANGED <<peerVars, socketVars, buf, idle, left>>

\* (deviation: data not set to null after the write)
WriteAndKeep(d) ==
    LET t == Target(d) IN
    /\ Goto(d, "write", "top")
    /\ open[t] /\ peer[t] # "reset" /\ ~stalled[t]
    /\ delivered' = [delivered EXCEPT ![t] = Append(@, buf[d])]
    /\ UNCHANGED <<peerVars, open, soTimeout, got, buf, idle, left>>

\* write, flush and data = null.  A write has no timeout: to a peer that takes
\* nothing it blocks until the socket is closed or reset.
Write(d) ==
    LET t == Target(d) IN
    /\ Goto(d, "write", "top")
    /\ open[t] /\ peer[t] # "reset" /\ ~stalled[t]
    /\ delivered' = [delivered EXCEPT ![t] = Append(@, buf[d])]
    /\ buf' = [buf EXCEPT ![d] = 0]
    /\ UNCHANGED <<peerVars, open, soTimeout, got, idle, left>>

WriteFails(d) ==
    /\ End(d, "write")
    /\ ~open[Target(d)] \/ peer[Target(d)] = "reset"

-----------------------------------------------------------------------------
(* finally: target first, then source. *)

CloseTarget(d) ==
    /\ Goto(d, "closeT", "closeS")
    /\ open' = [open EXCEPT ![Target(d)] = FALSE]
    /\ UNCHANGED <<peerVars, soTimeout, got, delivered, buf, idle, left>>

\* (deviation: each task closes only the socket it writes to)
LeaveSource(d) ==
    /\ Goto(d, "closeS", "done")
    /\ UNCHANGED <<peerVars, socketVars, buf, idle, left>>

CloseSource(d) ==
    /\ Goto(d, "closeS", "done")
    /\ open' = [open EXCEPT ![Source(d)] = FALSE]
    /\ UNCHANGED <<peerVars, soTimeout, got, delivered, buf, idle, left>>

Setup(d) == \/ Start(d) \/ SetSourceShort(d) \/ SetTargetShort(d)
            \/ SetSourceLong(d) \/ SetTargetLong(d) \/ SetupFails(d)

Loop(d) == \/ FoundClosed(d) \/ TakeHeader(d) \/ BeginRead(d)
           \/ ReadPiece(d) \/ ReadEof(d) \/ ReadFails(d)
           \/ TooLongSilent(d) \/ NothingRead(d) \/ SomethingRead(d)
           \/ WakeUp(d) \/ Write(d) \/ WriteFails(d)

Finally(d) == CloseTarget(d) \/ CloseSource(d)

Run(d) == Setup(d) \/ Loop(d) \/ Finally(d)

-----------------------------------------------------------------------------
(* The peers, and time. *)

PeerSends(s) ==
    /\ open[s] /\ peer[s] = "sending" /\ sent[s] < MaxSent
    /\ sent' = [sent EXCEPT ![s] = @ + 1]
    /\ UNCHANGED <<peer, stalled, socketVars, taskVars>>

PeerEnds(s) ==
    /\ open[s] /\ peer[s] = "sending"
    /\ peer' = [peer EXCEPT ![s] = "ended"]
    /\ UNCHANGED <<sent, stalled, socketVars, taskVars>>

PeerResets(s) ==
    /\ open[s] /\ peer[s] # "reset"
    /\ peer' = [peer EXCEPT ![s] = "reset"]
    /\ UNCHANGED <<sent, stalled, socketVars, taskVars>>

PeerStalls(s) ==
    /\ s \in Stallers /\ open[s] /\ peer[s] # "reset" /\ ~stalled[s]
    /\ stalled' = [stalled EXCEPT ![s] = TRUE]
    /\ UNCHANGED <<sent, peer, socketVars, taskVars>>

PeerResumes(s) ==
    /\ open[s] /\ peer[s] # "reset" /\ stalled[s]
    /\ stalled' = [stalled EXCEPT ![s] = FALSE]
    /\ UNCHANGED <<sent, peer, socketVars, taskVars>>

\* A task that has nothing to do until time passes or a peer acts.
Waiting(d) ==
    \/ pc[d] \in {"queued", "sleep", "done"}
    \/ LET s == Source(d) IN
       /\ pc[d] = "read" /\ left[d] > 0
       /\ open[s] /\ peer[s] = "sending" /\ got[s] = sent[s]
    \/ LET t == Target(d) IN
       /\ pc[d] = "write"
       /\ open[t] /\ peer[t] # "reset" /\ stalled[t]

\* The silence is counted no further than the code can tell it apart.
Tick ==
    /\ Prompt => \A d \in Dir : Waiting(d)
    /\ idle' = [d \in Dir |-> IF pc[d] \in Looping /\ idle[d] <= Idle
                              THEN idle[d] + 1 ELSE idle[d]]
    /\ left' = [d \in Dir |-> IF left[d] > 0 THEN left[d] - 1 ELSE 0]
    /\ UNCHANGED <<peerVars, socketVars, pc, buf>>

Peer(s) == \/ PeerSends(s) \/ PeerEnds(s) \/ PeerResets(s)
           \/ PeerStalls(s) \/ PeerResumes(s)

\* Somebody else holds the client's socket too and closes it: the acceptor, at a
\* later entry that is stopped; the connect task of another entry, whose service
\* is away; the relays of another entry.
ClosedElsewhere ==
    /\ open["client"]
    /\ open' = [open EXCEPT !["client"] = FALSE]
    /\ UNCHANGED <<peerVars, soTimeout, got, delivered, taskVars>>

Next == \/ \E d \in Dir : Run(d)
        \/ \E s \in Side : Peer(s)
        \/ ClosedElsewhere
        \/ Tick

\* A pool thread that can go on does, and time passes; the peers owe nothing.
Fairness == WF_vars(Tick) /\ \A d \in Dir : WF_vars(Run(d))

Spec == Init /\ [][Next]_vars /\ Fairness
-----------------------------------------------------------------------------
\* The variables stay in their ranges.
TypeOK ==
    /\ sent \in [Side -> 0..MaxSent]
    /\ peer \in [Side -> {"sending", "ended", "reset"}]
    /\ stalled \in [Side -> BOOLEAN]
    /\ open \in [Side -> BOOLEAN]
    /\ soTimeout \in [Side -> {0, Short, So}]
    /\ got \in [Side -> 0..MaxSent]
    /\ delivered \in [Side -> Seq(Nat)]
    /\ pc \in [Dir -> Settling \cup Looping \cup Ending]
    /\ buf \in [Dir -> 0..MaxSent]
    /\ idle \in [Dir -> 0..(Idle + 1)]
    /\ left \in [Dir -> 0..So]

\* The pieces taken from a source are those written to the target, in order,
\* and the one the task holds: nothing is lost, doubled or overtaken while the
\* task is in its loop, and what a task drops when it ends is the single piece
\* it held.
AccountedFor(d) ==
    LET n == Len(delivered[Target(d)]) IN
    /\ \A k \in 1..n : delivered[Target(d)][k] = k
    /\ got[Source(d)] <= sent[Source(d)]
    /\ buf[d] = 0 => n = got[Source(d)]
    /\ buf[d] # 0 => buf[d] = n + 1 /\ got[Source(d)] = n + 1
    /\ pc[d] = "write" => buf[d] # 0
    /\ pc[d] \in {"read", "sleep"} => buf[d] = 0
Accounted == \A d \in Dir : AccountedFor(d)

\* A task past its setup has left a socket it set last with the long timeout.
\* Both tasks set both sockets, in opposite orders and without a lock; when both
\* are past it, neither socket is left with the short timeout that would cut a
\* connection after 15 s of silence.
SettledTimeouts ==
    (\A d \in Dir : pc[d] \in Looping) => \A s \in Side : soTimeout[s] = So

\* A read gives up although its socket is open and the peer still there.
TimesOut(d) == /\ pc[d] = "read" /\ pc'[d] = "closeT"
               /\ open[Source(d)] /\ peer[Source(d)] # "reset"

\* The twin of task d has not yet called setSoTimeout on d's source.
Alone(d) == \A e \in Dir \ {d} : pc[e] \in {"queued", "s1", "t1"}

\* Nobody is cut off by a timeout sooner than the limits say: a read that gives
\* up on an open socket, its peer still there, comes after a silence of timeOut
\* at least, and of 20 times that unless the twin has begun its own calls on the
\* socket -- it may have started late, after any number of reads, and its short
\* value counts for a read that begins before its long one.
PatientReads ==
    [][\A d \in Dir : TimesOut(d) =>
            idle[d] >= Short /\ (Alone(d) => idle[d] >= So)]_vars

\* The test of the silence ends no connection whose peer is merely silent -- the
\* SO timeout of the read has done so long before.  It fires on a piece that has
\* just been read, which is lost with it, or on the end of the stream.
SilenceMeetsTimeout ==
    [][\A d \in Dir : (pc[d] = "check" /\ pc'[d] = "closeT") =>
                        buf[d] # 0 \/ peer[Source(d)] # "sending"]_vars

\* A task that is over has left neither socket open, whatever the twin and
\* others did to the sockets before or between its two closes: what Forwarder
\* takes the end of a relay to be.
ClosedByEnd ==
    \A d \in Dir : pc[d] = "done" => \A s \in Side : ~open[s]

\* The two tasks together are the duplex connection.
Connection == INSTANCE Duplex WITH up <- open
ImplementsDuplex == Connection!Safe

\* The end of one task brings down the whole connection, even when the other
\* is blocked in a write that has no timeout.
BothEnd == \A d \in Dir :
    (pc[d] = "done") ~> (\A e \in Dir : pc[e] = "done") /\ (\A s \in Side : ~open[s])

\* A peer that has ended its stream does not keep the sockets and the two
\* threads for ever, although the end of a stream only makes a task poll --
\* unless the peers stop taking data: a blocked write is under no limit.
EndOfStreamCloses ==
    <>[](\A s \in Side : ~stalled[s]) =>
        \A s \in Side : peer[s] = "ended" ~> \A t \in Side : ~open[t]

\* What the comment on the silence test says: the connection is ended there
\* because nothing has been read for too long.
EndedForSilence ==
    [][\A d \in Dir : (pc[d] = "check" /\ pc'[d] = "closeT") => buf[d] = 0]_vars
=============================================================================
