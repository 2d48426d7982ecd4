----------------------------- MODULE Relay_proof -----------------------------
(***************************************************************************)
(* Safety of a forwarded connection, for all limits Short < So < Idle, any *)
(* number of pieces, stalling peers or not.                                *)
(*                                                                         *)
(* Accounted is inductive together with TypeOK and carries the refinement  *)
(* of Duplex.  SettledTimeouts is not inductive: TimeoutOwed adds that a   *)
(* socket without the long timeout always has a task that will still give  *)
(* it one, or has ended.                                                   *)
(*                                                                         *)
(* Then the timeouts of reads (Patient), what the silence test meets, the  *)
(* closes, and a long timeout that is no int.                              *)
(***************************************************************************)
EXTENDS Relay, TLAPS

LEMMA Sides ==
    \A d \in Dir : /\ Source(d) \in Side /\ Target(d) \in Side
                   /\ Source(d) # Target(d)
                   /\ Target(d) = Connection!Other(Source(d))
                   /\ Source(d) = Connection!Other(Target(d))
  BY DEF Dir, Source, Target, Side, Connection!Other

LEMMA TwoDirs ==
    \A d, e \in Dir : \/ d = e
                      \/ Source(d) = Target(e) /\ Target(d) = Source(e)
  BY DEF Dir, Source, Target

LEMMA Bounds ==
    /\ 0 \in 0..(Idle + 1) /\ 0 \in 0..So /\ 0 \in 0..MaxSent
    /\ {0, Short, So} \subseteq 0..So
    /\ \A n \in 0..(Idle + 1) : n <= Idle => n + 1 \in 0..(Idle + 1)
    /\ \A n \in 0..So : n > 0 => n - 1 \in 0..So
    /\ \A n, m \in 0..MaxSent : n < m => n + 1 \in 0..MaxSent
    /\ \A n \in 0..MaxSent : n < MaxSent => n + 1 \in 0..MaxSent
    /\ 0..MaxSent \subseteq Nat
  BY LimitsAssumption, BoundAssumption

\* A task that leaves its loop leaves every variable in its range.
LEMMA EndTyped ==
    ASSUME TypeOK, NEW d \in Dir, NEW from, End(d, from)
    PROVE  TypeOK'
<1>1. pc' \in [Dir -> Settling \cup Looping \cup Ending]
  BY DEF TypeOK, End, Goto, Ending
<1>2. idle' \in [Dir -> 0..(Idle + 1)]
  BY Bounds DEF TypeOK, End
<1>3. left' \in [Dir -> 0..So]
  BY Bounds DEF TypeOK, End
<1> QED
  BY <1>1, <1>2, <1>3 DEF TypeOK, End, peerVars, socketVars

\* Every variable keeps its range.
THEOREM TypeCorrect == Spec => []TypeOK
<1>1. Init => TypeOK
  BY Bounds, BoundAssumption DEF Init, TypeOK, Side, Dir, Settling
<1>2. TypeOK /\ [Next]_vars => TypeOK'
  <2> SUFFICES ASSUME TypeOK, [Next]_vars PROVE TypeOK'
    OBVIOUS
  <2>1. ASSUME NEW d \in Dir, NEW from, NEW to \in Settling \cup Looping \cup Ending,
               Goto(d, from, to)
        PROVE  pc' \in [Dir -> Settling \cup Looping \cup Ending]
    BY <2>1 DEF TypeOK, Goto
  <2>2. \A d \in Dir : Source(d) \in Side /\ Target(d) \in Side
    BY Sides
  <2>3. ASSUME NEW d \in Dir, Setup(d) PROVE TypeOK'
    <3> USE DEF TypeOK, Settling, Looping, SetTimeout, peerVars, socketVars
    <3>1. CASE Start(d)           BY <2>1, <3>1 DEF Start
    <3>2. CASE SetSourceShort(d)  BY <2>1, <2>2, <3>2 DEF SetSourceShort
    <3>3. CASE SetTargetShort(d)  BY <2>1, <2>2, <3>3 DEF SetTargetShort
    <3>4. CASE SetSourceLong(d)   BY <2>1, <2>2, <3>4 DEF SetSourceLong
    <3>5. CASE SetTargetLong(d)   BY <2>1, <2>2, <3>5, Bounds DEF SetTargetLong
    <3>6. CASE SetupFails(d)      BY <3>6, EndTyped DEF SetupFails
    <3> QED  BY <2>3, <3>1, <3>2, <3>3, <3>4, <3>5, <3>6 DEF Setup
  <2>4. ASSUME NEW d \in Dir, Loop(d) PROVE TypeOK'
    <3>0. \/ FoundClosed(d) \/ ReadFails(d) \/ TooLongSilent(d) \/ WriteFails(d)
          => TypeOK'
      BY EndTyped DEF FoundClosed, ReadFails, TooLongSilent, WriteFails
    <3>1. ASSUME \/ TakeHeader(d) \/ BeginRead(d) \/ ReadPiece(d) \/ ReadEof(d)
                 \/ NothingRead(d) \/ SomethingRead(d) \/ WakeUp(d) \/ Write(d)
          PROVE  pc' \in [Dir -> Settling \cup Looping \cup Ending]
      BY <2>1, <3>1 DEF Looping, TakeHeader, BeginRead, ReadPiece, ReadEof,
                        NothingRead, SomethingRead, WakeUp, Write
    <3> USE DEF TypeOK, peerVars, socketVars
    <3>2. CASE TakeHeader(d)     BY <3>1, <3>2, Bounds DEF TakeHeader
    <3>3. CASE BeginRead(d)
      <4>1. soTimeout[Source(d)] \in 0..So
        BY <2>2, Bounds
      <4> QED  BY <3>1, <3>3, <4>1 DEF BeginRead
    <3>4. CASE ReadPiece(d)
      <4>1. got[Source(d)] + 1 \in 0..MaxSent
        BY <2>2, <3>4, Bounds DEF ReadPiece
      <4>2. left' \in [Dir -> 0..So]
        BY <3>4, Bounds DEF ReadPiece
      <4>3. got' \in [Side -> 0..MaxSent] /\ buf' \in [Dir -> 0..MaxSent]
        BY <3>4, <4>1 DEF ReadPiece
      <4> QED  BY <3>1, <3>4, <4>2, <4>3 DEF ReadPiece
    <3>5. CASE ReadEof(d)        BY <3>1, <3>5, Bounds DEF ReadEof
    <3>6. CASE NothingRead(d)    BY <3>1, <3>6 DEF NothingRead
    <3>7. CASE SomethingRead(d)  BY <3>1, <3>7, Bounds DEF SomethingRead
    <3>8. CASE WakeUp(d)         BY <3>1, <3>8 DEF WakeUp
    <3>9. CASE Write(d)
      <4>1. Append(delivered[Target(d)], buf[d]) \in Seq(Nat)
        BY <2>2, Bounds
      <4>2. delivered' \in [Side -> Seq(Nat)]
        BY <3>9, <4>1 DEF Write
      <4>3. buf' \in [Dir -> 0..MaxSent]
        BY <3>9, Bounds DEF Write
      <4> QED  BY <3>1, <3>9, <4>2, <4>3 DEF Write
    <3> QED
      BY <2>4, <3>0, <3>2, <3>3, <3>4, <3>5, <3>6, <3>7, <3>8, <3>9 DEF Loop
  <2>5. ASSUME NEW d \in Dir, Finally(d) PROVE TypeOK'
    BY <2>1, <2>5 DEF Finally, CloseTarget, CloseSource, TypeOK, Ending, peerVars
  <2>6. ASSUME NEW s \in Side, Peer(s) PROVE TypeOK'
    <3> USE DEF TypeOK, socketVars, taskVars
    <3>1. CASE PeerSends(s)    BY <3>1, Bounds DEF PeerSends
    <3>2. CASE PeerEnds(s)     BY <3>2 DEF PeerEnds
    <3>3. CASE PeerResets(s)   BY <3>3 DEF PeerResets
    <3>4. CASE PeerStalls(s)   BY <3>4 DEF PeerStalls
    <3>5. CASE PeerResumes(s)  BY <3>5 DEF PeerResumes
    <3> QED  BY <2>6, <3>1, <3>2, <3>3, <3>4, <3>5 DEF Peer
  <2>7. CASE Tick
    <3>1. idle' \in [Dir -> 0..(Idle + 1)]
      BY <2>7, Bounds DEF Tick, TypeOK
    <3>2. left' \in [Dir -> 0..So]
      BY <2>7, Bounds DEF Tick, TypeOK
    <3> QED  BY <2>7, <3>1, <3>2 DEF Tick, TypeOK, peerVars, socketVars
  <2>8. CASE ClosedElsewhere
    BY <2>8 DEF ClosedElsewhere, TypeOK, peerVars, taskVars
  <2>9. CASE UNCHANGED vars
    BY <2>9 DEF vars, TypeOK
  <2> QED
    BY <2>3, <2>4, <2>5, <2>6, <2>7, <2>8, <2>9 DEF Next, Run
<1> QED
  BY <1>1, <1>2, PTL DEF Spec

-----------------------------------------------------------------------------
\* What a direction's account depends on.
LEMMA AccountFrame ==
    ASSUME NEW d \in Dir, AccountedFor(d),
           delivered'[Target(d)] = delivered[Target(d)],
           got'[Source(d)] = got[Source(d)],
           sent'[Source(d)] = sent[Source(d)],
           buf'[d] = buf[d],
           pc'[d] = pc[d] \/ pc'[d] \notin {"read", "sleep", "write"}
    PROVE  AccountedFor(d)'
  BY DEF AccountedFor

\* Every piece taken from a source is written to the target in its turn, or held.
THEOREM AllAccounted == Spec => []Accounted
<1>1. Init => Accounted
  BY DEF Init, Accounted, AccountedFor, Dir, Side, Source, Target
<1>2. TypeOK /\ Accounted /\ [Next]_vars => Accounted'
  <2> SUFFICES ASSUME TypeOK, Accounted, [Next]_vars PROVE Accounted'
    OBVIOUS
  <2>0. \A e \in Dir : AccountedFor(e) /\ Source(e) \in Side /\ Target(e) \in Side
    BY Sides DEF Accounted
  <2>1. ASSUME NEW d \in Dir, Run(d), AccountedFor(d)' PROVE Accounted'
    <3> SUFFICES ASSUME NEW e \in Dir, e # d PROVE AccountedFor(e)'
      BY <2>1 DEF Accounted
    <3>1. Source(e) # Source(d) /\ Target(e) # Target(d)
      BY TwoDirs, Sides
    <3>2. /\ delivered'[Target(e)] = delivered[Target(e)]
          /\ got'[Source(e)] = got[Source(e)]
          /\ sent'[Source(e)] = sent[Source(e)]
          /\ buf'[e] = buf[e]
          /\ pc'[e] = pc[e]
      <4> USE <2>0, <3>1 DEF TypeOK, Goto, End, peerVars, socketVars
      <4>1. CASE Setup(d)
        BY <4>1 DEF Setup, Start, SetSourceShort, SetTargetShort, SetSourceLong,
                    SetTargetLong, SetupFails
      <4>2. CASE Loop(d)
        BY <4>2 DEF Loop, FoundClosed, TakeHeader, BeginRead, ReadPiece, ReadEof,
                    ReadFails, TooLongSilent, NothingRead, SomethingRead, WakeUp,
                    Write, WriteFails
      <4>3. CASE Finally(d)
        BY <4>3 DEF Finally, CloseTarget, CloseSource
      <4> QED  BY <2>1, <4>1, <4>2, <4>3 DEF Run
    <3> QED  BY <2>0, <3>2, AccountFrame
  <2>2. ASSUME NEW d \in Dir, Setup(d) \/ Finally(d) PROVE AccountedFor(d)'
    <3>1. /\ UNCHANGED <<delivered, got, sent, buf>>
          /\ pc'[d] \notin {"read", "sleep", "write"}
      BY <2>2 DEF Setup, Start, SetSourceShort, SetTargetShort, SetSourceLong,
                  SetTargetLong, SetupFails, Finally, CloseTarget, CloseSource,
                  TypeOK, Goto, End, peerVars, socketVars
    <3> QED  BY <2>0, <3>1, AccountFrame
  <2>3. ASSUME NEW d \in Dir, Loop(d) PROVE AccountedFor(d)'
    <3> USE DEF TypeOK, Goto, peerVars, socketVars
    <3>1. CASE \/ FoundClosed(d) \/ ReadFails(d) \/ TooLongSilent(d) \/ WriteFails(d)
      <4>1. /\ UNCHANGED <<delivered, got, sent, buf>>
            /\ pc'[d] = "closeT"
        BY <3>1 DEF FoundClosed, ReadFails, TooLongSilent, WriteFails, End
      <4> QED  BY <2>0, <4>1, AccountFrame
    <3>2. CASE \/ TakeHeader(d) \/ BeginRead(d) \/ ReadEof(d)
               \/ NothingRead(d) \/ SomethingRead(d) \/ WakeUp(d)
      <4>1. UNCHANGED <<delivered, got, sent, buf>>
        BY <3>2 DEF TakeHeader, BeginRead, ReadEof, NothingRead, SomethingRead, WakeUp
      <4>2. /\ pc'[d] = "write" => buf[d] # 0
            /\ pc'[d] \in {"read", "sleep"} => buf[d] = 0
        BY <3>2 DEF TakeHeader, BeginRead, ReadEof, NothingRead, SomethingRead, WakeUp
      <4> QED  BY <2>0, <4>1, <4>2 DEF AccountedFor
    <3>3. CASE ReadPiece(d)
      <4>1. /\ got'[Source(d)] = got[Source(d)] + 1
            /\ buf'[d] = got[Source(d)] + 1
            /\ pc'[d] = "check"
            /\ UNCHANGED <<delivered, sent>>
            /\ buf[d] = 0
            /\ got[Source(d)] < sent[Source(d)]
        BY <2>0, <3>3 DEF ReadPiece, AccountedFor
      <4>2. got[Source(d)] \in Nat /\ sent[Source(d)] \in Nat
        BY <2>0
      <4> QED  BY <2>0, <4>1, <4>2 DEF AccountedFor
    <3>4. CASE Write(d)
      <4> DEFINE t == Target(d)
                 n == Len(delivered[t])
      <4>1. /\ delivered'[t] = Append(delivered[t], buf[d])
            /\ buf'[d] = 0
            /\ pc'[d] = "top"
            /\ UNCHANGED <<got, sent>>
        BY <2>0, <3>4 DEF Write
      <4>2. buf[d] = n + 1 /\ got[Source(d)] = n + 1
        BY <2>0, <3>4 DEF Write, AccountedFor
      <4>3. delivered[t] \in Seq(Nat) /\ n \in Nat /\ buf[d] \in Nat
        BY <2>0
      <4>4. /\ Len(delivered'[t]) = n + 1
            /\ \A k \in 1..(n + 1) : delivered'[t][k] = k
        BY <2>0, <4>1, <4>2, <4>3 DEF AccountedFor
      <4> QED  BY <2>0, <4>1, <4>2, <4>4 DEF AccountedFor
    <3> QED  BY <2>3, <3>1, <3>2, <3>3, <3>4 DEF Loop
  <2>4. ASSUME NEW s \in Side, Peer(s) PROVE Accounted'
    <3>1. UNCHANGED <<delivered, got, buf, pc>>
      BY <2>4 DEF Peer, PeerSends, PeerEnds, PeerResets, PeerStalls, PeerResumes,
                  socketVars, taskVars
    <3>2. \A p \in Side : /\ sent[p] \in Nat /\ sent'[p] \in Nat /\ got[p] \in Nat
                          /\ sent[p] <= sent'[p]
      <4>1. \A p \in Side : sent[p] \in Nat /\ got[p] \in Nat
        BY DEF TypeOK
      <4>2. CASE PeerSends(s)
        BY <4>1, <4>2 DEF PeerSends, TypeOK
      <4>3. CASE ~PeerSends(s)
        BY <2>4, <4>1, <4>3 DEF Peer, PeerEnds, PeerResets, PeerStalls, PeerResumes
      <4> QED  BY <4>2, <4>3
    <3> QED  BY <2>0, <3>1, <3>2 DEF Accounted, AccountedFor
  <2>5. CASE Tick \/ ClosedElsewhere \/ UNCHANGED vars
    <3>1. UNCHANGED <<delivered, got, sent, buf, pc>>
      BY <2>5 DEF Tick, ClosedElsewhere, vars, peerVars, socketVars, taskVars
    <3> QED  BY <2>0, <3>1, AccountFrame DEF Accounted
  <2> QED
    BY <2>1, <2>2, <2>3, <2>4, <2>5 DEF Next, Run
<1> QED
  BY <1>1, <1>2, TypeCorrect, PTL DEF Spec

-----------------------------------------------------------------------------
\* Task d has not yet given socket s its long timeout, or never will.
WillSet(d, s) ==
    \/ pc[d] \in {"queued", "s1", "t1", "s20"} \cup Ending
    \/ pc[d] = "t20" /\ s = Target(d)
TimeoutOwed == \A s \in Side : soTimeout[s] = So \/ \E d \in Dir : WillSet(d, s)

\* With both tasks in their loops neither socket has the short timeout, however
\* their eight calls interleaved.
THEOREM TimeoutsSettle == Spec => []SettledTimeouts
<1>1. Init => TimeoutOwed
  BY DEF Init, TimeoutOwed, WillSet, Dir
<1>2. TypeOK /\ TimeoutOwed /\ [Next]_vars => TimeoutOwed'
  <2> SUFFICES ASSUME TypeOK, TimeoutOwed, [Next]_vars, NEW s \in Side
               PROVE  soTimeout'[s] = So \/ \E d \in Dir : WillSet(d, s)'
    BY DEF TimeoutOwed
  <2>0. soTimeout[s] = So \/ \E d \in Dir : WillSet(d, s)
    BY DEF TimeoutOwed
  <2>1. ASSUME NEW d \in Dir, Run(d)
        PROVE  /\ \A e \in Dir : e # d => pc'[e] = pc[e]
               /\ WillSet(d, s) => WillSet(d, s)' \/ soTimeout'[s] = So
               /\ soTimeout'[s] = soTimeout[s] \/ soTimeout'[s] = So \/ WillSet(d, s)'
    <3> USE Sides DEF WillSet, TypeOK, Goto, End, SetTimeout, Ending, socketVars
    <3>1. CASE Setup(d)
      <4>1. CASE Start(d)           BY <4>1 DEF Start
      <4>2. CASE SetSourceShort(d)  BY <4>2 DEF SetSourceShort
      <4>3. CASE SetTargetShort(d)  BY <4>3 DEF SetTargetShort
      <4>4. CASE SetSourceLong(d)
        <5>1. s = Source(d) \/ s = Target(d)
          BY DEF Side, Dir, Source, Target
        <5> QED  BY <4>4, <5>1 DEF SetSourceLong
      <4>5. CASE SetTargetLong(d)   BY <4>5 DEF SetTargetLong
      <4>6. CASE SetupFails(d)      BY <4>6 DEF SetupFails
      <4> QED  BY <3>1, <4>1, <4>2, <4>3, <4>4, <4>5, <4>6 DEF Setup
    <3>2. CASE Loop(d)
      BY <3>2 DEF Loop, FoundClosed, TakeHeader, BeginRead, ReadPiece, ReadEof,
                  ReadFails, TooLongSilent, NothingRead, SomethingRead, WakeUp,
                  Write, WriteFails
    <3>3. CASE Finally(d)
      BY <3>3 DEF Finally, CloseTarget, CloseSource
    <3> QED  BY <2>1, <3>1, <3>2, <3>3 DEF Run
  <2>2. ASSUME NEW d \in Dir, Run(d)
        PROVE  soTimeout'[s] = So \/ \E e \in Dir : WillSet(e, s)'
    <3>1. \A e \in Dir : e # d /\ WillSet(e, s) => WillSet(e, s)'
      BY <2>1, <2>2 DEF WillSet
    <3> QED  BY <2>0, <2>1, <2>2, <3>1
  <2>3. CASE Tick \/ (\E p \in Side : Peer(p)) \/ ClosedElsewhere \/ UNCHANGED vars
    <3>1. UNCHANGED <<soTimeout, pc>>
      BY <2>3 DEF Tick, Peer, PeerSends, PeerEnds, PeerResets, PeerStalls,
                  PeerResumes, ClosedElsewhere, vars, socketVars, taskVars
    <3> QED  BY <2>0, <3>1 DEF WillSet
  <2> QED  BY <2>2, <2>3 DEF Next
<1>3. TimeoutOwed => SettledTimeouts
  BY DEF TimeoutOwed, WillSet, SettledTimeouts, Looping, Ending
<1> QED
  BY <1>1, <1>2, <1>3, TypeCorrect, PTL DEF Spec

-----------------------------------------------------------------------------
\* The two tasks, with all their timeouts and closings, never do what a duplex
\* connection would not: each write is the next piece towards an open end.
THEOREM RelayImplementsDuplex == Spec => ImplementsDuplex
<1>1. Init => Connection!Init
  BY DEF Init, Connection!Init, Side, Connection!Side
<1>2. TypeOK /\ Accounted /\ [Next]_vars => [Connection!Next]_(Connection!vars)
  <2> SUFFICES ASSUME TypeOK, Accounted, [Next]_vars
               PROVE  Connection!Next \/ UNCHANGED Connection!vars
    OBVIOUS
  <2> USE DEF Connection!vars
  <2>0. Side = Connection!Side
    BY DEF Side, Connection!Side
  <2>1. ASSUME NEW d \in Dir, Write(d) PROVE Connection!Next
    <3>1. buf[d] = Len(delivered[Target(d)]) + 1
      BY <2>1 DEF Write, Goto, Accounted, AccountedFor
    <3>2. Len(delivered[Target(d)]) < sent[Source(d)]
      <4>1. /\ got[Source(d)] = Len(delivered[Target(d)]) + 1
            /\ got[Source(d)] <= sent[Source(d)]
        BY <2>1 DEF Write, Goto, Accounted, AccountedFor
      <4>2. got[Source(d)] \in Nat /\ sent[Source(d)] \in Nat
            /\ Len(delivered[Target(d)]) \in Nat
        BY Sides DEF TypeOK
      <4> QED  BY <4>1, <4>2
    <3>3. Connection!Deliver(Target(d))
      BY <2>1, <3>1, <3>2, Sides
         DEF Write, Connection!Deliver, peerVars
    <3> QED  BY <2>0, <3>3, Sides DEF Connection!Next
  <2>2. ASSUME NEW d \in Dir, Finally(d)
        PROVE  Connection!Next \/ UNCHANGED <<sent, delivered, open>>
    <3>1. PICK s \in Side : /\ open' = [open EXCEPT ![s] = FALSE]
                            /\ UNCHANGED <<sent, delivered>>
      BY <2>2, Sides DEF Finally, CloseTarget, CloseSource, peerVars
    <3>2. CASE open[s]
      BY <2>0, <3>1, <3>2 DEF Connection!HangUp, Connection!Next
    <3>3. CASE ~open[s]
      <4>1. open' = open
        BY <3>1, <3>3 DEF TypeOK
      <4> QED  BY <3>1, <4>1
    <3> QED  BY <3>2, <3>3
  <2>3. ASSUME NEW d \in Dir, Setup(d) \/ (Loop(d) /\ ~Write(d))
        PROVE  UNCHANGED <<sent, delivered, open>>
    BY <2>3 DEF Setup, Start, SetSourceShort, SetTargetShort, SetSourceLong,
                SetTargetLong, SetupFails, Loop, FoundClosed, TakeHeader, BeginRead,
                ReadPiece, ReadEof, ReadFails, TooLongSilent, NothingRead,
                SomethingRead, WakeUp, WriteFails, End, peerVars, socketVars
  <2>4. ASSUME NEW s \in Side, Peer(s)
        PROVE  Connection!Next \/ UNCHANGED <<sent, delivered, open>>
    <3>1. CASE PeerSends(s)
      BY <2>0, <3>1 DEF PeerSends, Connection!Send, Connection!Next, socketVars
    <3>2. CASE ~PeerSends(s)
      BY <2>4, <3>2 DEF Peer, PeerEnds, PeerResets, PeerStalls, PeerResumes, socketVars
    <3> QED  BY <3>1, <3>2
  <2>5. CASE ClosedElsewhere
    <3>1. Connection!HangUp("client")
      BY <2>5 DEF ClosedElsewhere, Connection!HangUp, peerVars
    <3> QED  BY <3>1 DEF Connection!Next, Connection!Side
  <2>6. CASE Tick \/ UNCHANGED vars
    BY <2>6 DEF Tick, vars, peerVars, socketVars
  <2> QED
    BY <2>1, <2>2, <2>3, <2>4, <2>5, <2>6 DEF Next, Run
<1> QED
  BY <1>1, <1>2, TypeCorrect, AllAccounted, PTL
     DEF Spec, ImplementsDuplex, Connection!Safe

-----------------------------------------------------------------------------
\* What the step of one task leaves alone: the other task, and the peers.
LEMMA RunFrame ==
    ASSUME TypeOK, NEW d \in Dir, Run(d)
    PROVE  /\ UNCHANGED peerVars
           /\ \A e \in Dir : e # d => /\ pc'[e] = pc[e] /\ buf'[e] = buf[e]
                                      /\ idle'[e] = idle[e] /\ left'[e] = left[e]
<1> USE DEF TypeOK, Goto, End, peerVars, socketVars
<1>1. CASE Setup(d)
  BY <1>1 DEF Setup, Start, SetSourceShort, SetTargetShort, SetSourceLong,
              SetTargetLong, SetupFails
<1>2. CASE Loop(d)
  BY <1>2 DEF Loop, FoundClosed, TakeHeader, BeginRead, ReadPiece, ReadEof, ReadFails,
              TooLongSilent, NothingRead, SomethingRead, WakeUp, Write, WriteFails
<1>3. CASE Finally(d)
  BY <1>3 DEF Finally, CloseTarget, CloseSource
<1> QED
  BY <1>1, <1>2, <1>3 DEF Run

\* What the peers leave alone, and the way their ends of the connection go.
LEMMA PeerFrame ==
    ASSUME TypeOK, NEW p \in Side, Peer(p)
    PROVE  /\ UNCHANGED socketVars /\ UNCHANGED taskVars
           /\ \A s \in Side : peer[s] # "sending" => peer'[s] # "sending"
  BY DEF TypeOK, Peer, PeerSends, PeerEnds, PeerResets, PeerStalls, PeerResumes

\* A task goes over to its finally by an action of its own: out of a read, and
\* out of the test of the silence, there is one each.
LEMMA WaysOut ==
    ASSUME TypeOK, [Next]_vars, NEW d \in Dir, pc'[d] = "closeT"
    PROVE  /\ pc[d] = "read" => ReadFails(d)
           /\ pc[d] = "check" => TooLongSilent(d)
<1>1. ASSUME pc[d] \in {"read", "check"} PROVE Run(d)
  <2>1. pc'[d] # pc[d]
    BY <1>1
  <2>2. \A e \in Dir : Run(e) => e = d
    BY <2>1, RunFrame
  <2>3. ~(\E p \in Side : Peer(p)) /\ ~ClosedElsewhere /\ ~Tick /\ ~UNCHANGED vars
    BY <2>1, PeerFrame DEF taskVars, ClosedElsewhere, Tick, vars
  <2> QED  BY <2>2, <2>3 DEF Next
<1> USE DEF TypeOK, Goto, End
<1>2. ASSUME pc[d] \in {"read", "check"} PROVE Loop(d)
  <2>1. ~Setup(d)
    BY <1>2 DEF Setup, Start, SetSourceShort, SetTargetShort, SetSourceLong,
                SetTargetLong, SetupFails
  <2>2. ~Finally(d)
    BY <1>2 DEF Finally, CloseTarget, CloseSource
  <2> QED  BY <1>1, <1>2, <2>1, <2>2 DEF Run
<1> QED
  BY <1>2 DEF Loop, FoundClosed, TakeHeader, BeginRead, ReadPiece, ReadEof, ReadFails,
              TooLongSilent, NothingRead, SomethingRead, WakeUp, Write, WriteFails

-----------------------------------------------------------------------------
\* Past its own call task d finds a timeout on its source, and not the twin's
\* short one before the twin has begun; a read under way has waited, or has yet
\* to wait, as long as the timeout it found.
HasTimeout(d) == /\ soTimeout[Source(d)] \in {Short, So}
                 /\ Alone(d) => soTimeout[Source(d)] = So
HasPatience(d) == /\ idle[d] + left[d] >= Short
                  /\ Alone(d) => idle[d] + left[d] >= So
Patient(d) == /\ pc[d] \in {"t20"} \cup Looping => HasTimeout(d)
              /\ pc[d] = "read" => HasPatience(d)

\* The steps of the twin: what a task knows of its source is lost in the first
\* of the twin's calls on it only.
LEMMA TwinPatient ==
    ASSUME TypeOK, NEW d \in Dir, NEW e \in Dir, e # d, Patient(d), Run(e)
    PROVE  Patient(d)'
<1>1. /\ pc'[d] = pc[d] /\ idle'[d] = idle[d] /\ left'[d] = left[d]
  BY RunFrame
<1>2. Source(d) = Target(e) /\ Source(d) # Source(e) /\ Source(d) \in Side
  BY TwoDirs, Sides
<1>3. Alone(d) <=> pc[e] \in {"queued", "s1", "t1"}
  BY DEF Alone, Dir
<1>4. Alone(d)' <=> pc'[e] \in {"queued", "s1", "t1"}
  BY DEF Alone, Dir
<1>5. /\ Alone(d)' => Alone(d)
      /\ \/ soTimeout'[Source(d)] = soTimeout[Source(d)]
         \/ soTimeout'[Source(d)] = So
         \/ soTimeout'[Source(d)] = Short /\ ~Alone(d)'
  <2> USE <1>2, <1>3, <1>4 DEF TypeOK, Goto, End, SetTimeout, peerVars, socketVars
  <2>1. CASE Setup(e)
    <3>1. CASE Start(e)           BY <3>1 DEF Start
    <3>2. CASE SetSourceShort(e)  BY <3>2 DEF SetSourceShort
    <3>3. CASE SetTargetShort(e)  BY <3>3 DEF SetTargetShort
    <3>4. CASE SetSourceLong(e)   BY <3>4 DEF SetSourceLong
    <3>5. CASE SetTargetLong(e)   BY <3>5 DEF SetTargetLong
    <3>6. CASE SetupFails(e)      BY <3>6 DEF SetupFails
    <3> QED  BY <2>1, <3>1, <3>2, <3>3, <3>4, <3>5, <3>6 DEF Setup
  <2>2. CASE Loop(e)
    BY <2>2 DEF Loop, FoundClosed, TakeHeader, BeginRead, ReadPiece, ReadEof, ReadFails,
                TooLongSilent, NothingRead, SomethingRead, WakeUp, Write, WriteFails
  <2>3. CASE Finally(e)
    BY <2>3 DEF Finally, CloseTarget, CloseSource
  <2> QED  BY <2>1, <2>2, <2>3 DEF Run
<1> QED
  BY <1>1, <1>5 DEF Patient, HasTimeout, HasPatience

\* The task's own steps: it comes to its loop by the long call, and to a read
\* with the timeout its source has then.
LEMMA OwnPatient ==
    ASSUME TypeOK, NEW d \in Dir, Patient(d), Run(d)
    PROVE  Patient(d)'
<1>1. Source(d) \in Side /\ Target(d) \in Side /\ Source(d) # Target(d)
  BY Sides
<1>2. Alone(d)' <=> Alone(d)
  BY RunFrame DEF Alone
<1> USE <1>1 DEF TypeOK, Goto, End, SetTimeout, peerVars, socketVars
<1>3. CASE Setup(d)
  <2>1. CASE SetSourceLong(d)
    BY <2>1 DEF SetSourceLong, Patient, HasTimeout, Looping
  <2>2. CASE SetTargetLong(d)
    BY <1>2, <2>2 DEF SetTargetLong, Patient, HasTimeout, Looping
  <2>3. CASE ~SetSourceLong(d) /\ ~SetTargetLong(d)
    <3>1. pc'[d] \notin {"t20"} \cup Looping
      BY <1>3, <2>3 DEF Setup, Start, SetSourceShort, SetTargetShort, SetupFails, Looping
    <3> QED  BY <3>1 DEF Patient, Looping
  <2> QED  BY <2>1, <2>2, <2>3
<1>4. CASE Loop(d)
  <2>1. CASE BeginRead(d)
    <3>1. left'[d] = soTimeout[Source(d)] /\ UNCHANGED <<idle, soTimeout>>
      BY <2>1 DEF BeginRead
    <3>2. HasTimeout(d)
      BY <2>1 DEF BeginRead, Patient, Looping
    <3>3. idle[d] \in Nat /\ Short \in Nat /\ So \in Nat /\ Short < So
      BY LimitsAssumption
    <3>4. HasPatience(d)'
      BY <1>2, <3>1, <3>2, <3>3 DEF HasTimeout, HasPatience
    <3>5. HasTimeout(d)'
      BY <1>2, <3>1, <3>2 DEF HasTimeout
    <3> QED  BY <3>4, <3>5 DEF Patient
  <2>2. CASE ~BeginRead(d)
    <3>1. /\ pc[d] \in Looping /\ pc'[d] # "read"
          /\ UNCHANGED soTimeout
      BY <1>4, <2>2 DEF Loop, FoundClosed, TakeHeader, ReadPiece, ReadEof, ReadFails,
                        TooLongSilent, NothingRead, SomethingRead, WakeUp, Write,
                        WriteFails, Looping
    <3> QED  BY <1>2, <3>1 DEF Patient, HasTimeout
  <2> QED  BY <2>1, <2>2
<1>5. CASE Finally(d)
  BY <1>5 DEF Finally, CloseTarget, CloseSource, Patient, Looping
<1> QED
  BY <1>3, <1>4, <1>5 DEF Run

\* What time takes from a read it adds to the silence.
LEMMA TickPatient ==
    ASSUME TypeOK, NEW d \in Dir, Patient(d), Tick
    PROVE  Patient(d)'
<1>1. /\ UNCHANGED <<pc, soTimeout>>
      /\ Alone(d)' <=> Alone(d)
  BY DEF Tick, socketVars, Alone
<1>2. ASSUME pc[d] = "read" PROVE HasPatience(d)'
  <2>1. /\ idle[d] \in Nat /\ left[d] \in Nat
        /\ Short \in Nat /\ So \in Nat /\ Idle \in Nat /\ Short < So /\ So < Idle
    BY LimitsAssumption DEF TypeOK
  <2>2. /\ idle'[d] = IF idle[d] <= Idle THEN idle[d] + 1 ELSE idle[d]
        /\ left'[d] = IF left[d] > 0 THEN left[d] - 1 ELSE 0
    BY <1>2 DEF Tick, Looping
  <2>3. HasPatience(d)
    BY <1>2 DEF Patient
  <2> QED  BY <1>1, <2>1, <2>2, <2>3 DEF HasPatience
<1> QED
  BY <1>1, <1>2 DEF Patient, HasTimeout

\* No timeout cuts a connection before the silence it stands for.
THEOREM ReadsArePatient == Spec => PatientReads
<1> DEFINE Inv == \A d \in Dir : Patient(d)
<1>1. Init => Inv
  BY DEF Init, Patient, Looping, Dir
<1>2. TypeOK /\ Inv /\ [Next]_vars => Inv'
  <2> SUFFICES ASSUME TypeOK, Inv, [Next]_vars, NEW d \in Dir PROVE Patient(d)'
    OBVIOUS
  <2>1. ASSUME NEW e \in Dir, Run(e) PROVE Patient(d)'
    BY <2>1, OwnPatient, TwinPatient
  <2>2. CASE Tick
    BY <2>2, TickPatient
  <2>3. CASE (\E p \in Side : Peer(p)) \/ ClosedElsewhere \/ UNCHANGED vars
    <3>1. UNCHANGED <<pc, soTimeout, idle, left>>
      BY <2>3, PeerFrame DEF ClosedElsewhere, vars, socketVars, taskVars
    <3> QED  BY <3>1 DEF Patient, HasTimeout, HasPatience, Alone
  <2> QED  BY <2>1, <2>2, <2>3 DEF Next
<1>3. TypeOK /\ Inv /\ [Next]_vars =>
        [\A d \in Dir : TimesOut(d) =>
             idle[d] >= Short /\ (Alone(d) => idle[d] >= So)]_vars
  <2> SUFFICES ASSUME TypeOK, Inv, [Next]_vars, NEW d \in Dir, TimesOut(d)
               PROVE  idle[d] >= Short /\ (Alone(d) => idle[d] >= So)
    OBVIOUS
  <2>1. left[d] = 0
    BY WaysOut DEF ReadFails, TimesOut
  <2>2. idle[d] \in Nat
    BY DEF TypeOK
  <2> QED  BY <2>1, <2>2 DEF Patient, HasPatience, TimesOut
<1> QED
  BY <1>1, <1>2, <1>3, TypeCorrect, PTL DEF Spec, PatientReads

-----------------------------------------------------------------------------
\* Behind a read that brought nothing is the end of a stream, for good.
NothingAtEnd(d) == pc[d] = "check" => buf[d] # 0 \/ peer[Source(d)] # "sending"

\* The silence test fires on a piece just read or after the end of the stream.
THEOREM SilenceTestLate == Spec => SilenceMeetsTimeout
<1> DEFINE Inv == \A d \in Dir : NothingAtEnd(d)
<1>1. Init => Inv
  BY DEF Init, NothingAtEnd, Dir
<1>2. TypeOK /\ Inv /\ [Next]_vars => Inv'
  <2> SUFFICES ASSUME TypeOK, Inv, [Next]_vars, NEW d \in Dir PROVE NothingAtEnd(d)'
    OBVIOUS
  <2>0. Source(d) \in Side
    BY Sides
  <2>1. ASSUME Run(d) PROVE NothingAtEnd(d)'
    <3> USE DEF TypeOK, Goto, End
    <3>1. CASE ReadPiece(d)
      <4>1. buf'[d] = got[Source(d)] + 1 /\ got[Source(d)] \in Nat
        BY <2>0, <3>1 DEF ReadPiece
      <4> QED  BY <4>1 DEF NothingAtEnd
    <3>2. CASE ReadEof(d)
      BY <3>2 DEF ReadEof, NothingAtEnd, peerVars
    <3>3. CASE ~ReadPiece(d) /\ ~ReadEof(d)
      <4>1. pc'[d] # "check"
        BY <2>1, <3>3 DEF Run, Setup, Start, SetSourceShort, SetTargetShort, SetSourceLong,
                          SetTargetLong, SetupFails, Loop, FoundClosed, TakeHeader,
                          BeginRead, ReadFails, TooLongSilent, NothingRead, SomethingRead,
                          WakeUp, Write, WriteFails, Finally, CloseTarget, CloseSource
      <4> QED  BY <4>1 DEF NothingAtEnd
    <3> QED  BY <3>1, <3>2, <3>3
  <2>2. ASSUME NEW e \in Dir, Run(e), e # d PROVE NothingAtEnd(d)'
    BY <2>2, RunFrame DEF NothingAtEnd, peerVars
  <2>3. ASSUME NEW p \in Side, Peer(p) PROVE NothingAtEnd(d)'
    BY <2>0, <2>3, PeerFrame DEF NothingAtEnd, taskVars
  <2>4. CASE Tick \/ ClosedElsewhere \/ UNCHANGED vars
    BY <2>4 DEF Tick, ClosedElsewhere, vars, peerVars, taskVars, NothingAtEnd
  <2> QED  BY <2>1, <2>2, <2>3, <2>4 DEF Next
<1>3. TypeOK /\ Inv /\ [Next]_vars =>
        [\A d \in Dir : (pc[d] = "check" /\ pc'[d] = "closeT") =>
                        buf[d] # 0 \/ peer[Source(d)] # "sending"]_vars
  BY DEF NothingAtEnd
<1> QED
  BY <1>1, <1>2, <1>3, TypeCorrect, PTL DEF Spec, SilenceMeetsTimeout

-----------------------------------------------------------------------------
\* How far a task has come with its closes.
HasClosed(d) == /\ pc[d] \in {"closeS", "done"} => ~open[Target(d)]
                /\ pc[d] = "done" => ~open[Source(d)]

\* A relay that is over has closed both sockets, whoever closed what before.
THEOREM EndsCloseAll == Spec => []ClosedByEnd
<1> DEFINE Inv == \A d \in Dir : HasClosed(d)
<1>1. Init => Inv
  BY DEF Init, HasClosed, Dir
<1>2. TypeOK /\ Inv /\ [Next]_vars => Inv'
  <2> SUFFICES ASSUME TypeOK, Inv, [Next]_vars PROVE Inv'
    OBVIOUS
  <2>1. ASSUME NEW d \in Dir, Setup(d) \/ Loop(d) PROVE Inv'
    <3>1. /\ UNCHANGED open
          /\ pc[d] \notin {"closeS", "done"} /\ pc'[d] \notin {"closeS", "done"}
      BY <2>1 DEF TypeOK, Goto, End, peerVars, socketVars, Setup, Start, SetSourceShort,
                  SetTargetShort, SetSourceLong, SetTargetLong, SetupFails, Loop,
                  FoundClosed, TakeHeader, BeginRead, ReadPiece, ReadEof, ReadFails,
                  TooLongSilent, NothingRead, SomethingRead, WakeUp, Write, WriteFails
    <3>2. \A e \in Dir : e # d => pc'[e] = pc[e]
      BY <2>1, RunFrame DEF Run
    <3> QED  BY <3>1, <3>2 DEF HasClosed
  <2>2. ASSUME NEW d \in Dir, Finally(d) PROVE Inv'
    <3>1. \A e \in Dir : e # d => pc'[e] = pc[e]
      BY <2>2, RunFrame DEF Run
    <3>2. Source(d) \in Side /\ Target(d) \in Side
      BY Sides
    <3>3. CASE CloseTarget(d)
      <4>1. /\ pc[d] = "closeT" /\ pc'[d] = "closeS"
            /\ \A s \in Side : open'[s] <=> open[s] /\ s # Target(d)
        BY <3>2, <3>3 DEF CloseTarget, Goto, TypeOK
      <4> QED  BY <3>1, <3>2, <4>1, Sides DEF HasClosed
    <3>4. CASE CloseSource(d)
      <4>1. /\ pc[d] = "closeS" /\ pc'[d] = "done"
            /\ \A s \in Side : open'[s] <=> open[s] /\ s # Source(d)
        BY <3>2, <3>4 DEF CloseSource, Goto, TypeOK
      <4> QED  BY <3>1, <3>2, <4>1, Sides DEF HasClosed
    <3> QED  BY <2>2, <3>3, <3>4 DEF Finally
  <2>3. CASE ClosedElsewhere
    <3>1. UNCHANGED pc /\ \A s \in Side : open'[s] => open[s]
      BY <2>3 DEF ClosedElsewhere, TypeOK, taskVars
    <3> QED  BY <3>1, Sides DEF HasClosed
  <2>4. CASE Tick \/ (\E p \in Side : Peer(p)) \/ UNCHANGED vars
    <3>1. UNCHANGED <<pc, open>>
      BY <2>4, PeerFrame DEF Tick, vars, socketVars, taskVars
    <3> QED  BY <3>1 DEF HasClosed
  <2> QED  BY <2>1, <2>2, <2>3, <2>4 DEF Next, Run
<1>3. Inv => ClosedByEnd
  <2>1. \A d \in Dir, s \in Side : s = Source(d) \/ s = Target(d)
    BY DEF Dir, Side, Source, Target
  <2> QED  BY <2>1 DEF HasClosed, ClosedByEnd
<1> QED
  BY <1>1, <1>2, <1>3, TypeCorrect, PTL DEF Spec

-----------------------------------------------------------------------------
NothingForwarded == \A s \in Side : delivered[s] = <<>>

\* With a timeOut of which 20 times is no int -- from about 107374 s, 30 hours, on -- a client
\* is accepted and its service connected as ever, but no task gets past its
\* setup, and nothing is forwarded, not even the header.
THEOREM TooLongForwardsNothing ==
    ASSUME So > MaxInt
    PROVE  Spec => []NothingForwarded
<1> DEFINE Inv == /\ NothingForwarded
                  /\ \A d \in Dir : pc[d] \in {"queued", "s1", "t1", "s20"} \cup Ending
<1>1. Init => Inv
  BY DEF Init, NothingForwarded, Dir, Side
<1>2. TypeOK /\ Inv /\ [Next]_vars => Inv'
  <2> SUFFICES ASSUME TypeOK, Inv, [Next]_vars PROVE Inv'
    OBVIOUS
  <2>1. ASSUME NEW d \in Dir, Run(d) PROVE Inv'
    <3>1. ~SetSourceLong(d)
      BY LimitsAssumption, IntAssumption DEF SetSourceLong
    <3>2. ~Loop(d)
      BY DEF TypeOK, Goto, End, Ending, Loop, FoundClosed, TakeHeader, BeginRead, ReadPiece,
             ReadEof, ReadFails, TooLongSilent, NothingRead, SomethingRead, WakeUp, Write,
             WriteFails
    <3>3. /\ UNCHANGED delivered
          /\ pc'[d] \in {"queued", "s1", "t1", "s20"} \cup Ending
      BY <2>1, <3>1, <3>2
         DEF Run, TypeOK, Goto, End, Ending, socketVars, Setup, Start, SetSourceShort,
             SetTargetShort, SetTargetLong, SetupFails, Finally, CloseTarget, CloseSource
    <3>4. \A e \in Dir : e # d => pc'[e] = pc[e]
      BY <2>1, RunFrame
    <3> QED  BY <3>3, <3>4 DEF NothingForwarded
  <2>2. CASE Tick \/ (\E p \in Side : Peer(p)) \/ ClosedElsewhere \/ UNCHANGED vars
    <3>1. UNCHANGED <<pc, delivered>>
      BY <2>2, PeerFrame DEF Tick, ClosedElsewhere, vars, socketVars, taskVars
    <3> QED  BY <3>1 DEF NothingForwarded
  <2> QED  BY <2>1, <2>2 DEF Next
<1>3. Inv => NothingForwarded
  OBVIOUS
<1> QED
  BY <1>1, <1>2, <1>3, TypeCorrect, PTL DEF Spec
=============================================================================
