------------------------------- MODULE Duplex -------------------------------
(***************************************************************************)
(* What one forwarded connection promises its two ends, whatever threads   *)
(* carry it: everything an end sends comes out at the other end once, in   *)
(* order and without a gap, until that end is hung up; and when one end is *)
(* hung up the other is too.                                               *)
(*                                                                         *)
(* The pieces an end sends are numbered from 1.  The client's first piece  *)
(* has been read by the time the connection exists: it names the service.  *)
(***************************************************************************)
EXTENDS Sequences, Naturals

Side == {"client", "remote"}
Other(s) == IF s = "client" THEN "remote" ELSE "client"

VARIABLES sent,       \* sent[s]: pieces the peer at s has sent
          delivered,  \* delivered[s]: pieces handed to the peer at s
          up          \* up[s]: the connection towards s stands

vars == <<sent, delivered, up>>

Init == /\ sent = [s \in Side |-> IF s = "client" THEN 1 ELSE 0]
        /\ delivered = [s \in Side |-> <<>>]
        /\ up = [s \in Side |-> TRUE]

Send(s) ==
    /\ sent' = [sent EXCEPT ![s] = @ + 1]
    /\ UNCHANGED <<delivered, up>>

\* The next piece, and no other, reaches s.
Deliver(s) ==
    /\ up[s]
    /\ Len(delivered[s]) < sent[Other(s)]
    /\ delivered' = [delivered EXCEPT ![s] = Append(@, Len(@) + 1)]
    /\ UNCHANGED <<sent, up>>

HangUp(s) ==
    /\ up[s]
    /\ up' = [up EXCEPT ![s] = FALSE]
    /\ UNCHANGED <<sent, delivered>>

Next == \E s \in Side : Send(s) \/ Deliver(s) \/ HangUp(s)

Safe == Init /\ [][Next]_vars
=============================================================================
