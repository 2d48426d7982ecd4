------------------------------- MODULE MCRelay -------------------------------
(* Relay with the limits 1 < 2 < 3 < 2*2, ordered as timeOut, timeOut*20 and
   timeOut*30 are; the second just fits an int. *)
EXTENDS Relay
=============================================================================
