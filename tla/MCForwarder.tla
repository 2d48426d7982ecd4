----------------------------- MODULE MCForwarder -----------------------------
(* Two clients of two services and a pool of two threads. *)
EXTENDS Forwarder, TLC

CONSTANTS c1, c2

MCClients == {c1, c2}

\* A service name that ends with another: "test1)" contains "1)".
MCNames == {"test1", "1"}
MCBadTargets == {}
OneBadTarget == {"test1"}

\* c1 names "1", c2 names "test1" and so "1" as well.
MCMentions == (c1 :> {"1"}) @@ (c2 :> {"test1", "1"})

\* A name is cut off, or it is the second of two.
MCCuts == (c1 :> {{}}) @@ (c2 :> {{}, {"1"}})

MCHostOf == (c1 :> <<"10", "1">>) @@ (c2 :> <<"10", "2">>)

entry(n, e) == [name |-> n, enable |-> e]
MCLists == {<<entry("test1", TRUE), entry("1", TRUE)>>,
            <<entry("1", FALSE), entry("test1", TRUE)>>}

\* Everybody of network 10, or c2 alone.
MCRuleLists == {<< <<"10", "*">> >>, << <<"10", "2">> >>}
=============================================================================
