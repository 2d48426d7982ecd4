------------------------------- MODULE Service -------------------------------
(***************************************************************************)
(* What the forwarder promises its clients, without acceptor, pool or      *)
(* lists: a client is checked once, against the white list of that moment; *)
(* only one that has passed is served; what it gets is at most one         *)
(* connection to each service it names, for as long as it is served.       *)
(***************************************************************************)
EXTENDS WhiteListRules

CONSTANTS Clients, Names,
          HostOf,     \* HostOf[c]: the client's address
          Mentions,   \* Mentions[c]: the services it may name
          RuleLists   \* white lists there may be

VARIABLES client,     \* client[c]: "away", "waiting", "held", "served" or "gone"
          link,       \* link[<<c, n>>]: "none", "open" or "closed"
          rules       \* the white list
vars == <<client, link, rules>>

Init == /\ client = [c \in Clients |-> "away"]
        /\ link = [p \in Clients \X Names |-> "none"]
        /\ rules \in RuleLists

Turns(c, from, to) == client[c] = from /\ client' = [client EXCEPT ![c] = to]

Arrive(c) == Turns(c, "away", "waiting") /\ UNCHANGED <<link, rules>>
Accept(c) == Turns(c, "waiting", "held") /\ UNCHANGED <<link, rules>>
Reject(c) == ~Passes(rules, HostOf[c]) /\ Turns(c, "held", "gone") /\ UNCHANGED <<link, rules>>
Admit(c) == Passes(rules, HostOf[c]) /\ Turns(c, "held", "served") /\ UNCHANGED <<link, rules>>

Open(c, n) ==
    /\ client[c] = "served" /\ n \in Mentions[c] /\ link[<<c, n>>] = "none"
    /\ link' = [link EXCEPT ![<<c, n>>] = "open"]
    /\ UNCHANGED <<client, rules>>

Shut(c, n) ==
    /\ client[c] = "served" /\ link[<<c, n>>] = "open"
    /\ link' = [link EXCEPT ![<<c, n>>] = "closed"]
    /\ UNCHANGED <<client, rules>>

\* Only when all its connections are closed.
Leave(c) ==
    /\ \A n \in Names : link[<<c, n>>] # "open"
    /\ Turns(c, "served", "gone") /\ UNCHANGED <<link, rules>>

Reconfigure == rules' \in RuleLists /\ UNCHANGED <<client, link>>

Next == \/ \E c \in Clients : \/ Arrive(c) \/ Accept(c) \/ Reject(c) \/ Admit(c) \/ Leave(c)
                              \/ \E n \in Names : Open(c, n) \/ Shut(c, n)
        \/ Reconfigure

Spec == Init /\ [][Next]_vars
=============================================================================
