--------------------------- MODULE WhiteListRules ---------------------------
(***************************************************************************)
(* The IP white list as a predicate.  A rule is the text of                *)
(* IpWhiteList.ip and a host the text of InetAddress.getHostAddress(),     *)
(* each already split at its dots: a sequence of segments.  A rule that    *)
(* consists of the one word "all" admits every host; any other rule admits *)
(* the hosts that have as many segments as the rule and agree with it in   *)
(* every segment the rule does not leave open with "*".                    *)
(*                                                                         *)
(* Rules with dots at their end are left out: split() drops what follows,  *)
(* so "all." has the segments of "all" without being equal to it.          *)
(***************************************************************************)
EXTENDS Sequences, Naturals

AllHosts == <<"all">>
AnySegment == "*"

\* Whether one segment of a rule accepts the host's segment.
SegmentMatches(ruleSegment, hostSegment) ==
    ruleSegment = AnySegment \/ ruleSegment = hostSegment

\* Whether one rule admits the host.
Admits(rule, host) ==
    \/ rule = AllHosts
    \/ /\ Len(rule) = Len(host)
       /\ \A s \in 1..Len(host) : SegmentMatches(rule[s], host[s])

\* Whether a list of rules lets the host in.
Passes(rules, host) == \E r \in 1..Len(rules) : Admits(rules[r], host)
=============================================================================
