---------------------------- MODULE WhiteListScan ----------------------------
(***************************************************************************)
(* The white-list check of SocketServer.start as the two nested loops the  *)
(* code runs: over the rules of the list taken once from                   *)
(* SocketConfigProperties, and over the segments of a rule, with the two   *)
(* flags isPass and allow and the labelled break out of both loops.        *)
(* A rule "all" sets isPass and does NOT leave the loop; a rule that       *)
(* matches segment by segment does.                                        *)
(*                                                                         *)
(* Definitions marked "deviation" are faulty variants of the definition    *)
(* after them; no behaviour of Spec uses one, and PROJECT.json substitutes *)
(* them to show that the properties notice.                                *)
(***************************************************************************)
EXTENDS WhiteListRules

CONSTANTS Segment,    \* texts between two dots, of rules and of hosts
          Hosts,      \* client addresses that may connect
          RuleLists   \* contents the white list may have

ASSUME HostsAssumption == Hosts \subseteq Seq(Segment)
ASSUME RuleListsAssumption == RuleLists \subseteq Seq(Seq(Segment))

VARIABLES hostAddress,   \* the address of the client just accepted
          ipWhiteLists,  \* the list the loop iterates over
          pc,            \* "rule" | "segment" | "done"
          r,             \* the rule under consideration
          i,             \* the segment under consideration
          allow,         \* the rule still matches
          isPass         \* some rule lets the client in

vars == <<hostAddress, ipWhiteLists, pc, r, i, allow, isPass>>

Init == /\ hostAddress \in Hosts
        /\ ipWhiteLists \in RuleLists
        /\ pc = "rule"
        /\ r = 1
        /\ i = 1
        /\ allow = TRUE
        /\ isPass = FALSE

rule == ipWhiteLists[r]

\* Entering the body for the next rule: "all", a rule of another length, or a
\* rule whose segments are to be compared.
TakeAll ==
    /\ pc = "rule" /\ r <= Len(ipWhiteLists)
    /\ rule = AllHosts
    /\ isPass' = TRUE
    /\ r' = r + 1
    /\ UNCHANGED <<hostAddress, ipWhiteLists, pc, i, allow>>

\* (deviation: a rule of another length drops the rule after it too)
SkipLengthTwice ==
    /\ pc = "rule" /\ r <= Len(ipWhiteLists)
    /\ rule # AllHosts
    /\ Len(rule) # Len(hostAddress)
    /\ r' = r + 2
    /\ UNCHANGED <<hostAddress, ipWhiteLists, pc, i, allow, isPass>>

SkipLength ==
    /\ pc = "rule" /\ r <= Len(ipWhiteLists)
    /\ rule # AllHosts
    /\ Len(rule) # Len(hostAddress)
    /\ r' = r + 1
    /\ UNCHANGED <<hostAddress, ipWhiteLists, pc, i, allow, isPass>>

\* (deviation: allow declared outside the loop, as isPass is)
BeginSegmentsStale ==
    /\ pc = "rule" /\ r <= Len(ipWhiteLists)
    /\ rule # AllHosts
    /\ Len(rule) = Len(hostAddress)
    /\ pc' = "segment"
    /\ i' = 1
    /\ UNCHANGED <<hostAddress, ipWhiteLists, r, allow, isPass>>

BeginSegments ==
    /\ pc = "rule" /\ r <= Len(ipWhiteLists)
    /\ rule # AllHosts
    /\ Len(rule) = Len(hostAddress)
    /\ pc' = "segment"
    /\ i' = 1
    /\ allow' = TRUE
    /\ UNCHANGED <<hostAddress, ipWhiteLists, r, isPass>>

\* (deviation: allow assigned from the last comparison, not accumulated)
CompareSegmentLast ==
    /\ pc = "segment" /\ i <= Len(hostAddress)
    /\ allow' = SegmentMatches(rule[i], hostAddress[i])
    /\ i' = i + 1
    /\ UNCHANGED <<hostAddress, ipWhiteLists, pc, r, isPass>>

\* One turn of the inner loop: it goes on to the last segment even when one
\* has already failed.
CompareSegment ==
    /\ pc = "segment" /\ i <= Len(hostAddress)
    /\ allow' = (allow /\ SegmentMatches(rule[i], hostAddress[i]))
    /\ i' = i + 1
    /\ UNCHANGED <<hostAddress, ipWhiteLists, pc, r, isPass>>

\* After the inner loop: "break A" when the rule matched, else the next rule.
BreakOut ==
    /\ pc = "segment" /\ i > Len(hostAddress) /\ allow
    /\ isPass' = allow
    /\ pc' = "done"
    /\ UNCHANGED <<hostAddress, ipWhiteLists, r, i, allow>>

RuleFailed ==
    /\ pc = "segment" /\ i > Len(hostAddress) /\ ~allow
    /\ pc' = "rule"
    /\ r' = r + 1
    /\ UNCHANGED <<hostAddress, ipWhiteLists, i, allow, isPass>>

RulesExhausted ==
    /\ pc = "rule" /\ r > Len(ipWhiteLists)
    /\ pc' = "done"
    /\ UNCHANGED <<hostAddress, ipWhiteLists, r, i, allow, isPass>>

Next == \/ TakeAll \/ SkipLength \/ BeginSegments
        \/ CompareSegment \/ BreakOut \/ RuleFailed
        \/ RulesExhausted

Spec == Init /\ [][Next]_vars

-----------------------------------------------------------------------------
\* The variables stay in their ranges; the scan reads no rule or segment
\* outside the list (no ArrayIndexOutOfBounds in the inner loop).
TypeOK ==
    /\ hostAddress \in Hosts
    /\ ipWhiteLists \in RuleLists
    /\ pc \in {"rule", "segment", "done"}
    /\ r \in 1..(Len(ipWhiteLists) + 1)
    /\ i \in 1..(Len(hostAddress) + 1)
    /\ allow \in BOOLEAN
    /\ isPass \in BOOLEAN
    /\ pc = "segment" => /\ r \in 1..Len(ipWhiteLists)
                         /\ Len(rule) = Len(hostAddress)

\* What is known in the middle of a rule, and what the rules before it said.
ScanInv ==
    /\ pc = "segment" =>
          /\ rule # AllHosts
          /\ allow <=> \A s \in 1..(i - 1) : SegmentMatches(rule[s], hostAddress[s])
    /\ isPass => Passes(ipWhiteLists, hostAddress)
    /\ ~isPass => \A k \in 1..(r - 1) : ~Admits(ipWhiteLists[k], hostAddress)
    /\ (pc = "done" /\ ~isPass) => r = Len(ipWhiteLists) + 1

\* When the loops are over, isPass is exactly what the list says: no client
\* enters without a rule for it (a wildcard or a flag left over from an earlier
\* rule), and a rule anywhere in the list is enough (the break skips none that
\* matters).
ScanDecides == pc = "done" => (isPass <=> Passes(ipWhiteLists, hostAddress))

\* What the shipped configuration says by listing "localhost" beside 127.0.0.1
\* (application.yml): a client on the server's own host may connect.
OwnHost == {<<"127", "0", "0", "1">>, <<"0:0:0:0:0:0:0:1">>}
LocalhostAdmitted == (pc = "done" /\ hostAddress \in OwnHost) => isPass
=============================================================================
