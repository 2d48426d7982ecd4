------------------------- MODULE WhiteListScan_proof -------------------------
(***************************************************************************)
(* The white-list loops decide what the list says, for every list of rules *)
(* and every host.  ScanInv is inductive together with TypeOK: it says     *)
(* what the loops know in the middle of a rule, and about the rules they   *)
(* have left behind.                                                       *)
(***************************************************************************)
EXTENDS WhiteListScan, SequenceTheorems, TLAPS

\* Every variable of the two loops keeps its range, and the inner loop runs
\* only while the rule has as many segments as the host.
THEOREM TypeCorrect == Spec => []TypeOK
<1>1. Init => TypeOK
  <2> SUFFICES ASSUME Init PROVE TypeOK
    OBVIOUS
  <2>1. Len(ipWhiteLists) \in Nat /\ Len(hostAddress) \in Nat
    BY HostsAssumption, RuleListsAssumption DEF Init
  <2>2. r \in 1..(Len(ipWhiteLists) + 1) /\ i \in 1..(Len(hostAddress) + 1)
    BY <2>1 DEF Init
  <2> QED  BY <2>2 DEF Init, TypeOK
<1>2. TypeOK /\ [Next]_vars => TypeOK'
  <2> SUFFICES ASSUME TypeOK, [Next]_vars PROVE TypeOK'
    OBVIOUS
  <2> USE DEF TypeOK, rule
  <2>0. /\ Len(ipWhiteLists) \in Nat
        /\ Len(hostAddress) \in Nat
    BY HostsAssumption, RuleListsAssumption
  <2>1. CASE TakeAll          BY <2>0, <2>1 DEF TakeAll
  <2>2. CASE SkipLength       BY <2>0, <2>2 DEF SkipLength
  <2>3. CASE BeginSegments    BY <2>0, <2>3 DEF BeginSegments
  <2>4. CASE CompareSegment
    <3>1. allow' \in BOOLEAN  BY <2>4 DEF CompareSegment, SegmentMatches
    <3> QED                   BY <2>0, <2>4, <3>1 DEF CompareSegment
  <2>5. CASE BreakOut         BY <2>0, <2>5 DEF BreakOut
  <2>6. CASE RuleFailed       BY <2>0, <2>6 DEF RuleFailed
  <2>7. CASE RulesExhausted   BY <2>0, <2>7 DEF RulesExhausted
  <2>8. CASE UNCHANGED vars   BY <2>8 DEF vars
  <2> QED
    BY <2>1, <2>2, <2>3, <2>4, <2>5, <2>6, <2>7, <2>8 DEF Next
<1> QED
  BY <1>1, <1>2, PTL DEF Spec

\* A rule left behind, and only such a rule, is known not to admit the host.
THEOREM ScanInvariant == Spec => []ScanInv
<1>1. Init => ScanInv
  BY DEF Init, ScanInv
<1>2. TypeOK /\ ScanInv /\ [Next]_vars => ScanInv'
  <2> SUFFICES ASSUME TypeOK, ScanInv, [Next]_vars PROVE ScanInv'
    OBVIOUS
  <2>0. /\ Len(ipWhiteLists) \in Nat
        /\ Len(hostAddress) \in Nat
        /\ r \in 1..(Len(ipWhiteLists) + 1)
        /\ i \in 1..(Len(hostAddress) + 1)
        /\ isPass \in BOOLEAN /\ allow \in BOOLEAN
    BY HostsAssumption, RuleListsAssumption DEF TypeOK
  <2>1. CASE TakeAll
    <3>1. Passes(ipWhiteLists, hostAddress)
      BY <2>0, <2>1 DEF TakeAll, rule, Passes, Admits
    <3> QED  BY <3>1, <2>1 DEF TakeAll, ScanInv
  <2>2. CASE SkipLength
    <3>1. ~Admits(ipWhiteLists[r], hostAddress)
      BY <2>2 DEF SkipLength, rule, Admits
    <3>2. \A k \in 1..(r + 1 - 1) : k \in 1..(r - 1) \/ k = r
      BY <2>0
    <3>3. \A k \in 1..(r' - 1) : ~isPass => ~Admits(ipWhiteLists[k], hostAddress)
      BY <2>0, <3>1, <3>2, <2>2 DEF SkipLength, ScanInv
    <3> QED  BY <3>3, <2>2 DEF SkipLength, ScanInv
  <2>3. CASE BeginSegments
    BY <2>3 DEF BeginSegments, ScanInv, rule
  <2>4. CASE CompareSegment
    <3>1. allow' <=> \A s \in 1..i : SegmentMatches(rule[s], hostAddress[s])
      <4>1. allow <=> \A s \in 1..(i - 1) : SegmentMatches(rule[s], hostAddress[s])
        BY <2>4 DEF CompareSegment, ScanInv
      <4>2. allow' <=> (allow /\ SegmentMatches(rule[i], hostAddress[i]))
        BY <2>4 DEF CompareSegment
      <4> QED  BY <2>0, <4>1, <4>2
    <3>2. i' - 1 = i
      BY <2>0, <2>4 DEF CompareSegment
    <3>3. UNCHANGED <<hostAddress, ipWhiteLists, rule, pc, r, isPass>>
      BY <2>4 DEF CompareSegment, rule
    <3> QED  BY <3>1, <3>2, <3>3, <2>4 DEF CompareSegment, ScanInv
  <2>5. CASE BreakOut
    <3>1. \A s \in 1..Len(hostAddress) : SegmentMatches(rule[s], hostAddress[s])
      BY <2>0, <2>5 DEF BreakOut, ScanInv
    <3>2. Passes(ipWhiteLists, hostAddress)
      BY <2>0, <2>5, <3>1 DEF BreakOut, TypeOK, rule, Passes, Admits
    <3> QED  BY <3>2, <2>5 DEF BreakOut, ScanInv
  <2>6. CASE RuleFailed
    <3>1. \E s \in 1..Len(hostAddress) : ~SegmentMatches(rule[s], hostAddress[s])
      BY <2>0, <2>6 DEF RuleFailed, ScanInv
    <3>2. ~Admits(ipWhiteLists[r], hostAddress)
      BY <3>1, <2>6 DEF RuleFailed, ScanInv, rule, Admits
    <3>3. \A k \in 1..(r + 1 - 1) : k \in 1..(r - 1) \/ k = r
      BY <2>0
    <3>4. \A k \in 1..(r' - 1) : ~isPass => ~Admits(ipWhiteLists[k], hostAddress)
      BY <2>0, <3>2, <3>3, <2>6 DEF RuleFailed, ScanInv
    <3> QED  BY <3>4, <2>6 DEF RuleFailed, ScanInv
  <2>7. CASE RulesExhausted
    BY <2>0, <2>7 DEF RulesExhausted, ScanInv
  <2>8. CASE UNCHANGED vars
    BY <2>8 DEF vars, ScanInv, rule
  <2> QED
    BY <2>1, <2>2, <2>3, <2>4, <2>5, <2>6, <2>7, <2>8 DEF Next
<1> QED
  BY <1>1, <1>2, TypeCorrect, PTL DEF Spec

\* The verdict of the finished loops is the white list's own: no client without
\* a rule gets in, none with a rule is turned away.
THEOREM ScanCorrect == Spec => []ScanDecides
<1>1. TypeOK /\ ScanInv => ScanDecides
  <2> SUFFICES ASSUME ScanInv, pc = "done", ~isPass,
                      Len(ipWhiteLists) \in Nat
               PROVE  ~Passes(ipWhiteLists, hostAddress)
    BY RuleListsAssumption DEF ScanDecides, ScanInv, TypeOK
  <2> QED  BY DEF ScanInv, Passes
<1> QED
  BY <1>1, TypeCorrect, ScanInvariant, PTL

\* What is left to the loops: rules, and turns within the rule.
RulesLeft == Len(ipWhiteLists) + 1 - r
TurnsLeft == CASE pc = "rule"    -> Len(hostAddress) + 2
               [] pc = "segment" -> Len(hostAddress) + 2 - i
               [] OTHER          -> 0
Descends == RulesLeft' < RulesLeft \/ (RulesLeft' = RulesLeft /\ TurnsLeft' < TurnsLeft)

LEMMA LeftBehind == TypeOK => RulesLeft \in Nat /\ TurnsLeft \in Nat
<1> SUFFICES ASSUME TypeOK PROVE RulesLeft \in Nat /\ TurnsLeft \in Nat
  OBVIOUS
<1>1. Len(ipWhiteLists) \in Nat /\ Len(hostAddress) \in Nat
  BY HostsAssumption, RuleListsAssumption DEF TypeOK
<1> QED  BY <1>1 DEF TypeOK, RulesLeft, TurnsLeft

\* Every turn of the two loops leaves fewer rules, or as many and fewer turns, and
\* neither number is ever below zero: with a turn that is always taken, the acceptor
\* thread gets out of them.
THEOREM ScanDescends == Spec => [](RulesLeft \in Nat /\ TurnsLeft \in Nat) /\ [][Descends]_vars
<1>1. TypeOK /\ [Next]_vars => [Descends]_vars
  <2> SUFFICES ASSUME TypeOK, Next PROVE Descends
    BY DEF vars
  <2>0. /\ Len(ipWhiteLists) \in Nat /\ Len(hostAddress) \in Nat
        /\ r \in 1..(Len(ipWhiteLists) + 1)
        /\ i \in 1..(Len(hostAddress) + 1)
    BY HostsAssumption, RuleListsAssumption DEF TypeOK
  <2> USE DEF Descends, RulesLeft, TurnsLeft
  <2>1. CASE TakeAll \/ SkipLength \/ RuleFailed
    BY <2>0, <2>1 DEF TakeAll, SkipLength, RuleFailed
  <2>2. CASE BeginSegments
    BY <2>0, <2>2 DEF BeginSegments
  <2>3. CASE CompareSegment
    BY <2>0, <2>3 DEF CompareSegment
  <2>4. CASE BreakOut \/ RulesExhausted
    BY <2>0, <2>4 DEF BreakOut, RulesExhausted
  <2> QED
    BY <2>1, <2>2, <2>3, <2>4 DEF Next
<1> QED
  BY <1>1, LeftBehind, TypeCorrect, PTL DEF Spec

\* A rule without a wildcard admits the address it spells and no other: one that is
\* a name, such as localhost, admits nobody.
LEMMA LiteralAdmitsItself ==
    ASSUME NEW S, NEW literal \in Seq(S), NEW host \in Seq(S), literal # AllHosts,
           \A s \in 1..Len(literal) : literal[s] # AnySegment
    PROVE  Admits(literal, host) <=> literal = host
<1>1. Admits(literal, host) => literal = host
  <2>1. Admits(literal, host) =>
            Len(literal) = Len(host) /\ \A s \in 1..Len(literal) : literal[s] = host[s]
    BY DEF Admits, SegmentMatches
  <2> QED  BY <2>1, SeqEqual
<1>2. literal = host => Admits(literal, host)
  BY DEF Admits, SegmentMatches
<1> QED  BY <1>1, <1>2

\* With a list of such rules the loops let in the addresses that are in the list, and
\* these only: what the run whitelist_yml shows of one address holds of every one.
THEOREM LiteralsDecide ==
    ASSUME \A list \in RuleLists : \A n \in 1..Len(list) :
              list[n] # AllHosts /\ \A s \in 1..Len(list[n]) : list[n][s] # AnySegment
    PROVE  Spec => [](pc = "done" =>
                         (isPass <=> \E n \in 1..Len(ipWhiteLists) : ipWhiteLists[n] = hostAddress))
<1>1. TypeOK /\ ScanDecides =>
          (pc = "done" => (isPass <=> \E n \in 1..Len(ipWhiteLists) : ipWhiteLists[n] = hostAddress))
  <2> SUFFICES ASSUME TypeOK, ScanDecides, pc = "done"
               PROVE  isPass <=> \E n \in 1..Len(ipWhiteLists) : ipWhiteLists[n] = hostAddress
    OBVIOUS
  <2>1. hostAddress \in Seq(Segment) /\ ipWhiteLists \in Seq(Seq(Segment))
    BY HostsAssumption, RuleListsAssumption DEF TypeOK
  <2>2. ASSUME NEW n \in 1..Len(ipWhiteLists)
        PROVE  Admits(ipWhiteLists[n], hostAddress) <=> ipWhiteLists[n] = hostAddress
    <3>1. ipWhiteLists[n] \in Seq(Segment)
      BY <2>1
    <3>2. /\ ipWhiteLists[n] # AllHosts
          /\ \A s \in 1..Len(ipWhiteLists[n]) : ipWhiteLists[n][s] # AnySegment
      BY DEF TypeOK
    <3> QED  BY <2>1, <3>1, <3>2, LiteralAdmitsItself
  <2> QED  BY <2>2 DEF ScanDecides, Passes
<1> QED
  BY <1>1, TypeCorrect, ScanCorrect, PTL
=============================================================================
