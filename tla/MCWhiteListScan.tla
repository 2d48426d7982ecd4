--------------------------- MODULE MCWhiteListScan ---------------------------
(* Small lists and hosts for WhiteListScan. *)
EXTENDS WhiteListScan, FiniteSets

MCSegment == {"all", "*", "1", "2"}

\* Two-segment hosts keep the comparison's shape (several segments, some
\* equal) at a fraction of the states; one-segment hosts are IPv6 addresses,
\* which have no dot.
MCHosts == {<<"1", "1">>, <<"1", "2">>, <<"1">>}

\* Every list of up to three rules out of these: the word all, wildcards in
\* each place, exact rules, rules of other lengths, and the empty rule that a
\* lone dot splits into.
MCRules == {<<"all">>, <<"*">>, <<"1", "*">>, <<"*", "1">>, <<"1", "2">>,
            <<"2", "*">>, <<"2">>, <<"all", "all">>, <<>>}
MCRuleLists == UNION {[1..n -> MCRules] : n \in 0..3}

\* The list of application.yml, and the two loopback addresses.
YmlSegment == {"127", "0", "1", "localhost", "0:0:0:0:0:0:0:1", "10"}
YmlHosts == {<<"127", "0", "0", "1">>, <<"0:0:0:0:0:0:0:1">>, <<"10", "0", "0", "1">>}
YmlRuleLists == {<< <<"127", "0", "0", "1">>, <<"localhost">> >>}

=============================================================================
