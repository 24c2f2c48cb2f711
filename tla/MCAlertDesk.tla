---------------------------- MODULE MCAlertDesk ----------------------------
(***************************************************************************)
(* Small instances of AlertDesk for TLC.                                   *)
(***************************************************************************)
EXTENDS AlertDesk, Naturals, FiniteSets

CONSTANTS c1, c2, k1, k2, a, b, p1, p2, p3, poster, e1

TwoClaims == {c1, c2}
OneClaim == {c1}
OneClient == {k1}
TwoClients == {k1, k2}
TwoTerms == {a, b}
\* Two copies of one claim, the second with another term, and another claim.
TwoCopies == {p1, p2}
ThreePayloads == {p1, p2, p3}
MCClaimOf == [p \in Payloads |-> IF p = p3 THEN c2 ELSE c1]
MCTermsOf == [p \in Payloads |-> IF p = p1 THEN {a} ELSE {b}]
OneFetch == {{p1, p3}}
OneCopyEach == {{p1}, {p2}}
NoPosts == {}
OnePost == {p2}
OneTermEach == {{a}, {b}}
OnePoster == {poster}
NoPosters == {}
OneEditor == {e1}

\* A state constraint.  One alert is triaged, and posting and triage are not
\* combined with a second client, whose profile is not edited; what is given
\* up is two matches at most.
Bounded ==
  /\ \A x \in Alerts : status[x] = "reviewed" \/ x \in records
                         => x = <<c1, k1>> /\ client[k2] = "none"
  /\ (\E i \in Posters : ingester[i].pc # "idle") => client[k2] = "none"
  /\ profile[k2] # {b}
  /\ Cardinality(lost) <= 2

\* A state constraint: nobody triages.
Untriaged == \A x \in Alerts : status[x] # "reviewed" /\ x \notin records
=============================================================================
