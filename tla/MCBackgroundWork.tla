-------------------------- MODULE MCBackgroundWork --------------------------
(***************************************************************************)
(* A small instance of BackgroundWork for TLC.                             *)
(***************************************************************************)
EXTENDS BackgroundWork, FiniteSets

CONSTANTS c1, c2, r1

TwoClaims == {c1, c2}
OneRequest == {r1}

\* A state constraint.  At most two digests overlap.  The steps of a pass
\* before its digest meet claims only in its collections: they are not combined
\* with a digest under way, and another mode or allowlist not with claims or jobs.
\* Claims are combined with one job, a digest; two jobs find no claims.  The claims
\* are alike, so c1 comes first; each is mailed twice at most, and one of them is
\* ever left out as old, without jobs.  A client is deleted beside a pass without
\* claims, and a digest breaks beside no other.
Bounded ==
  /\ Cardinality({d \in Senders : digest[d] # Idle}) <= 2
  /\ scheduler.pc \notin {"asleep", "digest"} =>
       \A d \in Senders : digest[d] = Idle \/ digest[d].step = "broken"
  /\ scheduler.pc \notin {"asleep", "digest", "collect"} =>
       \A c \in Claims : claim[c] # "dated"
  /\ settings # [mode |-> "active", allowed |-> TRUE] =>
       /\ \A c \in Claims : claim[c] = "absent"
       /\ \A j \in Jobs : status[j] = "unused"
  /\ (\E c \in Claims : claim[c] # "absent") =>
       \A j \in Jobs : status[j] # "unused" => j = 1 /\ kind[j] = "digest"
  /\ claim[c2] # "absent" => claim[c1] # "absent"
  /\ \A c \in Claims : mailed[c] <= 2
  /\ outlived # {} => Cardinality(outlived) = 1 /\ \A j \in Jobs : status[j] = "unused"
  /\ scheduler.deleted => \A c \in Claims : claim[c] = "absent"
  /\ \A d, e \in Senders : d # e /\ digest[d].step = "broken" => digest[e] = Idle
=============================================================================
