---------------------------- MODULE MCWebConsole ----------------------------
(* An instance of WebConsole. *)
EXTENDS WebConsole

CONSTANTS s1, s2, k1, k2, j1, j2

MCSearches == {{s1, s2}, {s1}}
MCShots == (j1 :> 2) @@ (j2 :> 1)
MCArchive == [all |-> <<{k1}, {k2}>>, one |-> <<{k2}>>]

\* A behaviour is followed until the properties of its part except it: beyond a
\* crossing, or once a worker has taken evidence away, they say nothing.  One job
\* is enough for a late report.
MCConstraint ==
  /\ ~tangled
  /\ ~(tangle.searches /\ tangle.counts)
  /\ ~(mishaps.crossed /\ mishaps.broken)
  /\ ~missed /\ lost = {} /\ j2 \notin revised
  /\ ~odd.crossed /\ ~odd.rechosen

=============================================================================
