---------------------------- MODULE MCWebTriage ----------------------------
(* An instance of WebTriage. *)
EXTENDS WebTriage

CONSTANTS a1, a2

MCUncertain == {a2}
MCFacets == {{a1}}

\* A behaviour of the drawer is followed until LastActIsStored excepts it; one
\* editor of a form has a text at a time.
MCConstraint ==
  /\ ~history.raced
  /\ \A l, m \in DOMAIN typed : l = m \/ typed[l] = {} \/ typed[m] = {}

=============================================================================
