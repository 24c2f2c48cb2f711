-------------------------- MODULE MCCaptureControl --------------------------
(***************************************************************************)
(* Small instances of CaptureControl for TLC.                              *)
(***************************************************************************)
EXTENDS CaptureControl

CONSTANTS t1, t2, q1, q2

OneTarget == {t1}
TwoTargets == {t1, t2}
OneRequester == {q1}
TwoRequesters == {q1, q2}
NoTargets == {}

\* A state constraint of the runs whose properties do not depend on the
\* catalog: "down" differs from "up" only for the scheduler's SELECT, and an
\* analyst may request what the scheduler does not.
NoneDown == \A t \in Targets : catalog[t] # "down"
=============================================================================
