-------------------------- MODULE MCHeartbeatWake --------------------------
(* Constants of the run of HeartbeatWake: two targets, interval and action   *)
(* reasons, an in-process restart.                                           *)
EXTENDS HeartbeatWake

CONSTANTS main, other

MCTargets == {main, other}
=============================================================================
