--------------------------- MODULE MCCommandQueue ---------------------------
(* Constants of the run of CommandQueue: three calls for one lane, which is  *)
(* enough for two of them to change places behind a third.                   *)
EXTENDS CommandQueue

CONSTANTS main, cron, a, b, c

MCLanes == {main, cron}
MCTasks == {a, b, c}
MCLaneOf == [t \in {a, b, c} |-> main]
MCConcurrency == {0, 2}
=============================================================================
