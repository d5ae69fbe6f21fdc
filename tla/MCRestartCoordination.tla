----------------------- MODULE MCRestartCoordination -----------------------
(* Constants of the run of RestartCoordination: one dispatcher, for they are    *)
(* independent of each other, and requests of all kinds.                     *)
EXTENDS RestartCoordination

CONSTANT d1

MCDispatchers == {d1}
=============================================================================
