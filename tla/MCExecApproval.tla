--------------------------- MODULE MCExecApproval ---------------------------
(* Constants of the run of ExecApproval: two requests of one id, one of its  *)
(* own, and a wait.                                                          *)
EXTENDS ExecApproval

CONSTANTS r1, r2, r3, w, reused, own

MCRequests == {r1, r2, r3}
MCIdOf == [r \in MCRequests |-> IF r = r3 THEN own ELSE reused]
=============================================================================
