------------------------ MODULE MCSessionWriteLock -------------------------
(* Constants of the runs of SessionWriteLock: two callers in the gateway's   *)
(* process and one in a process of its own.                                  *)
EXTENDS SessionWriteLock

CONSTANTS g1, g2, cli, gateway, other

MCProcOf == [c \in {g1, g2, cli} |-> IF c = cli THEN other ELSE gateway]
=============================================================================
