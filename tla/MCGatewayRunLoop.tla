-------------------------- MODULE MCGatewayRunLoop --------------------------
(* Constants of the runs of GatewayRunLoop: two runs of one session and one  *)
(* of another share the main lane.                                           *)
EXTENDS GatewayRunLoop

CONSTANTS alice, bob, main, a1, a2, b1

MCSessionOf == [r \in Runs |-> IF r = b1 THEN bob ELSE alice]
MCGlobalOf == [r \in Runs |-> main]
=============================================================================
