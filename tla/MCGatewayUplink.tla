-------------------------- MODULE MCGatewayUplink --------------------------
(* One node that registers and reports, a neighbor alert sent to the wrong *)
(* endpoint where it is wanted.                                            *)
EXTENDS GatewayUplink

CONSTANTS reg, rep, alert, node, t1, t2

Both == {reg, rep}
RegOnly == {reg}
NodeOfBoth == [p \in Both |-> node]
=============================================================================
