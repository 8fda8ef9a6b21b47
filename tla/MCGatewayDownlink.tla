------------------------- MODULE MCGatewayDownlink -------------------------
(* Two downlinks, one of which the gateway refuses, over two threads.      *)
EXTENDS GatewayDownlink

CONSTANTS d1, d2, t1, t2
=============================================================================
