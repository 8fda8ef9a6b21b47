------------------------------ MODULE MCNcpTx ------------------------------
(* An uplink, a plain report and a neighbour alert to two neighbours, over  *)
(* a pending table of two slots; the larger instance has a second uplink.   *)
EXTENDS NcpTxProps, TLC

CONSTANTS u1, u2, p1, n1, n2, br, nb

MCBurst == {n1, n2}
MCDestination == {br, nb}

MCRequest == {u1, p1, n1, n2}
MCConfirmable == {u1, n1, n2}
MCDestOf == u1 :> br @@ p1 :> br @@ n1 :> nb @@ n2 :> br

\* With a second uplink: three requests to one destination
LargeRequest == {u1, u2, p1, n1, n2}
LargeConfirmable == {u1, u2, n1, n2}
LargeDestOf == MCDestOf @@ u2 :> br
=============================================================================
