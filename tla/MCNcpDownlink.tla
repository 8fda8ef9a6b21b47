--------------------------- MODULE MCNcpDownlink ---------------------------
(* A ring of three entries, four kinds of events, two tables, two sessions.*)
EXTENDS NcpDownlink

CONSTANTS parent, config, p1, p2, other

MCRegistration == {Join, Rejoin}
MCEvent == {Join, Rejoin, parent, config}
=============================================================================
