------------------------- MODULE MCNodeRegistration -------------------------
(***************************************************************************)
(* Instances of NodeRegistration for TLC.                                  *)
(***************************************************************************)
EXTENDS NodeRegistration
=============================================================================
