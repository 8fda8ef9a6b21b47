---------------------------- MODULE MCBsecStore ----------------------------
(* Two firmwares, pages of two records: each page is filled and erased     *)
(* several times over.                                                     *)
EXTENDS BsecStore
=============================================================================
