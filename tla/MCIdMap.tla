------------------------------- MODULE MCIdMap -------------------------------
(* Two or three rootless starts on one directory. *)
EXTENDS IdMap, TLC

CONSTANTS p1, p2, nobody
=============================================================================
