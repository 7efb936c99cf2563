----------------------------- MODULE MCSystemEcho -----------------------------
(***************************************************************************)
(* Instance of SystemEcho for TLC: two faults, so that a connection can    *)
(* break after the server came back.                                       *)
(***************************************************************************)
EXTENDS SystemEcho
=============================================================================
