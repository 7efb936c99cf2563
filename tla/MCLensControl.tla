---------------------------- MODULE MCLensControl ----------------------------
(***************************************************************************)
(* Instance of LensControl for TLC: words of three bits, so that a         *)
(* position read as a status may have the busy bit set (5); one request    *)
(* within range, one beyond it.                                            *)
(***************************************************************************)
EXTENDS LensControl

MCRequests == {3, 13}
=============================================================================
