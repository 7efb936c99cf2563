--------------------------- MODULE MCInferenceJobs ---------------------------
(***************************************************************************)
(* Instance of InferenceJobs for TLC: two camera groups with an image each *)
(* of the first material, none of the second.                              *)
(***************************************************************************)
EXTENDS InferenceJobs, TLC

CONSTANTS w1, w2
MCImages == {1} \X {w1, w2}
=============================================================================
