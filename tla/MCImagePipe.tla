----------------------------- MODULE MCImagePipe -----------------------------
(***************************************************************************)
(* Instance of ImagePipe for TLC: a pipe of two images, three images and   *)
(* two announcements, so that an image is sent before, between and after   *)
(* them and one finds the pipe full.                                       *)
(***************************************************************************)
EXTENDS ImagePipe
=============================================================================
