--------------------------- MODULE MCLevel2Client ---------------------------
(* Level2Client with more jobs than queue slots and room for a failure     *)
(* during and after a reconnection.                                        *)
EXTENDS Level2Client
=============================================================================
