--------------------------- MODULE MCLevel2Server ---------------------------
(***************************************************************************)
(* Level2Server with a connection and its successor, which may overlap.    *)
(* Level2 sends two packets, on either: an alive packet or an instruction, *)
(* then an instruction or one with a blank number.                         *)
(***************************************************************************)
EXTENDS Level2Server

KindsSent == <<{"alive", "instruction"}, {"instruction", "blank"}>>
=============================================================================
