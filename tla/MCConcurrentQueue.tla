------------------------- MODULE MCConcurrentQueue -------------------------
(* ConcurrentQueue with two producers, one blocking and one polling        *)
(* consumer, and fewer slots than elements.                                *)
EXTENDS ConcurrentQueue
=============================================================================
