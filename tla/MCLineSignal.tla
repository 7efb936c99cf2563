---------------------------- MODULE MCLineSignal ----------------------------
(* LineSignal from any state of the inputs, with enough changes for a      *)
(* material to pass both detectors and subscriptions that hold one message.*)
EXTENDS LineSignal
=============================================================================
