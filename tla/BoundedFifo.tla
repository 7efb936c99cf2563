---------------------------- MODULE BoundedFifo ----------------------------
(***************************************************************************)
(* What a bounded queue promises its callers: elements come out in the     *)
(* order they went in, each at most once, and at most Capacity of them are *)
(* inside.  No thread, lock or condition variable is visible here.         *)
(***************************************************************************)
EXTENDS Naturals, Sequences

CONSTANTS Items,     \* the elements that may be sent
          Capacity   \* the most elements inside at once

VARIABLES sent,      \* everything sent, oldest first
          received   \* everything received, oldest first

vars == <<sent, received>>

Init == sent = <<>> /\ received = <<>>

Send(x) == /\ Len(sent) - Len(received) < Capacity
           /\ sent' = Append(sent, x)
           /\ UNCHANGED received

Receive == /\ Len(received) < Len(sent)
           /\ received' = Append(received, sent[Len(received) + 1])
           /\ UNCHANGED sent

Next == Receive \/ \E x \in Items : Send(x)

Spec == Init /\ [][Next]_vars
=============================================================================
