---------------------------- MODULE LossyChannel ----------------------------
(***************************************************************************)
(* What the Level2 link promises in each direction, and the pipe from a    *)
(* camera to the thread that stores its images: items are delivered in the *)
(* order they were accepted, each at most once.  Items may be lost on the  *)
(* way, and a lost item is never delivered later.                          *)
(***************************************************************************)
EXTENDS Naturals, Sequences, SequencesExt

CONSTANT Items

VARIABLES pending,    \* accepted, neither delivered nor lost, oldest first
          delivered,  \* delivered, in that order
          lost        \* will never be delivered

vars == <<pending, delivered, lost>>

Init == pending = <<>> /\ delivered = <<>> /\ lost = {}

Accept(i) == /\ i \notin Range(pending) \cup Range(delivered) \cup lost
             /\ pending' = Append(pending, i)
             /\ UNCHANGED <<delivered, lost>>

Deliver == /\ pending # <<>>
           /\ delivered' = Append(delivered, Head(pending))
           /\ pending' = Tail(pending)
           /\ UNCHANGED lost

\* a stretch of the pending items is lost
Lose(i, j) == /\ lost' = lost \cup {pending[k] : k \in i .. j}
              /\ pending' = SubSeq(pending, 1, i - 1) \o SubSeq(pending, j + 1, Len(pending))
              /\ UNCHANGED delivered

Next == \/ \E i \in Items : Accept(i)
        \/ Deliver
        \/ \E i, j \in 1 .. Len(pending) : i <= j /\ Lose(i, j)

Spec == Init /\ [][Next]_vars
=============================================================================
