-------------------------- MODULE ConcurrentQueue --------------------------
(***************************************************************************)
(* concurrent_queue<T, Capacity>: a std::queue under one mutex, with ONE   *)
(* condition variable for both full and empty.  push and pop wait on it in *)
(* a loop, pop_async never waits, and each of the three calls notify_one   *)
(* after it has released the mutex.                                        *)
(*                                                                         *)
(* What a thread does under the mutex is one step.  The notification is a  *)
(* step of its own, since the mutex is free by then.  A woken thread       *)
(* (notified or spuriously) has to test its condition again.               *)
(***************************************************************************)
EXTENDS Naturals, Sequences, SequencesExt

CONSTANTS Pushers,       \* threads that call push
          Poppers,       \* threads that call pop
          AsyncPoppers,  \* threads that call pop_async
          Items,         \* the elements; each is offered to push once
          Capacity,      \* the template's _buffer_size_
          Nothing        \* not an element

Threads == Pushers \cup Poppers \cup AsyncPoppers

ASSUME CapacityAssumption == Capacity \in Nat \ {0}
ASSUME NothingAssumption == Nothing \notin Items
ASSUME ThreadsAssumption == /\ Pushers \cap Poppers = {}
                            /\ Pushers \cap AsyncPoppers = {}
                            /\ Poppers \cap AsyncPoppers = {}

VARIABLES queue,    \* queue_, oldest element first
          pc,       \* where each thread is: outside, at a loop test, in wait, about to notify
          arg,      \* a pusher's element until it is queued; a popper's latest result
          pushed,   \* history: every element queued, in order
          popped    \* history: every element taken out, in order

qvars == <<queue, pc, arg, pushed, popped>>

waiting == {t \in Threads : pc[t] = "wait"}

Init == /\ queue = <<>>
        /\ pc = [t \in Threads |-> "idle"]
        /\ arg = [t \in Threads |-> Nothing]
        /\ pushed = <<>>
        /\ popped = <<>>
-----------------------------------------------------------------------------
(* Steps under the mutex.                                                  *)

Goto(t, l) == pc' = [pc EXCEPT ![t] = l]

CallPush(t, x) ==
  /\ pc[t] = "idle"
  /\ Goto(t, "push")
  /\ arg' = [arg EXCEPT ![t] = x]
  /\ UNCHANGED <<queue, pushed, popped>>

CallPop(t) ==
  /\ pc[t] = "idle"
  /\ Goto(t, "pop")
  /\ UNCHANGED <<queue, arg, pushed, popped>>

\* mutants of PushElement: the element goes to the front, or the limit test lets one more in
PushElementAtFront(t) ==
  /\ pc[t] = "push" /\ Len(queue) < Capacity
  /\ queue' = <<arg[t]>> \o queue
  /\ pushed' = Append(pushed, arg[t])
  /\ arg' = [arg EXCEPT ![t] = Nothing]
  /\ Goto(t, "notify")
  /\ UNCHANGED popped

PushElementOverLimit(t) ==
  /\ pc[t] = "push" /\ Len(queue) <= Capacity
  /\ queue' = Append(queue, arg[t])
  /\ pushed' = Append(pushed, arg[t])
  /\ arg' = [arg EXCEPT ![t] = Nothing]
  /\ Goto(t, "notify")
  /\ UNCHANGED popped

PushElement(t) ==
  /\ pc[t] = "push" /\ Len(queue) < Capacity
  /\ queue' = Append(queue, arg[t])
  /\ pushed' = Append(pushed, arg[t])
  /\ arg' = [arg EXCEPT ![t] = Nothing]
  /\ Goto(t, "notify")
  /\ UNCHANGED popped

\* mutant of TakeHead: front() without pop()
TakeHeadKeep(t) ==
  /\ queue # <<>>
  /\ popped' = Append(popped, Head(queue))
  /\ arg' = [arg EXCEPT ![t] = Head(queue)]
  /\ UNCHANGED <<queue, pushed>>

TakeHead(t) ==
  /\ queue # <<>>
  /\ queue' = Tail(queue)
  /\ popped' = Append(popped, Head(queue))
  /\ arg' = [arg EXCEPT ![t] = Head(queue)]
  /\ UNCHANGED pushed

PopElement(t) ==
  /\ pc[t] = "pop"
  /\ TakeHead(t)
  /\ Goto(t, "notify")

\* cond_.wait: the mutex is released and the thread joins the one wait set
Wait(t) ==
  /\ \/ pc[t] = "push" /\ Len(queue) >= Capacity
     \/ pc[t] = "pop" /\ queue = <<>>
  /\ Goto(t, "wait")
  /\ UNCHANGED <<queue, arg, pushed, popped>>

\* mutant of PopAsync: it notifies only those it found nothing for
PopAsyncQuiet(t) ==
  /\ pc[t] = "idle"
  /\ \/ TakeHead(t) /\ UNCHANGED pc
     \/ /\ queue = <<>>
        /\ arg' = [arg EXCEPT ![t] = Nothing]
        /\ Goto(t, "notify")
        /\ UNCHANGED <<queue, pushed, popped>>

\* pop_async returns false on an empty queue (arg = Nothing), and notifies in either case
PopAsync(t) ==
  /\ pc[t] = "idle"
  /\ Goto(t, "notify")
  /\ \/ TakeHead(t)
     \/ /\ queue = <<>>
        /\ arg' = [arg EXCEPT ![t] = Nothing]
        /\ UNCHANGED <<queue, pushed, popped>>
-----------------------------------------------------------------------------
(* Steps outside the mutex.                                                *)

LoopTest(t) == IF t \in Pushers THEN "push" ELSE "pop"

NotifyOne(t) ==
  /\ pc[t] = "notify"
  /\ \/ waiting = {} /\ Goto(t, "idle")
     \/ \E w \in waiting : pc' = [pc EXCEPT ![t] = "idle", ![w] = LoopTest(w)]
  /\ UNCHANGED <<queue, arg, pushed, popped>>

\* std::condition_variable permits a wait to return without a notification
SpuriousWakeup(t) ==
  /\ pc[t] = "wait"
  /\ Goto(t, LoopTest(t))
  /\ UNCHANGED <<queue, arg, pushed, popped>>

Offered(x) == x \in Range(pushed) \/ \E t \in Pushers : arg[t] = x

\* What a thread inside a call does next, and nothing but the scheduler delays
Proceed(t) == PushElement(t) \/ PopElement(t) \/ Wait(t) \/ NotifyOne(t)

Next == \/ \E t \in Pushers, x \in Items : ~Offered(x) /\ CallPush(t, x)
        \/ \E t \in Poppers : CallPop(t)
        \/ \E t \in AsyncPoppers : PopAsync(t)
        \/ \E t \in Threads : Proceed(t) \/ SpuriousWakeup(t)

Spec == Init /\ [][Next]_qvars
-----------------------------------------------------------------------------
(* Properties.                                                             *)

TypeOK ==
  /\ queue \in Seq(Items) /\ pushed \in Seq(Items) /\ popped \in Seq(Items)
  /\ pc \in [Threads -> {"idle", "push", "pop", "wait", "notify"}]
  /\ arg \in [Threads -> Items \cup {Nothing}]
  /\ \A t \in Threads :
        /\ pc[t] = "push" => t \in Pushers
        /\ pc[t] = "pop" => t \in Poppers
        /\ pc[t] = "wait" => t \in Pushers \cup Poppers
        /\ t \in Pushers /\ pc[t] \in {"push", "wait"} => arg[t] \in Items

(* The queue holds exactly what was pushed and not yet popped, in order:   *)
(* no element is lost, doubled or overtaken, whichever threads raced       *)
(* through push, pop and pop_async.                                        *)
QueueIsTheDifference ==
  /\ Len(pushed) = Len(popped) + Len(queue)
  /\ \A i \in 1..Len(popped) : popped[i] = pushed[i]
  /\ \A i \in 1..Len(queue) : queue[i] = pushed[Len(popped) + i]

(* push waits instead of growing the queue past _buffer_size_.             *)
WithinCapacity == Len(queue) <= Capacity

InFlight == \E t \in Threads : pc[t] \in {"push", "pop", "notify"}

(* With one condition variable for both conditions, notify_one can wake    *)
(* the wrong kind of waiter.  A pusher that could proceed is left waiting  *)
(* with nobody about to notify only if a blocking pop waits beside it, and *)
(* the other way round: a queue drained by pop_async alone, like those of  *)
(* dk_level2_interface, never loses the wakeup of its producer.            *)
NoLostWakeup ==
  /\ (\E t \in waiting \cap Pushers : Len(queue) < Capacity)
        => InFlight \/ waiting \cap Poppers # {}
  /\ (\E t \in waiting \cap Poppers : queue # <<>>)
        => InFlight \/ waiting \cap Pushers # {}

(* Seen from its callers the queue is a bounded FIFO.                      *)
Fifo == INSTANCE BoundedFifo WITH sent <- pushed, received <- popped
ImplementsFifo == Fifo!Spec
=============================================================================
