----------------------- MODULE ConcurrentQueue_proofs -----------------------
(***************************************************************************)
(* Proofs about ConcurrentQueue, for any sets of threads and elements and  *)
(* any capacity.                                                           *)
(***************************************************************************)
EXTENDS ConcurrentQueue, TLAPS

(* A call or a step inside one, whichever thread takes it.                 *)
LEMMA StepKinds ==
  ASSUME Next
  PROVE  \E t \in Threads :
            \/ t \in Pushers /\ \E x \in Items : CallPush(t, x)
            \/ t \in Poppers /\ CallPop(t)
            \/ t \in AsyncPoppers /\ PopAsync(t)
            \/ PushElement(t) \/ PopElement(t) \/ Wait(t)
            \/ NotifyOne(t) \/ SpuriousWakeup(t)
BY DEF Next, Threads, Proceed

(* Every variable keeps its type, and a pusher inside push holds an        *)
(* element: the empty slot of arg can never reach the queue.               *)
THEOREM TypeInvariant == Spec => []TypeOK
<1>1. Init => TypeOK
  BY NothingAssumption DEF Init, TypeOK, Threads
<1>2. ASSUME TypeOK, [Next]_qvars
      PROVE  TypeOK'
  <2>1. CASE UNCHANGED qvars
    BY <1>2, <2>1 DEF TypeOK, qvars
  <2>2. CASE Next
    <3>1. PICK t \in Threads :
            \/ t \in Pushers /\ \E x \in Items : CallPush(t, x)
            \/ t \in Poppers /\ CallPop(t)
            \/ t \in AsyncPoppers /\ PopAsync(t)
            \/ PushElement(t) \/ PopElement(t) \/ Wait(t)
            \/ NotifyOne(t) \/ SpuriousWakeup(t)
      BY <2>2, StepKinds
    <3>2. ASSUME t \in Pushers, NEW x \in Items, CallPush(t, x)
          PROVE  TypeOK'
      BY <1>2, <3>2 DEF TypeOK, CallPush, Goto
    <3>3. ASSUME t \in Poppers, CallPop(t)
          PROVE  TypeOK'
      BY <1>2, <3>3, ThreadsAssumption DEF TypeOK, CallPop, Goto
    <3>4. ASSUME t \in AsyncPoppers, PopAsync(t)
          PROVE  TypeOK'
      <4>1. pc' = [pc EXCEPT ![t] = "notify"] /\ t \notin Pushers
        BY <3>4, ThreadsAssumption DEF PopAsync, Goto
      <4>2. CASE TakeHead(t)
        BY <1>2, <4>1, <4>2 DEF TypeOK, TakeHead
      <4>3. CASE UNCHANGED <<queue, pushed, popped>> /\ arg' = [arg EXCEPT ![t] = Nothing]
        BY <1>2, <4>1, <4>3 DEF TypeOK
      <4>4. QED
        BY <3>4, <4>2, <4>3 DEF PopAsync
    <3>5. ASSUME PushElement(t)
          PROVE  TypeOK'
      <4>1. t \in Pushers /\ arg[t] \in Items
        BY <1>2, <3>5 DEF TypeOK, PushElement
      <4>2. QED
        BY <1>2, <3>5, <4>1 DEF TypeOK, PushElement, Goto
    <3>6. ASSUME PopElement(t)
          PROVE  TypeOK'
      <4>1. t \notin Pushers /\ pc' = [pc EXCEPT ![t] = "notify"]
        BY <1>2, <3>6, ThreadsAssumption DEF TypeOK, PopElement, Goto
      <4>2. QED
        BY <1>2, <3>6, <4>1 DEF TypeOK, PopElement, TakeHead
    <3>7. ASSUME Wait(t)
          PROVE  TypeOK'
      <4>1. pc' = [pc EXCEPT ![t] = "wait"] /\ t \in Pushers \cup Poppers
        BY <1>2, <3>7 DEF TypeOK, Wait, Goto
      <4>2. t \in Pushers => arg[t] \in Items
        BY <1>2, <3>7, ThreadsAssumption DEF TypeOK, Wait
      <4>3. QED
        BY <1>2, <3>7, <4>1, <4>2 DEF TypeOK, Wait
    <3>8. ASSUME NotifyOne(t)
          PROVE  TypeOK'
      BY <1>2, <3>8 DEF TypeOK, NotifyOne, Goto, LoopTest, waiting
    <3>9. ASSUME SpuriousWakeup(t)
          PROVE  TypeOK'
      BY <1>2, <3>9 DEF TypeOK, SpuriousWakeup, Goto, LoopTest
    <3>10. QED
      BY <3>1, <3>2, <3>3, <3>4, <3>5, <3>6, <3>7, <3>8, <3>9
  <2>3. QED
    BY <1>2, <2>1, <2>2
<1>3. QED
  BY <1>1, <1>2, PTL DEF Spec
-----------------------------------------------------------------------------
(* Only two things ever happen to the three sequences: an element is put   *)
(* at the back while there is room, or the front one is taken.             *)
LEMMA QueueChanges ==
  ASSUME TypeOK, [Next]_qvars
  PROVE  \/ UNCHANGED <<queue, pushed, popped>>
         \/ \E x \in Items : /\ Len(queue) < Capacity
                             /\ queue' = Append(queue, x)
                             /\ pushed' = Append(pushed, x)
                             /\ popped' = popped
         \/ /\ queue # <<>>
            /\ queue' = Tail(queue)
            /\ popped' = Append(popped, Head(queue))
            /\ pushed' = pushed
<1>1. CASE UNCHANGED qvars
  BY <1>1 DEF qvars
<1>2. CASE Next
  <2>1. PICK t \in Threads :
          \/ t \in Pushers /\ \E x \in Items : CallPush(t, x)
          \/ t \in Poppers /\ CallPop(t)
          \/ t \in AsyncPoppers /\ PopAsync(t)
          \/ PushElement(t) \/ PopElement(t) \/ Wait(t)
          \/ NotifyOne(t) \/ SpuriousWakeup(t)
    BY <1>2, StepKinds
  <2>2. CASE PushElement(t)
    <3>1. arg[t] \in Items
      BY <2>2 DEF TypeOK, PushElement
    <3>2. QED
      BY <2>2, <3>1 DEF PushElement
  <2>3. CASE PopElement(t) \/ (t \in AsyncPoppers /\ PopAsync(t))
    BY <2>3 DEF PopElement, PopAsync, TakeHead
  <2>4. CASE \/ t \in Pushers /\ \E x \in Items : CallPush(t, x)
             \/ t \in Poppers /\ CallPop(t)
             \/ Wait(t) \/ NotifyOne(t) \/ SpuriousWakeup(t)
    BY <2>4 DEF CallPush, CallPop, Wait, NotifyOne, SpuriousWakeup
  <2>5. QED
    BY <2>1, <2>2, <2>3, <2>4
<1>3. QED
  BY <1>1, <1>2

\* One step: what was pushed and not popped.
LEMMA DifferenceStep ==
  ASSUME TypeOK, QueueIsTheDifference, [Next]_qvars
  PROVE  QueueIsTheDifference'
<1>1. CASE UNCHANGED <<queue, pushed, popped>>
  BY <1>1 DEF QueueIsTheDifference
<1>2. ASSUME NEW x \in Items,
             queue' = Append(queue, x), pushed' = Append(pushed, x), popped' = popped
      PROVE  QueueIsTheDifference'
  <2>1. /\ Len(queue') = Len(queue) + 1 /\ Len(pushed') = Len(pushed) + 1
        /\ \A i \in 1..Len(queue) : queue'[i] = queue[i]
        /\ queue'[Len(queue) + 1] = x
        /\ \A i \in 1..Len(pushed) : pushed'[i] = pushed[i]
        /\ pushed'[Len(pushed) + 1] = x
    BY <1>2 DEF TypeOK
  <2>2. Len(popped) \in Nat /\ Len(queue) \in Nat /\ Len(pushed) \in Nat
    BY DEF TypeOK
  <2>3. \A i \in 1..Len(queue') : queue'[i] = pushed'[Len(popped) + i]
    <3>1. TAKE i \in 1..Len(queue')
    <3>2. CASE i = Len(queue) + 1
      BY <2>1, <2>2, <3>2 DEF QueueIsTheDifference
    <3>3. CASE i # Len(queue) + 1
      <4>1. i \in 1..Len(queue) /\ Len(popped) + i \in 1..Len(pushed)
        BY <2>1, <2>2, <3>3 DEF QueueIsTheDifference
      <4>2. QED
        BY <2>1, <4>1 DEF QueueIsTheDifference
    <3>4. QED
      BY <3>2, <3>3
  <2>4. \A i \in 1..Len(popped') : popped'[i] = pushed'[i]
    BY <1>2, <2>1, <2>2 DEF QueueIsTheDifference
  <2>5. Len(pushed') = Len(popped') + Len(queue')
    BY <1>2, <2>1, <2>2 DEF QueueIsTheDifference
  <2>6. \A i \in 1..Len(queue') : queue'[i] = pushed'[Len(popped') + i]
    BY <1>2, <2>3
  <2>7. QED
    BY <2>4, <2>5, <2>6 DEF QueueIsTheDifference
<1>3. ASSUME queue # <<>>, queue' = Tail(queue),
             popped' = Append(popped, Head(queue)), pushed' = pushed
      PROVE  QueueIsTheDifference'
  <2>1. /\ Len(queue) \in Nat \ {0} /\ Len(popped) \in Nat
        /\ Len(queue') = Len(queue) - 1 /\ Len(popped') = Len(popped) + 1
        /\ \A i \in 1..Len(queue') : queue'[i] = queue[i + 1]
        /\ \A i \in 1..Len(popped) : popped'[i] = popped[i]
        /\ popped'[Len(popped) + 1] = queue[1]
    BY <1>3 DEF TypeOK
  <2>2. \A i \in 1..Len(popped') : popped'[i] = pushed'[i]
    <3>1. queue[1] = pushed[Len(popped) + 1]
      BY <2>1 DEF QueueIsTheDifference
    <3>2. QED
      BY <1>3, <2>1, <3>1 DEF QueueIsTheDifference
  <2>3. \A i \in 1..Len(queue') : queue'[i] = pushed'[Len(popped') + i]
    <3>1. TAKE i \in 1..Len(queue')
    <3>2. i + 1 \in 1..Len(queue) /\ Len(popped') + i = Len(popped) + (i + 1)
      BY <2>1
    <3>3. QED
      BY <1>3, <2>1, <3>2 DEF QueueIsTheDifference
  <2>4. Len(pushed') = Len(popped') + Len(queue')
    <3>1. Len(pushed') = Len(popped) + Len(queue)
      BY <1>3 DEF QueueIsTheDifference
    <3>2. Len(queue) \in Nat \ {0} /\ Len(popped) \in Nat
      BY <2>1
    <3>3. Len(queue') = Len(queue) - 1 /\ Len(popped') = Len(popped) + 1
      BY <2>1
    <3>4. QED
      BY <3>1, <3>2, <3>3
  <2>5. QED
    BY <2>2, <2>3, <2>4 DEF QueueIsTheDifference
<1>4. QED
  BY QueueChanges, <1>1, <1>2, <1>3

(* No element is lost, doubled or overtaken inside the queue.              *)
THEOREM Difference == Spec => []QueueIsTheDifference
<1>1. Init => QueueIsTheDifference
  BY DEF Init, QueueIsTheDifference
<1>2. QED
  BY <1>1, DifferenceStep, TypeInvariant, PTL DEF Spec

(* push never grows the queue past the template's buffer size.             *)
THEOREM Bounded == Spec => []WithinCapacity
<1>1. Init => WithinCapacity
  BY CapacityAssumption DEF Init, WithinCapacity
<1>2. TypeOK /\ WithinCapacity /\ [Next]_qvars => WithinCapacity'
  <2>1. SUFFICES ASSUME TypeOK, WithinCapacity, [Next]_qvars
                 PROVE  WithinCapacity'
    OBVIOUS
  <2>2. CASE UNCHANGED <<queue, pushed, popped>>
    BY <2>1, <2>2 DEF WithinCapacity
  <2>3. ASSUME NEW x \in Items, Len(queue) < Capacity, queue' = Append(queue, x)
        PROVE  WithinCapacity'
    BY <2>1, <2>3, CapacityAssumption DEF TypeOK, WithinCapacity
  <2>4. ASSUME queue # <<>>, queue' = Tail(queue)
        PROVE  WithinCapacity'
    BY <2>1, <2>4, CapacityAssumption DEF TypeOK, WithinCapacity
  <2>5. QED
    BY <2>1, <2>2, <2>3, <2>4, QueueChanges
<1>3. QED
  BY <1>1, <1>2, TypeInvariant, PTL DEF Spec
-----------------------------------------------------------------------------
(* The only wakeup this queue can lose is one that went to a waiter of the *)
(* other kind: with pop_async as the only consumer, as in                  *)
(* dk_level2_interface, a producer with room is never left asleep.         *)
THEOREM WakeupsAreNotLost == Spec => []NoLostWakeup
<1>1. Init => NoLostWakeup
  BY DEF Init, NoLostWakeup, waiting
<1>2. TypeOK /\ NoLostWakeup /\ [Next]_qvars => NoLostWakeup'
  <2>1. SUFFICES ASSUME TypeOK, NoLostWakeup, [Next]_qvars
                 PROVE  NoLostWakeup'
    OBVIOUS
  <2>2. CASE UNCHANGED qvars
    BY <2>1, <2>2 DEF NoLostWakeup, qvars, waiting, InFlight
  <2>3. CASE Next
    <3>1. PICK t \in Threads :
            \/ t \in Pushers /\ \E x \in Items : CallPush(t, x)
            \/ t \in Poppers /\ CallPop(t)
            \/ t \in AsyncPoppers /\ PopAsync(t)
            \/ PushElement(t) \/ PopElement(t) \/ Wait(t)
            \/ NotifyOne(t) \/ SpuriousWakeup(t)
      BY <2>3, StepKinds
    (* after most steps the thread itself is in flight *)
    <3>2. CASE \/ \E x \in Items : CallPush(t, x)
               \/ CallPop(t) \/ PopAsync(t)
               \/ PushElement(t) \/ PopElement(t) \/ SpuriousWakeup(t)
      <4>1. pc'[t] \in {"push", "pop", "notify"}
        BY <2>1, <3>2 DEF TypeOK, CallPush, CallPop, PopAsync, PushElement,
                          PopElement, SpuriousWakeup, Goto, LoopTest
      <4>2. QED
        BY <4>1 DEF NoLostWakeup, InFlight
    (* a thread that starts to wait has just seen its own condition fail *)
    <3>3. CASE Wait(t)
      <4>1. waiting' = waiting \cup {t} /\ queue' = queue
        BY <2>1, <3>3 DEF TypeOK, Wait, Goto, waiting
      <4>2. CASE pc[t] = "push"
        <5>1. t \in Pushers /\ Len(queue) >= Capacity
          BY <2>1, <3>3, <4>2 DEF TypeOK, Wait
        <5>2. ~(Len(queue') < Capacity)
          BY <2>1, <4>1, <5>1, CapacityAssumption DEF TypeOK
        <5>3. QED
          BY <4>1, <5>1, <5>2 DEF NoLostWakeup
      <4>3. CASE pc[t] = "pop"
        <5>1. queue' = <<>>
          BY <3>3, <4>1, <4>3 DEF Wait
        <5>2. CASE t \in Poppers
          BY <4>1, <5>1, <5>2 DEF NoLostWakeup
        <5>3. CASE t \notin Poppers
          BY <2>1, <4>3, <5>3 DEF TypeOK, Threads
        <5>4. QED
          BY <5>2, <5>3
      <4>4. QED
        BY <3>3, <4>2, <4>3 DEF Wait
    (* a notification leaves somebody in flight unless nobody waits *)
    <3>4. CASE NotifyOne(t)
      <4>1. CASE waiting = {}
        BY <2>1, <3>4, <4>1 DEF TypeOK, NotifyOne, Goto, NoLostWakeup, waiting
      <4>2. CASE waiting # {}
        <5>1. PICK w \in waiting : pc' = [pc EXCEPT ![t] = "idle", ![w] = LoopTest(w)]
          BY <3>4, <4>2 DEF NotifyOne
        <5>2. w \in Threads /\ pc'[w] \in {"push", "pop"}
          BY <2>1, <5>1 DEF TypeOK, waiting, LoopTest
        <5>3. QED
          BY <5>2 DEF NoLostWakeup, InFlight
      <4>3. QED
        BY <4>1, <4>2
    <3>5. QED
      BY <3>1, <3>2, <3>3, <3>4
  <2>4. QED
    BY <2>1, <2>2, <2>3
<1>3. QED
  BY <1>1, <1>2, TypeInvariant, PTL DEF Spec
-----------------------------------------------------------------------------
(* Seen from its callers the queue is a bounded FIFO, whatever the threads *)
(* inside it do.                                                           *)
THEOREM ImplementsBoundedFifo == Spec => ImplementsFifo
<1>1. Init => Fifo!Init
  BY DEF Init, Fifo!Init
<1>2. TypeOK /\ QueueIsTheDifference /\ [Next]_qvars => [Fifo!Next]_(Fifo!vars)
  <2>1. SUFFICES ASSUME TypeOK, QueueIsTheDifference, [Next]_qvars
                 PROVE  [Fifo!Next]_(Fifo!vars)
    OBVIOUS
  <2>2. CASE UNCHANGED <<queue, pushed, popped>>
    BY <2>2 DEF Fifo!vars
  <2>3. ASSUME NEW x \in Items, Len(queue) < Capacity,
               pushed' = Append(pushed, x), popped' = popped
        PROVE  Fifo!Next
    <3>1. Len(pushed) - Len(popped) = Len(queue)
      BY <2>1 DEF TypeOK, QueueIsTheDifference
    <3>2. QED
      BY <2>3, <3>1 DEF Fifo!Next, Fifo!Send
  <2>4. ASSUME queue # <<>>, popped' = Append(popped, Head(queue)), pushed' = pushed
        PROVE  Fifo!Next
    <3>1. Len(queue) \in Nat \ {0} /\ Head(queue) = queue[1]
      BY <2>1, <2>4 DEF TypeOK
    <3>2. Len(popped) < Len(pushed) /\ Head(queue) = pushed[Len(popped) + 1]
      BY <2>1, <3>1 DEF TypeOK, QueueIsTheDifference
    <3>3. QED
      BY <2>4, <3>2 DEF Fifo!Next, Fifo!Receive
  <2>5. QED
    BY <2>1, <2>2, <2>3, <2>4, QueueChanges
<1>3. QED
  BY <1>1, <1>2, TypeInvariant, Difference, PTL DEF Spec, ImplementsFifo, Fifo!Spec
=============================================================================
