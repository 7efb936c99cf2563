-------------------------- MODULE Level2Client_proofs --------------------------
(***************************************************************************)
(* What the reporting half of dk_level2_interface guarantees for any       *)
(* number of jobs and faults, any capacity of the queue and any alive      *)
(* interval: its pointer and its flag agree, nothing is lost without a     *)
(* fault, the producer's wakeup is not lost, and reports form a lossy      *)
(* channel to Level2.                                                      *)
(***************************************************************************)
EXTENDS Level2Client, SequenceTheorems, TLAPS

\* The two threads that use the queue.
LEMMA TwoThreads ==
  /\ Q!Threads = {JobCheck, Client} /\ JobCheck # Client
  /\ NoJob \notin Jobs
BY DEF Q!Threads, JobCheck, Client, NoJob, Jobs

\* What TypeOK says of them.
LEMMA ThreadStates ==
  ASSUME TypeOK
  PROVE  /\ pc \in [{JobCheck, Client} -> {"idle", "push", "pop", "wait", "notify"}]
         /\ arg \in [{JobCheck, Client} -> Jobs \cup {NoJob}]
         /\ pc[JobCheck] \in {"idle", "push", "wait", "notify"} /\ pc[Client] \in {"idle", "notify"}
         /\ pc[JobCheck] \in {"push", "wait"} => arg[JobCheck] \in Jobs
         /\ arg[JobCheck] \in Jobs \cup {NoJob} /\ arg[Client] \in Jobs \cup {NoJob}
         /\ queue \in Seq(Jobs) /\ wire \in Seq(Jobs) /\ delivered \in Seq(Jobs)
         /\ nextJob \in Nat /\ Jobs \subseteq Nat \ {0} /\ lost \subseteq Jobs
<1>1. Q!TypeOK
  BY DEF TypeOK
<1>2. /\ pc \in [{JobCheck, Client} -> {"idle", "push", "pop", "wait", "notify"}]
      /\ arg \in [{JobCheck, Client} -> Jobs \cup {NoJob}] /\ queue \in Seq(Jobs)
  BY <1>1, TwoThreads DEF Q!TypeOK
<1>3. pc[JobCheck] \in {"idle", "push", "wait", "notify"} /\ pc[Client] \in {"idle", "notify"}
  BY <1>1, <1>2, TwoThreads DEF Q!TypeOK
<1>4. pc[JobCheck] \in {"push", "wait"} => arg[JobCheck] \in Jobs
  BY <1>1, TwoThreads DEF Q!TypeOK
<1>5. nextJob \in Nat /\ Jobs \subseteq Nat \ {0} /\ lost \subseteq Jobs
  BY BoundsAssumption DEF BoundsAssumption, TypeOK, Jobs
<1>6. wire \in Seq(Jobs) /\ delivered \in Seq(Jobs)
  BY DEF TypeOK
<1> QED
  BY <1>2, <1>3, <1>4, <1>5, <1>6

\* The queue's type invariant, from what the two threads make of it.
LEMMA QueueTypes ==
  ASSUME pc' \in [{JobCheck, Client} -> {"idle", "push", "pop", "wait", "notify"}],
         arg' \in [{JobCheck, Client} -> Jobs \cup {NoJob}],
         queue' \in Seq(Jobs), pushed' \in Seq(Jobs), popped' \in Seq(Jobs),
         pc'[JobCheck] # "pop", pc'[Client] \in {"idle", "notify"},
         pc'[JobCheck] \in {"push", "wait"} => arg'[JobCheck] \in Jobs
  PROVE  Q!TypeOK'
BY TwoThreads DEF Q!TypeOK

\* push, step by step.
LEMMA PushSteps ==
  ASSUME TypeOK, JobPush
  PROVE  \/ /\ pc[JobCheck] = "push" /\ Len(queue) < Capacity
            /\ queue' = Append(queue, arg[JobCheck]) /\ pushed' = Append(pushed, arg[JobCheck])
            /\ popped' = popped
            /\ pc' = [pc EXCEPT ![JobCheck] = "notify"] /\ arg' = [arg EXCEPT ![JobCheck] = NoJob]
         \/ /\ pc[JobCheck] = "push" /\ Len(queue) >= Capacity
            /\ pc' = [pc EXCEPT ![JobCheck] = "wait"] /\ UNCHANGED <<queue, arg, pushed, popped>>
         \/ /\ pc[JobCheck] = "notify"
            /\ pc' = [pc EXCEPT ![JobCheck] = "idle"] /\ UNCHANGED <<queue, arg, pushed, popped>>
         \/ /\ pc[JobCheck] = "wait"
            /\ pc' = [pc EXCEPT ![JobCheck] = "push"] /\ UNCHANGED <<queue, arg, pushed, popped>>
<1> USE ThreadStates, TwoThreads DEF Q!Goto
<1>1. CASE Q!PushElement(JobCheck)
  BY <1>1 DEF Q!PushElement
<1>2. CASE Q!Wait(JobCheck)
  BY <1>2 DEF Q!Wait
<1>3. CASE Q!NotifyOne(JobCheck)
  <2>1. pc[JobCheck] = "notify"
    BY <1>3 DEF Q!NotifyOne
  <2>2. Q!waiting = {}
    BY <2>1 DEF Q!waiting
  <2> QED
    BY <1>3, <2>1, <2>2 DEF Q!NotifyOne
<1>4. CASE Q!SpuriousWakeup(JobCheck)
  BY <1>4 DEF Q!SpuriousWakeup, Q!LoopTest
<1>5. ~Q!PopElement(JobCheck)
  BY DEF Q!PopElement
<1> QED
  BY <1>1, <1>2, <1>3, <1>4, <1>5 DEF JobPush, Q!Proceed

\* pop_async under the mutex.
LEMMA PopSteps ==
  ASSUME PopJob
  PROVE  /\ pc[Client] = "idle" /\ pc' = [pc EXCEPT ![Client] = "notify"]
         /\ pushed' = pushed
         /\ \/ /\ queue # <<>> /\ queue' = Tail(queue) /\ popped' = Append(popped, Head(queue))
               /\ arg' = [arg EXCEPT ![Client] = Head(queue)]
            \/ /\ queue = <<>> /\ queue' = queue /\ popped' = popped
               /\ arg' = [arg EXCEPT ![Client] = NoJob]
BY DEF PopJob, Q!PopAsync, Q!TakeHead, Q!Goto

\* The notification after it: a waiting producer is woken.
LEMMA NotifySteps ==
  ASSUME TypeOK, PopReturns
  PROVE  /\ pc[Client] = "notify" /\ UNCHANGED <<queue, arg, pushed, popped>>
         /\ \/ pc[JobCheck] # "wait" /\ pc' = [pc EXCEPT ![Client] = "idle"]
            \/ pc[JobCheck] = "wait" /\ pc' = [pc EXCEPT ![Client] = "idle", ![JobCheck] = "push"]
<1> USE ThreadStates, TwoThreads
<1>1. Q!NotifyOne(Client)
  BY DEF PopReturns
<1>2. pc[Client] = "notify" /\ UNCHANGED <<queue, arg, pushed, popped>>
  BY <1>1 DEF Q!NotifyOne
<1>3. CASE pc[JobCheck] = "wait"
  <2>1. Q!waiting = {JobCheck}
    BY <1>2, <1>3 DEF Q!waiting
  <2>2. Q!LoopTest(JobCheck) = "push"
    BY DEF Q!LoopTest
  <2> QED
    BY <1>1, <1>2, <1>3, <2>1, <2>2 DEF Q!NotifyOne
<1>4. CASE pc[JobCheck] # "wait"
  <2>1. Q!waiting = {}
    BY <1>2, <1>4 DEF Q!waiting
  <2> QED
    BY <1>1, <1>2, <1>4, <2>1 DEF Q!NotifyOne, Q!Goto
<1> QED
  BY <1>3, <1>4

-----------------------------------------------------------------------------
(* TypeOK: the queue's part, then the rest.                                *)

LEMMA QueueSequences ==
  ASSUME TypeOK
  PROVE  Q!TypeOK /\ pushed \in Seq(Jobs) /\ popped \in Seq(Jobs) /\ queue \in Seq(Jobs)
BY DEF TypeOK, Q!TypeOK

\* A job comes in.
LEMMA ReceiveType == ASSUME TypeOK, JobReceive PROVE TypeOK'
<1> USE ThreadStates, QueueSequences, TwoThreads
<1>1. /\ pc' = [pc EXCEPT ![JobCheck] = "push"] /\ arg' = [arg EXCEPT ![JobCheck] = nextJob]
      /\ UNCHANGED <<queue, pushed, popped>>
  BY DEF JobReceive, Q!CallPush, Q!Goto
<1>2. nextJob \in Jobs /\ nextJob' \in 1 .. MaxJobs + 1
  BY BoundsAssumption DEF JobReceive, TypeOK, Jobs, BoundsAssumption
<1>3. Q!TypeOK'
  BY <1>1, <1>2, QueueTypes
<1> QED
  BY <1>2, <1>3 DEF JobReceive, TypeOK, clientvars, closevars, netvars

\* It is pushed.
LEMMA PushType == ASSUME TypeOK, JobPush PROVE TypeOK'
<1> USE ThreadStates, QueueSequences, TwoThreads
<1>1. Q!TypeOK'
  <2>1. CASE /\ pc[JobCheck] = "push" /\ Len(queue) < Capacity
             /\ queue' = Append(queue, arg[JobCheck]) /\ pushed' = Append(pushed, arg[JobCheck])
             /\ popped' = popped
             /\ pc' = [pc EXCEPT ![JobCheck] = "notify"] /\ arg' = [arg EXCEPT ![JobCheck] = NoJob]
    BY <2>1, QueueTypes
  <2>2. CASE /\ pc[JobCheck] = "push" /\ pc' = [pc EXCEPT ![JobCheck] = "wait"]
             /\ UNCHANGED <<queue, arg, pushed, popped>>
    BY <2>2, QueueTypes
  <2>3. CASE pc' = [pc EXCEPT ![JobCheck] = "idle"] /\ UNCHANGED <<queue, arg, pushed, popped>>
    BY <2>3, QueueTypes
  <2>4. CASE /\ pc[JobCheck] = "wait" /\ pc' = [pc EXCEPT ![JobCheck] = "push"]
             /\ UNCHANGED <<queue, arg, pushed, popped>>
    BY <2>4, QueueTypes
  <2> QED
    BY <2>1, <2>2, <2>3, <2>4, PushSteps
<1> QED
  BY <1>1 DEF JobPush, TypeOK, jobvars, clientvars, closevars, netvars

\* It is popped.
LEMMA PopType == ASSUME TypeOK, PopJob \/ PopReturns PROVE TypeOK'
<1> USE ThreadStates, QueueSequences, TwoThreads
<1>1. CASE PopJob
  <2>1. queue # <<>> => Head(queue) \in Jobs /\ Tail(queue) \in Seq(Jobs)
    BY HeadTailProperties
  <2>2. pushed' = pushed /\ queue' \in Seq(Jobs) /\ popped' \in Seq(Jobs)
    <3>1. CASE queue = <<>>
      BY <1>1, <3>1, PopSteps
    <3>2. CASE queue # <<>>
      <4>1. queue' = Tail(queue) /\ popped' = Append(popped, Head(queue)) /\ pushed' = pushed
        BY <1>1, <3>2, PopSteps
      <4>2. Append(popped, Head(queue)) \in Seq(Jobs)
        BY <2>1, <3>2, AppendProperties
      <4> QED
        BY <2>1, <3>2, <4>1, <4>2
    <3> QED
      BY <3>1, <3>2
  <2>3. /\ pc' = [pc EXCEPT ![Client] = "notify"]
        /\ \E x \in Jobs \cup {NoJob} : arg' = [arg EXCEPT ![Client] = x]
    BY <1>1, <2>1, PopSteps
  <2>4. Q!TypeOK'
    BY <2>2, <2>3, QueueTypes
  <2> QED
    BY <1>1, <2>4 DEF PopJob, TypeOK, jobvars, closevars, netvars
<1>2. CASE PopReturns
  <2>1. UNCHANGED <<queue, arg, pushed, popped>>
    BY <1>2, NotifySteps
  <2>2. /\ pc' \in [{JobCheck, Client} -> {"idle", "push", "pop", "wait", "notify"}]
        /\ pc'[Client] = "idle"
        /\ pc'[JobCheck] = pc[JobCheck] \/ (pc[JobCheck] = "wait" /\ pc'[JobCheck] = "push")
    BY <1>2, NotifySteps
  <2>3. Q!TypeOK'
    BY <2>1, <2>2, QueueTypes
  <2> QED
    BY <1>2, <2>3 DEF PopReturns, TypeOK, jobvars, closevars, netvars
<1> QED
  BY <1>1, <1>2

\* The steps that leave the queue alone.
LEMMA QueueUnchanged == ASSUME TypeOK, UNCHANGED qvars PROVE Q!TypeOK'
BY DEF TypeOK, Q!TypeOK, Q!Threads, qvars

\* Steps of the loops and of closing that move no job.
LEMMA LoopType ==
  ASSUME TypeOK, JobCheckTest \/ JobReceiveNothing \/ CreateSocket \/ ConnectSucceeds \/ ConnectFails
                 \/ AliveStep \/ ClientExit \/ OnClose \/ CloseStep
  PROVE  TypeOK'
<1>1. Q!TypeOK'
  BY QueueUnchanged
  DEF JobCheckTest, JobReceiveNothing, CreateSocket, ConnectSucceeds, ConnectFails, AliveStep,
      ClientExit, OnClose, CloseStep, Join, OtherWorkerReturns
<1>2. CASE JobCheckTest \/ JobReceiveNothing
  BY <1>1, <1>2 DEF JobCheckTest, JobReceiveNothing, TypeOK, clientvars, closevars, netvars
<1>3. CASE CreateSocket \/ ConnectSucceeds \/ ConnectFails \/ ClientExit
  BY <1>1, <1>3
  DEF CreateSocket, ConnectSucceeds, ConnectFails, ClientExit, DropSocket, TypeOK, jobvars, closevars, netvars
<1>4. CASE AliveStep
  <2>1. alive_time' \in 0 .. AliveTicks
    <3>1. alive_time \in 0 .. AliveTicks /\ AliveTicks \in Nat \ {0}
      BY BoundsAssumption DEF TypeOK, BoundsAssumption
    <3>2. alive_time' = 1 \/ (alive_time < AliveTicks /\ alive_time' = alive_time + 1)
      BY <1>4 DEF AliveStep
    <3> QED
      BY <3>1, <3>2
  <2>2. link' \in {"none", "up", "broken", "probed", "reset", "closing"}
    BY <1>4 DEF AliveStep, AfterSend, TypeOK
  <2>3. cpc' \in {"top", "job"} /\ socket' \in BOOLEAN /\ is_connected' \in BOOLEAN
    BY <1>4 DEF AliveStep, DropSocket, TypeOK
  <2> QED
    BY <1>1, <1>4, <2>1, <2>2, <2>3 DEF AliveStep, TypeOK, jobvars, closevars
<1>5. CASE OnClose \/ CloseStep
  <2>1. Len(JoinOrder) = 4
    BY DEF JoinOrder
  <2>2. joined' \in 0 .. Len(JoinOrder)
    BY <1>5, <2>1 DEF OnClose, CloseStep, Join, OtherWorkerReturns, TypeOK
  <2> QED
    BY <1>1, <1>5, <2>2
    DEF OnClose, CloseStep, Join, OtherWorkerReturns, TypeOK, jobvars, clientvars, netvars
<1> QED
  BY <1>2, <1>3, <1>4, <1>5

\* A job is sent, and what the network does.
LEMMA WireType == ASSUME TypeOK, SendJob \/ NetworkStep, cpc = "send" => arg[Client] \in Jobs PROVE TypeOK'
<1>1. Q!TypeOK'
  BY QueueUnchanged DEF SendJob, NetworkStep, Level2Reads, ConnectionBreaks, ResetArrives, Level2Restarts
<1>2. CASE SendJob
  <2>1. arg[Client] \in Jobs /\ Append(wire, arg[Client]) \in Seq(Jobs)
    BY <1>2, ThreadStates DEF SendJob
  <2>2. /\ wire' \in Seq(Jobs) /\ lost' \subseteq Jobs
        /\ link' \in {"none", "up", "broken", "probed", "reset", "closing"}
    BY <1>2, <2>1 DEF SendJob, AfterSend, TypeOK
  <2> QED
    BY <1>1, <1>2, <2>2 DEF SendJob, DropSocket, TypeOK, jobvars, closevars
<1>3. CASE NetworkStep
  <2>1. CASE Level2Reads
    <3>1. Head(wire) \in Jobs /\ Tail(wire) \in Seq(Jobs)
      BY <2>1, HeadTailProperties DEF Level2Reads, TypeOK
    <3> QED
      BY <1>1, <2>1, <3>1 DEF Level2Reads, TypeOK, jobvars, clientvars, closevars
  <2>2. CASE ConnectionBreaks
    <3>1. Range(wire) \subseteq Jobs
      BY RangeOfSeq DEF TypeOK
    <3>2. faults' \in 0 .. MaxFaults
      BY <2>2, BoundsAssumption DEF ConnectionBreaks, TypeOK, BoundsAssumption
    <3> QED
      BY <1>1, <2>2, <3>1, <3>2 DEF ConnectionBreaks, TypeOK, jobvars, clientvars, closevars
  <2>3. CASE ResetArrives \/ Level2Restarts
    BY <1>1, <2>3 DEF ResetArrives, Level2Restarts, TypeOK, jobvars, clientvars, closevars
  <2> QED
    BY <1>3, <2>1, <2>2, <2>3 DEF NetworkStep
<1> QED
  BY <1>2, <1>3

-----------------------------------------------------------------------------
(* The inductive invariants.  What the two threads hold: the client only   *)
(* sends a packet it has popped, and the job worker only sleeps while the  *)
(* queue is full or the client is about to wake it.                        *)
HoldInv ==
  /\ cpc = "send" => arg[Client] \in Jobs
  /\ pc[JobCheck] = "wait" /\ Len(queue) < Capacity => pc[Client] = "notify"

\* Without a fault the connection the client believes in is there.
LinkInv ==
  faults = 0 => /\ lost = {}
                /\ is_connected /\ cpc # "done" => link = "up"

ClientInv == TypeOK /\ HoldInv /\ NoNullDereference

\* The first state.
LEMMA InitClient == Init => ClientInv /\ LinkInv
<1> SUFFICES ASSUME Init PROVE ClientInv /\ LinkInv
  OBVIOUS
<1>1. /\ Q!TypeOK /\ pc[JobCheck] = "idle"
  BY TwoThreads DEF Init, Q!Init, Q!TypeOK
<1>2. 0 \in 0 .. Len(JoinOrder)
  <2>1. Len(JoinOrder) = 4
    BY DEF JoinOrder
  <2> QED
    BY <2>1
<1>3. 1 \in 1 .. MaxJobs + 1 /\ 0 \in 0 .. AliveTicks /\ 0 \in 0 .. MaxFaults
  BY BoundsAssumption DEF BoundsAssumption
<1>4. wire \in Seq(Jobs) /\ delivered \in Seq(Jobs) /\ nextJob \in 1 .. MaxJobs + 1
  BY <1>3 DEF Init
<1>5. /\ alive_time \in 0 .. AliveTicks /\ faults \in 0 .. MaxFaults
      /\ joined \in 0 .. Len(JoinOrder)
  BY <1>2, <1>3 DEF Init
<1>6. TypeOK
  <2> HIDE DEF JoinOrder
  <2> QED
    BY <1>1, <1>4, <1>5 DEF Init, TypeOK
<1> QED
  BY <1>1, <1>6 DEF Init, ClientInv, HoldInv, NoNullDereference, LinkInv

\* One step keeps the types.
LEMMA NextType == ASSUME TypeOK, HoldInv, [Next]_vars PROVE TypeOK'
<1>1. CASE UNCHANGED vars
  BY <1>1, QueueUnchanged DEF TypeOK, vars, jobvars, clientvars, closevars, netvars
<1>2. CASE Finished
  BY <1>1, <1>2 DEF Finished
<1> QED
  BY <1>1, <1>2, ReceiveType, PushType, PopType, LoopType, WireType
  DEF Next, JobCheckStep, ClientStep, NetworkStep, HoldInv

\* One step: what the threads hold.
LEMMA NextHold == ASSUME ClientInv, [Next]_vars PROVE HoldInv'
<1> USE ThreadStates, TwoThreads DEF ClientInv
<1>1. CASE JobReceive
  BY <1>1 DEF JobReceive, Q!CallPush, Q!Goto, clientvars, HoldInv
<1>2. CASE JobPush
  <2>1. cpc' = cpc /\ arg'[Client] = arg[Client]
    BY <1>2, PushSteps DEF JobPush, clientvars
  <2>2. pc'[JobCheck] = "wait" => queue' = queue /\ Len(queue) >= Capacity
    BY <1>2, PushSteps
  <2>3. Len(queue) \in Nat /\ Capacity \in Nat
    BY BoundsAssumption, LenProperties DEF BoundsAssumption
  <2>4. ~(pc'[JobCheck] = "wait" /\ Len(queue') < Capacity)
    BY <2>2, <2>3
  <2> QED
    BY <2>1, <2>4 DEF HoldInv
<1>3. CASE PopJob
  <2>1. pc'[Client] = "notify" /\ cpc' = "popped"
    BY <1>3, PopSteps DEF PopJob
  <2> QED
    BY <2>1 DEF HoldInv
<1>4. CASE PopReturns
  <2>1. pc'[JobCheck] # "wait"
    BY <1>4, NotifySteps
  <2>2. cpc' = "send" => arg[Client] # NoJob /\ arg' = arg
    BY <1>4, NotifySteps DEF PopReturns
  <2> QED
    BY <2>1, <2>2 DEF HoldInv
<1>5. CASE UNCHANGED qvars /\ (cpc' # "send" \/ cpc' = cpc)
  BY <1>5 DEF HoldInv, qvars
<1>6. CASE \/ JobCheckTest \/ JobReceiveNothing \/ CreateSocket \/ ConnectSucceeds \/ ConnectFails
           \/ AliveStep \/ SendJob \/ ClientExit \/ OnClose \/ CloseStep \/ NetworkStep
  BY <1>5, <1>6
  DEF JobCheckTest, JobReceiveNothing, CreateSocket, ConnectSucceeds, ConnectFails, AliveStep,
      SendJob, ClientExit, OnClose, CloseStep, Join, OtherWorkerReturns,
      NetworkStep, Level2Reads, ConnectionBreaks, ResetArrives, Level2Restarts, clientvars
<1>7. CASE Finished \/ UNCHANGED vars
  BY <1>5, <1>7 DEF Finished, vars, clientvars
<1> QED
  BY <1>1, <1>2, <1>3, <1>4, <1>6, <1>7 DEF Next, JobCheckStep, ClientStep

\* One step dereferences no null pointer.
LEMMA NextPointer == ASSUME ClientInv, [Next]_vars PROVE NoNullDereference'
<1> USE DEF ClientInv, NoNullDereference
<1>1. CASE ClientStep
  BY <1>1 DEF ClientStep, CreateSocket, ConnectSucceeds, ConnectFails, AliveStep, PopJob, PopReturns,
              SendJob, ClientExit, DropSocket, closevars, clientvars
<1>2. CASE \/ JobCheckStep \/ OnClose \/ CloseStep \/ NetworkStep \/ Finished \/ UNCHANGED vars
  BY <1>2
  DEF JobCheckStep, JobCheckTest, JobReceive, JobReceiveNothing, JobPush, OnClose, CloseStep, Join,
      OtherWorkerReturns, NetworkStep, Level2Reads, ConnectionBreaks, ResetArrives, Level2Restarts,
      Finished, vars, clientvars, closevars
<1> QED
  BY <1>1, <1>2 DEF Next

\* One step: the connection the client believes in.
LEMMA NextLink == ASSUME ClientInv, LinkInv, [Next]_vars PROVE LinkInv'
<1> USE DEF LinkInv
<1>1. CASE ClientStep
  <2>1. faults' = faults
    BY <1>1 DEF ClientStep, CreateSocket, ConnectSucceeds, ConnectFails, AliveStep, PopJob, PopReturns,
                SendJob, ClientExit, netvars
  <2>2. CASE CreateSocket \/ ConnectSucceeds \/ ConnectFails
    BY <2>1, <2>2 DEF CreateSocket, ConnectSucceeds, ConnectFails, DropSocket, netvars
  <2>3. CASE AliveStep
    BY <2>1, <2>3 DEF AliveStep, AfterSend, Accepted, DropSocket
  <2>4. CASE PopJob \/ PopReturns
    BY <2>1, <2>4 DEF PopJob, PopReturns, netvars
  <2>5. CASE SendJob
    BY <2>1, <2>5 DEF SendJob, AfterSend, Accepted, DropSocket, ClientInv, NoNullDereference
  <2>6. CASE ClientExit
    BY <2>1, <2>6 DEF ClientExit
  <2> QED
    BY <1>1, <2>2, <2>3, <2>4, <2>5, <2>6 DEF ClientStep
<1>2. CASE ConnectionBreaks
  <2>1. faults' # 0
    BY <1>2, BoundsAssumption DEF ConnectionBreaks, ClientInv, TypeOK, BoundsAssumption
  <2> QED
    BY <2>1
<1>3. CASE \/ JobCheckStep \/ OnClose \/ CloseStep \/ Level2Reads \/ ResetArrives \/ Level2Restarts
           \/ Finished \/ UNCHANGED vars
  <2>1. UNCHANGED <<faults, lost, is_connected, cpc>>
    BY <1>3
    DEF JobCheckStep, JobCheckTest, JobReceive, JobReceiveNothing, JobPush, OnClose, CloseStep, Join,
        OtherWorkerReturns, Level2Reads, ResetArrives, Level2Restarts, Finished, vars, clientvars, netvars
  <2>2. link = "up" => link' = "up"
    BY <1>3
    DEF JobCheckStep, JobCheckTest, JobReceive, JobReceiveNothing, JobPush, OnClose, CloseStep, Join,
        OtherWorkerReturns, Level2Reads, ResetArrives, Level2Restarts, Finished, vars, netvars
  <2> QED
    BY <2>1, <2>2
<1> QED
  BY <1>1, <1>2, <1>3 DEF Next, NetworkStep

\* All of it, throughout.
LEMMA ClientInvariant == Spec => [](ClientInv /\ LinkInv)
<1>1. ClientInv /\ LinkInv /\ [Next]_vars => (ClientInv /\ LinkInv)'
  BY NextType, NextHold, NextPointer, NextLink DEF ClientInv
<1> QED
  BY <1>1, InitClient, PTL DEF Spec

\* The types hold for any number of jobs, capacity and alive interval.
THEOREM TypeInvariant == Spec => []TypeOK
BY ClientInvariant, PTL DEF ClientInv

\* The loop body of _do_client_work never dereferences a null _tcp_socket,
\* whichever send or connect fails and whenever on_close comes.
THEOREM SocketMatchesFlag == Spec => []NoNullDereference
BY ClientInvariant, PTL DEF ClientInv

\* A report is only lost to a fault of the network or of Level2: never to a
\* stop, to a reconnection or to the queue.
THEOREM LossNeedsAFault == Spec => []NoLossWithoutFault
<1>1. LinkInv => NoLossWithoutFault
  BY DEF LinkInv, NoLossWithoutFault
<1> QED
  BY <1>1, ClientInvariant, PTL

\* While the job worker sleeps in push, the queue is full or the client is
\* about to notify it: pop_async's notification is enough.
THEOREM ProducerIsWoken == Spec => []NoLostWakeup
<1>1. ClientInv => NoLostWakeup
  <2> SUFFICES ASSUME ClientInv PROVE NoLostWakeup
    OBVIOUS
  <2>1. Q!waiting \subseteq {JobCheck}
    BY ThreadStates, TwoThreads DEF Q!waiting, ClientInv
  <2>2. pc[JobCheck] = "wait" /\ Len(queue) < Capacity => Q!InFlight
    BY TwoThreads DEF ClientInv, HoldInv, Q!InFlight
  <2>3. JobCheck \in Q!waiting => pc[JobCheck] = "wait"
    BY DEF Q!waiting
  <2> QED
    BY <2>1, <2>2, <2>3 DEF NoLostWakeup, Q!NoLostWakeup
<1> QED
  BY <1>1, ClientInvariant, PTL

-----------------------------------------------------------------------------
(* Sequences that are taken from or put together.                          *)

LEMMA Regroup ==
  \A a, b, c \in Seq(Jobs) : (a \o b) \o c = a \o (b \o c)
BY ConcatAssociative

\* What Append and Tail do to the elements.
LEMMA RangeSteps ==
  ASSUME NEW s \in Seq(Jobs)
  PROVE  /\ \A x \in Jobs : Range(Append(s, x)) = Range(s) \cup {x}
         /\ s # <<>> => Head(s) \in Range(s) /\ Range(Tail(s)) \subseteq Range(s)
<1>1. Range(s) = {s[i] : i \in 1 .. Len(s)} /\ Len(s) \in Nat
  BY RangeEquality, LenProperties
<1>2. ASSUME NEW x \in Jobs PROVE Range(Append(s, x)) = Range(s) \cup {x}
  <2>1. Append(s, x) = s \o <<x>> /\ <<x>> \in Seq(Jobs)
    BY AppendIsConcat
  <2>2. Range(<<x>>) = {x}
    <3>1. Range(<<x>>) = {<<x>>[i] : i \in 1 .. Len(<<x>>)} /\ Len(<<x>>) = 1 /\ <<x>>[1] = x
      BY <2>1, RangeEquality
    <3>2. 1 .. 1 = {1}
      OBVIOUS
    <3> QED
      BY <3>1, <3>2
  <2>3. Range(s \o <<x>>) = Range(s) \cup Range(<<x>>)
    BY <2>1, RangeConcatenation
  <2> QED
    BY <2>1, <2>2, <2>3, Zenon
<1>3. ASSUME s # <<>> PROVE Head(s) \in Range(s) /\ Range(Tail(s)) \subseteq Range(s)
  <2>1. /\ Tail(s) \in Seq(Jobs) /\ Len(Tail(s)) = Len(s) - 1
        /\ \A i \in 1 .. Len(Tail(s)) : Tail(s)[i] = s[i + 1]
    BY <1>3, HeadTailProperties
  <2>2. Range(Tail(s)) = {Tail(s)[i] : i \in 1 .. Len(Tail(s))}
    BY <2>1, RangeEquality
  <2>3. \A i \in 1 .. Len(Tail(s)) : i + 1 \in 1 .. Len(s)
    BY <1>1, <2>1
  <2>4. Head(s) = s[1] /\ 1 \in 1 .. Len(s)
    <3>1. Len(s) # 0
      BY <1>3, EmptySeq
    <3> QED
      BY <1>1, <3>1
  <2> QED
    BY <1>1, <2>1, <2>2, <2>3, <2>4
<1> QED
  BY <1>2, <1>3

\* Where the middle of a sequence lies in the whole.
LEMMA CutOut ==
  ASSUME NEW p \in Seq(Jobs), NEW a \in Seq(Jobs), NEW m \in Seq(Jobs), NEW c \in Seq(Jobs), m # <<>>,
         p = (a \o m) \o c
  PROVE  /\ Len(a) + 1 \in 1 .. Len(p) /\ Len(a) + Len(m) \in 1 .. Len(p)
         /\ Len(a) + 1 <= Len(a) + Len(m)
         /\ \A k \in Len(a) + 1 .. Len(a) + Len(m) : p[k] \in Range(m)
         /\ \A x \in Range(m) : \E k \in Len(a) + 1 .. Len(a) + Len(m) : x = p[k]
         /\ SubSeq(p, 1, (Len(a) + 1) - 1) = a
         /\ SubSeq(p, Len(a) + Len(m) + 1, Len(p)) = c
<1>1. /\ Len(a) \in Nat /\ Len(m) \in Nat \ {0} /\ Len(c) \in Nat
  BY LenProperties, EmptySeq
<1>2. /\ a \o m \in Seq(Jobs) /\ Len(a \o m) = Len(a) + Len(m)
      /\ \A i \in 1 .. Len(a) + Len(m) : (a \o m)[i] = IF i <= Len(a) THEN a[i] ELSE m[i - Len(a)]
  BY ConcatProperties
<1>3. /\ p \in Seq(Jobs) /\ Len(p) = Len(a) + Len(m) + Len(c)
      /\ \A i \in 1 .. Len(a) + Len(m) + Len(c) :
            p[i] = IF i <= Len(a) + Len(m) THEN (a \o m)[i] ELSE c[i - (Len(a) + Len(m))]
  BY <1>1, <1>2, ConcatProperties
<1>4. \A i \in 1 .. Len(p) : p[i] \in Jobs
  BY <1>3, LenProperties
<1>5. /\ \A k \in Len(a) + 1 .. Len(a) + Len(m) : p[k] \in Range(m)
      /\ \A x \in Range(m) : \E k \in Len(a) + 1 .. Len(a) + Len(m) : x = p[k]
  <2>1. Range(m) = {m[i] : i \in 1 .. Len(m)}
    BY RangeEquality
  <2>2. \A k \in Len(a) + 1 .. Len(a) + Len(m) : p[k] = m[k - Len(a)] /\ k - Len(a) \in 1 .. Len(m)
    BY <1>1, <1>2, <1>3
  <2>3. \A i \in 1 .. Len(m) : /\ Len(a) + i \in Len(a) + 1 .. Len(a) + Len(m)
                               /\ (Len(a) + i) - Len(a) = i
    BY <1>1
  <2>4. \A i \in 1 .. Len(m) : p[Len(a) + i] = m[i]
    BY <2>2, <2>3
  <2> QED
    BY <2>1, <2>2, <2>3, <2>4
<1>6. SubSeq(p, 1, (Len(a) + 1) - 1) = a
  <2>1. (Len(a) + 1) - 1 = Len(a) /\ Len(a) <= Len(p) /\ Len(a) \in Int
    BY <1>1, <1>3
  <2>2. \A i \in 1 .. Len(a) : p[i] = a[i] /\ p[i] \in Jobs
    BY <1>1, <1>2, <1>3, <1>4
  <2> DEFINE q == SubSeq(p, 1, Len(a))
  <2>3. /\ q \in Seq(Jobs) /\ Len(q) = IF 1 <= Len(a) THEN (Len(a) - 1) + 1 ELSE 0
        /\ \A i \in 1 .. (Len(a) - 1) + 1 : q[i] = p[(1 + i) - 1]
    BY <2>1, <2>2, SubSeqProperties
  <2>4. Len(q) = Len(a) /\ (Len(a) - 1) + 1 = Len(a)
    BY <1>1, <2>3
  <2>5. \A i \in 1 .. Len(a) : q[i] = a[i]
    BY <2>2, <2>3, <2>4
  <2>6. q = a
    <3> HIDE DEF q
    <3> QED
      BY <2>3, <2>4, <2>5, SeqEqual
  <2> QED
    BY <2>1, <2>6
<1>7. SubSeq(p, Len(a) + Len(m) + 1, Len(p)) = c
  <2> DEFINE b == Len(a) + Len(m) + 1
             q == SubSeq(p, b, Len(p))
  <2>1. /\ b \in Int /\ Len(p) \in Int /\ \A i \in b .. Len(p) : p[i] \in Jobs
    BY <1>1, <1>3, <1>4
  <2>2. /\ q \in Seq(Jobs) /\ Len(q) = IF b <= Len(p) THEN (Len(p) - b) + 1 ELSE 0
        /\ \A i \in 1 .. (Len(p) - b) + 1 : q[i] = p[(b + i) - 1]
    BY <2>1, SubSeqProperties
  <2>3. Len(q) = Len(c) /\ (Len(p) - b) + 1 = Len(c)
    BY <1>1, <1>3, <2>2
  <2>4. \A i \in 1 .. Len(c) : p[(b + i) - 1] = c[i]
    <3>1. SUFFICES ASSUME NEW i \in 1 .. Len(c) PROVE p[(b + i) - 1] = c[i]
      OBVIOUS
    <3>2. /\ (b + i) - 1 \in 1 .. Len(a) + Len(m) + Len(c) /\ ~((b + i) - 1 <= Len(a) + Len(m))
          /\ ((b + i) - 1) - (Len(a) + Len(m)) = i
      BY <1>1
    <3> HIDE DEF b
    <3> QED
      BY <1>3, <3>2
  <2>5. \A i \in 1 .. Len(c) : q[i] = c[i]
    BY <2>2, <2>3, <2>4
  <2>6. q = c
    <3> HIDE DEF q
    <3> QED
      BY <2>2, <2>3, <2>5, SeqEqual
  <2> QED
    BY <2>6
<1> QED
  BY <1>1, <1>3, <1>5, <1>6, <1>7

-----------------------------------------------------------------------------
(* The steps of the channel.                                               *)
Pending == wire \o held \o queue

\* Nothing happens to the report.
LEMMA StutterStep ==
  ASSUME Pending' = Pending, UNCHANGED <<delivered, lost>>
  PROVE  UNCHANGED Report!vars
BY DEF Report!vars, Pending, held

\* The report accepts a job.
LEMMA AcceptStep ==
  ASSUME NEW x \in Jobs, x \notin Range(Pending) \cup Range(delivered) \cup lost,
         Pending' = Append(Pending, x), UNCHANGED <<delivered, lost>>
  PROVE  Report!Next
<1>1. Report!Accept(x)
  BY DEF Report!Accept, Report!Range, Range, Pending, held
<1> QED
  BY <1>1 DEF Report!Next

\* It delivers its first.
LEMMA DeliverStep ==
  ASSUME Pending # <<>>, Pending' = Tail(Pending), delivered' = Append(delivered, Head(Pending)),
         lost' = lost
  PROVE  Report!Next
<1>1. Report!Deliver
  BY DEF Report!Deliver, Pending, held
<1> QED
  BY <1>1 DEF Report!Next

\* It loses a stretch.
LEMMA LoseStep ==
  ASSUME NEW a \in Seq(Jobs), NEW m \in Seq(Jobs), NEW c \in Seq(Jobs), m # <<>>,
         Pending = (a \o m) \o c, Pending' = a \o c,
         Pending \in Seq(Jobs), lost' = lost \cup Range(m), delivered' = delivered
  PROVE  Report!Next
<1>1. /\ Len(a) + 1 \in 1 .. Len(Pending) /\ Len(a) + Len(m) \in 1 .. Len(Pending)
      /\ Len(a) + 1 <= Len(a) + Len(m)
      /\ \A k \in Len(a) + 1 .. Len(a) + Len(m) : Pending[k] \in Range(m)
      /\ \A x \in Range(m) : \E k \in Len(a) + 1 .. Len(a) + Len(m) : x = Pending[k]
      /\ SubSeq(Pending, 1, (Len(a) + 1) - 1) = a
      /\ SubSeq(Pending, Len(a) + Len(m) + 1, Len(Pending)) = c
  <2>1. /\ Len(a) + 1 \in 1 .. Len(Pending) /\ Len(a) + Len(m) \in 1 .. Len(Pending)
        /\ Len(a) + 1 <= Len(a) + Len(m)
    BY CutOut
  <2>2. \A k \in Len(a) + 1 .. Len(a) + Len(m) : Pending[k] \in Range(m)
    BY CutOut
  <2>3. \A x \in Range(m) : \E k \in Len(a) + 1 .. Len(a) + Len(m) : x = Pending[k]
    BY CutOut
  <2>4. SubSeq(Pending, 1, (Len(a) + 1) - 1) = a
    BY CutOut
  <2>5. SubSeq(Pending, Len(a) + Len(m) + 1, Len(Pending)) = c
    BY CutOut
  <2> QED
    BY <2>1, <2>2, <2>3, <2>4, <2>5
<1> DEFINE i == Len(a) + 1
           j == Len(a) + Len(m)
<1>2. /\ Pending' = SubSeq(Pending, 1, i - 1) \o SubSeq(Pending, j + 1, Len(Pending))
      /\ lost' = lost \cup {Pending[k] : k \in i .. j}
  BY <1>1
<1>0. i \in 1 .. Len(Pending) /\ j \in 1 .. Len(Pending) /\ i <= j
  BY <1>1
<1> HIDE DEF i, j
<1>3. Report!Lose(i, j)
  BY <1>2 DEF Report!Lose, Pending, held
<1>4. \E k, l \in 1 .. Len(Pending) : k <= l /\ Report!Lose(k, l)
  BY <1>0, <1>3
<1> QED
  BY <1>4 DEF Report!Next, Pending, held

\* What the client holds between the queue and the wire.
LEMMA HeldType ==
  ASSUME TypeOK
  PROVE  /\ held \in Seq(Jobs) /\ Pending \in Seq(Jobs) /\ wire \o held \in Seq(Jobs)
         /\ cpc \notin {"popped", "send"} => held = <<>>
<1>1. held \in Seq(Jobs)
  BY ThreadStates, EmptySeq DEF held
<1>2. wire \in Seq(Jobs) /\ queue \in Seq(Jobs)
  BY ThreadStates
<1>3. wire \o held \in Seq(Jobs)
  BY <1>1, <1>2, ConcatProperties
<1>4. Pending \in Seq(Jobs)
  BY <1>2, <1>3, ConcatProperties DEF Pending
<1>5. cpc \notin {"popped", "send"} => held = <<>>
  BY DEF held
<1> QED
  BY <1>1, <1>3, <1>4, <1>5

(* Jobs are numbered as the monitor reports them: a packet that is on its  *)
(* way, delivered or lost has a smaller number than the one being pushed.  *)
Bound == IF pc[JobCheck] \in {"push", "wait"} THEN arg[JobCheck] ELSE nextJob
Known == Range(wire) \cup Range(queue) \cup Range(delivered) \cup lost \cup {arg[Client]}

NumberInv ==
  /\ pc[JobCheck] \in {"push", "wait"} => arg[JobCheck] < nextJob
  /\ \A n \in Known : n < Bound

\* A step that makes no job known and leaves the job worker's number alone.
LEMMA KnownShrinks ==
  ASSUME NumberInv, Known' \subseteq Known, UNCHANGED <<arg[JobCheck], nextJob>>,
         pc'[JobCheck] \in {"push", "wait"} <=> pc[JobCheck] \in {"push", "wait"}
  PROVE  NumberInv'
<1>1. Bound' = Bound
  BY DEF Bound
<1> QED
  BY <1>1 DEF NumberInv

\* What is pending is known.
LEMMA KnownPending ==
  ASSUME TypeOK
  PROVE  Range(Pending) \subseteq Known
<1>1. held = <<>> \/ held = <<arg[Client]>>
  BY DEF held
<1>2. Range(held) \subseteq {arg[Client]}
  <2>1. Range(<<>>) = {} /\ Range(<<arg[Client]>>) = {arg[Client]}
    BY DEF Range
  <2> QED
    BY <1>1, <2>1
<1>3. Range(wire \o held) = Range(wire) \cup Range(held)
  BY HeldType, ThreadStates, RangeConcatenation
<1>4. Range(Pending) = Range(wire \o held) \cup Range(queue)
  <2>1. wire \o held \in Seq(Jobs) /\ queue \in Seq(Jobs)
    BY HeldType, ThreadStates
  <2>2. Range((wire \o held) \o queue) = Range(wire \o held) \cup Range(queue)
    BY <2>1, RangeConcatenation
  <2> QED
    BY <2>2 DEF Pending
<1> QED
  BY <1>2, <1>3, <1>4 DEF Known

-----------------------------------------------------------------------------
(* What each kind of step does to the channel and to NumberInv.            *)

\* A step that moves no report.
LEMMA QuietStep ==
  ASSUME TypeOK, NumberInv, UNCHANGED <<wire, queue, delivered, lost, arg[Client], arg[JobCheck], nextJob>>,
         held' = held,
         pc'[JobCheck] \in {"push", "wait"} <=> pc[JobCheck] \in {"push", "wait"}
  PROVE  UNCHANGED Report!vars /\ NumberInv'
<1>1. Pending' = Pending
  BY DEF Pending
<1>2. Known' = Known
  BY DEF Known
<1> QED
  BY <1>1, <1>2, StutterStep, KnownShrinks

\* A job comes in: not yet the report's.
LEMMA ReceiveStep ==
  ASSUME TypeOK, NumberInv, JobReceive
  PROVE  UNCHANGED Report!vars /\ NumberInv'
<1> USE ThreadStates, TwoThreads
<1>1. /\ pc[JobCheck] = "idle" /\ pc'[JobCheck] = "push" /\ arg'[JobCheck] = nextJob
      /\ arg'[Client] = arg[Client] /\ UNCHANGED <<wire, queue, delivered, lost, cpc>>
      /\ nextJob' = nextJob + 1
  BY DEF JobReceive, Q!CallPush, Q!Goto, clientvars, netvars
<1>2. held' = held /\ Known' = Known
  BY <1>1 DEF held, Known
<1>3. Pending' = Pending
  BY <1>1, <1>2 DEF Pending
<1>4. Bound' = Bound /\ arg'[JobCheck] < nextJob'
  BY <1>1 DEF Bound
<1>5. NumberInv'
  BY <1>2, <1>4 DEF NumberInv
<1> QED
  BY <1>1, <1>3, <1>5, StutterStep

\* It is pushed, and accepted, or its thread waits.
LEMMA PushStep ==
  ASSUME TypeOK, NumberInv, JobPush
  PROVE  [Report!Next]_(Report!vars) /\ NumberInv'
<1> USE ThreadStates, TwoThreads
<1>1. UNCHANGED <<wire, delivered, lost, cpc, nextJob>>
  BY DEF JobPush, jobvars, clientvars, netvars
<1>2. CASE /\ pc[JobCheck] = "push"
           /\ queue' = Append(queue, arg[JobCheck])
           /\ pc' = [pc EXCEPT ![JobCheck] = "notify"] /\ arg' = [arg EXCEPT ![JobCheck] = NoJob]
  <2> DEFINE x == arg[JobCheck]
  <2>1. x \in Jobs /\ x \in Nat /\ nextJob \in Nat /\ arg'[Client] = arg[Client] /\ pc'[JobCheck] = "notify"
    BY <1>2
  <2>2. Bound = x /\ Bound' = nextJob /\ x < nextJob
    BY <1>1, <1>2, <2>1 DEF Bound, NumberInv
  <2>3. x \notin Known
    BY <2>1, <2>2 DEF NumberInv
  <2>4. held' = held
    BY <1>1, <2>1 DEF held
  <2>5. Pending' = Append(Pending, x)
    <3>1. queue' = queue \o <<x>> /\ <<x>> \in Seq(Jobs)
      BY <1>2, <2>1, AppendIsConcat
    <3>2. ((wire \o held) \o queue) \o <<x>> = (wire \o held) \o (queue \o <<x>>)
      <4>1. wire \o held \in Seq(Jobs) /\ queue \in Seq(Jobs) /\ <<x>> \in Seq(Jobs)
        BY <3>1, HeldType
      <4> HIDE ThreadStates, TwoThreads DEF x
      <4> QED
        BY <4>1, Regroup
    <3>3. Append(Pending, x) = Pending \o <<x>>
      BY <2>1, HeldType, AppendIsConcat
    <3> QED
      BY <1>1, <2>4, <3>1, <3>2, <3>3 DEF Pending
  <2>6. Report!Next
    <3>1. x \notin Range(Pending) \cup Range(delivered) \cup lost
      BY <2>3, KnownPending DEF Known
    <3> QED
      BY <1>1, <2>1, <2>5, <3>1, AcceptStep
  <2>7. NumberInv'
    <3>1. Range(queue') = Range(queue) \cup {x}
      BY <1>2, <2>1, RangeSteps
    <3>2. Known' = Known \cup {x}
      BY <1>1, <2>1, <3>1 DEF Known
    <3>3. \A n \in Known : n < nextJob
      <4>1. Known \subseteq Nat
        <5>1. Range(wire) \subseteq Jobs /\ Range(queue) \subseteq Jobs /\ Range(delivered) \subseteq Jobs
          BY RangeOfSeq
        <5>2. arg[Client] \in Nat
          BY DEF NoJob
        <5> QED
          BY <5>1, <5>2 DEF Known
      <4>2. \A n \in Known : n < x
        BY <2>2 DEF NumberInv
      <4> HIDE DEF x
      <4> QED
        BY <2>1, <2>2, <4>1, <4>2
    <3> QED
      BY <2>1, <2>2, <3>2, <3>3 DEF NumberInv
  <2> QED
    BY <2>6, <2>7
<1>3. CASE /\ UNCHANGED <<queue, arg>>
           /\ pc'[JobCheck] \in {"push", "wait"} <=> pc[JobCheck] \in {"push", "wait"}
  <2>1. held' = held
    BY <1>1, <1>3 DEF held
  <2> QED
    BY <1>1, <1>3, <2>1, QuietStep
<1>4. CASE pc[JobCheck] = "notify" /\ pc' = [pc EXCEPT ![JobCheck] = "idle"] /\ UNCHANGED <<queue, arg>>
  <2>1. held' = held
    BY <1>1, <1>4 DEF held
  <2> QED
    BY <1>1, <1>4, <2>1, QuietStep
<1>5. \/ /\ pc[JobCheck] = "push"
         /\ queue' = Append(queue, arg[JobCheck])
         /\ pc' = [pc EXCEPT ![JobCheck] = "notify"] /\ arg' = [arg EXCEPT ![JobCheck] = NoJob]
      \/ /\ UNCHANGED <<queue, arg>>
         /\ pc'[JobCheck] \in {"push", "wait"} <=> pc[JobCheck] \in {"push", "wait"}
      \/ pc[JobCheck] = "notify" /\ pc' = [pc EXCEPT ![JobCheck] = "idle"] /\ UNCHANGED <<queue, arg>>
  BY PushSteps
<1> QED
  BY <1>2, <1>3, <1>4, <1>5

\* It is popped: it keeps its place.
LEMMA PopStep ==
  ASSUME TypeOK, NumberInv, PopJob
  PROVE  UNCHANGED Report!vars /\ NumberInv'
<1> USE ThreadStates, TwoThreads
<1>1. /\ UNCHANGED <<wire, delivered, lost, nextJob>> /\ cpc = "job" /\ cpc' = "popped"
      /\ pc'[JobCheck] = pc[JobCheck] /\ arg'[JobCheck] = arg[JobCheck]
  BY PopSteps DEF PopJob, jobvars, netvars
<1>2. held = <<>>
  BY <1>1 DEF held
<1>3. CASE queue # <<>>
  <2> DEFINE x == Head(queue)
  <2>1. queue' = Tail(queue) /\ arg'[Client] = x /\ x \in Jobs /\ Tail(queue) \in Seq(Jobs)
    BY <1>3, PopSteps, HeadTailProperties
  <2>2. held' = <<x>>
    BY <1>1, <2>1 DEF held
  <2>3. queue = <<x>> \o Tail(queue)
    BY <1>3
  <2>4. Pending' = Pending
    <3>1. (wire \o <<x>>) \o Tail(queue) = wire \o (<<x>> \o Tail(queue))
      <4>1. wire \in Seq(Jobs) /\ <<x>> \in Seq(Jobs) /\ Tail(queue) \in Seq(Jobs)
        BY <2>1
      <4> HIDE ThreadStates, TwoThreads DEF x
      <4> QED
        BY <4>1, Regroup
    <3>2. wire \o held = wire
      BY <1>2, ConcatEmptySeq
    <3> QED
      BY <1>1, <2>1, <2>2, <2>3, <3>1, <3>2 DEF Pending
  <2>5. Known' \subseteq Known
    <3>1. Range(queue') \subseteq Range(queue) /\ x \in Range(queue)
      BY <1>3, <2>1, RangeSteps
    <3> QED
      BY <1>1, <2>1, <3>1 DEF Known
  <2> QED
    BY <1>1, <2>4, <2>5, StutterStep, KnownShrinks
<1>4. CASE queue = <<>>
  <2>1. queue' = queue /\ arg'[Client] = NoJob
    BY <1>4, PopSteps
  <2>2. held' = <<>>
    BY <2>1 DEF held
  <2>3. Pending' = Pending
    BY <1>1, <1>2, <2>1, <2>2 DEF Pending
  <2>4. Bound \in Nat \ {0}
    <3>1. nextJob \in Nat \ {0}
      BY BoundsAssumption DEF TypeOK, BoundsAssumption
    <3>2. pc[JobCheck] \in {"push", "wait"} => arg[JobCheck] \in Nat \ {0}
      OBVIOUS
    <3> QED
      BY <3>1, <3>2 DEF Bound
  <2>5. NumberInv'
    <3>1. Bound' = Bound
      BY <1>1 DEF Bound
    <3>2. \A n \in Known' : n \in Known \/ n = NoJob
      BY <1>1, <2>1 DEF Known
    <3>3. NoJob < Bound
      BY <2>4 DEF NoJob
    <3> QED
      BY <1>1, <3>1, <3>2, <3>3 DEF NumberInv
  <2> QED
    BY <1>1, <2>3, <2>5, StutterStep
<1> QED
  BY <1>3, <1>4

\* pop returns: it keeps its place.
LEMMA ReturnStep ==
  ASSUME TypeOK, NumberInv, PopReturns
  PROVE  UNCHANGED Report!vars /\ NumberInv'
<1> USE ThreadStates, TwoThreads
<1>1. /\ UNCHANGED <<wire, delivered, lost, nextJob, queue, arg>> /\ cpc = "popped"
      /\ cpc' = IF arg[Client] = NoJob THEN "top" ELSE "send"
  BY NotifySteps DEF PopReturns, jobvars, netvars
<1>2. held' = held
  BY <1>1 DEF held
<1>3. pc'[JobCheck] \in {"push", "wait"} <=> pc[JobCheck] \in {"push", "wait"}
  BY NotifySteps
<1> QED
  BY <1>1, <1>2, <1>3, QuietStep

\* It is handed to send.
LEMMA SendStep ==
  ASSUME TypeOK, NumberInv, HoldInv, SendJob
  PROVE  [Report!Next]_(Report!vars) /\ NumberInv'
<1> DEFINE x == arg[Client]
<1>1. /\ x \in Jobs /\ held = <<x>> /\ held' = <<>>
      /\ UNCHANGED <<queue, arg, pc, nextJob, delivered>>
      /\ \/ wire' = Append(wire, x) /\ lost' = lost
         \/ lost' = lost \cup {x} /\ wire' = wire
  <2>1. x \in Jobs /\ x # NoJob
    BY TwoThreads DEF SendJob, HoldInv
  <2> QED
    BY <2>1 DEF SendJob, held, qvars, jobvars
<1>2. wire \in Seq(Jobs) /\ queue \in Seq(Jobs) /\ <<x>> \in Seq(Jobs) /\ <<x>> # <<>>
  BY <1>1, ThreadStates
<1> HIDE DEF x
<1>3. CASE wire' = Append(wire, x) /\ lost' = lost
  <2>1. Append(wire, x) = wire \o <<x>> /\ Append(wire, x) \in Seq(Jobs)
    BY <1>1, <1>2, AppendIsConcat, AppendProperties
  <2>2. wire' \o <<>> = wire'
    BY <1>3, <2>1, ConcatEmptySeq
  <2>3. Pending' = Pending
    BY <1>1, <1>3, <2>1, <2>2 DEF Pending
  <2>4. Known' \subseteq Known
    <3>1. Range(wire') = Range(wire) \cup {x}
      BY <1>1, <1>2, <1>3, RangeSteps
    <3>2. x \in Known
      BY DEF Known, x
    <3> QED
      BY <1>1, <1>3, <3>1, <3>2 DEF Known
  <2> QED
    BY <1>1, <1>3, <2>3, <2>4, StutterStep, KnownShrinks
<1>4. CASE lost' = lost \cup {x} /\ wire' = wire
  <2>1. Pending = (wire \o <<x>>) \o queue /\ Pending \in Seq(Jobs)
    BY <1>1, HeldType DEF Pending
  <2>2. wire' \o <<>> = wire
    BY <1>2, <1>4, ConcatEmptySeq
  <2>3. Pending' = wire \o queue
    BY <1>1, <1>4, <2>2 DEF Pending
  <2>4. Range(<<x>>) = {x}
    BY DEF Range
  <2>5. Report!Next
    BY <1>1, <1>2, <1>4, <2>1, <2>3, <2>4, LoseStep
  <2>6. Known' \subseteq Known
    <3>1. x \in Known
      BY DEF Known, x
    <3> QED
      BY <1>1, <1>4, <3>1 DEF Known
  <2> QED
    BY <1>1, <2>5, <2>6, KnownShrinks
<1> QED
  BY <1>1, <1>3, <1>4

\* Level2 reads: it is delivered.
LEMMA ReadStep ==
  ASSUME TypeOK, NumberInv, Level2Reads
  PROVE  Report!Next /\ NumberInv'
<1> DEFINE x == Head(wire)
<1>1. /\ wire # <<>> /\ wire' = Tail(wire) /\ delivered' = Append(delivered, x)
      /\ UNCHANGED <<queue, arg, pc, cpc, nextJob, lost>>
  BY DEF Level2Reads, qvars, jobvars, clientvars
<1>2. /\ x \in Jobs /\ Tail(wire) \in Seq(Jobs) /\ wire \in Seq(Jobs) /\ delivered \in Seq(Jobs)
      /\ <<x>> \in Seq(Jobs) /\ wire = <<x>> \o Tail(wire)
  BY <1>1, ThreadStates, HeadTailProperties
<1>3. held' = held /\ held \in Seq(Jobs) /\ queue \in Seq(Jobs)
  BY <1>1, HeldType, ThreadStates DEF held
<1> HIDE DEF x
<1>4. Pending = <<x>> \o Pending'
  <2>1. (<<x>> \o Tail(wire)) \o held = <<x>> \o (Tail(wire) \o held)
    BY <1>2, <1>3, ConcatAssociative
  <2>2. Tail(wire) \o held \in Seq(Jobs)
    BY <1>2, <1>3, ConcatProperties
  <2>3. (<<x>> \o (Tail(wire) \o held)) \o queue = <<x>> \o ((Tail(wire) \o held) \o queue)
    BY <1>2, <1>3, <2>2, ConcatAssociative
  <2>4. Pending' = (Tail(wire) \o held) \o queue
    BY <1>1, <1>3 DEF Pending
  <2>5. Pending = ((<<x>> \o Tail(wire)) \o held) \o queue
    BY <1>2 DEF Pending
  <2> QED
    BY <2>1, <2>3, <2>4, <2>5
<1>5. Pending' \in Seq(Jobs)
  <2>1. Tail(wire) \o held \in Seq(Jobs)
    BY <1>2, <1>3, ConcatProperties
  <2>2. (Tail(wire) \o held) \o queue \in Seq(Jobs)
    BY <1>3, <2>1, ConcatProperties
  <2> QED
    BY <1>1, <1>3, <2>2 DEF Pending
<1>6. Pending # <<>> /\ Head(Pending) = x /\ Tail(Pending) = Pending'
  <2>1. ASSUME NEW t \in Seq(Jobs) PROVE <<x>> \o t # <<>> /\ Head(<<x>> \o t) = x /\ Tail(<<x>> \o t) = t
    BY <1>2
  <2> QED
    BY <1>4, <1>5, <2>1
<1>7. Report!Next
  BY <1>1, <1>6, DeliverStep
<1>8. Known' \subseteq Known
  <2>1. /\ Range(delivered') = Range(delivered) \cup {x}
        /\ x \in Range(wire) /\ Range(wire') \subseteq Range(wire)
    BY <1>1, <1>2, RangeSteps DEF x
  <2> QED
    BY <1>1, <2>1 DEF Known
<1> QED
  BY <1>1, <1>7, <1>8, KnownShrinks

\* The connection breaks: what is on the wire is lost.
LEMMA BreakStep ==
  ASSUME TypeOK, NumberInv, ConnectionBreaks
  PROVE  [Report!Next]_(Report!vars) /\ NumberInv'
<1>1. /\ wire' = <<>> /\ lost' = lost \cup Range(wire) /\ UNCHANGED <<queue, arg, pc, cpc, nextJob, delivered>>
  BY DEF ConnectionBreaks, qvars, jobvars, clientvars
<1>2. held' = held /\ held \in Seq(Jobs) /\ queue \in Seq(Jobs) /\ wire \in Seq(Jobs)
  BY <1>1, HeldType, ThreadStates DEF held
<1>3. Pending' = held \o queue
  <2>1. <<>> \o held = held
    BY <1>2, ConcatEmptySeq
  <2> QED
    BY <1>1, <1>2, <2>1 DEF Pending
<1>4. [Report!Next]_(Report!vars)
  <2>1. CASE wire = <<>>
    <3>1. Pending' = Pending
      BY <1>1, <1>2, <2>1 DEF Pending
    <3>2. lost' = lost
      <4>1. Range(<<>>) = {}
        BY DEF Range
      <4> QED
        BY <1>1, <2>1, <4>1
    <3> QED
      BY <1>1, <3>1, <3>2, StutterStep
  <2>2. CASE wire # <<>>
    <3>1. <<>> \o wire = wire /\ <<>> \in Seq(Jobs)
      BY <1>2, ConcatEmptySeq, EmptySeq
    <3>2. held \o queue \in Seq(Jobs)
      BY <1>2, ConcatProperties
    <3>3. (wire \o held) \o queue = wire \o (held \o queue)
      BY <1>2, ConcatAssociative
    <3>4. Pending = (<<>> \o wire) \o (held \o queue)
      BY <3>1, <3>3 DEF Pending
    <3>5. Pending' = <<>> \o (held \o queue)
      BY <1>3, <3>2, ConcatEmptySeq
    <3>6. Pending \in Seq(Jobs)
      BY HeldType
    <3> HIDE DEF Pending
    <3>7. Report!Next
      BY <1>1, <1>2, <2>2, <3>1, <3>2, <3>4, <3>5, <3>6, LoseStep
    <3> QED
      BY <3>7
  <2> QED
    BY <2>1, <2>2
<1>5. Known' \subseteq Known
  <2>1. Range(<<>>) = {}
    BY DEF Range
  <2> QED
    BY <1>1, <2>1 DEF Known
<1> QED
  BY <1>1, <1>4, <1>5, KnownShrinks

\* Nothing else touches a job.
LEMMA OtherStep ==
  ASSUME TypeOK, NumberInv,
         \/ JobCheckTest \/ JobReceiveNothing \/ CreateSocket \/ ConnectSucceeds \/ ConnectFails
         \/ AliveStep \/ ClientExit \/ OnClose \/ CloseStep \/ ResetArrives \/ Level2Restarts
         \/ Finished \/ UNCHANGED vars
  PROVE  UNCHANGED Report!vars /\ NumberInv'
<1>1. UNCHANGED <<queue, pc, arg>>
  BY DEF JobCheckTest, JobReceiveNothing, CreateSocket, ConnectSucceeds, ConnectFails, AliveStep,
         ClientExit, OnClose, CloseStep, Join, OtherWorkerReturns, ResetArrives, Level2Restarts,
         Finished, vars, qvars
<1>2. UNCHANGED <<wire, delivered, lost, nextJob>>
  BY DEF JobCheckTest, JobReceiveNothing, CreateSocket, ConnectSucceeds, ConnectFails, AliveStep,
         ClientExit, OnClose, CloseStep, Join, OtherWorkerReturns, ResetArrives, Level2Restarts,
         Finished, vars, jobvars, netvars
<1>3. cpc' = cpc \/ (cpc = "top" /\ cpc' \in {"job", "done"})
  BY DEF JobCheckTest, JobReceiveNothing, CreateSocket, ConnectSucceeds, ConnectFails, AliveStep,
         ClientExit, OnClose, CloseStep, Join, OtherWorkerReturns, ResetArrives, Level2Restarts,
         Finished, vars, clientvars
<1>4. held' = held
  BY <1>1, <1>3 DEF held
<1> QED
  BY <1>1, <1>2, <1>4, QuietStep

\* One step is a step of the report.
LEMMA NextReport ==
  ASSUME ClientInv, NumberInv, [Next]_vars
  PROVE  [Report!Next]_(Report!vars) /\ NumberInv'
BY ReceiveStep, PushStep, PopStep, ReturnStep, SendStep, ReadStep, BreakStep, OtherStep
DEF ClientInv, Next, JobCheckStep, ClientStep, NetworkStep

\* The first state is the report's.
LEMMA InitReport == Init => NumberInv /\ Report!Init
<1> SUFFICES ASSUME Init PROVE NumberInv /\ Report!Init
  OBVIOUS
<1>1. /\ pc[JobCheck] = "idle" /\ arg[Client] = NoJob /\ queue = <<>>
  BY TwoThreads DEF Init, Q!Init
<1>2. held = <<>>
  BY <1>1 DEF held
<1>3. <<>> \o <<>> = <<>> /\ Range(<<>>) = {}
  BY DEF Range
<1>4. Known = {0} /\ Bound = 1
  BY <1>1, <1>3 DEF Init, Known, Bound, NoJob
<1>5. NumberInv
  BY <1>1, <1>4 DEF NumberInv
<1>6. wire \o held \o queue = <<>>
  BY <1>1, <1>2, <1>3 DEF Init
<1>7. Report!Init
  BY <1>6 DEF Init, Report!Init
<1> QED
  BY <1>5, <1>7

\* For every number of jobs and faults, capacity and alive interval, what Level2
\* reads is what the monitor reported, in order, each at most once, and nothing
\* of what was lost.
THEOREM ReportingIsAChannel == Spec => ImplementsReport
<1>1. Init => NumberInv /\ Report!Init
  BY InitReport
<1>2. ClientInv /\ NumberInv /\ [Next]_vars => NumberInv' /\ [Report!Next]_(Report!vars)
  BY NextReport
<1>3. Spec => []ClientInv
  BY ClientInvariant, PTL
<1> QED
  BY <1>1, <1>2, <1>3, PTL DEF Spec, ImplementsReport, Report!Spec
=============================================================================
