---------------------------- MODULE Level2Client ----------------------------
(***************************************************************************)
(* The reporting half of dk_level2_interface.  _job_check_work receives    *)
(* job-completion messages from the monitor and pushes a packet for each   *)
(* on _sdd_job_complete_queue; _do_client_work keeps a TCP connection to   *)
(* Level2, sends an alive packet every AliveTicks iterations and reports   *)
(* one queued job per iteration; on_close stops and joins the workers.     *)
(*                                                                         *)
(* A job is its number in the order the monitor reports them.  The queue   *)
(* is ConcurrentQueue.  Nothing pushes on _sdd_alarm_queue, so the client's*)
(* alarm step never finds a packet and is left out.                        *)
(***************************************************************************)
EXTENDS Naturals, Sequences, SequencesExt

CONSTANTS MaxJobs,     \* bound: jobs the monitor reports
          Capacity,    \* _buffer_size_ of the queue
          AliveTicks,  \* _alive_interval * 10, in iterations of the client loop
          MaxFaults    \* bound: times Level2 or the network fails

ASSUME BoundsAssumption == /\ MaxJobs \in Nat /\ MaxFaults \in Nat
                           /\ Capacity \in Nat \ {0} /\ AliveTicks \in Nat \ {0}

Jobs == 1..MaxJobs
NoJob == 0
JobCheck == "job_check"
Client == "client"

VARIABLES queue, pc, arg, pushed, popped,  \* _sdd_job_complete_queue
          stop,          \* _worker_stop
          jpc,           \* _job_check_work: at its loop test, in recv, or returned
          nextJob,       \* the next job the monitor reports
          cpc,           \* where _do_client_work is in its loop body
          socket,        \* _tcp_socket is not null
          is_connected,
          alive_time,    \* the counter of line 125
          done,          \* worker threads that have returned
          joined,        \* how many joins on_close has got past
          link,          \* the TCP connection, as the kernel sees it
          wire,          \* reports accepted by a live connection and not yet read by Level2
          listening,     \* Level2 accepts connections
          delivered,     \* history: reports read by Level2
          lost,          \* history: reports that can no longer arrive
          faults         \* counts against MaxFaults

Q == INSTANCE ConcurrentQueue
       WITH Pushers <- {JobCheck}, Poppers <- {}, AsyncPoppers <- {Client},
            Items <- Jobs, Nothing <- NoJob

qvars == <<queue, pc, arg, pushed, popped>>
jobvars == <<jpc, nextJob>>
clientvars == <<cpc, socket, is_connected, alive_time>>
closevars == <<stop, done, joined>>
netvars == <<link, wire, listening, delivered, lost, faults>>
vars == <<qvars, jobvars, clientvars, closevars, netvars>>

Init == /\ Q!Init
        /\ jpc = "check" /\ nextJob = 1
        /\ cpc = "top" /\ socket = FALSE /\ is_connected = FALSE /\ alive_time = 0
        /\ stop = FALSE /\ done = {} /\ joined = 0
        /\ link = "none" /\ wire = <<>> /\ listening \in BOOLEAN
        /\ delivered = <<>> /\ lost = {} /\ faults = 0
-----------------------------------------------------------------------------
(* _job_check_work                                                         *)

\* mutant of JobCheckTest: the loop does not look at _worker_stop
JobCheckTestForever ==
  /\ jpc = "check" /\ pc[JobCheck] = "idle"
  /\ jpc' = "recv"
  /\ UNCHANGED <<qvars, nextJob, clientvars, closevars, netvars>>

JobCheckTest ==
  /\ jpc = "check" /\ pc[JobCheck] = "idle"
  /\ jpc' = IF stop THEN "done" ELSE "recv"
  /\ done' = IF stop THEN done \cup {JobCheck} ELSE done
  /\ UNCHANGED <<qvars, nextJob, clientvars, stop, joined, netvars>>

\* a job-completion message arrives: its packet goes to push
JobReceive ==
  /\ jpc = "recv" /\ nextJob <= MaxJobs
  /\ Q!CallPush(JobCheck, nextJob)
  /\ jpc' = "check"
  /\ nextJob' = nextJob + 1
  /\ UNCHANGED <<clientvars, closevars, netvars>>

\* recv returns without a message, or throws, or the message does not parse and is only logged
JobReceiveNothing ==
  /\ jpc = "recv"
  /\ jpc' = "check"
  /\ UNCHANGED <<qvars, nextJob, clientvars, closevars, netvars>>

\* inside push, which ignores _worker_stop
JobPush ==
  /\ Q!Proceed(JobCheck) \/ Q!SpuriousWakeup(JobCheck)
  /\ UNCHANGED <<jobvars, clientvars, closevars, netvars>>
-----------------------------------------------------------------------------
(* _do_client_work                                                         *)

CreateSocket ==
  /\ cpc = "top" /\ ~stop /\ ~socket
  /\ socket' = TRUE
  /\ UNCHANGED <<qvars, jobvars, cpc, is_connected, alive_time, closevars, netvars>>

\* mutant of DropSocket: the flag outlives the connection
DropSocketKeepFlag == socket' = FALSE /\ UNCHANGED is_connected

\* close, delete, null
DropSocket == socket' = FALSE /\ is_connected' = FALSE

\* mutant of ConnectSucceeds: the callback forgets is_connected
ConnectSucceedsUnseen ==
  /\ cpc = "top" /\ ~stop /\ socket /\ ~is_connected
  /\ listening
  /\ link' = "up"
  /\ UNCHANGED <<qvars, jobvars, clientvars, closevars, wire, listening, delivered, lost, faults>>

\* line 148 resets the alive_time declared at line 145, so the one of line 125 is unchanged
ConnectSucceeds ==
  /\ cpc = "top" /\ ~stop /\ socket /\ ~is_connected
  /\ listening
  /\ is_connected' = TRUE
  /\ link' = "up"
  /\ UNCHANGED <<qvars, jobvars, cpc, socket, alive_time, closevars,
                 wire, listening, delivered, lost, faults>>

ConnectFails ==
  /\ cpc = "top" /\ ~stop /\ socket /\ ~is_connected
  /\ ~listening
  /\ DropSocket
  /\ UNCHANGED <<qvars, jobvars, cpc, alive_time, closevars, netvars>>

\* send() on a connection the other side has left succeeds until its reset comes back
Accepted == link \in {"up", "broken", "probed"}
AfterSend == IF link = "broken" THEN "probed" ELSE IF link = "reset" THEN "none" ELSE link

\* mutant of AliveStep: the alive packet is never due
AliveStepNeverDue ==
  /\ cpc = "top" /\ ~stop /\ is_connected
  /\ cpc' = "job"
  /\ UNCHANGED <<qvars, jobvars, socket, is_connected, alive_time, closevars, netvars>>

AliveStep ==
  /\ cpc = "top" /\ ~stop /\ is_connected
  /\ \/ /\ alive_time < AliveTicks
        /\ alive_time' = alive_time + 1 /\ cpc' = "job"
        /\ UNCHANGED <<socket, is_connected, link>>
     \/ /\ alive_time >= AliveTicks
        /\ alive_time' = 1              \* reset, then incremented
        /\ link' = AfterSend
        /\ \/ Accepted /\ cpc' = "job" /\ UNCHANGED <<socket, is_connected>>
           \/ ~Accepted /\ cpc' = "top" /\ DropSocket
  /\ UNCHANGED <<qvars, jobvars, closevars, wire, listening, delivered, lost, faults>>

PopJob ==
  /\ cpc = "job"
  /\ Q!PopAsync(Client)
  /\ cpc' = "popped"
  /\ UNCHANGED <<jobvars, socket, is_connected, alive_time, closevars, netvars>>

PopReturns ==
  /\ cpc = "popped"
  /\ Q!NotifyOne(Client)
  /\ cpc' = IF arg[Client] = NoJob THEN "top" ELSE "send"
  /\ UNCHANGED <<jobvars, socket, is_connected, alive_time, closevars, netvars>>

\* mutants of SendJob: the packet is sent twice, or popped and not sent
SendJobTwice ==
  /\ cpc = "send"
  /\ wire' = wire \o <<arg[Client], arg[Client]>>
  /\ cpc' = "top"
  /\ UNCHANGED <<qvars, jobvars, socket, is_connected, alive_time, closevars,
                 link, listening, delivered, lost, faults>>

SendJobForgets ==
  /\ cpc = "send"
  /\ cpc' = "top"
  /\ lost' = lost \cup {arg[Client]}
  /\ UNCHANGED <<qvars, jobvars, socket, is_connected, alive_time, closevars,
                 link, wire, listening, delivered, faults>>

SendJob ==
  /\ cpc = "send"
  /\ cpc' = "top"
  /\ link' = AfterSend
  /\ \/ link = "up" /\ wire' = Append(wire, arg[Client]) /\ UNCHANGED lost
     \/ link # "up" /\ lost' = lost \cup {arg[Client]} /\ UNCHANGED wire
  /\ IF Accepted THEN UNCHANGED <<socket, is_connected>> ELSE DropSocket
  /\ UNCHANGED <<qvars, jobvars, alive_time, closevars, listening, delivered, faults>>

\* the loop test fails: clear socket, return
ClientExit ==
  /\ cpc = "top" /\ stop
  /\ cpc' = "done"
  /\ socket' = FALSE
  /\ link' = IF link = "up" THEN "closing" ELSE "none"
  /\ done' = done \cup {Client}
  /\ UNCHANGED <<qvars, jobvars, is_connected, alive_time, stop, joined,
                 wire, listening, delivered, lost, faults>>
-----------------------------------------------------------------------------
(* on_close, and the two workers that only have to see the stop flag       *)

JoinOrder == <<Client, "server", "line_check", JobCheck>>

OnClose ==
  /\ ~stop
  /\ stop' = TRUE
  /\ UNCHANGED <<qvars, jobvars, clientvars, done, joined, netvars>>

OtherWorkerReturns(w) ==
  /\ stop /\ w \notin done
  /\ done' = done \cup {w}
  /\ UNCHANGED <<qvars, jobvars, clientvars, stop, joined, netvars>>

Join ==
  /\ stop /\ joined < Len(JoinOrder)
  /\ JoinOrder[joined + 1] \in done
  /\ joined' = joined + 1
  /\ UNCHANGED <<qvars, jobvars, clientvars, stop, done, netvars>>

closed == joined = Len(JoinOrder)
-----------------------------------------------------------------------------
(* Level2 and the network                                                  *)

Level2Reads ==
  /\ wire # <<>>
  /\ delivered' = Append(delivered, Head(wire))
  /\ wire' = Tail(wire)
  /\ UNCHANGED <<qvars, jobvars, clientvars, closevars, link, listening, lost, faults>>

\* the connection dies with what Level2 has not read; Level2 may be gone as well
ConnectionBreaks ==
  /\ link \in {"up", "closing"} \/ listening
  /\ faults < MaxFaults
  /\ faults' = faults + 1
  /\ listening' \in BOOLEAN
  /\ link' = CASE link = "up" -> "broken" [] link = "closing" -> "none" [] OTHER -> link
  /\ lost' = lost \cup Range(wire)
  /\ wire' = <<>>
  /\ UNCHANGED <<qvars, jobvars, clientvars, closevars, delivered>>

ResetArrives ==
  /\ link = "probed"
  /\ link' = "reset"
  /\ UNCHANGED <<qvars, jobvars, clientvars, closevars, wire, listening, delivered, lost, faults>>

Level2Restarts ==
  /\ ~listening
  /\ listening' = TRUE
  /\ UNCHANGED <<qvars, jobvars, clientvars, closevars, link, wire, delivered, lost, faults>>
-----------------------------------------------------------------------------
JobCheckStep == JobCheckTest \/ JobReceive \/ JobReceiveNothing \/ JobPush

ClientStep == \/ CreateSocket \/ ConnectSucceeds \/ ConnectFails
              \/ AliveStep \/ PopJob \/ PopReturns \/ SendJob \/ ClientExit

CloseStep == Join \/ \E w \in {"server", "line_check"} : OtherWorkerReturns(w)

NetworkStep == Level2Reads \/ ConnectionBreaks \/ ResetArrives \/ Level2Restarts

Finished == closed /\ wire = <<>> /\ UNCHANGED vars

Next == JobCheckStep \/ ClientStep \/ OnClose \/ CloseStep \/ NetworkStep \/ Finished

Spec == Init /\ [][Next]_vars

(* Every worker thread runs and Level2 comes back and reads what it was    *)
(* sent.  The recv of the two subscribing workers has no time limit; it is *)
(* assumed to return, as it does when the engine ends its sockets, or they *)
(* would not see the stop flag.  Nothing makes the operator close the      *)
(* component, the monitor report a job, a wait return spuriously or a      *)
(* connection break.                                                       *)
FairSpec ==
  /\ Spec
  /\ WF_vars(ClientStep) /\ WF_vars(CloseStep)
  /\ WF_vars(JobCheckTest \/ JobReceiveNothing)
  /\ WF_vars(Q!Proceed(JobCheck) /\ UNCHANGED <<jobvars, clientvars, closevars, netvars>>)
  /\ WF_vars(Level2Reads) /\ WF_vars(ResetArrives) /\ WF_vars(Level2Restarts)
-----------------------------------------------------------------------------
(* Properties.                                                             *)

TypeOK ==
  /\ Q!TypeOK
  /\ jpc \in {"check", "recv", "done"} /\ nextJob \in 1..MaxJobs + 1
  /\ cpc \in {"top", "job", "popped", "send", "done"}
  /\ socket \in BOOLEAN /\ is_connected \in BOOLEAN
  /\ alive_time \in 0..AliveTicks
  /\ stop \in BOOLEAN /\ joined \in 0..Len(JoinOrder)
  /\ done \subseteq {Client, JobCheck, "server", "line_check"}
  /\ link \in {"none", "up", "broken", "probed", "reset", "closing"}
  /\ wire \in Seq(Jobs) /\ delivered \in Seq(Jobs) /\ lost \subseteq Jobs
  /\ listening \in BOOLEAN /\ faults \in 0..MaxFaults

(* The loop body dereferences _tcp_socket whenever is_connected is set, so *)
(* the two must never come apart: not after a failed alive or job send,    *)
(* not after a failed connect.                                             *)
NoNullDereference ==
  /\ ~stop /\ is_connected => socket
  /\ cpc \in {"job", "popped", "send"} => socket /\ is_connected

(* The packet the client has popped and not yet handed to send().          *)
held == IF cpc \in {"popped", "send"} /\ arg[Client] # NoJob THEN <<arg[Client]>> ELSE <<>>

(* Reports reach Level2 in the order the jobs were queued and at most      *)
(* once, over any number of reconnections; one that is lost stays lost.    *)
Report == INSTANCE LossyChannel WITH Items <- Jobs, pending <- wire \o held \o queue
ImplementsReport == Report!Spec

(* Popping a packet before sending it loses it only if the connection      *)
(* broke: not through a stop, a reconnection or a full queue.              *)
NoLossWithoutFault == faults = 0 => lost = {}

(* The producer of the completion queue never sleeps through free space.   *)
NoLostWakeup == Q!NoLostWakeup

(* A dead connection is noticed and given up even when there is no job to  *)
(* report: the alive packets probe it.                                     *)
BrokenLinkNoticed == is_connected /\ link = "broken" ~> ~is_connected \/ stop

(* With Level2 back, every queued report leaves the queue and is           *)
(* delivered, unless the connection broke under it or the component stops. *)
QueuedJobLeaves ==
  \A j \in Jobs : j \in Range(queue) ~> j \in Range(delivered) \cup lost \/ stop

(* on_close returns, unless the job worker sleeps in push on a full queue  *)
(* that no client is left to drain.                                        *)
CloseReturnsUnlessFull ==
  stop ~> closed \/ (pc[JobCheck] = "wait" /\ Len(queue) = Capacity)
-----------------------------------------------------------------------------
(* Two things the source says of itself that do not hold.                  *)

(* dk.level2.interface.cc:148, "alive_time = 0; // reset counter": a new   *)
(* connection starts a new alive interval.                                 *)
ConnectResetsAlive == [][~is_connected /\ is_connected' => alive_time' = 0]_vars

(* dk.level2.interface.cc:421, "thread terminate": on_close stops and      *)
(* joins every worker.                                                     *)
CloseTerminatesThreads == stop ~> closed
=============================================================================
