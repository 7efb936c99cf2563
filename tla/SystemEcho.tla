------------------------------ MODULE SystemEcho ------------------------------
(***************************************************************************)
(* The alive check: SystemEchoRequester, a thread of the monitor, sends a  *)
(* fresh message to system_echo_replier whenever its poll times out, and   *)
(* has the window show the server active when that message comes back.     *)
(* The sockets are REQ and REP, so at most one request is under way, and a *)
(* new one cannot be sent before its reply was read: a timeout meanwhile   *)
(* replaces the message that is waited for and fails to send it.           *)
(*                                                                         *)
(* A message that was not delivered when the connection breaks is sent     *)
(* after the reconnection; what the other side had received is lost, and   *)
(* the requester is not told.                                              *)
(***************************************************************************)
EXTENDS Naturals

CONSTANT MaxFaults   \* bound: connections that break, and deaths of the server

ASSUME FaultsAssumption == MaxFaults \in Nat

VARIABLES
  waiting,      \* the requester: its REQ socket is waiting for a reply
  current,      \* the request under way carries the current _echo_msg
  request,      \* where it is
  label,        \* label_server_status
  interrupted,  \* isInterruptionRequested
  requester,    \* the requester thread: "runs" or "ended"
  replier,      \* what the replier thread is at
  worker_stop,
  answered,     \* history: the replier has sent a reply since the requester's last timeout
  faults

requestervars == <<waiting, current, label, interrupted, requester>>
repliervars == <<replier, worker_stop>>
echovars == <<requestervars, repliervars, request, answered, faults>>

EchoInit ==
  /\ waiting = FALSE /\ current = FALSE /\ request = "none"
  /\ label = "unknown" /\ interrupted = FALSE /\ requester = "runs"
  /\ replier \in {"recv", "down"} /\ worker_stop = FALSE
  /\ answered = FALSE /\ faults = 0
-----------------------------------------------------------------------------
(* SystemEchoRequester.run, and close                                      *)

Polls == requester = "runs" /\ ~interrupted

\* mutant of ShownAtTimeout: nothing is shown until there is an answer
ShownAtAnswer == label
\* what the label shows after a request was sent
ShownAtTimeout == "inactive"

\* the poll times out: a new message is made, and sent if the socket lets it;
\* EFSM is ignored and nothing is shown
Timeout ==
  /\ Polls /\ request # "arrived"
  /\ answered' = FALSE
  /\ IF waiting
     THEN current' = FALSE /\ UNCHANGED <<waiting, request, label>>
     ELSE /\ waiting' = TRUE /\ current' = TRUE
          /\ request' = "sent"
          /\ label' = ShownAtTimeout
  /\ UNCHANGED <<interrupted, requester, repliervars, faults>>

\* mutant of Matches: any reply is taken for an answer
MatchesAny == waiting
\* reply == _echo_msg
Matches == current

ReadReply ==
  /\ Polls /\ request = "arrived"
  /\ waiting' = FALSE /\ current' = FALSE /\ request' = "none"
  /\ label' = IF Matches THEN "active" ELSE "inactive"
  /\ UNCHANGED <<interrupted, requester, repliervars, answered, faults>>

RequesterCloses ==
  /\ ~interrupted /\ interrupted' = TRUE
  /\ UNCHANGED <<waiting, current, label, requester, repliervars, request, answered, faults>>

RequesterReturns ==
  /\ requester = "runs" /\ interrupted
  /\ requester' = "ended"
  /\ UNCHANGED <<waiting, current, label, interrupted, repliervars, request, answered, faults>>
-----------------------------------------------------------------------------
(* _echo_worker_task, and on_close                                         *)

\* mutant of ReplierReceives: the loop goes round without sending
ReceiveOnly ==
  /\ replier = "recv" /\ request = "delivered"
  /\ replier' = "test" /\ request' = "served"
  /\ UNCHANGED <<requestervars, worker_stop, answered, faults>>

ReplierReceives ==
  /\ replier = "recv" /\ request = "delivered"
  /\ replier' = "send" /\ request' = "served"
  /\ UNCHANGED <<requestervars, worker_stop, answered, faults>>

\* a reply whose connection is gone is dropped without an error
ReplierSends ==
  /\ replier = "send"
  /\ replier' = "test"
  /\ IF request = "served" THEN request' = "replied" /\ answered' = TRUE
     ELSE UNCHANGED <<request, answered>>
  /\ UNCHANGED <<requestervars, worker_stop, faults>>

\* the loop test; a request the thread has not received finds nobody any more
LoopTest ==
  /\ replier = "test"
  /\ replier' = IF worker_stop THEN "ended" ELSE "recv"
  /\ request' = IF worker_stop /\ request = "delivered" THEN "lost" ELSE request
  /\ UNCHANGED <<requestervars, worker_stop, answered, faults>>

\* recv ends with an error when the engine ends its sockets
RecvFails ==
  /\ replier = "recv" /\ worker_stop
  /\ replier' = "ended"
  /\ request' = IF request = "delivered" THEN "lost" ELSE request
  /\ UNCHANGED <<requestervars, worker_stop, answered, faults>>

OnClose ==
  /\ replier # "down" /\ ~worker_stop
  /\ worker_stop' = TRUE
  /\ UNCHANGED <<requestervars, replier, request, answered, faults>>
-----------------------------------------------------------------------------
(* The network and the server's process (external)                         *)

Delivered ==
  /\ \/ request = "sent" /\ replier \notin {"down", "ended"} /\ request' = "delivered"
     \/ request = "replied" /\ request' = "arrived"
  /\ UNCHANGED <<requestervars, repliervars, answered, faults>>

UnderWay == {"delivered", "served", "replied"}
AfterBreak == IF request \in UnderWay THEN "lost" ELSE request

ConnectionBreaks ==
  /\ faults < MaxFaults /\ faults' = faults + 1
  /\ request' = AfterBreak
  /\ UNCHANGED <<requestervars, repliervars, answered>>

ServerDies ==
  /\ replier # "down" /\ faults < MaxFaults /\ faults' = faults + 1
  /\ replier' = "down" /\ worker_stop' = FALSE
  /\ request' = AfterBreak
  /\ UNCHANGED <<requestervars, answered>>

ServerStarts ==
  /\ replier \in {"down", "ended"}
  /\ replier' = "recv" /\ worker_stop' = FALSE
  /\ request' = AfterBreak
  /\ UNCHANGED <<requestervars, answered, faults>>
-----------------------------------------------------------------------------
Requester == Timeout \/ ReadReply \/ RequesterReturns
Replier == ReplierReceives \/ ReplierSends \/ LoopTest \/ RecvFails

EchoNext ==
  \/ Requester \/ RequesterCloses \/ Replier \/ OnClose
  \/ Delivered \/ ConnectionBreaks \/ ServerDies \/ ServerStarts

EchoSpec == EchoInit /\ [][EchoNext]_echovars

\* Both threads run and the network delivers; nobody has to start the server, to
\* close anything or to break a connection.
EchoFairSpec == EchoSpec /\ WF_echovars(Requester) /\ WF_echovars(Replier) /\ WF_echovars(Delivered)
-----------------------------------------------------------------------------
(* Properties                                                              *)

\* Type invariant.
EchoTypeOK ==
  /\ waiting \in BOOLEAN /\ current \in BOOLEAN /\ interrupted \in BOOLEAN
  /\ request \in {"none", "sent", "lost", "arrived"} \cup UnderWay
  /\ label \in {"unknown", "active", "inactive"} /\ requester \in {"runs", "ended"}
  /\ replier \in {"recv", "send", "test", "ended", "down"} /\ worker_stop \in BOOLEAN
  /\ answered \in BOOLEAN /\ faults \in 0 .. MaxFaults

\* The label turns active only when the replier has answered since the last
\* timeout: a reply that comes later than a timeout does not count, however many
\* timeouts failed to send meanwhile.
ActiveMeansAnswered ==
  [][label # "active" /\ label' = "active" => answered]_echovars

\* A server that is not there is shown as such, or comes back first.
DeadServerShown ==
  replier \in {"down", "ended"} ~> label = "inactive" \/ replier \notin {"down", "ended"} \/ interrupted

\* The requester is free to ask again, again and again, unless the server is not
\* there or a request was lost on the way: then it waits for its reply for ever.
AsksAgain ==
  []<>(~waiting \/ request = "lost" \/ replier \in {"down", "ended"} \/ interrupted)
=============================================================================
