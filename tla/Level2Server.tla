---------------------------- MODULE Level2Server ----------------------------
(***************************************************************************)
(* The receiving half of dk_level2_interface.  _do_server_work opens a     *)
(* tcp_server, whose detached accept thread starts one detached receive    *)
(* thread per connection; a receive thread takes what recv returns, acts   *)
(* on it if it is exactly one packet, and publishes.  _line_check_work     *)
(* sets _ignore, which gates the packets that carry jobs.                  *)
(*                                                                         *)
(* A packet is its number in the order Level2 sends them; on the wire it   *)
(* is two halves, so that recv can split or join packets.  The receive     *)
(* threads share the zmq sockets of their ports, which are not thread-safe:*)
(* a message whose frames overlap another thread's on the same port may    *)
(* arrive, be lost, or bring the process down.                             *)
(***************************************************************************)
EXTENDS Naturals, Sequences, SequencesExt

CONSTANTS Connections,  \* the connections Level2 makes
          Watched,      \* any one of them, whose jobs are followed
          Kinds,        \* the kinds of packet each one it sends may be of
          MaxPackets    \* bound: packets Level2 sends

(* TC codes 1002, 1001, 1099, a 1001 with a blank number, and any other.   *)
JobKinds == {"labeled", "instruction"}
AllKinds == JobKinds \cup {"alive", "blank", "other"}
Packets == 1..MaxPackets
ASSUME PacketsAssumption == MaxPackets \in Nat
ASSUME ConnectionsAssumption == Watched \in Connections
ASSUME KindsAssumption == Kinds \in [Packets -> SUBSET AllKinds]

Port(k) == CASE k = "labeled" -> "labeling_job_dispatch"
             [] k = "instruction" -> "lv2_dispatch"
             [] OTHER -> "status"
Unavailable == 0
Available == 1
NoMessage == [port |-> "none", value |-> 0]

VARIABLES stop,        \* _worker_stop
          worker,      \* _do_server_work: before its loop, in it, past close, returned
          bound,       \* the listening socket has the port Level2 connects to
          acceptor,    \* the accept thread: none, in accept, holding a new fd, returned
          fd,          \* the connection the accept thread holds
          ignore,      \* _ignore
          tpc,         \* each connection and its receive thread
          inbox,       \* halves of packets the kernel holds for recv
          ended,       \* the peer has closed the connection or reset it
          out,         \* the message a receive thread publishes
          sent,        \* how many packets Level2 has sent
          status,      \* the availability last published, Unavailable before that
          crashed,
          delivered,   \* history: packets each thread published to a job port, in order
          lost,        \* history: job packets that will never be published
          heeded,      \* history: _ignore was off at some time since the thread's packet came
          torn,        \* another thread entered the port while this one was inside
          raced        \* history: this happened on the status port

servervars == <<stop, worker, bound, acceptor, fd, ignore>>
peervars == <<inbox, ended, sent>>
threadvars == <<tpc, out, status, delivered, lost, heeded, torn, raced>>
vars == <<servervars, peervars, threadvars, crashed>>

Init ==
  /\ stop = FALSE /\ worker = "start" /\ bound = FALSE /\ crashed = FALSE
  /\ acceptor = "none" /\ fd = (CHOOSE c \in Connections : TRUE) /\ ignore = FALSE
  /\ tpc = [c \in Connections |-> "none"]
  /\ inbox = [c \in Connections |-> <<>>]
  /\ ended = [c \in Connections |-> FALSE]
  /\ out = [c \in Connections |-> NoMessage]
  /\ sent = 0 /\ status = Unavailable
  /\ delivered = [c \in Connections |-> <<>>]
  /\ lost = [c \in Connections |-> {}]
  /\ heeded = [c \in Connections |-> FALSE]
  /\ torn = [c \in Connections |-> FALSE] /\ raced = FALSE

Put(f, c, v) == [f EXCEPT ![c] = v]
StartsJob(half) == half.first /\ half.kind \in JobKinds
JobPackets(halves) == {h.packet : h \in {g \in Range(halves) : StartsJob(g)}}
-----------------------------------------------------------------------------
(* _do_server_work and on_close                                            *)

\* a failed bind or listen is logged and never repeated; listen without a bound port
\* listens on another one
StartServer ==
  /\ worker = "start" /\ ~stop
  /\ worker' = "serving"
  /\ \/ bound' = TRUE /\ acceptor' = "accept"
     \/ bound' = FALSE /\ acceptor' \in {"accept", "none"}
  /\ UNCHANGED <<stop, fd, ignore, peervars, threadvars, crashed>>

\* close() resets the connections nobody has accepted
CloseServer ==
  /\ stop /\ worker \in {"start", "serving"}
  /\ worker' = IF worker = "start" THEN "done" ELSE "closed"
  /\ bound' = FALSE
  /\ tpc' = [c \in Connections |-> IF tpc[c] = "backlog" THEN "gone" ELSE tpc[c]]
  /\ lost' = [c \in Connections |-> IF tpc[c] = "backlog" THEN lost[c] \cup JobPackets(inbox[c])
                                                          ELSE lost[c]]
  /\ inbox' = [c \in Connections |-> IF tpc[c] = "backlog" THEN <<>> ELSE inbox[c]]
  /\ UNCHANGED <<stop, acceptor, fd, ignore, ended, sent, out, status,
                 delivered, heeded, torn, raced, crashed>>

DeleteServer ==
  /\ worker = "closed"
  /\ worker' = "done"
  /\ UNCHANGED <<stop, bound, acceptor, fd, ignore, peervars, threadvars, crashed>>

OnClose ==
  /\ ~stop
  /\ stop' = TRUE
  /\ UNCHANGED <<worker, bound, acceptor, fd, ignore, peervars, threadvars, crashed>>
-----------------------------------------------------------------------------
(* The accept thread                                                       *)

Accept(c) ==
  /\ acceptor = "accept" /\ tpc[c] = "backlog"
  /\ acceptor' = "new" /\ fd' = c
  /\ tpc' = Put(tpc, c, "accepted")
  /\ UNCHANGED <<stop, worker, bound, ignore, peervars,
                 out, status, delivered, lost, heeded, torn, raced, crashed>>

\* mutant of NewConnection: the accept thread serves one connection
NewConnectionLast ==
  /\ acceptor = "new"
  /\ acceptor' = "none"
  /\ tpc' = Put(tpc, fd, "recv") /\ UNCHANGED crashed
  /\ UNCHANGED <<stop, worker, bound, fd, ignore, peervars,
                 out, status, delivered, lost, heeded, torn, raced>>

\* on_new_connection belongs to the server, which may be deleted by now
NewConnection ==
  /\ acceptor = "new"
  /\ acceptor' = "accept"
  /\ \/ tpc' = Put(tpc, fd, "recv") /\ UNCHANGED crashed
     \/ worker = "done" /\ crashed' = TRUE /\ UNCHANGED tpc
  /\ UNCHANGED <<stop, worker, bound, fd, ignore, peervars,
                 out, status, delivered, lost, heeded, torn, raced>>

\* accept fails: the socket is closed, or any other error, and the thread is gone for good
AcceptFails ==
  /\ acceptor = "accept"
  /\ acceptor' = "returned"
  /\ UNCHANGED <<stop, worker, bound, fd, ignore, peervars, threadvars, crashed>>
-----------------------------------------------------------------------------
(* The receive thread of a connection                                      *)

OnlyPacket(chunk) == Len(chunk) = 2 /\ chunk[1].packet = chunk[2].packet

\* recv returns a prefix of the stream.  A chunk that is not exactly one packet is dropped,
\* a blank number makes stoi throw in a thread that catches nothing.
Receive(c) ==
  /\ tpc[c] = "recv" /\ inbox[c] # <<>>
  /\ \E n \in 1..Len(inbox[c]) :
       LET chunk == SubSeq(inbox[c], 1, n)
           p == chunk[1].packet
           k == IF OnlyPacket(chunk) THEN chunk[1].kind ELSE "other"
       IN  /\ inbox' = Put(inbox, c, SubSeq(inbox[c], n + 1, Len(inbox[c])))
           /\ crashed' = (k = "blank")
           /\ tpc' = Put(tpc, c, CASE k \in JobKinds -> "gate"
                                   [] k = "alive" -> "send"
                                   [] OTHER -> "recv")
           /\ out' = Put(out, c, CASE k \in JobKinds -> [port |-> Port(k), value |-> p]
                                   [] k = "alive" -> [port |-> Port(k), value |-> Available]
                                   [] OTHER -> NoMessage)
           /\ lost' = IF k \in JobKinds THEN lost
                      ELSE Put(lost, c, lost[c] \cup JobPackets(chunk))
  /\ heeded' = Put(heeded, c, ~ignore)
  /\ UNCHANGED <<servervars, ended, sent, status, delivered, torn, raced>>

\* mutants of Gate: the message is not dropped, or goes out whatever _ignore says
GateKeepsMessage(c) ==
  /\ tpc[c] = "gate"
  /\ tpc' = Put(tpc, c, IF ignore THEN "recv" ELSE "send")
  /\ UNCHANGED <<servervars, peervars, status, delivered, heeded, torn, raced, crashed, out, lost>>

GateOpen(c) ==
  /\ tpc[c] = "gate"
  /\ tpc' = Put(tpc, c, "send")
  /\ UNCHANGED <<servervars, peervars, status, delivered, heeded, torn, raced, crashed, out, lost>>

Gate(c) ==
  /\ tpc[c] = "gate"
  /\ IF ignore
     THEN /\ tpc' = Put(tpc, c, "recv")
          /\ out' = Put(out, c, NoMessage)
          /\ lost' = Put(lost, c, lost[c] \cup {out[c].value})
     ELSE tpc' = Put(tpc, c, "send") /\ UNCHANGED <<out, lost>>
  /\ UNCHANGED <<servervars, peervars, status, delivered, heeded, torn, raced, crashed>>

Inside(port) == {c \in Connections : tpc[c] = "sending" /\ out[c].port = port}

\* the topic frame goes in ...
SendTopic(c) ==
  /\ tpc[c] = "send"
  /\ tpc' = Put(tpc, c, "sending")
  /\ LET others == Inside(out[c].port)
     IN  /\ torn' = [d \in Connections |-> \/ d \in others
                                           \/ d = c /\ others # {}
                                           \/ d # c /\ torn[d]]
         /\ raced' = (raced \/ (others # {} /\ out[c].port = "status"))
  /\ UNCHANGED <<servervars, peervars, out, status, delivered, lost, heeded, crashed>>

\* mutant of SendData: the packet stays where it was and is sent again
SendDataAgain(c) ==
  /\ tpc[c] = "sending" /\ out[c].port # "status"
  /\ delivered' = Put(delivered, c, Append(delivered[c], out[c].value))
  /\ \/ UNCHANGED <<tpc, out>>
     \/ tpc' = Put(tpc, c, "recv") /\ out' = Put(out, c, NoMessage)
  /\ Len(delivered[c]) < MaxPackets
  /\ UNCHANGED <<servervars, peervars, heeded, torn, raced, lost, status, crashed>>

\* ... and the data frame; the message counts from here.  The thread goes back to recv,
\* or ends if its connection has.
SendData(c) ==
  /\ tpc[c] = "sending"
  /\ tpc' = Put(tpc, c, IF out[c].port = "status" /\ out[c].value = Unavailable THEN "gone" ELSE "recv")
  /\ out' = Put(out, c, NoMessage)
  /\ \/ /\ IF out[c].port = "status"
           THEN status' = out[c].value /\ UNCHANGED delivered
           ELSE delivered' = Put(delivered, c, Append(delivered[c], out[c].value))
                /\ UNCHANGED status
        /\ UNCHANGED <<lost, crashed>>
     \/ /\ torn[c]
        /\ crashed' \in BOOLEAN
        /\ lost' = IF out[c].port = "status" THEN lost
                   ELSE Put(lost, c, lost[c] \cup {out[c].value})
        /\ UNCHANGED <<status, delivered>>
  /\ UNCHANGED <<servervars, peervars, heeded, torn, raced>>

\* mutant of EndOfStream: the thread ends without on_socket_closed
EndOfStreamQuiet(c) ==
  /\ tpc[c] = "recv" /\ inbox[c] = <<>> /\ ended[c]
  /\ tpc' = Put(tpc, c, "gone")
  /\ UNCHANGED <<servervars, peervars, out, status, delivered, lost, heeded, torn, raced, crashed>>

\* recv returns no bytes: close the socket, then on_socket_closed, then delete
EndOfStream(c) ==
  /\ tpc[c] = "recv" /\ inbox[c] = <<>> /\ ended[c]
  /\ tpc' = Put(tpc, c, "send")
  /\ out' = Put(out, c, [port |-> "status", value |-> Unavailable])
  /\ UNCHANGED <<servervars, peervars, status, delivered, lost, heeded, torn, raced, crashed>>
-----------------------------------------------------------------------------
(* _line_check_work: _ignore follows the last line signal read, and keeps  *)
(* its value once the thread has returned.                                 *)

LineMessage(hmd) ==
  /\ ignore' = hmd
  /\ heeded' = [c \in Connections |-> heeded[c] \/ ~hmd]
  /\ UNCHANGED <<stop, worker, bound, acceptor, fd, peervars,
                 tpc, out, status, delivered, lost, torn, raced, crashed>>

-----------------------------------------------------------------------------
(* Level2                                                                  *)

Connects(c) ==
  /\ bound /\ tpc[c] = "none"
  /\ tpc' = Put(tpc, c, "backlog")
  /\ UNCHANGED <<servervars, peervars, out, status, delivered, lost, heeded, torn, raced, crashed>>

Level2Sends(c, k) ==
  /\ tpc[c] \notin {"none", "gone"} /\ ~ended[c] /\ sent < MaxPackets /\ k \in Kinds[sent + 1]
  /\ sent' = sent + 1
  /\ LET half(first) == [packet |-> sent', kind |-> k, first |-> first]
     IN  inbox' = Put(inbox, c, inbox[c] \o <<half(TRUE), half(FALSE)>>)
  /\ UNCHANGED <<servervars, ended, threadvars, crashed>>

\* an orderly close lets recv read the rest, a reset does not
Disconnects(c) ==
  /\ tpc[c] \notin {"none", "gone"} /\ ~ended[c]
  /\ ended' = Put(ended, c, TRUE)
  /\ \/ UNCHANGED <<inbox, lost>>
     \/ /\ inbox' = Put(inbox, c, <<>>)
        /\ lost' = Put(lost, c, lost[c] \cup JobPackets(inbox[c]))
  /\ UNCHANGED <<servervars, sent, tpc, out, status, delivered, heeded, torn, raced, crashed>>
-----------------------------------------------------------------------------
Server == StartServer \/ CloseServer \/ DeleteServer

Acceptor == NewConnection \/ \E c \in Connections : Accept(c)

Thread(c) == Receive(c) \/ Gate(c) \/ SendTopic(c) \/ SendData(c) \/ EndOfStream(c)

Level2(c) == Connects(c) \/ Disconnects(c) \/ \E k \in AllKinds : Level2Sends(c, k)

Running == \/ Server \/ Acceptor \/ AcceptFails \/ OnClose
           \/ \E hmd \in BOOLEAN : LineMessage(hmd)
           \/ \E c \in Connections : Thread(c) \/ Level2(c)

Ended == crashed \/ (worker = "done" /\ \A c \in Connections : tpc[c] \in {"none", "gone"})

Next == \/ ~crashed /\ Running
        \/ Ended /\ UNCHANGED vars

Spec == Init /\ [][Next]_vars

(* The operating system runs every thread; Level2, the line, the operator  *)
(* and failures are under no obligation.                                   *)
FairSpec ==
  /\ Spec
  /\ WF_vars(~crashed /\ Server) /\ WF_vars(~crashed /\ Acceptor)
  /\ \A c \in Connections : WF_vars(~crashed /\ Thread(c))
-----------------------------------------------------------------------------
(* Properties.                                                             *)

TypeOK ==
  /\ stop \in BOOLEAN /\ bound \in BOOLEAN /\ crashed \in BOOLEAN
  /\ worker \in {"start", "serving", "closed", "done"}
  /\ acceptor \in {"none", "accept", "new", "returned"} /\ fd \in Connections
  /\ ignore \in BOOLEAN /\ raced \in BOOLEAN /\ torn \in [Connections -> BOOLEAN]
  /\ tpc \in [Connections -> {"none", "backlog", "accepted", "recv", "gate",
                              "send", "sending", "gone"}]
  /\ inbox \in [Connections -> Seq([packet : Packets, kind : AllKinds, first : BOOLEAN])] 
  /\ ended \in [Connections -> BOOLEAN]
  /\ sent \in 0..MaxPackets
  /\ \A c \in Connections :
       /\ tpc[c] \in {"gate", "send", "sending"} <=> out[c] # NoMessage
       /\ tpc[c] = "gate" => out[c].port # "status"
  /\ delivered \in [Connections -> Seq(Packets)] /\ lost \in [Connections -> SUBSET Packets]

(* A job is published only if _ignore was off at some moment between its   *)
(* arrival and its publication: the one test of the flag is enough, though *)
(* the flag may change right after it.                                     *)
PublishedOnlyIfHeeded ==
  [][\A c \in Connections : delivered'[c] # delivered[c] => heeded[c]]_vars

(* With no connection left, "available" is not what was published last,    *)
(* in whatever order old and new connections ended: unless two threads     *)
(* were inside the status port at once.                                    *)
NoStaleAvailability ==
  status = Available /\ ~raced => \E c \in Connections : tpc[c] \in {"recv", "gate", "send", "sending"}

(* However recv cuts the stream and the threads race, the jobs of each     *)
(* connection are published in the order they were sent, each at most once,*)
(* and one that was dropped never comes back.  Still to be published are   *)
(* the job its thread holds and those recv can still return whole.         *)
UnderWay(c) ==
  (IF out[c].port \in {"none", "status"} THEN {} ELSE {out[c].value}) \cup JobPackets(inbox[c])
InOrder(S) ==
  CHOOSE q \in BoundedSeq(Packets, MaxPackets) :
    Range(q) = S /\ \A i, j \in DOMAIN q : i < j => q[i] < q[j]
Channel == INSTANCE LossyChannel
             WITH Items <- Packets, pending <- InOrder(UnderWay(Watched)),
                  delivered <- delivered[Watched], lost <- lost[Watched]
ImplementsChannel == Channel!Spec

(* Every connection Level2 has left is served to its end, old and new ones *)
(* in any order: accepted, read out, its receive thread over.  Only an     *)
(* accept that has failed keeps one waiting.                               *)
ConnectionsServed ==
  \A c \in Connections :
    ended[c] ~> \/ tpc[c] = "gone" \/ crashed
                \/ tpc[c] = "backlog" /\ acceptor = "returned"
=============================================================================
