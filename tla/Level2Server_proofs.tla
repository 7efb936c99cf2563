------------------------- MODULE Level2Server_proofs -------------------------
(***************************************************************************)
(* What the receiving half guarantees for any connections, packets and     *)
(* kinds: the types; that no job is published unless _ignore was off while *)
(* the thread had it; that "available" does not outlive the connections;   *)
(* that the jobs of a connection are published in the order they were sent,*)
(* none twice and none that was dropped; and that the whole is a lossy     *)
(* channel for the jobs of any one connection.                             *)
(***************************************************************************)
EXTENDS Level2Server, TLAPS, SequenceTheorems, WellFoundedInduction

Halves == [packet : Packets, kind : AllKinds, first : BOOLEAN]
JobPorts == {"labeling_job_dispatch", "lv2_dispatch"}
Messages == {NoMessage} \cup [port : JobPorts, value : Packets]
                        \cup [port : {"status"}, value : {Unavailable, Available}]
ThreadStates == {"none", "backlog", "accepted", "recv", "gate", "send", "sending", "gone"}
Holding == {"gate", "send", "sending"}

(***************************************************************************)
(* The type invariant, strengthened by what a message may be and by the    *)
(* connection that the accept thread holds.                                *)
(***************************************************************************)
FlagTypes ==
  /\ stop \in BOOLEAN /\ bound \in BOOLEAN /\ ignore \in BOOLEAN /\ raced \in BOOLEAN
  /\ worker \in {"start", "serving", "closed", "done"}
  /\ acceptor \in {"none", "accept", "new", "returned"} /\ fd \in Connections
  /\ acceptor = "new" => tpc[fd] = "accepted"
CrashType == crashed \in BOOLEAN
ThreadTypes ==
  /\ tpc \in [Connections -> ThreadStates] /\ torn \in [Connections -> BOOLEAN]
  /\ heeded \in [Connections -> BOOLEAN]
  /\ out \in [Connections -> Messages] /\ status \in {Unavailable, Available}
  /\ \A c \in Connections : /\ tpc[c] \in Holding <=> out[c] # NoMessage
                            /\ tpc[c] = "gate" => out[c].port # "status"
PeerTypes == /\ inbox \in [Connections -> Seq(Halves)] /\ ended \in [Connections -> BOOLEAN]
             /\ sent \in 0 .. MaxPackets
RecordTypes == /\ delivered \in [Connections -> Seq(Packets)]
               /\ lost \in [Connections -> SUBSET Packets]
TypeInv == FlagTypes /\ CrashType /\ ThreadTypes /\ PeerTypes /\ RecordTypes

\* The strengthened invariant has the types.
LEMMA TypesFollow == ASSUME TypeInv PROVE TypeOK
BY DEF TypeInv, FlagTypes, CrashType, ThreadTypes, PeerTypes, RecordTypes, TypeOK, Halves, ThreadStates,
       Holding

\* What a message may be.
LEMMA MessageKinds ==
  /\ NoMessage \in Messages /\ NoMessage.port = "none"
  /\ \A m \in Messages : m.port \in {"none", "status"} \cup JobPorts
  /\ \A m \in Messages : m.port = "none" <=> m = NoMessage
  /\ \A m \in Messages : m.port \in JobPorts => m.value \in Packets
  /\ \A m \in Messages : m.port = "status" => m.value \in {Unavailable, Available}
  /\ \A k \in JobKinds, p \in Packets : /\ [port |-> Port(k), value |-> p] \in Messages
                                        /\ Port(k) \in JobPorts
  /\ Port("alive") = "status"
  /\ \A v \in {Unavailable, Available} : [port |-> "status", value |-> v] \in Messages
  /\ "status" \notin JobPorts /\ "none" \notin JobPorts
BY DEF Messages, NoMessage, JobPorts, JobKinds, Port, Unavailable, Available

\* The beginning and the rest of what the kernel holds.
LEMMA Cut ==
  ASSUME NEW q \in Seq(Halves), NEW n \in 1 .. Len(q)
  PROVE  /\ Len(q) \in Nat /\ \A i \in 1 .. Len(q) : q[i] \in Halves
         /\ SubSeq(q, 1, n) \in Seq(Halves) /\ Len(SubSeq(q, 1, n)) = n
         /\ \A i \in 1 .. n : SubSeq(q, 1, n)[i] = q[i]
         /\ SubSeq(q, n + 1, Len(q)) \in Seq(Halves) /\ Len(SubSeq(q, n + 1, Len(q))) = Len(q) - n
         /\ \A i \in 1 .. Len(q) - n : SubSeq(q, n + 1, Len(q))[i] = q[n + i]
<1>1. Len(q) \in Nat /\ \A i \in 1 .. Len(q) : q[i] \in Halves
  BY LenProperties, ElementOfSeq
<1> DEFINE a == SubSeq(q, 1, n)
           b == SubSeq(q, n + 1, Len(q))
<1>2. /\ a \in Seq(Halves) /\ Len(a) = IF 1 <= n THEN (n - 1) + 1 ELSE 0
      /\ \A i \in 1 .. (n - 1) + 1 : a[i] = q[(1 + i) - 1]
  BY <1>1, SubSeqProperties
<1>3. /\ b \in Seq(Halves) /\ Len(b) = IF n + 1 <= Len(q) THEN (Len(q) - (n + 1)) + 1 ELSE 0
      /\ \A i \in 1 .. (Len(q) - (n + 1)) + 1 : b[i] = q[((n + 1) + i) - 1]
  BY <1>1, SubSeqProperties
<1> HIDE DEF a, b
<1>4. Len(a) = n /\ \A i \in 1 .. n : a[i] = q[i]
  <2>1. (n - 1) + 1 = n /\ \A i \in 1 .. n : (1 + i) - 1 = i
    BY <1>1
  <2> QED
    BY <1>1, <1>2, <2>1
<1>5. Len(b) = Len(q) - n /\ \A i \in 1 .. Len(q) - n : b[i] = q[n + i]
  <2>1. (Len(q) - (n + 1)) + 1 = Len(q) - n /\ \A i \in 1 .. Len(q) - n : ((n + 1) + i) - 1 = n + i
    BY <1>1
  <2>2. Len(b) = Len(q) - n
    BY <1>1, <1>3
  <2>3. \A i \in 1 .. Len(q) - n : b[i] = q[n + i]
    <3> SUFFICES ASSUME NEW i \in 1 .. Len(q) - n PROVE b[i] = q[n + i]
      OBVIOUS
    <3>1. i \in 1 .. (Len(q) - (n + 1)) + 1 /\ ((n + 1) + i) - 1 = n + i
      BY <2>1
    <3> QED
      BY <1>3, <3>1
  <2> QED
    BY <2>2, <2>3
<1> QED
  BY <1>1, <1>2, <1>3, <1>4, <1>5 DEF a, b

\* The packets that begin in a stretch of the stream.
LEMMA JobPacketsOf ==
  ASSUME NEW q \in Seq(Halves)
  PROVE  /\ JobPackets(q) \subseteq Packets
         /\ \A p : p \in JobPackets(q) <=> \E i \in 1 .. Len(q) : StartsJob(q[i]) /\ q[i].packet = p
<1>1. Range(q) = {q[i] : i \in 1 .. Len(q)}
  BY RangeEquality
<1>2. \A i \in 1 .. Len(q) : q[i] \in Halves
  BY ElementOfSeq
<1> QED
  BY <1>1, <1>2 DEF JobPackets, Halves
\* A packet is sent: it is a job if it is of the kind of one.
LEMMA StreamGrows ==
  ASSUME NEW q \in Seq(Halves), NEW a \in Halves, NEW b \in Halves, a.first, ~b.first
  PROVE  JobPackets(q \o <<a, b>>) = JobPackets(q) \cup (IF a.kind \in JobKinds THEN {a.packet} ELSE {})
<1> DEFINE r == q \o <<a, b>>
<1>1. Len(q) \in Nat
  BY LenProperties
<1>2. <<a, b>> \in Seq(Halves) /\ Len(<<a, b>>) = 2 /\ <<a, b>>[1] = a /\ <<a, b>>[2] = b
  OBVIOUS
<1>3. /\ r \in Seq(Halves) /\ Len(r) = Len(q) + Len(<<a, b>>)
      /\ \A i \in 1 .. Len(q) + Len(<<a, b>>) : r[i] = IF i <= Len(q) THEN q[i] ELSE <<a, b>>[i - Len(q)]
  BY <1>2, ConcatProperties
<1> HIDE DEF r
<1>4. /\ (Len(q) + 1) - Len(q) = 1 /\ (Len(q) + 2) - Len(q) = 2 /\ ~(Len(q) + 1 <= Len(q)) /\ ~(Len(q) + 2 <= Len(q))
      /\ Len(q) + 1 \in 1 .. Len(q) + 2 /\ Len(q) + 2 \in 1 .. Len(q) + 2
      /\ \A i \in 1 .. Len(q) : i \in 1 .. Len(q) + 2 /\ i <= Len(q)
      /\ \A i \in 1 .. Len(q) + 2 : i \in 1 .. Len(q) \/ i = Len(q) + 1 \/ i = Len(q) + 2
  BY <1>1
<1>5. r[Len(q) + 1] = a /\ r[Len(q) + 2] = b /\ \A i \in 1 .. Len(q) : r[i] = q[i]
  BY <1>2, <1>3, <1>4
<1>6. Len(r) = Len(q) + 2
  BY <1>2, <1>3
<1>7. ASSUME NEW p, p \in JobPackets(r)
      PROVE  p \in JobPackets(q) \/ (a.kind \in JobKinds /\ p = a.packet)
  <2>1. PICK i \in 1 .. Len(q) + 2 : StartsJob(r[i]) /\ r[i].packet = p
    BY <1>3, <1>6, <1>7, JobPacketsOf
  <2>2. CASE i \in 1 .. Len(q)
    BY <1>5, <2>1, <2>2, JobPacketsOf
  <2>3. CASE i = Len(q) + 1
    BY <1>5, <2>1, <2>3 DEF StartsJob
  <2>4. CASE i = Len(q) + 2
    BY <1>5, <2>1, <2>4 DEF StartsJob
  <2> QED
    BY <1>4, <2>2, <2>3, <2>4
<1>8. ASSUME NEW p \in JobPackets(q) PROVE p \in JobPackets(r)
  <2>1. PICK i \in 1 .. Len(q) : StartsJob(q[i]) /\ q[i].packet = p
    BY JobPacketsOf
  <2>2. i \in 1 .. Len(r) /\ StartsJob(r[i]) /\ r[i].packet = p
    BY <1>4, <1>5, <1>6, <2>1
  <2> QED
    BY <1>3, <2>2, JobPacketsOf
<1>9. ASSUME a.kind \in JobKinds PROVE a.packet \in JobPackets(r)
  <2>1. Len(q) + 1 \in 1 .. Len(r) /\ StartsJob(r[Len(q) + 1])
    BY <1>4, <1>5, <1>6, <1>9 DEF StartsJob
  <2> QED
    BY <1>3, <1>5, <2>1, JobPacketsOf
<1> QED
  BY <1>7, <1>8, <1>9 DEF r

\* The stream is cut: what begins in it begins in one of the parts.
LEMMA StreamSplits ==
  ASSUME NEW q \in Seq(Halves), NEW k \in 1 .. Len(q)
  PROVE  JobPackets(q) = JobPackets(SubSeq(q, 1, k)) \cup JobPackets(SubSeq(q, k + 1, Len(q)))
<1> DEFINE chunk == SubSeq(q, 1, k)
           rest == SubSeq(q, k + 1, Len(q))
<1>1. /\ Len(q) \in Nat /\ k \in Nat
      /\ chunk \in Seq(Halves) /\ Len(chunk) = k /\ \A i \in 1 .. k : chunk[i] = q[i]
      /\ rest \in Seq(Halves) /\ Len(rest) = Len(q) - k /\ \A i \in 1 .. Len(q) - k : rest[i] = q[k + i]
  BY Cut
<1> HIDE DEF chunk, rest
<1>2. ASSUME NEW p \in JobPackets(q) PROVE p \in JobPackets(chunk) \/ p \in JobPackets(rest)
  <2>1. PICK i \in 1 .. Len(q) : StartsJob(q[i]) /\ q[i].packet = p
    BY JobPacketsOf
  <2>2. CASE i <= k
    <3>1. i \in 1 .. Len(chunk) /\ StartsJob(chunk[i]) /\ chunk[i].packet = p
      BY <1>1, <2>1, <2>2
    <3> QED
      BY <1>1, <3>1, JobPacketsOf
  <2>3. CASE ~(i <= k)
    <3>1. i - k \in 1 .. Len(rest) /\ k + (i - k) = i
      BY <1>1, <2>3
    <3>2. rest[i - k] = q[i]
      BY <1>1, <3>1
    <3> QED
      BY <1>1, <2>1, <3>1, <3>2, JobPacketsOf
  <2> QED
    BY <2>2, <2>3
<1>3. ASSUME NEW p \in JobPackets(chunk) PROVE p \in JobPackets(q)
  <2>1. PICK i \in 1 .. k : StartsJob(chunk[i]) /\ chunk[i].packet = p
    BY <1>1, JobPacketsOf
  <2>2. i \in 1 .. Len(q) /\ StartsJob(q[i]) /\ q[i].packet = p
    BY <1>1, <2>1
  <2> QED
    BY <2>2, JobPacketsOf
<1>4. ASSUME NEW p \in JobPackets(rest) PROVE p \in JobPackets(q)
  <2>1. PICK i \in 1 .. Len(q) - k : StartsJob(rest[i]) /\ rest[i].packet = p
    BY <1>1, JobPacketsOf
  <2>2. k + i \in 1 .. Len(q) /\ rest[i] = q[k + i]
    BY <1>1
  <2> QED
    BY <2>1, <2>2, JobPacketsOf
<1> QED
  BY <1>2, <1>3, <1>4 DEF chunk, rest
-----------------------------------------------------------------------------
\* What recv returned, and what the thread makes of it.
Chunk(c, n) == SubSeq(inbox[c], 1, n)
KindOf(c, n) == IF OnlyPacket(Chunk(c, n)) THEN Chunk(c, n)[1].kind ELSE "other"

\* Receive in terms of these.
LEMMA Received ==
  ASSUME TypeInv, NEW c \in Connections, Receive(c)
  PROVE  /\ tpc[c] = "recv" /\ UNCHANGED <<servervars, ended, sent, status, delivered, torn, raced>>
         /\ heeded' = Put(heeded, c, ~ignore)
         /\ \E n \in 1 .. Len(inbox[c]) :
              /\ inbox' = Put(inbox, c, SubSeq(inbox[c], n + 1, Len(inbox[c])))
              /\ crashed' = (KindOf(c, n) = "blank")
              /\ \/ /\ KindOf(c, n) \in JobKinds
                    /\ tpc' = Put(tpc, c, "gate") /\ lost' = lost
                    /\ out' = Put(out, c, [port |-> Port(KindOf(c, n)), value |-> Chunk(c, n)[1].packet])
                 \/ /\ KindOf(c, n) = "alive"
                    /\ tpc' = Put(tpc, c, "send")
                    /\ out' = Put(out, c, [port |-> "status", value |-> Available])
                    /\ lost' = Put(lost, c, lost[c] \cup JobPackets(Chunk(c, n)))
                 \/ /\ tpc' = Put(tpc, c, "recv") /\ out' = Put(out, c, NoMessage)
                    /\ KindOf(c, n) \notin JobKinds
                    /\ lost' = Put(lost, c, lost[c] \cup JobPackets(Chunk(c, n)))
<1> DEFINE Made(k, p) ==
      /\ tpc' = Put(tpc, c, CASE k \in JobKinds -> "gate"
                              [] k = "alive" -> "send"
                              [] OTHER -> "recv")
      /\ out' = Put(out, c, CASE k \in JobKinds -> [port |-> Port(k), value |-> p]
                              [] k = "alive" -> [port |-> Port(k), value |-> Available]
                              [] OTHER -> NoMessage)
<1>1. PICK n \in 1 .. Len(inbox[c]) :
        /\ inbox' = Put(inbox, c, SubSeq(inbox[c], n + 1, Len(inbox[c])))
        /\ crashed' = (KindOf(c, n) = "blank")
        /\ Made(KindOf(c, n), Chunk(c, n)[1].packet)
        /\ lost' = IF KindOf(c, n) \in JobKinds THEN lost
                   ELSE Put(lost, c, lost[c] \cup JobPackets(Chunk(c, n)))
  BY Zenon DEF Receive, Chunk, KindOf
<1> DEFINE k == KindOf(c, n)
           p == Chunk(c, n)[1].packet
<1>2. "alive" \notin JobKinds
  BY DEF JobKinds
<1> HIDE DEF k, p
<1>3. Made(k, p)
  BY <1>1 DEF k, p
<1>4. k \in JobKinds => tpc' = Put(tpc, c, "gate") /\ out' = Put(out, c, [port |-> Port(k), value |-> p])
  BY <1>2, <1>3
<1>5. k = "alive" => tpc' = Put(tpc, c, "send") /\ out' = Put(out, c, [port |-> "status", value |-> Available])
  BY <1>2, <1>3, MessageKinds
<1>6. k \notin JobKinds /\ k # "alive" => tpc' = Put(tpc, c, "recv") /\ out' = Put(out, c, NoMessage)
  BY <1>3
<1>7. k \notin JobKinds => lost' = Put(lost, c, lost[c] \cup JobPackets(Chunk(c, n)))
  BY <1>1 DEF k
<1>8. k \in JobKinds => lost' = lost
  BY <1>1 DEF k
<1>9. tpc[c] = "recv" /\ UNCHANGED <<servervars, ended, sent, status, delivered, torn, raced>>
      /\ heeded' = Put(heeded, c, ~ignore)
  BY DEF Receive
<1> HIDE DEF Made
<1>10. \/ k \in JobKinds /\ tpc' = Put(tpc, c, "gate") /\ lost' = lost
          /\ out' = Put(out, c, [port |-> Port(k), value |-> p])
       \/ k = "alive" /\ tpc' = Put(tpc, c, "send")
          /\ out' = Put(out, c, [port |-> "status", value |-> Available])
          /\ lost' = Put(lost, c, lost[c] \cup JobPackets(Chunk(c, n)))
       \/ tpc' = Put(tpc, c, "recv") /\ out' = Put(out, c, NoMessage) /\ k \notin JobKinds
          /\ lost' = Put(lost, c, lost[c] \cup JobPackets(Chunk(c, n)))
  BY <1>2, <1>4, <1>5, <1>6, <1>7, <1>8, Zenon
<1> QED
  BY <1>1, <1>9, <1>10 DEF k, p
-----------------------------------------------------------------------------
(***************************************************************************)
(* The types, action by action.                                            *)
(***************************************************************************)

\* One thread goes on, with another message.
LEMMA EntryType ==
  ASSUME ThreadTypes, NEW c \in Connections, NEW s \in ThreadStates, NEW m \in Messages,
         tpc' = Put(tpc, c, s), out' = Put(out, c, m),
         s \in Holding <=> m # NoMessage, s = "gate" => m.port # "status",
         torn' \in [Connections -> BOOLEAN], heeded' \in [Connections -> BOOLEAN],
         status' \in {Unavailable, Available}
  PROVE  ThreadTypes'
<1>0. tpc \in [Connections -> ThreadStates] /\ out \in [Connections -> Messages]
  BY DEF ThreadTypes
<1>1. /\ tpc' \in [Connections -> ThreadStates] /\ tpc'[c] = s
      /\ \A d \in Connections : d # c => tpc'[d] = tpc[d]
  BY <1>0 DEF Put
<1>2. /\ out' \in [Connections -> Messages] /\ out'[c] = m
      /\ \A d \in Connections : d # c => out'[d] = out[d]
  BY <1>0 DEF Put
<1>3. ASSUME NEW d \in Connections
      PROVE  (tpc'[d] \in Holding <=> out'[d] # NoMessage) /\ (tpc'[d] = "gate" => out'[d].port # "status")
  BY <1>1, <1>2 DEF ThreadTypes
<1> QED
  BY <1>1, <1>2, <1>3 DEF ThreadTypes

\* It keeps its message.
LEMMA StateType ==
  ASSUME ThreadTypes, NEW c \in Connections, NEW s \in ThreadStates,
         tpc' = Put(tpc, c, s), out' = out,
         s \in Holding <=> tpc[c] \in Holding, s = "gate" => tpc[c] = "gate",
         torn' \in [Connections -> BOOLEAN], UNCHANGED <<heeded, status>>
  PROVE  ThreadTypes'
<1>1. out[c] \in Messages /\ out' = Put(out, c, out[c])
  BY DEF Put, ThreadTypes
<1>2. (s \in Holding <=> out[c] # NoMessage) /\ (s = "gate" => out[c].port # "status")
  BY DEF ThreadTypes
<1>3. heeded' \in [Connections -> BOOLEAN] /\ status' \in {Unavailable, Available}
  BY DEF ThreadTypes
<1> QED
  BY <1>1, <1>2, <1>3, EntryType

\* The accept thread's connection is not one with a running receive thread.
LEMMA FlagsKept ==
  ASSUME TypeInv, NEW c \in Connections, NEW s \in ThreadStates, tpc[c] # "accepted",
         tpc' = Put(tpc, c, s), UNCHANGED servervars, raced' \in BOOLEAN
  PROVE  FlagTypes'
<1>1. acceptor = "new" => fd # c
  BY DEF TypeInv, FlagTypes
<1>2. tpc \in [Connections -> ThreadStates] /\ fd \in Connections
  BY DEF TypeInv, ThreadTypes, FlagTypes
<1>3. fd # c => tpc'[fd] = tpc[fd]
  BY <1>2 DEF Put
<1> QED
  BY <1>1, <1>3 DEF TypeInv, FlagTypes, servervars

\* Steps that move no receive thread.
LEMMA ServerType ==
  ASSUME TypeInv, StartServer \/ DeleteServer \/ OnClose \/ AcceptFails \/ \E hmd \in BOOLEAN : LineMessage(hmd)
  PROVE  TypeInv'
<1>1. FlagTypes'
  BY DEF TypeInv, FlagTypes, StartServer, DeleteServer, OnClose, AcceptFails, LineMessage, threadvars
<1>2. UNCHANGED <<crashed, tpc, torn, out, status, inbox, ended, sent, delivered, lost>>
  BY DEF StartServer, DeleteServer, OnClose, AcceptFails, LineMessage, peervars, threadvars
<1>3. heeded' \in [Connections -> BOOLEAN]
  BY DEF StartServer, DeleteServer, OnClose, AcceptFails, LineMessage, peervars, threadvars, TypeInv,
         ThreadTypes
<1> QED
  BY <1>1, <1>2, <1>3 DEF TypeInv, CrashType, ThreadTypes, PeerTypes, RecordTypes

\* Connections nobody accepted are reset.
LEMMA CloseType ==
  ASSUME TypeInv, CloseServer PROVE TypeInv'
<1>1. UNCHANGED <<stop, acceptor, fd, ignore, ended, sent, out, status, delivered, heeded, torn, raced,
                  crashed>>
  BY DEF CloseServer
<1>2. /\ tpc' = [c \in Connections |-> IF tpc[c] = "backlog" THEN "gone" ELSE tpc[c]]
      /\ lost' = [c \in Connections |-> IF tpc[c] = "backlog" THEN lost[c] \cup JobPackets(inbox[c])
                                        ELSE lost[c]]
      /\ inbox' = [c \in Connections |-> IF tpc[c] = "backlog" THEN <<>> ELSE inbox[c]]
      /\ worker' \in {"done", "closed"} /\ bound' = FALSE
  BY DEF CloseServer
<1>3. ThreadTypes'
  <2>1. tpc' \in [Connections -> ThreadStates]
    BY <1>2 DEF TypeInv, ThreadTypes, ThreadStates
  <2>2. \A c \in Connections : (tpc'[c] \in Holding <=> tpc[c] \in Holding) /\ (tpc'[c] = "gate" <=> tpc[c] = "gate")
    BY <1>2 DEF Holding
  <2> QED
    BY <1>1, <2>1, <2>2 DEF TypeInv, ThreadTypes
<1>4. FlagTypes'
  BY <1>1, <1>2 DEF TypeInv, FlagTypes
<1>5. PeerTypes'
  <2>1. <<>> \in Seq(Halves)
    OBVIOUS
  <2> QED
    BY <1>1, <1>2, <2>1 DEF TypeInv, PeerTypes
<1>6. RecordTypes'
  <2>1. \A c \in Connections : JobPackets(inbox[c]) \subseteq Packets
    BY JobPacketsOf DEF TypeInv, PeerTypes
  <2> QED
    BY <1>1, <1>2, <2>1 DEF TypeInv, RecordTypes
<1> QED
  BY <1>1, <1>3, <1>4, <1>5, <1>6 DEF TypeInv, CrashType

\* A connection is accepted, and gets its thread.
LEMMA AcceptType ==
  ASSUME TypeInv, (\E c \in Connections : Accept(c)) \/ NewConnection PROVE TypeInv'
<1>1. UNCHANGED <<stop, worker, bound, ignore, peervars, out, status, delivered, lost, heeded, torn, raced>>
  BY DEF Accept, NewConnection
<1>2. PeerTypes' /\ RecordTypes'
  BY <1>1 DEF TypeInv, PeerTypes, RecordTypes, peervars
<1>3. /\ torn' \in [Connections -> BOOLEAN] /\ fd \in Connections /\ UNCHANGED <<heeded, status>>
      /\ ThreadTypes /\ tpc \in [Connections -> ThreadStates] /\ out' = out
  BY <1>1 DEF TypeInv, ThreadTypes, FlagTypes
<1>4. ASSUME NEW c \in Connections, Accept(c) PROVE ThreadTypes' /\ FlagTypes' /\ CrashType'
  <2>1. acceptor' = "new" /\ fd' = c /\ tpc' = Put(tpc, c, "accepted") /\ tpc[c] = "backlog" /\ UNCHANGED crashed
    BY <1>4 DEF Accept
  <2>2. "accepted" \in ThreadStates /\ "accepted" \notin Holding /\ "backlog" \notin Holding
    BY DEF ThreadStates, Holding
  <2>a. ("accepted" \in Holding <=> tpc[c] \in Holding) /\ ~("accepted" = "gate")
    BY <2>1, <2>2
  <2>3. ThreadTypes'
    BY <1>3, <2>1, <2>2, <2>a, StateType
  <2>4. tpc'[fd'] = "accepted"
    BY <1>3, <2>1, <2>2 DEF Put
  <2> QED
    BY <1>1, <2>1, <2>3, <2>4 DEF TypeInv, FlagTypes, CrashType
<1>5. CASE NewConnection
  <2>1. /\ acceptor = "new" /\ acceptor' = "accept" /\ UNCHANGED fd
        /\ tpc' = Put(tpc, fd, "recv") \/ tpc' = tpc
        /\ crashed' \in {crashed, TRUE}
    BY <1>5 DEF NewConnection
  <2>2. "recv" \in ThreadStates /\ "recv" \notin Holding /\ tpc[fd] \notin Holding
    BY <2>1 DEF ThreadStates, Holding, TypeInv, FlagTypes
  <2>a. ("recv" \in Holding <=> tpc[fd] \in Holding) /\ ~("recv" = "gate")
    BY <2>2
  <2>3. tpc' = Put(tpc, fd, "recv") => ThreadTypes'
    BY <1>3, <2>2, <2>a, StateType
  <2>4. tpc' = tpc => ThreadTypes'
    BY <1>1 DEF TypeInv, ThreadTypes
  <2>5. FlagTypes' /\ CrashType'
    BY <1>1, <2>1 DEF TypeInv, FlagTypes, CrashType
  <2> QED
    BY <1>2, <2>1, <2>3, <2>4, <2>5 DEF TypeInv
<1> QED
  BY <1>2, <1>4, <1>5 DEF TypeInv

\* A packet that arrives.
LEMMA ReceiveType ==
  ASSUME TypeInv, NEW c \in Connections, Receive(c) PROVE TypeInv'
<1>1. /\ tpc[c] = "recv" /\ UNCHANGED <<servervars, ended, sent, status, delivered, torn, raced>>
      /\ heeded' = Put(heeded, c, ~ignore)
  BY Received
<1>2. PICK n \in 1 .. Len(inbox[c]) :
        /\ inbox' = Put(inbox, c, SubSeq(inbox[c], n + 1, Len(inbox[c])))
        /\ crashed' = (KindOf(c, n) = "blank")
        /\ \/ /\ KindOf(c, n) \in JobKinds
              /\ tpc' = Put(tpc, c, "gate") /\ lost' = lost
              /\ out' = Put(out, c, [port |-> Port(KindOf(c, n)), value |-> Chunk(c, n)[1].packet])
           \/ /\ KindOf(c, n) = "alive"
              /\ tpc' = Put(tpc, c, "send")
              /\ out' = Put(out, c, [port |-> "status", value |-> Available])
              /\ lost' = Put(lost, c, lost[c] \cup JobPackets(Chunk(c, n)))
           \/ /\ tpc' = Put(tpc, c, "recv") /\ out' = Put(out, c, NoMessage)
              /\ KindOf(c, n) \notin JobKinds
              /\ lost' = Put(lost, c, lost[c] \cup JobPackets(Chunk(c, n)))
  BY Received
<1> DEFINE q == inbox[c]
<1>3. q \in Seq(Halves) /\ inbox \in [Connections -> Seq(Halves)]
  BY DEF TypeInv, PeerTypes
<1>4. Chunk(c, n) \in Seq(Halves) /\ Len(Chunk(c, n)) = n /\ SubSeq(q, n + 1, Len(q)) \in Seq(Halves)
  BY <1>3, Cut DEF Chunk
<1>5. Chunk(c, n)[1] \in Halves
  <2>1. 1 \in 1 .. n
    BY <1>3, LenProperties
  <2> QED
    BY <1>4, <2>1, ElementOfSeq
<1>6. Chunk(c, n)[1].packet \in Packets
  BY <1>5 DEF Halves
<1>7. PeerTypes'
  BY <1>1, <1>2, <1>3, <1>4 DEF TypeInv, PeerTypes, Put
<1>8. RecordTypes'
  <2>1. JobPackets(Chunk(c, n)) \subseteq Packets
    BY <1>4, JobPacketsOf
  <2>2. lost' = lost \/ lost' = Put(lost, c, lost[c] \cup JobPackets(Chunk(c, n)))
    BY <1>2
  <2>3. lost \in [Connections -> SUBSET Packets]
    BY DEF TypeInv, RecordTypes
  <2>4. lost' \in [Connections -> SUBSET Packets]
    BY <2>1, <2>2, <2>3 DEF Put
  <2> QED
    BY <1>1, <2>4 DEF TypeInv, RecordTypes
<1>9. /\ torn' \in [Connections -> BOOLEAN] /\ status' \in {Unavailable, Available}
      /\ heeded' \in [Connections -> BOOLEAN] /\ ThreadTypes
  BY <1>1 DEF TypeInv, ThreadTypes, FlagTypes, Put
<1>10. PICK s \in {"gate", "send", "recv"}, m \in Messages :
         /\ tpc' = Put(tpc, c, s) /\ out' = Put(out, c, m)
         /\ s = "recv" <=> m = NoMessage
         /\ s = "gate" => m.port # "status"
  <2> DEFINE job == [port |-> Port(KindOf(c, n)), value |-> Chunk(c, n)[1].packet]
             alive == [port |-> "status", value |-> Available]
  <2>1. alive \in Messages /\ alive # NoMessage /\ NoMessage \in Messages
    BY MessageKinds DEF NoMessage
  <2>2. KindOf(c, n) \in JobKinds => job \in Messages /\ job # NoMessage /\ job.port # "status"
    BY <1>6, MessageKinds DEF NoMessage
  <2> HIDE DEF job, alive
  <2>3. \/ KindOf(c, n) \in JobKinds /\ tpc' = Put(tpc, c, "gate") /\ out' = Put(out, c, job)
        \/ tpc' = Put(tpc, c, "send") /\ out' = Put(out, c, alive)
        \/ tpc' = Put(tpc, c, "recv") /\ out' = Put(out, c, NoMessage)
    BY <1>2 DEF job, alive
  <2> QED
    BY <2>1, <2>2, <2>3
<1>11. s \in ThreadStates /\ (s \in Holding <=> s # "recv")
  BY DEF ThreadStates, Holding
<1>12. ThreadTypes'
  BY <1>9, <1>10, <1>11, EntryType
<1>13. FlagTypes'
  <2>1. raced' \in BOOLEAN /\ UNCHANGED servervars
    BY <1>1 DEF TypeInv, FlagTypes
  <2> QED
    BY <1>1, <1>10, <1>11, <2>1, FlagsKept
<1>14. CrashType'
  BY <1>2, Zenon DEF CrashType
<1> QED
  BY <1>7, <1>8, <1>12, <1>13, <1>14 DEF TypeInv

\* The test of _ignore.
LEMMA GateType ==
  ASSUME TypeInv, NEW c \in Connections, Gate(c) PROVE TypeInv'
<1>1. /\ tpc[c] = "gate"
      /\ UNCHANGED <<servervars, peervars, status, delivered, heeded, torn, raced, crashed>>
      /\ \/ /\ tpc' = Put(tpc, c, "recv") /\ out' = Put(out, c, NoMessage)
            /\ lost' = Put(lost, c, lost[c] \cup {out[c].value})
         \/ tpc' = Put(tpc, c, "send") /\ out' = out /\ lost' = lost
  BY DEF Gate
<1>2. /\ ThreadTypes /\ torn' \in [Connections -> BOOLEAN] /\ heeded' \in [Connections -> BOOLEAN]
      /\ status' \in {Unavailable, Available} /\ raced' \in BOOLEAN /\ out[c] \in Messages
      /\ lost \in [Connections -> SUBSET Packets]
  BY <1>1 DEF TypeInv, ThreadTypes, FlagTypes, RecordTypes
<1>3. out[c].value \in Packets
  <2>1. out[c] # NoMessage /\ out[c].port # "status"
    BY <1>1 DEF TypeInv, ThreadTypes, Holding
  <2> QED
    BY <1>2, <2>1, MessageKinds
<1>4. {"recv", "send"} \subseteq ThreadStates /\ "recv" \notin Holding /\ {"send", "gate"} \subseteq Holding
  BY DEF ThreadStates, Holding
<1>5. ThreadTypes'
  <2>1. tpc' = Put(tpc, c, "recv") /\ out' = Put(out, c, NoMessage) => ThreadTypes'
    <3>1. "recv" \in Holding <=> NoMessage # NoMessage
      BY <1>4
    <3> QED
      BY <1>2, <1>4, <3>1, MessageKinds, EntryType
  <2>2. tpc' = Put(tpc, c, "send") /\ out' = out => ThreadTypes'
    <3>1. ("send" \in Holding <=> tpc[c] \in Holding) /\ UNCHANGED <<heeded, status>>
      BY <1>1, <1>4
    <3> QED
      BY <1>2, <1>4, <3>1, StateType
  <2> QED
    BY <1>1, <2>1, <2>2
<1>6. FlagTypes'
  BY <1>1, <1>2, <1>4, FlagsKept
<1>7. RecordTypes'
  <2>1. lost' \in [Connections -> SUBSET Packets]
    BY <1>1, <1>2, <1>3 DEF Put
  <2> QED
    BY <1>1, <2>1 DEF TypeInv, RecordTypes
<1> QED
  BY <1>1, <1>5, <1>6, <1>7 DEF TypeInv, CrashType, PeerTypes, peervars

\* The topic frame.
LEMMA TopicType ==
  ASSUME TypeInv, NEW c \in Connections, SendTopic(c) PROVE TypeInv'
<1>1. /\ tpc[c] = "send" /\ tpc' = Put(tpc, c, "sending")
      /\ UNCHANGED <<servervars, peervars, out, status, delivered, lost, heeded, crashed>>
  BY DEF SendTopic
<1>2. torn' \in [Connections -> BOOLEAN]
  BY Zenon DEF SendTopic
<1>3. raced' \in BOOLEAN
  BY DEF SendTopic, TypeInv, FlagTypes
<1>4. "sending" \in ThreadStates /\ "sending" \in Holding /\ "send" \in Holding
  BY DEF ThreadStates, Holding
<1>5. ThreadTypes'
  <2>1. ("sending" \in Holding <=> tpc[c] \in Holding) /\ ThreadTypes
    BY <1>1, <1>4 DEF TypeInv
  <2> QED
    BY <1>1, <1>2, <1>4, <2>1, StateType
<1>6. FlagTypes'
  BY <1>1, <1>3, <1>4, FlagsKept
<1> QED
  BY <1>1, <1>5, <1>6 DEF TypeInv, CrashType, PeerTypes, RecordTypes, peervars

\* The data frame.
LEMMA DataType ==
  ASSUME TypeInv, NEW c \in Connections, SendData(c) PROVE TypeInv'
<1>1. /\ tpc[c] = "sending" /\ out' = Put(out, c, NoMessage)
      /\ UNCHANGED <<servervars, peervars, heeded, torn, raced>>
      /\ \E s \in {"gone", "recv"} : tpc' = Put(tpc, c, s)
  BY DEF SendData
<1>2. /\ ThreadTypes /\ torn' \in [Connections -> BOOLEAN] /\ heeded' \in [Connections -> BOOLEAN]
      /\ raced' \in BOOLEAN /\ out[c] \in Messages /\ out[c] # NoMessage
      /\ lost \in [Connections -> SUBSET Packets] /\ delivered \in [Connections -> Seq(Packets)]
  BY <1>1 DEF TypeInv, ThreadTypes, FlagTypes, RecordTypes, Holding
<1>3. /\ out[c].port = "status" => out[c].value \in {Unavailable, Available}
      /\ out[c].port # "status" => out[c].value \in Packets
  BY <1>2, MessageKinds
<1>4. status' \in {Unavailable, Available}
  BY <1>3 DEF SendData, TypeInv, ThreadTypes
<1>5. lost' \in [Connections -> SUBSET Packets]
  <2>1. lost' = lost \/ (out[c].port # "status" /\ lost' = Put(lost, c, lost[c] \cup {out[c].value}))
    BY DEF SendData
  <2> QED
    BY <1>2, <1>3, <2>1 DEF Put
<1>6. delivered' \in [Connections -> Seq(Packets)]
  <2>1. \/ delivered' = delivered
        \/ out[c].port # "status" /\ delivered' = Put(delivered, c, Append(delivered[c], out[c].value))
    BY DEF SendData
  <2>2. out[c].port # "status" => Append(delivered[c], out[c].value) \in Seq(Packets)
    BY <1>2, <1>3, AppendProperties
  <2> QED
    BY <1>2, <2>1, <2>2 DEF Put
<1>7. crashed' \in BOOLEAN
  BY DEF SendData, TypeInv, CrashType
<1>8. {"gone", "recv"} \subseteq ThreadStates /\ "gone" \notin Holding /\ "recv" \notin Holding
  BY DEF ThreadStates, Holding
<1>9. PICK s \in {"gone", "recv"} : tpc' = Put(tpc, c, s)
  BY <1>1
<1>10. s \in ThreadStates /\ (s \in Holding <=> NoMessage # NoMessage) /\ s # "gate"
  BY <1>8
<1>11. ThreadTypes'
  BY <1>1, <1>2, <1>4, <1>9, <1>10, MessageKinds, EntryType
<1>12. FlagTypes'
  BY <1>1, <1>2, <1>9, <1>10, FlagsKept
<1> QED
  BY <1>1, <1>5, <1>6, <1>7, <1>11, <1>12 DEF TypeInv, CrashType, PeerTypes, RecordTypes, peervars

\* The end of the stream.
LEMMA EndType ==
  ASSUME TypeInv, NEW c \in Connections, EndOfStream(c) PROVE TypeInv'
<1>1. /\ tpc[c] = "recv" /\ tpc' = Put(tpc, c, "send")
      /\ out' = Put(out, c, [port |-> "status", value |-> Unavailable])
      /\ UNCHANGED <<servervars, peervars, status, delivered, lost, heeded, torn, raced, crashed>>
  BY DEF EndOfStream
<1>2. /\ ThreadTypes /\ torn' \in [Connections -> BOOLEAN] /\ heeded' \in [Connections -> BOOLEAN]
      /\ status' \in {Unavailable, Available} /\ raced' \in BOOLEAN
  BY <1>1 DEF TypeInv, ThreadTypes, FlagTypes
<1> DEFINE m == [port |-> "status", value |-> Unavailable]
<1>3. m \in Messages /\ m # NoMessage
  BY MessageKinds DEF NoMessage
<1>4. "send" \in ThreadStates /\ "send" \in Holding
  BY DEF ThreadStates, Holding
<1>5. out' = Put(out, c, m)
  BY <1>1
<1> HIDE DEF m
<1>6. ThreadTypes'
  BY <1>1, <1>2, <1>3, <1>4, <1>5, EntryType
<1>7. FlagTypes'
  BY <1>1, <1>2, <1>4, FlagsKept
<1> QED
  BY <1>1, <1>6, <1>7 DEF TypeInv, CrashType, PeerTypes, RecordTypes, peervars

\* Level2 connects, sends a packet in two halves, and leaves.
LEMMA Level2Type ==
  ASSUME TypeInv, NEW c \in Connections, Level2(c) PROVE TypeInv'
<1>1. CASE Connects(c)
  <2>1. /\ tpc[c] = "none" /\ tpc' = Put(tpc, c, "backlog")
        /\ UNCHANGED <<servervars, peervars, out, status, delivered, lost, heeded, torn, raced, crashed>>
    BY <1>1 DEF Connects
  <2>2. "backlog" \in ThreadStates /\ "backlog" \notin Holding /\ "none" \notin Holding
    BY DEF ThreadStates, Holding
  <2>3. /\ ThreadTypes /\ torn' \in [Connections -> BOOLEAN] /\ raced' \in BOOLEAN
        /\ ("backlog" \in Holding <=> tpc[c] \in Holding)
    BY <2>1, <2>2 DEF TypeInv, ThreadTypes, FlagTypes
  <2>4. ThreadTypes'
    BY <2>1, <2>2, <2>3, StateType
  <2>5. FlagTypes'
    BY <2>1, <2>2, <2>3, FlagsKept
  <2> QED
    BY <2>1, <2>4, <2>5 DEF TypeInv, CrashType, PeerTypes, RecordTypes, peervars
<1>2. ASSUME NEW k \in AllKinds, Level2Sends(c, k) PROVE TypeInv'
  <2> DEFINE h(first) == [packet |-> sent + 1, kind |-> k, first |-> first]
  <2>1. /\ sent < MaxPackets /\ sent' = sent + 1 /\ UNCHANGED <<servervars, ended, threadvars, crashed>>
        /\ inbox' = Put(inbox, c, inbox[c] \o <<h(TRUE), h(FALSE)>>)
    BY <1>2 DEF Level2Sends
  <2>2. sent + 1 \in Packets /\ sent' \in 0 .. MaxPackets
    BY <2>1, PacketsAssumption DEF TypeInv, PeerTypes, Packets, PacketsAssumption
  <2>3. h(TRUE) \in Halves /\ h(FALSE) \in Halves
    BY <2>2 DEF Halves
  <2> HIDE DEF h
  <2>4. inbox \in [Connections -> Seq(Halves)] /\ inbox[c] \o <<h(TRUE), h(FALSE)>> \in Seq(Halves)
    <3>1. <<h(TRUE), h(FALSE)>> \in Seq(Halves)
      <4>1. \A x, y \in Halves : <<x, y>> \in Seq(Halves)
        OBVIOUS
      <4> QED
        BY <2>3, <4>1
    <3>2. inbox \in [Connections -> Seq(Halves)]
      BY DEF TypeInv, PeerTypes
    <3> QED
      BY <3>1, <3>2, ConcatProperties
  <2>5. inbox' \in [Connections -> Seq(Halves)]
    BY <2>1, <2>4 DEF Put
  <2>6. PeerTypes'
    BY <2>1, <2>2, <2>5 DEF TypeInv, PeerTypes
  <2> QED
    BY <2>1, <2>6 DEF TypeInv, FlagTypes, CrashType, ThreadTypes, RecordTypes, servervars, threadvars
<1>3. CASE Disconnects(c)
  <2>1. /\ ended' = Put(ended, c, TRUE)
        /\ UNCHANGED <<servervars, sent, tpc, out, status, delivered, heeded, torn, raced, crashed>>
        /\ \/ UNCHANGED <<inbox, lost>>
           \/ /\ inbox' = Put(inbox, c, <<>>)
              /\ lost' = Put(lost, c, lost[c] \cup JobPackets(inbox[c]))
    BY <1>3 DEF Disconnects
  <2>2. JobPackets(inbox[c]) \subseteq Packets /\ <<>> \in Seq(Halves)
    BY JobPacketsOf DEF TypeInv, PeerTypes
  <2>3. inbox' \in [Connections -> Seq(Halves)] /\ ended' \in [Connections -> BOOLEAN]
    BY <2>1, <2>2 DEF TypeInv, PeerTypes, Put
  <2>4. lost' \in [Connections -> SUBSET Packets]
    BY <2>1, <2>2 DEF TypeInv, RecordTypes, Put
  <2>5. FlagTypes' /\ CrashType' /\ ThreadTypes'
    BY <2>1 DEF TypeInv, FlagTypes, CrashType, ThreadTypes, servervars
  <2>6. PeerTypes' /\ RecordTypes'
    BY <2>1, <2>3, <2>4 DEF TypeInv, PeerTypes, RecordTypes
  <2> QED
    BY <2>5, <2>6 DEF TypeInv
<1> QED
  BY <1>1, <1>2, <1>3 DEF Level2
-----------------------------------------------------------------------------
\* One step.
LEMMA StepTypes == ASSUME TypeInv, [Next]_vars PROVE TypeInv'
<1>1. CASE UNCHANGED vars
  BY <1>1 DEF TypeInv, FlagTypes, CrashType, ThreadTypes, PeerTypes, RecordTypes, vars, servervars, peervars,
              threadvars
<1>2. CASE Server \/ Acceptor \/ AcceptFails \/ OnClose \/ \E hmd \in BOOLEAN : LineMessage(hmd)
  BY <1>2, ServerType, CloseType, AcceptType DEF Server, Acceptor
<1>3. ASSUME NEW c \in Connections, Thread(c) \/ Level2(c) PROVE TypeInv'
  BY <1>3, ReceiveType, GateType, TopicType, DataType, EndType, Level2Type DEF Thread
<1> QED
  BY <1>1, <1>2, <1>3 DEF Next, Running

\* The first state.
LEMMA InitTypes == ASSUME Init PROVE TypeInv
<1>1. fd \in Connections
  BY ConnectionsAssumption DEF Init, ConnectionsAssumption
<1>2. FlagTypes /\ CrashType
  BY <1>1 DEF Init, FlagTypes, CrashType
<1>3. ThreadTypes
  BY MessageKinds DEF Init, ThreadTypes, ThreadStates, Holding
<1>4. PeerTypes
  BY PacketsAssumption DEF Init, PeerTypes, PacketsAssumption
<1>5. RecordTypes
  BY DEF Init, RecordTypes
<1> QED
  BY <1>2, <1>3, <1>4, <1>5 DEF TypeInv

\* The strengthened types hold throughout.
LEMMA Types == Spec => []TypeInv
BY InitTypes, StepTypes, PTL DEF Spec

(***************************************************************************)
(* A receive thread has a message to publish from the packet it has made   *)
(* sense of to the frame it has sent, and only then; whatever the order in *)
(* which connections are made, served, ended and reset.                    *)
(***************************************************************************)
THEOREM TypeInvariant == Spec => []TypeOK
BY Types, TypesFollow, PTL
-----------------------------------------------------------------------------
(***************************************************************************)
(* _ignore.  A thread between its test of the flag and the end of its      *)
(* publication has seen the flag off since its packet came; one about to   *)
(* test the flag has, if the flag is off now.                              *)
(***************************************************************************)
Heeded(c) ==
  /\ tpc[c] = "gate" /\ ~ignore => heeded[c]
  /\ tpc[c] \in {"send", "sending"} /\ out[c].port # "status" => heeded[c]
HeedInv == \A c \in Connections : Heeded(c)

\* One thread goes on.
LEMMA HeedEntry ==
  ASSUME TypeInv, HeedInv, NEW c \in Connections, NEW s, NEW m, NEW h \in BOOLEAN,
         tpc' = Put(tpc, c, s), out' = Put(out, c, m), heeded' = Put(heeded, c, h), ignore' = ignore,
         s = "gate" /\ ~ignore => h, s \in {"send", "sending"} /\ m.port # "status" => h
  PROVE  HeedInv'
<1>1. /\ tpc'[c] = s /\ out'[c] = m /\ heeded'[c] = h
      /\ \A d \in Connections : d # c => tpc'[d] = tpc[d] /\ out'[d] = out[d] /\ heeded'[d] = heeded[d]
  BY DEF Put, TypeInv, ThreadTypes
<1>2. ASSUME NEW d \in Connections
      PROVE  /\ tpc'[d] = "gate" /\ ~ignore => heeded'[d]
             /\ tpc'[d] \in {"send", "sending"} /\ out'[d].port # "status" => heeded'[d]
  <2>1. CASE d = c
    BY <1>1, <2>1
  <2>2. CASE d # c
    BY <1>1, <2>2 DEF HeedInv, Heeded
  <2> QED
    BY <2>1, <2>2
<1> QED
  BY <1>2 DEF HeedInv, Heeded

\* It goes on with the same message and the same history.
LEMMA HeedStays ==
  ASSUME TypeInv, HeedInv, NEW c \in Connections, NEW s, tpc' = Put(tpc, c, s),
         UNCHANGED <<out, heeded, ignore>>,
         s = "gate" => tpc[c] = "gate",
         s \in {"send", "sending"} => tpc[c] \in {"send", "sending"} \/ (tpc[c] = "gate" /\ ~ignore)
  PROVE  HeedInv'
<1>1. out' = Put(out, c, out[c]) /\ heeded' = Put(heeded, c, heeded[c]) /\ heeded[c] \in BOOLEAN
  BY DEF Put, TypeInv, ThreadTypes
<1>2. (s = "gate" /\ ~ignore => heeded[c]) /\ (s \in {"send", "sending"} /\ out[c].port # "status" => heeded[c])
  BY DEF HeedInv, Heeded
<1> QED
  BY <1>1, <1>2, HeedEntry

\* One step.
LEMMA StepHeeds == ASSUME TypeInv, HeedInv, [Next]_vars PROVE HeedInv'
<1>1. CASE \/ StartServer \/ DeleteServer \/ OnClose \/ AcceptFails \/ UNCHANGED vars
           \/ \E c \in Connections : Disconnects(c) \/ \E k \in AllKinds : Level2Sends(c, k)
  <2>1. UNCHANGED <<tpc, ignore, heeded, out>>
    BY <1>1 DEF StartServer, DeleteServer, OnClose, AcceptFails, Disconnects, Level2Sends, vars, servervars,
                threadvars
  <2> QED
    BY <2>1 DEF HeedInv, Heeded
<1>2. ASSUME NEW hmd \in BOOLEAN, LineMessage(hmd) PROVE HeedInv'
  <2>1. ignore' = hmd /\ heeded' = [c \in Connections |-> heeded[c] \/ ~hmd] /\ UNCHANGED <<tpc, out>>
    BY <1>2 DEF LineMessage
  <2> QED
    BY <2>1 DEF HeedInv, Heeded
<1>3. CASE CloseServer
  <2>1. /\ tpc' = [c \in Connections |-> IF tpc[c] = "backlog" THEN "gone" ELSE tpc[c]]
        /\ UNCHANGED <<ignore, heeded, out>>
    BY <1>3 DEF CloseServer
  <2>2. \A c \in Connections : tpc'[c] \in {tpc[c], "gone"}
    BY <2>1
  <2> QED
    BY <2>1, <2>2 DEF HeedInv, Heeded
<1>4. CASE NewConnection
  <2>1. UNCHANGED <<ignore, heeded, out>> /\ fd \in Connections /\ (tpc' = tpc \/ tpc' = Put(tpc, fd, "recv"))
    BY <1>4 DEF NewConnection, TypeInv, FlagTypes
  <2>2. tpc' = tpc => HeedInv'
    BY <2>1 DEF HeedInv, Heeded
  <2>3. tpc' = Put(tpc, fd, "recv") => HeedInv'
    BY <2>1, HeedStays
  <2> QED
    BY <2>1, <2>2, <2>3
<1>5. ASSUME NEW c \in Connections, Accept(c) \/ Connects(c) \/ SendTopic(c) PROVE HeedInv'
  <2>1. /\ UNCHANGED <<out, heeded, ignore>>
        /\ \/ tpc' = Put(tpc, c, "accepted") \/ tpc' = Put(tpc, c, "backlog")
           \/ tpc' = Put(tpc, c, "sending") /\ tpc[c] = "send"
    BY <1>5 DEF Accept, Connects, SendTopic, servervars, threadvars
  <2> QED
    BY <2>1, HeedStays
<1>6. ASSUME NEW c \in Connections, Receive(c) PROVE HeedInv'
  <2>1. /\ heeded' = Put(heeded, c, ~ignore) /\ ignore' = ignore /\ (~ignore) \in BOOLEAN
        /\ \/ \E m : tpc' = Put(tpc, c, "gate") /\ out' = Put(out, c, m)
           \/ \E m : tpc' = Put(tpc, c, "send") /\ out' = Put(out, c, m) /\ m.port = "status"
           \/ \E m : tpc' = Put(tpc, c, "recv") /\ out' = Put(out, c, m)
    <3>1. /\ heeded' = Put(heeded, c, ~ignore) /\ UNCHANGED servervars
          /\ \E n \in 1 .. Len(inbox[c]) :
               \/ /\ tpc' = Put(tpc, c, "gate")
                  /\ out' = Put(out, c, [port |-> Port(KindOf(c, n)), value |-> Chunk(c, n)[1].packet])
               \/ tpc' = Put(tpc, c, "send") /\ out' = Put(out, c, [port |-> "status", value |-> Available])
               \/ tpc' = Put(tpc, c, "recv") /\ out' = Put(out, c, NoMessage)
      BY <1>6, Received
    <3>2. (~ignore) \in BOOLEAN
      OBVIOUS
    <3>a. ignore' = ignore
      BY <1>6 DEF Receive, servervars
    <3> DEFINE alive == [port |-> "status", value |-> Available]
               job(n) == [port |-> Port(KindOf(c, n)), value |-> Chunk(c, n)[1].packet]
    <3>3. alive.port = "status"
      OBVIOUS
    <3>4. \E n \in 1 .. Len(inbox[c]) :
            \/ tpc' = Put(tpc, c, "gate") /\ out' = Put(out, c, job(n))
            \/ tpc' = Put(tpc, c, "send") /\ out' = Put(out, c, alive)
            \/ tpc' = Put(tpc, c, "recv") /\ out' = Put(out, c, NoMessage)
      BY <3>1
    <3> HIDE DEF alive, job
    <3> QED
      BY <3>1, <3>2, <3>a, <3>3, <3>4
  <2> QED
    BY <2>1, HeedEntry
<1>7. ASSUME NEW c \in Connections, Gate(c) PROVE HeedInv'
  <2>1. /\ tpc[c] = "gate" /\ UNCHANGED <<heeded, ignore>>
        /\ \/ tpc' = Put(tpc, c, "recv") /\ out' = Put(out, c, NoMessage)
           \/ ~ignore /\ tpc' = Put(tpc, c, "send") /\ out' = out
    BY <1>7 DEF Gate, servervars
  <2>2. heeded' = Put(heeded, c, heeded[c]) /\ heeded[c] \in BOOLEAN
    BY <2>1 DEF Put, TypeInv, ThreadTypes
  <2>3. tpc' = Put(tpc, c, "recv") /\ out' = Put(out, c, NoMessage) => HeedInv'
    BY <2>1, <2>2, HeedEntry
  <2>4. ~ignore /\ tpc' = Put(tpc, c, "send") /\ out' = out => HeedInv'
    BY <2>1, HeedStays
  <2> QED
    BY <2>1, <2>3, <2>4
<1>8. ASSUME NEW c \in Connections, SendData(c) \/ EndOfStream(c) PROVE HeedInv'
  <2>1. /\ UNCHANGED <<heeded, ignore>>
        /\ \E s \in {"gone", "recv", "send"} :
             \E m : /\ tpc' = Put(tpc, c, s) /\ out' = Put(out, c, m)
                    /\ s = "send" => m.port = "status"
    <3>1. CASE SendData(c)
      <4>1. out' = Put(out, c, NoMessage) /\ \E s \in {"gone", "recv"} : tpc' = Put(tpc, c, s)
        BY <3>1 DEF SendData
      <4>2. UNCHANGED <<heeded, ignore>>
        BY <3>1 DEF SendData, servervars
      <4> QED
        BY <4>1, <4>2
    <3>2. CASE EndOfStream(c)
      <4> DEFINE m == [port |-> "status", value |-> Unavailable]
      <4>1. tpc' = Put(tpc, c, "send") /\ out' = Put(out, c, m) /\ UNCHANGED <<heeded, ignore>>
        BY <3>2 DEF EndOfStream, servervars
      <4>2. m.port = "status"
        OBVIOUS
      <4> HIDE DEF m
      <4> QED
        BY <4>1, <4>2
    <3> QED
      BY <1>8, <3>1, <3>2
  <2>2. heeded' = Put(heeded, c, heeded[c]) /\ heeded[c] \in BOOLEAN
    BY <2>1 DEF Put, TypeInv, ThreadTypes
  <2> QED
    BY <2>1, <2>2, HeedEntry
<1> QED
  BY <1>1, <1>2, <1>3, <1>4, <1>5, <1>6, <1>7, <1>8 DEF Next, Running, Server, Acceptor, Thread, Level2

\* What is published now.
LEMMA PublishesHeeded ==
  ASSUME HeedInv, [Next]_vars, NEW c \in Connections, delivered'[c] # delivered[c]
  PROVE  heeded[c]
<1>1. PICK d \in Connections : SendData(d)
  <2>1. CASE \/ UNCHANGED vars \/ Server \/ Acceptor \/ AcceptFails \/ OnClose
             \/ \E hmd \in BOOLEAN : LineMessage(hmd)
    BY <2>1 DEF Server, StartServer, CloseServer, DeleteServer, Acceptor, Accept, NewConnection, AcceptFails,
                OnClose, LineMessage, vars, threadvars
  <2>2. ASSUME NEW d \in Connections, Level2(d) \/ Receive(d) \/ Gate(d) \/ SendTopic(d) \/ EndOfStream(d)
        PROVE  FALSE
    <3>1. UNCHANGED delivered
      BY <2>2 DEF Level2, Connects, Level2Sends, Disconnects, Receive, Gate, SendTopic, EndOfStream,
                  threadvars
    <3> QED
      BY <3>1
  <2> QED
    BY <2>1, <2>2 DEF Next, Running, Thread
<1>2. /\ tpc[d] = "sending" /\ out[d].port # "status"
      /\ delivered' = Put(delivered, d, Append(delivered[d], out[d].value))
  BY <1>1 DEF SendData
<1>3. d = c
  BY <1>2 DEF Put
<1> QED
  BY <1>2, <1>3 DEF HeedInv, Heeded

(***************************************************************************)
(* _line_check_work and the receive threads: the flag may change between   *)
(* a thread's test of it and its two frames, but a job of which every      *)
(* moment since its packet came had the flag on is not published.          *)
(***************************************************************************)
THEOREM HeedsTheLine == Spec => PublishedOnlyIfHeeded
<1>1. Init => HeedInv
  BY DEF Init, HeedInv, Heeded
<1>2. Spec => []HeedInv
  BY <1>1, Types, StepHeeds, PTL DEF Spec
<1>3. HeedInv /\ [Next]_vars => [\A c \in Connections : delivered'[c] # delivered[c] => heeded[c]]_vars
  BY PublishesHeeded
<1> QED
  BY <1>2, <1>3, PTL DEF Spec, PublishedOnlyIfHeeded
-----------------------------------------------------------------------------
(***************************************************************************)
(* Availability.  A thread whose frames on the status port were torn by    *)
(* another's has raced with it; that is all that can keep "unavailable"    *)
(* from following the last connection's end.                               *)
(***************************************************************************)
Serving == {"recv", "gate", "send", "sending"}
TornInv == \A c \in Connections : tpc[c] = "sending" /\ out[c].port = "status" /\ torn[c] => raced
AvailInv == TornInv /\ NoStaleAvailability

\* One thread goes on: nobody enters a port, and a thread that ends has said so.
LEMMA AvailEntry ==
  ASSUME TypeInv, AvailInv, NEW c \in Connections, NEW s, tpc' = Put(tpc, c, s), s # "sending",
         \A d \in Connections : d # c => out'[d] = out[d],
         UNCHANGED <<torn, raced>>,
         \/ status' = status /\ (s \in Serving \/ tpc[c] \notin Serving)
         \/ status' = Unavailable
         \/ s \in Serving
         \/ raced
  PROVE  AvailInv'
<1>1. tpc'[c] = s /\ \A d \in Connections : d # c => tpc'[d] = tpc[d]
  BY DEF Put, TypeInv, ThreadTypes
<1>2. TornInv'
  BY <1>1 DEF AvailInv, TornInv
<1>3. NoStaleAvailability'
  <2> SUFFICES ASSUME status' = Available, ~raced PROVE \E d \in Connections : tpc'[d] \in Serving
    BY DEF NoStaleAvailability, Serving
  <2>1. CASE s \in Serving
    BY <1>1, <2>1
  <2>2. CASE status' = status /\ tpc[c] \notin Serving
    <3>1. PICK d \in Connections : tpc[d] \in Serving
      BY <2>2 DEF AvailInv, NoStaleAvailability, Serving
    <3> QED
      BY <1>1, <2>2, <3>1
  <2> QED
    BY <2>1, <2>2 DEF Unavailable, Available
<1> QED
  BY <1>2, <1>3 DEF AvailInv

\* The data frame.
LEMMA DataAvail ==
  ASSUME TypeInv, AvailInv, NEW c \in Connections, SendData(c)
  PROVE  AvailInv'
<1>1. /\ tpc[c] = "sending" /\ out' = Put(out, c, NoMessage) /\ UNCHANGED <<torn, raced>>
      /\ out[c].port = "status" /\ out[c].value = Unavailable => tpc' = Put(tpc, c, "gone")
      /\ ~(out[c].port = "status" /\ out[c].value = Unavailable) => tpc' = Put(tpc, c, "recv")
      /\ torn[c] \/ (out[c].port = "status" => status' = out[c].value)
  BY DEF SendData
<1>2. \A d \in Connections : d # c => out'[d] = out[d]
  BY <1>1 DEF Put, TypeInv, ThreadTypes
<1>3. CASE out[c].port = "status" /\ out[c].value = Unavailable
  <2>1. raced \/ status' = Unavailable
    BY <1>1, <1>3 DEF AvailInv, TornInv
  <2> QED
    BY <1>1, <1>2, <1>3, <2>1, AvailEntry
<1>4. CASE ~(out[c].port = "status" /\ out[c].value = Unavailable)
  <2>1. "recv" \in Serving
    BY DEF Serving
  <2> QED
    BY <1>1, <1>2, <1>4, <2>1, AvailEntry
<1> QED
  BY <1>3, <1>4

\* The topic frame: who is inside the port is torn, and so is who enters.
LEMMA TopicAvail ==
  ASSUME TypeInv, AvailInv, NEW c \in Connections, SendTopic(c)
  PROVE  AvailInv'
<1> DEFINE others == Inside(out[c].port)
<1>1. /\ tpc[c] = "send" /\ tpc' = Put(tpc, c, "sending") /\ UNCHANGED <<out, status>>
      /\ torn' = [d \in Connections |-> d \in others \/ (d = c /\ others # {}) \/ (d # c /\ torn[d])]
      /\ raced' = (raced \/ (others # {} /\ out[c].port = "status"))
  BY Zenon DEF SendTopic
<1>2. tpc'[c] = "sending" /\ \A d \in Connections : d # c => tpc'[d] = tpc[d]
  BY <1>1 DEF Put, TypeInv, ThreadTypes
<1>3. \A d \in Connections : d \in others => tpc[d] = "sending" /\ out[d].port = out[c].port
  BY DEF Inside
<1>4. \A d \in Connections : torn'[d] <=> d \in others \/ (d = c /\ others # {}) \/ (d # c /\ torn[d])
  BY <1>1
<1> HIDE DEF others
<1>5. ASSUME NEW d \in Connections, tpc'[d] = "sending", out[d].port = "status", torn'[d] PROVE raced'
  <2>1. CASE d \in others
    BY <1>1, <1>3, <1>5, <2>1
  <2>2. CASE d = c /\ others # {}
    BY <1>1, <1>5, <2>2
  <2>3. CASE d # c /\ torn[d]
    BY <1>1, <1>2, <1>5, <2>3 DEF AvailInv, TornInv
  <2> QED
    BY <1>4, <1>5, <2>1, <2>2, <2>3
<1>6. TornInv'
  BY <1>1, <1>5 DEF TornInv
<1>7. NoStaleAvailability'
  BY <1>2 DEF NoStaleAvailability
<1> QED
  BY <1>6, <1>7 DEF AvailInv

\* One step.
LEMMA StepAvail == ASSUME TypeInv, AvailInv, [Next]_vars PROVE AvailInv'
<1>1. CASE \/ StartServer \/ DeleteServer \/ OnClose \/ AcceptFails \/ UNCHANGED vars
           \/ \E hmd \in BOOLEAN : LineMessage(hmd)
           \/ \E c \in Connections : Disconnects(c) \/ \E k \in AllKinds : Level2Sends(c, k)
  <2>1. UNCHANGED <<tpc, status, torn, raced, out>>
    BY <1>1 DEF StartServer, DeleteServer, OnClose, AcceptFails, LineMessage, Disconnects, Level2Sends, vars,
                threadvars
  <2> QED
    BY <2>1 DEF AvailInv, TornInv, NoStaleAvailability
<1>2. CASE CloseServer
  <2>1. /\ tpc' = [c \in Connections |-> IF tpc[c] = "backlog" THEN "gone" ELSE tpc[c]]
        /\ UNCHANGED <<status, torn, raced, out>>
    BY <1>2 DEF CloseServer
  <2>2. \A c \in Connections : (tpc'[c] = tpc[c]) \/ (tpc'[c] = "gone" /\ tpc[c] = "backlog")
    BY <2>1
  <2>3. TornInv'
    BY <2>1, <2>2 DEF AvailInv, TornInv
  <2>4. NoStaleAvailability'
    BY <2>1, <2>2 DEF AvailInv, NoStaleAvailability
  <2> QED
    BY <2>3, <2>4 DEF AvailInv
<1>3. CASE NewConnection
  <2>1. UNCHANGED <<status, torn, raced, out>> /\ fd \in Connections /\ (tpc' = tpc \/ tpc' = Put(tpc, fd, "recv"))
    BY <1>3 DEF NewConnection, TypeInv, FlagTypes
  <2>2. tpc' = tpc => AvailInv'
    BY <2>1 DEF AvailInv, TornInv, NoStaleAvailability
  <2>3. "recv" \in Serving
    BY DEF Serving
  <2> QED
    BY <2>1, <2>2, <2>3, AvailEntry
<1>4. ASSUME NEW c \in Connections, Accept(c) \/ Connects(c) PROVE AvailInv'
  <2>1. /\ UNCHANGED <<status, torn, raced, out>> /\ tpc[c] \in {"backlog", "none"}
        /\ tpc' = Put(tpc, c, "accepted") \/ tpc' = Put(tpc, c, "backlog")
    BY <1>4 DEF Accept, Connects
  <2>2. tpc[c] \notin Serving
    BY <2>1 DEF Serving
  <2> QED
    BY <2>1, <2>2, AvailEntry
<1>5. ASSUME NEW c \in Connections, Receive(c) \/ Gate(c) \/ EndOfStream(c) PROVE AvailInv'
  <2>1. /\ UNCHANGED <<status, torn, raced>> /\ \A d \in Connections : d # c => out'[d] = out[d]
        /\ \E s \in {"gate", "send", "recv"} : tpc' = Put(tpc, c, s)
    <3>1. CASE Receive(c)
      <4>1. UNCHANGED <<status, torn, raced>> /\ \E m : out' = Put(out, c, m)
        BY <3>1, Received
      <4>2. \E s \in {"gate", "send", "recv"} : tpc' = Put(tpc, c, s)
        BY <3>1, Received
      <4> QED
        BY <4>1, <4>2 DEF Put, TypeInv, ThreadTypes
    <3>2. CASE Gate(c) \/ EndOfStream(c)
      <4>1. UNCHANGED <<status, torn, raced>> /\ \E s \in {"send", "recv"} : tpc' = Put(tpc, c, s)
        BY <3>2 DEF Gate, EndOfStream
      <4>2. out' = out \/ \E m : out' = Put(out, c, m)
        BY <3>2 DEF Gate, EndOfStream
      <4> QED
        BY <4>1, <4>2 DEF Put, TypeInv, ThreadTypes
    <3> QED
      BY <1>5, <3>1, <3>2
  <2>2. {"gate", "send", "recv"} \subseteq Serving
    BY DEF Serving
  <2>3. PICK s \in {"gate", "send", "recv"} : tpc' = Put(tpc, c, s)
    BY <2>1
  <2>4. s \in Serving /\ s # "sending"
    BY <2>2
  <2> QED
    BY <2>1, <2>3, <2>4, AvailEntry
<1> QED
  BY <1>1, <1>2, <1>3, <1>4, <1>5, TopicAvail, DataAvail
  DEF Next, Running, Server, Acceptor, Thread, Level2

(***************************************************************************)
(* on_socket_closed: when the last connection has ended, "available" is    *)
(* not the last thing published, in whatever order old and new connections *)
(* come and go, unless two threads were inside the status port at once.    *)
(***************************************************************************)
THEOREM NoStale == Spec => []NoStaleAvailability
<1>1. Init => AvailInv
  BY DEF Init, AvailInv, TornInv, NoStaleAvailability, Unavailable, Available
<1>2. AvailInv => NoStaleAvailability
  BY DEF AvailInv
<1> QED
  BY <1>1, <1>2, Types, StepAvail, PTL DEF Spec
-----------------------------------------------------------------------------
(***************************************************************************)
(* The jobs of one connection: q is what the kernel holds for recv, m what *)
(* the thread publishes, pub what it has published, los what never will be *)
(* published, and n packets have been sent.  The stream is in the order of *)
(* sending, and no packet that begins in it has been seen before.          *)
(***************************************************************************)
Ordered(q) ==
  \A i, j \in 1 .. Len(q) : i < j => /\ q[i].packet <= q[j].packet
                                     /\ q[j].first => q[i].packet < q[j].packet
                                     /\ q[i].packet = q[j].packet => q[i].first
Seen(p, m, pub, los) ==
  p \in los \/ (\E i \in 1 .. Len(pub) : pub[i] = p) \/ (m.port \in JobPorts /\ m.value = p)
Ahead(q, m, pub, los) ==
  \A i \in 1 .. Len(q) : q[i].first => \A p \in Packets : Seen(p, m, pub, los) => p < q[i].packet
Sent(q, m, pub, los, n) ==
  /\ \A i \in 1 .. Len(q) : q[i].packet <= n
  /\ \A p \in Packets : Seen(p, m, pub, los) => p <= n
Increasing(pub) == \A i, j \in 1 .. Len(pub) : i < j => pub[i] < pub[j]
Apart(m, pub, los) ==
  /\ \A i \in 1 .. Len(pub) : pub[i] \notin los
  /\ m.port \in JobPorts => m.value \notin los /\ \A i \in 1 .. Len(pub) : pub[i] < m.value
Flow(q, m, pub, los, n) ==
  /\ Ordered(q) /\ Ahead(q, m, pub, los) /\ Sent(q, m, pub, los, n)
  /\ Increasing(pub) /\ Apart(m, pub, los)

\* A packet is somewhere: it begins in the stream, or has been seen.
At(p, q, m, pub, los) == p \in JobPackets(q) \/ Seen(p, m, pub, los)

\* Level2 sends the next packet, on this connection or on another.
LEMMA FlowSends ==
  ASSUME NEW q \in Seq(Halves), NEW m \in Messages, NEW pub \in Seq(Packets), NEW los \in SUBSET Packets,
         NEW n \in 0 .. MaxPackets, n < MaxPackets, Flow(q, m, pub, los, n),
         NEW a \in Halves, NEW b \in Halves, a.packet = n + 1, b.packet = n + 1, a.first, ~b.first
  PROVE  /\ Flow(q \o <<a, b>>, m, pub, los, n + 1) /\ Flow(q, m, pub, los, n + 1)
         /\ \A p : At(p, q, m, pub, los) => At(p, q \o <<a, b>>, m, pub, los)
         /\ a.kind \in JobKinds => At(n + 1, q \o <<a, b>>, m, pub, los)
<1> DEFINE r == q \o <<a, b>>
<1>1. Len(q) \in Nat /\ \A i \in 1 .. Len(q) : q[i] \in Halves
  BY LenProperties, ElementOfSeq
<1>2. <<a, b>> \in Seq(Halves) /\ Len(<<a, b>>) = 2 /\ <<a, b>>[1] = a /\ <<a, b>>[2] = b
  OBVIOUS
<1>3. /\ r \in Seq(Halves) /\ Len(r) = Len(q) + 2
      /\ \A i \in 1 .. Len(q) : r[i] = q[i]
      /\ r[Len(q) + 1] = a /\ r[Len(q) + 2] = b
  <2>1. /\ r \in Seq(Halves) /\ Len(r) = Len(q) + Len(<<a, b>>)
        /\ \A i \in 1 .. Len(q) + Len(<<a, b>>) : r[i] = IF i <= Len(q) THEN q[i] ELSE <<a, b>>[i - Len(q)]
    BY <1>2, ConcatProperties
  <2> HIDE DEF r
  <2>2. /\ (Len(q) + 1) - Len(q) = 1 /\ (Len(q) + 2) - Len(q) = 2 /\ ~(Len(q) + 1 <= Len(q)) /\ ~(Len(q) + 2 <= Len(q))
        /\ Len(q) + 1 \in 1 .. Len(q) + 2 /\ Len(q) + 2 \in 1 .. Len(q) + 2
        /\ \A i \in 1 .. Len(q) : i \in 1 .. Len(q) + 2 /\ i <= Len(q)
    BY <1>1
  <2>3. r[Len(q) + 1] = a /\ r[Len(q) + 2] = b
    BY <1>2, <2>1, <2>2
  <2>4. \A i \in 1 .. Len(q) : r[i] = q[i]
    BY <1>2, <2>1, <2>2
  <2> QED
    BY <1>2, <2>1, <2>3, <2>4
<1> HIDE DEF r
<1>4. \A i \in 1 .. Len(r) : i \in 1 .. Len(q) \/ i = Len(q) + 1 \/ i = Len(q) + 2
  BY <1>1, <1>3
<1>5. /\ MaxPackets \in Nat /\ n \in Nat
      /\ \A h \in Halves : h.packet \in Nat /\ h.packet \in Packets
      /\ \A p \in Packets : p \in Nat
  BY PacketsAssumption DEF PacketsAssumption, Packets, Halves
<1>6. Ordered(r)
  <2> SUFFICES ASSUME NEW i \in 1 .. Len(r), NEW j \in 1 .. Len(r), i < j
               PROVE  /\ r[i].packet <= r[j].packet /\ (r[j].first => r[i].packet < r[j].packet)
                      /\ (r[i].packet = r[j].packet => r[i].first)
    BY DEF Ordered
  <2>1. CASE i \in 1 .. Len(q) /\ j \in 1 .. Len(q)
    BY <1>3, <2>1 DEF Flow, Ordered
  <2>2. CASE i \in 1 .. Len(q) /\ j \notin 1 .. Len(q)
    <3>1. r[i].packet <= n /\ r[j].packet = n + 1 /\ r[i].packet \in Nat
      BY <1>1, <1>3, <1>4, <1>5, <2>2 DEF Flow, Sent
    <3> QED
      BY <1>5, <3>1
  <2>3. CASE i = Len(q) + 1 /\ j = Len(q) + 2
    BY <1>3, <1>5, <2>3
  <2> QED
    BY <1>1, <1>4, <2>1, <2>2, <2>3
<1>7. Ahead(r, m, pub, los)
  <2> SUFFICES ASSUME NEW i \in 1 .. Len(r), r[i].first, NEW p \in Packets, Seen(p, m, pub, los)
               PROVE  p < r[i].packet
    BY DEF Ahead
  <2>1. CASE i \in 1 .. Len(q)
    BY <1>3, <2>1 DEF Flow, Ahead
  <2>2. CASE i = Len(q) + 1 \/ i = Len(q) + 2
    <3>1. p <= n /\ r[i].packet = n + 1
      BY <1>3, <2>2 DEF Flow, Sent
    <3> QED
      BY <1>5, <3>1
  <2> QED
    BY <1>4, <2>1, <2>2
<1>8. Sent(r, m, pub, los, n + 1) /\ Sent(q, m, pub, los, n + 1)
  <2>1. (\A i \in 1 .. Len(q) : q[i].packet <= n + 1) /\ \A p \in Packets : Seen(p, m, pub, los) => p <= n + 1
    <3>1. ASSUME NEW i \in 1 .. Len(q) PROVE q[i].packet <= n + 1
      <4>1. q[i].packet <= n /\ q[i].packet \in Nat
        BY <1>1, <1>5 DEF Flow, Sent
      <4> QED
        BY <1>5, <4>1
    <3>2. ASSUME NEW p \in Packets, Seen(p, m, pub, los) PROVE p <= n + 1
      <4>1. p <= n /\ p \in Nat
        BY <1>5, <3>2 DEF Flow, Sent
      <4> QED
        BY <1>5, <4>1
    <3> QED
      BY <3>1, <3>2
  <2>2. ASSUME NEW i \in 1 .. Len(r) PROVE r[i].packet <= n + 1
    <3>1. CASE i \in 1 .. Len(q)
      <4>1. r[i] = q[i]
        BY <1>3, <3>1
      <4> QED
        BY <2>1, <3>1, <4>1
    <3>2. CASE i = Len(q) + 1 \/ i = Len(q) + 2
      <4>1. r[i].packet = n + 1
        BY <1>3, <3>2
      <4> QED
        BY <1>5, <4>1
    <3> QED
      BY <1>4, <3>1, <3>2
  <2> QED
    BY <2>1, <2>2 DEF Sent
<1>9. JobPackets(r) = JobPackets(q) \cup (IF a.kind \in JobKinds THEN {n + 1} ELSE {})
  BY StreamGrows DEF r
<1> QED
  BY <1>6, <1>7, <1>8, <1>9 DEF Flow, At, r

\* A reset: what the kernel holds is lost.
LEMMA FlowReset ==
  ASSUME NEW q \in Seq(Halves), NEW m \in Messages, NEW pub \in Seq(Packets), NEW los \in SUBSET Packets,
         NEW n \in 0 .. MaxPackets, Flow(q, m, pub, los, n)
  PROVE  /\ Flow(<<>>, m, pub, los \cup JobPackets(q), n)
         /\ \A p : At(p, q, m, pub, los) => At(p, <<>>, m, pub, los \cup JobPackets(q))
<1> DEFINE l == los \cup JobPackets(q)
<1>1. Len(q) \in Nat /\ \A i \in 1 .. Len(q) : q[i] \in Halves
  BY LenProperties, ElementOfSeq
<1>2. /\ MaxPackets \in Nat /\ n \in Nat
      /\ \A h \in Halves : h.packet \in Nat /\ h.packet \in Packets
      /\ \A p \in Packets : p \in Nat
      /\ \A i \in 1 .. Len(pub) : pub[i] \in Packets
      /\ m.port \in JobPorts => m.value \in Packets
  BY PacketsAssumption, ElementOfSeq, MessageKinds DEF PacketsAssumption, Packets, Halves
<1>3. \A p \in JobPackets(q) : /\ p \in Packets /\ p <= n
                               /\ \A x \in Packets : Seen(x, m, pub, los) => x < p
  <2> SUFFICES ASSUME NEW p \in JobPackets(q)
               PROVE  p \in Packets /\ p <= n /\ \A x \in Packets : Seen(x, m, pub, los) => x < p
    OBVIOUS
  <2>1. PICK i \in 1 .. Len(q) : StartsJob(q[i]) /\ q[i].packet = p
    BY JobPacketsOf
  <2> QED
    BY <1>1, <1>2, <2>1 DEF StartsJob, Flow, Sent, Ahead
<1>4. \A p : Seen(p, m, pub, l) <=> Seen(p, m, pub, los) \/ p \in JobPackets(q)
  BY DEF Seen
<1> HIDE DEF l
<1>5. Ordered(<<>>) /\ Ahead(<<>>, m, pub, l)
  <2>1. 1 .. Len(<<>>) = {}
    OBVIOUS
  <2> QED
    BY <2>1 DEF Ordered, Ahead
<1>6. Sent(<<>>, m, pub, l, n)
  <2>1. 1 .. Len(<<>>) = {}
    OBVIOUS
  <2> QED
    BY <1>3, <1>4, <2>1 DEF Flow, Sent
<1>7. Apart(m, pub, l)
  <2>1. \A p \in JobPackets(q) : ~(p < p)
    BY <1>2, <1>3
  <2>2. \A i \in 1 .. Len(pub) : pub[i] \notin l
    BY <1>2, <1>3, <2>1 DEF Flow, Apart, Seen, l
  <2>3. m.port \in JobPorts => m.value \notin l
    BY <1>2, <1>3, <2>1 DEF Flow, Apart, Seen, l
  <2> QED
    BY <2>2, <2>3 DEF Flow, Apart
<1>8. \A p : At(p, q, m, pub, los) => At(p, <<>>, m, pub, l)
  BY <1>4 DEF At
<1> QED
  BY <1>5, <1>6, <1>7, <1>8 DEF Flow, l

\* recv takes k halves: what is left is in order, and only what begins in it is ahead.
LEMMA FlowRest ==
  ASSUME NEW q \in Seq(Halves), NEW m \in Messages, NEW pub \in Seq(Packets), NEW los \in SUBSET Packets,
         NEW n \in 0 .. MaxPackets, Flow(q, m, pub, los, n), NEW k \in 1 .. Len(q)
  PROVE  /\ Flow(SubSeq(q, k + 1, Len(q)), m, pub, los, n)
         /\ \A j \in 1 .. Len(SubSeq(q, k + 1, Len(q))) :
              SubSeq(q, k + 1, Len(q))[j].first =>
                \A i \in 1 .. k : q[i].packet < SubSeq(q, k + 1, Len(q))[j].packet
         /\ \A p \in JobPackets(q) : p \in JobPackets(SubSeq(q, 1, k)) \/ p \in JobPackets(SubSeq(q, k + 1, Len(q)))
<1> DEFINE chunk == SubSeq(q, 1, k)
           rest == SubSeq(q, k + 1, Len(q))
<1>1. /\ Len(q) \in Nat /\ k \in Nat
      /\ chunk \in Seq(Halves) /\ Len(chunk) = k /\ \A i \in 1 .. k : chunk[i] = q[i]
      /\ rest \in Seq(Halves) /\ Len(rest) = Len(q) - k /\ \A i \in 1 .. Len(q) - k : rest[i] = q[k + i]
  BY Cut
<1> HIDE DEF chunk, rest
<1>2. \A j \in 1 .. Len(rest) : k + j \in 1 .. Len(q) /\ k < k + j /\ rest[j] = q[k + j] /\ j \in Nat
  BY <1>1
<1>3. Ordered(rest)
  <2> SUFFICES ASSUME NEW i \in 1 .. Len(rest), NEW j \in 1 .. Len(rest), i < j
               PROVE  /\ rest[i].packet <= rest[j].packet /\ (rest[j].first => rest[i].packet < rest[j].packet)
                      /\ (rest[i].packet = rest[j].packet => rest[i].first)
    BY DEF Ordered
  <2>1. k + i < k + j
    BY <1>1, <1>2
  <2> QED
    BY <1>2, <2>1 DEF Flow, Ordered
<1>4. Ahead(rest, m, pub, los)
  BY <1>2 DEF Flow, Ahead
<1>5. Sent(rest, m, pub, los, n)
  BY <1>2 DEF Flow, Sent
<1>6. ASSUME NEW j \in 1 .. Len(rest), rest[j].first, NEW i \in 1 .. k PROVE q[i].packet < rest[j].packet
  <2>1. i \in 1 .. Len(q) /\ i < k + j
    BY <1>1, <1>2
  <2> QED
    BY <1>2, <1>6, <2>1 DEF Flow, Ordered
<1>7. JobPackets(q) = JobPackets(chunk) \cup JobPackets(rest)
  BY StreamSplits DEF chunk, rest
<1> QED
  BY <1>3, <1>4, <1>5, <1>6, <1>7 DEF Flow, chunk, rest

\* It makes no job of them.
LEMMA FlowTakes ==
  ASSUME NEW q \in Seq(Halves), NEW m \in Messages, NEW pub \in Seq(Packets), NEW los \in SUBSET Packets,
         NEW n \in 0 .. MaxPackets, Flow(q, m, pub, los, n), NEW k \in 1 .. Len(q)
  PROVE  /\ Flow(SubSeq(q, k + 1, Len(q)), m, pub, los \cup JobPackets(SubSeq(q, 1, k)), n)
         /\ \A p : At(p, q, m, pub, los)
                     => At(p, SubSeq(q, k + 1, Len(q)), m, pub, los \cup JobPackets(SubSeq(q, 1, k)))
<1> DEFINE chunk == SubSeq(q, 1, k)
           rest == SubSeq(q, k + 1, Len(q))
           l == los \cup JobPackets(chunk)
<1>1. /\ Len(q) \in Nat /\ \A i \in 1 .. Len(q) : q[i] \in Halves
      /\ chunk \in Seq(Halves) /\ Len(chunk) = k /\ \A i \in 1 .. k : chunk[i] = q[i]
      /\ rest \in Seq(Halves)
  BY Cut
<1>2. /\ Flow(rest, m, pub, los, n)
      /\ \A j \in 1 .. Len(rest) : rest[j].first => \A i \in 1 .. k : q[i].packet < rest[j].packet
      /\ \A p \in JobPackets(q) : p \in JobPackets(chunk) \/ p \in JobPackets(rest)
  BY FlowRest
<1> HIDE DEF chunk, rest
<1>3. /\ MaxPackets \in Nat /\ n \in Nat
      /\ \A h \in Halves : h.packet \in Nat /\ h.packet \in Packets
      /\ \A p \in Packets : p \in Nat
      /\ \A i \in 1 .. Len(pub) : pub[i] \in Packets
      /\ m.port \in JobPorts => m.value \in Packets
  BY PacketsAssumption, ElementOfSeq, MessageKinds DEF PacketsAssumption, Packets, Halves
<1>4. ASSUME NEW p \in JobPackets(chunk)
      PROVE  /\ p \in Packets /\ p <= n /\ \A x \in Packets : Seen(x, m, pub, los) => x < p
             /\ \A j \in 1 .. Len(rest) : rest[j].first => p < rest[j].packet
  <2>1. PICK i \in 1 .. k : StartsJob(chunk[i]) /\ chunk[i].packet = p
    BY <1>1, JobPacketsOf
  <2>2. i \in 1 .. Len(q) /\ q[i].packet = p /\ q[i].first
    BY <1>1, <2>1 DEF StartsJob
  <2> QED
    BY <1>1, <1>2, <1>3, <2>2 DEF Flow, Sent, Ahead
<1>5. \A p : Seen(p, m, pub, l) <=> Seen(p, m, pub, los) \/ p \in JobPackets(chunk)
  BY DEF Seen
<1> HIDE DEF l
<1>6. Ahead(rest, m, pub, l)
  BY <1>2, <1>4, <1>5 DEF Flow, Ahead
<1>7. Sent(rest, m, pub, l, n)
  BY <1>2, <1>4, <1>5 DEF Flow, Sent
<1>8. Apart(m, pub, l)
  <2>1. \A p \in JobPackets(chunk) : ~(p < p)
    BY <1>3, <1>4
  <2>2. \A i \in 1 .. Len(pub) : pub[i] \notin l
    BY <1>3, <1>4, <2>1 DEF Flow, Apart, Seen, l
  <2>3. m.port \in JobPorts => m.value \notin l
    BY <1>3, <1>4, <2>1 DEF Flow, Apart, Seen, l
  <2> QED
    BY <2>2, <2>3 DEF Flow, Apart
<1>9. \A p : At(p, q, m, pub, los) => At(p, rest, m, pub, l)
  BY <1>2, <1>5 DEF At
<1> QED
  BY <1>2, <1>6, <1>7, <1>8, <1>9 DEF Flow, l, chunk, rest

\* It makes a job of them: they are the two halves of one packet.
LEMMA FlowJob ==
  ASSUME NEW q \in Seq(Halves), NEW o \in Messages, NEW m \in Messages, NEW pub \in Seq(Packets),
         NEW los \in SUBSET Packets, NEW n \in 0 .. MaxPackets, Flow(q, o, pub, los, n),
         Len(q) >= 2, q[1].packet = q[2].packet, o.port \notin JobPorts,
         m.port \in JobPorts, m.value = q[1].packet
  PROVE  /\ Flow(SubSeq(q, 3, Len(q)), m, pub, los, n)
         /\ \A p : At(p, q, o, pub, los) => At(p, SubSeq(q, 3, Len(q)), m, pub, los)
<1> DEFINE chunk == SubSeq(q, 1, 2)
           rest == SubSeq(q, 2 + 1, Len(q))
           v == q[1].packet
<1>0. Len(q) \in Nat /\ 2 \in 1 .. Len(q) /\ 1 \in 1 .. Len(q)
  BY LenProperties
<1>1. /\ \A i \in 1 .. Len(q) : q[i] \in Halves
      /\ chunk \in Seq(Halves) /\ Len(chunk) = 2 /\ chunk[1] = q[1] /\ chunk[2] = q[2]
      /\ rest \in Seq(Halves)
  BY <1>0, Cut
<1>2. /\ Flow(rest, o, pub, los, n)
      /\ \A j \in 1 .. Len(rest) : rest[j].first => \A i \in 1 .. 2 : q[i].packet < rest[j].packet
      /\ \A p \in JobPackets(q) : p \in JobPackets(chunk) \/ p \in JobPackets(rest)
  BY <1>0, FlowRest
<1>3. rest = SubSeq(q, 3, Len(q))
  OBVIOUS
<1> HIDE DEF chunk, rest
<1>4. v \in Packets /\ v <= n /\ \A x \in Packets : Seen(x, o, pub, los) => x < v
  <2>1. q[1].first
    BY <1>0 DEF Flow, Ordered
  <2> QED
    BY <1>0, <1>1, <2>1 DEF Flow, Sent, Ahead, Halves
<1>5. \A j \in 1 .. Len(rest) : rest[j].first => v < rest[j].packet
  BY <1>2
<1>6. \A p \in JobPackets(chunk) : p = v
  <2>1. \A i \in 1 .. Len(chunk) : i = 1 \/ i = 2
    BY <1>1
  <2> SUFFICES ASSUME NEW p \in JobPackets(chunk) PROVE p = v
    OBVIOUS
  <2>2. PICK i \in 1 .. Len(chunk) : chunk[i].packet = p
    BY <1>1, JobPacketsOf
  <2> QED
    BY <1>1, <2>1, <2>2
<1>7. m.value = v
  OBVIOUS
<1> HIDE DEF v
<1>8. \A p : Seen(p, m, pub, los) <=> Seen(p, o, pub, los) \/ p = v
  BY <1>7 DEF Seen
<1>9. Ahead(rest, m, pub, los) /\ Sent(rest, m, pub, los, n)
  BY <1>2, <1>4, <1>5, <1>8 DEF Flow, Ahead, Sent
<1>10. Apart(m, pub, los)
  <2>1. \A i \in 1 .. Len(pub) : pub[i] \in Packets
    BY ElementOfSeq
  <2>2. v \in Nat /\ ~(v < v)
    BY <1>4, PacketsAssumption DEF PacketsAssumption, Packets
  <2>3. v \notin los /\ \A i \in 1 .. Len(pub) : pub[i] < v
    BY <1>4, <2>1, <2>2 DEF Seen
  <2> QED
    BY <1>7, <2>3 DEF Flow, Apart
<1>11. \A p : At(p, q, o, pub, los) => At(p, rest, m, pub, los)
  BY <1>2, <1>6, <1>8 DEF At
<1> QED
  BY <1>2, <1>3, <1>9, <1>10, <1>11 DEF Flow

\* The message changes, but neither the old one nor the new one is a job.
LEMMA FlowMessage ==
  ASSUME NEW q, NEW o, NEW m, NEW pub, NEW los, NEW n, Flow(q, o, pub, los, n),
         o.port \notin JobPorts, m.port \notin JobPorts
  PROVE  /\ Flow(q, m, pub, los, n)
         /\ \A p : At(p, q, o, pub, los) => At(p, q, m, pub, los)
<1>1. \A p : Seen(p, m, pub, los) <=> Seen(p, o, pub, los)
  BY DEF Seen
<1>2. Ahead(q, m, pub, los) /\ Sent(q, m, pub, los, n)
  BY <1>1 DEF Flow, Ahead, Sent
<1> QED
  BY <1>1, <1>2 DEF Flow, Apart, At

\* The job the thread holds is dropped.
LEMMA FlowDrops ==
  ASSUME NEW q, NEW o \in Messages, NEW m, NEW pub \in Seq(Packets), NEW los \in SUBSET Packets, NEW n,
         Flow(q, o, pub, los, n), o.port \in JobPorts, m.port \notin JobPorts
  PROVE  /\ Flow(q, m, pub, los \cup {o.value}, n)
         /\ \A p : At(p, q, o, pub, los) => At(p, q, m, pub, los \cup {o.value})
<1>1. \A p : Seen(p, m, pub, los \cup {o.value}) <=> Seen(p, o, pub, los)
  BY DEF Seen
<1>2. Ahead(q, m, pub, los \cup {o.value}) /\ Sent(q, m, pub, los \cup {o.value}, n)
  BY <1>1 DEF Flow, Ahead, Sent
<1>3. Apart(m, pub, los \cup {o.value})
  <2>1. \A i \in 1 .. Len(pub) : pub[i] < o.value /\ pub[i] \in Nat
    BY ElementOfSeq, PacketsAssumption DEF PacketsAssumption, Packets, Flow, Apart
  <2>2. o.value \in Nat
    BY MessageKinds, PacketsAssumption DEF PacketsAssumption, Packets
  <2>3. \A i \in 1 .. Len(pub) : pub[i] # o.value
    BY <2>1, <2>2
  <2> QED
    BY <2>3 DEF Flow, Apart
<1> QED
  BY <1>1, <1>2, <1>3 DEF Flow, At

\* The job the thread holds is published.
LEMMA FlowPublishes ==
  ASSUME NEW q, NEW o \in Messages, NEW m, NEW pub \in Seq(Packets), NEW los \in SUBSET Packets, NEW n,
         Flow(q, o, pub, los, n), o.port \in JobPorts, m.port \notin JobPorts
  PROVE  /\ Flow(q, m, Append(pub, o.value), los, n)
         /\ \A p : At(p, q, o, pub, los) => At(p, q, m, Append(pub, o.value), los)
<1> DEFINE a == Append(pub, o.value)
<1>1. Len(pub) \in Nat /\ o.value \in Packets
  BY LenProperties, MessageKinds
<1>2. Len(a) = Len(pub) + 1 /\ a[Len(pub) + 1] = o.value /\ \A i \in 1 .. Len(pub) : a[i] = pub[i]
  BY <1>1, AppendProperties
<1> HIDE DEF a
<1>3. /\ \A i \in 1 .. Len(a) : i \in 1 .. Len(pub) \/ i = Len(pub) + 1
      /\ Len(pub) + 1 \in 1 .. Len(a) /\ \A i \in 1 .. Len(pub) : i \in 1 .. Len(a)
  BY <1>1, <1>2
<1>4. \A p : (\E i \in 1 .. Len(a) : a[i] = p) <=> (\E i \in 1 .. Len(pub) : pub[i] = p) \/ p = o.value
  BY <1>2, <1>3
<1>5. \A p : Seen(p, m, a, los) <=> Seen(p, o, pub, los)
  BY <1>4 DEF Seen
<1>6. Ahead(q, m, a, los) /\ Sent(q, m, a, los, n)
  BY <1>5 DEF Flow, Ahead, Sent
<1>7. Increasing(a)
  <2> SUFFICES ASSUME NEW i \in 1 .. Len(a), NEW j \in 1 .. Len(a), i < j PROVE a[i] < a[j]
    BY DEF Increasing
  <2>1. i \in 1 .. Len(pub)
    BY <1>1, <1>2
  <2>2. CASE j \in 1 .. Len(pub)
    BY <1>2, <2>1, <2>2 DEF Flow, Increasing
  <2>3. CASE j = Len(pub) + 1
    BY <1>2, <2>1, <2>3 DEF Flow, Apart
  <2> QED
    BY <1>3, <2>2, <2>3
<1>8. Apart(m, a, los)
  BY <1>2, <1>3 DEF Flow, Apart
<1> QED
  BY <1>5, <1>6, <1>7, <1>8 DEF Flow, At, a
-----------------------------------------------------------------------------
(***************************************************************************)
(* The jobs of all connections.                                            *)
(***************************************************************************)
OrderInv == \A c \in Connections : Flow(inbox[c], out[c], delivered[c], lost[c], sent)
Where(p, c) == At(p, inbox[c], out[c], delivered[c], lost[c])
Kept == \A c \in Connections, p \in Packets : Where(p, c) => Where(p, c)'

\* One connection's part changes.
LEMMA OrderEntry ==
  ASSUME TypeInv, OrderInv, NEW c \in Connections, NEW q, NEW m, NEW pub, NEW los,
         inbox' = Put(inbox, c, q), out' = Put(out, c, m), delivered' = Put(delivered, c, pub),
         lost' = Put(lost, c, los), sent' = sent,
         Flow(q, m, pub, los, sent),
         \A p : At(p, inbox[c], out[c], delivered[c], lost[c]) => At(p, q, m, pub, los)
  PROVE  OrderInv' /\ Kept
<1>1. /\ inbox'[c] = q /\ out'[c] = m /\ delivered'[c] = pub /\ lost'[c] = los
      /\ \A d \in Connections : d # c => /\ inbox'[d] = inbox[d] /\ out'[d] = out[d]
                                         /\ delivered'[d] = delivered[d] /\ lost'[d] = lost[d]
  BY DEF Put, TypeInv, ThreadTypes, PeerTypes, RecordTypes
<1>2. ASSUME NEW d \in Connections PROVE Flow(inbox'[d], out'[d], delivered'[d], lost'[d], sent')
  BY <1>1 DEF OrderInv
<1>3. ASSUME NEW d \in Connections, NEW p \in Packets, Where(p, d)
      PROVE  At(p, inbox'[d], out'[d], delivered'[d], lost'[d])
  BY <1>1, <1>3 DEF Where
<1> QED
  BY <1>2, <1>3 DEF OrderInv, Kept, Where

\* Nothing changes.
LEMMA OrderStays ==
  ASSUME OrderInv, UNCHANGED <<inbox, out, delivered, lost, sent>> PROVE OrderInv' /\ Kept
<1>1. \A c \in Connections : Flow(inbox'[c], out'[c], delivered'[c], lost'[c], sent')
  BY DEF OrderInv
<1>2. \A c \in Connections, p \in Packets : Where(p, c) => At(p, inbox'[c], out'[c], delivered'[c], lost'[c])
  BY DEF Where
<1> QED
  BY <1>1, <1>2 DEF OrderInv, Kept, Where

\* What the types say of a connection's part.
LEMMA PartTypes ==
  ASSUME TypeInv, NEW c \in Connections
  PROVE  /\ inbox[c] \in Seq(Halves) /\ out[c] \in Messages /\ delivered[c] \in Seq(Packets)
         /\ lost[c] \in SUBSET Packets /\ sent \in 0 .. MaxPackets
         /\ inbox = Put(inbox, c, inbox[c]) /\ out = Put(out, c, out[c])
         /\ delivered = Put(delivered, c, delivered[c]) /\ lost = Put(lost, c, lost[c])
         /\ tpc[c] \notin Holding => out[c].port \notin JobPorts
         /\ tpc[c] \in Holding /\ out[c].port # "status" => out[c].port \in JobPorts
<1>1. out[c] \in Messages /\ (tpc[c] \in Holding <=> out[c] # NoMessage)
  BY DEF TypeInv, ThreadTypes
<1>2. /\ tpc[c] \notin Holding => out[c].port \notin JobPorts
      /\ tpc[c] \in Holding /\ out[c].port # "status" => out[c].port \in JobPorts
  BY <1>1, MessageKinds
<1>3. /\ inbox = Put(inbox, c, inbox[c]) /\ out = Put(out, c, out[c])
      /\ delivered = Put(delivered, c, delivered[c]) /\ lost = Put(lost, c, lost[c])
  BY DEF TypeInv, ThreadTypes, PeerTypes, RecordTypes, Put
<1> QED
  BY <1>1, <1>2, <1>3 DEF TypeInv, PeerTypes, RecordTypes

\* recv returns something.
LEMMA ReceiveOrder ==
  ASSUME TypeInv, OrderInv, NEW c \in Connections, Receive(c) PROVE OrderInv' /\ Kept
<1>1. tpc[c] = "recv" /\ UNCHANGED <<sent, delivered>>
  BY Received
<1>2. PICK n \in 1 .. Len(inbox[c]) :
        /\ inbox' = Put(inbox, c, SubSeq(inbox[c], n + 1, Len(inbox[c])))
        /\ \/ /\ KindOf(c, n) \in JobKinds /\ lost' = lost
              /\ out' = Put(out, c, [port |-> Port(KindOf(c, n)), value |-> Chunk(c, n)[1].packet])
           \/ /\ \/ out' = Put(out, c, [port |-> "status", value |-> Available])
                 \/ out' = Put(out, c, NoMessage)
              /\ lost' = Put(lost, c, lost[c] \cup JobPackets(Chunk(c, n)))
  BY Received
<1> DEFINE q == inbox[c]
           o == out[c]
           pub == delivered[c]
           los == lost[c]
<1>3. /\ q \in Seq(Halves) /\ o \in Messages /\ pub \in Seq(Packets) /\ los \in SUBSET Packets
      /\ sent \in 0 .. MaxPackets /\ delivered = Put(delivered, c, pub) /\ lost = Put(lost, c, los)
      /\ o.port \notin JobPorts
  <2>1. tpc[c] \notin Holding
    BY <1>1 DEF Holding
  <2> QED
    BY <2>1, PartTypes
<1>4. Flow(q, o, pub, los, sent)
  BY DEF OrderInv
<1>5. CASE KindOf(c, n) \in JobKinds /\ lost' = lost
           /\ out' = Put(out, c, [port |-> Port(KindOf(c, n)), value |-> Chunk(c, n)[1].packet])
  <2> DEFINE m == [port |-> Port(KindOf(c, n)), value |-> Chunk(c, n)[1].packet]
  <2>1. OnlyPacket(Chunk(c, n))
    BY <1>5 DEF KindOf, JobKinds
  <2>2. /\ Chunk(c, n) \in Seq(Halves) /\ Len(Chunk(c, n)) = n /\ \A i \in 1 .. n : Chunk(c, n)[i] = q[i]
        /\ Len(q) \in Nat /\ \A i \in 1 .. Len(q) : q[i] \in Halves
    BY <1>3, Cut DEF Chunk
  <2>3. n = 2 /\ Len(q) >= 2 /\ q[1].packet = q[2].packet /\ Chunk(c, n)[1] = q[1]
    <3>1. Len(Chunk(c, n)) = 2 /\ Chunk(c, n)[1].packet = Chunk(c, n)[2].packet
      BY <2>1 DEF OnlyPacket
    <3>2. n = 2 /\ Len(q) >= 2
      BY <2>2, <3>1
    <3>3. Chunk(c, n)[1] = q[1] /\ Chunk(c, n)[2] = q[2]
      BY <2>2, <3>2
    <3> QED
      BY <3>1, <3>2, <3>3
  <2>4. q[1].packet \in Packets
    BY <2>2, <2>3 DEF Halves
  <2>5. m \in Messages /\ m.port \in JobPorts /\ m.value = q[1].packet
    BY <1>5, <2>3, <2>4, MessageKinds
  <2>6. out' = Put(out, c, m) /\ inbox' = Put(inbox, c, SubSeq(q, 3, Len(q)))
    <3>1. 2 + 1 = 3
      OBVIOUS
    <3> QED
      BY <1>2, <1>5, <2>3, <3>1
  <2> HIDE DEF m, q, o, pub, los
  <2>7. /\ Flow(SubSeq(q, 3, Len(q)), m, pub, los, sent)
        /\ \A p : At(p, q, o, pub, los) => At(p, SubSeq(q, 3, Len(q)), m, pub, los)
    BY <1>3, <1>4, <2>3, <2>5, FlowJob
  <2>8. delivered' = Put(delivered, c, pub) /\ lost' = Put(lost, c, los) /\ sent' = sent
    BY <1>1, <1>3, <1>5
  <2> QED
    BY <2>6, <2>7, <2>8, OrderEntry DEF q, o, pub, los
<1>6. ASSUME NEW m \in Messages, m.port \notin JobPorts, out' = Put(out, c, m),
             lost' = Put(lost, c, los \cup JobPackets(Chunk(c, n)))
      PROVE  OrderInv' /\ Kept
  <2> DEFINE rest == SubSeq(q, n + 1, Len(q))
             l == los \cup JobPackets(Chunk(c, n))
  <2>1. Flow(q, m, pub, los, sent) /\ \A p : At(p, q, o, pub, los) => At(p, q, m, pub, los)
    BY <1>3, <1>4, <1>6, FlowMessage
  <2>2. Chunk(c, n) = SubSeq(q, 1, n)
    BY DEF Chunk
  <2>3. Flow(rest, m, pub, l, sent) /\ \A p : At(p, q, m, pub, los) => At(p, rest, m, pub, l)
    <3> HIDE DEF q, pub, los, o
    <3> QED
      BY <1>3, <1>6, <2>1, <2>2, FlowTakes DEF q
  <2>4. /\ inbox' = Put(inbox, c, rest) /\ delivered' = Put(delivered, c, pub) /\ lost' = Put(lost, c, l)
        /\ sent' = sent
    BY <1>1, <1>2, <1>3, <1>6
  <2> HIDE DEF rest, l
  <2> QED
    BY <1>6, <2>1, <2>3, <2>4, OrderEntry
<1>7. /\ NoMessage \in Messages /\ NoMessage.port \notin JobPorts
      /\ [port |-> "status", value |-> Available] \in Messages
      /\ [port |-> "status", value |-> Available].port \notin JobPorts
  BY MessageKinds
<1> QED
  BY <1>2, <1>5, <1>6, <1>7

\* _ignore drops a job.
LEMMA GateOrder ==
  ASSUME TypeInv, OrderInv, NEW c \in Connections, Gate(c) PROVE OrderInv' /\ Kept
<1>1. /\ tpc[c] = "gate" /\ UNCHANGED <<inbox, sent, delivered>>
      /\ \/ /\ out' = Put(out, c, NoMessage)
            /\ lost' = Put(lost, c, lost[c] \cup {out[c].value})
         \/ out' = out /\ lost' = lost
  BY DEF Gate, peervars
<1>2. CASE out' = out /\ lost' = lost
  BY <1>1, <1>2, OrderStays
<1>3. CASE out' = Put(out, c, NoMessage) /\ lost' = Put(lost, c, lost[c] \cup {out[c].value})
  <2>1. out[c].port \in JobPorts /\ NoMessage.port \notin JobPorts
    <3>1. out[c].port # "status" /\ tpc[c] \in Holding
      BY <1>1 DEF TypeInv, ThreadTypes, Holding
    <3> QED
      BY <3>1, PartTypes, MessageKinds
  <2>2. /\ out[c] \in Messages /\ delivered[c] \in Seq(Packets) /\ lost[c] \in SUBSET Packets
        /\ inbox' = Put(inbox, c, inbox[c]) /\ delivered' = Put(delivered, c, delivered[c])
    BY <1>1, PartTypes
  <2>3. Flow(inbox[c], out[c], delivered[c], lost[c], sent)
    BY DEF OrderInv
  <2>4. /\ Flow(inbox[c], NoMessage, delivered[c], lost[c] \cup {out[c].value}, sent)
        /\ \A p : At(p, inbox[c], out[c], delivered[c], lost[c])
                    => At(p, inbox[c], NoMessage, delivered[c], lost[c] \cup {out[c].value})
    BY <2>1, <2>2, <2>3, FlowDrops
  <2> QED
    BY <1>1, <1>3, <2>2, <2>4, OrderEntry
<1> QED
  BY <1>1, <1>2, <1>3

\* The message is out, or the frames were torn and it is lost.
LEMMA DataOrder ==
  ASSUME TypeInv, OrderInv, NEW c \in Connections, SendData(c) PROVE OrderInv' /\ Kept
<1>1. /\ tpc[c] = "sending" /\ out' = Put(out, c, NoMessage) /\ UNCHANGED <<inbox, sent>>
      /\ \/ out[c].port = "status" /\ UNCHANGED <<delivered, lost>>
         \/ /\ out[c].port # "status" /\ UNCHANGED lost
            /\ delivered' = Put(delivered, c, Append(delivered[c], out[c].value))
         \/ /\ out[c].port # "status" /\ UNCHANGED delivered
            /\ lost' = Put(lost, c, lost[c] \cup {out[c].value})
  BY DEF SendData, peervars
<1>2. /\ out[c] \in Messages /\ delivered[c] \in Seq(Packets) /\ lost[c] \in SUBSET Packets
      /\ inbox' = Put(inbox, c, inbox[c]) /\ delivered = Put(delivered, c, delivered[c])
      /\ lost = Put(lost, c, lost[c])
      /\ out[c].port # "status" => out[c].port \in JobPorts
  <2>1. tpc[c] \in Holding
    BY <1>1 DEF Holding
  <2> QED
    BY <1>1, <2>1, PartTypes
<1>3. Flow(inbox[c], out[c], delivered[c], lost[c], sent)
  BY DEF OrderInv
<1>4. NoMessage.port \notin JobPorts /\ "status" \notin JobPorts
  BY MessageKinds
<1>5. CASE out[c].port = "status" /\ UNCHANGED <<delivered, lost>>
  <2>1. /\ Flow(inbox[c], NoMessage, delivered[c], lost[c], sent)
        /\ \A p : At(p, inbox[c], out[c], delivered[c], lost[c])
                    => At(p, inbox[c], NoMessage, delivered[c], lost[c])
    BY <1>3, <1>4, <1>5, FlowMessage
  <2> QED
    BY <1>1, <1>2, <1>5, <2>1, OrderEntry
<1>6. CASE /\ out[c].port # "status" /\ UNCHANGED lost
           /\ delivered' = Put(delivered, c, Append(delivered[c], out[c].value))
  <2>1. /\ Flow(inbox[c], NoMessage, Append(delivered[c], out[c].value), lost[c], sent)
        /\ \A p : At(p, inbox[c], out[c], delivered[c], lost[c])
                    => At(p, inbox[c], NoMessage, Append(delivered[c], out[c].value), lost[c])
    BY <1>2, <1>3, <1>4, <1>6, FlowPublishes
  <2> QED
    BY <1>1, <1>2, <1>6, <2>1, OrderEntry
<1>7. CASE /\ out[c].port # "status" /\ UNCHANGED delivered
           /\ lost' = Put(lost, c, lost[c] \cup {out[c].value})
  <2>1. /\ Flow(inbox[c], NoMessage, delivered[c], lost[c] \cup {out[c].value}, sent)
        /\ \A p : At(p, inbox[c], out[c], delivered[c], lost[c])
                    => At(p, inbox[c], NoMessage, delivered[c], lost[c] \cup {out[c].value})
    BY <1>2, <1>3, <1>4, <1>7, FlowDrops
  <2> QED
    BY <1>1, <1>2, <1>7, <2>1, OrderEntry
<1> QED
  BY <1>1, <1>5, <1>6, <1>7

\* The end of a stream: the thread held no job.
LEMMA EndOrder ==
  ASSUME TypeInv, OrderInv, NEW c \in Connections, EndOfStream(c) PROVE OrderInv' /\ Kept
<1> DEFINE m == [port |-> "status", value |-> Unavailable]
<1>1. /\ tpc[c] = "recv" /\ UNCHANGED <<inbox, delivered, lost, sent>> /\ out' = Put(out, c, m)
  BY DEF EndOfStream, peervars
<1>2. m.port \notin JobPorts
  BY MessageKinds
<1> HIDE DEF m
<1>3. /\ out[c].port \notin JobPorts /\ inbox' = Put(inbox, c, inbox[c])
      /\ delivered' = Put(delivered, c, delivered[c]) /\ lost' = Put(lost, c, lost[c])
  <2>1. tpc[c] \notin Holding
    BY <1>1 DEF Holding
  <2> QED
    BY <1>1, <2>1, PartTypes
<1>4. /\ Flow(inbox[c], m, delivered[c], lost[c], sent)
      /\ \A p : At(p, inbox[c], out[c], delivered[c], lost[c]) => At(p, inbox[c], m, delivered[c], lost[c])
  <2>1. Flow(inbox[c], out[c], delivered[c], lost[c], sent)
    BY DEF OrderInv
  <2> QED
    BY <1>2, <1>3, <2>1, FlowMessage
<1> QED
  BY <1>1, <1>3, <1>4, OrderEntry

\* A reset.
LEMMA DisconnectOrder ==
  ASSUME TypeInv, OrderInv, NEW c \in Connections, Disconnects(c) PROVE OrderInv' /\ Kept
<1>1. /\ UNCHANGED <<sent, out, delivered>>
      /\ \/ UNCHANGED <<inbox, lost>>
         \/ /\ inbox' = Put(inbox, c, <<>>)
            /\ lost' = Put(lost, c, lost[c] \cup JobPackets(inbox[c]))
  BY DEF Disconnects
<1>2. CASE UNCHANGED <<inbox, lost>>
  BY <1>1, <1>2, OrderStays
<1>3. CASE inbox' = Put(inbox, c, <<>>) /\ lost' = Put(lost, c, lost[c] \cup JobPackets(inbox[c]))
  <2>1. /\ inbox[c] \in Seq(Halves) /\ out[c] \in Messages /\ delivered[c] \in Seq(Packets)
        /\ lost[c] \in SUBSET Packets /\ sent \in 0 .. MaxPackets
        /\ out' = Put(out, c, out[c]) /\ delivered' = Put(delivered, c, delivered[c])
    BY <1>1, PartTypes
  <2>2. Flow(inbox[c], out[c], delivered[c], lost[c], sent)
    BY DEF OrderInv
  <2>3. /\ Flow(<<>>, out[c], delivered[c], lost[c] \cup JobPackets(inbox[c]), sent)
        /\ \A p : At(p, inbox[c], out[c], delivered[c], lost[c])
                    => At(p, <<>>, out[c], delivered[c], lost[c] \cup JobPackets(inbox[c]))
    BY <2>1, <2>2, FlowReset
  <2> QED
    BY <1>1, <1>3, <2>1, <2>3, OrderEntry
<1> QED
  BY <1>1, <1>2, <1>3

\* close() resets the connections nobody accepted.
LEMMA CloseOrder ==
  ASSUME TypeInv, OrderInv, CloseServer PROVE OrderInv' /\ Kept
<1>1. /\ UNCHANGED <<sent, out, delivered>>
      /\ \A c \in Connections :
           \/ inbox'[c] = inbox[c] /\ lost'[c] = lost[c]
           \/ inbox'[c] = <<>> /\ lost'[c] = lost[c] \cup JobPackets(inbox[c])
  BY DEF CloseServer
<1>2. ASSUME NEW c \in Connections
      PROVE  /\ Flow(inbox'[c], out'[c], delivered'[c], lost'[c], sent')
             /\ \A p : Where(p, c) => At(p, inbox'[c], out'[c], delivered'[c], lost'[c])
  <2>1. Flow(inbox[c], out[c], delivered[c], lost[c], sent)
    BY DEF OrderInv
  <2>2. CASE inbox'[c] = inbox[c] /\ lost'[c] = lost[c]
    BY <1>1, <2>1, <2>2 DEF Where
  <2>3. CASE inbox'[c] = <<>> /\ lost'[c] = lost[c] \cup JobPackets(inbox[c])
    <3>1. /\ inbox[c] \in Seq(Halves) /\ out[c] \in Messages /\ delivered[c] \in Seq(Packets)
          /\ lost[c] \in SUBSET Packets /\ sent \in 0 .. MaxPackets
      BY PartTypes
    <3>2. /\ Flow(<<>>, out[c], delivered[c], lost[c] \cup JobPackets(inbox[c]), sent)
          /\ \A p : At(p, inbox[c], out[c], delivered[c], lost[c])
                      => At(p, <<>>, out[c], delivered[c], lost[c] \cup JobPackets(inbox[c]))
      BY <2>1, <3>1, FlowReset
    <3> QED
      BY <1>1, <2>3, <3>2 DEF Where
  <2> QED
    BY <1>1, <2>2, <2>3
<1> QED
  BY <1>2 DEF OrderInv, Kept, Where

\* Level2 sends the next packet on one connection.
LEMMA SendsOrder ==
  ASSUME TypeInv, OrderInv, NEW c \in Connections, NEW k \in AllKinds, Level2Sends(c, k)
  PROVE  /\ OrderInv' /\ Kept /\ sent' = sent + 1 /\ k \in Kinds[sent + 1]
         /\ k \in JobKinds => At(sent + 1, inbox'[c], out'[c], delivered'[c], lost'[c])
<1> DEFINE h(first) == [packet |-> sent + 1, kind |-> k, first |-> first]
           a == h(TRUE)
           b == h(FALSE)
           q == inbox[c] \o <<a, b>>
<1>1. /\ sent < MaxPackets /\ sent' = sent + 1 /\ UNCHANGED <<out, delivered, lost>> /\ k \in Kinds[sent + 1]
      /\ inbox' = Put(inbox, c, q)
  BY DEF Level2Sends, threadvars
<1>2. sent \in 0 .. MaxPackets /\ MaxPackets \in Nat /\ sent + 1 \in Packets
  BY <1>1, PacketsAssumption DEF TypeInv, PeerTypes, Packets, PacketsAssumption
<1>3. a \in Halves /\ b \in Halves /\ a.packet = sent + 1 /\ b.packet = sent + 1 /\ a.kind = k
  BY <1>2 DEF Halves
<1>4. a.first /\ ~b.first
  OBVIOUS
<1> HIDE DEF a, b
<1>5. ASSUME NEW d \in Connections
      PROVE  /\ inbox[d] \in Seq(Halves) /\ out[d] \in Messages /\ delivered[d] \in Seq(Packets)
             /\ lost[d] \in SUBSET Packets
             /\ Flow(inbox[d], out[d], delivered[d], lost[d], sent)
  BY PartTypes DEF OrderInv
<1>6. ASSUME NEW d \in Connections
      PROVE  /\ Flow(inbox[d], out[d], delivered[d], lost[d], sent + 1)
             /\ Flow(inbox[d] \o <<a, b>>, out[d], delivered[d], lost[d], sent + 1)
             /\ \A p : Where(p, d) => At(p, inbox[d] \o <<a, b>>, out[d], delivered[d], lost[d])
             /\ k \in JobKinds => At(sent + 1, inbox[d] \o <<a, b>>, out[d], delivered[d], lost[d])
  BY <1>1, <1>2, <1>3, <1>4, <1>5, FlowSends DEF Where
<1>7. inbox'[c] = q /\ \A d \in Connections : d # c => inbox'[d] = inbox[d]
  BY <1>1 DEF Put, TypeInv, PeerTypes
<1>8. ASSUME NEW d \in Connections
      PROVE  /\ Flow(inbox'[d], out'[d], delivered'[d], lost'[d], sent')
             /\ \A p : Where(p, d) => At(p, inbox'[d], out'[d], delivered'[d], lost'[d])
  <2>1. CASE d = c
    BY <1>1, <1>6, <1>7, <2>1
  <2>2. CASE d # c
    BY <1>1, <1>6, <1>7, <2>2 DEF Where
  <2> QED
    BY <2>1, <2>2
<1>9. k \in JobKinds => At(sent + 1, inbox'[c], out'[c], delivered'[c], lost'[c])
  BY <1>1, <1>6, <1>7
<1> QED
  BY <1>1, <1>8, <1>9 DEF OrderInv, Kept, Where

(***************************************************************************)
(* Every packet that can only be a job, once sent, is somewhere: in the    *)
(* stream of a connection, with its receive thread, published or lost.     *)
(***************************************************************************)
JobsAccounted ==
  \A p \in 1 .. sent : Kinds[p] \subseteq JobKinds => \E c \in Connections : Where(p, c)
JobsInv == OrderInv /\ JobsAccounted

\* A step that sends nothing and forgets nothing.
LEMMA KeptAccounts ==
  ASSUME TypeInv, JobsInv, OrderInv', Kept, sent' = sent PROVE JobsInv'
<1>1. \A p \in 1 .. sent : p \in Packets
  BY PacketsAssumption DEF PacketsAssumption, Packets, TypeInv, PeerTypes
<1>2. ASSUME NEW p \in 1 .. sent', Kinds[p] \subseteq JobKinds
      PROVE  \E c \in Connections : At(p, inbox'[c], out'[c], delivered'[c], lost'[c])
  <2>1. PICK c \in Connections : Where(p, c)
    BY <1>2 DEF JobsInv, JobsAccounted
  <2>2. At(p, inbox'[c], out'[c], delivered'[c], lost'[c])
    BY <1>1, <2>1 DEF Kept, Where
  <2> QED
    BY <2>2
<1> QED
  BY <1>2 DEF JobsInv, JobsAccounted, Where

\* Level2 sends.
LEMMA SendsAccounts ==
  ASSUME TypeInv, JobsInv, NEW c \in Connections, NEW k \in AllKinds, Level2Sends(c, k) PROVE JobsInv'
<1>1. /\ OrderInv' /\ Kept /\ sent' = sent + 1 /\ k \in Kinds[sent + 1]
      /\ k \in JobKinds => At(sent + 1, inbox'[c], out'[c], delivered'[c], lost'[c])
  BY SendsOrder DEF JobsInv
<1>2. \A p \in 1 .. sent' : p = sent + 1 \/ (p \in 1 .. sent /\ p \in Packets)
  BY <1>1, PacketsAssumption DEF PacketsAssumption, Packets, TypeInv, PeerTypes
<1>3. ASSUME NEW p \in 1 .. sent', Kinds[p] \subseteq JobKinds
      PROVE  \E d \in Connections : At(p, inbox'[d], out'[d], delivered'[d], lost'[d])
  <2>1. CASE p = sent + 1
    BY <1>1, <1>3, <2>1
  <2>2. CASE p \in 1 .. sent /\ p \in Packets
    <3>1. PICK d \in Connections : Where(p, d)
      BY <1>3, <2>2 DEF JobsInv, JobsAccounted
    <3>2. At(p, inbox'[d], out'[d], delivered'[d], lost'[d])
      BY <1>1, <2>2, <3>1 DEF Kept, Where
    <3> QED
      BY <3>2
  <2> QED
    BY <1>2, <2>1, <2>2
<1> QED
  BY <1>1, <1>3 DEF JobsInv, JobsAccounted, Where

\* One step.
LEMMA StepJobs == ASSUME TypeInv, JobsInv, [Next]_vars PROVE JobsInv'
<1>1. ASSUME NEW c \in Connections, NEW k \in AllKinds, Level2Sends(c, k) PROVE JobsInv'
  BY <1>1, SendsAccounts
<1>2. CASE \/ StartServer \/ DeleteServer \/ OnClose \/ AcceptFails \/ UNCHANGED vars \/ NewConnection
           \/ \E hmd \in BOOLEAN : LineMessage(hmd)
           \/ \E c \in Connections : Accept(c) \/ Connects(c) \/ SendTopic(c)
  <2>1. UNCHANGED <<inbox, out, delivered, lost, sent>>
    BY <1>2 DEF StartServer, DeleteServer, OnClose, AcceptFails, NewConnection, LineMessage, Accept, Connects,
                SendTopic, vars, peervars, threadvars
  <2> QED
    BY <2>1, OrderStays, KeptAccounts DEF JobsInv
<1>3. CASE CloseServer
  <2>1. sent' = sent
    BY <1>3 DEF CloseServer
  <2> QED
    BY <1>3, <2>1, CloseOrder, KeptAccounts DEF JobsInv
<1>4. ASSUME NEW c \in Connections,
             Receive(c) \/ Gate(c) \/ SendData(c) \/ EndOfStream(c) \/ Disconnects(c)
      PROVE  JobsInv'
  <2>1. sent' = sent
    BY <1>4 DEF Receive, Gate, SendData, EndOfStream, Disconnects, peervars
  <2>2. OrderInv' /\ Kept
    BY <1>4, ReceiveOrder, GateOrder, DataOrder, EndOrder, DisconnectOrder DEF JobsInv
  <2> QED
    BY <2>1, <2>2, KeptAccounts
<1> QED
  BY <1>1, <1>2, <1>3, <1>4 DEF Next, Running, Server, Acceptor, Thread, Level2

\* The first state.
LEMMA InitJobs == ASSUME Init PROVE JobsInv
<1>1. ASSUME NEW c \in Connections PROVE Flow(inbox[c], out[c], delivered[c], lost[c], sent)
  <2>1. inbox[c] = <<>> /\ out[c] = NoMessage /\ delivered[c] = <<>> /\ lost[c] = {} /\ sent = 0
    BY DEF Init
  <2>2. 1 .. Len(<<>>) = {} /\ NoMessage.port \notin JobPorts
    BY MessageKinds
  <2>3. \A p : ~Seen(p, NoMessage, <<>>, {})
    BY <2>2 DEF Seen
  <2>4. Ordered(<<>>) /\ Increasing(<<>>)
    BY <2>2 DEF Ordered, Increasing
  <2>5. Ahead(<<>>, NoMessage, <<>>, {}) /\ Sent(<<>>, NoMessage, <<>>, {}, 0) /\ Apart(NoMessage, <<>>, {})
    BY <2>2, <2>3 DEF Ahead, Sent, Apart
  <2> QED
    BY <2>1, <2>4, <2>5 DEF Flow
<1>2. 1 .. sent = {}
  BY DEF Init
<1> QED
  BY <1>1, <1>2 DEF JobsInv, OrderInv, JobsAccounted

\* The jobs of all connections, throughout.
LEMMA Jobs == Spec => []JobsInv
BY InitJobs, StepJobs, Types, PTL DEF Spec

(***************************************************************************)
(* _do_receive: what a connection's thread has published, through splits,  *)
(* joins, drops and torn frames, is in the order Level2 sent it, no job    *)
(* twice; and no job counted as lost is ever published.                    *)
(***************************************************************************)
PublishedInOrder ==
  \A c \in Connections :
    /\ \A i, j \in 1 .. Len(delivered[c]) : i < j => delivered[c][i] < delivered[c][j]
    /\ \A i \in 1 .. Len(delivered[c]) : delivered[c][i] \in 1 .. sent \ lost[c]

\* The invariant says so.
LEMMA OrderPublishes == ASSUME TypeInv, OrderInv PROVE PublishedInOrder
<1>1. ASSUME NEW c \in Connections
      PROVE  /\ \A i, j \in 1 .. Len(delivered[c]) : i < j => delivered[c][i] < delivered[c][j]
             /\ \A i \in 1 .. Len(delivered[c]) : delivered[c][i] \in 1 .. sent \ lost[c]
  <2>1. Flow(inbox[c], out[c], delivered[c], lost[c], sent)
    BY DEF OrderInv
  <2>2. \A i \in 1 .. Len(delivered[c]) : delivered[c][i] \in Packets
    BY ElementOfSeq DEF TypeInv, RecordTypes
  <2>3. \A i \in 1 .. Len(delivered[c]) : delivered[c][i] <= sent /\ delivered[c][i] \notin lost[c]
    BY <2>1, <2>2 DEF Flow, Sent, Seen, Apart
  <2>4. \A i \in 1 .. Len(delivered[c]) : delivered[c][i] \in 1 .. sent
    BY <2>2, <2>3, PacketsAssumption DEF PacketsAssumption, Packets, TypeInv, PeerTypes
  <2> QED
    BY <2>1, <2>3, <2>4 DEF Flow, Increasing
<1> QED
  BY <1>1 DEF PublishedInOrder

(***************************************************************************)
(* The safety that the abstract channel asks of every connection.          *)
(***************************************************************************)
THEOREM JobsInOrder == Spec => []PublishedInOrder
<1>1. JobsInv => OrderInv
  BY DEF JobsInv
<1> QED
  BY <1>1, Types, Jobs, OrderPublishes, PTL

(***************************************************************************)
(* No job of Level2 vanishes unrecorded between its connection and the     *)
(* ports.                                                                  *)
(***************************************************************************)
THEOREM NoJobVanishes == Spec => []JobsAccounted
<1>1. JobsInv => JobsAccounted
  BY DEF JobsInv
<1> QED
  BY <1>1, Jobs, PTL
-----------------------------------------------------------------------------
(***************************************************************************)
(* Increasing sequences of packets, as InOrder gives them.                 *)
(***************************************************************************)
Sorted(q, S) ==
  /\ q \in Seq(Packets) /\ Len(q) <= MaxPackets /\ Increasing(q)
  /\ \A x : x \in S <=> \E i \in 1 .. Len(q) : q[i] = x

\* A set of natural numbers has a smallest.
LEMMA Smallest ==
  ASSUME NEW T \in SUBSET Nat, T # {}
  PROVE  \E x \in T : \A y \in T : x <= y
<1> DEFINE R == {ss \in Nat \X Nat : ss[1] < ss[2]}
<1>1. IsWellFoundedOn(R, Nat)
  BY NatLessThanWellFounded DEF OpToRel
<1>2. PICK x \in T : \A y \in T : ~(<<y, x>> \in R)
  <2> HIDE DEF R
  <2> QED
    BY <1>1, WFMin
<1>3. \A y \in T : ~(y < x)
  BY <1>2
<1> QED
  BY <1>3

\* What being sorted says of the positions.
LEMMA Positions ==
  ASSUME NEW q, NEW S, Sorted(q, S)
  PROVE  /\ q \in Seq(Packets) /\ Len(q) \in Nat /\ DOMAIN q = 1 .. Len(q)
         /\ \A i \in 1 .. Len(q) : q[i] \in Packets /\ q[i] \in Nat /\ q[i] \in S
         /\ \A i, j \in 1 .. Len(q) : i < j => q[i] < q[j]
         /\ \A i, j \in 1 .. Len(q) : i <= j => q[i] <= q[j]
         /\ \A x \in S : \E i \in 1 .. Len(q) : q[i] = x
         /\ Len(q) <= MaxPackets /\ MaxPackets \in Nat /\ S \subseteq Packets /\ Packets \subseteq Nat
<1>1. q \in Seq(Packets) /\ Len(q) \in Nat /\ DOMAIN q = 1 .. Len(q)
  BY LenProperties DEF Sorted
<1>2. MaxPackets \in Nat /\ \A p \in Packets : p \in Nat
  BY PacketsAssumption DEF PacketsAssumption, Packets
<1>3. \A i \in 1 .. Len(q) : q[i] \in Packets /\ q[i] \in Nat /\ q[i] \in S
  BY <1>1, <1>2, ElementOfSeq DEF Sorted
<1>4. \A i, j \in 1 .. Len(q) : i < j => q[i] < q[j]
  BY DEF Sorted, Increasing
<1>5. \A i, j \in 1 .. Len(q) : i <= j => q[i] <= q[j]
  <2> SUFFICES ASSUME NEW i \in 1 .. Len(q), NEW j \in 1 .. Len(q), i <= j PROVE q[i] <= q[j]
    OBVIOUS
  <2>1. i < j \/ i = j
    BY <1>1
  <2>2. q[i] \in Nat /\ q[j] \in Nat
    BY <1>3
  <2>3. i < j => q[i] < q[j]
    BY <1>4
  <2> QED
    BY <2>1, <2>2, <2>3
<1>6. \A x \in S : \E i \in 1 .. Len(q) : q[i] = x
  BY DEF Sorted
<1> QED
  BY <1>1, <1>2, <1>3, <1>4, <1>5, <1>6 DEF Sorted

\* Two sorted sequences of one set agree as far as the first goes.
LEMMA SortedAgree ==
  ASSUME NEW q, NEW r, NEW S, Sorted(q, S), Sorted(r, S), NEW i \in 1 .. Len(q)
  PROVE  i \in 1 .. Len(r) /\ q[i] = r[i]
<1> DEFINE Agree(k) == k \in 1 .. Len(r) /\ q[k] = r[k]
           T == {k \in 1 .. Len(q) : ~Agree(k)}
<1>1. /\ Len(q) \in Nat /\ Len(r) \in Nat
      /\ \A k \in 1 .. Len(q) : q[k] \in Nat /\ q[k] \in S
      /\ \A k \in 1 .. Len(r) : r[k] \in Nat /\ r[k] \in S
      /\ \A k, l \in 1 .. Len(q) : k < l => q[k] < q[l]
      /\ \A k, l \in 1 .. Len(r) : k < l => r[k] < r[l]
      /\ \A k, l \in 1 .. Len(q) : k <= l => q[k] <= q[l]
      /\ \A k, l \in 1 .. Len(r) : k <= l => r[k] <= r[l]
      /\ \A x \in S : \E k \in 1 .. Len(q) : q[k] = x
      /\ \A x \in S : \E k \in 1 .. Len(r) : r[k] = x
  BY Positions
<1>2. SUFFICES ASSUME T # {} PROVE FALSE
  OBVIOUS
<1>3. T \in SUBSET Nat
  BY <1>1
<1>4. PICK x \in T : \A y \in T : x <= y
  BY <1>2, <1>3, Smallest
<1>5. x \in 1 .. Len(q) /\ x \in Nat /\ ~Agree(x)
  BY <1>1, <1>4
<1>6. ASSUME NEW k \in Nat, 1 <= k, k < x PROVE k \in 1 .. Len(q) /\ Agree(k)
  <2>1. k \in 1 .. Len(q)
    BY <1>1, <1>5, <1>6
  <2>2. k \notin T
    BY <1>4, <1>5, <1>6
  <2> QED
    BY <2>1, <2>2
<1> HIDE DEF T
<1>7. PICK j \in 1 .. Len(r) : r[j] = q[x]
  BY <1>1, <1>5
<1>8. ~(j < x)
  <2> SUFFICES ASSUME j < x PROVE FALSE
    OBVIOUS
  <2>1. j \in 1 .. Len(q) /\ q[j] = r[j]
    BY <1>1, <1>6
  <2>2. q[j] < q[x]
    BY <1>1, <1>5, <2>1
  <2> QED
    BY <1>1, <1>5, <1>7, <2>1, <2>2
<1>9. x \in 1 .. Len(r) /\ x <= j
  BY <1>1, <1>5, <1>8
<1>10. r[x] <= q[x] /\ r[x] # q[x]
  BY <1>1, <1>5, <1>7, <1>9
<1>11. PICK k \in 1 .. Len(q) : q[k] = r[x]
  BY <1>1, <1>9
<1>12. ~(k < x)
  <2> SUFFICES ASSUME k < x PROVE FALSE
    OBVIOUS
  <2>1. k \in 1 .. Len(r) /\ q[k] = r[k]
    BY <1>1, <1>6
  <2>2. r[k] < r[x]
    BY <1>1, <1>9, <2>1
  <2> QED
    BY <1>1, <1>9, <1>11, <2>1, <2>2
<1>13. q[x] <= q[k]
  BY <1>1, <1>5, <1>12
<1> QED
  BY <1>1, <1>5, <1>9, <1>10, <1>11, <1>13

\* There is one sorted sequence of a set, and InOrder finds it.
LEMMA SortedIsInOrder ==
  ASSUME NEW q, NEW S, Sorted(q, S)
  PROVE  InOrder(S) = q
<1> DEFINE Chosen(r) == Range(r) = S /\ \A i, j \in DOMAIN r : i < j => r[i] < r[j]
           Short == BoundedSeq(Packets, MaxPackets)
<1>1. \A r \in Short : r \in Seq(Packets) /\ Len(r) <= MaxPackets
  <2> SUFFICES ASSUME NEW m \in 0 .. MaxPackets, NEW r \in [1 .. m -> Packets]
               PROVE  r \in Seq(Packets) /\ Len(r) <= MaxPackets
    BY DEF BoundedSeq, SeqOf
  <2>1. m \in Nat
    BY PacketsAssumption DEF PacketsAssumption
  <2>2. r \in Seq(Packets) /\ Len(r) = m
    BY <2>1, SeqDef, LenProperties
  <2> QED
    BY <2>2, PacketsAssumption DEF PacketsAssumption
<1>2. ASSUME NEW r, r \in Short, Chosen(r) PROVE Sorted(r, S)
  <2>1. r \in Seq(Packets) /\ Len(r) <= MaxPackets /\ DOMAIN r = 1 .. Len(r)
    BY <1>1, <1>2, LenProperties
  <2>2. S = {r[i] : i \in 1 .. Len(r)}
    BY <1>2, <2>1, RangeEquality
  <2> QED
    BY <1>2, <2>1, <2>2 DEF Sorted, Increasing
<1>3. q \in Short /\ Chosen(q)
  <2>1. /\ q \in Seq(Packets) /\ Len(q) \in Nat /\ DOMAIN q = 1 .. Len(q) /\ Len(q) <= MaxPackets
        /\ MaxPackets \in Nat /\ \A i, j \in 1 .. Len(q) : i < j => q[i] < q[j]
    BY Positions
  <2>2. Range(q) = {q[i] : i \in 1 .. Len(q)}
    BY <2>1, RangeEquality
  <2>3. Range(q) = S
    BY <2>2 DEF Sorted
  <2>4. q \in [1 .. Len(q) -> Packets] /\ Len(q) \in 0 .. MaxPackets
    BY <2>1, LenProperties
  <2>5. q \in Short
    BY <2>4 DEF BoundedSeq, SeqOf
  <2>6. \A i, j \in DOMAIN q : i < j => q[i] < q[j]
    BY <2>1
  <2> QED
    BY <2>3, <2>5, <2>6
<1>4. InOrder(S) \in Short /\ Chosen(InOrder(S))
  <2>1. InOrder(S) = CHOOSE r \in Short : Chosen(r)
    BY DEF InOrder
  <2> HIDE DEF Short, Chosen
  <2> QED
    BY <1>3, <2>1
<1> DEFINE r == InOrder(S)
<1>5. Sorted(r, S)
  BY <1>2, <1>4
<1> HIDE DEF r, Chosen, Short
<1>6. q \in Seq(Packets) /\ r \in Seq(Packets) /\ Len(q) \in Nat /\ Len(r) \in Nat
  BY <1>5, Positions
<1>7. \A i \in 1 .. Len(q) : i \in 1 .. Len(r) /\ q[i] = r[i]
  BY <1>5, SortedAgree
<1>8. \A i \in 1 .. Len(r) : i \in 1 .. Len(q)
  BY <1>5, SortedAgree
<1>9. Len(q) = Len(r)
  BY <1>6, <1>7, <1>8
<1>10. q = r
  BY <1>6, <1>7, <1>9, SeqEqual
<1> QED
  BY <1>10 DEF r
\* A greater packet goes to the end.
LEMMA SortedAppend ==
  ASSUME NEW q, NEW S, Sorted(q, S), NEW x \in Packets, Len(q) < MaxPackets, \A y \in S : y < x
  PROVE  Sorted(Append(q, x), S \cup {x}) /\ Len(Append(q, x)) = Len(q) + 1
<1> DEFINE a == Append(q, x)
<1>1. /\ q \in Seq(Packets) /\ Len(q) \in Nat /\ MaxPackets \in Nat
      /\ \A k \in 1 .. Len(q) : q[k] \in S
      /\ \A k, l \in 1 .. Len(q) : k < l => q[k] < q[l]
      /\ \A y \in S : \E k \in 1 .. Len(q) : q[k] = y
  BY Positions
<1>2. /\ a \in Seq(Packets) /\ Len(a) = Len(q) + 1 /\ a[Len(q) + 1] = x
      /\ \A k \in 1 .. Len(q) : a[k] = q[k]
  BY <1>1, AppendProperties
<1> HIDE DEF a
<1>3. /\ \A k \in 1 .. Len(a) : k \in 1 .. Len(q) \/ k = Len(q) + 1
      /\ \A k \in 1 .. Len(q) : k \in 1 .. Len(a) /\ k # Len(q) + 1
      /\ Len(q) + 1 \in 1 .. Len(a) /\ Len(a) <= MaxPackets
  BY <1>1, <1>2
<1>4. Increasing(a)
  <2> SUFFICES ASSUME NEW k \in 1 .. Len(a), NEW l \in 1 .. Len(a), k < l PROVE a[k] < a[l]
    BY DEF Increasing
  <2>1. k \in 1 .. Len(q)
    BY <1>1, <1>2
  <2>2. CASE l \in 1 .. Len(q)
    BY <1>1, <1>2, <2>1, <2>2
  <2>3. CASE l = Len(q) + 1
    BY <1>1, <1>2, <2>1, <2>3
  <2> QED
    BY <1>3, <2>2, <2>3
<1>5. \A y : y \in S \cup {x} <=> \E k \in 1 .. Len(a) : a[k] = y
  <2>1. ASSUME NEW k \in 1 .. Len(a) PROVE a[k] \in S \cup {x}
    BY <1>1, <1>2, <1>3
  <2>2. ASSUME NEW y \in S \cup {x} PROVE \E k \in 1 .. Len(a) : a[k] = y
    <3>1. CASE y = x
      BY <1>2, <1>3, <3>1
    <3>2. CASE y \in S
      <4>1. PICK k \in 1 .. Len(q) : q[k] = y
        BY <1>1, <3>2
      <4>2. k \in 1 .. Len(a) /\ a[k] = y
        BY <1>2, <1>3, <4>1
      <4> QED
        BY <4>2
    <3> QED
      BY <3>1, <3>2
  <2> QED
    BY <2>1, <2>2
<1> QED
  BY <1>2, <1>3, <1>4, <1>5 DEF Sorted, a

\* Without its first packets it is what comes after them.
LEMMA SortedRest ==
  ASSUME NEW q, NEW S, Sorted(q, S), NEW n \in 0 .. Len(q)
  PROVE  LET r == SubSeq(q, n + 1, Len(q))
         IN  /\ Sorted(r, {x \in S : \E k \in n + 1 .. Len(q) : q[k] = x})
             /\ Len(r) = Len(q) - n /\ Len(r) <= Len(q)
<1> DEFINE r == SubSeq(q, n + 1, Len(q))
<1>1. /\ q \in Seq(Packets) /\ Len(q) \in Nat /\ MaxPackets \in Nat /\ Len(q) <= MaxPackets
      /\ \A k \in 1 .. Len(q) : q[k] \in S /\ q[k] \in Packets
      /\ \A k, l \in 1 .. Len(q) : k < l => q[k] < q[l]
  BY Positions
<1>2. n \in Nat /\ n + 1 \in Int /\ \A k \in n + 1 .. Len(q) : q[k] \in Packets
  BY <1>1
<1>3. /\ r \in Seq(Packets) /\ Len(r) = IF n + 1 <= Len(q) THEN (Len(q) - (n + 1)) + 1 ELSE 0
      /\ \A k \in 1 .. (Len(q) - (n + 1)) + 1 : r[k] = q[((n + 1) + k) - 1]
  BY <1>1, <1>2, SubSeqProperties
<1> HIDE DEF r
<1>4. Len(r) = Len(q) - n /\ Len(r) <= Len(q) /\ Len(r) <= MaxPackets
  BY <1>1, <1>2, <1>3
<1>5. \A k \in 1 .. Len(r) : r[k] = q[n + k] /\ n + k \in n + 1 .. Len(q) /\ n + k \in 1 .. Len(q) /\ k \in Nat
  <2> SUFFICES ASSUME NEW k \in 1 .. Len(r)
               PROVE  r[k] = q[n + k] /\ n + k \in n + 1 .. Len(q) /\ n + k \in 1 .. Len(q) /\ k \in Nat
    OBVIOUS
  <2>1. k \in 1 .. (Len(q) - (n + 1)) + 1 /\ ((n + 1) + k) - 1 = n + k
    BY <1>1, <1>2, <1>4
  <2> QED
    BY <1>1, <1>2, <1>3, <1>4, <2>1
<1>6. Increasing(r)
  <2> SUFFICES ASSUME NEW k \in 1 .. Len(r), NEW l \in 1 .. Len(r), k < l PROVE r[k] < r[l]
    BY DEF Increasing
  <2>1. n + k < n + l
    BY <1>2, <1>5
  <2> QED
    BY <1>1, <1>5, <2>1
<1>7. \A x : x \in {y \in S : \E k \in n + 1 .. Len(q) : q[k] = y} <=> \E k \in 1 .. Len(r) : r[k] = x
  <2>1. ASSUME NEW k \in 1 .. Len(r) PROVE r[k] \in {y \in S : \E l \in n + 1 .. Len(q) : q[l] = y}
    BY <1>1, <1>5
  <2>2. ASSUME NEW l \in n + 1 .. Len(q) PROVE \E k \in 1 .. Len(r) : r[k] = q[l]
    <3>1. l - n \in 1 .. Len(r) /\ n + (l - n) = l
      BY <1>1, <1>2, <1>4
    <3>2. r[l - n] = q[l]
      BY <1>5, <3>1
    <3> QED
      BY <3>1, <3>2
  <2> QED
    BY <2>1, <2>2
<1> QED
  BY <1>3, <1>4, <1>6, <1>7 DEF Sorted, r

\* The smallest packet is the head.
LEMMA SortedHead ==
  ASSUME NEW q, NEW S, Sorted(q, S), NEW v \in S, \A y \in S : v <= y
  PROVE  q # <<>> /\ Head(q) = v /\ Sorted(Tail(q), S \ {v}) /\ Len(Tail(q)) <= Len(q)
<1>1. /\ q \in Seq(Packets) /\ Len(q) \in Nat
      /\ \A k \in 1 .. Len(q) : q[k] \in S /\ q[k] \in Nat
      /\ \A k, l \in 1 .. Len(q) : k < l => q[k] < q[l]
      /\ \A k, l \in 1 .. Len(q) : k <= l => q[k] <= q[l]
      /\ \A y \in S : \E k \in 1 .. Len(q) : q[k] = y
  BY Positions
<1>2. PICK k \in 1 .. Len(q) : q[k] = v
  BY <1>1
<1>3. 1 \in 1 .. Len(q) /\ 1 <= k /\ 1 \in 0 .. Len(q)
  BY <1>1
<1>4. q[1] = v
  <2>1. q[1] <= v /\ v <= q[1] /\ q[1] \in Nat /\ v \in Nat
    BY <1>1, <1>2, <1>3
  <2> QED
    BY <2>1
<1>5. q # <<>> /\ Head(q) = q[1] /\ Tail(q) = SubSeq(q, 1 + 1, Len(q))
  <2>1. q # <<>>
    BY <1>3
  <2>2. 1 + 1 = 2
    OBVIOUS
  <2> QED
    BY <1>1, <2>1, <2>2, HeadTailProperties
<1>6. {x \in S : \E l \in 1 + 1 .. Len(q) : q[l] = x} = S \ {v}
  <2>1. ASSUME NEW l \in 1 + 1 .. Len(q) PROVE q[l] # v
    <3>1. l \in 1 .. Len(q) /\ 1 < l
      BY <1>1
    <3>2. q[1] < q[l] /\ q[1] \in Nat /\ q[l] \in Nat
      BY <1>1, <1>3, <3>1
    <3> QED
      BY <1>4, <3>2
  <2>2. ASSUME NEW x \in S, x # v PROVE \E l \in 1 + 1 .. Len(q) : q[l] = x
    <3>1. PICK l \in 1 .. Len(q) : q[l] = x
      BY <1>1
    <3>2. l # 1
      BY <1>4, <2>2, <3>1
    <3>3. l \in 1 + 1 .. Len(q)
      BY <1>1, <3>2
    <3> QED
      BY <3>1, <3>3
  <2> QED
    BY <2>1, <2>2
<1>7. /\ Sorted(SubSeq(q, 1 + 1, Len(q)), {x \in S : \E l \in 1 + 1 .. Len(q) : q[l] = x})
      /\ Len(SubSeq(q, 1 + 1, Len(q))) <= Len(q)
  BY <1>3, SortedRest
<1> QED
  BY <1>4, <1>5, <1>6, <1>7
\* Without the stretch from i to j.
Without(q, i, j) == SubSeq(q, 1, i - 1) \o SubSeq(q, j + 1, Len(q))

\* Packets that come before all others are a stretch at the beginning.
LEMMA SortedLosesFirst ==
  ASSUME NEW q, NEW S, Sorted(q, S), NEW L \in SUBSET S, L # {}, \A x \in L, y \in S \ L : x < y
  PROVE  \E j \in 1 .. Len(q) : /\ L = {q[k] : k \in 1 .. j}
                                /\ Sorted(Without(q, 1, j), S \ L)
                                /\ Len(Without(q, 1, j)) <= Len(q)
<1> DEFINE T == {k \in 1 .. Len(q) + 1 : k = Len(q) + 1 \/ q[k] \notin L}
<1>1. /\ q \in Seq(Packets) /\ Len(q) \in Nat
      /\ \A k \in 1 .. Len(q) : q[k] \in S /\ q[k] \in Nat
      /\ \A k, l \in 1 .. Len(q) : k <= l => q[k] <= q[l]
      /\ \A y \in S : \E k \in 1 .. Len(q) : q[k] = y
  BY Positions
<1>2. T \in SUBSET Nat /\ Len(q) + 1 \in T
  BY <1>1
<1>3. PICK t \in T : \A y \in T : t <= y
  BY <1>2, Smallest
<1>4. t \in 1 .. Len(q) + 1 /\ (t = Len(q) + 1 \/ q[t] \notin L)
  BY <1>3
<1>5. \A k \in 1 .. Len(q) : k < t => q[k] \in L
  <2> SUFFICES ASSUME NEW k \in 1 .. Len(q), k < t PROVE q[k] \in L
    OBVIOUS
  <2>1. k \in 1 .. Len(q) + 1 /\ k # Len(q) + 1 /\ ~(t <= k)
    BY <1>1, <1>4
  <2>2. k \notin T
    BY <1>3, <2>1
  <2> QED
    BY <2>1, <2>2
<1> HIDE DEF T
<1>6. \A k \in 1 .. Len(q) : t <= k => q[k] \notin L
  <2> SUFFICES ASSUME NEW k \in 1 .. Len(q), t <= k, q[k] \in L PROVE FALSE
    OBVIOUS
  <2>1. t \in 1 .. Len(q) /\ q[t] \notin L
    BY <1>1, <1>4
  <2>2. q[t] <= q[k] /\ q[k] < q[t] /\ q[t] \in Nat /\ q[k] \in Nat
    BY <1>1, <2>1
  <2> QED
    BY <2>2
<1>7. t # 1
  <2> SUFFICES ASSUME t = 1 PROVE FALSE
    OBVIOUS
  <2>1. PICK x : x \in L
    OBVIOUS
  <2>2. PICK k \in 1 .. Len(q) : q[k] = x
    BY <1>1, <2>1
  <2> QED
    BY <1>6, <2>1, <2>2
<1> DEFINE j == t - 1
<1>8. j \in 1 .. Len(q) /\ j \in 0 .. Len(q) /\ j + 1 = t
  BY <1>1, <1>4, <1>7
<1> HIDE DEF j
<1>9. L = {q[k] : k \in 1 .. j}
  <2>1. ASSUME NEW k \in 1 .. j PROVE q[k] \in L
    <3>1. k \in 1 .. Len(q) /\ k < t
      BY <1>1, <1>8
    <3> QED
      BY <1>5, <3>1
  <2>2. ASSUME NEW x \in L PROVE \E k \in 1 .. j : q[k] = x
    <3>1. PICK k \in 1 .. Len(q) : q[k] = x
      BY <1>1
    <3>2. ~(t <= k)
      BY <1>6, <3>1
    <3>3. k \in 1 .. j
      BY <1>1, <1>4, <1>8, <3>2
    <3> QED
      BY <3>1, <3>3
  <2> QED
    BY <2>1, <2>2
<1>10. {x \in S : \E k \in j + 1 .. Len(q) : q[k] = x} = S \ L
  <2>1. ASSUME NEW k \in j + 1 .. Len(q) PROVE q[k] \notin L
    <3>1. k \in 1 .. Len(q) /\ t <= k
      BY <1>1, <1>8
    <3> QED
      BY <1>6, <3>1
  <2>2. ASSUME NEW x \in S, x \notin L PROVE \E k \in j + 1 .. Len(q) : q[k] = x
    <3>1. PICK k \in 1 .. Len(q) : q[k] = x
      BY <1>1
    <3>2. ~(k < t)
      BY <1>5, <2>2, <3>1
    <3>3. k \in j + 1 .. Len(q)
      BY <1>1, <1>4, <1>8, <3>2
    <3> QED
      BY <3>1, <3>3
  <2> QED
    BY <2>1, <2>2
<1> DEFINE rest == SubSeq(q, j + 1, Len(q))
<1>11. Sorted(rest, S \ L) /\ Len(rest) <= Len(q)
  BY <1>8, <1>10, SortedRest
<1>12. Without(q, 1, j) = rest
  <2>1. SubSeq(q, 1, 1 - 1) = <<>>
    BY <1>1, SubSeqEmpty
  <2>2. rest \in Seq(Packets)
    BY <1>11 DEF Sorted
  <2>3. Without(q, 1, j) = <<>> \o rest
    BY <2>1 DEF Without
  <2> HIDE DEF rest
  <2> QED
    BY <2>2, <2>3, ConcatEmptySeq
<1> HIDE DEF rest
<1> QED
  BY <1>8, <1>9, <1>11, <1>12

\* All but the smallest are a stretch at the end.
LEMMA SortedLosesRest ==
  ASSUME NEW q, NEW S, Sorted(q, S), NEW v \in S, \A y \in S : v <= y, S \ {v} # {}
  PROVE  /\ 2 \in 1 .. Len(q) /\ Len(q) \in 1 .. Len(q) /\ S \ {v} = {q[k] : k \in 2 .. Len(q)}
         /\ Sorted(Without(q, 2, Len(q)), {v}) /\ Len(Without(q, 2, Len(q))) <= Len(q)
<1>1. /\ q \in Seq(Packets) /\ Len(q) \in Nat /\ MaxPackets \in Nat /\ Len(q) <= MaxPackets
      /\ \A k \in 1 .. Len(q) : q[k] \in S /\ q[k] \in Nat /\ q[k] \in Packets
      /\ \A k, l \in 1 .. Len(q) : k < l => q[k] < q[l]
      /\ \A k, l \in 1 .. Len(q) : k <= l => q[k] <= q[l]
      /\ \A y \in S : \E k \in 1 .. Len(q) : q[k] = y
  BY Positions
<1>2. PICK m \in 1 .. Len(q) : q[m] = v
  BY <1>1
<1>3. 1 \in 1 .. Len(q) /\ 1 <= m
  BY <1>1
<1>4. q[1] = v
  <2>1. q[1] <= v /\ v <= q[1] /\ q[1] \in Nat /\ v \in Nat
    BY <1>1, <1>2, <1>3
  <2> QED
    BY <2>1
<1>5. \A k \in 2 .. Len(q) : k \in 1 .. Len(q) /\ q[k] \in S \ {v}
  <2> SUFFICES ASSUME NEW k \in 2 .. Len(q) PROVE k \in 1 .. Len(q) /\ q[k] \in S \ {v}
    OBVIOUS
  <2>1. k \in 1 .. Len(q) /\ 1 < k
    BY <1>1
  <2>2. q[1] < q[k] /\ q[1] \in Nat /\ q[k] \in Nat
    BY <1>1, <1>3, <2>1
  <2> QED
    BY <1>1, <1>4, <2>1, <2>2
<1>6. \A x \in S \ {v} : \E k \in 2 .. Len(q) : q[k] = x
  <2> SUFFICES ASSUME NEW x \in S \ {v} PROVE \E k \in 2 .. Len(q) : q[k] = x
    OBVIOUS
  <2>1. PICK k \in 1 .. Len(q) : q[k] = x
    BY <1>1
  <2>2. k # 1
    BY <1>4, <2>1
  <2>3. k \in 2 .. Len(q)
    BY <1>1, <2>2
  <2> QED
    BY <2>1, <2>3
<1>7. 2 \in 1 .. Len(q) /\ Len(q) \in 1 .. Len(q)
  <2>1. PICK x : x \in S \ {v}
    OBVIOUS
  <2>2. PICK k \in 2 .. Len(q) : q[k] = x
    BY <1>6, <2>1
  <2> QED
    BY <1>1, <2>2
<1> DEFINE first == SubSeq(q, 1, 2 - 1)
           rest == SubSeq(q, Len(q) + 1, Len(q))
<1>8. first \in Seq(Packets) /\ Len(first) = 1 /\ first[1] = v
  <2>1. 2 - 1 = 1
    OBVIOUS
  <2>2. /\ SubSeq(q, 1, 1) \in Seq(Packets) /\ Len(SubSeq(q, 1, 1)) = IF 1 <= 1 THEN (1 - 1) + 1 ELSE 0
        /\ \A k \in 1 .. (1 - 1) + 1 : SubSeq(q, 1, 1)[k] = q[(1 + k) - 1]
    <3>1. \A k \in 1 .. 1 : q[k] \in Packets
      BY <1>1, <1>3
    <3> QED
      BY <1>1, <3>1, SubSeqProperties
  <2>3. (1 - 1) + 1 = 1 /\ (1 + 1) - 1 = 1 /\ 1 \in 1 .. 1
    OBVIOUS
  <2> QED
    BY <1>4, <2>1, <2>2, <2>3
<1>9. rest = <<>>
  <2>1. Len(q) + 1 > Len(q) /\ Len(q) + 1 \in Int /\ Len(q) \in Int
    BY <1>1
  <2> QED
    BY <2>1, SubSeqEmpty
<1>10. first \o rest = first
  <2> HIDE DEF first, rest
  <2> QED
    BY <1>8, <1>9, ConcatEmptySeq
<1> HIDE DEF first, rest
<1>11. Sorted(first, {v}) /\ Len(first) <= Len(q)
  <2>1. \A k \in 1 .. Len(first) : k = 1
    BY <1>8
  <2>2. Increasing(first) /\ \A x : x \in {v} <=> \E k \in 1 .. Len(first) : first[k] = x
    BY <1>8, <2>1 DEF Increasing
  <2>3. Len(first) <= Len(q) /\ Len(first) <= MaxPackets
    BY <1>1, <1>7, <1>8
  <2> QED
    BY <1>8, <2>2, <2>3 DEF Sorted
<1> QED
  BY <1>5, <1>6, <1>7, <1>10, <1>11 DEF first, rest, Without
-----------------------------------------------------------------------------
(***************************************************************************)
(* The refinement.  What the watched connection still has to publish is in *)
(* the order of sending, and no longer than what was sent.                 *)
(***************************************************************************)
Pending == InOrder(UnderWay(Watched))
SortInv == Sorted(Pending, UnderWay(Watched)) /\ Len(Pending) <= sent

\* The abstract steps, with the model's state in them.
LEMMA ChannelSteps ==
  /\ Channel!Init <=> Pending = <<>> /\ delivered[Watched] = <<>> /\ lost[Watched] = {}
  /\ UNCHANGED Channel!vars <=> /\ Pending' = Pending /\ delivered'[Watched] = delivered[Watched]
                                /\ lost'[Watched] = lost[Watched]
  /\ \A x \in Packets :
       /\ x \notin Range(Pending) \cup Range(delivered[Watched]) \cup lost[Watched]
       /\ Pending' = Append(Pending, x)
       /\ delivered'[Watched] = delivered[Watched] /\ lost'[Watched] = lost[Watched]
       => Channel!Next
  /\ /\ Pending # <<>> /\ delivered'[Watched] = Append(delivered[Watched], Head(Pending))
     /\ Pending' = Tail(Pending) /\ lost'[Watched] = lost[Watched]
     => Channel!Next
  /\ \A i, j \in 1 .. Len(Pending) :
       /\ i <= j /\ lost'[Watched] = lost[Watched] \cup {Pending[k] : k \in i .. j}
       /\ Pending' = Without(Pending, i, j)
       /\ delivered'[Watched] = delivered[Watched]
       => Channel!Next
<1>1. Channel!Init <=> Pending = <<>> /\ delivered[Watched] = <<>> /\ lost[Watched] = {}
  BY DEF Channel!Init, Pending
<1>2. UNCHANGED Channel!vars <=> /\ Pending' = Pending /\ delivered'[Watched] = delivered[Watched]
                                 /\ lost'[Watched] = lost[Watched]
  BY DEF Channel!vars, Pending
<1>3. ASSUME NEW x \in Packets,
             x \notin Range(Pending) \cup Range(delivered[Watched]) \cup lost[Watched],
             Pending' = Append(Pending, x),
             delivered'[Watched] = delivered[Watched], lost'[Watched] = lost[Watched]
      PROVE  Channel!Next
  <2>1. Channel!Accept(x)
    BY <1>3 DEF Channel!Accept, Channel!Range, Range, Pending
  <2> QED
    BY <2>1 DEF Channel!Next
<1>4. ASSUME Pending # <<>>, delivered'[Watched] = Append(delivered[Watched], Head(Pending)),
             Pending' = Tail(Pending), lost'[Watched] = lost[Watched]
      PROVE  Channel!Next
  BY <1>4 DEF Channel!Next, Channel!Deliver, Pending
<1>5. ASSUME NEW i \in 1 .. Len(Pending), NEW j \in 1 .. Len(Pending), i <= j,
             lost'[Watched] = lost[Watched] \cup {Pending[k] : k \in i .. j},
             Pending' = Without(Pending, i, j),
             delivered'[Watched] = delivered[Watched]
      PROVE  Channel!Next
  <2>1. Channel!Lose(i, j)
    BY <1>5 DEF Channel!Lose, Pending, Without
  <2>2. \E k, l \in 1 .. Len(Pending) : k <= l /\ Channel!Lose(k, l)
    BY <1>5, <2>1
  <2> QED
    BY <2>2 DEF Channel!Next, Pending
<1> QED
  BY <1>1, <1>2, <1>3, <1>4, <1>5

\* Nothing happens to the watched connection's jobs.
LEMMA WatchedStutters ==
  ASSUME SortInv, sent \in Nat, sent' \in Nat, sent <= sent', UnderWay(Watched)' = UnderWay(Watched),
         delivered'[Watched] = delivered[Watched], lost'[Watched] = lost[Watched]
  PROVE  SortInv' /\ UNCHANGED Channel!vars
<1>1. Pending' = Pending
  BY DEF Pending
<1>2. Len(Pending) \in Nat
  BY Positions DEF SortInv
<1>3. Len(Pending) <= sent'
  BY <1>2 DEF SortInv
<1> QED
  BY <1>1, <1>3, ChannelSteps DEF SortInv

\* A new sequence of the jobs under way is the one InOrder finds.
LEMMA NewPending ==
  ASSUME NEW r, Sorted(r, UnderWay(Watched)'), Len(r) <= sent' PROVE Pending' = r /\ SortInv'
<1>1. InOrder(UnderWay(Watched)') = r
  BY SortedIsInOrder
<1>2. Pending' = r
  BY <1>1 DEF Pending
<1> QED
  BY <1>2 DEF SortInv

\* Everything of a connection has been sent.
LEMMA AllWasSent ==
  ASSUME TypeInv, OrderInv, NEW c \in Connections
  PROVE  /\ UnderWay(c) = (IF out[c].port \in JobPorts THEN {out[c].value} ELSE {}) \cup JobPackets(inbox[c])
         /\ \A x \in UnderWay(c) \cup Range(delivered[c]) \cup lost[c] : x \in Packets /\ x <= sent
         /\ out[c].port \in JobPorts =>
              out[c].value \in UnderWay(c) /\ \A x \in JobPackets(inbox[c]) : out[c].value < x
<1>1. /\ inbox[c] \in Seq(Halves) /\ out[c] \in Messages /\ delivered[c] \in Seq(Packets)
      /\ lost[c] \in SUBSET Packets
  BY PartTypes
<1>2. Flow(inbox[c], out[c], delivered[c], lost[c], sent)
  BY DEF OrderInv
<1>3. out[c].port \in {"none", "status"} <=> out[c].port \notin JobPorts
  BY <1>1, MessageKinds
<1>4. UnderWay(c) = (IF out[c].port \in JobPorts THEN {out[c].value} ELSE {}) \cup JobPackets(inbox[c])
  BY <1>3 DEF UnderWay
<1>5. ASSUME NEW x \in JobPackets(inbox[c])
      PROVE  /\ x \in Packets /\ x <= sent
             /\ \A p \in Packets : Seen(p, out[c], delivered[c], lost[c]) => p < x
  <2>1. PICK i \in 1 .. Len(inbox[c]) : StartsJob(inbox[c][i]) /\ inbox[c][i].packet = x
    BY <1>1, JobPacketsOf
  <2>2. x \in Packets
    BY <1>1, JobPacketsOf
  <2> QED
    BY <1>2, <2>1, <2>2 DEF StartsJob, Flow, Sent, Ahead
<1>6. Range(delivered[c]) = {delivered[c][i] : i \in 1 .. Len(delivered[c])}
  BY <1>1, RangeEquality
<1>7. \A i \in 1 .. Len(delivered[c]) : delivered[c][i] \in Packets
  BY <1>1, ElementOfSeq
<1>8. \A x \in Range(delivered[c]) \cup lost[c] : x \in Packets /\ x <= sent
  BY <1>1, <1>2, <1>6, <1>7 DEF Flow, Sent, Seen
<1>9. out[c].port \in JobPorts => out[c].value \in Packets /\ out[c].value <= sent
  BY <1>1, <1>2, MessageKinds DEF Flow, Sent, Seen
<1>10. \A x \in JobPackets(inbox[c]) : out[c].port \in JobPorts => out[c].value < x
  BY <1>5, <1>9 DEF Seen
<1> QED
  BY <1>4, <1>5, <1>8, <1>9, <1>10

\* Level2 sends a job on the watched connection.
LEMMA WatchedAccepts ==
  ASSUME TypeInv, OrderInv, SortInv, sent < MaxPackets, sent' = sent + 1,
         UnderWay(Watched)' = UnderWay(Watched) \cup {sent + 1},
         delivered'[Watched] = delivered[Watched], lost'[Watched] = lost[Watched]
  PROVE  SortInv' /\ Channel!Next
<1> DEFINE x == sent + 1
<1>1. MaxPackets \in Nat /\ sent \in Nat /\ x \in Packets /\ \A p \in Packets : p \in Nat
  BY PacketsAssumption DEF PacketsAssumption, Packets, TypeInv, PeerTypes
<1>2. \A y \in UnderWay(Watched) \cup Range(delivered[Watched]) \cup lost[Watched] : y \in Packets /\ y <= sent
  BY AllWasSent, ConnectionsAssumption DEF ConnectionsAssumption
<1>3. \A y \in UnderWay(Watched) \cup Range(delivered[Watched]) \cup lost[Watched] : y < x
  BY <1>1, <1>2
<1>4. /\ Sorted(Pending, UnderWay(Watched)) /\ Len(Pending) <= sent /\ Len(Pending) \in Nat
      /\ Pending \in Seq(Packets)
  BY Positions DEF SortInv
<1>5. Len(Pending) < MaxPackets
  BY <1>1, <1>4
<1>6. Sorted(Append(Pending, x), UnderWay(Watched) \cup {x}) /\ Len(Append(Pending, x)) = Len(Pending) + 1
  BY <1>1, <1>3, <1>4, <1>5, SortedAppend
<1>7. Pending' = Append(Pending, x) /\ SortInv'
  <2>1. Len(Append(Pending, x)) <= sent'
    BY <1>1, <1>4, <1>6
  <2> QED
    BY <1>6, <2>1, NewPending
<1>8. Range(Pending) \subseteq UnderWay(Watched)
  <2>1. Range(Pending) = {Pending[k] : k \in 1 .. Len(Pending)}
    BY <1>4, RangeEquality
  <2> QED
    BY <1>4, <2>1, Positions
<1>9. x \notin Range(Pending) \cup Range(delivered[Watched]) \cup lost[Watched]
  <2>1. ~(x < x)
    BY <1>1
  <2> QED
    BY <1>3, <1>8, <2>1
<1> QED
  BY <1>1, <1>7, <1>9, ChannelSteps

\* Its thread publishes the oldest.
LEMMA WatchedDelivers ==
  ASSUME SortInv, sent' = sent, sent \in Nat, NEW v \in UnderWay(Watched), \A y \in UnderWay(Watched) : v <= y,
         UnderWay(Watched)' = UnderWay(Watched) \ {v},
         delivered'[Watched] = Append(delivered[Watched], v), lost'[Watched] = lost[Watched]
  PROVE  SortInv' /\ Channel!Next
<1>1. Sorted(Pending, UnderWay(Watched)) /\ Len(Pending) <= sent /\ Len(Pending) \in Nat
  BY Positions DEF SortInv
<1>2. /\ Pending # <<>> /\ Head(Pending) = v
      /\ Sorted(Tail(Pending), UnderWay(Watched) \ {v}) /\ Len(Tail(Pending)) <= Len(Pending)
  BY <1>1, SortedHead
<1>3. Pending' = Tail(Pending) /\ SortInv'
  <2>1. Len(Tail(Pending)) \in Nat
    BY <1>2, Positions
  <2>2. Len(Tail(Pending)) <= sent'
    BY <1>1, <1>2, <2>1
  <2> QED
    BY <1>2, <2>2, NewPending
<1> QED
  BY <1>2, <1>3, ChannelSteps

\* The oldest ones are lost.
LEMMA WatchedLosesFirst ==
  ASSUME SortInv, sent' = sent, sent \in Nat,
         NEW L \in SUBSET UnderWay(Watched), \A x \in L, y \in UnderWay(Watched) \ L : x < y,
         UnderWay(Watched)' = UnderWay(Watched) \ L,
         delivered'[Watched] = delivered[Watched], lost'[Watched] = lost[Watched] \cup L
  PROVE  SortInv' /\ (Channel!Next \/ UNCHANGED Channel!vars)
<1>1. CASE L = {}
  BY <1>1, WatchedStutters
<1>2. CASE L # {}
  <2>1. Sorted(Pending, UnderWay(Watched)) /\ Len(Pending) <= sent /\ Len(Pending) \in Nat
    BY Positions DEF SortInv
  <2>2. PICK j \in 1 .. Len(Pending) :
          /\ L = {Pending[k] : k \in 1 .. j} /\ Sorted(Without(Pending, 1, j), UnderWay(Watched) \ L)
          /\ Len(Without(Pending, 1, j)) <= Len(Pending)
    BY <1>2, <2>1, SortedLosesFirst
  <2>3. Len(Without(Pending, 1, j)) \in Nat
    BY <2>2, Positions
  <2>4. Len(Without(Pending, 1, j)) <= sent'
    BY <2>1, <2>2, <2>3
  <2>5. Pending' = Without(Pending, 1, j) /\ SortInv'
    BY <2>2, <2>4, NewPending
  <2>6. 1 \in 1 .. Len(Pending) /\ 1 <= j
    BY <2>1
  <2> QED
    BY <2>2, <2>5, <2>6, ChannelSteps
<1> QED
  BY <1>1, <1>2

\* All but the oldest are lost.
LEMMA WatchedLosesRest ==
  ASSUME SortInv, sent' = sent, sent \in Nat, NEW v \in UnderWay(Watched), \A y \in UnderWay(Watched) : v <= y,
         UnderWay(Watched)' = {v},
         delivered'[Watched] = delivered[Watched],
         lost'[Watched] = lost[Watched] \cup (UnderWay(Watched) \ {v})
  PROVE  SortInv' /\ (Channel!Next \/ UNCHANGED Channel!vars)
<1>1. CASE UnderWay(Watched) \ {v} = {}
  <2>1. UnderWay(Watched)' = UnderWay(Watched) /\ lost'[Watched] = lost[Watched]
    BY <1>1
  <2> QED
    BY <2>1, WatchedStutters
<1>2. CASE UnderWay(Watched) \ {v} # {}
  <2>1. Sorted(Pending, UnderWay(Watched)) /\ Len(Pending) <= sent /\ Len(Pending) \in Nat
    BY Positions DEF SortInv
  <2> DEFINE n == Len(Pending)
             r == Without(Pending, 2, n)
  <2>2. /\ 2 \in 1 .. n /\ n \in 1 .. n /\ UnderWay(Watched) \ {v} = {Pending[k] : k \in 2 .. n}
        /\ Sorted(r, {v}) /\ Len(r) <= n
    BY <1>2, <2>1, SortedLosesRest
  <2>3. Len(r) \in Nat
    BY <2>2, Positions
  <2>4. Len(r) <= sent'
    BY <2>1, <2>2, <2>3
  <2>5. Pending' = r /\ SortInv'
    BY <2>2, <2>4, NewPending
  <2>6. 2 <= n
    BY <2>2
  <2> QED
    BY <2>2, <2>5, <2>6, ChannelSteps
<1> QED
  BY <1>1, <1>2
-----------------------------------------------------------------------------
(***************************************************************************)
(* What each step does to the jobs under way on the watched connection.    *)
(***************************************************************************)
Follows == SortInv' /\ (Channel!Next \/ UNCHANGED Channel!vars)
ChannelInv == TypeInv /\ OrderInv /\ SortInv

\* The watched connection, and numbers.
LEMMA WatchedParts ==
  ASSUME ChannelInv
  PROVE  /\ Watched \in Connections /\ sent \in Nat
         /\ inbox[Watched] \in Seq(Halves) /\ out[Watched] \in Messages
         /\ tpc[Watched] \notin Holding => out[Watched].port \notin JobPorts
         /\ tpc[Watched] \in Holding /\ out[Watched].port # "status" => out[Watched].port \in JobPorts
         /\ UnderWay(Watched) = (IF out[Watched].port \in JobPorts THEN {out[Watched].value} ELSE {})
                                  \cup JobPackets(inbox[Watched])
         /\ out[Watched].port \in JobPorts =>
              /\ out[Watched].value \in UnderWay(Watched) /\ out[Watched].value \notin JobPackets(inbox[Watched])
              /\ \A x \in JobPackets(inbox[Watched]) : out[Watched].value < x
              /\ \A x \in UnderWay(Watched) : out[Watched].value <= x
<1>1. Watched \in Connections
  BY ConnectionsAssumption DEF ConnectionsAssumption
<1>2. sent \in Nat /\ \A p \in Packets : p \in Nat
  BY PacketsAssumption DEF PacketsAssumption, Packets, ChannelInv, TypeInv, PeerTypes
<1>3. /\ UnderWay(Watched) = (IF out[Watched].port \in JobPorts THEN {out[Watched].value} ELSE {})
                               \cup JobPackets(inbox[Watched])
      /\ \A x \in UnderWay(Watched) : x \in Packets
      /\ out[Watched].port \in JobPorts =>
           /\ out[Watched].value \in UnderWay(Watched)
           /\ \A x \in JobPackets(inbox[Watched]) : out[Watched].value < x
  BY <1>1, AllWasSent DEF ChannelInv
<1>4. ASSUME out[Watched].port \in JobPorts
      PROVE  /\ out[Watched].value \notin JobPackets(inbox[Watched])
             /\ \A x \in UnderWay(Watched) : out[Watched].value <= x
  <2> DEFINE v == out[Watched].value
             J == JobPackets(inbox[Watched])
  <2>1. v \in Nat /\ UnderWay(Watched) = {v} \cup J /\ \A x \in J : x \in Nat /\ v < x
    BY <1>2, <1>3, <1>4
  <2> HIDE DEF v, J
  <2>2. v \notin J /\ \A x \in {v} \cup J : v <= x
    BY <2>1
  <2> QED
    BY <2>1, <2>2 DEF v, J
<1>5. /\ inbox[Watched] \in Seq(Halves) /\ out[Watched] \in Messages
      /\ tpc[Watched] \notin Holding => out[Watched].port \notin JobPorts
      /\ tpc[Watched] \in Holding /\ out[Watched].port # "status" => out[Watched].port \in JobPorts
  BY <1>1, PartTypes DEF ChannelInv
<1> QED
  BY <1>1, <1>2, <1>3, <1>4, <1>5

\* The jobs under way after a step.
LEMMA UnderWayNext ==
  ASSUME out'[Watched] \in Messages
  PROVE  UnderWay(Watched)' = (IF out'[Watched].port \in JobPorts THEN {out'[Watched].value} ELSE {})
                                \cup JobPackets(inbox'[Watched])
<1>1. out'[Watched].port \in {"none", "status"} <=> out'[Watched].port \notin JobPorts
  BY MessageKinds
<1> QED
  BY <1>1 DEF UnderWay

\* Nothing of the connection changes.
LEMMA FollowsUnchanged ==
  ASSUME ChannelInv, sent' = sent \/ sent' = sent + 1,
         out'[Watched] = out[Watched], inbox'[Watched] = inbox[Watched],
         delivered'[Watched] = delivered[Watched], lost'[Watched] = lost[Watched]
  PROVE  Follows
<1>1. UnderWay(Watched)' = UnderWay(Watched)
  BY DEF UnderWay
<1>2. sent \in Nat /\ sent' \in Nat /\ sent <= sent'
  BY WatchedParts
<1> QED
  BY <1>1, <1>2, WatchedStutters DEF ChannelInv, Follows

\* A step of another connection.
LEMMA FollowsOther ==
  ASSUME ChannelInv, NEW c \in Connections, c # Watched, sent' = sent \/ sent' = sent + 1,
         out' = out \/ \E m : out' = Put(out, c, m), inbox' = inbox \/ \E q : inbox' = Put(inbox, c, q),
         delivered' = delivered \/ \E d : delivered' = Put(delivered, c, d),
         lost' = lost \/ \E l : lost' = Put(lost, c, l)
  PROVE  Follows
<1>1. /\ DOMAIN out = Connections /\ DOMAIN inbox = Connections /\ DOMAIN delivered = Connections
      /\ DOMAIN lost = Connections /\ Watched \in Connections
  BY WatchedParts DEF ChannelInv, TypeInv, ThreadTypes, PeerTypes, RecordTypes
<1>2. out'[Watched] = out[Watched] /\ inbox'[Watched] = inbox[Watched]
  BY <1>1 DEF Put
<1>3. delivered'[Watched] = delivered[Watched] /\ lost'[Watched] = lost[Watched]
  BY <1>1 DEF Put
<1> QED
  BY <1>2, <1>3, FollowsUnchanged

\* The stream of the watched connection is reset.
LEMMA FollowsReset ==
  ASSUME ChannelInv, sent' = sent, out'[Watched] = out[Watched], inbox'[Watched] = <<>>,
         delivered'[Watched] = delivered[Watched],
         lost'[Watched] = lost[Watched] \cup JobPackets(inbox[Watched])
  PROVE  Follows
<1> DEFINE J == JobPackets(inbox[Watched])
           U == UnderWay(Watched)
           v == out[Watched].value
<1>1. JobPackets(<<>>) = {}
  <2>1. <<>> \in Seq(Halves) /\ 1 .. Len(<<>>) = {}
    OBVIOUS
  <2> QED
    BY <2>1, JobPacketsOf
<1>2. UnderWay(Watched)' = IF out[Watched].port \in JobPorts THEN {v} ELSE {}
  BY <1>1, WatchedParts, UnderWayNext
<1>3. CASE out[Watched].port \in JobPorts
  <2>1. v \in U /\ (\A x \in U : v <= x) /\ U \ {v} = J /\ sent \in Nat
    BY <1>3, WatchedParts
  <2>2. UnderWay(Watched)' = {v} /\ lost'[Watched] = lost[Watched] \cup (U \ {v})
    BY <1>2, <1>3, <2>1
  <2> QED
    BY <2>1, <2>2, WatchedLosesRest DEF ChannelInv, Follows
<1>4. CASE out[Watched].port \notin JobPorts
  <2>1. U = J /\ sent \in Nat
    BY <1>4, WatchedParts
  <2>2. /\ U \in SUBSET U /\ UnderWay(Watched)' = U \ U /\ lost'[Watched] = lost[Watched] \cup U
        /\ \A x \in U, y \in U \ U : x < y
    BY <1>2, <1>4, <2>1
  <2> QED
    BY <2>1, <2>2, WatchedLosesFirst DEF ChannelInv, Follows
<1> QED
  BY <1>3, <1>4

\* The job in the thread's hand is dropped, or published.
LEMMA FollowsHand ==
  ASSUME ChannelInv, sent' = sent, out[Watched].port \in JobPorts, out'[Watched] = NoMessage,
         inbox'[Watched] = inbox[Watched],
         \/ /\ delivered'[Watched] = delivered[Watched]
            /\ lost'[Watched] = lost[Watched] \cup {out[Watched].value}
         \/ /\ delivered'[Watched] = Append(delivered[Watched], out[Watched].value)
            /\ lost'[Watched] = lost[Watched]
  PROVE  Follows
<1> DEFINE U == UnderWay(Watched)
           v == out[Watched].value
<1>1. /\ v \in U /\ (\A x \in U : v <= x) /\ U = {v} \cup JobPackets(inbox[Watched])
      /\ v \notin JobPackets(inbox[Watched]) /\ sent \in Nat
      /\ \A x \in JobPackets(inbox[Watched]) : v < x
  BY WatchedParts
<1>2. UnderWay(Watched)' = U \ {v}
  <2>1. UnderWay(Watched)' = JobPackets(inbox[Watched])
    BY UnderWayNext, MessageKinds
  <2> QED
    BY <1>1, <2>1
<1>3. CASE delivered'[Watched] = delivered[Watched] /\ lost'[Watched] = lost[Watched] \cup {v}
  <2>1. {v} \in SUBSET U /\ \A x \in {v}, y \in U \ {v} : x < y
    BY <1>1
  <2> QED
    BY <1>1, <1>2, <1>3, <2>1, WatchedLosesFirst DEF ChannelInv, Follows
<1>4. CASE delivered'[Watched] = Append(delivered[Watched], v) /\ lost'[Watched] = lost[Watched]
  BY <1>1, <1>2, <1>4, WatchedDelivers DEF ChannelInv, Follows
<1> QED
  BY <1>3, <1>4

\* The thread's message changes, and neither is a job.
LEMMA FollowsMessage ==
  ASSUME ChannelInv, sent' = sent, out[Watched].port \notin JobPorts, out'[Watched] \in Messages,
         out'[Watched].port \notin JobPorts,
         inbox'[Watched] = inbox[Watched], delivered'[Watched] = delivered[Watched],
         lost'[Watched] = lost[Watched]
  PROVE  Follows
<1>1. UnderWay(Watched)' = UnderWay(Watched)
  BY WatchedParts, UnderWayNext
<1>2. sent \in Nat
  BY WatchedParts
<1> QED
  BY <1>1, <1>2, WatchedStutters DEF ChannelInv, Follows

\* Level2 sends a packet.
LEMMA FollowsSends ==
  ASSUME ChannelInv, NEW c \in Connections, NEW k \in AllKinds, Level2Sends(c, k) PROVE Follows
<1> DEFINE h(first) == [packet |-> sent + 1, kind |-> k, first |-> first]
           a == h(TRUE)
           b == h(FALSE)
           q == inbox[c] \o <<a, b>>
<1>1. /\ sent < MaxPackets /\ sent' = sent + 1 /\ UNCHANGED <<out, delivered, lost>>
      /\ inbox' = Put(inbox, c, q)
  BY DEF Level2Sends, threadvars
<1>2. sent \in 0 .. MaxPackets /\ MaxPackets \in Nat /\ sent + 1 \in Packets
  BY <1>1, PacketsAssumption DEF ChannelInv, TypeInv, PeerTypes, Packets, PacketsAssumption
<1>3. a \in Halves /\ b \in Halves /\ a.packet = sent + 1 /\ a.kind = k
  BY <1>2 DEF Halves
<1>4. a.first /\ ~b.first
  OBVIOUS
<1> HIDE DEF a, b
<1>5. CASE c # Watched
  BY <1>1, <1>5, FollowsOther
<1>6. CASE c = Watched
  <2>1. /\ inbox[Watched] \in Seq(Halves) /\ out[Watched] \in Messages
        /\ out'[Watched] = out[Watched] /\ delivered'[Watched] = delivered[Watched]
        /\ lost'[Watched] = lost[Watched]
    BY <1>1, WatchedParts
  <2>2. inbox'[Watched] = inbox[Watched] \o <<a, b>>
    BY <1>1, <1>6 DEF Put, ChannelInv, TypeInv, PeerTypes
  <2>3. JobPackets(inbox'[Watched])
          = JobPackets(inbox[Watched]) \cup (IF k \in JobKinds THEN {sent + 1} ELSE {})
    BY <1>3, <1>4, <2>1, <2>2, StreamGrows
  <2>4. UnderWay(Watched)' = UnderWay(Watched) \cup (IF k \in JobKinds THEN {sent + 1} ELSE {})
    BY <2>1, <2>3, WatchedParts, UnderWayNext
  <2>5. CASE k \in JobKinds
    BY <1>1, <2>1, <2>4, <2>5, WatchedAccepts DEF ChannelInv, Follows
  <2>6. CASE k \notin JobKinds
    <3>1. sent \in Nat /\ sent' \in Nat /\ sent <= sent'
      BY <1>1, <1>2
    <3> QED
      BY <2>1, <2>4, <2>6, <3>1, WatchedStutters DEF ChannelInv, Follows
  <2> QED
    BY <2>5, <2>6
<1> QED
  BY <1>5, <1>6

\* recv returns something: what was no job, or too short or too long, is lost.
LEMMA FollowsReceive ==
  ASSUME ChannelInv, NEW c \in Connections, Receive(c) PROVE Follows
<1>0. TypeInv
  BY DEF ChannelInv
<1>1. tpc[c] = "recv" /\ UNCHANGED <<sent, delivered>>
  BY <1>0, Received
<1>2. PICK n \in 1 .. Len(inbox[c]) :
        /\ inbox' = Put(inbox, c, SubSeq(inbox[c], n + 1, Len(inbox[c])))
        /\ \/ /\ KindOf(c, n) \in JobKinds /\ lost' = lost
              /\ out' = Put(out, c, [port |-> Port(KindOf(c, n)), value |-> Chunk(c, n)[1].packet])
           \/ /\ \/ out' = Put(out, c, [port |-> "status", value |-> Available])
                 \/ out' = Put(out, c, NoMessage)
              /\ lost' = Put(lost, c, lost[c] \cup JobPackets(Chunk(c, n)))
  BY <1>0, Received
<1>3. CASE c # Watched
  <2>1. /\ \E m : out' = Put(out, c, m)
        /\ lost' = lost \/ \E l : lost' = Put(lost, c, l)
        /\ \E q : inbox' = Put(inbox, c, q)
    BY <1>2, Zenon
  <2> QED
    BY <1>1, <1>3, <2>1, FollowsOther
<1>4. CASE c = Watched
  <2> DEFINE q == inbox[Watched]
             chunk == SubSeq(q, 1, n)
             rest == SubSeq(q, n + 1, Len(q))
  <2>1. /\ q \in Seq(Halves) /\ n \in 1 .. Len(q) /\ sent \in Nat /\ sent' = sent
        /\ out[Watched].port \notin JobPorts /\ delivered'[Watched] = delivered[Watched]
        /\ UnderWay(Watched) = JobPackets(q)
    <3>1. tpc[Watched] \notin Holding
      BY <1>1, <1>4 DEF Holding
    <3> QED
      BY <1>1, <1>2, <1>4, <3>1, WatchedParts
  <2>2. inbox'[Watched] = rest
    BY <1>2, <1>4 DEF Put, ChannelInv, TypeInv, PeerTypes
  <2>3. /\ chunk \in Seq(Halves) /\ Len(chunk) = n /\ \A i \in 1 .. n : chunk[i] = q[i]
        /\ rest \in Seq(Halves) /\ \A i \in 1 .. Len(q) : q[i] \in Halves
        /\ JobPackets(q) = JobPackets(chunk) \cup JobPackets(rest)
    BY <2>1, Cut, StreamSplits
  <2>4. /\ Ordered(q)
        /\ \A j \in 1 .. Len(rest) : rest[j].first => \A i \in 1 .. n : q[i].packet < rest[j].packet
    <3>1. Flow(q, out[Watched], delivered[Watched], lost[Watched], sent)
      BY <1>4 DEF ChannelInv, OrderInv
    <3>2. /\ out[Watched] \in Messages /\ delivered[Watched] \in Seq(Packets)
          /\ lost[Watched] \in SUBSET Packets /\ sent \in 0 .. MaxPackets
      BY <1>0, <1>4, PartTypes
    <3> QED
      BY <2>1, <3>1, <3>2, FlowRest DEF Flow
  <2>5. Chunk(c, n) = chunk
    BY <1>4 DEF Chunk
  <2> HIDE DEF q, chunk, rest
  <2>6. CASE KindOf(c, n) \in JobKinds /\ lost' = lost
             /\ out' = Put(out, c, [port |-> Port(KindOf(c, n)), value |-> Chunk(c, n)[1].packet])
    <3> DEFINE v == chunk[1].packet
               m == [port |-> Port(KindOf(c, n)), value |-> v]
    <3>1. OnlyPacket(chunk) /\ chunk[1].kind \in JobKinds
      BY <2>5, <2>6 DEF KindOf, JobKinds
    <3>2. /\ Len(chunk) = 2 /\ chunk[1].packet = chunk[2].packet /\ n = 2 /\ Len(q) \in Nat /\ 2 <= Len(q)
          /\ 1 \in 1 .. n /\ 2 \in 1 .. n
      <4>1. Len(q) \in Nat
        BY <2>1, LenProperties
      <4> QED
        BY <2>1, <2>3, <3>1, <4>1 DEF OnlyPacket
    <3>3. chunk[1] = q[1] /\ chunk[2] = q[2] /\ 1 \in 1 .. Len(q) /\ 2 \in 1 .. Len(q) /\ q[1] \in Halves
      BY <2>3, <3>2
    <3>4. q[1].first /\ ~q[2].first
      <4>1. v \in Nat
        BY <3>3, PacketsAssumption DEF PacketsAssumption, Packets, Halves
      <4> QED
        BY <2>4, <3>2, <3>3, <4>1 DEF Ordered
    <3>5. JobPackets(chunk) = {v}
      <4>1. /\ \A p : p \in JobPackets(chunk)
                       <=> \E i \in 1 .. Len(chunk) : StartsJob(chunk[i]) /\ chunk[i].packet = p
            /\ Len(chunk) = 2
        <5>1. chunk \in Seq(Halves)
          BY <2>3
        <5> QED
          BY <3>2, <5>1, JobPacketsOf
      <4>2. StartsJob(chunk[1]) /\ ~StartsJob(chunk[2]) /\ \A i \in 1 .. 2 : i = 1 \/ i = 2
        BY <3>1, <3>3, <3>4 DEF StartsJob
      <4>3. \A p : p \in JobPackets(chunk) <=> p = v
        BY <3>2, <4>1, <4>2
      <4> QED
        BY <4>3
    <3>6. m \in Messages /\ m.port \in JobPorts /\ m.value = v
      <4>1. v \in Packets
        BY <3>3 DEF Halves
      <4> QED
        BY <2>6, <4>1, MessageKinds
    <3> HIDE DEF m, v
    <3>7. out'[Watched] = m
      BY <1>4, <2>5, <2>6 DEF m, v, Put, ChannelInv, TypeInv, ThreadTypes
    <3>8. UnderWay(Watched)' = UnderWay(Watched)
      <4>1. UnderWay(Watched)' = {v} \cup JobPackets(rest)
        BY <2>2, <3>6, <3>7, UnderWayNext
      <4> QED
        BY <2>1, <2>3, <3>5, <4>1
    <3> QED
      BY <2>1, <2>6, <3>8, WatchedStutters DEF ChannelInv, Follows
  <2>7. ASSUME NEW m \in Messages, m.port \notin JobPorts, out' = Put(out, c, m),
               lost' = Put(lost, c, lost[c] \cup JobPackets(Chunk(c, n)))
        PROVE  Follows
    <3> DEFINE L == JobPackets(chunk)
               R == JobPackets(rest)
    <3>1. out'[Watched] = m /\ lost'[Watched] = lost[Watched] \cup L
      BY <1>4, <2>5, <2>7 DEF Put, ChannelInv, TypeInv, ThreadTypes, RecordTypes
    <3>2. UnderWay(Watched)' = R
      BY <2>2, <2>7, <3>1, UnderWayNext
    <3>3. ASSUME NEW x \in L, NEW y \in R PROVE x < y /\ x \in Nat /\ y \in Nat
      <4>1. PICK i \in 1 .. n : StartsJob(chunk[i]) /\ chunk[i].packet = x
        BY <2>3, JobPacketsOf
      <4>2. PICK j \in 1 .. Len(rest) : StartsJob(rest[j]) /\ rest[j].packet = y
        BY <2>3, JobPacketsOf
      <4>3. x \in Packets /\ y \in Packets
        BY <2>3, JobPacketsOf
      <4>4. x \in Nat /\ y \in Nat
        BY <4>3, PacketsAssumption DEF PacketsAssumption, Packets
      <4> QED
        BY <2>3, <2>4, <4>1, <4>2, <4>4 DEF StartsJob
    <3> HIDE DEF L, R
    <3>4. UnderWay(Watched) = L \cup R
      BY <2>1, <2>3 DEF L, R
    <3>5. L \cap R = {}
      <4>1. \A x \in L \cap R : x < x /\ x \in Nat
        BY <3>3
      <4> QED
        BY <4>1
    <3>6. /\ L \in SUBSET UnderWay(Watched) /\ UnderWay(Watched)' = UnderWay(Watched) \ L
          /\ \A x \in L, y \in UnderWay(Watched) \ L : x < y
      BY <3>2, <3>3, <3>4, <3>5
    <3> QED
      BY <2>1, <3>1, <3>6, WatchedLosesFirst DEF ChannelInv, Follows
  <2>8. /\ NoMessage \in Messages /\ NoMessage.port \notin JobPorts
        /\ [port |-> "status", value |-> Available] \in Messages
        /\ [port |-> "status", value |-> Available].port \notin JobPorts
    BY MessageKinds
  <2> QED
    BY <1>2, <2>6, <2>7, <2>8
<1> QED
  BY <1>3, <1>4

\* _ignore drops the job in hand, or lets it pass.
LEMMA FollowsGate ==
  ASSUME ChannelInv, NEW c \in Connections, Gate(c) PROVE Follows
<1>1. /\ tpc[c] = "gate" /\ UNCHANGED <<inbox, sent, delivered>>
      /\ \/ /\ out' = Put(out, c, NoMessage)
            /\ lost' = Put(lost, c, lost[c] \cup {out[c].value})
         \/ out' = out /\ lost' = lost
  BY DEF Gate, peervars
<1>2. CASE out' = out /\ lost' = lost
  BY <1>1, <1>2, FollowsUnchanged
<1>3. CASE out' = Put(out, c, NoMessage) /\ lost' = Put(lost, c, lost[c] \cup {out[c].value})
  <2>1. CASE c # Watched
    BY <1>1, <1>3, <2>1, FollowsOther
  <2>2. CASE c = Watched
    <3>1. out[Watched].port \in JobPorts
      <4>1. out[Watched].port # "status" /\ tpc[Watched] \in Holding
        BY <1>1, <2>2 DEF ChannelInv, TypeInv, ThreadTypes, Holding
      <4> QED
        BY <4>1, WatchedParts
    <3>2. out'[Watched] = NoMessage /\ lost'[Watched] = lost[Watched] \cup {out[Watched].value}
      BY <1>3, <2>2 DEF Put, ChannelInv, TypeInv, ThreadTypes, RecordTypes
    <3> QED
      BY <1>1, <3>1, <3>2, FollowsHand
  <2> QED
    BY <2>1, <2>2
<1> QED
  BY <1>1, <1>2, <1>3

\* The message is out, or lost.
LEMMA FollowsData ==
  ASSUME ChannelInv, NEW c \in Connections, SendData(c) PROVE Follows
<1>1. /\ tpc[c] = "sending" /\ out' = Put(out, c, NoMessage) /\ UNCHANGED <<inbox, sent>>
      /\ \/ out[c].port = "status" /\ UNCHANGED <<delivered, lost>>
         \/ /\ out[c].port # "status" /\ UNCHANGED lost
            /\ delivered' = Put(delivered, c, Append(delivered[c], out[c].value))
         \/ /\ out[c].port # "status" /\ UNCHANGED delivered
            /\ lost' = Put(lost, c, lost[c] \cup {out[c].value})
  BY DEF SendData, peervars
<1>2. CASE c # Watched
  <2>1. /\ delivered' = delivered \/ \E d : delivered' = Put(delivered, c, d)
        /\ lost' = lost \/ \E l : lost' = Put(lost, c, l)
    BY <1>1
  <2> QED
    BY <1>1, <1>2, <2>1, FollowsOther
<1>3. CASE c = Watched
  <2>1. out'[Watched] = NoMessage /\ sent' = sent /\ inbox'[Watched] = inbox[Watched]
    BY <1>1, <1>3 DEF Put, ChannelInv, TypeInv, ThreadTypes
  <2>2. CASE out[c].port = "status" /\ UNCHANGED <<delivered, lost>>
    <3>1. /\ out[Watched].port \notin JobPorts /\ NoMessage \in Messages /\ NoMessage.port \notin JobPorts
          /\ delivered'[Watched] = delivered[Watched] /\ lost'[Watched] = lost[Watched]
      BY <1>3, <2>2, MessageKinds
    <3> QED
      BY <2>1, <3>1, FollowsMessage
  <2>3. CASE out[c].port # "status"
    <3>1. out[Watched].port \in JobPorts
      <4>1. tpc[Watched] \in Holding
        BY <1>1, <1>3 DEF Holding
      <4> QED
        BY <1>3, <2>3, <4>1, WatchedParts
    <3>2. \/ /\ delivered'[Watched] = delivered[Watched]
             /\ lost'[Watched] = lost[Watched] \cup {out[Watched].value}
          \/ /\ delivered'[Watched] = Append(delivered[Watched], out[Watched].value)
             /\ lost'[Watched] = lost[Watched]
      BY <1>1, <1>3, <2>3 DEF Put, ChannelInv, TypeInv, RecordTypes
    <3> QED
      BY <2>1, <3>1, <3>2, FollowsHand
  <2> QED
    BY <1>1, <2>2, <2>3
<1> QED
  BY <1>2, <1>3

\* The end of a stream.
LEMMA FollowsEnd ==
  ASSUME ChannelInv, NEW c \in Connections, EndOfStream(c) PROVE Follows
<1> DEFINE m == [port |-> "status", value |-> Unavailable]
<1>1. /\ tpc[c] = "recv" /\ UNCHANGED <<inbox, delivered, lost, sent>> /\ out' = Put(out, c, m)
  BY DEF EndOfStream, peervars
<1>2. m.port \notin JobPorts /\ m \in Messages
  BY MessageKinds
<1> HIDE DEF m
<1>3. CASE c # Watched
  BY <1>1, <1>3, FollowsOther
<1>4. CASE c = Watched
  <2>1. out[Watched].port \notin JobPorts
    <3>1. tpc[Watched] \notin Holding
      BY <1>1, <1>4 DEF Holding
    <3> QED
      BY <3>1, WatchedParts
  <2>2. out'[Watched] = m
    BY <1>1, <1>4 DEF Put, ChannelInv, TypeInv, ThreadTypes
  <2> QED
    BY <1>1, <1>2, <2>1, <2>2, FollowsMessage
<1> QED
  BY <1>3, <1>4

\* A reset, of one connection or of those nobody accepted.
LEMMA FollowsResets ==
  ASSUME ChannelInv, CloseServer \/ \E c \in Connections : Disconnects(c) PROVE Follows
<1>1. UNCHANGED <<sent, out, delivered>>
  BY DEF CloseServer, Disconnects
<1>2. \/ inbox'[Watched] = inbox[Watched] /\ lost'[Watched] = lost[Watched]
      \/ inbox'[Watched] = <<>> /\ lost'[Watched] = lost[Watched] \cup JobPackets(inbox[Watched])
  <2>1. CASE CloseServer
    BY <2>1, WatchedParts DEF CloseServer
  <2>2. ASSUME NEW c \in Connections, Disconnects(c)
        PROVE  \/ inbox'[Watched] = inbox[Watched] /\ lost'[Watched] = lost[Watched]
               \/ inbox'[Watched] = <<>> /\ lost'[Watched] = lost[Watched] \cup JobPackets(inbox[Watched])
    <3>1. \/ UNCHANGED <<inbox, lost>>
          \/ /\ inbox' = Put(inbox, c, <<>>)
             /\ lost' = Put(lost, c, lost[c] \cup JobPackets(inbox[c]))
      BY <2>2 DEF Disconnects
    <3>2. /\ Watched \in Connections /\ DOMAIN inbox = Connections /\ DOMAIN lost = Connections
      BY WatchedParts DEF ChannelInv, TypeInv, PeerTypes, RecordTypes
    <3> QED
      BY <3>1, <3>2 DEF Put
  <2> QED
    BY <2>1, <2>2
<1>3. CASE inbox'[Watched] = inbox[Watched] /\ lost'[Watched] = lost[Watched]
  BY <1>1, <1>3, FollowsUnchanged
<1>4. CASE inbox'[Watched] = <<>> /\ lost'[Watched] = lost[Watched] \cup JobPackets(inbox[Watched])
  BY <1>1, <1>4, FollowsReset
<1> QED
  BY <1>2, <1>3, <1>4

\* One step.
LEMMA StepFollows == ASSUME ChannelInv, [Next]_vars PROVE Follows
<1>1. ASSUME NEW c \in Connections, NEW k \in AllKinds, Level2Sends(c, k) PROVE Follows
  BY <1>1, FollowsSends
<1>2. CASE \/ StartServer \/ DeleteServer \/ OnClose \/ AcceptFails \/ UNCHANGED vars \/ NewConnection
           \/ \E hmd \in BOOLEAN : LineMessage(hmd)
           \/ \E c \in Connections : Accept(c) \/ Connects(c) \/ SendTopic(c)
  <2>1. UNCHANGED <<inbox, out, delivered, lost, sent>>
    BY <1>2 DEF StartServer, DeleteServer, OnClose, AcceptFails, NewConnection, LineMessage, Accept, Connects,
                SendTopic, vars, peervars, threadvars
  <2> QED
    BY <2>1, FollowsUnchanged
<1>3. CASE CloseServer \/ \E c \in Connections : Disconnects(c)
  BY <1>3, FollowsResets
<1>4. ASSUME NEW c \in Connections, Receive(c) \/ Gate(c) \/ SendData(c) \/ EndOfStream(c)
      PROVE  Follows
  BY <1>4, FollowsReceive, FollowsGate, FollowsData, FollowsEnd
<1> QED
  BY <1>1, <1>2, <1>3, <1>4 DEF Next, Running, Server, Acceptor, Thread, Level2

\* The first state: nothing is under way.
LEMMA InitFollows == ASSUME Init PROVE SortInv /\ Channel!Init
<1>1. /\ inbox[Watched] = <<>> /\ out[Watched] = NoMessage /\ delivered[Watched] = <<>>
      /\ lost[Watched] = {} /\ sent = 0
  BY ConnectionsAssumption DEF ConnectionsAssumption, Init
<1>2. <<>> \in Seq(Halves) /\ <<>> \in Seq(Packets) /\ Len(<<>>) = 0 /\ 1 .. 0 = {}
  OBVIOUS
<1>3. JobPackets(<<>>) = {}
  BY <1>2, JobPacketsOf
<1>4. UnderWay(Watched) = {}
  BY <1>1, <1>3, MessageKinds DEF UnderWay
<1>5. Sorted(<<>>, {})
  BY <1>2, PacketsAssumption DEF PacketsAssumption, Sorted, Increasing
<1>6. Pending = <<>>
  BY <1>4, <1>5, SortedIsInOrder DEF Pending
<1> QED
  BY <1>1, <1>2, <1>4, <1>5, <1>6, ChannelSteps DEF SortInv

(***************************************************************************)
(* recv, _do_receive, the gate and the publications of one connection are  *)
(* a channel that may lose jobs, and never reorders, repeats, revives or   *)
(* makes up one: every step of the receiving half is a step of the abstract*)
(* channel of the watched connection, or leaves it alone.                  *)
(***************************************************************************)
THEOREM ReceivingIsAChannel == Spec => ImplementsChannel
<1>1. Init => Channel!Init /\ SortInv
  BY InitFollows
<1>2. TypeInv /\ JobsInv /\ SortInv /\ [Next]_vars => SortInv' /\ [Channel!Next]_(Channel!vars)
  <2> SUFFICES ASSUME TypeInv, JobsInv, SortInv, [Next]_vars
               PROVE  SortInv' /\ (Channel!Next \/ UNCHANGED Channel!vars)
    OBVIOUS
  <2>1. ChannelInv
    BY DEF ChannelInv, JobsInv
  <2> QED
    BY <2>1, StepFollows DEF Follows
<1> QED
  BY <1>1, <1>2, Types, Jobs, PTL DEF Spec, ImplementsChannel, Channel!Spec
=============================================================================
