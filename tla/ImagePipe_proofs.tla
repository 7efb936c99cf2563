-------------------------- MODULE ImagePipe_proofs ---------------------------
(***************************************************************************)
(* Proofs about ImagePipe, for any streams, directory names and length of  *)
(* the pipes, and any number of images, announcements and faults.          *)
(***************************************************************************)
EXTENDS ImagePipe, SequenceTheorems, TLAPS

Dispatches == {"recv", "create", "assign", "reset"}
Ats == {"recv", "locate", "count", "counted", "write", "ended"}

\* What the assumption says of the constants.
LEMMA Constants ==
  /\ Hwm \in Nat \ {0} /\ MaxImages \in Nat /\ MaxDispatch \in Nat /\ MaxFaults \in Nat
  /\ Tmp \notin Names
BY PipeAssumption

(* Images that grow old in a pipe.                                         *)
AgedPipe(p) == [i \in 1 .. Len(p) |-> Aged(p[i])]

\* An image grown old keeps its number.
LEMMA AgedType ==
  ASSUME NEW i \in ImageRecords \cup {NoImage}
  PROVE  /\ Aged(i) \in ImageRecords \cup {NoImage}
         /\ Aged(i).n = i.n /\ Aged(i).of = Tmp
         /\ i \in ImageRecords => Aged(i) \in ImageRecords
BY DEF Aged, ImageRecords, NoImage

\* So does every image of a pipe.
LEMMA AgedPipeType ==
  ASSUME NEW p \in Seq(ImageRecords)
  PROVE  /\ AgedPipe(p) \in Seq(ImageRecords) /\ Len(AgedPipe(p)) = Len(p)
         /\ \A i \in 1 .. Len(p) : AgedPipe(p)[i] = Aged(p[i])
<1>1. Len(p) \in Nat /\ \A i \in 1 .. Len(p) : p[i] \in ImageRecords
  BY LenProperties
<1>2. \A i \in 1 .. Len(p) : Aged(p[i]) \in ImageRecords
  BY <1>1, AgedType
<1>3. AgedPipe(p) \in [1 .. Len(p) -> ImageRecords]
  BY <1>2 DEF AgedPipe
<1>4. AgedPipe(p) \in Seq(ImageRecords)
  BY <1>1, <1>3
<1>5. DOMAIN AgedPipe(p) = 1 .. Len(p)
  BY DEF AgedPipe
<1>6. Len(AgedPipe(p)) = Len(p)
  BY <1>1, <1>4, <1>5, LenProperties
<1>7. QED
  BY <1>4, <1>6 DEF AgedPipe

(* What sending and receiving do to a pipe.                                *)
LEMMA SentType ==
  ASSUME NEW p \in Seq(ImageRecords), Len(p) <= Hwm, NEW i \in ImageRecords
  PROVE  /\ Sent(p, i) \in Seq(ImageRecords) /\ Len(Sent(p, i)) <= Hwm
         /\ \/ Sent(p, i) = p
            \/ /\ Sent(p, i) = Append(p, i) /\ Len(Append(p, i)) = Len(p) + 1
               /\ \A k \in 1 .. Len(p) : Append(p, i)[k] = p[k]
               /\ Append(p, i)[Len(p) + 1] = i
<1>1. /\ Append(p, i) \in Seq(ImageRecords) /\ Len(Append(p, i)) = Len(p) + 1
      /\ \A k \in 1 .. Len(p) : Append(p, i)[k] = p[k]
      /\ Append(p, i)[Len(p) + 1] = i
  BY AppendProperties
<1>2. Len(p) \in Nat /\ Hwm \in Nat
  BY LenProperties, Constants
<1>3. QED
  BY <1>1, <1>2 DEF Sent

\* What the filer takes from a pipe, and what is left.
LEMMA TakenType ==
  ASSUME NEW p \in Seq(ImageRecords), p # <<>>, Len(p) <= Hwm
  PROVE  /\ Head(p) \in ImageRecords /\ Tail(p) \in Seq(ImageRecords) /\ Len(Tail(p)) <= Hwm
         /\ Head(p) = p[1] /\ 1 \in 1 .. Len(p)
         /\ Len(Tail(p)) = Len(p) - 1 /\ Len(p) \in Nat
         /\ \A k \in 1 .. Len(Tail(p)) : Tail(p)[k] = p[k + 1] /\ k + 1 \in 1 .. Len(p)
<1>1. /\ Head(p) \in ImageRecords /\ Tail(p) \in Seq(ImageRecords)
      /\ Len(Tail(p)) = Len(p) - 1
      /\ \A k \in 1 .. Len(Tail(p)) : Tail(p)[k] = p[k + 1]
  BY HeadTailProperties
<1>2. Len(p) \in Nat \ {0} /\ Hwm \in Nat
  BY EmptySeq, Constants
<1>3. QED
  BY <1>1, <1>2

\* The empty slot has no number; an image has one.
LEMMA NumberType ==
  /\ NoImage.n = 0 /\ NoImage.of = Tmp
  /\ \A i \in ImageRecords : i.n # 0 /\ i.n \in Images /\ i.of \in Names \cup {Tmp}
BY Constants DEF NoImage, ImageRecords, Images

\* A camera grabs.
LEMMA GrabType == ASSUME TypeOK, NEW s \in Streams, Grab(s) PROVE TypeOK'
<1> DEFINE i == [n |-> camera_grab_counter[s] + 1, of |-> current]
<1>1. camera_grab_counter[s] + 1 \in Images /\ camera_grab_counter[s] + 1 \in 0 .. MaxImages
  BY Constants DEF Grab, TypeOK, Images
<1>2. i \in ImageRecords
  BY <1>1 DEF TypeOK, ImageRecords
<1>3. pipe[s] \in Seq(ImageRecords) /\ Len(pipe[s]) <= Hwm
  BY DEF TypeOK
<1>4. Sent(pipe[s], i) \in Seq(ImageRecords) /\ Len(Sent(pipe[s], i)) <= Hwm
  BY <1>2, <1>3, SentType
<1>5. pipe' = [pipe EXCEPT ![s] = Sent(pipe[s], i)]
  BY DEF Grab
<1> HIDE DEF i
<1>6. pipe' \in [Streams -> Seq(ImageRecords)] /\ \A t \in Streams : Len(pipe'[t]) <= Hwm
  BY <1>4, <1>5 DEF TypeOK
<1>7. camera_grab_counter' \in [Streams -> 0 .. MaxImages]
  BY <1>1 DEF Grab, TypeOK
<1>8. QED
  BY <1>6, <1>7 DEF Grab, TypeOK, pathvars, threadvars, storevars, nasvars, histvars

\* Level2 announces a name.
LEMMA AnnounceType == ASSUME TypeOK, NEW name \in Names, Announce(name) PROVE TypeOK'
<1>1. announcements' \in 0 .. MaxDispatch
  BY Constants DEF Announce, TypeOK
<1>2. \A s \in Streams : pipe'[s] = AgedPipe(pipe[s])
  BY DEF Announce, AgedPipe
<1>3. \A s \in Streams : pipe[s] \in Seq(ImageRecords) /\ Len(pipe[s]) <= Hwm
  BY DEF TypeOK
<1>4. \A s \in Streams : pipe'[s] \in Seq(ImageRecords) /\ Len(pipe'[s]) <= Hwm
  BY <1>2, <1>3, AgedPipeType
<1>5. pipe' \in [Streams -> Seq(ImageRecords)]
  BY <1>4 DEF Announce
<1>6. \A s \in Streams : /\ Aged(image[s]) \in ImageRecords \cup {NoImage}
                         /\ Aged(image[s]).n = image[s].n
  BY AgedType DEF TypeOK
<1>7. /\ image' \in [Streams -> ImageRecords \cup {NoImage}]
      /\ \A s \in Streams : image'[s].n = 0 <=> at[s] \in {"recv", "ended"}
  BY <1>6 DEF Announce, TypeOK
<1>8. dispatch' \in Dispatches /\ dest' \in Names \cup {Tmp} /\ current' \in Names \cup {Tmp}
  BY DEF Announce, Dispatches
<1>9. QED
  BY <1>1, <1>4, <1>5, <1>7, <1>8
  DEF Announce, TypeOK, Dispatches, storevars, nasvars

\* The dispatcher reads one.
LEMMA DispatchType == ASSUME TypeOK, Dispatch PROVE TypeOK'
<1>1. CASE CreateDirectory
  BY <1>1 DEF CreateDirectory, TypeOK, grabvars, threadvars, storevars, nasvars, histvars
<1>2. CASE AssignPath
  BY <1>2 DEF AssignPath, TypeOK, grabvars, threadvars, storevars, nasvars, histvars
<1>3. CASE DispatchReturns
  BY <1>3 DEF DispatchReturns, TypeOK, grabvars, threadvars, storevars, nasvars
<1>4. CASE \E s \in Streams : ResetCounter(s)
  <2>1. PICK s \in Streams : ResetCounter(s)
    BY <1>4
  <2>2. stream_counter' \in [Streams -> Nat]
    BY <2>1 DEF ResetCounter, TypeOK
  <2>3. QED
    BY <2>1, <2>2 DEF ResetCounter, TypeOK, grabvars, threadvars, nasvars, histvars
<1>5. QED
  BY <1>1, <1>2, <1>3, <1>4 DEF Dispatch

\* A stream's thread goes on, the component closes or dies, the mount fails or is back.
LEMMA StreamType ==
  ASSUME TypeOK, NEW s \in Streams, Stream(s) \/ OnClose \/ DispatchDies \/ NasFails \/ NasRecovers
  PROVE  TypeOK'
<1> USE NumberType
<1>1. CASE Receive(s)
  <2>1. pipe[s] \in Seq(ImageRecords) /\ pipe[s] # <<>> /\ Len(pipe[s]) <= Hwm
    BY <1>1 DEF Receive, CanTake, TypeOK
  <2>2. Head(pipe[s]) \in ImageRecords /\ Tail(pipe[s]) \in Seq(ImageRecords) /\ Len(Tail(pipe[s])) <= Hwm
    BY <2>1, TakenType
  <2>3. pipe' \in [Streams -> Seq(ImageRecords)] /\ \A t \in Streams : Len(pipe'[t]) <= Hwm
    BY <1>1, <2>2 DEF Receive, TypeOK
  <2>4. image' \in [Streams -> ImageRecords \cup {NoImage}]
    BY <1>1, <2>2 DEF Receive, TypeOK
  <2>5. \A t \in Streams : image'[t].n = 0 <=> at'[t] \in {"recv", "ended"}
    BY <1>1, <2>2 DEF Receive, TypeOK
  <2>6. at' \in [Streams -> Ats]
    BY <1>1 DEF Receive, TypeOK, Ats
  <2>7. QED
    BY <1>1, <2>3, <2>4, <2>5, <2>6 DEF Receive, TypeOK, Ats, pathvars, storevars, nasvars, histvars
<1>2. CASE Locate(s)
  <2>1. path' \in [Streams -> Paths]
    <3>1. PathsRead(s) \subseteq Paths
      BY DEF PathsRead, Paths, TypeOK
    <3>2. QED
      BY <1>2, <3>1 DEF Locate, TypeOK
  <2>2. at' \in [Streams -> Ats]
    BY <1>2 DEF Locate, TypeOK, Ats
  <2>3. image[s].n \in Images
    BY <1>2 DEF Locate, TypeOK
  <2>4. abandoned' \in [Streams -> SUBSET Images]
    <3>1. \A t \in Streams : abandoned[t] \in SUBSET Images
      BY DEF TypeOK
    <3>2. abandoned[s] \cup {image[s].n} \in SUBSET Images
      BY <2>3, <3>1
    <3>3. \/ abandoned' = abandoned
          \/ abandoned' = [abandoned EXCEPT ![s] = abandoned[s] \cup {image[s].n}]
      BY <1>2 DEF Locate
    <3>4. QED
      BY <3>2, <3>3 DEF TypeOK
  <2>5. image' \in [Streams -> ImageRecords \cup {NoImage}]
    BY <1>2 DEF Locate, TypeOK
  <2>6. \A t \in Streams : image'[t].n = 0 <=> at'[t] \in {"recv", "ended"}
    <3>1. CASE up
      BY <1>2, <3>1 DEF Locate, TypeOK
    <3>2. CASE ~up
      BY <1>2, <3>2 DEF Locate, TypeOK
    <3>3. QED
      BY <3>1, <3>2
  <2>7. QED
    BY <1>2, <2>1, <2>2, <2>4, <2>5, <2>6 DEF Locate, TypeOK, Ats, grabvars, pathvars, nasvars, histvars
<1>3. CASE Crash(s)
  BY <1>3 DEF Crash, TypeOK, grabvars, pathvars, threadvars, storevars, nasvars, histvars
<1>4. CASE Count(s)
  <2>1. number' \in [Streams -> Nat]
    BY <1>4 DEF Count, TypeOK
  <2>2. at' \in [Streams -> Ats] /\ \A t \in Streams : image[t].n = 0 <=> at'[t] \in {"recv", "ended"}
    BY <1>4 DEF Count, TypeOK, Ats
  <2>3. QED
    BY <1>4, <2>1, <2>2 DEF Count, TypeOK, Ats, grabvars, pathvars, storevars, nasvars, histvars
<1>5. CASE Counted(s)
  <2>1. stream_counter' \in [Streams -> Nat]
    BY <1>5 DEF Counted, TypeOK
  <2>2. at' \in [Streams -> Ats] /\ \A t \in Streams : image[t].n = 0 <=> at'[t] \in {"recv", "ended"}
    BY <1>5 DEF Counted, TypeOK, Ats
  <2>3. QED
    BY <1>5, <2>1, <2>2 DEF Counted, TypeOK, Ats, grabvars, pathvars, nasvars, histvars
<1>6. CASE Write(s)
  <2>1. image[s].n \in Images /\ image[s].of \in Names \cup {Tmp}
    BY <1>6 DEF Write, TypeOK
  <2>2. /\ at' \in [Streams -> Ats] /\ image' \in [Streams -> ImageRecords \cup {NoImage}]
        /\ \A t \in Streams : image'[t].n = 0 <=> at'[t] \in {"recv", "ended"}
    BY <1>6 DEF Write, TypeOK, Ats
  <2>3. abandoned' \in [Streams -> SUBSET Images]
    <3>1. \A t \in Streams : abandoned[t] \in SUBSET Images
      BY DEF TypeOK
    <3>2. abandoned[s] \cup {image[s].n} \in SUBSET Images
      BY <2>1, <3>1
    <3>3. \/ abandoned' = abandoned
          \/ abandoned' = [abandoned EXCEPT ![s] = abandoned[s] \cup {image[s].n}]
      BY <1>6 DEF Write
    <3>4. QED
      BY <3>2, <3>3 DEF TypeOK
  <2>4. stored' \in [Streams -> Seq(Images)]
    <3>1. Append(stored[s], image[s].n) \in Seq(Images)
      BY <2>1, AppendProperties DEF TypeOK
    <3>2. QED
      BY <1>6, <3>1 DEF Write, TypeOK
  <2>5. files' \subseteq [stream : Streams, dir : Paths, number : Nat, n : Images, of : Names \cup {Tmp}]
    <3>1. path[s] \in Paths /\ number[s] \in Nat
      BY DEF TypeOK
    <3>2. QED
      BY <1>6, <2>1, <3>1 DEF Write, TypeOK
  <2>6. QED
    BY <1>6, <2>2, <2>3, <2>4, <2>5 DEF Write, TypeOK, Ats, grabvars, pathvars, nasvars
<1>7. CASE StreamReturns(s)
  <2>1. at' \in [Streams -> Ats] /\ \A t \in Streams : image[t].n = 0 <=> at'[t] \in {"recv", "ended"}
    BY <1>7 DEF StreamReturns, TypeOK, Ats
  <2>2. QED
    BY <1>7, <2>1 DEF StreamReturns, TypeOK, Ats, grabvars, pathvars, storevars, nasvars, histvars
<1>8. CASE OnClose \/ DispatchDies \/ NasFails \/ NasRecovers
  <2>1. faults' \in 0 .. MaxFaults
    BY <1>8, Constants DEF OnClose, DispatchDies, NasFails, NasRecovers, TypeOK, nasvars
  <2>2. QED
    BY <1>8, <2>1
    DEF OnClose, DispatchDies, NasFails, NasRecovers, TypeOK, grabvars, pathvars, threadvars,
        storevars, nasvars, histvars
<1>9. QED
  BY <1>1, <1>2, <1>3, <1>4, <1>5, <1>6, <1>7, <1>8 DEF Stream

(* The type invariant, for any number of streams and any pipes: above all, *)
(* that a thread has an image in its hands just while it stores one.       *)
LEMMA NextType == ASSUME TypeOK, [Next]_vars PROVE TypeOK'
<1>1. CASE UNCHANGED vars
  BY <1>1 DEF TypeOK, vars, grabvars, pathvars, threadvars, storevars, nasvars, histvars
<1>2. CASE \E s \in Streams : Grab(s)
  BY <1>2, GrabType
<1>3. CASE \E s \in Streams : Stream(s)
  BY <1>3, StreamType
<1>4. CASE \E name \in Names : Announce(name)
  BY <1>4, AnnounceType
<1>5. CASE OnClose \/ DispatchDies \/ NasFails \/ NasRecovers
  BY <1>5, PipeAssumption, StreamType
<1>6. CASE Dispatch
  BY <1>6, DispatchType
<1>7. QED
  BY <1>1, <1>2, <1>3, <1>4, <1>5, <1>6 DEF Next

\* The first state.
LEMMA InitType == Init => TypeOK
<1>1. <<>> \in Seq(ImageRecords) /\ <<>> \in Seq(Images) /\ Len(<<>>) = 0
  BY EmptySeq
<1>2. SUFFICES ASSUME Init PROVE TypeOK
  OBVIOUS
<1>3. /\ pipe \in [Streams -> Seq(ImageRecords)] /\ \A s \in Streams : Len(pipe[s]) <= Hwm
      /\ stored \in [Streams -> Seq(Images)] /\ abandoned \in [Streams -> SUBSET Images]
  BY <1>1, <1>2, Constants DEF Init
<1>4. /\ camera_grab_counter \in [Streams -> 0 .. MaxImages] /\ announcements \in 0 .. MaxDispatch
      /\ faults \in 0 .. MaxFaults
  BY <1>2, Constants DEF Init
<1>5. /\ stream_counter \in [Streams -> Nat] /\ number \in [Streams -> Nat]
      /\ path \in [Streams -> Paths] /\ at \in [Streams -> Ats]
      /\ image \in [Streams -> ImageRecords \cup {NoImage}]
      /\ \A s \in Streams : image[s].n = 0 <=> at[s] \in {"recv", "ended"}
  BY <1>2, NumberType DEF Init, Paths, Ats
<1>6. QED
  BY <1>2, <1>3, <1>4, <1>5 DEF Init, TypeOK, Ats

\* TypeOK holds whatever the cameras, the announcements and the NAS do.
THEOREM TypeInvariant == Spec => []TypeOK
<1>1. QED
  BY InitType, NextType, PTL DEF Spec
-----------------------------------------------------------------------------
(* Why images are filed under their material: the strengthening.  A        *)
(* material that is current has its directory, which job_path names and    *)
(* which no thread is assigning; before it becomes current, no image of it *)
(* was written, and the numbering has been restarted.  From then on a      *)
(* thread that holds an image of it has copied that path, and the numbers  *)
(* of its files stay below the counter.                                    *)
DispatchInv ==
  /\ assigning => dispatch = "assign"
  /\ current # Tmp => dispatch = "recv" /\ current = job_path /\ current \in exists
  /\ dispatch = "create" => dest \notin exists
  /\ dispatch = "reset" => job_path = dest
  /\ dispatch \in {"assign", "reset"} => dest \in exists /\ \A f \in files : f.of # dest

AgeInv ==
  \A s \in Streams : /\ \A k \in 1 .. Len(pipe[s]) : pipe[s][k].of \in {Tmp, current}
                     /\ image[s].of \in {Tmp, current}

HandInv ==
  \A s \in Streams : image[s].of # Tmp =>
    /\ at[s] \in {"count", "counted", "write"} => path[s] = image[s].of
    /\ at[s] = "write" => number[s] = stream_counter[s]

FileInv ==
  \A f \in files : f.of # Tmp =>
    /\ f.dir = f.of /\ f.of \in exists
    /\ f.of = job_path =>
         /\ f.number <= stream_counter[f.stream]
         /\ at[f.stream] \in {"counted", "write"} => f.number < number[f.stream]

DistinctInv ==
  \A f, g \in files :
    (f.of # Tmp /\ f.of = g.of /\ f.stream = g.stream /\ f.number = g.number) => f = g

FilingInv == DispatchInv /\ AgeInv /\ HandInv /\ FileInv /\ DistinctInv

\* A camera grabs.
LEMMA GrabFiling ==
  ASSUME TypeOK, FilingInv, NEW s \in Streams, Grab(s)
  PROVE  FilingInv'
<1> DEFINE i == [n |-> camera_grab_counter[s] + 1, of |-> current]
<1>1. i \in ImageRecords /\ i.of = current
  <2>1. camera_grab_counter[s] + 1 \in Images
    BY Constants DEF Grab, TypeOK, Images
  <2>2. QED
    BY <2>1 DEF TypeOK, ImageRecords
<1>2. pipe'[s] = Sent(pipe[s], i) /\ \A t \in Streams \ {s} : pipe'[t] = pipe[t]
  BY DEF Grab, TypeOK
<1> HIDE DEF i
<1>3. pipe[s] \in Seq(ImageRecords) /\ Len(pipe[s]) <= Hwm /\ Len(pipe[s]) \in Nat
  BY LenProperties DEF TypeOK
<1>4. \A k \in 1 .. Len(pipe'[s]) : pipe'[s][k].of \in {Tmp, current}
  <2>1. \A k \in 1 .. Len(pipe[s]) : pipe[s][k].of \in {Tmp, current}
    BY DEF FilingInv, AgeInv
  <2>2. CASE Sent(pipe[s], i) = pipe[s]
    BY <1>2, <2>1, <2>2
  <2>3. CASE Sent(pipe[s], i) = Append(pipe[s], i)
    <3>1. /\ Len(Append(pipe[s], i)) = Len(pipe[s]) + 1
          /\ \A k \in 1 .. Len(pipe[s]) : Append(pipe[s], i)[k] = pipe[s][k]
          /\ Append(pipe[s], i)[Len(pipe[s]) + 1] = i
      BY <1>1, <1>3, AppendProperties
    <3>2. \A k \in 1 .. Len(pipe[s]) + 1 : k \in 1 .. Len(pipe[s]) \/ k = Len(pipe[s]) + 1
      BY <1>3
    <3>3. QED
      BY <1>1, <1>2, <2>1, <2>3, <3>1, <3>2
  <2>4. QED
    BY <2>2, <2>3, <1>1, <1>3, SentType
<1>5. AgeInv'
  BY <1>2, <1>4 DEF Grab, FilingInv, AgeInv, threadvars, histvars
<1>6. DispatchInv' /\ HandInv' /\ FileInv' /\ DistinctInv'
  BY DEF Grab, FilingInv, DispatchInv, HandInv, FileInv, DistinctInv, pathvars, threadvars,
         storevars, histvars
<1>7. QED
  BY <1>5, <1>6 DEF FilingInv

\* Level2 announces a name.
LEMMA AnnounceFiling ==
  ASSUME TypeOK, FilingInv, NEW name \in Names, Announce(name)
  PROVE  FilingInv'
<1>1. \A s \in Streams : pipe'[s] = AgedPipe(pipe[s]) /\ image'[s] = Aged(image[s])
  BY DEF Announce, AgedPipe
<1>2. \A s \in Streams : \A k \in 1 .. Len(pipe'[s]) : pipe'[s][k].of = Tmp
  <2>1. SUFFICES ASSUME NEW s \in Streams, NEW k \in 1 .. Len(pipe'[s]) PROVE pipe'[s][k].of = Tmp
    OBVIOUS
  <2>2. pipe[s] \in Seq(ImageRecords)
    BY DEF TypeOK
  <2>3. k \in 1 .. Len(pipe[s]) /\ pipe'[s][k] = Aged(pipe[s][k])
    BY <1>1, <2>1, <2>2, AgedPipeType
  <2>4. pipe[s][k] \in ImageRecords
    BY <2>2, <2>3, LenProperties
  <2>5. QED
    BY <2>3, <2>4, AgedType
<1>3. \A s \in Streams : image'[s].of = Tmp
  BY <1>1, AgedType DEF TypeOK
<1>4. AgeInv' /\ HandInv'
  BY <1>2, <1>3 DEF AgeInv, HandInv
<1>5. DispatchInv'
  BY Constants DEF Announce, FilingInv, DispatchInv
<1>6. FileInv' /\ DistinctInv'
  BY DEF Announce, FilingInv, FileInv, DistinctInv, storevars
<1>7. QED
  BY <1>4, <1>5, <1>6 DEF FilingInv

\* The dispatcher reads one.
LEMMA DispatchFiling == ASSUME TypeOK, FilingInv, Dispatch PROVE FilingInv'
<1>1. CASE CreateDirectory
  <2>1. current = Tmp
    BY <1>1 DEF CreateDirectory, FilingInv, DispatchInv
  <2>2. \A f \in files : f.of # dest
    BY <1>1, Constants DEF CreateDirectory, FilingInv, DispatchInv, FileInv, TypeOK
  <2>3. DispatchInv'
    BY <1>1, <2>1, <2>2 DEF CreateDirectory, FilingInv, DispatchInv, histvars
  <2>4. AgeInv' /\ HandInv' /\ DistinctInv'
    BY <1>1 DEF CreateDirectory, FilingInv, AgeInv, HandInv, DistinctInv, grabvars, threadvars,
                storevars, histvars
  <2>5. FileInv'
    BY <1>1 DEF CreateDirectory, FilingInv, FileInv, threadvars, storevars, histvars
  <2>6. QED
    BY <2>3, <2>4, <2>5 DEF FilingInv
<1>2. CASE AssignPath
  <2>1. current = Tmp /\ \A f \in files : f.of # dest
    BY <1>2 DEF AssignPath, FilingInv, DispatchInv
  <2>2. DispatchInv'
    BY <1>2, <2>1 DEF AssignPath, FilingInv, DispatchInv, histvars
  <2>3. AgeInv' /\ HandInv' /\ DistinctInv'
    BY <1>2 DEF AssignPath, FilingInv, AgeInv, HandInv, DistinctInv, grabvars, threadvars,
                storevars, histvars
  <2>4. FileInv'
    BY <1>2, <2>1 DEF AssignPath, FilingInv, FileInv, threadvars, storevars, histvars
  <2>5. QED
    BY <2>2, <2>3, <2>4 DEF FilingInv
<1>3. CASE DispatchReturns
  <2>1. current = Tmp /\ job_path = dest /\ dest \in exists /\ \A f \in files : f.of # dest
    BY <1>3 DEF DispatchReturns, FilingInv, DispatchInv
  <2>2. DispatchInv'
    BY <1>3, <2>1 DEF DispatchReturns, FilingInv, DispatchInv
  <2>3. AgeInv'
    BY <1>3, <2>1 DEF DispatchReturns, FilingInv, AgeInv, grabvars, threadvars
  <2>4. HandInv' /\ FileInv' /\ DistinctInv'
    BY <1>3 DEF DispatchReturns, FilingInv, HandInv, FileInv, DistinctInv, threadvars, storevars
  <2>5. QED
    BY <2>2, <2>3, <2>4 DEF FilingInv
<1>4. CASE \E s \in Streams : ResetCounter(s)
  <2>1. PICK s \in Streams : ResetCounter(s)
    BY <1>4
  <2>2. current = Tmp /\ job_path = dest /\ \A f \in files : f.of # job_path
    BY <2>1 DEF ResetCounter, FilingInv, DispatchInv
  <2>3. DispatchInv'
    BY <2>1 DEF ResetCounter, FilingInv, DispatchInv, histvars
  <2>4. AgeInv' /\ DistinctInv'
    BY <2>1 DEF ResetCounter, FilingInv, AgeInv, DistinctInv, grabvars, threadvars, histvars
  <2>5. HandInv'
    BY <2>1, <2>2 DEF ResetCounter, FilingInv, AgeInv, HandInv, threadvars
  <2>6. FileInv'
    BY <2>1, <2>2 DEF ResetCounter, FilingInv, FileInv, threadvars, histvars
  <2>7. QED
    BY <2>3, <2>4, <2>5, <2>6 DEF FilingInv
<1>5. QED
  BY <1>1, <1>2, <1>3, <1>4 DEF Dispatch

\* A stream's thread goes on, the component closes or dies, the mount fails or is back.
LEMMA StreamFiling ==
  ASSUME TypeOK, FilingInv, NEW s \in Streams, Stream(s) \/ OnClose \/ DispatchDies \/ NasFails \/ NasRecovers
  PROVE  FilingInv'
<1> USE NumberType
<1>1. CASE Receive(s)
  <2>1. pipe[s] \in Seq(ImageRecords) /\ pipe[s] # <<>> /\ Len(pipe[s]) <= Hwm
    BY <1>1 DEF Receive, CanTake, TypeOK
  <2>2. /\ pipe'[s] = Tail(pipe[s]) /\ image'[s] = pipe[s][1] /\ at'[s] = "locate"
        /\ \A t \in Streams \ {s} : pipe'[t] = pipe[t] /\ image'[t] = image[t] /\ at'[t] = at[t]
    BY <1>1, <2>1, TakenType DEF Receive, TypeOK
  <2>3. \A k \in 1 .. Len(pipe[s]) : pipe[s][k].of \in {Tmp, current}
    BY DEF FilingInv, AgeInv
  <2>4. \A k \in 1 .. Len(pipe'[s]) : pipe'[s][k].of \in {Tmp, current}
    BY <2>1, <2>2, <2>3, TakenType
  <2>5. image'[s].of \in {Tmp, current}
    BY <2>1, <2>2, <2>3, TakenType
  <2>6. AgeInv'
    BY <1>1, <2>2, <2>4, <2>5 DEF Receive, FilingInv, AgeInv, histvars
  <2>7. HandInv'
    BY <1>1, <2>2 DEF Receive, FilingInv, HandInv, storevars
  <2>8. FileInv'
    BY <1>1, <2>2 DEF Receive, FilingInv, FileInv, TypeOK, pathvars, storevars, histvars
  <2>9. DispatchInv' /\ DistinctInv'
    BY <1>1 DEF Receive, FilingInv, DispatchInv, DistinctInv, pathvars, histvars
  <2>10. QED
    BY <2>6, <2>7, <2>8, <2>9 DEF FilingInv
<1>2. CASE Locate(s)
  <2>1. /\ at'[s] \in {"count", "ended"} /\ (image'[s] = image[s] \/ image'[s] = NoImage)
        /\ path'[s] \in PathsRead(s)
        /\ \A t \in Streams \ {s} : image'[t] = image[t] /\ at'[t] = at[t] /\ path'[t] = path[t]
    BY <1>2 DEF Locate, TypeOK
  <2>2. image[s].of # Tmp => PathsRead(s) = {image[s].of}
    BY DEF PathsRead, FilingInv, AgeInv, DispatchInv
  <2>3. HandInv'
    BY <1>2, <2>1, <2>2 DEF Locate, FilingInv, HandInv
  <2>4. AgeInv'
    BY <1>2, <2>1 DEF Locate, FilingInv, AgeInv, grabvars, histvars
  <2>5. FileInv'
    BY <1>2, <2>1 DEF Locate, FilingInv, FileInv, TypeOK, pathvars, histvars
  <2>6. DispatchInv' /\ DistinctInv'
    BY <1>2 DEF Locate, FilingInv, DispatchInv, DistinctInv, pathvars, histvars
  <2>7. QED
    BY <2>3, <2>4, <2>5, <2>6 DEF FilingInv
<1>3. CASE Crash(s)
  BY <1>3 DEF Crash, FilingInv, DispatchInv, AgeInv, HandInv, FileInv, DistinctInv, grabvars,
              pathvars, threadvars, storevars, histvars
<1>4. CASE Count(s)
  <2>1. /\ number'[s] = stream_counter[s] + 1 /\ at[s] = "count" /\ at'[s] = "counted"
        /\ \A t \in Streams \ {s} : number'[t] = number[t] /\ at'[t] = at[t]
    BY <1>4 DEF Count, TypeOK
  <2>2. HandInv'
    BY <1>4, <2>1 DEF Count, FilingInv, HandInv, storevars
  <2>3. FileInv'
    <3>1. SUFFICES ASSUME NEW f \in files, f.of # Tmp, f.of = job_path
                   PROVE  at'[f.stream] \in {"counted", "write"} => f.number < number'[f.stream]
      BY <1>4 DEF Count, FilingInv, FileInv, pathvars, storevars, histvars
    <3>2. f.number \in Nat /\ f.stream \in Streams /\ stream_counter[f.stream] \in Nat
      BY DEF TypeOK
    <3>3. /\ f.number <= stream_counter[f.stream]
          /\ at[f.stream] \in {"counted", "write"} => f.number < number[f.stream]
      BY <3>1 DEF FilingInv, FileInv
    <3>4. QED
      BY <2>1, <3>2, <3>3
  <2>4. AgeInv' /\ DispatchInv' /\ DistinctInv'
    BY <1>4 DEF Count, FilingInv, AgeInv, DispatchInv, DistinctInv, grabvars, pathvars, histvars
  <2>5. QED
    BY <2>2, <2>3, <2>4 DEF FilingInv
<1>5. CASE Counted(s)
  <2>1. /\ stream_counter'[s] = number[s] /\ at[s] = "counted" /\ at'[s] = "write"
        /\ \A t \in Streams \ {s} : stream_counter'[t] = stream_counter[t] /\ at'[t] = at[t]
    BY <1>5 DEF Counted, TypeOK
  <2>2. HandInv'
    BY <1>5, <2>1 DEF Counted, FilingInv, HandInv
  <2>3. FileInv'
    <3>1. SUFFICES ASSUME NEW f \in files, f.of # Tmp, f.of = job_path
                   PROVE  /\ f.number <= stream_counter'[f.stream]
                          /\ at'[f.stream] \in {"counted", "write"} => f.number < number[f.stream]
      BY <1>5 DEF Counted, FilingInv, FileInv, pathvars, histvars
    <3>2. f.number \in Nat /\ f.stream \in Streams /\ number[f.stream] \in Nat
      BY DEF TypeOK
    <3>3. /\ f.number <= stream_counter[f.stream]
          /\ at[f.stream] \in {"counted", "write"} => f.number < number[f.stream]
      BY <3>1 DEF FilingInv, FileInv
    <3>4. QED
      BY <2>1, <3>2, <3>3
  <2>4. AgeInv' /\ DispatchInv' /\ DistinctInv'
    BY <1>5 DEF Counted, FilingInv, AgeInv, DispatchInv, DistinctInv, grabvars, pathvars, histvars
  <2>5. QED
    BY <2>2, <2>3, <2>4 DEF FilingInv
<1>6. CASE Write(s)
  <2> DEFINE new == [stream |-> s, dir |-> path[s], number |-> number[s], n |-> image[s].n,
                     of |-> image[s].of]
  <2>1. /\ at[s] = "write" /\ at'[s] = "recv" /\ image'[s] = NoImage
        /\ \A t \in Streams \ {s} : image'[t] = image[t] /\ at'[t] = at[t]
    BY <1>6 DEF Write, TypeOK
  <2>2. \A f \in files' : f \in files \/ f = new
    BY <1>6 DEF Write
  <2>3. /\ new.stream = s /\ new.dir = path[s] /\ new.number = number[s] /\ new.of = image[s].of
    OBVIOUS
  <2> HIDE DEF new
  <2>4. new.of # Tmp => /\ new.of = current /\ current = job_path /\ current \in exists
                        /\ dispatch = "recv" /\ new.dir = new.of /\ number[s] = stream_counter[s]
    BY <2>1, <2>3 DEF FilingInv, AgeInv, HandInv, DispatchInv
  <2>5. AgeInv' /\ HandInv'
    BY <1>6, <2>1 DEF Write, FilingInv, AgeInv, HandInv, grabvars
  <2>6. DispatchInv'
    <3>1. dispatch \in {"assign", "reset"} => dest \in Names
      BY DEF TypeOK
    <3>2. QED
      BY <1>6, <2>2, <2>4, <3>1, Constants DEF Write, FilingInv, DispatchInv, pathvars
  <2>7. FileInv'
    <3>1. SUFFICES ASSUME NEW f \in files', f.of # Tmp
                   PROVE  /\ f.dir = f.of /\ f.of \in exists
                          /\ f.of = job_path =>
                               /\ f.number <= stream_counter[f.stream]
                               /\ at'[f.stream] \in {"counted", "write"} => f.number < number[f.stream]
      BY <1>6 DEF Write, FileInv, pathvars
    <3>2. CASE f \in files
      <4>1. f.stream \in Streams
        BY <3>2 DEF TypeOK
      <4>2. QED
        BY <2>1, <3>1, <3>2, <4>1 DEF FilingInv, FileInv
    <3>3. CASE f = new
      BY <2>1, <2>3, <2>4, <3>1, <3>3 DEF TypeOK
    <3>4. QED
      BY <2>2, <3>2, <3>3
  <2>8. DistinctInv'
    <3>1. \A f \in files : f.of # Tmp /\ f.of = new.of /\ f.stream = new.stream => f.number # new.number
      BY <2>1, <2>3, <2>4 DEF FilingInv, FileInv, TypeOK
    <3>2. QED
      BY <2>2, <3>1 DEF FilingInv, DistinctInv
  <2>9. QED
    BY <2>5, <2>6, <2>7, <2>8 DEF FilingInv
<1>7. CASE StreamReturns(s)
  <2>1. at'[s] = "ended" /\ \A t \in Streams \ {s} : at'[t] = at[t]
    BY <1>7 DEF StreamReturns, TypeOK
  <2>2. HandInv'
    BY <1>7, <2>1 DEF StreamReturns, FilingInv, HandInv, storevars
  <2>3. FileInv'
    BY <1>7, <2>1 DEF StreamReturns, FilingInv, FileInv, TypeOK, pathvars, storevars, histvars
  <2>4. AgeInv' /\ DispatchInv' /\ DistinctInv'
    BY <1>7 DEF StreamReturns, FilingInv, AgeInv, DispatchInv, DistinctInv, grabvars, pathvars, histvars
  <2>5. QED
    BY <2>2, <2>3, <2>4 DEF FilingInv
<1>8. CASE OnClose \/ DispatchDies \/ NasFails \/ NasRecovers
  BY <1>8 DEF OnClose, DispatchDies, NasFails, NasRecovers, FilingInv, DispatchInv, AgeInv, HandInv, FileInv,
              DistinctInv, grabvars, pathvars, threadvars, storevars, histvars
<1>9. QED
  BY <1>1, <1>2, <1>3, <1>4, <1>5, <1>6, <1>7, <1>8 DEF Stream

\* One step.
LEMMA NextFiling == ASSUME TypeOK, FilingInv, [Next]_vars PROVE FilingInv'
<1>1. CASE UNCHANGED vars
  BY <1>1 DEF FilingInv, DispatchInv, AgeInv, HandInv, FileInv, DistinctInv, vars, grabvars,
              pathvars, threadvars, storevars, histvars
<1>2. CASE \E s \in Streams : Grab(s)
  BY <1>2, GrabFiling
<1>3. CASE \E s \in Streams : Stream(s)
  BY <1>3, StreamFiling
<1>4. CASE \E name \in Names : Announce(name)
  BY <1>4, AnnounceFiling
<1>5. CASE OnClose \/ DispatchDies \/ NasFails \/ NasRecovers
  BY <1>5, PipeAssumption, StreamFiling
<1>6. CASE Dispatch
  BY <1>6, DispatchFiling
<1>7. QED
  BY <1>1, <1>2, <1>3, <1>4, <1>5, <1>6 DEF Next

\* The first state.
LEMMA InitFiling == Init => FilingInv
<1>1. Len(<<>>) = 0
  BY EmptySeq
<1>2. SUFFICES ASSUME Init PROVE FilingInv
  OBVIOUS
<1>3. AgeInv
  <2>1. \A s \in Streams : pipe[s] = <<>> /\ image[s].of = Tmp
    BY <1>2 DEF Init, NoImage
  <2>2. \A k \in 1 .. 0 : FALSE
    OBVIOUS
  <2>3. QED
    BY <1>1, <2>1, <2>2 DEF AgeInv
<1>4. DispatchInv /\ HandInv /\ FileInv /\ DistinctInv
  BY <1>2 DEF Init, NoImage, DispatchInv, HandInv, FileInv, DistinctInv
<1>5. QED
  BY <1>3, <1>4 DEF FilingInv

\* FiledUnderTheirMaterial holds for every choice of the constants: an image of a
\* material that has its directory is stored there, under a number of its own.
THEOREM FiledRight == Spec => []FiledUnderTheirMaterial
<1>1. TypeOK /\ FilingInv => FiledUnderTheirMaterial
  BY DEF FilingInv, FileInv, DistinctInv, FiledUnderTheirMaterial
<1>2. Init => TypeOK /\ FilingInv
  BY InitType, InitFiling
<1>3. TypeOK /\ FilingInv /\ [Next]_vars => (TypeOK /\ FilingInv)'
  BY NextType, NextFiling
<1>4. QED
  BY <1>1, <1>2, <1>3, PTL DEF Spec
-----------------------------------------------------------------------------
(* The channel: what the pipe of the watched stream and its thread hold.   *)
Nums(p) == [i \in 1 .. Len(p) |-> p[i].n]
Held == IF image[Watched].n # 0 THEN <<image[Watched].n>> ELSE <<>>
Pending == Held \o Nums(pipe[Watched])

\* The numbers of a pipe's images.
LEMMA NumsType ==
  ASSUME NEW p \in Seq(ImageRecords)
  PROVE  /\ Nums(p) \in Seq(Images) /\ Len(Nums(p)) = Len(p) /\ Len(p) \in Nat
         /\ \A i \in 1 .. Len(p) : Nums(p)[i] = p[i].n
<1>1. Len(p) \in Nat /\ \A i \in 1 .. Len(p) : p[i] \in ImageRecords
  BY LenProperties
<1>2. Nums(p) \in [1 .. Len(p) -> Images]
  BY <1>1, NumberType DEF Nums
<1>3. Nums(p) \in Seq(Images)
  BY <1>1, <1>2
<1>4. DOMAIN Nums(p) = 1 .. Len(p)
  BY DEF Nums
<1>5. Len(Nums(p)) = Len(p)
  BY <1>1, <1>3, <1>4, LenProperties
<1>6. QED
  BY <1>1, <1>3, <1>5 DEF Nums

\* An image more.
LEMMA NumsAppend ==
  ASSUME NEW p \in Seq(ImageRecords), NEW i \in ImageRecords
  PROVE  Nums(Append(p, i)) = Append(Nums(p), i.n)
<1>1. /\ Append(p, i) \in Seq(ImageRecords) /\ Len(Append(p, i)) = Len(p) + 1
      /\ \A k \in 1 .. Len(p) : Append(p, i)[k] = p[k]
      /\ Append(p, i)[Len(p) + 1] = i
  BY AppendProperties
<1>2. /\ Nums(p) \in Seq(Images) /\ Len(Nums(p)) = Len(p) /\ Len(p) \in Nat
      /\ \A k \in 1 .. Len(p) : Nums(p)[k] = p[k].n
  BY NumsType
<1>3. i.n \in Images
  BY NumberType
<1>4. /\ Append(Nums(p), i.n) \in Seq(Images) /\ Len(Append(Nums(p), i.n)) = Len(p) + 1
      /\ \A k \in 1 .. Len(p) : Append(Nums(p), i.n)[k] = Nums(p)[k]
      /\ Append(Nums(p), i.n)[Len(p) + 1] = i.n
  BY <1>2, <1>3, AppendProperties
<1>5. /\ Nums(Append(p, i)) \in Seq(Images) /\ Len(Nums(Append(p, i))) = Len(p) + 1
      /\ \A k \in 1 .. Len(p) + 1 : Nums(Append(p, i))[k] = Append(p, i)[k].n
  BY <1>1, NumsType
<1>6. \A k \in 1 .. Len(p) + 1 : k \in 1 .. Len(p) \/ k = Len(p) + 1
  BY <1>2
<1>7. \A k \in 1 .. Len(p) + 1 : Nums(Append(p, i))[k] = Append(Nums(p), i.n)[k]
  BY <1>1, <1>2, <1>4, <1>5, <1>6
<1>8. QED
  BY <1>4, <1>5, <1>7, SeqEqual

\* The first one and the rest.
LEMMA NumsTaken ==
  ASSUME NEW p \in Seq(ImageRecords), p # <<>>, Len(p) <= Hwm
  PROVE  Nums(p) = <<Head(p).n>> \o Nums(Tail(p))
<1>1. /\ Head(p) \in ImageRecords /\ Tail(p) \in Seq(ImageRecords) /\ Head(p) = p[1]
      /\ Len(Tail(p)) = Len(p) - 1 /\ 1 \in 1 .. Len(p)
      /\ \A k \in 1 .. Len(Tail(p)) : Tail(p)[k] = p[k + 1]
  BY TakenType
<1>2. /\ Nums(p) \in Seq(Images) /\ Len(Nums(p)) = Len(p) /\ Len(p) \in Nat
      /\ \A k \in 1 .. Len(p) : Nums(p)[k] = p[k].n
  BY NumsType
<1>3. /\ Nums(Tail(p)) \in Seq(Images) /\ Len(Nums(Tail(p))) = Len(p) - 1
      /\ \A k \in 1 .. Len(p) - 1 : Nums(Tail(p))[k] = Tail(p)[k].n
  BY <1>1, NumsType
<1> DEFINE h == <<Head(p).n>>  q == h \o Nums(Tail(p))
<1>4. h \in Seq(Images) /\ Len(h) = 1 /\ h[1] = Head(p).n
  BY <1>1, NumberType
<1> HIDE DEF h
<1>5. /\ q \in Seq(Images) /\ Len(q) = 1 + (Len(p) - 1)
      /\ \A k \in 1 .. 1 + (Len(p) - 1) : q[k] = IF k <= 1 THEN h[k] ELSE Nums(Tail(p))[k - 1]
  <2>1. /\ q \in Seq(Images) /\ Len(q) = Len(h) + Len(Nums(Tail(p)))
        /\ \A k \in 1 .. Len(h) + Len(Nums(Tail(p))) :
             q[k] = IF k <= Len(h) THEN h[k] ELSE Nums(Tail(p))[k - Len(h)]
    BY <1>3, <1>4, ConcatProperties
  <2>2. QED
    BY <1>3, <1>4, <2>1
<1> HIDE DEF q
<1>6. \A k \in 1 .. Len(p) : Nums(p)[k] = q[k]
  <2>1. SUFFICES ASSUME NEW k \in 1 .. Len(p) PROVE Nums(p)[k] = q[k]
    OBVIOUS
  <2>2. CASE k = 1
    BY <1>1, <1>2, <1>4, <1>5, <2>2
  <2>3. CASE k # 1
    <3>1. k - 1 \in 1 .. Len(p) - 1 /\ ~(k <= 1) /\ (k - 1) + 1 = k /\ k \in 1 .. 1 + (Len(p) - 1)
      BY <1>2, <2>3
    <3>2. q[k] = Nums(Tail(p))[k - 1]
      BY <1>5, <3>1
    <3>3. Nums(Tail(p))[k - 1] = Tail(p)[k - 1].n
      BY <1>3, <3>1
    <3>4. Tail(p)[k - 1] = p[k]
      BY <1>1, <3>1
    <3>5. QED
      BY <1>2, <3>2, <3>3, <3>4
  <2>4. QED
    BY <2>2, <2>3
<1>7. Len(q) = Len(Nums(p))
  BY <1>2, <1>5
<1>8. Nums(p) = q
  BY <1>2, <1>5, <1>6, <1>7, SeqEqual
<1>9. QED
  BY <1>8 DEF q, h

\* Growing old leaves the numbers alone.
LEMMA NumsAged == ASSUME NEW p \in Seq(ImageRecords) PROVE Nums(AgedPipe(p)) = Nums(p)
<1>1. /\ AgedPipe(p) \in Seq(ImageRecords) /\ Len(AgedPipe(p)) = Len(p)
      /\ \A k \in 1 .. Len(p) : AgedPipe(p)[k] = Aged(p[k]) /\ p[k] \in ImageRecords
  BY AgedPipeType, LenProperties
<1>2. \A k \in 1 .. Len(p) : AgedPipe(p)[k].n = p[k].n
  BY <1>1, AgedType
<1>3. QED
  BY <1>1, <1>2 DEF Nums

(* One item in front of others is the head, and leaves when it is lost.    *)
LEMMA FirstItem ==
  ASSUME NEW n \in Images, NEW q \in Seq(Images), NEW r, r = <<n>> \o q
  PROVE  /\ r \in Seq(Images) /\ r # <<>> /\ Head(r) = n /\ Tail(r) = q
         /\ Len(r) \in Nat /\ 1 \in 1 .. Len(r) /\ r[1] = n
         /\ SubSeq(r, 1, 0) \o SubSeq(r, 2, Len(r)) = q
<1> DEFINE h == <<n>>
<1>1. h \in Seq(Images) /\ Len(h) = 1 /\ h[1] = n /\ r = h \o q
  OBVIOUS
<1> HIDE DEF h
<1>2. Len(q) \in Nat
  BY LenProperties
<1>3. /\ r \in Seq(Images) /\ Len(r) = 1 + Len(q)
      /\ \A k \in 1 .. 1 + Len(q) : r[k] = IF k <= 1 THEN h[k] ELSE q[k - 1]
  BY <1>1, ConcatProperties
<1>4. r[1] = n /\ \A k \in 1 .. Len(q) : r[k + 1] = q[k]
  <2>1. 1 \in 1 .. 1 + Len(q) /\ 1 <= 1
    BY <1>2
  <2>2. \A k \in 1 .. Len(q) : k + 1 \in 1 .. 1 + Len(q) /\ ~(k + 1 <= 1) /\ (k + 1) - 1 = k
    BY <1>2
  <2>3. QED
    BY <1>1, <1>3, <2>1, <2>2
<1>5. r # <<>>
  BY <1>2, <1>3, EmptySeq
<1>6. Head(r) = n /\ Tail(r) \in Seq(Images) /\ Len(Tail(r)) = Len(q)
      /\ \A k \in 1 .. Len(q) : Tail(r)[k] = r[k + 1]
  <2>1. /\ Head(r) = r[1] /\ Tail(r) \in Seq(Images) /\ Len(Tail(r)) = Len(r) - 1
        /\ \A k \in 1 .. Len(Tail(r)) : Tail(r)[k] = r[k + 1]
    BY <1>3, <1>5, HeadTailProperties
  <2>2. Len(r) - 1 = Len(q)
    BY <1>2, <1>3
  <2>3. QED
    BY <1>4, <2>1, <2>2
<1>7. Tail(r) = q
  BY <1>4, <1>6, SeqEqual
<1>8. SubSeq(r, 1, 0) = <<>>
  BY SubSeqEmpty
<1>9. SubSeq(r, 2, Len(r)) = q
  <2>1. 2 \in 1 .. Len(r) + 1 /\ Len(r) \in 1 .. Len(r) /\ Len(r) - 2 + 1 = Len(q)
    BY <1>2, <1>3
  <2>2. /\ SubSeq(r, 2, Len(r)) \in Seq(Images) /\ Len(SubSeq(r, 2, Len(r))) = Len(q)
        /\ \A k \in 1 .. Len(q) : SubSeq(r, 2, Len(r))[k] = r[2 + k - 1]
    BY <1>2, <1>3, SubSeqProperties
  <2>3. \A k \in 1 .. Len(q) : 2 + k - 1 = k + 1
    BY <1>2
  <2>4. \A k \in 1 .. Len(q) : SubSeq(r, 2, Len(r))[k] = q[k]
    BY <1>4, <2>2, <2>3
  <2>5. QED
    BY <2>2, <2>4, SeqEqual
<1>10. <<>> \o q = q
  BY ConcatEmptySeq
<1>11. Len(r) \in Nat /\ 1 \in 1 .. Len(r)
  BY <1>2, <1>3
<1>12. QED
  BY <1>3, <1>4, <1>5, <1>6, <1>7, <1>8, <1>9, <1>10, <1>11

(* Every image of the watched stream was counted: the next one is new.     *)
NumberInv ==
  /\ image[Watched].n <= camera_grab_counter[Watched]
  /\ \A k \in 1 .. Len(pipe[Watched]) : pipe[Watched][k].n <= camera_grab_counter[Watched]
  /\ \A k \in 1 .. Len(stored[Watched]) : stored[Watched][k] <= camera_grab_counter[Watched]
  /\ \A n \in abandoned[Watched] : n <= camera_grab_counter[Watched]

\* the steps of the channel, in terms of the pipe
LEMMA StutterStep ==
  ASSUME Pending' = Pending, stored'[Watched] = stored[Watched],
         abandoned'[Watched] = abandoned[Watched]
  PROVE  UNCHANGED Channel!vars
BY DEF Channel!vars, Pending, Held, Nums

\* The channel accepts an image.
LEMMA AcceptStep ==
  ASSUME NEW i \in Images,
         i \notin Range(Pending) \cup Range(stored[Watched]) \cup abandoned[Watched],
         Pending' = Append(Pending, i), stored'[Watched] = stored[Watched],
         abandoned'[Watched] = abandoned[Watched]
  PROVE  Channel!Next
<1>1. Channel!Accept(i)
  BY DEF Channel!Accept, Channel!Range, Range, Pending, Held, Nums
<1>2. QED
  BY <1>1 DEF Channel!Next

\* It delivers its first.
LEMMA DeliverStep ==
  ASSUME Pending # <<>>, Pending' = Tail(Pending),
         stored'[Watched] = Append(stored[Watched], Head(Pending)),
         abandoned'[Watched] = abandoned[Watched]
  PROVE  Channel!Next
<1>1. Channel!Deliver
  BY DEF Channel!Deliver, Pending, Held, Nums
<1>2. QED
  BY <1>1 DEF Channel!Next

\* It loses its first.
LEMMA LoseStep ==
  ASSUME 1 \in 1 .. Len(Pending),
         Pending' = SubSeq(Pending, 1, 0) \o SubSeq(Pending, 2, Len(Pending)),
         abandoned'[Watched] = abandoned[Watched] \cup {Pending[1]},
         stored'[Watched] = stored[Watched]
  PROVE  Channel!Next
<1>1. {Pending[k] : k \in 1 .. 1} = {Pending[1]} /\ 1 - 1 = 0 /\ 1 + 1 = 2 /\ 1 <= 1
  OBVIOUS
<1>2. /\ abandoned'[Watched] = abandoned[Watched] \cup {Pending[k] : k \in 1 .. 1}
      /\ Pending' = SubSeq(Pending, 1, 1 - 1) \o SubSeq(Pending, 1 + 1, Len(Pending))
  BY <1>1
<1>3. Channel!Lose(1, 1)
  BY <1>2 DEF Channel!Lose, Pending, Held, Nums
<1>4. \E i, j \in 1 .. Len(Pending) : i <= j /\ Channel!Lose(i, j)
  BY <1>1, <1>3
<1>5. QED
  BY <1>4 DEF Channel!Next, Pending, Held, Nums

\* What the watched stream's thread has in hand.
LEMMA InHand ==
  ASSUME TypeOK
  PROVE  /\ Nums(pipe[Watched]) \in Seq(Images) /\ pipe[Watched] \in Seq(ImageRecords)
         /\ Len(pipe[Watched]) <= Hwm /\ Watched \in Streams
         /\ at[Watched] \in {"recv", "ended"} => image[Watched].n = 0 /\ Held = <<>>
         /\ at[Watched] \notin {"recv", "ended"} =>
               image[Watched].n \in Images /\ Held = <<image[Watched].n>>
         /\ Held \in Seq(Images) /\ Pending \in Seq(Images)
<1>1. /\ Watched \in Streams /\ pipe[Watched] \in Seq(ImageRecords) /\ Len(pipe[Watched]) <= Hwm
      /\ image[Watched] \in ImageRecords \cup {NoImage}
      /\ image[Watched].n = 0 <=> at[Watched] \in {"recv", "ended"}
  BY PipeAssumption DEF TypeOK
<1>2. Nums(pipe[Watched]) \in Seq(Images)
  BY <1>1, NumsType
<1>3. image[Watched].n # 0 => image[Watched].n \in Images
  BY <1>1, NumberType
<1>4. Held \in Seq(Images)
  BY <1>3, EmptySeq DEF Held
<1>5. Pending \in Seq(Images)
  BY <1>2, <1>4, ConcatProperties DEF Pending
<1>6. QED
  BY <1>1, <1>2, <1>3, <1>4, <1>5 DEF Held

\* A camera grabs.
LEMMA GrabStep ==
  ASSUME TypeOK, NumberInv, NEW s \in Streams, Grab(s)
  PROVE  [Channel!Next]_(Channel!vars)
<1> DEFINE i == [n |-> camera_grab_counter[s] + 1, of |-> current]
<1>1. i \in ImageRecords /\ i.n = camera_grab_counter[s] + 1 /\ i.n \in Images
  <2>1. camera_grab_counter[s] + 1 \in Images
    BY Constants DEF Grab, TypeOK, Images
  <2>2. QED
    BY <2>1 DEF TypeOK, ImageRecords
<1>2. /\ pipe'[s] = Sent(pipe[s], i) /\ \A t \in Streams \ {s} : pipe'[t] = pipe[t]
      /\ image' = image /\ stored' = stored /\ abandoned' = abandoned
  BY DEF Grab, TypeOK, threadvars, storevars
<1> HIDE DEF i
<1>3. Held' = Held
  BY <1>2 DEF Held
<1>4. CASE s # Watched \/ Sent(pipe[s], i) = pipe[s]
  <2>1. pipe'[Watched] = pipe[Watched]
    BY <1>2, <1>4, PipeAssumption
  <2>2. Pending' = Pending
    BY <1>3, <2>1 DEF Pending
  <2>3. QED
    BY <1>2, <2>2, StutterStep
<1>5. CASE s = Watched /\ Sent(pipe[s], i) = Append(pipe[s], i)
  <2>1. Nums(pipe'[Watched]) = Append(Nums(pipe[Watched]), i.n)
    BY <1>1, <1>2, <1>5, InHand, NumsAppend
  <2>2. Held \in Seq(Images) /\ Nums(pipe[Watched]) \in Seq(Images)
    BY InHand
  <2>3. Pending' = Append(Pending, i.n)
    <3>1. Held \o Append(Nums(pipe[Watched]), i.n) = Append(Held \o Nums(pipe[Watched]), i.n)
      <4>1. Append(Nums(pipe[Watched]), i.n) = Nums(pipe[Watched]) \o <<i.n>>
        BY <1>1, <2>2, AppendIsConcat
      <4>2. Held \o Nums(pipe[Watched]) \in Seq(Images) /\ <<i.n>> \in Seq(Images)
        BY <1>1, <2>2, ConcatProperties
      <4>3. Append(Held \o Nums(pipe[Watched]), i.n) = (Held \o Nums(pipe[Watched])) \o <<i.n>>
        BY <1>1, <4>2, AppendIsConcat
      <4>4. (Held \o Nums(pipe[Watched])) \o <<i.n>> = Held \o (Nums(pipe[Watched]) \o <<i.n>>)
        BY <2>2, <4>2, ConcatAssociative
      <4>5. QED
        BY <4>1, <4>3, <4>4
    <3>2. QED
      BY <1>3, <2>1, <3>1 DEF Pending
  <2>4. \A n \in Range(Pending) : n # i.n
    <3>1. /\ Len(Held) \in {0, 1} /\ \A k \in 1 .. Len(Held) : Held[k] = image[Watched].n
      BY DEF Held
    <3>2. /\ Len(Nums(pipe[Watched])) = Len(pipe[Watched]) /\ Len(pipe[Watched]) \in Nat
          /\ \A k \in 1 .. Len(pipe[Watched]) : Nums(pipe[Watched])[k] = pipe[Watched][k].n
      BY InHand, NumsType
    <3>3. /\ Len(Pending) = Len(Held) + Len(pipe[Watched]) /\ DOMAIN Pending = 1 .. Len(Pending)
          /\ \A k \in 1 .. Len(Held) + Len(pipe[Watched]) :
               Pending[k] = IF k <= Len(Held) THEN Held[k] ELSE Nums(pipe[Watched])[k - Len(Held)]
      <4>1. Pending \in Seq(Images) /\ Pending = Held \o Nums(pipe[Watched])
        BY InHand DEF Pending
      <4>2. /\ Len(Pending) = Len(Held) + Len(Nums(pipe[Watched]))
            /\ \A k \in 1 .. Len(Held) + Len(Nums(pipe[Watched])) :
                 Pending[k] = IF k <= Len(Held) THEN Held[k] ELSE Nums(pipe[Watched])[k - Len(Held)]
        BY <2>2, <4>1, ConcatProperties
      <4>3. DOMAIN Pending = 1 .. Len(Pending)
        BY <4>1, LenProperties
      <4>4. QED
        BY <3>2, <4>2, <4>3
    <3>4. SUFFICES ASSUME NEW k \in 1 .. Len(Held) + Len(pipe[Watched]) PROVE Pending[k] # i.n
      BY <3>3 DEF Range
    <3>5. CASE k <= Len(Held)
      <4>1. k \in 1 .. Len(Held)
        BY <3>1, <3>2, <3>5
      <4>2. Pending[k] = image[Watched].n
        BY <3>1, <3>3, <3>5, <4>1
      <4>3. QED
        BY <1>1, <1>5, <4>2 DEF NumberInv, TypeOK
    <3>6. CASE ~(k <= Len(Held))
      <4>1. k - Len(Held) \in 1 .. Len(pipe[Watched])
        BY <3>1, <3>2, <3>6
      <4>2. Pending[k] = pipe[Watched][k - Len(Held)].n
        BY <3>2, <3>3, <3>6, <4>1
      <4>3. Pending[k] <= camera_grab_counter[Watched]
        BY <4>1, <4>2 DEF NumberInv
      <4>4. QED
        BY <1>1, <1>5, <4>3 DEF TypeOK
    <3>7. QED
      BY <3>5, <3>6
  <2>5. i.n \notin Range(stored[Watched]) /\ i.n \notin abandoned[Watched]
    <3>1. camera_grab_counter[Watched] \in Int /\ i.n = camera_grab_counter[Watched] + 1
      BY <1>1, <1>5, PipeAssumption DEF TypeOK
    <3>2. DOMAIN stored[Watched] = 1 .. Len(stored[Watched])
      BY InHand, LenProperties DEF TypeOK
    <3>3. \A n \in Range(stored[Watched]) : n <= camera_grab_counter[Watched]
      BY <3>2 DEF NumberInv, Range
    <3>4. QED
      BY <3>1, <3>3 DEF NumberInv
  <2>6. Channel!Next
    BY <1>1, <1>2, <2>3, <2>4, <2>5, AcceptStep
  <2>7. QED
    BY <2>6
<1>6. QED
  BY <1>1, <1>4, <1>5, SentType DEF TypeOK

\* A name is nothing to the channel.
LEMMA AnnounceStep ==
  ASSUME TypeOK, NEW name \in Names, Announce(name)
  PROVE  UNCHANGED Channel!vars
<1>1. Watched \in Streams /\ pipe[Watched] \in Seq(ImageRecords)
  BY InHand
<1>2. pipe'[Watched] = AgedPipe(pipe[Watched]) /\ image'[Watched] = Aged(image[Watched])
  BY <1>1 DEF Announce, AgedPipe
<1>3. Nums(pipe'[Watched]) = Nums(pipe[Watched])
  BY <1>1, <1>2, NumsAged
<1>4. image'[Watched].n = image[Watched].n
  BY <1>1, <1>2, AgedType DEF TypeOK
<1>5. Pending' = Pending
  BY <1>3, <1>4 DEF Pending, Held
<1>6. QED
  BY <1>5, StutterStep DEF Announce, storevars

\* A stream's thread goes on.
LEMMA StreamStep ==
  ASSUME TypeOK, TypeOK', NEW s \in Streams, Stream(s)
  PROVE  [Channel!Next]_(Channel!vars)
<1> DEFINE n == image[Watched].n  q == Nums(pipe[Watched])
<1>1. CASE /\ UNCHANGED <<stored[Watched], abandoned[Watched], pipe[Watched], image[Watched]>>
  BY <1>1, StutterStep DEF Pending, Held
<1>2. CASE s # Watched
  <2>1. UNCHANGED <<stored[Watched], abandoned[Watched], pipe[Watched], image[Watched]>>
    <3>1. Watched \in Streams \ {s}
      BY <1>2, PipeAssumption
    <3>2. CASE Receive(s)
      BY <3>1, <3>2 DEF Receive, TypeOK, storevars
    <3>3. CASE Locate(s)
      BY <3>1, <3>3 DEF Locate, TypeOK, grabvars
    <3>4. CASE Write(s)
      BY <3>1, <3>4 DEF Write, TypeOK, grabvars
    <3>5. CASE Crash(s) \/ Count(s) \/ Counted(s) \/ StreamReturns(s)
      BY <3>5 DEF Crash, Count, Counted, StreamReturns, grabvars, threadvars, storevars
    <3>6. QED
      BY <3>2, <3>3, <3>4, <3>5 DEF Stream
  <2>2. QED
    BY <1>1, <2>1
<1>3. CASE s = Watched /\ Receive(s)
  <2>1. pipe[Watched] # <<>> /\ at[Watched] = "recv" /\ at'[Watched] = "locate"
    BY <1>3, InHand DEF Receive, CanTake, TypeOK
  <2>2. /\ pipe'[Watched] = Tail(pipe[Watched]) /\ image'[Watched] = Head(pipe[Watched])
        /\ UNCHANGED <<stored, abandoned>>
    BY <1>3, InHand DEF Receive, TypeOK, storevars
  <2>3. Held = <<>> /\ q \in Seq(Images) /\ q = <<Head(pipe[Watched]).n>> \o Nums(Tail(pipe[Watched]))
    BY <2>1, InHand, NumsTaken
  <2>4. Pending = q
    BY <2>3, ConcatEmptySeq DEF Pending
  <2>5. Head(pipe[Watched]).n # 0
    BY <2>1, InHand, TakenType, NumberType
  <2>6. Held' = <<Head(pipe[Watched]).n>>
    BY <2>2, <2>5 DEF Held
  <2>7. Pending' = Pending
    BY <2>2, <2>3, <2>4, <2>6 DEF Pending
  <2>8. QED
    BY <2>2, <2>7, StutterStep
<1>4. CASE s = Watched /\ at[s] \notin {"recv", "ended"} /\ image' = [image EXCEPT ![s] = NoImage] /\ pipe' = pipe
  <2>1. n \in Images /\ q \in Seq(Images) /\ Pending = <<n>> \o q
    BY <1>4, InHand DEF Pending
  <2>2. Held' = <<>> /\ Nums(pipe'[Watched]) = q
    BY <1>4, InHand, NumberType DEF Held, TypeOK
  <2>3. Pending' = q
    BY <2>1, <2>2, ConcatEmptySeq DEF Pending
  <2> HIDE DEF n, q
  <2>4. CASE stored'[Watched] = Append(stored[Watched], n) /\ abandoned'[Watched] = abandoned[Watched]
    BY <2>1, <2>3, <2>4, FirstItem, DeliverStep
  <2>5. CASE stored'[Watched] = stored[Watched] /\ abandoned'[Watched] = abandoned[Watched] \cup {n}
    BY <2>1, <2>3, <2>5, FirstItem, LoseStep
  <2>6. \/ stored'[Watched] = Append(stored[Watched], n) /\ abandoned'[Watched] = abandoned[Watched]
        \/ stored'[Watched] = stored[Watched] /\ abandoned'[Watched] = abandoned[Watched] \cup {n}
    <3>1. s = Watched /\ image' # image /\ image'[Watched].n # n
      BY <1>4, <2>1, InHand, NumberType DEF TypeOK, n
    <3>2. Locate(s) \/ Write(s)
      <4>1. ~Receive(s) /\ ~Crash(s) /\ ~Count(s) /\ ~Counted(s) /\ ~StreamReturns(s)
        BY <1>4, <3>1 DEF Receive, Crash, Count, Counted, StreamReturns, threadvars
      <4>2. QED
        BY <4>1 DEF Stream
    <3>3. CASE Locate(s)
      BY <1>4, <3>1, <3>3 DEF Locate, TypeOK, n
    <3>4. CASE Write(s)
      BY <1>4, <3>1, <3>4 DEF Write, TypeOK, n
    <3>5. QED
      BY <3>2, <3>3, <3>4
  <2>7. QED
    BY <2>4, <2>5, <2>6
<1>5. \/ UNCHANGED <<stored[Watched], abandoned[Watched], pipe[Watched], image[Watched]>>
      \/ s # Watched
      \/ s = Watched /\ Receive(s)
      \/ s = Watched /\ at[s] \notin {"recv", "ended"} /\ image' = [image EXCEPT ![s] = NoImage] /\ pipe' = pipe
  BY DEF Stream, Locate, Crash, Count, Counted, Write, StreamReturns, grabvars, threadvars, storevars
<1>6. QED
  BY <1>1, <1>2, <1>3, <1>4, <1>5

\* One step: the next image is still new.
LEMMA NextNumber == ASSUME TypeOK, TypeOK', NumberInv, [Next]_vars PROVE NumberInv'
<1> DEFINE c == camera_grab_counter[Watched]
<1>1. /\ Watched \in Streams /\ c \in Nat /\ pipe[Watched] \in Seq(ImageRecords)
      /\ Len(pipe[Watched]) <= Hwm /\ stored[Watched] \in Seq(Images) /\ image[Watched].n \in Nat
  <2>1. Watched \in Streams /\ pipe[Watched] \in Seq(ImageRecords) /\ Len(pipe[Watched]) <= Hwm
    BY InHand
  <2>2. c \in 0 .. MaxImages /\ stored[Watched] \in Seq(Images)
    BY <2>1 DEF TypeOK
  <2>3. image[Watched].n = 0 \/ image[Watched].n \in Images
    BY <2>1, NumberType DEF TypeOK
  <2>4. QED
    BY <2>1, <2>2, <2>3, Constants DEF Images
<1>2. \A n \in abandoned[Watched] : n \in Nat
  BY <1>1 DEF TypeOK, Images
<1>3. CASE UNCHANGED <<camera_grab_counter[Watched], pipe[Watched], image[Watched], stored[Watched],
                       abandoned[Watched]>>
  BY <1>3 DEF NumberInv
<1>4. ASSUME NEW s \in Streams, Grab(s) PROVE NumberInv'
  <2>1. CASE s # Watched
    BY <1>1, <1>3, <1>4, <2>1 DEF Grab, TypeOK, threadvars, storevars
  <2>2. CASE s = Watched
    <3> DEFINE i == [n |-> camera_grab_counter[s] + 1, of |-> current]
    <3>1. i \in ImageRecords /\ i.n = c + 1
      <4>1. camera_grab_counter[s] + 1 \in Images
        BY <1>4, Constants DEF Grab, TypeOK, Images
      <4>2. QED
        BY <2>2, <4>1 DEF TypeOK, ImageRecords
    <3>2. /\ camera_grab_counter'[Watched] = c + 1 /\ pipe'[Watched] = Sent(pipe[Watched], i)
          /\ UNCHANGED <<image, stored, abandoned>>
      BY <1>1, <1>4, <2>2 DEF Grab, TypeOK, threadvars, storevars
    <3> HIDE DEF i
    <3>3. \A k \in 1 .. Len(pipe[Watched]) : pipe[Watched][k].n <= c + 1
      <4>1. \A k \in 1 .. Len(pipe[Watched]) : pipe[Watched][k] \in ImageRecords
        BY <1>1, LenProperties
      <4>2. SUFFICES ASSUME NEW k \in 1 .. Len(pipe[Watched]) PROVE pipe[Watched][k].n <= c + 1
        OBVIOUS
      <4>3. pipe[Watched][k].n \in Nat /\ pipe[Watched][k].n <= c
        BY <4>1, NumberType DEF NumberInv, Images
      <4>4. QED
        BY <1>1, <4>3
    <3>4. \A k \in 1 .. Len(pipe'[Watched]) : pipe'[Watched][k].n <= c + 1
      <4>1. CASE Sent(pipe[Watched], i) = pipe[Watched]
        BY <3>2, <3>3, <4>1
      <4>2. CASE /\ Sent(pipe[Watched], i) = Append(pipe[Watched], i)
                 /\ Len(Append(pipe[Watched], i)) = Len(pipe[Watched]) + 1
                 /\ \A k \in 1 .. Len(pipe[Watched]) : Append(pipe[Watched], i)[k] = pipe[Watched][k]
                 /\ Append(pipe[Watched], i)[Len(pipe[Watched]) + 1] = i
        <5>1. Len(pipe[Watched]) \in Nat
          BY <1>1, LenProperties
        <5>2. \A k \in 1 .. Len(pipe[Watched]) + 1 : k \in 1 .. Len(pipe[Watched]) \/ k = Len(pipe[Watched]) + 1
          BY <5>1
        <5>3. i.n <= c + 1
          BY <1>1, <3>1
        <5>4. QED
          BY <3>2, <3>3, <4>2, <5>2, <5>3
      <4>3. QED
        BY <1>1, <3>1, <4>1, <4>2, SentType
    <3>5. /\ image[Watched].n <= c + 1
          /\ \A k \in 1 .. Len(stored[Watched]) : stored[Watched][k] <= c + 1
          /\ \A n \in abandoned[Watched] : n <= c + 1
      <4>1. \A k \in 1 .. Len(stored[Watched]) : stored[Watched][k] \in Nat
        <5>1. \A k \in 1 .. Len(stored[Watched]) : stored[Watched][k] \in Images
          BY <1>1, LenProperties
        <5>2. QED
          BY <5>1 DEF Images
      <4>2. QED
        BY <1>1, <1>2, <4>1 DEF NumberInv
    <3>6. QED
      BY <3>2, <3>4, <3>5 DEF NumberInv
  <2>3. QED
    BY <2>1, <2>2
<1>5. ASSUME NEW name \in Names, Announce(name) PROVE NumberInv'
  <2>1. pipe'[Watched] = AgedPipe(pipe[Watched]) /\ image'[Watched] = Aged(image[Watched])
    BY <1>1, <1>5 DEF Announce, AgedPipe
  <2>2. image'[Watched].n = image[Watched].n
    BY <1>1, <2>1, AgedType DEF TypeOK
  <2>3. \A k \in 1 .. Len(pipe'[Watched]) : pipe'[Watched][k].n <= c
    <3>1. \A k \in 1 .. Len(pipe[Watched]) : pipe[Watched][k] \in ImageRecords
      BY <1>1, LenProperties
    <3>2. /\ Len(pipe'[Watched]) = Len(pipe[Watched])
          /\ \A k \in 1 .. Len(pipe[Watched]) : pipe'[Watched][k] = Aged(pipe[Watched][k])
      BY <1>1, <2>1, AgedPipeType
    <3>3. \A k \in 1 .. Len(pipe[Watched]) : pipe'[Watched][k].n = pipe[Watched][k].n
      BY <3>1, <3>2, AgedType
    <3>4. QED
      BY <3>2, <3>3 DEF NumberInv
  <2>4. UNCHANGED <<camera_grab_counter, stored, abandoned>>
    BY <1>5 DEF Announce, storevars
  <2>5. QED
    BY <2>2, <2>3, <2>4 DEF NumberInv
<1>6. ASSUME NEW s \in Streams, Stream(s) PROVE NumberInv'
  <2>1. UNCHANGED camera_grab_counter
    BY <1>6 DEF Stream, Receive, Locate, Crash, Count, Counted, Write, StreamReturns, grabvars
  <2>2. CASE Receive(s)
    <3>1. CASE s # Watched
      BY <1>1, <1>3, <2>1, <2>2, <3>1 DEF Receive, TypeOK, storevars
    <3>2. CASE s = Watched
      <4>1. /\ pipe[Watched] # <<>> /\ pipe'[Watched] = Tail(pipe[Watched])
            /\ image'[Watched] = Head(pipe[Watched]) /\ UNCHANGED <<stored, abandoned>>
        BY <1>1, <2>2, <3>2 DEF Receive, CanTake, TypeOK, storevars
      <4> DEFINE p == pipe[Watched]
      <4>2. /\ Head(p) = p[1] /\ 1 \in 1 .. Len(p)
            /\ \A k \in 1 .. Len(Tail(p)) : Tail(p)[k] = p[k + 1] /\ k + 1 \in 1 .. Len(p)
        BY <1>1, <4>1, TakenType
      <4>3. /\ \A k \in 1 .. Len(pipe'[Watched]) : pipe'[Watched][k].n <= c
            /\ image'[Watched].n <= c
        BY <4>1, <4>2 DEF NumberInv
      <4>4. QED
        BY <2>1, <4>1, <4>3 DEF NumberInv
    <3>3. QED
      BY <3>1, <3>2
  <2>3. CASE ~Receive(s)
    <3>1. /\ pipe'[Watched] = pipe[Watched]
          /\ image'[Watched].n = image[Watched].n \/ image'[Watched].n = 0
      <4>1. pipe' = pipe
        BY <1>6, <2>3 DEF Stream, Locate, Crash, Count, Counted, Write, StreamReturns, grabvars
      <4>2. image' = image \/ image' = [image EXCEPT ![s] = NoImage]
        BY <1>6, <2>3 DEF Stream, Locate, Crash, Count, Counted, Write, StreamReturns, threadvars
      <4>3. QED
        BY <1>1, <4>1, <4>2, NumberType DEF TypeOK
    <3>2. \A n \in abandoned'[Watched] : n \in abandoned[Watched] \/ n = image[Watched].n
      <4>1. abandoned' = abandoned \/ abandoned' = [abandoned EXCEPT ![s] = abandoned[s] \cup {image[s].n}]
        <5>1. CASE Locate(s)
          BY <5>1 DEF Locate
        <5>2. CASE Write(s)
          BY <5>2 DEF Write
        <5>3. CASE ~Locate(s) /\ ~Write(s)
          BY <1>6, <2>3, <5>3 DEF Stream, Crash, Count, Counted, StreamReturns, storevars
        <5>4. QED
          BY <5>1, <5>2, <5>3
      <4>2. CASE s = Watched
        <5>1. \/ abandoned'[Watched] = abandoned[Watched]
              \/ abandoned'[Watched] = abandoned[Watched] \cup {image[Watched].n}
          BY <1>1, <4>1, <4>2 DEF TypeOK
        <5>2. QED
          BY <5>1
      <4>3. CASE s # Watched
        BY <1>1, <4>1, <4>3 DEF TypeOK
      <4>4. QED
        BY <4>2, <4>3
    <3>3. \/ stored'[Watched] = stored[Watched]
          \/ stored'[Watched] = Append(stored[Watched], image[Watched].n) /\ image[Watched].n \in Images
      <4>1. \/ stored' = stored
            \/ at[s] = "write" /\ stored' = [stored EXCEPT ![s] = Append(stored[s], image[s].n)]
        <5>1. CASE Write(s)
          BY <5>1 DEF Write
        <5>2. CASE ~Write(s)
          BY <1>6, <2>3, <5>2 DEF Stream, Locate, Crash, Count, Counted, StreamReturns, storevars
        <5>3. QED
          BY <5>1, <5>2
      <4>2. CASE s = Watched
        <5>1. at[s] = "write" => image[Watched].n \in Images
          BY <4>2, InHand
        <5>2. QED
          BY <1>1, <4>1, <4>2, <5>1 DEF TypeOK
      <4>3. CASE s # Watched
        BY <1>1, <4>1, <4>3 DEF TypeOK
      <4>4. QED
        BY <4>2, <4>3
    <3>4. \A k \in 1 .. Len(stored'[Watched]) : stored'[Watched][k] <= c
      <4>1. CASE stored'[Watched] = stored[Watched]
        BY <4>1 DEF NumberInv
      <4>2. CASE stored'[Watched] = Append(stored[Watched], image[Watched].n) /\ image[Watched].n \in Images
        <5>1. /\ Len(stored'[Watched]) = Len(stored[Watched]) + 1 /\ Len(stored[Watched]) \in Nat
              /\ \A k \in 1 .. Len(stored[Watched]) : stored'[Watched][k] = stored[Watched][k]
              /\ stored'[Watched][Len(stored[Watched]) + 1] = image[Watched].n
          BY <1>1, <4>2, AppendProperties, LenProperties
        <5>2. \A k \in 1 .. Len(stored[Watched]) + 1 : k \in 1 .. Len(stored[Watched]) \/ k = Len(stored[Watched]) + 1
          BY <5>1
        <5>3. QED
          BY <5>1, <5>2 DEF NumberInv
      <4>3. QED
        BY <3>3, <4>1, <4>2
    <3>5. 0 <= c
      BY <1>1
    <3>6. QED
      BY <2>1, <3>1, <3>2, <3>4, <3>5 DEF NumberInv
  <2>4. QED
    BY <2>2, <2>3
<1>7. CASE Dispatch \/ OnClose \/ DispatchDies \/ NasFails \/ NasRecovers \/ UNCHANGED vars
  BY <1>3, <1>7
  DEF Dispatch, CreateDirectory, AssignPath, DispatchReturns, ResetCounter, OnClose, DispatchDies,
      NasFails, NasRecovers, vars, grabvars, threadvars, storevars
<1>8. QED
  BY <1>4, <1>5, <1>6, <1>7 DEF Next

\* One step is a step of the channel.
LEMMA NextStep ==
  ASSUME TypeOK, TypeOK', NumberInv, [Next]_vars
  PROVE  [Channel!Next]_(Channel!vars)
<1>1. CASE \E s \in Streams : Grab(s)
  BY <1>1, GrabStep
<1>2. CASE \E s \in Streams : Stream(s)
  BY <1>2, StreamStep
<1>3. CASE \E name \in Names : Announce(name)
  BY <1>3, AnnounceStep
<1>4. CASE Dispatch \/ OnClose \/ DispatchDies \/ NasFails \/ NasRecovers \/ UNCHANGED vars
  <2>1. UNCHANGED <<pipe, image, stored, abandoned>>
    BY <1>4
    DEF Dispatch, CreateDirectory, AssignPath, DispatchReturns, ResetCounter, OnClose, DispatchDies,
        NasFails, NasRecovers, vars, grabvars, threadvars, storevars
  <2>2. Pending' = Pending
    BY <2>1 DEF Pending, Held
  <2>3. QED
    BY <2>1, <2>2, StutterStep
<1>5. QED
  BY <1>1, <1>2, <1>3, <1>4 DEF Next

\* The first state is the channel's.
LEMMA InitChannel == Init => NumberInv /\ Channel!Init
<1>1. SUFFICES ASSUME Init PROVE NumberInv /\ Channel!Init
  OBVIOUS
<1>2. Watched \in Streams
  BY PipeAssumption
<1>3. /\ camera_grab_counter[Watched] = 0 /\ pipe[Watched] = <<>> /\ stored[Watched] = <<>>
      /\ abandoned[Watched] = {} /\ image[Watched].n = 0
  BY <1>1, <1>2 DEF Init, NoImage
<1>4. Len(<<>>) = 0 /\ \A k \in 1 .. 0 : FALSE
  BY EmptySeq
<1>5. NumberInv
  BY <1>3, <1>4 DEF NumberInv
<1>6. Nums(pipe[Watched]) = <<>>
  <2>1. <<>> \in Seq(ImageRecords)
    BY EmptySeq
  <2>2. Nums(<<>>) \in Seq(Images) /\ Len(Nums(<<>>)) = 0
    BY <1>4, <2>1, NumsType
  <2>3. QED
    BY <1>3, <2>2, EmptySeq
<1>7. Held = <<>>
  BY <1>3 DEF Held
<1>8. <<>> \o <<>> = <<>>
  BY EmptySeq, ConcatEmptySeq
<1>9. Pending = <<>>
  BY <1>6, <1>7, <1>8 DEF Pending
<1>10. Channel!Init
  BY <1>3, <1>9 DEF Channel!Init, Pending, Held, Nums
<1>11. QED
  BY <1>5, <1>10

\* ImagePipe implements the channel for every choice of the constants: whichever
\* stream is watched, its images are stored in the order of their grabbing, each
\* once at most, and none that was given up.
THEOREM PipeIsAChannel == Spec => ImplementsChannel
<1>1. Init => TypeOK /\ NumberInv /\ Channel!Init
  BY InitType, InitChannel
<1>2. TypeOK /\ NumberInv /\ [Next]_vars
      => (TypeOK /\ NumberInv)' /\ [Channel!Next]_(Channel!vars)
  BY NextType, NextNumber, NextStep
<1>3. QED
  BY <1>1, <1>2, PTL DEF Spec, ImplementsChannel, Channel!Spec
=============================================================================
