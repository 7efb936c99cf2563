-------------------------- MODULE FileStacker_proofs --------------------------
(***************************************************************************)
(* What FileStacker guarantees for any streams, targets, names and bounds: *)
(* its type invariant, that an image is stored under a material that was   *)
(* current while it was handled, when two images may get one file name,    *)
(* that the numbering restarts with the material unless a reset came       *)
(* between the halves of ++_stream_counter, and that without failures an   *)
(* image is stored everywhere or, of a repeated material, nowhere.         *)
(***************************************************************************)
EXTENDS FileStacker, TLAPS, SequenceTheorems

(***************************************************************************)
(* The vector holds directories of the current instruction only, and an    *)
(* image in the directory loop sees directories of an instruction no older *)
(* than its reception, in the vector as it was or as it is.                *)
(***************************************************************************)
PathsInv ==
  /\ \A i \in 1 .. Len(backup_dir_path) : backup_dir_path[i].epoch = epoch
  /\ \A s \in Streams :
       /\ since[s].epoch <= epoch
       /\ spc[s] = "write" =>
            \A i \in 1 .. Len(view[s].paths) : view[s].paths[i].epoch \in since[s].epoch .. epoch

(***************************************************************************)
(* Resets and receptions never get ahead of the instructions, and every    *)
(* stored image is older than the last one received.                       *)
(***************************************************************************)
OrderInv ==
  /\ \A s \in Streams :
       /\ lastReset[s].epoch <= epoch
       /\ dpc = "targets" => lastReset[s].epoch < epoch
       /\ dpc = "reset" /\ s \in resets => lastReset[s].epoch < epoch
       /\ since[s].reset.epoch <= lastReset[s].epoch
       /\ since[s].reset.epoch <= since[s].epoch
  /\ \A f \in files :
       /\ f.since.reset.epoch <= since[f.stream].reset.epoch
       /\ f.since.reset.epoch <= f.dir.epoch

(***************************************************************************)
(* Between two resets the numbers of a stream only grow: a stored image    *)
(* has at most the counter, and less than the image in hand.               *)
(***************************************************************************)
NumbersInv ==
  /\ \A s \in Streams :
       since[s].reset.epoch = lastReset[s].epoch =>
         /\ spc[s] = "count" => number[s] = stream_counter[s] + 1
         /\ spc[s] \in {"begin", "write"} => number[s] = stream_counter[s]
  /\ \A f \in files :
       /\ f.since.reset.epoch = lastReset[f.stream].epoch => f.number <= stream_counter[f.stream]
       /\ /\ spc[f.stream] \in {"count", "begin", "write"}
          /\ f.since.reset.epoch = since[f.stream].reset.epoch
          /\ f.image # received[f.stream]
          => f.number < number[f.stream]
  /\ \A f, g \in files :
       /\ f.stream = g.stream /\ f.number = g.number
       /\ f.since.reset.epoch = g.since.reset.epoch
       => f.image = g.image

(***************************************************************************)
(* A loop over an unchanged vector has, without failures, stored a copy    *)
(* under every directory it has passed.                                    *)
(***************************************************************************)
CopiesInv ==
  /\ faults = 0 => down = {}
  /\ \A s \in Streams :
       /\ view[s].version <= version
       /\ spc[s] = "write" /\ view[s].version = version =>
            /\ view[s].paths = backup_dir_path
            /\ faults = 0 =>
                 \A i \in 1 .. Len(backup_dir_path) : i < at[s] =>
                   \E f \in files : /\ f.dir = backup_dir_path[i]
                                    /\ f.stream = s /\ f.image = received[s]

\* Elements of sequences of directories and of targets.
LEMMA HeadAndTail ==
  ASSUME NEW S, NEW q \in Seq(S), q # <<>>
  PROVE  Head(q) \in S /\ Tail(q) \in Seq(S)
  BY HeadTailProperties

\* What a record of a reset is made of.
LEMMA ResetRecord ==
  ASSUME TypeOK, NEW s \in Streams
  PROVE  [epoch |-> epoch, images |-> received[s], clean |-> spc[s] # "count"] \in Resets
<1>1. received[s] \in Nat
  BY StackerAssumption DEF StackerAssumption, TypeOK
<1> QED
  BY <1>1 DEF TypeOK, Resets

\* An instruction is dispatched.
LEMMA DispatchKeepsTypes ==
  ASSUME TypeOK, Dispatch, UNCHANGED <<crashed, stop>> PROVE TypeOK'
<1> USE DEF TypeOK
<1>1. ASSUME NEW n \in Names, Instruction(n) PROVE TypeOK'
  <2>1. backup_dir_path' \in Seq(Directories)
    BY <1>1 DEF Instruction
  <2>2. epoch' \in 0..MaxDispatch /\ epoch' > 0 /\ version' \in Nat
    BY <1>1, StackerAssumption DEF Instruction, StackerAssumption
  <2>3. dleft' \in Seq(Targets)
    BY <1>1, StackerAssumption DEF Instruction, StackerAssumption, Targets
  <2>4. dname' \in Names /\ dpc' = "targets" /\ UNCHANGED <<resets, diskvars, streamvars, countvars>>
    BY <1>1 DEF Instruction
  <2> QED
    BY <2>1, <2>2, <2>3, <2>4 DEF diskvars, streamvars, countvars
<1>6. CASE Malformed
  <2>1. backup_dir_path' \in Seq(Directories) /\ dname' \in Names \cup {NoName}
    BY <1>6 DEF Malformed
  <2>2. epoch' \in 0..MaxDispatch /\ version' \in Nat
    BY <1>6, StackerAssumption DEF Malformed, StackerAssumption
  <2>3. dpc' \in {"recv", "done"} /\ UNCHANGED <<dleft, resets, diskvars, streamvars, countvars>>
    BY <1>6 DEF Malformed
  <2> QED
    BY <2>1, <2>2, <2>3 DEF diskvars, streamvars, countvars
<1>2. CASE VisitTarget
  <2> DEFINE d == [target |-> Head(dleft), name |-> dname, epoch |-> epoch]
  <2>1. Head(dleft) \in Targets /\ dleft' \in Seq(Targets)
    BY <1>2, HeadAndTail DEF VisitTarget
  <2>2. d \in Directories
    <3>1. dname \in Names /\ epoch \in 1..MaxDispatch
      BY <1>2 DEF VisitTarget
    <3> QED
      BY <2>1, <3>1 DEF Directories
  <2>3. /\ exists' = exists \/ exists' = exists \cup {d}
        /\ backup_dir_path' = backup_dir_path \/ backup_dir_path' = Append(backup_dir_path, d)
        /\ version' = version \/ version' = version + 1
    BY <1>2 DEF VisitTarget
  <2>4. exists' \subseteq Directories
    BY <2>2, <2>3
  <2>5. backup_dir_path' \in Seq(Directories)
    <3>1. backup_dir_path \in Seq(Directories)
      OBVIOUS
    <3> HIDE DEF d, TypeOK
    <3> QED
      BY <2>2, <2>3, <3>1, AppendProperties
  <2>6. version' \in Nat
    BY <2>3
  <2>7. UNCHANGED <<epoch, dpc, dname, resets, down, files, faults, streamvars, countvars>>
    BY <1>2 DEF VisitTarget
  <2> QED
    BY <2>1, <2>4, <2>5, <2>6, <2>7 DEF streamvars, countvars
<1>3. CASE TargetsVisited
  BY <1>3 DEF TargetsVisited, diskvars, streamvars, countvars
<1>4. ASSUME NEW s \in Streams, ResetCounter(s) PROVE TypeOK'
  <2>1. stream_counter' \in [Streams -> Nat]
    BY <1>4 DEF ResetCounter
  <2>2. lastReset' \in [Streams -> Resets]
    BY <1>4, ResetRecord DEF ResetCounter, RecordReset
  <2>3. resets' \subseteq Streams /\ dpc' \in {"recv", "reset"}
    BY <1>4 DEF ResetCounter
  <2>4. UNCHANGED <<backup_dir_path, version, epoch, dname, dleft, diskvars, streamvars>>
    BY <1>4 DEF ResetCounter
  <2> QED
    BY <2>1, <2>2, <2>3, <2>4 DEF diskvars, streamvars
<1>5. CASE DispatchReturns
  BY <1>5 DEF DispatchReturns, diskvars, streamvars, countvars
<1> QED
  BY <1>1, <1>2, <1>3, <1>4, <1>5, <1>6 DEF Dispatch

\* What the directory loop of a stream may store.
LEMMA DereferencedIsDirectory ==
  ASSUME TypeOK, NEW s \in Streams, at[s] <= Len(view[s].paths),
         NEW d \in Dereferenced(s), d # Garbage
  PROVE  /\ d \in Directories
         /\ \/ \E i \in 1 .. Len(view[s].paths) : d = view[s].paths[i]
            \/ \E i \in 1 .. Len(backup_dir_path) : d = backup_dir_path[i]
<1>1. at[s] \in 1 .. Len(view[s].paths) /\ view[s].paths \in Seq(Directories)
  <2>1. at[s] \in Nat \ {0} /\ view[s] \in [paths : Seq(Directories), version : Nat]
    BY DEF TypeOK
  <2>2. Len(view[s].paths) \in Nat
    BY <2>1, LenProperties
  <2> QED
    BY <2>1, <2>2
<1>2. CASE d = view[s].paths[at[s]]
  BY <1>1, <1>2, ElementOfSeq
<1>3. CASE d \in {backup_dir_path[i] : i \in {at[s]} \cap DOMAIN backup_dir_path}
  <2>1. backup_dir_path \in Seq(Directories)
    BY DEF TypeOK
  <2>2. PICK i \in DOMAIN backup_dir_path : d = backup_dir_path[i]
    BY <1>3
  <2>3. i \in 1 .. Len(backup_dir_path)
    BY <2>1, <2>2, LenProperties
  <2> QED
    BY <2>1, <2>2, <2>3, ElementOfSeq
<1> QED
  BY <1>2, <1>3 DEF Dereferenced

\* The file an image in the directory loop becomes.
FileIn(d, s) == [dir |-> d, stream |-> s, number |-> number[s], image |-> received[s],
                 since |-> since[s]]

\* What one pass of the directory loop changes.
LEMMA WriteChanges ==
  ASSUME TypeOK, NEW s \in Streams, Write(s)
  PROVE  /\ spc[s] = "write" /\ at[s] <= Len(view[s].paths)
         /\ \/ files' = files
            \/ \E d \in Dereferenced(s) \ {Garbage} : files' = files \cup {FileIn(d, s)}
         /\ \/ at' = [at EXCEPT ![s] = at[s] + 1] /\ spc' = spc
            \/ at' = at /\ spc' = [spc EXCEPT ![s] = "recv"]
         /\ UNCHANGED <<received, number, view, since, dispatchvars, exists, down, faults,
                        countvars, crashed, stop>>
<1>1. PICK d \in Dereferenced(s) :
        LET usable == d # Garbage /\ d.target \notin down
            next == at' = [at EXCEPT ![s] = at[s] + 1] /\ UNCHANGED spc
        IN  \/ usable /\ files' = files \cup {FileIn(d, s)} /\ next
            \/ ~usable /\ next /\ UNCHANGED files
            \/ ~usable /\ spc' = [spc EXCEPT ![s] = "recv"] /\ UNCHANGED <<at, files>>
  BY Zenon DEF Write, FileIn
<1>2. \/ files' = files
      \/ d \in Dereferenced(s) \ {Garbage} /\ files' = files \cup {FileIn(d, s)}
  BY <1>1
<1>3. \/ at' = [at EXCEPT ![s] = at[s] + 1] /\ spc' = spc
      \/ at' = at /\ spc' = [spc EXCEPT ![s] = "recv"]
  BY <1>1, Zenon
<1>4. /\ spc[s] = "write" /\ at[s] <= Len(view[s].paths)
      /\ UNCHANGED <<received, number, view, since, dispatchvars, exists, down, faults,
                     countvars, crashed, stop>>
  BY DEF Write
<1> QED
  BY <1>2, <1>3, <1>4, Zenon

\* A stream's thread goes on.
LEMMA StreamKeepsTypes ==
  ASSUME TypeOK, NEW s \in Streams, Stream(s) PROVE TypeOK'
<1> USE DEF TypeOK
<1>1. CASE Receive(s)
  <2>1. received' \in [Streams -> 0..MaxImages]
    <3>1. received[s] + 1 \in 0..MaxImages
      BY <1>1, StackerAssumption DEF Receive, StackerAssumption
    <3> QED
      BY <1>1, <3>1 DEF Receive
  <2>2. number' \in [Streams -> Nat]
    <3>1. stream_counter[s] + 1 \in Nat
      OBVIOUS
    <3> QED
      BY <1>1, <3>1 DEF Receive
  <2>3. since' \in [Streams -> Moments]
    <3>1. [epoch |-> epoch, reset |-> lastReset[s]] \in Moments
      BY DEF Moments
    <3> QED
      BY <1>1, <3>1 DEF Receive
  <2>4. spc' \in [Streams -> {"recv", "count", "begin", "write", "done"}]
    BY <1>1 DEF Receive
  <2>5. UNCHANGED <<view, at, dispatchvars, diskvars, countvars, crashed, stop>>
    BY <1>1 DEF Receive
  <2> QED
    BY <2>1, <2>2, <2>3, <2>4, <2>5 DEF dispatchvars, diskvars, countvars
<1>2. CASE Count(s)
  <2>1. stream_counter' \in [Streams -> Nat]
    BY <1>2 DEF Count
  <2>2. spc' \in [Streams -> {"recv", "count", "begin", "write", "done"}]
    BY <1>2 DEF Count
  <2>3. UNCHANGED <<received, number, view, at, since, lastReset, dispatchvars, diskvars, crashed, stop>>
    BY <1>2 DEF Count
  <2> QED
    BY <2>1, <2>2, <2>3 DEF dispatchvars, diskvars
<1>7. CASE Begin(s)
  <2>1. view' \in [Streams -> [paths : Seq(Directories), version : Nat]]
    <3>1. [paths |-> backup_dir_path, version |-> version] \in [paths : Seq(Directories), version : Nat]
      OBVIOUS
    <3> QED
      BY <1>7, <3>1 DEF Begin
  <2>2. at' \in [Streams -> Nat \ {0}]
    BY <1>7 DEF Begin
  <2>3. spc' \in [Streams -> {"recv", "count", "begin", "write", "done"}]
    BY <1>7 DEF Begin
  <2>4. UNCHANGED <<received, number, since, countvars, dispatchvars, diskvars, crashed, stop>>
    BY <1>7 DEF Begin
  <2> QED
    BY <2>1, <2>2, <2>3, <2>4 DEF countvars, dispatchvars, diskvars
<1>3. CASE Write(s)
  <2>1. files' \subseteq [dir : Directories, stream : Streams, number : Nat,
                         image : 0..MaxImages, since : Moments]
    <3>1. CASE files' = files
      BY <3>1
    <3>2. ASSUME NEW d \in Dereferenced(s) \ {Garbage}, files' = files \cup {FileIn(d, s)}
          PROVE  files' \subseteq [dir : Directories, stream : Streams, number : Nat,
                                  image : 0..MaxImages, since : Moments]
      <4>1. d \in Directories
        BY <1>3, WriteChanges, DereferencedIsDirectory
      <4>2. FileIn(d, s) \in [dir : Directories, stream : Streams, number : Nat,
                              image : 0..MaxImages, since : Moments]
        BY <4>1 DEF FileIn
      <4> QED
        BY <3>2, <4>2
    <3> QED
      BY <1>3, <3>1, <3>2, WriteChanges
  <2>2. at' \in [Streams -> Nat \ {0}]
    <3>1. at[s] + 1 \in Nat \ {0}
      OBVIOUS
    <3>2. at' = at \/ at' = [at EXCEPT ![s] = at[s] + 1]
      BY <1>3, WriteChanges, Zenon
    <3> QED
      BY <3>1, <3>2
  <2>3. spc' \in [Streams -> {"recv", "count", "begin", "write", "done"}]
    BY <1>3, WriteChanges
  <2>4. UNCHANGED <<received, number, view, since, dispatchvars, exists, down, faults,
                    countvars, crashed, stop>>
    BY <1>3, WriteChanges
  <2> QED
    BY <2>1, <2>2, <2>3, <2>4 DEF dispatchvars, countvars
<1>4. CASE Crash(s)
  BY <1>4 DEF Crash, diskvars, dispatchvars, streamvars, countvars
<1>5. CASE Stored(s)
  BY <1>5 DEF Stored, diskvars, dispatchvars, countvars
<1>6. CASE StreamReturns(s)
  BY <1>6 DEF StreamReturns, diskvars, dispatchvars, countvars
<1> QED
  BY <1>1, <1>2, <1>3, <1>4, <1>5, <1>6, <1>7 DEF Stream

\* The type invariant of the stacker.
THEOREM TypeInvariant == Spec => []TypeOK
<1>1. Init => TypeOK
  <2> SUFFICES ASSUME Init PROVE TypeOK
    OBVIOUS
  <2>1. NeverReset \in Resets
    BY StackerAssumption DEF StackerAssumption, NeverReset, Resets
  <2>2. [epoch |-> 0, reset |-> NeverReset] \in Moments
    BY <2>1, StackerAssumption DEF StackerAssumption, Moments
  <2>3. /\ lastReset \in [Streams -> Resets] /\ since \in [Streams -> Moments]
        /\ view \in [Streams -> [paths : Seq(Directories), version : Nat]]
    BY <2>1, <2>2 DEF Init
  <2>4. /\ received \in [Streams -> 0..MaxImages] /\ epoch \in 0..MaxDispatch
        /\ faults \in 0..MaxFaults /\ version \in Nat
        /\ number \in [Streams -> Nat] /\ stream_counter \in [Streams -> Nat]
        /\ at \in [Streams -> Nat \ {0}]
    BY StackerAssumption DEF StackerAssumption, Init
  <2>5. /\ backup_dir_path \in Seq(Directories) /\ dleft \in Seq(Targets)
        /\ spc \in [Streams -> {"recv", "count", "begin", "write", "done"}]
        /\ dpc = "recv" /\ dname = NoName
    BY DEF Init
  <2>6. /\ exists = {} /\ down = {} /\ files = {} /\ resets = {}
        /\ crashed = FALSE /\ stop = FALSE
    BY DEF Init
  <2> QED
    BY <2>3, <2>4, <2>5, <2>6 DEF TypeOK
<1>2. TypeOK /\ [Next]_vars => TypeOK'
  <2> SUFFICES ASSUME TypeOK, [Next]_vars PROVE TypeOK'
    OBVIOUS
  <2>1. CASE Dispatch
    <3>1. UNCHANGED <<crashed, stop>>
      BY <2>1 DEF Dispatch, Instruction, Malformed, VisitTarget, TargetsVisited, ResetCounter, DispatchReturns
    <3> QED
      BY <2>1, <3>1, DispatchKeepsTypes
  <2>2. CASE \E s \in Streams : Stream(s)
    BY <2>2, StreamKeepsTypes
  <2>3. CASE OnClose \/ DispatchDies
    BY <2>3 DEF OnClose, DispatchDies, TypeOK, diskvars, dispatchvars, streamvars, countvars
  <2>4. CASE Disk
    <3>1. ASSUME NEW t \in Targets, TargetFails(t) PROVE down' \subseteq Targets /\ faults' \in 0..MaxFaults
      <4>1. faults' \in 0..MaxFaults
        BY <3>1, StackerAssumption DEF TargetFails, TypeOK, StackerAssumption
      <4> QED
        BY <3>1, <4>1 DEF TargetFails, TypeOK
    <3>2. ASSUME NEW t \in Targets, TargetRecovers(t) PROVE down' \subseteq Targets /\ faults' \in 0..MaxFaults
      BY <3>2 DEF TargetRecovers, TypeOK
    <3>3. down' \subseteq Targets /\ faults' \in 0..MaxFaults
      BY <2>4, <3>1, <3>2 DEF Disk
    <3>4. UNCHANGED <<exists, files, dispatchvars, streamvars, countvars, crashed, stop>>
      BY <2>4 DEF Disk, TargetFails, TargetRecovers
    <3> QED
      BY <3>3, <3>4 DEF TypeOK, dispatchvars, streamvars, countvars
  <2>5. CASE UNCHANGED vars
    BY <2>5 DEF vars, TypeOK, diskvars, dispatchvars, streamvars, countvars
  <2> QED
    BY <2>1, <2>2, <2>3, <2>4, <2>5 DEF Next
<1> QED
  BY <1>1, <1>2, PTL DEF Spec
-----------------------------------------------------------------------------
\* The numbers behind the records.
LEMMA Epochs ==
  ASSUME TypeOK
  PROVE  /\ epoch \in Nat
         /\ \A s \in Streams :
              /\ since[s].epoch \in Nat /\ since[s].reset.epoch \in Nat
              /\ lastReset[s].epoch \in Nat
              /\ number[s] \in Nat /\ stream_counter[s] \in Nat /\ received[s] \in Nat
         /\ \A f \in files :
              /\ f.stream \in Streams /\ f.since.reset.epoch \in Nat /\ f.dir.epoch \in Nat
              /\ f.number \in Nat /\ f.image \in Nat
<1>1. epoch \in Nat
  BY StackerAssumption DEF StackerAssumption, TypeOK
<1>2. \A m \in Moments : m.epoch \in Nat /\ m.reset \in Resets /\ m.reset.epoch \in Nat
  BY StackerAssumption DEF StackerAssumption, Moments, Resets
<1>3. \A r \in Resets : r.epoch \in Nat
  BY StackerAssumption DEF StackerAssumption, Resets
<1>4. \A d \in Directories : d.epoch \in Nat
  BY DEF Directories
<1>5. 0 .. MaxImages \subseteq Nat
  BY StackerAssumption DEF StackerAssumption
<1>6. ASSUME NEW s \in Streams
      PROVE  /\ since[s] \in Moments /\ lastReset[s] \in Resets
             /\ number[s] \in Nat /\ stream_counter[s] \in Nat /\ received[s] \in 0 .. MaxImages
  BY DEF TypeOK
<1>7. ASSUME NEW f \in files
      PROVE  /\ f.stream \in Streams /\ f.since \in Moments /\ f.dir \in Directories
             /\ f.number \in Nat /\ f.image \in 0 .. MaxImages
  BY DEF TypeOK
<1> QED
  BY <1>1, <1>2, <1>3, <1>4, <1>5, <1>6, <1>7

\* The vector, the views and the loop are sequences.
LEMMA Vectors ==
  ASSUME TypeOK
  PROVE  /\ Len(backup_dir_path) \in Nat /\ backup_dir_path \in Seq(Directories)
         /\ \A s \in Streams : Len(view[s].paths) \in Nat /\ view[s].paths \in Seq(Directories)
<1>1. backup_dir_path \in Seq(Directories)
  BY DEF TypeOK
<1>2. \A s \in Streams : view[s].paths \in Seq(Directories)
  BY DEF TypeOK
<1> QED
  BY <1>1, <1>2, LenProperties

\* One step: the directories of the vector and of the loops.
LEMMA PathsStep ==
  ASSUME TypeOK, PathsInv, [Next]_vars PROVE PathsInv'
<1>1. CASE Dispatch
  <2>1. UNCHANGED streamvars
    BY <1>1 DEF Dispatch, Instruction, Malformed, VisitTarget, TargetsVisited, ResetCounter, DispatchReturns
  <2>2. \/ epoch' = epoch + 1 /\ backup_dir_path' = <<>>
        \/ epoch' = epoch /\ backup_dir_path' = backup_dir_path
        \/ /\ epoch' = epoch
           /\ backup_dir_path' = Append(backup_dir_path,
                                        [target |-> Head(dleft), name |-> dname, epoch |-> epoch])
    BY <1>1 DEF Dispatch, Instruction, Malformed, VisitTarget, TargetsVisited, ResetCounter, DispatchReturns
  <2>3. epoch' \in {epoch, epoch + 1}
    BY <2>2
  <2>4. \A i \in 1 .. Len(backup_dir_path)' : backup_dir_path'[i].epoch = epoch'
    <3>1. CASE epoch' = epoch + 1 /\ backup_dir_path' = <<>>
      BY <3>1
    <3>2. CASE epoch' = epoch /\ backup_dir_path' = backup_dir_path
      BY <3>2 DEF PathsInv
    <3>3. ASSUME NEW d, d.epoch = epoch, epoch' = epoch, backup_dir_path' = Append(backup_dir_path, d)
          PROVE  \A i \in 1 .. Len(backup_dir_path)' : backup_dir_path'[i].epoch = epoch'
      <4> DEFINE S == Directories \cup {d}
      <4>1. backup_dir_path \in Seq(S) /\ d \in S
        BY Vectors
      <4> HIDE DEF S
      <4>2. /\ Len(backup_dir_path') = Len(backup_dir_path) + 1
            /\ \A i \in 1 .. Len(backup_dir_path) : backup_dir_path'[i] = backup_dir_path[i]
            /\ backup_dir_path'[Len(backup_dir_path) + 1] = d
        BY <3>3, <4>1, AppendProperties
      <4> QED
        BY <3>3, <4>2, Vectors DEF PathsInv
    <3> QED
      BY <2>2, <3>1, <3>2, <3>3
  <2>5. ASSUME NEW s \in Streams
        PROVE  /\ since'[s].epoch <= epoch'
               /\ spc'[s] = "write" => \A i \in 1 .. Len(view'[s].paths) :
                                        view'[s].paths[i].epoch \in since'[s].epoch .. epoch'
    BY <2>1, <2>3, Epochs DEF PathsInv, streamvars
  <2> QED
    BY <2>4, <2>5 DEF PathsInv
<1>2. ASSUME NEW s \in Streams, Receive(s) PROVE PathsInv'
  <2>1. UNCHANGED <<backup_dir_path, epoch, view>>
    BY <1>2 DEF Receive, dispatchvars
  <2>2. ASSUME NEW t \in Streams
        PROVE  /\ since'[t].epoch = IF t = s THEN epoch ELSE since[t].epoch
               /\ spc'[t] = IF t = s THEN "count" ELSE spc[t]
    BY <1>2 DEF Receive, TypeOK
  <2>3. ASSUME NEW t \in Streams
        PROVE  /\ since'[t].epoch <= epoch
               /\ spc'[t] = "write" => \A i \in 1 .. Len(view[t].paths) :
                                        view[t].paths[i].epoch \in since'[t].epoch .. epoch
    <3>1. CASE t = s
      BY <2>2, <3>1, Epochs
    <3>2. CASE t # s
      BY <2>2, <3>2 DEF PathsInv
    <3> QED
      BY <3>1, <3>2
  <2> QED
    BY <2>1, <2>3 DEF PathsInv
<1>3. ASSUME NEW s \in Streams, Begin(s) PROVE PathsInv'
  <2>1. UNCHANGED <<backup_dir_path, epoch, since>>
    BY <1>3 DEF Begin, dispatchvars
  <2>2. ASSUME NEW t \in Streams
        PROVE  /\ view'[t].paths = IF t = s THEN backup_dir_path ELSE view[t].paths
               /\ spc'[t] = IF t = s THEN "write" ELSE spc[t]
    BY <1>3 DEF Begin, TypeOK
  <2>3. ASSUME NEW t \in Streams, spc'[t] = "write", NEW i \in 1 .. Len(view'[t].paths)
        PROVE  view'[t].paths[i].epoch \in since[t].epoch .. epoch
    <3>1. CASE t = s
      BY <2>2, <2>3, <3>1, Epochs DEF PathsInv
    <3>2. CASE t # s
      BY <2>2, <2>3, <3>2 DEF PathsInv
    <3> QED
      BY <3>1, <3>2
  <2> QED
    BY <2>1, <2>3 DEF PathsInv
<1>4. ASSUME NEW s \in Streams, Count(s) \/ Write(s) \/ Stored(s) \/ StreamReturns(s) PROVE PathsInv'
  <2>1. UNCHANGED <<backup_dir_path, epoch, since, view>>
    BY <1>4 DEF Count, Write, Stored, StreamReturns, dispatchvars
  <2>2. ASSUME NEW t \in Streams, spc'[t] = "write" PROVE spc[t] = "write"
    <3>1. \/ spc' = spc \/ spc' = [spc EXCEPT ![s] = "recv"]
          \/ spc' = [spc EXCEPT ![s] = "begin"] \/ spc' = [spc EXCEPT ![s] = "done"]
      BY <1>4, WriteChanges DEF Count, Stored, StreamReturns
    <3> QED
      BY <2>2, <3>1 DEF TypeOK
  <2> QED
    BY <2>1, <2>2 DEF PathsInv
<1>5. CASE OnClose \/ DispatchDies \/ Disk \/ UNCHANGED vars \/ \E s \in Streams : Crash(s)
  <2>1. UNCHANGED <<backup_dir_path, epoch, since, view, spc>>
    BY <1>5 DEF OnClose, DispatchDies, Disk, TargetFails, TargetRecovers, Crash, vars, dispatchvars, streamvars
  <2> QED
    BY <2>1 DEF PathsInv
<1> QED
  BY <1>1, <1>2, <1>3, <1>4, <1>5 DEF Next, Stream

\* The directory an image is stored in is of an instruction no older than its
\* reception.
LEMMA StoredInView ==
  ASSUME TypeOK, PathsInv, NEW s \in Streams, spc[s] = "write", at[s] <= Len(view[s].paths),
         NEW d \in Dereferenced(s), d # Garbage
  PROVE  d \in Directories /\ d.epoch \in since[s].epoch .. epoch
<1>1. d \in Directories
  BY DereferencedIsDirectory
<1>2. CASE \E i \in 1 .. Len(view[s].paths) : d = view[s].paths[i]
  BY <1>1, <1>2 DEF PathsInv
<1>3. CASE \E i \in 1 .. Len(backup_dir_path) : d = backup_dir_path[i]
  <2>1. d.epoch = epoch /\ since[s].epoch <= epoch
    BY <1>3 DEF PathsInv
  <2> QED
    BY <1>1, <2>1, Epochs
<1> QED
  BY <1>1, <1>2, <1>3, DereferencedIsDirectory

\* An image is stored only under a material that was the current one at some moment
\* between its reception and its writing, even by an iteration that reads memory
\* the dispatch thread has freed or reused.
THEOREM StoredRight == Spec => StoredUnderCurrentMaterial
<1>1. Init => PathsInv
  <2> SUFFICES ASSUME Init PROVE PathsInv
    OBVIOUS
  <2>1. backup_dir_path = <<>> /\ epoch = 0 /\ \A s \in Streams : since[s].epoch = 0 /\ spc[s] = "recv"
    BY DEF Init
  <2> QED
    BY <2>1 DEF PathsInv
<1>2. TypeOK /\ PathsInv /\ [Next]_vars => PathsInv'
  BY PathsStep
<1>3. TypeOK /\ PathsInv /\ [Next]_vars
        => [\A f \in files' \ files : f.dir.epoch \in f.since.epoch .. epoch]_vars
  <2> SUFFICES ASSUME TypeOK, PathsInv, Next, NEW f \in files' \ files
               PROVE  f.dir.epoch \in f.since.epoch .. epoch
    BY DEF vars, diskvars
  <2>1. PICK s \in Streams : Write(s)
    BY DEF Next, Dispatch, Instruction, Malformed, VisitTarget, TargetsVisited, ResetCounter, DispatchReturns,
           OnClose, DispatchDies, Disk, TargetFails, TargetRecovers, Stream, Receive, Count, Begin, Crash, Stored,
           StreamReturns, diskvars, vars
  <2>2. PICK d \in Dereferenced(s) \ {Garbage} : f = FileIn(d, s)
    BY <2>1, WriteChanges
  <2>3. d.epoch \in since[s].epoch .. epoch
    BY <2>1, <2>2, WriteChanges, StoredInView
  <2> QED
    BY <2>2, <2>3 DEF FileIn
<1> QED
  BY <1>1, <1>2, <1>3, TypeInvariant, PTL DEF Spec, StoredUnderCurrentMaterial
-----------------------------------------------------------------------------
\* What the steps do to the order of resets, receptions and files.
LEMMA DispatchOrder ==
  ASSUME TypeOK, OrderInv, Dispatch PROVE OrderInv'
<1>1. UNCHANGED <<files, since>>
  BY DEF Dispatch, Instruction, Malformed, VisitTarget, TargetsVisited, ResetCounter, DispatchReturns,
         diskvars, streamvars
<1>2. ASSUME NEW n \in Names, Instruction(n) PROVE OrderInv'
  <2>1. epoch' = epoch + 1 /\ dpc' = "targets" /\ lastReset' = lastReset
    BY <1>2 DEF Instruction, countvars
  <2> QED
    BY <1>1, <2>1, Epochs DEF OrderInv
<1>6. CASE Malformed
  <2>1. epoch' = epoch + 1 /\ dpc' \in {"recv", "done"} /\ lastReset' = lastReset
    BY <1>6 DEF Malformed, countvars
  <2> QED
    BY <1>1, <2>1, Epochs DEF OrderInv
<1>3. CASE VisitTarget \/ DispatchReturns
  <2>1. /\ UNCHANGED <<epoch, resets, lastReset>>
        /\ dpc' = dpc \/ dpc' = "done"
    BY <1>3 DEF VisitTarget, DispatchReturns, countvars
  <2> QED
    BY <1>1, <2>1 DEF OrderInv
<1>4. CASE TargetsVisited
  <2>1. /\ UNCHANGED <<epoch, lastReset>>
        /\ dpc = "targets" /\ dpc' = "reset"
    BY <1>4 DEF TargetsVisited, countvars
  <2> QED
    BY <1>1, <2>1 DEF OrderInv
<1>5. ASSUME NEW s \in Streams, ResetCounter(s) PROVE OrderInv'
  <2>1. /\ epoch' = epoch /\ dpc = "reset" /\ dpc' \in {"recv", "reset"}
        /\ resets' = resets \ {s}
    BY <1>5 DEF ResetCounter
  <2>2. ASSUME NEW t \in Streams
        PROVE  lastReset'[t].epoch = IF t = s THEN epoch ELSE lastReset[t].epoch
    BY <1>5 DEF ResetCounter, RecordReset, TypeOK
  <2>3. \A t \in Streams : lastReset[t].epoch <= lastReset'[t].epoch /\ lastReset'[t].epoch <= epoch
    BY <2>2, Epochs DEF OrderInv
  <2>4. ASSUME NEW t \in Streams
        PROVE  /\ since[t].reset.epoch <= lastReset'[t].epoch
               /\ dpc' = "reset" /\ t \in resets' => lastReset'[t].epoch < epoch
    <3>1. since[t].reset.epoch <= lastReset[t].epoch
      BY DEF OrderInv
    <3>2. since[t].reset.epoch <= lastReset'[t].epoch
      BY <2>2, <2>3, <3>1, Epochs
    <3>3. t \in resets' => lastReset'[t].epoch < epoch
      BY <2>1, <2>2 DEF OrderInv
    <3> QED
      BY <3>2, <3>3
  <2> QED
    BY <1>1, <2>1, <2>3, <2>4 DEF OrderInv
<1> QED
  BY <1>2, <1>3, <1>4, <1>5, <1>6 DEF Dispatch

\* One step: resets and receptions.
LEMMA OrderStep ==
  ASSUME TypeOK, PathsInv, OrderInv, [Next]_vars PROVE OrderInv'
<1>1. CASE Dispatch
  BY <1>1, DispatchOrder
<1>2. ASSUME NEW s \in Streams, Receive(s) PROVE OrderInv'
  <2>1. UNCHANGED <<epoch, dpc, resets, lastReset, files>>
    BY <1>2 DEF Receive, dispatchvars, diskvars, countvars
  <2>2. ASSUME NEW t \in Streams
        PROVE  since'[t] = IF t = s THEN [epoch |-> epoch, reset |-> lastReset[s]] ELSE since[t]
    BY <1>2 DEF Receive, TypeOK
  <2>3. ASSUME NEW t \in Streams
        PROVE  /\ since[t].reset.epoch <= since'[t].reset.epoch
               /\ since'[t].reset.epoch <= lastReset[t].epoch
               /\ since'[t].reset.epoch <= since'[t].epoch
    BY <2>2, Epochs DEF OrderInv
  <2>4. \A t \in Streams : since'[t].reset.epoch \in Nat
    BY <2>2, Epochs
  <2>5. ASSUME NEW f \in files PROVE f.since.reset.epoch <= since'[f.stream].reset.epoch
    BY <2>3, <2>4, Epochs DEF OrderInv
  <2> QED
    BY <2>1, <2>3, <2>5 DEF OrderInv
<1>3. ASSUME NEW s \in Streams, Write(s) PROVE OrderInv'
  <2>1. UNCHANGED <<epoch, dpc, resets, lastReset, since>>
    BY <1>3, WriteChanges DEF dispatchvars, countvars
  <2>2. ASSUME NEW f \in files'
        PROVE  f.since.reset.epoch <= since[f.stream].reset.epoch /\ f.since.reset.epoch <= f.dir.epoch
    <3>1. CASE f \in files
      BY <3>1 DEF OrderInv
    <3>2. ASSUME NEW d \in Dereferenced(s) \ {Garbage}, f = FileIn(d, s)
          PROVE  f.since.reset.epoch <= since[f.stream].reset.epoch /\ f.since.reset.epoch <= f.dir.epoch
      <4>1. d.epoch \in since[s].epoch .. epoch
        BY <1>3, WriteChanges, StoredInView
      <4>2. f.since = since[s] /\ f.stream = s /\ f.dir = d
        BY <3>2 DEF FileIn
      <4>3. since[s].reset.epoch <= since[s].epoch
        BY DEF OrderInv
      <4> QED
        BY <4>1, <4>2, <4>3, Epochs
    <3> QED
      BY <1>3, <2>2, <3>1, <3>2, WriteChanges
  <2> QED
    BY <2>1, <2>2 DEF OrderInv
<1>4. CASE ~Dispatch /\ ~\E s \in Streams : Receive(s) \/ Write(s)
  <2>1. UNCHANGED <<epoch, dpc, resets, lastReset, files, since>>
    BY <1>4 DEF Next, Stream, Count, Begin, Stored, StreamReturns, Crash, OnClose, DispatchDies, Disk, TargetFails,
                TargetRecovers, vars, dispatchvars, diskvars, countvars, streamvars
  <2> QED
    BY <2>1 DEF OrderInv
<1> QED
  BY <1>1, <1>2, <1>3, <1>4

\* What the steps do to the numbers.
LEMMA NumbersStep ==
  ASSUME TypeOK, PathsInv, OrderInv, NumbersInv, [Next]_vars PROVE NumbersInv'
<1>1. ASSUME NEW s \in Streams, ResetCounter(s) PROVE NumbersInv'
  <2>1. UNCHANGED <<files, since, spc, number, received>>
    BY <1>1 DEF ResetCounter, diskvars, streamvars
  <2>2. ASSUME NEW t \in Streams
        PROVE  IF t = s THEN lastReset'[t].epoch = epoch
               ELSE lastReset'[t].epoch = lastReset[t].epoch /\ stream_counter'[t] = stream_counter[t]
    BY <1>1 DEF ResetCounter, RecordReset, TypeOK
  <2>3. lastReset[s].epoch < epoch
    BY <1>1 DEF ResetCounter, OrderInv
  <2>4. since[s].reset.epoch < epoch
    BY <2>3, Epochs DEF OrderInv
  <2>5. \A f \in files : f.stream = s => f.since.reset.epoch < epoch
    BY <2>4, Epochs DEF OrderInv
  <2>6. ASSUME NEW t \in Streams, since[t].reset.epoch = lastReset'[t].epoch
        PROVE  t # s /\ since[t].reset.epoch = lastReset[t].epoch /\ stream_counter'[t] = stream_counter[t]
    BY <2>2, <2>4, <2>6, Epochs
  <2>7. ASSUME NEW f \in files, f.since.reset.epoch = lastReset'[f.stream].epoch
        PROVE  f.number <= stream_counter'[f.stream]
    BY <2>2, <2>5, <2>7, Epochs DEF NumbersInv
  <2> QED
    BY <2>1, <2>6, <2>7 DEF NumbersInv
<1>2. ASSUME NEW s \in Streams, Receive(s) PROVE NumbersInv'
  <2>1. UNCHANGED <<lastReset, files, stream_counter>>
    BY <1>2 DEF Receive, diskvars, countvars
  <2>2. ASSUME NEW t \in Streams
        PROVE  IF t = s
               THEN /\ since'[t].reset = lastReset[t] /\ number'[t] = stream_counter[t] + 1
                    /\ spc'[t] = "count"
               ELSE /\ since'[t] = since[t] /\ number'[t] = number[t] /\ spc'[t] = spc[t]
                    /\ received'[t] = received[t]
    BY <1>2 DEF Receive, TypeOK
  <2>3. ASSUME NEW t \in Streams, since'[t].reset.epoch = lastReset[t].epoch
        PROVE  /\ spc'[t] = "count" => number'[t] = stream_counter[t] + 1
               /\ spc'[t] \in {"begin", "write"} => number'[t] = stream_counter[t]
    BY <2>2, <2>3 DEF NumbersInv
  <2>4. ASSUME NEW f \in files, spc'[f.stream] \in {"count", "begin", "write"},
               f.since.reset.epoch = since'[f.stream].reset.epoch, f.image # received'[f.stream]
        PROVE  f.number < number'[f.stream]
    <3>1. CASE f.stream = s
      <4>1. f.number <= stream_counter[s]
        BY <2>2, <2>4, <3>1 DEF NumbersInv
      <4> QED
        BY <2>2, <3>1, <4>1, Epochs
    <3>2. CASE f.stream # s
      BY <2>2, <2>4, <3>2, Epochs DEF NumbersInv
    <3> QED
      BY <3>1, <3>2
  <2> QED
    BY <2>1, <2>3, <2>4 DEF NumbersInv
<1>3. ASSUME NEW s \in Streams, Count(s) PROVE NumbersInv'
  <2>1. UNCHANGED <<lastReset, files, since, number, received>>
    BY <1>3 DEF Count, diskvars
  <2>2. ASSUME NEW t \in Streams
        PROVE  IF t = s
               THEN stream_counter'[t] = number[t] /\ spc[t] = "count" /\ spc'[t] = "begin"
               ELSE stream_counter'[t] = stream_counter[t] /\ spc'[t] = spc[t]
    BY <1>3 DEF Count, TypeOK
  <2>3. ASSUME NEW t \in Streams, since[t].reset.epoch = lastReset[t].epoch
        PROVE  /\ spc'[t] = "count" => number[t] = stream_counter'[t] + 1
               /\ spc'[t] \in {"begin", "write"} => number[t] = stream_counter'[t]
    BY <2>2, <2>3 DEF NumbersInv
  <2>4. ASSUME NEW f \in files, f.since.reset.epoch = lastReset[f.stream].epoch
        PROVE  f.number <= stream_counter'[f.stream]
    <3>1. CASE f.stream = s
      <4>1. since[s].reset.epoch = lastReset[s].epoch
        BY <2>4, <3>1, Epochs DEF OrderInv
      <4>2. f.number <= stream_counter[s] /\ number[s] = stream_counter[s] + 1
        BY <2>2, <2>4, <3>1, <4>1 DEF NumbersInv
      <4> QED
        BY <2>2, <3>1, <4>2, Epochs
    <3>2. CASE f.stream # s
      BY <2>2, <2>4, <3>2, Epochs DEF NumbersInv
    <3> QED
      BY <3>1, <3>2
  <2>5. ASSUME NEW t \in Streams, spc'[t] \in {"count", "begin", "write"} PROVE spc[t] \in {"count", "begin", "write"}
    BY <2>2, <2>5
  <2> QED
    BY <2>1, <2>3, <2>4, <2>5, Epochs DEF NumbersInv
<1>4. ASSUME NEW s \in Streams, Write(s) PROVE NumbersInv'
  <2>1. UNCHANGED <<lastReset, stream_counter, since, number, received>>
    BY <1>4, WriteChanges DEF countvars
  <2>2. spc[s] = "write"
    BY <1>4, WriteChanges
  <2>3. ASSUME NEW t \in Streams, spc'[t] \in {"count", "begin", "write"} PROVE spc[t] = spc'[t]
    <3>1. spc' = spc \/ spc' = [spc EXCEPT ![s] = "recv"]
      BY <1>4, WriteChanges
    <3> QED
      BY <2>3, <3>1 DEF TypeOK
  <2>4. ASSUME NEW f \in files'
        PROVE  \/ f \in files
               \/ /\ f.stream = s /\ f.number = number[s] /\ f.image = received[s]
                  /\ f.since = since[s]
    BY <1>4, WriteChanges DEF FileIn
  <2>5. ASSUME NEW f \in files', f.since.reset.epoch = lastReset[f.stream].epoch
        PROVE  f.number <= stream_counter[f.stream]
    BY <2>2, <2>4, <2>5, Epochs DEF NumbersInv
  <2>6. ASSUME NEW f \in files', spc'[f.stream] \in {"count", "begin", "write"}, f.stream \in Streams,
               f.since.reset.epoch = since[f.stream].reset.epoch, f.image # received[f.stream]
        PROVE  f.number < number[f.stream]
    BY <2>3, <2>4, <2>6 DEF NumbersInv
  <2>7. ASSUME NEW f \in files, f.stream = s, f.number = number[s],
               f.since.reset.epoch = since[s].reset.epoch
        PROVE  f.image = received[s]
    BY <2>2, <2>7, Epochs DEF NumbersInv
  <2>8. ASSUME NEW f \in files', NEW g \in files', f.stream = g.stream, f.number = g.number,
               f.since.reset.epoch = g.since.reset.epoch
        PROVE  f.image = g.image
    <3>1. CASE f \in files /\ g \in files
      BY <2>8, <3>1 DEF NumbersInv
    <3>2. CASE f \notin files
      BY <2>4, <2>7, <2>8, <3>2
    <3>3. CASE g \notin files
      BY <2>4, <2>7, <2>8, <3>3
    <3> QED
      BY <3>1, <3>2, <3>3
  <2>9. \A f \in files' : f.stream \in Streams
    BY <2>4, Epochs
  <2>10. ASSUME NEW t \in Streams, since[t].reset.epoch = lastReset[t].epoch
         PROVE  /\ spc'[t] = "count" => number[t] = stream_counter[t] + 1
                /\ spc'[t] \in {"begin", "write"} => number[t] = stream_counter[t]
    BY <2>3, <2>10 DEF NumbersInv
  <2> QED
    BY <2>1, <2>5, <2>6, <2>8, <2>9, <2>10 DEF NumbersInv
<1>5. ASSUME NEW s \in Streams, Stored(s) \/ StreamReturns(s) PROVE NumbersInv'
  <2>1. UNCHANGED <<lastReset, stream_counter, since, number, received, files>>
    BY <1>5 DEF Stored, StreamReturns, countvars, diskvars
  <2>2. ASSUME NEW t \in Streams, spc'[t] \in {"count", "begin", "write"} PROVE spc[t] = spc'[t]
    <3>1. spc' = [spc EXCEPT ![s] = "recv"] \/ spc' = [spc EXCEPT ![s] = "done"]
      BY <1>5 DEF Stored, StreamReturns
    <3> QED
      BY <2>2, <3>1 DEF TypeOK
  <2>3. ASSUME NEW t \in Streams, since[t].reset.epoch = lastReset[t].epoch
        PROVE  /\ spc'[t] = "count" => number[t] = stream_counter[t] + 1
               /\ spc'[t] \in {"begin", "write"} => number[t] = stream_counter[t]
    BY <2>2, <2>3 DEF NumbersInv
  <2>4. ASSUME NEW f \in files, spc'[f.stream] \in {"count", "begin", "write"},
               f.since.reset.epoch = since[f.stream].reset.epoch, f.image # received[f.stream]
        PROVE  f.number < number[f.stream]
    BY <2>2, <2>4, Epochs DEF NumbersInv
  <2> QED
    BY <2>1, <2>3, <2>4 DEF NumbersInv
<1>7. ASSUME NEW s \in Streams, Begin(s) PROVE NumbersInv'
  <2>1. UNCHANGED <<lastReset, stream_counter, since, number, received, files>>
    BY <1>7 DEF Begin, countvars, diskvars
  <2>2. ASSUME NEW t \in Streams
        PROVE  IF t = s THEN spc[t] = "begin" /\ spc'[t] = "write" ELSE spc'[t] = spc[t]
    BY <1>7 DEF Begin, TypeOK
  <2>3. ASSUME NEW t \in Streams, since[t].reset.epoch = lastReset[t].epoch
        PROVE  /\ spc'[t] = "count" => number[t] = stream_counter[t] + 1
               /\ spc'[t] \in {"begin", "write"} => number[t] = stream_counter[t]
    BY <2>2, <2>3 DEF NumbersInv
  <2>4. ASSUME NEW f \in files, spc'[f.stream] \in {"count", "begin", "write"},
               f.since.reset.epoch = since[f.stream].reset.epoch, f.image # received[f.stream]
        PROVE  f.number < number[f.stream]
    BY <2>2, <2>4, Epochs DEF NumbersInv
  <2> QED
    BY <2>1, <2>3, <2>4 DEF NumbersInv
<1>6. CASE ~\E s \in Streams : \/ ResetCounter(s) \/ Receive(s) \/ Count(s) \/ Begin(s)
                               \/ Write(s) \/ Stored(s) \/ StreamReturns(s)
  <2>1. UNCHANGED <<lastReset, stream_counter, since, number, received, files, spc>>
    BY <1>6 DEF Next, Dispatch, Instruction, Malformed, VisitTarget, TargetsVisited, DispatchReturns, Stream,
                Crash, OnClose, DispatchDies, Disk, TargetFails, TargetRecovers, vars, diskvars, countvars, streamvars
  <2> QED
    BY <2>1 DEF NumbersInv
<1> QED
  BY <1>1, <1>2, <1>3, <1>4, <1>5, <1>6, <1>7

\* Two images get one name in one directory only if one of them was counted before
\* the numbering was reset for that directory's material, for any streams, targets
\* and instructions: within a material no image overwrites another.
THEOREM OverwritesAreAtDispatch == Spec => []OverwriteOnlyAroundDispatch
<1>1. Init => PathsInv /\ OrderInv /\ NumbersInv
  <2> SUFFICES ASSUME Init PROVE PathsInv /\ OrderInv /\ NumbersInv
    OBVIOUS
  <2>1. /\ backup_dir_path = <<>> /\ epoch = 0 /\ dpc = "recv" /\ files = {}
        /\ \A s \in Streams : /\ since[s].epoch = 0 /\ spc[s] = "recv"
                               /\ since[s].reset.epoch = 0 /\ lastReset[s].epoch = 0
    BY DEF Init, NeverReset
  <2> QED
    BY <2>1 DEF PathsInv, OrderInv, NumbersInv
<1>2. TypeOK /\ PathsInv /\ OrderInv /\ NumbersInv /\ [Next]_vars
        => (PathsInv /\ OrderInv /\ NumbersInv)'
  BY PathsStep, OrderStep, NumbersStep
<1>3. TypeOK /\ OrderInv /\ NumbersInv => OverwriteOnlyAroundDispatch
  <2> SUFFICES ASSUME TypeOK, OrderInv, NumbersInv, NEW f \in files, NEW g \in files,
                      f.dir = g.dir, f.stream = g.stream, f.number = g.number, f.image # g.image,
                      ~(f.since.reset.epoch < f.dir.epoch), ~(g.since.reset.epoch < g.dir.epoch)
               PROVE  FALSE
    BY DEF OverwriteOnlyAroundDispatch
  <2>1. ASSUME NEW h \in files, ~(h.since.reset.epoch < h.dir.epoch)
        PROVE  h.since.reset.epoch = h.dir.epoch
    <3>1. h.since.reset.epoch \in Nat /\ h.dir.epoch \in Nat
      BY Epochs
    <3>2. h.since.reset.epoch <= h.dir.epoch
      BY DEF OrderInv
    <3> QED
      BY <2>1, <3>1, <3>2
  <2>2. f.since.reset.epoch = f.dir.epoch /\ g.since.reset.epoch = g.dir.epoch
    BY <2>1
  <2> QED
    BY <2>2 DEF NumbersInv
<1> QED
  BY <1>1, <1>2, <1>3, TypeInvariant, PTL DEF Spec
-----------------------------------------------------------------------------
(***************************************************************************)
(* From a clean reset on, the counter counts the images received since,    *)
(* less the one that is between the two halves of ++_stream_counter; the   *)
(* image in hand and those on disk carry that count.                       *)
(***************************************************************************)
RestartInv ==
  /\ \A s \in Streams :
       /\ lastReset[s].clean =>
            received[s] - lastReset[s].images =
              IF spc[s] = "count" THEN stream_counter[s] + 1 ELSE stream_counter[s]
       /\ lastReset[s].clean /\ spc[s] = "count" => number[s] = stream_counter[s] + 1
       /\ spc[s] \in {"count", "begin", "write"} /\ since[s].reset.clean =>
            number[s] = received[s] - since[s].reset.images
  /\ \A f \in files : f.since.reset.clean => f.number = f.image - f.since.reset.images

\* The images before a reset are a number.
LEMMA ImagesBefore ==
  ASSUME TypeOK
  PROVE  \A s \in Streams : lastReset[s].images \in Nat /\ since[s].reset.images \in Nat
<1>1. \A r \in Resets : r.images \in Nat
  BY DEF Resets
<1>2. \A m \in Moments : m.reset \in Resets
  BY DEF Moments
<1>3. \A s \in Streams : lastReset[s] \in Resets /\ since[s] \in Moments
  BY DEF TypeOK
<1> QED
  BY <1>1, <1>2, <1>3

\* What the steps do to that count.
LEMMA RestartStep ==
  ASSUME TypeOK, RestartInv, [Next]_vars PROVE RestartInv'
<1>1. ASSUME NEW s \in Streams, ResetCounter(s) PROVE RestartInv'
  <2>1. UNCHANGED <<files, since, spc, number, received>>
    BY <1>1 DEF ResetCounter, diskvars, streamvars
  <2>2. ASSUME NEW t \in Streams
        PROVE  IF t = s THEN /\ lastReset'[t].images = received[t] /\ stream_counter'[t] = 0
                             /\ lastReset'[t].clean => spc[t] # "count"
               ELSE lastReset'[t] = lastReset[t] /\ stream_counter'[t] = stream_counter[t]
    BY <1>1 DEF ResetCounter, RecordReset, TypeOK
  <2>3. ASSUME NEW t \in Streams, lastReset'[t].clean
        PROVE  /\ received[t] - lastReset'[t].images =
                    IF spc[t] = "count" THEN stream_counter'[t] + 1 ELSE stream_counter'[t]
               /\ spc[t] = "count" => number[t] = stream_counter'[t] + 1
    <3>1. CASE t = s
      BY <2>2, <2>3, <3>1, Epochs
    <3>2. CASE t # s
      BY <2>2, <2>3, <3>2 DEF RestartInv
    <3> QED
      BY <3>1, <3>2
  <2> QED
    BY <2>1, <2>3 DEF RestartInv
<1>2. ASSUME NEW s \in Streams, Receive(s) PROVE RestartInv'
  <2>1. UNCHANGED <<lastReset, files, stream_counter>> /\ spc[s] = "recv"
    BY <1>2 DEF Receive, diskvars, countvars
  <2>2. ASSUME NEW t \in Streams
        PROVE  IF t = s
               THEN /\ since'[t].reset = lastReset[t] /\ number'[t] = stream_counter[t] + 1
                    /\ received'[t] = received[t] + 1 /\ spc'[t] = "count"
               ELSE /\ since'[t] = since[t] /\ number'[t] = number[t] /\ spc'[t] = spc[t]
                    /\ received'[t] = received[t]
    BY <1>2 DEF Receive, TypeOK
  <2>3. lastReset[s].clean => /\ received'[s] - lastReset[s].images = stream_counter[s] + 1
                              /\ number'[s] = stream_counter[s] + 1
    <3>1. lastReset[s].clean => received[s] - lastReset[s].images = stream_counter[s]
      BY <2>1 DEF RestartInv
    <3>2. received'[s] = received[s] + 1 /\ number'[s] = stream_counter[s] + 1
      BY <2>2
    <3>3. received[s] \in Nat /\ lastReset[s].images \in Nat /\ stream_counter[s] \in Nat
      BY Epochs, ImagesBefore
    <3>4. ASSUME received[s] - lastReset[s].images = stream_counter[s]
          PROVE  (received[s] + 1) - lastReset[s].images = stream_counter[s] + 1
      BY <3>3, <3>4
    <3> QED
      BY <3>1, <3>2, <3>4
  <2>4. ASSUME NEW t \in Streams
        PROVE  /\ lastReset[t].clean =>
                    received'[t] - lastReset[t].images =
                      IF spc'[t] = "count" THEN stream_counter[t] + 1 ELSE stream_counter[t]
               /\ lastReset[t].clean /\ spc'[t] = "count" => number'[t] = stream_counter[t] + 1
               /\ spc'[t] \in {"count", "begin", "write"} /\ since'[t].reset.clean =>
                    number'[t] = received'[t] - since'[t].reset.images
    <3>1. CASE t = s
      BY <2>2, <2>3, <3>1
    <3>2. CASE t # s
      BY <2>2, <3>2 DEF RestartInv
    <3> QED
      BY <3>1, <3>2
  <2> QED
    BY <2>1, <2>4 DEF RestartInv
<1>3. ASSUME NEW s \in Streams, Count(s) PROVE RestartInv'
  <2>1. UNCHANGED <<lastReset, files, since, number, received>>
    BY <1>3 DEF Count, diskvars
  <2>2. ASSUME NEW t \in Streams
        PROVE  IF t = s
               THEN stream_counter'[t] = number[t] /\ spc[t] = "count" /\ spc'[t] = "begin"
               ELSE stream_counter'[t] = stream_counter[t] /\ spc'[t] = spc[t]
    BY <1>3 DEF Count, TypeOK
  <2>3. ASSUME NEW t \in Streams
        PROVE  /\ lastReset[t].clean =>
                    received[t] - lastReset[t].images =
                      IF spc'[t] = "count" THEN stream_counter'[t] + 1 ELSE stream_counter'[t]
               /\ lastReset[t].clean /\ spc'[t] = "count" => number[t] = stream_counter'[t] + 1
               /\ spc'[t] \in {"count", "begin", "write"} /\ since[t].reset.clean =>
                    number[t] = received[t] - since[t].reset.images
    BY <2>2 DEF RestartInv
  <2> QED
    BY <2>1, <2>3 DEF RestartInv
<1>4. ASSUME NEW s \in Streams, Write(s) PROVE RestartInv'
  <2>1. UNCHANGED <<lastReset, stream_counter, since, number, received>> /\ spc[s] = "write"
    BY <1>4, WriteChanges DEF countvars
  <2>2. ASSUME NEW t \in Streams
        PROVE  spc'[t] = spc[t] \/ (spc[t] = "write" /\ spc'[t] = "recv")
    <3>1. CASE spc' = spc
      BY <3>1
    <3>2. CASE spc' = [spc EXCEPT ![s] = "recv"]
      BY <2>1, <3>2 DEF TypeOK
    <3> QED
      BY <1>4, <3>1, <3>2, WriteChanges
  <2>3. ASSUME NEW f \in files', f.since.reset.clean
        PROVE  f.number = f.image - f.since.reset.images
    <3>1. \/ f \in files
          \/ f.number = number[s] /\ f.image = received[s] /\ f.since = since[s]
      BY <1>4, <2>3, WriteChanges DEF FileIn
    <3> QED
      BY <2>1, <2>3, <3>1 DEF RestartInv
  <2>4. ASSUME NEW t \in Streams
        PROVE  /\ lastReset[t].clean =>
                    received[t] - lastReset[t].images =
                      IF spc'[t] = "count" THEN stream_counter[t] + 1 ELSE stream_counter[t]
               /\ lastReset[t].clean /\ spc'[t] = "count" => number[t] = stream_counter[t] + 1
               /\ spc'[t] \in {"count", "begin", "write"} /\ since[t].reset.clean =>
                    number[t] = received[t] - since[t].reset.images
    BY <2>2 DEF RestartInv
  <2> QED
    BY <2>1, <2>3, <2>4 DEF RestartInv
<1>5. ASSUME NEW s \in Streams, Stored(s) \/ StreamReturns(s) PROVE RestartInv'
  <2>1. UNCHANGED <<lastReset, stream_counter, since, number, received, files>>
    BY <1>5 DEF Stored, StreamReturns, countvars, diskvars
  <2>2. ASSUME NEW t \in Streams
        PROVE  spc'[t] = spc[t] \/ (spc[t] # "count" /\ spc'[t] \in {"recv", "done"})
    <3>1. CASE Stored(s)
      BY <3>1 DEF Stored, TypeOK
    <3>2. CASE StreamReturns(s)
      BY <3>2 DEF StreamReturns, TypeOK
    <3> QED
      BY <1>5, <3>1, <3>2
  <2> QED
    BY <2>1, <2>2 DEF RestartInv
<1>7. ASSUME NEW s \in Streams, Begin(s) PROVE RestartInv'
  <2>1. UNCHANGED <<lastReset, stream_counter, since, number, received, files>>
    BY <1>7 DEF Begin, countvars, diskvars
  <2>2. ASSUME NEW t \in Streams
        PROVE  IF t = s THEN spc[t] = "begin" /\ spc'[t] = "write" ELSE spc'[t] = spc[t]
    BY <1>7 DEF Begin, TypeOK
  <2> QED
    BY <2>1, <2>2 DEF RestartInv
<1>6. CASE ~\E s \in Streams : \/ ResetCounter(s) \/ Receive(s) \/ Count(s) \/ Begin(s)
                               \/ Write(s) \/ Stored(s) \/ StreamReturns(s)
  <2>1. UNCHANGED <<lastReset, stream_counter, since, number, received, files, spc>>
    BY <1>6 DEF Next, Dispatch, Instruction, Malformed, VisitTarget, TargetsVisited, DispatchReturns, Stream,
                Crash, OnClose, DispatchDies, Disk, TargetFails, TargetRecovers, vars, diskvars, countvars, streamvars
  <2> QED
    BY <2>1 DEF RestartInv
<1> QED
  BY <1>1, <1>2, <1>3, <1>4, <1>5, <1>6, <1>7

\* The n-th image after a clean reset is file number n of its material, for any
\* streams, targets and instructions, whatever becomes of the files in between.
THEOREM NumbersRestart == Spec => []NumberingRestarts
<1>1. Init => RestartInv
  <2> SUFFICES ASSUME Init PROVE RestartInv
    OBVIOUS
  <2>1. /\ files = {}
        /\ \A s \in Streams : /\ spc[s] = "recv" /\ received[s] = 0 /\ stream_counter[s] = 0
                               /\ lastReset[s].images = 0
    BY DEF Init, NeverReset
  <2> QED
    BY <2>1 DEF RestartInv
<1>2. TypeOK /\ RestartInv /\ [Next]_vars => RestartInv'
  BY RestartStep
<1>3. RestartInv => NumberingRestarts
  BY DEF RestartInv, NumberingRestarts
<1> QED
  BY <1>1, <1>2, <1>3, TypeInvariant, PTL DEF Spec
-----------------------------------------------------------------------------
\* What a pass of the loop does while the vector is as it was and no target failed.
LEMMA PassStores ==
  ASSUME TypeOK, CopiesInv, NEW s \in Streams, Write(s), view[s].version = version, faults = 0
  PROVE  /\ at[s] \in 1 .. Len(backup_dir_path)
         /\ files' = files \cup {FileIn(backup_dir_path[at[s]], s)}
         /\ spc' = spc /\ at' = [at EXCEPT ![s] = at[s] + 1]
<1>1. view[s].paths = backup_dir_path /\ down = {}
  BY WriteChanges DEF CopiesInv
<1>2. at[s] \in 1 .. Len(backup_dir_path)
  <2>1. at[s] \in Nat \ {0}
    BY DEF TypeOK
  <2> QED
    BY <1>1, <2>1, WriteChanges, Vectors
<1>3. Dereferenced(s) = {backup_dir_path[at[s]]}
  BY <1>1 DEF Dereferenced
<1>4. backup_dir_path[at[s]] # Garbage
  BY <1>2, Vectors, ElementOfSeq, GarbageAssumption DEF GarbageAssumption
<1>5. /\ files' = files \cup {FileIn(backup_dir_path[at[s]], s)}
      /\ spc' = spc /\ at' = [at EXCEPT ![s] = at[s] + 1]
  BY <1>1, <1>3, <1>4 DEF Write, FileIn
<1> QED
  BY <1>2, <1>5

\* One step: the copies a loop has stored.
LEMMA CopiesStep ==
  ASSUME TypeOK, CopiesInv, [Next]_vars PROVE CopiesInv'
<1>1. version \in Nat /\ \A s \in Streams : view[s].version \in Nat /\ at[s] \in Nat \ {0}
  BY DEF TypeOK
<1>2. CASE version' # version
  <2>1. version' = version + 1 /\ UNCHANGED <<down, faults, streamvars>>
    <3>1. Dispatch
      BY <1>2 DEF Next, Stream, Receive, Count, Begin, Write, Stored, StreamReturns, Crash, OnClose, DispatchDies, Disk,
                  TargetFails, TargetRecovers, vars, dispatchvars
    <3> QED
      BY <1>2, <3>1 DEF Dispatch, Instruction, Malformed, VisitTarget, TargetsVisited, ResetCounter,
                        DispatchReturns, diskvars
  <2>2. \A s \in Streams : view'[s].version <= version' /\ view'[s].version # version'
    BY <1>1, <2>1 DEF CopiesInv, streamvars
  <2> QED
    BY <2>1, <2>2 DEF CopiesInv
<1>3. CASE Dispatch /\ version' = version
  <2>1. UNCHANGED <<down, faults, files, streamvars>>
    BY <1>3 DEF Dispatch, Instruction, Malformed, VisitTarget, TargetsVisited, ResetCounter, DispatchReturns,
                diskvars
  <2>2. backup_dir_path' = backup_dir_path
    BY <1>1, <1>3 DEF Dispatch, Instruction, Malformed, VisitTarget, TargetsVisited, ResetCounter, DispatchReturns
  <2> QED
    BY <1>3, <2>1, <2>2 DEF CopiesInv, streamvars
<1>4. ASSUME NEW s \in Streams, Receive(s) PROVE CopiesInv'
  <2>1. UNCHANGED <<backup_dir_path, version, view, at, down, faults, files>>
    BY <1>4 DEF Receive, dispatchvars, diskvars
  <2>2. ASSUME NEW t \in Streams, spc'[t] = "write"
        PROVE  spc[t] = "write" /\ received'[t] = received[t]
    BY <1>4, <2>2 DEF Receive, TypeOK
  <2> QED
    BY <2>1, <2>2 DEF CopiesInv
<1>5. ASSUME NEW s \in Streams, Begin(s) PROVE CopiesInv'
  <2>1. UNCHANGED <<backup_dir_path, version, received, down, faults, files>>
    BY <1>5 DEF Begin, dispatchvars, diskvars
  <2>2. ASSUME NEW t \in Streams
        PROVE  IF t = s
               THEN view'[t].paths = backup_dir_path /\ view'[t].version = version /\ at'[t] = 1
               ELSE view'[t] = view[t] /\ at'[t] = at[t] /\ spc'[t] = spc[t]
    BY <1>5 DEF Begin, TypeOK
  <2>3. \A i \in 1 .. Len(backup_dir_path) : ~(i < 1)
    OBVIOUS
  <2>4. ASSUME NEW t \in Streams
        PROVE  /\ view'[t].version <= version
               /\ spc'[t] = "write" /\ view'[t].version = version =>
                    /\ view'[t].paths = backup_dir_path
                    /\ faults = 0 =>
                         \A i \in 1 .. Len(backup_dir_path) : i < at'[t] =>
                           \E f \in files : /\ f.dir = backup_dir_path[i]
                                            /\ f.stream = t /\ f.image = received[t]
    <3>1. CASE t = s
      BY <1>1, <2>2, <2>3, <3>1
    <3>2. CASE t # s
      BY <2>2, <3>2 DEF CopiesInv
    <3> QED
      BY <3>1, <3>2
  <2> QED
    BY <2>1, <2>4 DEF CopiesInv
<1>6. ASSUME NEW s \in Streams, Write(s) PROVE CopiesInv'
  <2>1. UNCHANGED <<backup_dir_path, version, view, received, down, faults>>
    BY <1>6, WriteChanges DEF dispatchvars
  <2>2. files \subseteq files' /\ spc[s] = "write"
    BY <1>6, WriteChanges
  <2>3. ASSUME NEW t \in Streams
        PROVE  /\ spc'[t] = "write" => spc[t] = "write"
               /\ t # s => at'[t] = at[t]
    <3>1. spc' = spc \/ spc' = [spc EXCEPT ![s] = "recv"]
      BY <1>6, WriteChanges
    <3>2. at' = at \/ at' = [at EXCEPT ![s] = at[s] + 1]
      BY <1>6, WriteChanges
    <3> QED
      BY <3>1, <3>2 DEF TypeOK
  <2>4. ASSUME view[s].version = version, faults = 0,
               NEW i \in 1 .. Len(backup_dir_path), i < at'[s]
        PROVE  \E f \in files' : f.dir = backup_dir_path[i] /\ f.stream = s /\ f.image = received[s]
    <3>1. at'[s] = at[s] + 1 /\ files' = files \cup {FileIn(backup_dir_path[at[s]], s)}
      BY <1>6, <2>4, PassStores DEF TypeOK
    <3>2. CASE i = at[s]
      <4> DEFINE f == FileIn(backup_dir_path[at[s]], s)
      <4>1. f \in files'
        BY <3>1
      <4>2. f.dir = backup_dir_path[i] /\ f.stream = s /\ f.image = received[s]
        BY <3>2 DEF FileIn
      <4> QED
        BY <4>1, <4>2
    <3>3. CASE i < at[s]
      BY <2>2, <2>4, <3>1, <3>3 DEF CopiesInv
    <3> QED
      BY <1>1, <2>4, <3>1, <3>2, <3>3
  <2>5. ASSUME NEW t \in Streams, spc'[t] = "write", view[t].version = version, faults = 0,
               NEW i \in 1 .. Len(backup_dir_path), i < at'[t]
        PROVE  \E f \in files' : f.dir = backup_dir_path[i] /\ f.stream = t /\ f.image = received[t]
    <3>1. CASE t = s
      BY <2>4, <2>5, <3>1
    <3>2. CASE t # s
      BY <2>2, <2>3, <2>5, <3>2 DEF CopiesInv
    <3> QED
      BY <3>1, <3>2
  <2> QED
    BY <2>1, <2>3, <2>5 DEF CopiesInv
<1>7. ASSUME NEW s \in Streams, Count(s) \/ Stored(s) \/ StreamReturns(s) PROVE CopiesInv'
  <2>1. UNCHANGED <<backup_dir_path, version, view, at, received, down, faults, files>>
    BY <1>7 DEF Count, Stored, StreamReturns, dispatchvars, diskvars
  <2>2. ASSUME NEW t \in Streams, spc'[t] = "write" PROVE spc[t] = "write"
    <3>1. \/ spc' = [spc EXCEPT ![s] = "recv"] \/ spc' = [spc EXCEPT ![s] = "done"]
          \/ spc' = [spc EXCEPT ![s] = "begin"]
      BY <1>7 DEF Count, Stored, StreamReturns
    <3> QED
      BY <2>2, <3>1 DEF TypeOK
  <2> QED
    BY <2>1, <2>2 DEF CopiesInv
<1>8. CASE Disk
  <2>1. UNCHANGED <<backup_dir_path, version, streamvars, files>>
    BY <1>8 DEF Disk, TargetFails, TargetRecovers, dispatchvars
  <2>2. ASSUME faults' = 0 PROVE faults = 0 /\ down' = {}
    <3>1. faults \in Nat
      BY StackerAssumption DEF StackerAssumption, TypeOK
    <3>2. ASSUME NEW t \in Targets, TargetRecovers(t) PROVE faults = 0 /\ down' = {}
      BY <2>2, <3>2 DEF TargetRecovers, CopiesInv
    <3>3. ASSUME NEW t \in Targets, TargetFails(t) PROVE FALSE
      BY <2>2, <3>1, <3>3 DEF TargetFails
    <3> QED
      BY <1>8, <3>2, <3>3 DEF Disk
  <2> QED
    BY <2>1, <2>2 DEF CopiesInv, streamvars
<1>9. CASE OnClose \/ DispatchDies \/ UNCHANGED vars \/ \E s \in Streams : Crash(s)
  <2>1. UNCHANGED <<backup_dir_path, version, streamvars, files, down, faults>>
    BY <1>9 DEF OnClose, DispatchDies, Crash, vars, dispatchvars, diskvars
  <2> QED
    BY <2>1 DEF CopiesInv, streamvars
<1> QED
  BY <1>2, <1>3, <1>4, <1>5, <1>6, <1>7, <1>8, <1>9 DEF Next, Stream

\* The loop ends past the last directory, while the vector is as it was and no
\* target failed.
LEMMA LoopEnds ==
  ASSUME TypeOK, CopiesInv, Next, NEW s \in Streams, spc[s] = "write", spc'[s] # "write",
         view[s].version = version, faults = 0
  PROVE  at[s] > Len(backup_dir_path) /\ files' = files
<1>1. \E t \in Streams : Stream(t)
  BY DEF Next, Dispatch, Instruction, Malformed, VisitTarget, TargetsVisited, ResetCounter, DispatchReturns,
         OnClose, DispatchDies, Disk, TargetFails, TargetRecovers, streamvars, vars
<1>2. Stream(s)
  <2>1. ASSUME NEW t \in Streams, Stream(t), t # s PROVE FALSE
    BY <2>1, WriteChanges DEF Stream, Receive, Count, Begin, Crash, Stored, StreamReturns, streamvars, TypeOK
  <2> QED
    BY <1>1, <2>1
<1>3. Stored(s)
  <2>1. ~Write(s)
    BY PassStores
  <2>2. ~Receive(s) /\ ~Count(s) /\ ~Begin(s) /\ ~Crash(s) /\ ~StreamReturns(s)
    BY DEF Receive, Count, Begin, Crash, StreamReturns
  <2> QED
    BY <1>2, <2>1, <2>2 DEF Stream
<1>4. at[s] > Len(backup_dir_path) /\ files' = files
  BY <1>3 DEF Stored, CopiesInv, diskvars
<1> QED
  BY <1>4

\* Without failures of targets, a loop that ends with the vector as it was when it
\* began has stored the image under every directory of it.
THEOREM EveryTargetHasItsCopy == Spec => EveryCopyMade
<1>1. Init => CopiesInv
  BY DEF Init, CopiesInv
<1>2. TypeOK /\ CopiesInv /\ [Next]_vars => CopiesInv'
  BY CopiesStep
<1>3. TypeOK /\ CopiesInv /\ [Next]_vars =>
        [\A s \in Streams :
           /\ spc[s] = "write" /\ spc'[s] # "write"
           /\ view[s].version = version /\ faults = 0
           => \A d \in Range(backup_dir_path) :
                \E f \in files' : f.dir = d /\ f.stream = s /\ f.image = received[s]]_vars
  <2> SUFFICES ASSUME TypeOK, CopiesInv, Next, NEW s \in Streams, spc[s] = "write", spc'[s] # "write",
                      view[s].version = version, faults = 0, NEW d \in Range(backup_dir_path)
               PROVE  \E f \in files' : f.dir = d /\ f.stream = s /\ f.image = received[s]
    BY DEF vars, streamvars
  <2>1. at[s] > Len(backup_dir_path) /\ files' = files
    BY LoopEnds
  <2>2. PICK i \in 1 .. Len(backup_dir_path) : d = backup_dir_path[i]
    BY Vectors, LenProperties DEF Range
  <2>3. i < at[s]
    BY <2>1, <2>2, Vectors DEF TypeOK
  <2> QED
    BY <2>1, <2>2, <2>3 DEF CopiesInv
<1> QED
  BY <1>1, <1>2, <1>3, TypeInvariant, PTL DEF Spec, EveryCopyMade
-----------------------------------------------------------------------------
(***************************************************************************)
(* What the dispatch thread has on disk.  The vector holds this            *)
(* instruction's directories, all of them; without failures an instruction *)
(* finds its name on disk under every target or under none, so that it     *)
(* makes all its directories or none.                                      *)
(***************************************************************************)
Made(t) == [target |-> t, name |-> dname, epoch |-> epoch]

DiskInv ==
  /\ \A d \in exists : d.epoch <= epoch
  /\ dpc # "targets" => dleft = <<>>
  /\ \A d \in exists : d.epoch = epoch => d \in Range(backup_dir_path)
  /\ \A d \in Range(backup_dir_path) : d.name = dname /\ d.epoch = epoch
  /\ faults = 0 =>
       /\ \A d \in exists : d.epoch < epoch => \A t \in Targets : OnDisk(t, d.name)
       /\ dname # NoName => \A t \in Targets : t \in Range(dleft) \/ OnDisk(t, dname)
       /\ Repeated => backup_dir_path = <<>>
       /\ ~Repeated => \A t \in Targets : t \in Range(dleft) \/ Made(t) \in Range(backup_dir_path)

(***************************************************************************)
(* An image has been stored only if it was received, and the copies an     *)
(* undisturbed loop has made so far are in the directories of the vector.  *)
(***************************************************************************)
FilesInv ==
  \A f \in files :
    /\ f.image <= received[f.stream]
    /\ spc[f.stream] \in {"count", "begin"} => f.image < received[f.stream]
    /\ /\ spc[f.stream] = "write" /\ view[f.stream].version = version
       /\ f.image = received[f.stream]
       => f.dir \in Range(backup_dir_path)

\* The empty sequence has no elements.
LEMMA NoElements == Range(<<>>) = {}
  BY DEF Range

\* Elements of a sequence, of one that has grown and of one that has lost its head.
LEMMA Elements ==
  ASSUME NEW S, NEW q \in Seq(S)
  PROVE  /\ \A e \in S : Range(Append(q, e)) = Range(q) \cup {e}
         /\ q # <<>> => Range(q) = {Head(q)} \cup Range(Tail(q))
<1>1. ASSUME NEW r \in Seq(S) PROVE \A x : x \in Range(r) <=> \E i \in 1 .. Len(r) : x = r[i]
  <2>1. DOMAIN r = 1 .. Len(r)
    BY LenProperties
  <2> QED
    BY <2>1 DEF Range
<1>2. Len(q) \in Nat
  BY LenProperties
<1>3. ASSUME NEW e \in S PROVE Range(Append(q, e)) = Range(q) \cup {e}
  <2>1. /\ Append(q, e) \in Seq(S) /\ Len(Append(q, e)) = Len(q) + 1
        /\ \A i \in 1 .. Len(q) : Append(q, e)[i] = q[i]
        /\ Append(q, e)[Len(q) + 1] = e
    BY AppendProperties
  <2> DEFINE r == Append(q, e)
  <2>2. \A x : x \in Range(r) <=> \E i \in 1 .. Len(r) : x = r[i]
    BY <1>1, <2>1
  <2> HIDE DEF r
  <2>3. \A x : x \in Range(q) <=> \E i \in 1 .. Len(q) : x = q[i]
    BY <1>1
  <2>4. \A i \in 1 .. Len(q) : i \in 1 .. Len(r) /\ r[i] = q[i]
    BY <1>2, <2>1 DEF r
  <2>5. Len(r) \in 1 .. Len(r) /\ r[Len(r)] = e
    BY <1>2, <2>1 DEF r
  <2>6. \A i \in 1 .. Len(r) : i \in 1 .. Len(q) \/ i = Len(r)
    BY <1>2, <2>1 DEF r
  <2>7. \A x : x \in Range(r) <=> x \in Range(q) \/ x = e
    BY <2>2, <2>3, <2>4, <2>5, <2>6
  <2> QED
    BY <2>7 DEF r
<1>4. ASSUME q # <<>> PROVE Range(q) = {Head(q)} \cup Range(Tail(q))
  <2>1. /\ Tail(q) \in Seq(S) /\ Len(Tail(q)) = Len(q) - 1
        /\ \A i \in 1 .. Len(Tail(q)) : Tail(q)[i] = q[i + 1]
        /\ Head(q) = q[1] /\ Len(q) > 0
    BY <1>2, <1>4, HeadTailProperties, EmptySeq
  <2>2. ASSUME NEW i \in 1 .. Len(q) PROVE q[i] = Head(q) \/ q[i] \in Range(Tail(q))
    <3>1. CASE i = 1
      BY <2>1, <3>1
    <3>2. CASE i # 1
      <4>1. i - 1 \in 1 .. Len(Tail(q)) /\ (i - 1) + 1 = i
        BY <1>2, <2>1, <3>2
      <4>2. Tail(q)[i - 1] = q[i]
        BY <2>1, <4>1
      <4> QED
        BY <1>1, <2>1, <4>1, <4>2
    <3> QED
      BY <3>1, <3>2
  <2>3. ASSUME NEW i \in 1 .. Len(Tail(q)) PROVE Tail(q)[i] \in Range(q)
    <3>1. i + 1 \in 1 .. Len(q)
      BY <1>2, <2>1
    <3> QED
      BY <1>1, <2>1, <3>1
  <2>4. Head(q) \in Range(q)
    BY <1>1, <1>2, <2>1
  <2> DEFINE r == Tail(q)
  <2>5. \A x : x \in Range(r) <=> \E i \in 1 .. Len(r) : x = r[i]
    BY <1>1, <2>1
  <2> HIDE DEF r
  <2>6. \A x : x \in Range(q) <=> \E i \in 1 .. Len(q) : x = q[i]
    BY <1>1
  <2>7. \A x \in Range(q) : x = Head(q) \/ x \in Range(r)
    BY <2>2, <2>6 DEF r
  <2>8. \A x \in Range(r) : x \in Range(q)
    BY <2>3, <2>5 DEF r
  <2> QED
    BY <2>4, <2>7, <2>8 DEF r
<1> QED
  BY <1>3, <1>4

\* An instruction arrives: the directories there are now of earlier ones, and
\* those of the last are under every target.
LEMMA InstructionDisk ==
  ASSUME TypeOK, DiskInv, (\E n \in Names : Instruction(n)) \/ Malformed PROVE DiskInv'
<1>1. /\ dpc = "recv" /\ epoch' = epoch + 1 /\ backup_dir_path' = <<>>
      /\ UNCHANGED <<exists, faults>>
  BY DEF Instruction, Malformed, diskvars
<1>2. /\ epoch \in Nat /\ \A d \in exists : d.epoch \in Nat /\ d.name \in Names
  <2>1. \A d \in Directories : d.epoch \in Nat /\ d.name \in Names
    BY DEF Directories
  <2> QED
    BY <2>1, Epochs DEF TypeOK
<1>3. Range(backup_dir_path') = {}
  BY <1>1, NoElements
<1>4. \A d \in exists' : d.epoch < epoch'
  BY <1>1, <1>2 DEF DiskInv
<1>5. dleft = <<>>
  BY <1>1 DEF DiskInv
<1>6. \/ dpc' = "targets" /\ dleft' = TargetPath
      \/ dpc' # "targets" /\ dleft' = <<>> /\ dname' = NoName
  BY <1>5 DEF Instruction, Malformed
<1>7. \A t, n : OnDisk(t, n)' <=> OnDisk(t, n)
  BY <1>1 DEF OnDisk
<1>8. ASSUME faults = 0, NEW d \in exists, NEW t \in Targets PROVE OnDisk(t, d.name)
  <2>1. CASE d.epoch < epoch
    BY <1>8, <2>1 DEF DiskInv
  <2>2. CASE d.epoch = epoch
    <3>1. d.name = dname /\ dname # NoName
      BY <1>2, <2>2, StackerAssumption DEF DiskInv, StackerAssumption
    <3>2. t \notin Range(dleft)
      BY <1>5, NoElements
    <3> QED
      BY <1>8, <3>1, <3>2 DEF DiskInv
  <2> QED
    BY <1>2, <2>1, <2>2 DEF DiskInv
<1>9. dname' # NoName => \A t \in Targets : t \in Range(dleft')
  BY <1>6 DEF Targets
<1>10. ~Repeated' => dname' # NoName
  BY DEF Repeated
<1>11. \A d \in exists' : d.epoch # epoch' /\ d.epoch <= epoch'
  BY <1>1, <1>2, <1>4
<1>12. faults' = 0 => \A d \in exists' : \A t \in Targets : OnDisk(t, d.name)'
  BY <1>1, <1>7, <1>8
<1> QED
  BY <1>1, <1>3, <1>6, <1>9, <1>10, <1>11, <1>12 DEF DiskInv

\* A target is visited: its directory is made, or was there under every target.
LEMMA VisitDisk ==
  ASSUME TypeOK, CopiesInv, DiskInv, VisitTarget PROVE DiskInv'
<1> DEFINE d == Made(Head(dleft))
<1>1. /\ dpc = "targets" /\ dleft # <<>> /\ dleft' = Tail(dleft)
      /\ UNCHANGED <<epoch, dpc, dname, faults>>
  BY DEF VisitTarget
<1>2. dname \in Names /\ epoch \in Nat
  BY <1>1, Epochs DEF TypeOK
<1>3. dname # NoName
  BY <1>2, StackerAssumption DEF StackerAssumption
<1>4. Head(dleft) \in Targets /\ Range(dleft) = {Head(dleft)} \cup Range(dleft')
  BY <1>1, HeadAndTail, Elements DEF TypeOK
<1>5. d.target = Head(dleft) /\ d.name = dname /\ d.epoch = epoch
  BY DEF Made
<1>6. d \in Directories
  BY <1>1, <1>2, <1>4 DEF Made, Directories, TypeOK
<1>7. \A e \in exists : e \in Directories /\ e.epoch \in Nat
  BY DEF TypeOK, Directories
<1>8. CASE exists' = exists /\ backup_dir_path' = backup_dir_path
           /\ (faults = 0 => OnDisk(Head(dleft), dname))
  <2>1. \A t, n : OnDisk(t, n)' <=> OnDisk(t, n)
    BY <1>8 DEF OnDisk
  <2>2. Repeated' <=> Repeated
    BY <1>1, <1>8 DEF Repeated
  <2>3. ASSUME faults = 0, ~Repeated PROVE d \in Range(backup_dir_path)
    <3>1. PICK e \in exists : e.target = Head(dleft) /\ e.name = dname
      BY <1>8, <2>3 DEF OnDisk
    <3>2. e.epoch = epoch
      BY <1>2, <1>7, <2>3, <3>1 DEF Repeated, DiskInv
    <3>3. e = d
      BY <1>7, <3>1, <3>2 DEF Made, Directories
    <3> QED
      BY <3>2, <3>3 DEF DiskInv
  <2>4. \A t : Made(t)' = Made(t)
    BY <1>1 DEF Made
  <2>5. ASSUME faults = 0, NEW t \in Targets
        PROVE  /\ t \in Range(dleft') \/ OnDisk(t, dname)
               /\ ~Repeated => t \in Range(dleft') \/ Made(t) \in Range(backup_dir_path)
    BY <1>3, <1>4, <1>8, <2>3, <2>5 DEF DiskInv
  <2>6. faults = 0 => /\ \A e \in exists : e.epoch < epoch => \A t \in Targets : OnDisk(t, e.name)
                      /\ Repeated => backup_dir_path = <<>>
    BY DEF DiskInv
  <2>7. /\ \A e \in exists : e.epoch <= epoch
        /\ \A e \in exists : e.epoch = epoch => e \in Range(backup_dir_path)
        /\ \A e \in Range(backup_dir_path) : e.name = dname /\ e.epoch = epoch
    BY DEF DiskInv
  <2> HIDE DEF d
  <2> QED
    BY <1>1, <1>8, <2>1, <2>2, <2>4, <2>5, <2>6, <2>7 DEF DiskInv
<1>9. CASE /\ exists' = exists \cup {d} /\ backup_dir_path' = Append(backup_dir_path, d)
           /\ ~OnDisk(Head(dleft), dname)
  <2>1. Range(backup_dir_path') = Range(backup_dir_path) \cup {d}
    <3> HIDE DEF d
    <3> QED
      BY <1>6, <1>9, Elements, Vectors
  <2>2. \A t, n : OnDisk(t, n)' <=> OnDisk(t, n) \/ (t = Head(dleft) /\ n = dname)
    BY <1>5, <1>9 DEF OnDisk
  <2>3. Repeated' <=> Repeated
    BY <1>1, <1>2, <1>5, <1>9 DEF Repeated
  <2>4. ~(faults = 0 /\ Repeated)
    BY <1>3, <1>4, <1>9 DEF Repeated, DiskInv
  <2>5. \A t : Made(t)' = Made(t)
    BY <1>1 DEF Made
  <2>10. \A t : OnDisk(t, dname)' <=> OnDisk(t, dname) \/ t = Head(dleft)
    BY <1>1, <1>5, <1>9 DEF OnDisk
  <2>6. ASSUME faults = 0, NEW t \in Targets
        PROVE  /\ t \in Range(dleft') \/ OnDisk(t, dname)'
               /\ ~Repeated => t \in Range(dleft') \/ Made(t) \in Range(backup_dir_path')
    <3>1. CASE t = Head(dleft)
      <4>1. Made(t) = d
        BY <3>1
      <4> HIDE DEF d
      <4> QED
        BY <2>1, <2>10, <3>1, <4>1
    <3>2. CASE t # Head(dleft)
      <4>1. t \in Range(dleft) => t \in Range(dleft')
        BY <1>4, <3>2
      <4>2. t \in Range(dleft) \/ OnDisk(t, dname)
        BY <1>3, <2>6 DEF DiskInv
      <4>3. ~Repeated => t \in Range(dleft) \/ Made(t) \in Range(backup_dir_path)
        BY <2>6 DEF DiskInv
      <4> HIDE DEF d
      <4> QED
        BY <2>1, <2>10, <4>1, <4>2, <4>3
    <3> QED
      BY <3>1, <3>2
  <2>7. ASSUME faults = 0, NEW e \in exists', e.epoch < epoch, NEW t \in Targets
        PROVE  OnDisk(t, e.name)'
    <3>1. e \in exists
      BY <1>2, <1>5, <1>9, <2>7
    <3> QED
      BY <2>2, <2>7, <3>1 DEF DiskInv
  <2>8. \A e \in exists' : e.epoch <= epoch /\ (e.epoch = epoch => e \in Range(backup_dir_path'))
    BY <1>2, <1>5, <1>9, <2>1 DEF DiskInv
  <2>9. \A e \in Range(backup_dir_path') : e.name = dname /\ e.epoch = epoch
    BY <1>5, <2>1 DEF DiskInv
  <2> HIDE DEF d
  <2> QED
    BY <1>1, <2>3, <2>4, <2>5, <2>6, <2>7, <2>8, <2>9 DEF DiskInv
<1> QED
  <2>1. faults = 0 => down = {}
    BY DEF CopiesInv
  <2>2. \/ /\ exists' = exists /\ backup_dir_path' = backup_dir_path
           /\ Head(dleft) \in down \/ OnDisk(Head(dleft), dname)
        \/ /\ exists' = exists \cup {d} /\ backup_dir_path' = Append(backup_dir_path, d)
           /\ ~OnDisk(Head(dleft), dname)
    BY DEF VisitTarget, Made
  <2> QED
    BY <1>8, <1>9, <2>1, <2>2

\* One step: the directories; all but an instruction and a visit leave them alone.
LEMMA DiskStep ==
  ASSUME TypeOK, CopiesInv, DiskInv, [Next]_vars PROVE DiskInv'
<1>1. CASE (\E n \in Names : Instruction(n)) \/ Malformed
  BY <1>1, InstructionDisk
<1>2. CASE VisitTarget
  BY <1>2, VisitDisk
<1>3. CASE ~((\E n \in Names : Instruction(n)) \/ Malformed \/ VisitTarget)
  <2>1. UNCHANGED <<backup_dir_path, epoch, dname, dleft, exists>>
    BY <1>3 DEF Next, Dispatch, TargetsVisited, ResetCounter, DispatchReturns, OnClose, DispatchDies,
                Disk, TargetFails, TargetRecovers, Stream, Receive, Count, Begin, Write, Crash, Stored,
                StreamReturns, diskvars, dispatchvars, vars
  <2>2. dpc' # "targets" => dpc # "targets" \/ dleft = <<>>
    BY <1>3 DEF Next, Dispatch, TargetsVisited, ResetCounter, DispatchReturns, OnClose, DispatchDies,
                Disk, TargetFails, TargetRecovers, Stream, Receive, Count, Begin, Write, Crash, Stored,
                StreamReturns, diskvars, dispatchvars, vars
  <2>3. faults' = 0 => faults = 0
    <3>1. faults \in Nat
      BY StackerAssumption DEF StackerAssumption, TypeOK
    <3>2. faults' = faults \/ faults' = faults + 1
      BY <1>3 DEF Next, Dispatch, TargetsVisited, ResetCounter, DispatchReturns, OnClose, DispatchDies,
                  Disk, TargetFails, TargetRecovers, Stream, Receive, Count, Begin, Write, Crash, Stored,
                  StreamReturns, diskvars, vars
    <3> QED
      BY <3>1, <3>2
  <2>4. /\ \A t, n : OnDisk(t, n)' <=> OnDisk(t, n)
        /\ Repeated' <=> Repeated
        /\ \A t : Made(t)' = Made(t)
    BY <2>1 DEF OnDisk, Repeated, Made
  <2> QED
    BY <2>1, <2>2, <2>3, <2>4 DEF DiskInv
<1> QED
  BY <1>1, <1>2, <1>3

\* One step: what has been stored.
LEMMA FilesStep ==
  ASSUME TypeOK, CopiesInv, FilesInv, [Next]_vars PROVE FilesInv'
<1>1. /\ version \in Nat
      /\ \A s \in Streams : view[s].version \in Nat /\ view[s].version <= version
  BY DEF TypeOK, CopiesInv
<1>2. CASE Dispatch
  <2>1. /\ UNCHANGED <<files, streamvars>>
        /\ version' \in {version, version + 1} /\ (version' = version => backup_dir_path' = backup_dir_path)
    BY <1>1, <1>2 DEF Dispatch, Instruction, Malformed, VisitTarget, TargetsVisited, ResetCounter,
                      DispatchReturns, diskvars
  <2>2. \A s \in Streams : view[s].version = version' => version' = version
    BY <1>1, <2>1
  <2> QED
    BY <2>1, <2>2, Epochs DEF FilesInv, streamvars
<1>3. ASSUME NEW s \in Streams, Receive(s) PROVE FilesInv'
  <2>1. UNCHANGED <<files, view, version, backup_dir_path>>
    BY <1>3 DEF Receive, diskvars, dispatchvars
  <2>2. ASSUME NEW t \in Streams
        PROVE  IF t = s THEN received'[t] = received[t] + 1 /\ spc'[t] = "count"
               ELSE received'[t] = received[t] /\ spc'[t] = spc[t]
    BY <1>3 DEF Receive, TypeOK
  <2>3. ASSUME NEW f \in files
        PROVE  /\ f.image <= received'[f.stream]
               /\ spc'[f.stream] \in {"count", "begin"} => f.image < received'[f.stream]
               /\ /\ spc'[f.stream] = "write" /\ view[f.stream].version = version
                  /\ f.image = received'[f.stream]
                  => f.dir \in Range(backup_dir_path)
    <3>1. CASE f.stream = s
      <4>1. f.image <= received[s] /\ f.image \in Nat /\ received[s] \in Nat
        BY <3>1, Epochs DEF FilesInv
      <4> QED
        BY <2>2, <3>1, <4>1
    <3>2. CASE f.stream # s
      BY <2>2, <3>2, Epochs DEF FilesInv
    <3> QED
      BY <3>1, <3>2
  <2> QED
    BY <2>1, <2>3 DEF FilesInv
<1>4. ASSUME NEW s \in Streams, Count(s) \/ Begin(s) \/ Stored(s) \/ StreamReturns(s) PROVE FilesInv'
  <2>1. UNCHANGED <<files, received, version, backup_dir_path>>
    BY <1>4 DEF Count, Begin, Stored, StreamReturns, diskvars, dispatchvars
  <2>2. ASSUME NEW t \in Streams
        PROVE  \/ view'[t] = view[t] /\ spc'[t] = spc[t]
               \/ spc[t] = "count" /\ spc'[t] = "begin"
               \/ spc[t] = "begin" /\ spc'[t] = "write"
               \/ spc'[t] \in {"recv", "done"}
    BY <1>4 DEF Count, Begin, Stored, StreamReturns, TypeOK
  <2>3. ASSUME NEW f \in files
        PROVE  /\ spc'[f.stream] \in {"count", "begin"} => f.image < received[f.stream]
               /\ /\ spc'[f.stream] = "write" /\ view'[f.stream].version = version
                  /\ f.image = received[f.stream]
                  => f.dir \in Range(backup_dir_path)
    BY <2>2, Epochs DEF FilesInv
  <2> QED
    BY <2>1, <2>3 DEF FilesInv
<1>5. ASSUME NEW s \in Streams, Write(s) PROVE FilesInv'
  <2>1. UNCHANGED <<received, view, version, backup_dir_path>> /\ spc[s] = "write"
    BY <1>5, WriteChanges DEF dispatchvars
  <2>2. ASSUME NEW t \in Streams PROVE spc'[t] = spc[t] \/ spc'[t] = "recv"
    <3>1. spc' = spc \/ spc' = [spc EXCEPT ![s] = "recv"]
      BY <1>5, WriteChanges
    <3> QED
      BY <3>1 DEF TypeOK
  <2>3. ASSUME NEW d \in Dereferenced(s) \ {Garbage}, view[s].version = version
        PROVE  d \in Range(backup_dir_path)
    <3>1. /\ d = view[s].paths[at[s]] /\ view[s].paths = backup_dir_path
          /\ at[s] <= Len(backup_dir_path)
      BY <1>5, <2>1, <2>3, WriteChanges DEF Dereferenced, CopiesInv
    <3>2. at[s] \in DOMAIN backup_dir_path
      BY <3>1, Vectors, LenProperties DEF TypeOK
    <3> QED
      BY <3>1, <3>2 DEF Range
  <2>4. ASSUME NEW f \in files'
        PROVE  /\ f.image <= received[f.stream]
               /\ spc'[f.stream] \in {"count", "begin"} => f.image < received[f.stream]
               /\ /\ spc'[f.stream] = "write" /\ view[f.stream].version = version
                  /\ f.image = received[f.stream]
                  => f.dir \in Range(backup_dir_path)
    <3>1. CASE f \in files
      BY <2>2, <3>1, Epochs DEF FilesInv
    <3>2. ASSUME NEW d \in Dereferenced(s) \ {Garbage}, f = FileIn(d, s)
          PROVE  <2>4!2
      <4>1. f.dir = d /\ f.stream = s /\ f.image = received[s]
        BY <3>2 DEF FileIn
      <4>2. received[s] <= received[s]
        BY Epochs
      <4> QED
        BY <2>1, <2>2, <2>3, <4>1, <4>2
    <3> QED
      BY <1>5, <3>1, <3>2, WriteChanges
  <2> QED
    BY <2>1, <2>4 DEF FilesInv
<1>6. CASE OnClose \/ DispatchDies \/ Disk \/ UNCHANGED vars \/ \E s \in Streams : Crash(s)
  <2>1. UNCHANGED <<backup_dir_path, version, streamvars, files>>
    BY <1>6 DEF OnClose, DispatchDies, Disk, TargetFails, TargetRecovers, Crash, vars, dispatchvars, diskvars
  <2> QED
    BY <2>1 DEF FilesInv, streamvars
<1> QED
  BY <1>2, <1>3, <1>4, <1>5, <1>6 DEF Next, Stream

\* Without failures of targets, an image an undisturbed loop has gone through is
\* under every target, in the last instruction's directory, or, if that one's name
\* was there already, nowhere: for any streams, targets, names and instructions.
THEOREM StoredEverywhereOrNowhere == Spec => StoredUnlessRepeated
<1>1. Init => CopiesInv /\ DiskInv /\ FilesInv
  <2> SUFFICES ASSUME Init PROVE CopiesInv /\ DiskInv /\ FilesInv
    OBVIOUS
  <2>1. CopiesInv
    BY DEF Init, CopiesInv
  <2>2. /\ exists = {} /\ files = {} /\ backup_dir_path = <<>> /\ dleft = <<>> /\ dname = NoName
    BY DEF Init
  <2>3. Repeated /\ Range(backup_dir_path) = {} /\ faults = 0 /\ epoch = 0
    <3>1. faults = 0 /\ epoch = 0
      BY DEF Init
    <3> QED
      BY <2>2, <3>1, NoElements DEF Repeated
  <2> QED
    BY <2>1, <2>2, <2>3 DEF DiskInv, FilesInv
<1>2. TypeOK /\ CopiesInv /\ DiskInv /\ FilesInv /\ [Next]_vars => (CopiesInv /\ DiskInv /\ FilesInv)'
  BY CopiesStep, DiskStep, FilesStep
<1>3. TypeOK /\ CopiesInv /\ DiskInv /\ FilesInv /\ [Next]_vars =>
        [\A s \in Streams :
           /\ spc[s] = "write" /\ spc'[s] # "write"
           /\ view[s].version = version /\ dpc # "targets" /\ faults = 0
           => {f.dir : f \in {g \in files' : g.stream = s /\ g.image = received[s]}}
              = IF Repeated THEN {}
                ELSE {[target |-> t, name |-> dname, epoch |-> epoch] : t \in Targets}]_vars
  <2> SUFFICES ASSUME TypeOK, CopiesInv, DiskInv, FilesInv, Next, NEW s \in Streams,
                      spc[s] = "write", spc'[s] # "write",
                      view[s].version = version, dpc # "targets", faults = 0
               PROVE  {f.dir : f \in {g \in files' : g.stream = s /\ g.image = received[s]}}
                      = IF Repeated THEN {} ELSE {Made(t) : t \in Targets}
    BY DEF vars, streamvars, Made
  <2>1. at[s] > Len(backup_dir_path) /\ files' = files
    BY LoopEnds
  <2> DEFINE dirs == {f.dir : f \in {g \in files' : g.stream = s /\ g.image = received[s]}}
  <2>2. dirs \subseteq Range(backup_dir_path)
    BY <2>1 DEF FilesInv
  <2>3. Range(backup_dir_path) \subseteq dirs
    <3> SUFFICES ASSUME NEW d \in Range(backup_dir_path) PROVE d \in dirs
      OBVIOUS
    <3>1. PICK i \in 1 .. Len(backup_dir_path) : d = backup_dir_path[i]
      BY Vectors, LenProperties DEF Range
    <3>2. i < at[s]
      BY <2>1, <3>1, Vectors DEF TypeOK
    <3>3. PICK f \in files : f.dir = d /\ f.stream = s /\ f.image = received[s]
      BY <3>1, <3>2 DEF CopiesInv
    <3> QED
      BY <2>1, <3>3
  <2>4. CASE Repeated
    <3>1. Range(backup_dir_path) = {}
      BY <2>4, NoElements DEF DiskInv
    <3> HIDE DEF dirs
    <3>2. dirs = {}
      BY <2>2, <3>1
    <3> QED
      BY <2>4, <3>2 DEF dirs
  <2>5. CASE ~Repeated
    <3>1. ASSUME NEW t \in Targets PROVE Made(t) \in Range(backup_dir_path)
      <4>1. Range(dleft) = {}
        BY NoElements DEF DiskInv
      <4> QED
        BY <2>5, <3>1, <4>1 DEF DiskInv
    <3>2. ASSUME NEW d \in Range(backup_dir_path) PROVE \E t \in Targets : d = Made(t)
      <4>1. d \in Directories
        BY Vectors, ElementOfSeq, LenProperties DEF Range
      <4>2. d.name = dname /\ d.epoch = epoch
        BY DEF DiskInv
      <4> QED
        BY <4>1, <4>2 DEF Directories, Made
    <3> HIDE DEF dirs
    <3>3. dirs = {Made(t) : t \in Targets}
      BY <2>2, <2>3, <3>1, <3>2
    <3> QED
      BY <2>5, <3>3 DEF dirs
  <2> QED
    BY <2>4, <2>5
<1> QED
  BY <1>1, <1>2, <1>3, TypeInvariant, PTL DEF Spec, StoredUnlessRepeated
=============================================================================
