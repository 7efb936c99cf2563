---------------------------- MODULE FileStacker ----------------------------
(***************************************************************************)
(* general_file_stacker: one thread per camera stream stores the images it *)
(* receives as <camera>_<n>.jpg under every directory of _backup_dir_path; *)
(* the dispatch thread replaces those directories, and resets the          *)
(* numbering, when a Level2 instruction arrives.  Nothing synchronises the *)
(* threads: the vector is iterated while it is cleared and refilled, and   *)
(* the counters are incremented while they are reset.                      *)
(*                                                                         *)
(* A directory is a target, a name and the number of the instruction that  *)
(* created it.  An iteration that overlaps a change of the vector reads    *)
(* freed or reused memory: it finds the element that was there, the one    *)
(* that is there now or something that is not a directory, or the process  *)
(* dies.                                                                   *)
(***************************************************************************)
EXTENDS Naturals, Sequences, SequencesExt, FiniteSets

CONSTANTS Streams,      \* the camera streams
          TargetPath,   \* the enabled entries of target_path, in profile order
          Names,        \* directory names: date and normalised standard of a material
          MaxDispatch,  \* bound: instructions received
          MaxImages,    \* bound: images received on a stream
          MaxFaults,    \* bound: times a target becomes unreachable
          NoName, Garbage

ASSUME StackerAssumption == /\ MaxDispatch \in Nat /\ MaxImages \in Nat /\ MaxFaults \in Nat
                            /\ NoName \notin Names
                            /\ TargetPath \in Seq(Range(TargetPath)) /\ IsInjective(TargetPath)

Targets == Range(TargetPath)
Directories == [target : Targets, name : Names, epoch : 1..MaxDispatch]
ASSUME GarbageAssumption == Garbage \notin Directories

VARIABLES backup_dir_path,  \* the vector of directories
          version,          \* counts its changes
          exists,           \* the directories on disk
          stream_counter,   \* _stream_counter
          down,             \* the unreachable targets
          epoch,            \* instructions received so far
          dpc,              \* the dispatch thread: in recv, at the target loop, at the reset loop
          dname,            \* the name made from the instruction, if it had the keys for one
          dleft,            \* targets the target loop has still to visit
          resets,           \* streams the reset loop has still to visit
          spc,              \* each stream thread: in recv, storing ++, before or in the directory loop
          received,         \* images each stream has received
          number,           \* the n of the file being written
          view,             \* the vector and its version at the start of the loop
          at,               \* the loop's position
          since,            \* history: the epoch and the last reset when the image was received
          lastReset,        \* history: the last reset of each counter (see NeverReset)
          files,            \* history: every write: where, which image, under which number
          faults, crashed, stop

diskvars == <<exists, down, files, faults>>
dispatchvars == <<backup_dir_path, version, epoch, dpc, dname, dleft, resets>>
streamvars == <<spc, received, number, view, at, since>>
countvars == <<stream_counter, lastReset>>
vars == <<diskvars, dispatchvars, streamvars, countvars, crashed, stop>>

\* the material a reset was for, the images received before it, and whether one
\* of them was about to be counted
NeverReset == [epoch |-> 0, images |-> 0, clean |-> TRUE]

Init ==
  /\ backup_dir_path = <<>> /\ version = 0
  /\ exists = {} /\ down = {} /\ files = {} /\ faults = 0
  /\ epoch = 0 /\ dpc = "recv" /\ dname = NoName /\ dleft = <<>> /\ resets = {}
  /\ stream_counter = [s \in Streams |-> 0] /\ lastReset = [s \in Streams |-> NeverReset]
  /\ spc = [s \in Streams |-> "recv"]
  /\ received = [s \in Streams |-> 0]
  /\ number = [s \in Streams |-> 0]
  /\ view = [s \in Streams |-> [paths |-> <<>>, version |-> 0]]
  /\ at = [s \in Streams |-> 1]
  /\ since = [s \in Streams |-> [epoch |-> 0, reset |-> NeverReset]]
  /\ crashed = FALSE /\ stop = FALSE
-----------------------------------------------------------------------------
(* _level2_dispatch_task                                                   *)

\* mutant of Instruction: the previous directories stay
InstructionKeepsPaths(name) ==
  /\ dpc = "recv" /\ epoch < MaxDispatch
  /\ epoch' = epoch + 1
  /\ dpc' = "targets" /\ dname' = name /\ dleft' = TargetPath
  /\ UNCHANGED <<backup_dir_path, version, resets, diskvars, streamvars, countvars, crashed, stop>>

Instruction(name) ==
  /\ dpc = "recv" /\ epoch < MaxDispatch
  /\ epoch' = epoch + 1
  /\ backup_dir_path' = <<>>
  /\ version' = version + 1
  /\ dpc' = "targets" /\ dname' = name /\ dleft' = TargetPath
  /\ UNCHANGED <<resets, diskvars, streamvars, countvars, crashed, stop>>

\* an instruction without the keys for a name, or one that is no json: then the thread ends
Malformed ==
  /\ dpc = "recv" /\ epoch < MaxDispatch
  /\ epoch' = epoch + 1
  /\ backup_dir_path' = <<>>
  /\ version' = version + 1
  /\ dpc' \in {"recv", "done"} /\ dname' = NoName
  /\ UNCHANGED <<dleft, resets, diskvars, streamvars, countvars, crashed, stop>>

\* one whose entries have other types: nobody catches the json::type_error
DispatchDies ==
  /\ dpc = "recv" /\ epoch < MaxDispatch
  /\ crashed' = TRUE
  /\ UNCHANGED <<diskvars, dispatchvars, streamvars, countvars, stop>>

OnDisk(t, name) == \E d \in exists : d.target = t /\ d.name = name

\* mutant of VisitTarget: a directory that is there already is used all the same
VisitTargetUnchecked ==
  /\ dpc = "targets" /\ dleft # <<>>
  /\ dleft' = Tail(dleft)
  /\ LET d == [target |-> Head(dleft), name |-> dname, epoch |-> epoch]
     IN  /\ exists' = exists \cup {d}
         /\ backup_dir_path' = Append(backup_dir_path, d)
         /\ version' = version + 1
  /\ UNCHANGED <<epoch, dpc, dname, resets, down, files, faults,
                 streamvars, countvars, crashed, stop>>

\* only a directory that is made now is pushed back; a filesystem error skips the target
VisitTarget ==
  /\ dpc = "targets" /\ dleft # <<>>
  /\ dleft' = Tail(dleft)
  /\ LET d == [target |-> Head(dleft), name |-> dname, epoch |-> epoch]
     IN  IF d.target \in down \/ OnDisk(d.target, dname)
         THEN UNCHANGED <<exists, backup_dir_path, version>>
         ELSE /\ exists' = exists \cup {d}
              /\ backup_dir_path' = Append(backup_dir_path, d)
              /\ version' = version + 1
  /\ UNCHANGED <<epoch, dpc, dname, resets, down, files, faults,
                 streamvars, countvars, crashed, stop>>

TargetsVisited ==
  /\ dpc = "targets" /\ dleft = <<>>
  /\ dpc' = "reset" /\ resets' = Streams
  /\ UNCHANGED <<backup_dir_path, version, epoch, dname, dleft,
                 diskvars, streamvars, countvars, crashed, stop>>

RecordReset(s) ==
  lastReset' = [lastReset EXCEPT ![s] = [epoch |-> epoch, images |-> received[s],
                                         clean |-> spc[s] # "count"]]

\* mutant of ResetCounter: the counter restarts at the number of the first file
ResetCounterAtOne(s) ==
  /\ dpc = "reset" /\ s \in resets
  /\ stream_counter' = [stream_counter EXCEPT ![s] = 1]
  /\ RecordReset(s)
  /\ resets' = resets \ {s}
  /\ dpc' = IF resets = {s} THEN "recv" ELSE "reset"
  /\ UNCHANGED <<backup_dir_path, version, epoch, dname, dleft,
                 diskvars, streamvars, crashed, stop>>

ResetCounter(s) ==
  /\ dpc = "reset" /\ s \in resets
  /\ stream_counter' = [stream_counter EXCEPT ![s] = 0]
  /\ RecordReset(s)
  /\ resets' = resets \ {s}
  /\ dpc' = IF resets = {s} THEN "recv" ELSE "reset"
  /\ UNCHANGED <<backup_dir_path, version, epoch, dname, dleft,
                 diskvars, streamvars, crashed, stop>>

DispatchReturns ==
  /\ stop /\ dpc = "recv"
  /\ dpc' = "done"
  /\ UNCHANGED <<backup_dir_path, version, epoch, dname, dleft, resets,
                 diskvars, streamvars, countvars, crashed, stop>>
-----------------------------------------------------------------------------
(* _image_stacker_task_opt                                                 *)

\* an image arrives and ++_stream_counter reads the counter
Receive(s) ==
  /\ spc[s] = "recv" /\ received[s] < MaxImages
  /\ received' = [received EXCEPT ![s] = @ + 1]
  /\ number' = [number EXCEPT ![s] = stream_counter[s] + 1]
  /\ since' = [since EXCEPT ![s] = [epoch |-> epoch, reset |-> lastReset[s]]]
  /\ spc' = [spc EXCEPT ![s] = "count"]
  /\ UNCHANGED <<view, at, dispatchvars, diskvars, countvars, crashed, stop>>

\* mutant of Count: the incremented value is used and not kept
CountForgets(s) ==
  /\ spc[s] = "count"
  /\ spc' = [spc EXCEPT ![s] = "begin"]
  /\ UNCHANGED <<received, number, view, at, since, countvars, dispatchvars, diskvars, crashed, stop>>

\* ... and writes it back
Count(s) ==
  /\ spc[s] = "count"
  /\ stream_counter' = [stream_counter EXCEPT ![s] = number[s]]
  /\ spc' = [spc EXCEPT ![s] = "begin"]
  /\ UNCHANGED <<received, number, view, at, since, lastReset, dispatchvars, diskvars, crashed, stop>>

\* the loop takes its begin and end iterators
Begin(s) ==
  /\ spc[s] = "begin"
  /\ view' = [view EXCEPT ![s] = [paths |-> backup_dir_path, version |-> version]]
  /\ at' = [at EXCEPT ![s] = 1]
  /\ spc' = [spc EXCEPT ![s] = "write"]
  /\ UNCHANGED <<received, number, since, countvars, dispatchvars, diskvars, crashed, stop>>

\* what dereferencing the iterator can give
Dereferenced(s) ==
  IF view[s].version = version
  THEN {view[s].paths[at[s]]}
  ELSE {view[s].paths[at[s]], Garbage}
         \cup {backup_dir_path[i] : i \in {at[s]} \cap DOMAIN backup_dir_path}

\* mutant of Write: the loop ends with its first copy
WriteOnce(s) ==
  /\ spc[s] = "write" /\ at[s] <= Len(view[s].paths)
  /\ \E d \in Dereferenced(s) \ {Garbage} :
       files' = files \cup {[dir |-> d, stream |-> s, number |-> number[s],
                             image |-> received[s], since |-> since[s]]}
  /\ spc' = [spc EXCEPT ![s] = "recv"]
  /\ UNCHANGED <<received, number, view, at, since, dispatchvars, exists, down, faults,
                 countvars, crashed, stop>>

\* one directory: the copy is written, or it is not and nobody is told (an ofstream
\* that cannot write does not throw), or an exception leaves the loop and the
\* remaining directories get no copy
Write(s) ==
  /\ spc[s] = "write" /\ at[s] <= Len(view[s].paths)
  /\ \E d \in Dereferenced(s) :
       LET usable == d # Garbage /\ d.target \notin down
           next == at' = [at EXCEPT ![s] = @ + 1] /\ UNCHANGED spc
       IN  \/ /\ usable
              /\ files' = files \cup {[dir |-> d, stream |-> s, number |-> number[s],
                                       image |-> received[s], since |-> since[s]]}
              /\ next
           \/ ~usable /\ next /\ UNCHANGED files
           \/ ~usable /\ spc' = [spc EXCEPT ![s] = "recv"] /\ UNCHANGED <<at, files>>
  /\ UNCHANGED <<received, number, view, since, dispatchvars, exists, down, faults,
                 countvars, crashed, stop>>

Crash(s) ==
  /\ spc[s] = "write" /\ at[s] <= Len(view[s].paths)
  /\ view[s].version # version
  /\ crashed' = TRUE
  /\ UNCHANGED <<diskvars, dispatchvars, streamvars, countvars, stop>>

Stored(s) ==
  /\ spc[s] = "write" /\ at[s] > Len(view[s].paths)
  /\ spc' = [spc EXCEPT ![s] = "recv"]
  /\ UNCHANGED <<received, number, view, at, since, dispatchvars, diskvars,
                 countvars, crashed, stop>>

StreamReturns(s) ==
  /\ stop /\ spc[s] = "recv"
  /\ spc' = [spc EXCEPT ![s] = "done"]
  /\ UNCHANGED <<received, number, view, at, since, dispatchvars, diskvars,
                 countvars, crashed, stop>>

OnClose ==
  /\ ~stop
  /\ stop' = TRUE
  /\ UNCHANGED <<diskvars, dispatchvars, streamvars, countvars, crashed>>

TargetFails(t) ==
  /\ t \notin down /\ faults < MaxFaults
  /\ down' = down \cup {t} /\ faults' = faults + 1
  /\ UNCHANGED <<exists, files, dispatchvars, streamvars, countvars, crashed, stop>>

TargetRecovers(t) ==
  /\ t \in down
  /\ down' = down \ {t}
  /\ UNCHANGED <<exists, files, faults, dispatchvars, streamvars, countvars, crashed, stop>>
-----------------------------------------------------------------------------
Dispatch == \/ \E n \in Names : Instruction(n)
            \/ Malformed \/ VisitTarget \/ TargetsVisited
            \/ \E s \in Streams : ResetCounter(s)
            \/ DispatchReturns

Stream(s) == Receive(s) \/ Count(s) \/ Begin(s) \/ Write(s) \/ Crash(s) \/ Stored(s) \/ StreamReturns(s)

Disk == \E t \in Targets : TargetFails(t) \/ TargetRecovers(t)

Finished == crashed \/ (dpc = "done" /\ \A s \in Streams : spc[s] = "done")

Next == \/ ~crashed /\ (Dispatch \/ DispatchDies \/ OnClose \/ Disk \/ \E s \in Streams : Stream(s))
        \/ Finished /\ UNCHANGED vars

Spec == Init /\ [][Next]_vars
-----------------------------------------------------------------------------
(* Properties.                                                             *)

Resets == [epoch : 0..MaxDispatch, images : Nat, clean : BOOLEAN]
Moments == [epoch : 0..MaxDispatch, reset : Resets]

TypeOK ==
  /\ backup_dir_path \in Seq(Directories) /\ version \in Nat
  /\ exists \subseteq Directories /\ down \subseteq Targets /\ faults \in 0..MaxFaults
  /\ epoch \in 0..MaxDispatch /\ dpc \in {"recv", "targets", "reset", "done"}
  /\ dname \in Names \cup {NoName} /\ dleft \in Seq(Targets) /\ resets \subseteq Streams
  /\ dpc = "targets" => dname \in Names /\ epoch > 0
  /\ stream_counter \in [Streams -> Nat] /\ lastReset \in [Streams -> Resets]
  /\ spc \in [Streams -> {"recv", "count", "begin", "write", "done"}]
  /\ received \in [Streams -> 0..MaxImages] /\ number \in [Streams -> Nat]
  /\ view \in [Streams -> [paths : Seq(Directories), version : Nat]]
  /\ at \in [Streams -> Nat \ {0}] /\ since \in [Streams -> Moments]
  /\ files \subseteq [dir : Directories, stream : Streams, number : Nat,
                      image : 0..MaxImages, since : Moments]
  /\ crashed \in BOOLEAN /\ stop \in BOOLEAN

(* An image is only ever stored under a material that was the current one  *)
(* at some moment between its reception and its writing: clear-before-fill *)
(* keeps an older material's directory out of reach even of an iteration   *)
(* that reads freed memory.                                                *)
StoredUnderCurrentMaterial ==
  [][\A f \in files' \ files : f.dir.epoch \in f.since.epoch..epoch]_vars

(* Two images get the same name in one directory, so that the later one    *)
(* overwrites the earlier, only if one of them was counted before the      *)
(* numbering was reset for that directory's material.                      *)
OverwriteOnlyAroundDispatch ==
  \A f, g \in files :
    /\ f.dir = g.dir /\ f.stream = g.stream /\ f.number = g.number /\ f.image # g.image
    => f.since.reset.epoch < f.dir.epoch \/ g.since.reset.epoch < g.dir.epoch

(* The n-th image after a material's reset is its file number n, unless an *)
(* image was between the two halves of ++_stream_counter when the reset    *)
(* came: then the reset may be lost and the old numbering goes on.         *)
NumberingRestarts ==
  \A f \in files : f.since.reset.epoch = f.dir.epoch /\ f.since.reset.clean
                    => f.number = f.image - f.since.reset.images

(* An image whose loop ended with the vector as it was when the loop began *)
(* is in every directory of the vector, as long as no target ever failed.  *)
EveryCopyMade ==
  [][\A s \in Streams :
        /\ spc[s] = "write" /\ spc'[s] # "write"
        /\ view[s].version = version /\ faults = 0
        => \A d \in Range(backup_dir_path) :
             \E f \in files' : f.dir = d /\ f.stream = s /\ f.image = received[s]]_vars

\* no directories are made for the material: its name has been used, or it has none
Repeated == dname = NoName \/ \E d \in exists : d.name = dname /\ d.epoch < epoch

(* As long as no target ever failed, an image whose loop ended with the    *)
(* vector as it was when the loop began, between two instructions, is      *)
(* under every target, in the directory of the last instruction - or, when *)
(* that one repeated the name of an earlier one, nowhere at all: the       *)
(* images of a repeated material are counted and lost.                     *)
StoredUnlessRepeated ==
  [][\A s \in Streams :
        /\ spc[s] = "write" /\ spc'[s] # "write"
        /\ view[s].version = version /\ dpc # "targets" /\ faults = 0
        => {f.dir : f \in {g \in files' : g.stream = s /\ g.image = received[s]}}
           = IF Repeated THEN {}
             ELSE {[target |-> t, name |-> dname, epoch |-> epoch] : t \in Targets}]_vars
=============================================================================
