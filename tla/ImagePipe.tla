------------------------------ MODULE ImagePipe ------------------------------
(***************************************************************************)
(* From the cameras to the NAS: a grab thread of basler_gige_cam_grabber   *)
(* counts each image and sends it without waiting into a pipe of limited   *)
(* length; a stream thread of synology_nas_file_stacker takes it out and   *)
(* stores it as <camera>_<n>.jpg under _job_path, which the dispatch       *)
(* thread replaces, and whose numbering it restarts, when Level2 announces *)
(* a material.  No lock protects _job_path or the numbering: a thread that *)
(* copies the path while it is assigned finds the old one, the new one or  *)
(* something else, or the process dies.                                    *)
(*                                                                         *)
(* A directory is named after a material: an announcement that repeats an  *)
(* earlier name finds its directory and changes nothing.                   *)
(***************************************************************************)
EXTENDS Integers, Sequences, FiniteSets, SequencesExt

CONSTANTS Streams,       \* the camera streams
          Watched,       \* any one of them, whose images are followed
          Names,         \* directory names: date and size of a material
          Hwm,           \* images a pipe holds
          MaxImages,     \* bound: images grabbed of a stream
          MaxDispatch,   \* bound: announcements
          MaxFaults,     \* bound: times the NAS becomes unreachable
          Tmp, Garbage   \* the path before any announcement; what a torn copy finds

ASSUME PipeAssumption == /\ Watched \in Streams /\ Hwm \in Nat \ {0}
                         /\ {MaxImages, MaxDispatch, MaxFaults} \subseteq Nat
                         /\ Tmp \notin Names /\ Garbage \notin Names /\ Tmp # Garbage

Images == 1 .. MaxImages
Paths == Names \cup {Tmp, Garbage}

NoImage == [n |-> 0, of |-> Tmp]

VARIABLES
  camera_grab_counter, \* images grabbed, and the number of the last
  pipe,                \* images sent and not received: [n, of]
  job_path, assigning, \* _job_path; it is being assigned
  exists,              \* directories there are
  dispatch, dest,      \* what the dispatch thread is at; the directory it makes
  resets,              \* streams whose numbering it has still to restart
  stream_counter,
  at, image,           \* what each stream thread is at; the image in its hands
  path, number,        \* its copy of the path, and of the counter
  stored,              \* images each stream has written, oldest first
  abandoned,           \* images in the hands of a thread that ended or could not write
  announcements,       \* counts against MaxDispatch
  up, faults,          \* the NAS is reachable; counts against MaxFaults
  stop, crashed,
  current,             \* history: the material announced last, if it has its directory; else Tmp
  files                \* history: what was written where; "of" in it and in an image is the
                       \* material that was current when it was grabbed and still is, else Tmp

grabvars == <<camera_grab_counter, pipe>>
pathvars == <<job_path, assigning, exists, dispatch, dest, resets, announcements>>
threadvars == <<at, image, path, number>>
storevars == <<stream_counter, stored, abandoned>>
nasvars == <<up, faults>>
histvars == <<current, files>>
vars == <<grabvars, pathvars, threadvars, storevars, nasvars, stop, crashed, histvars>>

Init ==
  /\ camera_grab_counter = [s \in Streams |-> 0]
  /\ pipe = [s \in Streams |-> <<>>]
  /\ job_path = Tmp /\ assigning = FALSE /\ exists \in SUBSET Names
  /\ dispatch = "recv" /\ dest = Tmp /\ resets = {}
  /\ stream_counter = [s \in Streams |-> 0]
  /\ at = [s \in Streams |-> "recv"] /\ image = [s \in Streams |-> NoImage]
  /\ path = [s \in Streams |-> Tmp] /\ number = [s \in Streams |-> 0]
  /\ stored = [s \in Streams |-> <<>>] /\ abandoned = [s \in Streams |-> {}]
  /\ announcements = 0 /\ up = TRUE /\ faults = 0 /\ stop = FALSE /\ crashed = FALSE
  /\ current = Tmp /\ files = {}
-----------------------------------------------------------------------------
(* _image_stream_task: the image is counted, then sent or dropped          *)

\* mutant of Sent: a full pipe loses its oldest image
SentMakingRoom(p, i) == IF Len(p) < Hwm THEN Append(p, i) ELSE Append(Tail(p), i)
\* ZMQ_DONTWAIT: a full pipe takes nothing
Sent(p, i) == IF Len(p) < Hwm THEN Append(p, i) ELSE p

Grab(s) ==
  /\ camera_grab_counter[s] < MaxImages
  /\ camera_grab_counter' = [camera_grab_counter EXCEPT ![s] = @ + 1]
  /\ pipe' = [pipe EXCEPT ![s] = Sent(@, [n |-> camera_grab_counter[s] + 1, of |-> current])]
  /\ UNCHANGED <<pathvars, threadvars, storevars, nasvars, stop, crashed, histvars>>
-----------------------------------------------------------------------------
(* _level2_dispatch_task                                                   *)

Aged(i) == [i EXCEPT !.of = Tmp]

\* an announcement is received; nothing is done if its directory is there or the
\* NAS is not
Announce(name) ==
  /\ dispatch = "recv" /\ ~stop /\ announcements < MaxDispatch
  /\ announcements' = announcements + 1
  /\ dispatch' = IF up /\ name \notin exists THEN "create" ELSE "recv"
  /\ dest' = name
  /\ pipe' = [s \in Streams |-> [i \in 1 .. Len(pipe[s]) |-> Aged(pipe[s][i])]]
  /\ image' = [s \in Streams |-> Aged(image[s])]
  /\ current' = IF up /\ name \in exists /\ name = job_path THEN name ELSE Tmp
  /\ UNCHANGED <<camera_grab_counter, job_path, assigning, exists, resets, at, path, number,
                 storevars, nasvars, stop, crashed, files>>

CreateDirectory ==
  /\ dispatch = "create"
  /\ IF up THEN exists' = exists \cup {dest} /\ dispatch' = "assign" /\ assigning' = TRUE
     ELSE dispatch' = "recv" /\ UNCHANGED <<exists, assigning>>
  /\ UNCHANGED <<grabvars, job_path, dest, resets, announcements, threadvars, storevars, nasvars, stop,
                 crashed, histvars>>

AssignPath ==
  /\ dispatch = "assign"
  /\ job_path' = dest /\ assigning' = FALSE
  /\ dispatch' = "reset" /\ resets' = Streams
  /\ UNCHANGED <<grabvars, exists, dest, announcements, threadvars, storevars, nasvars, stop, crashed,
                 histvars>>

ResetCounter(s) ==
  /\ dispatch = "reset" /\ s \in resets
  /\ stream_counter' = [stream_counter EXCEPT ![s] = 0]
  /\ resets' = resets \ {s}
  /\ UNCHANGED <<grabvars, job_path, assigning, exists, dispatch, dest, announcements, threadvars, stored,
                 abandoned, nasvars, stop, crashed, histvars>>

DispatchReturns ==
  /\ dispatch = "reset" /\ resets = {}
  /\ dispatch' = "recv"
  /\ current' = dest
  /\ UNCHANGED <<grabvars, job_path, assigning, exists, dest, resets, announcements, threadvars, storevars,
                 nasvars, stop, crashed, files>>

\* an announcement whose entries have other types: nobody catches the
\* json::type_error, be it the name that is made of them or lv2.txt, which is
\* written between the assignment and the restart of the numbering
DispatchDies ==
  /\ \/ dispatch = "recv" /\ ~stop /\ announcements < MaxDispatch
     \/ dispatch = "reset" /\ resets = Streams /\ up
  /\ crashed' = TRUE
  /\ UNCHANGED <<grabvars, pathvars, threadvars, storevars, nasvars, stop, histvars>>
-----------------------------------------------------------------------------
(* _image_stacker_task                                                     *)

\* mutant of CanTake: a thread waits for an announcement
CanTakeAnnounced(s) == pipe[s] # <<>> /\ job_path # Tmp
CanTake(s) == pipe[s] # <<>>

Receive(s) ==
  /\ at[s] = "recv" /\ ~stop /\ CanTake(s)
  /\ image' = [image EXCEPT ![s] = Head(pipe[s])]
  /\ pipe' = [pipe EXCEPT ![s] = Tail(@)]
  /\ at' = [at EXCEPT ![s] = "locate"]
  /\ UNCHANGED <<camera_grab_counter, pathvars, path, number, storevars, nasvars, stop,
                 crashed, histvars>>

\* mutant of PathsRead: a thread asks for the path only once
PathsReadOnce(s) == IF path[s] # Tmp THEN {path[s]}
                    ELSE IF assigning THEN {job_path, dest, Garbage} ELSE {job_path}
\* what copying _job_path may yield
PathsRead(s) == IF assigning THEN {job_path, dest, Garbage} ELSE {job_path}

\* the path is copied and its directory is there or is made; if the NAS does not
\* answer, nobody catches the exception within the loop and the thread ends
Locate(s) ==
  /\ at[s] = "locate"
  /\ \E p \in PathsRead(s) : path' = [path EXCEPT ![s] = p]
  /\ at' = [at EXCEPT ![s] = IF up THEN "count" ELSE "ended"]
  /\ IF up THEN UNCHANGED <<image, abandoned>>
     ELSE /\ image' = [image EXCEPT ![s] = NoImage]
          /\ abandoned' = [abandoned EXCEPT ![s] = @ \cup {image[s].n}]
  /\ UNCHANGED <<grabvars, pathvars, number, stream_counter, stored, nasvars, stop, crashed,
                 histvars>>

\* the copy of a path that is being assigned may as well end the process
Crash(s) ==
  /\ at[s] = "locate" /\ assigning
  /\ crashed' = TRUE
  /\ UNCHANGED <<grabvars, pathvars, threadvars, storevars, nasvars, stop, histvars>>

\* ++_stream_counter[stream_id]: read, then written
Count(s) ==
  /\ at[s] = "count"
  /\ number' = [number EXCEPT ![s] = stream_counter[s] + 1]
  /\ at' = [at EXCEPT ![s] = "counted"]
  /\ UNCHANGED <<grabvars, pathvars, image, path, storevars, nasvars, stop, crashed, histvars>>

Counted(s) ==
  /\ at[s] = "counted"
  /\ stream_counter' = [stream_counter EXCEPT ![s] = number[s]]
  /\ at' = [at EXCEPT ![s] = "write"]
  /\ UNCHANGED <<grabvars, pathvars, image, path, number, stored, abandoned, nasvars, stop,
                 crashed, histvars>>

\* cv::imwrite fails silently when the NAS does not answer
Write(s) ==
  /\ at[s] = "write"
  /\ at' = [at EXCEPT ![s] = "recv"]
  /\ image' = [image EXCEPT ![s] = NoImage]
  /\ IF up
     THEN /\ stored' = [stored EXCEPT ![s] = Append(@, image[s].n)]
          /\ files' = files \cup {[stream |-> s, dir |-> path[s], number |-> number[s],
                                   n |-> image[s].n, of |-> image[s].of]}
          /\ UNCHANGED abandoned
     ELSE /\ abandoned' = [abandoned EXCEPT ![s] = @ \cup {image[s].n}]
          /\ UNCHANGED <<stored, files>>
  /\ UNCHANGED <<grabvars, pathvars, path, number, stream_counter, nasvars, stop, crashed,
                 current>>
-----------------------------------------------------------------------------
(* on_close of the stacker, and the NAS (external)                         *)

OnClose ==
  /\ ~stop /\ stop' = TRUE
  /\ UNCHANGED <<grabvars, pathvars, threadvars, storevars, nasvars, crashed, histvars>>

StreamReturns(s) ==
  /\ at[s] = "recv" /\ stop
  /\ at' = [at EXCEPT ![s] = "ended"]
  /\ UNCHANGED <<grabvars, pathvars, image, path, number, storevars, nasvars, stop, crashed,
                 histvars>>

NasFails ==
  /\ up /\ faults < MaxFaults
  /\ up' = FALSE /\ faults' = faults + 1
  /\ UNCHANGED <<grabvars, pathvars, threadvars, storevars, stop, crashed, histvars>>

NasRecovers ==
  /\ ~up /\ up' = TRUE
  /\ UNCHANGED <<grabvars, pathvars, threadvars, storevars, faults, stop, crashed, histvars>>
-----------------------------------------------------------------------------
Dispatch == CreateDirectory \/ AssignPath \/ DispatchReturns \/ \E s \in Streams : ResetCounter(s)
Stream(s) == \/ Receive(s) \/ Locate(s) \/ Crash(s) \/ Count(s) \/ Counted(s) \/ Write(s)
             \/ StreamReturns(s)

Next == /\ ~crashed
        /\ \/ \E s \in Streams : Grab(s) \/ Stream(s)
           \/ \E name \in Names : Announce(name)
           \/ Dispatch \/ DispatchDies \/ OnClose \/ NasFails \/ NasRecovers

Spec == Init /\ [][Next]_vars

\* the threads of the stacker run; images, announcements, faults and the close
\* come when they come
FairSpec == /\ Spec
            /\ WF_vars(~crashed /\ Dispatch)
            /\ \A s \in Streams : WF_vars(~crashed /\ Stream(s))
-----------------------------------------------------------------------------
(* Properties                                                              *)

ImageRecords == [n : Images, of : Names \cup {Tmp}]

\* Type invariant: pipes hold at most Hwm images, and a thread has an image in its
\* hands just while it stores one.
TypeOK ==
  /\ camera_grab_counter \in [Streams -> 0 .. MaxImages]
  /\ pipe \in [Streams -> Seq(ImageRecords)] /\ \A s \in Streams : Len(pipe[s]) <= Hwm
  /\ job_path \in Names \cup {Tmp} /\ assigning \in BOOLEAN /\ exists \subseteq Names
  /\ dispatch \in {"recv", "create", "assign", "reset"} /\ dest \in Names \cup {Tmp}
  /\ (dispatch # "recv" => dest \in Names)
  /\ resets \subseteq Streams /\ announcements \in 0 .. MaxDispatch
  /\ stream_counter \in [Streams -> Nat]
  /\ at \in [Streams -> {"recv", "locate", "count", "counted", "write", "ended"}]
  /\ image \in [Streams -> ImageRecords \cup {NoImage}]
  /\ \A s \in Streams : image[s].n = 0 <=> at[s] \in {"recv", "ended"}
  /\ path \in [Streams -> Paths] /\ number \in [Streams -> Nat]
  /\ stored \in [Streams -> Seq(Images)] /\ abandoned \in [Streams -> SUBSET Images]
  /\ up \in BOOLEAN /\ faults \in 0 .. MaxFaults /\ stop \in BOOLEAN /\ crashed \in BOOLEAN
  /\ current \in Names \cup {Tmp}
  /\ files \subseteq [stream : Streams, dir : Paths, number : Nat, n : Images,
                      of : Names \cup {Tmp}]

\* What a pipe and its thread promise: images are stored in the order in which
\* they were sent, each once at most; one that was given up is not stored later.
Channel == INSTANCE LossyChannel WITH
  Items <- Images,
  pending <- (IF image[Watched].n # 0 THEN <<image[Watched].n>> ELSE <<>>)
             \o [i \in 1 .. Len(pipe[Watched]) |-> pipe[Watched][i].n],
  delivered <- stored[Watched],
  lost <- abandoned[Watched]

\* ImagePipe implements that channel, for whichever stream is watched.
ImplementsChannel == Channel!Spec

\* An image that was grabbed when the directory of the material announced last was
\* made, and stored before the next announcement, is in that directory, and no
\* other such image of its stream has its file name.  (Images still in the pipe at
\* an announcement, images whose material's name was announced before, and those
\* grabbed while the NAS could not be reached may be anywhere.)
FiledUnderTheirMaterial ==
  \A f \in files : f.of # Tmp =>
    /\ f.dir = f.of
    /\ \A g \in files : g.of # Tmp /\ <<g.stream, g.dir, g.number>> = <<f.stream, f.dir, f.number>>
                          => g.n = f.n

\* The images in the pipes are worked off again and again, until a thread ends: at
\* the close, or because the NAS did not answer when it made a directory.
PipesWorkedOff ==
  \A s \in Streams : []<>(pipe[s] = <<>> \/ at[s] = "ended" \/ stop \/ crashed)
=============================================================================
