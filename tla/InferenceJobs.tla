---------------------------- MODULE InferenceJobs ----------------------------
(***************************************************************************)
(* The monitor's inference jobs.  The GUI thread notes what Level2 says of *)
(* the next material, one field after the other; the subscriber thread     *)
(* copies those notes, one field after the other, whenever the line signal *)
(* is quiet, and queues the copy as a job; the inference thread takes the  *)
(* jobs one by one, has one process per camera group infer the images of   *)
(* the job's directory, collects their rows, writes them to result.csv,    *)
(* reports to Level2 and leaves the deletion of the images to a background *)
(* thread.  The images come from the file stackers, which know nothing of  *)
(* all this.                                                               *)
(*                                                                         *)
(* Materials differ in every field of the notes, so a directory            *)
(* <date>_<norm> whose two parts are not of the same material does not     *)
(* exist.                                                                  *)
(***************************************************************************)
EXTENDS Integers, Sequences, FiniteSets, SequencesExt

CONSTANTS Workers,        \* camera_groups, a process each
          Images,         \* bound: <<material, worker>>: an image for that group's cameras
          MaxMaterials,   \* bound: materials Level2 announces
          MaxChanges,     \* bound: changes of the line signal
          MaxDeaths,      \* bound: processes that die
          MaxFailures     \* bound: result files that cannot be written

ASSUME BoundsAssumption ==
  /\ IsFiniteSet(Workers) /\ Workers # {}
  /\ Images \subseteq (1 .. MaxMaterials) \X Workers
  /\ {MaxMaterials, MaxChanges, MaxDeaths, MaxFailures} \subseteq Nat

Materials == 1 .. MaxMaterials
Attempts == 3                                  \* max_attempts
JobIds == 1 .. MaxChanges

\* the notes, in the order add_job_lv2_info writes them: "date" stands for the
\* size too, "order" for mt_no, lot_no, mt_type_cd and mt_stand_raw
Fields == {"date", "order", "norm"}
\* mutant of WriteOrder: the order is forgotten
WriteOrderNoOrder == <<"date", "norm">>
WriteOrder == <<"date", "order", "norm">>

\* a copy, in the order run reads the notes
Slots == {"dir_date", "dir_norm", "order", "date", "norm"}
CopyOrder == <<"dir_date", "dir_norm", "order", "date", "norm">>
FieldOf(slot) == CASE slot = "dir_date" -> "date"
                   [] slot = "dir_norm" -> "norm"
                   [] OTHER -> slot
NoCopy == [s \in Slots |-> 0]
NoJob == [id |-> 0, dir |-> 0]   \* of a job only its directory is kept: the rest goes into the report

VARIABLES
  quiet, changes,     \* the line is online and neither detector sees a material; its changes
  triggers,           \* quiet signals the subscriber has still to read
  instructed,         \* the material announced last, 0 = none
  passing,            \* materials that have begun to pass
  notes, wrote,       \* __job_lv2_info; the fields of the call written so far
  sub, copy, clean,   \* slots read, -1 = idle, -2 = returned; the copy; history: no field was written meanwhile
  jobs, nextId,       \* __job_queue; ids number the jobs
  gui,                \* what close() is at
  stop,               \* __inference_stop_event
  inf, job,           \* what the inference thread is at; its job
  proc, pipe,         \* the processes and what each has put in the result queue
  ends, rows,         \* of the collector
  results,            \* result.csv of each material
  reported, dropped,  \* ids reported to Level2; ids drained by close
  dirs, disk,         \* image directories and images that exist
  deletions,          \* background deletions under way
  arrived, looked, late, \* history: images stored or lost; looked for by a process; arrived after that
  jobsFor,            \* history: jobs queued for each material, 2 = several
  deaths, failures

linevars == <<quiet, changes, instructed, passing>>
notevars == <<notes, wrote>>
subvars == <<sub, copy, clean, triggers>>
jobvars == <<jobs, nextId>>
infvars == <<inf, job>>
workvars == <<proc, pipe, ends, rows>>
outvars == <<results, reported>>
closevars == <<gui, stop, dropped>>
filevars == <<dirs, disk, deletions>>
histvars == <<arrived, looked, late, jobsFor>>
faultvars == <<deaths, failures>>
vars == <<linevars, notevars, subvars, jobvars, infvars, workvars, outvars,
          closevars, filevars, histvars, faultvars>>

Init ==
  /\ quiet \in BOOLEAN /\ changes = 0 /\ instructed = 0 /\ passing = {}
  /\ notes = [f \in Fields |-> 0] /\ wrote = 0
  /\ sub = -1 /\ copy = NoCopy /\ clean = TRUE /\ triggers = 0
  /\ jobs = <<>> /\ nextId = 1
  /\ inf = "test" /\ job = NoJob
  /\ proc = [w \in Workers |-> "none"] /\ pipe = [w \in Workers |-> <<>>]
  /\ ends = 0 /\ rows = {}
  /\ results = [m \in Materials |-> {}] /\ reported = <<>>
  /\ gui = "open" /\ stop = FALSE /\ dropped = {}
  /\ dirs = {} /\ disk = {} /\ deletions = {}
  /\ arrived = {} /\ looked = {} /\ late = {} /\ jobsFor = [m \in Materials |-> 0]
  /\ deaths = 0 /\ failures = 0
-----------------------------------------------------------------------------
(* The line, Level2 and the file stackers (external)                       *)

\* a change of any signal is published, the offline signal's as well; those from one
\* that is not quiet to another are of no consequence
LineChanges ==
  /\ changes < MaxChanges
  /\ changes' = changes + 1
  /\ quiet' \in BOOLEAN /\ (quiet \/ quiet')
  /\ triggers' = triggers + (IF quiet' /\ sub # -2 THEN 1 ELSE 0)
  /\ passing' = IF quiet /\ ~quiet' THEN passing \cup ({instructed} \ {0}) ELSE passing
  /\ UNCHANGED <<instructed, notevars, sub, copy, clean, jobvars, infvars, workvars,
                 outvars, closevars, filevars, histvars, faultvars>>

\* a stacker stores an image, or fails to because the directory is gone
Arrive(image) ==
  /\ image[1] \in passing /\ image \notin arrived
  /\ arrived' = arrived \cup {image}
  /\ late' = IF image \in looked THEN late \cup {image} ELSE late
  /\ disk' = IF image[1] \in dirs THEN disk \cup {image} ELSE disk
  /\ UNCHANGED <<linevars, notevars, subvars, jobvars, infvars, workvars, outvars,
                 closevars, dirs, deletions, looked, jobsFor, faultvars>>
-----------------------------------------------------------------------------
(* The GUI thread: on_update_dk_level2_data, add_job_lv2_info              *)

\* the announcement comes between two materials; the stackers make the directory
Instruct ==
  /\ gui = "open" /\ wrote = 0 /\ quiet
  /\ instructed < MaxMaterials
  /\ instructed' = instructed + 1
  /\ dirs' = dirs \cup {instructed + 1}
  /\ notes' = [notes EXCEPT ![WriteOrder[1]] = instructed + 1]
  /\ wrote' = 1
  /\ clean' = FALSE
  /\ UNCHANGED <<quiet, changes, passing, sub, copy, triggers, jobvars, infvars, workvars,
                 outvars, closevars, disk, deletions, histvars, faultvars>>

WriteField ==
  /\ wrote > 0
  /\ notes' = [notes EXCEPT ![WriteOrder[wrote + 1]] = instructed]
  /\ wrote' = IF wrote + 1 = Len(WriteOrder) THEN 0 ELSE wrote + 1
  /\ clean' = FALSE
  /\ UNCHANGED <<linevars, sub, copy, triggers, jobvars, infvars, workvars, outvars,
                 closevars, filevars, histvars, faultvars>>
-----------------------------------------------------------------------------
(* The subscriber thread: run                                              *)

\* a quiet signal is read; without notes there is no job
ReadTrigger ==
  /\ sub = -1 /\ gui = "open" /\ triggers > 0
  /\ triggers' = triggers - 1
  /\ IF notes["date"] # 0 /\ notes["norm"] # 0
     THEN sub' = 0 /\ copy' = NoCopy /\ clean' = (wrote = 0)
     ELSE UNCHANGED <<sub, copy, clean>>
  /\ UNCHANGED <<linevars, notevars, jobvars, infvars, workvars, outvars, closevars,
                 filevars, histvars, faultvars>>

CopySlot ==
  /\ sub \in 0 .. Len(CopyOrder) - 1
  /\ sub' = sub + 1
  /\ copy' = [copy EXCEPT ![CopyOrder[sub + 1]] = notes[FieldOf(CopyOrder[sub + 1])]]
  /\ UNCHANGED <<linevars, notevars, clean, triggers, jobvars, infvars, workvars, outvars,
                 closevars, filevars, histvars, faultvars>>

\* the material whose directory a job names, 0 if there is no such directory
DirOf(c) == IF c["dir_date"] = c["dir_norm"] THEN c["dir_date"] ELSE 0
PutJob ==
  /\ sub = Len(CopyOrder)
  /\ jobs' = Append(jobs, [id |-> nextId, dir |-> DirOf(copy)])
  /\ nextId' = nextId + 1
  /\ sub' = -1 /\ copy' = NoCopy /\ clean' = TRUE
  /\ jobsFor' = [m \in Materials |-> IF m = DirOf(copy) /\ jobsFor[m] < 2
                                      THEN jobsFor[m] + 1 ELSE jobsFor[m]]
  /\ UNCHANGED <<linevars, notevars, triggers, infvars, workvars, outvars, closevars,
                 filevars, arrived, looked, late, faultvars>>

SubscriberReturns ==
  /\ sub = -1 /\ gui # "open"
  /\ sub' = -2 /\ triggers' = 0
  /\ UNCHANGED <<linevars, notevars, copy, clean, jobvars, infvars, workvars, outvars,
                 closevars, filevars, histvars, faultvars>>
-----------------------------------------------------------------------------
(* The inference thread: __inference                                       *)

\* the stop event is tested, then the queue; a pass that finds neither changes nothing
InferenceReturns ==
  /\ inf = "test" /\ stop
  /\ inf' = "returned"
  /\ UNCHANGED <<linevars, notevars, subvars, jobvars, job, workvars, outvars, closevars,
                 filevars, histvars, faultvars>>

SeesJob ==
  /\ inf = "test" /\ ~stop /\ jobs # <<>>
  /\ inf' = "get"
  /\ UNCHANGED <<linevars, notevars, subvars, jobvars, job, workvars, outvars, closevars,
                 filevars, histvars, faultvars>>

\* mutant of Rest: the job is looked at, not taken
RestAll == jobs
\* what get() leaves in the queue
Rest == Tail(jobs)

\* get() blocks while the queue is empty; then a process per camera group is started
GetJob ==
  /\ inf = "get" /\ jobs # <<>>
  /\ job' = Head(jobs) /\ jobs' = Rest
  /\ inf' = "collect"
  /\ proc' = [w \in Workers |-> "started"] /\ pipe' = [w \in Workers |-> <<>>]
  /\ ends' = 0 /\ rows' = {}
  /\ UNCHANGED <<linevars, notevars, subvars, nextId, outvars, closevars, filevars,
                 histvars, faultvars>>

\* mutant of AfterListing: a process without images puts no end signal
AfterListingQuiet(image) == IF image \in disk THEN "infers" ELSE "ended"
AfterListing(image) == IF image \in disk THEN "infers" ELSE "inferred"

\* __infer_worker lists the images of its cameras: its image, or none
List(w) ==
  LET image == <<job.dir, w>>
  IN  /\ proc[w] = "started"
      /\ proc' = [proc EXCEPT ![w] = AfterListing(image)]
      /\ looked' = looked \cup ({image} \cap Images)
      /\ UNCHANGED <<linevars, notevars, subvars, jobvars, infvars, pipe, ends, rows,
                     outvars, closevars, filevars, arrived, late, jobsFor, faultvars>>

\* process_image puts a row, whatever came of the image
Infer(w) ==
  /\ proc[w] = "infers"
  /\ proc' = [proc EXCEPT ![w] = "inferred"]
  /\ pipe' = [pipe EXCEPT ![w] = Append(@, "row")]
  /\ UNCHANGED <<linevars, notevars, subvars, jobvars, infvars, ends, rows, outvars,
                 closevars, filevars, histvars, faultvars>>

EndSignal(w) ==
  /\ proc[w] = "inferred"
  /\ proc' = [proc EXCEPT ![w] = "ended"]
  /\ pipe' = [pipe EXCEPT ![w] = Append(@, "end")]
  /\ UNCHANGED <<linevars, notevars, subvars, jobvars, infvars, ends, rows, outvars,
                 closevars, filevars, histvars, faultvars>>

\* a process fails (no model, no GPU) or is killed: no end signal follows, and
\* what it had not yet flushed is gone
Die(w) ==
  /\ proc[w] \in {"started", "infers", "inferred"} /\ deaths < MaxDeaths
  /\ deaths' = deaths + 1
  /\ proc' = [proc EXCEPT ![w] = "dead"]
  /\ \E n \in 0 .. Len(pipe[w]) : pipe' = [pipe EXCEPT ![w] = SubSeq(@, 1, n)]
  /\ UNCHANGED <<linevars, notevars, subvars, jobvars, infvars, ends, rows, outvars,
                 closevars, filevars, histvars, failures>>

\* __run_parallel_inference takes an item of the result queue
Collect(w) ==
  /\ inf = "collect" /\ ends < Cardinality(Workers) /\ pipe[w] # <<>>
  /\ pipe' = [pipe EXCEPT ![w] = Tail(@)]
  /\ IF Head(pipe[w]) = "end"
     THEN ends' = ends + 1 /\ UNCHANGED rows
     ELSE rows' = rows \cup {<<job.dir, w>>} /\ UNCHANGED ends
  /\ UNCHANGED <<linevars, notevars, subvars, jobvars, infvars, proc, outvars, closevars,
                 filevars, histvars, faultvars>>

\* mutant of AllEnded: one end signal is not waited for
AllButOneEnded == ends >= Cardinality(Workers) - 1
\* all end signals are there
AllEnded == ends = Cardinality(Workers)

\* result.csv is opened for writing: what an earlier job of this material wrote is gone
WriteResults ==
  /\ inf = "collect" /\ AllEnded
  /\ inf' = "report"
  /\ results' = IF job.dir = 0 THEN results
                ELSE [results EXCEPT ![job.dir] = rows]
  /\ UNCHANGED <<linevars, notevars, subvars, jobvars, job, workvars, reported, closevars,
                 filevars, histvars, faultvars>>

\* the NAS is not there: nobody catches the exception, the thread ends
WriteFails ==
  /\ inf = "collect" /\ AllEnded /\ failures < MaxFailures
  /\ failures' = failures + 1
  /\ inf' = "dead"
  /\ UNCHANGED <<linevars, notevars, subvars, jobvars, job, workvars, outvars, closevars,
                 filevars, histvars, deaths>>

\* Level2 is told, and the deletion is left to a thread of its own
Report ==
  /\ inf = "report"
  /\ inf' = "test"
  /\ reported' = Append(reported, job.id)
  /\ deletions' = deletions \cup {[id |-> job.id, dir |-> job.dir, attempt |-> 1]}
  /\ job' = NoJob
  /\ proc' = [w \in Workers |-> "none"]
  /\ ends' = 0 /\ rows' = {}
  /\ UNCHANGED <<linevars, notevars, subvars, jobvars, pipe, results, closevars, dirs, disk,
                 histvars, faultvars>>
-----------------------------------------------------------------------------
(* The deleting threads: __delete_directory_background                     *)

\* rmtree removes an image it has found
RemoveImage(d, image) ==
  /\ image[1] = d.dir
  /\ disk' = disk \ {image}
  /\ UNCHANGED <<linevars, notevars, subvars, jobvars, infvars, workvars, outvars, closevars,
                 dirs, deletions, histvars, faultvars>>

\* the empty directory is removed, or it was not there
RemoveDir(d) ==
  /\ \A image \in disk : image[1] # d.dir
  /\ dirs' = dirs \ {d.dir}
  /\ deletions' = deletions \ {d}
  /\ UNCHANGED <<linevars, notevars, subvars, jobvars, infvars, workvars, outvars, closevars,
                 disk, histvars, faultvars>>

\* mutant of AttemptFails: attempts are not counted out
AttemptFailsAgain(d) ==
  /\ \E image \in disk \cap late : image[1] = d.dir
  /\ deletions' = (deletions \ {d}) \cup
                  {[d EXCEPT !.attempt = @ + 1]}
  /\ UNCHANGED <<linevars, notevars, subvars, jobvars, infvars, workvars, outvars,
                 closevars, dirs, disk, histvars, faultvars>>

\* an attempt fails at an image stored since rmtree listed the directory, and is
\* repeated unless it was the last
AttemptFails(d) ==
  /\ \E image \in disk \cap late : image[1] = d.dir
  /\ deletions' = (deletions \ {d}) \cup
                  (IF d.attempt < Attempts THEN {[d EXCEPT !.attempt = @ + 1]} ELSE {})
  /\ UNCHANGED <<linevars, notevars, subvars, jobvars, infvars, workvars, outvars,
                 closevars, dirs, disk, histvars, faultvars>>
-----------------------------------------------------------------------------
(* close(), on the GUI thread                                              *)

CloseStep(from, to) == gui = from /\ gui' = to

Close ==
  /\ CloseStep("open", "wait") /\ wrote = 0
  /\ UNCHANGED <<linevars, notevars, subvars, jobvars, infvars, workvars, outvars, stop,
                 dropped, filevars, histvars, faultvars>>

CloseWaited ==
  /\ CloseStep("wait", "drain") /\ sub = -2
  /\ UNCHANGED <<linevars, notevars, subvars, jobvars, infvars, workvars, outvars, stop,
                 dropped, filevars, histvars, faultvars>>

CloseSeesJob ==
  /\ CloseStep("drain", "get") /\ jobs # <<>>
  /\ UNCHANGED <<linevars, notevars, subvars, jobvars, infvars, workvars, outvars, stop,
                 dropped, filevars, histvars, faultvars>>

CloseDropsJob ==
  /\ CloseStep("get", "drain") /\ jobs # <<>>
  /\ jobs' = Rest /\ dropped' = dropped \cup {Head(jobs).id}
  /\ UNCHANGED <<linevars, notevars, subvars, nextId, infvars, workvars, outvars, stop,
                 filevars, histvars, faultvars>>

\* mutant of CloseStops: the thread is joined without being told to stop
CloseForgetsStop ==
  /\ CloseStep("drain", "join") /\ jobs = <<>>
  /\ UNCHANGED <<linevars, notevars, subvars, jobvars, infvars, workvars, outvars, stop,
                 dropped, filevars, histvars, faultvars>>

CloseStops ==
  /\ CloseStep("drain", "join") /\ jobs = <<>>
  /\ stop' = TRUE
  /\ UNCHANGED <<linevars, notevars, subvars, jobvars, infvars, workvars, outvars, dropped,
                 filevars, histvars, faultvars>>

CloseJoined ==
  /\ CloseStep("join", "closed") /\ inf \in {"returned", "dead"}
  /\ UNCHANGED <<linevars, notevars, subvars, jobvars, infvars, workvars, outvars, stop,
                 dropped, filevars, histvars, faultvars>>
-----------------------------------------------------------------------------
Subscriber == ReadTrigger \/ CopySlot \/ PutJob \/ SubscriberReturns
InferenceThread == \/ InferenceReturns \/ SeesJob \/ GetJob
                   \/ WriteResults \/ WriteFails \/ Report
                   \/ \E w \in Workers : Collect(w)
Process(w) == List(w) \/ Infer(w) \/ EndSignal(w)
Gui == \/ WriteField \/ CloseWaited \/ CloseSeesJob \/ CloseDropsJob
       \/ CloseStops \/ CloseJoined
Deletion == \E d \in deletions : \/ \E image \in disk : RemoveImage(d, image)
                                 \/ RemoveDir(d) \/ AttemptFails(d)

Next == \/ LineChanges
        \/ \E image \in Images : Arrive(image)
        \/ Instruct \/ Close
        \/ \E w \in Workers : Die(w)
        \/ Subscriber \/ InferenceThread \/ Gui \/ Deletion
        \/ \E w \in Workers : Process(w)

Spec == Init /\ [][Next]_vars

\* every thread goes on as long as it can; the line, Level2, the images, close
\* and the faults come when they come
FairSpec == /\ Spec
            /\ WF_vars(Subscriber) /\ WF_vars(InferenceThread) /\ WF_vars(Gui)
            /\ \A w \in Workers : WF_vars(Process(w))
-----------------------------------------------------------------------------
(* Properties                                                              *)

Copies == [Slots -> 0 .. MaxMaterials]
JobRecords == [id : 0 .. MaxChanges, dir : 0 .. MaxMaterials]

\* Type invariant: the values of the variables, of __job_lv2_info, of a job and
\* of the background deletions.
TypeOK ==
  /\ quiet \in BOOLEAN /\ changes \in 0 .. MaxChanges
  /\ triggers \in 0 .. MaxChanges
  /\ instructed \in 0 .. MaxMaterials /\ passing \subseteq Materials
  /\ notes \in [Fields -> 0 .. MaxMaterials] /\ wrote \in 0 .. Len(WriteOrder) - 1
  /\ sub \in -2 .. Len(CopyOrder) /\ copy \in Copies /\ clean \in BOOLEAN
  /\ jobs \in Seq(JobRecords) /\ nextId \in 1 .. MaxChanges + 1
  /\ gui \in {"open", "wait", "drain", "get", "join", "closed"} /\ stop \in BOOLEAN
  /\ inf \in {"test", "get", "collect", "report", "returned", "dead"}
  /\ job \in JobRecords
  /\ proc \in [Workers -> {"none", "started", "infers", "inferred", "ended", "dead"}]
  /\ pipe \in [Workers -> Seq({"row", "end"})]
  /\ ends \in 0 .. Cardinality(Workers) /\ rows \subseteq Images
  /\ results \in [Materials -> SUBSET Images]
  /\ reported \in Seq(JobIds) /\ dropped \subseteq JobIds
  /\ dirs \subseteq Materials /\ disk \subseteq Images
  /\ deletions \subseteq [id : JobIds, dir : 0 .. MaxMaterials, attempt : 1 .. Attempts]
  /\ arrived \subseteq Images /\ looked \subseteq Images /\ late \subseteq Images
  /\ jobsFor \in [Materials -> 0 .. 2]
  /\ deaths \in 0 .. MaxDeaths /\ failures \in 0 .. MaxFailures

\* A job that was copied while no field of the notes was being written describes
\* one material, in every slot: the one announced last.  (The two threads share
\* __job_lv2_info without a lock; a copy that meets a writer may be of two.)
JobOfTheLastInstruction ==
  sub = Len(CopyOrder) /\ clean => \A s \in Slots : copy[s] = instructed

\* An image that was stored before its camera group was looked through is on the
\* disk or has its row in result.csv, unless its material had a second job, which
\* writes result.csv again.  (The directory is deleted when a job is done, while
\* the stackers may still be storing.)
NoImageUnaccounted ==
  \A image \in arrived :
    \/ image \in disk \/ image \in results[image[1]]
    \/ image \in late \/ jobsFor[image[1]] > 1

\* The abstract service: jobs are reported in the order they were queued, each at
\* most once, and a job that close() drained never.
Channel == INSTANCE LossyChannel WITH
  Items <- JobIds,
  pending <- (IF inf \in {"collect", "report", "dead"} THEN <<job.id>> ELSE <<>>)
             \o [i \in 1 .. Len(jobs) |-> jobs[i].id],
  delivered <- reported,
  lost <- dropped

\* InferenceJobs implements that service.
ImplementsJobService == Channel!Spec

\* Queued jobs are worked off, again and again, until close() begins, a process
\* dies (the collector waits for its end signal for ever) or result.csv cannot be
\* written (the inference thread is dead and later jobs stay in the queue).
JobsWorkedOff ==
  []<>((jobs = <<>> /\ inf = "test") \/ gui # "open" \/ deaths > 0 \/ inf = "dead")

\* inference thread or close() waits for a job that the other one took: both
\* test the queue before they get
Robbed == jobs = <<>> /\ (inf = "get" \/ gui = "get")

\* close() returns, unless a process died or, both having seen the last job, one
\* of the inference thread and close() waits for it for ever.
CloseReturns == (gui # "open") ~> (gui = "closed" \/ deaths > 0 \/ (sub = -2 /\ Robbed))
=============================================================================
