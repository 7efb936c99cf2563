---------------------------- MODULE Monitor_proofs ----------------------------
(***************************************************************************)
(* What three parts of the monitor guarantee, for any values of their      *)
(* constants.                                                              *)
(*                                                                         *)
(* InferenceJobs (any camera groups, images, materials and bounds): the    *)
(* types; that a copy which met no writer is of one material; that no      *)
(* image is lost between the disk and result.csv; and that the jobs are an *)
(* instance of LossyChannel.                                               *)
(*                                                                         *)
(* PresetControl (any directories of presets, sizes, cameras and any       *)
(* number of announcements, operations and losses): the types, that what   *)
(* is set is of one preset, and that it is the one that counts as in use.  *)
(*                                                                         *)
(* SystemEcho (any number of faults): the types, and that the server is    *)
(* shown active only after a reply sent since the last timeout.            *)
(***************************************************************************)
EXTENDS InferenceJobs, PresetControl, SystemEcho,
        TLAPS, SequenceTheorems, FiniteSetTheorems, WellFoundedInduction

-----------------------------------------------------------------------------
(***************************************************************************)
(* InferenceJobs.                                                          *)
(***************************************************************************)

(***************************************************************************)
(* The steps that change each group of variables; every other step leaves  *)
(* the group alone.                                                        *)
(***************************************************************************)
LEMMA Changes ==
  ASSUME [Next]_vars
  PROVE  /\ linevars' # linevars => LineChanges \/ Instruct
         /\ notevars' # notevars => Instruct \/ WriteField
         /\ subvars' # subvars => LineChanges \/ Instruct \/ WriteField \/ Subscriber
         /\ jobvars' # jobvars => PutJob \/ GetJob \/ CloseDropsJob
         /\ infvars' # infvars => InferenceThread
         /\ workvars' # workvars => \/ GetJob \/ Report
                                    \/ \E w \in Workers : Process(w) \/ Die(w) \/ Collect(w)
         /\ outvars' # outvars => WriteResults \/ Report
         /\ closevars' # closevars => Close \/ Gui
         /\ filevars' # filevars => \/ \E image \in Images : Arrive(image)
                                    \/ Instruct \/ Report \/ Deletion
         /\ histvars' # histvars => \/ \E image \in Images : Arrive(image)
                                    \/ \E w \in Workers : List(w)
                                    \/ PutJob
         /\ faultvars' # faultvars => WriteFails \/ \E w \in Workers : Die(w)
<1>1. CASE UNCHANGED vars
  BY <1>1 DEF vars
<1>2. CASE LineChanges \/ (\E image \in Images : Arrive(image)) \/ Instruct \/ Close
  BY <1>2 DEF LineChanges, Arrive, Instruct, Close, CloseStep, linevars, notevars, subvars,
              closevars, filevars, histvars, outvars
<1>3. CASE Subscriber
  BY <1>3 DEF Subscriber, ReadTrigger, CopySlot, PutJob, SubscriberReturns, subvars, histvars,
              jobvars
<1>4. CASE InferenceThread
  BY <1>4 DEF InferenceThread, InferenceReturns, SeesJob, GetJob, WriteResults, WriteFails, Report,
              Collect, infvars, workvars, jobvars, outvars, filevars, faultvars
<1>5. CASE Gui
  BY <1>5 DEF Gui, WriteField, CloseWaited, CloseSeesJob, CloseDropsJob, CloseStops, CloseJoined,
              CloseStep, closevars, jobvars, notevars, subvars
<1>6. CASE Deletion
  BY <1>6 DEF Deletion, RemoveImage, RemoveDir, AttemptFails, filevars
<1>7. CASE \E w \in Workers : Process(w) \/ Die(w)
  BY <1>7 DEF Process, List, Infer, EndSignal, Die, workvars, histvars, faultvars
<1> QED
  BY <1>1, <1>2, <1>3, <1>4, <1>5, <1>6, <1>7 DEF Next
-----------------------------------------------------------------------------
(***************************************************************************)
(* The type invariant, one part per group of variables.                    *)
(***************************************************************************)
LineTypes == /\ quiet \in BOOLEAN /\ changes \in 0 .. MaxChanges
             /\ instructed \in 0 .. MaxMaterials /\ passing \subseteq Materials
NoteTypes == notes \in [Fields -> 0 .. MaxMaterials] /\ wrote \in 0 .. 2
SubTypes == /\ triggers \in 0 .. MaxChanges
            /\ sub \in -2 .. 5 /\ copy \in Copies /\ clean \in BOOLEAN
JobTypes == jobs \in Seq(JobRecords) /\ nextId \in 1 .. MaxChanges + 1
InfTypes == /\ inf \in {"test", "get", "collect", "report", "returned", "dead"}
            /\ job \in JobRecords
WorkTypes == /\ proc \in [Workers -> {"none", "started", "infers", "inferred", "ended", "dead"}]
             /\ pipe \in [Workers -> Seq({"row", "end"})]
             /\ ends \in 0 .. Cardinality(Workers) /\ rows \subseteq Images
OutTypes == results \in [Materials -> SUBSET Images] /\ reported \in Seq(JobIds)
CloseTypes == /\ gui \in {"open", "wait", "drain", "get", "join", "closed"}
              /\ stop \in BOOLEAN /\ dropped \subseteq JobIds
FileTypes == /\ dirs \subseteq Materials /\ disk \subseteq Images
             /\ deletions \subseteq [id : JobIds, dir : 0 .. MaxMaterials, attempt : 1 .. Attempts]
HistTypes == /\ arrived \subseteq Images /\ looked \subseteq Images /\ late \subseteq Images
             /\ jobsFor \in [Materials -> 0 .. 2]
FaultTypes == deaths \in 0 .. MaxDeaths /\ failures \in 0 .. MaxFailures

\* The orders in which the notes are written and copied.
LEMMA Orders ==
  /\ Len(WriteOrder) = 3 /\ Len(CopyOrder) = 5
  /\ WriteOrder[1] = "date" /\ WriteOrder[2] = "order" /\ WriteOrder[3] = "norm"
  /\ CopyOrder[1] = "dir_date" /\ CopyOrder[2] = "dir_norm" /\ CopyOrder[3] = "order"
  /\ CopyOrder[4] = "date" /\ CopyOrder[5] = "norm"
  /\ \A s \in Slots : FieldOf(s) \in Fields
BY DEF WriteOrder, CopyOrder, Slots, Fields, FieldOf

\* The type invariant is its parts.
LEMMA TypeParts ==
  TypeOK <=> /\ LineTypes /\ NoteTypes /\ SubTypes /\ JobTypes /\ InfTypes /\ WorkTypes
             /\ OutTypes /\ CloseTypes /\ FileTypes /\ HistTypes /\ FaultTypes
<1>1. Len(WriteOrder) - 1 = 2 /\ Len(CopyOrder) = 5
  BY Orders
<1> HIDE DEF WriteOrder, CopyOrder
<1> QED
  BY <1>1, Zenon DEF TypeOK, LineTypes, NoteTypes, SubTypes, JobTypes, InfTypes, WorkTypes, OutTypes,
                     CloseTypes, FileTypes, HistTypes, FaultTypes

(***************************************************************************)
(* Every id was given out once: quiet signals, the copy in progress and    *)
(* the jobs queued so far never exceed the changes of the line.            *)
(***************************************************************************)
Ids == 1 .. nextId - 1
Taken == inf \in {"collect", "report", "dead"}
CountInv == triggers + nextId + (IF sub >= 0 THEN 1 ELSE 0) <= changes + 1
IdsInv ==
  /\ \A i \in 1 .. Len(jobs) : jobs[i].id \in Ids
  /\ Taken => job.id \in Ids
  /\ \A i \in 1 .. Len(reported) : reported[i] \in Ids
  /\ dropped \subseteq Ids

(***************************************************************************)
(* What each process has in the result queue, and that a row, or one about *)
(* to come, is of an image there is.                                       *)
(***************************************************************************)
HasRow(q) == q \in {<<"row">>, <<"row", "end">>}
PipeOf(state) == CASE state \in {"started", "infers"} -> {<<>>}
                   [] state \in {"inferred", "dead"} -> {<<>>, <<"row">>}
                   [] state = "ended" -> {<<>>, <<"end">>, <<"row", "end">>}
PipeInv ==
  \A w \in Workers :
    /\ proc[w] # "none" => pipe[w] \in PipeOf(proc[w])
    /\ inf # "collect" => proc[w] \in {"none", "ended"}
    /\ inf = "collect" => proc[w] # "none"
    /\ inf = "report" => proc[w] = "ended"
    /\ inf = "collect" /\ (proc[w] = "infers" \/ HasRow(pipe[w])) => <<job.dir, w>> \in Images

\* The bounds are natural numbers.
LEMMA Bounds ==
  /\ MaxMaterials \in Nat /\ MaxChanges \in Nat /\ MaxDeaths \in Nat /\ MaxFailures \in Nat
  /\ Cardinality(Workers) \in Nat /\ Images \subseteq (1 .. MaxMaterials) \X Workers
  /\ IsFiniteSet(Workers)
<1>1. IsFiniteSet(Workers) /\ {MaxMaterials, MaxChanges, MaxDeaths, MaxFailures} \subseteq Nat
  BY BoundsAssumption DEF BoundsAssumption
<1>2. Images \subseteq (1 .. MaxMaterials) \X Workers
  BY BoundsAssumption DEF BoundsAssumption, Materials
<1>3. Cardinality(Workers) \in Nat
  BY <1>1, FS_CardinalityType
<1> QED
  BY <1>1, <1>2, <1>3

\* The numbers behind the types.
LEMMA Numbers ==
  ASSUME TypeOK
  PROVE  /\ triggers \in Nat /\ nextId \in Nat \ {0} /\ sub \in Int /\ changes \in Nat
         /\ instructed \in Nat /\ wrote \in Nat /\ ends \in Nat
BY TypeParts, Bounds DEF LineTypes, NoteTypes, SubTypes, JobTypes, WorkTypes
-----------------------------------------------------------------------------
\* Elements and ends of a sequence.
LEMMA Parts ==
  ASSUME NEW S, NEW q \in Seq(S)
  PROVE  /\ Len(q) \in Nat
         /\ \A i \in 1 .. Len(q) : q[i] \in S
         /\ q # <<>> => /\ Head(q) \in S /\ Tail(q) \in Seq(S) /\ Head(q) = q[1]
                        /\ Len(q) > 0 /\ Len(Tail(q)) = Len(q) - 1
                        /\ \A i \in 1 .. Len(q) - 1 : Tail(q)[i] = q[i + 1]
<1>1. Len(q) \in Nat /\ (\A i \in 1 .. Len(q) : q[i] \in S)
  BY LenProperties, ElementOfSeq
<1>2. q # <<>> => Len(q) > 0
  BY EmptySeq, LenProperties
<1>3. q # <<>> => /\ Head(q) \in S /\ Tail(q) \in Seq(S) /\ Head(q) = q[1]
                  /\ Len(Tail(q)) = Len(q) - 1
                  /\ \A i \in 1 .. Len(q) - 1 : Tail(q)[i] = q[i + 1]
  BY HeadTailProperties
<1> QED
  BY <1>1, <1>2, <1>3

\* What appending does to a sequence.
LEMMA Longer ==
  ASSUME NEW S, NEW q \in Seq(S), NEW e \in S
  PROVE  /\ Append(q, e) \in Seq(S) /\ Len(Append(q, e)) = Len(q) + 1
         /\ \A i \in 1 .. Len(q) : Append(q, e)[i] = q[i]
         /\ Append(q, e)[Len(q) + 1] = e
BY AppendProperties

\* What the operations on a process's items make of them.
LEMMA Items ==
  /\ Append(<<>>, "row") = <<"row">> /\ Append(<<>>, "end") = <<"end">>
  /\ Append(<<"row">>, "end") = <<"row", "end">>
  /\ Head(<<"row">>) = "row" /\ Tail(<<"row">>) = <<>>
  /\ Head(<<"end">>) = "end" /\ Tail(<<"end">>) = <<>>
  /\ Head(<<"row", "end">>) = "row" /\ Tail(<<"row", "end">>) = <<"end">>
  /\ \A n \in 0 .. Len(<<>>) : SubSeq(<<>>, 1, n) = <<>>
  /\ \A n \in 0 .. Len(<<"row">>) : SubSeq(<<"row">>, 1, n) \in {<<>>, <<"row">>}
<1>1. /\ Append(<<>>, "row") = <<"row">> /\ Append(<<>>, "end") = <<"end">>
      /\ Append(<<"row">>, "end") = <<"row", "end">>
  <2>1. ASSUME NEW S, NEW q \in Seq(S), NEW e \in S, NEW r \in Seq(S), Len(r) = Len(q) + 1,
               r[Len(q) + 1] = e, \A i \in 1 .. Len(q) : r[i] = q[i]
        PROVE  Append(q, e) = r
    <3>1. Len(q) \in Nat
      BY LenProperties
    <3>2. /\ Append(q, e) \in Seq(S) /\ Len(Append(q, e)) = Len(q) + 1
          /\ \A i \in 1 .. Len(q) : Append(q, e)[i] = q[i]
          /\ Append(q, e)[Len(q) + 1] = e
      BY AppendProperties
    <3>3. \A i \in 1 .. Len(q) + 1 : Append(q, e)[i] = r[i]
      BY <2>1, <3>1, <3>2
    <3> QED
      BY <2>1, <3>2, <3>3, SeqEqual
  <2> DEFINE S == {"row", "end"}
  <2>2. /\ <<>> \in Seq(S) /\ <<"row">> \in Seq(S) /\ <<"end">> \in Seq(S)
        /\ <<"row", "end">> \in Seq(S) /\ "row" \in S /\ "end" \in S
    OBVIOUS
  <2>3. /\ Len(<<>>) = 0 /\ Len(<<"row">>) = 1 /\ Len(<<"end">>) = 1 /\ Len(<<"row", "end">>) = 2
        /\ <<"row">>[1] = "row" /\ <<"end">>[1] = "end"
        /\ <<"row", "end">>[1] = "row" /\ <<"row", "end">>[2] = "end"
    OBVIOUS
  <2> HIDE DEF S
  <2>4. Append(<<>>, "row") = <<"row">>
    BY <2>1, <2>2, <2>3
  <2>5. Append(<<>>, "end") = <<"end">>
    BY <2>1, <2>2, <2>3
  <2>6. Append(<<"row">>, "end") = <<"row", "end">>
    <3>1. \A i \in 1 .. Len(<<"row">>) : <<"row", "end">>[i] = <<"row">>[i]
      BY <2>3
    <3>2. Len(<<"row", "end">>) = Len(<<"row">>) + 1 /\ <<"row", "end">>[Len(<<"row">>) + 1] = "end"
      BY <2>3
    <3> QED
      BY <2>1, <2>2, <3>1, <3>2
  <2> QED
    BY <2>4, <2>5, <2>6
<1>2. /\ Head(<<"row">>) = "row" /\ Tail(<<"row">>) = <<>>
      /\ Head(<<"end">>) = "end" /\ Tail(<<"end">>) = <<>>
  OBVIOUS
<1>3. Head(<<"row", "end">>) = "row" /\ Tail(<<"row", "end">>) = <<"end">>
  OBVIOUS
<1>4. \A n \in 0 .. Len(<<>>) : SubSeq(<<>>, 1, n) = <<>>
  OBVIOUS
<1>5. \A n \in 0 .. Len(<<"row">>) : SubSeq(<<"row">>, 1, n) \in {<<>>, <<"row">>}
  <2> SUFFICES ASSUME NEW n \in 0 .. 1 PROVE SubSeq(<<"row">>, 1, n) \in {<<>>, <<"row">>}
    OBVIOUS
  <2>1. n = 0 \/ n = 1
    OBVIOUS
  <2>2. SubSeq(<<"row">>, 1, 0) = <<>>
    OBVIOUS
  <2>3. SubSeq(<<"row">>, 1, 1) = <<"row">>
    <3>1. <<"row">> \in Seq({"row"}) /\ Len(<<"row">>) = 1
      OBVIOUS
    <3> QED
      BY <3>1, SubSeqFull
  <2> QED
    BY <2>1, <2>2, <2>3
<1> QED
  BY <1>1, <1>2, <1>3, <1>4, <1>5

\* The sequences of items a process can leave are different ones.
LEMMA Distinct ==
  /\ <<"row">> # <<>> /\ <<"end">> # <<>> /\ <<"row", "end">> # <<>>
  /\ <<"row">> # <<"end">> /\ <<"row">> # <<"row", "end">> /\ <<"end">> # <<"row", "end">>
OBVIOUS
-----------------------------------------------------------------------------
(***************************************************************************)
(* The types, part by part.                                                *)
(***************************************************************************)
LEMMA LineStep ==
  ASSUME TypeOK, [Next]_vars PROVE LineTypes'
<1>1. LineTypes
  BY TypeParts
<1>2. CASE LineChanges
  <2>1. changes' \in 0 .. MaxChanges /\ UNCHANGED instructed
    BY <1>1, <1>2, Bounds DEF LineChanges, LineTypes
  <2>2. passing' \subseteq Materials
    BY <1>1, <1>2, Bounds DEF LineChanges, LineTypes, Materials
  <2>3. quiet' \in BOOLEAN
    BY <1>2 DEF LineChanges
  <2> QED
    BY <1>1, <2>1, <2>2, <2>3 DEF LineTypes
<1>3. CASE Instruct
  BY <1>1, <1>3, Bounds DEF Instruct, LineTypes
<1>4. CASE UNCHANGED linevars
  BY <1>1, <1>4 DEF linevars, LineTypes
<1> QED
  BY <1>2, <1>3, <1>4, Changes

\* The notes stay of announced materials.
LEMMA NoteStep ==
  ASSUME TypeOK, [Next]_vars PROVE NoteTypes'
<1>1. NoteTypes /\ LineTypes
  BY TypeParts
<1> HIDE DEF WriteOrder
<1>2. CASE Instruct
  <2>1. instructed + 1 \in 0 .. MaxMaterials
    BY <1>1, <1>2, Bounds DEF Instruct, LineTypes
  <2>2. notes' = [notes EXCEPT ![WriteOrder[1]] = instructed + 1] /\ wrote' = 1
    BY <1>2 DEF Instruct
  <2>3. WriteOrder[1] \in Fields
    BY Orders DEF Fields
  <2>4. notes' \in [Fields -> 0 .. MaxMaterials]
    BY <1>1, <2>1, <2>2, <2>3 DEF NoteTypes
  <2> QED
    BY <2>2, <2>4 DEF NoteTypes
<1>3. CASE WriteField
  <2>1. notes' = [notes EXCEPT ![WriteOrder[wrote + 1]] = instructed]
    BY <1>3 DEF WriteField
  <2>2. wrote' = IF wrote + 1 = 3 THEN 0 ELSE wrote + 1
    BY <1>3, Orders DEF WriteField
  <2>3. wrote' \in 0 .. 2
    BY <1>1, <2>2 DEF NoteTypes
  <2> QED
    BY <1>1, <2>1, <2>3 DEF NoteTypes, LineTypes
<1>4. CASE UNCHANGED notevars
  BY <1>1, <1>4 DEF notevars, NoteTypes
<1> QED
  BY <1>2, <1>3, <1>4, Changes

\* The copy stays a copy of the notes; quiet signals stay within the line's changes.
LEMMA SubStep ==
  ASSUME TypeOK, CountInv, [Next]_vars PROVE SubTypes'
<1>1. SubTypes /\ NoteTypes
  BY TypeParts
<1>2. CASE LineChanges
  <2>1. UNCHANGED <<sub, copy, clean>> /\ changes < MaxChanges
    BY <1>2 DEF LineChanges
  <2>2. triggers' \in {triggers, triggers + 1}
    BY <1>2, Numbers DEF LineChanges
  <2>3. triggers <= changes
    BY Numbers DEF CountInv
  <2>4. triggers' \in 0 .. MaxChanges
    BY <2>1, <2>2, <2>3, Numbers, Bounds
  <2> QED
    BY <1>1, <2>1, <2>4 DEF SubTypes
<1>3. CASE Instruct \/ WriteField
  BY <1>1, <1>3 DEF Instruct, WriteField, SubTypes
<1>4. CASE ReadTrigger
  <2>1. triggers' \in 0 .. MaxChanges
    BY <1>1, <1>4, Bounds DEF ReadTrigger, SubTypes
  <2>2. NoCopy \in Copies
    BY Bounds DEF NoCopy, Copies
  <2>3. \/ sub' = 0 /\ copy' = NoCopy /\ clean' = (wrote = 0)
        \/ UNCHANGED <<sub, copy, clean>>
    BY <1>4 DEF ReadTrigger
  <2>4. clean' \in BOOLEAN
    BY <1>1, <2>3, Zenon DEF SubTypes
  <2>5. sub' \in -2 .. 5 /\ copy' \in Copies
    BY <1>1, <2>2, <2>3 DEF SubTypes
  <2> QED
    BY <2>1, <2>4, <2>5 DEF SubTypes
<1>5. CASE CopySlot
  <2>1. sub' \in -2 .. 5
    BY <1>1, <1>5, Orders DEF CopySlot, SubTypes
  <2>2. CopyOrder[sub + 1] \in Slots
    <3>1. sub \in 0 .. 4
      BY <1>5, Orders DEF CopySlot
    <3>2. sub + 1 = 1 \/ sub + 1 = 2 \/ sub + 1 = 3 \/ sub + 1 = 4 \/ sub + 1 = 5
      BY <3>1
    <3> QED
      BY <3>2, Orders DEF Slots
  <2>3. notes[FieldOf(CopyOrder[sub + 1])] \in 0 .. MaxMaterials
    BY <1>1, <2>2, Orders DEF NoteTypes
  <2>4. copy' = [copy EXCEPT ![CopyOrder[sub + 1]] = notes[FieldOf(CopyOrder[sub + 1])]]
    BY <1>5 DEF CopySlot
  <2>5. copy' \in Copies
    BY <1>1, <2>2, <2>3, <2>4 DEF SubTypes, Copies
  <2>6. UNCHANGED <<triggers, clean>>
    BY <1>5 DEF CopySlot
  <2> QED
    BY <1>1, <2>1, <2>5, <2>6 DEF SubTypes
<1>6. CASE PutJob
  <2>1. NoCopy \in Copies
    BY Bounds DEF NoCopy, Copies
  <2> QED
    BY <1>1, <1>6, <2>1 DEF PutJob, SubTypes
<1>7. CASE SubscriberReturns
  BY <1>1, <1>7, Bounds DEF SubscriberReturns, SubTypes
<1>8. CASE UNCHANGED subvars
  BY <1>1, <1>8 DEF subvars, SubTypes
<1> QED
  BY <1>2, <1>3, <1>4, <1>5, <1>6, <1>7, <1>8, Changes DEF Subscriber

\* Every quiet signal, copy and id goes back to a change of the line of its own.
LEMMA CountStep ==
  ASSUME TypeOK, CountInv, [Next]_vars PROVE CountInv'
<1>1. CASE LineChanges
  <2>1. changes' = changes + 1 /\ UNCHANGED <<sub, nextId>>
    BY <1>1 DEF LineChanges, jobvars
  <2>2. triggers' \in {triggers, triggers + 1}
    BY <1>1, Numbers DEF LineChanges
  <2> QED
    BY <2>1, <2>2, Numbers DEF CountInv
<1>2. CASE Instruct
  BY <1>2 DEF Instruct, CountInv, jobvars
<1>3. CASE ReadTrigger
  <2>1. triggers' = triggers - 1 /\ UNCHANGED <<changes, nextId>> /\ sub = -1
    BY <1>3 DEF ReadTrigger, linevars, jobvars
  <2>2. sub' = 0 \/ sub' = sub
    BY <1>3 DEF ReadTrigger
  <2> QED
    BY <2>1, <2>2, Numbers DEF CountInv
<1>4. CASE CopySlot
  <2>1. sub' = sub + 1 /\ sub >= 0 /\ UNCHANGED <<triggers, changes, nextId>>
    BY <1>4, Orders DEF CopySlot, linevars, jobvars
  <2> QED
    BY <2>1, Numbers DEF CountInv
<1>5. CASE PutJob
  <2>1. sub = 5 /\ sub' = -1 /\ nextId' = nextId + 1 /\ UNCHANGED <<triggers, changes>>
    BY <1>5, Orders DEF PutJob, linevars
  <2> QED
    BY <2>1, Numbers DEF CountInv
<1>6. CASE SubscriberReturns
  <2>1. sub = -1 /\ sub' = -2 /\ triggers' = 0 /\ UNCHANGED <<changes, nextId>>
    BY <1>6 DEF SubscriberReturns, linevars, jobvars
  <2> QED
    BY <2>1, Numbers DEF CountInv
<1>7. CASE WriteField \/ GetJob \/ CloseDropsJob
  BY <1>7 DEF WriteField, GetJob, CloseDropsJob, CountInv, linevars, subvars, jobvars
<1>8. CASE UNCHANGED <<linevars, subvars, jobvars>>
  BY <1>8 DEF CountInv, linevars, subvars, jobvars
<1> QED
  BY <1>1, <1>2, <1>3, <1>4, <1>5, <1>6, <1>7, <1>8, Changes DEF Subscriber
-----------------------------------------------------------------------------
\* The job that is queued next has an id that no other job has had.
LEMMA NextJob ==
  ASSUME TypeOK, CountInv, PutJob
  PROVE  /\ nextId \in JobIds /\ [id |-> nextId, dir |-> DirOf(copy)] \in JobRecords
         /\ nextId' = nextId + 1 /\ jobs' = Append(jobs, [id |-> nextId, dir |-> DirOf(copy)])
<1>1. sub = 5 /\ nextId' = nextId + 1
      /\ jobs' = Append(jobs, [id |-> nextId, dir |-> DirOf(copy)])
  BY Orders DEF PutJob
<1>2. changes \in 0 .. MaxChanges /\ copy \in Copies
  BY TypeParts DEF LineTypes, SubTypes
<1>3. nextId \in JobIds
  BY <1>1, <1>2, Numbers, Bounds DEF CountInv, JobIds
<1>4. DirOf(copy) \in 0 .. MaxMaterials
  BY <1>2, Bounds DEF DirOf, Copies, Slots
<1> QED
  BY <1>1, <1>3, <1>4, Bounds DEF JobRecords, JobIds

\* What is taken from the queue, and what is left there.
LEMMA FirstJob ==
  ASSUME TypeOK, jobs # <<>>
  PROVE  /\ Head(jobs) \in JobRecords /\ Rest \in Seq(JobRecords) /\ Head(jobs) = jobs[1]
         /\ Len(jobs) > 0 /\ Len(Rest) = Len(jobs) - 1 /\ Len(jobs) \in Nat
         /\ \A i \in 1 .. Len(jobs) - 1 : Rest[i] = jobs[i + 1]
<1>1. jobs \in Seq(JobRecords)
  BY TypeParts DEF JobTypes
<1> QED
  BY <1>1, Parts DEF Rest

\* A queued job keeps the type of a job, and ids do not run out.
LEMMA JobStep ==
  ASSUME TypeOK, CountInv, [Next]_vars PROVE JobTypes'
<1>1. JobTypes
  BY TypeParts
<1>2. CASE PutJob
  <2>1. nextId' \in 1 .. MaxChanges + 1
    BY <1>2, NextJob, Bounds DEF JobIds
  <2>2. jobs' \in Seq(JobRecords)
    BY <1>1, <1>2, NextJob, Longer DEF JobTypes
  <2> QED
    BY <2>1, <2>2 DEF JobTypes
<1>3. CASE GetJob \/ CloseDropsJob
  <2>1. jobs # <<>> /\ jobs' = Rest /\ UNCHANGED nextId
    BY <1>3 DEF GetJob, CloseDropsJob
  <2> QED
    BY <1>1, <2>1, FirstJob DEF JobTypes
<1>4. CASE UNCHANGED jobvars
  BY <1>1, <1>4 DEF jobvars, JobTypes
<1> QED
  BY <1>2, <1>3, <1>4, Changes

\* The inference thread's job is one from the queue, or none.
LEMMA InfStep ==
  ASSUME TypeOK, [Next]_vars PROVE InfTypes'
<1>1. InfTypes
  BY TypeParts
<1>2. CASE GetJob
  BY <1>1, <1>2, FirstJob DEF GetJob, InfTypes
<1>3. CASE Report
  <2>1. NoJob \in JobRecords
    BY Bounds DEF NoJob, JobRecords
  <2> QED
    BY <1>3, <2>1 DEF Report, InfTypes
<1>4. CASE InferenceReturns \/ SeesJob \/ WriteResults \/ WriteFails
  BY <1>1, <1>4 DEF InferenceReturns, SeesJob, WriteResults, WriteFails, InfTypes
<1>5. CASE UNCHANGED infvars
  BY <1>1, <1>5 DEF infvars, InfTypes
<1>6. CASE \E w \in Workers : Collect(w)
  BY <1>1, <1>6 DEF Collect, infvars, InfTypes
<1> QED
  BY <1>2, <1>3, <1>4, <1>5, <1>6, Changes DEF InferenceThread

\* Every id in the system has been given out, and nextId has not.
LEMMA IdsStep ==
  ASSUME TypeOK, CountInv, IdsInv, [Next]_vars PROVE IdsInv'
<1>1. nextId \in Nat \ {0} /\ jobs \in Seq(JobRecords) /\ reported \in Seq(JobIds)
  BY TypeParts, Numbers DEF JobTypes, OutTypes
<1>2. CASE PutJob
  <2>1. UNCHANGED <<infvars, reported, dropped>>
    BY <1>2 DEF PutJob, outvars, closevars
  <2>2. Ids \subseteq Ids' /\ nextId \in Ids'
    BY <1>1, <1>2, NextJob DEF Ids
  <2>3. ASSUME NEW i \in 1 .. Len(jobs') PROVE jobs'[i].id \in Ids'
    <3>1. /\ Len(jobs') = Len(jobs) + 1 /\ jobs'[Len(jobs) + 1].id = nextId
          /\ \A k \in 1 .. Len(jobs) : jobs'[k] = jobs[k]
      BY <1>1, <1>2, NextJob, Longer
    <3>2. Len(jobs) \in Nat
      BY <1>1, Parts
    <3>3. CASE i = Len(jobs) + 1
      BY <2>2, <3>1, <3>3
    <3>4. CASE i \in 1 .. Len(jobs)
      BY <2>2, <3>1, <3>4 DEF IdsInv
    <3> QED
      BY <3>1, <3>2, <3>3, <3>4
  <2>4. Taken' => job'.id \in Ids'
    BY <2>1, <2>2 DEF IdsInv, Taken, infvars
  <2>5. (\A i \in 1 .. Len(reported') : reported'[i] \in Ids') /\ dropped' \subseteq Ids'
    BY <2>1, <2>2 DEF IdsInv
  <2> QED
    BY <2>3, <2>4, <2>5 DEF IdsInv
<1>3. CASE GetJob \/ CloseDropsJob
  <2>1. jobs # <<>> /\ jobs' = Rest /\ UNCHANGED <<nextId, reported>>
    BY <1>3 DEF GetJob, CloseDropsJob, outvars
  <2>2. Ids' = Ids
    BY <2>1 DEF Ids
  <2>3. ASSUME NEW i \in 1 .. Len(jobs') PROVE jobs'[i].id \in Ids'
    <3>1. i \in 1 .. Len(jobs) - 1 /\ i + 1 \in 1 .. Len(jobs)
      BY <2>1, FirstJob
    <3>2. jobs'[i] = jobs[i + 1]
      BY <2>1, <3>1, FirstJob
    <3> QED
      BY <2>2, <3>1, <3>2 DEF IdsInv
  <2>4. Head(jobs).id \in Ids
    <3>1. 1 \in 1 .. Len(jobs) /\ Head(jobs) = jobs[1]
      BY <2>1, FirstJob
    <3> QED
      BY <3>1 DEF IdsInv
  <2>5. job' = Head(jobs) \/ UNCHANGED infvars
    BY <1>3 DEF GetJob, CloseDropsJob
  <2>6. Taken' => job'.id \in Ids'
    BY <2>2, <2>4, <2>5 DEF IdsInv, Taken, infvars
  <2>7. dropped' \subseteq Ids'
    BY <1>3, <2>2, <2>4 DEF GetJob, CloseDropsJob, closevars, IdsInv
  <2> QED
    BY <2>1, <2>2, <2>3, <2>6, <2>7 DEF IdsInv
<1>4. CASE Report
  <2>1. UNCHANGED <<jobvars, dropped>> /\ inf = "report" /\ inf' = "test"
        /\ reported' = Append(reported, job.id)
    BY <1>4 DEF Report, closevars
  <2>2. job.id \in Ids /\ Ids' = Ids
    BY <2>1 DEF IdsInv, Taken, Ids, jobvars
  <2>3. job.id \in JobIds
    <3>1. job.id \in 0 .. MaxChanges
      BY TypeParts DEF InfTypes, JobRecords
    <3> QED
      BY <1>1, <2>2, <3>1, Bounds DEF Ids, JobIds
  <2>4. ASSUME NEW i \in 1 .. Len(reported') PROVE reported'[i] \in Ids'
    <3>1. /\ Len(reported') = Len(reported) + 1 /\ reported'[Len(reported) + 1] = job.id
          /\ \A k \in 1 .. Len(reported) : reported'[k] = reported[k]
      BY <1>1, <2>1, <2>3, Longer
    <3>2. Len(reported) \in Nat
      BY <1>1, Parts
    <3>3. CASE i = Len(reported) + 1
      BY <2>2, <3>1, <3>3
    <3>4. CASE i \in 1 .. Len(reported)
      BY <2>2, <3>1, <3>4 DEF IdsInv
    <3> QED
      BY <3>1, <3>2, <3>3, <3>4
  <2> QED
    BY <2>1, <2>2, <2>4 DEF IdsInv, Taken, jobvars
<1>5. CASE InferenceReturns \/ SeesJob \/ WriteResults \/ WriteFails
  <2>1. UNCHANGED <<jobvars, job, reported, dropped>>
    BY <1>5 DEF InferenceReturns, SeesJob, WriteResults, WriteFails, outvars, closevars
  <2>2. Taken' => Taken
    BY <1>5 DEF InferenceReturns, SeesJob, WriteResults, WriteFails, Taken
  <2> QED
    BY <2>1, <2>2 DEF IdsInv, Ids, jobvars
<1>6. CASE UNCHANGED <<jobvars, infvars, reported, dropped>>
  BY <1>6 DEF IdsInv, Ids, Taken, jobvars, infvars
<1>7. CASE \E w \in Workers : Collect(w)
  BY <1>7 DEF Collect, IdsInv, Ids, Taken, jobvars, infvars, outvars, closevars
<1>8. CASE ~(PutJob \/ GetJob \/ CloseDropsJob \/ InferenceThread)
  <2>1. UNCHANGED <<jobvars, infvars, outvars>>
    BY <1>8, Changes DEF InferenceThread
  <2>2. UNCHANGED dropped
    BY <1>8, Changes DEF Close, Gui, WriteField, CloseWaited, CloseSeesJob, CloseStops, CloseJoined,
                         closevars
  <2> QED
    BY <1>6, <2>1, <2>2 DEF outvars
<1> QED
  BY <1>2, <1>3, <1>4, <1>5, <1>7, <1>8 DEF InferenceThread
-----------------------------------------------------------------------------
\* What a process has put in the result queue, one step at a time.
LEMMA PipeStates ==
  /\ \A q \in PipeOf("infers") : q = <<>> /\ Append(q, "row") = <<"row">>
  /\ \A q \in PipeOf("inferred") : /\ Append(q, "end") \in PipeOf("ended")
                                   /\ HasRow(Append(q, "end")) <=> HasRow(q)
                                   /\ \A n \in 0 .. Len(q) : /\ SubSeq(q, 1, n) \in PipeOf("dead")
                                                             /\ HasRow(SubSeq(q, 1, n)) => HasRow(q)
  /\ \A q \in PipeOf("started") : /\ \A n \in 0 .. Len(q) : SubSeq(q, 1, n) = <<>>
                                  /\ q \in PipeOf("infers") /\ q \in PipeOf("inferred")
                                  /\ q = <<>>
  /\ <<"row">> \in PipeOf("inferred") /\ HasRow(<<"row">>) /\ ~HasRow(<<>>)
  /\ <<>> \in PipeOf("dead")
<1> USE Items, Distinct DEF PipeOf, HasRow
<1>1. \A q \in PipeOf("infers") : q = <<>> /\ Append(q, "row") = <<"row">>
  OBVIOUS
<1>2. ASSUME NEW q \in PipeOf("inferred")
      PROVE  /\ Append(q, "end") \in PipeOf("ended") /\ (HasRow(Append(q, "end")) <=> HasRow(q))
             /\ \A n \in 0 .. Len(q) : /\ SubSeq(q, 1, n) \in PipeOf("dead")
                                       /\ HasRow(SubSeq(q, 1, n)) => HasRow(q)
  <2>1. CASE q = <<>>
    BY <2>1
  <2>2. CASE q = <<"row">>
    BY <2>2
  <2> QED
    BY <2>1, <2>2
<1>3. ASSUME NEW q \in PipeOf("started")
      PROVE  /\ \A n \in 0 .. Len(q) : SubSeq(q, 1, n) = <<>>
             /\ q \in PipeOf("infers") /\ q \in PipeOf("inferred") /\ q = <<>>
  OBVIOUS
<1>4. <<"row">> \in PipeOf("inferred") /\ HasRow(<<"row">>) /\ ~HasRow(<<>>) /\ <<>> \in PipeOf("dead")
  OBVIOUS
<1> QED
  BY <1>1, <1>2, <1>3, <1>4

\* Taking an item leaves what may be there; only the last is an end signal.
LEMMA PipeTail ==
  ASSUME NEW state \in {"started", "infers", "inferred", "ended", "dead"},
         NEW q \in PipeOf(state), q # <<>>
  PROVE  /\ Tail(q) \in PipeOf(state) /\ ~HasRow(Tail(q))
         /\ Head(q) = "end" => state = "ended" /\ Tail(q) = <<>> /\ ~HasRow(q)
         /\ Head(q) # "end" => HasRow(q) /\ (state = "ended" => Tail(q) # <<>>)
<1> USE Items, Distinct DEF PipeOf, HasRow
<1>1. CASE q = <<"row">>
  BY <1>1
<1>2. CASE q = <<"end">>
  BY <1>2
<1>3. CASE q = <<"row", "end">>
  BY <1>3
<1> QED
  BY <1>1, <1>2, <1>3

(***************************************************************************)
(* The collector has counted the processes whose end signal it has taken.  *)
(***************************************************************************)
Finished == {w \in Workers : proc[w] = "ended" /\ pipe[w] = <<>>}
EndsInv == inf = "collect" => ends = Cardinality(Finished)

\* The finished processes are finitely many.
LEMMA FinishedIsFinite == IsFiniteSet(Finished) /\ Finished \in SUBSET Workers
BY Bounds, FS_Subset DEF Finished

\* When all end signals are there, every process has ended and its items are taken.
LEMMA AllHaveEnded ==
  ASSUME EndsInv, inf = "collect", AllEnded
  PROVE  \A w \in Workers : proc[w] = "ended" /\ pipe[w] = <<>>
<1>1. Finished = Workers
  BY Bounds, FinishedIsFinite, FS_Subset DEF EndsInv, AllEnded
<1> QED
  BY <1>1 DEF Finished

\* Each end signal that is taken finishes one process more, and nothing else does.
LEMMA EndsStep ==
  ASSUME TypeOK, PipeInv, EndsInv, [Next]_vars PROVE EndsInv'
<1>1. WorkTypes /\ InfTypes /\ FileTypes
  BY TypeParts
<1>2. CASE GetJob
  <2>1. \A w \in Workers : proc'[w] = "started"
    BY <1>2 DEF GetJob
  <2>2. Finished' = {} /\ ends' = 0
    BY <1>2, <2>1 DEF Finished, GetJob
  <2> QED
    BY <2>2, FS_EmptySet DEF EndsInv
<1>3. CASE Report \/ InferenceReturns \/ SeesJob \/ WriteResults \/ WriteFails
  BY <1>3 DEF Report, InferenceReturns, SeesJob, WriteResults, WriteFails, EndsInv
<1>4. ASSUME NEW w \in Workers, Process(w) \/ Die(w) PROVE EndsInv'
  <2>1. UNCHANGED <<infvars, ends>>
    BY <1>4 DEF Process, List, Infer, EndSignal, Die
  <2>2. proc[w] # "ended" /\ (proc'[w] = "ended" => pipe'[w] # <<>>)
    <3>1. CASE List(w)
      BY <1>1, <3>1 DEF List, AfterListing, WorkTypes
    <3>2. CASE Infer(w)
      BY <1>1, <3>2 DEF Infer, WorkTypes
    <3>3. CASE EndSignal(w)
      <4>1. pipe[w] \in PipeOf("inferred")
        BY <3>3 DEF EndSignal, PipeInv
      <4>2. Append(pipe[w], "end") # <<>>
        BY <4>1, Items, Distinct DEF PipeOf
      <4> QED
        BY <1>1, <3>3, <4>2 DEF EndSignal, WorkTypes
    <3>4. CASE Die(w)
      BY <1>1, <3>4 DEF Die, WorkTypes
    <3> QED
      BY <1>4, <3>1, <3>2, <3>3, <3>4 DEF Process
  <2>3. ASSUME NEW v \in Workers, v # w PROVE proc'[v] = proc[v] /\ pipe'[v] = pipe[v]
    BY <1>1, <1>4, <2>3 DEF Process, List, Infer, EndSignal, Die, WorkTypes
  <2>4. Finished' = Finished
    BY <2>2, <2>3 DEF Finished
  <2> QED
    BY <2>1, <2>4 DEF EndsInv, infvars
<1>5. ASSUME NEW w \in Workers, Collect(w) PROVE EndsInv'
  <2>1. UNCHANGED <<infvars, proc>> /\ pipe[w] # <<>> /\ inf = "collect"
    BY <1>5 DEF Collect
  <2>2. ASSUME NEW v \in Workers PROVE pipe'[v] = IF v = w THEN Tail(pipe[v]) ELSE pipe[v]
    BY <1>1, <1>5 DEF Collect, WorkTypes
  <2>3. pipe[w] \in PipeOf(proc[w]) /\ proc[w] # "none"
    BY <2>1 DEF PipeInv
  <2>4. proc[w] \in {"started", "infers", "inferred", "ended", "dead"}
    BY <1>1, <2>3 DEF WorkTypes
  <2>5. CASE Head(pipe[w]) = "end"
    <3>1. proc[w] = "ended" /\ Tail(pipe[w]) = <<>>
      BY <2>1, <2>3, <2>4, <2>5, PipeTail
    <3>2. Finished' = Finished \cup {w}
      BY <2>1, <2>2, <3>1 DEF Finished
    <3>3. w \notin Finished
      BY <2>1 DEF Finished
    <3>4. ends' = ends + 1 /\ ends = Cardinality(Finished)
      BY <1>5, <2>1, <2>5 DEF Collect, EndsInv
    <3> QED
      BY <3>2, <3>3, <3>4, FinishedIsFinite, FS_AddElement DEF EndsInv
  <2>6. CASE Head(pipe[w]) # "end"
    <3>1. proc[w] = "ended" => Tail(pipe[w]) # <<>>
      BY <2>1, <2>3, <2>4, <2>6, PipeTail
    <3>2. Finished' = Finished
      BY <2>1, <2>2, <3>1 DEF Finished
    <3>3. ends' = ends
      BY <1>5, <2>6 DEF Collect
    <3> QED
      BY <2>1, <3>2, <3>3 DEF EndsInv, infvars
  <2> QED
    BY <2>5, <2>6
<1>6. CASE UNCHANGED <<infvars, workvars>>
  BY <1>6 DEF EndsInv, Finished, infvars, workvars
<1> QED
  BY <1>2, <1>3, <1>4, <1>5, <1>6, Changes DEF InferenceThread

\* No step puts anything else into the result queue.
LEMMA PipeStep ==
  ASSUME TypeOK, PipeInv, EndsInv, [Next]_vars PROVE PipeInv'
<1>1. WorkTypes /\ InfTypes /\ FileTypes
  BY TypeParts
<1>2. CASE GetJob
  <2>1. inf = "get" /\ inf' = "collect"
    BY <1>2 DEF GetJob
  <2>2. ASSUME NEW w \in Workers PROVE proc'[w] = "started" /\ pipe'[w] = <<>>
    BY <1>2 DEF GetJob
  <2> QED
    BY <2>1, <2>2, PipeStates DEF PipeInv, PipeOf
<1>3. CASE Report
  <2>1. inf' = "test" /\ \A w \in Workers : proc'[w] = "none"
    BY <1>3 DEF Report
  <2> QED
    BY <2>1 DEF PipeInv
<1>4. ASSUME NEW w \in Workers, List(w) PROVE PipeInv'
  <2>1. UNCHANGED <<infvars, pipe>> /\ proc[w] = "started"
    BY <1>4 DEF List
  <2>2. proc' = [proc EXCEPT ![w] = AfterListing(<<job.dir, w>>)]
    BY <1>4 DEF List
  <2>3. AfterListing(<<job.dir, w>>) \in {"infers", "inferred"}
        /\ (AfterListing(<<job.dir, w>>) = "infers" => <<job.dir, w>> \in Images)
    BY <1>1 DEF AfterListing, FileTypes
  <2>4. ASSUME NEW v \in Workers
        PROVE  proc'[v] = IF v = w THEN AfterListing(<<job.dir, w>>) ELSE proc[v]
    BY <1>1, <2>2 DEF WorkTypes
  <2>5. pipe[w] \in PipeOf("started") /\ inf = "collect"
    BY <2>1 DEF PipeInv
  <2>6. pipe[w] \in PipeOf("infers") /\ pipe[w] \in PipeOf("inferred") /\ ~HasRow(pipe[w])
    BY <2>5, PipeStates
  <2> QED
    BY <2>1, <2>3, <2>4, <2>5, <2>6 DEF PipeInv, infvars
<1>5. ASSUME NEW w \in Workers, Infer(w) PROVE PipeInv'
  <2>1. UNCHANGED infvars /\ proc[w] = "infers"
    BY <1>5 DEF Infer
  <2>2. ASSUME NEW v \in Workers
        PROVE  /\ proc'[v] = IF v = w THEN "inferred" ELSE proc[v]
               /\ pipe'[v] = IF v = w THEN Append(pipe[v], "row") ELSE pipe[v]
    BY <1>1, <1>5 DEF Infer, WorkTypes
  <2>3. pipe[w] \in PipeOf("infers") /\ inf = "collect" /\ <<job.dir, w>> \in Images
    BY <2>1 DEF PipeInv
  <2>4. pipe'[w] = <<"row">> /\ pipe'[w] \in PipeOf("inferred")
    BY <2>2, <2>3, PipeStates
  <2> QED
    BY <2>1, <2>2, <2>3, <2>4 DEF PipeInv, infvars
<1>6. ASSUME NEW w \in Workers, EndSignal(w) PROVE PipeInv'
  <2>1. UNCHANGED infvars /\ proc[w] = "inferred"
    BY <1>6 DEF EndSignal
  <2>2. ASSUME NEW v \in Workers
        PROVE  /\ proc'[v] = IF v = w THEN "ended" ELSE proc[v]
               /\ pipe'[v] = IF v = w THEN Append(pipe[v], "end") ELSE pipe[v]
    BY <1>1, <1>6 DEF EndSignal, WorkTypes
  <2>3. pipe[w] \in PipeOf("inferred") /\ inf = "collect"
    BY <2>1 DEF PipeInv
  <2>4. pipe'[w] \in PipeOf("ended") /\ (HasRow(pipe'[w]) <=> HasRow(pipe[w]))
    BY <2>2, <2>3, PipeStates
  <2> QED
    BY <2>1, <2>2, <2>3, <2>4 DEF PipeInv, infvars
<1>7. ASSUME NEW w \in Workers, Die(w) PROVE PipeInv'
  <2>1. UNCHANGED infvars /\ proc[w] \in {"started", "infers", "inferred"}
    BY <1>7 DEF Die
  <2>2. PICK n \in 0 .. Len(pipe[w]) : pipe' = [pipe EXCEPT ![w] = SubSeq(pipe[w], 1, n)]
    BY <1>7 DEF Die
  <2>3. ASSUME NEW v \in Workers
        PROVE  /\ proc'[v] = IF v = w THEN "dead" ELSE proc[v]
               /\ pipe'[v] = IF v = w THEN SubSeq(pipe[w], 1, n) ELSE pipe[v]
    BY <1>1, <1>7, <2>2 DEF Die, WorkTypes
  <2>4. pipe[w] \in PipeOf(proc[w]) /\ inf = "collect"
    BY <2>1 DEF PipeInv
  <2>5. pipe[w] \in PipeOf("inferred")
    BY <2>1, <2>4 DEF PipeOf
  <2>6. pipe'[w] \in PipeOf("dead") /\ (HasRow(pipe'[w]) => HasRow(pipe[w]))
    BY <2>2, <2>3, <2>5, PipeStates
  <2> QED
    BY <2>1, <2>3, <2>4, <2>6 DEF PipeInv, infvars
<1>8. ASSUME NEW w \in Workers, Collect(w) PROVE PipeInv'
  <2>1. UNCHANGED <<infvars, proc>> /\ pipe[w] # <<>> /\ inf = "collect"
    BY <1>8 DEF Collect
  <2>2. ASSUME NEW v \in Workers PROVE pipe'[v] = IF v = w THEN Tail(pipe[v]) ELSE pipe[v]
    BY <1>1, <1>8 DEF Collect, WorkTypes
  <2>3. pipe[w] \in PipeOf(proc[w]) /\ proc[w] # "none"
    BY <2>1 DEF PipeInv
  <2>4. pipe'[w] \in PipeOf(proc[w]) /\ ~HasRow(pipe'[w])
    BY <1>1, <2>1, <2>2, <2>3, PipeTail DEF WorkTypes
  <2> QED
    BY <2>1, <2>2, <2>4 DEF PipeInv, infvars
<1>9. CASE InferenceReturns \/ SeesJob
  <2>1. UNCHANGED workvars /\ inf # "collect" /\ inf' \notin {"collect", "report"}
    BY <1>9 DEF InferenceReturns, SeesJob
  <2> QED
    BY <2>1 DEF PipeInv, workvars
<1>10. CASE WriteResults \/ WriteFails
  <2>1. UNCHANGED workvars /\ inf' # "collect"
    BY <1>10 DEF WriteResults, WriteFails
  <2>2. \A w \in Workers : proc[w] = "ended"
    BY <1>10, AllHaveEnded DEF WriteResults, WriteFails
  <2> QED
    BY <2>1, <2>2 DEF PipeInv, workvars
<1>11. CASE UNCHANGED <<infvars, workvars>>
  BY <1>11 DEF PipeInv, infvars, workvars
<1> QED
  BY <1>2, <1>3, <1>4, <1>5, <1>6, <1>7, <1>8, <1>9, <1>10, <1>11, Changes DEF InferenceThread, Process
-----------------------------------------------------------------------------
\* A row is of an image there is, and no process signals its end twice.
LEMMA WorkStep ==
  ASSUME TypeOK, PipeInv, [Next]_vars PROVE WorkTypes'
<1>1. WorkTypes /\ FileTypes
  BY TypeParts
<1> DEFINE states == {"none", "started", "infers", "inferred", "ended", "dead"}
<1>2. CASE GetJob
  BY <1>1, <1>2, Bounds DEF GetJob, WorkTypes
<1>3. CASE Report
  BY <1>1, <1>3, Bounds DEF Report, WorkTypes
<1>4. ASSUME NEW w \in Workers, Process(w) \/ Die(w) PROVE WorkTypes'
  <2>1. UNCHANGED <<ends, rows>>
    BY <1>4 DEF Process, List, Infer, EndSignal, Die
  <2>2. \E state \in states : proc' = [proc EXCEPT ![w] = state]
    BY <1>4 DEF Process, List, Infer, EndSignal, Die, AfterListing
  <2>3. proc' \in [Workers -> states]
    BY <1>1, <2>2 DEF WorkTypes
  <2>4. pipe' \in [Workers -> Seq({"row", "end"})]
    <3>1. pipe[w] \in Seq({"row", "end"})
      BY <1>1 DEF WorkTypes
    <3>2. Append(pipe[w], "row") \in Seq({"row", "end"}) /\ Append(pipe[w], "end") \in Seq({"row", "end"})
      BY <3>1, Longer
    <3>3. ASSUME NEW n \in 0 .. Len(pipe[w]) PROVE SubSeq(pipe[w], 1, n) \in Seq({"row", "end"})
      <4>1. n \in Int /\ \A i \in 1 .. n : pipe[w][i] \in {"row", "end"}
        BY <3>1, Parts
      <4> QED
        BY <4>1, SubSeqProperties
    <3>4. CASE List(w)
      BY <1>1, <3>4 DEF List, WorkTypes
    <3>5. CASE Infer(w)
      BY <1>1, <3>2, <3>5 DEF Infer, WorkTypes
    <3>6. CASE EndSignal(w)
      BY <1>1, <3>2, <3>6 DEF EndSignal, WorkTypes
    <3>7. CASE Die(w)
      <4>1. PICK n \in 0 .. Len(pipe[w]) : pipe' = [pipe EXCEPT ![w] = SubSeq(pipe[w], 1, n)]
        BY <3>7 DEF Die
      <4> QED
        BY <1>1, <3>3, <4>1 DEF WorkTypes
    <3> QED
      BY <1>4, <3>4, <3>5, <3>6, <3>7 DEF Process
  <2> QED
    BY <1>1, <2>1, <2>3, <2>4 DEF WorkTypes
<1>5. ASSUME NEW w \in Workers, Collect(w) PROVE WorkTypes'
  <2>1. UNCHANGED proc /\ pipe[w] # <<>> /\ inf = "collect" /\ ends < Cardinality(Workers)
        /\ pipe' = [pipe EXCEPT ![w] = Tail(pipe[w])]
    BY <1>5 DEF Collect
  <2>2. pipe[w] \in PipeOf(proc[w]) /\ proc[w] # "none"
    BY <2>1 DEF PipeInv
  <2>3. Tail(pipe[w]) \in Seq({"row", "end"})
    BY <1>1, <2>1, Parts DEF WorkTypes
  <2>4. pipe' \in [Workers -> Seq({"row", "end"})]
    BY <1>1, <2>1, <2>3 DEF WorkTypes
  <2>5. ends' \in 0 .. Cardinality(Workers)
    BY <1>1, <1>5, <2>1, Bounds DEF Collect, WorkTypes
  <2>6. Head(pipe[w]) # "end" => <<job.dir, w>> \in Images
    BY <1>1, <2>1, <2>2, PipeTail DEF PipeInv, WorkTypes
  <2>7. rows' \subseteq Images
    BY <1>1, <1>5, <2>6 DEF Collect, WorkTypes
  <2> QED
    BY <1>1, <2>1, <2>4, <2>5, <2>7 DEF WorkTypes
<1>6. CASE UNCHANGED workvars
  BY <1>1, <1>6 DEF workvars, WorkTypes
<1> QED
  BY <1>2, <1>3, <1>4, <1>5, <1>6, Changes

\* A job that is being worked on has an id of its own.
LEMMA JobInHand ==
  ASSUME TypeOK, CountInv, IdsInv
  PROVE  /\ Taken => job.id \in JobIds
         /\ jobs # <<>> => Head(jobs).id \in JobIds
         /\ job.dir \in 0 .. MaxMaterials
<1>1. /\ nextId \in 1 .. MaxChanges + 1 /\ jobs \in Seq(JobRecords) /\ job \in JobRecords
  BY TypeParts DEF JobTypes, InfTypes
<1>2. Ids \subseteq JobIds
  BY <1>1, Bounds DEF Ids, JobIds
<1>3. jobs # <<>> => Head(jobs).id \in Ids
  <2> SUFFICES ASSUME jobs # <<>> PROVE Head(jobs).id \in Ids
    OBVIOUS
  <2>1. 1 \in 1 .. Len(jobs) /\ Head(jobs) = jobs[1]
    BY FirstJob
  <2> QED
    BY <2>1 DEF IdsInv
<1> QED
  BY <1>1, <1>2, <1>3 DEF IdsInv, JobRecords

\* Only jobs that were queued are reported.
LEMMA OutStep ==
  ASSUME TypeOK, CountInv, IdsInv, [Next]_vars PROVE OutTypes'
<1>1. OutTypes /\ WorkTypes
  BY TypeParts
<1>2. CASE WriteResults
  BY <1>1, <1>2 DEF WriteResults, OutTypes, WorkTypes
<1>3. CASE Report
  <2>1. job.id \in JobIds
    BY <1>3, JobInHand DEF Report, Taken
  <2> QED
    BY <1>1, <1>3, <2>1, Longer DEF Report, OutTypes
<1>4. CASE UNCHANGED outvars
  BY <1>1, <1>4 DEF outvars, OutTypes
<1> QED
  BY <1>2, <1>3, <1>4, Changes

\* Only jobs that were queued are dropped.
LEMMA CloseTypesStep ==
  ASSUME TypeOK, CountInv, IdsInv, [Next]_vars PROVE CloseTypes'
<1>1. CloseTypes
  BY TypeParts
<1>2. CASE CloseDropsJob
  <2>1. Head(jobs).id \in JobIds
    BY <1>2, JobInHand DEF CloseDropsJob
  <2> QED
    BY <1>1, <1>2, <2>1 DEF CloseDropsJob, CloseStep, CloseTypes
<1>3. CASE Close \/ CloseWaited \/ CloseSeesJob \/ CloseStops \/ CloseJoined
  BY <1>1, <1>3 DEF Close, CloseWaited, CloseSeesJob, CloseStops, CloseJoined, CloseStep, CloseTypes
<1>4. CASE WriteField \/ UNCHANGED closevars
  BY <1>1, <1>4 DEF WriteField, closevars, CloseTypes
<1> QED
  BY <1>2, <1>3, <1>4, Changes DEF Gui

\* Directories and deletions are of announced materials.
LEMMA FileStep ==
  ASSUME TypeOK, CountInv, IdsInv, [Next]_vars PROVE FileTypes'
<1> DEFINE records == [id : JobIds, dir : 0 .. MaxMaterials, attempt : 1 .. Attempts]
<1>1. FileTypes /\ LineTypes
  BY TypeParts
<1>2. ASSUME NEW image \in Images, Arrive(image) PROVE FileTypes'
  BY <1>1, <1>2 DEF Arrive, FileTypes
<1>3. CASE Instruct
  <2>1. instructed + 1 \in Materials
    BY <1>1, <1>3, Bounds DEF Instruct, LineTypes, Materials
  <2> QED
    BY <1>1, <1>3, <2>1 DEF Instruct, FileTypes
<1>4. CASE Report
  <2>1. job.id \in JobIds /\ job.dir \in 0 .. MaxMaterials
    BY <1>4, JobInHand DEF Report, Taken
  <2>2. [id |-> job.id, dir |-> job.dir, attempt |-> 1] \in records
    BY <2>1 DEF Attempts
  <2> QED
    BY <1>1, <1>4, <2>2 DEF Report, FileTypes
<1>5. ASSUME NEW d \in deletions, NEW image \in disk, RemoveImage(d, image) PROVE FileTypes'
  BY <1>1, <1>5 DEF RemoveImage, FileTypes
<1>6. ASSUME NEW d \in deletions, RemoveDir(d) PROVE FileTypes'
  BY <1>1, <1>6 DEF RemoveDir, FileTypes
<1>7. ASSUME NEW d \in deletions, AttemptFails(d) PROVE FileTypes'
  <2>1. d \in records
    BY <1>1 DEF FileTypes
  <2>2. d.attempt < Attempts => [d EXCEPT !.attempt = d.attempt + 1] \in records
    BY <2>1 DEF Attempts
  <2>3. deletions' = (deletions \ {d}) \cup
          (IF d.attempt < Attempts THEN {[d EXCEPT !.attempt = d.attempt + 1]} ELSE {})
        /\ UNCHANGED <<dirs, disk>>
    BY <1>7 DEF AttemptFails
  <2>4. deletions' \subseteq records
    BY <1>1, <2>2, <2>3 DEF FileTypes
  <2> QED
    BY <1>1, <2>3, <2>4 DEF FileTypes
<1>8. CASE UNCHANGED filevars
  BY <1>1, <1>8 DEF filevars, FileTypes
<1> QED
  BY <1>2, <1>3, <1>4, <1>5, <1>6, <1>7, <1>8, Changes DEF Deletion

\* The history stays of images and of at most two jobs counted.
LEMMA HistStep ==
  ASSUME TypeOK, [Next]_vars PROVE HistTypes'
<1>1. HistTypes
  BY TypeParts
<1>2. ASSUME NEW image \in Images, Arrive(image) PROVE HistTypes'
  BY <1>1, <1>2 DEF Arrive, HistTypes
<1>3. ASSUME NEW w \in Workers, List(w) PROVE HistTypes'
  BY <1>1, <1>3 DEF List, HistTypes
<1>4. CASE PutJob
  <2>1. \A m \in Materials : jobsFor[m] \in 0 .. 2
    BY <1>1 DEF HistTypes
  <2>2. jobsFor' \in [Materials -> 0 .. 2]
    BY <1>4, <2>1 DEF PutJob
  <2> QED
    BY <1>1, <1>4, <2>2 DEF PutJob, HistTypes
<1>5. CASE UNCHANGED histvars
  BY <1>1, <1>5 DEF histvars, HistTypes
<1> QED
  BY <1>2, <1>3, <1>4, <1>5, Changes

\* Faults stay within their bounds.
LEMMA FaultStep ==
  ASSUME TypeOK, [Next]_vars PROVE FaultTypes'
<1>1. FaultTypes
  BY TypeParts
<1>2. CASE WriteFails \/ \E w \in Workers : Die(w)
  BY <1>1, <1>2, Bounds DEF WriteFails, Die, FaultTypes
<1>3. CASE UNCHANGED faultvars
  BY <1>1, <1>3 DEF faultvars, FaultTypes
<1> QED
  BY <1>2, <1>3, Changes

(***************************************************************************)
(* The types hold together with the ids and the processes' items.          *)
(***************************************************************************)
JobsInv == TypeOK /\ CountInv /\ IdsInv /\ PipeInv /\ EndsInv

\* The invariant holds in every state.
LEMMA JobsInvariant == Spec => []JobsInv
<1>1. Init => JobsInv
  <2> SUFFICES ASSUME Init PROVE JobsInv
    OBVIOUS
  <2>1. LineTypes /\ NoteTypes
    BY Bounds DEF Init, LineTypes, NoteTypes
  <2>2. SubTypes
    <3>1. NoCopy \in Copies
      BY Bounds DEF NoCopy, Copies
    <3> QED
      BY <3>1, Bounds DEF Init, SubTypes
  <2>9. CloseTypes /\ FileTypes
    BY DEF Init, CloseTypes, FileTypes
  <2>3. JobTypes /\ InfTypes
    BY Bounds DEF Init, JobTypes, InfTypes, NoJob, JobRecords
  <2>4. WorkTypes /\ OutTypes
    BY Bounds DEF Init, WorkTypes, OutTypes
  <2>5. HistTypes /\ FaultTypes
    BY Bounds DEF Init, HistTypes, FaultTypes
  <2>6. CountInv
    BY DEF Init, CountInv
  <2>7. IdsInv
    BY DEF Init, IdsInv, Taken
  <2>8. PipeInv /\ EndsInv
    BY DEF Init, PipeInv, EndsInv, HasRow
  <2> QED
    BY <2>1, <2>2, <2>3, <2>4, <2>5, <2>6, <2>7, <2>8, <2>9, TypeParts DEF JobsInv
<1>2. JobsInv /\ [Next]_vars => JobsInv'
  <2> SUFFICES ASSUME JobsInv, [Next]_vars PROVE JobsInv'
    OBVIOUS
  <2> USE DEF JobsInv
  <2>1. LineTypes' /\ NoteTypes' /\ SubTypes' /\ JobTypes' /\ InfTypes' /\ WorkTypes'
    BY LineStep, NoteStep, SubStep, JobStep, InfStep, WorkStep
  <2>2. OutTypes' /\ CloseTypes' /\ FileTypes' /\ HistTypes' /\ FaultTypes'
    BY OutStep, CloseTypesStep, FileStep, HistStep, FaultStep
  <2>3. TypeOK'
    <3>1. Len(WriteOrder) - 1 = 2 /\ Len(CopyOrder) = 5
      BY Orders
    <3> HIDE DEF WriteOrder, CopyOrder
    <3> QED
      BY <2>1, <2>2, <3>1, Zenon
      DEF TypeOK, LineTypes, NoteTypes, SubTypes, JobTypes, InfTypes, WorkTypes, OutTypes,
          CloseTypes, FileTypes, HistTypes, FaultTypes
  <2> QED
    BY <2>3, CountStep, IdsStep, PipeStep, EndsStep
<1> QED
  BY <1>1, <1>2, PTL DEF Spec

\* The type invariant of the inference jobs.
THEOREM TypeInvariant == Spec => []TypeOK
<1>1. JobsInv => TypeOK
  BY DEF JobsInv
<1> QED
  BY <1>1, JobsInvariant, PTL
-----------------------------------------------------------------------------
(***************************************************************************)
(* The notes written so far are of the material announced last, and so is  *)
(* what a copy that met no writer has read of them.                        *)
(***************************************************************************)
CopyInv ==
  /\ \A k \in 1 .. 3 : (wrote = 0 \/ k <= wrote) => notes[WriteOrder[k]] = instructed
  /\ sub >= 0 /\ clean => wrote = 0 /\ \A k \in 1 .. sub : copy[CopyOrder[k]] = instructed

\* Between two announcements every field is of the last one.
LEMMA NotesComplete ==
  ASSUME CopyInv, wrote = 0 PROVE \A f \in Fields : notes[f] = instructed
<1>1. notes[WriteOrder[1]] = instructed /\ notes[WriteOrder[2]] = instructed
      /\ notes[WriteOrder[3]] = instructed
  BY DEF CopyInv
<1> QED
  BY <1>1, Orders DEF Fields

\* A field that is written ends every clean copy; a field that is read continues it.
LEMMA CopyStep ==
  ASSUME TypeOK, CopyInv, [Next]_vars PROVE CopyInv'
<1>1. LineTypes /\ NoteTypes /\ SubTypes
  BY TypeParts
<1> HIDE DEF WriteOrder, CopyOrder
<1>2. CASE Instruct
  <2>1. notes' = [notes EXCEPT ![WriteOrder[1]] = instructed'] /\ wrote' = 1 /\ clean' = FALSE
    BY <1>2 DEF Instruct
  <2>2. WriteOrder[1] \in Fields
    BY Orders DEF Fields
  <2>3. notes'[WriteOrder[1]] = instructed'
    BY <1>1, <2>1, <2>2 DEF NoteTypes
  <2>4. ASSUME NEW k \in 1 .. 3, k <= 1 PROVE notes'[WriteOrder[k]] = instructed'
    BY <2>3, <2>4
  <2> QED
    BY <2>1, <2>4 DEF CopyInv
<1>3. CASE WriteField
  <2>1. /\ notes' = [notes EXCEPT ![WriteOrder[wrote + 1]] = instructed]
        /\ wrote > 0 /\ clean' = FALSE /\ UNCHANGED instructed
    BY <1>3 DEF WriteField, linevars
  <2>2. wrote' = IF wrote + 1 = 3 THEN 0 ELSE wrote + 1
    BY <1>3, Orders DEF WriteField
  <2>3. ASSUME NEW k \in 1 .. 3 PROVE WriteOrder[k] \in Fields
    <3>1. k = 1 \/ k = 2 \/ k = 3
      OBVIOUS
    <3> QED
      BY <3>1, Orders DEF Fields
  <2>4. wrote + 1 \in 1 .. 3
    BY <1>1, <2>1 DEF NoteTypes
  <2>5. ASSUME NEW k \in 1 .. 3, k <= wrote + 1 PROVE notes'[WriteOrder[k]] = instructed
    <3>1. CASE k = wrote + 1
      BY <1>1, <2>1, <2>3, <3>1 DEF NoteTypes
    <3>2. CASE k <= wrote
      <4>1. notes[WriteOrder[k]] = instructed
        BY <3>2 DEF CopyInv
      <4> QED
        BY <1>1, <2>1, <2>3, <4>1 DEF NoteTypes
    <3> QED
      BY <1>1, <2>5, <3>1, <3>2 DEF NoteTypes
  <2>6. ASSUME NEW k \in 1 .. 3, wrote' = 0 \/ k <= wrote' PROVE k <= wrote + 1
    BY <1>1, <2>2, <2>6 DEF NoteTypes
  <2> QED
    BY <2>1, <2>5, <2>6 DEF CopyInv
<1>4. CASE ReadTrigger
  <2>1. UNCHANGED <<notes, wrote, instructed>>
    BY <1>4 DEF ReadTrigger, notevars, linevars
  <2>2. \/ sub' = 0 /\ (clean' => wrote = 0)
        \/ UNCHANGED <<sub, copy, clean>>
    BY <1>4 DEF ReadTrigger
  <2> QED
    BY <2>1, <2>2 DEF CopyInv
<1>5. CASE CopySlot
  <2>1. UNCHANGED <<notes, wrote, instructed, clean>> /\ sub' = sub + 1 /\ sub \in 0 .. 4
        /\ copy' = [copy EXCEPT ![CopyOrder[sub + 1]] = notes[FieldOf(CopyOrder[sub + 1])]]
    BY <1>5, Orders DEF CopySlot, notevars, linevars
  <2>2. ASSUME NEW k \in 1 .. 5 PROVE CopyOrder[k] \in Slots
    <3>1. k = 1 \/ k = 2 \/ k = 3 \/ k = 4 \/ k = 5
      OBVIOUS
    <3> QED
      BY <3>1, Orders DEF Slots
  <2>3. ASSUME clean
        PROVE  wrote = 0 /\ \A k \in 1 .. sub + 1 : copy'[CopyOrder[k]] = instructed
    <3>1. wrote = 0 /\ \A k \in 1 .. sub : copy[CopyOrder[k]] = instructed
      BY <2>1, <2>3 DEF CopyInv
    <3>2. notes[FieldOf(CopyOrder[sub + 1])] = instructed
      BY <2>1, <2>2, <3>1, NotesComplete, Orders
    <3>3. ASSUME NEW k \in 1 .. sub + 1 PROVE copy'[CopyOrder[k]] = instructed
      <4>1. CopyOrder[k] \in Slots
        BY <2>1, <2>2
      <4>2. CASE k = sub + 1
        BY <1>1, <2>1, <3>2, <4>1, <4>2 DEF SubTypes, Copies
      <4>3. CASE k \in 1 .. sub
        BY <1>1, <2>1, <3>1, <3>2, <4>1, <4>3 DEF SubTypes, Copies
      <4> QED
        BY <2>1, <4>2, <4>3
    <3> QED
      BY <3>1, <3>3
  <2> QED
    BY <2>1, <2>3 DEF CopyInv
<1>6. CASE PutJob \/ SubscriberReturns
  <2>1. UNCHANGED <<notes, wrote, instructed>> /\ ~(sub' >= 0)
    BY <1>6 DEF PutJob, SubscriberReturns, notevars, linevars
  <2> QED
    BY <2>1 DEF CopyInv
<1>7. CASE LineChanges
  BY <1>7 DEF LineChanges, CopyInv, notevars
<1>8. CASE UNCHANGED <<linevars, notevars, subvars>>
  BY <1>8 DEF CopyInv, linevars, notevars, subvars
<1> QED
  BY <1>2, <1>3, <1>4, <1>5, <1>6, <1>7, <1>8, Changes DEF Subscriber

\* A job whose copy met no writer is, in every slot, of the material announced last,
\* for any number of announcements and line changes.
THEOREM CopiesAreOfOneMaterial == Spec => []JobOfTheLastInstruction
<1>1. Init => CopyInv
  <2> SUFFICES ASSUME Init PROVE CopyInv
    OBVIOUS
  <2>1. \A k \in 1 .. 3 : WriteOrder[k] \in Fields
    <3>1. \A k \in 1 .. 3 : k = 1 \/ k = 2 \/ k = 3
      OBVIOUS
    <3> QED
      BY <3>1, Orders DEF Fields
  <2> QED
    BY <2>1 DEF Init, CopyInv
<1>2. TypeOK /\ CopyInv /\ [Next]_vars => CopyInv'
  BY CopyStep
<1>3. CopyInv => JobOfTheLastInstruction
  <2> SUFFICES ASSUME CopyInv, sub = Len(CopyOrder), clean, NEW s \in Slots
               PROVE  copy[s] = instructed
    BY DEF JobOfTheLastInstruction
  <2>1. sub = 5
    BY Orders
  <2>2. \A k \in 1 .. 5 : copy[CopyOrder[k]] = instructed
    BY <2>1 DEF CopyInv
  <2>3. /\ copy[CopyOrder[1]] = instructed /\ copy[CopyOrder[2]] = instructed
        /\ copy[CopyOrder[3]] = instructed /\ copy[CopyOrder[4]] = instructed
        /\ copy[CopyOrder[5]] = instructed
    BY <2>2
  <2> QED
    BY <2>3, Orders DEF Slots
<1> QED
  BY <1>1, <1>2, <1>3, TypeInvariant, PTL DEF Spec
-----------------------------------------------------------------------------
(***************************************************************************)
(* What becomes of a material that has at most one job: until the job is   *)
(* taken its images are all on the disk and no process has looked for      *)
(* them; while the job is worked on they are still there, and what was     *)
(* stored before a process looked is with that process, in the result      *)
(* queue or with the collector; afterwards it is in result.csv, and only   *)
(* then does the deletion begin.                                           *)
(***************************************************************************)
Waiting(m) == {i \in 1 .. Len(jobs) : jobs[i].dir = m}
Current(m) == Taken /\ job.dir = m
ImagesOf(m) == {image \in Images : image[1] = m}
Kept(m) ==
  /\ \A d \in deletions : d.dir # m
  /\ m <= instructed => m \in dirs
  /\ arrived \cap ImagesOf(m) \subseteq disk
Untouched(m) ==
  /\ ~Current(m) /\ Kept(m)
  /\ looked \cap ImagesOf(m) = {}
  /\ \A i, j \in Waiting(m) : i = j
  /\ jobsFor[m] = 0 => Waiting(m) = {}
Searched(m) ==
  /\ ImagesOf(m) \subseteq looked
  /\ (arrived \cap ImagesOf(m)) \ late \subseteq results[m]
\* the image <<m, w>> while the collector waits for the process w
InHand(m, w) ==
  /\ proc[w] = "started" => <<m, w>> \notin looked
  /\ proc[w] \in {"infers", "inferred", "ended"} => <<m, w>> \in looked
  /\ proc[w] \in {"infers", "inferred", "ended"} /\ <<m, w>> \in arrived \ late =>
       proc[w] = "infers" \/ HasRow(pipe[w]) \/ <<m, w>> \in rows
Worked(m) ==
  /\ Current(m) /\ Kept(m) /\ Waiting(m) = {} /\ jobsFor[m] = 1
  /\ inf = "collect" => \A w \in Workers : <<m, w>> \in Images => InHand(m, w)
  /\ inf = "report" => Searched(m)
Done(m) == ~Current(m) /\ Waiting(m) = {} /\ jobsFor[m] = 1 /\ Searched(m)
Settled(m) == jobsFor[m] <= 1 => Untouched(m) \/ Worked(m) \/ Done(m)

PassingInv == passing \subseteq 1 .. instructed
MaterialInv == PassingInv /\ \A m \in Materials : Settled(m)

\* Only announced materials pass.
LEMMA PassingStep ==
  ASSUME TypeOK, PassingInv, [Next]_vars PROVE PassingInv'
<1>1. instructed \in Nat
  BY Numbers
<1>2. CASE LineChanges
  BY <1>1, <1>2 DEF LineChanges, PassingInv
<1>3. CASE Instruct
  BY <1>1, <1>3 DEF Instruct, PassingInv
<1>4. CASE UNCHANGED linevars
  BY <1>4 DEF linevars, PassingInv
<1> QED
  BY <1>2, <1>3, <1>4, Changes

\* An image belongs to one material and one process.
LEMMA ImageShape ==
  /\ \A image \in Images : /\ image[1] \in Materials /\ image[2] \in Workers
                           /\ image = <<image[1], image[2]>>
  /\ \A m, w : <<m, w>> \in Images => <<m, w>> \in ImagesOf(m) /\ w \in Workers
BY Bounds DEF Materials, ImagesOf

\* A step that touches nothing a material's images depend on.
LEMMA SettledSame ==
  ASSUME NEW m \in Materials, Settled(m),
         UNCHANGED <<jobs, infvars, proc, pipe, rows, results, deletions, dirs, disk,
                     arrived, looked, late, jobsFor, instructed>>
  PROVE  Settled(m)'
BY DEF Settled, Untouched, Worked, Done, Waiting, Current, Kept, Searched, InHand, Taken, infvars

\* An image arrives: on the disk, or late.
LEMMA ArriveSettled ==
  ASSUME TypeOK, PassingInv, NEW image \in Images, Arrive(image), NEW m \in Materials, Settled(m)
  PROVE  Settled(m)'
<1>1. /\ UNCHANGED <<jobs, infvars, proc, pipe, rows, results, deletions, dirs, looked, jobsFor,
                     instructed>>
      /\ image[1] \in passing /\ arrived' = arrived \cup {image}
      /\ late' = IF image \in looked THEN late \cup {image} ELSE late
      /\ disk' = IF image[1] \in dirs THEN disk \cup {image} ELSE disk
  BY DEF Arrive, jobvars, workvars, outvars, linevars
<1>2. image[1] <= instructed
  <2>1. image[1] \in 1 .. instructed
    BY <1>1 DEF PassingInv
  <2> QED
    BY <2>1, Numbers
<1>3. Kept(m) => Kept(m)'
  <2> SUFFICES ASSUME Kept(m) PROVE Kept(m)'
    OBVIOUS
  <2>1. image[1] = m => image \in disk'
    BY <1>1, <1>2 DEF Kept
  <2>2. arrived' \cap ImagesOf(m) \subseteq disk'
    BY <1>1, <2>1 DEF Kept, ImagesOf
  <2> QED
    BY <1>1, <2>2 DEF Kept, ImagesOf
<1>4. \A x : x \in looked /\ x \in arrived' \ late' => x \in arrived \ late
  BY <1>1
<1>5. Searched(m) => Searched(m)'
  <2> SUFFICES ASSUME Searched(m) PROVE Searched(m)'
    OBVIOUS
  <2>1. (arrived' \cap ImagesOf(m)) \ late' \subseteq results[m]
    BY <1>4 DEF Searched
  <2> QED
    BY <1>1, <2>1 DEF Searched, ImagesOf
<1>6. ASSUME NEW w \in Workers, InHand(m, w) PROVE InHand(m, w)'
  BY <1>1, <1>4, <1>6 DEF InHand
<1>7. (Current(m)' <=> Current(m)) /\ Waiting(m)' = Waiting(m)
  BY <1>1 DEF Current, Taken, Waiting, infvars
<1>8. Untouched(m) => Untouched(m)'
  BY <1>1, <1>3, <1>7 DEF Untouched, ImagesOf
<1>9. Worked(m) => Worked(m)'
  BY <1>1, <1>3, <1>5, <1>6, <1>7 DEF Worked, infvars
<1>10. Done(m) => Done(m)'
  BY <1>1, <1>5, <1>7 DEF Done
<1> QED
  BY <1>1, <1>8, <1>9, <1>10 DEF Settled

\* The next material is announced and its directory made.
LEMMA InstructSettled ==
  ASSUME TypeOK, Instruct, NEW m \in Materials, Settled(m)
  PROVE  Settled(m)'
<1>1. /\ UNCHANGED <<jobs, infvars, proc, pipe, rows, results, deletions, disk, arrived, looked,
                     late, jobsFor>>
      /\ instructed' = instructed + 1 /\ dirs' = dirs \cup {instructed + 1}
  BY DEF Instruct, jobvars, workvars, outvars, histvars
<1>2. Kept(m) => Kept(m)'
  <2>1. m <= instructed + 1 => m <= instructed \/ m = instructed + 1
    BY Numbers, Bounds DEF Materials
  <2> QED
    BY <1>1, <2>1 DEF Kept, ImagesOf
<1> QED
  BY <1>1, <1>2 DEF Settled, Untouched, Worked, Done, Waiting, Current, Searched, InHand, Taken,
                    infvars, ImagesOf

\* A job is queued: for its material the first, or one too many.
LEMMA PutSettled ==
  ASSUME TypeOK, CountInv, PutJob, NEW m \in Materials, Settled(m)
  PROVE  Settled(m)'
<1>1. /\ UNCHANGED <<infvars, proc, pipe, rows, results, deletions, dirs, disk, arrived, looked,
                     late, instructed>>
      /\ jobsFor' = [n \in Materials |-> IF n = DirOf(copy) /\ jobsFor[n] < 2
                                         THEN jobsFor[n] + 1 ELSE jobsFor[n]]
  BY DEF PutJob, workvars, outvars, filevars, linevars
<1>2. jobsFor'[m] = IF m = DirOf(copy) /\ jobsFor[m] < 2 THEN jobsFor[m] + 1 ELSE jobsFor[m]
  BY <1>1
<1>3. jobsFor[m] \in 0 .. 2
  BY TypeParts DEF HistTypes
<1>4. /\ jobs \in Seq(JobRecords) /\ Len(jobs) \in Nat /\ Len(jobs') = Len(jobs) + 1
      /\ \A k \in 1 .. Len(jobs) : jobs'[k] = jobs[k]
      /\ jobs'[Len(jobs) + 1].dir = DirOf(copy)
  <2>1. jobs \in Seq(JobRecords)
    BY TypeParts DEF JobTypes
  <2> QED
    BY <2>1, NextJob, Longer, Parts
<1>5. CASE m # DirOf(copy)
  <2>1. jobsFor'[m] = jobsFor[m]
    BY <1>2, <1>5
  <2>2. Waiting(m)' = Waiting(m)
    BY <1>4, <1>5 DEF Waiting
  <2>3. /\ Kept(m)' <=> Kept(m)
        /\ Searched(m)' <=> Searched(m)
        /\ Current(m)' <=> Current(m)
        /\ \A w \in Workers : InHand(m, w)' <=> InHand(m, w)
    BY <1>1 DEF Kept, Searched, Current, InHand, ImagesOf, Taken, infvars
  <2> QED
    BY <1>1, <2>1, <2>2, <2>3 DEF Settled, Untouched, Worked, Done, ImagesOf, infvars
<1>6. CASE m = DirOf(copy) /\ jobsFor'[m] <= 1
  <2>1. jobsFor[m] = 0 /\ jobsFor'[m] = 1
    BY <1>2, <1>3, <1>6
  <2>2. Untouched(m)
    BY <2>1 DEF Settled, Worked, Done
  <2>3. Waiting(m) = {}
    BY <2>1, <2>2 DEF Untouched
  <2>4. \A i \in Waiting(m)' : i = Len(jobs) + 1
    <3> SUFFICES ASSUME NEW i \in Waiting(m)' PROVE i = Len(jobs) + 1
      OBVIOUS
    <3>1. i \in 1 .. Len(jobs) + 1 /\ jobs'[i].dir = m
      BY <1>4 DEF Waiting
    <3>2. i \notin 1 .. Len(jobs)
      BY <1>4, <2>3, <3>1 DEF Waiting
    <3> QED
      BY <1>4, <3>1, <3>2
  <2>5. Untouched(m)'
    BY <1>1, <2>1, <2>2, <2>4 DEF Untouched, Kept, Current, ImagesOf, Taken, infvars
  <2> QED
    BY <2>5 DEF Settled
<1>7. CASE ~(jobsFor'[m] <= 1)
  BY <1>7 DEF Settled
<1> QED
  BY <1>5, <1>6, <1>7

\* When a job leaves the queue the others move up.
LEMMA MovedUp ==
  ASSUME TypeOK, jobs # <<>>, jobs' = Rest, NEW m
  PROVE  /\ \A i \in Waiting(m)' : i + 1 \in Waiting(m) /\ i \in Nat /\ i # 0
         /\ Head(jobs).dir = m => 1 \in Waiting(m)
<1>1. /\ Head(jobs) = jobs[1] /\ Len(jobs) > 0 /\ Len(Rest) = Len(jobs) - 1 /\ Len(jobs) \in Nat
      /\ \A i \in 1 .. Len(jobs) - 1 : Rest[i] = jobs[i + 1]
  BY FirstJob
<1>2. ASSUME NEW i \in Waiting(m)' PROVE i + 1 \in Waiting(m) /\ i \in Nat /\ i # 0
  <2>1. i \in 1 .. Len(jobs) - 1 /\ Rest[i].dir = m
    BY <1>1 DEF Waiting
  <2>2. Rest[i] = jobs[i + 1] /\ i + 1 \in 1 .. Len(jobs)
    BY <1>1, <2>1
  <2> QED
    BY <2>1, <2>2 DEF Waiting
<1>3. Head(jobs).dir = m => 1 \in Waiting(m)
  BY <1>1 DEF Waiting
<1> QED
  BY <1>2, <1>3

\* The jobs of a material that are still waiting after that.
LEMMA FewerWait ==
  ASSUME TypeOK, jobs # <<>>, jobs' = Rest, NEW m
  PROVE  /\ Waiting(m) = {} => Waiting(m)' = {}
         /\ (\A i, j \in Waiting(m) : i = j) => \A i, j \in Waiting(m)' : i = j
         /\ (\A i, j \in Waiting(m) : i = j) /\ Head(jobs).dir = m => Waiting(m)' = {}
<1>1. Waiting(m) = {} => Waiting(m)' = {}
  BY MovedUp
<1>2. ASSUME \A i, j \in Waiting(m) : i = j, NEW i \in Waiting(m)', NEW j \in Waiting(m)'
      PROVE  i = j
  <2>1. i + 1 \in Waiting(m) /\ j + 1 \in Waiting(m) /\ i \in Nat /\ j \in Nat
    BY MovedUp
  <2>2. i + 1 = j + 1
    BY <1>2, <2>1
  <2> QED
    BY <2>1, <2>2
<1>3. ASSUME \A i, j \in Waiting(m) : i = j, Head(jobs).dir = m, NEW i \in Waiting(m)'
      PROVE  FALSE
  <2>1. i + 1 \in Waiting(m) /\ i \in Nat /\ i # 0 /\ 1 \in Waiting(m)
    BY <1>3, MovedUp
  <2>2. i + 1 = 1
    BY <1>3, <2>1
  <2> QED
    BY <2>1, <2>2
<1> QED
  BY <1>1, <1>2, <1>3

\* A job is taken: its material passes from untouched to worked.
LEMMA GetSettled ==
  ASSUME TypeOK, GetJob, NEW m \in Materials, Settled(m)
  PROVE  Settled(m)'
<1>1. /\ UNCHANGED <<results, deletions, dirs, disk, arrived, looked, late, jobsFor, instructed>>
      /\ jobs # <<>> /\ jobs' = Rest /\ job' = Head(jobs) /\ inf = "get" /\ inf' = "collect"
      /\ \A w \in Workers : proc'[w] = "started"
  BY DEF GetJob, outvars, filevars, histvars, linevars
<1>2. ~Current(m)
  BY <1>1 DEF Current, Taken
<1>3. (Kept(m)' <=> Kept(m)) /\ (Searched(m)' <=> Searched(m))
  BY <1>1 DEF Kept, Searched, ImagesOf
<1>4. Current(m)' <=> Head(jobs).dir = m
  BY <1>1 DEF Current, Taken
<1>5. ASSUME Untouched(m), jobsFor[m] <= 1, Head(jobs).dir # m PROVE Untouched(m)'
  <2>1. Waiting(m) = {} => Waiting(m)' = {}
    BY <1>1, FewerWait
  <2>2. \A i, j \in Waiting(m)' : i = j
    BY <1>1, <1>5, FewerWait DEF Untouched
  <2> QED
    BY <1>1, <1>3, <1>4, <1>5, <2>1, <2>2 DEF Untouched, ImagesOf
<1>6. ASSUME Untouched(m), jobsFor[m] <= 1, Head(jobs).dir = m PROVE Worked(m)'
  <2>1. 1 \in Waiting(m)
    BY <1>1, <1>6, MovedUp
  <2>2. jobsFor[m] # 0
    BY <1>6, <2>1 DEF Untouched
  <2>3. jobsFor'[m] = 1
    <3>1. jobsFor[m] \in 0 .. 2
      BY TypeParts DEF HistTypes
    <3> QED
      BY <1>1, <1>6, <2>2, <3>1
  <2>4. Waiting(m)' = {}
    BY <1>1, <1>6, FewerWait DEF Untouched
  <2>5. ASSUME NEW w \in Workers, <<m, w>> \in Images PROVE InHand(m, w)'
    BY <1>1, <1>6, <2>5, ImageShape DEF InHand, Untouched
  <2> QED
    BY <1>1, <1>3, <1>4, <1>6, <2>3, <2>4, <2>5 DEF Worked, Untouched
<1>7. ASSUME Done(m) PROVE Done(m)'
  <2>1. Head(jobs).dir # m /\ Waiting(m)' = {}
    BY <1>1, <1>7, MovedUp, FewerWait DEF Done
  <2> QED
    BY <1>1, <1>3, <1>4, <1>7, <2>1 DEF Done
<1> QED
  BY <1>1, <1>2, <1>5, <1>6, <1>7 DEF Settled, Worked

\* close() drains a job: its material stays untouched.
LEMMA DropSettled ==
  ASSUME TypeOK, CloseDropsJob, NEW m \in Materials, Settled(m)
  PROVE  Settled(m)'
<1>1. /\ UNCHANGED <<infvars, proc, pipe, rows, results, deletions, dirs, disk, arrived, looked,
                     late, jobsFor, instructed>>
      /\ jobs # <<>> /\ jobs' = Rest
  BY DEF CloseDropsJob, workvars, outvars, filevars, histvars, linevars
<1>2. /\ Kept(m)' <=> Kept(m)
      /\ Searched(m)' <=> Searched(m)
      /\ Current(m)' <=> Current(m)
      /\ \A w \in Workers : InHand(m, w)' <=> InHand(m, w)
  BY <1>1 DEF Kept, Searched, Current, InHand, ImagesOf, Taken, infvars
<1>3. /\ Waiting(m) = {} => Waiting(m)' = {}
      /\ (\A i, j \in Waiting(m) : i = j) => \A i, j \in Waiting(m)' : i = j
  BY <1>1, FewerWait
<1> QED
  BY <1>1, <1>2, <1>3 DEF Settled, Untouched, Worked, Done, ImagesOf, infvars

\* A step of a process or of the collector: only the job in hand is concerned.
LEMMA WorkSettled ==
  ASSUME TypeOK, NEW m \in Materials, Settled(m), inf = "collect",
         UNCHANGED <<jobs, infvars, results, deletions, dirs, disk, arrived, late, jobsFor,
                     instructed>>,
         looked \subseteq looked',
         job.dir # m => looked' \cap ImagesOf(m) = looked \cap ImagesOf(m),
         job.dir = m /\ Kept(m) => \A w \in Workers : <<m, w>> \in Images /\ InHand(m, w) => InHand(m, w)'
  PROVE  Settled(m)'
<1>1. /\ Kept(m)' <=> Kept(m)
      /\ Current(m)' <=> Current(m)
      /\ Waiting(m)' = Waiting(m)
  BY DEF Kept, Current, ImagesOf, Taken, infvars, Waiting
<1>2. Searched(m) => Searched(m)'
  BY DEF Searched, ImagesOf
<1>3. Current(m) <=> job.dir = m
  BY DEF Current, Taken
<1>4. Untouched(m) => Untouched(m)'
  BY <1>1, <1>3 DEF Untouched, ImagesOf
<1>5. Worked(m) => Worked(m)'
  BY <1>1, <1>3 DEF Worked, infvars
<1>6. Done(m) => Done(m)'
  BY <1>1, <1>2 DEF Done
<1> QED
  BY <1>4, <1>5, <1>6 DEF Settled

\* A process looks for its image: what was stored before is on the disk.
LEMMA ListSettled ==
  ASSUME TypeOK, PipeInv, NEW w \in Workers, List(w), NEW m \in Materials, Settled(m)
  PROVE  Settled(m)'
<1>1. /\ UNCHANGED <<jobs, infvars, pipe, rows, results, deletions, dirs, disk, arrived, late,
                     jobsFor, instructed>>
      /\ proc[w] = "started" /\ looked' = looked \cup ({<<job.dir, w>>} \cap Images)
      /\ proc' = [proc EXCEPT ![w] = AfterListing(<<job.dir, w>>)]
  BY DEF List, jobvars, outvars, filevars, linevars
<1>2. inf = "collect"
  BY <1>1 DEF PipeInv
<1>3. \A v \in Workers : proc'[v] = IF v = w THEN AfterListing(<<job.dir, w>>) ELSE proc[v]
  BY <1>1, TypeParts DEF WorkTypes
<1>4. job.dir # m => looked' \cap ImagesOf(m) = looked \cap ImagesOf(m)
  BY <1>1 DEF ImagesOf
<1>5. ASSUME job.dir = m, Kept(m), NEW v \in Workers, <<m, v>> \in Images, InHand(m, v)
      PROVE  InHand(m, v)'
  <2>1. CASE v = w
    <3>1. <<m, w>> \in looked' /\ proc'[w] = AfterListing(<<m, w>>)
      BY <1>1, <1>3, <1>5, <2>1
    <3>2. proc'[w] \in {"infers", "inferred"} /\ (<<m, w>> \in disk => proc'[w] = "infers")
      BY <3>1 DEF AfterListing
    <3>3. <<m, w>> \in arrived' => <<m, w>> \in disk
      BY <1>1, <1>5, <2>1, ImageShape DEF Kept
    <3> QED
      BY <2>1, <3>1, <3>2, <3>3 DEF InHand
  <2>2. CASE v # w
    <3>1. proc'[v] = proc[v] /\ (<<m, v>> \in looked' <=> <<m, v>> \in looked)
      BY <1>1, <1>3, <2>2
    <3> QED
      BY <1>1, <1>5, <3>1 DEF InHand
  <2> QED
    BY <2>1, <2>2
<1> QED
  BY <1>1, <1>2, <1>4, <1>5, WorkSettled

\* A process infers its image: the row is in the result queue.
LEMMA InferSettled ==
  ASSUME TypeOK, PipeInv, NEW w \in Workers, Infer(w), NEW m \in Materials, Settled(m)
  PROVE  Settled(m)'
<1>1. /\ UNCHANGED <<jobs, infvars, rows, results, deletions, dirs, disk, arrived, looked, late,
                     jobsFor, instructed>>
      /\ proc[w] = "infers"
  BY DEF Infer, jobvars, outvars, filevars, linevars, histvars
<1>2. inf = "collect" /\ pipe[w] \in PipeOf("infers")
  BY <1>1 DEF PipeInv
<1>3. \A v \in Workers : /\ proc'[v] = IF v = w THEN "inferred" ELSE proc[v]
                         /\ pipe'[v] = IF v = w THEN Append(pipe[v], "row") ELSE pipe[v]
  BY TypeParts DEF WorkTypes, Infer
<1>4. HasRow(pipe'[w])
  BY <1>2, <1>3, PipeStates
<1>5. ASSUME NEW v \in Workers, InHand(m, v) PROVE InHand(m, v)'
  BY <1>1, <1>3, <1>4, <1>5 DEF InHand
<1> QED
  BY <1>1, <1>2, <1>5, WorkSettled

\* A process signals its end behind its row.
LEMMA EndSettled ==
  ASSUME TypeOK, PipeInv, NEW w \in Workers, EndSignal(w), NEW m \in Materials, Settled(m)
  PROVE  Settled(m)'
<1>1. /\ UNCHANGED <<jobs, infvars, rows, results, deletions, dirs, disk, arrived, looked, late,
                     jobsFor, instructed>>
      /\ proc[w] = "inferred"
  BY DEF EndSignal, jobvars, outvars, filevars, linevars, histvars
<1>2. inf = "collect" /\ pipe[w] \in PipeOf("inferred")
  BY <1>1 DEF PipeInv
<1>3. \A v \in Workers : /\ proc'[v] = IF v = w THEN "ended" ELSE proc[v]
                         /\ pipe'[v] = IF v = w THEN Append(pipe[v], "end") ELSE pipe[v]
  BY TypeParts DEF WorkTypes, EndSignal
<1>4. HasRow(pipe'[w]) <=> HasRow(pipe[w])
  BY <1>2, <1>3, PipeStates
<1>5. ASSUME NEW v \in Workers, InHand(m, v) PROVE InHand(m, v)'
  BY <1>1, <1>3, <1>4, <1>5 DEF InHand
<1> QED
  BY <1>1, <1>2, <1>5, WorkSettled

\* A dead process sends no end signal: its image no longer matters.
LEMMA DieSettled ==
  ASSUME TypeOK, PipeInv, NEW w \in Workers, Die(w), NEW m \in Materials, Settled(m)
  PROVE  Settled(m)'
<1>1. /\ UNCHANGED <<jobs, infvars, rows, results, deletions, dirs, disk, arrived, looked, late,
                     jobsFor, instructed>>
      /\ proc[w] \in {"started", "infers", "inferred"}
  BY DEF Die, jobvars, outvars, filevars, linevars, histvars
<1>2. inf = "collect"
  BY <1>1 DEF PipeInv
<1>3. \A v \in Workers : /\ v # w => proc'[v] = proc[v] /\ pipe'[v] = pipe[v]
                         /\ v = w => proc'[v] = "dead"
  BY TypeParts DEF WorkTypes, Die
<1>4. ASSUME NEW v \in Workers, InHand(m, v) PROVE InHand(m, v)'
  BY <1>1, <1>3, <1>4 DEF InHand
<1> QED
  BY <1>1, <1>2, <1>4, WorkSettled

\* The collector takes an item: a row it keeps.
LEMMA CollectSettled ==
  ASSUME TypeOK, PipeInv, NEW w \in Workers, Collect(w), NEW m \in Materials, Settled(m)
  PROVE  Settled(m)'
<1>1. /\ UNCHANGED <<jobs, infvars, proc, results, deletions, dirs, disk, arrived, looked, late,
                     jobsFor, instructed>>
      /\ inf = "collect" /\ pipe[w] # <<>>
  BY DEF Collect, jobvars, outvars, filevars, linevars, histvars
<1>2. pipe[w] \in PipeOf(proc[w]) /\ proc[w] # "none"
  BY <1>1 DEF PipeInv
<1>3. \A v \in Workers : pipe'[v] = IF v = w THEN Tail(pipe[v]) ELSE pipe[v]
  BY TypeParts DEF WorkTypes, Collect
<1>4. rows \subseteq rows' /\ (Head(pipe[w]) # "end" => <<job.dir, w>> \in rows')
  BY DEF Collect
<1>5. Head(pipe[w]) = "end" => ~HasRow(pipe[w])
  BY <1>1, <1>2, PipeTail, TypeParts DEF WorkTypes
<1>6. ASSUME job.dir = m, NEW v \in Workers, InHand(m, v) PROVE InHand(m, v)'
  BY <1>1, <1>3, <1>4, <1>5, <1>6 DEF InHand
<1> QED
  BY <1>1, <1>6, WorkSettled

\* When all end signals are there, everything stored in time has its row.
LEMMA AllCollected ==
  ASSUME TypeOK, EndsInv, inf = "collect", AllEnded, NEW m \in Materials, Worked(m)
  PROVE  ImagesOf(m) \subseteq looked /\ (arrived \cap ImagesOf(m)) \ late \subseteq rows
<1>1. ASSUME NEW image \in ImagesOf(m)
      PROVE  image \in looked /\ (image \in arrived \ late => image \in rows)
  <2>1. PICK w \in Workers : image = <<m, w>> /\ <<m, w>> \in Images
    BY <1>1, ImageShape DEF ImagesOf
  <2>2. proc[w] = "ended" /\ ~HasRow(pipe[w])
    <3>1. proc[w] = "ended" /\ pipe[w] = <<>>
      BY AllHaveEnded
    <3> QED
      BY <3>1, PipeStates
  <2>3. InHand(m, w)
    BY <2>1 DEF Worked
  <2> QED
    BY <2>1, <2>2, <2>3 DEF InHand
<1> QED
  BY <1>1

\* result.csv is written: all that was stored in time is in it.
LEMMA WriteSettled ==
  ASSUME TypeOK, EndsInv, WriteResults, NEW m \in Materials, Settled(m)
  PROVE  Settled(m)'
<1>1. /\ UNCHANGED <<jobs, job, proc, pipe, rows, deletions, dirs, disk, arrived, looked, late,
                     jobsFor, instructed>>
      /\ inf = "collect" /\ inf' = "report" /\ AllEnded
      /\ results' = IF job.dir = 0 THEN results ELSE [results EXCEPT ![job.dir] = rows]
  BY DEF WriteResults, jobvars, workvars, filevars, linevars, histvars
<1>2. /\ Kept(m)' <=> Kept(m)
      /\ Current(m)' <=> Current(m)
      /\ Waiting(m)' = Waiting(m)
  BY <1>1 DEF Kept, Current, ImagesOf, Taken, Waiting
<1>3. Current(m) <=> job.dir = m
  BY <1>1 DEF Current, Taken
<1>4. results \in [Materials -> SUBSET Images] /\ m # 0
  BY TypeParts, Bounds DEF OutTypes, Materials
<1>5. job.dir # m => results'[m] = results[m]
  BY <1>1, <1>4
<1>6. job.dir = m => results'[m] = rows
  BY <1>1, <1>4
<1>7. Untouched(m) => Untouched(m)'
  BY <1>1, <1>2 DEF Untouched, ImagesOf
<1>8. Done(m) => Done(m)'
  BY <1>1, <1>2, <1>3, <1>5 DEF Done, Searched, ImagesOf
<1>9. ASSUME Worked(m) PROVE Worked(m)'
  <2>1. results'[m] = rows
    BY <1>3, <1>6, <1>9 DEF Worked
  <2>2. Searched(m)'
    BY <1>1, <1>9, <2>1, AllCollected DEF Searched, ImagesOf
  <2> QED
    BY <1>1, <1>2, <1>9, <2>2 DEF Worked
<1> QED
  BY <1>1, <1>7, <1>8, <1>9 DEF Settled

\* The inference thread begins, ends or fails: no image moves.
LEMMA InfSettled ==
  ASSUME TypeOK, WriteFails \/ InferenceReturns \/ SeesJob, NEW m \in Materials, Settled(m)
  PROVE  Settled(m)'
<1>1. /\ UNCHANGED <<jobs, job, results, deletions, dirs, disk, arrived, looked, late, jobsFor,
                     instructed>>
      /\ Taken' <=> Taken
      /\ inf' \notin {"collect", "report"}
  BY DEF WriteFails, InferenceReturns, SeesJob, Taken, jobvars, outvars, filevars, linevars, histvars
<1>2. /\ Kept(m)' <=> Kept(m)
      /\ Current(m)' <=> Current(m)
      /\ Waiting(m)' = Waiting(m)
      /\ Searched(m)' <=> Searched(m)
  BY <1>1 DEF Kept, Current, ImagesOf, Waiting, Searched
<1> QED
  BY <1>1, <1>2 DEF Settled, Untouched, Worked, Done, ImagesOf

\* The deletion is left to a thread: its material passes from worked to done.
LEMMA ReportSettled ==
  ASSUME TypeOK, Report, NEW m \in Materials, Settled(m)
  PROVE  Settled(m)'
<1>1. /\ UNCHANGED <<jobs, results, dirs, disk, arrived, looked, late, jobsFor, instructed>>
      /\ inf = "report" /\ inf' = "test"
      /\ deletions' = deletions \cup {[id |-> job.id, dir |-> job.dir, attempt |-> 1]}
  BY DEF Report, jobvars, outvars, filevars, linevars, histvars
<1>2. /\ Waiting(m)' = Waiting(m)
      /\ Searched(m)' <=> Searched(m)
      /\ ~Current(m)'
      /\ Current(m) <=> job.dir = m
  BY <1>1 DEF Waiting, Searched, ImagesOf, Current, Taken
<1>3. job.dir # m /\ Kept(m) => Kept(m)'
  BY <1>1 DEF Kept, ImagesOf
<1>4. Untouched(m) => Untouched(m)'
  BY <1>1, <1>2, <1>3 DEF Untouched, ImagesOf
<1>5. Worked(m) => Done(m)'
  BY <1>1, <1>2 DEF Worked, Done
<1>6. Done(m) => Done(m)'
  BY <1>1, <1>2 DEF Done
<1> QED
  BY <1>1, <1>4, <1>5, <1>6 DEF Settled

\* A background deletion works on a material that is done.
LEMMA DeletionSettled ==
  ASSUME TypeOK, Deletion, NEW m \in Materials, Settled(m)
  PROVE  Settled(m)'
<1>1. UNCHANGED <<jobs, infvars, proc, pipe, rows, results, arrived, looked, late, jobsFor,
                  instructed>>
  BY DEF Deletion, RemoveImage, RemoveDir, AttemptFails, jobvars, workvars, outvars, histvars,
         linevars
<1>2. /\ Current(m)' <=> Current(m)
      /\ Waiting(m)' = Waiting(m)
      /\ Searched(m)' <=> Searched(m)
      /\ \A w \in Workers : InHand(m, w)' <=> InHand(m, w)
  BY <1>1 DEF Current, Taken, Waiting, Searched, ImagesOf, InHand, infvars
<1>3. ASSUME Kept(m) PROVE Kept(m)'
  <2>1. PICK d \in deletions : (\E image \in disk : RemoveImage(d, image)) \/ RemoveDir(d) \/ AttemptFails(d)
    BY DEF Deletion
  <2>2. d.dir # m
    BY <1>3, <2>1 DEF Kept
  <2>3. CASE \E image \in disk : RemoveImage(d, image)
    BY <1>1, <1>3, <2>2, <2>3 DEF RemoveImage, Kept, ImagesOf
  <2>4. CASE RemoveDir(d)
    BY <1>1, <1>3, <2>2, <2>4 DEF RemoveDir, Kept, ImagesOf
  <2>5. CASE AttemptFails(d)
    <3>1. d \in [id : JobIds, dir : 0 .. MaxMaterials, attempt : 1 .. Attempts]
      BY <2>1, TypeParts DEF FileTypes
    <3>2. [d EXCEPT !.attempt = d.attempt + 1].dir = d.dir
      BY <3>1
    <3>3. /\ UNCHANGED <<dirs, disk>>
          /\ \A e \in deletions' : e \in deletions \/ e = [d EXCEPT !.attempt = d.attempt + 1]
      BY <2>5 DEF AttemptFails
    <3>4. \A e \in deletions' : e.dir # m
      BY <1>3, <2>2, <3>2, <3>3 DEF Kept
    <3> QED
      BY <1>1, <1>3, <3>3, <3>4 DEF Kept, ImagesOf
  <2> QED
    BY <2>1, <2>3, <2>4, <2>5
<1> QED
  BY <1>1, <1>2, <1>3 DEF Settled, Untouched, Worked, Done, ImagesOf, infvars

\* Every other step leaves the images of every material alone.
LEMMA MaterialStep ==
  ASSUME JobsInv, MaterialInv, [Next]_vars PROVE MaterialInv'
<1> USE DEF JobsInv
<1>1. PassingInv'
  BY PassingStep DEF MaterialInv
<1>2. SUFFICES ASSUME NEW m \in Materials PROVE Settled(m)'
  BY <1>1 DEF MaterialInv
<1>3. Settled(m) /\ PassingInv
  BY DEF MaterialInv
<1>4. CASE \E image \in Images : Arrive(image)
  BY <1>3, <1>4, ArriveSettled
<1>5. CASE Instruct
  BY <1>3, <1>5, InstructSettled
<1>6. CASE PutJob
  BY <1>3, <1>6, PutSettled
<1>7. CASE GetJob
  BY <1>3, <1>7, GetSettled
<1>8. CASE \E w \in Workers : Process(w) \/ Die(w) \/ Collect(w)
  BY <1>3, <1>8, ListSettled, InferSettled, EndSettled, DieSettled, CollectSettled DEF Process
<1>9. CASE WriteResults
  BY <1>3, <1>9, WriteSettled
<1>10. CASE WriteFails \/ InferenceReturns \/ SeesJob
  BY <1>3, <1>10, InfSettled
<1>11. CASE Report
  BY <1>3, <1>11, ReportSettled
<1>12. CASE Deletion
  BY <1>3, <1>12, DeletionSettled
<1>13. CASE CloseDropsJob
  BY <1>3, <1>13, DropSettled
<1>14. CASE LineChanges
  BY <1>3, <1>14, SettledSame DEF LineChanges, jobvars, workvars, outvars, filevars, histvars
<1>15. ASSUME ~(\E image \in Images : Arrive(image)), ~Instruct, ~PutJob, ~GetJob,
              ~(\E w \in Workers : Process(w) \/ Die(w) \/ Collect(w)), ~WriteResults,
              ~(WriteFails \/ InferenceReturns \/ SeesJob), ~Report, ~Deletion,
              ~CloseDropsJob, ~LineChanges
       PROVE  Settled(m)'
  <2>1. UNCHANGED <<linevars, jobvars, infvars, workvars, outvars, filevars, histvars>>
    BY <1>15, Changes DEF InferenceThread, Process
  <2> QED
    BY <1>3, <2>1, SettledSame DEF linevars, jobvars, workvars, outvars, filevars, histvars
<1> QED
  BY <1>4, <1>5, <1>6, <1>7, <1>8, <1>9, <1>10, <1>11, <1>12, <1>13, <1>14, <1>15

\* No image that was stored before its group was looked through is lost, for any
\* number of groups, materials, images, deaths and failures: until the material
\* has had its job its images are on the disk, and the deletion begins only when
\* result.csv has them.
THEOREM ImagesAreAccountedFor == Spec => []NoImageUnaccounted
<1>1. Init => MaterialInv
  <2> SUFFICES ASSUME Init PROVE MaterialInv
    OBVIOUS
  <2>1. ASSUME NEW m \in Materials PROVE Untouched(m)
    BY DEF Init, Untouched, Current, Taken, Kept, Waiting, Materials
  <2> QED
    BY <2>1 DEF Init, MaterialInv, PassingInv, Settled
<1>2. JobsInv /\ MaterialInv /\ [Next]_vars => MaterialInv'
  BY MaterialStep
<1>3. JobsInv /\ MaterialInv => NoImageUnaccounted
  <2> SUFFICES ASSUME JobsInv, MaterialInv PROVE NoImageUnaccounted
    OBVIOUS
  <2>0. arrived \subseteq Images /\ jobsFor \in [Materials -> 0 .. 2]
    BY TypeParts DEF JobsInv, HistTypes
  <2>5. \A i \in arrived : i[1] \in Materials /\ jobsFor[i[1]] \in 0 .. 2
    BY <2>0, ImageShape
  <2> SUFFICES ASSUME NEW image \in arrived, jobsFor[image[1]] <= 1,
                      image \notin disk, image \notin late
               PROVE  image \in results[image[1]]
    BY <2>5 DEF NoImageUnaccounted
  <2> DEFINE m == image[1]
  <2>1. image \in Images /\ m \in Materials /\ image \in ImagesOf(m)
    BY TypeParts, ImageShape DEF JobsInv, HistTypes, ImagesOf
  <2>2. Untouched(m) \/ Worked(m) \/ Done(m)
    BY <2>1 DEF MaterialInv, Settled
  <2>3. ~Kept(m)
    BY <2>1 DEF Kept
  <2>4. Searched(m)
    BY <2>2, <2>3 DEF Untouched, Worked, Done
  <2> QED
    BY <2>1, <2>4 DEF Searched
<1> QED
  BY <1>1, <1>2, <1>3, JobsInvariant, PTL DEF Spec
-----------------------------------------------------------------------------
(***************************************************************************)
(* The jobs as items of the abstract service: the one in the inference     *)
(* thread's hand, then the queue.                                          *)
(***************************************************************************)
InHandIds == IF Taken THEN <<job.id>> ELSE <<>>
QueueIds == [i \in 1 .. Len(jobs) |-> jobs[i].id]
Pending == InHandIds \o QueueIds

\* The ids of the queue, one for each job.
LEMMA QueueIdsType ==
  ASSUME TypeOK, IdsInv
  PROVE  /\ QueueIds \in Seq(JobIds) /\ Len(QueueIds) = Len(jobs) /\ Len(jobs) \in Nat
         /\ \A i \in 1 .. Len(jobs) : QueueIds[i] = jobs[i].id /\ jobs[i].id \in Ids
<1>1. Len(jobs) \in Nat
  BY TypeParts, Parts DEF JobTypes
<1>2. Ids \subseteq JobIds
  BY TypeParts, Bounds DEF Ids, JobIds, JobTypes
<1>3. \A i \in 1 .. Len(jobs) : QueueIds[i] = jobs[i].id /\ jobs[i].id \in Ids
  BY DEF QueueIds, IdsInv
<1>4. QueueIds \in [1 .. Len(jobs) -> JobIds]
  BY <1>2, <1>3 DEF QueueIds
<1>5. QueueIds \in Seq(JobIds)
  BY <1>1, <1>4, SeqDef
<1>6. DOMAIN QueueIds = 1 .. Len(jobs) /\ DOMAIN QueueIds = 1 .. Len(QueueIds) /\ Len(QueueIds) \in Nat
  BY <1>4, <1>5, LenProperties
<1>7. Len(QueueIds) = Len(jobs)
  BY <1>1, <1>6
<1> QED
  BY <1>1, <1>3, <1>5, <1>7

\* The service's pending items are jobs.
LEMMA PendingType ==
  ASSUME TypeOK, CountInv, IdsInv
  PROVE  InHandIds \in Seq(JobIds) /\ QueueIds \in Seq(JobIds) /\ Pending \in Seq(JobIds)
<1>1. InHandIds \in Seq(JobIds)
  BY JobInHand, EmptySeq DEF InHandIds
<1> QED
  BY <1>1, QueueIdsType, ConcatProperties DEF Pending

\* Concatenation of ids is associative.
LEMMA Regroup ==
  \A a, b, c \in Seq(JobIds) : (a \o b) \o c = a \o (b \o c)
BY ConcatAssociative

\* Nothing that the service knows has the id given out next.
LEMMA NextIdIsNew ==
  ASSUME TypeOK, CountInv, IdsInv
  PROVE  nextId \notin Range(Pending) \cup Range(reported) \cup dropped
<1>1. nextId \notin Ids
  BY Numbers DEF Ids
<1>2. Range(reported) \subseteq Ids
  <2>1. reported \in Seq(JobIds)
    BY TypeParts DEF OutTypes
  <2>2. Range(reported) = {reported[i] : i \in 1 .. Len(reported)}
    BY <2>1, RangeEquality
  <2> QED
    BY <2>2 DEF IdsInv
<1>3. Range(QueueIds) \subseteq Ids
  <2>1. Range(QueueIds) = {QueueIds[i] : i \in 1 .. Len(QueueIds)}
    BY QueueIdsType, RangeEquality
  <2> QED
    BY <2>1, QueueIdsType
<1>4. Range(InHandIds) \subseteq Ids
  <2>1. Range(<<>>) = {} /\ Range(<<job.id>>) = {job.id}
    BY DEF Range
  <2> QED
    BY <2>1 DEF InHandIds, IdsInv
<1>5. Range(Pending) = Range(InHandIds) \cup Range(QueueIds)
  BY PendingType, RangeConcatenation DEF Pending
<1> QED
  BY <1>1, <1>2, <1>3, <1>4, <1>5 DEF IdsInv

\* What a job that leaves the queue leaves behind.
LEMMA FirstId ==
  ASSUME TypeOK, CountInv, IdsInv, jobs # <<>>, jobs' = Rest
  PROVE  QueueIds = <<Head(jobs).id>> \o QueueIds'
<1> DEFINE x == Head(jobs).id
           r == <<x>> \o QueueIds'
<1>1. /\ Head(jobs) = jobs[1] /\ Len(jobs) > 0 /\ Len(Rest) = Len(jobs) - 1 /\ Len(jobs) \in Nat
      /\ \A i \in 1 .. Len(jobs) - 1 : Rest[i] = jobs[i + 1]
  BY FirstJob
<1>2. x \in JobIds /\ <<x>> \in Seq(JobIds) /\ Len(<<x>>) = 1 /\ <<x>>[1] = x
  BY JobInHand
<1>3. /\ QueueIds' \in Seq(JobIds) /\ Len(QueueIds') = Len(jobs) - 1
      /\ \A i \in 1 .. Len(jobs) - 1 : QueueIds'[i] = jobs[i + 1].id
  <2>1. /\ QueueIds' \in Seq(JobIds) /\ Len(QueueIds') = Len(jobs')
        /\ \A i \in 1 .. Len(jobs') : QueueIds'[i] = jobs'[i].id
    <3>1. Len(jobs') \in Nat
      BY <1>1
    <3>2. \A i \in 1 .. Len(jobs) : jobs[i].id \in JobIds
      BY QueueIdsType, ElementOfSeq
    <3>3. \A i \in 1 .. Len(jobs') : QueueIds'[i] = jobs'[i].id /\ jobs'[i].id \in JobIds
      <4>1. \A i \in 1 .. Len(jobs) - 1 : i + 1 \in 1 .. Len(jobs)
        BY <1>1
      <4>2. \A i \in 1 .. Len(jobs') : jobs'[i].id \in JobIds
        BY <1>1, <3>2, <4>1
      <4> QED
        BY <4>2 DEF QueueIds
    <3>4. QueueIds' \in [1 .. Len(jobs') -> JobIds]
      BY <3>3 DEF QueueIds
    <3>5. QueueIds' \in Seq(JobIds)
      BY <3>1, <3>4, SeqDef
    <3>6. DOMAIN QueueIds' = 1 .. Len(jobs') /\ DOMAIN QueueIds' = 1 .. Len(QueueIds')
          /\ Len(QueueIds') \in Nat
      BY <3>4, <3>5, LenProperties
    <3>7. Len(QueueIds') = Len(jobs')
      BY <3>1, <3>6
    <3> QED
      BY <3>3, <3>5, <3>7
  <2> QED
    BY <1>1, <2>1
<1> HIDE DEF x
<1>4. /\ r \in Seq(JobIds) /\ Len(r) = 1 + (Len(jobs) - 1)
      /\ \A i \in 1 .. 1 + (Len(jobs) - 1) : r[i] = IF i <= 1 THEN <<x>>[i] ELSE QueueIds'[i - 1]
  BY <1>2, <1>3, ConcatProperties
<1>5. \A i \in 1 .. Len(jobs) : r[i] = QueueIds[i]
  <2> SUFFICES ASSUME NEW i \in 1 .. Len(jobs) PROVE r[i] = jobs[i].id
    BY QueueIdsType
  <2>1. r[i] = IF i <= 1 THEN <<x>>[i] ELSE QueueIds'[i - 1]
    BY <1>1, <1>4
  <2>2. CASE i = 1
    BY <1>1, <1>2, <2>1, <2>2 DEF x
  <2>3. CASE i # 1
    <3>1. i - 1 \in 1 .. Len(jobs) - 1 /\ (i - 1) + 1 = i /\ ~(i <= 1)
      BY <1>1, <2>3
    <3> QED
      BY <1>3, <2>1, <3>1
  <2> QED
    BY <2>2, <2>3
<1> HIDE DEF r
<1>6. Len(r) = Len(QueueIds) /\ QueueIds \in Seq(JobIds)
  BY <1>1, <1>4, QueueIdsType
<1>7. r = QueueIds
  BY <1>1, <1>4, <1>5, <1>6, QueueIdsType, SeqEqual
<1> QED
  BY <1>7 DEF r, x

\* The abstract steps.
LEMMA ServiceStutters ==
  ASSUME Pending' = Pending, UNCHANGED <<reported, dropped>>
  PROVE  UNCHANGED Channel!vars
BY DEF Channel!vars, Pending, InHandIds, QueueIds, Taken

\* A new id at the end is accepted.
LEMMA ServiceAccepts ==
  ASSUME NEW x \in JobIds, x \notin Range(Pending) \cup Range(reported) \cup dropped,
         Pending' = Append(Pending, x), UNCHANGED <<reported, dropped>>
  PROVE  Channel!Next
<1>1. Channel!Accept(x)
  BY DEF Channel!Accept, Channel!Range, Range, Pending, InHandIds, QueueIds, Taken
<1> QED
  BY <1>1 DEF Channel!Next

\* The first id leaves and is reported.
LEMMA ServiceDelivers ==
  ASSUME Pending # <<>>, Pending' = Tail(Pending), reported' = Append(reported, Head(Pending)),
         dropped' = dropped
  PROVE  Channel!Next
<1>1. Channel!Deliver
  BY DEF Channel!Deliver, Pending, InHandIds, QueueIds, Taken
<1> QED
  BY <1>1 DEF Channel!Next

\* One id leaves and is dropped.
LEMMA ServiceLoses ==
  ASSUME NEW i \in 1 .. Len(Pending), dropped' = dropped \cup {Pending[i]}, Len(Pending) \in Nat,
         Pending' = SubSeq(Pending, 1, i - 1) \o SubSeq(Pending, i + 1, Len(Pending)),
         reported' = reported
  PROVE  Channel!Next
<1>1. {Pending[k] : k \in i .. i} = {Pending[i]}
  OBVIOUS
<1>2. Channel!Lose(i, i)
  BY <1>1 DEF Channel!Lose, Pending, InHandIds, QueueIds, Taken
<1>3. \E k, l \in 1 .. Len(Pending) : k <= l /\ Channel!Lose(k, l)
  BY <1>2
<1> QED
  BY <1>3 DEF Channel!Next, Pending, InHandIds, QueueIds, Taken

\* The cut that takes one item out from between two stretches.
LEMMA CutOne ==
  ASSUME NEW a \in Seq(JobIds), NEW x \in JobIds, NEW c \in Seq(JobIds)
  PROVE  LET p == a \o (<<x>> \o c)
             i == Len(a) + 1
         IN  /\ p \in Seq(JobIds) /\ Len(p) \in Nat /\ i \in 1 .. Len(p) /\ p[i] = x
             /\ SubSeq(p, 1, i - 1) = a /\ SubSeq(p, i + 1, Len(p)) = c
<1> DEFINE d == <<x>> \o c
           p == a \o d
           n == Len(a)
<1>1. n \in Nat /\ Len(c) \in Nat
  BY LenProperties
<1>2. <<x>> \in Seq(JobIds) /\ Len(<<x>>) = 1 /\ <<x>>[1] = x
  OBVIOUS
<1>3. /\ d \in Seq(JobIds) /\ Len(d) = 1 + Len(c)
      /\ \A k \in 1 .. 1 + Len(c) : d[k] = IF k <= 1 THEN <<x>>[k] ELSE c[k - 1]
  BY <1>2, ConcatProperties
<1>4. d[1] = x /\ \A k \in 1 .. Len(c) : d[k + 1] = c[k]
  BY <1>1, <1>2, <1>3
<1> HIDE DEF d
<1>5. /\ p \in Seq(JobIds) /\ Len(p) = n + (1 + Len(c))
      /\ \A k \in 1 .. n + (1 + Len(c)) : p[k] = IF k <= n THEN a[k] ELSE d[k - n]
  <2>1. /\ p \in Seq(JobIds) /\ Len(p) = n + Len(d)
        /\ \A k \in 1 .. n + Len(d) : p[k] = IF k <= n THEN a[k] ELSE d[k - n]
    <3>1. d \in Seq(JobIds)
      BY <1>3
    <3> QED
      BY <3>1, ConcatProperties
  <2> QED
    BY <1>3, <2>1
<1> HIDE DEF p
<1>6. p[n + 1] = x /\ n + 1 \in 1 .. Len(p) /\ Len(p) \in Nat
  <2>1. n + 1 \in 1 .. n + (1 + Len(c)) /\ ~(n + 1 <= n) /\ (n + 1) - n = 1
    BY <1>1
  <2> QED
    BY <1>1, <1>4, <1>5, <2>1
<1>7. \A k \in 1 .. Len(p) : p[k] \in JobIds
  BY <1>5, ElementOfSeq
<1>8. SubSeq(p, 1, n) = a
  <2> DEFINE q == SubSeq(p, 1, n)
  <2>1. \A k \in 1 .. n : p[k] \in JobIds /\ p[k] = a[k]
    BY <1>1, <1>5, <1>7
  <2>2. /\ q \in Seq(JobIds) /\ Len(q) = IF 1 <= n THEN (n - 1) + 1 ELSE 0
        /\ \A k \in 1 .. (n - 1) + 1 : q[k] = p[(1 + k) - 1]
    BY <1>1, <2>1, SubSeqProperties
  <2>3. Len(q) = n /\ (n - 1) + 1 = n
    BY <1>1, <2>2
  <2>4. \A k \in 1 .. n : q[k] = a[k]
    BY <2>1, <2>2, <2>3
  <2> HIDE DEF q
  <2>5. q = a
    BY <2>2, <2>3, <2>4, SeqEqual
  <2> QED
    BY <2>5 DEF q
<1>9. SubSeq(p, n + 2, Len(p)) = c
  <2> DEFINE q == SubSeq(p, n + 2, Len(p))
  <2>1. n + 2 \in Int /\ Len(p) \in Int /\ \A k \in n + 2 .. Len(p) : p[k] \in JobIds
    BY <1>1, <1>5, <1>7
  <2>2. /\ q \in Seq(JobIds) /\ Len(q) = IF n + 2 <= Len(p) THEN (Len(p) - (n + 2)) + 1 ELSE 0
        /\ \A k \in 1 .. (Len(p) - (n + 2)) + 1 : q[k] = p[((n + 2) + k) - 1]
    BY <2>1, SubSeqProperties
  <2>3. Len(q) = Len(c) /\ (Len(p) - (n + 2)) + 1 = Len(c)
    BY <1>1, <1>5, <2>2
  <2>4. \A k \in 1 .. Len(c) : p[((n + 2) + k) - 1] = c[k]
    <3> SUFFICES ASSUME NEW k \in 1 .. Len(c) PROVE p[((n + 2) + k) - 1] = c[k]
      OBVIOUS
    <3>1. /\ ((n + 2) + k) - 1 \in 1 .. n + (1 + Len(c)) /\ ~(((n + 2) + k) - 1 <= n)
          /\ (((n + 2) + k) - 1) - n = k + 1
      BY <1>1
    <3> QED
      BY <1>4, <1>5, <3>1
  <2>5. \A k \in 1 .. Len(c) : q[k] = c[k]
    BY <2>2, <2>3, <2>4
  <2> HIDE DEF q
  <2>6. q = c
    BY <2>2, <2>3, <2>5, SeqEqual
  <2> QED
    BY <2>6 DEF q
<1>10. (n + 1) - 1 = n /\ (n + 1) + 1 = n + 2
  BY <1>1
<1> QED
  BY <1>5, <1>6, <1>8, <1>9, <1>10 DEF p, d
-----------------------------------------------------------------------------
(***************************************************************************)
(* The refinement, step by step: a job is accepted when it is queued,      *)
(* delivered when it is reported, and lost when close() drains it.         *)
(***************************************************************************)
LEMMA PutAccepts ==
  ASSUME TypeOK, CountInv, IdsInv, PutJob PROVE Channel!Next
<1>1. UNCHANGED <<infvars, reported, dropped>>
  BY DEF PutJob, outvars, closevars
<1>2. nextId \in JobIds /\ jobs' = Append(jobs, [id |-> nextId, dir |-> DirOf(copy)])
  BY NextJob
<1> DEFINE e == [id |-> nextId, dir |-> DirOf(copy)]
<1>3. /\ Len(jobs') = Len(jobs) + 1 /\ Len(jobs) \in Nat
      /\ \A i \in 1 .. Len(jobs) : jobs'[i] = jobs[i]
      /\ jobs'[Len(jobs) + 1] = e
  <2>1. jobs \in Seq(JobRecords) /\ e \in JobRecords
    BY NextJob, TypeParts DEF JobTypes
  <2> HIDE DEF e
  <2> QED
    BY <1>2, <2>1, Longer, Parts DEF e
<1>4. QueueIds' = Append(QueueIds, nextId)
  <2> DEFINE r == Append(QueueIds, nextId)
  <2>1. /\ r \in Seq(JobIds) /\ Len(r) = Len(jobs) + 1
        /\ \A i \in 1 .. Len(jobs) : r[i] = jobs[i].id
        /\ r[Len(jobs) + 1] = nextId
    BY <1>2, QueueIdsType, Longer
  <2>2. r \in [1 .. Len(jobs) + 1 -> JobIds]
    BY <2>1, LenProperties
  <2>3. \A i \in 1 .. Len(jobs) + 1 : r[i] = jobs'[i].id
    <3> SUFFICES ASSUME NEW i \in 1 .. Len(jobs) + 1 PROVE r[i] = jobs'[i].id
      OBVIOUS
    <3>1. CASE i \in 1 .. Len(jobs)
      <4> HIDE DEF r
      <4> QED
        BY <1>3, <2>1, <3>1
    <3>2. CASE i = Len(jobs) + 1
      <4> HIDE DEF r
      <4> QED
        BY <1>3, <2>1, <3>2
    <3>3. i \in 1 .. Len(jobs) \/ i = Len(jobs) + 1
      BY <1>3
    <3> HIDE DEF r
    <3> QED
      BY <3>1, <3>2, <3>3
  <2> HIDE DEF r
  <2>4. r = [i \in 1 .. Len(jobs') |-> jobs'[i].id]
    BY <1>3, <2>2, <2>3
  <2> QED
    BY <2>4 DEF QueueIds, r
<1>5. InHandIds' = InHandIds
  BY <1>1 DEF InHandIds, Taken, infvars
<1>6. Pending' = Append(Pending, nextId)
  <2>1. /\ InHandIds \in Seq(JobIds) /\ QueueIds \in Seq(JobIds) /\ Pending \in Seq(JobIds)
        /\ <<nextId>> \in Seq(JobIds)
    BY <1>2, PendingType
  <2>2. Append(QueueIds, nextId) = QueueIds \o <<nextId>>
    BY <1>2, <2>1, AppendIsConcat
  <2>3. Append(Pending, nextId) = Pending \o <<nextId>>
    BY <1>2, <2>1, AppendIsConcat
  <2> HIDE DEF QueueIds, InHandIds
  <2>4. (InHandIds \o QueueIds) \o <<nextId>> = InHandIds \o (QueueIds \o <<nextId>>)
    BY <2>1, Regroup
  <2> QED
    BY <1>4, <1>5, <2>2, <2>3, <2>4 DEF Pending
<1> QED
  BY <1>1, <1>2, <1>6, NextIdIsNew, ServiceAccepts

\* A job that is taken only changes hands.
LEMMA GetStutters ==
  ASSUME TypeOK, CountInv, IdsInv, GetJob PROVE UNCHANGED Channel!vars
<1>1. /\ UNCHANGED <<reported, dropped>> /\ jobs # <<>> /\ jobs' = Rest
      /\ job' = Head(jobs) /\ inf = "get" /\ inf' = "collect"
  BY DEF GetJob, outvars, closevars
<1>2. InHandIds = <<>> /\ InHandIds' = <<Head(jobs).id>>
  BY <1>1 DEF InHandIds, Taken
<1>3. QueueIds = <<Head(jobs).id>> \o QueueIds'
  BY <1>1, FirstId
<1>4. Pending' = Pending
  <2>1. <<>> \o QueueIds = QueueIds
    BY QueueIdsType, ConcatEmptySeq
  <2> QED
    BY <1>2, <1>3, <2>1 DEF Pending
<1> QED
  BY <1>1, <1>4, ServiceStutters

\* A report delivers the job in hand.
LEMMA ReportDelivers ==
  ASSUME TypeOK, CountInv, IdsInv, Report PROVE Channel!Next
<1>1. /\ UNCHANGED <<jobs, dropped>> /\ inf = "report" /\ inf' = "test"
      /\ reported' = Append(reported, job.id)
  BY DEF Report, jobvars, closevars
<1>2. InHandIds = <<job.id>> /\ InHandIds' = <<>> /\ QueueIds' = QueueIds
  BY <1>1 DEF InHandIds, Taken, QueueIds
<1>3. job.id \in JobIds /\ QueueIds \in Seq(JobIds)
  BY <1>1, JobInHand, QueueIdsType DEF Taken
<1>4. Pending' = QueueIds
  BY <1>2, <1>3, ConcatEmptySeq DEF Pending
<1>5. Pending = <<job.id>> \o QueueIds
  BY <1>2 DEF Pending
<1>6. Pending # <<>> /\ Head(Pending) = job.id /\ Tail(Pending) = QueueIds
  <2>1. ASSUME NEW x \in JobIds, NEW t \in Seq(JobIds)
        PROVE  <<x>> \o t # <<>> /\ Head(<<x>> \o t) = x /\ Tail(<<x>> \o t) = t
    OBVIOUS
  <2> HIDE DEF QueueIds
  <2> QED
    BY <1>3, <1>5, <2>1
<1> QED
  BY <1>1, <1>4, <1>6, ServiceDelivers

\* close() loses the first job of the queue, behind the one in hand.
LEMMA DropLoses ==
  ASSUME TypeOK, CountInv, IdsInv, CloseDropsJob PROVE Channel!Next
<1> DEFINE x == Head(jobs).id
           i == Len(InHandIds) + 1
<1>1. /\ UNCHANGED <<infvars, reported>> /\ jobs # <<>> /\ jobs' = Rest
      /\ dropped' = dropped \cup {x}
  BY DEF CloseDropsJob, outvars
<1>2. InHandIds' = InHandIds
  BY <1>1 DEF InHandIds, Taken, infvars
<1>3. QueueIds = <<x>> \o QueueIds'
  BY <1>1, FirstId
<1>4. InHandIds \in Seq(JobIds) /\ x \in JobIds
  BY <1>1, PendingType, JobInHand
<1>5. QueueIds' \in Seq(JobIds)
  <2>1. <<x>> \in Seq(JobIds) /\ QueueIds \in Seq(JobIds) /\ Len(jobs) \in Nat /\ Len(Rest) \in Nat
    BY <1>1, <1>4, QueueIdsType, FirstJob
  <2>2. \A k \in 1 .. Len(jobs') : jobs'[k].id \in JobIds
    <3>1. /\ Len(Rest) = Len(jobs) - 1 /\ \A k \in 1 .. Len(jobs) - 1 : Rest[k] = jobs[k + 1]
      BY <1>1, FirstJob
    <3>2. \A k \in 1 .. Len(jobs) : jobs[k].id \in JobIds
      BY QueueIdsType, ElementOfSeq
    <3>3. \A k \in 1 .. Len(jobs) - 1 : k + 1 \in 1 .. Len(jobs)
      BY <2>1
    <3> QED
      BY <1>1, <3>1, <3>2, <3>3
  <2>3. QueueIds' \in [1 .. Len(jobs') -> JobIds]
    BY <2>2 DEF QueueIds
  <2> QED
    BY <1>1, <2>1, <2>3, SeqDef
<1>6. Pending = InHandIds \o (<<x>> \o QueueIds') /\ Pending' = InHandIds \o QueueIds'
  BY <1>2, <1>3 DEF Pending
<1>7. /\ Len(Pending) \in Nat /\ i \in 1 .. Len(Pending) /\ Pending[i] = x
      /\ SubSeq(Pending, 1, i - 1) = InHandIds /\ SubSeq(Pending, i + 1, Len(Pending)) = QueueIds'
  BY <1>4, <1>5, <1>6, CutOne
<1> HIDE DEF x, i
<1> QED
  BY <1>1, <1>6, <1>7, ServiceLoses

\* Every other step moves no job.
LEMMA OthersStutter ==
  ASSUME TypeOK, [Next]_vars, ~PutJob, ~GetJob, ~Report, ~CloseDropsJob
  PROVE  UNCHANGED Channel!vars
<1>1. UNCHANGED jobs
  BY Changes DEF jobvars
<1>2. UNCHANGED dropped
  BY Changes DEF Close, Gui, WriteField, CloseWaited, CloseSeesJob, CloseStops, CloseJoined, closevars
<1>3. UNCHANGED reported
  BY Changes DEF WriteResults, outvars
<1>4. UNCHANGED job /\ (Taken' <=> Taken)
  <2>1. CASE InferenceReturns \/ SeesJob \/ WriteResults \/ WriteFails \/ \E w \in Workers : Collect(w)
    BY <2>1 DEF InferenceReturns, SeesJob, WriteResults, WriteFails, Collect, infvars, Taken
  <2>2. CASE UNCHANGED infvars
    BY <2>2 DEF infvars, Taken
  <2> QED
    BY <2>1, <2>2, Changes DEF InferenceThread
<1>5. Pending' = Pending
  BY <1>1, <1>4 DEF Pending, InHandIds, QueueIds
<1> QED
  BY <1>2, <1>3, <1>5, ServiceStutters

\* For any number of jobs, jobs are reported in the order they were queued, each at
\* most once, and none that close() drained: whichever of the inference thread and
\* close() takes the next one.
THEOREM JobsAreAChannel == Spec => ImplementsJobService
<1>1. Init => Channel!Init
  <2> SUFFICES ASSUME Init PROVE Channel!Init
    OBVIOUS
  <2>1. jobs = <<>> /\ inf = "test" /\ reported = <<>> /\ dropped = {}
    BY DEF Init
  <2>2. InHandIds = <<>> /\ QueueIds = <<>>
    BY <2>1 DEF InHandIds, Taken, QueueIds
  <2>3. <<>> \o <<>> = <<>>
    OBVIOUS
  <2>4. Pending = <<>>
    BY <2>2, <2>3 DEF Pending
  <2> QED
    BY <2>1, <2>4 DEF Channel!Init, Pending, InHandIds, QueueIds, Taken
<1>2. JobsInv /\ [Next]_vars => [Channel!Next]_(Channel!vars)
  BY PutAccepts, GetStutters, ReportDelivers, DropLoses, OthersStutter DEF JobsInv
<1> QED
  BY <1>1, <1>2, JobsInvariant, PTL DEF Spec, ImplementsJobService, Channel!Spec
-----------------------------------------------------------------------------
(***************************************************************************)
(* PresetControl.                                                          *)
(***************************************************************************)

(* A set of natural numbers has a smallest.                                *)
LEMMA Smallest ==
  ASSUME NEW T \in SUBSET Nat, T # {}
  PROVE  \E x \in T : \A y \in T : x <= y
<1> DEFINE R == {ss \in Nat \X Nat : ss[1] < ss[2]}
<1>1. IsWellFoundedOn(R, Nat)
  BY NatLessThanWellFounded DEF OpToRel
<1>2. PICK x \in T : \A y \in T : ~(<<y, x>> \in R)
  <2> HIDE DEF R
  <2> QED
    BY <1>1, WFMin
<1>3. \A y \in T : ~(y < x)
  BY <1>2
<1>4. QED
  BY <1>3

\* What a directory's positions and files are.
LEMMA Domains ==
  ASSUME NEW d \in PresetDirs
  PROVE  /\ DOMAIN d \subseteq Nat \ {0} /\ DOMAIN d \subseteq Files
         /\ \A i \in DOMAIN d : d[i] \in PresetFiles
         /\ d # <<>> => DOMAIN d # {}
<1>1. d \in Seq(PresetFiles)
  BY SizesAssumption
<1>2. DOMAIN d = 1 .. Len(d) /\ Len(d) \in Nat
      /\ \A i \in 1 .. Len(d) : d[i] \in PresetFiles
  BY <1>1, LenProperties
<1>3. DOMAIN d \subseteq Nat \ {0}
  BY <1>2
<1>4. DOMAIN d \subseteq Files
  BY DEF Files
<1>5. d # <<>> => 1 \in DOMAIN d
  BY <1>1, <1>2, EmptySeq
<1>6. QED
  BY <1>2, <1>3, <1>4, <1>5

\* What may be set is a file or typed.
LEMMA SettingsFacts == NoPreset \in Files /\ Typed \in Settings /\ Files \subseteq Settings
BY DEF Files, Settings

(* The nearest preset is one of the directory's.                           *)
LEMMA SquareIsNatural == ASSUME NEW a \in Int PROVE a * a \in Nat
OBVIOUS

\* A distance is a natural number.
LEMMA DistanceType ==
  ASSUME NEW p \in PresetFiles, NEW m \in Announced
  PROVE  Distance(p, m) \in Nat
<1>1. /\ p.width \in Int /\ p.height \in Int /\ m.width \in Int /\ m.height \in Int
  BY SizesAssumption DEF PresetFiles
<1> DEFINE a == p.width - m.width
           b == p.height - m.height
<1>2. a \in Int /\ b \in Int
  BY <1>1
<1>3. Distance(p, m) = a * a + b * b
  BY DEF Distance
<1> HIDE DEF a, b
<1>4. a * a \in Nat /\ b * b \in Nat
  BY <1>2, SquareIsNatural
<1>5. QED
  BY <1>3, <1>4

\* The nearest preset is one of the directory's, if it has any.
LEMMA NearestType ==
  ASSUME PresetTypeOK, NEW m \in Announced
  PROVE  /\ Nearest(m) \in Files
         /\ presets # <<>> => Nearest(m) \in DOMAIN presets
<1>1. presets \in PresetDirs
  BY DEF PresetTypeOK
<1>2. CASE presets = <<>>
  BY <1>2, SettingsFacts DEF Nearest
<1>3. CASE presets # <<>>
  <2> DEFINE nearest == {i \in DOMAIN presets : \A j \in DOMAIN presets :
                           Distance(presets[i], m) <= Distance(presets[j], m)}
             distances == {Distance(presets[i], m) : i \in DOMAIN presets}
  <2>1. distances \subseteq Nat /\ distances # {}
    BY <1>1, <1>3, Domains, DistanceType
  <2>2. PICK x \in distances : \A y \in distances : x <= y
    <3> HIDE DEF distances
    <3> QED
      BY <2>1, Smallest
  <2>3. nearest # {}
    BY <2>2
  <2>4. nearest \subseteq DOMAIN presets
    OBVIOUS
  <2>5. Nearest(m) = CHOOSE i \in nearest : \A j \in nearest : i <= j
    BY <1>3 DEF Nearest
  <2> HIDE DEF nearest
  <2>6. \E i \in nearest : \A j \in nearest : i <= j
    <3>1. nearest \subseteq Nat
      BY <1>1, <2>4, Domains
    <3>2. QED
      BY <2>3, <3>1, Smallest
  <2>7. Nearest(m) \in nearest
    BY <2>5, <2>6
  <2>8. QED
    BY <1>1, <2>4, <2>7, Domains
<1>4. QED
  BY <1>2, <1>3

(* What sending does to the wires and the light's levels.                  *)
LEMMA SendType ==
  ASSUME PresetTypeOK, NEW fields \in SUBSET EditFields, NEW values \in [EditFields -> Settings],
         Send(fields, values)
  PROVE  /\ wire' \in [Ends -> Seq(Settings)] /\ device' \in [Ends -> Settings]
         /\ levels' \in Settings /\ held' \in Settings /\ stale' \in BOOLEAN
<1>1. ASSUME NEW e \in Ends PROVE wire'[e] \in Seq(Settings)
  <2>1. wire[e] \in Seq(Settings) /\ e[2] \in EditFields
    BY DEF PresetTypeOK, Ends, EditFields
  <2>2. values[e[2]] \in Settings
    BY <2>1
  <2>3. Append(wire[e], values[e[2]]) \in Seq(Settings)
    BY <2>1, <2>2, AppendProperties
  <2>4. wire'[e] = IF e[2] \in fields THEN Append(wire[e], values[e[2]]) ELSE wire[e]
    BY DEF Send
  <2>5. QED
    BY <2>1, <2>3, <2>4
<1>2. wire' \in [Ends -> Seq(Settings)]
  BY <1>1 DEF Send
<1>3. values["light"] \in Settings
  BY DEF EditFields
<1>4. stale' \in BOOLEAN
  BY Zenon DEF PresetTypeOK, Send
<1>5. levels' \in Settings /\ device' \in [Ends -> Settings] /\ held' \in Settings
  BY <1>3 DEF PresetTypeOK, Send
<1>6. QED
  BY <1>2, <1>4, <1>5

\* No more is sent than asked.
LEMMA SentType ==
  ASSUME NEW fields \in SUBSET EditFields, NEW values, NEW lit
  PROVE  Sent(fields, values, lit) \in SUBSET EditFields /\ Sent(fields, values, lit) \subseteq fields
BY DEF Sent

\* What the fields hold after loading.
LEMMA LoadedType ==
  ASSUME PresetTypeOK, NEW p \in Files
  PROVE  /\ Loaded(p) \in [EditFields -> Settings]
         /\ presets[p].fills = {} => Loaded(p) = edits
         /\ presets[p].fills = EditFields => \A f \in EditFields : Loaded(p)[f] = p
BY SettingsFacts DEF PresetTypeOK, Loaded

\* Loading on its own.
LEMMA LoadedOnlyType ==
  ASSUME PresetTypeOK, NEW p \in Files, LoadedOnly(p)
  PROVE  /\ mixed' \in BOOLEAN /\ failed' = TRUE /\ UNCHANGED <<wire, device, levels, held, stale>>
         /\ ~mixed' => ~mixed /\ presets[p].fills = {}
BY Zenon DEF LoadedOnly, PresetTypeOK, light

\* A preset is applied.
LEMMA ApplyType ==
  ASSUME PresetTypeOK, NEW p \in Files, Apply(p)
  PROVE  /\ edits' \in [EditFields -> Settings] /\ boxes' \in Seq(Files)
         /\ wire' \in [Ends -> Seq(Settings)] /\ device' \in [Ends -> Settings]
         /\ levels' \in Settings /\ held' \in Settings
         /\ mixed' \in BOOLEAN /\ failed' \in BOOLEAN /\ stale' \in BOOLEAN
<1>1. edits' = Loaded(p) /\ edits' \in [EditFields -> Settings]
  BY LoadedType DEF Apply
<1>2. boxes \in Seq(Files) /\ Append(boxes, p) \in Seq(Files)
  BY AppendProperties DEF PresetTypeOK
<1>3. CASE /\ presets[p].load = "returns" /\ UNCHANGED boxes
           /\ \E lit \in BOOLEAN :
                LET sent == Sent(EditFields, edits', lit)
                    whole == sent = EditFields /\ presets[p].fills = EditFields
                IN  /\ Send(sent, edits')
                    /\ failed' = ~whole
                    /\ mixed' = (~whole /\ (mixed \/ presets[p].fills # {}))
  <2>1. PICK lit \in BOOLEAN : Send(Sent(EditFields, edits', lit), edits')
    BY <1>3
  <2>2. /\ wire' \in [Ends -> Seq(Settings)] /\ device' \in [Ends -> Settings]
        /\ levels' \in Settings /\ held' \in Settings /\ stale' \in BOOLEAN
    BY <1>1, <2>1, SentType, SendType
  <2>3. mixed' \in BOOLEAN /\ failed' \in BOOLEAN
    BY <1>3, Zenon
  <2>4. QED
    BY <1>1, <1>2, <1>3, <2>2, <2>3
<1>4. CASE LoadedOnly(p) /\ (boxes' = boxes \/ boxes' = Append(boxes, p))
  BY <1>1, <1>2, <1>4, LoadedOnlyType DEF PresetTypeOK
<1>5. QED
  BY <1>3, <1>4, Zenon DEF Apply

\* Level2 announces a material.
LEMMA Level2Type ==
  ASSUME PresetTypeOK, NEW m \in Announced, Level2Data(m)
  PROVE  PresetTypeOK'
<1> DEFINE p == Nearest(m)
<1>1. p \in Files
  BY NearestType
<1> HIDE DEF p
<1>2. instructions' \in 0 .. MaxInstructions
  BY PresetBoundsAssumption DEF PresetTypeOK, Level2Data
<1>3. inference' \in Announced \cup {NoMaterial}
  BY DEF PresetTypeOK, Level2Data, NoteMaterial
<1>4. combobox' \in Files /\ last' \in Files
  BY <1>1 DEF PresetTypeOK, Level2Data, LastAfter, p
<1>5. /\ edits' \in [EditFields -> Settings] /\ boxes' \in Seq(Files)
      /\ wire' \in [Ends -> Seq(Settings)] /\ device' \in [Ends -> Settings]
      /\ levels' \in Settings /\ held' \in Settings
      /\ mixed' \in BOOLEAN /\ failed' \in BOOLEAN /\ stale' \in BOOLEAN
  <2>1. CASE Apply(p)
    BY <1>1, <2>1, ApplyType
  <2>2. CASE /\ Send(Sent({"light"}, edits, TRUE), edits)
             /\ UNCHANGED <<edits, boxes, mixed, failed>>
    <3>1. {"light"} \in SUBSET EditFields /\ edits \in [EditFields -> Settings]
      BY DEF PresetTypeOK, EditFields
    <3>2. QED
      BY <2>2, <3>1, SentType, SendType DEF PresetTypeOK
  <2>3. CASE UNCHANGED <<edits, boxes, wire, device, light, history>>
    BY <2>3 DEF PresetTypeOK, light, history
  <2>4. QED
    BY <2>1, <2>2, <2>3, Zenon DEF Level2Data, p
<1>6. UNCHANGED <<presets, online, gone, operations, losses>>
  BY DEF Level2Data
<1>7. QED
  BY <1>2, <1>3, <1>4, <1>5, <1>6 DEF PresetTypeOK

\* A message box is dismissed.
LEMMA DismissType == ASSUME PresetTypeOK, Dismiss PROVE PresetTypeOK'
<1> DEFINE p == boxes[Len(boxes)]
<1>1. boxes \in Seq(Files) /\ boxes # <<>>
  BY DEF PresetTypeOK, Dismiss
<1>2. Len(boxes) \in Nat \ {0}
  BY <1>1, EmptySeq
<1>3. p \in Files
  BY <1>1, <1>2, ElementOfSeq
<1>4. boxes' \in Seq(Files)
  <2>1. boxes' = SubSeq(boxes, 1, Len(boxes) - 1)
    BY DEF Dismiss
  <2>2. \A i \in 1 .. Len(boxes) - 1 : boxes[i] \in Files
    BY <1>1, <1>2, ElementOfSeq
  <2>3. 1 \in Int /\ Len(boxes) - 1 \in Int
    BY <1>2
  <2>4. QED
    BY <2>1, <2>2, <2>3, SubSeqProperties
<1> HIDE DEF p
<1>5. /\ last' \in Files
      /\ wire' \in [Ends -> Seq(Settings)] /\ device' \in [Ends -> Settings]
      /\ levels' \in Settings /\ held' \in Settings
      /\ mixed' \in BOOLEAN /\ failed' \in BOOLEAN /\ stale' \in BOOLEAN
  <2>1. CASE UNCHANGED <<last, wire, device, light, history>>
    BY <2>1 DEF PresetTypeOK, light, history
  <2>2. ASSUME NEW lit \in BOOLEAN, Send(Sent(EditFields, edits, lit), edits),
               last' = IF Sent(EditFields, edits, lit) = EditFields THEN p ELSE last,
               failed' = TRUE, UNCHANGED mixed
        PROVE  /\ last' \in Files
               /\ wire' \in [Ends -> Seq(Settings)] /\ device' \in [Ends -> Settings]
               /\ levels' \in Settings /\ held' \in Settings
               /\ mixed' \in BOOLEAN /\ failed' \in BOOLEAN /\ stale' \in BOOLEAN
    <3>1. EditFields \in SUBSET EditFields /\ edits \in [EditFields -> Settings]
      BY DEF PresetTypeOK
    <3>2. /\ wire' \in [Ends -> Seq(Settings)] /\ device' \in [Ends -> Settings]
          /\ levels' \in Settings /\ held' \in Settings /\ stale' \in BOOLEAN
      BY <2>2, <3>1, SentType, SendType
    <3>3. last' \in Files /\ mixed' \in BOOLEAN /\ failed' \in BOOLEAN
      BY <1>3, <2>2 DEF PresetTypeOK
    <3>4. QED
      BY <3>2, <3>3
  <2>3. \/ UNCHANGED <<last, wire, device, light, history>>
        \/ \E lit \in BOOLEAN :
             /\ Send(Sent(EditFields, edits, lit), edits)
             /\ last' = IF Sent(EditFields, edits, lit) = EditFields THEN p ELSE last
             /\ failed' = TRUE /\ UNCHANGED mixed
    BY Zenon DEF Dismiss, p
  <2>4. QED
    BY <2>1, <2>2, <2>3
<1>6. UNCHANGED <<presets, online, combobox, edits, inference, gone, counts>>
  BY DEF Dismiss
<1>7. QED
  BY <1>4, <1>5, <1>6 DEF PresetTypeOK, counts

\* The operator loads, types or sets.
LEMMA OperatorType ==
  ASSUME PresetTypeOK,
         \/ \E p \in DOMAIN presets : OperatorLoads(p)
         \/ OperatorTypes
         \/ \E f \in EditFields : OperatorSets(f)
  PROVE  PresetTypeOK'
<1>1. operations' \in 0 .. MaxOperations
      /\ UNCHANGED <<presets, online, inference, instructions, losses>>
  <2>1. Operates
    BY DEF OperatorLoads, OperatorTypes, OperatorSets
  <2>2. QED
    BY <2>1, PresetBoundsAssumption DEF PresetTypeOK, Operates
<1>2. CASE \E p \in DOMAIN presets : OperatorLoads(p)
  <2>1. PICK p \in DOMAIN presets : OperatorLoads(p)
    BY <1>2
  <2>2. p \in Files
    BY Domains DEF PresetTypeOK
  <2>3. edits' \in [EditFields -> Settings]
    BY <2>1, <2>2, LoadedType DEF OperatorLoads
  <2>4. <<NoPreset>> \in Seq(Files)
    BY SettingsFacts, EmptySeq, AppendProperties
  <2>5. combobox' = p /\ last' = p /\ boxes' \in Seq(Files)
    BY <2>1, <2>4 DEF OperatorLoads, PresetTypeOK
  <2>6. gone' \in BOOLEAN
    BY <2>1, Zenon DEF OperatorLoads
  <2>7. /\ wire' \in [Ends -> Seq(Settings)] /\ device' \in [Ends -> Settings]
        /\ levels' \in Settings /\ held' \in Settings
        /\ mixed' \in BOOLEAN /\ failed' \in BOOLEAN /\ stale' \in BOOLEAN
    BY <2>1, <2>2, LoadedOnlyType DEF OperatorLoads, PresetTypeOK
  <2>8. QED
    BY <1>1, <2>2, <2>3, <2>5, <2>6, <2>7 DEF PresetTypeOK
<1>3. CASE OperatorTypes
  <2>1. edits' \in [EditFields -> Settings]
    BY <1>3, SettingsFacts DEF OperatorTypes, PresetTypeOK
  <2>2. mixed' \in BOOLEAN
    BY <1>3 DEF OperatorTypes
  <2>3. UNCHANGED <<combobox, last, boxes, gone, wire, device, light, failed, stale>>
    BY <1>3 DEF OperatorTypes
  <2>4. QED
    BY <1>1, <2>1, <2>2, <2>3 DEF PresetTypeOK, light
<1>4. CASE \E f \in EditFields : OperatorSets(f)
  <2>1. PICK f \in EditFields : OperatorSets(f)
    BY <1>4
  <2>2. PICK lit \in BOOLEAN : /\ Send(Sent({f}, edits, lit), edits)
                               /\ gone' = (edits[f] = NoPreset \/ ~lit)
    BY <2>1 DEF OperatorSets
  <2>3. {f} \in SUBSET EditFields /\ edits \in [EditFields -> Settings]
    BY DEF PresetTypeOK
  <2>4. /\ wire' \in [Ends -> Seq(Settings)] /\ device' \in [Ends -> Settings]
        /\ levels' \in Settings /\ held' \in Settings /\ stale' \in BOOLEAN
    BY <2>2, <2>3, SentType, SendType
  <2>5. gone' \in BOOLEAN
    BY <2>2, Zenon
  <2>6. UNCHANGED <<combobox, edits, last, boxes, mixed, failed>>
    BY <2>1 DEF OperatorSets
  <2>7. QED
    BY <1>1, <2>4, <2>5, <2>6 DEF PresetTypeOK
<1>5. QED
  BY <1>2, <1>3, <1>4

(* A message that is taken off a wire.                                     *)
LEMMA TakenOff ==
  ASSUME PresetTypeOK, NEW e \in Ends, wire[e] # <<>>, wire' = [wire EXCEPT ![e] = Tail(@)]
  PROVE  /\ wire' \in [Ends -> Seq(Settings)]
         /\ wire[e] \in Seq(Settings) /\ Head(wire[e]) \in Settings
         /\ Head(wire[e]) = wire[e][1]
         /\ wire'[e] = Tail(wire[e])
         /\ Len(wire[e]) \in Nat \ {0} /\ Len(wire'[e]) = Len(wire[e]) - 1
         /\ wire'[e] # <<>> => wire'[e][Len(wire'[e])] = wire[e][Len(wire[e])]
         /\ wire'[e] = <<>> => Len(wire[e]) = 1
<1>1. wire[e] \in Seq(Settings)
  BY DEF PresetTypeOK
<1>2. Len(wire[e]) \in Nat \ {0}
  BY <1>1, EmptySeq
<1>3. /\ Head(wire[e]) \in Settings /\ Tail(wire[e]) \in Seq(Settings)
      /\ Len(Tail(wire[e])) = Len(wire[e]) - 1
      /\ \A i \in 1 .. Len(Tail(wire[e])) : Tail(wire[e])[i] = wire[e][i + 1]
  BY <1>1, HeadTailProperties
<1>4. Head(wire[e]) = wire[e][1]
  BY <1>1
<1>5. wire'[e] = Tail(wire[e]) /\ wire' \in [Ends -> Seq(Settings)]
  BY <1>3 DEF PresetTypeOK
<1>6. wire'[e] # <<>> => Len(wire'[e]) \in Nat \ {0}
  BY <1>3, <1>5, EmptySeq
<1>7. wire'[e] # <<>> => wire'[e][Len(wire'[e])] = wire[e][Len(wire[e])]
  <2>1. SUFFICES ASSUME wire'[e] # <<>>
                 PROVE  wire'[e][Len(wire'[e])] = wire[e][Len(wire[e])]
    OBVIOUS
  <2>2. Len(wire'[e]) \in 1 .. Len(Tail(wire[e]))
    BY <1>5, <1>6, <2>1
  <2>3. (Len(wire[e]) - 1) + 1 = Len(wire[e])
    BY <1>2
  <2>4. QED
    BY <1>3, <1>5, <2>2, <2>3
<1>8. wire'[e] = <<>> => Len(wire'[e]) = 0
  BY EmptySeq
<1>9. QED
  BY <1>1, <1>2, <1>3, <1>4, <1>5, <1>7, <1>8

\* One step.
LEMMA NextType == ASSUME PresetTypeOK, [PresetNext]_presetvars PROVE PresetTypeOK'
<1>1. CASE \E m \in Announced : Level2Data(m)
  BY <1>1, Level2Type
<1>2. CASE Dismiss
  BY <1>2, DismissType
<1>3. CASE LineSignal
  <2>1. online' \in BOOLEAN /\ operations' \in 0 .. MaxOperations
    BY <1>3, PresetBoundsAssumption DEF LineSignal, PresetTypeOK
  <2>2. QED
    BY <1>3, <2>1 DEF PresetTypeOK, LineSignal, light, history
<1>4. CASE \/ \E p \in DOMAIN presets : OperatorLoads(p)
           \/ OperatorTypes
           \/ \E f \in EditFields : OperatorSets(f)
  BY <1>4, OperatorType
<1>5. CASE \E e \in Ends : Receive(e)
  <2>1. PICK e \in Ends : Receive(e)
    BY <1>5
  <2>2. wire' \in [Ends -> Seq(Settings)] /\ Head(wire[e]) \in Settings
    BY <2>1, TakenOff DEF Receive
  <2>3. device' \in [Ends -> Settings]
    BY <2>1, <2>2 DEF Receive, PresetTypeOK
  <2>4. QED
    BY <2>1, <2>2, <2>3 DEF PresetTypeOK, Receive, window, counts, light, history
<1>6. CASE \E e \in Ends : Lost(e)
  <2>1. PICK e \in Ends : Lost(e)
    BY <1>6
  <2>2. wire' \in [Ends -> Seq(Settings)]
    BY <2>1, TakenOff DEF Lost
  <2>3. losses' \in 0 .. MaxLosses
    BY <2>1, PresetBoundsAssumption DEF Lost, PresetTypeOK
  <2>4. QED
    BY <2>1, <2>2, <2>3 DEF PresetTypeOK, Lost, window, light
<1>7. CASE UNCHANGED presetvars
  BY <1>7 DEF PresetTypeOK, presetvars, window, light, history, counts
<1>8. CASE LightIn
  BY <1>8 DEF PresetTypeOK, LightIn, window, history, counts
<1>9. CASE LightStored
  <2>1. stale' \in BOOLEAN
    BY <1>9, Zenon DEF LightStored
  <2>2. levels' \in Settings /\ held' \in Settings
    BY <1>9, SettingsFacts DEF LightStored, PresetTypeOK
  <2>3. UNCHANGED <<presets, window, wire, device, mixed, failed, counts>>
    BY <1>9 DEF LightStored
  <2>4. QED
    BY <2>1, <2>2, <2>3 DEF PresetTypeOK, window, counts
<1>10. QED
  BY <1>1, <1>2, <1>3, <1>4, <1>5, <1>6, <1>7, <1>8, <1>9 DEF PresetNext

\* The first state.
LEMMA InitType == ASSUME PresetInit PROVE PresetTypeOK
<1>1. presets \in PresetDirs /\ combobox \in Files
  <2>1. presets \in PresetDirs /\ presets \in Seq(PresetFiles)
    BY SizesAssumption DEF PresetInit
  <2>2. presets # <<>> => 1 \in DOMAIN presets
    BY <2>1, EmptySeq, LenProperties
  <2>3. QED
    BY <2>1, <2>2, Domains, SettingsFacts DEF PresetInit
<1>2. boxes \in Seq(Files) /\ \A e \in Ends : wire[e] \in Seq(Settings)
  BY EmptySeq DEF PresetInit
<1>3. wire \in [Ends -> Seq(Settings)]
  BY <1>2 DEF PresetInit
<1>4. device \in [Ends -> Settings] /\ levels \in Settings /\ held \in Settings
  BY SettingsFacts DEF PresetInit
<1>5. instructions \in 0 .. MaxInstructions /\ operations \in 0 .. MaxOperations
      /\ losses \in 0 .. MaxLosses
  BY PresetBoundsAssumption DEF PresetInit
<1>6. QED
  BY <1>1, <1>2, <1>3, <1>4, <1>5, SettingsFacts DEF PresetInit, PresetTypeOK

(* The type invariant of the presets: whatever nests, what is selected,    *)
(* edited, sent and set are preset files or what the operator typed.       *)
THEOREM PresetTypeInvariant == PresetSpec => []PresetTypeOK
<1>1. QED
  BY InitType, NextType, PTL DEF PresetSpec

(* SettingsAgree and PresetInUseIsSet are inductive: what is sent again is *)
(* what is set, and what is sent anew is one preset's or counts as mixed.  *)

\* What is sent will be set.
LEMMA SendSets ==
  ASSUME PresetTypeOK, NEW fields \in SUBSET EditFields, NEW p \in Settings,
         NEW values \in [EditFields -> Settings], \A f \in fields : values[f] = p,
         Send(fields, values)
  PROVE  /\ \A e \in Ends : e[2] \in fields \/ Final(e) = p => Final(e)' = p
         /\ "light" \in fields \/ levels = p \/ stale => levels' = p \/ stale'
<1>1. ASSUME NEW e \in Ends, e[2] \in fields
      PROVE  Final(e)' = p
  <2>1. wire'[e] = Append(wire[e], p)
    BY <1>1 DEF Send
  <2>2. wire[e] \in Seq(Settings)
    BY DEF PresetTypeOK
  <2>3. /\ wire'[e] \in Seq(Settings) /\ Len(wire'[e]) = Len(wire[e]) + 1
        /\ wire'[e][Len(wire[e]) + 1] = p /\ Len(wire[e]) \in Nat
    BY <2>1, <2>2, AppendProperties, LenProperties
  <2>4. wire'[e] # <<>>
    BY <2>3, EmptySeq
  <2>5. QED
    BY <2>3, <2>4 DEF Final
<1>2. ASSUME NEW e \in Ends, e[2] \notin fields, Final(e) = p
      PROVE  Final(e)' = p
  <2>1. wire'[e] = wire[e] /\ device' = device
    BY <1>2 DEF Send
  <2>2. QED
    BY <1>2, <2>1 DEF Final
<1>3. CASE "light" \in fields
  BY <1>1, <1>2, <1>3 DEF Send
<1>4. CASE "light" \notin fields
  <2>1. levels' = levels /\ (stale => stale')
    BY <1>4, Zenon DEF Send
  <2>2. QED
    BY <1>1, <1>2, <1>4, <2>1
<1>5. QED
  BY <1>3, <1>4

\* Sending again what is set changes nothing.
LEMMA SendsAgain ==
  ASSUME PresetTypeOK, NEW fields \in SUBSET EditFields, NEW p \in Settings, AllOf(p),
         edits' = edits, Send(fields, edits)
  PROVE  AllOf(p)'
<1>1. edits \in [EditFields -> Settings]
  BY DEF PresetTypeOK
<1>2. /\ \A f \in fields : edits[f] = p
      /\ \A e \in Ends : Final(e) = p
      /\ levels = p \/ stale
  BY DEF AllOf
<1>3. (\A e \in Ends : Final(e)' = p) /\ (levels' = p \/ stale')
  BY <1>1, <1>2, SendSets
<1>4. QED
  BY <1>3 DEF AllOf

\* So does a step that touches none of it.
LEMMA StaysSet ==
  ASSUME NEW p, AllOf(p), UNCHANGED <<edits, wire, device, levels>>, stale => stale'
  PROVE  AllOf(p)'
BY DEF AllOf, Final

\* A preset is applied, or loaded and not sent.
LEMMA ApplySets ==
  ASSUME PresetTypeOK, SettingsAgree, NEW p \in Files, Apply(p), last' = p
  PROVE  SettingsAgree' /\ PresetInUseIsSet'
<1> DEFINE q == edits["light"]
<1>1. /\ edits' = Loaded(p) /\ edits' \in [EditFields -> Settings]
      /\ presets[p].fills = {} => edits' = edits
      /\ presets[p].fills = EditFields => \A f \in EditFields : edits'[f] = p
  BY LoadedType DEF Apply
<1>2. q \in Settings /\ p \in Settings /\ "light" \in EditFields
  BY SettingsFacts DEF PresetTypeOK, EditFields
<1>3. CASE LoadedOnly(p)
  <2>1. failed' = TRUE
    BY <1>3, LoadedOnlyType
  <2>2. ASSUME ~mixed' PROVE AllOf(edits["light"])'
    <3>1. ~mixed /\ edits' = edits /\ UNCHANGED <<wire, device, levels, stale>>
      BY <1>1, <1>3, <2>2, LoadedOnlyType
    <3>2. AllOf(q)
      BY <3>1 DEF SettingsAgree
    <3>3. AllOf(q)'
      BY <3>1, <3>2, StaysSet
    <3>4. QED
      BY <3>1, <3>3 DEF AllOf
  <2>3. QED
    BY <2>1, <2>2 DEF SettingsAgree, PresetInUseIsSet
<1>4. ASSUME NEW sent \in SUBSET EditFields, Send(sent, edits'),
             sent = EditFields, presets[p].fills = EditFields
      PROVE  SettingsAgree' /\ PresetInUseIsSet'
  <2>1. \A f \in EditFields : edits'[f] = p
    BY <1>1, <1>4
  <2>2. \A e \in Ends : e[2] \in EditFields
    BY DEF Ends, EditFields
  <2>3. (\A e \in Ends : Final(e)' = p) /\ (levels' = p \/ stale')
    BY <1>1, <1>2, <1>4, <2>1, <2>2, SendSets
  <2>4. AllOf(edits["light"])' /\ AllOf(last)'
    BY <1>2, <2>1, <2>3 DEF AllOf
  <2>5. QED
    BY <2>4 DEF SettingsAgree, PresetInUseIsSet
<1>5. ASSUME NEW sent \in SUBSET EditFields, Send(sent, edits'), failed' = TRUE,
             ~mixed' => ~mixed /\ presets[p].fills = {}
      PROVE  SettingsAgree' /\ PresetInUseIsSet'
  <2>1. ASSUME ~mixed' PROVE AllOf(edits["light"])'
    <3>1. ~mixed /\ edits' = edits
      BY <1>1, <1>5, <2>1
    <3>2. AllOf(q)
      BY <3>1 DEF SettingsAgree
    <3>3. AllOf(q)'
      BY <1>2, <1>5, <3>1, <3>2, SendsAgain
    <3>4. QED
      BY <3>1, <3>3 DEF AllOf
  <2>2. QED
    BY <1>5, <2>1 DEF SettingsAgree, PresetInUseIsSet
<1>6. CASE \E lit \in BOOLEAN :
             LET sent == Sent(EditFields, edits', lit)
                 whole == sent = EditFields /\ presets[p].fills = EditFields
             IN  /\ Send(sent, edits')
                 /\ failed' = ~whole
                 /\ mixed' = (~whole /\ (mixed \/ presets[p].fills # {}))
  <2> DEFINE sent(lit) == Sent(EditFields, edits', lit)
             whole(lit) == sent(lit) = EditFields /\ presets[p].fills = EditFields
  <2>1. PICK lit \in BOOLEAN : /\ Send(sent(lit), edits')
                               /\ failed' = ~whole(lit)
                               /\ mixed' = (~whole(lit) /\ (mixed \/ presets[p].fills # {}))
    BY <1>6
  <2>2. sent(lit) \in SUBSET EditFields
    BY SentType
  <2>3. CASE whole(lit)
    BY <1>4, <2>1, <2>2, <2>3
  <2>4. CASE ~whole(lit)
    <3>1. failed' = TRUE /\ (~mixed' => ~mixed /\ presets[p].fills = {})
      BY <2>1, <2>4, Zenon
    <3>2. QED
      BY <1>5, <2>1, <2>2, <3>1
  <2>5. QED
    BY <2>3, <2>4
<1>7. QED
  BY <1>3, <1>6, Zenon DEF Apply

\* What the settings agreed on before, they agree on after.
LEMMA StillAgreed ==
  ASSUME PresetTypeOK, SettingsAgree, PresetInUseIsSet,
         UNCHANGED <<edits, mixed>>,
         failed' = TRUE \/ UNCHANGED <<last, failed>>,
         \A p \in Settings : AllOf(p) => AllOf(p)'
  PROVE  SettingsAgree' /\ PresetInUseIsSet'
<1>1. edits["light"] \in Settings /\ last \in Settings
  BY SettingsFacts DEF PresetTypeOK, EditFields
<1>2. ASSUME ~mixed' PROVE AllOf(edits["light"])'
  <2>1. AllOf(edits["light"])
    BY <1>2 DEF SettingsAgree
  <2>2. \A p \in Settings : p = edits["light"] => AllOf(p)'
    BY <2>1
  <2>3. edits'["light"] = edits["light"]
    OBVIOUS
  <2>4. QED
    BY <1>1, <2>2, <2>3 DEF AllOf
<1>3. ASSUME ~mixed', ~failed' PROVE AllOf(last)'
  <2>1. AllOf(last) /\ last' = last
    BY <1>3 DEF PresetInUseIsSet
  <2>2. \A p \in Settings : p = last => AllOf(p)'
    BY <2>1
  <2>3. QED
    BY <1>1, <2>1, <2>2 DEF AllOf
<1>4. QED
  BY <1>2, <1>3 DEF SettingsAgree, PresetInUseIsSet

\* Level2 announces a material.
LEMMA Level2Sets ==
  ASSUME PresetTypeOK, SettingsAgree, PresetInUseIsSet, NEW m \in Announced, Level2Data(m)
  PROVE  SettingsAgree' /\ PresetInUseIsSet'
<1> DEFINE p == Nearest(m)
<1>1. p \in Files
  BY NearestType
<1> HIDE DEF p
<1>2. CASE Apply(p) /\ last' = LastAfter(p) /\ online
  BY <1>1, <1>2, ApplySets DEF LastAfter
<1>3. CASE /\ Send(Sent({"light"}, edits, TRUE), edits) /\ p = last /\ last' = LastAfter(p)
           /\ UNCHANGED <<edits, mixed, failed>>
  <2>1. {"light"} \in SUBSET EditFields
    BY DEF EditFields
  <2>2. Sent({"light"}, edits, TRUE) \in SUBSET EditFields
    BY <2>1, SentType
  <2>3. \A q \in Settings : AllOf(q) => AllOf(q)'
    BY <1>3, <2>2, SendsAgain
  <2>4. last' = last
    BY <1>3 DEF LastAfter
  <2>5. QED
    BY <1>3, <2>3, <2>4, StillAgreed
<1>4. CASE /\ UNCHANGED <<edits, wire, device, light, history>>
           /\ last' = last \/ (last' = LastAfter(p) /\ ~online)
  <2>1. UNCHANGED <<last, edits, mixed, failed>>
    BY <1>4 DEF LastAfter, history
  <2>2. \A q \in Settings : AllOf(q) => AllOf(q)'
    BY <1>4, StaysSet DEF light, history
  <2>3. QED
    BY <2>1, <2>2, StillAgreed
<1>5. QED
  BY <1>2, <1>3, <1>4, Zenon DEF Level2Data, p

\* A message box is dismissed: what is set is set again.
LEMMA DismissSets ==
  ASSUME PresetTypeOK, SettingsAgree, PresetInUseIsSet, Dismiss
  PROVE  SettingsAgree' /\ PresetInUseIsSet'
<1>1. CASE UNCHANGED <<last, wire, device, light, history>>
  <2>1. UNCHANGED <<last, edits, mixed, failed>>
    BY <1>1 DEF Dismiss, history
  <2>2. \A q \in Settings : AllOf(q) => AllOf(q)'
    BY <1>1, <2>1, StaysSet DEF light, history
  <2>3. QED
    BY <2>1, <2>2, StillAgreed
<1>2. ASSUME NEW lit \in BOOLEAN, Send(Sent(EditFields, edits, lit), edits), failed' = TRUE,
             UNCHANGED mixed
      PROVE  SettingsAgree' /\ PresetInUseIsSet'
  <2>1. Sent(EditFields, edits, lit) \in SUBSET EditFields /\ edits' = edits
    BY SentType DEF Dismiss
  <2>2. \A q \in Settings : AllOf(q) => AllOf(q)'
    BY <1>2, <2>1, SendsAgain
  <2>3. QED
    BY <1>2, <2>1, <2>2, StillAgreed
<1>3. QED
  BY <1>1, <1>2, Zenon DEF Dismiss

\* The operator sets one kind of value.
LEMMA ButtonSets ==
  ASSUME PresetTypeOK, SettingsAgree, PresetInUseIsSet, NEW f \in EditFields, OperatorSets(f)
  PROVE  SettingsAgree' /\ PresetInUseIsSet'
<1>1. PICK lit \in BOOLEAN : Send(Sent({f}, edits, lit), edits)
  BY DEF OperatorSets
<1>2. UNCHANGED <<edits, last, mixed, failed>>
  BY DEF OperatorSets
<1>3. Sent({f}, edits, lit) \in SUBSET EditFields
  BY SentType
<1>4. \A q \in Settings : AllOf(q) => AllOf(q)'
  BY <1>1, <1>2, <1>3, SendsAgain
<1>5. QED
  BY <1>2, <1>4, StillAgreed

\* The operator loads a file.
LEMMA LoadSets ==
  ASSUME PresetTypeOK, SettingsAgree, NEW p \in Files, OperatorLoads(p)
  PROVE  SettingsAgree' /\ PresetInUseIsSet'
<1>1. failed' = TRUE /\ UNCHANGED <<wire, device, levels, stale>>
      /\ (~mixed' => ~mixed /\ presets[p].fills = {})
  BY LoadedOnlyType DEF OperatorLoads
<1>2. presets[p].fills = {} => edits' = edits
  BY LoadedType DEF OperatorLoads
<1>3. ASSUME ~mixed' PROVE AllOf(edits["light"])'
  <2> DEFINE q == edits["light"]
  <2>1. AllOf(q) /\ edits' = edits
    BY <1>1, <1>2, <1>3 DEF SettingsAgree
  <2>2. AllOf(q)'
    BY <1>1, <2>1, StaysSet
  <2>3. QED
    BY <2>1, <2>2 DEF AllOf
<1>4. QED
  BY <1>1, <1>3 DEF SettingsAgree, PresetInUseIsSet

\* A camera or lens takes a value.
LEMMA ReceiveSets ==
  ASSUME PresetTypeOK, NEW e \in Ends, Receive(e), NEW p \in Settings, AllOf(p)
  PROVE  AllOf(p)'
<1>1. UNCHANGED <<edits, levels, stale>>
  BY DEF Receive, window, light, history
<1>2. wire[e] # <<>> /\ wire' = [wire EXCEPT ![e] = Tail(@)]
      /\ device' = [device EXCEPT ![e] = Head(wire[e])]
  BY DEF Receive
<1>3. /\ wire[e] \in Seq(Settings) /\ Head(wire[e]) = wire[e][1]
      /\ Len(wire[e]) \in Nat \ {0}
      /\ wire'[e] # <<>> => wire'[e][Len(wire'[e])] = wire[e][Len(wire[e])]
      /\ wire'[e] = <<>> => Len(wire[e]) = 1
  BY <1>2, TakenOff
<1>4. device'[e] = Head(wire[e]) /\ \A o \in Ends \ {e} : device'[o] = device[o] /\ wire'[o] = wire[o]
  BY <1>2 DEF PresetTypeOK
<1>5. \A o \in Ends : Final(o) = p
  BY DEF AllOf
<1>6. Final(e)' = p
  BY <1>2, <1>3, <1>4, <1>5 DEF Final
<1>7. \A o \in Ends \ {e} : Final(o)' = p
  BY <1>4, <1>5 DEF Final
<1>8. QED
  BY <1>1, <1>6, <1>7 DEF AllOf

\* One step.
LEMMA NextSets ==
  ASSUME PresetTypeOK, SettingsAgree, PresetInUseIsSet, [PresetNext]_presetvars
  PROVE  SettingsAgree' /\ PresetInUseIsSet'
<1>1. CASE \E m \in Announced : Level2Data(m)
  BY <1>1, Level2Sets
<1>2. CASE Dismiss
  BY <1>2, DismissSets
<1>3. CASE LineSignal \/ LightIn \/ UNCHANGED presetvars
  <2>1. UNCHANGED <<edits, last, wire, device, levels, mixed, failed, stale>>
    BY <1>3 DEF LineSignal, LightIn, presetvars, window, light, history
  <2>2. \A q \in Settings : AllOf(q) => AllOf(q)'
    BY <2>1, StaysSet
  <2>3. QED
    BY <2>1, <2>2, StillAgreed
<1>4. CASE OperatorTypes \/ \E e \in Ends : Lost(e)
  <2>1. mixed' = TRUE
    BY <1>4 DEF OperatorTypes, Lost
  <2>2. QED
    BY <2>1 DEF SettingsAgree, PresetInUseIsSet
<1>5. CASE \E p \in DOMAIN presets : OperatorLoads(p)
  BY <1>5, Domains, LoadSets DEF PresetTypeOK
<1>6. CASE \E f \in EditFields : OperatorSets(f)
  BY <1>6, ButtonSets
<1>7. CASE \E e \in Ends : Receive(e)
  <2>1. UNCHANGED <<edits, last, mixed, failed>>
    BY <1>7 DEF Receive, window, history
  <2>2. \A q \in Settings : AllOf(q) => AllOf(q)'
    BY <1>7, ReceiveSets
  <2>3. QED
    BY <2>1, <2>2, StillAgreed
<1>8. CASE LightStored
  <2>1. UNCHANGED <<edits, last, wire, device, mixed, failed>>
    BY <1>8 DEF LightStored, window
  <2>2. (stale => stale') /\ (levels' = levels \/ stale')
    BY <1>8, Zenon DEF LightStored
  <2>3. \A q \in Settings : AllOf(q) => AllOf(q)'
    BY <2>1, <2>2 DEF AllOf, Final
  <2>4. QED
    BY <2>1, <2>3, StillAgreed
<1>9. QED
  BY <1>1, <1>2, <1>3, <1>4, <1>5, <1>6, <1>7, <1>8 DEF PresetNext

(* The cameras, the lenses and the light are never set to the values of    *)
(* different presets, for any files, sizes, cameras and nesting of message *)
(* boxes, until a part of a preset is filled, typed in or sent, or a       *)
(* message is lost; only the DMX thread may put back older light levels.   *)
THEOREM SettingsAreOfOnePreset == PresetSpec => []SettingsAgree
<1>1. PresetInit => SettingsAgree /\ PresetInUseIsSet
  BY DEF PresetInit, SettingsAgree, PresetInUseIsSet
<1>2. QED
  BY <1>1, InitType, NextType, NextSets, PTL DEF PresetSpec

(* And that preset is the one that counts as in use, unless a load has     *)
(* failed and left its name.                                               *)
THEOREM InUseIsSet == PresetSpec => []PresetInUseIsSet
<1>1. PresetInit => SettingsAgree /\ PresetInUseIsSet
  BY DEF PresetInit, SettingsAgree, PresetInUseIsSet
<1>2. QED
  BY <1>1, InitType, NextType, NextSets, PTL DEF PresetSpec
-----------------------------------------------------------------------------
(***************************************************************************)
(* SystemEcho.                                                             *)
(***************************************************************************)

\* The type invariant of the alive check.
THEOREM EchoTypeInvariant == EchoSpec => []EchoTypeOK
<1>1. EchoInit => EchoTypeOK
  <2>1. EchoInit => faults \in 0 .. MaxFaults
    BY FaultsAssumption DEF FaultsAssumption, EchoInit
  <2> QED
    BY <2>1, Zenon DEF EchoInit, EchoTypeOK, UnderWay
<1>2. EchoTypeOK /\ [EchoNext]_echovars => EchoTypeOK'
  <2> SUFFICES ASSUME EchoTypeOK, [EchoNext]_echovars PROVE EchoTypeOK'
    OBVIOUS
  <2> USE FaultsAssumption DEF FaultsAssumption, EchoTypeOK, UnderWay
  <2>1. CASE Timeout
    BY <2>1 DEF Timeout, repliervars, ShownAtTimeout
  <2>2. CASE ReadReply
    BY <2>2 DEF ReadReply, repliervars
  <2>3. CASE RequesterReturns \/ RequesterCloses
    BY <2>3 DEF RequesterReturns, RequesterCloses, repliervars
  <2>4. CASE Replier \/ OnClose
    BY <2>4 DEF Replier, ReplierReceives, ReplierSends, LoopTest, RecvFails, OnClose, requestervars, repliervars
  <2>5. CASE Delivered
    BY <2>5 DEF Delivered, requestervars, repliervars
  <2>6. CASE ConnectionBreaks \/ ServerDies \/ ServerStarts
    <3>1. faults' \in 0 .. MaxFaults
      BY <2>6 DEF ConnectionBreaks, ServerDies, ServerStarts
    <3>2. UNCHANGED requestervars
      BY <2>6 DEF ConnectionBreaks, ServerDies, ServerStarts
    <3>3. AfterBreak \in {"none", "sent", "lost", "arrived"} \cup UnderWay
      BY DEF AfterBreak
    <3>4. /\ request' = AfterBreak
          /\ UNCHANGED answered
          /\ UNCHANGED replier \/ replier' \in {"recv", "down"}
          /\ UNCHANGED worker_stop \/ worker_stop' = FALSE
      BY <2>6 DEF ConnectionBreaks, ServerDies, ServerStarts, repliervars
    <3>5. request' \in {"none", "sent", "lost", "arrived"} \cup UnderWay
      BY <3>3, <3>4
    <3>6. /\ waiting' \in BOOLEAN /\ current' \in BOOLEAN /\ interrupted' \in BOOLEAN
          /\ label' \in {"unknown", "active", "inactive"} /\ requester' \in {"runs", "ended"}
      BY <3>2 DEF requestervars
    <3>7. /\ replier' \in {"recv", "send", "test", "ended", "down"}
          /\ worker_stop' \in BOOLEAN /\ answered' \in BOOLEAN
      BY <3>4
    <3> QED
      BY <3>1, <3>5, <3>6, <3>7
  <2>7. CASE UNCHANGED echovars
    BY <2>7 DEF echovars, requestervars, repliervars
  <2> QED
    BY <2>1, <2>2, <2>3, <2>4, <2>5, <2>6, <2>7 DEF EchoNext, Requester
<1> QED
  BY <1>1, <1>2, PTL DEF EchoSpec

(***************************************************************************)
(* A request that carries the current message was sent at the last         *)
(* timeout, so whatever has become of it has happened since.               *)
(***************************************************************************)
CurrentSince ==
  current => /\ request \in {"sent", "delivered", "served", "lost", "replied", "arrived"}
             /\ request \in {"replied", "arrived"} => answered

\* It holds throughout.
LEMMA CurrentSinceInvariant == EchoSpec => []CurrentSince
<1>1. EchoInit => CurrentSince
  BY DEF EchoInit, CurrentSince
<1>2. CurrentSince /\ [EchoNext]_echovars => CurrentSince'
  <2> SUFFICES ASSUME CurrentSince, [EchoNext]_echovars PROVE CurrentSince'
    OBVIOUS
  <2> USE DEF CurrentSince
  <2>1. CASE Requester \/ RequesterCloses
    BY <2>1 DEF Requester, Timeout, ReadReply, RequesterReturns, RequesterCloses
  <2>2. CASE Replier \/ OnClose
    BY <2>2 DEF Replier, ReplierReceives, ReplierSends, LoopTest, RecvFails, OnClose, requestervars
  <2>3. CASE Delivered \/ ConnectionBreaks \/ ServerDies \/ ServerStarts
    BY <2>3 DEF Delivered, ConnectionBreaks, ServerDies, ServerStarts, AfterBreak, UnderWay,
                requestervars
  <2>4. CASE UNCHANGED echovars
    BY <2>4 DEF echovars, requestervars
  <2> QED
    BY <2>1, <2>2, <2>3, <2>4 DEF EchoNext
<1> QED
  BY <1>1, <1>2, PTL DEF EchoSpec

\* However many timeouts pass and connections break, a server is shown active only
\* when it has answered since the last timeout: a late reply is not taken for an
\* answer to the message that replaced its own.
THEOREM ActiveIsAnswered == EchoSpec => ActiveMeansAnswered
<1>1. CurrentSince /\ [EchoNext]_echovars => [label # "active" /\ label' = "active" => answered]_echovars
  <2> SUFFICES ASSUME CurrentSince, EchoNext, label # "active", label' = "active"
               PROVE  answered
    BY DEF echovars, requestervars
  <2>1. ReadReply /\ Matches
    BY DEF EchoNext, Requester, Timeout, ShownAtTimeout, ReadReply, RequesterReturns, RequesterCloses, Replier,
           ReplierReceives, ReplierSends, LoopTest, RecvFails, OnClose, Delivered, ConnectionBreaks, ServerDies,
           ServerStarts, requestervars
  <2> QED
    BY <2>1 DEF ReadReply, Matches, CurrentSince
<1> QED
  BY <1>1, CurrentSinceInvariant, PTL DEF EchoSpec, ActiveMeansAnswered
=============================================================================
