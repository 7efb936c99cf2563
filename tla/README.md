# A formal model of flame-sdd-server

flame-sdd-server inspects materials on a production line for surface defects.
Line detectors say when a material is in front of the cameras, the plant's
Level2 computer says which one it is, the server stores the images, infers the
defects and reports the finished job back to Level2.  This directory holds TLA+
modules of its concurrent parts, TLC configurations that check them on small
instances, and TLAPS proofs of what holds for every instance.

## 1. Inventory

The server is a set of C++ components (`components/`) that the *flame* engine
(a submodule, not in the repository) loads as shared objects and connects with
zmq ports, plus a PyQt application (`monitor/`) that subscribes to them.
Profiles in `bin/x86_64/` name the ports.

| part | state | operations | talks to |
|---|---|---|---|
| `concurrent_queue<T>` | queue, mutex, one condition variable | push, pop, pop_async | the workers of dk_level2_interface |
| dk_level2_interface, reporting | job-complete queue, TCP socket and `is_connected`, alive counter, stop flag | receive a job message, push; connect, send alive, pop and send; stop and join | monitor (`sdd_job_queue`), Level2 (TCP client) |
| dk_level2_interface, receiving | server socket, detached accept and receive threads, `_ignore` | accept, receive a packet, dispatch by TC code, publish; follow the line signals | Level2 (TCP server), `lv2_dispatch`, `labeling_job_dispatch`, `status` |
| general_file_stacker | `_backup_dir_path`, `_stream_counter` | store an image in every directory; on an instruction replace the directories and reset the counters | `image_stream_N` (pull), `lv2_dispatch` |
| synology_nas_file_stacker | `_job_path`, counters | store an image in one NAS directory; on an instruction replace the path and reset the counters | `image_stream_N` (pull), `lv2_dispatch` |
| ni_daq_controller | previous DIO sample | sample and publish on change; pulse output | `line_signal` |
| basler_gige_cam_grabber | `_image_stream_enable`, grab counters, exposure requests | follow line signals, grab and push images, camera control | `line_signal`, `image_stream_N` |
| computar_vlmpz_controller | lens devices, per-lens command queue, the USB library's buffer and addresses | focus initialisation, focus moves | monitor, USB |
| monitor: DMX light | light on or off, the levels it is lit with | follow line signals; set levels and switch off for the window | `line_signal`, window, Art-Net |
| monitor: model inference | job description, job queue, five worker processes | trigger on a quiet line, infer, collect, report, delete, close | `line_signal`, `sdd_job_queue` |
| monitor: window | presets, the preset in use, edits | choose and apply presets, note the material, route signals and labels | all of the above |
| monitor: alive check, system_echo_replier | the message waited for; stop flag | request, time out, reply | each other (REQ/REP) |
| ni_daq_pulse_generator | REP socket, driver handle | request/reply | nobody in `src` |
| autonics_temp_controller, system_status_monitor | none to speak of | poll and publish | monitor |

What is hard here: every worker is a thread that polls a stop flag between
blocking calls; threads share vectors, counters and zmq sockets without locks;
TCP connections break, overlap and deliver packets in pieces; publications are
lost to late or slow subscribers and are sent only on change; and several
processes act on the same line signal at different times.  `PROJECT.json` lists
these as hazards, each at its line, with the properties that watch it.

What makes each part correct:

* the queue: each element once and in order, never more than the limit, no
  sleeping thread that could go on;
* reporting: at most once and in order over reconnections, nothing lost without
  a fault, a dead link noticed, a shutdown that ends;
* receiving: a job dispatched at most once, in order, only while the line lets
  it; a truthful availability;
* stacking: an image only under its own material, numbers that identify images;
* line signals: streaming, light and gate agree about the material, and when not, why;
* inference: a job describes one material, no image vanishes uninferred, jobs
  are reported once and in order, and what can stop the service is known;
* lens: a move that reports success has arrived; a shutdown that ends;
* presets: what the devices have is of one preset, and of the one that counts as
  in use;
* alive check: active means answered, a dead server is shown.

## 2. Modules

| module | models | EXTENDS / INSTANCE |
|---|---|---|
| `BoundedFifo` | what a bounded queue promises | |
| `ConcurrentQueue` | `concurrent_queue.hpp` | refines `BoundedFifo` |
| `ConcurrentQueue_proofs` | theorems about the queue | extends `ConcurrentQueue`, TLAPS |
| `LossyChannel` | a lossy FIFO: in order, at most once, losses final | |
| `Level2Client` | `_job_check_work`, `_do_client_work`, `on_close`, `tcp_socket::connect/send` | composes `ConcurrentQueue`, refines `LossyChannel` |
| `Level2Server` | `_do_server_work`, `tcp_server`, `tcp_socket::receive`, `_line_check_work` | refines `LossyChannel` for any one connection |
| `FileStacker` | `_image_stacker_task_opt`, `_level2_dispatch_task`, `on_close` of general_file_stacker | |
| `ImagePipe` | the grabber's `_image_stream_task`, the pipe, and synology_nas_file_stacker | refines `LossyChannel` per stream |
| `LineSignal` | DIO reader, grabber's stream control, DMX light and the window's use of it, level2 gate | |
| `InferenceJobs` | `model_inference.py` and the window's notes about the material | refines `LossyChannel` |
| `PresetControl` | the window's presets, instructions and line signals, the two publishers, the devices and the light's levels | |
| `LensControl` | one lens of computar_vlmpz_controller, its worker, the subscriber and the USB calls | |
| `SystemEcho` | `system_echo.py`, `system_echo_replier`, the window's status label | |
| `Monitor_proofs` | theorems about `InferenceJobs`, `PresetControl` and `SystemEcho` | extends them, TLAPS |
| `*_proofs` | theorems about the module of that name (`Level2Client`, `Level2Server`, `FileStacker`, `ImagePipe`, `LineSignal`, `LensControl`) | extend it, TLAPS |
| `MC*` | instances for TLC | one each |

`LossyChannel` is the one abstract specification shared by four parts: reports to
Level2, packets from Level2, images on their way to the NAS, and inference jobs.
Each maps what it holds between its ends (a queue, a hand, a socket) to
`pending`.

`Monitor_proofs` extends three modules at once, so `PresetControl` and `SystemEcho`
prefix the names they would otherwise share with `InferenceJobs` (`PresetSpec`,
`EchoSpec`, `PresetTypeOK`, ...).

**ConcurrentQueue.**  A step under the mutex is one action (`PushElement`,
`PopElement`, `PopAsync`, `Wait`); `NotifyOne` is separate because the code
calls `notify_one` after the lock's scope, so other threads run in between.
`pc` says where a thread is in its call, `arg` holds a pusher's element and a
popper's result.  `SpuriousWakeup` is what the standard allows `wait` to do.
The blocking `pop` is modelled although nothing calls it at this commit.

**Level2Client.**  One action per step of a worker between two accesses to
shared state: loop test, recv, push; create, connect, alive, pop, send.  A job
is a number.  The kernel's view of the connection is `link`: `up`, `broken`
(the peer has gone and nothing has been sent since), `probed` (one send was
accepted and lost), `reset` (the next send fails), so that a send can succeed
and be lost.  The packet contents (`generate_packet_*`) are abstracted.  SIGPIPE
is assumed to be ignored by the engine: a failing send returns an error.

**Level2Server.**  A packet is two halves in a byte stream and `recv` returns
any prefix, so packets are split and joined.  A receive thread goes `recv`,
`gate` (the load of `_ignore`), `send`, `sending` (between two zmq frames) and
back.  Frames of two threads on one port may overlap; zmq sockets are not
thread-safe, so what was sent then arrives, is lost or kills the process.  A
`blank` packet is an instruction with a blank number (stoi throws, the thread
catches nothing).  After `CloseServer` and `DeleteServer` the accept thread may
still hold a new descriptor.  A failed bind or listen leaves a server nobody can
reach, and the code never tries again.

**FileStacker.**  `++_stream_counter` is two actions (`Receive` reads, `Count`
writes).  The directory loop takes its iterators in `Begin` and copies one
directory per `Write`; if the vector changed meanwhile (`version`), the
iterator may give the old element, the new one or garbage, or the process dies
(`Crash`).  The dispatch thread clears the vector, visits each target and
resets each counter as separate actions; an instruction without the keys it needs
only clears the vector, one that is no json also ends the thread (`Malformed`), and
one with values of other types ends the process (`DispatchDies`).  A directory
remembers the instruction that made it (`epoch`), which is how the properties tell
materials apart.

**LineSignal.**  `Sample` compares and publishes; each subscriber has a queue
of its own, joins at some time, and loses what finds the queue full.  The
grabber and the light go by the same rule (`Arrives`, `Leaves`), the gate by its
own.  That a material has arrived does not light it: `Lights` needs levels for all
lights, which only the window sets (`WindowLights`), and a datagram that arrives.
The window lights and switches off the same lights from its own thread.  `dark`
remembers why the light may be off though the DMX thread has read of a material.
A datagram that cannot be sent ends the DMX thread (`LightDies`), or the whole
window when a button's handler sends it (`WindowDies`).

**InferenceJobs.**  The GUI thread writes the job description and the subscriber
thread copies it, each one field per step in the order of the code
(`WriteOrder`, `CopyOrder`), because nothing locks it.  A job is its number and
the directory its two name parts point to (0 when they are of two materials, and
so name no directory).  Each worker process lists the directory, sends rows and
an end signal through a pipe, and may die; the inference thread counts end
signals.  Deletion is a set of background deletions with their attempts.

**PresetControl.**  A handler is one action: the code runs them on one thread.  A
preset file is what its loading does: the fields it fills, and whether it returns,
opens a message box (no such file, no json) or raises (an entry is missing, the
text cannot be decoded).  Only the message box has an event loop, so `boxes` is a
stack of handlers that wait in one, and the next announcement may be handled on
top.  `last` is `__last_preset_file`, which the load takes over before it opens the
file (line 357).  An exception in Level2's handler is logged (line 747) and nothing
more is sent, so a failed load leaves the name without the values; out of a
button's handler it ends the window (`gone`).
`Sent` is what goes out before the first field that is no number or the datagram
that fails.  Exposure and focus travel as messages (`wire`) that may be lost before
they reach a camera or lens.  Of the light the module keeps the levels it is lit
with: the DMX thread reads them (`LightIn`) and stores them again (`LightStored`),
over what the window may have stored in between; when it shines is `LineSignal`'s.

**LensControl.**  A USB transaction is split at the register address, the fetch into
`receivedData` and its decoding; the worker and the subscriber may interleave
there.  The motor (external) starts, moves and arrives at its own pace.  Words
are kept modulo `Modulus`, and the focus speed is checked as the code does.

**ImagePipe.**  A grab counts the image and sends it if the pipe has room.  A stream
thread reads `_job_path` (`Locate`) while the dispatch thread may be assigning
it: it reads the old string, the new one or neither, or the process dies.  An
image carries the material that was current when it was grabbed, or `Tmp` once
that can no longer be said (`Aged`).  An announcement with values of other types ends
the process, at the latest when `lv2.txt` is written between the assignment of the
path and the restart of the numbering (`DispatchDies`).

**SystemEcho.**  The message text is a random id; the model keeps whether the reply
under way answers the current one.  A timeout forgets the message it waited for
even if the next send fails.

## 3. What TLC checks

| run | instance | what it shows |
|---|---|---|
| `queue` | 2 pushers, 1 blocking and 1 polling consumer, 4 elements, capacity 2 | order, no loss, limit, no lost wakeup, refinement |
| `client` | 3 jobs, capacity 1, alive every 2 iterations, 2 faults | seven properties of reporting, three of them liveness |
| `client_alive` | same | **violated**: a connection does not reset the alive counter |
| `client_close` | 3 jobs, capacity 1, 1 fault | **violated**: `on_close` may never return |
| `server` | 2 connections, 2 packets, each of 2 kinds | a connection's jobs once, in order, only if heeded; no stale availability; every connection served to its end |
| `stacker` | 1 stream, 2 targets, 2 names, 2 instructions, 3 images, 1 fault | images under their material, numbers, copies, and that only a repeated name loses all of them |
| `line` | any start of the inputs, 2 changes, queues of 1 | agreement of grabber, light and gate; settling |
| `inference` | 2 materials, 2 processes, an image for each, 3 line changes, 1 death, 1 unwritable result | jobs describe one material, images accounted for, reports in order, what can stop the service and the shutdown |
| `lens` | 3-bit words, loops of 3 polls, a request within range and one beyond, 2 moves, 1 failing call | a successful move arrived; `on_close` returns |
| `presets` | 2 good presets and one that opens a box, lacks entries or raises, or none; 3 materials, 3 instructions, 2 operations, 1 lost message | what is set is of one preset; the preset in use is set |
| `pipe` | 1 stream, a pipe of 2, 3 images, 2 announcements, 1 fault | images filed under their material, in order, at most once; the pipe is worked off |
| `echo` | 2 faults | active means answered; a dead server is shown; the check goes on |

**Bounds.**  The queue needs more elements than slots and one thread more than
kinds of waiter.  In `client` three jobs fill one slot, one held packet and one
in push; two faults break a connection during and after a reconnection.  In
`server` two connections are enough to overlap, two packets to be joined, split
and reordered; the first packet is an alive or an instruction, the second an
instruction or one with a blank number; `labeled` packets take the same path as
instructions; the run watches one connection, and nothing tells the two apart.
Two instructions and three images put an image before, between and after them; a
second stream shares only the vector with the first.  Two changes from any start let
a material arrive at or leave either detector, and the line go off under it.  In `inference` two
materials are the fewest a copy can mix, and two processes the fewest of which
one can die.  In `lens` three bits make a position that reads as busy, and three
polls let each loop end early, at its limit and over it.  In `presets` three
instructions nest two handlers, which then go on one after the other.  In `pipe` the third image
finds the pipe full.  All bounds are constants named `Max*` (and `Capacity`,
`Hwm`, `AliveTicks`, `Modulus`, `LowHighWait`, `WaitTime`, `Cameras`).

**Fairness.**  Weak fairness for every worker's own steps: each is a thread
that is never stopped by another.  A `recv` without time limit
(`sdd_job_queue`, `line_signal`) is assumed to return, which is the engine's
part of a shutdown; without it no worker of this kind sees the stop flag.  The
environment must act in two places: in `client` Level2 comes back and reads, and
in `echo` the network delivers what a standing connection has accepted.  Nobody
is obliged to send, to close a component, to fail, to move a motor, to bring the
NAS back or to start a server that has gone; a process may die and stay dead.

**What the two violations mean.**
`client_alive`: line 145 of `dk.level2.interface.cc` declares a second
`alive_time` inside the block, so "reset counter" in the callback resets that
one.  `client_close`: Level2 is unreachable, the queue is full, the job worker
sleeps in push, `on_close` joins the client worker first, and nobody pops again.
`CloseReturnsUnlessFull` in run `client` shows it is the only way to hang.

## 4. What is proved

`ConcurrentQueue_proofs` proves, for all sets of threads and elements and every
capacity (assumptions: the capacity is a positive number, `Nothing` is no
element, the three kinds of threads are disjoint):

* `TypeInvariant`: `Spec => []TypeOK`;
* `Difference`: pushed is popped followed by the queue.  Lemmas `StepKinds` and
  `QueueChanges` reduce every step to one of three effects on the data (append,
  take the head, none), and `DifferenceStep` shows each keeps the equation;
* `Bounded`: with the guard of `PushElement`, from the same lemmas;
* `WakeupsAreNotLost`: `NoLostWakeup` is inductive together with `TypeOK`.  A
  step that frees a slot or adds an element leaves its thread at `notify`, so
  `InFlight` holds; a `NotifyOne` either wakes someone, who is then in flight,
  or finds nobody waiting; a thread goes to wait only when its condition fails;
* `ImplementsBoundedFifo`: the steps map to `Send`, `Receive` or a stutter; the
  guards of the abstract actions follow from `Difference` and `Bounded`.

`LineSignal_proofs` proves, for every number of changes of the inputs and every
positive high-water mark, `TypeInvariant` and the three safety properties of the
run `line`.  None of them is inductive: each speaks of a subscriber that has read
everything, and its last read depends on what the last message was.

* `LastIsCurrent` is the strengthening for `StreamingFollowsTheLine` and
  `GateFollowsTheLine`: the newest message of a queue that has lost nothing
  describes `prev`.  `LastRead` then says that the read which empties the queue
  acts on `prev`.  `SubscriberSteps`, `CameraSteps` and `Level2Steps` reduce all
  actions to a sample, a read and nothing;
* `LightFollows` is the strengthening for `CapturesAreLit`.  `Verdict(q, on)` is
  where the rule of `Arrives` and `Leaves` ends after the messages `q`, in closed
  form: the last message that says anything decides.  If the grabber's verdict is
  on, then so is the light's, where a light that is off counts as on when there is a
  reason for it (`dark`).  `VerdictAppend` and `VerdictRead` say that a sample moves
  both verdicts alike and that a read moves none.

`Level2Client_proofs` proves the reporting half for every number of jobs and
faults, capacity and alive interval (assumption `BoundsAssumption`).

* `TypeInvariant`: lemmas `PushSteps`, `PopSteps` and `NotifySteps` say what the
  queue's operations are for its two threads;
* `SocketMatchesFlag` and `ProducerIsWoken` are inductive with `HoldInv`: the
  client sends only what it popped, and a job worker that sleeps beside free space
  has a client about to notify;
* `LossNeedsAFault` rests on `LinkInv`: before the first fault a client that
  believes in a connection has one.  A send then cannot lose a packet;
* `ReportingIsAChannel`: `Pending` is the wire, the packet in hand and the queue.
  Push accepts, a read delivers, a send on a dead connection loses the one packet
  between wire and queue, a break loses the whole wire, everything else stutters.
  `NumberInv` (whatever is under way, delivered or lost has a smaller number than
  the job being pushed) makes the accepted item new; `CutOut` and `LoseStep` are
  about the stretch of a sequence that is cut out.

`FileStacker_proofs` proves, for all streams, target lists and instructions
(`StackerAssumption`, `GarbageAssumption`), all five properties of the run `stacker`:

* `StoredRight` from `PathsInv`: the vector holds directories of the current
  instruction only, and a loop over it never sees one older than its image;
* `StoredEverywhereOrNowhere` from `DiskInv` (which directories the targets visited so
  far have, and that before the first fault they are in the vector exactly when the
  name is new) and `FilesInv` (what a loop has passed of its vector is where the
  image is, and nowhere else);
* `OverwritesAreAtDispatch` from `OrderInv` (resets and receptions never get ahead
  of the instructions) and `NumbersInv` (between two resets the numbers of a
  stream only grow);
* `EveryTargetHasItsCopy` from `CopiesInv`: what a loop over an unchanged vector
  has passed has its copy;
* `NumbersRestart` from `RestartInv`: after a clean reset the counter is the number
  of images received since, less the one between the two halves of
  `++_stream_counter`.  The property speaks of files only, which is not inductive:
  a file's number comes from the image in hand, and that from the counter.

`Level2Server_proofs` proves, for all sets of connections, numbers of packets and
kinds (`PacketsAssumption`, `KindsAssumption`, and `ConnectionsAssumption`: the
`Watched` connection is one of them), what the receiving half does however `recv` cuts the stream
and threads overlap.

* `HeedsTheLine` from `HeedInv`: a thread between its test of `_ignore` and the end
  of its publication has seen the flag off since its packet came, and one about to
  test it has if the flag is off now.  The flag may change in between, so the
  property alone says nothing about the next step;
* `NoStale` from `TornInv`: a thread whose status frames were torn has raced with
  another.  The last thread to end says "unavailable" unless its frames were torn;
* `JobsInOrder` and `NoJobVanishes` from `OrderInv`, which is `Flow` of every
  connection: stream, message in hand and what was published or lost are in the
  order sent and apart from each other.  `FlowSends` and the lemmas after it say
  what each kind of step does to one connection's flow; `OrderEntry` and its kin
  carry that over to all connections.
* `ReceivingIsAChannel` for *any* watched connection, from `OrderInv` and `SortInv`.
  What is pending is the set of jobs under way (`UnderWay`: the one in the thread's
  hand and those that begin in the stream), put in order by `InOrder`; that there is
  only one such sequence (`SortedIsInOrder`) is a least-counterexample argument.
  `SortedAppend`, `SortedHead`, `SortedLosesFirst` and `SortedLosesRest` say what that
  sequence becomes when its set gains a greatest or loses a least element, or loses
  a stretch at an end; `StreamGrows` and `StreamSplits` what sending and `recv` do to
  the set.  A send accepts, a publication delivers, a chunk that is no job loses
  the oldest, a reset all but the one in hand, and a chunk that is a job moves
  from stream to hand, a stutter.

`Monitor_proofs`, for `InferenceJobs`, proves for all materials, finite sets of
processes, images and bounds (`BoundsAssumption`) every safety property of the run
`inference`.

* `TypeInvariant` needs four more parts to be inductive (`JobsInv`): `CountInv`
  (quiet signals, the copy in progress and the jobs queued never exceed the line's
  changes, so ids stay in range), `IdsInv`, `PipeInv` (what a process can have in the
  result queue in each of its states) and `EndsInv` (the collector has counted the
  processes whose end signal it took);
* `CopiesAreOfOneMaterial` from `CopyInv`: the fields written so far, in
  `WriteOrder`, are of the last instruction, and so are those a copy that met no
  writer has read, in `CopyOrder`;
* `ImagesAreAccountedFor` from `MaterialInv`.  A material with at most one job is
  `Untouched` (its images are on the disk, nobody has looked), `Worked` (they are
  still there, and what a process found is with it, in its pipe or among the rows)
  or `Done` (the rows are in `result.csv`; only then are its files deleted).  No
  step skips a stage, and a death or an unwritable result stops in the second;
* `JobsAreAChannel`: `Pending` is the job in hand, then the queue.  `PutJob` accepts,
  `Report` delivers, a job that `close` drains is lost, everything else stutters.  `IdsInv`
  makes the accepted id new.

For `PresetControl` it proves `SettingsAreOfOnePreset` and `InUseIsSet` for any
directories of preset files, materials, cameras and nesting of handlers, and any
interleaving of the DMX thread.  With `PresetTypeOK` the two are inductive together:
an announcement of the preset in use sends only its light, which leaves all of one
preset only if the fields are still that preset's.  `SendSets` and `SendsAgain` say
what sending does to what the devices will have, `StillAgreed` that a step which keeps
the fields and sends nothing else keeps both.

For `SystemEcho` it proves `ActiveIsAnswered` from `CurrentSince`: a reply that
matches was sent since the last timeout.

`ImagePipe_proofs` proves, for all streams, pipe lengths and names
(`PipeAssumption`), that images are filed right and that the pipe is a channel.
`FilingInv` joins five parts: the state of the dispatch thread, the age of images
in a pipe, what a thread has in hand, what the files say, and that numbers are
distinct.  `PipeIsAChannel` is for *any* watched stream, with `NumberInv` as
above.

`LensControl_proofs` proves `SuccessIsArrival` for words of any width and any
limits.  `Undisturbed(t)` says, per phase of a command that had the lens alone,
what its last read implies: that the motor is past its start after the first
loop, still after the second, and that the position read is the device's.
`MoveInv` adds that nobody else is at work.

Only model-checked:

* every liveness property (`ENABLED` and fairness are out of the prover's reach).

Some type invariants are proved and not checked again by a run.

## 5. Not modelled, and why

* The flame engine and zmq beyond what `src` shows of their use, device drivers,
  packet layouts, image processing, networks, widgets and labels.
* `src/dep` and the vendored CP2112 and HID sources, which are most of the
  repository's lines: a vendor's library and sample programs.  `LensControl` takes
  from them only what `LensCtrl` and `UsbCtrl` do with it, and assumes that the
  CP2112 acknowledges a transfer it accepted.
* Pulse control of ni_daq_controller and `ni_daq_pulse_generator`: parameters
  passed to a driver, the second without a client in `src`.
* autonics_temp_controller and system_status_monitor: poll and publish, no state
  to relate.
* dummy_image_pusher, test_image_pusher, dmx_light_controller and
  dk_sdd_inference: test sources and stubs.
* Code that nothing runs: the iris commands and `read_focus_position`,
  `_level2_dispatch_task` of the grabber and of the lens controller,
  `_image_stacker_task` of the file stackers.
* The stray token at line 35 of the grabber's source, which keeps that file from
  compiling at this commit; the model is of the code around it.
* Malformed messages where nothing but the end of their receiver depends on them:
  json that does not parse ends or stops a subscriber thread of the monitor and the
  dispatch thread of synology_nas_file_stacker.
* A `set_timeout` on a deleted socket (`tcpsocket.hpp`, after a failed connect):
  undefined behaviour inside one call, without a counterpart.

Simplifications within the modules:

* one lens (lenses share no state but the library's buffer, which is modelled); the
  SIGPIPE disposition of section 2;
* both stackers start their stream threads while `on_init` still fills the map of
  counters; `Init` of `FileStacker` and `ImagePipe` has it filled;
* in `InferenceJobs` a trigger is read in the step that tests the loop condition
  (`ReadTrigger`): one read after `close` has begun might as well have been read just
  before, since the thread that closes is the one that writes the notes; a message
  between two signals that are not quiet is no step;
* in `PresetControl` a preset fills the fields of a kind for all cameras, lenses and
  lights or for none; `use_nearest_preset_auto_select` and the light control are on,
  the pipelines of all cameras are there, and Level2's announcements have the entries
  the window asks for (the server always writes them).

What is left to do, in this order: `InspectionLine`, a composition of
`LineSignal`, the gate of `Level2Server`, a stacker's directories and the
inference trigger, for "an image, its directory and its job belong to one
material" across processes; the pure algorithms (nearest preset, focus wait time,
normalisation of the standard) as functions against reference definitions; the
pulse generator.

## 6. Running it

    tlc -workers 2 -config MCLevel2Client.cfg MCLevel2Client
    tlapm ConcurrentQueue_proofs.tla
    for m in *_proofs.tla; do tlapm $m; done

A proof run from nothing takes up to about five minutes per module (`Monitor_proofs`); the longest
TLC run (`inference`) three.
