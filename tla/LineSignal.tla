----------------------------- MODULE LineSignal -----------------------------
(***************************************************************************)
(* The line signals and those who act on them.  ni_daq_controller samples  *)
(* four digital inputs and publishes them when they differ from the sample *)
(* before.  Three threads in two processes subscribe: the grabber enables  *)
(* and disables image streaming, the monitor's DMX thread switches the     *)
(* light, and dk_level2_interface decides whether Level2's instructions    *)
(* are heeded.  Each keeps what it made of the last message that mattered  *)
(* to it, and each reads its messages at its own pace.                     *)
(*                                                                         *)
(* The light needs levels to shine at, and has none until the monitor's    *)
(* window sets some: until then the DMX thread reads that a material has   *)
(* arrived and lights nothing.  The window lights and switches off the     *)
(* same lights, from another thread of the monitor.                        *)
(*                                                                         *)
(* A zmq subscription starts at some moment and misses what was published  *)
(* before; a message that finds its queue full is dropped.  Nobody asks    *)
(* for the current signals: what is missed is known only after the next    *)
(* change.                                                                 *)
(***************************************************************************)
EXTENDS Naturals, Sequences

CONSTANTS MaxChanges,  \* bound: changes of the inputs
          Hwm          \* messages a subscription holds (high-water mark)

ASSUME BoundsAssumption == MaxChanges \in Nat /\ Hwm \in Nat \ {0}

Subscribers == {"camera", "light", "level2"}
Signals == [md1 : BOOLEAN, md2 : BOOLEAN, online : BOOLEAN, offline : BOOLEAN]
Messages == [md1 : BOOLEAN, md2 : BOOLEAN, online : BOOLEAN]  \* nobody reads offline
AllOff == [md1 |-> FALSE, md2 |-> FALSE, online |-> FALSE, offline |-> FALSE]

VARIABLES line,          \* the inputs as they are
          changes,       \* counts against MaxChanges
          prev,          \* prev_dio_values
          running,       \* subscribers whose subscription is effective and whose thread runs
          queue,         \* messages each has still to read
          heard,         \* history: something was published since it joined
          missed,        \* history: it has lost a message since then
          lightFirst,    \* history: the light has heard of all that the grabber has
          enable,        \* _image_stream_enable
          ignore,        \* _ignore
          light,         \* the light is on
          levels,        \* __brightness_array holds a level for every light
          window,        \* the window is there, and with it the GUI thread
          dark           \* history: a material the light has read of was not lit, or the
                         \* light was switched off by hand, and it was not lit since

linevars == <<line, changes>>
subvars == <<running, queue, heard, missed, lightFirst>>
lightvars == <<light, levels, window, dark>>
vars == <<linevars, prev, subvars, enable, ignore, lightvars>>

Init ==
  /\ line \in {v \in Signals : v.offline = ~v.online} /\ changes = 0
  /\ prev = AllOff
  /\ running = {} /\ lightFirst = TRUE
  /\ queue = [s \in Subscribers |-> <<>>]
  /\ heard = [s \in Subscribers |-> FALSE] /\ missed = [s \in Subscribers |-> FALSE]
  /\ enable = FALSE /\ ignore = FALSE
  /\ light \in BOOLEAN /\ levels = FALSE /\ window = TRUE /\ dark = FALSE

LineChanges(signal) ==
  /\ changes < MaxChanges
  /\ changes' = changes + 1
  /\ line' = [line EXCEPT ![signal] = ~@]
  /\ UNCHANGED <<prev, subvars, enable, ignore, lightvars>>
-----------------------------------------------------------------------------
(* _daq_dio_read_task and _publish_line_signal                             *)

\* what is published of a sample
MessageOf(v) == [md1 |-> v.md1, md2 |-> v.md2, online |-> v.online]

Publish(v) ==
  LET full == {s \in running : Len(queue[s]) >= Hwm}
  IN  /\ queue' = [s \in Subscribers |-> IF s \in running \ full
                                         THEN Append(queue[s], MessageOf(v)) ELSE queue[s]]
      /\ missed' = [s \in Subscribers |-> missed[s] \/ s \in full]
      /\ heard' = [s \in Subscribers |-> heard[s] \/ s \in running]

\* mutant of Sample: only the online signal counts as a change
SampleOnlineOnly ==
  /\ line.online # prev.online
  /\ prev' = line
  /\ Publish(line)
  /\ UNCHANGED <<linevars, running, lightFirst, enable, ignore, lightvars>>

\* a sample equal to the previous one changes nothing
Sample ==
  /\ line # prev
  /\ prev' = line
  /\ Publish(line)
  /\ UNCHANGED <<linevars, running, lightFirst, enable, ignore, lightvars>>
-----------------------------------------------------------------------------
(* The subscribers                                                         *)

\* the subscription becomes effective
Join(s) ==
  /\ s \notin running /\ ~heard[s]
  /\ s = "light" => window
  /\ running' = running \cup {s}
  /\ lightFirst' = (lightFirst /\ (s = "light" => ~heard["camera"]))
  /\ UNCHANGED <<linevars, prev, queue, heard, missed, enable, ignore, lightvars>>

Read(s) == /\ s \in running /\ queue[s] # <<>>
           /\ queue' = [queue EXCEPT ![s] = Tail(@)]

Arrives(m) == m.md1 /\ m.online
Leaves(m) == ~Arrives(m) /\ ~m.md2 /\ m.online

\* mutant of Switched: the line going offline ends it, not the material leaving
SwitchedUntilOffline(m, on) == Arrives(m) \/ (m.online /\ on)

Switched(m, on) == IF Arrives(m) THEN TRUE ELSE IF Leaves(m) THEN FALSE ELSE on

CameraReads ==
  /\ Read("camera")
  /\ enable' = Switched(Head(queue["camera"]), enable)
  /\ UNCHANGED <<linevars, prev, running, heard, missed, lightFirst, ignore, lightvars>>

\* mutant of Level2Reads: the flag follows the first detector
Level2ReadsMd1 ==
  /\ Read("level2")
  /\ ignore' = Head(queue["level2"]).md1
  /\ UNCHANGED <<linevars, prev, running, heard, missed, lightFirst, enable, lightvars>>

Level2Reads ==
  /\ Read("level2")
  /\ ignore' = (Head(queue["level2"]).md1 \/ Head(queue["level2"]).md2)
  /\ UNCHANGED <<linevars, prev, running, heard, missed, lightFirst, enable, lightvars>>

\* set_control_multi lights, unless a light has no level or the datagram is lost
Lights(has) ==
  \/ has /\ light' = TRUE /\ dark' = FALSE
  \/ dark' = ~light /\ UNCHANGED light

\* set_off, whose datagram may be lost
SwitchesOff == light' \in {FALSE, light}

\* mutant of LightReads: the light is switched off when the first detector is empty
LightReadsMd1 ==
  /\ Read("light")
  /\ IF Arrives(Head(queue["light"])) THEN Lights(levels) ELSE SwitchesOff /\ dark' = FALSE
  /\ UNCHANGED <<linevars, prev, running, heard, missed, lightFirst, enable, ignore,
                 levels, window>>

\* the DMX thread: in, out, or nothing to do
LightReads ==
  /\ Read("light")
  /\ LET m == Head(queue["light"])
     IN  \/ Arrives(m) /\ Lights(levels)
         \/ Leaves(m) /\ SwitchesOff /\ dark' = FALSE
         \/ ~Arrives(m) /\ ~Leaves(m) /\ UNCHANGED <<light, dark>>
  /\ UNCHANGED <<linevars, prev, running, heard, missed, lightFirst, enable, ignore,
                 levels, window>>

\* the datagram cannot be made or sent: the DMX thread leaves its loop for good
LightDies ==
  /\ Read("light")
  /\ Leaves(Head(queue["light"])) \/ (Arrives(Head(queue["light"])) /\ levels)
  /\ running' = running \ {"light"}
  /\ UNCHANGED <<linevars, prev, heard, missed, lightFirst, enable, ignore, lightvars>>
-----------------------------------------------------------------------------
(* The window's use of the light, by the operator or by Level2's handler   *)

Window == UNCHANGED <<linevars, prev, queue, heard, missed, lightFirst, enable, ignore>>

\* set_control_multi stores the levels, then sends them: the datagram may be lost, or
\* Level2's handler catches that it could not be sent
WindowLights ==
  /\ window /\ levels' = TRUE
  /\ \/ light' = TRUE /\ dark' = FALSE
     \/ UNCHANGED <<light, dark>>
  /\ Window /\ UNCHANGED <<running, window>>

\* on_btn_light_off
WindowSwitchesOff ==
  /\ window
  /\ SwitchesOff /\ dark' = (dark \/ ~light')
  /\ Window /\ UNCHANGED <<running, levels, window>>

\* what a button's handler raises ends the process, and with it the DMX thread
WindowDies ==
  /\ window /\ window' = FALSE
  /\ running' = running \ {"light"}
  /\ Window /\ UNCHANGED <<light, levels, dark>>

-----------------------------------------------------------------------------
Reader == CameraReads \/ LightReads \/ LightDies \/ Level2Reads

\* the inputs stay as they are once the bound is reached
Idle == changes = MaxChanges /\ UNCHANGED vars

Windowing == WindowLights \/ WindowSwitchesOff \/ WindowDies

Next == \/ \E signal \in DOMAIN AllOff : LineChanges(signal)
        \/ Sample \/ Reader \/ Windowing \/ Idle
        \/ \E s \in Subscribers : Join(s)

Spec == Init /\ [][Next]_vars

(* Every thread runs; the subscriptions become effective.                  *)
FairSpec == /\ Spec
            /\ WF_vars(Sample)
            /\ \A s \in Subscribers : WF_vars(Join(s))
            /\ WF_vars(CameraReads) /\ WF_vars(LightReads) /\ WF_vars(Level2Reads)
-----------------------------------------------------------------------------
(* Properties.                                                             *)

TypeOK ==
  /\ line \in Signals /\ prev \in Signals /\ changes \in 0..MaxChanges
  /\ running \subseteq Subscribers /\ lightFirst \in BOOLEAN
  /\ heard \in [Subscribers -> BOOLEAN] /\ missed \in [Subscribers -> BOOLEAN]
  /\ queue \in [Subscribers -> Seq(Messages)]
  /\ \A s \in Subscribers : Len(queue[s]) <= Hwm /\ (queue[s] # <<>> => heard[s])
  /\ enable \in BOOLEAN /\ ignore \in BOOLEAN /\ light \in BOOLEAN
  /\ levels \in BOOLEAN /\ window \in BOOLEAN /\ dark \in BOOLEAN

(* The subscriber has acted on every message since it joined, and there    *)
(* has been one.                                                           *)
UpToDate(s) == /\ s \in running /\ heard[s] /\ queue[s] = <<>> /\ ~missed[s]

(* A grabber that has read everything streams while the first detector     *)
(* sees a material and does not stream past an empty line, whatever mix of *)
(* signals came before: on an online line.                                 *)
StreamsTheMaterial ==
  UpToDate("camera") /\ prev.online =>
    /\ prev.md1 => enable
    /\ ~prev.md1 /\ ~prev.md2 => ~enable

(* The level2 gate follows the same sample, online or not.                 *)
IgnoresDuringMaterial == UpToDate("level2") => ignore = (prev.md1 \/ prev.md2)

(* Images are taken in the light: when two threads of different processes  *)
(* have each read everything, the light is on while the grabber streams,   *)
(* unless the grabber joined first; or, at the last material the light has *)
(* read of, there were no levels to light it with (none were set since the *)
(* monitor started), the datagram was lost, or a hand switched it off -    *)
(* and no datagram has lit it since.                                       *)
CaptureIsLit ==
  /\ UpToDate("camera") /\ UpToDate("light") /\ lightFirst
  /\ enable
  => light \/ dark

(* When the line stops changing, its last state is published and read.     *)
Settles == <>[](prev = line /\ \A s \in running : queue[s] = <<>>)
=============================================================================
