----------------------------- MODULE LensControl -----------------------------
(***************************************************************************)
(* One lens of computar_vlmpz_controller.  Two threads drive it over USB:  *)
(* the lens's own worker runs the focus initialisation that on_init has    *)
(* queued, and the component's subscriber runs every move it is told of    *)
(* itself.  A transaction addresses a register, fetches it into            *)
(* receivedData and decodes it from there; neither the device nor          *)
(* receivedData is locked, so the transactions of the two may mix.         *)
(*                                                                         *)
(* The device (external) takes a command by remembering the target; the    *)
(* busy bit rises when it begins to move and falls when it has arrived, at *)
(* its own pace or never.  A command given to a moving device replaces the *)
(* target.                                                                 *)
(***************************************************************************)
EXTENDS Integers

CONSTANTS Modulus,       \* unsigned short: values are kept modulo this
          Home,          \* where the initialisation leaves the focus
          Requests,      \* values the monitor sends, any int
          Found,         \* bound: words the device and the fields may hold at the start
          LowHighWait,   \* LOW_HIGH_WAIT: polls for the busy bit to rise
          WaitTime,      \* WaitCalc: polls for the busy bit to fall
          MaxMoves,      \* bound: moves requested
          MaxFailures    \* bound: USB calls that fail

FocusMask == 4
ASSUME ParametersAssumption ==
  /\ Modulus \in Nat /\ Modulus > FocusMask
  /\ Home \in 0 .. Modulus - 1 /\ Requests \subseteq Int
  /\ Found \subseteq 0 .. Modulus - 1
  /\ {LowHighWait, WaitTime, MaxMoves, MaxFailures} \subseteq Nat

Threads == {"worker", "subscriber"}
Words == 0 .. Modulus - 1
\* static_cast<unsigned short>: the range test before it refuses nothing
Cast(v) == v % Modulus
IsBusy(word) == (word \div FocusMask) % 2 = 1        \* word & FOCUS_MASK

VARIABLES
  position, target, motion, \* the device; motion is "still", "started" or "moving"
  register,                 \* the register addressed last
  receivedData,
  focusCurrentAddr,
  focusSpeedPPS,            \* 0 or not; indeterminate if open() could not read it
  queued,                   \* the initialisation waits in _f_queue
  at,                       \* what each thread is at
  phase,                    \* what its transaction is for
  polls,                    \* polls in this phase
  value,                    \* the value its command writes, as a word
  closing,                  \* what on_close is at
  crashed,
  alone,                    \* history: no other thread has been at work during its command
  done,                     \* history: the command that returned last, if none began since
  moves, failures

device == <<position, target, motion, register>>
lens == <<receivedData, focusCurrentAddr>>
control == <<at, phase, polls, value>>
counts == <<moves, failures>>
vars == <<device, lens, focusSpeedPPS, queued, control, closing, crashed, alone, done, counts>>

NoCommand == [want |-> 0, success |-> FALSE, alone |-> FALSE]

\* open() has read what it could; the initialisation is queued, both threads run
Init ==
  /\ position \in Found /\ target = position /\ motion = "still"
  /\ register = "status"
  /\ receivedData \in Found /\ focusCurrentAddr \in Found
  /\ focusSpeedPPS \in {0, 1}
  /\ queued = TRUE
  /\ at = [t \in Threads |-> "idle"] /\ phase = [t \in Threads |-> "rise"]
  /\ polls = [t \in Threads |-> 0] /\ value = [t \in Threads |-> 0]
  /\ closing = "no" /\ crashed = FALSE
  /\ alone = [t \in Threads |-> FALSE] /\ done = NoCommand
  /\ moves = 0 /\ failures = 0

Working(t) == at[t] \in {"write", "address", "fetch", "decode"}
-----------------------------------------------------------------------------
(* The device (external)                                                   *)

MotionStarts ==
  /\ motion = "started" /\ motion' = "moving"
  /\ UNCHANGED <<position, target, register, lens, focusSpeedPPS, queued, control, closing,
                 crashed, alone, done, counts>>

MotionEnds ==
  /\ motion = "moving" /\ motion' = "still"
  /\ position' = target
  /\ UNCHANGED <<target, register, lens, focusSpeedPPS, queued, control, closing, crashed,
                 alone, done, counts>>

\* what a read of the addressed register yields
Content == CASE register = "position" -> position
             [] register = "status" -> IF motion = "moving" THEN FocusMask ELSE 0
             [] register = "status2" -> 0
-----------------------------------------------------------------------------
(* A thread begins a command: run_process and FocusInit; focus_move,       *)
(* FocusMove and DeviceMove.  WaitCalc divides by the speed.               *)

Begin(t, v) ==
  /\ at[t] = "idle"
  /\ IF focusSpeedPPS = 0
     THEN crashed' = TRUE /\ UNCHANGED <<at, value, alone>>
     ELSE /\ at' = [at EXCEPT ![t] = "write"]
          /\ value' = [value EXCEPT ![t] = v]
          /\ alone' = [u \in Threads |-> IF u = t THEN \A o \in Threads \ {t} : ~Working(o)
                                         ELSE FALSE]
          /\ UNCHANGED crashed
  /\ done' = NoCommand
  /\ UNCHANGED <<device, lens, focusSpeedPPS, phase, polls, closing, failures>>

BeginInit ==
  /\ queued
  /\ queued' = FALSE
  /\ Begin("worker", Home)
  /\ UNCHANGED moves

\* a message that was received before the stop is still served
BeginMove(v) ==
  /\ moves < MaxMoves /\ closing \in {"no", "joining"}
  /\ moves' = moves + 1
  /\ Begin("subscriber", Cast(v))
  /\ UNCHANGED queued
-----------------------------------------------------------------------------
(* UsbWrite, UsbRead, UsbRead2Bytes, StatusWait                            *)

Returns(t, success) ==
  /\ at' = [at EXCEPT ![t] = "idle"]
  /\ done' = [want |-> value[t], success |-> success, alone |-> alone[t]]

\* mutant of FirstPhase: the busy bit's rise is not waited for
FirstPhaseFall == "fall"
\* what follows the command: StatusWait's first loop
FirstPhase == "rise"

Write(t) ==
  /\ at[t] = "write"
  /\ target' = value[t]
  /\ motion' = IF motion = "still" THEN "started" ELSE motion
  /\ at' = [at EXCEPT ![t] = "address"]
  /\ phase' = [phase EXCEPT ![t] = FirstPhase]
  /\ polls' = [polls EXCEPT ![t] = 0]
  /\ UNCHANGED <<position, register, lens, focusSpeedPPS, queued, value, closing, crashed,
                 alone, done, counts>>

RegisterOf(p) == CASE p = "position" -> "position"
                   [] p = "status2" -> "status2"
                   [] OTHER -> "status"

Address(t) ==
  /\ at[t] = "address"
  /\ register' = RegisterOf(phase[t])
  /\ at' = [at EXCEPT ![t] = "fetch"]
  /\ UNCHANGED <<position, target, motion, lens, focusSpeedPPS, queued, phase, polls, value,
                 closing, crashed, alone, done, counts>>

Fetch(t) ==
  /\ at[t] = "fetch"
  /\ receivedData' = Content
  /\ at' = [at EXCEPT ![t] = "decode"]
  /\ UNCHANGED <<device, focusCurrentAddr, focusSpeedPPS, queued, phase, polls, value, closing,
                 crashed, alone, done, counts>>

\* any of the USB calls fails and with it the command; in the last read of the
\* initialisation nobody looks
UsbFails(t) ==
  /\ at[t] \in {"write", "address", "fetch"} /\ failures < MaxFailures
  /\ failures' = failures + 1
  /\ Returns(t, at[t] # "write" /\ phase[t] = "status2")
  /\ UNCHANGED <<device, lens, focusSpeedPPS, queued, phase, polls, value, closing, crashed,
                 alone, moves>>

\* a poll that uses up the phase's limit fails, whatever it read
GivesUp(p, n) == \/ p = "rise" /\ n + 1 >= LowHighWait
                 \/ p = "fall" /\ n + 1 >= WaitTime

\* mutant of Counted: the first loop forgets to count
CountedInFall(p, n) == IF p = "fall" THEN n + 1 ELSE n
Counted(p, n) == n + 1

\* StatusWait looks at the bit it has read
Poll(t) ==
  /\ at[t] = "decode" /\ phase[t] \in {"rise", "fall"}
  /\ IF GivesUp(phase[t], polls[t])
     THEN Returns(t, FALSE) /\ UNCHANGED <<phase, polls>>
     ELSE /\ at' = [at EXCEPT ![t] = "address"]
          /\ IF IsBusy(receivedData) = (phase[t] = "rise")
             THEN /\ phase' = [phase EXCEPT ![t] = IF @ = "rise" THEN "fall" ELSE "position"]
                  /\ polls' = [polls EXCEPT ![t] = 0]
             ELSE polls' = [polls EXCEPT ![t] = Counted(phase[t], @)] /\ UNCHANGED phase
          /\ UNCHANGED done
  /\ UNCHANGED <<device, lens, focusSpeedPPS, queued, value, closing, crashed, alone, counts>>

\* the position is read back; the initialisation goes on to read STATUS2
ReadBack(t) ==
  /\ at[t] = "decode" /\ phase[t] = "position"
  /\ focusCurrentAddr' = receivedData
  /\ IF t = "worker"
     THEN /\ phase' = [phase EXCEPT ![t] = "status2"]
          /\ at' = [at EXCEPT ![t] = "address"]
          /\ UNCHANGED done
     ELSE Returns(t, TRUE) /\ UNCHANGED phase
  /\ UNCHANGED <<device, receivedData, focusSpeedPPS, queued, polls, value, closing, crashed,
                 alone, counts>>

ReadStatus2(t) ==
  /\ at[t] = "decode" /\ phase[t] = "status2"
  /\ Returns(t, TRUE)
  /\ UNCHANGED <<device, lens, focusSpeedPPS, queued, phase, polls, value, closing, crashed,
                 alone, counts>>
-----------------------------------------------------------------------------
(* on_close and controlImpl::close                                         *)

ThreadReturns(t) ==
  /\ at[t] = "idle"
  /\ closing = (IF t = "subscriber" THEN "joining" ELSE "stopping")
  /\ at' = [at EXCEPT ![t] = "returned"]
  /\ UNCHANGED <<device, lens, focusSpeedPPS, queued, phase, polls, value, closing, crashed,
                 alone, done, counts>>

OnClose ==
  /\ \/ closing = "no" /\ closing' = "joining"              \* _worker_stop
     \/ closing = "joining" /\ at["subscriber"] = "returned"
        /\ closing' = "stopping"                            \* _is_running = false
     \/ closing = "stopping" /\ at["worker"] = "returned"
        /\ closing' = "closed"                              \* UsbClose
  /\ UNCHANGED <<device, lens, focusSpeedPPS, queued, control, crashed, alone, done, counts>>
-----------------------------------------------------------------------------
Step(t) == \/ Write(t) \/ Address(t) \/ Fetch(t) \/ UsbFails(t)
           \/ Poll(t) \/ ReadBack(t) \/ ReadStatus2(t) \/ ThreadReturns(t)

Next == /\ ~crashed
        /\ \/ MotionStarts \/ MotionEnds
           \/ BeginInit
           \/ \E v \in Requests : BeginMove(v)
           \/ \E t \in Threads : Step(t)
           \/ OnClose

Spec == Init /\ [][Next]_vars

\* both threads run, and on_close goes on once it has begun; the device need not
\* ever move, and the monitor need not ask
FairSpec == /\ Spec
            /\ \A t \in Threads : WF_vars(~crashed /\ Step(t))
            /\ WF_vars(~crashed /\ BeginInit)
            /\ WF_vars(~crashed /\ closing # "no" /\ OnClose)
-----------------------------------------------------------------------------
(* Properties                                                              *)

\* Type invariant: words are kept modulo 2^16, and a thread polls no more often
\* than its phase allows.
TypeOK ==
  /\ {position, target, receivedData, focusCurrentAddr} \subseteq Words
  /\ motion \in {"still", "started", "moving"}
  /\ register \in {"position", "status", "status2"}
  /\ focusSpeedPPS \in {0, 1} /\ queued \in BOOLEAN
  /\ at \in [Threads -> {"idle", "write", "address", "fetch", "decode", "returned"}]
  /\ phase \in [Threads -> {"rise", "fall", "position", "status2"}]
  /\ polls \in [Threads -> Nat] /\ value \in [Threads -> Words]
  /\ closing \in {"no", "joining", "stopping", "closed"} /\ crashed \in BOOLEAN
  /\ alone \in [Threads -> BOOLEAN]
  /\ done \in [want : Words, success : BOOLEAN, alone : BOOLEAN]
  /\ moves \in 0 .. MaxMoves /\ failures \in 0 .. MaxFailures

\* A command that returned success, and during which the other thread had none,
\* left the lens still at the position it was told (modulo 2^16) and
\* focusCurrentAddr says so.  (The first loop of StatusWait is what keeps
\* focus_move from reading back the old position.  While the initialisation still
\* runs nothing of this holds: the two threads read each other's registers.)
MoveReachesTarget ==
  done.success /\ done.alone =>
    position = done.want /\ motion = "still" /\ focusCurrentAddr = done.want

\* on_close returns, even if the motor never starts or never stops.
CloseReturns == (closing # "no") ~> (closing = "closed" \/ crashed)
=============================================================================
