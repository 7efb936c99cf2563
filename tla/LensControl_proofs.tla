------------------------- MODULE LensControl_proofs -------------------------
(***************************************************************************)
(* Proofs about LensControl, for words of any width, any limits of the     *)
(* polls and any number of moves and failures.                             *)
(***************************************************************************)
EXTENDS LensControl, TLAPS

(* Types of what the actions compute.                                      *)

LEMMA WordsFacts ==
  /\ 0 \in Words /\ FocusMask \in Words /\ Home \in Words
  /\ \A v \in Requests : Cast(v) \in Words
<1>1. Modulus \in Nat /\ Modulus > 4 /\ Home \in 0 .. Modulus - 1 /\ Requests \subseteq Int
  BY ParametersAssumption DEF FocusMask
<1>2. \A v \in Int : v % Modulus \in 0 .. Modulus - 1
  BY <1>1
<1>3. QED
  BY <1>1, <1>2 DEF Words, FocusMask, Cast

\* The mask has the busy bit, zero has not.
LEMMA BusyBit == IsBusy(FocusMask) /\ ~IsBusy(0)
BY DEF IsBusy, FocusMask

\* A register holds a word.
LEMMA ContentType == ASSUME TypeOK PROVE Content \in Words
<1>1. position \in Words /\ register \in {"position", "status", "status2"}
  BY DEF TypeOK
<1>2. QED
  BY <1>1, WordsFacts DEF Content

\* A command begins.
LEMMA BeginType ==
  ASSUME TypeOK, NEW t \in Threads, NEW v \in Words, Begin(t, v),
         queued' \in BOOLEAN, moves' \in 0 .. MaxMoves
  PROVE  TypeOK'
<1>1. done' \in [want : Words, success : BOOLEAN, alone : BOOLEAN]
  BY WordsFacts DEF Begin, NoCommand
<1>2. CASE focusSpeedPPS = 0
  BY <1>1, <1>2 DEF TypeOK, Begin, device, lens
<1>3. CASE focusSpeedPPS # 0
  <2>1. at' \in [Threads -> {"idle", "write", "address", "fetch", "decode", "returned"}]
    BY <1>3 DEF TypeOK, Begin
  <2>2. value' \in [Threads -> Words]
    BY <1>3 DEF TypeOK, Begin
  <2>3. alone' \in [Threads -> BOOLEAN]
    BY <1>3 DEF Begin
  <2>4. QED
    BY <1>1, <1>3, <2>1, <2>2, <2>3 DEF TypeOK, Begin, device, lens
<1>4. QED
  BY <1>2, <1>3

\* A command returns.
LEMMA ReturnsType ==
  ASSUME TypeOK, NEW t \in Threads, NEW s \in BOOLEAN, Returns(t, s)
  PROVE  /\ at' \in [Threads -> {"idle", "write", "address", "fetch", "decode", "returned"}]
         /\ done' \in [want : Words, success : BOOLEAN, alone : BOOLEAN]
BY DEF TypeOK, Returns

\* A thread goes on.
LEMMA StepType ==
  ASSUME TypeOK, NEW t \in Threads, Step(t)
  PROVE  TypeOK'
<1>1. CASE Write(t)
  <2>1. target' \in Words /\ motion' \in {"still", "started", "moving"}
    BY <1>1 DEF TypeOK, Write
  <2>2. at' \in [Threads -> {"idle", "write", "address", "fetch", "decode", "returned"}]
        /\ phase' \in [Threads -> {"rise", "fall", "position", "status2"}]
        /\ polls' \in [Threads -> Nat]
    BY <1>1 DEF TypeOK, Write, FirstPhase
  <2>3. QED
    BY <1>1, <2>1, <2>2 DEF TypeOK, Write, lens, counts
<1>2. CASE Address(t)
  <2>1. register' \in {"position", "status", "status2"}
    BY <1>2 DEF Address, RegisterOf
  <2>2. at' \in [Threads -> {"idle", "write", "address", "fetch", "decode", "returned"}]
    BY <1>2 DEF TypeOK, Address
  <2>3. QED
    BY <1>2, <2>1, <2>2 DEF TypeOK, Address, lens, counts
<1>3. CASE Fetch(t)
  <2>1. receivedData' \in Words
    BY <1>3, ContentType DEF Fetch
  <2>2. at' \in [Threads -> {"idle", "write", "address", "fetch", "decode", "returned"}]
    BY <1>3 DEF TypeOK, Fetch
  <2>3. QED
    BY <1>3, <2>1, <2>2 DEF TypeOK, Fetch, device, counts
<1>4. CASE UsbFails(t)
  <2>1. failures' \in 0 .. MaxFailures
    BY <1>4, ParametersAssumption DEF TypeOK, UsbFails
  <2>2. /\ at' \in [Threads -> {"idle", "write", "address", "fetch", "decode", "returned"}]
        /\ done' \in [want : Words, success : BOOLEAN, alone : BOOLEAN]
    BY <1>4, ReturnsType DEF UsbFails
  <2>3. QED
    BY <1>4, <2>1, <2>2 DEF TypeOK, UsbFails, device, lens
<1>5. CASE Poll(t)
  <2>1. CASE GivesUp(phase[t], polls[t])
    <3>1. /\ at' \in [Threads -> {"idle", "write", "address", "fetch", "decode", "returned"}]
          /\ done' \in [want : Words, success : BOOLEAN, alone : BOOLEAN]
      BY <1>5, <2>1, ReturnsType DEF Poll
    <3>2. QED
      BY <1>5, <2>1, <3>1 DEF TypeOK, Poll, device, lens, counts
  <2>2. CASE ~GivesUp(phase[t], polls[t])
    <3>1. at' \in [Threads -> {"idle", "write", "address", "fetch", "decode", "returned"}]
      BY <1>5, <2>2 DEF TypeOK, Poll
    <3>2. phase' \in [Threads -> {"rise", "fall", "position", "status2"}]
      BY <1>5, <2>2 DEF TypeOK, Poll
    <3>3. polls' \in [Threads -> Nat]
      <4>1. Counted(phase[t], polls[t]) \in Nat
        BY DEF TypeOK, Counted
      <4>2. QED
        BY <1>5, <2>2, <4>1 DEF TypeOK, Poll
    <3>4. QED
      BY <1>5, <2>2, <3>1, <3>2, <3>3 DEF TypeOK, Poll, device, lens, counts
  <2>3. QED
    BY <2>1, <2>2
<1>6. CASE ReadBack(t)
  <2>1. CASE t = "worker"
    <3>1. /\ at' \in [Threads -> {"idle", "write", "address", "fetch", "decode", "returned"}]
          /\ phase' \in [Threads -> {"rise", "fall", "position", "status2"}]
      BY <1>6, <2>1 DEF TypeOK, ReadBack
    <3>2. QED
      BY <1>6, <2>1, <3>1 DEF TypeOK, ReadBack, device, counts
  <2>2. CASE t # "worker"
    <3>1. /\ at' \in [Threads -> {"idle", "write", "address", "fetch", "decode", "returned"}]
          /\ done' \in [want : Words, success : BOOLEAN, alone : BOOLEAN]
      BY <1>6, <2>2, ReturnsType DEF ReadBack
    <3>2. QED
      BY <1>6, <2>2, <3>1 DEF TypeOK, ReadBack, device, counts
  <2>3. QED
    BY <2>1, <2>2
<1>7. CASE ReadStatus2(t)
  <2>1. /\ at' \in [Threads -> {"idle", "write", "address", "fetch", "decode", "returned"}]
        /\ done' \in [want : Words, success : BOOLEAN, alone : BOOLEAN]
    BY <1>7, ReturnsType DEF ReadStatus2
  <2>2. QED
    BY <1>7, <2>1 DEF TypeOK, ReadStatus2, device, lens, counts
<1>8. CASE ThreadReturns(t)
  <2>1. at' \in [Threads -> {"idle", "write", "address", "fetch", "decode", "returned"}]
    BY <1>8 DEF TypeOK, ThreadReturns
  <2>2. QED
    BY <1>8, <2>1 DEF TypeOK, ThreadReturns, device, lens, counts
<1>9. QED
  BY <1>1, <1>2, <1>3, <1>4, <1>5, <1>6, <1>7, <1>8 DEF Step

\* One step.
LEMMA NextType == ASSUME TypeOK, [Next]_vars PROVE TypeOK'
<1>1. CASE MotionStarts \/ MotionEnds
  BY <1>1 DEF TypeOK, MotionStarts, MotionEnds, lens, control, counts
<1>2. CASE BeginInit
  <2>1. queued' \in BOOLEAN /\ moves' \in 0 .. MaxMoves
    BY <1>2 DEF BeginInit, TypeOK
  <2>2. QED
    BY <1>2, <2>1, WordsFacts, BeginType DEF BeginInit, Threads
<1>3. CASE \E v \in Requests : BeginMove(v)
  <2>1. PICK v \in Requests : BeginMove(v)
    BY <1>3
  <2>2. queued' \in BOOLEAN
    BY <2>1 DEF BeginMove, TypeOK
  <2>3. moves' \in 0 .. MaxMoves
    BY <2>1, ParametersAssumption DEF BeginMove, TypeOK
  <2>4. QED
    BY <2>1, <2>2, <2>3, WordsFacts, BeginType DEF BeginMove, Threads
<1>4. CASE \E t \in Threads : Step(t)
  BY <1>4, StepType
<1>5. CASE OnClose
  <2>1. closing' \in {"no", "joining", "stopping", "closed"}
    BY <1>5 DEF OnClose
  <2>2. QED
    BY <1>5, <2>1 DEF TypeOK, OnClose, device, lens, control, counts
<1>6. CASE UNCHANGED vars
  BY <1>6 DEF TypeOK, vars, device, lens, control, counts
<1>7. QED
  BY <1>1, <1>2, <1>3, <1>4, <1>5, <1>6 DEF Next

\* The first state.
LEMMA InitType == ASSUME Init PROVE TypeOK
<1>1. Found \subseteq Words /\ MaxMoves \in Nat /\ MaxFailures \in Nat
  BY ParametersAssumption DEF Words
<1>2. NoCommand \in [want : Words, success : BOOLEAN, alone : BOOLEAN]
  BY WordsFacts DEF NoCommand
<1>3. /\ at \in [Threads -> {"idle", "write", "address", "fetch", "decode", "returned"}]
      /\ phase \in [Threads -> {"rise", "fall", "position", "status2"}]
      /\ polls \in [Threads -> Nat] /\ value \in [Threads -> Words]
      /\ alone \in [Threads -> BOOLEAN]
  BY WordsFacts DEF Init
<1>4. moves \in 0 .. MaxMoves /\ failures \in 0 .. MaxFailures
  BY <1>1 DEF Init
<1>5. {position, target, receivedData, focusCurrentAddr} \subseteq Words
  BY <1>1 DEF Init
<1>6. QED
  BY <1>2, <1>3, <1>4, <1>5 DEF Init, TypeOK

(* The type invariant of the lens.                                         *)
THEOREM TypeInvariant == Spec => []TypeOK
<1>1. QED
  BY InitType, NextType, PTL DEF Spec

(* What makes MoveReachesTarget inductive: where a command that nobody     *)
(* else disturbs has come to.                                              *)

\* while t has its command alone, the device is at what t has told it, and what t
\* has fetched is what it meant to fetch
Undisturbed(t) ==
  /\ at[t] # "write" =>
       /\ target = value[t]
       /\ at[t] \in {"fetch", "decode"} => register = RegisterOf(phase[t])
       /\ phase[t] # "rise" => /\ motion # "started"
                               /\ motion = "still" => position = target
       /\ phase[t] \in {"position", "status2"} => motion = "still"
       /\ phase[t] = "status2" => focusCurrentAddr = target
  /\ at[t] = "decode" =>
       /\ phase[t] = "rise" /\ IsBusy(receivedData) =>
            /\ motion # "started"
            /\ motion = "still" => position = target
       /\ phase[t] = "fall" /\ ~IsBusy(receivedData) => motion = "still"
       /\ phase[t] = "position" => receivedData = position

MoveInv ==
  /\ \A t \in Threads : alone[t] /\ Working(t) =>
       Undisturbed(t) /\ \A o \in Threads \ {t} : ~Working(o)
  /\ done.success /\ done.alone => \A t \in Threads : ~Working(t)
  /\ MoveReachesTarget

(* Only a thread at work steps, so that nobody else is alone then.         *)
LEMMA OneStep ==
  ASSUME TypeOK, MoveInv, NEW t \in Threads, Working(t),
         UNCHANGED alone, \A u \in Threads \ {t} : at'[u] = at[u],
         alone[t] /\ Working(t)' => Undisturbed(t)',
         \/ UNCHANGED done
         \/ /\ ~Working(t)' /\ done'.alone = alone[t]
            /\ alone[t] /\ done'.success => MoveReachesTarget'
  PROVE  MoveInv'
<1>1. \A u \in Threads \ {t} : Working(u)' = Working(u)
  BY DEF Working
<1>2. ASSUME NEW u \in Threads, alone'[u], Working(u)'
      PROVE  Undisturbed(u)' /\ \A o \in Threads \ {u} : ~Working(o)'
  <2>1. u = t
    BY <1>1, <1>2 DEF MoveInv
  <2>2. \A o \in Threads \ {t} : ~Working(o)
    BY <1>2, <2>1 DEF MoveInv
  <2>3. QED
    BY <1>1, <1>2, <2>1, <2>2
<1>3. CASE UNCHANGED done
  <2>1. ~(done'.success /\ done'.alone)
    BY <1>3 DEF MoveInv
  <2>2. QED
    BY <1>2, <2>1 DEF MoveInv, MoveReachesTarget
<1>4. CASE /\ ~Working(t)' /\ done'.alone = alone[t]
           /\ alone[t] /\ done'.success => MoveReachesTarget'
  <2>1. done'.success /\ done'.alone => \A u \in Threads : ~Working(u)'
    BY <1>1, <1>4 DEF MoveInv
  <2>2. MoveReachesTarget'
    BY <1>4 DEF MoveReachesTarget
  <2>3. QED
    BY <1>2, <2>1, <2>2 DEF MoveInv
<1>5. QED
  BY <1>3, <1>4

\* What a command that returns leaves.
LEMMA ReturnsFacts ==
  ASSUME TypeOK, NEW t \in Threads, NEW s \in BOOLEAN, Returns(t, s)
  PROVE  /\ ~Working(t)' /\ \A u \in Threads \ {t} : at'[u] = at[u]
         /\ done'.want = value[t] /\ done'.success = s /\ done'.alone = alone[t]
BY DEF TypeOK, Returns, Working

\* A thread goes on.
LEMMA StepInv ==
  ASSUME TypeOK, MoveInv, NEW t \in Threads, Step(t)
  PROVE  MoveInv'
<1>0. alone[t] /\ Working(t) => Undisturbed(t)
  BY DEF MoveInv
<1>1. CASE Write(t)
  <2>1. Working(t) /\ at'[t] = "address" /\ phase'[t] = "rise"
        /\ \A u \in Threads \ {t} : at'[u] = at[u]
    BY <1>1 DEF TypeOK, Write, Working, FirstPhase
  <2>2. target' = value'[t]
    BY <1>1 DEF Write
  <2>3. Undisturbed(t)'
    BY <2>1, <2>2 DEF Undisturbed
  <2>4. QED
    BY <1>1, <2>1, <2>3, OneStep DEF Write
<1>2. CASE Address(t)
  <2>1. Working(t) /\ at[t] = "address" /\ at'[t] = "fetch"
        /\ \A u \in Threads \ {t} : at'[u] = at[u]
    BY <1>2 DEF TypeOK, Address, Working
  <2>2. register' = RegisterOf(phase'[t])
    BY <1>2 DEF Address, RegisterOf
  <2>3. UNCHANGED <<position, target, motion, focusCurrentAddr, phase, value, alone, done>>
    BY <1>2 DEF Address, lens
  <2>4. alone[t] => Undisturbed(t)'
    BY <1>0, <2>1, <2>2, <2>3 DEF Undisturbed
  <2>5. QED
    BY <2>1, <2>3, <2>4, OneStep
<1>3. CASE Fetch(t)
  <2>1. Working(t) /\ at[t] = "fetch" /\ at'[t] = "decode"
        /\ \A u \in Threads \ {t} : at'[u] = at[u]
    BY <1>3 DEF TypeOK, Fetch, Working
  <2>2. receivedData' = Content
    BY <1>3 DEF Fetch
  <2>3. UNCHANGED <<position, target, motion, register, focusCurrentAddr, phase, value, alone, done>>
    BY <1>3 DEF Fetch, device
  <2>4. ASSUME alone[t] PROVE Undisturbed(t)'
    <3>1. Undisturbed(t) /\ register = RegisterOf(phase[t])
      BY <1>0, <2>1, <2>4 DEF Undisturbed
    <3>2. phase[t] \in {"rise", "fall"} =>
            Content = IF motion = "moving" THEN FocusMask ELSE 0
      BY <3>1 DEF Content, RegisterOf
    <3>3. phase[t] = "position" => Content = position
      BY <3>1 DEF Content, RegisterOf
    <3>4. /\ phase[t] = "rise" /\ IsBusy(receivedData') => motion = "moving"
          /\ phase[t] = "fall" /\ ~IsBusy(receivedData') => motion # "moving"
      BY <2>2, <3>2, BusyBit
    <3>5. motion \in {"still", "started", "moving"}
      BY DEF TypeOK
    <3>6. QED
      BY <2>1, <2>2, <2>3, <3>1, <3>3, <3>4, <3>5 DEF Undisturbed
  <2>5. QED
    BY <2>1, <2>3, <2>4, OneStep
<1>4. CASE UsbFails(t)
  <2> DEFINE s == at[t] # "write" /\ phase[t] = "status2"
  <2>1. Working(t) /\ Returns(t, s)
        /\ UNCHANGED <<position, target, motion, focusCurrentAddr, alone>>
    BY <1>4 DEF UsbFails, Working, device, lens
  <2>2. /\ ~Working(t)' /\ \A u \in Threads \ {t} : at'[u] = at[u]
        /\ done'.want = value[t] /\ done'.success = s /\ done'.alone = alone[t]
    BY <2>1, ReturnsFacts
  <2>3. alone[t] /\ done'.success => MoveReachesTarget'
    BY <1>0, <2>1, <2>2 DEF Undisturbed, MoveReachesTarget
  <2>4. QED
    BY <2>1, <2>2, <2>3, OneStep
<1>5. CASE Poll(t)
  <2>1. Working(t) /\ at[t] = "decode" /\ phase[t] \in {"rise", "fall"}
        /\ UNCHANGED <<position, target, motion, receivedData, focusCurrentAddr, value, alone>>
    BY <1>5 DEF Poll, Working, device, lens
  <2>2. CASE GivesUp(phase[t], polls[t])
    <3>1. Returns(t, FALSE)
      BY <1>5, <2>2 DEF Poll
    <3>2. /\ ~Working(t)' /\ \A u \in Threads \ {t} : at'[u] = at[u]
          /\ done'.success = FALSE /\ done'.alone = alone[t]
      BY <3>1, ReturnsFacts
    <3>3. QED
      BY <2>1, <3>2, OneStep
  <2>3. CASE ~GivesUp(phase[t], polls[t])
    <3>1. at'[t] = "address" /\ done' = done /\ \A u \in Threads \ {t} : at'[u] = at[u]
      BY <1>5, <2>3 DEF Poll, TypeOK
    <3>2. phase'[t] = IF IsBusy(receivedData) = (phase[t] = "rise")
                      THEN IF phase[t] = "rise" THEN "fall" ELSE "position"
                      ELSE phase[t]
      BY <1>5, <2>3 DEF Poll, TypeOK
    <3>3. ASSUME alone[t] PROVE Undisturbed(t)'
      <4>1. Undisturbed(t)
        BY <1>0, <2>1, <3>3
      <4>2. CASE phase[t] = "rise" /\ IsBusy(receivedData)
        BY <2>1, <3>1, <3>2, <4>1, <4>2 DEF Undisturbed
      <4>3. CASE phase[t] = "fall" /\ ~IsBusy(receivedData)
        BY <2>1, <3>1, <3>2, <4>1, <4>3 DEF Undisturbed
      <4>4. CASE phase'[t] = phase[t]
        BY <2>1, <3>1, <4>1, <4>4 DEF Undisturbed
      <4>5. IsBusy(receivedData) \in BOOLEAN
        BY DEF IsBusy
      <4>6. QED
        BY <2>1, <3>2, <4>2, <4>3, <4>4, <4>5
    <3>4. QED
      BY <2>1, <3>1, <3>3, OneStep
  <2>4. QED
    BY <2>2, <2>3
<1>6. CASE ReadBack(t)
  <2>1. Working(t) /\ at[t] = "decode" /\ phase[t] = "position" /\ focusCurrentAddr' = receivedData
        /\ UNCHANGED <<position, target, motion, receivedData, value, alone>>
    BY <1>6 DEF ReadBack, Working, device, lens
  <2>2. alone[t] => /\ position = target /\ target = value[t] /\ motion = "still"
                    /\ receivedData = position
    BY <1>0, <2>1 DEF Undisturbed
  <2>3. CASE t = "worker"
    <3>1. at'[t] = "address" /\ phase'[t] = "status2" /\ done' = done
          /\ \A u \in Threads \ {t} : at'[u] = at[u]
      BY <1>6, <2>3 DEF ReadBack, TypeOK
    <3>2. alone[t] => Undisturbed(t)'
      BY <2>1, <2>2, <3>1 DEF Undisturbed
    <3>3. QED
      BY <2>1, <3>1, <3>2, OneStep
  <2>4. CASE t # "worker"
    <3>1. Returns(t, TRUE)
      BY <1>6, <2>4 DEF ReadBack
    <3>2. /\ ~Working(t)' /\ \A u \in Threads \ {t} : at'[u] = at[u]
          /\ done'.want = value[t] /\ done'.alone = alone[t]
      BY <3>1, ReturnsFacts
    <3>3. alone[t] => MoveReachesTarget'
      BY <2>1, <2>2, <3>2 DEF MoveReachesTarget
    <3>4. QED
      BY <2>1, <3>2, <3>3, OneStep
  <2>5. QED
    BY <2>3, <2>4
<1>7. CASE ReadStatus2(t)
  <2>1. Working(t) /\ at[t] = "decode" /\ phase[t] = "status2" /\ Returns(t, TRUE)
        /\ UNCHANGED <<position, target, motion, focusCurrentAddr, alone>>
    BY <1>7 DEF ReadStatus2, Working, device, lens
  <2>2. /\ ~Working(t)' /\ \A u \in Threads \ {t} : at'[u] = at[u]
        /\ done'.want = value[t] /\ done'.alone = alone[t]
    BY <2>1, ReturnsFacts
  <2>3. alone[t] => MoveReachesTarget'
    BY <1>0, <2>1, <2>2 DEF Undisturbed, MoveReachesTarget
  <2>4. QED
    BY <2>1, <2>2, <2>3, OneStep
<1>8. CASE ThreadReturns(t)
  <2>1. \A u \in Threads : Working(u)' = Working(u) /\ (Working(u) => at'[u] = at[u])
    BY <1>8 DEF ThreadReturns, TypeOK, Working
  <2>2. UNCHANGED <<device, lens, phase, value, alone, done>>
    BY <1>8 DEF ThreadReturns
  <2>3. QED
    BY <2>1, <2>2 DEF MoveInv, Undisturbed, MoveReachesTarget, device, lens
<1>9. QED
  BY <1>1, <1>2, <1>3, <1>4, <1>5, <1>6, <1>7, <1>8 DEF Step

(* A command that begins takes the lens from whoever had it alone.         *)
LEMMA BeginInv ==
  ASSUME TypeOK, MoveInv, NEW t \in Threads, NEW v, Begin(t, v)
  PROVE  MoveInv'
<1>1. done'.success = FALSE
  BY DEF Begin, NoCommand
<1>2. CASE focusSpeedPPS = 0
  <2>1. UNCHANGED <<device, lens, at, phase, value, alone>>
    BY <1>2 DEF Begin
  <2>2. QED
    BY <1>1, <2>1 DEF MoveInv, MoveReachesTarget, Undisturbed, Working, device, lens
<1>3. CASE focusSpeedPPS # 0
  <2>1. at'[t] = "write" /\ \A u \in Threads \ {t} : at'[u] = at[u] /\ ~alone'[u]
    BY <1>3 DEF Begin, TypeOK
  <2>2. alone'[t] => \A o \in Threads \ {t} : ~Working(o)
    BY <1>3 DEF Begin
  <2>3. \A u \in Threads \ {t} : Working(u)' = Working(u)
    BY <2>1 DEF Working
  <2>4. Undisturbed(t)'
    BY <2>1 DEF Undisturbed
  <2>5. QED
    BY <1>1, <2>1, <2>2, <2>3, <2>4 DEF MoveInv, MoveReachesTarget
<1>4. QED
  BY <1>2, <1>3

\* One step.
LEMMA NextInv == ASSUME TypeOK, MoveInv, [Next]_vars PROVE MoveInv'
<1>1. CASE MotionStarts
  BY <1>1 DEF MotionStarts, MoveInv, MoveReachesTarget, Undisturbed, Working, lens, control
<1>2. CASE MotionEnds
  BY <1>2 DEF MotionEnds, MoveInv, MoveReachesTarget, Undisturbed, Working, lens, control
<1>3. CASE BeginInit
  BY <1>3, BeginInv DEF BeginInit, Threads
<1>4. CASE \E v \in Requests : BeginMove(v)
  BY <1>4, BeginInv DEF BeginMove, Threads
<1>5. CASE \E t \in Threads : Step(t)
  BY <1>5, StepInv
<1>6. CASE OnClose
  BY <1>6 DEF OnClose, MoveInv, MoveReachesTarget, Undisturbed, Working, device, lens, control
<1>7. CASE UNCHANGED vars
  BY <1>7 DEF vars, MoveInv, MoveReachesTarget, Undisturbed, Working, device, lens, control
<1>8. QED
  BY <1>1, <1>2, <1>3, <1>4, <1>5, <1>6, <1>7 DEF Next

(* A move that reports success while nobody else was at work has reached   *)
(* the position it was told, and the lens rests there.                     *)
THEOREM SuccessIsArrival == Spec => []MoveReachesTarget
<1>1. Init => MoveInv
  BY DEF Init, MoveInv, MoveReachesTarget, Working, NoCommand
<1>2. MoveInv => MoveReachesTarget
  BY DEF MoveInv
<1>3. QED
  BY <1>1, <1>2, InitType, NextType, NextInv, PTL DEF Spec
=============================================================================
