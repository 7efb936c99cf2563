------------------------- MODULE LineSignal_proofs -------------------------
(***************************************************************************)
(* Proofs about LineSignal, for any number of changes of the inputs and    *)
(* any high-water mark.                                                    *)
(***************************************************************************)
EXTENDS LineSignal, SequenceTheorems, TLAPS

\* Signals are published as messages.
LEMMA MessageType == ASSUME NEW v \in Signals PROVE MessageOf(v) \in Messages
BY DEF Signals, Messages, MessageOf

(* What publishing does to the queue of one subscriber.                    *)
LEMMA PublishOne ==
  ASSUME TypeOK, NEW v \in Signals, Publish(v), NEW s \in Subscribers
  PROVE  /\ queue[s] \in Seq(Messages) /\ queue'[s] \in Seq(Messages)
         /\ heard'[s] \in BOOLEAN /\ missed'[s] \in BOOLEAN
         /\ Len(queue'[s]) <= Hwm
         /\ s \in running => heard'[s]
         /\ s \notin running => heard'[s] = heard[s] /\ missed'[s] = missed[s]
         /\ missed[s] => missed'[s]
         /\ \/ s \in running /\ queue'[s] = Append(queue[s], MessageOf(v))
            \/ (s \notin running \/ missed'[s]) /\ queue'[s] = queue[s]
<1>1. queue[s] \in Seq(Messages) /\ Len(queue[s]) <= Hwm /\ Len(queue[s]) \in Nat
      /\ heard[s] \in BOOLEAN /\ missed[s] \in BOOLEAN
  BY DEF TypeOK
<1>2. MessageOf(v) \in Messages
  BY MessageType
<1>3. /\ Append(queue[s], MessageOf(v)) \in Seq(Messages)
      /\ Len(Append(queue[s], MessageOf(v))) = Len(queue[s]) + 1
  BY <1>1, <1>2, AppendProperties
<1>4. /\ queue'[s] = IF s \in running /\ ~(Len(queue[s]) >= Hwm)
                     THEN Append(queue[s], MessageOf(v)) ELSE queue[s]
      /\ missed'[s] = (missed[s] \/ (s \in running /\ Len(queue[s]) >= Hwm))
      /\ heard'[s] = (heard[s] \/ s \in running)
  BY DEF Publish
<1>5. Hwm \in Nat
  BY BoundsAssumption
<1>6. CASE s \in running /\ ~(Len(queue[s]) >= Hwm)
  <2>1. Len(queue[s]) + 1 <= Hwm
    BY <1>1, <1>5, <1>6
  <2>2. queue'[s] = Append(queue[s], MessageOf(v)) /\ heard'[s] = TRUE /\ missed'[s] = missed[s]
    BY <1>1, <1>4, <1>6
  <2>3. QED
    BY <1>1, <1>3, <1>6, <2>1, <2>2
<1>7. CASE ~(s \in running /\ ~(Len(queue[s]) >= Hwm))
  <2>1. queue'[s] = queue[s]
    BY <1>4, <1>7
  <2>2. QED
    BY <1>1, <1>4, <1>7, <2>1
<1>8. QED
  BY <1>6, <1>7

(* What reading a message does to the queues.                              *)
LEMMA ReadOne ==
  ASSUME TypeOK, NEW s \in Subscribers, Read(s)
  PROVE  /\ s \in running /\ heard[s]
         /\ queue[s] \in Seq(Messages) /\ queue[s] # <<>>
         /\ Head(queue[s]) \in Messages
         /\ queue'[s] = Tail(queue[s]) /\ queue'[s] \in Seq(Messages)
         /\ Len(queue[s]) \in Nat /\ Len(queue'[s]) = Len(queue[s]) - 1
         /\ \A i \in 1..Len(queue'[s]) : queue'[s][i] = queue[s][i + 1]
         /\ \A t \in Subscribers : t # s => queue'[t] = queue[t]
         /\ queue' \in [Subscribers -> Seq(Messages)]
<1>1. queue[s] \in Seq(Messages) /\ queue[s] # <<>> /\ s \in running /\ heard[s]
  BY DEF TypeOK, Read
<1>2. queue'[s] = Tail(queue[s]) /\ \A t \in Subscribers : t # s => queue'[t] = queue[t]
  BY DEF TypeOK, Read
<1>3. /\ Head(queue[s]) \in Messages /\ Tail(queue[s]) \in Seq(Messages)
      /\ Len(Tail(queue[s])) = Len(queue[s]) - 1
      /\ \A i \in 1..Len(Tail(queue[s])) : Tail(queue[s])[i] = queue[s][i + 1]
  BY <1>1, HeadTailProperties
<1>4. Len(queue[s]) \in Nat
  BY <1>1, LenProperties
<1>5. queue' \in [Subscribers -> Seq(Messages)]
  BY <1>3 DEF TypeOK, Read
<1>6. QED
  BY <1>1, <1>2, <1>3, <1>4, <1>5

\* What a subscriber's read leaves.
LEMMA ReadTypes ==
  ASSUME TypeOK, NEW s \in Subscribers, Read(s), UNCHANGED heard
  PROVE  /\ queue' \in [Subscribers -> Seq(Messages)]
         /\ \A t \in Subscribers : Len(queue'[t]) <= Hwm /\ (queue'[t] # <<>> => heard'[t])
<1>1. queue' \in [Subscribers -> Seq(Messages)]
  BY ReadOne
<1>2. ASSUME NEW t \in Subscribers
      PROVE  Len(queue'[t]) <= Hwm /\ (queue'[t] # <<>> => heard'[t])
  <2>1. Len(queue[t]) <= Hwm /\ (queue[t] # <<>> => heard[t]) /\ heard' = heard
    BY DEF TypeOK
  <2>2. CASE t = s
    <3>1. heard[s] /\ Len(queue[s]) \in Nat /\ Len(queue'[s]) = Len(queue[s]) - 1
      BY ReadOne
    <3>2. Hwm \in Nat
      BY BoundsAssumption
    <3>3. Len(queue'[s]) <= Hwm
      BY <2>1, <2>2, <3>1, <3>2
    <3>4. QED
      BY <2>1, <2>2, <3>1, <3>3
  <2>3. CASE t # s
    BY <2>1, <2>3, ReadOne
  <2>4. QED
    BY <2>2, <2>3
<1>3. QED
  BY <1>1, <1>2

\* A message switches on or off.
LEMMA SwitchedType == ASSUME NEW m, NEW on \in BOOLEAN PROVE Switched(m, on) \in BOOLEAN
BY DEF Switched

(* Every variable keeps its type, no subscription holds more than the      *)
(* high-water mark, and a message waits only at a subscriber that has      *)
(* heard one.                                                              *)
THEOREM TypeInvariant == Spec => []TypeOK
<1>1. ASSUME Init
      PROVE  TypeOK
  <2>1. line \in Signals /\ changes \in 0..MaxChanges
    BY <1>1, BoundsAssumption DEF Init
  <2>2. prev \in Signals
    BY <1>1 DEF Init, Signals, AllOff
  <2>3. <<>> \in Seq(Messages) /\ Len(<<>>) <= Hwm
    BY BoundsAssumption, EmptySeq
  <2>4. \A s \in Subscribers : queue[s] = <<>>
    BY <1>1 DEF Init
  <2>5. queue \in [Subscribers -> Seq(Messages)]
    BY <1>1, <2>3 DEF Init
  <2>6. QED
    BY <1>1, <2>1, <2>2, <2>3, <2>4, <2>5 DEF Init, TypeOK
<1>2. ASSUME TypeOK, [Next]_vars
      PROVE  TypeOK'
  <2>1. ASSUME NEW signal \in DOMAIN AllOff, LineChanges(signal)
        PROVE  TypeOK'
    <3>1. line' \in Signals
      BY <1>2, <2>1 DEF TypeOK, LineChanges, Signals, AllOff
    <3>2. changes' \in 0..MaxChanges
      BY <1>2, <2>1, BoundsAssumption DEF TypeOK, LineChanges
    <3>3. QED
      BY <1>2, <2>1, <3>1, <3>2 DEF TypeOK, LineChanges, subvars, lightvars
  <2>2. CASE Sample
    <3>1. Publish(line) /\ line \in Signals /\ UNCHANGED <<linevars, running, lightFirst>>
          /\ UNCHANGED <<enable, ignore, lightvars>> /\ prev' = line
      BY <1>2, <2>2 DEF Sample, TypeOK
    <3>2. /\ \A s \in Subscribers : queue'[s] \in Seq(Messages) /\ heard'[s] \in BOOLEAN
                                    /\ missed'[s] \in BOOLEAN /\ Len(queue'[s]) <= Hwm
      BY <1>2, <3>1, PublishOne
    <3>3. \A s \in Subscribers : queue'[s] # <<>> => heard'[s]
      BY <1>2, <3>1, PublishOne DEF TypeOK
    <3>4. /\ queue' \in [Subscribers -> Seq(Messages)]
          /\ heard' \in [Subscribers -> BOOLEAN] /\ missed' \in [Subscribers -> BOOLEAN]
      BY <3>1, <3>2 DEF Publish
    <3>5. QED
      BY <1>2, <3>1, <3>2, <3>3, <3>4 DEF TypeOK, linevars, lightvars
  <2>3. ASSUME NEW s \in Subscribers, Join(s)
        PROVE  TypeOK'
    BY <1>2, <2>3 DEF TypeOK, Join, linevars, lightvars, Subscribers
  <2>4. CASE CameraReads
    <3>1. enable' \in BOOLEAN
      BY <1>2, <2>4, SwitchedType DEF CameraReads, TypeOK
    <3>2. /\ queue' \in [Subscribers -> Seq(Messages)]
          /\ \A t \in Subscribers : Len(queue'[t]) <= Hwm /\ (queue'[t] # <<>> => heard'[t])
      BY <1>2, <2>4, ReadTypes DEF CameraReads, Subscribers
    <3>3. QED
      BY <1>2, <2>4, <3>1, <3>2 DEF CameraReads, TypeOK, linevars, lightvars
  <2>5. CASE LightReads
    <3>1. light' \in BOOLEAN /\ dark' \in BOOLEAN
      BY <1>2, <2>5 DEF LightReads, Lights, SwitchesOff, TypeOK
    <3>2. /\ queue' \in [Subscribers -> Seq(Messages)]
          /\ \A t \in Subscribers : Len(queue'[t]) <= Hwm /\ (queue'[t] # <<>> => heard'[t])
      BY <1>2, <2>5, ReadTypes DEF LightReads, Subscribers
    <3>3. QED
      BY <1>2, <2>5, <3>1, <3>2 DEF LightReads, TypeOK, linevars
  <2>6. CASE LightDies
    <3>1. /\ queue' \in [Subscribers -> Seq(Messages)]
          /\ \A t \in Subscribers : Len(queue'[t]) <= Hwm /\ (queue'[t] # <<>> => heard'[t])
      BY <1>2, <2>6, ReadTypes DEF LightDies, Subscribers
    <3>2. QED
      BY <1>2, <2>6, <3>1 DEF LightDies, TypeOK, linevars, lightvars
  <2>7. CASE Level2Reads
    <3>1. ignore' \in BOOLEAN
      <4>1. Head(queue["level2"]) \in Messages
        BY <1>2, <2>7, ReadOne DEF Level2Reads, Subscribers
      <4>2. QED
        BY <2>7, <4>1 DEF Level2Reads, Messages
    <3>2. /\ queue' \in [Subscribers -> Seq(Messages)]
          /\ \A t \in Subscribers : Len(queue'[t]) <= Hwm /\ (queue'[t] # <<>> => heard'[t])
      BY <1>2, <2>7, ReadTypes DEF Level2Reads, Subscribers
    <3>3. QED
      BY <1>2, <2>7, <3>1, <3>2 DEF Level2Reads, TypeOK, linevars, lightvars
  <2>8. CASE Idle \/ UNCHANGED vars
    BY <1>2, <2>8 DEF Idle, TypeOK, vars, linevars, subvars, lightvars
  <2>9. CASE Windowing
    <3>1. light' \in BOOLEAN /\ dark' \in BOOLEAN /\ levels' \in BOOLEAN /\ window' \in BOOLEAN
      BY <1>2, <2>9 DEF Windowing, WindowLights, WindowSwitchesOff, WindowDies, SwitchesOff, TypeOK
    <3>2. running' \subseteq Subscribers /\ Window
      BY <1>2, <2>9 DEF Windowing, WindowLights, WindowSwitchesOff, WindowDies, TypeOK
    <3>3. QED
      BY <1>2, <3>1, <3>2 DEF Window, TypeOK, linevars
  <2>10. QED
    BY <1>2, <2>1, <2>2, <2>3, <2>4, <2>5, <2>6, <2>7, <2>8, <2>9 DEF Next, Reader
<1>3. QED
  BY <1>1, <1>2, PTL DEF Spec
-----------------------------------------------------------------------------
(* A subscription that is effective never becomes effective again, no loss *)
(* is forgotten, and only a sample changes what is published.              *)
Keeps(s) ==
  /\ prev' = prev /\ heard' = heard
  /\ missed[s] => missed'[s]
  /\ s \in running' => s \in running \/ ~heard[s]

\* What a step does to one subscription.
LEMMA SubscriberSteps ==
  ASSUME TypeOK, [Next]_vars, NEW s \in Subscribers
  PROVE  \/ Sample
         \/ Keeps(s) /\ Read(s)
         \/ Keeps(s) /\ queue'[s] = queue[s]
<1>1. ASSUME NEW signal \in DOMAIN AllOff, LineChanges(signal)
      PROVE  Keeps(s) /\ queue'[s] = queue[s]
  BY <1>1 DEF LineChanges, Keeps, subvars
<1>2. ASSUME NEW t \in Subscribers, Join(t)
      PROVE  Keeps(s) /\ queue'[s] = queue[s]
  BY <1>2 DEF Join, Keeps
<1>3. ASSUME CameraReads \/ LightReads \/ LightDies \/ Level2Reads
      PROVE  /\ Keeps(s)
             /\ Read("camera") \/ Read("light") \/ Read("level2")
  <2>1. missed[s] => missed'[s]
    BY <1>3 DEF CameraReads, LightReads, LightDies, Level2Reads, TypeOK, Subscribers
  <2>2. QED
    BY <1>3, <2>1 DEF CameraReads, LightReads, LightDies, Level2Reads, Keeps
<1>4. ASSUME NEW t \in Subscribers, Read(t)
      PROVE  Read(s) \/ queue'[s] = queue[s]
  BY <1>4, ReadOne
<1>5. CASE Idle \/ UNCHANGED vars
  BY <1>5 DEF Idle, vars, subvars, Keeps
<1>6. CASE Windowing
  BY <1>6 DEF Windowing, WindowLights, WindowSwitchesOff, WindowDies, Window, Keeps
<1>7. QED
  BY <1>1, <1>2, <1>3, <1>4, <1>5, <1>6 DEF Next, Reader, Subscribers

\* What a step does to the camera's.
LEMMA CameraSteps ==
  ASSUME TypeOK, [Next]_vars
  PROVE  \/ Sample /\ enable' = enable
         \/ Keeps("camera") /\ CameraReads
         \/ Keeps("camera") /\ enable' = enable /\ queue'["camera"] = queue["camera"]
<1>1. "camera" \in Subscribers /\ "light" \in Subscribers /\ "level2" \in Subscribers
  BY DEF Subscribers
<1>2. CASE Sample
  BY <1>2 DEF Sample
<1>3. CASE CameraReads
  <2>1. missed' = missed /\ prev' = prev /\ heard' = heard /\ running' = running
    BY <1>3 DEF CameraReads
  <2>2. QED
    BY <1>3, <2>1 DEF Keeps
<1>4. CASE LightReads \/ LightDies \/ Level2Reads
  <2>1. queue'["camera"] = queue["camera"]
    BY <1>1, <1>4, ReadOne DEF LightReads, LightDies, Level2Reads
  <2>2. missed'["camera"] = missed["camera"]
    BY <1>1, <1>4 DEF LightReads, LightDies, Level2Reads, TypeOK
  <2>3. prev' = prev /\ heard' = heard /\ enable' = enable /\ running' \subseteq running
    BY <1>4 DEF LightReads, LightDies, Level2Reads
  <2>4. QED
    BY <2>1, <2>2, <2>3 DEF Keeps
<1>5. CASE \/ Idle \/ UNCHANGED vars
           \/ \E signal \in DOMAIN AllOff : LineChanges(signal)
           \/ \E s \in Subscribers : Join(s)
  BY <1>5 DEF Idle, LineChanges, Join, vars, subvars, Keeps
<1>6. CASE Windowing
  BY <1>6 DEF Windowing, WindowLights, WindowSwitchesOff, WindowDies, Window, Keeps
<1>7. QED
  BY <1>2, <1>3, <1>4, <1>5, <1>6 DEF Next, Reader

\* What a step does to Level2's.
LEMMA Level2Steps ==
  ASSUME TypeOK, [Next]_vars
  PROVE  \/ Sample /\ ignore' = ignore
         \/ Keeps("level2") /\ Level2Reads
         \/ Keeps("level2") /\ ignore' = ignore /\ queue'["level2"] = queue["level2"]
<1>1. "camera" \in Subscribers /\ "light" \in Subscribers /\ "level2" \in Subscribers
  BY DEF Subscribers
<1>2. CASE Sample
  BY <1>2 DEF Sample
<1>3. CASE Level2Reads
  <2>1. missed' = missed /\ prev' = prev /\ heard' = heard /\ running' = running
    BY <1>3 DEF Level2Reads
  <2>2. QED
    BY <1>3, <2>1 DEF Keeps
<1>4. CASE LightReads \/ LightDies \/ CameraReads
  <2>1. queue'["level2"] = queue["level2"]
    BY <1>1, <1>4, ReadOne DEF LightReads, LightDies, CameraReads
  <2>2. missed'["level2"] = missed["level2"]
    BY <1>1, <1>4 DEF LightReads, LightDies, CameraReads, TypeOK
  <2>3. prev' = prev /\ heard' = heard /\ ignore' = ignore /\ running' \subseteq running
    BY <1>4 DEF LightReads, LightDies, CameraReads
  <2>4. QED
    BY <2>1, <2>2, <2>3 DEF Keeps
<1>5. CASE \/ Idle \/ UNCHANGED vars
           \/ \E signal \in DOMAIN AllOff : LineChanges(signal)
           \/ \E s \in Subscribers : Join(s)
  BY <1>5 DEF Idle, LineChanges, Join, vars, subvars, Keeps
<1>6. CASE Windowing
  BY <1>6 DEF Windowing, WindowLights, WindowSwitchesOff, WindowDies, Window, Keeps
<1>7. QED
  BY <1>2, <1>3, <1>4, <1>5, <1>6 DEF Next, Reader

\* What a sample does to one subscription.
LEMMA SampleOne ==
  ASSUME TypeOK, Sample, NEW s \in Subscribers
  PROVE  /\ prev' = line /\ running' = running
         /\ queue[s] \in Seq(Messages)
         /\ s \in running => heard'[s]
         /\ s \notin running => heard'[s] = heard[s] /\ missed'[s] = missed[s]
         /\ missed[s] => missed'[s]
         /\ \/ s \in running /\ queue'[s] = Append(queue[s], MessageOf(prev'))
            \/ (s \notin running \/ missed'[s]) /\ queue'[s] = queue[s]
<1>1. Publish(line) /\ line \in Signals /\ prev' = line /\ running' = running
  BY DEF Sample, TypeOK
<1>2. QED
  BY <1>1, PublishOne
-----------------------------------------------------------------------------
(* The last message a subscriber has still to read describes the sample    *)
(* the controller published last.                                          *)
LastIsCurrent ==
  \A s \in Subscribers :
    s \in running /\ heard[s] /\ ~missed[s] /\ queue[s] # <<>>
    => queue[s][Len(queue[s])] = MessageOf(prev)

\* One step: the last message waiting is of the sample published last.
LEMMA LastIsCurrentStep ==
  ASSUME TypeOK, LastIsCurrent, [Next]_vars
  PROVE  LastIsCurrent'
<1> SUFFICES ASSUME NEW s \in Subscribers,
                    s \in running', heard'[s], ~missed'[s], queue'[s] # <<>>
             PROVE  queue'[s][Len(queue'[s])] = MessageOf(prev')
  BY DEF LastIsCurrent
<1>1. CASE Sample
  <2>1. queue[s] \in Seq(Messages) /\ queue'[s] = Append(queue[s], MessageOf(prev'))
    BY <1>1, SampleOne
  <2>2. MessageOf(prev') \in Messages
    BY <1>1, MessageType DEF Sample, TypeOK
  <2>3. QED
    BY <2>1, <2>2, AppendProperties
<1>2. CASE Keeps(s) /\ Read(s)
  <2>1. s \in running /\ heard[s] /\ ~missed[s] /\ prev' = prev
    BY <1>2, ReadOne DEF Keeps
  <2>2. /\ queue[s] # <<>> /\ Len(queue[s]) \in Nat /\ queue'[s] \in Seq(Messages)
        /\ Len(queue'[s]) = Len(queue[s]) - 1
        /\ \A i \in 1..Len(queue'[s]) : queue'[s][i] = queue[s][i + 1]
    BY <1>2, ReadOne
  <2>3. Len(queue'[s]) \in Nat \ {0}
    BY <2>2, EmptySeq
  <2>4. queue'[s][Len(queue'[s])] = queue[s][Len(queue[s])]
    <3>1. Len(queue'[s]) \in 1..Len(queue'[s]) /\ Len(queue'[s]) + 1 = Len(queue[s])
      BY <2>2, <2>3
    <3>2. QED
      BY <2>2, <3>1
  <2>5. QED
    BY <2>1, <2>2, <2>4 DEF LastIsCurrent
<1>3. CASE Keeps(s) /\ queue'[s] = queue[s]
  <2>1. queue[s] # <<>> /\ heard[s] /\ ~missed[s] /\ prev' = prev
    BY <1>3 DEF Keeps
  <2>2. s \in running
    BY <1>3, <2>1 DEF Keeps
  <2>3. QED
    BY <1>3, <2>1, <2>2 DEF LastIsCurrent
<1>4. QED
  BY <1>1, <1>2, <1>3, SubscriberSteps

(* The message a subscriber reads last is the sample published last.       *)
LEMMA LastRead ==
  ASSUME TypeOK, LastIsCurrent, NEW s \in Subscribers, Read(s), Keeps(s),
         ~missed'[s], queue'[s] = <<>>
  PROVE  Head(queue[s]) = MessageOf(prev')
<1>1. s \in running /\ heard[s] /\ ~missed[s] /\ queue[s] # <<>> /\ prev' = prev
  BY ReadOne DEF Keeps
<1>2. Len(queue[s]) = 1
  <2>1. Len(queue'[s]) = 0 /\ Len(queue'[s]) = Len(queue[s]) - 1 /\ Len(queue[s]) \in Nat
    BY ReadOne, EmptySeq
  <2>2. QED
    BY <2>1
<1>3. queue[s][1] = MessageOf(prev)
  BY <1>1, <1>2 DEF LastIsCurrent
<1>4. Head(queue[s]) = queue[s][1]
  BY <1>1 DEF TypeOK
<1>5. QED
  BY <1>1, <1>3, <1>4
-----------------------------------------------------------------------------
(* Once the grabber has read everything, streaming follows the line.       *)
LEMMA StreamsStep ==
  ASSUME TypeOK, LastIsCurrent, StreamsTheMaterial, [Next]_vars
  PROVE  StreamsTheMaterial'
<1> SUFFICES ASSUME UpToDate("camera")', prev'.online
             PROVE  (prev'.md1 => enable') /\ (~prev'.md1 /\ ~prev'.md2 => ~enable')
  BY DEF StreamsTheMaterial
<1>1. "camera" \in Subscribers
  BY DEF Subscribers
<1>2. "camera" \in running' /\ heard'["camera"] /\ queue'["camera"] = <<>> /\ ~missed'["camera"]
  BY DEF UpToDate
<1>3. CASE Sample
  <2>1. /\ queue["camera"] \in Seq(Messages)
        /\ queue'["camera"] = Append(queue["camera"], MessageOf(prev'))
    BY <1>1, <1>2, <1>3, SampleOne
  <2>2. MessageOf(prev') \in Messages
    BY <1>3, MessageType DEF Sample, TypeOK
  <2>3. FALSE
    BY <1>2, <2>1, <2>2, AppendProperties
  <2>4. QED
    BY <2>3
<1>4. CASE Keeps("camera") /\ CameraReads
  <2>1. Head(queue["camera"]) = MessageOf(prev')
    BY <1>1, <1>2, <1>4, LastRead DEF CameraReads
  <2>2. enable' = Switched(MessageOf(prev'), enable)
    BY <1>4, <2>1 DEF CameraReads
  <2>3. QED
    BY <2>2 DEF Switched, Arrives, Leaves, MessageOf
<1>5. CASE Keeps("camera") /\ enable' = enable /\ queue'["camera"] = queue["camera"]
  <2>1. UpToDate("camera") /\ prev' = prev
    BY <1>2, <1>5 DEF Keeps, UpToDate
  <2>2. QED
    BY <1>5, <2>1 DEF StreamsTheMaterial
<1>6. QED
  BY <1>3, <1>4, <1>5, CameraSteps

\* One step: _ignore during a material.
LEMMA IgnoresStep ==
  ASSUME TypeOK, LastIsCurrent, IgnoresDuringMaterial, [Next]_vars
  PROVE  IgnoresDuringMaterial'
<1> SUFFICES ASSUME UpToDate("level2")'
             PROVE  ignore' = (prev'.md1 \/ prev'.md2)
  BY DEF IgnoresDuringMaterial
<1>1. "level2" \in Subscribers
  BY DEF Subscribers
<1>2. "level2" \in running' /\ heard'["level2"] /\ queue'["level2"] = <<>> /\ ~missed'["level2"]
  BY DEF UpToDate
<1>3. CASE Sample
  <2>1. /\ queue["level2"] \in Seq(Messages)
        /\ queue'["level2"] = Append(queue["level2"], MessageOf(prev'))
    BY <1>1, <1>2, <1>3, SampleOne
  <2>2. MessageOf(prev') \in Messages
    BY <1>3, MessageType DEF Sample, TypeOK
  <2>3. FALSE
    BY <1>2, <2>1, <2>2, AppendProperties
  <2>4. QED
    BY <2>3
<1>4. CASE Keeps("level2") /\ Level2Reads
  <2>1. Head(queue["level2"]) = MessageOf(prev')
    BY <1>1, <1>2, <1>4, LastRead DEF Level2Reads
  <2>2. ignore' = (MessageOf(prev').md1 \/ MessageOf(prev').md2)
    BY <1>4, <2>1 DEF Level2Reads
  <2>3. QED
    BY <2>2 DEF MessageOf
<1>5. CASE Keeps("level2") /\ ignore' = ignore /\ queue'["level2"] = queue["level2"]
  <2>1. UpToDate("level2") /\ prev' = prev
    BY <1>2, <1>5 DEF Keeps, UpToDate
  <2>2. QED
    BY <1>5, <2>1 DEF IgnoresDuringMaterial
<1>6. QED
  BY <1>3, <1>4, <1>5, Level2Steps

\* The first state.
LEMMA Beginning ==
  ASSUME Init
  PROVE  LastIsCurrent /\ StreamsTheMaterial /\ IgnoresDuringMaterial
BY DEF Init, LastIsCurrent, StreamsTheMaterial, IgnoresDuringMaterial, UpToDate

\* All three, throughout.
LEMMA Following == Spec => [](LastIsCurrent /\ StreamsTheMaterial /\ IgnoresDuringMaterial)
<1>1. ASSUME TypeOK, LastIsCurrent /\ StreamsTheMaterial /\ IgnoresDuringMaterial, [Next]_vars
      PROVE  (LastIsCurrent /\ StreamsTheMaterial /\ IgnoresDuringMaterial)'
  BY <1>1, LastIsCurrentStep, StreamsStep, IgnoresStep
<1>2. QED
  BY <1>1, Beginning, TypeInvariant, PTL DEF Spec

(* A grabber that has read everything streams while the first detector     *)
(* sees a material and not past an empty line.                             *)
THEOREM StreamingFollowsTheLine == Spec => []StreamsTheMaterial
BY Following, PTL

(* The level2 gate, having read everything, follows the detectors.         *)
THEOREM GateFollowsTheLine == Spec => []IgnoresDuringMaterial
BY Following, PTL

-----------------------------------------------------------------------------
(* The switch once the messages q have been read: the last one that says   *)
(* anything decides.                                                       *)
Verdict(q, on) ==
  \/ \E i \in 1..Len(q) : /\ Arrives(q[i])
                          /\ \A j \in 1..Len(q) : j > i => ~Leaves(q[j])
  \/ on /\ \A j \in 1..Len(q) : ~Leaves(q[j])

\* No message changes nothing.
LEMMA VerdictNone == ASSUME NEW on \in BOOLEAN PROVE Verdict(<<>>, on) <=> on
<1>1. Len(<<>>) = 0
  BY EmptySeq
<1>2. 1..Len(<<>>) = {}
  BY <1>1
<1>3. QED
  BY <1>2 DEF Verdict

\* The last message decides.
LEMMA VerdictAppend ==
  ASSUME NEW q \in Seq(Messages), NEW m \in Messages, NEW on \in BOOLEAN
  PROVE  Verdict(Append(q, m), on) <=> Arrives(m) \/ (~Leaves(m) /\ Verdict(q, on))
<1> DEFINE r == Append(q, m)
           n == Len(q)
<1>1. /\ n \in Nat /\ Len(r) = n + 1
      /\ \A i \in 1..n : r[i] = q[i]
      /\ r[n + 1] = m
  BY AppendProperties, LenProperties
<1> HIDE DEF r
<1>2. n + 1 \in 1..Len(r) /\ \A i \in 1..n : i \in 1..Len(r) /\ n + 1 > i /\ i # n + 1
  BY <1>1
<1>3. \A i \in 1..Len(r) : i \in 1..n \/ i = n + 1
  BY <1>1
<1>4. \A j \in 1..Len(r) : ~(j > n + 1)
  BY <1>1
<1>5. ASSUME Arrives(m)
      PROVE  Verdict(r, on)
  BY <1>1, <1>2, <1>4, <1>5 DEF Verdict
<1>6. ASSUME ~Leaves(m), Verdict(q, on)
      PROVE  Verdict(r, on)
  BY <1>1, <1>2, <1>3, <1>6 DEF Verdict
<1>7. ASSUME Verdict(r, on), ~Arrives(m)
      PROVE  ~Leaves(m) /\ Verdict(q, on)
  BY <1>1, <1>2, <1>3, <1>7 DEF Verdict
<1>8. QED
  BY <1>5, <1>6, <1>7 DEF r

\* Reading the first message is no change to what is decided in the end.
LEMMA VerdictRead ==
  ASSUME NEW q \in Seq(Messages), q # <<>>, NEW on \in BOOLEAN
  PROVE  Verdict(q, on) <=> Verdict(Tail(q), Switched(Head(q), on))
<1> DEFINE r == Tail(q)
           h == Head(q)
           n == Len(r)
<1>1. /\ n \in Nat /\ Len(q) = n + 1
      /\ \A i \in 1..n : r[i] = q[i + 1]
      /\ q[1] = h
  <2>1. /\ Tail(q) \in Seq(Messages) /\ Len(Tail(q)) = Len(q) - 1
        /\ \A i \in 1..Len(Tail(q)) : Tail(q)[i] = q[i + 1]
    BY HeadTailProperties
  <2>2. Len(q) \in Nat /\ Len(Tail(q)) \in Nat
    BY <2>1, LenProperties
  <2>3. q[1] = Head(q)
    OBVIOUS
  <2>4. QED
    BY <2>1, <2>2, <2>3
<1> HIDE DEF r, h
<1>2. /\ 1 \in 1..Len(q)
      /\ \A i \in 1..n : i + 1 \in 1..Len(q) /\ i + 1 > 1
      /\ \A i, j \in 1..n : j > i <=> j + 1 > i + 1
  BY <1>1
<1>3. \A i \in 1..Len(q) : i = 1 \/ \E k \in 1..n : i = k + 1
  <2>1. SUFFICES ASSUME NEW i \in 1..Len(q), i # 1
                 PROVE  i - 1 \in 1..n /\ i = (i - 1) + 1
    OBVIOUS
  <2>2. QED
    BY <1>1, <2>1
<1> DEFINE clear == \A j \in 1..n : ~Leaves(r[j])
<1>4. clear <=> \A j \in 1..Len(q) : j > 1 => ~Leaves(q[j])
  BY <1>1, <1>2, <1>3
<1>5. (\A j \in 1..Len(q) : ~Leaves(q[j])) <=> (clear /\ ~Leaves(h))
  BY <1>1, <1>2, <1>3
<1>6. \A i \in 1..n : (\A j \in 1..n : j > i => ~Leaves(r[j]))
                  <=> (\A j \in 1..Len(q) : j > i + 1 => ~Leaves(q[j]))
  BY <1>1, <1>2, <1>3
<1> DEFINE last(i) == Arrives(q[i]) /\ \A j \in 1..Len(q) : j > i => ~Leaves(q[j])
           lastOfRest(i) == Arrives(r[i]) /\ \A j \in 1..n : j > i => ~Leaves(r[j])
           later == \E i \in 1..n : lastOfRest(i)
<1>7. (\E i \in 1..Len(q) : last(i)) <=> later \/ (Arrives(h) /\ clear)
  <2>1. last(1) <=> Arrives(h) /\ clear
    BY <1>1, <1>4
  <2>2. \A i \in 1..n : lastOfRest(i) <=> last(i + 1)
    BY <1>1, <1>6
  <2> HIDE DEF last, lastOfRest, clear
  <2>3. QED
    BY <1>2, <1>3, <2>1, <2>2
<1>8. Verdict(q, on) <=> later \/ (Arrives(h) /\ clear) \/ (on /\ clear /\ ~Leaves(h))
  BY <1>5, <1>7 DEF Verdict
<1>9. Verdict(r, Switched(h, on)) <=> later \/ (Switched(h, on) /\ clear)
  BY DEF Verdict
<1>10. Switched(h, on) <=> Arrives(h) \/ (on /\ ~Leaves(h))
  BY DEF Switched, Leaves
<1>11. QED
  BY <1>8, <1>9, <1>10 DEF r, h
-----------------------------------------------------------------------------
\* The light is on or there is a reason why it is not.
LitOrExcused == light \/ dark

(* As long as neither has lost a message and the light has heard all the   *)
(* grabber has: if the grabber will stream when it has read its queue, the *)
(* light will be on when it has read its own, or have a reason not to be.  *)
LightFollows ==
  /\ "camera" \notin running => ~heard["camera"]
  /\ ~heard["camera"] => ~enable
  /\ /\ lightFirst /\ {"camera", "light"} \subseteq running
     /\ ~missed["camera"] /\ ~missed["light"]
     /\ Verdict(queue["camera"], enable)
     => Verdict(queue["light"], LitOrExcused)

\* One step: what grabber and light will have read.
LEMMA LightFollowsStep ==
  ASSUME TypeOK, LightFollows, [Next]_vars
  PROVE  LightFollows'
<1>1. "camera" \in Subscribers /\ "light" \in Subscribers /\ "level2" \in Subscribers
  BY DEF Subscribers
<1>2. /\ queue["camera"] \in Seq(Messages) /\ queue["light"] \in Seq(Messages)
      /\ enable \in BOOLEAN /\ LitOrExcused \in BOOLEAN
  BY <1>1 DEF TypeOK, LitOrExcused
<1>3. CASE Sample
  <2>1. UNCHANGED <<running, lightFirst, enable, LitOrExcused>>
    BY <1>3 DEF Sample, lightvars, LitOrExcused
  <2>2. ("camera" \notin running' => ~heard'["camera"]) /\ (~heard'["camera"] => ~enable')
    <3>1. /\ "camera" \in running => heard'["camera"]
          /\ "camera" \notin running => heard'["camera"] = heard["camera"]
      BY <1>1, <1>3, SampleOne
    <3>2. QED
      BY <2>1, <3>1 DEF LightFollows
  <2>3. ASSUME lightFirst', {"camera", "light"} \subseteq running',
               ~missed'["camera"], ~missed'["light"],
               Verdict(queue'["camera"], enable')
        PROVE  Verdict(queue'["light"], LitOrExcused')
    <3>1. /\ queue'["camera"] = Append(queue["camera"], MessageOf(prev'))
          /\ queue'["light"] = Append(queue["light"], MessageOf(prev'))
          /\ ~missed["camera"] /\ ~missed["light"]
      BY <1>1, <1>3, <2>1, <2>3, SampleOne
    <3>2. MessageOf(prev') \in Messages
      BY <1>3, MessageType DEF Sample, TypeOK
    <3>3. /\ Verdict(queue'["camera"], enable)
             <=> \/ Arrives(MessageOf(prev'))
                 \/ ~Leaves(MessageOf(prev')) /\ Verdict(queue["camera"], enable)
          /\ Verdict(queue'["light"], LitOrExcused)
             <=> \/ Arrives(MessageOf(prev'))
                 \/ ~Leaves(MessageOf(prev')) /\ Verdict(queue["light"], LitOrExcused)
      BY <1>2, <3>1, <3>2, VerdictAppend
    <3>4. Verdict(queue["camera"], enable) => Verdict(queue["light"], LitOrExcused)
      BY <2>1, <2>3, <3>1 DEF LightFollows
    <3>5. QED
      BY <2>1, <2>3, <3>3, <3>4
  <2>4. QED
    BY <2>2, <2>3 DEF LightFollows
<1>4. CASE CameraReads
  <2>1. /\ UNCHANGED <<running, lightFirst, heard, missed, LitOrExcused>>
        /\ enable' = Switched(Head(queue["camera"]), enable)
    BY <1>4 DEF CameraReads, lightvars, LitOrExcused
  <2>2. /\ heard["camera"] /\ queue["camera"] # <<>>
        /\ queue'["camera"] = Tail(queue["camera"]) /\ queue'["light"] = queue["light"]
    BY <1>1, <1>4, ReadOne DEF CameraReads
  <2>3. Verdict(queue["camera"], enable) <=> Verdict(queue'["camera"], enable')
    BY <1>2, <2>1, <2>2, VerdictRead
  <2>4. QED
    BY <2>1, <2>2, <2>3 DEF LightFollows
<1>5. CASE LightReads
  <2>1. Read("light") /\ UNCHANGED <<running, lightFirst, heard, missed, enable>>
    BY <1>5 DEF LightReads
  <2>2. Switched(Head(queue["light"]), LitOrExcused) => LitOrExcused'
    <3>1. light \in BOOLEAN /\ dark \in BOOLEAN
      BY DEF TypeOK
    <3>2. CASE Arrives(Head(queue["light"])) /\ Lights(levels)
      <4>1. light' \/ dark'
        <5>1. CASE light = TRUE
          BY <3>2, <5>1 DEF Lights
        <5>2. CASE light = FALSE
          BY <3>2, <5>2 DEF Lights
        <5>3. QED
          BY <3>1, <5>1, <5>2
      <4>2. QED
        BY <4>1 DEF LitOrExcused
    <3>3. CASE Leaves(Head(queue["light"]))
      <4>1. ~Arrives(Head(queue["light"]))
        BY <3>3 DEF Leaves
      <4>2. QED
        BY <3>3, <4>1 DEF Switched
    <3>4. CASE /\ ~Arrives(Head(queue["light"])) /\ ~Leaves(Head(queue["light"]))
               /\ UNCHANGED <<light, dark>>
      BY <3>4 DEF Switched, LitOrExcused
    <3>5. QED
      BY <1>5, <3>2, <3>3, <3>4 DEF LightReads
  <2>3. /\ queue["light"] # <<>>
        /\ queue'["light"] = Tail(queue["light"]) /\ queue'["camera"] = queue["camera"]
    BY <1>1, <1>5, ReadOne DEF LightReads
  <2>4. Verdict(queue["light"], LitOrExcused) => Verdict(queue'["light"], LitOrExcused')
    <3>1. Verdict(queue["light"], LitOrExcused)
          => Verdict(queue'["light"], Switched(Head(queue["light"]), LitOrExcused))
      BY <1>2, <2>3, VerdictRead
    <3>2. QED
      BY <2>2, <3>1 DEF Verdict
  <2>5. QED
    BY <2>1, <2>3, <2>4 DEF LightFollows
<1>6. CASE LightDies
  <2>1. UNCHANGED <<heard, enable>> /\ running' = running \ {"light"}
    BY <1>6 DEF LightDies
  <2>2. QED
    BY <2>1 DEF LightFollows
<1>7. CASE Level2Reads
  <2>1. UNCHANGED <<running, lightFirst, heard, missed, enable, LitOrExcused>>
    BY <1>7 DEF Level2Reads, lightvars, LitOrExcused
  <2>2. queue'["camera"] = queue["camera"] /\ queue'["light"] = queue["light"]
    BY <1>1, <1>7, ReadOne DEF Level2Reads
  <2>3. QED
    BY <2>1, <2>2 DEF LightFollows
<1>8. ASSUME NEW s \in Subscribers, Join(s)
      PROVE  LightFollows'
  <2>1. /\ UNCHANGED <<queue, heard, missed, enable, LitOrExcused>>
        /\ running' = running \cup {s} /\ ~heard[s]
        /\ lightFirst' = (lightFirst /\ (s = "light" => ~heard["camera"]))
    BY <1>8 DEF Join, lightvars, LitOrExcused
  <2>2. CASE ~heard["camera"]
    <3>1. queue["camera"] = <<>> /\ ~enable /\ enable \in BOOLEAN
      BY <1>1, <2>2 DEF TypeOK, LightFollows
    <3>2. ~Verdict(queue["camera"], enable)
      BY <3>1, VerdictNone
    <3>3. QED
      BY <2>1, <2>2, <3>1, <3>2 DEF LightFollows
  <2>3. CASE heard["camera"]
    <3>1. "camera" \in running /\ s # "camera" /\ (lightFirst' => s # "light" /\ lightFirst)
      BY <2>1, <2>3 DEF LightFollows, TypeOK
    <3>2. QED
      BY <2>1, <2>3, <3>1 DEF LightFollows
  <2>4. QED
    BY <2>2, <2>3
<1>9. CASE Idle \/ UNCHANGED vars \/ \E signal \in DOMAIN AllOff : LineChanges(signal)
  BY <1>9 DEF Idle, LineChanges, vars, subvars, lightvars, LightFollows, LitOrExcused
<1>10. CASE Windowing
  <2>1. UNCHANGED <<queue, heard, missed, lightFirst, enable>> /\ running' \subseteq running
        /\ ("camera" \in running <=> "camera" \in running')
    BY <1>10 DEF Windowing, WindowLights, WindowSwitchesOff, WindowDies, Window
  <2>2. LitOrExcused => LitOrExcused'
    BY <1>10 DEF Windowing, WindowLights, WindowSwitchesOff, WindowDies, LitOrExcused
  <2>3. Verdict(queue["light"], LitOrExcused) => Verdict(queue'["light"], LitOrExcused')
    BY <2>1, <2>2 DEF Verdict
  <2>4. QED
    BY <2>1, <2>3 DEF LightFollows
<1>11. QED
  BY <1>3, <1>4, <1>5, <1>6, <1>7, <1>8, <1>9, <1>10 DEF Next, Reader

(* Images are taken in the light: when a grabber and a light have each read*)
(* everything, the light is on while the grabber streams, unless the       *)
(* grabber joined first, or the light was not lit for want of levels or of *)
(* a datagram, or switched off by hand.                                    *)
THEOREM CapturesAreLit == Spec => []CaptureIsLit
<1>1. Init => LightFollows
  BY DEF Init, LightFollows, Subscribers
<1>2. ASSUME TypeOK, LightFollows
      PROVE  CaptureIsLit
  <2>1. ASSUME UpToDate("camera"), UpToDate("light"), lightFirst, enable
        PROVE  LitOrExcused
    <3>1. Verdict(queue["camera"], enable) => Verdict(queue["light"], LitOrExcused)
      BY <1>2, <2>1 DEF UpToDate, LightFollows
    <3>2. queue["camera"] = <<>> /\ queue["light"] = <<>>
      BY <2>1 DEF UpToDate
    <3>3. enable \in BOOLEAN /\ LitOrExcused \in BOOLEAN
      BY <1>2 DEF TypeOK, LitOrExcused
    <3>4. /\ Verdict(<<>>, enable) <=> enable
          /\ Verdict(<<>>, LitOrExcused) <=> (LitOrExcused)
      BY <3>3, VerdictNone
    <3>5. QED
      BY <2>1, <3>1, <3>2, <3>4
  <2>2. QED
    BY <2>1 DEF CaptureIsLit, LitOrExcused
<1>3. QED
  BY <1>1, <1>2, LightFollowsStep, TypeInvariant, PTL DEF Spec
=============================================================================
