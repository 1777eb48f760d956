----------------------------- MODULE StaMM_proofs ------------------------------
(***************************************************************************)
(* Theorems about StaMM, for any length of mm_queue and of rvc_queue and   *)
(* any number of changes of the rear gear's pin.                           *)
(*                                                                         *)
(* GearInv: while a message for an edge waits among the frames, and only   *)
(* one does, the flag g_rear_gear_id_queued is set; it stays set without   *)
(* one only when the queue has refused an edge; and while it is clear,     *)
(* rvc_task has read the pin as it is.  AskInv: Linux's request is in one  *)
(* place on its way to rvc_ax_takeover.  SafeInv: where the manager waits  *)
(* for the camera, and where it gives it up, M3 still has it.  CameraInv:  *)
(* the last of the manager's own events in its queue says whether running  *)
(* is set; without one, the event in hand or the state does.               *)
(***************************************************************************)
EXTENDS StaMM, TLAPS

Own       == {"STARTED", "STOPPED"}
LastOwn(i) == /\ i \in DOMAIN queue /\ queue[i] \in Own
              /\ \A j \in DOMAIN queue : j > i => queue[j] \notin Own
NoOwn     == \A i \in DOMAIN queue : queue[i] \notin Own

GearInv ==
  /\ \A i \in DOMAIN rvcq : rvcq[i] = "gear" => queued
  /\ \A i, j \in DOMAIN rvcq : rvcq[i] = "gear" /\ rvcq[j] = "gear" => i = j
  /\ queued /\ NoGear => dropped
  /\ rvc = "idle" /\ ~queued => seen = pin
  /\ rvc = "debounce" /\ ~queued => first = pin
  /\ rvc = "send" /\ ~queued => seen = pin

AskInv ==
  "TAKEOVER" \in asked => \/ takeover # "Mx" \/ ax = "TAKEOVER" \/ mm \in {"takeover", "giveUp"}
                          \/ \E i \in DOMAIN queue : queue[i] = "TAKEOVER"

SafeInv ==
  /\ TakeoverSafe
  /\ mm \in {"waitStart", "waitStop", "giveUp"} => takeover # "Ax"
  /\ mm = "giveUp" => ~running
  /\ mm \in {"camOff", "waitStop"} => ev # "TAKEOVER"

\* The manager has done something to the camera and has not sent its event yet.
Owes == mm \in {"sendStarted", "sendFailed", "sendStopped"} \/ (mm = "giveUp" /\ ev # "TAKEOVER")

CameraInv == takeover # "Ax" =>
  /\ mm = "sendStarted" => running
  /\ mm \in {"sendFailed", "sendStopped"} => ~running \/ failed
  /\ ~Owes =>
       /\ \A i \in DOMAIN queue : LastOwn(i) =>
            IF queue[i] = "STARTED" THEN running ELSE ~running \/ failed
       /\ NoOwn => /\ state = "RVC" /\ mm # "idle" => running
                   /\ running => failed \/ (state = "RVC" /\ mm # "idle")

IInv == TypeOK /\ GearInv /\ AskInv /\ SafeInv /\ CameraInv

-------------------------------------------------------------------------------
\* What the queue holds after an event has been sent to its end.
LEMMA Sent ==
  ASSUME NEW e \in Events, queue \in Seq(Events), Send(e)
  PROVE  /\ queue' \in Seq(Events) /\ Len(queue) \in Nat
         /\ Len(queue') = Len(queue) + 1 /\ Len(queue) < QueueLen
         /\ DOMAIN queue = 1 .. Len(queue) /\ DOMAIN queue' = 1 .. Len(queue) + 1
         /\ queue'[Len(queue) + 1] = e
         /\ \A i \in 1 .. Len(queue) : queue'[i] = queue[i]
BY DEF Send

\* What the queue holds after an event has been taken from its head.
LEMMA Taken ==
  ASSUME queue \in Seq(Events), queue # <<>>, queue' = Tail(queue)
  PROVE  /\ queue' \in Seq(Events) /\ Len(queue) \in Nat /\ Len(queue') = Len(queue) - 1
         /\ Head(queue) \in Events /\ Head(queue) = queue[1] /\ 1 \in DOMAIN queue
         /\ DOMAIN queue = 1 .. Len(queue) /\ DOMAIN queue' = 1 .. Len(queue) - 1
         /\ \A i \in 1 .. Len(queue) - 1 : queue'[i] = queue[i + 1]
<1>1. Len(queue) \in Nat /\ Len(queue) # 0 /\ DOMAIN queue = 1 .. Len(queue)
      /\ Head(queue) = queue[1]
  OBVIOUS
<1>2. queue' \in Seq(Events) /\ Len(queue') = Len(queue) - 1
  BY <1>1
<1>3. DOMAIN queue' = 1 .. Len(queue) - 1
  BY <1>2
<1>4. \A i \in 1 .. Len(queue) - 1 : queue'[i] = queue[i + 1]
  BY <1>1
<1>5. 1 \in DOMAIN queue /\ queue[1] \in Events
  BY <1>1
<1> QED BY <1>1, <1>2, <1>3, <1>4, <1>5

\* An event that is not the manager's own leaves the last one of its own.
LEMMA SentOther ==
  ASSUME NEW e \in Events \ Own, queue \in Seq(Events), Send(e)
  PROVE  /\ \A i \in DOMAIN queue' : LastOwn(i)' => LastOwn(i) /\ queue'[i] = queue[i]
         /\ NoOwn' => NoOwn
<1> USE Sent
<1>1. \A i \in DOMAIN queue' : LastOwn(i)' => LastOwn(i) /\ queue'[i] = queue[i]
  BY DEF LastOwn
<1>2. NoOwn' => NoOwn
  BY DEF NoOwn
<1> QED BY <1>1, <1>2

\* An own event that is sent is the last.
LEMMA SentOwn ==
  ASSUME NEW e \in Own, queue \in Seq(Events), Send(e)
  PROVE  /\ \A i \in DOMAIN queue' : LastOwn(i)' => queue'[i] = e
         /\ ~NoOwn'
<1>1. e \in Events
  BY DEF Own, Events
<1> USE <1>1, Sent
<1>2. \A i \in DOMAIN queue' : LastOwn(i)' => queue'[i] = e
  BY DEF LastOwn
<1>3. ~NoOwn'
  BY DEF NoOwn
<1> QED BY <1>2, <1>3

\* Taking an event leaves the last own event, unless it was that one.
LEMMA TakenOwn ==
  ASSUME queue \in Seq(Events), queue # <<>>, queue' = Tail(queue)
  PROVE  /\ \A i \in DOMAIN queue' : LastOwn(i)' =>
              i + 1 \in DOMAIN queue /\ LastOwn(i + 1) /\ queue'[i] = queue[i + 1]
         /\ NoOwn' /\ Head(queue) \in Own => LastOwn(1) /\ queue[1] = Head(queue)
         /\ NoOwn' /\ Head(queue) \notin Own => NoOwn
<1> USE Taken
<1>1. \A i \in DOMAIN queue' : LastOwn(i)' =>
              i + 1 \in DOMAIN queue /\ LastOwn(i + 1) /\ queue'[i] = queue[i + 1]
  <2> SUFFICES ASSUME NEW i \in DOMAIN queue', LastOwn(i)'
               PROVE  i + 1 \in DOMAIN queue /\ LastOwn(i + 1) /\ queue'[i] = queue[i + 1]
    OBVIOUS
  <2>1. i \in Nat /\ i + 1 \in DOMAIN queue /\ queue'[i] = queue[i + 1]
    OBVIOUS
  <2>2. ASSUME NEW j \in DOMAIN queue, j > i + 1 PROVE queue[j] \notin Own
    <3>1. j - 1 \in DOMAIN queue' /\ j - 1 > i /\ queue'[j - 1] = queue[(j - 1) + 1]
          /\ (j - 1) + 1 = j
      BY <2>1, <2>2
    <3> QED BY <3>1 DEF LastOwn
  <2> QED BY <2>1, <2>2 DEF LastOwn
<1>2. ASSUME NoOwn', NEW j \in DOMAIN queue, j # 1 PROVE queue[j] \notin Own
  <2>1. j - 1 \in DOMAIN queue' /\ queue'[j - 1] = queue[(j - 1) + 1] /\ (j - 1) + 1 = j
    BY <1>2
  <2> QED BY <2>1, <1>2 DEF NoOwn
<1>3. NoOwn' /\ Head(queue) \in Own => LastOwn(1) /\ queue[1] = Head(queue)
  BY <1>2 DEF LastOwn
<1>4. NoOwn' /\ Head(queue) \notin Own => NoOwn
  BY <1>2 DEF NoOwn
<1> QED BY <1>1, <1>3, <1>4

\* The same for a message in rvc_queue.
LEMMA Posted ==
  ASSUME NEW m \in {"gear", "frame"}, rvcq \in Seq({"gear", "frame"}),
         Len(rvcq) <= RvcLen, ~(Len(rvcq) >= RvcLen), rvcq' = Append(rvcq, m)
  PROVE  /\ rvcq' \in Seq({"gear", "frame"}) /\ Len(rvcq') <= RvcLen
         /\ Len(rvcq) \in Nat
         /\ DOMAIN rvcq = 1 .. Len(rvcq) /\ DOMAIN rvcq' = 1 .. Len(rvcq) + 1
         /\ rvcq'[Len(rvcq) + 1] = m
         /\ \A i \in 1 .. Len(rvcq) : rvcq'[i] = rvcq[i]
BY StaMMAssumption

LEMMA Received ==
  ASSUME rvcq \in Seq({"gear", "frame"}), Len(rvcq) <= RvcLen, rvcq # <<>>,
         rvcq' = Tail(rvcq)
  PROVE  /\ rvcq' \in Seq({"gear", "frame"}) /\ Len(rvcq') <= RvcLen
         /\ Len(rvcq) \in Nat /\ 1 \in DOMAIN rvcq /\ Head(rvcq) = rvcq[1]
         /\ DOMAIN rvcq = 1 .. Len(rvcq) /\ DOMAIN rvcq' = 1 .. Len(rvcq) - 1
         /\ \A i \in 1 .. Len(rvcq) - 1 : rvcq'[i] = rvcq[i + 1]
<1>1. Len(rvcq) \in Nat /\ Len(rvcq) # 0 /\ DOMAIN rvcq = 1 .. Len(rvcq)
      /\ Head(rvcq) = rvcq[1]
  OBVIOUS
<1>2. rvcq' \in Seq({"gear", "frame"}) /\ Len(rvcq') = Len(rvcq) - 1
  BY <1>1
<1>3. DOMAIN rvcq' = 1 .. Len(rvcq) - 1
  BY <1>2
<1>4. \A i \in 1 .. Len(rvcq) - 1 : rvcq'[i] = rvcq[i + 1]
  BY <1>1
<1>5. Len(rvcq') <= RvcLen
  BY <1>1, <1>2, StaMMAssumption
<1> QED BY <1>1, <1>2, <1>3, <1>4, <1>5

-------------------------------------------------------------------------------
\* What a step leaves alone keeps its type.
LEMMA Unchanged ==
  ASSUME TypeOK
  PROVE  /\ UNCHANGED mmv => TypeMM'
         /\ UNCHANGED animv => TypeAnim'
         /\ UNCHANGED camv => TypeCam'
         /\ UNCHANGED gearv => TypeGear'
         /\ UNCHANGED axv => TypeAx'
         /\ UNCHANGED fault => fault' \in BOOLEAN
<1> USE DEF TypeOK
<1>1. UNCHANGED mmv => TypeMM'
  BY DEF TypeMM, mmv
<1>2. UNCHANGED animv => TypeAnim'
  BY DEF TypeAnim, animv
<1>3. UNCHANGED camv => TypeCam'
  BY DEF TypeCam, camv
<1>4. UNCHANGED gearv => TypeGear'
  BY DEF TypeGear, gearv
<1>5. UNCHANGED axv => TypeAx'
  BY DEF TypeAx, axv
<1>6. UNCHANGED fault => fault' \in BOOLEAN
  OBVIOUS
<1> QED BY <1>1, <1>2, <1>3, <1>4, <1>5, <1>6

\* The steps of sta_mm_task keep the types.
LEMMA TypeManager ==
  ASSUME TypeOK, Manager
  PROVE  TypeOK'
<1> USE DEF TypeOK
<1>1. CASE Boot \/ Idle
  <2>1. fault' \in BOOLEAN
    BY <1>1, Unchanged, Zenon DEF Boot, Idle, StartAnim
  <2>2. TypeAnim'
    <3>1. CASE StartAnim
      BY <3>1 DEF StartAnim, TypeAnim
    <3> QED BY <1>1, <3>1, Unchanged DEF Boot, Idle
  <2>3. TypeMM'
    BY <1>1 DEF Boot, Idle, MM, TypeMM
  <2> QED BY <1>1, <2>1, <2>2, <2>3, Unchanged DEF Boot, Idle
<1>2. CASE StopRequest
  <2>1. fault' \in BOOLEAN
    BY <1>2, Zenon DEF StopRequest
  <2>2. TypeAnim'
    BY <1>2 DEF StopRequest, TypeAnim, TypeMM
  <2>3. TypeMM'
    BY <1>2 DEF StopRequest, MM, TypeMM
  <2> QED BY <1>2, <2>1, <2>2, <2>3, Unchanged DEF StopRequest
<1>3. CASE Decoded \/ DecodedTimeout \/ Ended
  <2>1. Then \in {"camOn", "free", "recv"} /\ AfterDecoded \in {"waitEnded", "camOn", "free", "recv"}
    BY DEF Then, AfterDecoded
  <2>2. TypeMM'
    BY <1>3, <2>1 DEF Decoded, DecodedTimeout, Ended, MM, TypeMM
  <2>3. TypeAnim'
    BY <1>3 DEF Decoded, DecodedTimeout, Ended, TypeAnim, animv
  <2> QED BY <1>3, <2>2, <2>3, Unchanged DEF Decoded, DecodedTimeout, Ended
<1>4. CASE Take
  <2>1. queue' \in Seq(Events) /\ Len(queue') <= QueueLen /\ Head(queue) \in Events
    BY <1>4, Taken, StaMMAssumption DEF Take, TypeMM
  <2>2. Reaction(Head(queue))
          \in {"recv", "stop", "camOn", "camOff", "idle", "takeover", "free"}
    BY DEF Reaction
  <2>3. TypeMM'
    BY <1>4, <2>1, <2>2 DEF Take, TypeMM
  <2> QED BY <1>4, <2>3, Unchanged DEF Take
<1>5. CASE Free
  <2>1. TypeMM'
    <3>1. freed' \in BOOLEAN
      BY <1>5, Zenon DEF Free
    <3> QED BY <1>5, <3>1 DEF Free, MM, TypeMM
  <2> QED BY <1>5, <2>1, Unchanged DEF Free
<1>6. ASSUME NEW from, NEW to \in {"recv", "waitStart", "waitStop", "giveUp", "stuck",
                                   "sendStarted", "sendFailed", "sendStopped"},
             Camera(from, to)
      PROVE  TypeMM' /\ TypeAnim' /\ TypeGear' /\ TypeAx' /\ fault' \in BOOLEAN
  <2>1. TypeMM'
    BY <1>6 DEF Camera, MM, TypeMM
  <2> QED BY <1>6, <2>1, Unchanged DEF Camera
<1>7. CASE CamOn
  <2>1. running' \in BOOLEAN
    BY <1>7, Zenon DEF CamOn, camv, TypeCam
  <2>2. TypeCam'
    BY <1>7, <2>1 DEF CamOn, camv, TypeCam
  <2> QED BY <1>6, <1>7, <2>2 DEF CamOn
<1>11. CASE StartDone
  <2>1. failed' \in BOOLEAN
    BY <1>11, Zenon DEF StartDone, TypeCam
  <2>2. TypeCam'
    BY <1>11, <2>1 DEF StartDone, TypeCam
  <2> QED BY <1>6, <1>11, <2>2 DEF StartDone
<1>8. CASE CamOff
  <2>1. TypeCam'
    BY <1>8 DEF CamOff, camv, TypeCam
  <2> QED BY <1>6, <1>8, <2>1 DEF CamOff
<1>12. CASE StopDone
  <2>1. TypeCam'
    BY <1>12 DEF StopDone, TypeCam
  <2> QED BY <1>6, <1>12, <2>1 DEF StopDone
<1>9. CASE Takeover
  <2>1. TypeCam'
    BY <1>9 DEF Takeover, TypeCam
  <2> QED BY <1>6, <1>9, <2>1 DEF Takeover
<1>13. CASE GiveUp
  <2>1. TypeCam'
    BY <1>13 DEF GiveUp, TypeCam
  <2> QED BY <1>6, <1>13, <2>1 DEF GiveUp
<1>10. CASE SendOwn
  <2>1. queue' \in Seq(Events) /\ Len(queue') <= QueueLen
    BY <1>10, Sent, StaMMAssumption DEF SendOwn, TypeMM, Events
  <2>2. TypeMM'
    BY <1>10, <2>1 DEF SendOwn, MM, TypeMM
  <2> QED BY <1>10, <2>2, Unchanged DEF SendOwn
<1> QED BY <1>1, <1>2, <1>3, <1>4, <1>5, <1>7, <1>8, <1>9, <1>10, <1>11, <1>12, <1>13, Zenon
        DEF Manager

\* The steps of the animation, of the camera's task, of rvc_task, of the pin and of Linux
\* keep the types.
LEMMA TypeOthers ==
  ASSUME TypeOK,
         Animation \/ CamTask \/ RvcTask \/ PinChanges \/ Frame \/ ServiceSend
           \/ \E s \in {"ANIM_STOP", "TAKEOVER"} : Service(s)
  PROVE  TypeOK'
<1> USE DEF TypeOK
<1>1. CASE Animation
  <2>1. TypeCam' /\ TypeGear' /\ TypeAx'
    BY <1>1, Unchanged DEF Animation, AnimWake, AnimLook, AnimStarted, AnimStopped, AnimGive,
                           AnimCheck, AnimEnd, Rest
  <2>2. fault' \in BOOLEAN
    BY <1>1, Unchanged, Zenon DEF Animation, AnimWake, AnimLook, AnimStarted, AnimStopped,
                                  AnimGive, AnimCheck, AnimEnd
  <2>3. queue' \in Seq(Events) /\ Len(queue') <= QueueLen
    <3>1. CASE Send("ANIM_STARTED") \/ Send("ANIM_STOPPED")
      BY <3>1, Sent, StaMMAssumption DEF TypeMM, Events
    <3> QED BY <1>1, <3>1 DEF Animation, AnimWake, AnimLook, AnimStarted, AnimStopped, AnimGive,
                              AnimCheck, AnimEnd, TypeMM
  <2>4. TypeMM'
    BY <1>1, <2>3 DEF Animation, AnimWake, AnimLook, AnimStarted, AnimStopped, AnimGive,
                      AnimCheck, AnimEnd, Rest, TypeMM
  <2>5. TypeAnim'
    <3>1. CASE AnimWake \/ AnimLook
      BY <3>1 DEF AnimWake, AnimLook, Anim, TypeAnim
    <3>2. CASE AnimStarted \/ AnimStopped \/ AnimGive
      BY <3>2 DEF AnimStarted, AnimStopped, AnimGive, Anim, TypeAnim
    <3>3. CASE AnimCheck \/ AnimEnd
      BY <3>3 DEF AnimCheck, AnimEnd, Anim, TypeAnim
    <3> QED BY <1>1, <3>1, <3>2, <3>3 DEF Animation
  <2> QED BY <2>1, <2>2, <2>4, <2>5
<1>2. CASE RvcTask \/ PinChanges \/ Frame
  <2>1. TypeAnim' /\ TypeCam' /\ TypeAx' /\ fault' \in BOOLEAN
    BY <1>2, Unchanged DEF RvcTask, FrameTake, GearTake, Debounce, GearSend, PinChanges, Frame,
                           Gear
  <2>2. queue' \in Seq(Events) /\ Len(queue') <= QueueLen
    <3>1. CASE GearSend
      BY <3>1, Sent, StaMMAssumption DEF GearSend, TypeMM, Events
    <3> QED BY <1>2, <3>1 DEF RvcTask, FrameTake, GearTake, Debounce, PinChanges, Frame, TypeMM
  <2>3. TypeMM'
    BY <1>2, <2>2 DEF RvcTask, FrameTake, GearTake, Debounce, GearSend, PinChanges, Frame, Gear,
                      TypeMM
  <2>4. TypeGear'
    <3>1. CASE FrameTake \/ GearTake
      <4>1. rvcq' \in Seq({"gear", "frame"}) /\ Len(rvcq') <= RvcLen
        BY <3>1, Received DEF FrameTake, GearTake, TypeGear
      <4> QED BY <3>1, <4>1 DEF FrameTake, GearTake, TypeGear
    <3>3. CASE Debounce \/ GearSend
      BY <3>3 DEF Debounce, GearSend, TypeGear
    <3>2. CASE PinChanges
      <4>1. pin' \in BOOLEAN /\ dropped' \in BOOLEAN
        BY <3>2, Zenon DEF PinChanges, RearGearHdl
      <4>2. rvcq' \in Seq({"gear", "frame"}) /\ Len(rvcq') <= RvcLen /\ queued' = TRUE
        BY <3>2, Posted DEF PinChanges, RearGearHdl, TypeGear
      <4> QED BY <3>2, <4>1, <4>2 DEF PinChanges, TypeGear
    <3>4. CASE Frame
      <4>1. rvcq' \in Seq({"gear", "frame"}) /\ Len(rvcq') <= RvcLen
        <5>1. ~(Len(rvcq) >= RvcLen)
          BY <3>4, StaMMAssumption DEF Frame, TypeGear
        <5> QED BY <3>4, <5>1, Posted DEF Frame, TypeGear
      <4> QED BY <3>4, <4>1 DEF Frame, TypeGear
    <3> QED BY <1>2, <3>1, <3>2, <3>3, <3>4 DEF RvcTask
  <2> QED BY <2>1, <2>3, <2>4
<1>5. CASE CamTask
  <2>1. TypeMM' /\ TypeAnim' /\ TypeGear' /\ TypeAx' /\ fault' \in BOOLEAN
    BY <1>5, Unchanged DEF CamTask, CamBegin, CamAck, CamRuns, CamDead, CamStops, CamGoes
  <2>2. TypeCam'
    BY <1>5 DEF CamTask, CamBegin, CamAck, CamRuns, CamDead, CamStops, CamGoes, TypeCam
  <2> QED BY <2>1, <2>2
<1>3. CASE \E s \in {"ANIM_STOP", "TAKEOVER"} : Service(s)
  <2>1. linux' \in BOOLEAN
    BY <1>3, Zenon DEF Service
  <2>2. TypeMM'
    BY <1>3, <2>1 DEF Service, TypeMM
  <2>3. TypeAx'
    BY <1>3 DEF Service, TypeAx, Events
  <2> QED BY <1>3, <2>2, <2>3, Unchanged DEF Service
<1>4. CASE ServiceSend
  <2>1. ax \in Events
    BY <1>4 DEF ServiceSend, TypeAx, Events
  <2>2. queue' \in Seq(Events) /\ Len(queue') <= QueueLen
    BY <1>4, <2>1, Sent, StaMMAssumption DEF ServiceSend, TypeMM
  <2>3. TypeMM'
    BY <1>4, <2>2 DEF ServiceSend, TypeMM
  <2>4. TypeAx'
    BY <1>4 DEF ServiceSend, TypeAx
  <2> QED BY <1>4, <2>3, <2>4, Unchanged DEF ServiceSend
<1> QED BY <1>1, <1>2, <1>3, <1>4, <1>5

-------------------------------------------------------------------------------
\* What an edge, the frames and the taking of a message do to the messages for edges.
LEMMA GearQueue ==
  ASSUME TypeOK, GearInv, PinChanges \/ Frame \/ FrameTake \/ GearTake
  PROVE  /\ \A i \in DOMAIN rvcq' : rvcq'[i] = "gear" => queued'
         /\ \A i, j \in DOMAIN rvcq' : rvcq'[i] = "gear" /\ rvcq'[j] = "gear" => i = j
         /\ queued' /\ NoGear' => dropped'
<1> USE DEF TypeOK, TypeGear, GearInv, NoGear
<1>1. CASE PinChanges
  <2>1. CASE queued \/ Len(rvcq) >= RvcLen
    BY <1>1, <2>1 DEF PinChanges, RearGearHdl
  <2>2. CASE ~queued /\ ~(Len(rvcq) >= RvcLen)
    BY <1>1, <2>2, Posted DEF PinChanges, RearGearHdl
  <2> QED BY <2>1, <2>2
<1>2. CASE Frame
  <2>1. ~(Len(rvcq) >= RvcLen)
    BY <1>2, StaMMAssumption DEF Frame
  <2> QED BY <1>2, <2>1, Posted DEF Frame
<1>3. CASE FrameTake \/ GearTake
  <2>1. /\ 1 \in DOMAIN rvcq /\ Head(rvcq) = rvcq[1]
        /\ \A i \in DOMAIN rvcq' : i \in Nat /\ i + 1 \in DOMAIN rvcq /\ rvcq'[i] = rvcq[i + 1]
        /\ \A i \in DOMAIN rvcq : i # 1 => i - 1 \in DOMAIN rvcq' /\ rvcq'[i - 1] = rvcq[i]
    <3>1. Len(rvcq) \in Nat
      BY <1>3, Received DEF FrameTake, GearTake
    <3>2. ASSUME NEW i \in DOMAIN rvcq, i # 1
          PROVE  i - 1 \in DOMAIN rvcq' /\ rvcq'[i - 1] = rvcq[i]
      <4>1. i - 1 \in 1 .. Len(rvcq) - 1 /\ (i - 1) + 1 = i
        BY <1>3, <3>1, <3>2, Received DEF FrameTake, GearTake
      <4>2. rvcq'[i - 1] = rvcq[(i - 1) + 1]
        BY <1>3, <4>1, Received DEF FrameTake, GearTake
      <4> QED BY <1>3, <4>1, <4>2, Received DEF FrameTake, GearTake
    <3> QED BY <1>3, <3>1, <3>2, Received DEF FrameTake, GearTake
  <2>2. CASE FrameTake
    BY <2>1, <2>2 DEF FrameTake
  <2>3. CASE GearTake
    BY <2>1, <2>3 DEF GearTake
  <2> QED BY <1>3, <2>2, <2>3
<1> QED BY <1>1, <1>2, <1>3

LEMMA GearStep ==
  ASSUME TypeOK, GearInv, [Next]_vars
  PROVE  GearInv'
<1>1. CASE UNCHANGED gearv
  BY <1>1 DEF gearv, GearInv, NoGear
<1>2. CASE PinChanges
  BY <1>2, GearQueue DEF PinChanges, RearGearHdl, GearInv
<1>3. CASE GearTake
  BY <1>3, GearQueue DEF GearTake, GearInv
<1>4. CASE Frame
  BY <1>4, GearQueue DEF Frame, GearInv
<1>5. CASE FrameTake
  BY <1>5, GearQueue DEF FrameTake, GearInv
<1>6. CASE Debounce \/ GearSend
  <2>1. UNCHANGED <<queued, rvcq, dropped, pin>>
    BY <1>6 DEF Debounce, GearSend
  <2>2. /\ rvc' = "idle" /\ ~queued' => seen' = pin'
        /\ rvc' # "debounce"
        /\ rvc' = "send" /\ ~queued' => seen' = pin'
    BY <1>6 DEF Debounce, GearSend, GearInv, TypeOK, TypeGear
  <2> QED BY <2>1, <2>2 DEF GearInv, NoGear
<1>7. UNCHANGED gearv \/ PinChanges \/ Frame \/ RvcTask
  <2>1. Manager => UNCHANGED gearv
    BY Zenon DEF Manager, Boot, StopRequest, Decoded, DecodedTimeout, Ended, Take, Idle, Free,
                 CamOn, StartDone, CamOff, StopDone, Takeover, GiveUp, SendOwn, Camera
  <2>2. Animation => UNCHANGED gearv
    BY DEF Animation, AnimWake, AnimLook, AnimStarted, AnimStopped, AnimGive, AnimCheck,
           AnimEnd, Rest
  <2>3. ServiceSend \/ (\E s \in {"ANIM_STOP", "TAKEOVER"} : Service(s)) => UNCHANGED gearv
    BY DEF ServiceSend, Service
  <2>4. CamTask => UNCHANGED gearv
    BY DEF CamTask, CamBegin, CamAck, CamRuns, CamDead, CamStops, CamGoes
  <2> QED BY <2>1, <2>2, <2>3, <2>4 DEF Next, vars
<1> QED BY <1>1, <1>2, <1>3, <1>4, <1>5, <1>6, <1>7 DEF RvcTask

\* No other step than Take removes an event.
LEMMA Grows ==
  ASSUME TypeOK, queue' = queue \/ \E e \in Events : Send(e)
  PROVE  \A i \in DOMAIN queue : i \in DOMAIN queue' /\ queue'[i] = queue[i]
BY Sent DEF TypeOK, TypeMM

LEMMA NextGrows ==
  ASSUME TypeOK, [Next]_vars, ~Take
  PROVE  queue' = queue \/ \E e \in Events : Send(e)
<1>1. Manager => queue' = queue \/ \E e \in Events : Send(e)
  BY DEF Manager, Boot, StopRequest, Decoded, DecodedTimeout, Ended, Idle, Free,
         CamOn, StartDone, CamOff, StopDone, Takeover, GiveUp, SendOwn, Camera, Events
<1>2. Animation => queue' = queue \/ \E e \in Events : Send(e)
  BY DEF Animation, AnimWake, AnimLook, AnimStarted, AnimStopped, AnimGive, AnimCheck,
         AnimEnd, Events
<1>3. RvcTask \/ PinChanges \/ Frame => queue' = queue \/ \E e \in Events : Send(e)
  BY DEF RvcTask, FrameTake, GearTake, Debounce, GearSend, PinChanges, Frame, Events
<1>4. ServiceSend => queue' = queue \/ \E e \in Events : Send(e)
  BY DEF ServiceSend, TypeOK, TypeAx, Events
<1>5. (\E s \in {"ANIM_STOP", "TAKEOVER"} : Service(s)) => queue' = queue
  BY DEF Service
<1>6. CamTask => queue' = queue
  BY DEF CamTask, CamBegin, CamAck, CamRuns, CamDead, CamStops, CamGoes, mmv
<1> QED BY <1>1, <1>2, <1>3, <1>4, <1>5, <1>6 DEF Next, vars, mmv

\* A request that Linux has made goes from its call to the queue, from there to
\* rvc_ax_takeover, and that one leaves a mark.
LEMMA AskStep ==
  ASSUME TypeOK, AskInv, [Next]_vars
  PROVE  AskInv'
<1>1. CASE Take
  <2>1. ASSUME NEW i \in DOMAIN queue, queue[i] = "TAKEOVER", i # 1
        PROVE  i - 1 \in DOMAIN queue' /\ queue'[i - 1] = "TAKEOVER"
    <3>1. i - 1 \in DOMAIN queue' /\ queue'[i - 1] = queue[(i - 1) + 1] /\ (i - 1) + 1 = i
      BY <1>1, <2>1, Taken DEF Take, TypeOK, TypeMM
    <3> QED BY <2>1, <3>1
  <2>2. queue[1] = "TAKEOVER" => mm' = "takeover"
    BY <1>1, Taken DEF Take, Reaction, TypeOK, TypeMM
  <2> QED BY <1>1, <2>1, <2>2 DEF Take, AskInv, axv, camv
<1>2. CASE \E s \in {"ANIM_STOP", "TAKEOVER"} : Service(s)
  BY <1>2 DEF Service, AskInv, camv, None
<1>3. CASE ServiceSend
  <2>1. /\ \A i \in DOMAIN queue : i \in DOMAIN queue' /\ queue'[i] = queue[i]
        /\ \E i \in DOMAIN queue' : queue'[i] = ax
    BY <1>3, Sent DEF ServiceSend, TypeOK, TypeMM, TypeAx, Events
  <2> QED BY <1>3, <2>1 DEF ServiceSend, AskInv, camv
<1>4. CASE Takeover
  BY <1>4 DEF Takeover, AskInv, Camera, MM, axv, TypeOK, TypeCam
<1>10. CASE GiveUp
  <2>1. takeover' # "Mx"
    BY <1>10 DEF GiveUp
  <2> QED BY <2>1 DEF AskInv
<1>5. ASSUME UNCHANGED axv, takeover # "Mx" => takeover' # "Mx",
             mm \in {"takeover", "giveUp"} => mm' \in {"takeover", "giveUp"},
             queue' = queue \/ \E e \in Events : Send(e)
      PROVE  AskInv'
  BY <1>5, Grows DEF AskInv, axv
<1>6. ASSUME ~Take, ~Takeover, ~GiveUp, Manager
      PROVE  UNCHANGED axv /\ (takeover # "Mx" => takeover' # "Mx")
             /\ mm \notin {"takeover", "giveUp"}
  <2>1. UNCHANGED axv
    BY <1>6 DEF Manager, Boot, StopRequest, Decoded, DecodedTimeout, Ended, Idle, Free,
                CamOn, StartDone, CamOff, StopDone, SendOwn, Camera
  <2>2. takeover # "Mx" => takeover' # "Mx"
    BY <1>6 DEF Manager, Boot, StopRequest, Decoded, DecodedTimeout, Ended, Idle, Free,
                CamOn, StartDone, CamOff, StopDone, SendOwn, camv
  <2>3. mm \notin {"takeover", "giveUp"}
    BY <1>6 DEF Manager, Boot, StopRequest, Decoded, DecodedTimeout, Ended, Idle, Free,
                CamOn, StartDone, CamOff, StopDone, SendOwn, Camera, MM
  <2> QED BY <2>1, <2>2, <2>3
<1>7. ASSUME Animation \/ CamTask \/ RvcTask \/ PinChanges \/ Frame \/ UNCHANGED vars
      PROVE  UNCHANGED <<axv, takeover, mm>>
  BY <1>7 DEF Animation, AnimWake, AnimLook, AnimStarted, AnimStopped, AnimGive, AnimCheck,
              AnimEnd, Rest, CamTask, CamBegin, CamAck, CamRuns, CamDead, CamStops, CamGoes,
              RvcTask, FrameTake, GearTake, Debounce, GearSend, PinChanges, Frame, Gear, vars,
              mmv, camv
<1>8. CASE Manager /\ ~Take /\ ~Takeover /\ ~GiveUp
  BY <1>5, <1>6, <1>8, NextGrows
<1>9. CASE (Animation \/ CamTask \/ RvcTask \/ PinChanges \/ Frame \/ UNCHANGED vars) /\ ~Take
  BY <1>5, <1>7, <1>9, NextGrows
<1> QED BY <1>1, <1>2, <1>3, <1>4, <1>8, <1>9, <1>10 DEF Next

\* The camera's task changes neither what the manager keeps about the camera nor where the
\* manager is.
LEMMA CamTaskFrame ==
  ASSUME CamTask
  PROVE  UNCHANGED <<queue, state, mm, ev, running, takeover, failed>> /\ cam # "off"
BY DEF CamTask, CamBegin, CamAck, CamRuns, CamDead, CamStops, CamGoes, mmv

LEMMA SafeStep ==
  ASSUME TypeOK, SafeInv, [Next]_vars
  PROVE  SafeInv'
<1> USE DEF SafeInv, TakeoverSafe
<1>1. CASE CamOn
  BY <1>1 DEF CamOn, Camera, MM, camv
<1>2. CASE StartDone
  BY <1>2 DEF StartDone, Camera, MM, camv
<1>3. CASE CamOff
  BY <1>3 DEF CamOff, Camera, MM, camv
<1>4. CASE StopDone
  BY <1>4 DEF StopDone, Camera, MM, camv
<1>5. CASE Takeover
  BY <1>5 DEF Takeover, Camera, MM
<1>6. CASE GiveUp
  BY <1>6 DEF GiveUp, Camera, MM
<1>7. CASE Take
  <2>1. mm' = "camOff" => ev' # "TAKEOVER"
    BY <1>7 DEF Take, Reaction
  <2>2. mm' \notin {"waitStart", "waitStop", "giveUp"} /\ mm = "recv" /\ UNCHANGED camv
    BY <1>7 DEF Take, Reaction
  <2> QED BY <2>1, <2>2 DEF camv
<1>8. CASE Boot \/ StopRequest \/ Decoded \/ DecodedTimeout \/ Ended \/ Idle \/ Free \/ SendOwn
  <2>1. Then \in {"camOn", "free", "recv"} /\ AfterDecoded \in {"waitEnded", "camOn", "free", "recv"}
    BY DEF Then, AfterDecoded
  <2>2. /\ UNCHANGED camv /\ mm # "stuck"
        /\ mm' \notin {"waitStart", "waitStop", "giveUp", "camOff"}
    BY <1>8, <2>1 DEF Boot, StopRequest, Decoded, DecodedTimeout, Ended, Idle, Free, SendOwn, MM
  <2> QED BY <2>2 DEF camv
<1>9. CASE CamTask
  <2>1. UNCHANGED <<mm, ev, running, takeover>> /\ cam # "off"
    BY <1>9, CamTaskFrame
  <2> QED BY <2>1
<1>10. ASSUME UNCHANGED <<camv, mm, ev>> PROVE SafeInv'
  BY <1>10 DEF camv
<1>11. Animation \/ RvcTask \/ PinChanges \/ Frame \/ UNCHANGED vars => UNCHANGED <<camv, mm, ev>>
  BY DEF Animation, AnimWake, AnimLook, AnimStarted, AnimStopped, AnimGive, AnimCheck,
         AnimEnd, Rest, RvcTask, FrameTake, GearTake, Debounce, GearSend, PinChanges, Frame,
         Gear, vars, mmv
<1>12. ServiceSend \/ (\E s \in {"ANIM_STOP", "TAKEOVER"} : Service(s)) => UNCHANGED <<camv, mm, ev>>
  BY DEF ServiceSend, Service
<1> QED BY <1>1, <1>2, <1>3, <1>4, <1>5, <1>6, <1>7, <1>8, <1>9, <1>10, <1>11, <1>12
        DEF Next, Manager

\* A step that changes neither the camera nor the state, and sends none of the
\* manager's own events.
LEMMA CameraFrame ==
  ASSUME TypeOK, CameraInv, UNCHANGED <<state, running, takeover, failed>>,
         UNCHANGED <<mm, ev>>
           \/ {mm, mm'} \cap {"sendStarted", "sendFailed", "sendStopped", "giveUp", "idle"} = {},
         queue' = queue \/ \E e \in Events \ Own : Send(e)
  PROVE  CameraInv'
<1>1. (Owes' <=> Owes) /\ (mm' = "idle" <=> mm = "idle")
      /\ (mm' = "sendStarted" => mm = "sendStarted")
      /\ (mm' \in {"sendFailed", "sendStopped"} => mm \in {"sendFailed", "sendStopped"})
  BY DEF Owes
<1>2. CASE queue' = queue
  BY <1>1, <1>2 DEF CameraInv, LastOwn, NoOwn
<1>3. CASE \E e \in Events \ Own : Send(e)
  <2>1. /\ \A i \in DOMAIN queue' : LastOwn(i)' => LastOwn(i) /\ queue'[i] = queue[i]
        /\ NoOwn' => NoOwn
    BY <1>3, SentOther DEF TypeOK, TypeMM
  <2>2. \A i : LastOwn(i) => i \in DOMAIN queue
    BY DEF LastOwn
  <2> QED BY <1>1, <2>1, <2>2 DEF CameraInv
<1> QED BY <1>2, <1>3

\* A step after which the manager owes an event.
LEMMA CameraOwes ==
  ASSUME Owes', takeover' # "Ax" /\ mm' = "sendStarted" => running',
         takeover' # "Ax" /\ mm' \in {"sendFailed", "sendStopped"} => ~running' \/ failed'
  PROVE  CameraInv'
BY Zenon DEF CameraInv

\* sta_mm_task treats an event.
LEMMA CameraTake ==
  ASSUME TypeOK, CameraInv, Take
  PROVE  CameraInv'
<1> DEFINE e == Head(queue)
<1>1. /\ \A i \in DOMAIN queue' : LastOwn(i)' =>
            i + 1 \in DOMAIN queue /\ LastOwn(i + 1) /\ queue'[i] = queue[i + 1]
      /\ NoOwn' /\ e \in Own => LastOwn(1) /\ queue[1] = e
      /\ NoOwn' /\ e \notin Own => NoOwn
      /\ 1 \in DOMAIN queue /\ e \in Events
  BY TakenOwn, Taken DEF Take, TypeOK, TypeMM
<1>2. /\ mm = "recv" /\ UNCHANGED <<running, takeover, failed>> /\ ~Owes
      /\ mm' = Reaction(e)
      /\ state' = IF e = "STARTED" THEN "RVC"
                  ELSE IF e = "ANIM_STARTED" /\ state # "RVC" THEN "ANIM" ELSE state
  BY DEF Take, camv, Owes
<1>3. /\ mm' \in {"recv", "stop", "camOn", "camOff", "idle", "takeover", "free"}
      /\ e = "STARTED" => mm' # "idle"
      /\ e = "STOPPED" => (mm' = "idle" <=> state = "RVC")
      /\ e \notin Own => mm' # "idle"
  BY <1>2 DEF Reaction, Own
<1>4. ASSUME takeover # "Ax", NEW i \in DOMAIN queue', LastOwn(i)'
      PROVE  IF queue'[i] = "STARTED" THEN running' ELSE ~running' \/ failed'
  <2>1. i + 1 \in DOMAIN queue /\ LastOwn(i + 1) /\ queue'[i] = queue[i + 1]
    BY <1>1, <1>4
  <2>2. IF queue[i + 1] = "STARTED" THEN running ELSE ~running \/ failed
    BY <1>2, <1>4, <2>1 DEF CameraInv
  <2> QED BY <1>2, <2>1, <2>2
<1>5. ASSUME takeover # "Ax", NoOwn'
      PROVE  /\ state' = "RVC" /\ mm' # "idle" => running'
             /\ running' => failed' \/ (state' = "RVC" /\ mm' # "idle")
  <2>1. CASE e = "STARTED"
    <3>1. running
      BY <1>1, <1>2, <1>5, <2>1 DEF CameraInv, Own
    <3> QED BY <1>2, <1>3, <2>1, <3>1
  <2>2. CASE e = "STOPPED"
    <3>1. ~running \/ failed
      BY <1>1, <1>2, <1>5, <2>2 DEF CameraInv, Own
    <3>2. state' = state
      BY <1>2, <2>2
    <3> QED BY <1>2, <1>3, <2>2, <3>1, <3>2
  <2>3. CASE e \notin Own
    <3>1. (state = "RVC" => running) /\ (running => failed \/ state = "RVC")
      BY <1>1, <1>2, <1>5, <2>3 DEF CameraInv
    <3>2. state' = "RVC" <=> state = "RVC"
      BY <1>2, <2>3 DEF Own
    <3> QED BY <1>2, <1>3, <2>3, <3>1, <3>2
  <2> QED BY <2>1, <2>2, <2>3 DEF Own
<1> QED BY <1>2, <1>3, <1>4, <1>5 DEF CameraInv

\* The steps that start, stop and give up the camera.
LEMMA CameraMoves ==
  ASSUME TypeOK, SafeInv, CameraInv,
         CamOn \/ StartDone \/ CamOff \/ StopDone \/ Takeover \/ GiveUp
  PROVE  CameraInv'
<1>1. CASE CamOn
  <2>1. CASE mm' = "sendStarted"
    BY <1>1, <2>1, CameraOwes DEF CamOn, Camera, MM, Owes
  <2>2. CASE mm' = "waitStart"
    <3>1. mm = "camOn" /\ UNCHANGED <<queue, state, running, takeover, failed>>
      BY <1>1, <2>2 DEF CamOn, Camera, MM
    <3> QED BY <2>2, <3>1, CameraFrame
  <2> QED BY <1>1, <2>1, <2>2 DEF CamOn, Camera, MM
<1>2. CASE StartDone
  <2>1. /\ mm' \in {"sendStarted", "sendFailed"}
        /\ mm' = "sendStarted" => running' = TRUE
    BY <1>2 DEF StartDone, Camera, MM
  <2>2. mm' = "sendFailed" => ~running' \/ failed'
    BY <1>2, Zenon DEF StartDone, Camera, MM
  <2> QED BY <2>1, <2>2, CameraOwes DEF Owes
<1>3. CASE CamOff
  <2>1. CASE takeover = "Ax"
    BY <1>3, <2>1 DEF CamOff, camv, CameraInv
  <2>2. CASE takeover # "Ax"
    <3>1. mm = "camOff" /\ mm' = "waitStop" /\ UNCHANGED <<queue, state, running, takeover, failed>>
      BY <1>3, <2>2 DEF CamOff, Camera, MM
    <3> QED BY <3>1, CameraFrame
  <2> QED BY <2>1, <2>2
<1>4. CASE StopDone
  <2>1. /\ mm = "waitStop" /\ ev # "TAKEOVER" /\ mm' \in {"giveUp", "sendStopped"}
        /\ ev' = ev /\ running' = FALSE
    BY <1>4 DEF StopDone, Camera, MM, SafeInv
  <2> QED BY <2>1, CameraOwes DEF Owes
<1>5. CASE Takeover
  <2>1. mm = "takeover" /\ ev' = (IF mm' = "recv" THEN None ELSE ev)
        /\ mm' \in {"giveUp", "recv"} /\ UNCHANGED <<queue, state, running, failed>>
        /\ (takeover' # "Ax" => takeover # "Ax")
    BY <1>5 DEF Takeover, Camera, MM, TypeOK, TypeCam
  <2>2. CASE Owes'
    BY <2>1, <2>2, CameraOwes
  <2>3. CASE ~Owes'
    <3>1. ~Owes /\ mm # "idle" /\ mm' # "idle"
      BY <2>1 DEF Owes
    <3> QED BY <2>1, <2>3, <3>1 DEF CameraInv, LastOwn, NoOwn
  <2> QED BY <2>2, <2>3
<1>6. CASE GiveUp
  <2>1. CASE takeover' = "Ax"
    BY <2>1 DEF CameraInv
  <2>2. CASE takeover' # "Ax"
    <3>1. /\ mm = "giveUp" /\ mm' = (IF ev = "TAKEOVER" THEN "recv" ELSE "sendStopped")
          /\ UNCHANGED <<queue, state, running, failed>> /\ ~running /\ takeover # "Ax"
      BY <1>6, <2>2 DEF GiveUp, Camera, MM, SafeInv
    <3>2. CASE ev = "TAKEOVER"
      <4>1. ~Owes /\ mm # "idle" /\ mm' = "recv"
        BY <3>1, <3>2 DEF Owes
      <4> QED BY <3>1, <4>1 DEF CameraInv, LastOwn, NoOwn
    <3>3. CASE ev # "TAKEOVER"
      BY <3>1, <3>3, CameraOwes DEF Owes
    <3> QED BY <3>2, <3>3
  <2> QED BY <2>1, <2>2
<1> QED BY <1>1, <1>2, <1>3, <1>4, <1>5, <1>6

LEMMA CameraStep ==
  ASSUME TypeOK, SafeInv, CameraInv, [Next]_vars
  PROVE  CameraInv'
<1>1. CASE Take
  BY <1>1, CameraTake
<1>2. CASE CamOn \/ StartDone \/ CamOff \/ StopDone \/ Takeover \/ GiveUp
  BY <1>2, CameraMoves
<1>5. CASE SendOwn
  <2>1. ~Owes' /\ UNCHANGED camv
    BY <1>5 DEF SendOwn, MM, Owes
  <2>2. CASE MM("sendStarted", "recv") /\ Send("STARTED") /\ state' = "RVC"
    BY <2>1, <2>2, SentOwn DEF MM, CameraInv, Own, camv, LastOwn, TypeOK, TypeMM
  <2>3. CASE MM("sendFailed", "recv") /\ Send("STOPPED") /\ state' = "RVC"
    BY <2>1, <2>3, SentOwn DEF MM, CameraInv, Own, camv, LastOwn, TypeOK, TypeMM
  <2>4. CASE MM("sendStopped", "idle") /\ Send("STOPPED") /\ UNCHANGED state
    BY <2>1, <2>4, SentOwn DEF MM, CameraInv, Own, camv, LastOwn, TypeOK, TypeMM
  <2> QED BY <1>5, <2>2, <2>3, <2>4 DEF SendOwn
<1>6. CASE Idle
  <2>1. /\ mm = "idle" /\ mm' = "recv" /\ state' = "IDLE"
        /\ UNCHANGED <<queue, running, takeover, failed>>
    BY <1>6 DEF Idle, MM, camv
  <2> QED BY <2>1 DEF CameraInv, LastOwn, NoOwn, Owes
<1>7. CASE Free
  <2>1. /\ mm = "free" /\ mm' = "recv" /\ (state' = "RVC" <=> state = "RVC")
        /\ UNCHANGED <<queue, running, takeover, failed>>
    BY <1>7 DEF Free, MM, camv
  <2> QED BY <2>1 DEF CameraInv, LastOwn, NoOwn, Owes
<1>8. CASE Boot \/ StopRequest \/ Decoded \/ DecodedTimeout \/ Ended
  <2>1. Then \in {"camOn", "free", "recv"} /\ AfterDecoded \in {"waitEnded", "camOn", "free", "recv"}
    BY DEF Then, AfterDecoded
  <2>2. /\ UNCHANGED <<state, running, takeover, failed, queue>>
        /\ {mm, mm'} \cap {"sendStarted", "sendFailed", "sendStopped", "giveUp", "idle"} = {}
    BY <1>8, <2>1 DEF Boot, StopRequest, Decoded, DecodedTimeout, Ended, MM, camv
  <2> QED BY <2>2, CameraFrame
<1>9. CASE Animation
  <2>1. /\ UNCHANGED <<state, running, takeover, failed, mm, ev>>
        /\ queue' = queue \/ \E e \in Events \ Own : Send(e)
    BY <1>9 DEF Animation, AnimWake, AnimLook, AnimStarted, AnimStopped, AnimGive, AnimCheck,
                AnimEnd, Rest, camv, Own, Events
  <2> QED BY <2>1, CameraFrame
<1>10. CASE RvcTask \/ PinChanges \/ Frame
  <2>1. /\ UNCHANGED <<state, running, takeover, failed, mm, ev>>
        /\ queue' = queue \/ \E e \in Events \ Own : Send(e)
    BY <1>10 DEF RvcTask, FrameTake, GearTake, Debounce, GearSend, PinChanges, Frame, Gear, camv,
                 Own, Events
  <2> QED BY <2>1, CameraFrame
<1>11. CASE ServiceSend
  <2>1. ax \in Events \ Own
    BY <1>11 DEF ServiceSend, TypeOK, TypeAx, Events, Own
  <2> QED BY <1>11, <2>1, CameraFrame DEF ServiceSend, camv
<1>12. CASE \E s \in {"ANIM_STOP", "TAKEOVER"} : Service(s)
  BY <1>12, CameraFrame DEF Service, camv
<1>13. CASE UNCHANGED vars
  BY <1>13, CameraFrame DEF vars, mmv, camv
<1>14. CASE CamTask
  BY <1>14, CamTaskFrame, CameraFrame
<1> QED BY <1>1, <1>2, <1>5, <1>6, <1>7, <1>8, <1>9, <1>10, <1>11, <1>12, <1>13, <1>14
        DEF Next, Manager

-------------------------------------------------------------------------------
LEMMA Invariance == Spec => []IInv
<1>1. Init => IInv
  <2> SUFFICES ASSUME Init PROVE IInv
    OBVIOUS
  <2>1. TypeMM
    <3>1. linux \in BOOLEAN /\ freed \in BOOLEAN
      BY Zenon DEF Init
    <3>2. queue = <<>> /\ state = "IDLE" /\ mm = "boot" /\ ev = None
      BY Zenon DEF Init
    <3> QED BY <3>1, <3>2, StaMMAssumption DEF TypeMM
  <2>2. TypeAnim
    BY DEF Init, TypeAnim
  <2>3. TypeCam /\ TypeGear /\ fault \in BOOLEAN
    <3>1. /\ running \in BOOLEAN /\ failed \in BOOLEAN /\ fault \in BOOLEAN
          /\ first \in BOOLEAN /\ seen \in BOOLEAN /\ queued \in BOOLEAN /\ pin \in BOOLEAN
          /\ dropped \in BOOLEAN
      BY Zenon DEF Init
    <3>2. takeover = "Mx" /\ rvc = "idle" /\ rvcq = <<>> /\ cam = "init" /\ given = {}
      BY Zenon DEF Init
    <3> QED BY <3>1, <3>2, StaMMAssumption DEF TypeCam, TypeGear
  <2>4. TypeAx
    BY DEF Init, TypeAx
  <2>5. GearInv
    <3>1. ~queued /\ seen = pin /\ rvc = "idle" /\ rvcq = <<>>
      BY Zenon DEF Init
    <3> QED BY <3>1 DEF GearInv
  <2>6. AskInv /\ SafeInv
    BY DEF Init, AskInv, SafeInv, TakeoverSafe
  <2>7. CameraInv
    BY DEF Init, CameraInv, LastOwn, NoOwn, Owes
  <2> QED BY <2>1, <2>2, <2>3, <2>4, <2>5, <2>6, <2>7 DEF IInv, TypeOK
<1>2. IInv /\ [Next]_vars => IInv'
  <2> SUFFICES ASSUME IInv, [Next]_vars PROVE IInv'
    OBVIOUS
  <2>1. TypeOK'
    BY TypeManager, TypeOthers, Unchanged DEF IInv, Next, vars, TypeOK
  <2> QED BY <2>1, GearStep, AskStep, SafeStep, CameraStep DEF IInv
<1> QED BY <1>1, <1>2, PTL DEF Spec

\* Linux's request to take the camera over is not lost between its call, the queue and
\* rvc_ax_takeover, and M3 does not run a camera it has given up; with the types.
THEOREM TakeoverKept == Spec => []TakeoverInv
<1>1. IInv => TakeoverInv
  BY DEF IInv, SafeInv, TakeoverInv, RestTakeover, AtRest, AskInv, None
<1> QED BY <1>1, Invariance, PTL

\* Whatever the pin does, however often, and however many frames share rvc_queue, rvc_task
\* has debounced the pin's last position when all is at rest, unless the queue has refused
\* an edge: the flag that keeps the interrupt from posting twice loses none by itself.
THEOREM GearKnown == Spec => []RestGear
<1>1. IInv => RestGear
  BY DEF IInv, GearInv, RestGear, AtRest
<1> QED BY <1>1, Invariance, PTL

\* At rest the state machine agrees with context.running, however many of the gear's events
\* and of the manager's own were mixed in its queue, as long as M3 has the camera, but for
\* a start that failed while running was set.
THEOREM CameraAgrees == Spec => []RestCamera
<1>1. IInv => RestCamera
  BY DEF IInv, CameraInv, Owes, RestCamera, AtRest, NoOwn
<1> QED BY <1>1, Invariance, PTL
================================================================================
