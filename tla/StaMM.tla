---------------------------------- MODULE StaMM ----------------------------------
(***************************************************************************)
(* The multimedia manager: one queue of events and the state machine of    *)
(* sta_mm_task, which starts and stops the splash animation (a task that   *)
(* decodes until it is told to end) and the rear view camera (a task it    *)
(* starts and stops through semaphores); rvc_task, which turns changes of  *)
(* the rear gear's pin into events and whose queue also takes the camera's *)
(* frames; and the services Linux calls in rpmsg_mm_task.  The events of   *)
(* the manager's own calls go to the end of the queue it reads.  Linux,    *)
(* the pin and the hardware are external.  MM_EVT_ANIM_START is sent by    *)
(* nobody.                                                                 *)
(***************************************************************************)
EXTENDS Naturals, Sequences, FiniteSets

CONSTANTS
  QueueLen,   \* length of mm_queue (20 in the code)
  RvcLen,     \* length of rvc_queue (20 in the code)
  MaxInputs,  \* bound: changes of the rear gear's pin and calls of Linux together
  MayFail,    \* the camera may fail to start, or take longer than it is waited for
  Slow        \* the animation may take longer to end than the second it is waited for

ASSUME StaMMAssumption == /\ QueueLen \in Nat \ {0} /\ RvcLen \in Nat \ {0}
                          /\ MaxInputs \in Nat
                          /\ MayFail \in BOOLEAN /\ Slow \in BOOLEAN

VARIABLES
  queue, state, linux,            \* sta_mm: mm_queue, state, linux_ready
  freed,                          \* anim_shadow_addr has been freed
  mm, ev,                         \* sta_mm_task: control point, event it treats
  anim,                           \* splash_animation_task: control point
  endAnim, endTask,               \* end_of_animation, end_of_anim_task
  unfreeze, decoded, ended,       \* the semaphores of the animation
  running, takeover,              \* context of the camera in sta_rvc_test.c
  failed,                         \* a start failed while running was set
  cam, given,                     \* sta_cam.c: state; the semaphores that are available
  rvc, first, seen, queued, rvcq, \* rvc_task: control point, first reading, g_rvc_value,
                                  \*   g_rear_gear_id_queued, rvc_queue
  dropped,                        \* a message for an edge was refused
  pin, changes,                   \* the pin, its changes so far
  ax,                             \* rpmsg_mm_task: the event it is about to send
  asked,                          \* services Linux has called
  fault                           \* a semaphore was given that is deleted

mmv   == <<queue, state, linux, freed, mm, ev>>
animv == <<anim, endAnim, endTask, unfreeze, decoded, ended>>
camv  == <<running, takeover, failed, cam, given>>
gearv == <<rvc, first, seen, queued, rvcq, dropped, pin, changes>>
axv   == <<ax, asked>>
vars  == <<mmv, animv, camv, gearv, axv, fault>>

None   == "none"
Events == {"RGE", "RGD", "STARTED", "STOPPED", "TAKEOVER", "ANIM_STARTED", "ANIM_STOP",
           "ANIM_STOPPED"}

Init ==
  /\ queue = <<>> /\ state = "IDLE" /\ linux = FALSE /\ freed = FALSE
  /\ mm = "boot" /\ ev = None
  /\ anim = "wait" /\ endAnim = FALSE /\ endTask = FALSE
  /\ unfreeze = "empty" /\ decoded = "empty" /\ ended = "empty"
  /\ running = FALSE /\ takeover = "Mx" /\ failed = FALSE /\ cam = "init" /\ given = {}
  /\ rvc = "idle" /\ first = FALSE /\ seen = FALSE /\ queued = FALSE /\ rvcq = <<>>
  /\ dropped = FALSE /\ pin = FALSE /\ changes = 0
  /\ ax = None /\ asked = {} /\ fault = FALSE

InputLeft == changes + Cardinality(asked) < MaxInputs

Send(e) == Len(queue) < QueueLen /\ queue' = Append(queue, e)

-------------------------------------------------------------------------------
(* splash_start_anim and splash_stop_anim, as sta_mm_task calls them.      *)
StartAnim ==
  /\ endAnim' = FALSE
  /\ unfreeze' = IF unfreeze = "deleted" THEN unfreeze ELSE "given"
  /\ fault' = (unfreeze = "deleted")
  /\ UNCHANGED <<anim, endTask, decoded, ended>>

MM(from, to) == /\ ~fault /\ mm = from /\ mm' = to
                /\ ev' = IF to = "recv" THEN None ELSE ev

Boot == /\ MM("boot", "recv")
        /\ StartAnim
        /\ UNCHANGED <<queue, state, linux, freed, camv, gearv, axv>>

StopRequest ==
  /\ MM("stop", "waitDecoded")
  /\ endAnim' = TRUE /\ endTask' = linux
  /\ unfreeze' = IF unfreeze = "deleted" THEN unfreeze ELSE "given"
  /\ fault' = (unfreeze = "deleted")
  /\ UNCHANGED <<queue, state, linux, freed, anim, decoded, ended, camv, gearv, axv>>

\* What splash_stop_anim was called for.
Then == CASE ev = "RGE" -> "camOn" [] ev = "ANIM_STOP" -> "free" [] OTHER -> "recv"
AfterDecoded == IF endTask /\ ended # "null" THEN "waitEnded" ELSE Then
Decoded ==
  /\ MM("waitDecoded", AfterDecoded)
  /\ decoded = "given" /\ decoded' = "empty"
  /\ UNCHANGED <<queue, state, linux, freed, anim, endAnim, endTask, unfreeze, ended,
                 camv, gearv, axv, fault>>
\* Mutant: waits for ever when the task is to end too.
DecodedForever ==
  /\ MM("waitDecoded", AfterDecoded)
  /\ decoded = "empty" /\ ~endTask
  /\ Slow \/ anim \notin {"announce", "decode", "give"}
  /\ UNCHANGED <<queue, state, linux, freed, animv, camv, gearv, axv, fault>>
\* One second, whether an animation was running or not.
DecodedTimeout ==
  /\ MM("waitDecoded", AfterDecoded)
  /\ decoded = "empty"
  /\ Slow \/ anim \notin {"announce", "decode", "give"}
  /\ UNCHANGED <<queue, state, linux, freed, animv, camv, gearv, axv, fault>>
\* Given, or a second has passed: the semaphore is deleted either way.
Ended ==
  /\ MM("waitEnded", Then)
  /\ Slow \/ ended = "given"
  /\ ended' = "null"
  /\ UNCHANGED <<queue, state, linux, freed, anim, endAnim, endTask, unfreeze, decoded,
                 camv, gearv, axv, fault>>

-------------------------------------------------------------------------------
(* sta_mm_task.                                                            *)
\* What an event leads to; the next event when there is nothing to do.
Reaction(e) ==
  CASE e = "RGE" /\ state = "ANIM"         -> "stop"
    [] e = "RGE" /\ state = "IDLE"         -> "camOn"
    [] e = "RGD" /\ state = "RVC"          -> "camOff"
    [] e = "STOPPED" /\ state = "RVC"      -> "idle"
    [] e = "TAKEOVER"                      -> "takeover"
    [] e = "ANIM_STARTED" /\ state = "RVC" -> "stop"
    [] e = "ANIM_STOP"                     -> "stop"
    [] e = "ANIM_STOPPED"                  -> "free"
    [] OTHER                               -> "recv"
Take == LET e == Head(queue) IN
  /\ ~fault /\ mm = "recv" /\ queue # <<>>
  /\ queue' = Tail(queue)
  /\ mm' = Reaction(e) /\ ev' = IF mm' = "recv" THEN None ELSE e
  /\ state' = IF e = "STARTED" THEN "RVC"
              ELSE IF e = "ANIM_STARTED" /\ state # "RVC" THEN "ANIM" ELSE state
  /\ UNCHANGED <<linux, freed, animv, camv, gearv, axv, fault>>

\* The camera has been stopped: back to the animation unless Linux is up.
Idle ==
  /\ MM("idle", "recv")
  /\ state' = "IDLE"
  /\ IF linux THEN UNCHANGED <<animv, fault>> ELSE StartAnim
  /\ UNCHANGED <<queue, linux, freed, camv, gearv, axv>>

Free ==
  /\ MM("free", "recv")
  /\ freed' = (freed \/ linux)
  /\ state' = IF state = "ANIM" THEN "IDLE" ELSE state
  /\ UNCHANGED <<queue, linux, animv, camv, gearv, axv, fault>>

\* rvc_start, rvc_stop and rvc_ax_takeover: what they do with the camera and its task.
Camera(from, to) == /\ MM(from, to)
                    /\ UNCHANGED <<queue, state, linux, freed, animv, gearv, axv, fault>>
\* cam_start_rear_camera: 0 at once unless the camera rests; otherwise its task is told to
\* start, and its acknowledgement is waited for.  A start that is not acknowledged in time
\* is not taken back.
CamOn ==
  \/ /\ takeover = "Ax" \/ cam # "init"
     /\ Camera("camOn", "sendStarted")
     /\ running' = (takeover # "Ax" \/ running) /\ UNCHANGED <<takeover, failed, cam, given>>
  \/ /\ takeover # "Ax" /\ cam = "init"
     /\ Camera("camOn", "waitStart")
     /\ given' = given \cup {"START"} /\ UNCHANGED <<running, takeover, failed, cam>>
StartDone ==
  \/ /\ "ACK" \in given /\ Camera("waitStart", "sendStarted")
     /\ given' = given \ {"ACK"} /\ running' = TRUE /\ UNCHANGED <<takeover, failed, cam>>
  \/ /\ MayFail /\ "ACK" \notin given /\ Camera("waitStart", "sendFailed")
     /\ failed' = (failed \/ running) /\ UNCHANGED <<running, takeover, cam, given>>
\* cam_stop_rear_camera: a camera that does not run is waited for as well.
CamOff ==
  \/ takeover = "Ax" /\ Camera("camOff", "sendStopped") /\ UNCHANGED camv
  \/ /\ takeover # "Ax" /\ Camera("camOff", "waitStop")
     /\ cam' = IF cam = "running" THEN "stopping" ELSE cam
     /\ UNCHANGED <<running, takeover, failed, given>>
StopDone ==
  /\ Camera("waitStop", IF takeover = "transition" THEN "giveUp" ELSE "sendStopped")
  /\ "STOP" \in given \/ cam # "stopping" \/ MayFail
  /\ given' = given \ {"STOP"} /\ running' = FALSE
  /\ UNCHANGED <<takeover, failed, cam>>
\* rvc_ax_takeover; in the transition the request waits for the camera's stop.
\* Mutant: a request is dropped while the camera runs.
TakeoverDropped ==
  /\ Camera("takeover", IF takeover = "Mx" /\ ~running THEN "giveUp" ELSE "recv")
  /\ UNCHANGED camv
Takeover ==
  /\ Camera("takeover", IF takeover = "Mx" /\ ~running THEN "giveUp" ELSE "recv")
  /\ takeover' = IF takeover = "Mx" /\ running THEN "transition" ELSE takeover
  /\ UNCHANGED <<running, failed, cam, given>>
\* cam_deinit_rear_camera, then the acknowledgement to Linux; a camera between rest and
\* running refuses, and the transition stays.  One that runs is to be stopped by
\* cam_stop_rear_camera, which takes g_mutex_synchro a second time: the manager waits
\* for itself.
GiveUp == LET next == IF ev = "TAKEOVER" THEN "recv" ELSE "sendStopped" IN
  /\ UNCHANGED <<running, failed>>
  /\ \/ /\ cam = "init" /\ Camera("giveUp", next)
        /\ takeover' = "Ax" /\ cam' = "off" /\ given' = {}
     \/ /\ cam = "running" /\ Camera("giveUp", "stuck")
        /\ takeover' = "Ax" /\ UNCHANGED <<cam, given>>
     \/ /\ cam \notin {"init", "running"} /\ Camera("giveUp", next)
        /\ takeover' = "transition" /\ UNCHANGED <<cam, given>>

\* Mutant: rvc_stop sends no event.
SendOwnStart ==
  /\ \/ MM("sendStarted", "recv") /\ Send("STARTED") /\ state' = "RVC"
     \/ MM("sendFailed", "recv") /\ Send("STOPPED") /\ state' = "RVC"
     \/ MM("sendStopped", "idle") /\ UNCHANGED <<queue, state>>
  /\ UNCHANGED <<linux, freed, animv, camv, gearv, axv, fault>>
SendOwn ==
  /\ \/ MM("sendStarted", "recv") /\ Send("STARTED") /\ state' = "RVC"
     \/ MM("sendFailed", "recv") /\ Send("STOPPED") /\ state' = "RVC"
     \/ MM("sendStopped", "idle") /\ Send("STOPPED") /\ UNCHANGED state
  /\ UNCHANGED <<linux, freed, animv, camv, gearv, axv, fault>>

-------------------------------------------------------------------------------
(* splash_animation_task and jpegdecode.                                   *)
Anim(from, to) == ~fault /\ anim = from /\ anim' = to
Rest == UNCHANGED <<state, linux, freed, mm, ev, camv, gearv, axv>>

AnimWake ==
  /\ Anim("wait", "woken")
  /\ unfreeze = "given" /\ unfreeze' = "empty"
  /\ Rest /\ UNCHANGED <<queue, endAnim, endTask, decoded, ended, fault>>
AnimLook ==
  /\ Anim("woken", IF endAnim THEN "check" ELSE "announce")
  /\ Rest /\ UNCHANGED <<queue, endAnim, endTask, unfreeze, decoded, ended, fault>>
AnimStarted ==
  /\ Anim("announce", "decode")
  /\ Send("ANIM_STARTED")
  /\ Rest /\ UNCHANGED <<endAnim, endTask, unfreeze, decoded, ended, fault>>
AnimStopped ==
  /\ Anim("decode", "give")
  /\ endAnim
  /\ Send("ANIM_STOPPED")
  /\ Rest /\ UNCHANGED <<endAnim, endTask, unfreeze, decoded, ended, fault>>
AnimGive ==
  /\ Anim("give", "check")
  /\ decoded' = "given"
  /\ Rest /\ UNCHANGED <<queue, endAnim, endTask, unfreeze, ended, fault>>
AnimCheck ==
  /\ Anim("check", IF endTask THEN "end" ELSE "wait")
  /\ unfreeze' = IF endTask THEN "deleted" ELSE unfreeze
  /\ Rest /\ UNCHANGED <<queue, endAnim, endTask, decoded, ended, fault>>
AnimEnd ==
  /\ Anim("end", "gone")
  /\ ended' = IF ended = "null" THEN ended ELSE "given"
  /\ fault' = (ended = "null")
  /\ Rest /\ UNCHANGED <<queue, endAnim, endTask, unfreeze, decoded>>

-------------------------------------------------------------------------------
(* cam_main_task.                                                          *)
CamGoes(from, to) == /\ ~fault /\ cam = from /\ cam' = to
                     /\ UNCHANGED <<mmv, animv, running, takeover, failed, gearv, axv, fault>>
CamBegin == CamGoes("init", "starting") /\ "START" \in given /\ given' = given \ {"START"}
\* The acknowledgement comes before the state.
CamAck   == CamGoes("starting", "acked") /\ given' = given \cup {"ACK"}
CamRuns  == CamGoes("acked", "running") /\ UNCHANGED given
\* No warm-up interrupt or no layer: the task waits for the next start in a state in which
\* cam_start_rear_camera takes the camera for running.
CamDead  == MayFail /\ CamGoes("starting", "dead") /\ UNCHANGED given
CamStops == CamGoes("stopping", "init") /\ given' = given \cup {"STOP"}

-------------------------------------------------------------------------------
(* rvc_task, the pin and the interrupt an edge of it raises at once, and the frames. *)
Gear == ~fault /\ UNCHANGED <<state, linux, freed, mm, ev, animv, camv, axv, fault>>

\* rvc_rear_gear_hdl: the flag is set before the message is sent, which a full queue
\* refuses.
RearGearHdl == LET full == Len(rvcq) >= RvcLen IN
  /\ queued' = TRUE
  /\ dropped' = (dropped \/ (~queued /\ full))
  /\ rvcq' = IF queued \/ full THEN rvcq ELSE Append(rvcq, "gear")
PinChanges ==
  /\ InputLeft
  /\ pin' = ~pin /\ changes' = changes + 1
  /\ RearGearHdl
  /\ Gear /\ UNCHANGED <<queue, rvc, first, seen>>
\* frame_notif, for every frame cam_main_task has shown; a full queue refuses it.
Frame ==
  /\ cam \in {"running", "stopping"} /\ Len(rvcq) < RvcLen
  /\ rvcq' = Append(rvcq, "frame")
  /\ Gear /\ UNCHANGED <<queue, rvc, first, seen, queued, dropped, pin, changes>>
FrameTake ==
  /\ rvc = "idle" /\ rvcq # <<>> /\ Head(rvcq) = "frame" /\ rvcq' = Tail(rvcq)
  /\ Gear /\ UNCHANGED <<queue, rvc, first, seen, queued, dropped, pin, changes>>
\* Mutant: the flag is not cleared.
GearTakeKeeps ==
  /\ rvc = "idle" /\ rvc' = "debounce"
  /\ rvcq # <<>> /\ Head(rvcq) = "gear" /\ rvcq' = Tail(rvcq)
  /\ first' = pin
  /\ Gear /\ UNCHANGED <<queue, seen, queued, dropped, pin, changes>>
GearTake ==
  /\ rvc = "idle" /\ rvc' = "debounce"
  /\ rvcq # <<>> /\ Head(rvcq) = "gear" /\ rvcq' = Tail(rvcq)
  /\ queued' = FALSE /\ first' = pin
  /\ Gear /\ UNCHANGED <<queue, seen, dropped, pin, changes>>
\* manage_trigger after 100 ms, or at the first reading that differs.
Debounce ==
  /\ rvc = "debounce"
  /\ \/ /\ pin # first \/ pin = seen \/ queued
        /\ rvc' = "idle" /\ UNCHANGED seen
     \/ pin = first /\ pin # seen
        /\ rvc' = "send" /\ seen' = pin
  /\ first' = FALSE
  /\ Gear /\ UNCHANGED <<queue, queued, rvcq, dropped, pin, changes>>
GearSend ==
  /\ rvc = "send" /\ rvc' = "idle"
  /\ Send(IF seen THEN "RGE" ELSE "RGD")
  /\ Gear /\ UNCHANGED <<first, seen, queued, rvcq, dropped, pin, changes>>

-------------------------------------------------------------------------------
(* Linux: sta_mm_services_handler and the takeover in rvc_services_handler.*)
Service(s) ==
  /\ ~fault /\ ax = None /\ s \notin asked /\ InputLeft
  /\ ax' = s /\ asked' = asked \cup {s}
  /\ linux' = (linux \/ s = "ANIM_STOP")
  /\ UNCHANGED <<queue, state, freed, mm, ev, animv, camv, gearv, fault>>
ServiceSend ==
  /\ ~fault /\ ax # None /\ ax' = None
  /\ Send(ax)
  /\ UNCHANGED <<state, linux, freed, mm, ev, animv, camv, gearv, asked, fault>>

Manager == Boot \/ StopRequest \/ Decoded \/ DecodedTimeout \/ Ended \/ Take \/ Idle \/ Free
           \/ CamOn \/ StartDone \/ CamOff \/ StopDone \/ Takeover \/ GiveUp \/ SendOwn
Animation == AnimWake \/ AnimLook \/ AnimStarted \/ AnimStopped \/ AnimGive \/ AnimCheck \/ AnimEnd
CamTask   == CamBegin \/ CamAck \/ CamRuns \/ CamDead \/ CamStops
RvcTask   == FrameTake \/ GearTake \/ Debounce \/ GearSend
Next == Manager \/ Animation \/ CamTask \/ RvcTask \/ PinChanges \/ Frame
        \/ (\E s \in {"ANIM_STOP", "TAKEOVER"} : Service(s)) \/ ServiceSend

Spec == Init /\ [][Next]_vars
FairSpec == Spec /\ WF_vars(Manager) /\ WF_vars(Animation) /\ WF_vars(CamTask)
                 /\ WF_vars(RvcTask) /\ WF_vars(ServiceSend)

-------------------------------------------------------------------------------
TypeMM ==
  /\ queue \in Seq(Events) /\ Len(queue) <= QueueLen /\ state \in {"IDLE", "ANIM", "RVC"}
  /\ mm \in {"boot", "recv", "stop", "waitDecoded", "waitEnded", "camOn", "waitStart",
             "camOff", "waitStop", "takeover", "giveUp", "stuck", "sendStarted",
             "sendFailed", "sendStopped", "idle", "free"}
  /\ ev \in Events \cup {None} /\ linux \in BOOLEAN /\ freed \in BOOLEAN
TypeAnim ==
  /\ anim \in {"wait", "woken", "announce", "decode", "give", "check", "end", "gone"}
  /\ unfreeze \in {"empty", "given", "deleted"} /\ decoded \in {"empty", "given"}
  /\ ended \in {"empty", "given", "null"} /\ endAnim \in BOOLEAN /\ endTask \in BOOLEAN
TypeCam ==
  /\ running \in BOOLEAN /\ failed \in BOOLEAN /\ takeover \in {"Mx", "transition", "Ax"}
  /\ cam \in {"off", "init", "starting", "acked", "dead", "running", "stopping"}
  /\ given \subseteq {"START", "ACK", "STOP"}
TypeGear ==
  /\ rvc \in {"idle", "debounce", "send"}
  /\ rvcq \in Seq({"gear", "frame"}) /\ Len(rvcq) <= RvcLen /\ dropped \in BOOLEAN
  /\ first \in BOOLEAN /\ seen \in BOOLEAN /\ queued \in BOOLEAN /\ pin \in BOOLEAN
TypeAx == asked \subseteq {"ANIM_STOP", "TAKEOVER"} /\ ax \in asked \cup {None}
TypeOK == TypeMM /\ TypeAnim /\ TypeCam /\ TypeGear /\ TypeAx /\ fault \in BOOLEAN

NoGear == \A i \in DOMAIN rvcq : rvcq[i] # "gear"

\* Nothing is left to do until Linux calls, the pin changes or the camera's task goes on.
AtRest == /\ queue = <<>> /\ mm = "recv" /\ ax = None
          /\ rvc = "idle" /\ NoGear
          /\ anim = "gone" \/ (anim = "wait" /\ unfreeze = "empty")
             \/ (anim = "decode" /\ ~endAnim)

\* At rest the state machine agrees with context.running, whatever the order in which the
\* pin's events and those the manager sent to itself were treated, and also when a start
\* is not acknowledged in time (the camera itself may run later: see RunningOngoing),
\* except that running stays set when a start fails while it is.
RestCamera == AtRest /\ takeover # "Ax" =>
  (state = "RVC" => running) /\ (running => state = "RVC" \/ failed)

\* At rest the last position of the rear gear is known: no edge is lost between the
\* interrupt, its flag, the queue it shares with the frames and the debouncing, unless
\* that queue has refused an edge.
RestGear == AtRest => seen = pin \/ dropped

\* Linux's request to take the camera over is not lost, and M3 does not run a camera it
\* has given up: context.running is clear and the camera's task is deleted (or the manager
\* has blocked itself while it tried).
RestTakeover == AtRest /\ "TAKEOVER" \in asked => takeover # "Mx"
TakeoverSafe == takeover = "Ax" => ~running /\ (cam = "off" \/ mm = "stuck")
\* The same, with the types.
TakeoverInv  == TypeOK /\ RestTakeover /\ TakeoverSafe

\* The manager comes back to rest again and again, whatever fails or takes too long,
\* unless it is to give up a camera that runs (NotStuck) or a semaphore was deleted.
Rests == []<>(AtRest \/ fault \/ mm = "stuck")

(***************************************************************************)
(* What the comments say (the code does otherwise, see the README).        *)
(***************************************************************************)
\* "At this point Linux handover has been done so we can free resources: splash screen rgb
\* file and splash animation M-JPEG file" (sta_mm_task): nothing is decoded from the file.
FreedUnused == freed => anim \notin {"announce", "decode"}
\* "it consists in the decode and display of jpeg files to simulate an animation while
\* linux OS is not yet able to manage the display" (sta_mm_init_env): the camera and the
\* animation do not both keep the display, and the state shows which has it.
RestOne  == AtRest => ~(running /\ anim = "decode")
RestAnim == AtRest /\ anim = "decode" => state = "ANIM"
\* "Update status on sta_MM side" (manage_trigger): the camera follows the rear gear.
RestGearCam == AtRest /\ takeover # "Ax" => running = seen
\* A semaphore is not given after splash_animation_task has deleted it.
NoFault == ~fault
\* "De-initialize SGA Processing" (cam_deinit_rear_camera stops a camera that runs): the
\* manager does not wait for itself.
NotStuck == mm # "stuck"
\* "@running: RVC actually on-going" (struct rvc_test_context).
RunningOngoing == AtRest /\ "START" \notin given /\ cam \notin {"starting", "acked", "stopping"}
                    => (running <=> cam = "running")
===============================================================================
