------------------------------ MODULE RpmsgInit -------------------------------
(***************************************************************************)
(* Start-up of RPMSG: every task that uses the transport calls RPMSG_Init. *)
(* The first one requests the mailbox channel, answers the host's request  *)
(* with MessageQCopy_init and waits for the host's first kick; the others  *)
(* wait for it on xSemRpmsg.  The mailbox interrupt (VirtQueue_isr) passes *)
(* the host's messages to the task through xQueueRpmsg.                    *)
(* The host is external: it sends RP_MSG_INIT_REQUEST, then kicks and      *)
(* other messages, a second request among them.                            *)
(***************************************************************************)
EXTENDS Integers, Sequences, FiniteSets

CONSTANTS Tasks,        \* the tasks that call RPMSG_Init
          QueueLen,     \* length of xQueueRpmsg (10)
          MayFail,      \* MessageQCopy_init may fail (no memory, bad table)
          HostKinds,    \* the messages but kicks the host sends after its request
          MaxKick,      \* bound: kicks of the host
          MaxOther      \* bound: other messages of the host after its request

\* "init" is a further RP_MSG_INIT_REQUEST, "up" RP_MSG_MBOX_READY, "echo" stands for
\* RP_MBOX_ECHO_REQUEST and RP_MSG_HIBERNATION(_FORCE), which the interrupt itself
\* answers, "message" for a kick with a message no endpoint takes, "spurious" for every
\* other code.
ASSUME InitAssumption == /\ QueueLen \in Nat \ {0} /\ MaxKick \in Nat /\ MaxOther \in Nat
                         /\ MayFail \in BOOLEAN
                         /\ HostKinds \subseteq {"init", "up", "echo", "message", "spurious"}

VARIABLES
  initDone,    \* vRpmsgInitDone
  semRpmsg,    \* xSemRpmsg is available
  assigned,    \* the channel "rpmsg" is assigned, its interrupt enabled
  rxMade,      \* xQueueRpmsg exists
  rxQueue,     \* the messages in xQueueRpmsg
  vrings,      \* the last MessageQCopy_init: "none", "made" or "failed"
  fault,       \* the interrupt used a queue that does not exist
  stuck,       \* the interrupt does not return
  refused,     \* a kick was refused by a queue full of requests
  pc,          \* per task: control point in RPMSG_Init
  mail,        \* mailbox slot from the host
  bell,        \* mailbox slot to the host
  asked,       \* the host has sent its request
  kicks, others, \* its kicks and other messages since
  answer       \* the answer the host has read

rx     == <<rxMade, rxQueue>>
isr    == <<fault, stuck, refused>>
m3host == <<mail, bell, asked, kicks, others, answer>>
vars   == <<initDone, semRpmsg, assigned, rx, vrings, isr, pc, m3host>>

\* RPMSG_PreInit has run.
Init == /\ initDone = "no" /\ semRpmsg = TRUE /\ assigned = FALSE
        /\ rxMade = FALSE /\ rxQueue = <<>> /\ vrings = "none"
        /\ fault = FALSE /\ stuck = FALSE /\ refused = FALSE /\ pc = [t \in Tasks |-> "idle"]
        /\ mail = "none" /\ bell = "none"
        /\ asked = FALSE /\ kicks = 0 /\ others = 0 /\ answer = "none"

-------------------------------------------------------------------------------
HostAsk == /\ ~asked /\ mail = "none"
           /\ asked' = TRUE /\ mail' = "init"
           /\ UNCHANGED <<initDone, semRpmsg, assigned, rx, vrings, isr, pc, bell,
                          kicks, others, answer>>
HostKick == /\ asked /\ mail = "none" /\ kicks < MaxKick
            /\ kicks' = kicks + 1 /\ mail' = "kick"
            /\ UNCHANGED <<initDone, semRpmsg, assigned, rx, vrings, isr, pc,
                           bell, asked, others, answer>>
HostSend == /\ asked /\ mail = "none" /\ others < MaxOther
            /\ others' = others + 1 /\ mail' \in HostKinds
            /\ UNCHANGED <<initDone, semRpmsg, assigned, rx, vrings, isr, pc,
                           bell, asked, kicks, answer>>
HostRead == /\ bell # "none"
            /\ bell' = "none" /\ answer' = bell
            /\ UNCHANGED <<initDone, semRpmsg, assigned, rx, vrings, isr, pc, mail,
                           asked, kicks, others>>

-------------------------------------------------------------------------------
\* The M3 goes on: the interrupt has neither met a missing queue nor failed to return.
Alive == ~fault /\ ~stuck

\* VirtQueue_isr.
IsrOf(m) == /\ Alive /\ assigned /\ mail = m /\ mail' = "none"
            /\ UNCHANGED <<initDone, semRpmsg, assigned, rxMade, vrings, pc, bell, asked,
                           kicks, others, answer>>
\* xQueueSendToBackFromISR: a queue that is full refuses the message.
Post(m) ==
  /\ fault' = ~rxMade
  /\ rxQueue' = IF rxMade /\ Len(rxQueue) < QueueLen THEN Append(rxQueue, m) ELSE rxQueue

\* The request and a spurious message go to the task.
IsrPost == /\ \E m \in {"init", "spurious"} : IsrOf(m) /\ Post(m)
           /\ UNCHANGED <<stuck, refused>>
\* A kick does as well, as "ready", while the start-up is under way.
\* Mutant: it is left to the vring's callback.
IsrNoReady == IsrOf("kick") /\ UNCHANGED <<rxQueue, isr>>
\* Mutant: the kick's own code is posted.
KickedRaw == IF initDone # "ongoing" THEN UNCHANGED <<rxQueue, fault, refused>>
             ELSE Post(mail) /\ UNCHANGED refused
Kicked == IF initDone # "ongoing" THEN UNCHANGED <<rxQueue, fault, refused>>
          ELSE /\ Post("ready")
               /\ refused' = (refused \/ /\ Len(rxQueue) >= QueueLen
                                         /\ \A i \in DOMAIN rxQueue : rxQueue[i] = "init")
IsrKick == IsrOf("kick") /\ Kicked /\ UNCHANGED stuck
\* A message that no endpoint takes is given back, and the host rung, by the vring's
\* callback; a request that failed may have left it registered.
IsrMessage ==
  /\ IsrOf("message")
  /\ \/ vrings # "made" /\ Kicked /\ UNCHANGED stuck
     \/ vrings # "none" /\ stuck' = TRUE /\ UNCHANGED <<rxQueue, fault, refused>>
\* Answered in the interrupt: on a channel with a hardware semaphore mbox_send_msg does not
\* return from there.  Until RPMSG_Init has stored the channel, another one, or none, is used.
IsrEcho ==
  /\ IsrOf("echo")
  /\ stuck' \in IF rxMade THEN {TRUE} ELSE BOOLEAN
  /\ UNCHANGED <<rxQueue, fault, refused>>
IsrUp == IsrOf("up") /\ UNCHANGED <<rxQueue, isr>>
Isr == IsrPost \/ IsrKick \/ IsrMessage \/ IsrEcho \/ IsrUp

-------------------------------------------------------------------------------
\* A task steps.
Goes(t, from, to) == Alive /\ pc[t] = from /\ pc' = [pc EXCEPT ![t] = to]

\* Mutant: the second check is for completion only.
EnterNoWait(t) ==
  /\ Goes(t, "idle", IF initDone = "no" THEN "take" ELSE "ok")
  /\ UNCHANGED <<initDone, semRpmsg, assigned, rx, vrings, isr, m3host>>

\* The two checks of vRpmsgInitDone (one load in the build).
Enter(t) ==
  /\ Goes(t, "idle", CASE initDone = "done" -> "ok" [] initDone = "ongoing" -> "wait"
                       [] OTHER -> "take")
  /\ UNCHANGED <<initDone, semRpmsg, assigned, rx, vrings, isr, m3host>>

\* Waiting for another task: the semaphore is passed on, or INIT_TIMEOUT ends the wait.
WaitTake(t) ==
  /\ semRpmsg /\ Goes(t, "wait", "pass")
  /\ semRpmsg' = FALSE
  /\ UNCHANGED <<initDone, assigned, rx, vrings, isr, m3host>>
WaitPass(t) ==
  /\ Goes(t, "pass", "ok")
  /\ semRpmsg' = TRUE
  /\ UNCHANGED <<initDone, assigned, rx, vrings, isr, m3host>>
WaitTimeout(t) ==
  /\ ~semRpmsg /\ Goes(t, "wait", "error")
  /\ UNCHANGED <<initDone, semRpmsg, assigned, rx, vrings, isr, m3host>>

Take(t) ==
  /\ semRpmsg /\ Goes(t, "take", "start")
  /\ semRpmsg' = FALSE
  /\ UNCHANGED <<initDone, assigned, rx, vrings, isr, m3host>>
Start(t) ==
  /\ Goes(t, "start", "request")
  /\ initDone' = "ongoing"
  /\ UNCHANGED <<semRpmsg, assigned, rx, vrings, isr, m3host>>

\* mbox_request_channel: from here on the interrupt is enabled.
Request(t) ==
  /\ Goes(t, "request", IF assigned THEN "error" ELSE "queue")
  /\ assigned' = TRUE
  /\ UNCHANGED <<initDone, semRpmsg, rx, vrings, isr, m3host>>
MakeQueue(t) ==
  /\ Goes(t, "queue", "receive")
  /\ rxMade' = TRUE /\ rxQueue' = <<>>
  /\ UNCHANGED <<initDone, semRpmsg, assigned, vrings, isr, m3host>>

Got(t, m, to) == /\ rxQueue # <<>> /\ Head(rxQueue) = m
                 /\ rxQueue' = Tail(rxQueue) /\ UNCHANGED rxMade
                 /\ Goes(t, "receive", to)
                 /\ UNCHANGED <<semRpmsg, assigned, isr, m3host>>
GetRequest(t) == /\ \/ Got(t, "init", "receive") /\ vrings' = "made"
                    \/ MayFail /\ Got(t, "init", "answer") /\ vrings' = "failed"
                 /\ UNCHANGED initDone
GetReady(t)   == /\ Got(t, "ready", "answer") /\ initDone' = "done" /\ UNCHANGED vrings
GetOther(t)   == /\ Got(t, "spurious", "answer") /\ UNCHANGED <<initDone, vrings>>

\* Mutant: the semaphore is given whatever the outcome.
GiveAlways(t) ==
  /\ Goes(t, "answer", IF initDone = "done" THEN "sendAck" ELSE "sendFailed")
  /\ semRpmsg' = TRUE
  /\ UNCHANGED <<initDone, assigned, rx, vrings, isr, m3host>>
\* The end: on success the semaphore is given, then the host is answered.
Give(t) ==
  /\ Goes(t, "answer", IF initDone = "done" THEN "sendAck" ELSE "sendFailed")
  /\ semRpmsg' = (semRpmsg \/ initDone = "done")
  /\ UNCHANGED <<initDone, assigned, rx, vrings, isr, m3host>>
\* Mutant: the failure is reported after the success as well.
AnswerTwice(t) ==
  /\ bell = "none"
  /\ \/ Goes(t, "sendAck", "sendFailed") /\ bell' = "ack"
     \/ Goes(t, "sendFailed", IF initDone = "done" THEN "ok" ELSE "error")
          /\ bell' = "failed"
  /\ UNCHANGED <<initDone, semRpmsg, assigned, rx, vrings, isr, mail, asked,
                 kicks, others, answer>>
Answer(t) ==
  /\ bell = "none"
  /\ \/ Goes(t, "sendAck", "ok") /\ bell' = "ack"
     \/ Goes(t, "sendFailed", "error") /\ bell' = "failed"
  /\ UNCHANGED <<initDone, semRpmsg, assigned, rx, vrings, isr, mail, asked,
                 kicks, others, answer>>

\* A caller whose call has failed may call again.
Again(t) ==
  /\ Goes(t, "error", "idle")
  /\ UNCHANGED <<initDone, semRpmsg, assigned, rx, vrings, isr, m3host>>

Step(t) == \/ WaitTake(t) \/ WaitPass(t) \/ WaitTimeout(t) \/ Take(t) \/ Start(t)
           \/ Request(t) \/ MakeQueue(t) \/ GetRequest(t) \/ GetReady(t) \/ GetOther(t)
           \/ Give(t) \/ Answer(t)
Next == \/ HostAsk \/ HostKick \/ HostSend \/ HostRead \/ Isr
        \/ \E t \in Tasks : Enter(t) \/ Step(t) \/ Again(t)

Spec == Init /\ [][Next]_vars

\* The tasks go on with a call, the interrupt is served, and the host asks, kicks and
\* reads what it is sent.
FairSpec == /\ Spec /\ WF_vars(Isr) /\ WF_vars(HostAsk) /\ WF_vars(HostKick)
            /\ WF_vars(HostRead) /\ \A t \in Tasks : WF_vars(Step(t))

-------------------------------------------------------------------------------
Points == {"idle", "wait", "pass", "take", "start", "request", "queue", "receive",
           "answer", "sendAck", "sendFailed", "ok", "error"}
Msgs   == {"init", "ready", "spurious"}

TypeOK ==
  /\ initDone \in {"no", "ongoing", "done"} /\ semRpmsg \in BOOLEAN
  /\ assigned \in BOOLEAN /\ vrings \in {"none", "made", "failed"}
  /\ fault \in BOOLEAN /\ stuck \in BOOLEAN /\ refused \in BOOLEAN
  /\ rxMade \in BOOLEAN /\ rxQueue \in Seq(Msgs) /\ pc \in [Tasks -> Points]
  /\ mail \in {"none", "init", "kick"} \cup HostKinds /\ bell \in {"none", "ack", "failed"}
  /\ asked \in BOOLEAN /\ kicks \in 0 .. MaxKick /\ others \in 0 .. MaxOther
  /\ answer \in {"none", "ack", "failed"}

\* A task that returns from RPMSG_Init with success finds the channel and the vrings:
\* none gets through while the start-up of another one is under way or has failed.
ReturnedReady == \A t \in Tasks : pc[t] = "ok" => assigned /\ vrings = "made"

\* The waiting point holds: while the start-up is under way the semaphore is taken, also
\* when a task times out, when the start-up fails and when a late task starts it again.
WaitingHolds == initDone = "ongoing" => ~semRpmsg

\* The host is answered once: never a failure after a success or the other way round.
AnsweredOnce == [][answer # "none" => UNCHANGED answer]_vars

\* The semaphore is never lost by the tasks that wait: once the start-up is done and no
\* task is between taking and giving, it is available.
SemPassedOn ==
  initDone = "done" /\ (\A t \in Tasks : pc[t] \notin {"pass", "start", "answer"})
    => semRpmsg

\* xSemRpmsg from the first call to the last waiter: a waiting point while the start-up is
\* under way, passed on from waiter to waiter once it is done.
SemKept == WaitingHolds /\ SemPassedOn

\* The start-up ends: once a task waits for the host's messages the host gets its
\* answer, whatever is refused, fails or comes out of order, and however often it is asked
\* for, unless the interrupt met a missing queue (QueueThere), a message it answers itself
\* (IsrReturns), or could not post the kick among requests.
HostAnswered ==
  (\E t \in Tasks : pc[t] = "receive") ~> (answer # "none" \/ fault \/ stuck \/ refused)

(***************************************************************************)
(* What comments and assertions say (the code does otherwise, see README). *)
(***************************************************************************)
\* "RPMSG Init procedure has to only be done once so if the init procedure is already
\* started by another task, a waiting point allow to wait for its completion": a
\* start-up that is done is not started again.
DoneOnce == [][initDone = "done" => initDone' = "done"]_vars

\* configASSERT(pxQueue) of the kernel: the interrupt posts to a queue that exists.
QueueThere == ~fault

\* "This function can be used in an interrupt service routine" (mbox_send_msg): the
\* interrupt that answers an echo or a hibernation request, or gives a buffer back, returns.
IsrReturns == ~stuck
===============================================================================
