----------------------------- MODULE MessageQCopy -----------------------------
(***************************************************************************)
(* The RPMSG transport of the Cortex-M3 firmware: endpoints, the two       *)
(* vrings shared with the Linux host, the mailbox doorbell in either       *)
(* direction, the mailbox interrupt and the FreeRTOS tasks that call       *)
(* MessageQCopy_create, _recv and _send.                                   *)
(*                                                                         *)
(* A vring is the pair of sequences its two index rings stand for: the     *)
(* buffers offered and not yet taken, and the buffers handed back and not  *)
(* yet collected (module VirtQueue shows the index rings to implement      *)
(* them).  Suffix F: the vring FromHost; suffix T: the vring ToHost.       *)
(* The Linux side is external and modelled from how the M3 uses it.        *)
(***************************************************************************)
EXTENDS Integers, Sequences, FiniteSets

CONSTANTS
  Tasks,        \* the M3 tasks that use the transport
  NoTask,
  NumBuf,       \* M3_RPMSG_VQ_SIZE: buffers of each vring
  QueLen,       \* QUE_LEN: capacity of an endpoint's queue
  MaxObjects,   \* MAXMESSAGEQOBJECTS
  MaxReserved,  \* MessageQCopy_MAX_RESERVED_ENDPOINT
  AssignAny,          \* MessageQCopy_ASSIGN_ANY
  Request,      \* Request[t]: the endpoint task t asks MessageQCopy_create for
  Senders,      \* the tasks that call MessageQCopy_send
  Timeouts,     \* the kinds of timeout given to MessageQCopy_send
  IntrChoices,  \* the values the host gives to VRING_AVAIL_F_NO_INTERRUPT
  MaxPost,      \* bound: messages the host posts
  MaxSend       \* bound: calls of MessageQCopy_send per task

ASSUME NumBufAssumption == NumBuf \in Nat \ {0}
ASSUME LimitsAssumption == /\ QueLen \in Nat /\ NumBuf <= QueLen
                           /\ MaxObjects \in Nat /\ MaxReserved \in Nat
                           /\ MaxReserved < MaxObjects
                           /\ MaxPost \in Nat /\ MaxSend \in Nat
ASSUME TasksAssumption == /\ NoTask \notin Tasks
                          /\ AssignAny \notin Nat
                          /\ Request \in [Tasks -> Nat \cup {AssignAny}]
ASSUME ChoicesAssumption == /\ Timeouts \subseteq {"zero", "finite", "forever"}
                            /\ IntrChoices \subseteq BOOLEAN

Bufs      == 0 .. NumBuf - 1
Endpoints == 0 .. MaxObjects - 1
NoEp      == MaxObjects                 \* no handle; as a destination: none exists
MsgF      == [dst : 0 .. MaxObjects, seq : 0 .. MaxPost]
MsgT      == [src : Tasks \cup {NoTask}, seq : 0 .. MaxSend]
BlankF    == [dst |-> NoEp, seq |-> 0]
BlankT    == [src |-> NoTask, seq |-> 0]

VARIABLES
  hostFree,   \* FromHost buffers the host owns
  hostKick,   \* vrings the host still has to ring the M3 for
  hostRx,     \* the host is draining the ToHost vring
  posted,     \* number of messages the host has posted
  availF, usedF, memF,    \* vring FromHost and the contents of its buffers
  availT, usedT, memT,    \* vring ToHost and the contents of its buffers
  noIntr,     \* vring FromHost: avail.flags has NO_INTERRUPT (the host's)
  noNotify,   \* vring ToHost: used.flags has NO_NOTIFY (the M3's)
  mail,       \* mailbox slot host to M3: "none" or the id of a vring
  bell,       \* mailbox slot M3 to host: "none" or the id of a vring
  isr,        \* progress of the mailbox interrupt
  irqOn, rxStop,          \* interrupt mask bit and mchan.rx_stop
  sem,        \* holder of MessageQCopy_sem
  created, queue,         \* mQueObj: endpoints that have a queue, the queues
  pc, op, tok, tmo, ep,   \* per task: control point, call, token, timeout, handle
  sent,       \* per task: number of calls of MessageQCopy_send
  waitAvail,  \* waitAvaileBuf
  linked,     \* tasks whose event item is linked in availBufList
  sound,      \* availBufList is a well-formed list
  cpu         \* a linked task that has not been switched out since it linked itself

host  == <<hostFree, hostKick, hostRx, posted>>
ringF == <<availF, usedF, memF>>
ringT == <<availT, usedT, memT>>
slots == <<mail, bell>>
mask  == <<irqOn, rxStop>>
objs  == <<created, queue>>
list  == <<waitAvail, linked, sound>>
call  == <<op, tok, tmo, ep, sent>>
vars  == <<host, ringF, ringT, noIntr, noNotify, slots, isr, mask, sem, objs,
           pc, call, list, cpu>>

Init ==
  /\ hostFree = Bufs /\ hostKick = {} /\ hostRx = FALSE /\ posted = 0
  /\ availF = <<>> /\ usedF = <<>> /\ memF = [b \in Bufs |-> BlankF]
  /\ availT = [i \in 1 .. NumBuf |-> i - 1]
  /\ usedT = <<>> /\ memT = [b \in Bufs |-> BlankT]
  /\ noIntr \in IntrChoices /\ noNotify = TRUE
  /\ mail = "none" /\ bell = "none"
  /\ isr = "off" /\ irqOn = TRUE /\ rxStop = 0 /\ sem = NoTask
  /\ created = {} /\ queue = [e \in Endpoints |-> <<>>]
  /\ pc = [t \in Tasks |-> "idle"] /\ op = [t \in Tasks |-> "none"]
  /\ tok = [t \in Tasks |-> 0] /\ tmo = [t \in Tasks |-> "zero"]
  /\ ep = [t \in Tasks |-> NoEp] /\ sent = [t \in Tasks |-> 0]
  /\ waitAvail = 0 /\ linked = {} /\ sound = TRUE /\ cpu = NoTask

-------------------------------------------------------------------------------
(***************************************************************************)
(* The Linux host (external).  It posts a message in a buffer it owns and  *)
(* rings; it takes returned buffers back; told of a message, it accepts    *)
(* everything in the ToHost vring, offers each buffer again and rings      *)
(* unless NO_NOTIFY is set.  A ring waits for the mailbox slot.            *)
(***************************************************************************)
HostPost(e) ==
  /\ posted < MaxPost
  /\ \E b \in hostFree :
       /\ memF' = [memF EXCEPT ![b] = [dst |-> e, seq |-> posted + 1]]
       /\ availF' = Append(availF, b)
       /\ hostFree' = hostFree \ {b}
  /\ hostKick' = hostKick \cup {"from"}
  /\ posted' = posted + 1
  /\ UNCHANGED <<hostRx, usedF, ringT, noIntr, noNotify, slots, isr, mask, sem,
                 objs, pc, call, list, cpu>>

HostReclaim ==
  /\ usedF # <<>>
  /\ hostFree' = hostFree \cup {Head(usedF)}
  /\ usedF' = Tail(usedF)
  /\ memF' = [memF EXCEPT ![Head(usedF)] = BlankF]
  /\ UNCHANGED <<hostKick, hostRx, posted, availF, ringT, noIntr, noNotify,
                 slots, isr, mask, sem, objs, pc, call, list, cpu>>

HostAccept ==
  /\ hostRx /\ usedT # <<>>
  /\ usedT' = Tail(usedT)
  /\ availT' = Append(availT, Head(usedT))
  /\ memT' = [memT EXCEPT ![Head(usedT)] = BlankT]
  /\ UNCHANGED <<host, ringF, noIntr, noNotify, slots, isr, mask, sem, objs,
                 pc, call, list, cpu>>

HostRxDone ==
  /\ hostRx /\ usedT = <<>>
  /\ hostRx' = FALSE
  /\ hostKick' = IF noNotify THEN hostKick ELSE hostKick \cup {"to"}
  /\ UNCHANGED <<hostFree, posted, ringF, ringT, noIntr, noNotify, slots, isr, mask,
                 sem, objs, pc, call, list, cpu>>

HostRing(q) ==
  /\ q \in hostKick /\ mail = "none"
  /\ mail' = q
  /\ hostKick' = hostKick \ {q}
  /\ UNCHANGED <<hostFree, hostRx, posted, ringF, ringT, noIntr, noNotify, bell, isr,
                 mask, sem, objs, pc, call, list, cpu>>

HostIrq ==
  /\ bell # "none"
  /\ bell' = "none"
  /\ hostRx' = (hostRx \/ bell = "to")
  /\ UNCHANGED <<hostFree, hostKick, posted, ringF, ringT, noIntr, noNotify, mail, isr,
                 mask, sem, objs, pc, call, list, cpu>>

HostSetIntr ==
  /\ noIntr' \in IntrChoices \ {noIntr}
  /\ UNCHANGED <<host, ringF, ringT, noNotify, slots, isr, mask, sem, objs, pc, call,
                 list, cpu>>

Host == \/ \E e \in 0 .. MaxObjects : HostPost(e)
        \/ HostReclaim \/ HostAccept \/ HostRxDone
        \/ \E q \in {"from", "to"} : HostRing(q)
        \/ HostIrq \/ HostSetIntr
-------------------------------------------------------------------------------
(***************************************************************************)
(* The mailbox interrupt: hsem_irq_handler, mbox_rx_msg, VirtQueue_isr and *)
(* the vring's callback.  The interrupt bit, which keeps the mailbox slot  *)
(* busy for the host, is cleared when the callback has returned.           *)
(* "hung": the callback rang the host, and mbox_send_msg never returns in  *)
(* interrupt context.  "fault": a waiter was popped off an empty list.     *)
(***************************************************************************)
IsrEnter ==
  /\ isr = "off" /\ irqOn /\ mail # "none"
  /\ isr' = mail
  /\ UNCHANGED <<host, ringF, ringT, noIntr, noNotify, slots, mask, sem, objs, pc,
                 call, list, cpu>>

\* Mutants of callback_FromHost's loop: a refused buffer is dropped; the queued buffer
\* is handed back as well; the message overtakes those queued; the ring's index stays.
ForwardTo(q, u, a, i) ==
  /\ isr \in {"from", "fromUsed"} /\ availF # <<>>
  /\ queue' = q /\ usedF' = u /\ availF' = a /\ isr' = i
  /\ UNCHANGED <<host, memF, ringT, noIntr, noNotify, slots, mask, sem, created, pc,
                 call, list, cpu>>
Accepted(e) == e \in created /\ Len(queue[e]) < QueLen
QueuedAs(s) == LET e == memF[Head(availF)].dst
               IN  IF Accepted(e) THEN [queue EXCEPT ![e] = s] ELSE queue
HeadDst     == memF[Head(availF)].dst

IsrForwardLeaks ==
  availF # <<>>
    /\ ForwardTo(QueuedAs(Append(queue[HeadDst], Head(availF))), usedF, Tail(availF), isr)
IsrForwardFallsThrough ==
  availF # <<>> /\
  ForwardTo(QueuedAs(Append(queue[HeadDst], Head(availF))),
            Append(usedF, Head(availF)), Tail(availF), "fromUsed")
IsrForwardStays ==
  availF # <<>> /\ Accepted(HeadDst)
    /\ ForwardTo(QueuedAs(Append(queue[HeadDst], Head(availF))), usedF, availF, isr)
IsrForwardToFront ==
  /\ availF # <<>>
  /\ IF Accepted(HeadDst)
     THEN ForwardTo(QueuedAs(<<Head(availF)>> \o queue[HeadDst]), usedF, Tail(availF), isr)
     ELSE ForwardTo(queue, Append(usedF, Head(availF)), Tail(availF), "fromUsed")

\* callback_FromHost, one round of its loop: MessageQCopy_SendToTask queues the
\* buffer for its endpoint, or the buffer goes straight back to the host.
IsrForward ==
  /\ isr \in {"from", "fromUsed"} /\ availF # <<>>
  /\ LET b == Head(availF)
         e == memF[b].dst
     IN  IF e \in created /\ Len(queue[e]) < QueLen
         THEN /\ queue' = [queue EXCEPT ![e] = Append(@, b)]
              /\ UNCHANGED <<usedF, isr>>
         ELSE /\ usedF' = Append(usedF, b)
              /\ isr' = "fromUsed"
              /\ UNCHANGED queue
  /\ availF' = Tail(availF)
  /\ UNCHANGED <<host, memF, ringT, noIntr, noNotify, slots, mask, sem, created, pc,
                 call, list, cpu>>

\* callback_FromHost, the loop ends; VirtQueue_kick if it handed a buffer back.
IsrForwardEnd ==
  /\ isr \in {"from", "fromUsed"} /\ availF = <<>>
  /\ isr' = IF isr = "fromUsed" /\ ~noIntr THEN "hung" ELSE "clear"
  /\ UNCHANGED <<host, ringF, ringT, noIntr, noNotify, slots, mask, sem, objs, pc,
                 call, list, cpu>>

\* callback_ToHost: pop one waiter for each buffer the host has offered.  In a list
\* that is no longer well formed a pop may do anything.
IsrWake ==
  /\ isr = "to"
  /\ IF linked = {} \/ availT = <<>>
     THEN isr' = "clear" /\ linked' = linked
     ELSE \/ /\ Len(availT) <= Cardinality(linked)
             /\ isr' = "clear"
             /\ \E W \in SUBSET linked : /\ Cardinality(W) = Len(availT)
                                         /\ linked' = linked \ W
          \/ /\ Len(availT) > Cardinality(linked) \/ ~sound
             /\ isr' = "fault" /\ linked' = linked
  /\ cpu' = IF cpu \in linked' THEN cpu ELSE NoTask
  /\ UNCHANGED <<host, ringF, ringT, noIntr, noNotify, slots, mask, sem, objs, pc,
                 call, waitAvail, sound>>

IsrExit ==
  /\ isr = "clear"
  /\ isr' = "off"
  /\ mail' = "none"
  /\ UNCHANGED <<host, ringF, ringT, noIntr, noNotify, bell, mask, sem, objs, pc,
                 call, list, cpu>>

Isr == IsrEnter \/ IsrForward \/ IsrForwardEnd \/ IsrWake \/ IsrExit

-------------------------------------------------------------------------------
(***************************************************************************)
(* The tasks.  A task steps when no interrupt is being served; one that    *)
(* has put itself on the delayed list (linked) goes on only until it is    *)
(* switched out, and then waits for its wake-up.                           *)
(***************************************************************************)
CanRun(t) == isr = "off" /\ (t \in linked => cpu = t)
Moves(t, from, to) == CanRun(t) /\ pc[t] = from /\ pc' = [pc EXCEPT ![t] = to]
Goes(t, from, to)  == Moves(t, from, to) /\ cpu' = IF t \in linked THEN t ELSE NoTask

CreateCall(t) ==
  /\ ep[t] = NoEp
  /\ Goes(t, "idle", "lock")
  /\ op' = [op EXCEPT ![t] = "create"]
  /\ UNCHANGED <<host, ringF, ringT, noIntr, noNotify, slots, isr, mask, sem, objs,
                 tok, tmo, ep, sent, list>>

\* Mutant: recv hands the buffer back before it has copied the message.
RecvTakeReturns(t) ==
  /\ ep[t] # NoEp /\ queue[ep[t]] # <<>>
  /\ Goes(t, "idle", "copy")
  /\ op' = [op EXCEPT ![t] = "recv"]
  /\ tok' = [tok EXCEPT ![t] = Head(queue[ep[t]])]
  /\ usedF' = Append(usedF, Head(queue[ep[t]]))
  /\ queue' = [queue EXCEPT ![ep[t]] = Tail(@)]
  /\ UNCHANGED <<host, availF, memF, ringT, noIntr, noNotify, slots, isr, mask, sem,
                 created, tmo, ep, sent, list>>

\* MessageQCopy_recv: xQueueReceive returned an item (a timeout changes nothing).
RecvTake(t) ==
  /\ ep[t] # NoEp /\ queue[ep[t]] # <<>>
  /\ Goes(t, "idle", "copy")
  /\ op' = [op EXCEPT ![t] = "recv"]
  /\ tok' = [tok EXCEPT ![t] = Head(queue[ep[t]])]
  /\ queue' = [queue EXCEPT ![ep[t]] = Tail(@)]
  /\ UNCHANGED <<host, ringF, ringT, noIntr, noNotify, slots, isr, mask, sem,
                 created, tmo, ep, sent, list>>

\* The payload is copied out of the vring buffer.
RecvCopy(t) ==
  /\ Goes(t, "copy", "lock")
  /\ UNCHANGED <<host, ringF, ringT, noIntr, noNotify, slots, isr, mask, sem, objs,
                 call, list>>

SendCall(t) ==
  /\ t \in Senders /\ sent[t] < MaxSend
  /\ Goes(t, "idle", "lock")
  /\ op' = [op EXCEPT ![t] = "send"]
  /\ sent' = [sent EXCEPT ![t] = @ + 1]
  /\ \E k \in Timeouts : tmo' = [tmo EXCEPT ![t] = k]
  /\ UNCHANGED <<host, ringF, ringT, noIntr, noNotify, slots, isr, mask, sem, objs,
                 tok, ep, list>>

\* Mutant: the semaphore's time-out is not looked at.
LockUnchecked(t) ==
  /\ Goes(t, "lock", "mask")
  /\ sem' = t
  /\ UNCHANGED <<host, ringF, ringT, noIntr, noNotify, slots, isr, mask, objs, call,
                 list>>

\* MessageQCopy_enter_critical: the semaphore, then mbox_stop_rx_msg.
Lock(t) ==
  /\ sem = NoTask
  /\ Goes(t, "lock", "mask")
  /\ sem' = t
  /\ UNCHANGED <<host, ringF, ringT, noIntr, noNotify, slots, isr, mask, objs, call,
                 list>>

Mask(t) ==
  /\ Goes(t, "mask", "work")
  /\ irqOn' = FALSE
  /\ rxStop' = rxStop + 1
  /\ UNCHANGED <<host, ringF, ringT, noIntr, noNotify, slots, isr, sem, objs, call,
                 list>>

\* MessageQCopy_create: the slot it picks; a reserved number is cut to 16 bits.
FreeSlot(r) ==
  IF r = AssignAny
  THEN {e \in MaxReserved + 1 .. MaxObjects - 1 :
          /\ e \notin created
          /\ MaxReserved + 1 .. e - 1 \subseteq created}
  ELSE ({r % 65536} \cap (0 .. MaxReserved)) \ created

Create(t) ==
  /\ op[t] = "create"
  /\ Goes(t, "work", "unmask")
  /\ \/ \E e \in FreeSlot(Request[t]) :
          /\ created' = created \cup {e}
          /\ ep' = [ep EXCEPT ![t] = e]
     \/ UNCHANGED <<created, ep>>       \* no slot, or xQueueCreate out of memory
  /\ UNCHANGED <<host, ringF, ringT, noIntr, noNotify, slots, isr, mask, sem, queue,
                 op, tok, tmo, sent, list>>

\* Mutant: buffers counted from one.
RecvReturnShifted(t) ==
  /\ op[t] = "recv"
  /\ Goes(t, "work", "kick")
  /\ usedF' = Append(usedF, tok[t] + 1)
  /\ UNCHANGED <<host, availF, memF, ringT, noIntr, noNotify, slots, isr, mask, sem,
                 objs, call, list>>

\* MessageQCopy_recv: the buffer goes back to the host.
RecvReturn(t) ==
  /\ op[t] = "recv"
  /\ Goes(t, "work", "kick")
  /\ usedF' = Append(usedF, tok[t])
  /\ UNCHANGED <<host, availF, memF, ringT, noIntr, noNotify, slots, isr, mask, sem,
                 objs, call, list>>

\* VirtQueue_getAvailBuf on ToHost by task t, when a buffer is offered and when not.
TakeAvail(t) ==
  /\ availT # <<>>
  /\ availT' = Tail(availT)
  /\ tok' = [tok EXCEPT ![t] = Head(availT)]
NoneAvail == availT = <<>> /\ noNotify' = FALSE

\* Mutant: the return without a buffer skips MessageQCopy_exit_critical.
SendGetKeepsSem(t) ==
  /\ op[t] = "send"
  /\ \/ /\ TakeAvail(t) /\ Goes(t, "work", "fill")
        /\ UNCHANGED <<noNotify, waitAvail>>
     \/ /\ NoneAvail /\ tmo[t] = "zero" /\ Goes(t, "work", "idle")
        /\ UNCHANGED <<availT, tok, waitAvail>>
     \/ /\ NoneAvail /\ tmo[t] # "zero" /\ Goes(t, "work", "place")
        /\ waitAvail' = waitAvail + 1
        /\ UNCHANGED <<availT, tok>>
  /\ UNCHANGED <<host, ringF, usedT, memT, noIntr, slots, isr, mask, sem, objs, op,
                 tmo, ep, sent, linked, sound>>

\* MessageQCopy_send: the first attempt to get a buffer.
SendGet(t) ==
  /\ op[t] = "send"
  /\ \/ /\ TakeAvail(t) /\ Goes(t, "work", "fill")
        /\ UNCHANGED <<noNotify, waitAvail>>
     \/ /\ NoneAvail /\ tmo[t] = "zero" /\ Goes(t, "work", "unmask")
        /\ UNCHANGED <<availT, tok, waitAvail>>
     \/ /\ NoneAvail /\ tmo[t] # "zero" /\ Goes(t, "work", "place")
        /\ waitAvail' = waitAvail + 1
        /\ UNCHANGED <<availT, tok>>
  /\ UNCHANGED <<host, ringF, usedT, memT, noIntr, slots, isr, mask, sem, objs, op,
                 tmo, ep, sent, linked, sound>>

\* vTaskPlaceOnEventList: links the task's event item and delays the task, and
\* returns.  Linking an item that is already linked makes the list a loop; in such a
\* list vListInsert may never find the end.
SendPlace(t) ==
  /\ \/ Moves(t, "place", "retry")
     \/ ~sound /\ Moves(t, "place", "hung")
  /\ cpu' = t
  /\ linked' = linked \cup {t}
  /\ sound' = (sound /\ t \notin linked)
  /\ UNCHANGED <<host, ringF, ringT, noIntr, noNotify, slots, isr, mask, sem, objs,
                 call, waitAvail>>

\* Mutants: the timeout is reported although the attempt got a buffer; the timeout
\* leaves waitAvaileBuf as it is.
SendRetryLate(t) ==
  /\ \/ /\ TakeAvail(t) /\ Goes(t, "retry", IF tmo[t] = "finite" THEN "unmask" ELSE "fill")
        /\ waitAvail' = waitAvail - 1
        /\ noNotify' = (noNotify \/ waitAvail' = 0)
     \/ /\ NoneAvail /\ Goes(t, "retry", "place")
        /\ UNCHANGED <<availT, tok, waitAvail>>
  /\ UNCHANGED <<host, ringF, usedT, memT, noIntr, slots, isr, mask, sem, objs, op,
                 tmo, ep, sent, linked, sound>>

SendRetryCounts(t) ==
  /\ \/ /\ TakeAvail(t) /\ Goes(t, "retry", "fill")
        /\ waitAvail' = waitAvail - 1
        /\ noNotify' = (noNotify \/ waitAvail' = 0)
     \/ /\ NoneAvail /\ tmo[t] = "finite" /\ Goes(t, "retry", "unmask")
        /\ UNCHANGED <<availT, tok, waitAvail>>
     \/ /\ NoneAvail /\ Goes(t, "retry", "place")
        /\ UNCHANGED <<availT, tok, waitAvail>>
  /\ UNCHANGED <<host, ringF, usedT, memT, noIntr, slots, isr, mask, sem, objs, op,
                 tmo, ep, sent, linked, sound>>

\* The next attempt; without a buffer the wait ends at the timeout or goes round.
SendRetry(t) ==
  /\ \/ /\ TakeAvail(t) /\ Goes(t, "retry", "fill")
        /\ waitAvail' = waitAvail - 1
        /\ noNotify' = (noNotify \/ waitAvail' = 0)
     \/ /\ NoneAvail /\ tmo[t] = "finite" /\ Goes(t, "retry", "unmask")
        /\ waitAvail' = waitAvail - 1
        /\ UNCHANGED <<availT, tok>>
     \/ /\ NoneAvail /\ Goes(t, "retry", "place")
        /\ UNCHANGED <<availT, tok, waitAvail>>
  /\ UNCHANGED <<host, ringF, usedT, memT, noIntr, slots, isr, mask, sem, objs, op,
                 tmo, ep, sent, linked, sound>>

\* The message is copied into the buffer, and VirtQueue_addUsedBuf publishes it.
SendPut(t) ==
  /\ Goes(t, "fill", "kick")
  /\ memT' = [memT EXCEPT ![tok[t]] = [src |-> t, seq |-> sent[t]]]
  /\ usedT' = Append(usedT, tok[t])
  /\ UNCHANGED <<host, ringF, availT, noIntr, noNotify, slots, isr, mask, sem, objs,
                 call, list>>

\* Mutant: a ring that finds the slot taken is given up.
KickOnce(t) ==
  /\ Goes(t, "kick", "unmask")
  /\ bell' = IF (op[t] = "recv" /\ noIntr) \/ bell # "none" THEN bell
             ELSE IF op[t] = "recv" THEN "from" ELSE "to"
  /\ UNCHANGED <<host, ringF, ringT, noIntr, noNotify, mail, isr, mask, sem, objs,
                 call, list>>

\* VirtQueue_kick, RPMSG_U32Send: waits while the host has not read the last ring.
Kick(t) ==
  /\ Goes(t, "kick", "unmask")
  /\ IF op[t] = "recv" /\ noIntr
     THEN UNCHANGED bell
     ELSE /\ bell = "none"
          /\ bell' = IF op[t] = "recv" THEN "from" ELSE "to"
  /\ UNCHANGED <<host, ringF, ringT, noIntr, noNotify, mail, isr, mask, sem, objs,
                 call, list>>

\* Mutant: the count is taken back and the interrupt stays masked.
UnmaskCounts(t) ==
  /\ Goes(t, "unmask", "give")
  /\ rxStop' = IF rxStop = 0 THEN 0 ELSE rxStop - 1
  /\ UNCHANGED <<host, ringF, ringT, noIntr, noNotify, slots, isr, irqOn, sem, objs,
                 call, list>>

\* MessageQCopy_exit_critical: mbox_resume_rx_msg, then the semaphore.
Unmask(t) ==
  /\ Goes(t, "unmask", "give")
  /\ IF rxStop = 0 THEN UNCHANGED mask
     ELSE rxStop' = rxStop - 1 /\ irqOn' = TRUE
  /\ UNCHANGED <<host, ringF, ringT, noIntr, noNotify, slots, isr, sem, objs, call,
                 list>>

Give(t) ==
  /\ Goes(t, "give", "idle")
  /\ sem' = NoTask
  /\ op' = [op EXCEPT ![t] = "none"]
  /\ tok' = [tok EXCEPT ![t] = 0]          \* the call's locals are gone
  /\ tmo' = [tmo EXCEPT ![t] = "zero"]
  /\ UNCHANGED <<host, ringF, ringT, noIntr, noNotify, slots, isr, mask, objs, ep,
                 sent, list>>

\* The kernel's tick: the task's delay is over, its event item is unlinked.
Tick(t) ==
  /\ isr = "off" /\ t \in linked
  /\ linked' = linked \ {t}
  /\ cpu' = IF cpu = t THEN NoTask ELSE cpu
  /\ UNCHANGED <<host, ringF, ringT, noIntr, noNotify, slots, isr, mask, sem, objs,
                 pc, call, waitAvail, sound>>

\* A task that is still linked blocks in the kernel, which links its event item again.
BlockLinked(t) ==
  /\ CanRun(t) /\ t \in linked
  /\ \/ pc[t] = "lock" /\ sem # NoTask
     \/ pc[t] = "idle" /\ ep[t] # NoEp /\ queue[ep[t]] = <<>>
  /\ sound' = FALSE /\ cpu' = NoTask
  /\ UNCHANGED <<host, ringF, ringT, noIntr, noNotify, slots, isr, mask, sem, objs,
                 pc, call, waitAvail, linked>>

Calls(t) == CreateCall(t) \/ SendCall(t)
Step(t)  == \/ RecvTake(t) \/ RecvCopy(t) \/ Mask(t) \/ Create(t) \/ RecvReturn(t)
            \/ SendGet(t) \/ SendPlace(t) \/ SendRetry(t) \/ SendPut(t)
            \/ Kick(t) \/ Unmask(t) \/ Give(t)
Task(t)  == Calls(t) \/ Lock(t) \/ Step(t) \/ Tick(t) \/ BlockLinked(t)

Next == Host \/ Isr \/ \E t \in Tasks : Task(t)

Spec == Init /\ [][Next]_vars

(***************************************************************************)
(* Fairness.  The NVIC takes a pending interrupt once it is unmasked (SF:  *)
(* tasks mask it again and again) and lets it finish (WF); FreeRTOS        *)
(* runs ready tasks round-robin and hands the semaphore over in the order  *)
(* of arrival among equals; the Linux driver serves its interrupts and its *)
(* pending rings, but need not post.                                       *)
(***************************************************************************)
Fairness ==
  /\ SF_vars(IsrEnter) /\ WF_vars(Isr)
  /\ WF_vars(HostIrq) /\ WF_vars(HostAccept) /\ WF_vars(HostRxDone)
  /\ WF_vars(HostReclaim)
  /\ \A q \in {"from", "to"} : WF_vars(HostRing(q))
  /\ \A t \in Tasks : WF_vars(Step(t)) /\ SF_vars(Lock(t)) /\ WF_vars(Tick(t))

FairSpec == Spec /\ Fairness

-------------------------------------------------------------------------------
Points == {"idle", "copy", "lock", "mask", "work", "fill", "place", "retry", "kick",
           "unmask", "give", "hung"}

\* Types of the variables, part by part.
TypeHost == /\ hostFree \subseteq Bufs /\ hostKick \subseteq {"from", "to"}
            /\ hostRx \in BOOLEAN /\ posted \in 0 .. MaxPost
TypeF    == availF \in Seq(Bufs) /\ usedF \in Seq(Bufs) /\ memF \in [Bufs -> MsgF]
TypeT    == availT \in Seq(Bufs) /\ usedT \in Seq(Bufs) /\ memT \in [Bufs -> MsgT]
TypeWire == /\ noIntr \in BOOLEAN /\ noNotify \in BOOLEAN
            /\ mail \in {"none", "from", "to"} /\ bell \in {"none", "from", "to"}
            /\ isr \in {"off", "from", "fromUsed", "to", "clear", "hung", "fault"}
            /\ irqOn \in BOOLEAN /\ rxStop \in Nat /\ sem \in Tasks \cup {NoTask}
TypeObjs == created \subseteq Endpoints /\ queue \in [Endpoints -> Seq(Bufs)]
TypeTask == /\ pc \in [Tasks -> Points]
            /\ op \in [Tasks -> {"none", "create", "recv", "send"}]
            /\ tok \in [Tasks -> Bufs] /\ tmo \in [Tasks -> {"zero", "finite", "forever"}]
            /\ ep \in [Tasks -> 0 .. MaxObjects] /\ sent \in [Tasks -> 0 .. MaxSend]
TypeWait == /\ waitAvail \in Int /\ linked \subseteq Tasks /\ sound \in BOOLEAN
            /\ cpu \in Tasks \cup {NoTask}
TypeOK   == /\ TypeHost /\ TypeF /\ TypeT /\ TypeWire /\ TypeObjs /\ TypeTask
            /\ TypeWait

(***************************************************************************)
(* Who has a buffer.  HoldsF, HoldsT: task t has taken its token from the  *)
(* vring and not handed it back.                                           *)
(***************************************************************************)
Elems(s)    == {s[i] : i \in DOMAIN s}
Distinct(s) == \A i, j \in DOMAIN s : s[i] = s[j] => i = j
HoldsF(t)   == op[t] = "recv" /\ pc[t] \in {"copy", "lock", "mask", "work"}
HoldsT(t)   == pc[t] = "fill"
InCritical(t) == pc[t] \in {"work", "fill", "place", "retry", "kick", "unmask", "hung"}
HasSem(t)     == InCritical(t) \/ pc[t] \in {"mask", "give"}

\* FromHost: no buffer is in two places at once - owned by the host, offered to the
\* M3, in an endpoint's queue, read by a task, handed back - so none is handed back
\* twice or rewritten by the host while a task copies from it (MessageQCopy_recv
\* copies before, and returns the buffer inside, its critical section; the interrupt
\* returns those it cannot queue).
ExclusiveF ==
  /\ Distinct(availF) /\ Distinct(usedF)
  /\ Elems(availF) \cap Elems(usedF) = {}
  /\ hostFree \cap (Elems(availF) \cup Elems(usedF)) = {}
  /\ \A e \in Endpoints :
       /\ Distinct(queue[e])
       /\ Elems(queue[e]) \cap (hostFree \cup Elems(availF) \cup Elems(usedF)) = {}
       /\ \A d \in Endpoints : d # e => Elems(queue[e]) \cap Elems(queue[d]) = {}
  /\ \A t \in Tasks : HoldsF(t) =>
       /\ tok[t] \notin hostFree \cup Elems(availF) \cup Elems(usedF)
       /\ \A e \in Endpoints : tok[t] \notin Elems(queue[e])
       /\ \A u \in Tasks : HoldsF(u) /\ u # t => tok[u] # tok[t]

\* ToHost: no buffer is in two places at once - offered by the host, being filled by
\* a sender, handed to the host.
ExclusiveT ==
  /\ Distinct(availT) /\ Distinct(usedT)
  /\ Elems(availT) \cap Elems(usedT) = {}
  /\ \A t \in Tasks : HoldsT(t) =>
       /\ tok[t] \notin Elems(availT) \cup Elems(usedT)
       /\ \A u \in Tasks : HoldsT(u) /\ u # t => tok[u] # tok[t]

\* Both together: a buffer has one owner, in whatever order tasks, interrupt and host
\* pass it on.
Exclusive == ExclusiveF /\ ExclusiveT

\* No buffer is lost: every path of the interrupt, of recv and of send, the refused
\* and the timed-out ones included, leaves each buffer somewhere it comes back from.
NoLeak ==
  /\ Bufs = hostFree \cup Elems(availF) \cup Elems(usedF)
              \cup (UNION {Elems(queue[e]) : e \in created})
              \cup {tok[t] : t \in {u \in Tasks : HoldsF(u)}}
  /\ Bufs = Elems(availT) \cup Elems(usedT) \cup {tok[t] : t \in {u \in Tasks : HoldsT(u)}}

\* MessageQCopy_enter_critical keeps other tasks and the mailbox interrupt out of the
\* vring indexes until MessageQCopy_exit_critical: one holder, masked, no interrupt
\* under way, and the mask count matches.
CriticalSection ==
  /\ \A t \in Tasks : HasSem(t) <=> sem = t
  /\ \A t \in Tasks : InCritical(t) => ~irqOn /\ isr = "off"
  /\ rxStop = IF irqOn THEN 0 ELSE 1

\* A message for an endpoint that exists is never refused for a full queue: the
\* buffers of the vring cannot fill the QUE_LEN entries of one queue.
QueueHasRoom == \A e \in Endpoints : Len(queue[e]) <= QueLen
                  /\ (availF # <<>> => Len(queue[e]) < QueLen)

\* Two tasks never get the same endpoint from MessageQCopy_create, and a queue holds
\* messages for its own endpoint only.
EndpointsOwned ==
  /\ \A t, u \in Tasks : t # u /\ ep[t] = ep[u] => ep[t] = NoEp
  /\ \A e \in Endpoints : \A b \in Elems(queue[e]) : memF[b].dst = e /\ e \in created

\* The doorbell to the host is never lost: as long as a message is in the ToHost
\* vring, a ring is pending, the host is draining, or its sender is about to ring.
\* The rings of both vrings share one mailbox slot, which RPMSG_U32Send polls.
BellPending ==
  usedT # <<>> => \/ bell = "to" \/ hostRx
                  \/ \E t \in Tasks : op[t] = "send" /\ pc[t] = "kick"

\* The doorbell to the M3 is never lost: as long as a message is offered, a ring is
\* pending or wanted, or the interrupt is still in its loop.
MailPending ==
  availF # <<>> => mail = "from" \/ "from" \in hostKick

\* No doorbell is lost in either direction, although RPMSG_U32Send and the mailbox
\* interrupt have one slot for the rings of two vrings.
RingsKept == BellPending /\ MailPending

\* waitAvaileBuf counts the senders in the wait loop, and while one waits NO_NOTIFY
\* is off, so that the host rings for the buffers it offers.
WaitersCounted ==
  /\ waitAvail = Cardinality({t \in Tasks : pc[t] \in {"place", "retry", "hung"}})
  /\ waitAvail > 0 => ~noNotify

(***************************************************************************)
(* The transport as its users see it: a first-in-first-out channel to each *)
(* endpoint and one to the host (module RpmsgChannel).                     *)
(* What waits for endpoint e is in the buffer its task copies from, in its *)
(* queue, and in the entries of the vring that carry its number, in this   *)
(* order.  EntriesAt(s, I) is the subsequence of s at the places I: the    *)
(* k-th of them is the one with k places of I up to and including it.      *)
(***************************************************************************)
InHand(e)   == {t \in Tasks : ep[t] = e /\ op[t] = "recv" /\ pc[t] = "copy"}
Rank(I, i)  == Cardinality({j \in I : j <= i})
Place(I, k) == CHOOSE i \in I : Rank(I, i) = k
EntriesAt(s, I) == [k \in 1 .. Cardinality(I) |-> s[Place(I, k)]]
Slots(e)    == {i \in DOMAIN availF : memF[availF[i]].dst = e}
Reading(e)  == IF e # NoEp /\ InHand(e) # {} THEN <<tok[CHOOSE t \in InHand(e) : TRUE]>>
               ELSE <<>>
Queued(e)   == IF e \in Endpoints THEN queue[e] ELSE <<>>
Offered(e)  == EntriesAt(availF, Slots(e))
TokensF(e)  == Reading(e) \o Queued(e) \o Offered(e)
Contents(m, s) == [i \in DOMAIN s |-> m[s[i]]]
Pending     == [e \in 0 .. MaxObjects |-> Contents(memF, TokensF(e))]
Out         == Contents(memT, usedT)
Channel     == INSTANCE RpmsgChannel WITH
  Ends <- 0 .. MaxObjects, MsgIn <- MsgF, MsgOut <- MsgT,
  open <- created, pending <- Pending, out <- Out

\* The transport implements the channel: to an endpoint that exists every message is
\* delivered once, in order and unaltered; only messages for an endpoint that does
\* not exist are dropped; what send published reaches the host once and in order.
ImplementsChannel == Channel!Spec

\* Every message for an endpoint that exists is eventually read by its task.
Delivered ==
  \A e \in Endpoints : \A n \in 1 .. MaxPost :
    LET Waiting == \E i \in DOMAIN TokensF(e) : memF[TokensF(e)[i]].seq = n
    IN  (e \in created /\ Waiting) ~> ~Waiting

\* A task that enters the critical section leaves it: no call of the API holds the
\* semaphore for ever.
SemReleased == \A t \in Tasks : sem = t ~> sem # t

(***************************************************************************)
(* What the comments say (the code does otherwise, see the README).        *)
(***************************************************************************)
\* "Because this function is not an application code, there is not the problem with
\* using vTaskPlaceOnEventList" (MessageQCopy.c): the wait list stays well formed.
WaitListSound == sound

\* "... there is not the problem with using xTaskRemoveFromEventList": the interrupt
\* pops waiters only while there are any.
PopsOnlyWaiters == isr # "fault"

\* mbox_send_msg "can be used in an interrupt service routine": the interrupt that
\* rings the host returns.
IsrReturns == isr # "hung"
===============================================================================
