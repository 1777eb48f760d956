--------------------------------- MODULE Mbox ---------------------------------
(***************************************************************************)
(* The mailbox driver on hardware semaphores (device "hsem mailbox"): its  *)
(* channels, the mask register all channels share, one word of memory per  *)
(* channel and direction, the interrupt, and the tasks that request, free, *)
(* stop, resume and send.  A task uses a channel only while it holds a     *)
(* handle for it.  The application processor (AP) is external.             *)
(***************************************************************************)
EXTENDS Integers, Sequences, FiniteSets

CONSTANTS
  Tasks, NoTask,
  Chan,        \* the channels (the id is also the bit in the registers)
  Wants,       \* Wants[t]: the channels task t may request
  Sends,       \* Sends[t]: the channels task t sends on
  ApEarly,     \* the AP may ring a channel nobody has requested yet
  MaxTx,       \* bound: messages sent per channel to the AP
  MaxRx,       \* bound: messages of the AP per channel
  MaxStop,     \* bound: nested stops of a channel
  Tries,       \* TX_TIMEOUT: attempts of mbox_os_wait_send_msg
  Frees        \* TRUE: channels are freed again

ASSUME MboxAssumption == /\ NoTask \notin Tasks /\ Chan # {}
                         /\ Wants \in [Tasks -> SUBSET Chan]
                         /\ Sends \in [Tasks -> SUBSET Chan]
                         /\ ApEarly \in BOOLEAN /\ Frees \in BOOLEAN
                         /\ MaxTx \in Nat /\ MaxRx \in Nat /\ MaxStop \in Nat
                         /\ Tries \in Nat \ {0}

VARIABLES
  assigned, rxStop, \* mchan.assigned, mchan.rx_stop
  hsem,             \* mbox->hsem is not NULL
  locked, withCb, withCookie,   \* v_hsem_locks: assigned, lock_cb set, cookie set
  imscb,            \* mask register: enabled channels
  risb, rxMem,      \* pending rings of the AP, its messages
  risa, txMem,      \* rings the AP has not cleared, the messages for it
  sem,              \* holder of dev->sem
  pending,          \* the interrupt: misb still to be served; {} when not running
  pc, ch, reg,      \* per task: control point, channel, copy of imscb
  tries,            \* per task: attempts left, Plain for mbox_send_msg itself
  has,              \* per task: the channels it got a handle for
  fault,            \* a NULL lock or cookie was used
  apSent, got,      \* per channel: messages the AP has sent; seen by rx_cb
  sent, apGot,      \* per channel: number of messages written; those the AP has read
  failed            \* per channel: messages sent and reported as failed

lock   == <<locked, withCb, withCookie>>
chans  == <<assigned, rxStop, hsem, lock>>
fromAp == <<risb, rxMem, apSent, got>>
toAp   == <<risa, txMem, sent, apGot, failed>>
task   == <<ch, tries>>
vars   == <<chans, imscb, fromAp, toAp, sem, pending, pc, task, reg, has, fault>>

Plain  == -1

\* mbox_init and hsem_init have run.
Init ==
  /\ assigned = [c \in Chan |-> FALSE] /\ rxStop = [c \in Chan |-> 0]
  /\ hsem = [c \in Chan |-> FALSE] /\ locked = {} /\ withCb = {} /\ withCookie = {}
  /\ imscb = {} /\ sem = NoTask /\ pending = {}
  /\ risb = {} /\ rxMem = [c \in Chan |-> 0] /\ apSent = [c \in Chan |-> 0]
  /\ got = [c \in Chan |-> <<>>]
  /\ risa = {} /\ txMem = [c \in Chan |-> 0] /\ sent = [c \in Chan |-> 0]
  /\ apGot = [c \in Chan |-> <<>>] /\ failed = [c \in Chan |-> {}]
  /\ pc = [t \in Tasks |-> "idle"] /\ ch = [t \in Tasks |-> CHOOSE c \in Chan : TRUE]
  /\ reg = [t \in Tasks |-> {}] /\ tries = [t \in Tasks |-> Plain]
  /\ has = [t \in Tasks |-> {}] /\ fault = FALSE

-------------------------------------------------------------------------------
\* The AP sends when its last ring has been cleared, and reads what it is sent.
ApSend(c) ==
  /\ c \notin risb /\ apSent[c] < MaxRx
  /\ ApEarly \/ \E t \in Tasks : c \in has[t]
  /\ apSent' = [apSent EXCEPT ![c] = @ + 1]
  /\ rxMem' = [rxMem EXCEPT ![c] = apSent'[c]]
  /\ risb' = risb \cup {c}
  /\ UNCHANGED <<chans, imscb, got, toAp, sem, pending, pc, task, reg, has, fault>>
ApRead(c) ==
  /\ c \in risa
  /\ apGot' = [apGot EXCEPT ![c] = Append(@, txMem[c])]
  /\ risa' = risa \ {c}
  /\ UNCHANGED <<chans, imscb, fromAp, txMem, sent, failed, sem, pending, pc, task, reg,
                 has, fault>>

-------------------------------------------------------------------------------
\* hsem_irq_handler: the pending unmasked channels, one after the other; mbox_rx_msg
\* hands the message to the channel's rx_cb; the ring is cleared whatever happened.
IsrEnter ==
  /\ pending = {} /\ risb \cap imscb # {} /\ ~fault
  /\ pending' = risb \cap imscb
  /\ UNCHANGED <<chans, imscb, fromAp, toAp, sem, pc, task, reg, has, fault>>

IsrServe ==
  /\ ~fault
  /\ \E c \in pending :
       /\ pending' = pending \ {c}
       /\ risb' = risb \ {c}
       /\ got' = IF c \in withCb \cap withCookie
                 THEN [got EXCEPT ![c] = Append(@, rxMem[c])] ELSE got
       /\ fault' = (c \in withCb \ withCookie)
  /\ UNCHANGED <<chans, imscb, rxMem, apSent, toAp, sem, pc, task, reg, has>>

-------------------------------------------------------------------------------
\* A task steps only while the interrupt is not being served.
Goes(t, from, to) == /\ pending = {} /\ ~fault
                     /\ pc[t] = from /\ pc' = [pc EXCEPT ![t] = to]
Call(t, c, to) == Goes(t, "idle", to) /\ ch' = [ch EXCEPT ![t] = c]
TakeSem(t, from, to) == sem = NoTask /\ sem' = t /\ Goes(t, from, to)

(* mbox_request_channel: the check comes before the semaphore.             *)
Request(t, c) ==
  /\ c \in Wants[t] /\ c \notin has[t] /\ ~assigned[c]
  /\ Call(t, c, "request")
  /\ UNCHANGED <<chans, imscb, fromAp, toAp, sem, pending, tries, reg, has, fault>>

RequestSem(t) ==
  /\ TakeSem(t, "request", "assign")
  /\ UNCHANGED <<chans, imscb, fromAp, toAp, pending, task, reg, has, fault>>

\* hsem_lock_request gives no lock when it is assigned already, and the request
\* succeeds without one.
Assign(t) == LET c == ch[t] IN
  /\ Goes(t, "assign", IF c \in locked THEN "requested" ELSE "enable")
  /\ assigned' = [assigned EXCEPT ![c] = TRUE]
  /\ rxStop' = [rxStop EXCEPT ![c] = 0]
  /\ hsem' = [hsem EXCEPT ![c] = @ /\ c \notin locked]
  /\ locked' = locked \cup {c}
  /\ reg' = [reg EXCEPT ![t] = imscb]
  /\ UNCHANGED <<withCb, withCookie, imscb, fromAp, toAp, sem, pending, task, has,
                 fault>>

\* hsem_enable_irq: imscb |= BIT(id), a load (before) and a store.
EnableIrq(t) ==
  /\ Goes(t, "enable", "callback")
  /\ imscb' = reg[t] \cup {ch[t]}
  /\ reg' = [reg EXCEPT ![t] = {}]
  /\ UNCHANGED <<chans, fromAp, toAp, sem, pending, task, has, fault>>
SetCallback(t) ==
  /\ Goes(t, "callback", "cookie")
  /\ withCb' = withCb \cup {ch[t]}
  /\ UNCHANGED <<assigned, rxStop, hsem, locked, withCookie, imscb, fromAp, toAp, sem,
                 pending, task, reg, has, fault>>
SetCookie(t) ==
  /\ Goes(t, "cookie", "requested")
  /\ withCookie' = withCookie \cup {ch[t]}
  /\ hsem' = [hsem EXCEPT ![ch[t]] = TRUE]
  /\ UNCHANGED <<assigned, rxStop, locked, withCb, imscb, fromAp, toAp, sem, pending,
                 task, reg, has, fault>>
Requested(t) ==
  /\ Goes(t, "requested", "idle")
  /\ sem' = NoTask
  /\ has' = [has EXCEPT ![t] = @ \cup {ch[t]}]
  /\ reg' = [reg EXCEPT ![t] = {}]
  /\ UNCHANGED <<chans, imscb, fromAp, toAp, pending, task, fault>>

(* mbox_free_channel.                                                      *)
Free(t, c) ==
  /\ Frees /\ c \in has[t] /\ assigned[c]
  /\ Call(t, c, "free")
  /\ has' = [has EXCEPT ![t] = @ \ {c}]
  /\ UNCHANGED <<chans, imscb, fromAp, toAp, sem, pending, tries, reg, fault>>
FreeSem(t) ==
  /\ TakeSem(t, "free", IF hsem[ch[t]] THEN "disable" ELSE "freed")
  /\ assigned' = [assigned EXCEPT ![ch[t]] = FALSE]
  /\ rxStop' = [rxStop EXCEPT ![ch[t]] = 0]
  /\ reg' = [reg EXCEPT ![t] = imscb]
  /\ UNCHANGED <<hsem, lock, imscb, fromAp, toAp, pending, task, has, fault>>
\* hsem_lock_free: imscb &= ~BIT(id) and the lock is wiped.
FreeLock(t) ==
  /\ Goes(t, "disable", "freed")
  /\ imscb' = reg[t] \ {ch[t]}
  /\ locked' = locked \ {ch[t]} /\ withCb' = withCb \ {ch[t]}
  /\ withCookie' = withCookie \ {ch[t]}
  /\ reg' = [reg EXCEPT ![t] = {}]
  /\ UNCHANGED <<assigned, rxStop, hsem, fromAp, toAp, sem, pending, task, has, fault>>
Freed(t) ==
  /\ Goes(t, "freed", "idle")
  /\ sem' = NoTask
  /\ reg' = [reg EXCEPT ![t] = {}]
  /\ UNCHANGED <<chans, imscb, fromAp, toAp, pending, task, has, fault>>

(* mbox_stop_rx_msg: inside taskENTER_CRITICAL, so one step.               *)
Stop(t, c) ==
  /\ c \in has[t] /\ rxStop[c] < MaxStop
  /\ Call(t, c, "idle")
  /\ imscb' = IF hsem[c] THEN imscb \ {c} ELSE imscb
  /\ rxStop' = [rxStop EXCEPT ![c] = @ + 1]
  /\ UNCHANGED <<assigned, hsem, lock, fromAp, toAp, sem, pending, tries, reg, has, fault>>

(* mbox_resume_rx_msg: under the semaphore, not the critical section.      *)
Resume(t, c) ==
  /\ c \in has[t] /\ rxStop[c] # 0
  /\ Call(t, c, "resume")
  /\ UNCHANGED <<chans, imscb, fromAp, toAp, sem, pending, tries, reg, has, fault>>
\* Mutant: the mask register is read before the semaphore is taken.
ResumeNoSem(t) ==
  /\ Goes(t, "resume", "unmask")
  /\ sem' = t
  /\ rxStop' = [rxStop EXCEPT ![ch[t]] = @ - 1]
  /\ reg' = [reg EXCEPT ![t] = imscb]
  /\ UNCHANGED <<assigned, hsem, lock, imscb, fromAp, toAp, pending, task, has, fault>>
ResumeSem(t) ==
  /\ TakeSem(t, "resume", "unmask")
  /\ rxStop' = [rxStop EXCEPT ![ch[t]] = @ - 1]
  /\ reg' = [reg EXCEPT ![t] = imscb]
  /\ UNCHANGED <<assigned, hsem, lock, imscb, fromAp, toAp, pending, task, has, fault>>
\* Mutant: the stop is taken back and the interrupt stays masked.
UnmaskCounts(t) ==
  /\ Goes(t, "unmask", "resumed")
  /\ reg' = [reg EXCEPT ![t] = {}]
  /\ UNCHANGED <<chans, imscb, fromAp, toAp, sem, pending, task, has, fault>>
Unmask(t) ==
  /\ Goes(t, "unmask", "resumed")
  /\ imscb' = IF hsem[ch[t]] THEN reg[t] \cup {ch[t]} ELSE imscb
  /\ reg' = [reg EXCEPT ![t] = {}]
  /\ UNCHANGED <<chans, fromAp, toAp, sem, pending, task, has, fault>>
Resumed(t) ==
  /\ Goes(t, "resumed", "idle")
  /\ sem' = NoTask
  /\ UNCHANGED <<chans, imscb, fromAp, toAp, pending, task, reg, has, fault>>

(* mbox_send_msg, alone or in the loop of mbox_os_wait_send_msg, whose     *)
(* attempts after the first one count tries down to zero.                  *)
Send(t, c) ==
  /\ c \in Sends[t] \cap has[t] /\ assigned[c] /\ sent[c] < MaxTx
  /\ Call(t, c, "send")
  /\ \E n \in {Plain, Tries} : tries' = [tries EXCEPT ![t] = n]
  /\ UNCHANGED <<chans, imscb, fromAp, toAp, sem, pending, reg, has, fault>>

\* Mutant: the last ring is not looked at.
SendUnchecked(t) ==
  /\ Goes(t, "send", "sendSem")
  /\ UNCHANGED <<chans, imscb, fromAp, toAp, sem, pending, task, reg, has, fault>>
\* mbox_is_ready: the AP has cleared the last ring; otherwise MBOX_BUSY.
SendReady(t) ==
  /\ ch[t] \notin risa /\ Goes(t, "send", "sendSem")
  /\ UNCHANGED <<chans, imscb, fromAp, toAp, sem, pending, task, reg, has, fault>>
SendBusy(t) ==
  /\ ch[t] \in risa
  /\ Goes(t, "send", IF tries[t] \in {Plain, 0} THEN "idle" ELSE "delay")
  /\ tries' = [tries EXCEPT ![t] = IF @ = 0 THEN Plain ELSE @]
  /\ UNCHANGED <<chans, imscb, fromAp, toAp, sem, pending, ch, reg, has, fault>>
SendAgain(t) ==
  /\ Goes(t, "delay", "send")
  /\ tries' = [tries EXCEPT ![t] = @ - 1]
  /\ UNCHANGED <<chans, imscb, fromAp, toAp, sem, pending, ch, reg, has, fault>>
SendSem(t) ==
  /\ TakeSem(t, "sendSem", "write")
  /\ UNCHANGED <<chans, imscb, fromAp, toAp, pending, task, reg, has, fault>>
Write(t) ==
  /\ Goes(t, "write", "ring")
  /\ sent' = [sent EXCEPT ![ch[t]] = @ + 1]
  /\ txMem' = [txMem EXCEPT ![ch[t]] = sent'[ch[t]]]
  /\ UNCHANGED <<chans, imscb, fromAp, risa, apGot, failed, sem, pending, task, reg, has,
                 fault>>
\* hsem_try_lock until it succeeds, hsem_unlock: the ring to the AP.
Ring(t) ==
  /\ Goes(t, "ring", "sent")
  /\ fault' = ~hsem[ch[t]]
  /\ risa' = IF hsem[ch[t]] THEN risa \cup {ch[t]} ELSE risa
  /\ UNCHANGED <<chans, imscb, fromAp, txMem, sent, apGot, failed, sem, pending, task,
                 reg, has>>
\* Mutant: the semaphore is given back only when the message was in time.
SentKeeps(t) ==
  /\ Goes(t, "sent", "idle")
  /\ sem' = IF tries[t] = 0 THEN sem ELSE NoTask
  /\ tries' = [tries EXCEPT ![t] = Plain]
  /\ UNCHANGED <<chans, imscb, fromAp, toAp, pending, ch, reg, has, fault>>
\* The semaphore is given back; the last of the tries overwrites the result.
Sent(t) ==
  /\ Goes(t, "sent", "idle")
  /\ sem' = NoTask
  /\ failed' = [failed EXCEPT ![ch[t]] = IF tries[t] = 0 THEN @ \cup {sent[ch[t]]} ELSE @]
  /\ tries' = [tries EXCEPT ![t] = Plain]
  /\ UNCHANGED <<chans, imscb, fromAp, risa, txMem, sent, apGot, pending, ch, reg, has,
                 fault>>

Call1(t) == \E c \in Chan : \/ Request(t, c) \/ Free(t, c) \/ Stop(t, c)
                            \/ Resume(t, c) \/ Send(t, c)
Step(t) == \/ RequestSem(t) \/ Assign(t) \/ EnableIrq(t) \/ SetCallback(t)
           \/ SetCookie(t) \/ Requested(t) \/ FreeSem(t) \/ FreeLock(t) \/ Freed(t)
           \/ ResumeSem(t) \/ Unmask(t) \/ Resumed(t) \/ SendReady(t) \/ SendBusy(t)
           \/ SendAgain(t) \/ SendSem(t) \/ Write(t) \/ Ring(t) \/ Sent(t)
Isr  == IsrEnter \/ IsrServe
Next == \/ \E c \in Chan : ApSend(c) \/ ApRead(c)
        \/ Isr \/ \E t \in Tasks : Call1(t) \/ Step(t)

Spec == Init /\ [][Next]_vars

\* The interrupt is taken when it is pending and unmasked (SF: a task may mask it again
\* and again), a task goes on with its call, takers of dev->sem are served in turn
\* (SF), and the AP reads what it is sent.
FairSpec == /\ Spec /\ SF_vars(IsrEnter) /\ WF_vars(IsrServe)
            /\ \A t \in Tasks : SF_vars(Step(t))
            /\ \A c \in Chan : WF_vars(ApRead(c))

-------------------------------------------------------------------------------
Points == {"idle", "request", "assign", "enable", "callback", "cookie", "requested",
           "free", "disable", "freed", "resume", "unmask", "resumed", "send", "delay",
           "sendSem", "write", "ring", "sent"}

\* Types of the variables, part by part.
TypeChan == /\ assigned \in [Chan -> BOOLEAN] /\ rxStop \in [Chan -> 0 .. MaxStop]
            /\ hsem \in [Chan -> BOOLEAN]
            /\ locked \subseteq Chan /\ withCb \subseteq Chan /\ withCookie \subseteq Chan
TypeMask == imscb \subseteq Chan /\ reg \in [Tasks -> SUBSET Chan]
TypeRx   == /\ risb \subseteq Chan /\ pending \subseteq Chan
            /\ rxMem \in [Chan -> 0 .. MaxRx] /\ apSent \in [Chan -> 0 .. MaxRx]
            /\ got \in [Chan -> Seq(1 .. MaxRx)]
TypeTx   == /\ risa \subseteq Chan
            /\ txMem \in [Chan -> 0 .. MaxTx] /\ sent \in [Chan -> 0 .. MaxTx]
            /\ apGot \in [Chan -> Seq(1 .. MaxTx)]
            /\ failed \in [Chan -> SUBSET (1 .. MaxTx)]
TypeTask == /\ sem \in Tasks \cup {NoTask} /\ pc \in [Tasks -> Points]
            /\ ch \in [Tasks -> Chan] /\ tries \in [Tasks -> -1 .. Tries]
            /\ has \in [Tasks -> SUBSET Chan]
TypeOK   == TypeChan /\ TypeMask /\ TypeRx /\ TypeTx /\ TypeTask /\ fault \in BOOLEAN

UpTo(n) == [i \in 1 .. n |-> i]
One(b)  == IF b THEN 1 ELSE 0
On(c, P) == \E t \in Tasks : ch[t] = c /\ pc[t] \in P
Held(c) == \E t \in Tasks : c \in has[t]

\* Sending: with one sender on a channel the AP reads every message once, unaltered and
\* in order; none is written over one the AP has not read (mbox_is_ready).
TxInOrder ==
  \A c \in Chan :
    /\ apGot[c] = UpTo(Len(apGot[c]))
    /\ Len(apGot[c]) + One(c \in risa) + One(On(c, {"ring"})) = sent[c]
    /\ c \in risa => txMem[c] = sent[c]

\* Receiving: every message of the AP on a channel that was requested before reaches
\* rx_cb once and in order, whichever channels are stopped and resumed meanwhile.
RxInOrder ==
  \A c \in Chan : /\ got[c] = UpTo(Len(got[c]))
                  /\ Len(got[c]) + One(c \in risb) = apSent[c]

\* Both directions, with the types of what they count.
InOrder == TypeOK /\ TxInOrder /\ RxInOrder

\* No unmasking is lost: a channel somebody holds, that is not stopped and on which no
\* call is under way, is enabled, although all channels share one mask register that
\* request, free and resume read, change and write in steps.
ReceptionOn ==
  \A c \in Chan : Held(c) /\ rxStop[c] = 0 /\ hsem[c]
                    /\ ~On(c, {"unmask", "free", "disable", "freed"}) => c \in imscb

\* A message waiting on a channel in use is received, or the channel is stopped or freed
\* (unless the interrupt has followed a cookie that is not set, see
\* NoIrqWithoutCallback): no unmasking comes too late for a message that waits.
Received == \A c \in Chan : (c \in risb /\ Held(c)) ~> (c \notin risb \/ rxStop[c] > 0
                                                         \/ ~Held(c) \/ fault)

\* A call that has begun ends, also when every channel is used at once: no taker of
\* dev->sem waits for ever (with the same exception).
CallsEnd == \A t \in Tasks : pc[t] # "idle" ~> (pc[t] = "idle" \/ fault)

(***************************************************************************)
(* What the comments say (the code does otherwise, see the README).        *)
(***************************************************************************)
\* "The channel is exclusively allocated and can't be used by another user before the
\* owner calls mbox_free_channel" (mbox_request_channel).
ExclusiveAllocation == \A t, u \in Tasks : t # u => has[t] \cap has[u] = {}

\* "Stop message reception for requested Mailbox channel by disabling the interrupt"
\* (mbox_stop_rx_msg): a channel that is stopped stays masked until it is resumed.
StoppedMasked == \A c \in Chan : rxStop[c] > 0 => c \notin imscb

\* "MBOX_ERROR if message not sent due to error": no message that was sent is reported
\* as not sent.
ErrorMeansNotSent == \A c \in Chan : failed[c] = {}

\* "If not set, no IRQ will be triggered when HSEM is unlocked" (hsem_lock_request, of
\* the callback): the interrupt is taken only for locks with their callback set.
NoIrqWithoutCallback == pending \subseteq withCb \cap withCookie
===============================================================================
