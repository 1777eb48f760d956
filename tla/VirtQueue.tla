------------------------------ MODULE VirtQueue -------------------------------
(***************************************************************************)
(* One vring: the index rings avail and used in memory shared with the     *)
(* Linux host, read and written without a lock by two processors.  The     *)
(* indexes are uint16_t counters that run free and wrap at IdxSize; a slot *)
(* is an index modulo vring.num.  On the M3 side the calls are serialised  *)
(* by the critical section of MessageQCopy, so there is one M3 actor; every*)
(* access of either side to a shared word is a step of its own.            *)
(***************************************************************************)
EXTENDS Integers, Sequences

CONSTANTS Num,      \* vring.num, M3_RPMSG_VQ_SIZE
          IdxSize   \* 2^16: the indexes are uint16_t

\* "expressed in number of buffers supported, and must be power of two"
ASSUME NumAssumption == /\ Num \in Nat \ {0} /\ IdxSize \in Nat
                        /\ Num < IdxSize /\ IdxSize % Num = 0

Bufs  == 0 .. Num - 1
Slots == 0 .. Num - 1
Index == 0 .. IdxSize - 1
Incr(i)    == (i + 1) % IdxSize
Slot(i)    == i % Num
Dist(i, j) == (j - i) % IdxSize

VARIABLES
  availIdx, availRing,    \* avail->idx, avail->ring: written by the host
  lastAvail,              \* vq->last_avail_idx
  usedIdx, usedRing,      \* used->idx, used->ring: written by the M3
  lastUsed,               \* the host's index into used->ring
  noNotify,               \* used->flags has VRING_USED_F_NO_NOTIFY
  hostOwn, hostPc,        \* the host's buffers and its control point
  held, m3Pc, tok,        \* the M3's buffers, control point and current buffer
  kick                    \* a ring to the M3 is pending

avail == <<availIdx, availRing>>
used  == <<usedIdx, usedRing>>
m3    == <<held, m3Pc, tok>>
vars  == <<avail, lastAvail, used, lastUsed, noNotify, hostOwn, hostPc, m3, kick>>

\* VirtQueue_create on a vring the host has filled.
Init == /\ availIdx = Num /\ availRing = [s \in Slots |-> s] /\ lastAvail = 0
        /\ usedIdx = 0 /\ usedRing = [s \in Slots |-> 0] /\ lastUsed = 0
        /\ noNotify = TRUE /\ hostOwn = {} /\ hostPc = "idle"
        /\ held = {} /\ m3Pc = "idle" /\ tok = 0 /\ kick = FALSE

-------------------------------------------------------------------------------
(* The host (external): Linux's virtqueue_add, virtqueue_kick and          *)
(* virtqueue_get_buf.                                                      *)
HostWrite(b) ==
  /\ hostPc = "idle" /\ b \in hostOwn
  /\ availRing' = [availRing EXCEPT ![Slot(availIdx)] = b]
  /\ hostPc' = "publish"
  /\ UNCHANGED <<availIdx, lastAvail, used, lastUsed, noNotify, hostOwn, m3, kick>>
HostPublish ==
  /\ hostPc = "publish"
  /\ availIdx' = Incr(availIdx)
  /\ hostOwn' = hostOwn \ {availRing[Slot(availIdx)]}
  /\ hostPc' = "notify"
  /\ UNCHANGED <<availRing, lastAvail, used, lastUsed, noNotify, m3, kick>>
HostNotify ==
  /\ hostPc = "notify"
  /\ kick' = (kick \/ ~noNotify)
  /\ hostPc' = "idle"
  /\ UNCHANGED <<avail, lastAvail, used, lastUsed, noNotify, hostOwn, m3>>
HostCollect ==
  /\ hostPc = "idle" /\ lastUsed # usedIdx
  /\ hostOwn' = hostOwn \cup {usedRing[Slot(lastUsed)]}
  /\ lastUsed' = Incr(lastUsed)
  /\ UNCHANGED <<avail, lastAvail, used, noNotify, hostPc, m3, kick>>

-------------------------------------------------------------------------------
(* VirtQueue_getAvailBuf: compare the indexes; on a difference read the    *)
(* slot and step last_avail_idx, otherwise ask for a notification.         *)
M3To(from, to) == m3Pc = from /\ m3Pc' = to

GetCheck ==
  /\ M3To("idle", IF lastAvail = availIdx THEN "ask" ELSE "grab")
  /\ UNCHANGED <<avail, lastAvail, used, lastUsed, noNotify, hostOwn, hostPc, held,
                 tok, kick>>

\* Mutant: the index is stepped before the slot is read.
GrabPreIncrement ==
  /\ M3To("grab", "got")
  /\ lastAvail' = Incr(lastAvail)
  /\ tok' = availRing[Slot(lastAvail')]
  /\ held' = held \cup {tok'}
  /\ UNCHANGED <<avail, used, lastUsed, noNotify, hostOwn, hostPc, kick>>
Grab ==
  /\ M3To("grab", "got")
  /\ tok' = availRing[Slot(lastAvail)]
  /\ lastAvail' = Incr(lastAvail)
  /\ held' = held \cup {tok'}
  /\ UNCHANGED <<avail, used, lastUsed, noNotify, hostOwn, hostPc, kick>>

Ask ==
  /\ M3To("ask", "wait")
  /\ noNotify' = FALSE
  /\ UNCHANGED <<avail, lastAvail, used, lastUsed, hostOwn, hostPc, held, tok, kick>>

\* The caller has its buffer; a sender that has waited and sees nobody else waiting
\* does PROHIBIT_VRING_NOTIFY.
Prohibit ==
  /\ M3To("got", "idle")
  /\ noNotify' \in {noNotify, TRUE}
  /\ UNCHANGED <<avail, lastAvail, used, lastUsed, hostOwn, hostPc, held, tok, kick>>

\* Mutant: a waiting sender that wakes without a ring waits again.
RetryOnKick ==
  /\ M3To("wait", IF kick THEN "idle" ELSE "wait")
  /\ kick' = FALSE
  /\ UNCHANGED <<avail, lastAvail, used, lastUsed, noNotify, hostOwn, hostPc, held, tok>>

\* The wait of MessageQCopy_send: a ring, or at most 5 ticks, then the next attempt.
Retry ==
  /\ M3To("wait", "idle")
  /\ kick' = FALSE
  /\ UNCHANGED <<avail, lastAvail, used, lastUsed, noNotify, hostOwn, hostPc, held, tok>>

\* VirtQueue_addUsedBuf: the range check, the slot, then the index.
AddUsed(b) ==
  /\ b \in held /\ ~(b > Num \/ b < 0)
  /\ M3To("idle", "put")
  /\ tok' = b
  /\ usedRing' = [usedRing EXCEPT ![Slot(usedIdx)] = b]
  /\ UNCHANGED <<avail, lastAvail, usedIdx, lastUsed, noNotify, hostOwn, hostPc, held,
                 kick>>

\* Mutant: the index is stepped once more at the vring's last slot.
AddUsedSkips ==
  /\ M3To("put", "idle")
  /\ usedIdx' = IF Slot(usedIdx) = Num - 1 THEN Incr(Incr(usedIdx)) ELSE Incr(usedIdx)
  /\ held' = held \ {tok}
  /\ UNCHANGED <<avail, lastAvail, usedRing, lastUsed, noNotify, hostOwn, hostPc, tok,
                 kick>>
AddUsedIdx ==
  /\ M3To("put", "idle")
  /\ usedIdx' = Incr(usedIdx)
  /\ held' = held \ {tok}
  /\ UNCHANGED <<avail, lastAvail, usedRing, lastUsed, noNotify, hostOwn, hostPc, tok,
                 kick>>

Host == (\E b \in Bufs : HostWrite(b)) \/ HostPublish \/ HostNotify \/ HostCollect
M3Step == GetCheck \/ Grab \/ Ask \/ Prohibit \/ Retry \/ AddUsedIdx
Next == Host \/ M3Step \/ \E b \in Bufs : AddUsed(b)

Spec == Init /\ [][Next]_vars

\* The M3 goes on with a call it has begun, and a sender that waits is woken by the
\* tick at the latest; a host that has begun to offer a buffer publishes it.
FairSpec == Spec /\ WF_vars(M3Step) /\ WF_vars(HostPublish)

-------------------------------------------------------------------------------
TypeOK ==
  /\ availIdx \in Index /\ lastAvail \in Index /\ usedIdx \in Index /\ lastUsed \in Index
  /\ availRing \in [Slots -> Bufs] /\ usedRing \in [Slots -> Bufs]
  /\ noNotify \in BOOLEAN /\ kick \in BOOLEAN
  /\ hostOwn \subseteq Bufs /\ held \subseteq Bufs /\ tok \in Bufs
  /\ hostPc \in {"idle", "publish", "notify"}
  /\ m3Pc \in {"idle", "grab", "got", "ask", "wait", "put"}

Offered  == [i \in 1 .. Dist(lastAvail, availIdx) |->
               availRing[Slot((lastAvail + i - 1) % IdxSize)]]
Returned == [i \in 1 .. Dist(lastUsed, usedIdx) |->
               usedRing[Slot((lastUsed + i - 1) % IdxSize)]]

\* The free-running indexes never drift further apart than the ring has slots, across
\* their wrap too: no entry is overwritten before the other side has read it.
NoOverrun == /\ Dist(lastAvail, availIdx) <= Num
             /\ Dist(lastUsed, usedIdx) <= Num
             /\ m3Pc = "grab" => lastAvail # availIdx

\* The invariant of the indexes, with their types.
RingInv == TypeOK /\ NoOverrun

\* The index rings implement first-in-first-out passing of buffers both ways, although
\* slots are written before they are published and read without a lock.
Ring == INSTANCE BufferRing WITH offered <- Offered, returned <- Returned
ImplementsBufferRing == Ring!Spec

\* A sender that found the vring empty gets a buffer once one is offered, although
\* NO_NOTIFY is cleared after the check and the host's ring may be lost: it polls.
SenderServed == (m3Pc = "wait" /\ Offered # <<>>) ~> m3Pc = "got"

\* "We need to know about added buffers" (VirtQueue_getAvailBuf, at the clearing of
\* NO_NOTIFY): a sender that waits while a buffer is offered has a ring coming.
KickComes == m3Pc = "wait" /\ Offered # <<>> => kick \/ hostPc = "notify"
===============================================================================
