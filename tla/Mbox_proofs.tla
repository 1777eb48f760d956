----------------------------- MODULE Mbox_proofs -------------------------------
(***************************************************************************)
(* Theorems about Mbox, for any number of tasks and channels, mostly when  *)
(* every channel has one user (Disjoint; ExclusiveAllocation, section 6 of *)
(* the README, is about the other case).                                   *)
(*                                                                         *)
(* SemInv: dev->sem has one holder.  OwnInv: a task acts on channels of    *)
(* its own.  LockInv: the progress of a request is that of its lock.       *)
(* RegInv: a copy of imscb that is about to be written back has every bit  *)
(* the register has - stops take bits away, and who adds one holds the     *)
(* semaphore.  StopInv: rx_stop does not go below zero.  MaskInv: a        *)
(* channel in use that is not stopped is enabled.  FreshInv, at the end,   *)
(* needs no Disjoint: no message is received twice.                        *)
(***************************************************************************)
EXTENDS Mbox, TLAPS

Disjoint == \A t, u \in Tasks : t # u => Wants[t] \cap Wants[u] = {}

HasSem(t) == pc[t] \in {"assign", "enable", "callback", "cookie", "requested", "disable",
                        "freed", "unmask", "resumed", "write", "ring", "sent"}

Shape == /\ pc \in [Tasks -> Points] /\ has \in [Tasks -> SUBSET Chan]
         /\ DOMAIN ch = Tasks /\ DOMAIN reg = Tasks
         /\ DOMAIN rxStop = Chan /\ DOMAIN assigned = Chan /\ hsem \in [Chan -> BOOLEAN]
         /\ sem \in Tasks \cup {NoTask}

SemInv == \A t \in Tasks : HasSem(t) <=> sem = t

Owns(t) ==
  /\ has[t] \subseteq Wants[t]
  /\ pc[t] # "idle" => ch[t] \in Wants[t]
  /\ pc[t] \in {"request", "assign", "enable", "callback", "cookie", "requested", "free",
                "disable", "freed"} => ch[t] \notin has[t]
  /\ pc[t] \in {"resume", "unmask", "resumed", "send", "delay", "sendSem", "write", "ring",
                "sent"} => ch[t] \in has[t]
OwnInv == \A t \in Tasks : Owns(t)

Locks(t) ==
  /\ \A c \in Wants[t] :
       c \in locked <=> \/ c \in has[t]
                        \/ ch[t] = c /\ pc[t] \in {"enable", "callback", "cookie",
                                                   "requested", "free", "disable"}
  /\ \A c \in has[t] : hsem[c] /\ c \in withCb \cap withCookie
  /\ pc[t] = "cookie" => ch[t] \in withCb
  /\ pc[t] \in {"requested", "free", "disable"} =>
       hsem[ch[t]] /\ ch[t] \in withCb \cap withCookie
LockInv == \A t \in Tasks : Locks(t)

RegInv == \A t \in Tasks : pc[t] \in {"enable", "disable", "unmask"} => imscb \subseteq reg[t]

Enabled(t) ==
  /\ \A c \in has[t] : rxStop[c] = 0 /\ ~(pc[t] = "unmask" /\ ch[t] = c) => c \in imscb
  /\ pc[t] \in {"callback", "cookie", "requested"} => ch[t] \in imscb
MaskInv == \A t \in Tasks : Enabled(t)

StopInv == /\ rxStop \in [Chan -> Nat]
           /\ \A t \in Tasks : pc[t] = "resume" => rxStop[ch[t]] # 0

IInv == Shape /\ SemInv /\ OwnInv /\ LockInv /\ RegInv /\ StopInv /\ MaskInv

-------------------------------------------------------------------------------
core == <<pc, has, ch, reg, rxStop, assigned, hsem, lock, sem, imscb>>

\* The steps of a task's calls, by what they do to the semaphore.
Outside(t) == \/ \E c \in Chan : \/ Request(t, c) \/ Free(t, c) \/ Stop(t, c)
                                 \/ Resume(t, c) \/ Send(t, c)
              \/ SendReady(t) \/ SendBusy(t) \/ SendAgain(t)
Takes(t)   == RequestSem(t) \/ FreeSem(t) \/ ResumeSem(t) \/ SendSem(t)
Inside(t)  == \/ Assign(t) \/ EnableIrq(t) \/ SetCallback(t) \/ SetCookie(t)
              \/ FreeLock(t) \/ Unmask(t) \/ Write(t) \/ Ring(t)
Gives(t)   == Requested(t) \/ Freed(t) \/ Resumed(t) \/ Sent(t)

\* A step is the hardware's, which leaves the tasks alone, or one of a task.
LEMMA StepCases ==
  ASSUME [Next]_vars
  PROVE  \/ UNCHANGED core
         \/ \E t \in Tasks : Outside(t) \/ Takes(t) \/ Inside(t) \/ Gives(t)
<1>1. ASSUME NEW c \in Chan, ApSend(c) \/ ApRead(c)
      PROVE  UNCHANGED core
  BY <1>1 DEF ApSend, ApRead, core, chans, task
<1>2. CASE Isr
  BY <1>2 DEF Isr, IsrEnter, IsrServe, core, chans, task
<1>3. CASE UNCHANGED vars
  BY <1>3 DEF vars, core, chans, task
<1>4. ASSUME NEW t \in Tasks, Call1(t) \/ Step(t)
      PROVE  Outside(t) \/ Takes(t) \/ Inside(t) \/ Gives(t)
  BY <1>4 DEF Call1, Step, Outside, Takes, Inside, Gives
<1> QED BY <1>1, <1>2, <1>3, <1>4 DEF Next

\* A step of one task leaves the others where they are.
LEMMA OneTask ==
  ASSUME Shape, OwnInv, NEW t \in Tasks, Outside(t) \/ Takes(t) \/ Inside(t) \/ Gives(t)
  PROVE  /\ \E to \in Points : pc' = [pc EXCEPT ![t] = to]
         /\ DOMAIN ch' = Tasks /\ DOMAIN reg' = Tasks /\ has' \in [Tasks -> SUBSET Chan]
         /\ \A u \in Tasks : u # t => /\ pc'[u] = pc[u] /\ ch'[u] = ch[u]
                                      /\ reg'[u] = reg[u] /\ has'[u] = has[u]
<1> USE DEF Goes, Call, TakeSem, task, Shape
<1> DEFINE Goal ==
      /\ \E to \in Points : pc' = [pc EXCEPT ![t] = to]
      /\ DOMAIN ch' = Tasks /\ DOMAIN reg' = Tasks /\ has' \in [Tasks -> SUBSET Chan]
      /\ \A u \in Tasks : u # t => /\ pc'[u] = pc[u] /\ ch'[u] = ch[u]
                                   /\ reg'[u] = reg[u] /\ has'[u] = has[u]
<1>1. ASSUME NEW c \in Chan, Request(t, c) \/ Stop(t, c) \/ Resume(t, c) \/ Send(t, c)
      PROVE  Goal
  BY <1>1 DEF Request, Stop, Resume, Send, Points
<1>2. ASSUME NEW c \in Chan, Free(t, c)
      PROVE  Goal
  <2>1. has' = [has EXCEPT ![t] = has[t] \ {c}]
    BY <1>2 DEF Free
  <2>2. has' \in [Tasks -> SUBSET Chan] /\ \A u \in Tasks : u # t => has'[u] = has[u]
    BY <2>1
  <2> QED BY <1>2, <2>2 DEF Free, Points
<1>3. CASE SendReady(t) \/ SendBusy(t) \/ SendAgain(t)
  BY <1>3 DEF SendReady, SendBusy, SendAgain, Points
<1>4. CASE Takes(t)
  BY <1>4 DEF Takes, RequestSem, FreeSem, ResumeSem, SendSem, Points
<1>5. CASE Inside(t)
  BY <1>5 DEF Inside, Assign, EnableIrq, SetCallback, SetCookie, FreeLock, Unmask, Write,
              Ring, Points
<1>6. CASE Gives(t)
  <2>1. CASE Requested(t)
    <3>1. has' = [has EXCEPT ![t] = has[t] \cup {ch[t]}] /\ ch[t] \in Chan
      BY <2>1, MboxAssumption DEF Requested, OwnInv, Owns
    <3>2. has' \in [Tasks -> SUBSET Chan] /\ \A u \in Tasks : u # t => has'[u] = has[u]
      BY <3>1
    <3> QED BY <2>1, <3>2 DEF Requested, Points
  <2>2. CASE Freed(t) \/ Resumed(t) \/ Sent(t)
    BY <2>2 DEF Freed, Resumed, Sent, Points
  <2> QED BY <1>6, <2>1, <2>2 DEF Gives
<1> QED BY <1>1, <1>2, <1>3, <1>4, <1>5, <1>6 DEF Outside

\* Types.
LEMMA ShapeStep ==
  ASSUME Shape, OwnInv, [Next]_vars
  PROVE  Shape'
<1>1. CASE UNCHANGED core
  BY <1>1 DEF core, Shape
<1>2. ASSUME NEW t \in Tasks, Outside(t) \/ Takes(t) \/ Inside(t) \/ Gives(t)
      PROVE  Shape'
  <2>1. /\ pc' \in [Tasks -> Points] /\ DOMAIN ch' = Tasks /\ DOMAIN reg' = Tasks
        /\ has' \in [Tasks -> SUBSET Chan]
    <3>1. PICK to \in Points : pc' = [pc EXCEPT ![t] = to]
      BY <1>2, OneTask
    <3> QED BY <1>2, <3>1, OneTask DEF Shape
  <2>2. CASE Outside(t)
    BY <2>1, <2>2 DEF Outside, Request, Free, Stop, Resume, Send, SendReady, SendBusy,
       SendAgain, chans, Shape
  <2>3. CASE Takes(t)
    BY <2>1, <2>3 DEF Takes, RequestSem, FreeSem, ResumeSem, SendSem, TakeSem, chans, Shape
  <2>4. CASE Inside(t)
    BY <2>1, <2>4 DEF Inside, Assign, EnableIrq, SetCallback, SetCookie, FreeLock, Unmask,
       Write, Ring, chans, Shape
  <2>5. CASE Gives(t)
    BY <2>1, <2>5 DEF Gives, Requested, Freed, Resumed, Sent, chans, Shape
  <2> QED BY <1>2, <2>2, <2>3, <2>4, <2>5
<1> QED BY <1>1, <1>2, StepCases

\* The semaphore is taken where it is free and given by its holder.
LEMMA SemStep ==
  ASSUME Shape, OwnInv, SemInv, [Next]_vars
  PROVE  SemInv'
<1> USE DEF Goes, Call, TakeSem, HasSem
<1>1. CASE UNCHANGED core
  BY <1>1 DEF core, SemInv
<1>2. ASSUME NEW t \in Tasks, Outside(t) \/ Takes(t) \/ Inside(t) \/ Gives(t)
      PROVE  SemInv'
  <2>1. /\ \A u \in Tasks : u # t => (HasSem(u)' <=> HasSem(u))
        /\ pc \in [Tasks -> Points] /\ t # NoTask
    BY <1>2, OneTask, MboxAssumption DEF Shape
  <2>2. CASE Outside(t)
    <3>1. ~HasSem(t) /\ ~HasSem(t)' /\ sem' = sem
      BY <2>1, <2>2 DEF Outside, Request, Free, Stop, Resume, Send, SendReady, SendBusy,
         SendAgain
    <3> QED BY <2>1, <3>1 DEF SemInv
  <2>3. CASE Takes(t)
    <3>1. HasSem(t)' /\ sem = NoTask /\ sem' = t
      BY <2>1, <2>3 DEF Takes, RequestSem, FreeSem, ResumeSem, SendSem
    <3>2. \A u \in Tasks : ~HasSem(u)
      BY <3>1, MboxAssumption DEF SemInv
    <3> QED BY <2>1, <3>1, <3>2 DEF SemInv
  <2>4. CASE Inside(t)
    <3>1. HasSem(t) /\ HasSem(t)' /\ sem' = sem
      BY <2>1, <2>4 DEF Inside, Assign, EnableIrq, SetCallback, SetCookie, FreeLock,
         Unmask, Write, Ring
    <3> QED BY <2>1, <3>1 DEF SemInv
  <2>5. CASE Gives(t)
    <3>1. HasSem(t) /\ ~HasSem(t)' /\ sem' = NoTask
      BY <2>1, <2>5 DEF Gives, Requested, Freed, Resumed, Sent
    <3>2. \A u \in Tasks : u # t => ~HasSem(u)
      BY <3>1 DEF SemInv
    <3> QED BY <2>1, <3>1, <3>2, MboxAssumption DEF SemInv
  <2> QED BY <1>2, <2>2, <2>3, <2>4, <2>5
<1> QED BY <1>1, <1>2, StepCases

\* A call is for a channel of the task, held or not as the call requires.
LEMMA OwnStep ==
  ASSUME Shape, OwnInv, [Next]_vars
  PROVE  OwnInv'
<1> USE DEF Goes, Call, TakeSem, task
<1>1. CASE UNCHANGED core
  BY <1>1 DEF core, OwnInv, Owns
<1>2. ASSUME NEW t \in Tasks, Outside(t) \/ Takes(t) \/ Inside(t) \/ Gives(t)
      PROVE  OwnInv'
  <2>1. /\ \A u \in Tasks : u # t => Owns(u)'
        /\ DOMAIN pc = Tasks /\ DOMAIN ch = Tasks /\ has \in [Tasks -> SUBSET Chan]
    BY <1>2, OneTask DEF OwnInv, Owns, Shape
  <2>2. Owns(t)
    BY DEF OwnInv
  <2> SUFFICES Owns(t)'
    BY <2>1 DEF OwnInv
  <2>3. ASSUME NEW c \in Chan, Request(t, c) \/ Stop(t, c) \/ Resume(t, c) \/ Send(t, c)
        PROVE  Owns(t)'
    BY <2>1, <2>2, <2>3 DEF Owns, Request, Stop, Resume, Send
  <2>4. ASSUME NEW c \in Chan, Free(t, c)
        PROVE  Owns(t)'
    <3>1. /\ pc'[t] = "free" /\ ch'[t] = c /\ has'[t] = has[t] \ {c} /\ c \in has[t]
      BY <2>1, <2>4 DEF Free
    <3> QED BY <2>2, <3>1 DEF Owns
  <2>5. CASE SendReady(t) \/ SendBusy(t) \/ SendAgain(t)
    BY <2>1, <2>2, <2>5 DEF Owns, SendReady, SendBusy, SendAgain
  <2>6. CASE Takes(t)
    BY <2>1, <2>2, <2>6 DEF Owns, Takes, RequestSem, FreeSem, ResumeSem, SendSem
  <2>7. CASE Inside(t)
    BY <2>1, <2>2, <2>7 DEF Owns, Inside, Assign, EnableIrq, SetCallback, SetCookie,
       FreeLock, Unmask, Write, Ring
  <2>8. CASE Gives(t)
    <3>1. CASE Requested(t)
      <4>1. pc'[t] = "idle" /\ has'[t] = has[t] \cup {ch[t]} /\ ch[t] \in Wants[t]
        BY <2>1, <2>2, <3>1 DEF Requested, Owns
      <4> QED BY <2>2, <4>1 DEF Owns
    <3>2. CASE Freed(t) \/ Resumed(t) \/ Sent(t)
      BY <2>1, <2>2, <3>2 DEF Owns, Freed, Resumed, Sent
    <3> QED BY <2>8, <3>1, <3>2 DEF Gives
  <2> QED BY <1>2, <2>3, <2>4, <2>5, <2>6, <2>7, <2>8 DEF Outside
<1> QED BY <1>1, <1>2, StepCases

\* What a step of a task does to the channels that are not its own: nothing.
LEMMA Confined ==
  ASSUME Shape, SemInv, OwnInv, RegInv, NEW t \in Tasks,
         Outside(t) \/ Takes(t) \/ Inside(t) \/ Gives(t),
         NEW c \in Chan, c \notin Wants[t]
  PROVE  /\ (c \in locked <=> c \in locked') /\ (c \in withCb <=> c \in withCb')
         /\ (c \in withCookie <=> c \in withCookie')
         /\ hsem'[c] = hsem[c] /\ rxStop'[c] = rxStop[c]
         /\ c \in imscb => c \in imscb'
<1> USE DEF Goes, Call, TakeSem, task, chans, lock
<1>1. Owns(t) /\ (pc[t] # "idle" => ch[t] # c)
  BY DEF OwnInv, Owns
<1>2. ASSUME NEW d \in Chan, Request(t, d) \/ Free(t, d) \/ Resume(t, d) \/ Send(t, d)
      PROVE  UNCHANGED <<chans, imscb>>
  BY <1>2 DEF Request, Free, Resume, Send
<1>3. ASSUME NEW d \in Chan, Stop(t, d)
      PROVE  /\ UNCHANGED <<hsem, lock>> /\ rxStop'[c] = rxStop[c]
             /\ c \in imscb => c \in imscb'
  BY <1>1, <1>3 DEF Stop, Shape, Owns
<1>4. CASE SendReady(t) \/ SendBusy(t) \/ SendAgain(t)
  BY <1>4 DEF SendReady, SendBusy, SendAgain
<1>5. CASE Takes(t)
  BY <1>1, <1>5 DEF Takes, RequestSem, FreeSem, ResumeSem, SendSem, Shape
<1>6. CASE Inside(t)
  <2>1. pc[t] \in {"enable", "disable", "unmask"} => imscb \subseteq reg[t]
    BY DEF RegInv
  <2> QED BY <1>1, <1>6, <2>1 DEF Inside, Assign, EnableIrq, SetCallback, SetCookie,
             FreeLock, Unmask, Write, Ring, Shape
<1>7. CASE Gives(t)
  BY <1>7 DEF Gives, Requested, Freed, Resumed, Sent
<1> QED BY <1>2, <1>3, <1>4, <1>5, <1>6, <1>7 DEF Outside

\* What belongs to one task stays as it is when another one steps.
LEMMA Others ==
  ASSUME Disjoint, Shape, SemInv, OwnInv, RegInv, NEW t \in Tasks, NEW u \in Tasks, u # t,
         Outside(t) \/ Takes(t) \/ Inside(t) \/ Gives(t)
  PROVE  /\ Locks(u) => Locks(u)'
         /\ Enabled(u) => Enabled(u)'
         /\ (pc[u] = "resume" => rxStop[ch[u]] # 0)
              => (pc'[u] = "resume" => rxStop'[ch'[u]] # 0)
<1>1. pc'[u] = pc[u] /\ ch'[u] = ch[u] /\ has'[u] = has[u]
  BY OneTask
<1>2. /\ Wants[u] \subseteq Chan /\ has[u] \subseteq Wants[u]
      /\ pc[u] # "idle" => ch[u] \in Wants[u]
  BY MboxAssumption DEF OwnInv, Owns
<1>3. \A c \in Wants[u] : c \in Chan /\ c \notin Wants[t]
  BY <1>2 DEF Disjoint
<1>4. \A c \in Wants[u] : /\ (c \in locked <=> c \in locked')
                          /\ (c \in withCb <=> c \in withCb')
                          /\ (c \in withCookie <=> c \in withCookie')
                          /\ hsem'[c] = hsem[c] /\ rxStop'[c] = rxStop[c]
                          /\ c \in imscb => c \in imscb'
  BY <1>3, Confined
<1>5. Locks(u) => Locks(u)'
  BY <1>1, <1>2, <1>4 DEF Locks
<1>6. Enabled(u) => Enabled(u)'
  BY <1>1, <1>2, <1>4 DEF Enabled
<1> QED BY <1>1, <1>2, <1>4, <1>5, <1>6

\* A lock is assigned while its channel is requested, held or being freed.
LEMMA LockStep ==
  ASSUME Disjoint, Shape, SemInv, OwnInv, LockInv, RegInv, [Next]_vars
  PROVE  LockInv'
<1> USE DEF Goes, Call, TakeSem, task, chans, lock
<1>1. CASE UNCHANGED core
  BY <1>1 DEF core, LockInv, Locks
<1>2. ASSUME NEW t \in Tasks, Outside(t) \/ Takes(t) \/ Inside(t) \/ Gives(t)
      PROVE  LockInv'
  <2>1. \A u \in Tasks : u # t => Locks(u)'
    BY <1>2, Others DEF LockInv
  <2> SUFFICES Locks(t)'
    BY <2>1 DEF LockInv
  <2>2. /\ DOMAIN pc = Tasks /\ DOMAIN ch = Tasks /\ has \in [Tasks -> SUBSET Chan]
        /\ DOMAIN hsem = Chan /\ Wants[t] \subseteq Chan
    BY MboxAssumption DEF Shape
  <2>3. Owns(t) /\ Locks(t)
    BY DEF OwnInv, LockInv
  <2>4. ASSUME NEW c \in Chan, Request(t, c) \/ Stop(t, c) \/ Resume(t, c) \/ Send(t, c)
        PROVE  Locks(t)'
    BY <2>2, <2>3, <2>4 DEF Owns, Locks, Request, Stop, Resume, Send
  <2>5. ASSUME NEW c \in Chan, Free(t, c)
        PROVE  Locks(t)'
    <3>1. /\ pc[t] = "idle" /\ pc'[t] = "free" /\ ch'[t] = c
          /\ has'[t] = has[t] \ {c} /\ c \in has[t] /\ UNCHANGED <<hsem, lock>>
      BY <2>2, <2>5 DEF Free
    <3> QED BY <2>3, <3>1 DEF Owns, Locks
  <2>6. CASE SendReady(t) \/ SendBusy(t) \/ SendAgain(t)
    BY <2>2, <2>3, <2>6 DEF Locks, SendReady, SendBusy, SendAgain
  <2>7. CASE Takes(t)
    <3>1. CASE RequestSem(t) \/ ResumeSem(t) \/ SendSem(t)
      BY <2>2, <2>3, <3>1 DEF Locks, RequestSem, ResumeSem, SendSem
    <3>2. CASE FreeSem(t)
      BY <2>2, <2>3, <3>2 DEF Locks, FreeSem
    <3> QED BY <2>7, <3>1, <3>2 DEF Takes
  <2>8. CASE Inside(t)
    <3>1. CASE Assign(t)
      <4>1. ch[t] \in Wants[t] /\ ch[t] \notin has[t] /\ ch[t] \notin locked
        BY <2>3, <3>1 DEF Owns, Locks, Assign
      <4>2. /\ pc'[t] = "enable" /\ ch' = ch /\ has' = has /\ hsem' = hsem
            /\ locked' = locked \cup {ch[t]} /\ UNCHANGED <<withCb, withCookie>>
        <5>1. hsem' = [hsem EXCEPT ![ch[t]] = @ /\ ch[t] \notin locked]
          BY <3>1 DEF Assign
        <5>2. hsem' = hsem
          BY <4>1, <5>1 DEF Shape
        <5> QED BY <2>2, <3>1, <4>1, <5>2 DEF Assign
      <4> QED BY <2>3, <3>1, <4>1, <4>2 DEF Locks, Assign
    <3>2. CASE EnableIrq(t) \/ SetCallback(t) \/ Unmask(t) \/ Write(t) \/ Ring(t)
      BY <2>2, <2>3, <3>2 DEF Locks, EnableIrq, SetCallback, Unmask, Write, Ring
    <3>3. CASE SetCookie(t)
      BY <2>2, <2>3, <3>3 DEF Owns, Locks, SetCookie
    <3>4. CASE FreeLock(t)
      BY <2>2, <2>3, <3>4 DEF Owns, Locks, FreeLock
    <3> QED BY <2>8, <3>1, <3>2, <3>3, <3>4 DEF Inside
  <2>9. CASE Gives(t)
    <3>1. CASE Requested(t)
      <4>1. /\ pc[t] = "requested" /\ pc'[t] = "idle" /\ ch' = ch
            /\ has'[t] = has[t] \cup {ch[t]} /\ UNCHANGED <<hsem, lock>>
        BY <2>2, <3>1 DEF Requested
      <4> QED BY <2>3, <4>1 DEF Owns, Locks
    <3>2. CASE Freed(t) \/ Resumed(t) \/ Sent(t)
      BY <2>2, <2>3, <3>2 DEF Locks, Freed, Resumed, Sent
    <3> QED BY <2>9, <3>1, <3>2 DEF Gives
  <2> QED BY <1>2, <2>4, <2>5, <2>6, <2>7, <2>8, <2>9 DEF Outside
<1> QED BY <1>1, <1>2, StepCases

\* While a copy of the mask register is held, nobody else adds a bit to the register.
LEMMA RegStep ==
  ASSUME Shape, SemInv, OwnInv, RegInv, [Next]_vars
  PROVE  RegInv'
<1> USE DEF Goes, Call, TakeSem, task, chans
<1>1. CASE UNCHANGED core
  BY <1>1 DEF core, RegInv
<1>2. ASSUME NEW t \in Tasks, Outside(t) \/ Takes(t) \/ Inside(t) \/ Gives(t)
      PROVE  RegInv'
  <2>1. DOMAIN pc = Tasks /\ DOMAIN reg = Tasks
    BY DEF Shape
  <2>2. imscb' \subseteq imscb \/ pc[t] \in {"enable", "disable", "unmask"}
    BY <1>2 DEF Outside, Request, Free, Stop, Resume, Send, SendReady, SendBusy, SendAgain,
       Takes, RequestSem, FreeSem, ResumeSem, SendSem, Inside, Assign, EnableIrq,
       SetCallback, SetCookie, FreeLock, Unmask, Write, Ring, Gives, Requested, Freed,
       Resumed, Sent
  <2>3. ASSUME NEW u \in Tasks, u # t, pc'[u] \in {"enable", "disable", "unmask"}
        PROVE  imscb' \subseteq reg'[u]
    <3>1. pc'[u] = pc[u] /\ reg'[u] = reg[u]
      BY <1>2, <2>3, OneTask
    <3>2. HasSem(u) /\ ~HasSem(t)
      BY <2>3, <3>1 DEF SemInv, HasSem
    <3>3. imscb' \subseteq imscb
      BY <2>2, <3>2 DEF HasSem
    <3> QED BY <2>3, <3>1, <3>3 DEF RegInv
  <2>4. ASSUME pc'[t] \in {"enable", "disable", "unmask"}
        PROVE  imscb' \subseteq reg'[t]
    <3>1. CASE Outside(t)
      BY <2>1, <2>4, <3>1 DEF Outside, Request, Free, Stop, Resume, Send, SendReady,
         SendBusy, SendAgain
    <3>2. CASE Takes(t)
      BY <2>1, <2>4, <3>2 DEF Takes, RequestSem, FreeSem, ResumeSem, SendSem
    <3>3. CASE Inside(t)
      BY <2>1, <2>4, <3>3 DEF Inside, Assign, EnableIrq, SetCallback, SetCookie, FreeLock,
         Unmask, Write, Ring
    <3>4. CASE Gives(t)
      BY <2>1, <2>4, <3>4 DEF Gives, Requested, Freed, Resumed, Sent
    <3> QED BY <1>2, <3>1, <3>2, <3>3, <3>4
  <2> QED BY <2>3, <2>4 DEF RegInv
<1> QED BY <1>1, <1>2, StepCases

\* A stop is taken back once.
LEMMA StopStep ==
  ASSUME Disjoint, Shape, SemInv, OwnInv, RegInv, StopInv, [Next]_vars
  PROVE  StopInv'
<1> USE DEF Goes, Call, TakeSem, task, chans
<1>1. CASE UNCHANGED core
  BY <1>1 DEF core, StopInv
<1>2. ASSUME NEW t \in Tasks, Outside(t) \/ Takes(t) \/ Inside(t) \/ Gives(t)
      PROVE  StopInv'
  <2>1. \A u \in Tasks : u # t => (pc'[u] = "resume" => rxStop'[ch'[u]] # 0)
    BY <1>2, Others DEF StopInv
  <2>2. /\ DOMAIN pc = Tasks /\ DOMAIN ch = Tasks /\ rxStop \in [Chan -> Nat]
        /\ pc[t] # "idle" => ch[t] \in Chan
        /\ pc[t] = "resume" => rxStop[ch[t]] # 0
    BY MboxAssumption DEF Shape, StopInv, OwnInv, Owns
  <2>3. ASSUME NEW c \in Chan, Stop(t, c)
        PROVE  rxStop' \in [Chan -> Nat] /\ pc'[t] # "resume"
    BY <2>2, <2>3 DEF Stop
  <2>4. ASSUME NEW c \in Chan, Request(t, c) \/ Free(t, c) \/ Resume(t, c) \/ Send(t, c)
        PROVE  rxStop' = rxStop /\ (pc'[t] = "resume" => rxStop'[ch'[t]] # 0)
    BY <2>2, <2>4 DEF Request, Free, Resume, Send
  <2>5. CASE SendReady(t) \/ SendBusy(t) \/ SendAgain(t)
    BY <2>1, <2>2, <2>5 DEF SendReady, SendBusy, SendAgain, StopInv
  <2>6. CASE Takes(t)
    <3>1. rxStop' \in [Chan -> Nat] /\ pc'[t] # "resume"
      BY <2>2, <2>6 DEF Takes, RequestSem, FreeSem, ResumeSem, SendSem
    <3> QED BY <2>1, <3>1 DEF StopInv
  <2>7. CASE Inside(t)
    <3>1. rxStop' \in [Chan -> Nat] /\ pc'[t] # "resume"
      BY <2>2, <2>7 DEF Inside, Assign, EnableIrq, SetCallback, SetCookie, FreeLock,
         Unmask, Write, Ring
    <3> QED BY <2>1, <3>1 DEF StopInv
  <2>8. CASE Gives(t)
    <3>1. rxStop' = rxStop /\ pc'[t] # "resume"
      BY <2>2, <2>8 DEF Gives, Requested, Freed, Resumed, Sent
    <3> QED BY <2>1, <2>2, <3>1 DEF StopInv
  <2> QED BY <1>2, <2>1, <2>2, <2>3, <2>4, <2>5, <2>6, <2>7, <2>8 DEF Outside, StopInv
<1> QED BY <1>1, <1>2, StepCases

\* A channel in use stays enabled unless it is stopped.
LEMMA MaskStep ==
  ASSUME Disjoint, IInv, [Next]_vars
  PROVE  MaskInv'
<1> USE DEF IInv, Goes, Call, TakeSem, task, chans
<1>1. CASE UNCHANGED core
  BY <1>1 DEF core, MaskInv, Enabled
<1>2. ASSUME NEW t \in Tasks, Outside(t) \/ Takes(t) \/ Inside(t) \/ Gives(t)
      PROVE  MaskInv'
  <2>1. \A u \in Tasks : u # t => Enabled(u)'
    BY <1>2, Others DEF MaskInv
  <2> SUFFICES Enabled(t)'
    BY <2>1 DEF MaskInv
  <2>2. /\ DOMAIN pc = Tasks /\ DOMAIN ch = Tasks /\ has \in [Tasks -> SUBSET Chan]
        /\ rxStop \in [Chan -> Nat]
        /\ pc[t] # "idle" => ch[t] \in Wants[t] /\ ch[t] \in Chan
    BY MboxAssumption DEF Shape, StopInv, OwnInv, Owns
  <2>3. Owns(t) /\ Locks(t) /\ Enabled(t)
    BY DEF OwnInv, LockInv, MaskInv
  <2>4. pc[t] \in {"enable", "disable", "unmask"} => imscb \subseteq reg[t]
    BY DEF RegInv
  <2>5. ASSUME NEW c \in Chan, Request(t, c) \/ Resume(t, c) \/ Send(t, c)
        PROVE  Enabled(t)'
    BY <2>2, <2>3, <2>5 DEF Enabled, Request, Resume, Send
  <2>6. ASSUME NEW c \in Chan, Stop(t, c)
        PROVE  Enabled(t)'
    <3>1. /\ pc[t] = "idle" /\ pc'[t] = "idle" /\ has' = has /\ rxStop'[c] # 0
          /\ \A d \in Chan : d # c => /\ rxStop'[d] = rxStop[d]
                                      /\ d \in imscb => d \in imscb'
      BY <2>2, <2>6 DEF Stop
    <3> QED BY <2>2, <2>3, <3>1 DEF Enabled
  <2>7. ASSUME NEW c \in Chan, Free(t, c)
        PROVE  Enabled(t)'
    <3>1. /\ pc[t] = "idle" /\ pc'[t] = "free" /\ has'[t] = has[t] \ {c}
          /\ UNCHANGED <<rxStop, imscb>>
      BY <2>2, <2>7 DEF Free
    <3> QED BY <2>3, <3>1 DEF Enabled
  <2>8. CASE SendReady(t) \/ SendBusy(t) \/ SendAgain(t)
    BY <2>2, <2>3, <2>8 DEF Enabled, SendReady, SendBusy, SendAgain
  <2>9. CASE Takes(t)
    BY <2>2, <2>3, <2>9 DEF Owns, Enabled, Takes, RequestSem, FreeSem, ResumeSem, SendSem
  <2>10. CASE Inside(t)
    <3>1. CASE Assign(t)
      <4>1. ch[t] \notin has[t] /\ ch[t] \notin locked
        BY <2>2, <2>3, <3>1 DEF Owns, Locks, Assign
      <4> QED BY <2>2, <2>3, <3>1, <4>1 DEF Enabled, Assign
    <3>2. CASE EnableIrq(t)
      BY <2>2, <2>3, <2>4, <3>2 DEF Enabled, EnableIrq
    <3>3. CASE FreeLock(t)
      BY <2>2, <2>3, <2>4, <3>3 DEF Owns, Enabled, FreeLock
    <3>4. CASE Unmask(t)
      BY <2>2, <2>3, <2>4, <3>4 DEF Owns, Locks, Enabled, Unmask
    <3>5. CASE SetCallback(t) \/ SetCookie(t) \/ Write(t) \/ Ring(t)
      BY <2>2, <2>3, <3>5 DEF Enabled, SetCallback, SetCookie, Write, Ring
    <3> QED BY <2>10, <3>1, <3>2, <3>3, <3>4, <3>5 DEF Inside
  <2>11. CASE Gives(t)
    <3>1. CASE Requested(t)
      <4>1. /\ pc[t] = "requested" /\ pc'[t] = "idle" /\ has'[t] = has[t] \cup {ch[t]}
            /\ UNCHANGED <<rxStop, imscb>>
        BY <2>2, <3>1 DEF Requested
      <4> QED BY <2>3, <4>1 DEF Enabled
    <3>2. CASE Freed(t) \/ Resumed(t) \/ Sent(t)
      BY <2>2, <2>3, <3>2 DEF Enabled, Freed, Resumed, Sent
    <3> QED BY <2>11, <3>1, <3>2 DEF Gives
  <2> QED BY <1>2, <2>5, <2>6, <2>7, <2>8, <2>9, <2>10, <2>11 DEF Outside
<1> QED BY <1>1, <1>2, StepCases

-------------------------------------------------------------------------------
\* The invariant holds at the start: nothing is requested, nobody is in a call.
LEMMA InitInvariant ==
  ASSUME Init
  PROVE  IInv
<1>1. Shape
  BY DEF Init, Shape, Points
<1>2. \A t \in Tasks : pc[t] = "idle" /\ has[t] = {} /\ sem # t
  BY MboxAssumption DEF Init
<1>3. SemInv /\ OwnInv /\ RegInv /\ MaskInv
  BY <1>2 DEF SemInv, HasSem, OwnInv, Owns, RegInv, MaskInv, Enabled
<1>4. LockInv /\ StopInv
  BY <1>2 DEF Init, LockInv, Locks, StopInv
<1> QED BY <1>1, <1>3, <1>4 DEF IInv

\* No unmasking is lost, for any number of tasks and channels, as long as every channel
\* has one user: a channel that is held, not stopped and not inside a call is enabled,
\* although request, free and resume read, change and write the register all channels
\* share in steps, and mbox_stop_rx_msg writes it in between without the semaphore.
THEOREM ReceptionStaysOn ==
  ASSUME Disjoint
  PROVE  Spec => []ReceptionOn
<1>1. Init => IInv
  BY InitInvariant
<1>2. IInv /\ [Next]_vars => IInv'
  BY ShapeStep, SemStep, OwnStep, LockStep, RegStep, StopStep, MaskStep DEF IInv
<1>3. IInv => ReceptionOn
  BY DEF IInv, MaskInv, Enabled, ReceptionOn, Held, On
<1> QED BY <1>1, <1>2, <1>3, PTL DEF Spec

-------------------------------------------------------------------------------
(***************************************************************************)
(* The messages of both directions.  TxInv: who is about to write has      *)
(* found the last ring read (mbox_is_ready), and who is about to ring has  *)
(* written what the count says.  RxInv: a ring of the AP is on a channel   *)
(* somebody holds, so that its callback is set when it is served - as long *)
(* as no channel is freed and the AP rings only requested ones.            *)
(***************************************************************************)
TxCount(c) == /\ apGot[c] = UpTo(Len(apGot[c]))
              /\ Len(apGot[c]) + One(c \in risa) + One(On(c, {"ring"})) = sent[c]
              /\ c \in risa => txMem[c] = sent[c]
Sending(t) ==
  /\ pc[t] \in {"send", "delay", "sendSem", "write"} => sent[ch[t]] < MaxTx
  /\ pc[t] \in {"sendSem", "write", "ring"} => ch[t] \notin risa
  /\ pc[t] = "ring" => txMem[ch[t]] = sent[ch[t]]
  /\ pc[t] = "sent" => sent[ch[t]] # 0
  /\ pc[t] = "delay" => tries[t] \notin {Plain, 0}
TxInv == (\A c \in Chan : TxCount(c)) /\ (\A t \in Tasks : Sending(t))

RxCount(c) == /\ got[c] = UpTo(Len(got[c]))
              /\ Len(got[c]) + One(c \in risb) = apSent[c]
              /\ c \in risb => rxMem[c] = apSent[c] /\ Held(c)
RxInv == pending \subseteq risb /\ \A c \in Chan : RxCount(c)

\* One more message on a sequence that counts.
LEMMA AppendUpTo ==
  ASSUME NEW S, NEW s \in Seq(S), s = UpTo(Len(s)), NEW x \in S, x = Len(s) + 1
  PROVE  /\ Append(s, x) \in Seq(S) /\ Len(Append(s, x)) = Len(s) + 1
         /\ Append(s, x) = UpTo(Len(Append(s, x)))
<1>1. /\ Append(s, x) \in Seq(S) /\ Len(Append(s, x)) = Len(s) + 1 /\ Len(s) \in Nat
      /\ Append(s, x) = [i \in 1 .. Len(s) + 1 |-> IF i = Len(s) + 1 THEN x ELSE s[i]]
  OBVIOUS
<1>2. \A i \in 1 .. Len(s) : s[i] = i
  BY DEF UpTo
<1>3. Append(s, x) = [i \in 1 .. Len(s) + 1 |-> i]
  BY <1>1, <1>2
<1> QED BY <1>1, <1>3 DEF UpTo

\* Without frees nobody loses a channel.
LEMMA HeldStays ==
  ASSUME Shape, OwnInv, Frees = FALSE, [Next]_vars, NEW c \in Chan, Held(c)
  PROVE  Held(c)'
<1>1. PICK u \in Tasks : c \in has[u]
  BY DEF Held
<1>2. CASE UNCHANGED core
  BY <1>1, <1>2 DEF core, Held
<1>3. ASSUME NEW t \in Tasks, Outside(t) \/ Takes(t) \/ Inside(t) \/ Gives(t)
      PROVE  c \in has'[u]
  <2>1. CASE u = t
    <3>1. UNCHANGED has \/ Requested(t)
      BY <1>3 DEF Outside, Takes, Inside, Gives, Request, Free, Stop, Resume, Send,
         SendReady, SendBusy, SendAgain, RequestSem, FreeSem, ResumeSem, SendSem, Assign,
         EnableIrq, SetCallback, SetCookie, FreeLock, Unmask, Write, Ring, Freed, Resumed,
         Sent, task
    <3>2. CASE Requested(t)
      BY <1>1, <2>1, <3>2 DEF Requested, Shape
    <3> QED BY <1>1, <3>1, <3>2
  <2>2. CASE u # t
    BY <1>1, <1>3, <2>2, OneTask
  <2> QED BY <2>1, <2>2
<1> QED BY <1>2, <1>3, StepCases DEF Held

\* Reception counts.
LEMMA RxStep ==
  ASSUME IInv, Frees = FALSE, ApEarly = FALSE, TypeRx, RxInv, [Next]_vars
  PROVE  TypeRx' /\ RxInv'
<1> USE MboxAssumption
<1>1. ASSUME NEW c \in Chan, ApSend(c)
      PROVE  TypeRx' /\ RxInv'
  <2>1. /\ c \notin risb /\ apSent[c] < MaxRx /\ Held(c)
        /\ apSent' = [apSent EXCEPT ![c] = apSent[c] + 1]
        /\ rxMem' = [rxMem EXCEPT ![c] = apSent'[c]]
        /\ risb' = risb \cup {c} /\ UNCHANGED <<got, pending, has>>
    BY <1>1 DEF ApSend, Held
  <2>2. apSent[c] \in 0 .. MaxRx /\ apSent'[c] = apSent[c] + 1 /\ apSent'[c] \in 0 .. MaxRx
    BY <2>1 DEF TypeRx
  <2>3. TypeRx'
    BY <2>1, <2>2 DEF TypeRx
  <2>4. rxMem'[c] = apSent'[c]
    BY <2>1 DEF TypeRx
  <2>5. RxCount(c)'
    BY <2>1, <2>2, <2>4 DEF TypeRx, RxInv, RxCount, Held, One
  <2>6. ASSUME NEW d \in Chan \ {c} PROVE RxCount(d)'
    BY <2>1 DEF TypeRx, RxInv, RxCount, Held, One
  <2> QED BY <2>1, <2>3, <2>5, <2>6 DEF RxInv
<1>2. CASE IsrEnter
  BY <1>2 DEF IsrEnter, fromAp, TypeRx, RxInv, RxCount, Held
<1>3. ASSUME NEW c \in pending, pending' = pending \ {c}, risb' = risb \ {c},
             got' = IF c \in withCb \cap withCookie
                    THEN [got EXCEPT ![c] = Append(got[c], rxMem[c])] ELSE got,
             UNCHANGED <<rxMem, apSent, has>>
      PROVE  TypeRx' /\ RxInv'
  <2>1. c \in Chan /\ c \in risb /\ RxCount(c)
    BY DEF RxInv, TypeRx
  <2>2. c \in withCb \cap withCookie
    BY <2>1 DEF RxCount, Held, IInv, LockInv, Locks
  <2>3. got' = [got EXCEPT ![c] = Append(got[c], rxMem[c])]
    BY <1>3, <2>2
  <2>4. /\ got[c] \in Seq(1 .. MaxRx) /\ apSent[c] \in 0 .. MaxRx
        /\ rxMem[c] = apSent[c] /\ apSent[c] = Len(got[c]) + 1
        /\ got[c] = UpTo(Len(got[c]))
    BY <2>1 DEF TypeRx, RxCount, One
  <2>5. rxMem[c] \in 1 .. MaxRx /\ rxMem[c] = Len(got[c]) + 1
    BY <2>4
  <2>6. /\ Append(got[c], rxMem[c]) \in Seq(1 .. MaxRx)
        /\ Len(Append(got[c], rxMem[c])) = Len(got[c]) + 1
        /\ Append(got[c], rxMem[c]) = UpTo(Len(Append(got[c], rxMem[c])))
    BY <2>4, <2>5, AppendUpTo
  <2>7. /\ got'[c] = Append(got[c], rxMem[c]) /\ got' \in [Chan -> Seq(1 .. MaxRx)]
        /\ \A d \in Chan \ {c} : got'[d] = got[d]
    BY <2>1, <2>3, <2>6 DEF TypeRx
  <2>8. TypeRx'
    BY <1>3, <2>7 DEF TypeRx
  <2>9. RxCount(c)'
    <3>1. /\ Len(got'[c]) = Len(got[c]) + 1 /\ got'[c] = UpTo(Len(got'[c]))
          /\ Len(got[c]) \in Nat
      BY <2>4, <2>6, <2>7
    <3>2. c \notin risb' /\ apSent'[c] = Len(got[c]) + 1
      BY <1>3, <2>4
    <3>3. Len(got'[c]) + One(c \in risb') = apSent'[c]
      BY <3>1, <3>2 DEF One
    <3> QED BY <3>1, <3>2, <3>3 DEF RxCount
  <2>10. ASSUME NEW d \in Chan \ {c} PROVE RxCount(d)'
    BY <1>3, <2>7 DEF RxInv, RxCount, Held, One
  <2> QED BY <1>3, <2>8, <2>9, <2>10 DEF RxInv
<1>4. CASE IsrServe
  BY <1>3, <1>4 DEF IsrServe
<1>5. CASE UNCHANGED <<fromAp, pending>>
  <2>1. TypeRx'
    BY <1>5 DEF TypeRx, fromAp
  <2>2. \A c \in Chan : RxCount(c)'
    BY <1>5, HeldStays DEF IInv, RxInv, RxCount, fromAp
  <2> QED BY <1>5, <2>1, <2>2 DEF RxInv, fromAp
<1>6. CASE \/ \E c \in Chan : ApRead(c)
           \/ UNCHANGED vars
  BY <1>5, <1>6 DEF ApRead, vars
<1>7. ASSUME NEW t \in Tasks, Call1(t) \/ Step(t)
      PROVE  UNCHANGED <<fromAp, pending>>
  BY <1>7 DEF Call1, Step, Request, Free, Stop, Resume, Send, SendReady, SendBusy,
     SendAgain, RequestSem, FreeSem, ResumeSem, SendSem, Assign, EnableIrq, SetCallback,
     SetCookie, FreeLock, Unmask, Write, Ring, Requested, Freed, Resumed, Sent
<1> QED BY <1>1, <1>2, <1>4, <1>5, <1>6, <1>7 DEF Next, Isr

\* The other types.
LEMMA TypeTaskStep ==
  ASSUME IInv, TypeTask, TxInv, [Next]_vars
  PROVE  /\ TypeTask'
         /\ \A t \in Tasks : Outside(t) \/ Takes(t) \/ Inside(t) \/ Gives(t) =>
              \A u \in Tasks \ {t} : tries'[u] = tries[u]
<1> USE DEF task
<1>1. ASSUME NEW t \in Tasks, Outside(t) \/ Takes(t) \/ Inside(t) \/ Gives(t)
      PROVE  /\ ch' \in [Tasks -> Chan] /\ tries' \in [Tasks -> -1 .. Tries]
             /\ \A u \in Tasks \ {t} : tries'[u] = tries[u]
  <2> DEFINE Goal == /\ ch' \in [Tasks -> Chan] /\ tries' \in [Tasks -> -1 .. Tries]
                     /\ \A u \in Tasks \ {t} : tries'[u] = tries[u]
  <2>1. ASSUME NEW c \in Chan, Request(t, c) \/ Free(t, c) \/ Stop(t, c) \/ Resume(t, c)
        PROVE  Goal
    BY <2>1 DEF Request, Free, Stop, Resume, Call, TypeTask
  <2>2. ASSUME NEW c \in Chan, Send(t, c)
        PROVE  Goal
    BY <2>2, MboxAssumption DEF Send, Call, Plain, TypeTask
  <2>3. CASE SendReady(t)
    BY <2>3 DEF SendReady, TypeTask
  <2>4. CASE SendBusy(t)
    BY <2>4, MboxAssumption DEF SendBusy, Plain, TypeTask
  <2>5. CASE SendAgain(t)
    <3>1. tries[t] \in -1 .. Tries /\ tries[t] # -1 /\ tries[t] # 0
      BY <2>5 DEF SendAgain, Goes, TxInv, Sending, Plain, TypeTask
    <3>2. tries[t] - 1 \in -1 .. Tries
      BY <3>1, MboxAssumption
    <3> QED BY <2>5, <3>2 DEF SendAgain, TypeTask
  <2>6. CASE Sent(t)
    BY <2>6, MboxAssumption DEF Sent, Plain, TypeTask
  <2>7. CASE Takes(t) \/ Inside(t) \/ Requested(t) \/ Freed(t) \/ Resumed(t)
    BY <2>7 DEF Takes, Inside, RequestSem, FreeSem, ResumeSem, SendSem, Assign,
       EnableIrq, SetCallback, SetCookie, FreeLock, Unmask, Write, Ring, Requested, Freed,
       Resumed, TakeSem, TypeTask
  <2> QED BY <1>1, <2>1, <2>2, <2>3, <2>4, <2>5, <2>6, <2>7 DEF Outside, Gives
<1>2. Shape'
  BY ShapeStep DEF IInv
<1>3. (ch' \in [Tasks -> Chan] /\ tries' \in [Tasks -> -1 .. Tries]) => TypeTask'
  BY <1>2 DEF Shape, TypeTask
<1>4. (\E t \in Tasks : Outside(t) \/ Takes(t) \/ Inside(t) \/ Gives(t)) => TypeTask'
  BY <1>1, <1>3
<1>5. CASE \/ \E c \in Chan : ApSend(c) \/ ApRead(c)
           \/ Isr \/ UNCHANGED vars
  BY <1>3, <1>5 DEF ApSend, ApRead, Isr, IsrEnter, IsrServe, vars, TypeTask
<1>6. ASSUME NEW t \in Tasks, Call1(t) \/ Step(t)
      PROVE  TypeTask'
  BY <1>4, <1>6 DEF Call1, Step, Outside, Takes, Inside, Gives
<1> QED BY <1>1, <1>5, <1>6 DEF Next

LEMMA TypeChanStep ==
  ASSUME IInv, TypeTask, TypeChan, [Next]_vars
  PROVE  TypeChan'
<1> USE DEF chans, lock
<1>1. ASSUME NEW t \in Tasks, Call1(t) \/ Step(t)
      PROVE  TypeChan'
  <2>1. CASE Call1(t)
    BY <1>1, <2>1, MboxAssumption DEF Call1, Request, Free, Stop, Resume, Send, TypeChan
  <2>2. CASE Assign(t)
    BY <2>2, MboxAssumption DEF Assign, TypeTask, TypeChan
  <2>3. CASE SetCallback(t) \/ SetCookie(t)
    <3>1. ch[t] \in Chan /\ hsem' \in [Chan -> BOOLEAN]
      BY ShapeStep DEF IInv, Shape, TypeTask
    <3>2. /\ UNCHANGED <<assigned, rxStop, locked>> /\ withCb' \subseteq withCb \cup {ch[t]}
          /\ withCookie' \subseteq withCookie \cup {ch[t]}
      BY <2>3 DEF SetCallback, SetCookie
    <3> QED BY <3>1, <3>2 DEF TypeChan
  <2>6. CASE FreeSem(t)
    BY <2>6, MboxAssumption DEF FreeSem, TypeTask, TypeChan
  <2>7. CASE FreeLock(t)
    BY <2>7 DEF FreeLock, TypeTask, TypeChan
  <2>4. CASE ResumeSem(t)
    <3>1. ch[t] \in Chan /\ rxStop[ch[t]] \in 0 .. MaxStop /\ rxStop[ch[t]] # 0
      BY <2>4 DEF ResumeSem, TakeSem, Goes, IInv, StopInv, TypeTask, TypeChan
    <3>2. rxStop[ch[t]] - 1 \in 0 .. MaxStop
      BY <3>1, MboxAssumption
    <3> QED BY <2>4, <3>2 DEF ResumeSem, TypeChan
  <2>5. CASE \/ RequestSem(t) \/ EnableIrq(t) \/ Requested(t) \/ Freed(t) \/ Unmask(t)
             \/ Resumed(t) \/ SendReady(t) \/ SendBusy(t) \/ SendAgain(t) \/ SendSem(t)
             \/ Write(t) \/ Ring(t) \/ Sent(t)
    BY <2>5 DEF RequestSem, EnableIrq, Requested, Freed, Unmask, Resumed, SendReady,
       SendBusy, SendAgain, SendSem, Write, Ring, Sent, TypeChan
  <2> QED BY <1>1, <2>1, <2>2, <2>3, <2>4, <2>5, <2>6, <2>7 DEF Step
<1>2. CASE \/ \E c \in Chan : ApSend(c) \/ ApRead(c)
           \/ Isr \/ UNCHANGED vars
  BY <1>2 DEF ApSend, ApRead, Isr, IsrEnter, IsrServe, vars, TypeChan
<1> QED BY <1>1, <1>2 DEF Next

LEMMA TypeMaskStep ==
  ASSUME TypeTask, TypeMask, [Next]_vars
  PROVE  TypeMask'
<1>1. ASSUME NEW t \in Tasks, Call1(t) \/ Step(t)
      PROVE  TypeMask'
  <2>1. CASE Call1(t)
    BY <1>1, <2>1 DEF Call1, Request, Free, Stop, Resume, Send, TypeMask
  <2>2. CASE \/ Assign(t) \/ EnableIrq(t) \/ FreeSem(t) \/ FreeLock(t) \/ ResumeSem(t)
             \/ Unmask(t) \/ Requested(t) \/ Freed(t)
    <3>1. ch[t] \in Chan /\ reg[t] \subseteq Chan
      BY DEF TypeTask, TypeMask
    <3> QED BY <2>2, <3>1 DEF Assign, EnableIrq, FreeSem, FreeLock, ResumeSem, Unmask,
                Requested, Freed, TypeMask
  <2>3. CASE \/ RequestSem(t) \/ SetCallback(t) \/ SetCookie(t) \/ Resumed(t)
             \/ SendReady(t) \/ SendBusy(t) \/ SendAgain(t) \/ SendSem(t) \/ Write(t)
             \/ Ring(t) \/ Sent(t)
    BY <2>3 DEF RequestSem, SetCallback, SetCookie, Resumed, SendReady, SendBusy,
       SendAgain, SendSem, Write, Ring, Sent, TypeMask
  <2> QED BY <1>1, <2>1, <2>2, <2>3 DEF Step
<1>2. CASE \/ \E c \in Chan : ApSend(c) \/ ApRead(c)
           \/ Isr \/ UNCHANGED vars
  <2>1. UNCHANGED <<imscb, reg>>
    BY <1>2 DEF ApSend, ApRead, Isr, IsrEnter, IsrServe, vars
  <2> QED BY <2>1 DEF TypeMask
<1> QED BY <1>1, <1>2 DEF Next

LEMMA TypeFaultStep ==
  ASSUME TypeTask, fault \in BOOLEAN, [Next]_vars
  PROVE  fault' \in BOOLEAN
<1>1. ASSUME NEW t \in Tasks, Call1(t) \/ Step(t)
      PROVE  UNCHANGED fault \/ Ring(t)
  BY <1>1 DEF Call1, Step, Request, Free, Stop, Resume, Send, SendReady, SendBusy,
     SendAgain, RequestSem, FreeSem, ResumeSem, SendSem, Assign, EnableIrq, SetCallback,
     SetCookie, FreeLock, Unmask, Write, Requested, Freed, Resumed, Sent
<1>2. ASSUME NEW t \in Tasks, Ring(t)
      PROVE  fault' \in BOOLEAN
  <2>1. fault' = ~hsem[ch[t]]
    BY <1>2 DEF Ring
  <2>2. (~hsem[ch[t]]) \in BOOLEAN
    OBVIOUS
  <2> QED BY <2>1, <2>2, Zenon
<1>3. CASE \/ \E c \in Chan : ApSend(c) \/ ApRead(c)
           \/ IsrEnter \/ UNCHANGED vars
  <2>1. UNCHANGED fault
    BY <1>3 DEF ApSend, ApRead, IsrEnter, vars
  <2> QED BY <2>1, Zenon
<1>4. CASE IsrServe
  <2>1. PICK c \in pending : fault' = (c \in withCb \ withCookie)
    BY <1>4, Zenon DEF IsrServe
  <2>2. (c \in withCb \ withCookie) \in BOOLEAN
    OBVIOUS
  <2> QED BY <2>1, <2>2, Zenon
<1>5. (\E t \in Tasks : UNCHANGED fault) => fault' \in BOOLEAN
  BY Zenon
<1> QED BY <1>1, <1>2, <1>3, <1>4, <1>5, Zenon DEF Next, Isr

\* With one user per channel one task at a time is in a call on it.
LEMMA OneCaller ==
  ASSUME Disjoint, OwnInv, NEW t \in Tasks, NEW u \in Tasks \ {t}, pc[t] # "idle",
         pc[u] # "idle"
  PROVE  ch[u] # ch[t]
BY MboxAssumption DEF OwnInv, Owns, Disjoint

\* A task's step that is no write, no ring and no end of a message.
LEMMA TxFrame ==
  ASSUME TypeTask, TxInv, UNCHANGED toAp, NEW t \in Tasks, pc[t] # "ring", pc'[t] # "ring",
         Sending(t)',
         \A u \in Tasks \ {t} : pc'[u] = pc[u] /\ ch'[u] = ch[u] /\ tries'[u] = tries[u]
  PROVE  TxInv'
<1>1. \A c \in Chan : On(c, {"ring"})' <=> On(c, {"ring"})
  BY DEF On
<1>2. \A c \in Chan : TxCount(c)'
  BY <1>1 DEF TxInv, TxCount, One, toAp
<1>3. \A u \in Tasks \ {t} : Sending(u)'
  BY DEF TxInv, Sending, toAp
<1> QED BY <1>2, <1>3 DEF TxInv

\* Sending counts.
LEMMA TxStep ==
  ASSUME Disjoint, IInv, TypeTask, TypeTx, TxInv, [Next]_vars
  PROVE  TypeTx' /\ TxInv'
<1> USE MboxAssumption
<1>1. ASSUME NEW c \in Chan, ApRead(c)
      PROVE  TypeTx' /\ TxInv'
  <2>1. /\ c \in risa /\ apGot' = [apGot EXCEPT ![c] = Append(apGot[c], txMem[c])]
        /\ risa' = risa \ {c} /\ UNCHANGED <<txMem, sent, failed, pc, ch, tries>>
    BY <1>1 DEF ApRead, task
  <2>2. ~On(c, {"ring"})
    BY <2>1 DEF TxInv, Sending, On
  <2>3. /\ apGot[c] \in Seq(1 .. MaxTx) /\ apGot[c] = UpTo(Len(apGot[c]))
        /\ Len(apGot[c]) \in Nat /\ sent[c] \in 0 .. MaxTx
        /\ txMem[c] = sent[c] /\ sent[c] = Len(apGot[c]) + 1
    <3>1. /\ TxCount(c) /\ apGot[c] \in Seq(1 .. MaxTx) /\ sent[c] \in 0 .. MaxTx
      BY DEF TxInv, TypeTx
    <3> QED BY <2>1, <2>2, <3>1 DEF TxCount, One
  <2>4. txMem[c] \in 1 .. MaxTx /\ txMem[c] = Len(apGot[c]) + 1
    BY <2>3
  <2>5. /\ Append(apGot[c], txMem[c]) \in Seq(1 .. MaxTx)
        /\ Len(Append(apGot[c], txMem[c])) = Len(apGot[c]) + 1
        /\ Append(apGot[c], txMem[c]) = UpTo(Len(Append(apGot[c], txMem[c])))
    BY <2>3, <2>4, AppendUpTo
  <2>6. /\ apGot'[c] = Append(apGot[c], txMem[c]) /\ apGot' \in [Chan -> Seq(1 .. MaxTx)]
        /\ \A d \in Chan \ {c} : apGot'[d] = apGot[d]
    BY <2>1, <2>5 DEF TypeTx
  <2>7. TypeTx'
    BY <2>1, <2>6 DEF TypeTx
  <2>8. TxCount(c)'
    <3>1. /\ Len(apGot'[c]) = Len(apGot[c]) + 1 /\ apGot'[c] = UpTo(Len(apGot'[c]))
      BY <2>5, <2>6
    <3>2. c \notin risa' /\ sent'[c] = Len(apGot[c]) + 1 /\ ~On(c, {"ring"})'
      BY <2>1, <2>2, <2>3 DEF On
    <3>3. Len(apGot'[c]) + One(c \in risa') + One(On(c, {"ring"}))' = sent'[c]
      BY <2>3, <3>1, <3>2 DEF One
    <3> QED BY <3>1, <3>2, <3>3 DEF TxCount
  <2>9. ASSUME NEW d \in Chan \ {c} PROVE TxCount(d)'
    BY <2>1, <2>6 DEF TxInv, TxCount, One, On
  <2>10. \A u \in Tasks : Sending(u)'
    BY <2>1 DEF TxInv, Sending
  <2> QED BY <2>7, <2>8, <2>9, <2>10 DEF TxInv
<1>2. ASSUME NEW t \in Tasks, Outside(t) \/ Takes(t) \/ Inside(t) \/ Gives(t)
      PROVE  TypeTx' /\ TxInv'
  <2>1. \A u \in Tasks \ {t} : pc'[u] = pc[u] /\ ch'[u] = ch[u] /\ tries'[u] = tries[u]
    BY <1>2, OneTask, TypeTaskStep DEF IInv
  <2>2. PICK c \in Chan : c = ch[t]
    BY DEF TypeTask
  <2>3. CASE Write(t)
    <3>1. /\ pc[t] = "write" /\ pc'[t] = "ring" /\ sent' = [sent EXCEPT ![c] = sent[c] + 1]
          /\ txMem' = [txMem EXCEPT ![c] = sent'[c]] /\ ch'[t] = c
          /\ UNCHANGED <<risa, apGot, failed>>
      BY <2>2, <2>3 DEF Write, Goes, task, TypeTask
    <3>2. /\ c \notin risa /\ sent[c] \in 0 .. MaxTx /\ sent[c] < MaxTx
      BY <2>2, <3>1 DEF TxInv, Sending, TypeTx
    <3>3. /\ sent'[c] = sent[c] + 1 /\ sent' \in [Chan -> 0 .. MaxTx]
          /\ \A d \in Chan \ {c} : sent'[d] = sent[d]
      BY <2>2, <3>1, <3>2 DEF TypeTx
    <3>4. /\ txMem'[c] = sent'[c] /\ txMem' \in [Chan -> 0 .. MaxTx]
          /\ \A d \in Chan \ {c} : txMem'[d] = txMem[d]
      BY <2>2, <3>1, <3>3 DEF TypeTx
    <3>5. TypeTx'
      BY <3>1, <3>3, <3>4 DEF TypeTx
    <3>6. \A u \in Tasks \ {t} : pc[u] # "idle" => ch[u] # c
      BY <2>2, <3>1, OneCaller DEF IInv
    <3>7. ~On(c, {"ring"}) /\ On(c, {"ring"})'
      BY <2>1, <2>2, <3>1, <3>6 DEF On
    <3>8. \A d \in Chan \ {c} : On(d, {"ring"})' <=> On(d, {"ring"})
      BY <2>1, <2>2, <3>1 DEF On
    <3>9. TxCount(c)'
      <4>1. TxCount(c) /\ Len(apGot[c]) \in Nat
        BY <2>2 DEF TxInv, TypeTx
      <4>2. Len(apGot[c]) = sent[c]
        BY <3>2, <3>7, <4>1 DEF TxCount, One
      <4> QED BY <3>1, <3>2, <3>3, <3>7, <4>1, <4>2 DEF TxCount, One
    <3>10. ASSUME NEW d \in Chan \ {c} PROVE TxCount(d)'
      BY <3>1, <3>3, <3>4, <3>8 DEF TxInv, TxCount, One
    <3>11. Sending(t)'
      BY <2>2, <3>1, <3>2, <3>4 DEF Sending
    <3>12. ASSUME NEW u \in Tasks \ {t} PROVE Sending(u)'
      <4>1. CASE pc[u] = "idle"
        BY <2>1, <4>1 DEF Sending
      <4>2. CASE pc[u] # "idle"
        <5>1. ch[u] \in Chan \ {c}
          BY <3>6, <4>2 DEF TypeTask
        <5> QED BY <2>1, <3>1, <3>3, <3>4, <5>1 DEF TxInv, Sending
      <4> QED BY <4>1, <4>2
    <3> QED BY <3>5, <3>9, <3>10, <3>11, <3>12 DEF TxInv
  <2>4. CASE Ring(t)
    <3>1. hsem[c]
      BY <2>2, <2>4 DEF Ring, Goes, IInv, OwnInv, Owns, LockInv, Locks
    <3>2. /\ pc[t] = "ring" /\ pc'[t] = "sent" /\ risa' = risa \cup {c} /\ ch'[t] = c
          /\ UNCHANGED <<txMem, sent, apGot, failed>>
      BY <2>2, <2>4, <3>1 DEF Ring, Goes, task, TypeTask
    <3>3. TypeTx'
      BY <2>2, <3>2 DEF TypeTx
    <3>4. c \notin risa /\ txMem[c] = sent[c]
      BY <2>2, <3>2 DEF TxInv, Sending
    <3>5. \A u \in Tasks \ {t} : pc[u] # "idle" => ch[u] # c
      BY <2>2, <3>2, OneCaller DEF IInv
    <3>7. On(c, {"ring"}) /\ ~On(c, {"ring"})'
      BY <2>1, <2>2, <3>2, <3>5 DEF On
    <3>8. \A d \in Chan \ {c} : On(d, {"ring"})' <=> On(d, {"ring"})
      BY <2>1, <2>2, <3>2 DEF On
    <3>9. TxCount(c) /\ Len(apGot[c]) \in Nat /\ sent[c] \in Nat
      BY <2>2 DEF TxInv, TypeTx
    <3>10. sent[c] = Len(apGot[c]) + 1
      BY <3>4, <3>7, <3>9 DEF TxCount, One
    <3>11. TxCount(c)'
      BY <3>2, <3>4, <3>7, <3>9, <3>10 DEF TxCount, One
    <3>12. ASSUME NEW d \in Chan \ {c} PROVE TxCount(d)'
      BY <3>2, <3>8 DEF TxInv, TxCount, One
    <3>13. Sending(t)'
      BY <2>2, <3>2, <3>9, <3>10 DEF Sending
    <3>14. ASSUME NEW u \in Tasks \ {t} PROVE Sending(u)'
      BY <2>1, <2>2, <3>2, <3>5 DEF TxInv, Sending
    <3> QED BY <3>3, <3>11, <3>12, <3>13, <3>14 DEF TxInv
  <2>5. CASE Sent(t)
    <3>1. /\ pc[t] = "sent" /\ pc'[t] = "idle" /\ UNCHANGED <<risa, txMem, sent, apGot>>
          /\ failed' = [failed EXCEPT ![c] = IF tries[t] = 0 THEN failed[c] \cup {sent[c]}
                                             ELSE failed[c]]
      BY <2>2, <2>5 DEF Sent, Goes, TypeTask
    <3>2. sent[c] \in 1 .. MaxTx
      BY <2>2, <3>1 DEF TxInv, Sending, TypeTx
    <3>3. TypeTx'
      BY <2>2, <3>1, <3>2 DEF TypeTx
    <3>4. \A d \in Chan : On(d, {"ring"})' <=> On(d, {"ring"})
      BY <2>1, <3>1 DEF On
    <3>5. \A d \in Chan : TxCount(d)'
      BY <3>1, <3>4 DEF TxInv, TxCount, One
    <3>6. \A u \in Tasks : Sending(u)'
      BY <2>1, <3>1 DEF TxInv, Sending
    <3> QED BY <3>3, <3>5, <3>6 DEF TxInv
  <2>6. CASE ~(Write(t) \/ Ring(t) \/ Sent(t))
    <3>1. UNCHANGED toAp
      BY <1>2, <2>6 DEF Outside, Takes, Inside, Gives, Request, Free, Stop, Resume, Send,
         SendReady, SendBusy, SendAgain, RequestSem, FreeSem, ResumeSem, SendSem, Assign,
         EnableIrq, SetCallback, SetCookie, FreeLock, Unmask, Requested, Freed, Resumed
    <3>2. pc[t] # "ring" /\ pc'[t] # "ring"
      BY <1>2, <2>6 DEF Outside, Takes, Inside, Gives, Request, Free, Stop, Resume, Send,
         SendReady, SendBusy, SendAgain, RequestSem, FreeSem, ResumeSem, SendSem, Assign,
         EnableIrq, SetCallback, SetCookie, FreeLock, Unmask, Requested, Freed, Resumed,
         Call, TakeSem, Goes, TypeTask
    <3>3. Sending(t)'
      <4>1. ASSUME NEW d \in Chan, Send(t, d)
            PROVE  Sending(t)'
        BY <4>1 DEF Send, Call, Goes, Sending, TypeTask, toAp
      <4>2. CASE SendReady(t) \/ SendSem(t)
        BY <4>2 DEF SendReady, SendSem, TakeSem, Goes, TxInv, Sending, TypeTask, toAp, task
      <4>3. CASE SendBusy(t)
        BY <4>3 DEF SendBusy, Goes, TxInv, Sending, Plain, TypeTask, toAp
      <4>4. CASE SendAgain(t)
        BY <4>4 DEF SendAgain, Goes, TxInv, Sending, TypeTask, toAp
      <4>5. CASE ~(SendReady(t) \/ SendSem(t) \/ SendBusy(t) \/ SendAgain(t)
                     \/ \E d \in Chan : Send(t, d))
        <5>1. pc'[t] \notin {"send", "delay", "sendSem", "write", "ring", "sent"}
          BY <1>2, <2>6, <4>5 DEF Outside, Takes, Inside, Gives, Request, Free, Stop,
             Resume, RequestSem, FreeSem, ResumeSem, Assign, EnableIrq, SetCallback,
             SetCookie, FreeLock, Unmask, Requested, Freed, Resumed, Call, TakeSem, Goes,
             TypeTask
        <5> QED BY <5>1 DEF Sending
      <4> QED BY <4>1, <4>2, <4>3, <4>4, <4>5
    <3>4. TypeTx'
      BY <3>1 DEF TypeTx, toAp
    <3> QED BY <2>1, <3>1, <3>2, <3>3, <3>4, TxFrame
  <2> QED BY <2>3, <2>4, <2>5, <2>6
<1>3. CASE \/ \E c \in Chan : ApSend(c)
           \/ Isr \/ UNCHANGED vars
  <2>1. UNCHANGED <<toAp, pc, ch, tries>>
    BY <1>3 DEF ApSend, Isr, IsrEnter, IsrServe, vars, task
  <2>2. \A c \in Chan : On(c, {"ring"})' <=> On(c, {"ring"})
    BY <2>1 DEF On
  <2> QED BY <2>1, <2>2 DEF TypeTx, TxInv, TxCount, Sending, One, toAp
<1>4. ASSUME NEW t \in Tasks, Call1(t) \/ Step(t)
      PROVE  Outside(t) \/ Takes(t) \/ Inside(t) \/ Gives(t)
  BY <1>4 DEF Call1, Step, Outside, Takes, Inside, Gives
<1> QED BY <1>1, <1>2, <1>3, <1>4 DEF Next

TypeAll == TypeChan /\ TypeMask /\ TypeTask /\ fault \in BOOLEAN

LEMMA InitTypes ==
  ASSUME Init
  PROVE  TypeAll /\ TypeTx /\ TxInv /\ TypeRx /\ RxInv
<1> USE MboxAssumption
<1>1. TypeChan /\ TypeMask /\ TypeRx
  BY DEF Init, TypeChan, TypeMask, TypeRx
<1>2. TypeTx
  BY DEF Init, TypeTx
<1>3. TypeTask
  BY DEF Init, TypeTask, Points, Plain
<1>4. fault \in BOOLEAN
  BY DEF Init
<1>5. /\ risa = {} /\ risb = {} /\ pending = {} /\ \A t \in Tasks : pc[t] = "idle"
      /\ \A c \in Chan : /\ apGot[c] = <<>> /\ got[c] = <<>> /\ sent[c] = 0
                         /\ apSent[c] = 0
  BY DEF Init
<1>6. <<>> = UpTo(Len(<<>>))
  BY DEF UpTo
<1>7. TxInv
  <2>1. \A c \in Chan : c \notin risa /\ ~On(c, {"ring"}) /\ Len(apGot[c]) = 0
    BY <1>5 DEF On
  <2>2. ASSUME NEW c \in Chan PROVE TxCount(c)
    <3>1. apGot[c] = UpTo(Len(apGot[c]))
      BY <1>5, <1>6
    <3>2. Len(apGot[c]) + One(c \in risa) + One(On(c, {"ring"})) = sent[c]
      <4>1. One(c \in risa) = 0 /\ One(On(c, {"ring"})) = 0
        BY <2>1, Zenon DEF One
      <4> QED BY <1>5, <2>1, <4>1
    <3> QED BY <2>1, <3>1, <3>2 DEF TxCount
  <2>3. \A t \in Tasks : Sending(t)
    BY <1>5 DEF Sending
  <2> QED BY <2>2, <2>3 DEF TxInv
<1>8. RxInv
  BY <1>5, <1>6 DEF RxInv, RxCount, One
<1> QED BY <1>1, <1>2, <1>3, <1>4, <1>7, <1>8 DEF TypeAll

LEMMA InvariantStep ==
  ASSUME Disjoint, IInv, [Next]_vars
  PROVE  IInv'
BY ShapeStep, SemStep, OwnStep, LockStep, RegStep, StopStep, MaskStep DEF IInv

\* What mbox_send_msg sends the AP reads once, unaltered and in order, for any number of
\* tasks and channels with one user each, also when channels are freed and requested
\* again.
THEOREM SentInOrder ==
  ASSUME Disjoint
  PROVE  Spec => []TxInOrder
<1>1. Init => IInv /\ TypeAll /\ TypeTx /\ TxInv
  BY InitInvariant, InitTypes
<1>2. IInv /\ TypeAll /\ TypeTx /\ TxInv /\ [Next]_vars
        => (IInv /\ TypeAll /\ TypeTx /\ TxInv)'
  BY InvariantStep, TypeTaskStep, TypeChanStep, TypeMaskStep, TypeFaultStep, TxStep
     DEF TypeAll
<1>3. TxInv => TxInOrder
  BY DEF TxInv, TxCount, TxInOrder
<1> QED BY <1>1, <1>2, <1>3, PTL DEF Spec

\* Both directions keep the order and lose nothing while no channel is freed and the AP
\* rings only channels that were requested: the interrupt finds the callback set.
THEOREM BothInOrder ==
  ASSUME Disjoint, Frees = FALSE, ApEarly = FALSE
  PROVE  Spec => []InOrder
<1> DEFINE Inv == IInv /\ TypeAll /\ TypeTx /\ TxInv /\ TypeRx /\ RxInv
<1>1. Init => Inv
  BY InitInvariant, InitTypes
<1>2. Inv /\ [Next]_vars => Inv'
  BY InvariantStep, TypeTaskStep, TypeChanStep, TypeMaskStep, TypeFaultStep, TxStep, RxStep
     DEF TypeAll
<1>3. Inv => InOrder
  BY DEF TypeAll, TypeOK, TxInv, TxCount, TxInOrder, RxInv, RxCount, RxInOrder, InOrder
<1> HIDE DEF Inv
<1> QED BY <1>1, <1>2, <1>3, PTL DEF Spec

-------------------------------------------------------------------------------
\* What holds of reception however the channels are shared, freed and rung: of the
\* messages of the AP that reach rx_cb none comes twice, late, or behind a newer one,
\* although the ring of a message may be served while its channel is being requested,
\* stopped or freed, and the message is lost then.
RxOnce == \A c \in Chan : \A i, j \in DOMAIN got[c] : i < j => got[c][i] < got[c][j]

\* What was received is older than what waits.
Fresh(c) == /\ rxMem[c] = apSent[c]
            /\ c \in risb => apSent[c] > 0
            /\ \A i \in DOMAIN got[c] : /\ got[c][i] <= apSent[c]
                                        /\ c \in risb => got[c][i] < apSent[c]
FreshInv == /\ TypeRx /\ pending \subseteq risb
            /\ \A c \in Chan : Fresh(c)
            /\ RxOnce

\* The tasks leave it alone: what they do to masks and locks decides which message is
\* served, not which of them.
LEMMA FreshStep ==
  ASSUME FreshInv, [Next]_vars
  PROVE  FreshInv'
<1> USE MboxAssumption
<1>1. ASSUME NEW c \in Chan, ApSend(c)
      PROVE  FreshInv'
  <2>1. /\ c \notin risb /\ apSent[c] < MaxRx /\ apSent[c] \in 0 .. MaxRx
        /\ apSent' = [apSent EXCEPT ![c] = apSent[c] + 1]
        /\ rxMem' = [rxMem EXCEPT ![c] = apSent'[c]]
        /\ risb' = risb \cup {c} /\ UNCHANGED <<got, pending>>
    BY <1>1 DEF ApSend, FreshInv, TypeRx
  <2>2. /\ apSent'[c] = apSent[c] + 1 /\ apSent' \in [Chan -> 0 .. MaxRx]
        /\ \A d \in Chan \ {c} : apSent'[d] = apSent[d]
    BY <2>1 DEF FreshInv, TypeRx
  <2>3. /\ rxMem'[c] = apSent'[c] /\ rxMem' \in [Chan -> 0 .. MaxRx]
        /\ \A d \in Chan \ {c} : rxMem'[d] = rxMem[d]
    BY <2>1, <2>2 DEF FreshInv, TypeRx
  <2>4. TypeRx' /\ pending' \subseteq risb'
    BY <2>1, <2>2, <2>3 DEF FreshInv, TypeRx
  <2>5. Fresh(c)'
    <3>1. Fresh(c) /\ \A i \in DOMAIN got[c] : got[c][i] \in Int
      BY DEF FreshInv, TypeRx
    <3> QED BY <2>1, <2>2, <2>3, <3>1 DEF Fresh
  <2>6. ASSUME NEW d \in Chan \ {c} PROVE Fresh(d)'
    BY <2>1, <2>2, <2>3 DEF FreshInv, Fresh
  <2>7. RxOnce'
    BY <2>1 DEF FreshInv, RxOnce
  <2> QED BY <2>4, <2>5, <2>6, <2>7 DEF FreshInv
<1>2. CASE IsrEnter
  <2>1. pending' = risb \cap imscb /\ UNCHANGED fromAp
    BY <1>2 DEF IsrEnter
  <2> QED BY <2>1 DEF FreshInv, TypeRx, Fresh, RxOnce, fromAp
<1>3. CASE IsrServe
  <2>1. PICK c \in pending :
          /\ pending' = pending \ {c} /\ risb' = risb \ {c}
          /\ UNCHANGED <<rxMem, apSent>>
          /\ \/ got' = [got EXCEPT ![c] = Append(got[c], rxMem[c])]
             \/ got' = got
    BY <1>3 DEF IsrServe
  <2>2. /\ c \in Chan /\ c \in risb /\ pending' \subseteq risb'
        /\ got[c] \in Seq(1 .. MaxRx) /\ apSent[c] \in 1 .. MaxRx /\ rxMem[c] = apSent[c]
        /\ \A i \in DOMAIN got[c] : got[c][i] \in Int /\ got[c][i] < apSent[c]
    BY <2>1 DEF FreshInv, TypeRx, Fresh
  <2>3. CASE got' = got
    BY <2>1, <2>2, <2>3 DEF FreshInv, TypeRx, Fresh, RxOnce
  <2>4. CASE got' = [got EXCEPT ![c] = Append(got[c], rxMem[c])]
    <3>1. PICK g : g = Append(got[c], apSent[c])
      OBVIOUS
    <3>2. PICK n \in Nat :
            /\ g \in Seq(1 .. MaxRx) /\ DOMAIN g = 1 .. n + 1 /\ g[n + 1] = apSent[c]
            /\ DOMAIN got[c] = 1 .. n /\ \A i \in 1 .. n : g[i] = got[c][i]
      <4>1. Len(got[c]) \in Nat /\ DOMAIN got[c] = 1 .. Len(got[c])
        BY <2>2
      <4>2. /\ g \in Seq(1 .. MaxRx) /\ DOMAIN g = 1 .. Len(got[c]) + 1
            /\ g[Len(got[c]) + 1] = apSent[c]
            /\ \A i \in 1 .. Len(got[c]) : g[i] = got[c][i]
        BY <2>2, <3>1
      <4> QED BY <4>1, <4>2
    <3>3. /\ got'[c] = g /\ got' \in [Chan -> Seq(1 .. MaxRx)]
          /\ \A d \in Chan \ {c} : got'[d] = got[d]
      BY <2>2, <2>4, <3>1, <3>2 DEF FreshInv, TypeRx
    <3>4. TypeRx'
      BY <2>1, <3>3 DEF FreshInv, TypeRx
    <3>5. \A i \in DOMAIN g : g[i] <= apSent[c]
      <4>1. ASSUME NEW i \in 1 .. n + 1 PROVE g[i] <= apSent[c]
        <5>1. CASE i \in 1 .. n
          <6>1. g[i] = got[c][i] /\ got[c][i] \in Int /\ got[c][i] < apSent[c]
            BY <2>2, <3>2, <5>1
          <6> QED BY <2>2, <6>1
        <5>2. CASE i = n + 1
          BY <2>2, <3>2, <5>2
        <5> QED BY <5>1, <5>2
      <4> QED BY <3>2, <4>1
    <3>6. Fresh(c)'
      BY <2>1, <2>2, <3>3, <3>5 DEF Fresh
    <3>7. ASSUME NEW d \in Chan \ {c} PROVE Fresh(d)'
      BY <2>1, <3>3 DEF FreshInv, Fresh
    <3>8. \A i, j \in DOMAIN g : i < j => g[i] < g[j]
      <4>1. \A i, j \in DOMAIN got[c] : i < j => got[c][i] < got[c][j]
        BY <2>2 DEF FreshInv, RxOnce
      <4>2. ASSUME NEW i \in 1 .. n + 1, NEW j \in 1 .. n + 1, i < j PROVE g[i] < g[j]
        <5>1. i \in 1 .. n /\ (j \in 1 .. n \/ j = n + 1)
          BY <4>2
        <5> QED BY <2>2, <3>2, <4>1, <4>2, <5>1
      <4> QED BY <3>2, <4>2
    <3>9. RxOnce'
      BY <3>3, <3>8 DEF FreshInv, RxOnce
    <3> QED BY <2>2, <3>4, <3>6, <3>7, <3>9 DEF FreshInv
  <2> QED BY <2>1, <2>3, <2>4
<1>4. CASE \/ \E c \in Chan : ApRead(c)
           \/ UNCHANGED vars \/ \E t \in Tasks : Call1(t) \/ Step(t)
  <2>1. ASSUME NEW c \in Chan, ApRead(c)
        PROVE  UNCHANGED <<fromAp, pending>>
    BY <2>1 DEF ApRead
  <2>2. ASSUME NEW t \in Tasks, Call1(t) \/ Step(t)
        PROVE  UNCHANGED <<fromAp, pending>>
    <3>1. CASE Call1(t)
      BY <3>1 DEF Call1, Request, Free, Stop, Resume, Send
    <3>2. CASE \/ Assign(t) \/ EnableIrq(t) \/ SetCallback(t) \/ SetCookie(t)
               \/ Requested(t) \/ FreeLock(t) \/ Freed(t) \/ Unmask(t) \/ Resumed(t)
      BY <3>2 DEF Assign, EnableIrq, SetCallback, SetCookie, Requested, FreeLock, Freed,
         Unmask, Resumed
    <3>3. CASE RequestSem(t) \/ FreeSem(t) \/ ResumeSem(t) \/ SendSem(t)
      BY <3>3 DEF RequestSem, FreeSem, ResumeSem, SendSem
    <3>4. CASE \/ SendReady(t) \/ SendBusy(t) \/ SendAgain(t) \/ Write(t) \/ Ring(t)
               \/ Sent(t)
      BY <3>4 DEF SendReady, SendBusy, SendAgain, Write, Ring, Sent
    <3> QED BY <2>2, <3>1, <3>2, <3>3, <3>4 DEF Step
  <2>3. UNCHANGED <<fromAp, pending>>
    BY <1>4, <2>1, <2>2 DEF vars
  <2> QED BY <2>3 DEF FreshInv, TypeRx, Fresh, RxOnce, fromAp
<1> QED BY <1>1, <1>2, <1>3, <1>4 DEF Next, Isr

\* No message of the AP reaches rx_cb twice or behind a newer one, for any number of
\* tasks and channels, with no premise on who uses which channel, whether channels are
\* freed, or when the AP rings.
THEOREM ReceivedOnce == Spec => []RxOnce
<1>1. Init => FreshInv
  BY MboxAssumption DEF Init, FreshInv, TypeRx, Fresh, RxOnce
<1>2. FreshInv /\ [Next]_vars => FreshInv'
  BY FreshStep
<1>3. FreshInv => RxOnce
  BY DEF FreshInv
<1> QED BY <1>1, <1>2, <1>3, PTL DEF Spec
==============================================================================
