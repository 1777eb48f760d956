--------------------------- MODULE RpmsgInit_proofs ----------------------------
(***************************************************************************)
(* Theorems about RpmsgInit, for any number of tasks and any queue length. *)
(*                                                                         *)
(* SemInv: the semaphore has at most one holder.  StartInv: vRpmsgInitDone *)
(* is INIT_ONGOING while the holder is on its way, and a waiter gets the   *)
(* semaphore only after INIT_DONE.  OnceInv: the channel request lets one  *)
(* task through, so the host is answered once.  RequestInv: the host's     *)
(* request is at the head of what the interrupt passes on until            *)
(* MessageQCopy_init has run.                                              *)
(***************************************************************************)
EXTENDS RpmsgInit, TLAPS

InSem(t)    == pc[t] \in {"pass", "start", "request", "queue", "receive", "answer"}
Starter(t)  == pc[t] \in {"queue", "receive", "answer", "sendAck", "sendFailed"}

SemInv == /\ \A t \in Tasks : InSem(t) => ~semRpmsg
          /\ \A t, u \in Tasks : InSem(t) /\ InSem(u) => t = u

StartInv ==
  /\ WaitingHolds
  /\ \A t \in Tasks : /\ pc[t] = "wait" => initDone # "no"
                      /\ pc[t] = "pass" => initDone = "done"
                      /\ pc[t] \in {"request", "queue", "receive"} => initDone = "ongoing"
                      /\ pc[t] = "answer" => initDone # "no"
  /\ SemPassedOn

OnceInv ==
  /\ \A t \in Tasks : Starter(t) => assigned /\ bell = "none" /\ answer = "none"
  /\ \A t, u \in Tasks : Starter(t) /\ Starter(u) => t = u
  /\ bell # "none" => assigned /\ answer = "none"
  /\ answer # "none" => assigned

RequestInv ==
  /\ ~assigned => ~rxMade /\ vrings = "none"
  /\ ~rxMade => rxQueue = <<>>
  /\ ~asked => mail = "none" /\ rxQueue = <<>>
  /\ asked /\ ~assigned => mail = "init"
  /\ vrings # "none" => asked
  /\ \A t \in Tasks : pc[t] = "queue" => /\ ~rxMade /\ vrings = "none"
                                         /\ ~fault /\ asked => mail = "init"
  /\ \A t \in Tasks : pc[t] = "receive" /\ vrings # "made" /\ ~fault =>
       /\ rxMade
       /\ asked => \/ rxQueue = <<>> /\ mail = "init"
                   \/ rxQueue # <<>> /\ Head(rxQueue) = "init"
  /\ initDone = "done" => assigned /\ vrings = "made"
  /\ \A t \in Tasks : pc[t] \in {"ok", "sendAck"} => assigned /\ vrings = "made"
  /\ \A t, u \in Tasks : pc[t] \in {"queue", "receive"} => pc[u] \notin {"ok", "sendAck"}

IInv == TypeOK /\ SemInv /\ StartInv /\ OnceInv /\ RequestInv

-------------------------------------------------------------------------------
\* A sequence that grows at its end.
LEMMA AppendAtEnd ==
  ASSUME NEW S, NEW s \in Seq(S), NEW x \in S
  PROVE  /\ Append(s, x) \in Seq(S) /\ Append(s, x) # <<>> /\ Append(s, x) # s
         /\ Len(s) \in Nat /\ (s = <<>> <=> Len(s) = 0) /\ DOMAIN s = 1 .. Len(s)
         /\ DOMAIN Append(s, x) = 1 .. Len(s) + 1
         /\ Append(s, x)[Len(s) + 1] = x
         /\ \A i \in 1 .. Len(s) : Append(s, x)[i] = s[i]
         /\ s = <<>> => Head(Append(s, x)) = x
         /\ s # <<>> => Head(Append(s, x)) = Head(s)
<1>1. Len(s) \in Nat /\ DOMAIN s = 1 .. Len(s) /\ (s = <<>> <=> Len(s) = 0)
  OBVIOUS
<1>2. /\ Append(s, x) \in Seq(S) /\ Len(Append(s, x)) = Len(s) + 1
      /\ DOMAIN Append(s, x) = 1 .. Len(s) + 1
      /\ Append(s, x)[Len(s) + 1] = x
      /\ \A i \in 1 .. Len(s) : Append(s, x)[i] = s[i]
  OBVIOUS
<1>3. Append(s, x) # <<>> /\ Append(s, x) # s
  <2>1. Len(Append(s, x)) # Len(s) /\ Len(Append(s, x)) # 0
    <3>1. \A n \in Nat : n + 1 # n /\ n + 1 # 0
      OBVIOUS
    <3>2. Len(s) \in Nat
      BY <1>1
    <3>3. Len(Append(s, x)) = Len(s) + 1
      BY <1>2
    <3> QED BY <3>1, <3>2, <3>3, Zenon
  <2>2. Len(<<>>) = 0
    OBVIOUS
  <2> QED BY <2>1, <2>2, Zenon
<1>4. Head(Append(s, x)) = Append(s, x)[1] /\ (s # <<>> => Head(s) = s[1])
  BY <1>2, <1>3
<1>5. s = <<>> => Head(Append(s, x)) = x
  BY <1>1, <1>2, <1>4
<1>6. s # <<>> => Head(Append(s, x)) = Head(s)
  <2>1. s # <<>> => 1 \in 1 .. Len(s)
    BY <1>1
  <2> QED BY <2>1, <1>2, <1>4
<1> QED BY <1>1, <1>2, <1>3, <1>5, <1>6, Zenon

\* What the interrupt does to xQueueRpmsg: the host's request and what else it posts go to
\* its end, and a request is refused by a full queue or a missing one only.
LEMMA IsrPosts ==
  ASSUME Isr
  PROVE  /\ assigned /\ mail # "none" /\ mail' = "none" /\ ~fault
         /\ UNCHANGED <<initDone, semRpmsg, assigned, rxMade, vrings, pc, bell, asked, answer>>
         /\ rxQueue' = rxQueue
              \/ (rxMade /\ \E m \in Msgs : rxQueue' = Append(rxQueue, m) /\ (mail = "init" => m = "init"))
         /\ mail = "init" => \/ ~rxMade /\ fault'
                             \/ ~(Len(rxQueue) < QueueLen)
                             \/ rxMade /\ rxQueue' = Append(rxQueue, "init")
         /\ rxMade => ~fault'
<1>1. /\ assigned /\ mail # "none" /\ mail' = "none" /\ ~fault
      /\ UNCHANGED <<initDone, semRpmsg, assigned, rxMade, vrings, pc, bell, asked, answer>>
  BY Zenon DEF Isr, IsrPost, IsrKick, IsrMessage, IsrEcho, IsrUp, IsrOf, Alive
<1>2. fault' = fault \/ fault' = ~rxMade
  BY Zenon DEF Isr, IsrPost, IsrKick, IsrMessage, IsrEcho, IsrUp, Kicked, Post, isr
<1>3. ASSUME NEW m, Post(m)
      PROVE  \/ rxQueue' = rxQueue /\ (~rxMade \/ ~(Len(rxQueue) < QueueLen))
             \/ rxMade /\ rxQueue' = Append(rxQueue, m)
  <2>1. CASE rxMade /\ Len(rxQueue) < QueueLen
    BY <1>3, <2>1, Zenon DEF Post
  <2>2. CASE ~(rxMade /\ Len(rxQueue) < QueueLen)
    BY <1>3, <2>2, Zenon DEF Post
  <2> QED BY <2>1, <2>2
<1>4. IsrPost => \E m \in {"init", "spurious"} : mail = m /\ Post(m)
  BY DEF IsrPost, IsrOf
<1>5. IsrKick \/ IsrMessage \/ IsrEcho \/ IsrUp
        => mail # "init" /\ (rxQueue' = rxQueue \/ Post("ready"))
  BY DEF IsrKick, IsrMessage, IsrEcho, IsrUp, IsrOf, Kicked
<1>6. \/ rxQueue' = rxQueue
      \/ rxMade /\ \E m \in Msgs : rxQueue' = Append(rxQueue, m) /\ (mail = "init" => m = "init")
  BY <1>3, <1>4, <1>5 DEF Isr, Msgs
<1>7. mail = "init" => \/ ~rxMade /\ fault'
                       \/ ~(Len(rxQueue) < QueueLen)
                       \/ rxMade /\ rxQueue' = Append(rxQueue, "init")
  <2>1. mail = "init" => Post("init")
    BY <1>4, <1>5 DEF Isr
  <2>2. Post("init") /\ ~rxMade => fault'
    BY Zenon DEF Post
  <2> QED BY <1>3, <2>1, <2>2
<1>8. rxMade => ~fault'
  BY <1>1, <1>2, Zenon
<1> QED BY <1>1, <1>6, <1>7, <1>8, Zenon

\* Every variable keeps its type.
LEMMA TypeStep ==
  ASSUME TypeOK, [Next]_vars
  PROVE  TypeOK'
<1> USE DEF TypeOK, Points, Msgs, rx, isr, m3host, Goes, Alive
<1>1. CASE HostAsk
  BY <1>1 DEF HostAsk
<1>2. CASE HostKick \/ HostSend
  BY <1>2, InitAssumption DEF HostKick, HostSend
<1>3. CASE HostRead
  BY <1>3 DEF HostRead
<1>4. CASE Isr
  <2>1. rxQueue' = rxQueue \/ \E m \in Msgs : rxQueue' = Append(rxQueue, m)
    BY <1>4, IsrPosts
  <2>2. rxQueue' \in Seq(Msgs)
    BY <2>1
  <2>3. fault' \in BOOLEAN /\ stuck' \in BOOLEAN /\ refused' \in BOOLEAN
    BY <1>4, Zenon DEF Isr, IsrPost, IsrKick, IsrMessage, IsrEcho, IsrUp, Kicked, Post
  <2> QED BY <1>4, <2>2, <2>3 DEF Isr, IsrPost, IsrKick, IsrMessage, IsrEcho, IsrUp, IsrOf
<1>5. ASSUME NEW t \in Tasks, WaitTake(t) \/ WaitPass(t) \/ WaitTimeout(t) \/ Take(t)
                                \/ Start(t) \/ Again(t)
      PROVE  TypeOK'
  <2>1. \E to \in {"pass", "ok", "error", "start", "request", "idle"} :
          pc' = [pc EXCEPT ![t] = to]
    BY <1>5 DEF WaitTake, WaitPass, WaitTimeout, Take, Start, Again
  <2>2. pc' \in [Tasks -> Points]
    BY <2>1
  <2>3. semRpmsg' \in BOOLEAN /\ initDone' \in {"no", "ongoing", "done"}
    BY <1>5 DEF WaitTake, WaitPass, WaitTimeout, Take, Start, Again
  <2>4. UNCHANGED <<assigned, rx, vrings, isr, m3host>>
    BY <1>5 DEF WaitTake, WaitPass, WaitTimeout, Take, Start, Again
  <2> QED BY <2>2, <2>3, <2>4
<1>6. ASSUME NEW t \in Tasks, Enter(t)
       PROVE  TypeOK'
  <2>1. \E to \in {"ok", "wait", "take"} : pc' = [pc EXCEPT ![t] = to]
    BY <1>6 DEF Enter
  <2>2. pc' \in [Tasks -> Points]
    BY <2>1
  <2> QED BY <1>6, <2>2 DEF Enter
<1>7. ASSUME NEW t \in Tasks, Request(t)
       PROVE  TypeOK'
  <2>1. \E to \in {"error", "queue"} : pc' = [pc EXCEPT ![t] = to]
    BY <1>7 DEF Request
  <2>2. pc' \in [Tasks -> Points]
    BY <2>1
  <2> QED BY <1>7, <2>2 DEF Request
<1>8. ASSUME NEW t \in Tasks, MakeQueue(t)
      PROVE  TypeOK'
  BY <1>8 DEF MakeQueue
<1>9. ASSUME NEW t \in Tasks, GetRequest(t) \/ GetReady(t) \/ GetOther(t)
      PROVE  TypeOK'
  <2>1. rxQueue # <<>> /\ rxQueue' = Tail(rxQueue) /\ UNCHANGED rxMade
    BY <1>9 DEF GetRequest, GetReady, GetOther, Got
  <2>3. rxQueue' \in Seq(Msgs)
    BY <2>1
  <2>4. \E to \in {"receive", "answer"} : pc' = [pc EXCEPT ![t] = to]
    BY <1>9 DEF GetRequest, GetReady, GetOther, Got
  <2>5. pc' \in [Tasks -> Points]
    BY <2>4
  <2>6. initDone' \in {"no", "ongoing", "done"} /\ vrings' \in {"none", "made", "failed"}
    BY <1>9 DEF GetRequest, GetReady, GetOther
  <2> QED BY <1>9, <2>1, <2>3, <2>5, <2>6 DEF GetRequest, GetReady, GetOther, Got
<1>10. ASSUME NEW t \in Tasks, Give(t) \/ Answer(t)
      PROVE  TypeOK'
  <2>1. \E to \in {"sendAck", "sendFailed", "ok", "error"} : pc' = [pc EXCEPT ![t] = to]
    BY <1>10 DEF Give, Answer
  <2>2. pc' \in [Tasks -> Points]
    BY <2>1
  <2>3. semRpmsg' \in BOOLEAN
    BY <1>10, Zenon DEF Give, Answer
  <2> QED BY <1>10, <2>2, <2>3 DEF Give, Answer
<1>11. CASE UNCHANGED vars
  BY <1>11 DEF vars
<1> QED BY <1>1, <1>2, <1>3, <1>4, <1>5, <1>6, <1>7, <1>8, <1>9, <1>10, <1>11
       DEF Next, Step

\* Only a task that takes the semaphore, from semRpmsg, enters InSem.
LEMMA SemStep ==
  ASSUME TypeOK, SemInv, [Next]_vars
  PROVE  SemInv'
<1> USE DEF TypeOK, SemInv, InSem, rx, isr, m3host, Goes, Alive
<1>1. CASE HostAsk \/ HostKick \/ HostSend \/ HostRead \/ Isr \/ UNCHANGED vars
  BY <1>1, IsrPosts DEF HostAsk, HostKick, HostSend, HostRead, vars
<1>2. ASSUME NEW t \in Tasks, Enter(t) \/ WaitTimeout(t) \/ Again(t) \/ Answer(t)
      PROVE  SemInv'
  BY <1>2 DEF Enter, WaitTimeout, Again, Answer
<1>3. ASSUME NEW t \in Tasks, WaitTake(t) \/ Take(t)
      PROVE  SemInv'
  BY <1>3 DEF WaitTake, Take
<1>4. ASSUME NEW t \in Tasks, WaitPass(t) \/ Give(t)
      PROVE  SemInv'
  BY <1>4 DEF WaitPass, Give
<1>5. ASSUME NEW t \in Tasks, Start(t) \/ Request(t) \/ MakeQueue(t)
      PROVE  SemInv'
  BY <1>5 DEF Start, Request, MakeQueue
<1>6. ASSUME NEW t \in Tasks, GetRequest(t) \/ GetReady(t) \/ GetOther(t)
      PROVE  SemInv'
  BY <1>6 DEF GetRequest, GetReady, GetOther, Got
<1> QED BY <1>1, <1>2, <1>3, <1>4, <1>5, <1>6 DEF Next, Step

\* vRpmsgInitDone changes only in the hands of the holder of the semaphore, and the
\* semaphore comes back only once it is INIT_DONE.
LEMMA StartStep ==
  ASSUME TypeOK, SemInv, StartInv, [Next]_vars
  PROVE  StartInv'
<1> USE DEF TypeOK, SemInv, StartInv, WaitingHolds, SemPassedOn, InSem, rx, isr, m3host, Goes, Alive
<1>1. CASE HostAsk \/ HostKick \/ HostSend \/ HostRead \/ Isr \/ UNCHANGED vars
  BY <1>1, IsrPosts DEF HostAsk, HostKick, HostSend, HostRead, vars
<1>2. ASSUME NEW t \in Tasks, Enter(t) \/ WaitTimeout(t) \/ Again(t) \/ Answer(t)
      PROVE  StartInv'
  BY <1>2 DEF Enter, WaitTimeout, Again, Answer
<1>3. ASSUME NEW t \in Tasks, WaitTake(t) \/ Take(t)
      PROVE  StartInv'
  BY <1>3 DEF WaitTake, Take
<1>4. ASSUME NEW t \in Tasks, WaitPass(t)
      PROVE  StartInv'
  BY <1>4 DEF WaitPass
<1>5. ASSUME NEW t \in Tasks, Give(t)
      PROVE  StartInv'
  BY <1>5 DEF Give
<1>6. ASSUME NEW t \in Tasks, Start(t) \/ Request(t) \/ MakeQueue(t)
      PROVE  StartInv'
  BY <1>6 DEF Start, Request, MakeQueue
<1>7. ASSUME NEW t \in Tasks, GetRequest(t) \/ GetReady(t) \/ GetOther(t)
      PROVE  StartInv'
  BY <1>7 DEF GetRequest, GetReady, GetOther, Got
<1> QED BY <1>1, <1>2, <1>3, <1>4, <1>5, <1>6, <1>7 DEF Next, Step

\* The channel request lets one task through, which answers once.
LEMMA OnceStep ==
  ASSUME TypeOK, OnceInv, [Next]_vars
  PROVE  OnceInv' /\ (answer # "none" => UNCHANGED answer)
<1> USE DEF TypeOK, OnceInv, Starter, rx, isr, m3host, Goes, Alive
<1> DEFINE Goal == OnceInv' /\ (answer # "none" => UNCHANGED answer)
<1>1. CASE HostAsk \/ HostKick \/ HostSend \/ HostRead \/ Isr \/ UNCHANGED vars
  BY <1>1, IsrPosts DEF HostAsk, HostKick, HostSend, HostRead, vars
<1>2. ASSUME NEW t \in Tasks, Enter(t) \/ WaitTimeout(t) \/ Again(t) \/ WaitTake(t)
                                \/ Take(t) \/ WaitPass(t) \/ Start(t)
      PROVE  Goal
  BY <1>2 DEF Enter, WaitTimeout, Again, WaitTake, Take, WaitPass, Start
<1>3. ASSUME NEW t \in Tasks, Request(t) \/ MakeQueue(t)
      PROVE  Goal
  BY <1>3 DEF Request, MakeQueue
<1>4. ASSUME NEW t \in Tasks, GetRequest(t) \/ GetReady(t) \/ GetOther(t)
      PROVE  Goal
  BY <1>4 DEF GetRequest, GetReady, GetOther, Got
<1>5. ASSUME NEW t \in Tasks, Give(t) \/ Answer(t)
      PROVE  Goal
  BY <1>5 DEF Give, Answer
<1> QED BY <1>1, <1>2, <1>3, <1>4, <1>5 DEF Next, Step
\* The request reaches MessageQCopy_init before any kick becomes "ready": the interrupt
\* appends behind it, and nothing is taken from the queue before it.
LEMMA RequestStep ==
  ASSUME IInv, [Next]_vars
  PROVE  RequestInv'
<1> USE DEF IInv, TypeOK, RequestInv, rx, isr, m3host, Goes, Alive
<1>1. CASE HostAsk \/ HostKick \/ HostSend \/ HostRead \/ UNCHANGED vars
  BY <1>1, InitAssumption DEF HostAsk, HostKick, HostSend, HostRead, vars
<1>2. CASE Isr
  <2>1. CASE rxQueue' = rxQueue
    <3>1. mail = "init" /\ rxQueue = <<>> => fault'
      <4>1. Append(rxQueue, "init") # rxQueue
        BY AppendAtEnd DEF Msgs
      <4>2. rxQueue = <<>> => Len(rxQueue) < QueueLen
        BY InitAssumption
      <4> QED BY <1>2, <2>1, <4>1, <4>2, IsrPosts
    <3> QED BY <1>2, <2>1, <3>1, IsrPosts
  <2>2. CASE rxQueue' # rxQueue
    <3>1. PICK m \in Msgs : rxQueue' = Append(rxQueue, m) /\ (mail = "init" => m = "init")
      BY <1>2, <2>2, IsrPosts
    <3>2. /\ rxMade /\ rxMade' /\ ~fault' /\ mail # "none" /\ mail' = "none" /\ assigned
          /\ UNCHANGED <<initDone, assigned, vrings, pc, asked>>
      BY <1>2, <2>2, IsrPosts
    <3>3. /\ rxQueue' # <<>>
          /\ rxQueue = <<>> => Head(rxQueue') = m
          /\ rxQueue # <<>> => Head(rxQueue') = Head(rxQueue)
      BY <3>1, AppendAtEnd
    <3>4. \A t \in Tasks : pc[t] = "receive" /\ vrings # "made" /\ ~fault /\ asked
            => Head(rxQueue') = "init"
      BY <3>1, <3>2, <3>3
    <3>5. ~fault
      BY <1>2, IsrPosts
    <3> QED BY <3>1, <3>2, <3>3, <3>4, <3>5
  <2> QED BY <2>1, <2>2
<1>3. ASSUME NEW t \in Tasks, Enter(t) \/ WaitTimeout(t) \/ Again(t) \/ WaitTake(t)
                                \/ Take(t)
      PROVE  RequestInv'
  BY <1>3 DEF Enter, WaitTimeout, Again, WaitTake, Take, StartInv
<1>4. ASSUME NEW t \in Tasks, WaitPass(t) \/ Start(t)
      PROVE  RequestInv'
  BY <1>4 DEF WaitPass, Start, StartInv
<1>5. ASSUME NEW t \in Tasks, Request(t)
      PROVE  RequestInv'
  BY <1>5 DEF Request, OnceInv, Starter
<1>6. ASSUME NEW t \in Tasks, MakeQueue(t)
      PROVE  RequestInv'
  BY <1>6 DEF MakeQueue, OnceInv, Starter
<1>7. ASSUME NEW t \in Tasks, GetRequest(t) \/ GetReady(t) \/ GetOther(t)
      PROVE  RequestInv'
  <2>1. /\ rxQueue # <<>> /\ pc[t] = "receive" /\ ~fault
        /\ UNCHANGED <<assigned, fault, asked, mail, rxMade>>
    BY <1>7 DEF GetRequest, GetReady, GetOther, Got
  <2>2. assigned /\ asked /\ rxMade /\ (vrings = "made" \/ Head(rxQueue) = "init")
    BY <2>1 DEF OnceInv, Starter
  <2>3. \A u \in Tasks : u # t => pc'[u] = pc[u] /\ pc[u] \notin {"queue", "receive"}
    BY <1>7, <2>1 DEF SemInv, InSem, GetRequest, GetReady, GetOther, Got
  <2>4. CASE GetRequest(t)
    <3>1. /\ UNCHANGED <<assigned, fault, asked, mail, rxMade, initDone>>
          /\ initDone = "ongoing"
          /\ \/ vrings' = "made" /\ pc'[t] = "receive"
             \/ vrings' = "failed" /\ pc'[t] = "answer"
      BY <2>1, <2>4 DEF GetRequest, Got, StartInv
    <3> QED BY <2>1, <2>2, <2>3, <2>4, <3>1 DEF GetRequest, Got
  <2>5. CASE GetReady(t)
    BY <2>1, <2>2, <2>3, <2>5 DEF GetReady, Got
  <2>6. CASE GetOther(t)
    BY <2>1, <2>2, <2>3, <2>6 DEF GetOther, Got
  <2> QED BY <1>7, <2>4, <2>5, <2>6
<1>8. ASSUME NEW t \in Tasks, Give(t) \/ Answer(t)
      PROVE  RequestInv'
  <2>1. CASE Give(t)
    BY <2>1 DEF Give, OnceInv, Starter
  <2>2. CASE Answer(t)
    BY <2>2 DEF Answer, OnceInv, Starter
  <2> QED BY <1>8, <2>1, <2>2
<1> QED BY <1>1, <1>2, <1>3, <1>4, <1>5, <1>6, <1>7, <1>8 DEF Next, Step

-------------------------------------------------------------------------------
LEMMA InitInvariant == Init => IInv
<1> SUFFICES ASSUME Init PROVE IInv
  OBVIOUS
<1> USE DEF Init
<1>1. TypeOK
  <2>1. pc \in [Tasks -> Points]
    BY DEF Points
  <2>2. rxQueue \in Seq(Msgs)
    OBVIOUS
  <2>3. kicks \in 0 .. MaxKick /\ others \in 0 .. MaxOther
    BY InitAssumption
  <2> QED BY <2>1, <2>2, <2>3, Zenon DEF TypeOK
<1>2. SemInv /\ StartInv /\ OnceInv
  BY DEF SemInv, InSem, StartInv, WaitingHolds, SemPassedOn, OnceInv, Starter
<1>3. RequestInv
  <2>1. rxMade = FALSE /\ rxQueue = <<>> /\ DOMAIN rxQueue = {}
    OBVIOUS
  <2> QED BY <2>1 DEF RequestInv
<1> QED BY <1>1, <1>2, <1>3 DEF IInv

LEMMA NextInvariant == IInv /\ [Next]_vars => IInv'
  BY TypeStep, SemStep, StartStep, OnceStep, RequestStep DEF IInv

THEOREM Invariant == Spec => []IInv
  BY InitInvariant, NextInvariant, PTL DEF Spec

\* Every variable of the start-up keeps its type.
THEOREM TypeCorrect == Spec => []TypeOK
<1>1. IInv => TypeOK
  BY DEF IInv
<1> QED BY <1>1, Invariant, PTL

\* However many tasks call RPMSG_Init, and whatever fails: the semaphore is taken as
\* long as the start-up is under way.
THEOREM WaitingPointHolds == Spec => []WaitingHolds
<1>1. IInv => WaitingHolds
  BY DEF IInv, StartInv
<1> QED BY <1>1, Invariant, PTL

\* No task returns from RPMSG_Init with success before the channel is there and
\* MessageQCopy_init has run on the host's request.
THEOREM ReturnedMeansReady == Spec => []ReturnedReady
<1>1. IInv => ReturnedReady
  BY DEF IInv, RequestInv, ReturnedReady
<1> QED BY <1>1, Invariant, PTL

\* The waiters of a start-up that is done never lose the semaphore.
THEOREM SemaphorePassedOn == Spec => []SemPassedOn
<1>1. IInv => SemPassedOn
  BY DEF IInv, StartInv
<1> QED BY <1>1, Invariant, PTL

\* xSemRpmsg is a waiting point during the start-up and passed on after it.
THEOREM SemaphoreKept == Spec => []SemKept
<1>1. WaitingHolds /\ SemPassedOn => SemKept
  BY DEF SemKept
<1> QED BY <1>1, WaitingPointHolds, SemaphorePassedOn, PTL

\* The host never gets a second, different answer.
THEOREM HostAnsweredOnce == Spec => AnsweredOnce
<1>1. IInv /\ [Next]_vars => [answer # "none" => UNCHANGED answer]_vars
  BY OnceStep DEF IInv
<1> QED BY <1>1, Invariant, PTL DEF Spec, AnsweredOnce
===============================================================================
