--------------------------------- MODULE RpmsgMM ---------------------------------
(***************************************************************************)
(* Multimedia services over RPMSG: the table of instances, local ones      *)
(* registered by their tasks and remote ones by the host's messages; lock, *)
(* unlock and other messages to one peer or to all of them, with an        *)
(* acknowledgement that comes back as the address of a semaphore; and the  *)
(* task that dispatches what the host sends.  What runs between            *)
(* LOCK_RESOURCES and UNLOCK_RESOURCES without waiting is one step.  The   *)
(* host and its peers are external; RPMSG itself is MessageQCopy.          *)
(***************************************************************************)
EXTENDS Integers, Sequences, FiniteSets, FiniteSetsExt

CONSTANTS
  Tasks,       \* the tasks with a local instance (rear view camera, TV decoder)
  mm,          \* rpmsg_mm_task, and its own instance "Mx_MM"
  Peers,       \* remote instances
  Applis,      \* those of them whose name begins with "Ax_MM"
  Sends,       \* per task: the messages it sends, <<receiver or All, ack_requested>>
  MaxRes,      \* MAX_NB_RESOURCES
  MaxCalls,    \* bound: messages a task sends
  MaxRx        \* bound: messages of the host that wait

ASSUME MMAssumption == /\ mm \notin Tasks /\ Peers \cap (Tasks \cup {mm}) = {}
                       /\ {"unused", "booked", "free", "all", "none"} \cap
                            (Tasks \cup Peers \cup {mm}) = {}
                       /\ Applis \subseteq Peers
                       /\ Sends \in [Tasks -> SUBSET ((Peers \cup {"all"}) \X BOOLEAN)]
                       /\ MaxRes \in Nat \ {0} /\ MaxCalls \in Nat /\ MaxRx \in Nat

VARIABLES
  table,       \* resources_table: Unused, Booked (valid and all zero), or a name
  lock,        \* holder of xSemResourceLock
  rx,          \* messages of the host that rpmsg_mm_task has not read
  pc, slot,    \* per actor: control point, entry found or booked, 0 for NULL
  msg,         \* the message rpmsg_mm_task works on
  call,        \* per task: its call
  calls,       \* per task: number of calls made
  given,       \* tasks whose semaphore (ack.sem) has been given
  late,        \* tasks of which a call has timed out
  fault,       \* a semaphore that is deleted was given
  stray,       \* a message was sent to an entry that is not the receiver's
  inHost,      \* messages with an acknowledgement requested that the host has
  acked,       \* those it has acknowledged
  peer, answer \* per peer: what it waits for; the answer on its way to it

vars  == <<table, lock, rx, pc, slot, msg, call, calls, given, late, fault, stray, inHost,
           acked, peer, answer>>
res   == <<table, lock>>
acks  == <<given, late, inHost, acked>>
host  == <<peer, answer>>

Actors == Tasks \cup {mm}
Slots  == 1 .. MaxRes
Unused == "unused"
Booked == "booked"
All    == "all"
NoLock == "free"
None   == "none"
NoCall == [to |-> None, ack |-> FALSE, id |-> 0, sent |-> {}, res |-> None]

Init ==
  /\ table = [s \in Slots |-> Unused] /\ lock = NoLock /\ rx = <<>>
  /\ pc = [a \in Actors |-> "find"] /\ slot = [a \in Actors |-> 0]
  /\ msg = [info |-> None, from |-> None]
  /\ call = [t \in Tasks |-> NoCall] /\ calls = [t \in Tasks |-> 0]
  /\ given = {} /\ late = {} /\ fault = FALSE /\ stray = FALSE
  /\ inHost = {} /\ acked = {}
  /\ peer = [p \in Peers |-> "out"] /\ answer = [p \in Peers |-> None]

\* rpmsg_mm_find_res_by_name and rpmsg_mm_book_free_res: the first that fits, or NULL.
First(S) == IF S = {} THEN 0 ELSE Min(S)
FindRes(name) == First({s \in Slots : table[s] = name})
FreeRes == First({s \in Slots : table[s] = Unused})

Goes(a, from, to) == ~fault /\ pc[a] = from /\ pc' = [pc EXCEPT ![a] = to]
Locked(a, from, to) == lock = NoLock /\ Goes(a, from, to)

-------------------------------------------------------------------------------
(* rpmsg_mm_register_endpoint: find, book and fill, under two locks and    *)
(* none; of a local instance, of "Mx_MM" or of a peer that has asked.      *)
NameOf(a) == IF a = mm /\ msg.info = "reg" THEN msg.from ELSE a
After(a)  == IF a # mm THEN "idle" ELSE IF msg.info = None THEN "recv" ELSE "answer"

RegFind(a) == LET s == FindRes(NameOf(a)) IN
  /\ Locked(a, "find", IF s # 0 THEN After(a) ELSE "book")
  /\ slot' = [slot EXCEPT ![a] = s]
  /\ UNCHANGED <<res, rx, msg, call, calls, acks, fault, stray, host>>
\* Mutant: booking without marking the entry.
RegBookLate(a) == LET s == FreeRes IN
  /\ Locked(a, "book", IF s # 0 THEN "fill" ELSE After(a))
  /\ slot' = [slot EXCEPT ![a] = s]
  /\ UNCHANGED <<res, rx, msg, call, calls, acks, fault, stray, host>>
RegBook(a) == LET s == FreeRes IN
  /\ Locked(a, "book", IF s # 0 THEN "fill" ELSE After(a))
  /\ slot' = [slot EXCEPT ![a] = s]
  /\ table' = IF s # 0 THEN [table EXCEPT ![s] = Booked] ELSE table
  /\ UNCHANGED <<lock, rx, msg, call, calls, acks, fault, stray, host>>
RegFill(a) ==
  /\ Goes(a, "fill", After(a))
  /\ table' = [table EXCEPT ![slot[a]] = NameOf(a)]
  /\ UNCHANGED <<lock, rx, slot, msg, call, calls, acks, fault, stray, host>>

-------------------------------------------------------------------------------
(* Messages to the host: rpmsg_mm_lock_resource waits for an               *)
(* acknowledgement, unlock, private and rear gear messages do not.         *)
NewCall(t, r, ack, s) ==
  /\ calls[t] < MaxCalls
  /\ calls' = [calls EXCEPT ![t] = @ + 1]
  /\ call' = [call EXCEPT ![t] = [to |-> r, ack |-> ack, id |-> calls'[t], sent |-> {},
                                  res |-> IF s = 0 THEN "ok" ELSE None]]
  /\ slot' = [slot EXCEPT ![t] = s]

\* To one peer; a peer that is not registered ends the call with 0.
CallOne(t, p, ack) == LET s == FindRes(p) IN
  /\ p # All
  /\ Locked(t, "idle", IF s = 0 THEN "idle" ELSE "send")
  /\ NewCall(t, p, ack, s)
  /\ UNCHANGED <<res, rx, msg, acks, fault, stray, host>>
\* To every application ("Ax_MM"): the table stays locked to the end.
CallAll(t, p, ack) ==
  /\ p = All
  /\ Locked(t, "idle", "cast")
  /\ lock' = t
  /\ NewCall(t, All, ack, 1)
  /\ UNCHANGED <<table, rx, msg, acks, fault, stray, host>>

Call(t, p, ack) == CallOne(t, p, ack) \/ CallAll(t, p, ack)

\* Mutant: the semaphore is created given.
SendToGiven(t, s) ==
  /\ stray' = (stray \/ table[s] \notin (IF call[t].to = All THEN Applis ELSE {call[t].to}))
  /\ call' = [call EXCEPT ![t].sent = @ \cup {table[s]}]
  /\ given' = given \cup {t}
  /\ inHost' = IF call[t].ack /\ table[s] \in Peers
               THEN inHost \cup {[task |-> t, id |-> call[t].id, peer |-> table[s]]}
               ELSE inHost
  /\ UNCHANGED <<late, acked>>
\* rpmsg_mm_send_to_remote: name and endpoint are those the entry holds now.
SendTo(t, s) ==
  /\ stray' = (stray \/ table[s] \notin (IF call[t].to = All THEN Applis ELSE {call[t].to}))
  /\ call' = [call EXCEPT ![t].sent = @ \cup {table[s]}]
  /\ given' = given \ {t}
  /\ inHost' = IF call[t].ack /\ table[s] \in Peers
               THEN inHost \cup {[task |-> t, id |-> call[t].id, peer |-> table[s]]}
               ELSE inHost
  /\ UNCHANGED <<late, acked>>
Returns(t, r) == [call EXCEPT ![t].res = r]

SendOne(t) ==
  /\ Goes(t, "send", IF call[t].ack THEN "wait" ELSE "idle")
  /\ SendTo(t, slot[t])
  /\ UNCHANGED <<res, rx, slot, msg, calls, fault, host>>

\* An entry is an application's when its type is RPMSG_MM_APPLI, that is 0: a booked
\* entry is one too.
NextAppli(t) == First({s \in Slots : s >= slot[t] /\ table[s] \in Applis \cup {Booked}})
Cast(t) == LET s == NextAppli(t) IN
  /\ s # 0
  /\ Goes(t, "cast", IF call[t].ack THEN "castwait" ELSE "cast")
  /\ SendTo(t, s)
  /\ slot' = [slot EXCEPT ![t] = s + 1]
  /\ UNCHANGED <<res, rx, msg, calls, fault, host>>
CastEnd(t) ==
  /\ NextAppli(t) = 0
  /\ Goes(t, "cast", "idle")
  /\ lock' = NoLock
  /\ call' = Returns(t, "ok")
  /\ UNCHANGED <<table, rx, slot, msg, calls, acks, fault, stray, host>>

Acked(t) ==
  /\ t \in given
  /\ given' = given \ {t}
  /\ \/ Goes(t, "wait", "idle") /\ call' = Returns(t, "ok")
     \/ Goes(t, "castwait", "cast") /\ UNCHANGED call
  /\ UNCHANGED <<res, rx, slot, msg, calls, late, inHost, acked, fault, stray, host>>
\* Mutant: no time-out for a broadcast.
TimeoutOne(t) ==
  /\ t \notin given
  /\ late' = late \cup {t}
  /\ Goes(t, "wait", "idle") /\ call' = Returns(t, "failed")
  /\ UNCHANGED <<res, rx, slot, msg, calls, given, inHost, acked, fault, stray, host>>
\* Two seconds without an answer; a broadcast goes on to the next peer.
Timeout(t) ==
  /\ t \notin given
  /\ late' = late \cup {t}
  /\ \/ Goes(t, "wait", "idle") /\ call' = Returns(t, "failed")
     \/ Goes(t, "castwait", "cast") /\ UNCHANGED call
  /\ UNCHANGED <<res, rx, slot, msg, calls, given, inHost, acked, fault, stray, host>>

-------------------------------------------------------------------------------
(* rpmsg_mm_task.                                                          *)
Recv == LET m == Head(rx) IN
  /\ rx # <<>>
  /\ rx' = Tail(rx) /\ msg' = m
  /\ \/ /\ m.info = "reg" /\ Goes(mm, "recv", "find")
        /\ UNCHANGED <<given, fault>>
     \/ /\ m.info \in {"unreg", "status"} /\ Goes(mm, "recv", m.info)
        /\ UNCHANGED <<given, fault>>
     \/ \* rpmsg_mm_lock_resource_ack: the semaphore is read from the sender's stack, where
        \* a later call has put its own.
        /\ m.info = "ack" /\ Goes(mm, "recv", "recv")
        /\ IF pc[m.from] \in {"wait", "castwait"}
           THEN given' = given \cup {m.from} /\ UNCHANGED fault
           ELSE fault' = TRUE /\ UNCHANGED given
  /\ UNCHANGED <<res, slot, call, calls, late, inHost, acked, stray, host>>

Unreg == /\ Locked(mm, "unreg", "answer")
         /\ slot' = [slot EXCEPT ![mm] = FindRes(msg.from)]
         /\ UNCHANGED <<res, rx, msg, call, calls, acks, fault, stray, host>>
\* rpmsg_mm_get_status and rpmsg_mm_get_reargear_status: the callbacks of the local
\* instances are called.
Status == /\ Locked(mm, "status", "answer")
          /\ slot' = [slot EXCEPT ![mm] = 0]
          /\ UNCHANGED <<res, rx, msg, call, calls, acks, fault, stray, host>>
\* The answer goes to the emitter if its name is found.
Answer == LET known == FindRes(msg.from) # 0 IN
  /\ Locked(mm, "answer", IF msg.info = "unreg" /\ slot[mm] # 0 THEN "release" ELSE "recv")
  /\ answer' = IF known THEN [answer EXCEPT ![msg.from] =
                         IF msg.info = "status" \/ slot[mm] # 0 THEN "yes" ELSE "no"]
               ELSE answer
  /\ UNCHANGED <<res, rx, slot, msg, call, calls, acks, fault, stray, peer>>
Release == /\ Locked(mm, "release", "recv")
           /\ table' = [table EXCEPT ![slot[mm]] = Unused]
           /\ UNCHANGED <<lock, rx, slot, msg, call, calls, acks, fault, stray, host>>

-------------------------------------------------------------------------------
(* The host: a peer registers, asks, leaves, and acknowledges in any order *)
(* and at any time, or never.                                              *)
Post(m) == Len(rx) < MaxRx /\ rx' = Append(rx, m)
Ask(p, from, info) ==
  /\ peer[p] = from /\ ~fault
  /\ peer' = [peer EXCEPT ![p] = info]
  /\ Post([info |-> info, from |-> p])
  /\ UNCHANGED <<res, pc, slot, msg, call, calls, acks, fault, stray, answer>>
HostAsk(p) == Ask(p, "out", "reg") \/ Ask(p, "in", "status") \/ Ask(p, "in", "unreg")
HostAck(m) ==
  /\ ~fault
  /\ Post([info |-> "ack", from |-> m.task])
  /\ inHost' = inHost \ {m} /\ acked' = acked \cup {m}
  /\ UNCHANGED <<res, pc, slot, msg, call, calls, given, late, fault, stray, host>>
HostAnswered(p) ==
  /\ answer[p] # None /\ ~fault
  /\ peer' = [peer EXCEPT ![p] = IF @ = "unreg" \/ answer[p] = "no" THEN "out" ELSE "in"]
  /\ answer' = [answer EXCEPT ![p] = None]
  /\ UNCHANGED <<res, rx, pc, slot, msg, call, calls, acks, fault, stray>>

Task(t) == SendOne(t) \/ Cast(t) \/ CastEnd(t) \/ Acked(t) \/ Timeout(t)
Reg(a)  == RegFind(a) \/ RegBook(a) \/ RegFill(a)
Rx      == Recv \/ Unreg \/ Status \/ Answer \/ Release
Next == \/ \E t \in Tasks : Task(t) \/ \E s \in Sends[t] : Call(t, s[1], s[2])
        \/ \E a \in Actors : Reg(a)
        \/ Rx
        \/ \E p \in Peers : HostAsk(p) \/ HostAnswered(p)
        \/ \E m \in inHost : HostAck(m)

Spec == Init /\ [][Next]_vars

\* Tasks run and take the lock in turn (SF); the host reads what it is sent.
FairSpec == /\ Spec
            /\ \A t \in Tasks : SF_vars(Reg(t) \/ Task(t))
            /\ SF_vars(Reg(mm) \/ Rx)
            /\ \A p \in Peers : WF_vars(HostAnswered(p))

-------------------------------------------------------------------------------
Names  == Actors \cup Peers
TypeOK ==
  /\ table \in [Slots -> Names \cup {Unused, Booked}] /\ lock \in Tasks \cup {NoLock}
  /\ \A i \in DOMAIN rx : rx[i].from \in Peers \cup Tasks
  /\ pc \in [Actors -> {"find", "book", "fill", "idle", "send", "wait", "cast", "castwait",
                        "recv", "unreg", "status", "answer", "release"}]
  /\ slot \in [Actors -> 0 .. MaxRes + 1] /\ given \subseteq Tasks
  /\ late \subseteq Tasks /\ fault \in BOOLEAN /\ stray \in BOOLEAN
  /\ \A m \in inHost \cup acked : m.task \in Tasks /\ m.peer \in Peers
  /\ peer \in [Peers -> {"out", "in", "reg", "unreg", "status"}]
  /\ answer \in [Peers -> {None, "yes", "no"}]

\* No name is in the table twice, and no entry is booked by two or by nobody, although
\* finding, booking and filling are three steps of several tasks.
OneEntryEach ==
  /\ \A s, u \in Slots : table[s] = table[u] /\ s # u => table[s] \in {Unused, Booked}
  /\ \A s \in Slots :
       table[s] = Booked <=> \E a \in Actors : pc[a] = "fill" /\ slot[a] = s
  /\ \A a, b \in Actors : pc[a] = "fill" /\ pc[b] = "fill" /\ slot[a] = slot[b] => a = b

\* A peer that has been told that it is registered is in the table until it asks to leave.
RegisteredIsKnown == \A p \in Peers :
  peer[p] \in {"in", "status"} \/ (peer[p] = "reg" /\ answer[p] = "yes") => FindRes(p) # 0

\* The table is locked for a broadcast only, and only a broadcast waits with it.
LockedByBroadcast ==
  \A t \in Tasks : lock = t <=> pc[t] \in {"cast", "castwait"}

\* The table, with its types: entries are consistent whenever its lock is free, and the
\* lock is held by nobody else than a broadcast.
TableInv == TypeOK /\ OneEntryEach /\ LockedByBroadcast

\* A call that returns 0 has been acknowledged by every peer it was sent to, as long as
\* none has timed out before and none was sent to a wrong entry.
AckedBySent == \A t \in Tasks :
  call[t].res = "ok" /\ call[t].ack /\ t \notin late /\ ~stray =>
    \A p \in call[t].sent : [task |-> t, id |-> call[t].id, peer |-> p] \in acked

\* A deleted semaphore is given only when an acknowledgement came after the time-out.
FaultOnlyLate == fault => late # {}

\* An acknowledgement wakes the call it belongs to, in whatever order and however late
\* acknowledgements come, unless one came after a time-out.
AcksMatch == AckedBySent /\ FaultOnlyLate

\* Every request of a peer is answered and every call of a task ends: the dispatcher and a
\* broadcast that waits for it with the table locked do not wait for each other for ever.
Served ==
  /\ \A p \in Peers : peer[p] \in {"reg", "unreg", "status"} ~>
                        peer[p] \in {"in", "out"} \/ fault
  /\ \A t \in Tasks : pc[t] # "idle" ~> pc[t] = "idle" \/ fault

(***************************************************************************)
(* What the comments say (the code does otherwise, see the README).        *)
(***************************************************************************)
\* "this function is blocked up to the RPMSG_MM_SHARED_RES_LOCKED_ACK message reception"
\* (rpmsg_mm_lock_resource): a call that returns 0 has been acknowledged.
LockedMeansAcked == \A t \in Tasks :
  call[t].res = "ok" /\ call[t].ack /\ call[t].to \in Peers =>
    [task |-> t, id |-> call[t].id, peer |-> call[t].to] \in acked
\* "it indicates that we want to broadcast the message to every registered MM users on Ax
\* processor side" (rpmsg_mm_send_to_receivers): nothing else is sent to.
SentToReceivers == ~stray
===============================================================================
