---------------------------- MODULE RpmsgMM_proofs ----------------------------
(***************************************************************************)
(* Theorems about RpmsgMM, for any number of tasks and peers and any size  *)
(* of the table.                                                           *)
(*                                                                         *)
(* EntryInv: what an actor has found under the lock and acts upon after it *)
(* has let go of it still holds.  OneRequest: a peer's request is in one   *)
(* place, so that an entry is released for the request that asked for it   *)
(* and never for a registration that came later.                           *)
(***************************************************************************)
EXTENDS RpmsgMM, WellFoundedInduction, TLAPS

-------------------------------------------------------------------------------
(* First: the least entry of a set, or 0.                                  *)
LEMMA FirstFound ==
  ASSUME NEW S \in SUBSET Slots
  PROVE  /\ S = {} => First(S) = 0
         /\ S # {} => First(S) \in S /\ First(S) \in Slots /\ First(S) # 0
<1> DEFINE Less == OpToRel(<, Nat)
<1>1. S \subseteq Nat /\ \A s \in S : s # 0 /\ s \in Nat
  BY DEF Slots
<1>2. ASSUME S # {} PROVE \E x \in S : \A y \in S : x <= y
  <2>1. IsWellFoundedOn(Less, Nat)
    BY NatLessThanWellFounded
  <2>2. PICK x \in S : \A y \in S : ~ (<<y, x>> \in Less)
    <3> HIDE DEF Less
    <3> QED BY <1>1, <1>2, <2>1, WFMin
  <2>3. \A y \in S : ~(y < x)
    BY <1>1, <2>2 DEF OpToRel
  <2> QED BY <1>1, <2>3
<1>3. ASSUME S # {} PROVE Min(S) \in S
  BY <1>2, <1>3 DEF Min
<1> QED BY <1>1, <1>3 DEF First

LEMMA Found ==
  ASSUME NEW n
  PROVE  /\ FindRes(n) \in Slots \cup {0}
         /\ FindRes(n) # 0 => table[FindRes(n)] = n
         /\ FindRes(n) = 0 => \A s \in Slots : table[s] # n
<1> DEFINE S == {s \in Slots : table[s] = n}
<1>1. S \in SUBSET Slots /\ FindRes(n) = First(S)
  BY DEF FindRes
<1>2. /\ S = {} => First(S) = 0
      /\ S # {} => First(S) \in S /\ First(S) \in Slots /\ First(S) # 0
  BY <1>1, FirstFound
<1> QED BY <1>1, <1>2

LEMMA Free ==
  /\ FreeRes \in Slots \cup {0}
  /\ FreeRes # 0 => table[FreeRes] = Unused
<1> DEFINE S == {s \in Slots : table[s] = Unused}
<1>1. S \in SUBSET Slots /\ FreeRes = First(S)
  BY DEF FreeRes
<1>2. /\ S = {} => First(S) = 0
      /\ S # {} => First(S) \in S /\ First(S) \in Slots /\ First(S) # 0
  BY <1>1, FirstFound
<1> QED BY <1>1, <1>2

-------------------------------------------------------------------------------
(* The invariant.                                                          *)
Requests == {"reg", "unreg", "status"}
Messages == [info : Requests, from : Peers] \cup [info : {"ack"}, from : Tasks]

MsgInv ==
  /\ rx \in Seq(Messages)
  /\ msg \in Messages \cup {[info |-> None, from |-> None]}

PcInv ==
  /\ \A t \in Tasks :
       pc[t] \in {"find", "book", "fill", "idle", "send", "wait", "cast", "castwait"}
  /\ pc[mm] \in {"find", "book", "fill", "recv", "unreg", "status", "answer", "release"}
  /\ pc[mm] \in {"find", "book", "fill"} => msg.info \in {None, "reg"}
  /\ pc[mm] \in {"unreg", "release"} => msg.info = "unreg"
  /\ pc[mm] = "status" => msg.info = "status"
  /\ pc[mm] = "answer" => msg.info \in Requests

\* What an actor has found out about the table, and acts upon later, still holds.
EntryInv ==
  /\ \A a \in Actors : pc[a] \in {"book", "fill"} => \A s \in Slots : table[s] # NameOf(a)
  /\ \A a \in Actors : pc[a] = "fill" => slot[a] \in Slots
  /\ pc[mm] \in {"answer", "release"} /\ msg.info = "unreg" /\ slot[mm] # 0 =>
       slot[mm] \in Slots /\ table[slot[mm]] = msg.from
  /\ pc[mm] = "release" => slot[mm] # 0

IInv == TableInv /\ MsgInv /\ PcInv /\ EntryInv

Types == TypeOK /\ MsgInv /\ PcInv

TaskActions(t) == Task(t) \/ \E s \in Sends[t] : Call(t, s[1], s[2])
HostActions    == (\E p \in Peers : HostAsk(p) \/ HostAnswered(p)) \/ \E m \in inHost : HostAck(m)

-------------------------------------------------------------------------------
(* Types.                                                                  *)
LEMMA InitTypes == Init => Types
<1> SUFFICES ASSUME Init PROVE Types
  OBVIOUS
<1>1. TypeOK
  <2>1. \A i \in DOMAIN rx : rx[i].from \in Peers \cup Tasks
    BY DEF Init
  <2>2. /\ slot \in [Actors -> 0 .. MaxRes + 1]
        /\ table \in [Slots -> Names \cup {Unused, Booked}]
    BY MMAssumption DEF Init
  <2> QED BY <2>1, <2>2 DEF Init, TypeOK
<1>2. MsgInv /\ PcInv
  BY MMAssumption DEF Init, MsgInv, PcInv, Actors, None
<1> QED BY <1>1, <1>2 DEF Types

LEMMA Names2 ==
  ASSUME Types, NEW a \in Actors, pc[a] \in {"find", "book", "fill"}
  PROVE  NameOf(a) \in Names
BY DEF Types, MsgInv, PcInv, NameOf, Names, Actors, Messages, None

LEMMA RegTypes ==
  ASSUME Types, NEW a \in Actors, Reg(a),
         pc[a] = "fill" => slot[a] \in Slots
  PROVE  Types'
<1>1. pc[a] \in {"find", "book", "fill"}
  BY DEF Reg, RegFind, RegBook, RegFill, Locked, Goes
<1>2. NameOf(a) \in Names
  BY <1>1, Names2
<1>3. slot' \in [Actors -> 0 .. MaxRes + 1]
  BY Found, Free, MMAssumption DEF Reg, RegFind, RegBook, RegFill, Types, TypeOK, Slots
<1>4. table' \in [Slots -> Names \cup {Unused, Booked}]
  BY <1>2, Free DEF Reg, RegFind, RegBook, RegFill, Types, TypeOK, res
<1>5. pc' \in [Actors -> {"find", "book", "fill", "idle", "send", "wait", "cast", "castwait",
                        "recv", "unreg", "status", "answer", "release"}]
  BY DEF Reg, RegFind, RegBook, RegFill, Locked, Goes, Types, TypeOK, After
<1>6. PcInv'
  BY <1>1, MMAssumption DEF Reg, RegFind, RegBook, RegFill, Locked, Goes, Types, TypeOK, PcInv,
     After, Actors, Requests, None
<1>7. MsgInv'
  BY DEF Reg, RegFind, RegBook, RegFill, Types, MsgInv
<1>8. TypeOK'
  BY <1>3, <1>4, <1>5 DEF Reg, RegFind, RegBook, RegFill, Types, TypeOK, res, acks, host
<1> QED BY <1>6, <1>7, <1>8 DEF Types

LEMMA CallTypes ==
  ASSUME Types, NEW t \in Tasks, NEW p, NEW k, Call(t, p, k)
  PROVE  Types'
<1>1. PICK to \in {"idle", "send", "cast"} : pc' = [pc EXCEPT ![t] = to]
  BY DEF Call, CallOne, CallAll, Locked, Goes
<1>2. PcInv'
  BY <1>1, MMAssumption DEF Call, CallOne, CallAll, Types, TypeOK, PcInv, Actors
<1>3. slot' \in [Actors -> 0 .. MaxRes + 1]
  BY Found, MMAssumption DEF Call, CallOne, CallAll, NewCall, Types, TypeOK, Slots
<1>4. TypeOK'
  BY <1>1, <1>3 DEF Call, CallOne, CallAll, Types, TypeOK, Actors, res, acks, host
<1>5. MsgInv'
  BY DEF Call, CallOne, CallAll, Types, MsgInv
<1> QED BY <1>2, <1>4, <1>5 DEF Types

LEMMA NextAppliFound ==
  ASSUME NEW t
  PROVE  /\ NextAppli(t) \in Slots \cup {0}
         /\ NextAppli(t) # 0 => table[NextAppli(t)] \in Applis \cup {Booked}
<1> DEFINE S == {s \in Slots : s >= slot[t] /\ table[s] \in Applis \cup {Booked}}
<1>1. S \in SUBSET Slots /\ NextAppli(t) = First(S)
  BY DEF NextAppli
<1>2. /\ S = {} => First(S) = 0
      /\ S # {} => First(S) \in S /\ First(S) \in Slots /\ First(S) # 0
  BY <1>1, FirstFound
<1> QED BY <1>1, <1>2

LEMMA TaskTypes ==
  ASSUME Types, NEW t \in Tasks, Task(t)
  PROVE  Types'
<1>1. /\ UNCHANGED <<table, rx, msg, fault, peer, answer>>
      /\ lock' \in {lock, NoLock}
      /\ \E to \in {"idle", "wait", "cast", "castwait"} : pc' = [pc EXCEPT ![t] = to]
  BY DEF Task, SendOne, Cast, CastEnd, Acked, Timeout, Goes, res, host
<1>2. PcInv'
  BY <1>1, MMAssumption DEF Types, TypeOK, PcInv, Actors
<1>3. slot' \in [Actors -> 0 .. MaxRes + 1]
  BY NextAppliFound, MMAssumption
     DEF Task, SendOne, Cast, CastEnd, Acked, Timeout, Types, TypeOK, Slots
<1>4. /\ given' \subseteq Tasks /\ late' \subseteq Tasks /\ stray' \in BOOLEAN
      /\ \A m \in inHost' \cup acked' : m.task \in Tasks /\ m.peer \in Peers
  <2>1. ASSUME NEW s, SendTo(t, s)
        PROVE  /\ given' \subseteq Tasks /\ late' \subseteq Tasks /\ stray' \in BOOLEAN
               /\ \A m \in inHost' \cup acked' : m.task \in Tasks /\ m.peer \in Peers
    BY <2>1 DEF SendTo, Types, TypeOK
  <2>2. CASE SendOne(t) \/ Cast(t)
    BY <2>1, <2>2 DEF SendOne, Cast
  <2>3. CASE CastEnd(t) \/ Acked(t) \/ Timeout(t)
    BY <2>3 DEF CastEnd, Acked, Timeout, Types, TypeOK, acks
  <2> QED BY <2>2, <2>3 DEF Task
<1>5. TypeOK'
  BY <1>1, <1>3, <1>4 DEF Types, TypeOK, Actors
<1>6. MsgInv'
  BY <1>1 DEF Types, MsgInv
<1> QED BY <1>2, <1>5, <1>6 DEF Types

LEMMA RxTypes ==
  ASSUME Types, Rx, pc[mm] = "release" => slot[mm] \in Slots
  PROVE  Types'
<1>1. mm \in Actors /\ mm \notin Tasks
  BY MMAssumption DEF Actors
<1>2. ASSUME Recv PROVE Types'
  <2>1. Head(rx) \in Messages /\ Tail(rx) \in Seq(Messages)
    BY <1>2 DEF Recv, Types, MsgInv
  <2>2. MsgInv'
    BY <1>2, <2>1 DEF Recv, MsgInv
  <2>3. PcInv'
    BY <1>1, <1>2 DEF Recv, Goes, Types, TypeOK, PcInv, Actors, Requests, None
  <2>4. /\ given' \subseteq Tasks /\ fault' \in BOOLEAN
        /\ \A i \in DOMAIN rx' : rx'[i].from \in Peers \cup Tasks
    <3>1. \A m \in Messages : /\ m.from \in Peers \cup Tasks
                              /\ m.info = "ack" => m.from \in Tasks
      BY DEF Messages, Requests
    <3>2. \A i \in DOMAIN rx' : rx'[i] \in Messages
      BY <1>2, <2>1 DEF Recv
    <3>3. given' \subseteq Tasks /\ fault' \in BOOLEAN
      <4>1. /\ given' = given \/ (Head(rx).info = "ack" /\ given' = given \cup {Head(rx).from})
            /\ fault' = fault \/ fault' = TRUE
        BY <1>2 DEF Recv
      <4>2. given \subseteq Tasks /\ fault \in BOOLEAN
        BY DEF Types, TypeOK
      <4>3. Head(rx).info = "ack" => Head(rx).from \in Tasks
        BY <2>1, <3>1
      <4> QED BY <4>1, <4>2, <4>3
    <3> QED BY <3>1, <3>2, <3>3
  <2>5. TypeOK'
    BY <1>1, <1>2, <2>4 DEF Recv, Goes, Types, TypeOK, res, host
  <2> QED BY <2>2, <2>3, <2>5 DEF Types
<1>3. ASSUME Unreg \/ Status \/ Answer \/ Release PROVE Types'
  <2>1. /\ UNCHANGED <<lock, rx, msg, given, late, inHost, acked, fault, stray, peer>>
        /\ \E to \in {"answer", "release", "recv"} : pc' = [pc EXCEPT ![mm] = to]
    BY <1>3 DEF Unreg, Status, Answer, Release, Locked, Goes, res, acks, host
  <2>2. PcInv'
    BY <1>1, <1>3 DEF Unreg, Status, Answer, Release, Locked, Goes, Types, TypeOK, PcInv,
       Actors, Requests
  <2>3. slot' \in [Actors -> 0 .. MaxRes + 1]
    <3>1. \E n \in Slots \cup {0} : slot' = slot \/ slot' = [slot EXCEPT ![mm] = n]
      BY <1>3, Found DEF Unreg, Status, Answer, Release
    <3> QED BY <1>1, <3>1, MMAssumption DEF Types, TypeOK, Slots
  <2>4. table' \in [Slots -> Names \cup {Unused, Booked}]
    BY <1>3 DEF Unreg, Status, Answer, Release, Types, TypeOK, res
  <2>5. answer' \in [Peers -> {None, "yes", "no"}]
    BY <1>3 DEF Unreg, Status, Answer, Release, Types, TypeOK, host
  <2>6. TypeOK'
    BY <1>1, <2>1, <2>3, <2>4, <2>5 DEF Types, TypeOK
  <2>7. MsgInv'
    BY <2>1 DEF Types, MsgInv
  <2> QED BY <2>2, <2>6, <2>7 DEF Types
<1> QED BY <1>2, <1>3 DEF Rx

LEMMA HostTypes ==
  ASSUME Types, HostActions
  PROVE  Types'
<1>1. UNCHANGED <<table, lock, pc, slot, msg, given, late, fault, stray>>
  BY DEF HostActions, HostAsk, Ask, HostAck, HostAnswered, res, acks
<1>2. PcInv'
  BY <1>1 DEF Types, PcInv
<1>3. ASSUME NEW p \in Peers, HostAsk(p) PROVE MsgInv' /\ TypeOK'
  <2>1. PICK k \in Requests : /\ rx' = Append(rx, [info |-> k, from |-> p])
                              /\ peer' = [peer EXCEPT ![p] = k]
    BY <1>3 DEF HostAsk, Ask, Post, Requests
  <2>2. MsgInv'
    BY <1>1, <2>1 DEF Types, MsgInv, Messages
  <2>3. \A i \in DOMAIN rx' : rx'[i].from \in Peers \cup Tasks
    BY <2>2 DEF MsgInv, Messages
  <2> QED BY <1>1, <1>3, <2>1, <2>2, <2>3
         DEF HostAsk, Ask, Types, TypeOK, Requests, acks
<1>4. ASSUME NEW p \in Peers, HostAnswered(p) PROVE MsgInv' /\ TypeOK'
  BY <1>1, <1>4 DEF HostAnswered, Types, MsgInv, TypeOK, acks
<1>5. ASSUME NEW m \in inHost, HostAck(m) PROVE MsgInv' /\ TypeOK'
  <2>1. m.task \in Tasks /\ rx' = Append(rx, [info |-> "ack", from |-> m.task])
    BY <1>5 DEF HostAck, Post, Types, TypeOK
  <2>2. MsgInv'
    BY <1>1, <2>1 DEF Types, MsgInv, Messages
  <2>3. \A i \in DOMAIN rx' : rx'[i].from \in Peers \cup Tasks
    BY <2>2 DEF MsgInv, Messages
  <2> QED BY <1>1, <1>5, <2>2, <2>3 DEF HostAck, Types, TypeOK, host
<1> QED BY <1>2, <1>3, <1>4, <1>5 DEF HostActions, Types

-------------------------------------------------------------------------------
(* The lock.                                                               *)
LEMMA LockStep ==
  ASSUME Types, LockedByBroadcast, [Next]_vars
  PROVE  LockedByBroadcast'
<1> USE DEF LockedByBroadcast
<1>1. ASSUME NEW a \in Actors, Reg(a) PROVE LockedByBroadcast'
  <2>1. /\ lock' = lock /\ pc[a] \in {"find", "book", "fill"}
        /\ \E to \in {"idle", "recv", "answer", "book", "fill"} : pc' = [pc EXCEPT ![a] = to]
    BY <1>1 DEF Reg, RegFind, RegBook, RegFill, Locked, Goes, After, res
  <2> QED BY <2>1 DEF Types, TypeOK, Actors
<1>2. ASSUME NEW t \in Tasks, NEW p, NEW k, Call(t, p, k) PROVE LockedByBroadcast'
  <2>1. CASE CallOne(t, p, k)
    BY <2>1 DEF CallOne, Locked, Goes, Types, TypeOK, Actors, res
  <2>2. CASE CallAll(t, p, k)
    BY <2>2, MMAssumption DEF CallAll, Locked, Goes, Types, TypeOK, Actors, NoLock
  <2> QED BY <1>2, <2>1, <2>2 DEF Call
<1>3. ASSUME NEW t \in Tasks, Task(t) PROVE LockedByBroadcast'
  <2>1. CASE CastEnd(t)
    BY <2>1, MMAssumption DEF CastEnd, Goes, Types, TypeOK, Actors, NoLock
  <2>2. CASE SendOne(t) \/ Cast(t) \/ Acked(t) \/ Timeout(t)
    BY <2>2 DEF SendOne, Cast, Acked, Timeout, Goes, Types, TypeOK, Actors, res
  <2> QED BY <1>3, <2>1, <2>2 DEF Task
<1>4. ASSUME Rx PROVE LockedByBroadcast'
  <2>1. lock' = lock /\ \A t \in Tasks : pc'[t] = pc[t]
    BY <1>4, MMAssumption
       DEF Rx, Recv, Unreg, Status, Answer, Release, Locked, Goes, Types, TypeOK, Actors, res
  <2> QED BY <2>1
<1>5. ASSUME HostActions \/ UNCHANGED vars PROVE LockedByBroadcast'
  BY <1>5 DEF HostActions, HostAsk, Ask, HostAck, HostAnswered, res, vars
<1> QED BY <1>1, <1>2, <1>3, <1>4, <1>5 DEF Next, HostActions

-------------------------------------------------------------------------------
(* The table.                                                              *)
Entries == OneEntryEach /\ EntryInv

LEMMA NamesDiffer ==
  ASSUME Types, NEW a \in Actors, NEW b \in Actors, a # b
  PROVE  NameOf(a) # NameOf(b)
BY MMAssumption DEF Types, MsgInv, NameOf, Actors, Messages, Requests, None

LEMMA NotNames ==
  /\ Unused # Booked /\ Unused \notin Names /\ Booked \notin Names
BY MMAssumption DEF Unused, Booked, Names, Actors

\* Who unregisters is a peer.
LEMMA UnregPeer ==
  ASSUME Types, msg.info = "unreg"
  PROVE  msg.from \in Peers
BY DEF Types, MsgInv, Messages, None

\* The table and those that register do not change, and the M3's own requests do not.
LEMMA EntriesFrame ==
  ASSUME Entries, UNCHANGED <<table, msg, pc[mm], slot[mm]>>,
         \A a \in Actors : pc'[a] \in {"book", "fill"} \/ pc[a] \in {"book", "fill"} =>
                             pc'[a] = pc[a] /\ slot'[a] = slot[a]
  PROVE  Entries'
BY DEF Entries, OneEntryEach, EntryInv, NameOf

LEMMA FindStep ==
  ASSUME Types, Entries, NEW a \in Actors, RegFind(a)
  PROVE  Entries'
<1>1. /\ table' = table /\ msg' = msg /\ pc[a] = "find" /\ slot'[a] = FindRes(NameOf(a))
      /\ pc'[a] = IF FindRes(NameOf(a)) # 0 THEN After(a) ELSE "book"
      /\ \A b \in Actors \ {a} : pc'[b] = pc[b] /\ slot'[b] = slot[b]
  BY DEF RegFind, Locked, Goes, res, Types, TypeOK
<1>2. /\ After(a) \in {"idle", "recv", "answer"}
      /\ a = mm => msg.info # "unreg"
      /\ mm \in Actors
  BY <1>1 DEF After, Types, PcInv, None, Actors
<1>3. OneEntryEach'
  BY <1>1, <1>2 DEF Entries, OneEntryEach
<1>4. \A b \in Actors : pc'[b] \in {"book", "fill"} => \A s \in Slots : table[s] # NameOf(b)
  BY <1>1, <1>2, Found DEF Entries, EntryInv
<1>5. EntryInv'
  BY <1>1, <1>2, <1>4 DEF Entries, EntryInv, NameOf
<1> QED BY <1>3, <1>5 DEF Entries

LEMMA BookStep ==
  ASSUME Types, Entries, NEW a \in Actors, RegBook(a)
  PROVE  Entries'
<1>1. /\ msg' = msg /\ pc[a] = "book" /\ slot'[a] = FreeRes
      /\ pc'[a] = IF FreeRes # 0 THEN "fill" ELSE After(a)
      /\ \A b \in Actors \ {a} : pc'[b] = pc[b] /\ slot'[b] = slot[b]
      /\ table' = IF FreeRes # 0 THEN [table EXCEPT ![FreeRes] = Booked] ELSE table
  BY DEF RegBook, Locked, Goes, Types, TypeOK
<1>2. /\ After(a) \in {"idle", "recv", "answer"}
      /\ a = mm => msg.info # "unreg"
      /\ mm \in Actors
  BY <1>1 DEF After, Types, PcInv, None, Actors
<1>3. CASE FreeRes = 0
  <2>1. OneEntryEach'
    BY <1>1, <1>2, <1>3 DEF Entries, OneEntryEach
  <2>2. EntryInv'
    BY <1>1, <1>2, <1>3 DEF Entries, EntryInv, NameOf
  <2> QED BY <2>1, <2>2 DEF Entries
<1>4. CASE FreeRes # 0
  <2>1. /\ FreeRes \in Slots /\ table[FreeRes] = Unused /\ table'[FreeRes] = Booked
        /\ \A s \in Slots \ {FreeRes} : table'[s] = table[s]
    BY <1>1, <1>4, Free DEF Types, TypeOK
  <2>2. OneEntryEach'
    <3>1. \A s, u \in Slots : table'[s] = table'[u] /\ s # u => table'[s] \in {Unused, Booked}
      BY <2>1 DEF Entries, OneEntryEach
    <3>2. \A b \in Actors : pc[b] = "fill" => slot[b] # FreeRes
      BY <2>1, NotNames DEF Entries, OneEntryEach
    <3>3. \A s \in Slots :
            table'[s] = Booked <=> \E b \in Actors : pc'[b] = "fill" /\ slot'[b] = s
      BY <1>1, <1>4, <2>1, <3>2 DEF Entries, OneEntryEach
    <3>4. \A b, c \in Actors :
            pc'[b] = "fill" /\ pc'[c] = "fill" /\ slot'[b] = slot'[c] => b = c
      BY <1>1, <3>2 DEF Entries, OneEntryEach
    <3> QED BY <3>1, <3>3, <3>4 DEF OneEntryEach
  <2>3. EntryInv'
    <3>1. \A b \in Actors : pc'[b] \in {"book", "fill"} => pc[b] \in {"find", "book", "fill"}
      BY <1>1
    <3>2. \A b \in Actors : pc'[b] \in {"book", "fill"} =>
                              \A s \in Slots : table'[s] # NameOf(b)
      BY <1>1, <2>1, <3>1, Names2, NotNames DEF Entries, EntryInv
    <3>3. \A b \in Actors : pc'[b] = "fill" => slot'[b] \in Slots
      BY <1>1, <2>1 DEF Entries, EntryInv
    <3>4. pc'[mm] \in {"answer", "release"} /\ msg.info = "unreg" /\ slot'[mm] # 0 =>
            slot'[mm] \in Slots /\ table'[slot'[mm]] = msg.from
      BY <1>1, <1>2, <2>1, UnregPeer, NotNames DEF Entries, EntryInv, Names
    <3>5. pc'[mm] = "release" => slot'[mm] # 0
      BY <1>1, <1>2, <1>4 DEF Entries, EntryInv
    <3> QED BY <1>1, <3>2, <3>3, <3>4, <3>5 DEF EntryInv, NameOf
  <2> QED BY <2>2, <2>3 DEF Entries
<1> QED BY <1>3, <1>4

LEMMA FillStep ==
  ASSUME Types, Entries, NEW a \in Actors, RegFill(a)
  PROVE  Entries'
<1>1. /\ msg' = msg /\ slot' = slot /\ pc[a] = "fill" /\ pc'[a] = After(a)
      /\ \A b \in Actors \ {a} : pc'[b] = pc[b]
      /\ table' = [table EXCEPT ![slot[a]] = NameOf(a)]
  BY DEF RegFill, Goes, Types, TypeOK
<1>2. /\ After(a) \in {"idle", "recv", "answer"}
      /\ a = mm => msg.info # "unreg"
      /\ mm \in Actors
  BY <1>1 DEF After, Types, PcInv, None, Actors
<1>3. /\ slot[a] \in Slots /\ table[slot[a]] = Booked /\ table'[slot[a]] = NameOf(a)
      /\ \A s \in Slots \ {slot[a]} : table'[s] = table[s]
      /\ \A s \in Slots : table[s] # NameOf(a)
      /\ NameOf(a) \in Names
  BY <1>1, Names2 DEF Types, TypeOK, Entries, EntryInv, OneEntryEach
<1>4. OneEntryEach'
  <2>1. \A s, u \in Slots : table'[s] = table'[u] /\ s # u => table'[s] \in {Unused, Booked}
    BY <1>3 DEF Entries, OneEntryEach
  <2>2. \A s \in Slots :
          table'[s] = Booked <=> \E b \in Actors : pc'[b] = "fill" /\ slot'[b] = s
    BY <1>1, <1>2, <1>3, NotNames DEF Entries, OneEntryEach
  <2>3. \A b, c \in Actors :
          pc'[b] = "fill" /\ pc'[c] = "fill" /\ slot'[b] = slot'[c] => b = c
    BY <1>1, <1>2 DEF Entries, OneEntryEach
  <2> QED BY <2>1, <2>2, <2>3 DEF OneEntryEach
<1>5. EntryInv'
  <2>1. \A b \in Actors : pc'[b] \in {"book", "fill"} =>
                            \A s \in Slots : table'[s] # NameOf(b)
    BY <1>1, <1>2, <1>3, NamesDiffer DEF Entries, EntryInv
  <2>2. \A b \in Actors : pc'[b] = "fill" => slot'[b] \in Slots
    BY <1>1, <1>2 DEF Entries, EntryInv
  <2>3. pc'[mm] \in {"answer", "release"} /\ msg.info = "unreg" /\ slot'[mm] # 0 =>
          slot'[mm] \in Slots /\ table'[slot'[mm]] = msg.from
    BY <1>1, <1>2, <1>3, UnregPeer, NotNames DEF Entries, EntryInv, Names
  <2>4. pc'[mm] = "release" => slot'[mm] # 0
    BY <1>1, <1>2 DEF Entries, EntryInv
  <2> QED BY <1>1, <2>1, <2>2, <2>3, <2>4 DEF EntryInv, NameOf
<1> QED BY <1>4, <1>5 DEF Entries

LEMMA TaskEntries ==
  ASSUME Types, Entries, NEW t \in Tasks, TaskActions(t)
  PROVE  Entries'
<1>1. /\ table' = table /\ msg' = msg
      /\ \A a \in Actors \ {t} : pc'[a] = pc[a] /\ slot'[a] = slot[a]
      /\ pc[t] \in {"idle", "send", "wait", "cast", "castwait"}
      /\ pc'[t] \in {"idle", "send", "wait", "cast", "castwait"}
  BY DEF TaskActions, Task, Call, CallOne, CallAll, NewCall, SendOne, Cast, CastEnd, Acked,
     Timeout, Locked, Goes, Types, TypeOK, res, Actors
<1>2. t # mm /\ mm \in Actors
  BY MMAssumption DEF Actors
<1> QED BY <1>1, <1>2, EntriesFrame

LEMMA RxEntries ==
  ASSUME Types, Entries, Rx
  PROVE  Entries'
<1>1. mm \in Actors /\ mm \notin Tasks
  BY MMAssumption DEF Actors
<1>2. ASSUME Recv \/ Unreg \/ Status \/ Answer PROVE Entries'
  <2>1. /\ table' = table /\ pc[mm] \in {"recv", "unreg", "status", "answer"}
        /\ pc'[mm] \in {"recv", "find", "unreg", "status", "answer", "release"}
        /\ \A a \in Actors \ {mm} : pc'[a] = pc[a] /\ slot'[a] = slot[a]
    <3>1. DOMAIN pc = Actors /\ DOMAIN slot = Actors
      BY DEF Types, TypeOK
    <3>2. CASE Recv
      BY <1>1, <3>1, <3>2 DEF Recv, Goes, res
    <3>3. CASE Unreg
      BY <1>1, <3>1, <3>3 DEF Unreg, Locked, Goes, res
    <3>4. CASE Status
      BY <1>1, <3>1, <3>4 DEF Status, Locked, Goes, res
    <3>5. CASE Answer
      BY <1>1, <3>1, <3>5 DEF Answer, Locked, Goes, res
    <3> QED BY <1>2, <3>2, <3>3, <3>4, <3>5
  <2>2. OneEntryEach'
    BY <2>1 DEF Entries, OneEntryEach
  <2>3. /\ \A a \in Actors : pc'[a] \in {"book", "fill"} =>
                               \A s \in Slots : table[s] # a
        /\ \A a \in Actors : pc'[a] = "fill" => slot'[a] \in Slots
    BY <2>1 DEF Entries, EntryInv, NameOf
  <2>4. /\ pc'[mm] \in {"answer", "release"} /\ msg'.info = "unreg" /\ slot'[mm] # 0 =>
             slot'[mm] \in Slots /\ table[slot'[mm]] = msg'.from
        /\ pc'[mm] = "release" => slot'[mm] # 0
    <3>1. CASE Recv
      BY <1>1, <3>1 DEF Recv, Goes, Types, TypeOK
    <3>2. CASE Unreg
      BY <1>1, <3>2, Found DEF Unreg, Locked, Goes, Types, TypeOK
    <3>3. CASE Status
      BY <1>1, <3>3 DEF Status, Locked, Goes, Types, TypeOK, PcInv
    <3>4. CASE Answer
      BY <1>1, <3>4 DEF Answer, Locked, Goes, Types, TypeOK, Entries, EntryInv
    <3> QED BY <1>2, <3>1, <3>2, <3>3, <3>4
  <2>5. EntryInv'
    BY <2>1, <2>3, <2>4 DEF EntryInv, NameOf
  <2> QED BY <2>2, <2>5 DEF Entries
<1>3. ASSUME Release PROVE Entries'
  <2>1. /\ msg' = msg /\ slot' = slot /\ pc[mm] = "release" /\ pc'[mm] = "recv"
        /\ \A a \in Actors \ {mm} : pc'[a] = pc[a]
        /\ table' = [table EXCEPT ![slot[mm]] = Unused]
    BY <1>1, <1>3 DEF Release, Locked, Goes, Types, TypeOK
  <2>2. slot[mm] \in Slots /\ table[slot[mm]] = msg.from /\ msg.from \in Peers
    BY <2>1, UnregPeer DEF Entries, EntryInv, Types, PcInv
  <2>3. /\ table'[slot[mm]] = Unused /\ table[slot[mm]] # Booked
        /\ \A s \in Slots \ {slot[mm]} : table'[s] = table[s]
    BY <2>1, <2>2, NotNames DEF Types, TypeOK, Names
  <2>4. OneEntryEach'
    BY <1>1, <2>1, <2>3, NotNames DEF Entries, OneEntryEach
  <2>5. \A a \in Actors : pc'[a] \in {"book", "fill"} =>
                            \A s \in Slots : table'[s] # NameOf(a)
    BY <2>1, <2>3, Names2, NotNames DEF Entries, EntryInv
  <2>6. EntryInv'
    BY <2>1, <2>5 DEF Entries, EntryInv, NameOf
  <2> QED BY <2>4, <2>6 DEF Entries
<1> QED BY <1>2, <1>3 DEF Rx

-------------------------------------------------------------------------------
LEMMA Step ==
  ASSUME IInv, [Next]_vars
  PROVE  IInv'
<1>1. Types /\ Entries /\ LockedByBroadcast
  BY DEF IInv, TableInv, Types, Entries
<1>2. \A a \in Actors : pc[a] = "fill" => slot[a] \in Slots
  BY <1>1 DEF Entries, EntryInv
<1>3. pc[mm] = "release" => slot[mm] \in Slots
  BY <1>1 DEF Entries, EntryInv, Types, PcInv
<1>4. LockedByBroadcast'
  BY <1>1, LockStep
<1>5. ASSUME NEW a \in Actors, Reg(a) PROVE Types' /\ Entries'
  BY <1>1, <1>2, <1>5, RegTypes, FindStep, BookStep, FillStep DEF Reg
<1>6. ASSUME NEW t \in Tasks, TaskActions(t) PROVE Types' /\ Entries'
  BY <1>1, <1>6, TaskTypes, CallTypes, TaskEntries DEF TaskActions
<1>7. ASSUME Rx PROVE Types' /\ Entries'
  BY <1>1, <1>3, <1>7, RxTypes, RxEntries
<1>8. ASSUME HostActions PROVE Types' /\ Entries'
  <2>1. UNCHANGED <<table, msg, pc, slot>>
    BY <1>8 DEF HostActions, HostAsk, Ask, HostAck, HostAnswered, res
  <2> QED BY <1>1, <1>8, <2>1, HostTypes, EntriesFrame
<1>9. ASSUME UNCHANGED vars PROVE Types' /\ Entries'
  <2>1. Types'
    BY <1>1, <1>9 DEF Types, TypeOK, MsgInv, PcInv, vars
  <2>2. Entries'
    BY <1>1, <1>9, EntriesFrame DEF vars
  <2> QED BY <2>1, <2>2
<1>10. Types' /\ Entries'
  BY <1>5, <1>6, <1>7, <1>8, <1>9 DEF Next, TaskActions, HostActions
<1> QED BY <1>4, <1>10 DEF IInv, TableInv, Types, Entries

LEMMA Initially ==
  ASSUME Init
  PROVE  IInv
<1>1. OneEntryEach
  BY NotNames DEF Init, OneEntryEach
<1>2. LockedByBroadcast
  BY MMAssumption DEF Init, LockedByBroadcast, NoLock, Actors
<1>3. EntryInv
  BY MMAssumption DEF Init, EntryInv, Actors
<1> QED BY <1>1, <1>2, <1>3, InitTypes DEF IInv, TableInv, Types

\* Finding, booking and filling an entry are three steps of tasks and of rpmsg_mm_task,
\* yet no name is registered twice, no entry is booked by two, and the one registering it
\* fills it; the table stays locked for a broadcast only.
THEOREM TableConsistent == Spec => []TableInv
<1>1. Init => IInv
  BY Initially
<1>2. IInv /\ [Next]_vars => IInv'
  BY Step
<1>3. IInv => TableInv
  BY DEF IInv
<1> QED BY <1>1, <1>2, <1>3, PTL DEF Spec

-------------------------------------------------------------------------------
(* Peers.  A request of a peer is in one place: in rx, in rpmsg_mm_task's  *)
(* hands, or answered; so what releases a peer's entry is never older than *)
(* what has registered it.                                                 *)
Waits(p)    == \E i \in DOMAIN rx : rx[i].from = p
Handled(p)  == /\ pc[mm] \in {"find", "book", "fill", "unreg", "status", "answer"}
               /\ msg.info \in Requests /\ msg.from = p
InTable(p)  == \E s \in Slots : table[s] = p

OneRequest ==
  /\ \A p \in Peers : peer[p] \in {"in", "out"} =>
                        answer[p] = None /\ ~Waits(p) /\ ~Handled(p)
  /\ \A p \in Peers : Waits(p) => answer[p] = None /\ ~Handled(p)
  /\ \A p \in Peers : Handled(p) => answer[p] = None /\ peer[p] = msg.info
  /\ \A i \in DOMAIN rx : rx[i].from \in Peers => rx[i].info = peer[rx[i].from]
  /\ \A i, j \in DOMAIN rx : rx[i].from \in Peers /\ rx[i].from = rx[j].from => i = j
  /\ pc[mm] = "release" => \/ peer[msg.from] \in {"unreg", "out"}
                           \/ peer[msg.from] = "reg" /\ answer[msg.from] = None

Known == \A p \in Peers :
  peer[p] \in {"in", "status"} \/ (peer[p] = "reg" /\ answer[p] = "yes") => InTable(p)

PeerInv == OneRequest /\ Known

\* The steps that the peers do not see.
LEMMA PeerFrame ==
  ASSUME PeerInv, UNCHANGED <<rx, msg, peer, answer>>,
         pc'[mm] = "release" => pc[mm] = "release",
         \A p \in Peers : Handled(p)' => Handled(p),
         \A p \in Peers : InTable(p) => InTable(p)'
  PROVE  PeerInv'
BY DEF PeerInv, OneRequest, Known, Waits

LEMMA RegPeers ==
  ASSUME IInv, PeerInv, NEW a \in Actors, Reg(a)
  PROVE  PeerInv'
<1>1. /\ UNCHANGED <<rx, msg, peer, answer>> /\ pc[a] \in {"find", "book", "fill"}
      /\ pc'[a] \in {"book", "fill", "idle", "recv", "answer"}
      /\ \A b \in Actors \ {a} : pc'[b] = pc[b]
  BY DEF Reg, RegFind, RegBook, RegFill, Locked, Goes, After, host, IInv, TableInv, TypeOK
<1>2. mm \in Actors
  BY DEF Actors
<1>3. \A p \in Peers : Handled(p)' => Handled(p)
  BY <1>1, <1>2 DEF Handled
<1>4. ASSUME NEW p \in Peers, InTable(p) PROVE InTable(p)'
  <2>1. p \in Names
    BY DEF Names
  <2>2. \A s \in Slots : table[s] = p => table'[s] = table[s]
    BY <2>1, Free, NotNames
       DEF Reg, RegFind, RegBook, RegFill, Goes, res, IInv, TableInv, TypeOK, OneEntryEach
  <2> QED BY <1>4, <2>2 DEF InTable
<1> QED BY <1>1, <1>2, <1>3, <1>4, PeerFrame

LEMMA TaskPeers ==
  ASSUME IInv, PeerInv, NEW t \in Tasks, TaskActions(t)
  PROVE  PeerInv'
<1>1. UNCHANGED <<table, rx, msg, peer, answer>> /\ pc'[mm] = pc[mm]
  BY MMAssumption DEF TaskActions, Task, Call, CallOne, CallAll, SendOne, Cast, CastEnd, Acked,
     Timeout, Locked, Goes, res, host, IInv, TableInv, TypeOK, Actors
<1>2. \A p \in Peers : Handled(p)' => Handled(p)
  BY <1>1 DEF Handled
<1>3. \A p \in Peers : InTable(p) => InTable(p)'
  BY <1>1 DEF InTable
<1> QED BY <1>1, <1>2, <1>3, PeerFrame

LEMMA RecvPeers ==
  ASSUME IInv, PeerInv, Recv
  PROVE  PeerInv'
<1>1. /\ rx \in Seq(Messages) /\ rx # <<>> /\ rx' = Tail(rx) /\ msg' = Head(rx)
      /\ UNCHANGED <<table, peer, answer>> /\ pc[mm] = "recv"
      /\ pc'[mm] \in {"find", "unreg", "status", "recv"}
      /\ pc'[mm] # "recv" => msg'.info \in Requests
      /\ pc'[mm] = "recv" => msg'.info = "ack"
  BY MMAssumption DEF Recv, Goes, IInv, MsgInv, TableInv, TypeOK, res, host, Actors, Requests
<1>2. /\ Len(rx) \in Nat \ {0} /\ DOMAIN rx = 1 .. Len(rx) /\ msg' = rx[1] /\ 1 \in DOMAIN rx
      /\ DOMAIN rx' = 1 .. Len(rx) - 1
      /\ \A i \in DOMAIN rx' : i + 1 \in DOMAIN rx /\ i + 1 # 1 /\ rx'[i] = rx[i + 1]
  BY <1>1
<1>3. /\ \A p \in Peers : Waits(p)' => Waits(p)
      /\ \A p \in Peers : Waits(p)' => msg'.from # p
      /\ msg'.from \in Peers => Waits(msg'.from)
  BY <1>2 DEF Waits, PeerInv, OneRequest
<1>4. \A p \in Peers : Handled(p)' => p = msg'.from /\ peer[p] = msg'.info
  BY <1>1, <1>2 DEF Handled, PeerInv, OneRequest
<1>5. OneRequest'
  <2>1. \A p \in Peers : peer'[p] \in {"in", "out"} =>
                           answer'[p] = None /\ ~Waits(p)' /\ ~Handled(p)'
    BY <1>1, <1>3, <1>4 DEF PeerInv, OneRequest
  <2>2. \A p \in Peers : Waits(p)' => answer'[p] = None /\ ~Handled(p)'
    BY <1>1, <1>3, <1>4 DEF PeerInv, OneRequest
  <2>3. \A p \in Peers : Handled(p)' => answer'[p] = None /\ peer'[p] = msg'.info
    BY <1>1, <1>3, <1>4 DEF PeerInv, OneRequest
  <2>4. \A i \in DOMAIN rx' : rx'[i].from \in Peers => rx'[i].info = peer'[rx'[i].from]
    BY <1>1, <1>2 DEF PeerInv, OneRequest
  <2>5. \A i, j \in DOMAIN rx' : rx'[i].from \in Peers /\ rx'[i].from = rx'[j].from => i = j
    <3>1. ASSUME NEW i \in DOMAIN rx', NEW j \in DOMAIN rx',
                 rx'[i].from \in Peers, rx'[i].from = rx'[j].from
          PROVE  i + 1 = j + 1
      BY <1>2, <3>1 DEF PeerInv, OneRequest
    <3> QED BY <1>2, <3>1
  <2> QED BY <1>1, <2>1, <2>2, <2>3, <2>4, <2>5 DEF OneRequest
<1>6. Known'
  BY <1>1 DEF PeerInv, Known, InTable
<1> QED BY <1>5, <1>6 DEF PeerInv

LEMMA RxPeers ==
  ASSUME IInv, PeerInv, Unreg \/ Status \/ Answer \/ Release
  PROVE  PeerInv'
<1>1. mm \in Actors
  BY DEF Actors
<1>2. CASE Unreg \/ Status
  <2>1. /\ UNCHANGED <<table, rx, msg, peer, answer>> /\ pc[mm] \in {"unreg", "status"}
        /\ pc'[mm] = "answer"
    BY <1>1, <1>2 DEF Unreg, Status, Locked, Goes, IInv, TableInv, TypeOK, res, host
  <2>2. \A p \in Peers : (Handled(p)' => Handled(p)) /\ (InTable(p) => InTable(p)')
    BY <2>1 DEF Handled, InTable
  <2> QED BY <2>1, <2>2, PeerFrame
<1>3. CASE Answer
  <2> DEFINE p == msg.from
  <2>1. /\ UNCHANGED <<table, rx, msg, peer>> /\ pc[mm] = "answer"
        /\ pc'[mm] \in {"recv", "release"}
        /\ pc'[mm] = "release" => msg.info = "unreg"
        /\ \A q \in Peers \ {p} : answer'[q] = answer[q]
        /\ answer'[p] # answer[p] => FindRes(p) # 0
    BY <1>1, <1>3 DEF Answer, Locked, Goes, IInv, TableInv, TypeOK, res
  <2>2. p \in Peers /\ Handled(p) /\ msg.info \in Requests
    BY <2>1 DEF IInv, MsgInv, PcInv, Messages, Requests, Handled, None
  <2>3. /\ peer[p] = msg.info /\ ~Waits(p) /\ answer[p] = None
        /\ \A q \in Peers : ~Handled(q)'
    BY <2>1, <2>2 DEF PeerInv, OneRequest, Handled
  <2>4. \A q \in Peers : Waits(q)' <=> Waits(q)
    BY <2>1 DEF Waits
  <2>5. OneRequest'
    BY <2>1, <2>2, <2>3, <2>4 DEF PeerInv, OneRequest, Requests
  <2>6. FindRes(p) # 0 => InTable(p)
    BY Found DEF InTable
  <2>7. \A q \in Peers : InTable(q)' <=> InTable(q)
    BY <2>1 DEF InTable
  <2>8. Known'
    BY <2>1, <2>2, <2>6, <2>7 DEF PeerInv, Known
  <2> QED BY <2>5, <2>8 DEF PeerInv
<1>4. CASE Release
  <2>1. /\ UNCHANGED <<rx, msg, peer, answer>> /\ pc[mm] = "release" /\ pc'[mm] = "recv"
        /\ table' = [table EXCEPT ![slot[mm]] = Unused]
    BY <1>1, <1>4 DEF Release, Locked, Goes, IInv, TableInv, TypeOK, host
  <2>2. slot[mm] \in Slots /\ table[slot[mm]] = msg.from
    BY <2>1 DEF IInv, EntryInv, PcInv
  <2>3. \A q \in Peers : ~Handled(q)' /\ (Waits(q)' <=> Waits(q))
    BY <2>1 DEF Handled, Waits
  <2>4. OneRequest'
    BY <2>1, <2>3 DEF PeerInv, OneRequest
  <2>5. \A q \in Peers : InTable(q) /\ q # msg.from => InTable(q)'
    BY <2>1, <2>2 DEF InTable, IInv, TableInv, TypeOK
  <2>6. Known'
    BY <2>1, <2>5 DEF PeerInv, Known, OneRequest, None
  <2> QED BY <2>4, <2>6 DEF PeerInv
<1> QED BY <1>2, <1>3, <1>4

LEMMA HostPeers ==
  ASSUME IInv, PeerInv, HostActions
  PROVE  PeerInv'
<1>1. UNCHANGED <<table, pc, slot, msg>>
  BY DEF HostActions, HostAsk, Ask, HostAck, HostAnswered, res
<1>2. /\ \A p \in Peers : Handled(p)' <=> Handled(p)
      /\ \A p \in Peers : InTable(p)' <=> InTable(p)
      /\ rx \in Seq(Messages)
      /\ pc[mm] = "release" => msg.from \in Peers
  BY <1>1, UnregPeer DEF Handled, InTable, IInv, MsgInv, PcInv, Types, TableInv
<1>3. ASSUME NEW m \in Messages, rx' = Append(rx, m)
      PROVE  /\ DOMAIN rx' = DOMAIN rx \cup {Len(rx) + 1} /\ Len(rx) + 1 \notin DOMAIN rx
             /\ rx'[Len(rx) + 1] = m /\ \A i \in DOMAIN rx : rx'[i] = rx[i]
             /\ \A p \in Peers : Waits(p)' <=> Waits(p) \/ p = m.from
  <2>1. /\ DOMAIN rx' = DOMAIN rx \cup {Len(rx) + 1} /\ Len(rx) + 1 \notin DOMAIN rx
        /\ rx'[Len(rx) + 1] = m /\ \A i \in DOMAIN rx : rx'[i] = rx[i]
    BY <1>2, <1>3
  <2> QED BY <2>1 DEF Waits
<1>4. ASSUME NEW p \in Peers, HostAsk(p) PROVE PeerInv'
  <2>1. PICK k \in Requests :
          /\ peer' = [peer EXCEPT ![p] = k] /\ answer' = answer
          /\ rx' = Append(rx, [info |-> k, from |-> p])
          /\ \/ peer[p] = "out" /\ k = "reg"
             \/ peer[p] = "in" /\ k \in {"status", "unreg"}
    BY <1>4 DEF HostAsk, Ask, Post, Requests
  <2>2. [info |-> k, from |-> p] \in Messages
    BY DEF Messages
  <2>3. /\ peer'[p] = k /\ \A q \in Peers \ {p} : peer'[q] = peer[q]
        /\ answer[p] = None /\ ~Waits(p) /\ ~Handled(p)
    BY <2>1 DEF IInv, TableInv, TypeOK, PeerInv, OneRequest
  <2>4. OneRequest'
    <3>1. \A q \in Peers : peer'[q] \in {"in", "out"} =>
                             answer'[q] = None /\ ~Waits(q)' /\ ~Handled(q)'
      BY <1>2, <1>3, <2>1, <2>2, <2>3 DEF PeerInv, OneRequest, Requests
    <3>2. \A q \in Peers : /\ Waits(q)' => answer'[q] = None /\ ~Handled(q)'
                           /\ Handled(q)' => answer'[q] = None /\ peer'[q] = msg'.info
      BY <1>1, <1>2, <1>3, <2>1, <2>2, <2>3 DEF PeerInv, OneRequest
    <3>3. /\ \A i \in DOMAIN rx' : rx'[i].from \in Peers => rx'[i].info = peer'[rx'[i].from]
          /\ \A i, j \in DOMAIN rx' :
               rx'[i].from \in Peers /\ rx'[i].from = rx'[j].from => i = j
      BY <1>3, <2>1, <2>2, <2>3 DEF PeerInv, OneRequest, Waits
    <3>4. pc'[mm] = "release" => \/ peer'[msg'.from] \in {"unreg", "out"}
                                 \/ peer'[msg'.from] = "reg" /\ answer'[msg'.from] = None
      BY <1>1, <1>2, <2>1, <2>3 DEF PeerInv, OneRequest
    <3> QED BY <3>1, <3>2, <3>3, <3>4 DEF OneRequest
  <2>5. Known'
    BY <1>2, <2>1, <2>3 DEF PeerInv, Known, None
  <2> QED BY <2>4, <2>5 DEF PeerInv
<1>5. ASSUME NEW p \in Peers, HostAnswered(p) PROVE PeerInv'
  <2>1. /\ answer[p] # None /\ answer'[p] = None /\ rx' = rx
        /\ peer'[p] = IF peer[p] = "unreg" \/ answer[p] = "no" THEN "out" ELSE "in"
        /\ \A q \in Peers \ {p} : peer'[q] = peer[q] /\ answer'[q] = answer[q]
    BY <1>5 DEF HostAnswered, IInv, TableInv, TypeOK
  <2>2. ~Waits(p) /\ ~Handled(p) /\ peer[p] \in Requests
    BY <2>1 DEF PeerInv, OneRequest, IInv, TableInv, TypeOK, Requests
  <2>3. \A q \in Peers : Waits(q)' <=> Waits(q)
    BY <2>1 DEF Waits
  <2>4. OneRequest'
    <3>1. \A q \in Peers : peer'[q] \in {"in", "out"} =>
                             answer'[q] = None /\ ~Waits(q)' /\ ~Handled(q)'
      BY <1>2, <2>1, <2>2, <2>3 DEF PeerInv, OneRequest
    <3>2. \A q \in Peers : /\ Waits(q)' => answer'[q] = None /\ ~Handled(q)'
                           /\ Handled(q)' => answer'[q] = None /\ peer'[q] = msg'.info
      BY <1>1, <1>2, <2>1, <2>2, <2>3 DEF PeerInv, OneRequest
    <3>3. /\ \A i \in DOMAIN rx' : rx'[i].from \in Peers => rx'[i].info = peer'[rx'[i].from]
          /\ \A i, j \in DOMAIN rx' :
               rx'[i].from \in Peers /\ rx'[i].from = rx'[j].from => i = j
      BY <2>1, <2>2 DEF PeerInv, OneRequest, Waits
    <3>4. pc'[mm] = "release" => \/ peer'[msg'.from] \in {"unreg", "out"}
                                 \/ peer'[msg'.from] = "reg" /\ answer'[msg'.from] = None
      BY <1>1, <1>2, <2>1 DEF PeerInv, OneRequest
    <3> QED BY <3>1, <3>2, <3>3, <3>4 DEF OneRequest
  <2>5. Known'
    BY <1>2, <2>1, <2>2 DEF PeerInv, Known, Requests, IInv, TableInv, TypeOK, None
  <2> QED BY <2>4, <2>5 DEF PeerInv
<1>6. ASSUME NEW m \in inHost, HostAck(m) PROVE PeerInv'
  <2>1. /\ m.task \in Tasks /\ rx' = Append(rx, [info |-> "ack", from |-> m.task])
        /\ peer' = peer /\ answer' = answer
    BY <1>6 DEF HostAck, Post, host, IInv, TableInv, TypeOK
  <2>2. [info |-> "ack", from |-> m.task] \in Messages /\ m.task \notin Peers
    BY <2>1, MMAssumption DEF Messages
  <2>3. \A q \in Peers : Waits(q)' <=> Waits(q)
    BY <1>3, <2>1, <2>2
  <2>4. OneRequest'
    BY <1>1, <1>2, <1>3, <2>1, <2>2, <2>3 DEF PeerInv, OneRequest
  <2>5. Known'
    BY <1>2, <2>1 DEF PeerInv, Known
  <2> QED BY <2>4, <2>5 DEF PeerInv
<1> QED BY <1>4, <1>5, <1>6 DEF HostActions

\* A peer that has been told that it is registered is found in the table until it asks to
\* leave, although rpmsg_mm_task answers a request to leave before it releases the entry.
THEOREM RegisteredStaysKnown == Spec => []RegisteredIsKnown
<1>1. Init => IInv /\ PeerInv
  <2> SUFFICES ASSUME Init PROVE PeerInv
    BY Initially
  <2>1. /\ DOMAIN rx = {} /\ pc[mm] = "find" /\ msg.info = None
        /\ \A p \in Peers : peer[p] = "out" /\ answer[p] = None
    BY DEF Init, Actors
  <2>2. \A p \in Peers : ~Waits(p) /\ ~Handled(p)
    BY <2>1 DEF Waits, Handled, None, Requests
  <2> QED BY <2>1, <2>2 DEF PeerInv, OneRequest, Known
<1>2. IInv /\ PeerInv /\ [Next]_vars => IInv' /\ PeerInv'
  <2> SUFFICES ASSUME IInv, PeerInv, [Next]_vars PROVE PeerInv'
    BY Step
  <2>1. CASE Next
    BY <2>1, RegPeers, TaskPeers, RecvPeers, RxPeers, HostPeers
       DEF Next, TaskActions, HostActions, Rx
  <2>2. CASE UNCHANGED vars
    <3>1. UNCHANGED <<table, rx, pc, msg, peer, answer>>
      BY <2>2 DEF vars
    <3>2. \A p \in Peers : (Handled(p)' => Handled(p)) /\ (InTable(p) => InTable(p)')
      BY <3>1 DEF Handled, InTable
    <3> QED BY <3>1, <3>2, PeerFrame
  <2> QED BY <2>1, <2>2
<1>3. PeerInv => RegisteredIsKnown
  BY Found DEF PeerInv, Known, InTable, RegisteredIsKnown
<1> QED BY <1>1, <1>2, <1>3, PTL DEF Spec

-------------------------------------------------------------------------------
(* Acknowledgements.  As long as no call of a task has timed out, at most  *)
(* one acknowledgement for it is on its way, and only while it waits.      *)
CallInv ==
  /\ call \in [Tasks -> [to : Peers \cup {All, None}, ack : BOOLEAN, id : Nat,
                         sent : SUBSET (Names \cup {Unused, Booked}),
                         res : {None, "ok", "failed"}]]
  /\ calls \in [Tasks -> Nat]
  /\ \A t \in Tasks : /\ pc[t] = "send" => slot[t] \in Slots
                      /\ pc[t] \in {"send", "cast", "castwait"} => call[t].to # None
                      /\ call[t].res = "ok" => pc[t] = "idle"

AtHost(t)  == \E m \in inHost : m.task = t
Rec(t, p)  == [task |-> t, id |-> call[t].id, peer |-> p]

AckInv(t) ==
  /\ AtHost(t) \/ Waits(t) \/ t \in given => pc[t] \in {"wait", "castwait"}
  /\ AtHost(t) => ~Waits(t) /\ t \notin given
  /\ Waits(t) => t \notin given
  /\ \A m, n \in inHost : m.task = t /\ n.task = t => m = n
  /\ \A i, j \in DOMAIN rx : rx[i].from = t /\ rx[j].from = t => i = j
  /\ call[t].ack /\ ~stray =>
       \A p \in call[t].sent : Rec(t, p) \in acked \/ Rec(t, p) \in inHost

AcksInv == CallInv /\ FaultOnlyLate /\ \A t \in Tasks : t \notin late => AckInv(t)

\* The steps that change nothing of a task.
LEMMA AckFrame ==
  ASSUME NEW t \in Tasks, AckInv(t), pc'[t] = pc[t], call'[t] = call[t],
         stray => stray', AtHost(t)' <=> AtHost(t), Waits(t)' <=> Waits(t),
         t \in given' <=> t \in given,
         \A m \in inHost' : m.task = t => m \in inHost,
         \A m \in inHost : m.task = t => m \in inHost',
         \A i, j \in DOMAIN rx' : rx'[i].from = t /\ rx'[j].from = t => i = j,
         \A m \in acked : m \in acked'
  PROVE  AckInv(t)'
<1>1. \A p : Rec(t, p)' = Rec(t, p) /\ Rec(t, p).task = t
  BY DEF Rec
<1> QED BY <1>1 DEF AckInv

LEMMA RegAcks ==
  ASSUME IInv, AcksInv, NEW a \in Actors, Reg(a)
  PROVE  AcksInv'
<1>1. /\ UNCHANGED <<rx, call, calls, given, late, inHost, acked, fault, stray>>
      /\ pc[a] \in {"find", "book", "fill"}
      /\ pc'[a] \in {"book", "fill", "idle", "recv", "answer"}
      /\ \A b \in Actors \ {a} : pc'[b] = pc[b] /\ slot'[b] = slot[b]
  BY DEF Reg, RegFind, RegBook, RegFill, Locked, Goes, After, acks, IInv, TableInv, TypeOK
<1>2. CallInv'
  BY <1>1 DEF AcksInv, CallInv, Actors
<1>3. ASSUME NEW t \in Tasks, t \notin late PROVE AckInv(t)'
  <2>1. AckInv(t)
    BY <1>3 DEF AcksInv
  <2>2. (AtHost(t)' <=> AtHost(t)) /\ (Waits(t)' <=> Waits(t))
    BY <1>1 DEF AtHost, Waits
  <2>3. CASE t = a
    BY <1>1, <2>1, <2>2, <2>3 DEF AckInv, Rec
  <2>4. CASE t # a
    BY <1>1, <2>1, <2>2, <2>4 DEF AckInv, Rec, Actors
  <2> QED BY <2>3, <2>4
<1> QED BY <1>1, <1>2, <1>3 DEF AcksInv, FaultOnlyLate

LEMMA CallAcks ==
  ASSUME IInv, AcksInv, NEW t \in Tasks, NEW s \in Sends[t], Call(t, s[1], s[2])
  PROVE  AcksInv'
<1>1. /\ s[1] \in Peers \cup {All} /\ s[2] \in BOOLEAN
  BY MMAssumption DEF All
<1>2. /\ UNCHANGED <<rx, given, late, inHost, acked, fault, stray>>
      /\ pc[t] = "idle" /\ pc'[t] \in {"idle", "send", "cast"}
      /\ \A b \in Actors \ {t} : pc'[b] = pc[b] /\ slot'[b] = slot[b]
      /\ \E r \in {"ok", None} :
           call' = [call EXCEPT ![t] = [to |-> s[1], ack |-> s[2], id |-> calls'[t],
                                        sent |-> {}, res |-> r]]
      /\ calls' = [calls EXCEPT ![t] = @ + 1]
  BY DEF Call, CallOne, CallAll, NewCall, Locked, Goes, acks, IInv, TableInv, TypeOK, Actors
<1>3. /\ pc'[t] = "send" => slot'[t] \in Slots
      /\ call'[t].res = "ok" => pc'[t] = "idle"
  BY Found, MMAssumption
     DEF Call, CallOne, CallAll, NewCall, Locked, Goes, IInv, TableInv, TypeOK, Actors, AcksInv,
         CallInv, None
<1>4. CallInv'
  <2>1. calls' \in [Tasks -> Nat] /\ calls'[t] \in Nat
    BY <1>2 DEF AcksInv, CallInv
  <2>2. call' \in [Tasks -> [to : Peers \cup {All, None}, ack : BOOLEAN, id : Nat,
                             sent : SUBSET (Names \cup {Unused, Booked}),
                             res : {None, "ok", "failed"}]]
    BY <1>1, <1>2, <2>1 DEF AcksInv, CallInv
  <2>3. call'[t].to # None
    BY <1>1, <1>2, MMAssumption DEF AcksInv, CallInv, None, All
  <2>4. \A u \in Tasks : /\ pc'[u] = "send" => slot'[u] \in Slots
                         /\ pc'[u] \in {"send", "cast", "castwait"} => call'[u].to # None
                         /\ call'[u].res = "ok" => pc'[u] = "idle"
    BY <1>2, <1>3, <2>3 DEF AcksInv, CallInv, Actors
  <2> QED BY <2>1, <2>2, <2>4 DEF CallInv
<1>5. ASSUME NEW u \in Tasks, u \notin late PROVE AckInv(u)'
  <2>1. AckInv(u)
    BY <1>5 DEF AcksInv
  <2>2. (AtHost(u)' <=> AtHost(u)) /\ (Waits(u)' <=> Waits(u))
    BY <1>2 DEF AtHost, Waits
  <2>3. CASE u = t
    <3>1. call'[t].sent = {}
      BY <1>2 DEF AcksInv, CallInv
    <3> QED BY <1>2, <2>1, <2>2, <2>3, <3>1 DEF AckInv
  <2>4. CASE u # t
    <3>1. pc'[u] = pc[u] /\ call'[u] = call[u]
      BY <1>2, <2>4 DEF Actors, AcksInv, CallInv
    <3> QED BY <1>2, <2>1, <2>2, <3>1 DEF AckInv, Rec
  <2> QED BY <2>3, <2>4
<1> QED BY <1>2, <1>4, <1>5 DEF AcksInv, FaultOnlyLate

\* SendOne and Cast: a message that asks for an acknowledgement is the only one under way.
LEMMA SendAcks ==
  ASSUME IInv, AcksInv, NEW t \in Tasks, SendOne(t) \/ Cast(t)
  PROVE  AcksInv'
<1>1. PICK s \in Slots : SendTo(t, s)
  BY NextAppliFound DEF SendOne, Cast, Goes, AcksInv, CallInv
<1> DEFINE x == table[s]
<1>2. /\ UNCHANGED <<rx, calls, fault, late, acked>> /\ pc[t] \in {"send", "cast"}
      /\ pc'[t] \in {"idle", "cast", "wait", "castwait"}
      /\ call[t].ack => pc'[t] \in {"wait", "castwait"}
      /\ pc'[t] \in {"cast", "castwait"} => pc[t] = "cast"
      /\ \A b \in Actors \ {t} : pc'[b] = pc[b] /\ slot'[b] = slot[b]
  BY <1>1 DEF SendOne, Cast, SendTo, Goes, IInv, TableInv, TypeOK, Actors
<1>3. x \in Names \cup {Unused, Booked}
  BY DEF IInv, TableInv, TypeOK
<1>4. /\ call' = [call EXCEPT ![t].sent = @ \cup {x}]
      /\ call'[t].sent = call[t].sent \cup {x}
      /\ call'[t].ack = call[t].ack /\ call'[t].id = call[t].id /\ call'[t].to = call[t].to
      /\ call'[t].res = call[t].res
      /\ \A u \in Tasks \ {t} : call'[u] = call[u]
  BY <1>1 DEF SendTo, AcksInv, CallInv
<1>5. CallInv'
  <2>1. call' \in [Tasks -> [to : Peers \cup {All, None}, ack : BOOLEAN, id : Nat,
                             sent : SUBSET (Names \cup {Unused, Booked}),
                             res : {None, "ok", "failed"}]]
    BY <1>3, <1>4 DEF AcksInv, CallInv
  <2>2. \A u \in Tasks : /\ pc'[u] = "send" => slot'[u] \in Slots
                         /\ pc'[u] \in {"send", "cast", "castwait"} => call'[u].to # None
                         /\ call'[u].res = "ok" => pc'[u] = "idle"
    BY <1>2, <1>4 DEF AcksInv, CallInv, Actors
  <2> QED BY <1>2, <2>1, <2>2 DEF AcksInv, CallInv
<1>6. ASSUME NEW u \in Tasks, u \notin late PROVE AckInv(u)'
  <2>1. AckInv(u) /\ (Waits(u)' <=> Waits(u))
    BY <1>2, <1>6 DEF AcksInv, Waits
  <2>2. CASE u = t
    <3>1. ~AtHost(t) /\ ~Waits(t) /\ t \notin given'
      BY <1>1, <1>2, <2>1, <2>2 DEF AckInv, SendTo
    <3>2. \A m \in inHost' : m.task = t => m = Rec(t, x) /\ call[t].ack /\ x \in Peers
      BY <1>1, <3>1 DEF SendTo, AtHost, Rec
    <3>3. ASSUME call[t].ack, ~stray' PROVE Rec(t, x) \in inHost' /\ ~stray
      <4>1. x \in Peers /\ ~stray
        BY <1>1, <1>2, <3>3, MMAssumption DEF SendTo, AcksInv, CallInv
      <4> QED BY <1>1, <3>3, <4>1 DEF SendTo, Rec
    <3>4. \A p : Rec(t, p)' = Rec(t, p)
      BY <1>4 DEF Rec
    <3>5. \A m \in inHost : m \in inHost'
      BY <1>1 DEF SendTo
    <3>6. call'[t].ack /\ ~stray' =>
            \A p \in call'[t].sent : Rec(t, p) \in acked' \/ Rec(t, p) \in inHost'
      BY <1>2, <1>4, <2>1, <2>2, <3>3, <3>5 DEF AckInv
    <3>7. AtHost(t)' => call[t].ack
      BY <3>2 DEF AtHost
    <3>8. ~Waits(t)' /\ \A i, j \in DOMAIN rx' : rx'[i].from = t /\ rx'[j].from = t => i = j
      BY <1>2, <2>1, <2>2, <3>1 DEF AckInv
    <3> QED BY <1>2, <2>2, <3>1, <3>2, <3>4, <3>6, <3>7, <3>8 DEF AckInv
  <2>3. CASE u # t
    <3>1. /\ \A m \in inHost' : m.task = u => m \in inHost
          /\ \A m \in inHost : m \in inHost'
      BY <1>1, <2>3 DEF SendTo
    <3>2. (AtHost(u)' <=> AtHost(u)) /\ (u \in given' <=> u \in given) /\ (stray => stray')
      BY <1>1, <2>3, <3>1 DEF SendTo, AtHost
    <3>3. pc'[u] = pc[u] /\ call'[u] = call[u]
      BY <1>2, <1>4, <2>3 DEF Actors
    <3>4. \A i, j \in DOMAIN rx' : rx'[i].from = u /\ rx'[j].from = u => i = j
      BY <1>2, <2>1 DEF AckInv
    <3> QED BY <1>2, <2>1, <3>1, <3>2, <3>3, <3>4, AckFrame
  <2> QED BY <2>2, <2>3
<1> QED BY <1>2, <1>5, <1>6 DEF AcksInv, FaultOnlyLate

LEMMA WaitAcks ==
  ASSUME IInv, AcksInv, NEW t \in Tasks, CastEnd(t) \/ Acked(t) \/ Timeout(t)
  PROVE  AcksInv'
<1>1. /\ UNCHANGED <<rx, calls, fault, inHost, acked, stray>> /\ late \subseteq late'
      /\ given' \in {given, given \ {t}}
      /\ pc[t] \in {"cast", "wait", "castwait"} /\ pc'[t] \in {"idle", "cast"}
      /\ pc'[t] = "cast" => pc[t] = "castwait"
      /\ \A b \in Actors \ {t} : pc'[b] = pc[b] /\ slot'[b] = slot[b]
      /\ t \notin late' => \/ pc[t] = "cast" /\ given' = given
                           \/ t \in given /\ given' = given \ {t}
  BY DEF CastEnd, Acked, Timeout, Goes, acks, IInv, TableInv, TypeOK, Actors
<1>2. /\ \E r \in {call[t].res, "ok", "failed"} : call' = [call EXCEPT ![t].res = r]
      /\ pc'[t] = "cast" => call' = call
  BY DEF CastEnd, Acked, Timeout, Goes, Returns, AcksInv, CallInv, IInv, TableInv, TypeOK,
     Actors
<1>3. /\ call'[t].sent = call[t].sent /\ call'[t].ack = call[t].ack
      /\ call'[t].id = call[t].id /\ call'[t].to = call[t].to
      /\ \A u \in Tasks \ {t} : call'[u] = call[u]
  BY <1>2 DEF AcksInv, CallInv
<1>4. CallInv'
  <2>1. call' \in [Tasks -> [to : Peers \cup {All, None}, ack : BOOLEAN, id : Nat,
                             sent : SUBSET (Names \cup {Unused, Booked}),
                             res : {None, "ok", "failed"}]]
    BY <1>2 DEF AcksInv, CallInv
  <2>2. \A u \in Tasks : /\ pc'[u] = "send" => slot'[u] \in Slots
                         /\ pc'[u] \in {"send", "cast", "castwait"} => call'[u].to # None
                         /\ call'[u].res = "ok" => pc'[u] = "idle"
    BY <1>1, <1>2, <1>3 DEF AcksInv, CallInv, Actors
  <2> QED BY <1>1, <2>1, <2>2 DEF AcksInv, CallInv
<1>5. ASSUME NEW u \in Tasks, u \notin late' PROVE AckInv(u)'
  <2>1. AckInv(u) /\ (Waits(u)' <=> Waits(u)) /\ (AtHost(u)' <=> AtHost(u))
    BY <1>1, <1>5 DEF AcksInv, Waits, AtHost
  <2>2. CASE u = t
    <3>1. ~AtHost(t) /\ ~Waits(t) /\ t \notin given'
      BY <1>1, <1>5, <2>1, <2>2 DEF AckInv
    <3>2. \A p : Rec(t, p)' = Rec(t, p)
      BY <1>3 DEF Rec
    <3> QED BY <1>1, <1>3, <2>1, <2>2, <3>1, <3>2 DEF AckInv
  <2>3. CASE u # t
    <3>1. pc'[u] = pc[u] /\ call'[u] = call[u] /\ (u \in given' <=> u \in given)
      BY <1>1, <1>3, <2>3 DEF Actors
    <3> QED BY <1>1, <2>1, <3>1 DEF AckInv, Rec
  <2> QED BY <2>2, <2>3
<1> QED BY <1>1, <1>4, <1>5 DEF AcksInv, FaultOnlyLate

\* Recv: the acknowledgement that is read belongs to a task that waits.
LEMMA RecvAcks ==
  ASSUME IInv, AcksInv, Recv
  PROVE  AcksInv'
<1> DEFINE m == Head(rx)
<1>1. /\ rx \in Seq(Messages) /\ rx # <<>> /\ rx' = Tail(rx) /\ m \in Messages
      /\ UNCHANGED <<call, calls, slot, late, inHost, acked, stray>>
      /\ \A t \in Tasks : pc'[t] = pc[t]
  BY MMAssumption DEF Recv, Goes, IInv, MsgInv, TableInv, TypeOK, Actors
<1>2. /\ Len(rx) \in Nat \ {0} /\ DOMAIN rx = 1 .. Len(rx) /\ m = rx[1] /\ 1 \in DOMAIN rx
      /\ DOMAIN rx' = 1 .. Len(rx) - 1
      /\ \A i \in DOMAIN rx' : i + 1 \in DOMAIN rx /\ i + 1 # 1 /\ rx'[i] = rx[i + 1]
  BY <1>1
<1>3. /\ m.from \in Tasks <=> m.info = "ack"
      /\ \/ /\ m.info # "ack" /\ UNCHANGED <<given, fault>>
         \/ /\ m.info = "ack" /\ pc[m.from] \in {"wait", "castwait"}
            /\ given' = given \cup {m.from} /\ UNCHANGED fault
         \/ /\ m.info = "ack" /\ pc[m.from] \notin {"wait", "castwait"}
            /\ fault' = TRUE /\ UNCHANGED given
  <2>1. m.from \in Tasks <=> m.info = "ack"
    BY <1>1, MMAssumption DEF Messages, Requests
  <2> QED BY <2>1 DEF Recv
<1>4. CallInv'
  BY <1>1 DEF AcksInv, CallInv
<1>5. ASSUME fault' PROVE late' # {}
  <2>1. CASE fault
    BY <1>1, <2>1 DEF AcksInv, FaultOnlyLate
  <2>2. CASE ~fault
    <3>1. m.from \in Tasks /\ pc[m.from] \notin {"wait", "castwait"}
      BY <1>3, <1>5, <2>2
    <3>2. Waits(m.from)
      BY <1>2 DEF Waits
    <3>3. m.from \in late
      BY <3>1, <3>2 DEF AcksInv, AckInv
    <3> QED BY <1>1, <3>3
  <2> QED BY <2>1, <2>2
<1>6. ASSUME NEW t \in Tasks, t \notin late PROVE AckInv(t)'
  <2>1. AckInv(t) /\ (AtHost(t)' <=> AtHost(t)) /\ (Waits(t)' => Waits(t))
    BY <1>1, <1>2, <1>6 DEF AcksInv, Waits, AtHost
  <2>2. t = m.from => Waits(t) /\ ~Waits(t)'
    BY <1>2, <2>1 DEF AckInv, Waits
  <2>3. t \in given' => t \in given \/ t = m.from
    BY <1>3
  <2>4. \A i, j \in DOMAIN rx' : rx'[i].from = t /\ rx'[j].from = t => i = j
    <3>1. ASSUME NEW i \in DOMAIN rx', NEW j \in DOMAIN rx', rx'[i].from = t, rx'[j].from = t
          PROVE  i + 1 = j + 1
      BY <1>2, <2>1, <3>1 DEF AckInv
    <3> QED BY <1>2, <3>1
  <2>5. \A p : Rec(t, p)' = Rec(t, p)
    BY <1>1 DEF Rec
  <2> QED BY <1>1, <2>1, <2>2, <2>3, <2>4, <2>5 DEF AckInv
<1> QED BY <1>1, <1>4, <1>5, <1>6 DEF AcksInv, FaultOnlyLate

LEMMA OtherAcks ==
  ASSUME IInv, AcksInv, UNCHANGED <<call, calls, given, late, inHost, acked, fault, stray>>,
         \A t \in Tasks : pc'[t] = pc[t] /\ slot'[t] = slot[t],
         \/ rx' = rx
         \/ \E p \in Peers, k \in Requests : rx' = Append(rx, [info |-> k, from |-> p])
  PROVE  AcksInv'
<1>1. rx \in Seq(Messages)
  BY DEF IInv, MsgInv
<1>2. ASSUME NEW t \in Tasks
      PROVE  /\ Waits(t)' <=> Waits(t)
             /\ \A i \in DOMAIN rx' : rx'[i].from = t => i \in DOMAIN rx /\ rx[i].from = t
  <2>1. CASE rx' = rx
    BY <2>1 DEF Waits
  <2>2. CASE rx' # rx
    <3>1. PICK p \in Peers, k \in Requests : rx' = Append(rx, [info |-> k, from |-> p])
      BY <2>2
    <3>2. [info |-> k, from |-> p] \in Messages /\ p # t
      BY MMAssumption DEF Messages
    <3>3. /\ DOMAIN rx' = DOMAIN rx \cup {Len(rx) + 1}
          /\ rx'[Len(rx) + 1].from = p /\ \A i \in DOMAIN rx : rx'[i] = rx[i]
      BY <1>1, <3>1, <3>2
    <3> QED BY <3>2, <3>3 DEF Waits
  <2> QED BY <2>1, <2>2
<1>3. CallInv'
  BY DEF AcksInv, CallInv
<1>4. ASSUME NEW t \in Tasks, t \notin late PROVE AckInv(t)'
  <2>1. AckInv(t) /\ (AtHost(t)' <=> AtHost(t))
    BY <1>4 DEF AcksInv, AtHost
  <2>2. \A i, j \in DOMAIN rx' : rx'[i].from = t /\ rx'[j].from = t => i = j
    BY <1>2, <2>1 DEF AckInv
  <2> QED BY <1>2, <2>1, <2>2 DEF AckInv, Rec
<1> QED BY <1>3, <1>4 DEF AcksInv, FaultOnlyLate

LEMMA HostAckAcks ==
  ASSUME IInv, AcksInv, NEW m \in inHost, HostAck(m)
  PROVE  AcksInv'
<1>1. /\ UNCHANGED <<pc, slot, call, calls, given, late, fault, stray>>
      /\ inHost' = inHost \ {m} /\ acked' = acked \cup {m} /\ m.task \in Tasks
      /\ rx' = Append(rx, [info |-> "ack", from |-> m.task]) /\ rx \in Seq(Messages)
  BY DEF HostAck, Post, IInv, TableInv, TypeOK, MsgInv
<1>2. [info |-> "ack", from |-> m.task] \in Messages
  BY <1>1 DEF Messages
<1>3. /\ DOMAIN rx' = DOMAIN rx \cup {Len(rx) + 1}
      /\ rx'[Len(rx) + 1].from = m.task /\ \A i \in DOMAIN rx : rx'[i] = rx[i]
  BY <1>1, <1>2
<1>4. CallInv'
  BY <1>1 DEF AcksInv, CallInv
<1>5. ASSUME NEW t \in Tasks, t \notin late PROVE AckInv(t)'
  <2>1. AckInv(t) /\ \A p : Rec(t, p)' = Rec(t, p)
    BY <1>1, <1>5 DEF AcksInv, Rec
  <2>2. CASE t = m.task
    <3>1. AtHost(t) /\ ~Waits(t) /\ t \notin given /\ pc[t] \in {"wait", "castwait"}
      BY <2>1, <2>2 DEF AckInv, AtHost
    <3>2. \A n \in inHost' : n.task # t
      BY <1>1, <2>1, <2>2 DEF AckInv
    <3>3. ~AtHost(t)'
      BY <3>2 DEF AtHost
    <3>4. \A i, j \in DOMAIN rx' : rx'[i].from = t /\ rx'[j].from = t => i = j
      BY <1>3, <3>1 DEF Waits
    <3>5. call'[t].ack /\ ~stray' => \A p \in call'[t].sent : Rec(t, p) \in acked'
      <4>1. \A n \in inHost : n.task = t => n = m
        BY <2>1, <2>2 DEF AckInv
      <4>2. \A p : Rec(t, p) \in inHost => Rec(t, p) = m
        BY <4>1 DEF Rec
      <4> QED BY <1>1, <2>1, <4>2 DEF AckInv
    <3>6. /\ pc'[t] \in {"wait", "castwait"} /\ t \notin given'
          /\ \A n, k \in inHost' : n.task = t /\ k.task = t => n = k
      BY <1>1, <3>1, <3>2
    <3>7. call'[t].ack /\ ~stray' =>
            \A p \in call'[t].sent : Rec(t, p)' \in acked' \/ Rec(t, p)' \in inHost'
      BY <2>1, <3>5
    <3> QED BY <3>3, <3>4, <3>6, <3>7 DEF AckInv
  <2>3. CASE t # m.task
    <3>1. (AtHost(t)' <=> AtHost(t)) /\ (Waits(t)' <=> Waits(t))
      BY <1>1, <1>3, <2>3 DEF AtHost, Waits
    <3>2. \A i, j \in DOMAIN rx' : rx'[i].from = t /\ rx'[j].from = t => i = j
      BY <1>3, <2>1, <2>3 DEF AckInv
    <3> QED BY <1>1, <2>1, <2>3, <3>1, <3>2, AckFrame
  <2> QED BY <2>2, <2>3
<1> QED BY <1>1, <1>4, <1>5 DEF AcksInv, FaultOnlyLate

LEMMA AcksStep ==
  ASSUME IInv, AcksInv, [Next]_vars
  PROVE  AcksInv'
<1>1. ASSUME Unreg \/ Status \/ Answer \/ Release \/ UNCHANGED vars PROVE AcksInv'
  <2>1. /\ UNCHANGED <<rx, call, calls, given, late, inHost, acked, fault, stray>>
        /\ \A t \in Tasks : pc'[t] = pc[t] /\ slot'[t] = slot[t]
    BY <1>1, MMAssumption DEF Unreg, Status, Answer, Release, vars, Locked, Goes, acks, IInv,
       TableInv, TypeOK, Actors
  <2> QED BY <2>1, OtherAcks
<1>2. ASSUME NEW p \in Peers, HostAsk(p) \/ HostAnswered(p) PROVE AcksInv'
  <2>1. /\ UNCHANGED <<pc, slot, call, calls, given, late, inHost, acked, fault, stray>>
        /\ \/ rx' = rx
           \/ \E k \in Requests : rx' = Append(rx, [info |-> k, from |-> p])
    BY <1>2 DEF HostAsk, Ask, HostAnswered, Post, acks, Requests
  <2> QED BY <2>1, OtherAcks
<1>3. ASSUME NEW t \in Tasks, Task(t) PROVE AcksInv'
  BY <1>3, SendAcks, WaitAcks DEF Task
<1> QED BY <1>1, <1>2, <1>3, RegAcks, CallAcks, RecvAcks, HostAckAcks DEF Next, Rx

\* A call that returns 0 has been acknowledged by every peer it was sent to, in whatever
\* order and however late they answer, as long as none of its task's calls has timed out;
\* a deleted semaphore is given only after a time-out.
THEOREM AcksReachTheirCall == Spec => []AcksMatch
<1>1. Init => IInv /\ AcksInv
  <2> SUFFICES ASSUME Init PROVE AcksInv
    BY Initially
  <2>1. CallInv
    BY DEF Init, CallInv, NoCall, None, Actors
  <2>2. FaultOnlyLate
    BY DEF Init, FaultOnlyLate
  <2>3. ASSUME NEW t \in Tasks PROVE AckInv(t)
    <3>1. inHost = {} /\ DOMAIN rx = {} /\ given = {} /\ call[t].sent = {}
      BY DEF Init, NoCall
    <3> QED BY <3>1 DEF AckInv, AtHost, Waits
  <2> QED BY <2>1, <2>2, <2>3 DEF AcksInv
<1>2. IInv /\ AcksInv /\ [Next]_vars => IInv' /\ AcksInv'
  BY Step, AcksStep
<1>3. AcksInv => AcksMatch
  <2> SUFFICES ASSUME AcksInv PROVE AckedBySent
    BY DEF AcksMatch, AcksInv
  <2>1. ASSUME NEW t \in Tasks, call[t].res = "ok", call[t].ack, t \notin late, ~stray,
               NEW p \in call[t].sent
        PROVE  Rec(t, p) \in acked
    <3>1. pc[t] = "idle" /\ AckInv(t)
      BY <2>1 DEF AcksInv, CallInv
    <3>2. ~AtHost(t) /\ Rec(t, p).task = t
      BY <3>1 DEF AckInv, Rec
    <3> QED BY <2>1, <3>1, <3>2 DEF AckInv, AtHost
  <2> QED BY <2>1 DEF AckedBySent, Rec
<1> QED BY <1>1, <1>2, <1>3, PTL DEF Spec
===============================================================================
