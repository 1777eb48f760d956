---------------------------- MODULE I2cService_proofs ----------------------------
(***************************************************************************)
(* Theorems about I2cService, for any number of tasks, ports and nodes,    *)
(* any length, row and depth of the FIFO.  The types hold always.  What    *)
(* follows holds until an open port leaves the list (lost): the list holds *)
(* the open ports, whose counts are the numbers of their users (ListInv,   *)
(* NodeInv, TaskInv); the semaphore of a port has at most one holder, and  *)
(* what the node and the controller hold is what the holder's control      *)
(* point says it is (PortInv), down to the bytes that have left and those  *)
(* that wait in the FIFO (Sent), and those that a read has received and is *)
(* still to receive (Received).  A time-out on a port keeps all of it but  *)
(* the bytes and the completion.                                           *)
(***************************************************************************)
EXTENDS I2cService, FiniteSetTheorems, TLAPS

-------------------------------------------------------------------------------
(* Types.                                                                  *)

\* Freed memory and a controller after its reset.
LEMMA FreeTypes == Free \in NodeRec /\ Free.pos <= Free.len /\ ResetReg \in CtlRec
<1>1. Free \in NodeRec /\ Free.pos <= Free.len
  BY I2cAssumption DEF Free, NodeRec
<1>2. ResetReg \in CtlRec
  BY I2cAssumption DEF ResetReg, CtlRec, Interrupts
<1> QED BY <1>1, <1>2

\* The bytes that go into the FIFO.
LEMMA FifoTypes ==
  ASSUME TypeCtl, NEW p \in Ports, NEW from \in Nat, NEW n \in Int
  PROVE  /\ InFifo(p, from, n) \in Seq(Nat)
         /\ Len(InFifo(p, from, n)) \in Nat
         /\ n >= 0 => Len(InFifo(p, from, n)) = Min2(n, Fifo - Len(ctl[p].fifo))
         /\ n >= 0 => Len(InFifo(p, from, n)) <= n
         /\ \A i \in 1 .. Len(InFifo(p, from, n)) : InFifo(p, from, n)[i] = from + i
         /\ ctl[p].fifo \o InFifo(p, from, n) \in Seq(Nat)
         /\ Len(ctl[p].fifo \o InFifo(p, from, n)) <= Fifo
         /\ Len(ctl[p].fifo \o InFifo(p, from, n))
              = Len(ctl[p].fifo) + Len(InFifo(p, from, n))
<1> DEFINE m == Min2(n, Fifo - Len(ctl[p].fifo))
           k == IF m < 0 THEN 0 ELSE m
<1>1. /\ ctl[p].fifo \in Seq(Nat) /\ Len(ctl[p].fifo) \in Nat /\ Fifo \in Nat
      /\ Len(ctl[p].fifo) <= Fifo
  BY I2cAssumption DEF TypeCtl, CtlRec
<1> DEFINE room == Fifo - Len(ctl[p].fifo)
<1>0. room \in Nat /\ m = Min2(n, room)
  BY <1>1
<1> HIDE DEF room
<1>2. /\ m \in Int /\ k \in Nat /\ k <= room
      /\ n >= 0 => k = m /\ k <= n
  <2>1. m \in Int /\ m <= room /\ (n >= 0 => m >= 0 /\ m <= n)
    BY <1>0 DEF Min2
  <2> HIDE DEF m
  <2> QED BY <1>0, <2>1
<1>a. 1 .. m = 1 .. k
  <2> HIDE DEF m
  <2> QED BY <1>2
<1>3. InFifo(p, from, n) = [i \in 1 .. m |-> from + i]
  BY DEF InFifo
<1>4. n >= 0 => k = Min2(n, Fifo - Len(ctl[p].fifo))
  BY <1>2
<1>b. k <= Fifo - Len(ctl[p].fifo)
  BY <1>2 DEF room
<1> HIDE DEF m, k
<1>5. InFifo(p, from, n) = [i \in 1 .. k |-> from + i]
  BY <1>a, <1>3
<1>6. /\ InFifo(p, from, n) \in Seq(Nat) /\ Len(InFifo(p, from, n)) = k
      /\ \A i \in 1 .. k : InFifo(p, from, n)[i] = from + i
  BY <1>2, <1>5
<1>7. /\ ctl[p].fifo \o InFifo(p, from, n) \in Seq(Nat)
      /\ Len(ctl[p].fifo \o InFifo(p, from, n)) = Len(ctl[p].fifo) + k
  <2>1. \A f, g \in Seq(Nat) : f \o g \in Seq(Nat) /\ Len(f \o g) = Len(f) + Len(g)
    OBVIOUS
  <2> QED BY <1>1, <1>6, <2>1
<1> HIDE DEF k
<1>8. Len(ctl[p].fifo) + k <= Fifo
  BY <1>1, <1>2, <1>b
<1> QED BY <1>2, <1>4, <1>6, <1>7, <1>8

\* What is taken from the receive FIFO is there, and the buffer has room for it.
LEMMA DrainedTypes ==
  ASSUME TypeNode, TypeCtl, NEW p \in Ports, NEW n \in Nodes
  PROVE  /\ Drained(p, n) \in Nat
         /\ Drained(p, n) <= node[n].len - node[n].pos
         /\ Drained(p, n) <= ctl[p].rx /\ ctl[p].rx - Drained(p, n) \in 0 .. RxFifo
<1>1. /\ node[n].pos \in Nat /\ node[n].len \in Nat /\ node[n].pos <= node[n].len
      /\ ctl[p].rx \in 0 .. RxFifo /\ RxFifo \in Nat
  BY I2cAssumption DEF TypeNode, TypeCtl, NodeRec, CtlRec
<1> QED BY <1>1 DEF Drained, Min2

\* The next chunk of a write is not empty and does not reach beyond the buffer.
LEMMA ChunkTypes ==
  ASSUME TypeTask, NEW t \in Tasks
  PROVE  /\ job[t] \in JobRec /\ job[t].wr \in Nat /\ job[t].len \in Nat \ {0}
         /\ Chunk(t) \in Nat \ {0} /\ job[t].wr + Chunk(t) <= job[t].len
         /\ job[t].wr + Chunk(t) # job[t].len => job[t].wr + Chunk(t) < job[t].len
<1>1. /\ job[t] \in JobRec /\ job[t].wr \in Nat /\ job[t].len \in Nat \ {0}
      /\ job[t].wr < job[t].len
  BY DEF TypeTask, JobRec
<1> QED BY <1>1, I2cAssumption DEF Chunk, Min2

\* The list, the nodes and the bits of memory.
LEMMA TypeNodeStep ==
  ASSUME TypeOK, [Next]_vars
  PROVE  TypeNode'
<1> USE I2cAssumption
<1>1. CASE UNCHANGED <<list, node>>
  BY <1>1 DEF TypeOK, TypeNode
<1>2. ASSUME NEW n \in Nodes, NEW r \in NodeRec, r.pos <= r.len,
             node' = [node EXCEPT ![n] = r], UNCHANGED list
      PROVE  TypeNode'
  BY <1>2 DEF TypeOK, TypeNode
<1>a. \A n \in Nodes : node[n].pos <= node[n].len
  BY DEF TypeOK, TypeNode
<1>3. ASSUME NEW t \in Tasks, Open(t)
      PROVE  TypeNode'
  <2> DEFINE p == use[t]
  <2>1. p \in Ports
    BY DEF TypeOK, TypeTask
  <2>2. CASE Found(p) # {}
    <3>1. PICK n \in Found(p) : node' = [node EXCEPT ![n].cnt = @ + 1] /\ UNCHANGED list
      BY <1>3, <2>2 DEF Open
    <3>2. n \in Nodes /\ node[n] \in NodeRec
      BY DEF Found, ToSet, TypeOK, TypeNode
    <3>3. /\ [node[n] EXCEPT !.cnt = @ + 1] \in NodeRec
          /\ [node[n] EXCEPT !.cnt = @ + 1].pos <= [node[n] EXCEPT !.cnt = @ + 1].len
      BY <1>a, <3>2 DEF NodeRec
    <3> QED BY <1>2, <3>1, <3>2, <3>3
  <2>3. CASE Found(p) = {}
    <3>1. PICK n \in Nodes :
            /\ node' = [node EXCEPT ![n] = [Free EXCEPT !.port = p, !.cnt = 1, !.sem = TRUE]]
            /\ list' = <<n>> \o list
      BY <1>3, <2>3 DEF Open
    <3>2. /\ [Free EXCEPT !.port = p, !.cnt = 1, !.sem = TRUE] \in NodeRec
          /\ [Free EXCEPT !.port = p, !.cnt = 1, !.sem = TRUE].pos
               <= [Free EXCEPT !.port = p, !.cnt = 1, !.sem = TRUE].len
      BY <2>1, FreeTypes DEF NodeRec
    <3>3. node' \in [Nodes -> NodeRec] /\ \A m \in Nodes : node'[m].pos <= node'[m].len
      BY <3>1, <3>2 DEF TypeOK, TypeNode
    <3>4. list' \in Seq(Nodes)
      BY <3>1 DEF TypeOK, TypeNode
    <3> QED BY <3>3, <3>4 DEF TypeNode
  <2> QED BY <2>2, <2>3
<1>4. ASSUME NEW t \in Tasks, Reset(t)
      PROVE  TypeNode'
  <2>1. CASE UNCHANGED <<node, list>>
    BY <2>1 DEF TypeOK, TypeNode
  <2>2. ASSUME NEW n \in Found(use[t]), node[n].cnt > 1,
               node' = [node EXCEPT ![n].cnt = @ - 1], UNCHANGED list
        PROVE  TypeNode'
    <3>1. n \in Nodes /\ node[n] \in NodeRec
      BY DEF Found, ToSet, TypeOK, TypeNode
    <3>2. node[n].cnt \in Nat
      BY <3>1 DEF NodeRec
    <3>3. /\ [node[n] EXCEPT !.cnt = @ - 1] \in NodeRec
          /\ [node[n] EXCEPT !.cnt = @ - 1].pos <= [node[n] EXCEPT !.cnt = @ - 1].len
      BY <1>a, <2>2, <3>1, <3>2 DEF NodeRec
    <3> QED BY <1>2, <2>2, <3>1, <3>3
  <2>3. ASSUME NEW n \in Found(use[t]), NEW i \in DOMAIN list,
               node' = [node EXCEPT ![n] = Free], list' = SubSeq(list, i + 1, Len(list))
        PROVE  TypeNode'
    <3>1. n \in Nodes
      BY DEF Found, ToSet, TypeOK, TypeNode
    <3>2. list' \in Seq(Nodes)
      BY <2>3 DEF TypeOK, TypeNode
    <3> QED BY <2>3, <3>1, <3>2, FreeTypes DEF TypeOK, TypeNode
  <2>4. ASSUME NEW n \in Found(use[t])
        PROVE  (CHOOSE i \in DOMAIN list : list[i] = n) \in DOMAIN list
    BY DEF Found, ToSet
  <2> QED BY <1>4, <2>1, <2>2, <2>3, <2>4 DEF Reset
<1>5. ASSUME NEW t \in Tasks, Transfer(t)
      PROVE  TypeNode'
  <2> DEFINE n == job[t].nd
  <2>1. /\ n \in Nodes /\ node[n] \in NodeRec /\ job[t].wr \in Nat /\ job[t].len \in Nat
        /\ node \in [Nodes -> NodeRec] /\ \A m \in Nodes : node[m].pos <= node[m].len
    BY DEF TypeOK, TypeNode, TypeTask, JobRec
  <2>2. CASE \/ TakeCom(t) \/ CheckWrite(t) \/ CheckRead(t) \/ StartRead(t) \/ SetMode(t)
             \/ EndCom(t)
    BY <1>1, <2>2 DEF TakeCom, CheckWrite, CheckRead, StartRead, SetMode, EndCom, mem
  <2>3. CASE TakePort(t)
    BY <2>1, <2>3 DEF TakePort, TypeNode, TypeOK, NodeRec
  <2>4. CASE Begin(t)
    <3> DEFINE h == [node[n] EXCEPT !.cur = t, !.pos = 0, !.len = 0]
    <3>1. h \in NodeRec
      BY <2>1 DEF NodeRec
    <3>2. h.pos = 0 /\ h.len = 0
      BY <2>1 DEF NodeRec
    <3>3. UNCHANGED list /\ (UNCHANGED node \/ node' = [node EXCEPT ![n] = h])
      BY <2>1, <2>4 DEF Begin
    <3> HIDE DEF h
    <3>4. h.pos <= h.len
      BY <3>2
    <3> QED BY <1>1, <1>2, <2>1, <3>1, <3>3, <3>4
  <2>5. CASE StartWrite(t)
    <3>1. use[t] \in Ports /\ Chunk(t) \in Nat
      BY ChunkTypes DEF TypeOK, TypeTask
    <3>2. /\ Len(InFifo(use[t], job[t].wr, Chunk(t))) \in Nat
          /\ Len(InFifo(use[t], job[t].wr, Chunk(t))) <= Chunk(t)
      BY <2>1, <3>1, FifoTypes DEF TypeOK
    <3> QED BY <2>1, <2>5, <3>1, <3>2 DEF StartWrite, TypeNode, TypeOK, NodeRec
  <2>6. ASSUME NEW addr \in BOOLEAN, StartAddress(t, addr)
        PROVE  TypeNode'
    <3> DEFINE h == [node[n] EXCEPT !.op = "read", !.buf = t, !.base = 0, !.len = job[t].len,
                                    !.pos = 0]
    <3>1. h \in NodeRec
      BY <2>1 DEF NodeRec
    <3>2. h.pos = 0 /\ h.len = job[t].len
      BY <2>1 DEF NodeRec
    <3>3. UNCHANGED list /\ node' = [node EXCEPT ![n] = h]
      BY <2>1, <2>6 DEF StartAddress
    <3> HIDE DEF h
    <3>4. h.pos <= h.len
      BY <2>1, <3>2
    <3> QED BY <1>2, <2>1, <3>1, <3>3, <3>4
  <2>7. CASE TakeDone(t)
    <3>1. node[n].done - 1 \in 0 .. DoneMax
      BY <2>1, <2>7 DEF TakeDone, NodeRec
    <3> QED BY <2>1, <2>7, <3>1 DEF TakeDone, TypeNode, TypeOK, NodeRec
  <2>8. CASE Timeout(t)
    BY <2>1, <2>8 DEF Timeout, TypeNode, TypeOK, NodeRec
  <2>9. CASE End(t)
    BY <2>1, <2>9 DEF End, TypeNode, TypeOK, NodeRec
  <2> QED BY <1>5, <2>2, <2>3, <2>4, <2>5, <2>6, <2>7, <2>8, <2>9 DEF Transfer
<1>6. ASSUME NEW p \in Ports, Irq(p)
      PROVE  TypeNode'
  <2>1. CASE UNCHANGED node
    BY <1>1, <1>6, <2>1 DEF Irq
  <2>2. ASSUME NEW n \in Found(p), Done(p, n) \/ WithoutStop(p, n) \/ Refill(p, n)
        PROVE  TypeNode'
    <3>0. /\ n \in Nodes /\ node[n] \in NodeRec
          /\ list' = list /\ node \in [Nodes -> NodeRec]
      BY <1>6 DEF Found, ToSet, TypeOK, TypeNode, Irq
    <3>1. /\ node[n].base \in Nat /\ node[n].pos \in Nat /\ node[n].len \in Nat
          /\ node[n].done \in 0 .. DoneMax
      BY <3>0 DEF NodeRec
    <3>2. CASE Done(p, n)
      <4> DEFINE d == Min2(node[n].done + 1, DoneMax)
                 k == node[n].pos + Drained(p, n)
      <4>1. d \in 0 .. DoneMax /\ k \in Nat /\ k <= node[n].len
        <5>1. d \in 0 .. DoneMax
          BY <3>1 DEF Min2
        <5>2. Drained(p, n) \in Nat /\ Drained(p, n) <= node[n].len - node[n].pos
          BY <3>0, DrainedTypes DEF TypeOK
        <5> QED BY <3>1, <5>1, <5>2
      <4>2. node' = [node EXCEPT ![n] = [node[n] EXCEPT !.done = d, !.pos = k]]
        BY <3>2 DEF Done
      <4> HIDE DEF d, k
      <4>3. /\ [node[n] EXCEPT !.done = d, !.pos = k] \in NodeRec
            /\ [node[n] EXCEPT !.done = d, !.pos = k].pos
                 <= [node[n] EXCEPT !.done = d, !.pos = k].len
        BY <3>0, <4>1 DEF NodeRec
      <4> QED BY <1>2, <3>0, <4>2, <4>3
    <3>3. CASE WithoutStop(p, n)
      BY <1>1, <3>0, <3>3 DEF WithoutStop
    <3>4. CASE Refill(p, n)
      <4> DEFINE k == Len(InFifo(p, node[n].base + node[n].pos, node[n].len - node[n].pos))
      <4>1. k \in Nat /\ k <= node[n].len - node[n].pos
        <5>1. /\ node[n].base + node[n].pos \in Nat
              /\ node[n].len - node[n].pos \in Int /\ node[n].len - node[n].pos >= 0
          BY <1>a, <3>0, <3>1
        <5> QED BY <5>1, FifoTypes DEF TypeOK
      <4>2. node' = [node EXCEPT ![n] = [node[n] EXCEPT !.pos = @ + k]]
        BY <3>4 DEF Refill
      <4> HIDE DEF k
      <4>3. /\ [node[n] EXCEPT !.pos = @ + k] \in NodeRec
            /\ [node[n] EXCEPT !.pos = @ + k].pos <= [node[n] EXCEPT !.pos = @ + k].len
        BY <3>0, <3>1, <4>1 DEF NodeRec
      <4> QED BY <1>2, <3>0, <4>2, <4>3
    <3> QED BY <2>2, <3>2, <3>3, <3>4
  <2> QED BY <1>6, <2>1, <2>2 DEF Irq
<1>7. ASSUME NEW t \in Tasks, LinkCom(t) \/ CallMode(t) \/
             \E k \in {"write", "read"}, l \in Lens \cup ReadLens : Call(t, k, l)
      PROVE  TypeNode'
  BY <1>1, <1>7 DEF LinkCom, CallMode, Call, mem
<1>8. ASSUME NEW p \in Ports, Bus(p)
      PROVE  TypeNode'
  BY <1>1, <1>8 DEF Bus, Shift, Receive, Abort, Hw, mem
<1>9. CASE UNCHANGED vars
  BY <1>1, <1>9 DEF vars
<1> QED BY <1>3, <1>4, <1>5, <1>6, <1>7, <1>8, <1>9 DEF Next, Task

\* The controllers and the bytes on the bus.
LEMMA TypeCtlStep ==
  ASSUME TypeOK, [Next]_vars
  PROVE  TypeCtl'
<1> USE I2cAssumption
<1>1. CASE UNCHANGED <<ctl, wire>>
  BY <1>1 DEF TypeOK, TypeCtl
<1>2. ASSUME NEW p \in Ports, NEW c \in CtlRec, Len(c.fifo) <= Fifo,
             ctl' = [ctl EXCEPT ![p] = c], UNCHANGED wire
      PROVE  TypeCtl'
  BY <1>2 DEF TypeOK, TypeCtl
<1>3. \A p \in Ports : /\ ctl[p] \in CtlRec /\ ctl[p].fifo \in Seq(Nat)
                       /\ Len(ctl[p].fifo) <= Fifo /\ ctl[p].left \in Nat
                       /\ ctl[p].raw \subseteq Interrupts /\ ctl[p].ims \subseteq Interrupts
                       /\ ctl[p].rx \in 0 .. RxFifo
  BY DEF TypeOK, TypeCtl, CtlRec
<1>4. ResetReg \in CtlRec /\ Len(ResetReg.fifo) <= Fifo /\ <<>> \in Seq(Nat) /\ Len(<<>>) <= Fifo
  BY FreeTypes DEF ResetReg
<1>5. ASSUME NEW t \in Tasks, Open(t) \/ Reset(t)
      PROVE  TypeCtl'
  <2>1. /\ wire' = wire /\ use[t] \in Ports
        /\ \/ ctl' = ctl
           \/ ctl' = [ctl EXCEPT ![use[t]] = ResetReg]
           \/ ctl' = [ctl EXCEPT ![use[t]] = [ResetReg EXCEPT !.om = ctl[use[t]].om]]
    BY <1>5 DEF Open, Reset, TypeOK, TypeTask
  <2>2. ctl[use[t]].om \in {"slave", "master"}
    BY <1>3, <2>1 DEF CtlRec
  <2>3. /\ [ResetReg EXCEPT !.om = ctl[use[t]].om] \in CtlRec
        /\ Len([ResetReg EXCEPT !.om = ctl[use[t]].om].fifo) <= Fifo
    BY <1>4, <2>2 DEF CtlRec, ResetReg
  <2> QED BY <1>1, <1>2, <1>4, <2>1, <2>3
<1>6. ASSUME NEW t \in Tasks, LinkCom(t) \/ CallMode(t) \/
             \E k \in {"write", "read"}, l \in Lens \cup ReadLens : Call(t, k, l)
      PROVE  TypeCtl'
  BY <1>1, <1>6 DEF LinkCom, CallMode, Call
<1>7. ASSUME NEW t \in Tasks, Transfer(t)
      PROVE  TypeCtl'
  <2> DEFINE p == use[t]
  <2>1. p \in Ports /\ ctl[p] \in CtlRec /\ ctl[p].fifo \in Seq(Nat) /\ Len(ctl[p].fifo) <= Fifo
    BY <1>3 DEF TypeOK, TypeTask
  <2>2. CASE \/ TakeCom(t) \/ TakePort(t) \/ CheckRead(t) \/ TakeDone(t) \/ Timeout(t)
             \/ EndCom(t)
    BY <1>1, <2>2 DEF TakeCom, TakePort, CheckRead, TakeDone, Timeout, EndCom
  <2>3. CASE SetMode(t)
    <3>1. /\ [ResetReg EXCEPT !.om = "master"] \in CtlRec
          /\ Len([ResetReg EXCEPT !.om = "master"].fifo) <= Fifo
      BY <1>4 DEF CtlRec, ResetReg
    <3> QED BY <1>1, <1>2, <2>1, <2>3, <3>1 DEF SetMode
  <2>4. CASE Begin(t)
    <3>1. [ctl[p] EXCEPT !.cfg = t, !.ims = {}, !.om = "master"] \in CtlRec
      BY <2>1 DEF CtlRec
    <3>2. CASE UNCHANGED <<ctl, wire>>
      BY <1>1, <3>2
    <3>3. CASE /\ wire' = [wire EXCEPT ![p] = <<>>]
               /\ \/ ctl' = ctl
                  \/ ctl' = [ctl EXCEPT ![p] = [ctl[p] EXCEPT !.cfg = t, !.ims = {},
                                                              !.om = "master"]]
      <4>1. wire' \in [Ports -> Seq(Nat)]
        <5>1. wire \in [Ports -> Seq(Nat)] /\ wire' = [wire EXCEPT ![p] = <<>>]
          BY <3>3 DEF TypeOK, TypeCtl
        <5> QED BY <1>4, <5>1
      <4>2. ctl' \in [Ports -> CtlRec] /\ \A q \in Ports : ctl'[q].fifo = ctl[q].fifo
        <5>1. /\ ctl \in [Ports -> CtlRec]
              /\ [ctl[p] EXCEPT !.cfg = t, !.ims = {}, !.om = "master"].fifo = ctl[p].fifo
          BY <2>1 DEF TypeOK, TypeCtl, CtlRec
        <5> QED BY <2>1, <3>1, <3>3, <5>1
      <4> QED BY <4>1, <4>2, <1>3 DEF TypeCtl
    <3> QED BY <2>4, <3>2, <3>3 DEF Begin
  <2>5. CASE StartWrite(t)
    <3>1. job[t].wr \in Nat /\ Chunk(t) \in Nat
      BY ChunkTypes DEF TypeOK
    <3> DEFINE f == ctl[p].fifo \o InFifo(p, job[t].wr, Chunk(t))
    <3>2. f \in Seq(Nat) /\ Len(f) <= Fifo
      <4>1. TypeCtl /\ Chunk(t) \in Int
        BY <3>1 DEF TypeOK
      <4> QED BY <2>1, <3>1, <4>1, FifoTypes
    <3> DEFINE c == [ctl[p] EXCEPT !.st = "busy", !.dir = "write", !.left = Chunk(t),
                                   !.fresh = TRUE, !.raw = {}, !.fifo = f]
    <3>3. ctl' = [ctl EXCEPT ![p] = c] /\ wire' = wire
      BY <2>5 DEF StartWrite
    <3> HIDE DEF f
    <3>4. c \in CtlRec /\ c.fifo = f
      BY <2>1, <3>1, <3>2 DEF CtlRec
    <3> QED BY <1>2, <2>1, <3>2, <3>3, <3>4
  <2>6. ASSUME NEW addr \in BOOLEAN, StartAddress(t, addr)
        PROVE  TypeCtl'
    <3> DEFINE c == [ctl[p] EXCEPT !.st = "busy", !.dir = "write", !.left = 0, !.fresh = TRUE]
    <3>1. c \in CtlRec /\ c.fifo = ctl[p].fifo
      BY <2>1 DEF CtlRec
    <3>2. wire' = wire /\ (ctl' = ctl \/ ctl' = [ctl EXCEPT ![p] = c])
      BY <2>6 DEF StartAddress
    <3> QED BY <1>1, <1>2, <2>1, <3>1, <3>2
  <2>7. CASE CheckWrite(t)
    <3>1. /\ [ctl[p] EXCEPT !.ims = {"tx", "berr", "done"}] \in CtlRec
          /\ [ctl[p] EXCEPT !.ims = {"tx", "berr", "done"}].fifo = ctl[p].fifo
      BY <2>1 DEF CtlRec, Interrupts
    <3>2. /\ [ResetReg EXCEPT !.cfg = t, !.om = "master", !.rx = ctl[p].rx] \in CtlRec
          /\ [ResetReg EXCEPT !.cfg = t, !.om = "master", !.rx = ctl[p].rx].fifo = <<>>
      BY <1>3, <1>4, <2>1 DEF CtlRec, ResetReg
    <3>3. /\ wire' = wire
          /\ \/ ctl' = ctl
             \/ ctl' = [ctl EXCEPT ![p] = [ctl[p] EXCEPT !.ims = {"tx", "berr", "done"}]]
             \/ ctl' = [ctl EXCEPT ![p] = [ResetReg EXCEPT !.cfg = t, !.om = "master", !.rx = ctl[p].rx]]
      BY <2>7 DEF CheckWrite, Listen
    <3> QED BY <1>1, <1>2, <1>4, <2>1, <3>1, <3>2, <3>3
  <2>8. CASE StartRead(t)
    <3> DEFINE c == [ctl[p] EXCEPT !.st = "busy", !.dir = "read", !.left = job[t].len,
                                   !.fresh = TRUE, !.raw = {}, !.ims = {"rx", "berr", "ws"}]
    <3>0. job[t].len \in Nat
      BY ChunkTypes DEF TypeOK
    <3>1. c \in CtlRec /\ c.fifo = ctl[p].fifo
      BY <2>1, <3>0 DEF CtlRec, Interrupts
    <3>2. wire' = wire /\ ctl' = [ctl EXCEPT ![p] = c]
      BY <2>8 DEF StartRead
    <3> QED BY <1>2, <2>1, <3>1, <3>2
  <2>9. CASE End(t)
    <3> DEFINE c == [ctl[p] EXCEPT !.raw = {}, !.ims = {}, !.fifo = <<>>, !.rx = 0]
    <3>0. 0 \in 0 .. RxFifo /\ <<>> \in Seq(Nat)
      BY I2cAssumption
    <3>1. c \in CtlRec /\ c.fifo = <<>>
      BY <2>1, <3>0 DEF CtlRec
    <3>2. wire' = wire /\ ctl' = [ctl EXCEPT ![p] = c]
      BY <2>9 DEF End
    <3> QED BY <1>2, <1>4, <2>1, <3>1, <3>2
  <2> QED BY <1>7, <2>2, <2>3, <2>4, <2>5, <2>6, <2>7, <2>8, <2>9 DEF Transfer
<1>8. ASSUME NEW p \in Ports, Irq(p)
      PROVE  TypeCtl'
  <2>0. ctl[p] \in CtlRec /\ ctl[p].fifo \in Seq(Nat) /\ Len(ctl[p].fifo) <= Fifo /\ wire' = wire
    BY <1>3, <1>8 DEF Irq
  <2>1. CASE UNCHANGED ctl
    BY <1>1, <2>0, <2>1
  <2>2. CASE Quiet(p)
    <3>1. /\ [ctl[p] EXCEPT !.ims = {}, !.raw = {}] \in CtlRec
          /\ [ctl[p] EXCEPT !.ims = {}, !.raw = {}].fifo = ctl[p].fifo
      BY <2>0 DEF CtlRec
    <3> QED BY <1>2, <2>0, <2>2, <3>1 DEF Quiet
  <2>5. ASSUME NEW n \in Found(p), Done(p, n)
        PROVE  TypeCtl'
    <3>1. PICK x : x = Drained(p, n)
      OBVIOUS
    <3>2. n \in Nodes
      BY DEF Found, ToSet, TypeOK, TypeNode
    <3>3. ctl[p].rx - x \in 0 .. RxFifo
      BY <3>1, <3>2, DrainedTypes DEF TypeOK
    <3>4. ctl' = [ctl EXCEPT ![p] = [ctl[p] EXCEPT !.ims = {}, !.raw = {}, !.rx = @ - x]]
      BY <2>5, <3>1 DEF Done
    <3>5. /\ [ctl[p] EXCEPT !.ims = {}, !.raw = {}, !.rx = @ - x] \in CtlRec
          /\ [ctl[p] EXCEPT !.ims = {}, !.raw = {}, !.rx = @ - x].fifo = ctl[p].fifo
      BY <2>0, <3>3 DEF CtlRec
    <3> QED BY <1>2, <2>0, <3>4, <3>5
  <2>3. ASSUME NEW n \in Found(p), WithoutStop(p, n)
        PROVE  TypeCtl'
    <3> DEFINE c == [ctl[p] EXCEPT !.ims = (@ \ {"ws"}) \cup {"done"}, !.raw = @ \ {"ws"}]
    <3>1. c \in CtlRec /\ c.fifo = ctl[p].fifo
      BY <1>3, <2>0 DEF CtlRec, Interrupts
    <3>2. ctl' = [ctl EXCEPT ![p] = c]
      BY <2>3 DEF WithoutStop
    <3> QED BY <1>2, <2>0, <3>1, <3>2
  <2>4. ASSUME NEW n \in Found(p), Refill(p, n)
        PROVE  TypeCtl'
    <3>1. n \in Nodes /\ node[n] \in NodeRec
      BY DEF Found, ToSet, TypeOK, TypeNode
    <3>2. node[n].base + node[n].pos \in Nat /\ node[n].len - node[n].pos \in Int
      BY <3>1 DEF NodeRec
    <3> DEFINE b == InFifo(p, node[n].base + node[n].pos, node[n].len - node[n].pos)
               f == ctl[p].fifo \o b
               m == IF node[n].pos + Len(b) = node[n].len
                    THEN (ctl[p].ims \ {"tx"}) \cup {"done"} ELSE ctl[p].ims
               c == [ctl[p] EXCEPT !.fifo = f, !.ims = m]
    <3>3. f \in Seq(Nat) /\ Len(f) <= Fifo
      BY <3>2, FifoTypes DEF TypeOK
    <3>4. m \subseteq Interrupts
      BY <1>3 DEF Interrupts
    <3>5. ctl' = [ctl EXCEPT ![p] = c]
      BY <2>4 DEF Refill
    <3> HIDE DEF f, m
    <3>6. c \in CtlRec /\ c.fifo = f
      BY <2>0, <3>3, <3>4 DEF CtlRec
    <3> QED BY <1>2, <2>0, <3>3, <3>5, <3>6
  <2> QED BY <1>8, <2>1, <2>2, <2>3, <2>4, <2>5 DEF Irq
<1>9. ASSUME NEW p \in Ports, Bus(p)
      PROVE  TypeCtl'
  <2> DEFINE d == ctl[p]
  <2>0. /\ d \in CtlRec /\ d.fifo \in Seq(Nat) /\ Len(d.fifo) <= Fifo /\ d.left \in Nat
        /\ d.raw \subseteq Interrupts /\ d.rx \in 0 .. RxFifo
    BY <1>3
  <2>1. CASE Shift(p)
    <3> DEFINE st == IF d.left = 1 THEN "idle" ELSE d.st
               raw == IF d.left = 1 THEN d.raw \cup {"done"} ELSE d.raw
               c == [d EXCEPT !.left = @ - 1, !.fifo = Tail(@), !.fresh = FALSE, !.st = st,
                              !.raw = raw]
    <3>1. /\ d.left - 1 \in Nat /\ d.fifo # <<>>
          /\ ctl' = [ctl EXCEPT ![p] = c] /\ wire' = [wire EXCEPT ![p] = Append(@, Head(d.fifo))]
      BY <2>0, <2>1 DEF Shift, Hw
    <3>2. Tail(d.fifo) \in Seq(Nat) /\ Len(Tail(d.fifo)) <= Fifo /\ Head(d.fifo) \in Nat
      <4>1. PICK f : f = d.fifo
        OBVIOUS
      <4>2. f \in Seq(Nat) /\ Len(f) <= Fifo /\ f # <<>>
        BY <2>0, <3>1, <4>1
      <4>3. Tail(f) \in Seq(Nat) /\ Len(Tail(f)) <= Fifo /\ Head(f) \in Nat
        BY <4>2, I2cAssumption
      <4> QED BY <4>1, <4>3
    <3>3. st \in {"idle", "busy", "abort"} /\ raw \subseteq Interrupts
      BY <2>0 DEF CtlRec, Interrupts
    <3>4. wire' \in [Ports -> Seq(Nat)]
      BY <3>1, <3>2 DEF TypeOK, TypeCtl
    <3> HIDE DEF st, raw
    <3>5. c \in CtlRec /\ c.fifo = Tail(d.fifo)
      BY <2>0, <3>1, <3>2, <3>3 DEF CtlRec
    <3>6. ctl' \in [Ports -> CtlRec] /\ \A q \in Ports : Len(ctl'[q].fifo) <= Fifo
      BY <3>1, <3>2, <3>5 DEF TypeOK, TypeCtl
    <3> QED BY <3>4, <3>6 DEF TypeCtl
  <2>2. CASE Receive(p)
    <3>1. PICK raw : raw = (IF d.left = 1 THEN d.raw \cup {"ws"} ELSE d.raw)
      OBVIOUS
    <3>2. /\ wire' = wire
          /\ \/ /\ d.left > 0 /\ d.rx < RxFifo
                /\ ctl' = [ctl EXCEPT ![p] = [d EXCEPT !.left = @ - 1, !.fresh = FALSE,
                                                       !.rx = @ + 1, !.raw = raw]]
             \/ ctl' = [ctl EXCEPT ![p] = [d EXCEPT !.st = "idle", !.raw = @ \cup {"done"}]]
      BY <2>2, <3>1 DEF Receive, Hw
    <3>3. raw \subseteq Interrupts
      BY <2>0, <3>1 DEF Interrupts
    <3>4. /\ [d EXCEPT !.st = "idle", !.raw = @ \cup {"done"}] \in CtlRec
          /\ [d EXCEPT !.st = "idle", !.raw = @ \cup {"done"}].fifo = d.fifo
      BY <2>0 DEF CtlRec, Interrupts
    <3>5. ASSUME d.left > 0, d.rx < RxFifo
          PROVE  /\ [d EXCEPT !.left = @ - 1, !.fresh = FALSE, !.rx = @ + 1, !.raw = raw] \in CtlRec
                 /\ [d EXCEPT !.left = @ - 1, !.fresh = FALSE, !.rx = @ + 1, !.raw = raw].fifo
                      = d.fifo
      <4>1. d.left - 1 \in Nat /\ d.rx + 1 \in 0 .. RxFifo
        BY <2>0, <3>5
      <4> QED BY <2>0, <3>3, <4>1 DEF CtlRec
    <3> QED BY <1>2, <2>0, <3>2, <3>4, <3>5
  <2>3. ASSUME NEW cause \in Causes, Abort(p, cause)
        PROVE  TypeCtl'
    <3> DEFINE raw == IF cause = "berr" THEN d.raw \cup {"berr"} ELSE d.raw
               c == [d EXCEPT !.st = "abort", !.cause = cause, !.raw = raw]
    <3>1. raw \subseteq Interrupts
      BY <2>0 DEF Interrupts
    <3>2. ctl' = [ctl EXCEPT ![p] = c] /\ wire' = wire
      BY <2>3 DEF Abort, Hw
    <3> HIDE DEF raw
    <3>3. c \in CtlRec /\ c.fifo = d.fifo
      BY <2>0, <3>1 DEF CtlRec
    <3> QED BY <1>2, <2>0, <3>2, <3>3
  <2> QED BY <1>9, <2>1, <2>2, <2>3 DEF Bus
<1>10. CASE UNCHANGED vars
  BY <1>1, <1>10 DEF vars
<1> QED BY <1>5, <1>6, <1>7, <1>8, <1>9, <1>10 DEF Next, Task


\* The tasks and their calls.
LEMMA TypeTaskStep ==
  ASSUME TypeOK, [Next]_vars
  PROVE  TypeTask'
<1> USE I2cAssumption
<1>1. ASSUME NEW t \in Tasks, NEW q \in Points, NEW j \in JobRec, j.wr < j.len,
             pc' = [pc EXCEPT ![t] = q], job' = [job EXCEPT ![t] = j] \/ job' = job,
             kept' \subseteq Tasks, com' \in [Tasks -> {"none", "linked", "made"}], use' = use
      PROVE  TypeTask'
  BY <1>1 DEF TypeOK, TypeTask
<1>2. CASE UNCHANGED <<use, com, kept, pc, job>>
  BY <1>2 DEF TypeOK, TypeTask
<1>3. /\ com \in [Tasks -> {"none", "linked", "made"}] /\ kept \subseteq Tasks /\ use \in Uses
      /\ \A t \in Tasks : job[t] \in JobRec /\ job[t].wr < job[t].len
  BY DEF TypeOK, TypeTask
<1>a. NoJob \in JobRec /\ NoJob.wr < NoJob.len
  BY DEF NoJob, JobRec
<1>4. ASSUME NEW t \in Tasks, Open(t) \/ Reset(t)
      PROVE  TypeTask'
  <2>1. /\ pc' = [pc EXCEPT ![t] = "idle"] \/ pc' = [pc EXCEPT ![t] = "closed"]
        /\ UNCHANGED <<use, com, kept, job>>
    BY <1>4 DEF Open, Reset, Goes
  <2> QED BY <1>1, <1>3, <2>1 DEF Points
<1>5. ASSUME NEW t \in Tasks, LinkCom(t) \/ EndCom(t)
      PROVE  TypeTask'
  <2>1. /\ pc' = [pc EXCEPT ![t] = "idle"] \/ pc' = [pc EXCEPT ![t] = "link"]
        /\ UNCHANGED <<use, kept, job>>
        /\ com' = [com EXCEPT ![t] = "linked"] \/ com' = [com EXCEPT ![t] = "made"]
    BY <1>5 DEF LinkCom, EndCom, Goes
  <2>2. com' \in [Tasks -> {"none", "linked", "made"}]
    BY <1>3, <2>1
  <2> QED BY <1>1, <1>3, <2>1, <2>2 DEF Points
<1>6. ASSUME NEW t \in Tasks, CallMode(t)
      PROVE  TypeTask'
  <2>1. PICK n \in Found(use[t]) : /\ pc' = [pc EXCEPT ![t] = "mode"]
                                   /\ job' = [job EXCEPT ![t] = [job[t] EXCEPT !.nd = n]]
                                   /\ UNCHANGED <<use, com, kept>>
    BY <1>6 DEF CallMode, Goes, mem
  <2>2. n \in Nodes
    BY DEF Found, ToSet, TypeOK, TypeNode
  <2>3. /\ [job[t] EXCEPT !.nd = n] \in JobRec
        /\ [job[t] EXCEPT !.nd = n].wr < [job[t] EXCEPT !.nd = n].len
    BY <1>3, <2>2 DEF JobRec
  <2> QED BY <1>1, <1>3, <2>1, <2>3 DEF Points
<1>7. ASSUME NEW t \in Tasks, NEW k \in {"write", "read"}, NEW l \in Lens \cup ReadLens, Call(t, k, l)
      PROVE  TypeTask'
  <2> DEFINE j == [NoJob EXCEPT !.kind = k, !.len = l]
  <2>1. NoJob \in JobRec /\ NoJob.wr = 0 /\ l \in Nat \ {0}
    BY DEF NoJob, JobRec
  <2>2. \A i \in JobRec : /\ [i EXCEPT !.kind = k, !.len = l] \in JobRec
                          /\ [i EXCEPT !.kind = k, !.len = l].len = l
                          /\ [i EXCEPT !.kind = k, !.len = l].wr = i.wr
    BY <2>1 DEF JobRec
  <2>a. j \in JobRec /\ j.len = l /\ j.wr = 0
    BY <2>1, <2>2
  <2>b. j.wr < j.len
    BY <2>1, <2>a
  <2>3. /\ pc' = [pc EXCEPT ![t] = "com"] /\ job' = [job EXCEPT ![t] = j]
        /\ UNCHANGED <<use, com, kept>>
    BY <1>7 DEF Call, Goes, mem
  <2> HIDE DEF j
  <2> QED BY <1>1, <1>3, <2>a, <2>b, <2>3 DEF Points
<1>8. ASSUME NEW t \in Tasks, Transfer(t)
      PROVE  TypeTask'
  <2>0. /\ job[t] \in JobRec /\ job[t].wr < job[t].len /\ job[t].wr \in Nat /\ job[t].len \in Nat
        /\ kept \cup {t} \subseteq Tasks
    BY <1>3 DEF JobRec
  <2>1. CASE TakeCom(t)
    <3>1. \A n \in Found(use[t]) : n \in Nodes
      BY DEF Found, ToSet, TypeOK, TypeNode
    <3>2. \A n \in Nodes : /\ [job[t] EXCEPT !.nd = n] \in JobRec
                           /\ [job[t] EXCEPT !.nd = n].wr < [job[t] EXCEPT !.nd = n].len
      BY <2>0 DEF JobRec
    <3>3. /\ \E q \in {"idle", "port"} : pc' = [pc EXCEPT ![t] = q]
          /\ \/ job' = [job EXCEPT ![t] = NoJob]
             \/ \E n \in Found(use[t]) : job' = [job EXCEPT ![t] = [job[t] EXCEPT !.nd = n]]
          /\ UNCHANGED <<use, com>> /\ kept' \subseteq Tasks
      BY <1>3, <2>1 DEF TakeCom, Goes, Return, mem
    <3> QED BY <1>1, <1>3, <1>a, <3>1, <3>2, <3>3 DEF Points
  <2>2. CASE TakePort(t) \/ Begin(t) \/ StartWrite(t) \/ StartRead(t) \/ End(t) \/ SetMode(t)
    <3>1. /\ UNCHANGED <<use, com>> /\ kept' \subseteq Tasks
          /\ job' = job \/ job' = [job EXCEPT ![t] = NoJob]
          /\ \E q \in {"begin", "idle", "start", "check", "wait"} : pc' = [pc EXCEPT ![t] = q]
      BY <1>3, <2>2 DEF TakePort, Begin, StartWrite, StartRead, End, SetMode, Goes, Return, mem
    <3> QED BY <1>1, <1>3, <1>a, <3>1 DEF Points
  <2>3. ASSUME NEW addr \in BOOLEAN, StartAddress(t, addr)
        PROVE  TypeTask'
    <3>1. /\ UNCHANGED <<use, com, job, kept>>
          /\ \E q \in {"check", "read"} : pc' = [pc EXCEPT ![t] = q]
      BY <2>3 DEF StartAddress, Goes
    <3> QED BY <1>1, <1>3, <3>1 DEF Points
  <2>4. CASE CheckWrite(t) \/ CheckRead(t)
    <3>1. /\ UNCHANGED <<use, com, kept>>
          /\ \E q \in {"wait", "start", "end", "read"} : pc' = [pc EXCEPT ![t] = q]
          /\ \/ job' = job
             \/ job' = [job EXCEPT ![t] = [job[t] EXCEPT !.found = TRUE]]
             \/ \E e \in {"fail", "refused", job[t].err} :
                   job' = [job EXCEPT ![t] = [job[t] EXCEPT !.err = e]]
      BY <2>4 DEF CheckWrite, CheckRead, Goes, mem
    <3>2. /\ [job[t] EXCEPT !.found = TRUE] \in JobRec
          /\ [job[t] EXCEPT !.found = TRUE].wr < [job[t] EXCEPT !.found = TRUE].len
      BY <2>0 DEF JobRec
    <3>3. \A e \in {"fail", "refused", job[t].err} :
            /\ [job[t] EXCEPT !.err = e] \in JobRec
            /\ [job[t] EXCEPT !.err = e].wr < [job[t] EXCEPT !.err = e].len
      BY <2>0 DEF JobRec
    <3> QED BY <1>1, <1>3, <3>1, <3>2, <3>3 DEF Points
  <2>5. CASE TakeDone(t) \/ Timeout(t)
    <3> DEFINE w == IF More(t) THEN job[t].wr + Chunk(t) ELSE job[t].wr
    <3>1. w \in Nat /\ w < job[t].len
      BY <2>0, ChunkTypes DEF More, TypeOK
    <3>2. /\ UNCHANGED <<use, com>> /\ kept' \subseteq Tasks
          /\ \E q \in {"idle", "start", "end"} : pc' = [pc EXCEPT ![t] = q]
          /\ \/ job' = [job EXCEPT ![t] = NoJob]
             \/ \E e \in {"aborted", job[t].err} :
                   job' = [job EXCEPT ![t] = [job[t] EXCEPT !.wr = w, !.err = e]]
      <4>1. CASE TakeDone(t)
        BY <1>3, <4>1 DEF TakeDone, Advance, Goes
      <4>2. CASE Timeout(t)
        <5>1. kept' \subseteq Tasks /\ UNCHANGED <<use, com>>
          BY <1>3, <4>2 DEF Timeout
        <5>2. \E q \in {"idle", "start", "end"} : pc' = [pc EXCEPT ![t] = q]
          BY <4>2 DEF Timeout, Goes
        <5>3. \/ job' = [job EXCEPT ![t] = NoJob]
              \/ \E e \in {"aborted", job[t].err} :
                    job' = [job EXCEPT ![t] = [job[t] EXCEPT !.wr = w, !.err = e]]
          <6>1. PICK e : e = IF ctl[use[t]].st = "abort" THEN "aborted" ELSE job[t].err
            OBVIOUS
          <6>2. Return(t) \/ Advance(t, e)
            BY <4>2, <6>1 DEF Timeout
          <6>3. Advance(t, e) =>
                  job' = [job EXCEPT ![t] = [job[t] EXCEPT !.wr = w, !.err = e]]
            BY DEF Advance
          <6> QED BY <6>1, <6>2, <6>3 DEF Return
        <5> QED BY <5>1, <5>2, <5>3
      <4> QED BY <2>5, <4>1, <4>2
    <3> HIDE DEF w
    <3>3. \A e \in {"aborted", job[t].err} :
            /\ [job[t] EXCEPT !.wr = w, !.err = e] \in JobRec
            /\ [job[t] EXCEPT !.wr = w, !.err = e].wr < [job[t] EXCEPT !.wr = w, !.err = e].len
      BY <2>0, <3>1 DEF JobRec
    <3> QED BY <1>1, <1>3, <1>a, <3>2, <3>3 DEF Points
  <2> QED BY <1>5, <1>8, <2>1, <2>2, <2>3, <2>4, <2>5 DEF Transfer
<1>9. ASSUME NEW p \in Ports, Irq(p) \/ Bus(p)
      PROVE  TypeTask'
  BY <1>2, <1>9 DEF Irq, Bus, Shift, Receive, Abort, Hw, mem
<1>10. CASE UNCHANGED vars
  BY <1>2, <1>10 DEF vars
<1> QED BY <1>4, <1>5, <1>6, <1>7, <1>8, <1>9, <1>10 DEF Next, Task

\* lost and fault are flags.
LEMMA TypeFlagStep ==
  ASSUME TypeOK, [Next]_vars
  PROVE  lost' \in BOOLEAN /\ fault' \in BOOLEAN
<1>1. lost \in BOOLEAN /\ fault \in BOOLEAN
  BY DEF TypeOK
<1>2. CASE UNCHANGED vars
  BY <1>1, <1>2 DEF vars
<1>3. ASSUME NEW t \in Tasks, Task(t)
      PROVE  lost' \in BOOLEAN /\ fault' \in BOOLEAN
  <2>1. CASE Reset(t)
    <3>1. fault' = fault
      BY <2>1 DEF Reset
    <3>2. CASE lost' = lost
      BY <1>1, <3>1, <3>2
    <3>3. CASE \E i \in DOMAIN list : lost' = (lost \/ i > 1)
      BY <1>1, <3>1, <3>3, Zenon
    <3>4. \A n \in Found(use[t]) : (CHOOSE i \in DOMAIN list : list[i] = n) \in DOMAIN list
      BY DEF Found, ToSet
    <3> QED BY <2>1, <3>2, <3>3, <3>4, Zenon DEF Reset
  <2>2. CASE TakePort(t)
    <3>1. PICK b \in BOOLEAN : fault' = b
      BY <2>2, Zenon DEF TakePort
    <3> QED BY <1>1, <2>2, <3>1, Zenon DEF TakePort
  <2>3. CASE LinkCom(t)
    <3>1. (\E u \in Tasks : com[u] = "linked") \in BOOLEAN
      OBVIOUS
    <3> QED BY <1>1, <2>3, <3>1, Zenon DEF LinkCom
  <2>4. CASE UNCHANGED <<lost, fault>>
    BY <1>1, <2>4
  <2>5. \/ Reset(t) \/ TakePort(t) \/ LinkCom(t) \/ UNCHANGED <<lost, fault>>
    BY <1>3 DEF Task, Transfer, Open, CallMode, Call, TakeCom, Begin, StartWrite, StartAddress,
       CheckWrite, CheckRead, StartRead, TakeDone, Timeout, End, SetMode, EndCom, mem
  <2> QED BY <2>1, <2>2, <2>3, <2>4, <2>5
<1>4. ASSUME NEW p \in Ports, Irq(p) \/ Bus(p)
      PROVE  lost' \in BOOLEAN /\ fault' \in BOOLEAN
  <2>1. CASE Bus(p)
    BY <1>1, <2>1 DEF Bus, Shift, Receive, Abort, Hw, mem
  <2>2. CASE Irq(p)
    <3>1. (Found(p) = {}) \in BOOLEAN
      OBVIOUS
    <3> QED BY <1>1, <2>2, <3>1, Zenon DEF Irq
  <2> QED BY <1>4, <2>1, <2>2
<1> QED BY <1>2, <1>3, <1>4 DEF Next

\* The variables keep their types: the counts of the nodes, done_sem, the FIFO and what is
\* left of a chunk stay in their ranges, and a write never goes beyond its buffer.
LEMMA Typed == Spec => []TypeOK
<1>1. ASSUME Init PROVE TypeOK
  <2>1. TypeNode
    BY <1>1, FreeTypes DEF Init, TypeNode
  <2>2. TypeCtl
    <3>1. Len(ResetReg.fifo) <= Fifo /\ <<>> \in Seq(Nat)
      BY I2cAssumption DEF ResetReg
    <3> QED BY <1>1, <3>1, FreeTypes DEF Init, TypeCtl
  <2>3. TypeTask
    <3>1. NoJob \in JobRec /\ NoJob.wr < NoJob.len
      BY I2cAssumption DEF NoJob, JobRec
    <3> QED BY <1>1, <3>1, I2cAssumption DEF Init, TypeTask, Points
  <2> QED BY <1>1, <2>1, <2>2, <2>3 DEF Init, TypeOK
<1>2. TypeOK /\ [Next]_vars => TypeOK'
  BY TypeNodeStep, TypeCtlStep, TypeTaskStep, TypeFlagStep DEF TypeOK
<1> QED BY <1>1, <1>2, PTL DEF Spec

-------------------------------------------------------------------------------
(* The invariant.  It holds until an open port leaves the list (lost, which *)
(* is never taken back).                                                   *)

Users(p) == {t \in Tasks : use[t] = p /\ pc[t] # "closed"}
On(n)    == {t \in Tasks : use[t] = node[n].port}
Bound(t) == pc[t] \in {"mode", "port"} \/ Holds(t)

\* The list holds the ports that are open, each once.
ListInv == /\ \A i, k \in DOMAIN list : list[i] = list[k] => i = k
           /\ ToSet(list) = {n \in Nodes : node[n].cnt # 0}

\* One node per open port, which counts the tasks that have opened it.
NodeInv == \A n \in Nodes :
  /\ node[n].cnt = 0 => node[n] = Free
  /\ node[n].cnt # 0 => /\ node[n].port \in Ports
                        /\ node[n].cnt = Cardinality(Users(node[n].port))
                        /\ \A m \in Nodes : node[m].port = node[n].port => m = n

\* A task that has opened its port finds it, and remembers that node while it waits for
\* the port's semaphore and while it holds it.
TaskInv == \A t \in Tasks :
  /\ pc[t] # "closed" => \E n \in Nodes : node[n].port = use[t]
  /\ Bound(t) => node[job[t].nd].port = use[t]
  /\ pc[t] \in {"com", "port", "begin"} => job[t].wr = 0

\* l bytes of the buffer have left (w), k have left or are in the FIFO (f), all in order.
Sent(w, f, k, l) == /\ \A i \in 1 .. Len(w) : w[i] = i
                    /\ \A i \in 1 .. Len(f) : f[i] = Len(w) + i
                    /\ Len(w) = l /\ Len(w) + Len(f) = k

\* The controller c sends the chunk of the call j that the node h describes.
Started(h, c, w, j) ==
  /\ h.op = "write" /\ h.base = j.wr /\ h.len = Min2(j.len - j.wr, Row) /\ h.pos <= h.len
  /\ c.dir = "write" /\ c.left <= h.len
  /\ Sent(w, c.fifo, h.base + h.pos, h.base + h.len - c.left)
  /\ c.fresh => c.left = h.len
  /\ "done" \in c.raw => c.left = 0
  /\ h.done # 0 => c.left = 0
  /\ c.st = "abort" /\ c.cause = "nack" => c.fresh
Writes(h, c, w, q, j) ==
  /\ q = "start" => Sent(w, c.fifo, j.wr, j.wr)
  /\ q \in {"check", "wait"} => Started(h, c, w, j)
  /\ q # "read"
  /\ q = "end" /\ j.err = "ok" => Sent(w, c.fifo, j.len, j.len)
\* The controller c receives the bytes of the call j into the buffer the node h describes:
\* until done_sem is given they are all in the receive FIFO or still to come.
Received(h, c, j) ==
  /\ c.dir = "read"
  /\ h.done # 0 => h.pos = j.len /\ c.rx = 0 /\ c.st # "busy"
  /\ h.done = 0 => h.pos = 0 /\ c.rx + c.left = j.len
  /\ "done" \in c.raw => c.left = 0 /\ c.st # "busy"
Reads(h, c, q, j) ==
  /\ c.fifo = <<>>
  /\ q \in {"check", "read", "wait"} => h.op = "read" /\ h.len = j.len
  /\ q \in {"check", "read"} => h.pos = 0
  /\ q = "wait" => Received(h, c, j)
  /\ q = "end" /\ j.err = "ok" => h.pos = j.len
\* No byte of a read is in the receive FIFO or can still come.
Resting(c) == c.rx = 0 /\ (c.st = "busy" => c.dir = "write")

\* A port (node h, controller c): no interrupt is enabled and the FIFO is empty while the
\* semaphore is free, the com that is remembered is the one the controller is configured
\* for, and done_sem is given once, by an interrupt that disables all.
PortOk(h, c) ==
  /\ h.sem => c.ims = {} /\ c.fifo = <<>>
  /\ h.sem /\ ~h.late => Resting(c)
  /\ h.cur # NoTask => c.cfg = h.cur /\ c.om = "master"
  /\ ~h.late /\ h.done # 0 => h.done = 1 /\ c.ims = {}
\* The task t that holds the port, at the point q of the call j, w on the bus.
TaskOk(h, c, w, t, q, j) ==
  /\ h.sem = FALSE
  /\ q # "begin" => h.cur = t
  /\ q \in {"check", "read", "wait", "end"} => h.buf = t
  /\ c.ims # {} => q # "begin" /\ h.buf = t
  /\ ~h.late => /\ q # "wait" => c.ims = {} /\ h.done = 0
                /\ q # "wait" \/ j.kind = "write" => Resting(c)
                /\ q = "begin" => c.fifo = <<>>
                /\ q # "begin" /\ j.kind = "write" => Writes(h, c, w, q, j)
                /\ j.kind = "read" => Reads(h, c, q, j)
\* Interrupts are enabled for the holder, or for a write that ended with -EIO.
Held(n) == LET c == ctl[node[n].port] IN
  /\ c.ims # {} => \E t \in On(n) : Holds(t) \/ t \in kept
  /\ ~node[n].late /\ (c.ims # {} \/ node[n].done # 0) => \E t \in On(n) : Holds(t)
PortInv(n) == LET p == node[n].port IN
  /\ PortOk(node[n], ctl[p])
  /\ \A t \in On(n) : Holds(t) => TaskOk(node[n], ctl[p], wire[p], t, pc[t], job[t])
  /\ \A t, u \in On(n) : Holds(t) /\ Holds(u) => t = u
  /\ Held(n)
OpenInv == /\ \A n \in Nodes : node[n].cnt # 0 => PortInv(n)
           /\ \A p \in Ports : ctl[p].ims # {} => \E n \in Nodes : node[n].port = p
Struct == ListInv /\ NodeInv /\ TaskInv
IInv == ~lost => Struct /\ OpenInv

-------------------------------------------------------------------------------
(* Bytes.                                                                  *)

\* Nothing has been put into the FIFO.
LEMMA SentNothing == Sent(<<>>, <<>>, 0, 0)
BY DEF Sent

\* A byte leaves the FIFO.
LEMMA SentShift ==
  ASSUME NEW w \in Seq(Nat), NEW f \in Seq(Nat), NEW k \in Nat, NEW l \in Nat,
         Sent(w, f, k, l), f # <<>>
  PROVE  Sent(Append(w, Head(f)), Tail(f), k, l + 1)
<1>1. Len(w) \in Nat /\ Len(f) \in Nat \ {0} /\ Head(f) = f[1] /\ f[1] \in Nat
  OBVIOUS
<1>2. /\ Len(Append(w, Head(f))) = Len(w) + 1
      /\ \A i \in 1 .. Len(w) : Append(w, Head(f))[i] = w[i]
      /\ Append(w, Head(f))[Len(w) + 1] = f[1]
  BY <1>1
<1>3. Len(Tail(f)) = Len(f) - 1 /\ \A i \in 1 .. Len(f) - 1 : Tail(f)[i] = f[i + 1]
  BY <1>1
<1>4. /\ \A i \in 1 .. Len(w) : w[i] = i
      /\ \A i \in 1 .. Len(f) : f[i] = Len(w) + i
      /\ Len(w) = l /\ Len(w) + Len(f) = k
  BY DEF Sent
<1>5. \A i \in 1 .. Len(w) + 1 : Append(w, Head(f))[i] = i
  <2>1. f[1] = Len(w) + 1
    BY <1>1, <1>4
  <2> QED BY <1>1, <1>2, <1>4, <2>1
<1>6. \A i \in 1 .. Len(f) - 1 : Tail(f)[i] = Len(w) + 1 + i
  <2> TAKE i \in 1 .. Len(f) - 1
  <2>1. i + 1 \in 1 .. Len(f)
    BY <1>1
  <2> QED BY <1>1, <1>3, <1>4, <2>1
<1>7. l + 1 = Len(w) + 1 /\ Len(w) + 1 + (Len(f) - 1) = k
  BY <1>1, <1>4
<1> QED BY <1>2, <1>3, <1>5, <1>6, <1>7 DEF Sent

\* Bytes enter the FIFO.
LEMMA SentFill ==
  ASSUME NEW w \in Seq(Nat), NEW f \in Seq(Nat), NEW b \in Seq(Nat), NEW k \in Nat,
         NEW l \in Nat, Sent(w, f, k, l), \A i \in 1 .. Len(b) : b[i] = k + i
  PROVE  Sent(w, f \o b, k + Len(b), l)
<1>1. Len(w) \in Nat /\ Len(f) \in Nat /\ Len(b) \in Nat
  OBVIOUS
<1>2. /\ Len(f \o b) = Len(f) + Len(b)
      /\ \A i \in 1 .. Len(f) : (f \o b)[i] = f[i]
      /\ \A i \in 1 .. Len(b) : (f \o b)[Len(f) + i] = b[i]
  OBVIOUS
<1>a. /\ \A i \in 1 .. Len(w) : w[i] = i
      /\ \A i \in 1 .. Len(f) : f[i] = Len(w) + i
      /\ Len(w) = l /\ Len(w) + Len(f) = k
  BY DEF Sent
<1>b. \A x, y, z \in Nat : x + y = k => x + (y + z) = k + z
  OBVIOUS
<1>3. ASSUME NEW i \in 1 .. Len(f \o b) PROVE (f \o b)[i] = Len(w) + i
  <2>1. CASE i <= Len(f)
    BY <1>1, <1>2, <1>a, <2>1
  <2>2. CASE i > Len(f)
    <3>1. PICK k1 \in 1 .. Len(b) : i = Len(f) + k1
      <4>1. i - Len(f) \in 1 .. Len(b) /\ Len(f) + (i - Len(f)) = i
        BY <1>1, <1>2, <2>2
      <4> QED BY <4>1
    <3>2. (f \o b)[i] = b[k1] /\ b[k1] = k + k1
      BY <1>2, <3>1
    <3>3. Len(w) + (Len(f) + k1) = k + k1
      <4>1. k1 \in Nat
        BY <1>1, <3>1
      <4> QED BY <1>1, <1>a, <1>b, <4>1
    <3> QED BY <3>1, <3>2, <3>3
  <2> QED BY <1>1, <1>2, <2>1, <2>2
<1>4. Len(w) + Len(f \o b) = k + Len(b)
  <2>1. Len(w) + (Len(f) + Len(b)) = k + Len(b)
    BY <1>1, <1>a, <1>b
  <2> QED BY <1>2, <2>1
<1> QED BY <1>3, <1>4, <1>a DEF Sent

\* When everything that was put into the FIFO has left, it is empty.
LEMMA SentAll ==
  ASSUME NEW w \in Seq(Nat), NEW f \in Seq(Nat), NEW k \in Nat, NEW l \in Nat,
         Sent(w, f, k, l), k <= l
  PROVE  k = l /\ f = <<>>
<1>1. Len(w) \in Nat /\ Len(f) \in Nat
  OBVIOUS
<1> QED BY <1>1 DEF Sent

\* The FIFO is flushed.
LEMMA SentFlush ==
  ASSUME NEW w \in Seq(Nat), NEW f, NEW k, NEW l \in Nat, Sent(w, f, k, l)
  PROVE  Sent(w, <<>>, l, l)
BY DEF Sent

-------------------------------------------------------------------------------
(* Steps that work on one port.                                            *)

\* The step works on the port of node n and on the tasks of that port alone.
Local(n) ==
  /\ UNCHANGED <<use, list>> /\ kept \subseteq kept'
  /\ \A m \in Nodes \ {n} : node'[m] = node[m]
  /\ node'[n].port = node[n].port /\ node'[n].cnt = node[n].cnt
  /\ \A q \in Ports \ {node[n].port} : ctl'[q] = ctl[q] /\ wire'[q] = wire[q]
  /\ \A t \in Tasks : use[t] # node[n].port => pc'[t] = pc[t] /\ job'[t] = job[t]
  /\ \A t \in Tasks : pc'[t] = "closed" <=> pc[t] = "closed"
  /\ \A t \in On(n) : /\ Bound(t)' => job'[t].nd = n
                      /\ pc'[t] \in {"com", "port", "begin"} => job'[t].wr = 0

\* Nothing changes for a port that the step does not work on.
LEMMA PortFrame ==
  ASSUME NEW m \in Nodes, NEW p, p = node[m].port, use' = use, kept \subseteq kept',
         node'[m] = node[m], ctl'[p] = ctl[p], wire'[p] = wire[p],
         \A t \in Tasks : use[t] = p => pc'[t] = pc[t] /\ job'[t] = job[t],
         PortInv(m)
  PROVE  PortInv(m)'
<1>1. On(m)' = On(m) /\ \A t \in On(m) : t \in Tasks /\ use[t] = p
  BY DEF On
<1>2. \A t \in On(m) : pc'[t] = pc[t] /\ job'[t] = job[t] /\ (Holds(t)' <=> Holds(t))
  BY <1>1 DEF Holds
<1>3. PortOk(node'[m], ctl'[p])
  BY DEF PortInv
<1>4. \A t \in On(m) : Holds(t)' => TaskOk(node'[m], ctl'[p], wire'[p], t, pc'[t], job'[t])
  BY <1>2 DEF PortInv
<1>5. \A t, u \in On(m) : Holds(t)' /\ Holds(u)' => t = u
  BY <1>2 DEF PortInv
<1>6. Held(m)'
  BY <1>1, <1>2 DEF PortInv, Held
<1>7. p = node'[m].port
  OBVIOUS
<1> QED BY <1>1, <1>3, <1>4, <1>5, <1>6, <1>7 DEF PortInv

\* The list, the counts of the nodes and the nodes the tasks remember.
LEMMA LocalStruct ==
  ASSUME TypeOK, Struct, NEW n \in Nodes, node[n].cnt # 0, Local(n)
  PROVE  Struct'
<1>1. \A m \in Nodes : node'[m].port = node[m].port /\ node'[m].cnt = node[m].cnt
  BY DEF Local
<1>2. ListInv'
  BY <1>1 DEF Struct, ListInv, Local
<1>3. NodeInv'
  <2> SUFFICES ASSUME NEW m \in Nodes
               PROVE  /\ node'[m].cnt = 0 => node'[m] = Free
                      /\ node'[m].cnt # 0 =>
                           /\ node'[m].port \in Ports
                           /\ node'[m].cnt = Cardinality({t \in Tasks : /\ use'[t] = node'[m].port
                                                                       /\ pc'[t] # "closed"})
                           /\ \A k \in Nodes : node'[k].port = node'[m].port => k = m
    BY DEF NodeInv, Users
  <2>1. \A p : {t \in Tasks : use'[t] = p /\ pc'[t] # "closed"} = Users(p)
    BY DEF Users, Local
  <2>2. node'[m].cnt = 0 => node'[m] = Free
    BY <1>1 DEF Struct, NodeInv, Local
  <2> QED BY <1>1, <2>1, <2>2 DEF Struct, NodeInv
<1>4. TaskInv'
  <2> SUFFICES ASSUME NEW t \in Tasks
               PROVE  /\ pc'[t] # "closed" => \E m \in Nodes : node'[m].port = use'[t]
                      /\ Bound(t)' => node'[job'[t].nd].port = use'[t]
                      /\ pc'[t] \in {"com", "port", "begin"} => job'[t].wr = 0
    BY DEF TaskInv
  <2>1. use'[t] = use[t] /\ (pc'[t] = "closed" <=> pc[t] = "closed")
    BY DEF Local
  <2>2. pc'[t] # "closed" => \E m \in Nodes : node'[m].port = use'[t]
    BY <1>1, <2>1 DEF Struct, TaskInv
  <2>3. CASE use[t] = node[n].port
    <3>1. t \in On(n) /\ node'[n].port = use'[t]
      BY <1>1, <2>1, <2>3 DEF On
    <3> QED BY <2>2, <3>1 DEF Local
  <2>4. CASE use[t] # node[n].port
    <3>1. pc'[t] = pc[t] /\ job'[t] = job[t] /\ (Bound(t)' <=> Bound(t))
      BY <2>4 DEF Local, Bound, Holds
    <3>2. Bound(t) => node[job[t].nd].port = use[t]
      BY DEF Struct, TaskInv
    <3>3. \A m \in Nodes : node'[m].port = node[m].port
      BY <1>1
    <3>4. node'[job[t].nd].port = node[job[t].nd].port \/ job[t].nd \notin Nodes
      BY <3>3
    <3>5. Bound(t) => job[t].nd \in Nodes
      BY DEF TypeOK, TypeTask, JobRec
    <3> QED BY <2>1, <2>2, <3>1, <3>2, <3>4, <3>5 DEF Struct, TaskInv
  <2> QED BY <2>3, <2>4
<1> QED BY <1>2, <1>3, <1>4 DEF Struct

\* A step on one port keeps the invariant when it keeps that port's.
LEMMA LocalStep ==
  ASSUME TypeOK, Struct, OpenInv, NEW n \in Nodes, node[n].cnt # 0, Local(n), PortInv(n)'
  PROVE  Struct' /\ OpenInv'
<1>1. Struct'
  BY LocalStruct
<1>2. \A m \in Nodes : node'[m].port = node[m].port /\ node'[m].cnt = node[m].cnt
  BY DEF Local
<1>3. ASSUME NEW m \in Nodes, node'[m].cnt # 0, m # n
      PROVE  PortInv(m)'
  <2> DEFINE p == node[m].port
  <2>1. p \in Ports /\ p # node[n].port
    BY <1>2, <1>3 DEF Struct, NodeInv
  <2>2. /\ node'[m] = node[m] /\ ctl'[p] = ctl[p] /\ wire'[p] = wire[p] /\ use' = use
        /\ kept \subseteq kept'
        /\ \A t \in Tasks : use[t] = p => pc'[t] = pc[t] /\ job'[t] = job[t]
    BY <1>3, <2>1 DEF Local
  <2>3. PortInv(m)
    BY <1>2, <1>3 DEF OpenInv
  <2> QED BY <2>2, <2>3, PortFrame
<1>4. ASSUME NEW p \in Ports, ctl'[p].ims # {}
      PROVE  \E m \in Nodes : node'[m].port = p
  <2>1. CASE p = node[n].port
    BY <1>2, <2>1
  <2>2. CASE p # node[n].port
    <3>1. ctl'[p] = ctl[p]
      BY <2>2 DEF Local
    <3> QED BY <1>2, <1>4, <3>1 DEF OpenInv
  <2> QED BY <2>1, <2>2
<1> QED BY <1>1, <1>3, <1>4 DEF OpenInv

\* The node of a port that is open.
LEMMA Opened ==
  ASSUME TypeOK, Struct, OpenInv, NEW p \in Ports, NEW n \in Nodes, node[n].port = p
  PROVE  /\ node[n].cnt # 0 /\ node[n] \in NodeRec /\ ctl[p] \in CtlRec /\ wire[p] \in Seq(Nat)
         /\ PortInv(n) /\ n \in Found(p) /\ Found(p) = {n}
<1>1. node[n].cnt # 0
  BY I2cAssumption DEF Struct, NodeInv, Free
<1>2. node[n] \in NodeRec /\ ctl[p] \in CtlRec /\ wire[p] \in Seq(Nat)
  BY DEF TypeOK, TypeNode, TypeCtl
<1>3. n \in Found(p)
  BY <1>1 DEF Found, Struct, ListInv
<1>4. ASSUME NEW m \in Found(p) PROVE m = n
  <2>1. m \in Nodes /\ node[m].port = p
    BY DEF Found, Struct, ListInv
  <2> QED BY <1>1, <2>1 DEF Struct, NodeInv
<1> QED BY <1>1, <1>2, <1>3, <1>4 DEF OpenInv

\* What a task that has opened its port finds.
LEMMA FindsPort ==
  ASSUME TypeOK, Struct, OpenInv, NEW t \in Tasks, pc[t] # "closed"
  PROVE  /\ use[t] \in Ports
         /\ \E n \in Nodes : node[n].port = use[t] /\ Found(use[t]) = {n} /\ t \in On(n)
         /\ Bound(t) => /\ job[t].nd \in Nodes /\ node[job[t].nd].port = use[t]
                        /\ t \in On(job[t].nd)
<1>1. use[t] \in Ports /\ job[t].nd \in Nodes
  BY I2cAssumption DEF TypeOK, TypeTask, JobRec
<1>2. PICK n \in Nodes : node[n].port = use[t]
  BY DEF Struct, TaskInv
<1>3. Found(use[t]) = {n}
  BY <1>1, <1>2, Opened
<1>4. Bound(t) => node[job[t].nd].port = use[t]
  BY DEF Struct, TaskInv
<1> QED BY <1>1, <1>2, <1>3, <1>4 DEF On

\* A step of the task t that changes, apart from t itself, its port only.
Own(t, n) ==
  /\ UNCHANGED <<use, list>> /\ kept \subseteq kept'
  /\ \A m \in Nodes \ {n} : node'[m] = node[m]
  /\ node'[n].port = node[n].port /\ node'[n].cnt = node[n].cnt
  /\ \A q \in Ports \ {use[t]} : ctl'[q] = ctl[q] /\ wire'[q] = wire[q]
  /\ \A u \in Tasks \ {t} : pc'[u] = pc[u] /\ job'[u] = job[u]
  /\ pc[t] # "closed" /\ pc'[t] # "closed"
  /\ Bound(t)' => job'[t].nd = n
  /\ pc'[t] \in {"com", "port", "begin"} => job'[t].wr = 0

\* A step of one task that changes none of its ties to the list.
LEMMA OwnLocal ==
  ASSUME TypeOK, Struct, OpenInv, NEW t \in Tasks, NEW n \in Nodes, node[n].port = use[t],
         Own(t, n)
  PROVE  Local(n)
<1>1. ASSUME NEW u \in On(n)
      PROVE  /\ Bound(u)' => job'[u].nd = n
             /\ pc'[u] \in {"com", "port", "begin"} => job'[u].wr = 0
  <2>1. CASE u = t
    BY <2>1 DEF Own
  <2>2. CASE u # t
    <3>1. u \in Tasks /\ use[u] = node[n].port /\ pc'[u] = pc[u] /\ job'[u] = job[u]
      BY <2>2 DEF On, Own
    <3>2. Bound(u)' <=> Bound(u)
      BY <3>1 DEF Bound, Holds
    <3>3. use[u] \in Ports /\ (Bound(u) => job[u].nd \in Nodes)
      BY <3>1, I2cAssumption DEF TypeOK, TypeTask, JobRec
    <3>4. Bound(u) => job[u].nd \in Found(use[u]) /\ n \in Found(use[u])
      BY <3>1, <3>3, Opened DEF Struct, TaskInv
    <3>5. Found(use[u]) = {n}
      BY <3>1, <3>3, Opened
    <3>6. pc[u] \in {"com", "port", "begin"} => job[u].wr = 0
      BY <3>1 DEF Struct, TaskInv
    <3> QED BY <3>1, <3>2, <3>4, <3>5, <3>6
  <2> QED BY <2>1, <2>2
<1> QED BY <1>1 DEF Own, Local

\* The task has the port to itself: the others wait for its semaphore or do not use it.
LEMMA OwnStep ==
  ASSUME TypeOK, Struct, OpenInv, NEW t \in Tasks, NEW n \in Nodes, node[n].port = use[t],
         Own(t, n), \A u \in On(n) : Holds(u) => u = t,
         PortOk(node'[n], ctl'[use[t]]),
         Holds(t)' => TaskOk(node'[n], ctl'[use[t]], wire'[use[t]], t, pc'[t], job'[t]),
         Holds(t)' \/ Held(n)'
  PROVE  Struct' /\ OpenInv'
<1>1. use[t] \in Ports
  BY I2cAssumption DEF TypeOK, TypeTask
<1>2. Local(n) /\ node[n].cnt # 0
  BY <1>1, OwnLocal, Opened
<1>3. On(n)' = On(n) /\ t \in On(n) /\ node'[n].port = use[t]
  BY DEF On, Own
<1>4. \A u \in On(n) : Holds(u)' => u = t
  BY DEF On, Own, Holds
<1>5. Held(n)'
  BY <1>3 DEF Held
<1>6. PortInv(n)'
  BY <1>3, <1>4, <1>5 DEF PortInv
<1> QED BY <1>2, <1>6, LocalStep

\* The task does not hold the port, before or after, and the port stays as it is.
LEMMA PlainStep ==
  ASSUME TypeOK, Struct, OpenInv, NEW t \in Tasks, NEW n \in Nodes, node[n].port = use[t],
         Own(t, n), UNCHANGED <<node, ctl, wire>>, ~Holds(t), ~Holds(t)'
  PROVE  Struct' /\ OpenInv'
<1>1. use[t] \in Ports
  BY I2cAssumption DEF TypeOK, TypeTask
<1>2. Local(n) /\ node[n].cnt # 0 /\ PortInv(n)
  BY <1>1, OwnLocal, Opened
<1>3. On(n)' = On(n) /\ kept \subseteq kept'
  BY DEF On, Own
<1>4. \A u \in On(n) : /\ Holds(u)' <=> Holds(u)
                       /\ Holds(u) => pc'[u] = pc[u] /\ job'[u] = job[u]
  BY DEF On, Own, Holds
<1>5. Held(n)'
  BY <1>2, <1>3, <1>4 DEF Held, PortInv
<1>6. PortInv(n)'
  BY <1>2, <1>3, <1>4, <1>5 DEF PortInv
<1> QED BY <1>2, <1>6, LocalStep

\* A step of the interrupt or of the controller.
LEMMA PortStep ==
  ASSUME TypeOK, Struct, OpenInv, NEW n \in Nodes, NEW p \in Ports, node[n].port = p,
         UNCHANGED <<use, list, kept, pc, job>>,
         \A m \in Nodes \ {n} : node'[m] = node[m],
         node'[n].port = node[n].port, node'[n].cnt = node[n].cnt,
         \A q \in Ports \ {p} : ctl'[q] = ctl[q] /\ wire'[q] = wire[q],
         PortOk(node'[n], ctl'[p]),
         \A t \in On(n) : Holds(t) => TaskOk(node'[n], ctl'[p], wire'[p], t, pc[t], job[t]),
         Held(n)'
  PROVE  Struct' /\ OpenInv'
<1>1. node[n].cnt # 0 /\ PortInv(n) /\ Found(p) = {n}
  BY Opened
<1>2. \A t \in On(n) : /\ Bound(t) => job[t].nd = n
                       /\ pc[t] \in {"com", "port", "begin"} => job[t].wr = 0
  <2> TAKE t \in On(n)
  <2>1. t \in Tasks /\ use[t] = p
    BY DEF On
  <2>2. Bound(t) => job[t].nd \in Nodes /\ node[job[t].nd].port = p
    BY <2>1 DEF TypeOK, TypeTask, JobRec, Struct, TaskInv
  <2>3. Bound(t) => job[t].nd = n
    BY <1>1, <2>2 DEF Struct, NodeInv
  <2> QED BY <2>1, <2>3 DEF Struct, TaskInv
<1>3. \A t \in Tasks : (Bound(t)' <=> Bound(t)) /\ (Holds(t)' <=> Holds(t))
  BY DEF Bound, Holds
<1>4. On(n)' = On(n)
  BY DEF On
<1>5. Local(n)
  BY <1>2, <1>3 DEF Local, On
<1>6. PortInv(n)'
  BY <1>1, <1>3, <1>4 DEF PortInv, On
<1> QED BY <1>1, <1>5, <1>6, LocalStep

-------------------------------------------------------------------------------
(* Opening and resetting a port.                                           *)

\* A node becomes the head of the list.
LEMMA ListPush ==
  ASSUME NEW S, NEW s \in Seq(S), NEW n \in S, n \notin ToSet(s),
         \A i, k \in DOMAIN s : s[i] = s[k] => i = k
  PROVE  LET r == <<n>> \o s IN
         /\ \A i, k \in DOMAIN r : r[i] = r[k] => i = k
         /\ ToSet(r) = ToSet(s) \cup {n}
<1>1. PICK r : r = <<n>> \o s
  OBVIOUS
<1>2. Len(s) \in Nat /\ DOMAIN s = 1 .. Len(s)
  OBVIOUS
<1>3. /\ DOMAIN r = 1 .. Len(s) + 1 /\ r[1] = n
      /\ \A i \in 2 .. Len(s) + 1 : r[i] = s[i - 1]
  BY <1>1, <1>2
<1>4. \A i \in 2 .. Len(s) + 1 : i - 1 \in 1 .. Len(s)
  BY <1>2
<1>5. \A i \in 1 .. Len(s) : s[i] \in ToSet(s) /\ i + 1 \in 2 .. Len(s) + 1 /\ r[i + 1] = s[i]
  BY <1>2, <1>3 DEF ToSet
<1>6. \A i \in 1 .. Len(s) + 1 : i = 1 \/ i \in 2 .. Len(s) + 1
  BY <1>2
<1>7. ASSUME NEW i \in DOMAIN r, NEW k \in DOMAIN r, r[i] = r[k] PROVE i = k
  <2>1. CASE i = 1 /\ k = 1
    BY <2>1
  <2>2. CASE i = 1 /\ k # 1
    BY <1>3, <1>4, <1>5, <1>6, <1>7, <2>2
  <2>3. CASE i # 1 /\ k = 1
    BY <1>3, <1>4, <1>5, <1>6, <1>7, <2>3
  <2>4. CASE i # 1 /\ k # 1
    <3>1. i \in 2 .. Len(s) + 1 /\ k \in 2 .. Len(s) + 1
      BY <1>3, <1>6, <2>4
    <3>2. i - 1 = k - 1
      BY <1>2, <1>3, <1>4, <1>7, <3>1
    <3> QED BY <1>2, <3>1, <3>2
  <2> QED BY <2>1, <2>2, <2>3, <2>4
<1>8. ToSet(r) = ToSet(s) \cup {n}
  <2>1. \A x \in ToSet(r) : x \in ToSet(s) \cup {n}
    BY <1>3, <1>4, <1>5, <1>6 DEF ToSet
  <2>2. \A x \in ToSet(s) : x \in ToSet(r)
    <3> TAKE x \in ToSet(s)
    <3>1. PICK i \in 1 .. Len(s) : x = s[i]
      BY <1>2 DEF ToSet
    <3>2. i + 1 \in DOMAIN r /\ r[i + 1] = x
      BY <1>2, <1>3, <1>5, <3>1
    <3> QED BY <3>2 DEF ToSet
  <2>3. n \in ToSet(r)
    BY <1>2, <1>3 DEF ToSet
  <2> QED BY <2>1, <2>2, <2>3
<1> QED BY <1>1, <1>7, <1>8

\* The head leaves the list.
LEMMA ListPop ==
  ASSUME NEW S, NEW s \in Seq(S), s # <<>>, \A i, k \in DOMAIN s : s[i] = s[k] => i = k
  PROVE  LET r == SubSeq(s, 2, Len(s)) IN
         /\ \A i, k \in DOMAIN r : r[i] = r[k] => i = k
         /\ ToSet(r) = ToSet(s) \ {s[1]}
<1>1. PICK r : r = SubSeq(s, 2, Len(s))
  OBVIOUS
<1>2. Len(s) \in Nat /\ Len(s) >= 1 /\ DOMAIN s = 1 .. Len(s)
  OBVIOUS
<1>3. /\ DOMAIN r = 1 .. Len(s) - 1
      /\ \A i \in 1 .. Len(s) - 1 : r[i] = s[i + 1]
  BY <1>1, <1>2
<1>4. \A i \in 1 .. Len(s) - 1 : i + 1 \in 1 .. Len(s) /\ i + 1 # 1
  BY <1>2
<1>5. ASSUME NEW i \in DOMAIN r, NEW k \in DOMAIN r, r[i] = r[k] PROVE i = k
  <2>1. i + 1 = k + 1
    BY <1>2, <1>3, <1>4, <1>5
  <2>2. i \in Nat /\ k \in Nat
    BY <1>2, <1>3
  <2> QED BY <2>1, <2>2
<1>6. ToSet(r) = ToSet(s) \ {s[1]}
  <2>1. ASSUME NEW x \in ToSet(r) PROVE x \in ToSet(s) \ {s[1]}
    <3>1. PICK i \in 1 .. Len(s) - 1 : x = s[i + 1]
      BY <1>3 DEF ToSet
    <3>2. 1 \in 1 .. Len(s) /\ i + 1 \in 1 .. Len(s) /\ i + 1 # 1
      BY <1>2, <1>4
    <3>3. x # s[1]
      BY <1>2, <3>1, <3>2
    <3> QED BY <1>2, <3>1, <3>2, <3>3 DEF ToSet
  <2>2. ASSUME NEW x \in ToSet(s), x # s[1] PROVE x \in ToSet(r)
    <3>1. PICK i \in 1 .. Len(s) : x = s[i]
      BY <1>2 DEF ToSet
    <3>2. i - 1 \in 1 .. Len(s) - 1 /\ (i - 1) + 1 = i
      BY <1>2, <2>2, <3>1
    <3>3. r[i - 1] = x
      BY <1>3, <3>1, <3>2
    <3> QED BY <1>3, <3>2, <3>3 DEF ToSet
  <2> QED BY <2>1, <2>2
<1> QED BY <1>1, <1>5, <1>6

\* The users of a port, counted.
LEMMA UserCounts ==
  ASSUME NEW p
  PROVE  /\ IsFiniteSet(Users(p))
         /\ \A t : t \notin Users(p) =>
              Cardinality(Users(p) \cup {t}) = Cardinality(Users(p)) + 1
         /\ \A t \in Users(p) :
              /\ Cardinality(Users(p) \ {t}) = Cardinality(Users(p)) - 1
              /\ Cardinality(Users(p)) = 1 => Users(p) = {t}
<1>1. IsFiniteSet(Users(p))
  BY I2cAssumption, FS_Subset DEF Users
<1>2. \A t : t \notin Users(p) => Cardinality(Users(p) \cup {t}) = Cardinality(Users(p)) + 1
  BY <1>1, FS_AddElement
<1>3. ASSUME NEW t \in Users(p)
      PROVE  /\ Cardinality(Users(p) \ {t}) = Cardinality(Users(p)) - 1
             /\ Cardinality(Users(p)) = 1 => Users(p) = {t}
  <2>1. IsFiniteSet(Users(p) \ {t}) /\ Cardinality(Users(p) \ {t}) = Cardinality(Users(p)) - 1
    BY <1>1, FS_RemoveElement
  <2>2. Cardinality(Users(p)) = 1 => Users(p) \ {t} = {}
    BY <2>1, FS_EmptySet
  <2> QED BY <2>1, <2>2
<1> QED BY <1>1, <1>2, <1>3

\* A port whose count alone changes, or whose tasks come and go without holding it.
LEMMA CountFrame ==
  ASSUME NEW m \in Nodes, node[m] \in NodeRec, NEW k, NEW p, p = node[m].port, use' = use,
         kept \subseteq kept', node'[m] = [node[m] EXCEPT !.cnt = k], ctl'[p] = ctl[p],
         wire'[p] = wire[p],
         \A t \in Tasks : (Holds(t)' <=> Holds(t)) /\ (Holds(t) => pc'[t] = pc[t]) /\ job'[t] = job[t],
         PortInv(m)
  PROVE  PortInv(m)'
<1> DEFINE h == node[m] g == node'[m]
<1>1. /\ g.port = h.port /\ g.sem = h.sem /\ g.done = h.done /\ g.cur = h.cur /\ g.op = h.op
      /\ g.buf = h.buf /\ g.base = h.base /\ g.pos = h.pos /\ g.len = h.len /\ g.late = h.late
  BY DEF NodeRec
<1>2. On(m)' = On(m) /\ \A t \in On(m) : t \in Tasks
  BY <1>1 DEF On
<1>3. PortOk(g, ctl'[p])
  BY <1>1 DEF PortInv, PortOk
<1>4. ASSUME NEW t \in On(m), Holds(t)'
      PROVE  TaskOk(g, ctl'[p], wire'[p], t, pc'[t], job'[t])
  <2>1. TaskOk(h, ctl[p], wire[p], t, pc[t], job[t])
    BY <1>2, <1>4 DEF PortInv
  <2>2. pc'[t] = pc[t] /\ job'[t] = job[t]
    BY <1>2, <1>4
  <2>3. \A q, j : /\ Writes(h, ctl[p], wire[p], q, j) => Writes(g, ctl[p], wire[p], q, j)
                  /\ Reads(h, ctl[p], q, j) => Reads(g, ctl[p], q, j)
    BY <1>1 DEF Writes, Reads, Started, Received
  <2> QED BY <1>1, <2>1, <2>2, <2>3 DEF TaskOk
<1>5. \A t, u \in On(m) : Holds(t)' /\ Holds(u)' => t = u
  BY <1>2 DEF PortInv
<1>6. Held(m)'
  BY <1>1, <1>2 DEF PortInv, Held
<1> QED BY <1>1, <1>2, <1>3, <1>4, <1>5, <1>6 DEF PortInv

\* Opening: a port that is open counts one user more, another gets a node of its own.
LEMMA OpenStep ==
  ASSUME TypeOK, Struct, OpenInv, NEW t \in Tasks, Open(t)
  PROVE  Struct' /\ OpenInv'
<1> DEFINE p == use[t]
<1>0. /\ p \in Ports /\ node \in [Nodes -> NodeRec] /\ list \in Seq(Nodes)
      /\ pc \in [Tasks -> Points] /\ ctl \in [Ports -> CtlRec]
  BY I2cAssumption DEF TypeOK, TypeTask, TypeNode, TypeCtl
<1>1. /\ pc[t] = "closed" /\ pc'[t] = "idle" /\ \A u \in Tasks \ {t} : pc'[u] = pc[u]
      /\ UNCHANGED <<use, wire, com, kept, lost, job>>
  BY <1>0 DEF Open, Goes
<1>2. \A u \in Tasks : /\ Holds(u)' <=> Holds(u)
                       /\ Holds(u) => pc'[u] = pc[u]
                       /\ Bound(u)' <=> Bound(u)
  BY <1>1 DEF Holds, Bound
<1>3. /\ {u \in Tasks : use'[u] = p /\ pc'[u] # "closed"} = Users(p) \cup {t}
      /\ t \notin Users(p)
      /\ \A q : q # p => {u \in Tasks : use'[u] = q /\ pc'[u] # "closed"} = Users(q)
  BY <1>1 DEF Users
<1>4. CASE Found(p) # {}
  <2>1. PICK n \in Found(p) : node' = [node EXCEPT ![n].cnt = @ + 1] /\ UNCHANGED <<list, ctl>>
    BY <1>4 DEF Open
  <2>2. n \in Nodes /\ node[n].port = p
    BY <1>0 DEF Found, ToSet
  <2>3. node[n].cnt # 0 /\ node[n].cnt \in Nat
    BY <1>0, <2>2, Opened DEF NodeRec
  <2>4. /\ node'[n] = [node[n] EXCEPT !.cnt = @ + 1]
        /\ \A m \in Nodes \ {n} : node'[m] = node[m]
    BY <1>0, <2>1, <2>2
  <2>5. /\ node'[n].port = p /\ node'[n].cnt = node[n].cnt + 1
    BY <1>0, <2>2, <2>4 DEF NodeRec
  <2>6. \A m \in Nodes : node'[m].port = node[m].port /\ (node'[m].cnt = 0 <=> node[m].cnt = 0)
    <3> TAKE m \in Nodes
    <3>1. node[n].cnt + 1 # 0
      BY <2>3
    <3>2. CASE m = n
      BY <2>2, <2>3, <2>5, <3>1, <3>2
    <3>3. CASE m # n
      BY <2>4, <3>3
    <3> QED BY <3>2, <3>3
  <2>7. ListInv'
    BY <2>1, <2>6 DEF Struct, ListInv
  <2>8. NodeInv'
    <3> SUFFICES ASSUME NEW m \in Nodes
                 PROVE  /\ node'[m].cnt = 0 => node'[m] = Free
                        /\ node'[m].cnt # 0 =>
                             /\ node'[m].port \in Ports
                             /\ node'[m].cnt = Cardinality({u \in Tasks : /\ use'[u] = node'[m].port
                                                                         /\ pc'[u] # "closed"})
                             /\ \A k \in Nodes : node'[k].port = node'[m].port => k = m
      BY DEF NodeInv, Users
    <3>1. CASE m = n
      <4>1. node[n].cnt = Cardinality(Users(p)) /\ \A k \in Nodes : node[k].port = p => k = n
        BY <2>2, <2>3 DEF Struct, NodeInv
      <4>2. node'[n].cnt = Cardinality(Users(p) \cup {t})
        BY <1>3, <2>5, <4>1, UserCounts
      <4> QED BY <1>0, <1>3, <2>2, <2>3, <2>5, <2>6, <3>1, <4>1, <4>2
    <3>2. CASE m # n
      <4>1. node'[m] = node[m] /\ (node[m].cnt # 0 => node[m].port # p)
        BY <2>2, <2>4, <3>2 DEF Struct, NodeInv
      <4>2. /\ node[m].cnt = 0 => node[m] = Free
            /\ node[m].cnt # 0 => /\ node[m].port \in Ports
                                  /\ node[m].cnt = Cardinality(Users(node[m].port))
                                  /\ \A k \in Nodes : node[k].port = node[m].port => k = m
        BY DEF Struct, NodeInv
      <4>3. \A k \in Nodes : node'[k].port = node[k].port
        BY <2>6
      <4> QED BY <1>3, <4>1, <4>2, <4>3
    <3> QED BY <3>1, <3>2
  <2>9. TaskInv'
    <3> SUFFICES ASSUME NEW u \in Tasks
                 PROVE  /\ pc'[u] # "closed" => \E m \in Nodes : node'[m].port = use'[u]
                        /\ Bound(u)' => node'[job'[u].nd].port = use'[u]
                        /\ pc'[u] \in {"com", "port", "begin"} => job'[u].wr = 0
      BY DEF TaskInv
    <3>1. job[u].nd \in Nodes
      BY DEF TypeOK, TypeTask, JobRec
    <3>2. CASE u = t
      <4>1. ~Bound(t)' /\ pc'[t] = "idle"
        BY <1>1, <1>2 DEF Bound, Holds
      <4> QED BY <1>1, <2>2, <2>6, <3>2, <4>1
    <3>3. CASE u # t
      BY <1>1, <1>2, <2>6, <3>1, <3>3 DEF Struct, TaskInv
    <3> QED BY <3>2, <3>3
  <2>10. ASSUME NEW m \in Nodes, node'[m].cnt # 0
         PROVE  PortInv(m)'
    <3> DEFINE k == IF m = n THEN node[n].cnt + 1 ELSE node[m].cnt
    <3>1. node[m] \in NodeRec /\ node'[m] = [node[m] EXCEPT !.cnt = k]
      <4>1. CASE m = n
        BY <1>0, <2>4, <4>1
      <4>2. CASE m # n
        BY <1>0, <2>4, <4>2 DEF NodeRec
      <4> QED BY <4>1, <4>2
    <3>2. PortInv(m)
      BY <2>6, <2>10 DEF OpenInv
    <3> HIDE DEF k
    <3> QED BY <1>1, <1>2, <2>1, <3>1, <3>2, CountFrame
  <2>11. OpenInv'
    BY <2>1, <2>6, <2>10 DEF OpenInv
  <2> QED BY <2>7, <2>8, <2>9, <2>11 DEF Struct
<1>5. CASE Found(p) = {}
  <2>1. PICK n \in Nodes :
          /\ node[n].cnt = 0
          /\ node' = [node EXCEPT ![n] = [Free EXCEPT !.port = p, !.cnt = 1, !.sem = TRUE]]
          /\ list' = <<n>> \o list /\ ctl' = [ctl EXCEPT ![p] = ResetReg]
    BY <1>5 DEF Open
  <2>2. \A m \in Nodes : node[m].port # p
    BY <1>0, <1>5, Opened
  <2>3. \A u \in Tasks : use[u] = p => pc[u] = "closed"
    BY <2>2 DEF Struct, TaskInv
  <2>4. Users(p) = {}
    BY <2>3 DEF Users
  <2>5. node[n] = Free
    BY <2>1 DEF Struct, NodeInv
  <2> DEFINE g == node'[n]
  <2>6. /\ g = [Free EXCEPT !.port = p, !.cnt = 1, !.sem = TRUE]
        /\ \A m \in Nodes \ {n} : node'[m] = node[m]
    BY <1>0, <2>1
  <2>7. /\ g.port = p /\ g.cnt = 1 /\ g.done = 0 /\ g.cur = NoTask
    BY <2>6 DEF Free
  <2>8. ctl'[p] = ResetReg /\ \A q \in Ports \ {p} : ctl'[q] = ctl[q]
    BY <1>0, <2>1
  <2>9. ListInv'
    <3>1. n \notin ToSet(list) /\ \A i, k \in DOMAIN list : list[i] = list[k] => i = k
      BY <2>1 DEF Struct, ListInv
    <3>2. /\ \A i, k \in DOMAIN list' : list'[i] = list'[k] => i = k
          /\ ToSet(list') = ToSet(list) \cup {n}
      BY <1>0, <2>1, <3>1, ListPush
    <3>3. {m \in Nodes : node'[m].cnt # 0} = {m \in Nodes : node[m].cnt # 0} \cup {n}
      BY <2>1, <2>6, <2>7
    <3>4. ToSet(list)' = ToSet(list')
      BY DEF ToSet
    <3> QED BY <3>2, <3>3, <3>4 DEF Struct, ListInv
  <2>10. NodeInv'
    <3> SUFFICES ASSUME NEW m \in Nodes
                 PROVE  /\ node'[m].cnt = 0 => node'[m] = Free
                        /\ node'[m].cnt # 0 =>
                             /\ node'[m].port \in Ports
                             /\ node'[m].cnt = Cardinality({u \in Tasks : /\ use'[u] = node'[m].port
                                                                         /\ pc'[u] # "closed"})
                             /\ \A k \in Nodes : node'[k].port = node'[m].port => k = m
      BY DEF NodeInv, Users
    <3>1. CASE m = n
      <4>1. Cardinality({u \in Tasks : use'[u] = p /\ pc'[u] # "closed"}) = 1
        <5>1. {u \in Tasks : use'[u] = p /\ pc'[u] # "closed"} = {t}
          BY <1>3, <2>4
        <5> QED BY <5>1, FS_Singleton
      <4>2. \A k \in Nodes : node'[k].port = p => k = n
        BY <2>2, <2>6
      <4>3. node'[m].cnt = 1 /\ node'[m].port = p
        BY <2>7, <3>1
      <4> HIDE DEF p
      <4>4. Cardinality({u \in Tasks : use'[u] = node'[m].port /\ pc'[u] # "closed"}) = 1
        BY <4>1, <4>3
      <4> QED BY <1>0, <3>1, <4>2, <4>3, <4>4
    <3>2. CASE m # n
      <4>1. node'[m] = node[m] /\ node[m].port # p
        BY <2>2, <2>6, <3>2
      <4>2. /\ node[m].cnt = 0 => node[m] = Free
            /\ node[m].cnt # 0 => /\ node[m].port \in Ports
                                  /\ node[m].cnt = Cardinality(Users(node[m].port))
                                  /\ \A k \in Nodes : node[k].port = node[m].port => k = m
        BY DEF Struct, NodeInv
      <4>3. \A k \in Nodes : node'[k].port = node'[m].port => node[k].port = node[m].port
        BY <2>6, <2>7, <4>1
      <4> QED BY <1>3, <4>1, <4>2, <4>3
    <3> QED BY <3>1, <3>2
  <2>11. TaskInv'
    <3> SUFFICES ASSUME NEW u \in Tasks
                 PROVE  /\ pc'[u] # "closed" => \E m \in Nodes : node'[m].port = use'[u]
                        /\ Bound(u)' => node'[job'[u].nd].port = use'[u]
                        /\ pc'[u] \in {"com", "port", "begin"} => job'[u].wr = 0
      BY DEF TaskInv
    <3>1. job[u].nd \in Nodes /\ use[u] \in Ports
      BY I2cAssumption DEF TypeOK, TypeTask, JobRec
    <3>2. CASE u = t
      <4>1. ~Bound(t)' /\ pc'[t] = "idle"
        BY <1>1, <1>2 DEF Bound, Holds
      <4> QED BY <1>1, <2>7, <3>2, <4>1
    <3>3. CASE u # t
      <4>1. pc'[u] = pc[u] /\ job'[u] = job[u] /\ use'[u] = use[u] /\ (Bound(u)' <=> Bound(u))
        BY <1>1, <1>2, <3>3
      <4>2. \A m \in Nodes : node[m].port = use[u] => node'[m] = node[m]
        BY <2>5, <2>6, <3>1, I2cAssumption DEF Free
      <4>3. /\ pc[u] # "closed" => \E m \in Nodes : node[m].port = use[u]
            /\ Bound(u) => node[job[u].nd].port = use[u]
            /\ pc[u] \in {"com", "port", "begin"} => job[u].wr = 0
        BY DEF Struct, TaskInv
      <4> QED BY <3>1, <4>1, <4>2, <4>3
    <3> QED BY <3>2, <3>3
  <2>12. PortInv(n)'
    <3>1. \A u \in Tasks : use[u] = p => ~Holds(u)'
      BY <1>2, <2>3 DEF Holds
    <3>2. On(n)' = {u \in Tasks : use[u] = p}
      BY <1>1, <2>7 DEF On
    <3>3. PortOk(g, ctl'[p])
      BY <2>7, <2>8 DEF PortOk, ResetReg, Resting
    <3>4. Held(n)'
      BY <2>7, <2>8 DEF Held, ResetReg
    <3> QED BY <2>7, <3>1, <3>2, <3>3, <3>4 DEF PortInv
  <2>13. ASSUME NEW m \in Nodes, node'[m].cnt # 0, m # n
         PROVE  PortInv(m)'
    <3> DEFINE q == node[m].port
    <3>1. node'[m] = node[m] /\ q \in Ports /\ q # p /\ node[m].cnt # 0
      BY <2>2, <2>6, <2>13 DEF Struct, NodeInv
    <3>2. ctl'[q] = ctl[q] /\ wire'[q] = wire[q] /\ PortInv(m) /\ kept \subseteq kept'
      BY <1>1, <2>8, <3>1 DEF OpenInv
    <3>3. \A u \in Tasks : use[u] = q => pc'[u] = pc[u] /\ job'[u] = job[u]
      BY <1>1, <3>1
    <3> QED BY <1>1, <3>1, <3>2, <3>3, PortFrame
  <2>14. ASSUME NEW q \in Ports, ctl'[q].ims # {}
         PROVE  \E m \in Nodes : node'[m].port = q
    <3>1. q # p
      BY <2>8, <2>14 DEF ResetReg
    <3>2. PICK m \in Nodes : node[m].port = q
      BY <2>8, <2>14, <3>1 DEF OpenInv
    <3>3. m # n
      BY <2>5, <3>2, I2cAssumption DEF Free
    <3> QED BY <2>6, <3>2, <3>3
  <2> QED BY <2>9, <2>10, <2>11, <2>12, <2>13, <2>14 DEF Struct, OpenInv
<1> QED BY <1>4, <1>5

\* Resetting: the port counts one user less, and with the last one its node leaves the
\* list, which is the head as long as no other port is lost.
LEMMA ResetStep ==
  ASSUME TypeOK, Struct, OpenInv, NEW t \in Tasks, Reset(t), ~lost'
  PROVE  Struct' /\ OpenInv'
<1> DEFINE p == use[t]
<1>0. /\ p \in Ports /\ node \in [Nodes -> NodeRec] /\ list \in Seq(Nodes)
      /\ pc \in [Tasks -> Points] /\ ctl \in [Ports -> CtlRec]
  BY I2cAssumption DEF TypeOK, TypeTask, TypeNode, TypeCtl
<1>1. /\ pc[t] = "idle" /\ pc'[t] = "closed" /\ \A u \in Tasks \ {t} : pc'[u] = pc[u]
      /\ UNCHANGED <<use, wire, com, kept, job>>
  BY <1>0 DEF Reset, Goes
<1>2. \A u \in Tasks : /\ Holds(u)' <=> Holds(u)
                       /\ Holds(u) => pc'[u] = pc[u]
                       /\ Bound(u)' <=> Bound(u)
  BY <1>1 DEF Holds, Bound
<1>3. /\ {u \in Tasks : use'[u] = p /\ pc'[u] # "closed"} = Users(p) \ {t}
      /\ t \in Users(p)
      /\ \A q : q # p => {u \in Tasks : use'[u] = q /\ pc'[u] # "closed"} = Users(q)
  BY <1>1 DEF Users
<1>4. PICK n \in Nodes : node[n].port = p /\ Found(p) = {n}
  BY <1>1, FindsPort
<1>5. /\ node[n].cnt # 0 /\ node[n].cnt \in Nat /\ node[n].cnt = Cardinality(Users(p))
      /\ \A k \in Nodes : node[k].port = p => k = n
  BY <1>0, <1>4, Opened DEF Struct, NodeInv, NodeRec
<1>6. \A m \in Nodes : m # n => node[m].port # p
  BY <1>5
<1>7. CASE node[n].cnt > 1
  <2>1. node' = [node EXCEPT ![n].cnt = @ - 1] /\ UNCHANGED <<list, ctl>>
    BY <1>4, <1>7 DEF Reset
  <2>4. /\ node'[n] = [node[n] EXCEPT !.cnt = @ - 1]
        /\ \A m \in Nodes \ {n} : node'[m] = node[m]
    BY <1>0, <2>1
  <2>5. /\ node'[n].port = p /\ node'[n].cnt = node[n].cnt - 1 /\ node'[n].cnt # 0
    BY <1>0, <1>4, <1>5, <1>7, <2>4 DEF NodeRec
  <2>6. \A m \in Nodes : node'[m].port = node[m].port /\ (node'[m].cnt = 0 <=> node[m].cnt = 0)
    BY <1>4, <1>5, <2>4, <2>5
  <2>7. ListInv'
    BY <2>1, <2>6 DEF Struct, ListInv
  <2>8. NodeInv'
    <3> SUFFICES ASSUME NEW m \in Nodes
                 PROVE  /\ node'[m].cnt = 0 => node'[m] = Free
                        /\ node'[m].cnt # 0 =>
                             /\ node'[m].port \in Ports
                             /\ node'[m].cnt = Cardinality({u \in Tasks : /\ use'[u] = node'[m].port
                                                                         /\ pc'[u] # "closed"})
                             /\ \A k \in Nodes : node'[k].port = node'[m].port => k = m
      BY DEF NodeInv, Users
    <3>1. CASE m = n
      <4>1. node'[n].cnt = Cardinality(Users(p) \ {t})
        BY <1>3, <1>5, <2>5, UserCounts
      <4>2. node'[m].cnt # 0 /\ node'[m].port = p
        BY <2>5, <3>1
      <4>3. \A k \in Nodes : node'[k].port = p => k = n
        BY <1>5, <2>6
      <4> HIDE DEF p
      <4>4. node'[m].cnt = Cardinality({u \in Tasks : use'[u] = node'[m].port /\ pc'[u] # "closed"})
        BY <1>3, <3>1, <4>1, <4>2
      <4> QED BY <1>0, <3>1, <4>2, <4>3, <4>4
    <3>2. CASE m # n
      <4>1. node'[m] = node[m] /\ node[m].port # p
        BY <1>6, <2>4, <3>2
      <4>2. /\ node[m].cnt = 0 => node[m] = Free
            /\ node[m].cnt # 0 => /\ node[m].port \in Ports
                                  /\ node[m].cnt = Cardinality(Users(node[m].port))
                                  /\ \A k \in Nodes : node[k].port = node[m].port => k = m
        BY DEF Struct, NodeInv
      <4>3. \A k \in Nodes : node'[k].port = node[k].port
        BY <2>6
      <4> QED BY <1>3, <4>1, <4>2, <4>3
    <3> QED BY <3>1, <3>2
  <2>9. TaskInv'
    <3> SUFFICES ASSUME NEW u \in Tasks
                 PROVE  /\ pc'[u] # "closed" => \E m \in Nodes : node'[m].port = use'[u]
                        /\ Bound(u)' => node'[job'[u].nd].port = use'[u]
                        /\ pc'[u] \in {"com", "port", "begin"} => job'[u].wr = 0
      BY DEF TaskInv
    <3>1. job[u].nd \in Nodes
      BY DEF TypeOK, TypeTask, JobRec
    <3>2. CASE u = t
      <4>1. ~Bound(t)' /\ pc'[t] = "closed"
        BY <1>1, <1>2 DEF Bound, Holds
      <4> QED BY <3>2, <4>1
    <3>3. CASE u # t
      BY <1>1, <1>2, <2>6, <3>1, <3>3 DEF Struct, TaskInv
    <3> QED BY <3>2, <3>3
  <2>10. ASSUME NEW m \in Nodes, node'[m].cnt # 0
         PROVE  PortInv(m)'
    <3> DEFINE k == IF m = n THEN node[n].cnt - 1 ELSE node[m].cnt
    <3>1. node[m] \in NodeRec /\ node'[m] = [node[m] EXCEPT !.cnt = k]
      <4>1. CASE m = n
        BY <1>0, <2>4, <4>1
      <4>2. CASE m # n
        BY <1>0, <2>4, <4>2 DEF NodeRec
      <4> QED BY <4>1, <4>2
    <3>2. PortInv(m)
      BY <2>6, <2>10 DEF OpenInv
    <3> HIDE DEF k
    <3> QED BY <1>1, <1>2, <2>1, <3>1, <3>2, CountFrame
  <2>11. OpenInv'
    BY <2>1, <2>6, <2>10 DEF OpenInv
  <2> QED BY <2>7, <2>8, <2>9, <2>11 DEF Struct
<1>8. CASE ~(node[n].cnt > 1)
  <2>1. PICK i \in DOMAIN list :
          /\ list[i] = n
          /\ node' = [node EXCEPT ![n] = Free] /\ list' = SubSeq(list, i + 1, Len(list))
          /\ lost' = (lost \/ i > 1)
          /\ ctl' = [ctl EXCEPT ![p] = [ResetReg EXCEPT !.om = ctl[p].om]]
    <3>1. \E i \in DOMAIN list : list[i] = n
      BY <1>4 DEF Found, ToSet
    <3>2. PICK i : i = CHOOSE k \in DOMAIN list : list[k] = n
      OBVIOUS
    <3>3. i \in DOMAIN list /\ list[i] = n
      BY <3>1, <3>2
    <3> QED BY <1>4, <1>8, <3>2, <3>3 DEF Reset
  <2>2. i = 1 /\ list # <<>>
    <3>1. ~(i > 1)
      BY <2>1
    <3> QED BY <1>0, <2>1, <3>1
  <2>3. Users(p) = {t}
    <3>1. node[n].cnt = 1
      BY <1>5, <1>8
    <3> QED BY <1>3, <1>5, <3>1, UserCounts
  <2>4. \A u \in Tasks : use[u] = p => pc'[u] = "closed"
    BY <1>1, <2>3 DEF Users
  <2>6. /\ node'[n] = Free /\ Free.port = "none" /\ Free.cnt = 0 /\ "none" \notin Ports
        /\ \A m \in Nodes \ {n} : node'[m] = node[m]
    BY <1>0, <2>1, I2cAssumption DEF Free
  <2>8. ctl'[p].ims = {} /\ \A q \in Ports \ {p} : ctl'[q] = ctl[q]
    BY <1>0, <2>1 DEF ResetReg
  <2>9. ListInv'
    <3>1. /\ ToSet(list) = {m \in Nodes : node[m].cnt # 0}
          /\ \A k, l \in DOMAIN list : list[k] = list[l] => k = l
      BY DEF Struct, ListInv
    <3>2. /\ list' = SubSeq(list, 2, Len(list)) /\ list[1] = n
          /\ \A k, l \in DOMAIN list' : list'[k] = list'[l] => k = l
          /\ ToSet(list') = ToSet(list) \ {list[1]}
      BY <1>0, <2>1, <2>2, <3>1, ListPop
    <3>3. {m \in Nodes : node'[m].cnt # 0} = {m \in Nodes : node[m].cnt # 0} \ {n}
      BY <2>6
    <3>4. ToSet(list)' = ToSet(list')
      BY DEF ToSet
    <3> QED BY <3>1, <3>2, <3>3, <3>4 DEF ListInv
  <2>10. NodeInv'
    <3> SUFFICES ASSUME NEW m \in Nodes
                 PROVE  /\ node'[m].cnt = 0 => node'[m] = Free
                        /\ node'[m].cnt # 0 =>
                             /\ node'[m].port \in Ports
                             /\ node'[m].cnt = Cardinality({u \in Tasks : /\ use'[u] = node'[m].port
                                                                         /\ pc'[u] # "closed"})
                             /\ \A k \in Nodes : node'[k].port = node'[m].port => k = m
      BY DEF NodeInv, Users
    <3>1. CASE m = n
      BY <2>6, <3>1
    <3>2. CASE m # n
      <4>1. node'[m] = node[m] /\ node[m].port # p
        BY <1>6, <2>6, <3>2
      <4>2. /\ node[m].cnt = 0 => node[m] = Free
            /\ node[m].cnt # 0 => /\ node[m].port \in Ports
                                  /\ node[m].cnt = Cardinality(Users(node[m].port))
                                  /\ \A k \in Nodes : node[k].port = node[m].port => k = m
        BY DEF Struct, NodeInv
      <4>3. \A k \in Nodes : node'[k].port = node'[m].port /\ node'[m].port \in Ports =>
                               node[k].port = node[m].port
        BY <2>6, <4>1
      <4> QED BY <1>3, <4>1, <4>2, <4>3
    <3> QED BY <3>1, <3>2
  <2>11. TaskInv'
    <3> SUFFICES ASSUME NEW u \in Tasks
                 PROVE  /\ pc'[u] # "closed" => \E m \in Nodes : node'[m].port = use'[u]
                        /\ Bound(u)' => node'[job'[u].nd].port = use'[u]
                        /\ pc'[u] \in {"com", "port", "begin"} => job'[u].wr = 0
      BY DEF TaskInv
    <3>1. job[u].nd \in Nodes
      BY DEF TypeOK, TypeTask, JobRec
    <3>2. CASE use[u] = p
      <4>1. pc'[u] = "closed"
        BY <2>4, <3>2
      <4>2. ~Bound(u)'
        BY <4>1 DEF Bound, Holds
      <4> QED BY <4>1, <4>2
    <3>3. CASE use[u] # p
      <4>1. pc'[u] = pc[u] /\ job'[u] = job[u] /\ use'[u] = use[u] /\ (Bound(u)' <=> Bound(u))
        BY <1>1, <1>2, <3>3
      <4>2. \A m \in Nodes : node[m].port = use[u] => node'[m] = node[m]
        BY <1>4, <2>6, <3>3
      <4>3. /\ pc[u] # "closed" => \E m \in Nodes : node[m].port = use[u]
            /\ Bound(u) => node[job[u].nd].port = use[u]
            /\ pc[u] \in {"com", "port", "begin"} => job[u].wr = 0
        BY DEF Struct, TaskInv
      <4> QED BY <3>1, <4>1, <4>2, <4>3
    <3> QED BY <3>2, <3>3
  <2>13. ASSUME NEW m \in Nodes, node'[m].cnt # 0
         PROVE  PortInv(m)'
    <3> DEFINE q == node[m].port
    <3>0. m # n
      BY <2>6, <2>13
    <3>1. node'[m] = node[m] /\ q \in Ports /\ q # p /\ node[m].cnt # 0
      BY <1>6, <2>6, <2>13, <3>0 DEF Struct, NodeInv
    <3>2. ctl'[q] = ctl[q] /\ wire'[q] = wire[q] /\ PortInv(m) /\ kept \subseteq kept'
      BY <1>1, <2>8, <3>1 DEF OpenInv
    <3>3. \A u \in Tasks : use[u] = q => pc'[u] = pc[u] /\ job'[u] = job[u]
      BY <1>1, <3>1
    <3> QED BY <1>1, <3>1, <3>2, <3>3, PortFrame
  <2>14. ASSUME NEW q \in Ports, ctl'[q].ims # {}
         PROVE  \E m \in Nodes : node'[m].port = q
    <3>1. q # p
      BY <2>8, <2>14
    <3>2. PICK m \in Nodes : node[m].port = q
      BY <2>8, <2>14, <3>1 DEF OpenInv
    <3>3. m # n
      BY <1>4, <3>1, <3>2
    <3> QED BY <2>6, <3>2, <3>3
  <2> QED BY <2>9, <2>10, <2>11, <2>13, <2>14 DEF Struct, OpenInv
<1> QED BY <1>7, <1>8

-------------------------------------------------------------------------------
(* The steps of a task.                                                    *)

\* Those in which the task neither holds nor takes the port's semaphore.
LEMMA CallStep ==
  ASSUME TypeOK, Struct, OpenInv, NEW t \in Tasks,
         \/ LinkCom(t) \/ EndCom(t) \/ CallMode(t) \/ TakeCom(t)
         \/ \E k \in {"write", "read"}, l \in Lens \cup ReadLens : Call(t, k, l)
  PROVE  Struct' /\ OpenInv'
<1>0. pc \in [Tasks -> Points] /\ job \in [Tasks -> JobRec]
  BY DEF TypeOK, TypeTask
<1>1. pc[t] \in {"idle", "link", "com"} /\ pc[t] # "closed" /\ ~Holds(t)
  BY DEF LinkCom, EndCom, CallMode, TakeCom, Call, Goes, Holds
<1>2. PICK n \in Nodes : node[n].port = use[t] /\ Found(use[t]) = {n}
  BY <1>1, FindsPort
<1>3. /\ UNCHANGED <<use, list, node, ctl, wire>> /\ kept \subseteq kept'
      /\ \A u \in Tasks \ {t} : pc'[u] = pc[u] /\ job'[u] = job[u]
  <2>1. CASE LinkCom(t) \/ EndCom(t)
    BY <1>0, <2>1 DEF LinkCom, EndCom, Goes
  <2>2. CASE CallMode(t)
    BY <1>0, <2>2 DEF CallMode, Goes, mem
  <2>3. CASE TakeCom(t)
    BY <1>0, <1>2, <2>3 DEF TakeCom, Goes, Return, mem
  <2>4. CASE \E k \in {"write", "read"}, l \in Lens \cup ReadLens : Call(t, k, l)
    BY <1>0, <2>4 DEF Call, Goes, mem
  <2> QED BY <2>1, <2>2, <2>3, <2>4
<1>4. /\ pc'[t] # "closed" /\ ~Holds(t)'
      /\ Bound(t)' => job'[t].nd = n
      /\ pc'[t] \in {"com", "port", "begin"} => job'[t].wr = 0
  <2>1. CASE LinkCom(t) \/ EndCom(t)
    <3>1. pc'[t] \in {"link", "idle"}
      BY <1>0, <2>1 DEF LinkCom, EndCom, Goes
    <3> QED BY <3>1 DEF Bound, Holds
  <2>2. CASE CallMode(t)
    <3>1. pc'[t] = "mode" /\ job'[t] = [job[t] EXCEPT !.nd = n]
      BY <1>0, <1>2, <2>2 DEF CallMode, Goes
    <3>2. job'[t].nd = n
      BY <1>0, <3>1 DEF JobRec
    <3> QED BY <3>1, <3>2 DEF Bound, Holds
  <2>3. CASE TakeCom(t)
    <3>2. pc[t] = "com" /\ pc'[t] = "port" /\ job'[t] = [job[t] EXCEPT !.nd = n]
      BY <1>0, <1>2, <2>3 DEF TakeCom, Goes
    <3>3. job'[t].nd = n /\ job'[t].wr = job[t].wr
      BY <1>0, <3>2 DEF JobRec
    <3>4. job[t].wr = 0
      BY <3>2 DEF Struct, TaskInv
    <3> QED BY <3>2, <3>3, <3>4 DEF Holds
  <2>4. ASSUME NEW k \in {"write", "read"}, NEW l \in Lens \cup ReadLens, Call(t, k, l)
        PROVE  pc'[t] = "com" /\ job'[t].wr = 0
    BY <1>0, <2>4 DEF Call, Goes, NoJob
  <2>5. CASE \E k \in {"write", "read"}, l \in Lens \cup ReadLens : Call(t, k, l)
    <3>1. pc'[t] = "com" /\ job'[t].wr = 0
      BY <2>4, <2>5
    <3> QED BY <3>1 DEF Bound, Holds
  <2> QED BY <2>1, <2>2, <2>3, <2>5
<1>5. Own(t, n)
  BY <1>1, <1>2, <1>3, <1>4 DEF Own
<1> QED BY <1>1, <1>2, <1>3, <1>4, <1>5, PlainStep

\* What the holder of a port relies on.
LEMMA HolderHas ==
  ASSUME TypeOK, Struct, OpenInv, NEW t \in Tasks, Holds(t), NEW n, n = job[t].nd,
         NEW p, p = use[t]
  PROVE  /\ p \in Ports /\ n \in Nodes /\ node[n].port = p /\ t \in On(n)
         /\ node[n] \in NodeRec /\ ctl[p] \in CtlRec /\ wire[p] \in Seq(Nat)
         /\ job[t] \in JobRec /\ pc[t] # "closed"
         /\ PortOk(node[n], ctl[p])
         /\ TaskOk(node[n], ctl[p], wire[p], t, pc[t], job[t])
         /\ \A u \in On(n) : Holds(u) => u = t
<1>1. Bound(t) /\ pc[t] # "closed"
  BY DEF Bound, Holds
<1>2. p \in Ports /\ n \in Nodes /\ node[n].port = p /\ t \in On(n)
  BY <1>1, FindsPort
<1>3. /\ node[n] \in NodeRec /\ ctl[p] \in CtlRec /\ wire[p] \in Seq(Nat)
      /\ job[t] \in JobRec /\ PortInv(n)
  BY <1>2, Opened DEF TypeOK, TypeTask
<1> QED BY <1>1, <1>2, <1>3 DEF PortInv

\* The port's semaphore is free: nobody holds it.
LEMMA NobodyHolds ==
  ASSUME TypeOK, Struct, OpenInv, NEW t \in Tasks, Bound(t), node[job[t].nd].sem,
         NEW n, n = job[t].nd, NEW p, p = use[t]
  PROVE  /\ p \in Ports /\ n \in Nodes /\ node[n].port = p /\ t \in On(n)
         /\ node[n] \in NodeRec /\ ctl[p] \in CtlRec /\ wire[p] \in Seq(Nat)
         /\ job[t] \in JobRec /\ pc[t] # "closed"
         /\ PortOk(node[n], ctl[p]) /\ Held(n)
         /\ ctl[p].ims = {} /\ ctl[p].fifo = <<>> /\ (~node[n].late => node[n].done = 0)
         /\ \A u \in On(n) : ~Holds(u)
<1>1. pc[t] # "closed"
  BY DEF Bound, Holds
<1>2. p \in Ports /\ n \in Nodes /\ node[n].port = p /\ t \in On(n)
  BY <1>1, FindsPort
<1>3. /\ node[n] \in NodeRec /\ ctl[p] \in CtlRec /\ wire[p] \in Seq(Nat)
      /\ job[t] \in JobRec /\ PortInv(n)
  BY <1>2, Opened DEF TypeOK, TypeTask
<1>4. \A u \in On(n) : ~Holds(u)
  BY <1>2, <1>3 DEF PortInv, TaskOk
<1>5. PortOk(node[n], ctl[p]) /\ Held(n)
  BY <1>2, <1>3 DEF PortInv
<1>6. ctl[p].ims = {} /\ ctl[p].fifo = <<>>
  BY <1>5 DEF PortOk
<1>7. ~node[n].late => node[n].done = 0
  BY <1>4, <1>5 DEF Held
<1> QED BY <1>1, <1>2, <1>3, <1>4, <1>5, <1>6, <1>7

\* A mode change resets only a controller that no com is remembered for.
LEMMA SetModeStep ==
  ASSUME TypeOK, Struct, OpenInv, NEW t \in Tasks, SetMode(t)
  PROVE  Struct' /\ OpenInv'
<1>1. PICK n, p : n = job[t].nd /\ p = use[t]
  OBVIOUS
<1> DEFINE h == node[n] c == ctl[p]
<1>2. Bound(t) /\ pc[t] = "mode" /\ pc[t] # "closed"
  BY DEF SetMode, Goes, Bound
<1>a. node[job[t].nd].sem
  BY DEF SetMode
<1>b. p \in Ports /\ n \in Nodes /\ node[n].port = p
  BY <1>1, <1>2, FindsPort
<1>3. /\ t \in On(n) /\ h \in NodeRec /\ c \in CtlRec
      /\ PortOk(h, c) /\ c.ims = {} /\ c.fifo = <<>> /\ (~h.late => h.done = 0)
      /\ \A u \in On(n) : ~Holds(u)
  BY <1>1, <1>2, <1>a, NobodyHolds
<1>4. /\ UNCHANGED <<use, list, node, wire, kept>>
      /\ pc' = [pc EXCEPT ![t] = "idle"] /\ job' = [job EXCEPT ![t] = NoJob]
      /\ ctl' = ctl \/ (/\ c.om # "master"
                        /\ ctl' = [ctl EXCEPT ![p] = [ResetReg EXCEPT !.om = "master"]])
  BY <1>1 DEF SetMode, Goes, Return, mem
<1>5. /\ pc'[t] = "idle" /\ \A u \in Tasks \ {t} : pc'[u] = pc[u] /\ job'[u] = job[u]
      /\ \A q \in Ports \ {p} : ctl'[q] = ctl[q] /\ wire'[q] = wire[q]
  BY <1>2, <1>b, <1>3, <1>4 DEF TypeOK, TypeTask, TypeCtl
<1>6. Own(t, n)
  BY <1>1, <1>2, <1>b, <1>3, <1>4, <1>5 DEF Own, Bound, Holds
<1>7. PortOk(node'[n], ctl'[p]) /\ ctl'[p].ims = {}
  <2>1. CASE ctl' = ctl
    BY <1>2, <1>b, <1>3, <1>4, <2>1
  <2>2. CASE c.om # "master" /\ ctl' = [ctl EXCEPT ![p] = [ResetReg EXCEPT !.om = "master"]]
    <3>1. h.cur = NoTask
      BY <1>2, <1>b, <1>3, <2>2 DEF PortOk
    <3>2. ctl'[p] = [ResetReg EXCEPT !.om = "master"]
      BY <1>2, <1>b, <1>3, <2>2 DEF TypeOK, TypeCtl
    <3>3. ctl'[p].ims = {} /\ ctl'[p].fifo = <<>>
      BY <3>2 DEF ResetReg
    <3>4. Resting(ctl'[p])
      BY <3>2 DEF ResetReg, Resting
    <3> QED BY <1>2, <1>b, <1>3, <1>4, <3>1, <3>3, <3>4 DEF PortOk
  <2> QED BY <1>4, <2>1, <2>2
<1>8. Held(n)'
  BY <1>2, <1>b, <1>3, <1>4, <1>7 DEF Held
<1>9. ~Holds(t)'
  BY <1>5 DEF Holds
<1> QED BY <1>1, <1>2, <1>b, <1>3, <1>6, <1>7, <1>8, <1>9, OwnStep

\* The semaphore is taken from nobody; the port is open.
LEMMA TakePortStep ==
  ASSUME TypeOK, Struct, OpenInv, NEW t \in Tasks, TakePort(t)
  PROVE  Struct' /\ OpenInv'
<1>1. PICK n, p : n = job[t].nd /\ p = use[t]
  OBVIOUS
<1> DEFINE h == node[n] c == ctl[p] g == node'[n]
<1>2. Bound(t) /\ pc[t] = "port" /\ pc[t] # "closed"
  BY DEF TakePort, Goes, Bound
<1>a. p \in Ports /\ n \in Nodes /\ node[n].port = p
  BY <1>1, <1>2, FindsPort
<1>b. node[job[t].nd].sem
  BY <1>1, <1>a, Opened DEF TakePort
<1>3. /\ t \in On(n) /\ h \in NodeRec /\ c \in CtlRec
      /\ PortOk(h, c) /\ c.ims = {} /\ c.fifo = <<>> /\ (~h.late => h.done = 0)
      /\ \A u \in On(n) : ~Holds(u)
  BY <1>1, <1>2, <1>b, NobodyHolds
<1>4. /\ UNCHANGED <<use, list, ctl, wire, kept, job>>
      /\ pc' = [pc EXCEPT ![t] = "begin"] /\ node' = [node EXCEPT ![n] = [h EXCEPT !.sem = FALSE]]
  BY <1>1 DEF TakePort, Goes
<1>5. /\ pc'[t] = "begin" /\ \A u \in Tasks \ {t} : pc'[u] = pc[u] /\ job'[u] = job[u]
      /\ g = [h EXCEPT !.sem = FALSE] /\ \A m \in Nodes \ {n} : node'[m] = node[m]
  BY <1>a, <1>4 DEF TypeOK, TypeTask, TypeNode
<1>6. /\ g.port = h.port /\ g.cnt = h.cnt /\ g.sem = FALSE /\ g.done = h.done /\ g.cur = h.cur
      /\ g.late = h.late
  BY <1>3, <1>5 DEF NodeRec
<1>7. job[t].wr = 0
  BY <1>2 DEF Struct, TaskInv
<1>8. Own(t, n)
  BY <1>1, <1>2, <1>4, <1>5, <1>6, <1>7 DEF Own
<1>9. PortOk(g, ctl'[p])
  BY <1>3, <1>4, <1>6 DEF PortOk
<1>10. TaskOk(g, ctl'[p], wire'[p], t, "begin", job'[t])
  <2>1. ~h.late => Resting(c)
    BY <1>1, <1>b, <1>3 DEF PortOk
  <2> QED BY <1>3, <1>4, <1>6, <2>1 DEF TaskOk, Reads
<1>11. Holds(t)'
  BY <1>5 DEF Holds
<1> QED BY <1>1, <1>a, <1>3, <1>5, <1>8, <1>9, <1>10, <1>11, OwnStep

\* The controller is configured for the com whose turn it is; a controller in abort ends
\* the call with the semaphore taken.
LEMMA BeginStep ==
  ASSUME TypeOK, Struct, OpenInv, NEW t \in Tasks, Begin(t)
  PROVE  Struct' /\ OpenInv'
<1>1. PICK n, p : n = job[t].nd /\ p = use[t]
  OBVIOUS
<1> DEFINE h == node[n] c == ctl[p] w == wire[p] j == job[t]
           g == node'[n] d == ctl'[p]
<1>2. Holds(t) /\ pc[t] = "begin"
  BY DEF Begin, Goes, Holds
<1>3. /\ p \in Ports /\ n \in Nodes /\ h.port = p /\ t \in On(n)
      /\ h \in NodeRec /\ c \in CtlRec /\ w \in Seq(Nat) /\ pc[t] # "closed"
      /\ PortOk(h, c) /\ TaskOk(h, c, w, t, pc[t], j)
      /\ \A u \in On(n) : Holds(u) => u = t
  BY <1>1, <1>2, HolderHas
<1>4. j.wr = 0 /\ c.ims = {}
  BY <1>2, <1>3 DEF Struct, TaskInv, TaskOk
<1>5. CASE c.st = "abort"
  <2>1. /\ UNCHANGED <<use, list, node, ctl, wire>> /\ kept' = kept \cup {t}
        /\ pc' = [pc EXCEPT ![t] = "idle"] /\ job' = [job EXCEPT ![t] = NoJob]
    BY <1>1, <1>5 DEF Begin, Goes, Return
  <2>2. /\ pc'[t] = "idle" /\ \A u \in Tasks \ {t} : pc'[u] = pc[u] /\ job'[u] = job[u]
    BY <2>1 DEF TypeOK, TypeTask
  <2>3. Own(t, n)
    BY <1>1, <1>3, <2>1, <2>2 DEF Own, Bound, Holds
  <2>4. Held(n)'
    BY <1>2, <1>3, <1>4, <2>1 DEF Held, TaskOk
  <2>5. ~Holds(t)'
    BY <2>2 DEF Holds
  <2>6. PortOk(g, d)
    BY <1>3, <2>1
  <2> QED BY <1>1, <1>3, <2>3, <2>4, <2>5, <2>6, OwnStep
<1>6. CASE c.st # "abort"
  <2>1. /\ UNCHANGED <<use, list, kept, job>> /\ pc' = [pc EXCEPT ![t] = "start"]
        /\ node' = [node EXCEPT ![n] = [h EXCEPT !.cur = t, !.pos = 0, !.len = 0]]
        /\ ctl' = IF h.cur # t
                  THEN [ctl EXCEPT ![p] = [c EXCEPT !.cfg = t, !.ims = {}, !.om = "master"]]
                  ELSE ctl
        /\ wire' = [wire EXCEPT ![p] = <<>>]
    BY <1>1, <1>6 DEF Begin, Goes
  <2>2. /\ pc'[t] = "start" /\ \A u \in Tasks \ {t} : pc'[u] = pc[u] /\ job'[u] = job[u]
        /\ g = [h EXCEPT !.cur = t, !.pos = 0, !.len = 0]
        /\ \A m \in Nodes \ {n} : node'[m] = node[m]
        /\ \A q \in Ports \ {p} : ctl'[q] = ctl[q] /\ wire'[q] = wire[q]
        /\ wire'[p] = <<>>
    BY <1>3, <2>1 DEF TypeOK, TypeTask, TypeNode, TypeCtl
  <2>3. d = IF h.cur # t THEN [c EXCEPT !.cfg = t, !.ims = {}, !.om = "master"] ELSE c
    BY <1>3, <2>1 DEF TypeOK, TypeCtl
  <2>4. /\ d.cfg = t /\ d.om = "master" /\ d.ims = {} /\ d.fifo = c.fifo
        /\ d.rx = c.rx /\ d.st = c.st /\ d.dir = c.dir
    <3>1. CASE h.cur = t
      <4>1. t # NoTask
        BY I2cAssumption
      <4> QED BY <1>3, <1>4, <2>3, <3>1, <4>1 DEF PortOk
    <3>2. CASE h.cur # t
      BY <1>3, <2>3, <3>2 DEF CtlRec
    <3> QED BY <3>1, <3>2
  <2>5. /\ g.port = h.port /\ g.cnt = h.cnt /\ g.sem = h.sem /\ g.done = h.done /\ g.cur = t
        /\ g.late = h.late
    BY <1>3, <2>2 DEF NodeRec
  <2>6. Own(t, n)
    BY <1>1, <1>3, <2>1, <2>2, <2>5 DEF Own
  <2>7. h.sem = FALSE /\ (~h.late => h.done = 0 /\ c.fifo = <<>> /\ Resting(d))
    BY <1>2, <1>3, <2>4 DEF TaskOk, Resting
  <2>8. PortOk(g, d)
    BY <2>4, <2>5, <2>7 DEF PortOk
  <2>9. TaskOk(g, d, wire'[p], t, "start", job'[t])
    BY <1>4, <2>1, <2>2, <2>4, <2>5, <2>7, SentNothing DEF TaskOk, Writes, Reads
  <2>10. Holds(t)'
    BY <2>2 DEF Holds
  <2> QED BY <1>1, <1>3, <2>2, <2>6, <2>8, <2>9, <2>10, OwnStep
<1> QED BY <1>5, <1>6

\* A chunk of a write is put into the FIFO, which is empty.
LEMMA StartWriteStep ==
  ASSUME TypeOK, Struct, OpenInv, NEW t \in Tasks, StartWrite(t)
  PROVE  Struct' /\ OpenInv'
<1>1. PICK n, p : n = job[t].nd /\ p = use[t]
  OBVIOUS
<1> DEFINE h == node[n] c == ctl[p] w == wire[p] j == job[t]
           g == node'[n] d == ctl'[p]
<1>2. Holds(t) /\ pc[t] = "start" /\ j.kind = "write"
  BY DEF StartWrite, Goes, Holds
<1>3. /\ p \in Ports /\ n \in Nodes /\ h.port = p /\ t \in On(n)
      /\ h \in NodeRec /\ c \in CtlRec /\ w \in Seq(Nat) /\ pc[t] # "closed"
      /\ PortOk(h, c) /\ TaskOk(h, c, w, t, pc[t], j)
      /\ \A u \in On(n) : Holds(u) => u = t
  BY <1>1, <1>2, HolderHas
<1>4. PICK b : b = InFifo(p, j.wr, Chunk(t))
  OBVIOUS
<1>5. PICK k : k = Chunk(t)
  OBVIOUS
<1>6. /\ j.wr \in Nat /\ k \in Nat \ {0} /\ k = Min2(j.len - j.wr, Row)
  BY <1>5, ChunkTypes DEF TypeOK, Chunk
<1>7. /\ b \in Seq(Nat) /\ Len(b) \in Nat /\ Len(b) <= k
      /\ \A i \in 1 .. Len(b) : b[i] = j.wr + i
  <2>1. TypeCtl /\ k \in Int /\ k >= 0
    BY <1>6 DEF TypeOK
  <2> QED BY <1>3, <1>4, <1>5, <1>6, <2>1, FifoTypes
<1>8. /\ UNCHANGED <<use, list, wire, kept, job>> /\ pc' = [pc EXCEPT ![t] = "check"]
      /\ node' = [node EXCEPT ![n] = [h EXCEPT !.op = "write", !.buf = t, !.base = j.wr,
                                               !.len = k, !.pos = Len(b)]]
      /\ ctl' = [ctl EXCEPT ![p] = [c EXCEPT !.st = "busy", !.dir = "write", !.left = k,
                                             !.fresh = TRUE, !.raw = {}, !.fifo = @ \o b]]
  BY <1>1, <1>4, <1>5 DEF StartWrite, Goes
<1>9. /\ pc'[t] = "check" /\ \A u \in Tasks \ {t} : pc'[u] = pc[u] /\ job'[u] = job[u]
      /\ g = [h EXCEPT !.op = "write", !.buf = t, !.base = j.wr, !.len = k, !.pos = Len(b)]
      /\ d = [c EXCEPT !.st = "busy", !.dir = "write", !.left = k, !.fresh = TRUE,
                       !.raw = {}, !.fifo = @ \o b]
      /\ \A m \in Nodes \ {n} : node'[m] = node[m]
      /\ \A q \in Ports \ {p} : ctl'[q] = ctl[q] /\ wire'[q] = wire[q]
  BY <1>3, <1>8 DEF TypeOK, TypeTask, TypeNode, TypeCtl
<1>10. /\ g.port = h.port /\ g.cnt = h.cnt /\ g.sem = h.sem /\ g.done = h.done /\ g.cur = h.cur
       /\ g.late = h.late /\ g.op = "write" /\ g.buf = t /\ g.base = j.wr /\ g.len = k
       /\ g.pos = Len(b)
  BY <1>3, <1>9 DEF NodeRec
<1>11. /\ d.st = "busy" /\ d.dir = "write" /\ d.left = k /\ d.fresh = TRUE /\ d.raw = {}
       /\ d.fifo = c.fifo \o b /\ d.cfg = c.cfg /\ d.om = c.om /\ d.ims = c.ims
       /\ d.rx = c.rx
  BY <1>3, <1>9 DEF CtlRec
<1>12. Own(t, n)
  BY <1>1, <1>3, <1>8, <1>9, <1>10 DEF Own
<1>13. /\ h.sem = FALSE /\ h.cur = t /\ (c.ims # {} => h.buf = t)
       /\ ~h.late => /\ c.ims = {} /\ h.done = 0 /\ Sent(w, c.fifo, j.wr, j.wr)
                     /\ Resting(d)
  BY <1>2, <1>3, <1>11 DEF TaskOk, Writes, Resting
<1>14. PortOk(g, d)
  BY <1>3, <1>10, <1>11, <1>13 DEF PortOk
<1>15. ~h.late => Started(g, d, wire'[p], job'[t])
  <2> SUFFICES ASSUME ~h.late PROVE Started(g, d, wire'[p], job'[t])
    OBVIOUS
  <2>1. c.fifo \in Seq(Nat)
    BY <1>3 DEF CtlRec
  <2>2. Sent(w, c.fifo \o b, j.wr + Len(b), j.wr)
    BY <1>3, <1>6, <1>7, <1>13, <2>1, SentFill
  <2>3. g.base + g.pos = j.wr + Len(b) /\ g.base + g.len - d.left = j.wr
    BY <1>6, <1>7, <1>10, <1>11
  <2>4. Sent(wire'[p], d.fifo, g.base + g.pos, g.base + g.len - d.left)
    BY <1>8, <1>11, <2>2, <2>3
  <2>5. g.pos <= g.len /\ d.left <= g.len
    BY <1>6, <1>7, <1>10, <1>11
  <2> QED BY <1>6, <1>8, <1>10, <1>11, <1>13, <2>4, <2>5 DEF Started
<1>16. TaskOk(g, d, wire'[p], t, "check", job'[t])
  BY <1>2, <1>8, <1>10, <1>11, <1>13, <1>15 DEF TaskOk, Writes
<1>17. Holds(t)'
  BY <1>9 DEF Holds
<1> QED BY <1>1, <1>3, <1>9, <1>12, <1>14, <1>16, <1>17, OwnStep

\* A read leaves the FIFO empty, with or without a start address.
LEMMA StartAddressStep ==
  ASSUME TypeOK, Struct, OpenInv, NEW t \in Tasks, NEW addr \in BOOLEAN, StartAddress(t, addr)
  PROVE  Struct' /\ OpenInv'
<1>1. PICK n, p : n = job[t].nd /\ p = use[t]
  OBVIOUS
<1> DEFINE h == node[n] c == ctl[p] w == wire[p] j == job[t]
           g == node'[n] d == ctl'[p]
<1>2. Holds(t) /\ pc[t] = "start" /\ j.kind = "read"
  BY DEF StartAddress, Goes, Holds
<1>3. /\ p \in Ports /\ n \in Nodes /\ h.port = p /\ t \in On(n)
      /\ h \in NodeRec /\ c \in CtlRec /\ w \in Seq(Nat) /\ pc[t] # "closed"
      /\ PortOk(h, c) /\ TaskOk(h, c, w, t, pc[t], j)
      /\ \A u \in On(n) : Holds(u) => u = t
  BY <1>1, <1>2, HolderHas
<1>4. PICK q \in {"check", "read"} :
        /\ UNCHANGED <<use, list, wire, kept, job>> /\ pc' = [pc EXCEPT ![t] = q]
        /\ node' = [node EXCEPT ![n] = [h EXCEPT !.op = "read", !.buf = t, !.base = 0,
                                                 !.len = j.len, !.pos = 0]]
        /\ \/ ctl' = ctl
           \/ ctl' = [ctl EXCEPT ![p] = [c EXCEPT !.st = "busy", !.dir = "write", !.left = 0,
                                                  !.fresh = TRUE]]
  BY <1>1 DEF StartAddress, Goes
<1>5. /\ pc'[t] = q /\ \A u \in Tasks \ {t} : pc'[u] = pc[u] /\ job'[u] = job[u]
      /\ g = [h EXCEPT !.op = "read", !.buf = t, !.base = 0, !.len = j.len, !.pos = 0]
      /\ \/ d = c
         \/ d = [c EXCEPT !.st = "busy", !.dir = "write", !.left = 0, !.fresh = TRUE]
      /\ \A m \in Nodes \ {n} : node'[m] = node[m]
      /\ \A r \in Ports \ {p} : ctl'[r] = ctl[r] /\ wire'[r] = wire[r]
  BY <1>3, <1>4 DEF TypeOK, TypeTask, TypeNode, TypeCtl
<1>6. /\ g.port = h.port /\ g.cnt = h.cnt /\ g.sem = h.sem /\ g.done = h.done /\ g.cur = h.cur
      /\ g.late = h.late /\ g.op = "read" /\ g.buf = t /\ g.len = j.len
      /\ g.pos = 0
  BY <1>3, <1>5 DEF NodeRec
<1>7. /\ d.fifo = c.fifo /\ d.cfg = c.cfg /\ d.om = c.om /\ d.ims = c.ims /\ d.rx = c.rx
      /\ d.dir = "write" \/ (d.st = c.st /\ d.dir = c.dir)
  BY <1>3, <1>5 DEF CtlRec
<1>8. Own(t, n)
  BY <1>1, <1>3, <1>4, <1>5, <1>6 DEF Own
<1>9. /\ h.sem = FALSE /\ h.cur = t /\ (c.ims # {} => h.buf = t)
      /\ ~h.late => c.ims = {} /\ h.done = 0 /\ c.fifo = <<>> /\ Resting(d)
  BY <1>2, <1>3, <1>7 DEF TaskOk, Reads, Resting
<1>10. PortOk(g, d)
  BY <1>3, <1>6, <1>7, <1>9 DEF PortOk
<1>11. TaskOk(g, d, wire'[p], t, pc'[t], job'[t])
  BY <1>2, <1>4, <1>5, <1>6, <1>7, <1>9 DEF TaskOk, Reads
<1>12. Holds(t)'
  BY <1>5 DEF Holds
<1> QED BY <1>1, <1>3, <1>8, <1>10, <1>11, <1>12, OwnStep

\* After a refusal the same chunk is started again: nothing of it has left.
LEMMA CheckWriteStep ==
  ASSUME TypeOK, Struct, OpenInv, NEW t \in Tasks, CheckWrite(t)
  PROVE  Struct' /\ OpenInv'
<1>1. PICK n, p : n = job[t].nd /\ p = use[t]
  OBVIOUS
<1> DEFINE h == node[n] c == ctl[p] w == wire[p] j == job[t]
           g == node'[n] d == ctl'[p]
<1>2. Holds(t) /\ pc[t] = "check" /\ j.kind = "write"
  BY DEF CheckWrite, Goes, Holds
<1>3. /\ p \in Ports /\ n \in Nodes /\ h.port = p /\ t \in On(n)
      /\ h \in NodeRec /\ c \in CtlRec /\ w \in Seq(Nat) /\ pc[t] # "closed"
      /\ PortOk(h, c) /\ TaskOk(h, c, w, t, pc[t], j) /\ j \in JobRec
      /\ \A u \in On(n) : Holds(u) => u = t
  BY <1>1, <1>2, HolderHas
<1>4. /\ h.sem = FALSE /\ h.cur = t /\ h.buf = t
      /\ ~h.late => c.ims = {} /\ h.done = 0 /\ Started(h, c, w, j)
  BY <1>2, <1>3 DEF TaskOk, Writes
<1>a. ~h.late => Resting(c)
  BY <1>2, <1>3 DEF TaskOk
<1>5. UNCHANGED <<use, list, node, wire, kept>>
  BY DEF CheckWrite, mem
<1>6. CASE c.st # "abort"
  <2>1. /\ pc' = [pc EXCEPT ![t] = "wait"] /\ job' = [job EXCEPT ![t] = [j EXCEPT !.found = TRUE]]
        /\ ctl' = [ctl EXCEPT ![p] = [c EXCEPT !.ims = {"tx", "berr", "done"}]]
    BY <1>1, <1>6 DEF CheckWrite, Goes, Listen
  <2>2. /\ pc'[t] = "wait" /\ \A u \in Tasks \ {t} : pc'[u] = pc[u] /\ job'[u] = job[u]
        /\ job'[t] = [j EXCEPT !.found = TRUE] /\ d = [c EXCEPT !.ims = {"tx", "berr", "done"}]
        /\ \A q \in Ports \ {p} : ctl'[q] = ctl[q] /\ wire'[q] = wire[q]
    BY <1>3, <1>5, <2>1 DEF TypeOK, TypeTask, TypeCtl
  <2>3. /\ job'[t].nd = j.nd /\ job'[t].kind = j.kind /\ job'[t].wr = j.wr /\ job'[t].len = j.len
    BY <1>3, <2>2 DEF JobRec
  <2>4. /\ d.st = c.st /\ d.cause = c.cause /\ d.dir = c.dir /\ d.left = c.left
        /\ d.fresh = c.fresh /\ d.fifo = c.fifo /\ d.raw = c.raw /\ d.cfg = c.cfg /\ d.om = c.om
        /\ d.rx = c.rx
    BY <1>3, <2>2 DEF CtlRec
  <2>5. Own(t, n)
    BY <1>1, <1>3, <1>5, <2>2, <2>3 DEF Own
  <2>6. PortOk(g, d)
    BY <1>3, <1>4, <1>5, <2>4 DEF PortOk
  <2>7. ~h.late => Started(h, d, w, job'[t])
    BY <1>4, <2>3, <2>4 DEF Started
  <2>8. TaskOk(g, d, wire'[p], t, "wait", job'[t])
    <3>1. ~h.late => Resting(d)
      BY <1>a, <2>4 DEF Resting
    <3> QED BY <1>2, <1>4, <1>5, <2>3, <2>7, <3>1 DEF TaskOk, Writes
  <2>9. Holds(t)'
    BY <2>2 DEF Holds
  <2> QED BY <1>1, <1>3, <2>2, <2>5, <2>6, <2>8, <2>9, OwnStep
<1>7. CASE c.st = "abort" /\ c.cause = "nack" /\ j.found
  <2>1. /\ pc' = [pc EXCEPT ![t] = "start"] /\ job' = job
        /\ ctl' = [ctl EXCEPT ![p] = [ResetReg EXCEPT !.cfg = t, !.om = "master", !.rx = c.rx]]
    BY <1>1, <1>7 DEF CheckWrite, Goes
  <2>2. /\ pc'[t] = "start" /\ \A u \in Tasks \ {t} : pc'[u] = pc[u] /\ job'[u] = job[u]
        /\ d = [ResetReg EXCEPT !.cfg = t, !.om = "master", !.rx = c.rx]
        /\ \A q \in Ports \ {p} : ctl'[q] = ctl[q] /\ wire'[q] = wire[q]
    BY <1>3, <1>5, <2>1 DEF TypeOK, TypeTask, TypeCtl
  <2>3. /\ d.cfg = t /\ d.om = "master" /\ d.ims = {} /\ d.fifo = <<>> /\ d.rx = c.rx
        /\ d.st = "idle"
    BY <2>2 DEF ResetReg
  <2>4. Own(t, n)
    BY <1>1, <1>3, <1>5, <2>1, <2>2 DEF Own
  <2>5. PortOk(g, d)
    BY <1>3, <1>4, <1>5, <2>3 DEF PortOk
  <2>6. ~h.late => Sent(w, <<>>, j.wr, j.wr)
    <3> SUFFICES ASSUME ~h.late PROVE Sent(w, <<>>, j.wr, j.wr)
      OBVIOUS
    <3>1. /\ c.left = h.len /\ h.base = j.wr
          /\ Sent(w, c.fifo, h.base + h.pos, h.base + h.len - c.left)
      BY <1>4, <1>7 DEF Started
    <3>2. h.len \in Nat /\ h.base \in Nat
      BY <1>3 DEF NodeRec
    <3>3. h.base + h.len - c.left = j.wr /\ j.wr \in Nat
      BY <3>1, <3>2
    <3> QED BY <1>3, <3>1, <3>3, SentFlush
  <2>7. TaskOk(g, d, wire'[p], t, "start", job'[t])
    <3>1. ~h.late => Resting(d)
      BY <1>a, <2>3 DEF Resting
    <3> QED BY <1>2, <1>4, <1>5, <2>1, <2>3, <2>6, <3>1 DEF TaskOk, Writes
  <2>8. Holds(t)'
    BY <2>2 DEF Holds
  <2> QED BY <1>1, <1>3, <2>2, <2>4, <2>5, <2>7, <2>8, OwnStep
<1>8. CASE c.st = "abort" /\ ~(c.cause = "nack" /\ j.found)
  <2>1. /\ pc' = [pc EXCEPT ![t] = "end"] /\ job' = [job EXCEPT ![t] = [j EXCEPT !.err = "fail"]]
        /\ ctl' = ctl
    BY <1>1, <1>8 DEF CheckWrite, Goes
  <2>2. /\ pc'[t] = "end" /\ \A u \in Tasks \ {t} : pc'[u] = pc[u] /\ job'[u] = job[u]
        /\ job'[t] = [j EXCEPT !.err = "fail"]
    BY <1>3, <2>1 DEF TypeOK, TypeTask
  <2>3. /\ job'[t].nd = j.nd /\ job'[t].kind = j.kind /\ job'[t].err = "fail"
    BY <1>3, <2>2 DEF JobRec
  <2>4. Own(t, n)
    BY <1>1, <1>3, <1>5, <2>1, <2>2, <2>3 DEF Own
  <2>5. PortOk(g, d)
    BY <1>3, <1>5, <2>1
  <2>6. TaskOk(g, d, wire'[p], t, "end", job'[t])
    BY <1>2, <1>4, <1>a, <1>5, <2>1, <2>3 DEF TaskOk, Writes
  <2>7. Holds(t)'
    BY <2>2 DEF Holds
  <2> QED BY <1>1, <1>3, <2>2, <2>4, <2>5, <2>6, <2>7, OwnStep
<1> QED BY <1>6, <1>7, <1>8

\* The start address of a read is answered or refused.
LEMMA CheckReadStep ==
  ASSUME TypeOK, Struct, OpenInv, NEW t \in Tasks, CheckRead(t)
  PROVE  Struct' /\ OpenInv'
<1>1. PICK n, p : n = job[t].nd /\ p = use[t]
  OBVIOUS
<1> DEFINE h == node[n] c == ctl[p] w == wire[p] j == job[t]
           g == node'[n] d == ctl'[p]
<1>2. Holds(t) /\ pc[t] = "check" /\ j.kind = "read"
  BY DEF CheckRead, Goes, Holds
<1>3. /\ p \in Ports /\ n \in Nodes /\ h.port = p /\ t \in On(n)
      /\ h \in NodeRec /\ c \in CtlRec /\ w \in Seq(Nat) /\ pc[t] # "closed"
      /\ PortOk(h, c) /\ TaskOk(h, c, w, t, pc[t], j) /\ j \in JobRec
      /\ \A u \in On(n) : Holds(u) => u = t
  BY <1>1, <1>2, HolderHas
<1>4. PICK q, e : /\ q = (IF c.st = "abort" THEN "end" ELSE "read")
                  /\ e = (IF c.st = "abort" THEN "refused" ELSE j.err)
  OBVIOUS
<1>5. /\ UNCHANGED <<use, list, node, ctl, wire, kept>>
      /\ pc' = [pc EXCEPT ![t] = q] /\ job' = [job EXCEPT ![t] = [j EXCEPT !.err = e]]
  BY <1>1, <1>4 DEF CheckRead, Goes, mem
<1>6. /\ pc'[t] = q /\ \A u \in Tasks \ {t} : pc'[u] = pc[u] /\ job'[u] = job[u]
      /\ job'[t] = [j EXCEPT !.err = e]
  BY <1>3, <1>5 DEF TypeOK, TypeTask
<1>7. /\ job'[t].nd = j.nd /\ job'[t].kind = j.kind /\ job'[t].len = j.len
      /\ job'[t].err = e
  BY <1>3, <1>6 DEF JobRec
<1>8. Own(t, n)
  BY <1>1, <1>3, <1>4, <1>5, <1>6, <1>7 DEF Own
<1>9. TaskOk(g, d, wire'[p], t, q, job'[t])
  BY <1>2, <1>3, <1>4, <1>5, <1>7 DEF TaskOk, Reads
<1>10. PortOk(g, d)
  BY <1>3, <1>5
<1>11. Holds(t)'
  BY <1>4, <1>6 DEF Holds
<1> QED BY <1>1, <1>3, <1>6, <1>8, <1>9, <1>10, <1>11, OwnStep

\* The bytes of a read are asked for, with an empty FIFO.
LEMMA StartReadStep ==
  ASSUME TypeOK, Struct, OpenInv, NEW t \in Tasks, StartRead(t)
  PROVE  Struct' /\ OpenInv'
<1>1. PICK n, p : n = job[t].nd /\ p = use[t]
  OBVIOUS
<1> DEFINE h == node[n] c == ctl[p] w == wire[p] j == job[t]
           g == node'[n] d == ctl'[p]
<1>2. Holds(t) /\ pc[t] = "read"
  BY DEF StartRead, Goes, Holds
<1>3. /\ p \in Ports /\ n \in Nodes /\ h.port = p /\ t \in On(n)
      /\ h \in NodeRec /\ c \in CtlRec /\ w \in Seq(Nat) /\ pc[t] # "closed"
      /\ PortOk(h, c) /\ TaskOk(h, c, w, t, pc[t], j) /\ j \in JobRec
      /\ \A u \in On(n) : Holds(u) => u = t
  BY <1>1, <1>2, HolderHas
<1>4. /\ UNCHANGED <<use, list, node, wire, kept, job>> /\ pc' = [pc EXCEPT ![t] = "wait"]
      /\ ctl' = [ctl EXCEPT ![p] = [c EXCEPT !.st = "busy", !.dir = "read", !.left = j.len,
                                             !.fresh = TRUE, !.raw = {}, !.ims = {"rx", "berr", "ws"}]]
  BY <1>1 DEF StartRead, Goes, mem
<1>5. /\ pc'[t] = "wait" /\ \A u \in Tasks \ {t} : pc'[u] = pc[u] /\ job'[u] = job[u]
      /\ d = [c EXCEPT !.st = "busy", !.dir = "read", !.left = j.len,
                       !.fresh = TRUE, !.raw = {}, !.ims = {"rx", "berr", "ws"}]
      /\ \A q \in Ports \ {p} : ctl'[q] = ctl[q] /\ wire'[q] = wire[q]
  BY <1>3, <1>4 DEF TypeOK, TypeTask, TypeCtl
<1>6. /\ d.dir = "read" /\ d.fifo = c.fifo /\ d.cfg = c.cfg /\ d.om = c.om
      /\ d.left = j.len /\ d.raw = {} /\ d.rx = c.rx
  BY <1>3, <1>5 DEF CtlRec
<1>7. Own(t, n)
  BY <1>1, <1>3, <1>4, <1>5 DEF Own
<1>8. /\ h.sem = FALSE /\ h.cur = t /\ h.buf = t
      /\ ~h.late => /\ c.ims = {} /\ h.done = 0 /\ j.kind # "write"
                    /\ (j.kind = "read" => Reads(h, c, "read", j)) /\ c.rx = 0
  BY <1>2, <1>3 DEF TaskOk, Writes, Resting
<1>9. PortOk(g, d)
  BY <1>3, <1>4, <1>6, <1>8 DEF PortOk
<1>10. TaskOk(g, d, wire'[p], t, "wait", job'[t])
  <2>1. ASSUME ~h.late, j.kind = "read" PROVE Reads(h, d, "wait", j)
    <3>1. h.op = "read" /\ h.len = j.len /\ h.pos = 0 /\ h.done = 0 /\ c.fifo = <<>>
      BY <1>8, <2>1 DEF Reads
    <3>2. d.rx + d.left = j.len
      BY <1>3, <1>6, <1>8, <2>1 DEF JobRec
    <3> QED BY <1>6, <3>1, <3>2 DEF Reads, Received
  <2> QED BY <1>3, <1>4, <1>6, <1>8, <2>1 DEF TaskOk, JobRec
<1>11. Holds(t)'
  BY <1>5 DEF Holds
<1> QED BY <1>1, <1>3, <1>5, <1>7, <1>9, <1>10, <1>11, OwnStep

\* done_sem says that the chunk has left, so the next one follows it on the bus.
LEMMA TakeDoneStep ==
  ASSUME TypeOK, Struct, OpenInv, NEW t \in Tasks, TakeDone(t)
  PROVE  Struct' /\ OpenInv'
<1>1. PICK n, p : n = job[t].nd /\ p = use[t]
  OBVIOUS
<1> DEFINE h == node[n] c == ctl[p] w == wire[p] j == job[t]
           g == node'[n] d == ctl'[p]
<1>2. Holds(t) /\ pc[t] = "wait" /\ node[job[t].nd].done > 0
  BY DEF TakeDone, Goes, Holds
<1>3. /\ p \in Ports /\ n \in Nodes /\ h.port = p /\ t \in On(n)
      /\ h \in NodeRec /\ c \in CtlRec /\ w \in Seq(Nat) /\ pc[t] # "closed"
      /\ PortOk(h, c) /\ TaskOk(h, c, w, t, pc[t], j) /\ j \in JobRec
      /\ \A u \in On(n) : Holds(u) => u = t
  BY <1>1, <1>2, HolderHas
<1>4. PICK k, q, x : /\ k = Chunk(t) /\ q = (IF More(t) THEN "start" ELSE "end")
                     /\ x = (IF More(t) THEN j.wr + k ELSE j.wr)
  OBVIOUS
<1>5. /\ UNCHANGED <<use, list, ctl, wire, kept>> /\ pc' = [pc EXCEPT ![t] = q]
      /\ node' = [node EXCEPT ![n] = [h EXCEPT !.done = @ - 1]]
      /\ job' = [job EXCEPT ![t] = [j EXCEPT !.wr = x, !.err = j.err]]
  BY <1>1, <1>4 DEF TakeDone, Goes, Advance
<1>6. /\ pc'[t] = q /\ \A u \in Tasks \ {t} : pc'[u] = pc[u] /\ job'[u] = job[u]
      /\ g = [h EXCEPT !.done = @ - 1] /\ job'[t] = [j EXCEPT !.wr = x, !.err = j.err]
      /\ \A m \in Nodes \ {n} : node'[m] = node[m]
  BY <1>3, <1>5 DEF TypeOK, TypeTask, TypeNode
<1>7. /\ g.port = h.port /\ g.cnt = h.cnt /\ g.sem = h.sem /\ g.done = h.done - 1
      /\ g.cur = h.cur /\ g.late = h.late /\ g.buf = h.buf /\ g.pos = h.pos
  BY <1>3, <1>6 DEF NodeRec
<1>8. /\ job'[t].nd = j.nd /\ job'[t].kind = j.kind /\ job'[t].len = j.len
      /\ job'[t].wr = x /\ job'[t].err = j.err
  BY <1>3, <1>6 DEF JobRec
<1>9. Own(t, n)
  BY <1>1, <1>3, <1>4, <1>5, <1>6, <1>7, <1>8 DEF Own
<1>10. /\ h.sem = FALSE /\ h.cur = t /\ h.buf = t
       /\ ~h.late => /\ h.done = 1 /\ c.ims = {}
                     /\ (j.kind = "write" => Started(h, c, w, j))
                     /\ (j.kind = "read" => Reads(h, c, "wait", j))
                     /\ (j.kind = "write" => Resting(c))
  BY <1>1, <1>2, <1>3 DEF TaskOk, Writes, PortOk
<1>a. ~h.late => Resting(c)
  <2>1. j.kind = "read" \/ j.kind = "write"
    BY <1>3 DEF JobRec
  <2> QED BY <1>10, <2>1 DEF Reads, Received, Resting
<1>11. PortOk(g, d)
  BY <1>3, <1>5, <1>7, <1>10 DEF PortOk
<1>12. /\ j.wr \in Nat /\ j.len \in Nat /\ k \in Nat \ {0} /\ k = Min2(j.len - j.wr, Row)
       /\ j.wr + k <= j.len
  BY <1>4, ChunkTypes DEF TypeOK, Chunk
<1>13. ASSUME ~h.late, j.kind = "write"
       PROVE  Sent(w, c.fifo, j.wr + k, j.wr + k)
  <2>1. /\ h.base = j.wr /\ h.len = k /\ h.pos <= h.len /\ c.left = 0
        /\ Sent(w, c.fifo, h.base + h.pos, h.base + h.len - c.left)
    BY <1>10, <1>12, <1>13 DEF Started
  <2>2. h.pos \in Nat /\ c.fifo \in Seq(Nat)
    BY <1>3 DEF NodeRec, CtlRec
  <2>3. Sent(w, c.fifo, j.wr + h.pos, j.wr + k) /\ j.wr + h.pos <= j.wr + k
    <3>1. h.base + h.pos = j.wr + h.pos /\ h.base + h.len - c.left = j.wr + k
      BY <1>12, <2>1
    <3> QED BY <1>12, <2>1, <2>2, <3>1
  <2>4. j.wr + h.pos = j.wr + k
    <3>1. j.wr + h.pos \in Nat /\ j.wr + k \in Nat
      BY <1>12, <2>2
    <3> QED BY <1>3, <2>2, <2>3, <3>1, SentAll
  <2> QED BY <2>3, <2>4
<1>14. ASSUME ~h.late, j.kind = "write"
       PROVE  Writes(g, d, wire'[p], q, job'[t])
  <2>1. CASE More(t)
    BY <1>4, <1>5, <1>8, <1>13, <1>14, <2>1 DEF Writes
  <2>2. CASE ~More(t)
    <3>1. j.wr + k = j.len
      BY <1>4, <1>12, <1>14, <2>2 DEF More
    <3> QED BY <1>4, <1>5, <1>8, <1>13, <1>14, <2>2, <3>1 DEF Writes
  <2> QED BY <2>1, <2>2
<1>15. ASSUME ~h.late, j.kind = "read"
       PROVE  Reads(g, d, q, job'[t])
  <2>1. q = "end"
    BY <1>4, <1>15 DEF More
  <2>2. h.pos = j.len /\ c.fifo = <<>>
    BY <1>10, <1>15 DEF Reads, Received
  <2> QED BY <1>5, <1>7, <1>8, <2>1, <2>2 DEF Reads
<1>16. TaskOk(g, d, wire'[p], t, q, job'[t])
  BY <1>4, <1>5, <1>7, <1>8, <1>10, <1>a, <1>14, <1>15 DEF TaskOk
<1>17. Holds(t)'
  BY <1>4, <1>6 DEF Holds
<1> QED BY <1>1, <1>3, <1>6, <1>9, <1>11, <1>16, <1>17, OwnStep

\* A time-out makes the port one of which no more is promised than whose the buffer is.
LEMMA TimeoutStep ==
  ASSUME TypeOK, Struct, OpenInv, NEW t \in Tasks, Timeout(t)
  PROVE  Struct' /\ OpenInv'
<1>1. PICK n, p : n = job[t].nd /\ p = use[t]
  OBVIOUS
<1> DEFINE h == node[n] c == ctl[p] w == wire[p] j == job[t]
           g == node'[n] d == ctl'[p]
<1>2. Holds(t) /\ pc[t] = "wait"
  BY DEF Timeout, Goes, Holds
<1>3. /\ p \in Ports /\ n \in Nodes /\ h.port = p /\ t \in On(n)
      /\ h \in NodeRec /\ c \in CtlRec /\ w \in Seq(Nat) /\ pc[t] # "closed"
      /\ PortOk(h, c) /\ TaskOk(h, c, w, t, pc[t], j) /\ j \in JobRec
      /\ \A u \in On(n) : Holds(u) => u = t
  BY <1>1, <1>2, HolderHas
<1>4. /\ UNCHANGED <<use, list, ctl, wire>>
      /\ node' = [node EXCEPT ![n] = [h EXCEPT !.late = TRUE]]
  BY <1>1 DEF Timeout
<1>5. /\ g = [h EXCEPT !.late = TRUE] /\ \A m \in Nodes \ {n} : node'[m] = node[m]
  BY <1>3, <1>4 DEF TypeOK, TypeNode
<1>6. /\ g.port = h.port /\ g.cnt = h.cnt /\ g.sem = h.sem /\ g.done = h.done
      /\ g.cur = h.cur /\ g.late = TRUE /\ g.buf = h.buf
  BY <1>3, <1>5 DEF NodeRec
<1>7. PortOk(g, d)
  BY <1>3, <1>4, <1>6 DEF PortOk
<1>8. h.sem = FALSE /\ h.cur = t /\ h.buf = t
  BY <1>2, <1>3 DEF TaskOk
<1>9. CASE c.st = "abort" /\ j.kind = "write" /\ c.cause # "berr"
  <2>1. pc' = [pc EXCEPT ![t] = "idle"] /\ kept' = kept \cup {t}
        /\ job' = [job EXCEPT ![t] = NoJob]
    BY <1>1, <1>9 DEF Timeout, Goes, Return
  <2>2. pc'[t] = "idle" /\ \A u \in Tasks \ {t} : pc'[u] = pc[u] /\ job'[u] = job[u]
    BY <2>1 DEF TypeOK, TypeTask
  <2>3. Own(t, n)
    BY <1>1, <1>3, <1>4, <1>5, <1>6, <2>1, <2>2 DEF Own, Bound, Holds
  <2>4. Held(n)'
    <3>1. t \in On(n)'
      BY <1>3, <1>4, <1>6 DEF On
    <3> QED BY <1>6, <2>1, <3>1 DEF Held
  <2>5. ~Holds(t)'
    BY <2>2 DEF Holds
  <2> QED BY <1>1, <1>3, <1>7, <2>3, <2>4, <2>5, OwnStep
<1>10. CASE ~(c.st = "abort" /\ j.kind = "write" /\ c.cause # "berr")
  <2>1. PICK x, e : /\ x = (IF More(t) THEN j.wr + Chunk(t) ELSE j.wr)
                    /\ e = (IF c.st = "abort" THEN "aborted" ELSE j.err)
    OBVIOUS
  <2>2. PICK q \in {"start", "end"} : q = (IF More(t) THEN "start" ELSE "end")
    OBVIOUS
  <2>3. /\ pc' = [pc EXCEPT ![t] = q] /\ kept' = kept
        /\ job' = [job EXCEPT ![t] = [j EXCEPT !.wr = x, !.err = e]]
    BY <1>1, <1>10, <2>1, <2>2 DEF Timeout, Goes, Advance
  <2>4. /\ pc'[t] = q /\ \A u \in Tasks \ {t} : pc'[u] = pc[u] /\ job'[u] = job[u]
        /\ job'[t] = [j EXCEPT !.wr = x, !.err = e]
    BY <2>3 DEF TypeOK, TypeTask
  <2>5. job'[t].nd = j.nd
    BY <1>3, <2>4 DEF JobRec
  <2>6. Own(t, n)
    BY <1>1, <1>3, <1>4, <1>5, <1>6, <2>2, <2>3, <2>4, <2>5 DEF Own
  <2>7. TaskOk(g, d, wire'[p], t, q, job'[t])
    BY <1>6, <1>8 DEF TaskOk
  <2>8. Holds(t)'
    BY <2>4 DEF Holds
  <2> QED BY <1>1, <1>3, <1>7, <2>4, <2>6, <2>7, <2>8, OwnStep
<1> QED BY <1>9, <1>10

\* The port is given back without interrupts, and with an empty FIFO.
LEMMA EndStep ==
  ASSUME TypeOK, Struct, OpenInv, NEW t \in Tasks, End(t)
  PROVE  Struct' /\ OpenInv'
<1>1. PICK n, p : n = job[t].nd /\ p = use[t]
  OBVIOUS
<1> DEFINE h == node[n] c == ctl[p] w == wire[p] j == job[t]
           g == node'[n] d == ctl'[p]
<1>2. Holds(t) /\ pc[t] = "end"
  BY DEF End, Goes, Holds
<1>3. /\ p \in Ports /\ n \in Nodes /\ h.port = p /\ t \in On(n)
      /\ h \in NodeRec /\ c \in CtlRec /\ w \in Seq(Nat) /\ pc[t] # "closed"
      /\ PortOk(h, c) /\ TaskOk(h, c, w, t, pc[t], j) /\ j \in JobRec
      /\ \A u \in On(n) : Holds(u) => u = t
  BY <1>1, <1>2, HolderHas
<1>4. /\ UNCHANGED <<use, list, wire, kept>> /\ pc' = [pc EXCEPT ![t] = "idle"]
      /\ job' = [job EXCEPT ![t] = NoJob]
      /\ node' = [node EXCEPT ![n] = [h EXCEPT !.sem = TRUE]]
      /\ ctl' = [ctl EXCEPT ![p] = [c EXCEPT !.raw = {}, !.ims = {}, !.fifo = <<>>,
                                             !.rx = 0]]
  BY <1>1 DEF End, Goes, Return
<1>5. /\ pc'[t] = "idle" /\ \A u \in Tasks \ {t} : pc'[u] = pc[u] /\ job'[u] = job[u]
      /\ g = [h EXCEPT !.sem = TRUE] 
      /\ d = [c EXCEPT !.raw = {}, !.ims = {}, !.fifo = <<>>, !.rx = 0]
      /\ \A m \in Nodes \ {n} : node'[m] = node[m]
      /\ \A q \in Ports \ {p} : ctl'[q] = ctl[q] /\ wire'[q] = wire[q]
  BY <1>3, <1>4 DEF TypeOK, TypeTask, TypeNode, TypeCtl
<1>6. /\ g.port = h.port /\ g.cnt = h.cnt /\ g.done = h.done /\ g.cur = h.cur
      /\ g.late = h.late
  BY <1>3, <1>5 DEF NodeRec
<1>7. /\ d.cfg = c.cfg /\ d.om = c.om /\ d.ims = {} /\ d.fifo = <<>>
      /\ d.rx = 0 /\ d.st = c.st /\ d.dir = c.dir
  BY <1>3, <1>5 DEF CtlRec
<1>8. ~h.late => h.done = 0 /\ Resting(d)
  BY <1>2, <1>3, <1>7 DEF TaskOk, Resting
<1>9. PortOk(g, d)
  BY <1>3, <1>6, <1>7, <1>8 DEF PortOk
<1>10. Own(t, n)
  BY <1>1, <1>3, <1>4, <1>5, <1>6 DEF Own, Bound, Holds
<1>11. Held(n)'
  BY <1>3, <1>6, <1>7, <1>8 DEF Held
<1>12. ~Holds(t)'
  BY <1>5 DEF Holds
<1> QED BY <1>1, <1>3, <1>9, <1>10, <1>11, <1>12, OwnStep

-------------------------------------------------------------------------------
(* The interrupt and the controllers.                                      *)

\* What the interrupt relies on: its port is open, and without a time-out some task waits
\* for it that has not been woken.
LEMMA IrqHas ==
  ASSUME TypeOK, Struct, OpenInv, NEW p \in Ports, ctl[p].ims # {}
  PROVE  \E n \in Nodes :
           /\ node[n].port = p /\ Found(p) = {n} /\ node[n] \in NodeRec /\ ctl[p] \in CtlRec
           /\ wire[p] \in Seq(Nat) /\ PortOk(node[n], ctl[p]) /\ Held(n)
           /\ node[n].sem = FALSE /\ (~node[n].late => node[n].done = 0)
           /\ \A t \in On(n) : Holds(t) =>
                /\ TaskOk(node[n], ctl[p], wire[p], t, pc[t], job[t])
                /\ pc[t] # "begin" /\ node[n].buf = t /\ node[n].cur = t
                /\ ~node[n].late =>
                     /\ pc[t] = "wait"
                     /\ job[t].kind = "write" => Started(node[n], ctl[p], wire[p], job[t])
                     /\ job[t].kind = "write" => Resting(ctl[p])
                     /\ job[t].kind = "read" => Reads(node[n], ctl[p], "wait", job[t])
<1>1. PICK n \in Nodes : node[n].port = p
  BY DEF OpenInv
<1>2. /\ node[n] \in NodeRec /\ ctl[p] \in CtlRec /\ wire[p] \in Seq(Nat)
      /\ PortInv(n) /\ Found(p) = {n}
  BY <1>1, Opened
<1>3. PortOk(node[n], ctl[p]) /\ Held(n)
  BY <1>1, <1>2 DEF PortInv
<1>4. node[n].sem \in BOOLEAN
  BY <1>2 DEF NodeRec
<1>5. node[n].sem = FALSE /\ (~node[n].late => node[n].done = 0)
  BY <1>3, <1>4 DEF PortOk
<1>6. ASSUME NEW t \in On(n), Holds(t)
      PROVE  /\ TaskOk(node[n], ctl[p], wire[p], t, pc[t], job[t])
             /\ pc[t] # "begin" /\ node[n].buf = t /\ node[n].cur = t
             /\ ~node[n].late =>
                  /\ pc[t] = "wait"
                  /\ job[t].kind = "write" => Started(node[n], ctl[p], wire[p], job[t])
                  /\ job[t].kind = "write" => Resting(ctl[p])
                  /\ job[t].kind = "read" => Reads(node[n], ctl[p], "wait", job[t])
  <2>1. TaskOk(node[n], ctl[p], wire[p], t, pc[t], job[t])
    BY <1>1, <1>2, <1>6 DEF PortInv
  <2> QED BY <2>1 DEF TaskOk, Writes
<1> QED BY <1>1, <1>2, <1>3, <1>5, <1>6

\* The interrupt: an error quiets the port, the end gives done_sem once, room in the FIFO
\* takes the bytes that follow those it holds.
LEMMA IrqStep ==
  ASSUME TypeOK, Struct, OpenInv, NEW p \in Ports, Irq(p)
  PROVE  Struct' /\ OpenInv'
<1>1. ctl[p].ims # {} /\ UNCHANGED <<use, list, wire, kept, pc, job>>
  BY DEF Irq, Events
<1>2. PICK n \in Nodes :
           /\ node[n].port = p /\ Found(p) = {n} /\ node[n] \in NodeRec /\ ctl[p] \in CtlRec
           /\ wire[p] \in Seq(Nat) /\ PortOk(node[n], ctl[p]) /\ Held(n)
           /\ node[n].sem = FALSE /\ (~node[n].late => node[n].done = 0)
           /\ \A t \in On(n) : Holds(t) =>
                /\ TaskOk(node[n], ctl[p], wire[p], t, pc[t], job[t])
                /\ pc[t] # "begin" /\ node[n].buf = t /\ node[n].cur = t
                /\ ~node[n].late =>
                     /\ pc[t] = "wait"
                     /\ job[t].kind = "write" => Started(node[n], ctl[p], wire[p], job[t])
                     /\ job[t].kind = "write" => Resting(ctl[p])
                     /\ job[t].kind = "read" => Reads(node[n], ctl[p], "wait", job[t])
  BY <1>1, IrqHas
<1> DEFINE h == node[n] c == ctl[p] w == wire[p] g == node'[n] d == ctl'[p]
<1>3. ASSUME \A m \in Nodes \ {n} : node'[m] = node[m],
             \A q \in Ports \ {p} : ctl'[q] = ctl[q],
             g.port = h.port, g.cnt = h.cnt, g.sem = h.sem, g.cur = h.cur, g.buf = h.buf,
             g.late = h.late, d.cfg = c.cfg, d.om = c.om,
             ~h.late => g.done = 0 \/ (g.done = 1 /\ d.ims = {}),
             \A t \in On(n) : Holds(t) /\ ~h.late =>
               /\ job[t].kind = "write" => Started(g, d, w, job[t]) /\ Resting(d)
               /\ job[t].kind = "read" => Reads(g, d, "wait", job[t])
      PROVE  Struct' /\ OpenInv'
  <2>1. PortOk(g, d)
    BY <1>2, <1>3 DEF PortOk
  <2>2. ASSUME NEW t \in On(n), Holds(t)
        PROVE  TaskOk(g, d, wire'[p], t, pc[t], job[t])
    <3>1. /\ pc[t] # "begin" /\ h.buf = t /\ h.cur = t /\ wire'[p] = w
          /\ (~h.late => pc[t] = "wait")
      BY <1>1, <1>2, <2>2
    <3> QED BY <1>2, <1>3, <2>2, <3>1 DEF TaskOk, Writes
  <2>3. Held(n)'
    <3>1. On(n)' = On(n)
      BY <1>1, <1>3 DEF On
    <3>2. \A t \in On(n) : (Holds(t)' <=> Holds(t)) /\ (t \in kept <=> t \in kept')
      BY <1>1 DEF Holds
    <3>3. /\ \E t \in On(n) : Holds(t) \/ t \in kept
          /\ ~h.late => \E t \in On(n) : Holds(t)
      BY <1>1, <1>2 DEF Held
    <3> QED BY <1>3, <3>1, <3>2, <3>3 DEF Held
  <2> QED BY <1>1, <1>2, <1>3, <2>1, <2>2, <2>3, PortStep
<1>4. DoneMax \in Nat \ {0}
  BY I2cAssumption
<1>5. CASE Quiet(p) /\ UNCHANGED node
  <2>1. /\ d = [c EXCEPT !.ims = {}, !.raw = {}]
        /\ \A q \in Ports \ {p} : ctl'[q] = ctl[q]
    BY <1>2, <1>5 DEF Quiet, TypeOK, TypeCtl
  <2>2. /\ d.cfg = c.cfg /\ d.om = c.om /\ d.ims = {} /\ d.raw = {} /\ d.fifo = c.fifo
        /\ d.dir = c.dir /\ d.left = c.left /\ d.st = c.st /\ d.cause = c.cause
        /\ d.fresh = c.fresh /\ d.rx = c.rx
    BY <1>2, <2>1 DEF CtlRec
  <2>3. \A t : /\ Started(h, c, w, job[t]) => Started(g, d, w, job[t])
               /\ Reads(h, c, "wait", job[t]) => Reads(g, d, "wait", job[t])
               /\ Resting(c) => Resting(d)
    BY <1>5, <2>2 DEF Started, Reads, Received, Resting
  <2> QED BY <1>2, <1>3, <1>5, <2>1, <2>2, <2>3
<1>6. CASE "done" \in Events(p) /\ Done(p, n)
  <2>1. PICK x, y : x = Min2(h.done + 1, DoneMax) /\ y = Drained(p, n)
    OBVIOUS
  <2>2. /\ d = [c EXCEPT !.ims = {}, !.raw = {}, !.rx = @ - y]
        /\ \A q \in Ports \ {p} : ctl'[q] = ctl[q]
    BY <1>2, <1>6, <2>1 DEF Done, TypeOK, TypeCtl
  <2>3. /\ g = [h EXCEPT !.done = x, !.pos = @ + y]
        /\ \A m \in Nodes \ {n} : node'[m] = node[m]
    BY <1>2, <1>6, <2>1 DEF Done, TypeOK, TypeNode
  <2>4. /\ d.cfg = c.cfg /\ d.om = c.om /\ d.ims = {} /\ d.raw = {} /\ d.fifo = c.fifo
        /\ d.dir = c.dir /\ d.left = c.left /\ d.st = c.st /\ d.cause = c.cause
        /\ d.fresh = c.fresh /\ d.rx = c.rx - y
    BY <1>2, <2>2 DEF CtlRec
  <2>5. /\ g.port = h.port /\ g.cnt = h.cnt /\ g.sem = h.sem /\ g.cur = h.cur
        /\ g.late = h.late /\ g.op = h.op /\ g.buf = h.buf /\ g.base = h.base
        /\ g.len = h.len /\ g.done = x /\ g.pos = h.pos + y
    BY <1>2, <2>3 DEF NodeRec
  <2>6. ~h.late => x = 1
    BY <1>2, <1>4, <2>1 DEF Min2
  <2>7. "done" \in c.raw
    BY <1>6 DEF Events, Level
  <2>a. /\ h.pos \in Nat /\ h.len \in Nat /\ c.rx \in Nat /\ c.left \in Nat
        /\ c.dir = "write" => y = 0
        /\ c.dir = "read" => y = Min2(c.rx, h.len - h.pos)
    <3>1. c.rx \in 0 .. RxFifo /\ RxFifo \in Nat
      BY <1>2, I2cAssumption DEF CtlRec
    <3> QED BY <1>2, <2>1, <3>1 DEF Drained, NodeRec, CtlRec
  <2>8. ASSUME NEW t, Started(h, c, w, job[t]), Resting(c)
        PROVE  Started(g, d, w, job[t]) /\ Resting(d)
    <3>1. c.dir = "write" /\ c.left = 0
      BY <2>7, <2>8 DEF Started
    <3>2. g.pos = h.pos /\ d.rx = c.rx
      BY <2>4, <2>5, <2>a, <3>1
    <3>3. Started(g, d, w, job[t])
      BY <2>4, <2>5, <2>8, <3>1, <3>2 DEF Started
    <3> QED BY <2>4, <2>8, <3>2, <3>3 DEF Resting
  <2>9. ASSUME NEW t, Reads(h, c, "wait", job[t]), ~h.late
        PROVE  Reads(g, d, "wait", job[t])
    <3>1. /\ c.dir = "read" /\ h.pos = 0 /\ c.rx + c.left = job[t].len /\ c.left = 0
          /\ c.st # "busy" /\ h.len = job[t].len /\ h.op = "read" /\ c.fifo = <<>>
      BY <1>2, <2>7, <2>9 DEF Reads, Received
    <3>2. c.rx = job[t].len /\ y = job[t].len
      BY <2>a, <3>1 DEF Min2
    <3>3. g.pos = job[t].len /\ d.rx = 0
      BY <2>4, <2>5, <2>a, <3>1, <3>2
    <3> QED BY <2>4, <2>5, <2>6, <2>9, <3>1, <3>3 DEF Reads, Received
  <2> QED BY <1>2, <1>3, <2>2, <2>3, <2>4, <2>5, <2>6, <2>8, <2>9
<1>7. CASE h.op = "read" /\ WithoutStop(p, n)
  <2>1. /\ d = [c EXCEPT !.ims = (@ \ {"ws"}) \cup {"done"}, !.raw = @ \ {"ws"}]
        /\ \A q \in Ports \ {p} : ctl'[q] = ctl[q] /\ node' = node
    BY <1>2, <1>7 DEF WithoutStop, TypeOK, TypeCtl
  <2>2. /\ d.cfg = c.cfg /\ d.om = c.om /\ d.fifo = c.fifo /\ d.dir = c.dir /\ d.rx = c.rx
        /\ d.left = c.left /\ d.st = c.st /\ d.raw \subseteq c.raw
    BY <1>2, <2>1 DEF CtlRec
  <2>3. node' = node
    BY <1>7 DEF WithoutStop
  <2>4. \A t : /\ ~Started(h, c, w, job[t])
               /\ Reads(h, c, "wait", job[t]) => Reads(g, d, "wait", job[t])
    BY <1>7, <2>2, <2>3 DEF Started, Reads, Received
  <2> QED BY <1>2, <1>3, <2>1, <2>2, <2>3, <2>4
<1>8. CASE h.op = "write" /\ Refill(p, n)
  <2>1. PICK b, m : /\ b = InFifo(p, h.base + h.pos, h.len - h.pos)
                    /\ m = (IF h.pos + Len(b) = h.len THEN (c.ims \ {"tx"}) \cup {"done"}
                            ELSE c.ims)
    OBVIOUS
  <2>2. /\ g = [h EXCEPT !.pos = @ + Len(b)] /\ \A i \in Nodes \ {n} : node'[i] = node[i]
        /\ d = [c EXCEPT !.fifo = @ \o b, !.ims = m] /\ \A q \in Ports \ {p} : ctl'[q] = ctl[q]
    BY <1>2, <1>8, <2>1 DEF Refill, TypeOK, TypeCtl, TypeNode
  <2>3. /\ d.cfg = c.cfg /\ d.om = c.om /\ d.raw = c.raw /\ d.fifo = c.fifo \o b
        /\ d.dir = c.dir /\ d.left = c.left /\ d.st = c.st /\ d.cause = c.cause
        /\ d.fresh = c.fresh /\ d.rx = c.rx
    BY <1>2, <2>2 DEF CtlRec
  <2>4. /\ g.port = h.port /\ g.cnt = h.cnt /\ g.sem = h.sem /\ g.cur = h.cur
        /\ g.late = h.late /\ g.op = h.op /\ g.buf = h.buf /\ g.base = h.base
        /\ g.len = h.len /\ g.done = h.done /\ g.pos = h.pos + Len(b)
    BY <1>2, <2>2 DEF NodeRec
  <2>5. ASSUME NEW t \in Tasks, Started(h, c, w, job[t])
        PROVE  Started(g, d, w, job[t])
    <3>1. /\ h.pos <= h.len /\ Sent(w, c.fifo, h.base + h.pos, h.base + h.len - c.left)
          /\ c.left <= h.len
      BY <2>5 DEF Started
    <3>2. /\ h.pos \in Nat /\ h.len \in Nat /\ h.base \in Nat /\ c.left \in Nat
          /\ c.fifo \in Seq(Nat)
      BY <1>2 DEF NodeRec, CtlRec
    <3>3. /\ h.len - h.pos \in Int /\ h.len - h.pos >= 0 /\ h.base + h.pos \in Nat /\ TypeCtl
          /\ h.base + h.len - c.left \in Nat
      <4>1. TypeCtl
        BY DEF TypeOK
      <4>2. /\ h.pos <= h.len /\ c.left <= h.len
            /\ h.pos \in Nat /\ h.len \in Nat /\ h.base \in Nat /\ c.left \in Nat
        BY <3>1, <3>2
      <4>3. \A x, y, z, k \in Nat : y <= x /\ k <= x =>
              /\ x - y \in Int /\ x - y >= 0 /\ z + y \in Nat /\ z + x - k \in Nat
        OBVIOUS
      <4> QED BY <4>1, <4>2, <4>3
    <3>4. /\ b \in Seq(Nat) /\ Len(b) \in Nat /\ Len(b) <= h.len - h.pos
          /\ \A i \in 1 .. Len(b) : b[i] = h.base + h.pos + i
      BY <2>1, <3>3, FifoTypes
    <3>5. Sent(w, c.fifo \o b, (h.base + h.pos) + Len(b), h.base + h.len - c.left)
      BY <1>2, <3>1, <3>2, <3>3, <3>4, SentFill
    <3>6. g.pos <= g.len /\ g.base + g.pos = (h.base + h.pos) + Len(b)
      BY <2>4, <3>2, <3>4
    <3>7. Sent(w, d.fifo, g.base + g.pos, g.base + g.len - d.left)
      BY <2>3, <2>4, <3>5, <3>6
    <3> QED BY <2>3, <2>4, <2>5, <3>6, <3>7 DEF Started
  <2>6. \A t : ~Reads(h, c, "wait", job[t])
    BY <1>8 DEF Reads
  <2>7. \A t \in On(n) : t \in Tasks
    BY DEF On
  <2>8. Resting(c) => Resting(d)
    BY <2>3 DEF Resting
  <2> QED BY <1>2, <1>3, <2>2, <2>3, <2>4, <2>5, <2>6, <2>7, <2>8
<1> QED BY <1>2, <1>5, <1>6, <1>7, <1>8 DEF Irq

\* A controller whose port is not open: no interrupt of it is enabled, nobody uses it.
LEMMA ClosedStep ==
  ASSUME TypeOK, Struct, OpenInv, NEW p \in Ports, \A n \in Nodes : node[n].port # p,
         UNCHANGED <<use, list, node, kept, pc, job>>, ctl'[p].ims = ctl[p].ims,
         \A q \in Ports \ {p} : ctl'[q] = ctl[q] /\ wire'[q] = wire[q]
  PROVE  Struct' /\ OpenInv'
<1>1. Struct'
  <2>1. ListInv'
    BY DEF Struct, ListInv
  <2>2. NodeInv'
    BY DEF Struct, NodeInv, Users
  <2>3. TaskInv'
    BY DEF Struct, TaskInv, Bound, Holds
  <2> QED BY <2>1, <2>2, <2>3 DEF Struct
<1>2. ASSUME NEW m \in Nodes, node'[m].cnt # 0 PROVE PortInv(m)'
  <2>1. node[m].port \in Ports \ {p} /\ PortInv(m)
    BY <1>2 DEF Struct, NodeInv, OpenInv
  <2> QED BY <2>1, PortFrame
<1>3. \A q \in Ports : ctl'[q].ims # {} => \E n \in Nodes : node'[n].port = q
  BY DEF OpenInv
<1> QED BY <1>1, <1>2, <1>3 DEF OpenInv

\* The controller goes on by itself: bytes leave in order, and a refusal comes before the
\* first of a chunk.
LEMMA BusStep ==
  ASSUME TypeOK, Struct, OpenInv, NEW p \in Ports, Bus(p)
  PROVE  Struct' /\ OpenInv'
<1> DEFINE c == ctl[p] w == wire[p] d == ctl'[p] v == wire'[p]
<1>1. /\ c \in CtlRec /\ c.fifo \in Seq(Nat) /\ w \in Seq(Nat)
      /\ c.left \in Nat /\ c.st = "busy"
  BY DEF TypeOK, TypeCtl, CtlRec, Bus, Shift, Receive, Abort, Hw
<1>2. /\ UNCHANGED <<use, list, node, kept, pc, job>>
      /\ \A q \in Ports \ {p} : ctl'[q] = ctl[q] /\ wire'[q] = wire[q]
  <2>1. CASE Shift(p)
    BY <2>1 DEF Shift, Hw, mem, TypeOK, TypeCtl
  <2>2. CASE Receive(p)
    BY <2>2 DEF Receive, Hw, mem, TypeOK, TypeCtl
  <2>3. CASE \E cause \in Causes : Abort(p, cause)
    BY <2>3 DEF Abort, Hw, mem, TypeOK, TypeCtl
  <2> QED BY <2>1, <2>2, <2>3 DEF Bus
<1>3. ASSUME d.ims = c.ims, d.cfg = c.cfg, d.om = c.om, c.fifo = <<>> => d.fifo = <<>>,
             Resting(c) => Resting(d),
             \A n \in Nodes, t \in Tasks : Holds(t) /\ node[n].late = FALSE =>
               /\ job[t].kind = "write" /\ pc[t] # "begin" /\ Writes(node[n], c, w, pc[t], job[t])
                    => Writes(node[n], d, v, pc[t], job[t])
               /\ job[t].kind = "read" /\ Reads(node[n], c, pc[t], job[t])
                    => Reads(node[n], d, pc[t], job[t])
      PROVE  Struct' /\ OpenInv'
  <2>1. CASE \A n \in Nodes : node[n].port # p
    BY <1>2, <1>3, <2>1, ClosedStep
  <2>2. ASSUME NEW n \in Nodes, node[n].port = p PROVE Struct' /\ OpenInv'
    <3>1. PortInv(n) /\ node[n].late \in BOOLEAN
      BY <2>2, Opened DEF NodeRec
    <3>2. PortOk(node'[n], d)
      BY <1>2, <1>3, <2>2, <3>1 DEF PortInv, PortOk
    <3>3. ASSUME NEW t \in On(n), Holds(t)
          PROVE  TaskOk(node'[n], d, v, t, pc[t], job[t])
      <4>1. t \in Tasks /\ TaskOk(node[n], c, w, t, pc[t], job[t])
        BY <2>2, <3>1, <3>3 DEF PortInv, On
      <4> QED BY <1>2, <1>3, <3>1, <3>3, <4>1 DEF TaskOk
    <3>4. Held(n)'
      <4>1. On(n)' = On(n) /\ \A t \in Tasks : Holds(t)' <=> Holds(t)
        BY <1>2 DEF On, Holds
      <4> QED BY <1>2, <1>3, <2>2, <3>1, <4>1 DEF PortInv, Held, On
    <3> QED BY <1>2, <2>2, <3>2, <3>3, <3>4, PortStep
  <2> QED BY <2>1, <2>2
<1>4. CASE Shift(p)
  <2>1. PICK st, raw : /\ st = (IF c.left = 1 THEN "idle" ELSE c.st)
                       /\ raw = (IF c.left = 1 THEN c.raw \cup {"done"} ELSE c.raw)
    OBVIOUS
  <2>2. /\ d = [c EXCEPT !.left = @ - 1, !.fifo = Tail(@), !.fresh = FALSE, !.st = st, !.raw = raw]
        /\ v = Append(w, Head(c.fifo)) /\ c.fifo # <<>> /\ c.left > 0 /\ c.dir = "write"
    BY <1>1, <1>4, <2>1 DEF Shift, Hw, TypeOK, TypeCtl
  <2>3. /\ d.ims = c.ims /\ d.cfg = c.cfg /\ d.om = c.om /\ d.dir = c.dir /\ d.st = st
        /\ d.left = c.left - 1 /\ d.fresh = FALSE /\ d.raw = raw /\ d.fifo = Tail(c.fifo)
        /\ d.rx = c.rx
    BY <1>1, <2>2 DEF CtlRec
  <2>4. st # "abort"
    BY <1>1, <2>1
  <2>5. ASSUME NEW n \in Nodes, NEW t \in Tasks, Holds(t), node[n].late = FALSE, pc[t] # "begin",
               Writes(node[n], c, w, pc[t], job[t])
        PROVE  Writes(node[n], d, v, pc[t], job[t])
    <3> DEFINE h == node[n] j == job[t]
    <3>0. h \in NodeRec /\ j.wr \in Nat /\ j.len \in Nat
      BY DEF TypeOK, TypeNode, TypeTask, JobRec
    <3>1. \A k \in Nat : ~Sent(w, c.fifo, k, k)
      BY <1>1, <2>2, SentAll
    <3>2. pc[t] # "start" /\ pc[t] # "read" /\ (pc[t] = "end" => j.err # "ok")
      BY <2>5, <3>0, <3>1 DEF Writes
    <3>3. ASSUME Started(h, c, w, j) PROVE Started(h, d, v, j)
      <4>1. /\ h.pos \in Nat /\ h.len \in Nat /\ h.base \in Nat
        BY <3>0 DEF NodeRec
      <4>2. /\ h.pos <= h.len /\ c.left <= h.len /\ ("done" \in c.raw => c.left = 0)
            /\ Sent(w, c.fifo, h.base + h.pos, h.base + h.len - c.left) /\ (h.done # 0 => c.left = 0)
        BY <3>3 DEF Started
      <4>3. /\ h.base + h.pos \in Nat /\ h.base + h.len - c.left \in Nat
            /\ h.base + h.len - (c.left - 1) = (h.base + h.len - c.left) + 1
            /\ c.left - 1 <= h.len /\ c.left # 0
        <5>1. \A x, y, z, k \in Nat : k <= x /\ k > 0 =>
                /\ z + y \in Nat /\ z + x - k \in Nat
                /\ z + x - (k - 1) = (z + x - k) + 1 /\ k - 1 <= x /\ k # 0
          OBVIOUS
        <5>2. c.left \in Nat /\ c.left > 0 /\ c.left <= h.len
          BY <1>1, <2>2, <4>2
        <5> QED BY <4>1, <5>1, <5>2
      <4>4. Sent(v, d.fifo, h.base + h.pos, (h.base + h.len - c.left) + 1)
        BY <1>1, <2>2, <2>3, <4>2, <4>3, SentShift
      <4>5. "done" \in raw => c.left - 1 = 0
        BY <2>1, <4>2, <4>3
      <4> QED BY <2>3, <2>4, <3>3, <4>2, <4>3, <4>4, <4>5 DEF Started
    <3> QED BY <2>5, <3>2, <3>3 DEF Writes
  <2>6. \A n \in Nodes, t \in Tasks : ~Reads(node[n], c, pc[t], job[t])
    BY <2>2 DEF Reads
  <2>7. Resting(c) => Resting(d)
    BY <2>2, <2>3 DEF Resting
  <2> QED BY <1>3, <2>2, <2>3, <2>5, <2>6, <2>7
<1>5. CASE Receive(p)
  <2>0. PICK raw : raw = (IF c.left = 1 THEN c.raw \cup {"ws"} ELSE c.raw)
    OBVIOUS
  <2>1. /\ v = w /\ c.dir = "read"
        /\ \/ /\ c.left > 0
              /\ d = [c EXCEPT !.left = @ - 1, !.fresh = FALSE, !.rx = @ + 1, !.raw = raw]
           \/ c.left = 0 /\ d = [c EXCEPT !.st = "idle", !.raw = @ \cup {"done"}]
    BY <1>1, <1>5, <2>0 DEF Receive, Hw, TypeOK, TypeCtl
  <2>2. /\ d.ims = c.ims /\ d.cfg = c.cfg /\ d.om = c.om /\ d.fifo = c.fifo /\ d.dir = c.dir
        /\ \/ /\ c.left > 0 /\ d.left = c.left - 1 /\ d.rx = c.rx + 1
              /\ "done" \in d.raw => "done" \in c.raw
           \/ c.left = 0 /\ d.left = c.left /\ d.rx = c.rx /\ d.st = "idle"
    <3>1. CASE /\ c.left > 0
               /\ d = [c EXCEPT !.left = @ - 1, !.fresh = FALSE, !.rx = @ + 1, !.raw = raw]
      <4>1. "done" \in raw => "done" \in c.raw
        BY <2>0
      <4>2. /\ d.ims = c.ims /\ d.cfg = c.cfg /\ d.om = c.om /\ d.fifo = c.fifo /\ d.dir = c.dir
            /\ d.left = c.left - 1 /\ d.rx = c.rx + 1 /\ d.raw = raw
        BY <1>1, <3>1 DEF CtlRec
      <4> QED BY <3>1, <4>1, <4>2
    <3>2. CASE c.left = 0 /\ d = [c EXCEPT !.st = "idle", !.raw = @ \cup {"done"}]
      BY <1>1, <3>2 DEF CtlRec
    <3> QED BY <2>1, <3>1, <3>2
  <2>a. c.rx \in Nat /\ ~Resting(c)
    <3>1. c.rx \in 0 .. RxFifo /\ RxFifo \in Nat
      BY <1>1, I2cAssumption DEF CtlRec
    <3> QED BY <1>1, <2>1, <3>1 DEF Resting
  <2>b. \A n \in Nodes : \A j : Received(node[n], c, j) => Received(node[n], d, j)
    <3> SUFFICES ASSUME NEW n \in Nodes, NEW j, Received(node[n], c, j)
                 PROVE  Received(node[n], d, j)
      OBVIOUS
    <3>1. node[n].done = 0
      BY <1>1 DEF Received
    <3>2. /\ node[n].pos = 0 /\ c.rx + c.left = j.len
          /\ "done" \in c.raw => c.left = 0
      BY <3>1 DEF Received
    <3>3. d.rx + d.left = j.len
      <4>1. CASE d.left = c.left - 1 /\ d.rx = c.rx + 1
        <5>1. \A x, y \in Nat : (x + 1) + (y - 1) = x + y
          OBVIOUS
        <5> QED BY <1>1, <2>a, <3>2, <4>1, <5>1
      <4>2. CASE d.left = c.left /\ d.rx = c.rx
        BY <3>2, <4>2
      <4> QED BY <2>2, <4>1, <4>2
    <3>4. "done" \in d.raw => d.left = 0 /\ d.st # "busy"
      BY <1>1, <2>2, <3>2
    <3> QED BY <2>1, <2>2, <3>1, <3>2, <3>3, <3>4 DEF Received
  <2>3. \A n \in Nodes, t \in Tasks :
          /\ ~Started(node[n], c, w, job[t])
          /\ Reads(node[n], c, pc[t], job[t]) => Reads(node[n], d, pc[t], job[t])
    BY <2>1, <2>2, <2>b DEF Reads, Started
  <2>4. \A n \in Nodes, t \in Tasks :
          Writes(node[n], c, w, pc[t], job[t]) => Writes(node[n], d, v, pc[t], job[t])
    BY <2>1, <2>2, <2>3 DEF Writes
  <2> QED BY <1>3, <2>2, <2>a, <2>3, <2>4
<1>6. ASSUME NEW cause \in Causes, Abort(p, cause)
      PROVE  Struct' /\ OpenInv'
  <2>1. PICK raw : raw = (IF cause = "berr" THEN c.raw \cup {"berr"} ELSE c.raw)
    OBVIOUS
  <2>2. /\ v = w /\ d = [c EXCEPT !.st = "abort", !.cause = cause, !.raw = raw]
        /\ cause = "nack" => c.fresh
    BY <1>6, <2>1 DEF Abort, Hw, TypeOK, TypeCtl
  <2>3. /\ d.ims = c.ims /\ d.cfg = c.cfg /\ d.om = c.om /\ d.fifo = c.fifo /\ d.dir = c.dir
        /\ d.left = c.left /\ d.fresh = c.fresh /\ d.raw = raw /\ d.cause = cause
        /\ d.rx = c.rx /\ d.st = "abort"
    BY <1>1, <2>2 DEF CtlRec
  <2>4. "done" \in raw => "done" \in c.raw
    BY <2>1
  <2>5. \A n \in Nodes, t \in Tasks :
          /\ Started(node[n], c, w, job[t]) => Started(node[n], d, v, job[t])
          /\ Reads(node[n], c, pc[t], job[t]) => Reads(node[n], d, pc[t], job[t])
    BY <2>2, <2>3, <2>4 DEF Reads, Started, Received
  <2>6. \A n \in Nodes, t \in Tasks :
          Writes(node[n], c, w, pc[t], job[t]) => Writes(node[n], d, v, pc[t], job[t])
    BY <2>2, <2>3, <2>5 DEF Writes
  <2>7. Resting(c) => Resting(d)
    BY <2>3 DEF Resting
  <2> QED BY <1>3, <2>3, <2>5, <2>6, <2>7
<1> QED BY <1>4, <1>5, <1>6 DEF Bus

-------------------------------------------------------------------------------
(* The theorems.                                                           *)

\* No step but i2c_reset_port takes a port off the list ...
LEMMA LostByReset ==
  ASSUME [Next]_vars
  PROVE  lost' = lost \/ \E t \in Tasks : Reset(t)
<1>1. ASSUME NEW t \in Tasks, Transfer(t) PROVE lost' = lost
  <2>1. \/ TakeCom(t) \/ TakePort(t) \/ Begin(t) \/ StartWrite(t)
        \/ \E addr \in BOOLEAN : StartAddress(t, addr)
        \/ CheckWrite(t) \/ CheckRead(t) \/ StartRead(t)
        \/ TakeDone(t) \/ Timeout(t) \/ End(t) \/ SetMode(t) \/ EndCom(t)
    BY <1>1, Zenon DEF Transfer
  <2>2. CASE \/ TakeCom(t) \/ TakePort(t) \/ Begin(t) \/ StartWrite(t)
             \/ \E addr \in BOOLEAN : StartAddress(t, addr)
    BY <2>2, Zenon DEF TakeCom, TakePort, Begin, StartWrite, StartAddress, mem
  <2>3. CASE CheckWrite(t) \/ CheckRead(t) \/ StartRead(t) \/ SetMode(t) \/ EndCom(t)
    BY <2>3, Zenon DEF CheckWrite, CheckRead, StartRead, SetMode, EndCom, mem
  <2>4. CASE TakeDone(t) \/ Timeout(t) \/ End(t)
    BY <2>4, Zenon DEF TakeDone, Timeout, End, mem
  <2> QED BY <2>1, <2>2, <2>3, <2>4, Zenon
<1>3. ASSUME NEW t \in Tasks,
             \/ Open(t) \/ LinkCom(t) \/ CallMode(t)
             \/ \E k \in {"write", "read"}, l \in Lens \cup ReadLens : Call(t, k, l)
      PROVE  lost' = lost
  BY <1>3, Zenon DEF Open, LinkCom, CallMode, Call, mem
<1>4. ASSUME NEW p \in Ports, Irq(p) PROVE lost' = lost
  BY <1>4, Zenon DEF Irq
<1>5. ASSUME NEW p \in Ports, Bus(p) PROVE lost' = lost
  BY <1>5, Zenon DEF Bus, Shift, Receive, Abort, Hw, mem
<1>6. UNCHANGED vars => lost' = lost
  BY Zenon DEF vars
<1> QED BY <1>1, <1>3, <1>4, <1>5, <1>6, Zenon DEF Next, Task

\* ... and lost is not taken back.
LEMMA LostStays ==
  ASSUME [Next]_vars, ~lost'
  PROVE  ~lost
<1>1. ASSUME NEW t \in Tasks, Reset(t) PROVE ~lost
  <2>1. lost' = lost \/ \E i : lost' = (lost \/ i > 1)
    BY <1>1, Zenon DEF Reset
  <2> QED BY <2>1, Zenon
<1> QED BY <1>1, LostByReset, Zenon

\* The inductive invariant.
LEMMA Invariant == Spec => [](TypeOK /\ IInv)
<1>1. ASSUME Init PROVE IInv
  <2>1. /\ \A n \in Nodes : node[n] = Free
        /\ \A t \in Tasks : pc[t] = "closed" /\ job[t] = NoJob
        /\ \A p \in Ports : ctl[p] = ResetReg
        /\ list = <<>>
    BY <1>1 DEF Init
  <2>2. ListInv
    BY <2>1 DEF ListInv, ToSet, Free
  <2>3. NodeInv
    <3>1. Free.cnt = 0
      BY DEF Free
    <3>2. \A n \in Nodes : node[n] = Free /\ node[n].cnt = 0
      BY <2>1, <3>1
    <3> QED BY <3>2, Zenon DEF NodeInv
  <2>4. TaskInv
    BY <2>1 DEF TaskInv, Bound, Holds
  <2>5. OpenInv
    BY <2>1 DEF OpenInv, Free, ResetReg
  <2> QED BY <2>2, <2>3, <2>4, <2>5 DEF IInv, Struct
<1>2. TypeOK /\ IInv /\ [Next]_vars => IInv'
  <2> SUFFICES ASSUME TypeOK, IInv, [Next]_vars, ~lost' PROVE Struct' /\ OpenInv'
    BY DEF IInv
  <2>1. Struct /\ OpenInv
    BY LostStays DEF IInv
  <2>2. ASSUME NEW t \in Tasks, Task(t) PROVE Struct' /\ OpenInv'
    <3>1. CASE Open(t)
      BY <2>1, <3>1, OpenStep
    <3>2. CASE Reset(t)
      BY <2>1, <3>2, ResetStep
    <3>3. CASE \/ LinkCom(t) \/ EndCom(t) \/ CallMode(t) \/ TakeCom(t)
               \/ \E k \in {"write", "read"}, l \in Lens \cup ReadLens : Call(t, k, l)
      BY <2>1, <3>3, CallStep
    <3>4. CASE SetMode(t)
      BY <2>1, <3>4, SetModeStep
    <3>5. CASE TakePort(t)
      BY <2>1, <3>5, TakePortStep
    <3>6. CASE Begin(t)
      BY <2>1, <3>6, BeginStep
    <3>7. CASE StartWrite(t)
      BY <2>1, <3>7, StartWriteStep
    <3>8. CASE \E addr \in BOOLEAN : StartAddress(t, addr)
      BY <2>1, <3>8, StartAddressStep
    <3>9. CASE CheckWrite(t)
      BY <2>1, <3>9, CheckWriteStep
    <3>10. CASE CheckRead(t)
      BY <2>1, <3>10, CheckReadStep
    <3>11. CASE StartRead(t)
      BY <2>1, <3>11, StartReadStep
    <3>12. CASE TakeDone(t)
      BY <2>1, <3>12, TakeDoneStep
    <3>13. CASE Timeout(t)
      BY <2>1, <3>13, TimeoutStep
    <3>14. CASE End(t)
      BY <2>1, <3>14, EndStep
    <3> QED BY <2>2, <3>1, <3>2, <3>3, <3>4, <3>5, <3>6, <3>7, <3>8, <3>9, <3>10, <3>11,
               <3>12, <3>13, <3>14 DEF Task, Transfer
  <2>3. ASSUME NEW p \in Ports, Irq(p) \/ Bus(p) PROVE Struct' /\ OpenInv'
    BY <2>1, <2>3, IrqStep, BusStep
  <2>4. CASE UNCHANGED vars
    <3>1. Struct'
      <4>1. ListInv'
        BY <2>1, <2>4 DEF vars, Struct, ListInv
      <4>2. NodeInv'
        BY <2>1, <2>4 DEF vars, Struct, NodeInv, Users
      <4>3. TaskInv'
        BY <2>1, <2>4 DEF vars, Struct, TaskInv, Bound, Holds
      <4> QED BY <4>1, <4>2, <4>3 DEF Struct
    <3>2. \A m \in Nodes : PortInv(m) => PortInv(m)'
      BY <2>4, PortFrame DEF vars
    <3> QED BY <2>1, <2>4, <3>1, <3>2 DEF vars, OpenInv
  <2> QED BY <2>2, <2>3, <2>4 DEF Next
<1> QED BY <1>1, <1>2, Typed, PTL DEF Spec

\* A call that has the port has it alone, its semaphore taken and the controller configured
\* for its com: the semaphore of the port and the comparison with the last com
\* (i2c_write, i2c_read) are enough, for any number of tasks, ports, openings and resets
\* that lose no port.
THEOREM Exclusive == Spec => []ConfiguredForHolder
<1>1. TypeOK /\ IInv => ConfiguredForHolder
  <2> SUFFICES ASSUME TypeOK, IInv, NEW t \in Tasks, ~lost, Holds(t)
               PROVE  /\ node[job[t].nd].sem = FALSE
                      /\ \A u \in Tasks \ {t} : Holds(u) => job[u].nd # job[t].nd
                      /\ pc[t] # "begin" => ctl[use[t]].cfg = t
    BY DEF ConfiguredForHolder
  <2>1. Struct /\ OpenInv
    BY DEF IInv
  <2>2. PICK n, p : n = job[t].nd /\ p = use[t]
    OBVIOUS
  <2>3. /\ n \in Nodes /\ node[n].port = p
        /\ PortOk(node[n], ctl[p]) /\ TaskOk(node[n], ctl[p], wire[p], t, pc[t], job[t])
        /\ \A u \in On(n) : Holds(u) => u = t
    BY <2>1, <2>2, HolderHas
  <2>4. \A u \in Tasks : Holds(u) /\ job[u].nd = n => u \in On(n)
    BY <2>1, HolderHas
  <2>5. pc[t] # "begin" => ctl[p].cfg = t
    BY <2>3, I2cAssumption DEF TaskOk, PortOk
  <2> QED BY <2>2, <2>3, <2>4, <2>5 DEF TaskOk
<1> QED BY <1>1, Invariant, PTL

\* The memory a call and the interrupt work on belongs to a port that is open and to a call
\* that is under way, or to a write that ended with -EIO (i2c_reset_port counts the users).
THEOREM MemoryKept == Spec => []MemoryInv
<1>1. TypeOK /\ IInv => MemoryInv
  <2> SUFFICES ASSUME TypeOK, IInv, ~lost PROVE NotFreed /\ OnlyRunningServed
    BY DEF MemoryInv, NotFreed, OnlyRunningServed
  <2>1. Struct /\ OpenInv
    BY DEF IInv
  <2>2. \A t \in Tasks : Holds(t) => node[job[t].nd].port = use[t]
    BY <2>1, HolderHas
  <2>3. ASSUME NEW p \in Ports, ctl[p].ims # {}
        PROVE  /\ Found(p) # {}
               /\ \E t \in Tasks : use[t] = p /\ \/ t \in kept
                                                 \/ /\ Holds(t) /\ pc[t] # "begin"
                                                    /\ node[job[t].nd].buf = t
    <3>1. PICK n \in Nodes :
            /\ node[n].port = p /\ Found(p) = {n} /\ node[n] \in NodeRec /\ ctl[p] \in CtlRec
            /\ wire[p] \in Seq(Nat) /\ PortOk(node[n], ctl[p]) /\ Held(n)
            /\ node[n].sem = FALSE /\ (~node[n].late => node[n].done = 0)
            /\ \A t \in On(n) : Holds(t) =>
                 /\ TaskOk(node[n], ctl[p], wire[p], t, pc[t], job[t])
                 /\ pc[t] # "begin" /\ node[n].buf = t /\ node[n].cur = t
                 /\ ~node[n].late =>
                      /\ pc[t] = "wait"
                      /\ job[t].kind = "write" => Started(node[n], ctl[p], wire[p], job[t])
                      /\ job[t].kind = "write" => Resting(ctl[p])
                      /\ job[t].kind = "read" => Reads(node[n], ctl[p], "wait", job[t])
      BY <2>1, <2>3, IrqHas
    <3>2. PICK t \in On(n) : Holds(t) \/ t \in kept
      BY <2>3, <3>1 DEF Held
    <3>3. t \in Tasks /\ use[t] = p
      BY <3>1, <3>2 DEF On
    <3>4. Holds(t) => job[t].nd = n
      <4>1. Holds(t) => job[t].nd \in Nodes /\ node[job[t].nd].port = p
        BY <2>1, <3>3, HolderHas
      <4>2. Holds(t) => job[t].nd \in Found(p)
        BY <2>1, <4>1, Opened
      <4> QED BY <3>1, <4>2
    <3> QED BY <3>1, <3>2, <3>3, <3>4
  <2> QED BY <2>2, <2>3 DEF NotFreed, OnlyRunningServed
<1> QED BY <1>1, Invariant, PTL

\* done_sem holds a completion only for the call that waits for it, unless a transfer of
\* the port has timed out.
THEOREM OwnCompletion == Spec => []NoForeignCompletion
<1>1. TypeOK /\ IInv => NoForeignCompletion
  <2> SUFFICES ASSUME TypeOK, IInv, ~lost, NEW n \in Nodes, node[n].done > 0, ~node[n].late
               PROVE  \E t \in Tasks : pc[t] = "wait" /\ job[t].nd = n
    BY DEF NoForeignCompletion
  <2>1. Struct /\ OpenInv
    BY DEF IInv
  <2>2. node[n].done # 0 /\ node[n].cnt # 0
    BY <2>1 DEF TypeOK, TypeNode, NodeRec, Struct, NodeInv, Free
  <2>3. node[n].port \in Ports /\ PortInv(n)
    BY <2>1, <2>2 DEF Struct, NodeInv, OpenInv
  <2>4. PICK t \in On(n) : Holds(t)
    BY <2>2, <2>3 DEF PortInv, Held
  <2>5. t \in Tasks /\ use[t] = node[n].port
    BY DEF On
  <2>6. pc[t] = "wait"
    BY <2>2, <2>3, <2>4 DEF PortInv, TaskOk
  <2>7. job[t].nd \in Nodes /\ node[job[t].nd].port = node[n].port
    BY <2>1, <2>4, <2>5, HolderHas
  <2>8. job[t].nd \in Found(node[n].port) /\ Found(node[n].port) = {n}
    BY <2>1, <2>3, <2>7, Opened
  <2> QED BY <2>5, <2>6, <2>8
<1> QED BY <1>1, Invariant, PTL

\* A call that ends without error, and without a time-out on its port, has put every byte of
\* its buffer on the bus, once and in order, for any length, row and FIFO depth; a read has
\* filled its buffer.
THEOREM BytesInOrder == Spec => []CompleteAndInOrder
<1>1. TypeOK /\ IInv => CompleteAndInOrder
  <2> SUFFICES ASSUME TypeOK, IInv, NEW t \in Tasks, ~lost, pc[t] = "end", job[t].err = "ok",
                      ~node[job[t].nd].late
               PROVE  IF job[t].kind = "read"
                      THEN node[job[t].nd].pos = job[t].len /\ ctl[use[t]].rx = 0
                      ELSE wire[use[t]] = [i \in 1 .. job[t].len |-> i]
    BY DEF CompleteAndInOrder
  <2>1. Struct /\ OpenInv /\ Holds(t)
    BY DEF IInv, Holds
  <2>2. PICK n, p : n = job[t].nd /\ p = use[t]
    OBVIOUS
  <2>3. /\ p \in Ports /\ wire[p] \in Seq(Nat) /\ job[t] \in JobRec
        /\ TaskOk(node[n], ctl[p], wire[p], t, pc[t], job[t])
    BY <2>1, <2>2, HolderHas
  <2>4. CASE job[t].kind = "read"
    BY <2>2, <2>3, <2>4 DEF TaskOk, Reads, Resting
  <2>5. CASE job[t].kind = "write"
    <3>1. Sent(wire[p], ctl[p].fifo, job[t].len, job[t].len)
      BY <2>2, <2>3, <2>5 DEF TaskOk, Writes
    <3>2. Len(wire[p]) = job[t].len /\ \A i \in 1 .. Len(wire[p]) : wire[p][i] = i
      BY <3>1 DEF Sent
    <3>3. wire[p] = [i \in 1 .. Len(wire[p]) |-> wire[p][i]]
      BY <2>3
    <3>4. wire[p] = [i \in 1 .. job[t].len |-> i]
      BY <3>2, <3>3
    <3> QED BY <2>2, <2>5, <3>4
  <2>6. job[t].kind \in {"read", "write"}
    BY <2>3 DEF JobRec
  <2> QED BY <2>4, <2>5, <2>6
<1> QED BY <1>1, Invariant, PTL

\* All tasks use one port.
OnePort == \A u \in Uses : \A s, t \in Tasks : u[s] = u[t]

\* Then the list has one entry at most.
LEMMA OneOpen ==
  ASSUME TypeOK, Struct, OnePort, NEW i \in DOMAIN list
  PROVE  i = 1
<1>1. PICK n, m : n = list[i] /\ m = list[1]
  OBVIOUS
<1>2. 1 \in DOMAIN list /\ i \in DOMAIN list
  BY DEF TypeOK, TypeNode
<1>3. n \in ToSet(list) /\ m \in ToSet(list)
  BY <1>1, <1>2 DEF ToSet
<1>4. n \in Nodes /\ m \in Nodes /\ node[n].cnt # 0 /\ node[m].cnt # 0
  BY <1>3 DEF Struct, ListInv
<1>5. ASSUME NEW k \in Nodes, node[k].cnt # 0
      PROVE  \E t \in Tasks : use[t] = node[k].port
  <2>1. node[k].cnt = Cardinality(Users(node[k].port))
    BY <1>5 DEF Struct, NodeInv
  <2>2. Users(node[k].port) # {}
    BY <1>5, <2>1, FS_EmptySet
  <2> QED BY <2>2 DEF Users
<1>6. \A s, t \in Tasks : use[s] = use[t]
  BY DEF TypeOK, TypeTask, OnePort
<1>7. node[n].port = node[m].port
  BY <1>4, <1>5, <1>6
<1>8. n = m
  BY <1>4, <1>7 DEF Struct, NodeInv
<1> QED BY <1>1, <1>2, <1>8 DEF Struct, ListInv

\* While all tasks use one port no port leaves the list, whatever they open and reset: the
\* prev that i2c_open_port does not set (281) matters from the second port on.  The four
\* theorems above then hold without their premise.
THEOREM OnePortStays ==
  ASSUME OnePort
  PROVE  Spec => []~lost
<1>1. Init => ~lost
  BY DEF Init
<1>2. TypeOK /\ IInv /\ ~lost /\ [Next]_vars => ~lost'
  <2> SUFFICES ASSUME TypeOK, IInv, ~lost, NEW t \in Tasks, Reset(t) PROVE ~lost'
    BY LostByReset
  <2>1. Struct
    BY DEF IInv
  <2>2. \/ lost' = lost
        \/ \E n \in Found(use[t]) : lost' = (lost \/ (CHOOSE i \in DOMAIN list : list[i] = n) > 1)
    BY Zenon DEF Reset
  <2>3. ASSUME NEW n \in Found(use[t])
        PROVE  (CHOOSE i \in DOMAIN list : list[i] = n) = 1
    <3>1. \E i \in DOMAIN list : list[i] = n
      BY DEF Found, ToSet
    <3>2. PICK k : k = CHOOSE i \in DOMAIN list : list[i] = n
      OBVIOUS
    <3>3. k \in DOMAIN list
      BY <3>1, <3>2
    <3> QED BY <2>1, <3>2, <3>3, OneOpen
  <2>4. ~(1 > 1)
    OBVIOUS
  <2> QED BY <2>2, <2>3, <2>4
<1> QED BY <1>1, <1>2, Invariant, PTL DEF Spec
================================================================================
