------------------------------- MODULE I2cService -------------------------------
(***************************************************************************)
(* The I2C service: the list of open ports, one semaphore per com and per  *)
(* port, writes in chunks that the interrupt feeds to the controller,      *)
(* reads with or without a start address, completion by done_sem or by     *)
(* time-out, and closing a port.  The controllers and the devices on the   *)
(* bus are external.  A task opens its port, creates its com, transfers    *)
(* any number of times and resets the port, as the drivers in the          *)
(* repository do.  Opening, looking up and resetting a port are one step   *)
(* each: they run under open_sem.                                          *)
(***************************************************************************)
EXTENDS Integers, Sequences, SequencesExt

CONSTANTS
  Tasks, NoTask, Ports,
  Nodes,       \* blocks of memory for port handlers
  Uses,        \* functions from Tasks to Ports: the port each task works on
  Lens,        \* lengths of the writes and of the reads
  ReadLens,
  Row,         \* bytes_in_a_row of i2c_write
  Fifo,        \* depth of the transmit FIFO
  RxFifo,      \* depth of the receive FIFO
  RxMark,      \* its threshold (fifo_rx_threshold of i2c_basecfg, 8 in the code)
  DoneMax,     \* maximal count of done_sem (10 in the code)
  Finite,      \* TRUE: the calls have a time-out, FALSE: portMAX_DELAY
  Causes       \* reasons for which a controller aborts

ASSUME I2cAssumption ==
  /\ NoTask \notin Tasks /\ IsFiniteSet(Tasks) /\ Uses \subseteq [Tasks -> Ports]
  /\ "none" \notin Ports /\ Nodes # {}
  /\ Lens \subseteq Nat \ {0} /\ ReadLens \subseteq Nat \ {0}
  /\ Row \in Nat \ {0} /\ Fifo \in Nat \ {0} /\ RxFifo \in Nat \ {0} /\ RxMark \in 0 .. RxFifo
  /\ DoneMax \in Nat \ {0}
  /\ Finite \in BOOLEAN /\ Causes \subseteq {"nack", "berr", "other"}

VARIABLES
  use,         \* the port of each task
  list,        \* port_head and its next pointers: nodes, the newest first
  node,        \* the port handlers; a node with cnt = 0 is free memory
  ctl, wire,   \* per port: the controller; the bytes that have left it
  com,         \* per task: its com is not there, linked, linked and complete
  kept,        \* tasks whose com's access_sem is taken and never given again
  lost,        \* a port that is open has left the list
  pc, job,     \* per task: control point, and the locals of its call
  fault        \* memory was used that is freed or not set

vars == <<use, list, node, ctl, wire, com, kept, lost, pc, job, fault>>
mem  == <<list, node, com, lost>>

Min2(a, b) == IF a < b THEN a ELSE b

Free    == [port |-> "none", cnt |-> 0, sem |-> FALSE, done |-> 0, cur |-> NoTask,
            op |-> "write", buf |-> NoTask, base |-> 0, pos |-> 0,
            len |-> 0, late |-> FALSE]
ResetReg == [st |-> "idle", cause |-> "none", om |-> "slave", cfg |-> NoTask,
             dir |-> "write", left |-> 0, fresh |-> TRUE, fifo |-> <<>>, rx |-> 0,
             raw |-> {}, ims |-> {}]
NoJob   == [kind |-> "write", nd |-> CHOOSE n \in Nodes : TRUE, len |-> 1, wr |-> 0,
            found |-> FALSE, err |-> "ok"]

\* i2c_service_init has run.
Init ==
  /\ use \in Uses
  /\ list = <<>> /\ node = [n \in Nodes |-> Free]
  /\ ctl = [p \in Ports |-> ResetReg] /\ wire = [p \in Ports |-> <<>>]
  /\ com = [t \in Tasks |-> "none"] /\ kept = {} /\ lost = FALSE
  /\ pc = [t \in Tasks |-> "closed"] /\ job = [t \in Tasks |-> NoJob] /\ fault = FALSE

\* osal_i2c_get_hdlr_ptr
Found(p) == {n \in ToSet(list) : node[n].port = p}

\* The interrupts of a controller that are enabled and active: some are latched (raw), some
\* follow the FIFOs, which have room or hold as many bytes as the threshold.
Level(p)  == (IF Len(ctl[p].fifo) < Fifo THEN {"tx"} ELSE {})
               \cup (IF ctl[p].rx >= RxMark THEN {"rx"} ELSE {})
Events(p) == ctl[p].ims \cap (ctl[p].raw \cup Level(p))

\* The branch of the callback for the receive FIFO (151) is shadowed by the one for the end
\* of a read (128): nothing clears this interrupt but the end of the transfer, and while it
\* is active no task runs.
Stormed == \E p \in Ports : "rx" \in Events(p)
Goes(t, from, to) == ~fault /\ ~Stormed /\ pc[t] = from /\ pc' = [pc EXCEPT ![t] = to]
\* A call returns: its locals are gone.
Return(t) == job' = [job EXCEPT ![t] = NoJob]

-------------------------------------------------------------------------------
(* Ports and coms.                                                         *)

\* i2c_open_port: a new node becomes the head; the old head's prev is not set.
Open(t) == LET p == use[t] IN
  /\ Goes(t, "closed", "idle")
  /\ IF Found(p) # {}
     THEN /\ \E n \in Found(p) : node' = [node EXCEPT ![n].cnt = @ + 1]
          /\ UNCHANGED <<list, ctl>>
     ELSE /\ \E n \in {m \in Nodes : node[m].cnt = 0} :
               /\ node' = [node EXCEPT ![n] = [Free EXCEPT !.port = p, !.cnt = 1,
                                                           !.sem = TRUE]]
               /\ list' = <<n>> \o list
          /\ ctl' = [ctl EXCEPT ![p] = ResetReg]
  /\ UNCHANGED <<use, wire, com, kept, lost, job, fault>>

\* i2c_create_com: the walk to the end of the list and the link (357-363) ...
LinkCom(t) ==
  /\ com[t] = "none" /\ Found(use[t]) # {}
  /\ Goes(t, "idle", "link")
  /\ fault' = \E u \in Tasks : com[u] = "linked"   \* follows a next that is not set
  /\ com' = [com EXCEPT ![t] = "linked"]
  /\ UNCHANGED <<use, list, node, ctl, wire, kept, lost, job>>
\* ... and then the end of the list (365) and the rest of the com.
EndCom(t) ==
  /\ Goes(t, "link", "idle")
  /\ com' = [com EXCEPT ![t] = "made"]
  /\ UNCHANGED <<use, list, node, ctl, wire, kept, lost, job, fault>>

\* i2c_set_port_mode to master: the lookup, then the port's semaphore; a port whose
\* controller is a slave still (it has just been opened) is reset.
CallMode(t) == \E n \in Found(use[t]) :
  /\ Goes(t, "idle", "mode")
  /\ job' = [job EXCEPT ![t].nd = n]
  /\ UNCHANGED <<use, mem, ctl, wire, kept, fault>>
SetMode(t) == LET p == use[t] IN
  /\ node[job[t].nd].sem
  /\ Goes(t, "mode", "idle")
  /\ ctl' = IF ctl[p].om = "master" THEN ctl
            ELSE [ctl EXCEPT ![p] = [ResetReg EXCEPT !.om = "master"]]
  /\ Return(t)
  /\ UNCHANGED <<use, mem, wire, kept, fault>>

\* Mutant: the port goes with the first user that resets it.
ResetAtOnce(t) == LET p == use[t] IN
  /\ Goes(t, "idle", "closed") /\ com[t] # "linked"
  /\ \E n \in Found(p) : node' = [node EXCEPT ![n] = Free]
  /\ list' = <<>> /\ ctl' = [ctl EXCEPT ![p] = [ResetReg EXCEPT !.om = ctl[p].om]]
  /\ UNCHANGED <<use, wire, com, lost, kept, job, fault>>
\* i2c_reset_port: prev is NULL in every node, so the head becomes the next of the one
\* that goes, whatever stands before it.
Reset(t) == LET p == use[t] IN
  /\ Goes(t, "idle", "closed") /\ com[t] # "linked"
  /\ IF Found(p) = {} THEN UNCHANGED <<node, list, ctl, lost>>
     ELSE \E n \in Found(p) : LET i == CHOOSE i \in DOMAIN list : list[i] = n IN
       IF node[n].cnt > 1
       THEN /\ node' = [node EXCEPT ![n].cnt = @ - 1]
            /\ UNCHANGED <<list, ctl, lost>>
       ELSE /\ node' = [node EXCEPT ![n] = Free]
            /\ list' = SubSeq(list, i + 1, Len(list))
            /\ lost' = (lost \/ i > 1)
            /\ ctl' = [ctl EXCEPT ![p] = [ResetReg EXCEPT !.om = ctl[p].om]]
  /\ UNCHANGED <<use, wire, com, kept, job, fault>>

-------------------------------------------------------------------------------
(* Transfers: i2c_write and i2c_read.                                      *)

Call(t, k, l) ==
  /\ com[t] = "made"
  /\ Goes(t, "idle", "com")
  /\ job' = [job EXCEPT ![t] = [NoJob EXCEPT !.kind = k, !.len = l]]
  /\ UNCHANGED <<use, mem, ctl, wire, kept, fault>>

\* The com's semaphore, then the lookup; without a port the call ends with the com's
\* semaphore taken (-ENODEV).
TakeCom(t) ==
  /\ t \notin kept
  /\ IF Found(use[t]) = {}
     THEN Goes(t, "com", "idle") /\ Return(t) /\ kept' = kept \cup {t}
     ELSE /\ Goes(t, "com", "port")
          /\ \E n \in Found(use[t]) : job' = [job EXCEPT ![t].nd = n]
          /\ UNCHANGED kept
  /\ UNCHANGED <<use, mem, ctl, wire, fault>>

TakePort(t) == LET n == job[t].nd IN
  /\ node[n].cnt = 0 \/ node[n].sem
  /\ Goes(t, "port", "begin")
  /\ fault' = (node[n].cnt = 0)
  /\ node' = [node EXCEPT ![n].sem = FALSE]
  /\ UNCHANGED <<use, list, com, lost, ctl, wire, kept, job>>

\* Mutant: the controller is configured for the first com only.
BeginOnce(t) == LET p == use[t] n == job[t].nd IN
  /\ Goes(t, "begin", "start")
  /\ node' = [node EXCEPT ![n].cur = t, ![n].pos = 0, ![n].len = 0]
  /\ ctl' = IF node[n].cur = NoTask
            THEN [ctl EXCEPT ![p].cfg = t, ![p].ims = {}, ![p].om = "master"] ELSE ctl
  /\ wire' = [wire EXCEPT ![p] = <<>>]
  /\ UNCHANGED <<use, list, com, lost, kept, job, fault>>
\* A controller in abort ends the call with both semaphores taken (-ECONNABORTED);
\* otherwise it is configured when the last transfer was another com's.
Begin(t) == LET p == use[t] n == job[t].nd new == node[n].cur # t IN
  /\ IF ctl[p].st = "abort"
     THEN /\ Goes(t, "begin", "idle") /\ Return(t)
          /\ kept' = kept \cup {t}
          /\ UNCHANGED <<node, ctl, wire>>
     ELSE /\ Goes(t, "begin", "start")
          /\ node' = [node EXCEPT ![n].cur = t, ![n].pos = 0, ![n].len = 0]
          /\ ctl' = IF new THEN [ctl EXCEPT ![p].cfg = t, ![p].ims = {},
                                            ![p].om = "master"]
                    ELSE ctl
          /\ wire' = [wire EXCEPT ![p] = <<>>]
          /\ UNCHANGED <<kept, job>>
  /\ UNCHANGED <<use, list, com, lost, fault>>

Chunk(t) == Min2(job[t].len - job[t].wr, Row)
InFifo(p, from, n) == [i \in 1 .. Min2(n, Fifo - Len(ctl[p].fifo)) |-> from + i]

\* The next chunk of a write: the FIFO is filled and the controller started.
StartWrite(t) == LET p == use[t] n == job[t].nd
                     bytes == InFifo(p, job[t].wr, Chunk(t)) IN
  /\ job[t].kind = "write"
  /\ Goes(t, "start", "check")
  /\ node' = [node EXCEPT ![n].op = "write", ![n].buf = t, ![n].base = job[t].wr,
                          ![n].len = Chunk(t), ![n].pos = Len(bytes)]
  /\ ctl' = [ctl EXCEPT ![p].st = "busy", ![p].dir = "write", ![p].left = Chunk(t),
                        ![p].fresh = TRUE, ![p].raw = {}, ![p].fifo = @ \o bytes]
  /\ UNCHANGED <<use, list, com, lost, wire, kept, job, fault>>
\* A read begins with the transmission of the start address, if there is one.
StartAddress(t, addr) == LET p == use[t] n == job[t].nd IN
  /\ job[t].kind = "read"
  /\ Goes(t, "start", IF addr THEN "check" ELSE "read")
  /\ node' = [node EXCEPT ![n].op = "read", ![n].buf = t, ![n].base = 0,
                          ![n].len = job[t].len, ![n].pos = 0]
  /\ ctl' = IF addr THEN [ctl EXCEPT ![p].st = "busy", ![p].dir = "write",
                                     ![p].left = 0, ![p].fresh = TRUE]
            ELSE ctl
  /\ UNCHANGED <<use, list, com, lost, wire, kept, job, fault>>
Listen(t, m) == ctl' = [ctl EXCEPT ![use[t]].ims = m]

\* 50 us later: a device that has not answered at all is an error, one that did before
\* is asked again; otherwise the interrupts take over.
CheckWrite(t) == LET p == use[t] c == ctl[p] IN
  /\ job[t].kind = "write"
  /\ IF c.st # "abort"
     THEN /\ Goes(t, "check", "wait")
          /\ job' = [job EXCEPT ![t].found = TRUE]
          /\ Listen(t, {"tx", "berr", "done"})
     ELSE IF c.cause = "nack" /\ job[t].found
     THEN /\ Goes(t, "check", "start")
          /\ ctl' = [ctl EXCEPT ![p] = [ResetReg EXCEPT !.cfg = t, !.om = "master", !.rx = c.rx]]
          /\ UNCHANGED job
     ELSE /\ Goes(t, "check", "end")
          /\ job' = [job EXCEPT ![t].err = "fail"]
          /\ UNCHANGED ctl
  /\ UNCHANGED <<use, mem, wire, kept, fault>>
CheckRead(t) == LET c == ctl[use[t]] IN
  /\ job[t].kind = "read"
  /\ Goes(t, "check", IF c.st = "abort" THEN "end" ELSE "read")
  /\ job' = [job EXCEPT ![t].err = IF c.st = "abort" THEN "refused" ELSE @]
  /\ UNCHANGED <<use, mem, ctl, wire, kept, fault>>
StartRead(t) == LET p == use[t] IN
  /\ Goes(t, "read", "wait")
  /\ ctl' = [ctl EXCEPT ![p].st = "busy", ![p].dir = "read", ![p].left = job[t].len,
                        ![p].fresh = TRUE, ![p].raw = {}, ![p].ims = {"rx", "berr", "ws"}]
  /\ UNCHANGED <<use, mem, wire, kept, job, fault>>

\* done_sem was given: the chunk is written or the read is complete.
More(t) == job[t].kind = "write" /\ job[t].wr + Chunk(t) < job[t].len
Advance(t, err) ==
  job' = [job EXCEPT ![t].wr = IF More(t) THEN @ + Chunk(t) ELSE @, ![t].err = err]
TakeDone(t) == LET n == job[t].nd IN
  /\ node[n].done > 0
  /\ Goes(t, "wait", IF More(t) THEN "start" ELSE "end")
  /\ node' = [node EXCEPT ![n].done = @ - 1]
  /\ Advance(t, job[t].err)
  /\ UNCHANGED <<use, list, com, lost, ctl, wire, kept, fault>>

\* The wait times out: a write whose controller has aborted for another reason than the
\* bus ends at once (-EIO), with both semaphores taken and the interrupts enabled; any
\* other call goes on as if the bytes had been transferred.
Timeout(t) == LET n == job[t].nd c == ctl[use[t]] IN
  /\ Finite /\ node[n].done = 0
  /\ node' = [node EXCEPT ![n].late = TRUE]
  /\ IF c.st = "abort" /\ job[t].kind = "write" /\ c.cause # "berr"
     THEN /\ Goes(t, "wait", "idle") /\ Return(t)
          /\ kept' = kept \cup {t}
     ELSE /\ Goes(t, "wait", IF More(t) THEN "start" ELSE "end")
          /\ Advance(t, IF c.st = "abort" THEN "aborted" ELSE job[t].err)
          /\ UNCHANGED kept
  /\ UNCHANGED <<use, list, com, lost, ctl, wire, fault>>

\* Mutant: a failed call keeps the port's semaphore.
EndKeepsPort(t) == LET p == use[t] IN
  /\ Goes(t, "end", "idle") /\ Return(t)
  /\ ctl' = [ctl EXCEPT ![p].raw = {}, ![p].ims = {}, ![p].fifo = <<>>, ![p].rx = 0]
  /\ node' = [node EXCEPT ![job[t].nd].sem = (job[t].err = "ok")]
  /\ UNCHANGED <<use, list, com, lost, wire, kept, fault>>
End(t) == LET p == use[t] IN
  /\ Goes(t, "end", "idle") /\ Return(t)
  /\ ctl' = [ctl EXCEPT ![p].raw = {}, ![p].ims = {}, ![p].fifo = <<>>, ![p].rx = 0]
  /\ node' = [node EXCEPT ![job[t].nd].sem = TRUE]
  /\ UNCHANGED <<use, list, com, lost, wire, kept, fault>>
-------------------------------------------------------------------------------
\* osal_i2c_callback, for the port's controller and the node n found for it: a bus error ends
\* everything without done_sem, the end empties the receive FIFO and gives done_sem, the end
\* of a read without stop turns to the end with stop, and room in the FIFO is filled.  A read
\* whose FIFO alone is active changes nothing and is entered again.
Quiet(p) == ctl' = [ctl EXCEPT ![p].ims = {}, ![p].raw = {}]
\* Mutant: i2c_read_fifo stops a byte short of the buffer's end.
DrainedShort(p, n) ==
  IF ctl[p].dir = "read" THEN Min2(ctl[p].rx, node[n].len - node[n].pos - 1) ELSE 0
\* What i2c_read_fifo takes at the end of a read: all bytes, or those the buffer has room for.
Drained(p, n) ==
  IF ctl[p].dir = "read" THEN Min2(ctl[p].rx, node[n].len - node[n].pos) ELSE 0
Done(p, n) ==
  /\ ctl' = [ctl EXCEPT ![p].ims = {}, ![p].raw = {}, ![p].rx = @ - Drained(p, n)]
  /\ node' = [node EXCEPT ![n].done = Min2(@ + 1, DoneMax), ![n].pos = @ + Drained(p, n)]
\* Mutant: the end without stop gives done_sem already.
WithoutStopGives(p, n) ==
  /\ ctl' = [ctl EXCEPT ![p].ims = (@ \ {"ws"}) \cup {"done"}, ![p].raw = @ \ {"ws"}]
  /\ node' = [node EXCEPT ![n].done = Min2(@ + 1, DoneMax)]
WithoutStop(p, n) ==
  /\ ctl' = [ctl EXCEPT ![p].ims = (@ \ {"ws"}) \cup {"done"}, ![p].raw = @ \ {"ws"}]
  /\ UNCHANGED node
\* Mutant: the interrupt sends the chunk from its beginning (buf_pos is not used).
RefillFromStart(p, n) == LET h == node[n] bytes == InFifo(p, h.base, h.len - h.pos) IN
  /\ node' = [node EXCEPT ![n].pos = @ + Len(bytes)]
  /\ ctl' = [ctl EXCEPT ![p].fifo = @ \o bytes,
                        ![p].ims = IF h.pos + Len(bytes) = h.len
                                   THEN (@ \ {"tx"}) \cup {"done"} ELSE @]
Refill(p, n) == LET h == node[n] bytes == InFifo(p, h.base + h.pos, h.len - h.pos) IN
  /\ node' = [node EXCEPT ![n].pos = @ + Len(bytes)]
  /\ ctl' = [ctl EXCEPT ![p].fifo = @ \o bytes,
                        ![p].ims = IF h.pos + Len(bytes) = h.len
                                   THEN (@ \ {"tx"}) \cup {"done"} ELSE @]
Irq(p) == LET ev == Events(p) IN
  /\ ev # {} /\ ~fault
  /\ fault' = (Found(p) = {})
  /\ IF Found(p) = {} THEN UNCHANGED <<node, ctl>>
     ELSE \E n \in Found(p) :
       \/ "berr" \in ev /\ Quiet(p) /\ UNCHANGED node
       \/ "berr" \notin ev /\ "done" \in ev /\ Done(p, n)
       \/ /\ ev \cap {"berr", "done"} = {}
          /\ \/ node[n].op = "read" /\ "ws" \in ev /\ WithoutStop(p, n)
             \/ node[n].op = "write" /\ "tx" \in ev /\ Refill(p, n)
  /\ UNCHANGED <<use, list, com, lost, wire, kept, pc, job>>

\* The controller sends a byte, receives a byte of a read when the FIFO has room, ends a
\* read, or aborts.
Hw(p, c) == /\ ctl[p].st = "busy" /\ ~fault
            /\ ctl' = [ctl EXCEPT ![p] = c]
            /\ UNCHANGED <<use, mem, kept, pc, job, fault, node>>
Shift(p) == LET c == ctl[p] IN
  /\ c.dir = "write" /\ c.left > 0 /\ c.fifo # <<>>
  /\ Hw(p, [c EXCEPT !.left = @ - 1, !.fifo = Tail(@), !.fresh = FALSE,
                     !.st = IF c.left = 1 THEN "idle" ELSE @,
                     !.raw = IF c.left = 1 THEN @ \cup {"done"} ELSE @])
  /\ wire' = [wire EXCEPT ![p] = Append(@, Head(c.fifo))]
Receive(p) == LET c == ctl[p] IN
  /\ c.dir = "read"
  /\ c.left > 0 => c.rx < RxFifo
  /\ Hw(p, IF c.left > 0
           THEN [c EXCEPT !.left = @ - 1, !.fresh = FALSE, !.rx = @ + 1,
                          !.raw = IF c.left = 1 THEN @ \cup {"ws"} ELSE @]
           ELSE [c EXCEPT !.st = "idle", !.raw = @ \cup {"done"}])
  /\ UNCHANGED wire
Abort(p, cause) == LET c == ctl[p] IN
  /\ cause = "nack" => c.fresh
  /\ Hw(p, [c EXCEPT !.st = "abort", !.cause = cause,
                     !.raw = IF cause = "berr" THEN @ \cup {"berr"} ELSE @])
  /\ UNCHANGED wire

Transfer(t) == \/ TakeCom(t) \/ TakePort(t) \/ Begin(t) \/ StartWrite(t)
               \/ \E addr \in BOOLEAN : StartAddress(t, addr)
               \/ CheckWrite(t) \/ CheckRead(t) \/ StartRead(t)
               \/ TakeDone(t) \/ Timeout(t) \/ End(t) \/ SetMode(t) \/ EndCom(t)
Task(t) == \/ Open(t) \/ LinkCom(t) \/ Reset(t)
           \/ CallMode(t)
           \/ \E l \in Lens : Call(t, "write", l)
           \/ \E l \in ReadLens : Call(t, "read", l)
           \/ Transfer(t)
Bus(p)  == Shift(p) \/ Receive(p) \/ \E cause \in Causes : Abort(p, cause)
Next == (\E t \in Tasks : Task(t)) \/ (\E p \in Ports : Irq(p) \/ Bus(p))

Spec == Init /\ [][Next]_vars

\* A task goes on with its call and is served in turn by a semaphore (SF); interrupts are
\* taken; a device that has answered once does not refuse for ever (SF, the assumption of
\* the retry in i2c_write); the controller ends a read.
FairSpec == /\ Spec
            /\ \A t \in Tasks : SF_vars(Transfer(t))
            /\ \A p \in Ports : WF_vars(Irq(p)) /\ SF_vars(Shift(p)) /\ WF_vars(Receive(p))

-------------------------------------------------------------------------------
Holds(t)    == pc[t] \in {"begin", "start", "check", "read", "wait", "end"}

\* Types of the variables, part by part.
Interrupts == {"tx", "rx", "berr", "done", "ws"}
NodeRec == [port : Ports \cup {"none"}, cnt : Nat, sem : BOOLEAN, done : 0 .. DoneMax,
            cur : Tasks \cup {NoTask}, op : {"read", "write"}, buf : Tasks \cup {NoTask},
            base : Nat, pos : Nat, len : Nat, late : BOOLEAN]
CtlRec  == [st : {"idle", "busy", "abort"}, cause : Causes \cup {"none"},
            om : {"slave", "master"}, cfg : Tasks \cup {NoTask}, dir : {"read", "write"},
            left : Nat, fresh : BOOLEAN, fifo : Seq(Nat), rx : 0 .. RxFifo,
            raw : SUBSET Interrupts, ims : SUBSET Interrupts]
JobRec  == [kind : {"read", "write"}, nd : Nodes, len : Nat \ {0}, wr : Nat, found : BOOLEAN,
            err : {"ok", "fail", "refused", "aborted"}]
Points  == {"closed", "idle", "link", "mode", "com", "port", "begin", "start", "check", "read",
            "wait", "end"}
TypeNode == /\ list \in Seq(Nodes) /\ node \in [Nodes -> NodeRec]
            /\ \A n \in Nodes : node[n].pos <= node[n].len
TypeCtl  == /\ ctl \in [Ports -> CtlRec] /\ wire \in [Ports -> Seq(Nat)]
            /\ \A p \in Ports : Len(ctl[p].fifo) <= Fifo
TypeTask == /\ use \in Uses /\ com \in [Tasks -> {"none", "linked", "made"}]
            /\ kept \subseteq Tasks /\ pc \in [Tasks -> Points] /\ job \in [Tasks -> JobRec]
            /\ \A t \in Tasks : job[t].wr < job[t].len
TypeOK   == TypeNode /\ TypeCtl /\ TypeTask /\ lost \in BOOLEAN /\ fault \in BOOLEAN

\* Closing: a call that has the port works on memory that is not freed, and the interrupt
\* finds the port it comes from, as long as no open port has left the list.
NotFreed == ~lost => /\ \A t \in Tasks : Holds(t) => node[job[t].nd].port = use[t]
                     /\ \A p \in Ports : ctl[p].ims # {} => Found(p) # {}

\* One call at a time works on a port, with the controller configured for its com.
ConfiguredForHolder == \A t \in Tasks : LET n == job[t].nd IN
  ~lost /\ Holds(t) => /\ node[n].sem = FALSE
                       /\ \A u \in Tasks \ {t} : Holds(u) => job[u].nd # n
                       /\ pc[t] # "begin" => ctl[use[t]].cfg = t

\* The interrupt works only on the buffer of a call that has not ended, or of a write
\* that ended with -EIO, which leaves the interrupts enabled.
OnlyRunningServed == \A p \in Ports : ~lost /\ ctl[p].ims # {} =>
  \E t \in Tasks : use[t] = p /\ \/ t \in kept
                                 \/ /\ Holds(t) /\ pc[t] # "begin"
                                    /\ node[job[t].nd].buf = t

\* The memory a call and the interrupt work on, with the types: it belongs to a call that
\* is under way and to a port that is open.
MemoryInv == TypeOK /\ NotFreed /\ OnlyRunningServed

\* A completion left in done_sem, which the next transfer would take for its own, comes
\* only from a transfer that timed out before.
NoForeignCompletion == \A n \in Nodes :
  ~lost /\ node[n].done > 0 => node[n].late \/ \E t \in Tasks : pc[t] = "wait" /\ job[t].nd = n

\* A call that ends without error, on a port where none has timed out, has put every byte
\* of its buffer on the bus once and in order, through chunks, refills of the FIFO by the
\* interrupt and repeated attempts; a read has taken all its bytes from the FIFO and has
\* left none there.
CompleteAndInOrder == \A t \in Tasks : LET n == job[t].nd IN
  ~lost /\ pc[t] = "end" /\ job[t].err = "ok" /\ ~node[n].late =>
    IF job[t].kind = "read" THEN node[n].pos = job[t].len /\ ctl[use[t]].rx = 0
    ELSE wire[use[t]] = [i \in 1 .. job[t].len |-> i]

\* The interrupt of a full receive FIFO, which nothing takes back: the controller waits for
\* room in the FIFO or has aborted.
Hung == \E p \in Ports : /\ Events(p) = {"rx"}
                        /\ \/ ctl[p].st = "abort"
                           \/ ctl[p].left > 0 /\ ctl[p].rx = RxFifo

\* A call ends, unless one has returned with the semaphores taken (abort before the first
\* byte, -EIO, or a port that is gone) or a read is longer than the receive FIFO (Hung):
\* neither time-outs, bus errors, busy devices nor the interrupts of a FIFO that fills up to
\* the end of a shorter read stop the others.
CallsEnd == \A t \in Tasks : pc[t] \notin {"closed", "idle"} ~>
                               pc[t] \in {"closed", "idle"} \/ kept # {} \/ fault \/ Hung

\* "pointer to I2C handler, or NULL if not open" (osal_i2c_get_hdlr_ptr): a task that has
\* opened its port and not reset it finds it.
NullOnlyIfNotOpen == \A t \in Tasks : pc[t] # "closed" => Found(use[t]) # {}

\* The callback empties a receive FIFO that reaches its threshold and goes on with the read
\* (sta_i2c_service.c:151-165), so that a call with a time-out comes back.
ReadDrains == ~Hung
===============================================================================
