-------------------------- MODULE MessageQCopy_proofs --------------------------
(***************************************************************************)
(* Theorems about MessageQCopy, for any number of tasks, buffers and       *)
(* endpoints.                                                              *)
(***************************************************************************)
EXTENDS MessageQCopy, FiniteSetTheorems, TLAPS

-------------------------------------------------------------------------------
(* Sequences without repetition: what appending and taking the head do.    *)

\* Appending adds one element at the end.
LEMMA AppendElems ==
  ASSUME NEW S, NEW s \in Seq(S), NEW x \in S
  PROVE  /\ Append(s, x) \in Seq(S)
         /\ Elems(Append(s, x)) = Elems(s) \cup {x}
         /\ Distinct(s) /\ x \notin Elems(s) => Distinct(Append(s, x))
<1>1. /\ Append(s, x) \in Seq(S)
      /\ DOMAIN s = 1 .. Len(s) /\ Len(s) \in Nat
      /\ DOMAIN Append(s, x) = 1 .. Len(s) + 1
      /\ \A i \in 1 .. Len(s) : Append(s, x)[i] = s[i]
      /\ Append(s, x)[Len(s) + 1] = x
  OBVIOUS
<1>2. Elems(Append(s, x)) = Elems(s) \cup {x}
  BY <1>1 DEF Elems
<1>3. ASSUME Distinct(s), x \notin Elems(s)
      PROVE  Distinct(Append(s, x))
  BY <1>1, <1>3 DEF Elems, Distinct
<1> QED BY <1>1, <1>2, <1>3

\* Taking the head removes just that element from a sequence without repetition.
LEMMA TailElems ==
  ASSUME NEW S, NEW s \in Seq(S), s # <<>>
  PROVE  /\ Tail(s) \in Seq(S) /\ Head(s) \in S /\ Head(s) \in Elems(s)
         /\ Elems(Tail(s)) \subseteq Elems(s)
         /\ Elems(s) = Elems(Tail(s)) \cup {Head(s)}
         /\ Distinct(s) => Distinct(Tail(s)) /\ Head(s) \notin Elems(Tail(s))
<1>1. /\ Tail(s) \in Seq(S) /\ Head(s) \in S /\ Head(s) = s[1]
      /\ Len(s) \in Nat \ {0} /\ DOMAIN s = 1 .. Len(s)
      /\ DOMAIN Tail(s) = 1 .. Len(s) - 1
      /\ \A i \in 1 .. Len(s) - 1 : Tail(s)[i] = s[i + 1]
  OBVIOUS
<1>2. Head(s) \in Elems(s)
  BY <1>1 DEF Elems
<1>3. Elems(Tail(s)) \subseteq Elems(s)
  BY <1>1 DEF Elems
<1>4. Elems(s) = Elems(Tail(s)) \cup {Head(s)}
  <2>1. ASSUME NEW x \in Elems(s), x # Head(s)
        PROVE  x \in Elems(Tail(s))
    <3>1. PICK i \in 1 .. Len(s) : x = s[i]
      BY <1>1 DEF Elems
    <3>2. i - 1 \in 1 .. Len(s) - 1 /\ Tail(s)[i - 1] = x
      BY <1>1, <2>1, <3>1
    <3> QED BY <1>1, <3>2 DEF Elems
  <2> QED BY <1>2, <1>3, <2>1
<1>5. ASSUME Distinct(s)
      PROVE  Distinct(Tail(s)) /\ Head(s) \notin Elems(Tail(s))
  BY <1>1, <1>5 DEF Elems, Distinct
<1> QED BY <1>1, <1>2, <1>3, <1>4, <1>5

-------------------------------------------------------------------------------
\* A part of the state that does not change keeps its types.
LEMMA TypeFrame ==
  ASSUME TypeOK
  PROVE  /\ UNCHANGED host => TypeHost'
         /\ UNCHANGED ringF => TypeF'
         /\ UNCHANGED ringT => TypeT'
         /\ UNCHANGED <<noIntr, noNotify, slots, isr, mask, sem>> => TypeWire'
         /\ UNCHANGED objs => TypeObjs'
         /\ UNCHANGED <<pc, call>> => TypeTask'
         /\ UNCHANGED <<list, cpu>> => TypeWait'
<1>1. UNCHANGED host => TypeHost'
  BY DEF TypeOK, TypeHost, host
<1>2. UNCHANGED ringF => TypeF'
  BY DEF TypeOK, TypeF, ringF
<1>3. UNCHANGED ringT => TypeT'
  BY DEF TypeOK, TypeT, ringT
<1>4. UNCHANGED <<noIntr, noNotify, slots, isr, mask, sem>> => TypeWire'
  BY DEF TypeOK, TypeWire, slots, mask
<1>5. UNCHANGED objs => TypeObjs'
  BY DEF TypeOK, TypeObjs, objs
<1>6. UNCHANGED <<pc, call>> => TypeTask'
  BY DEF TypeOK, TypeTask, call
<1>7. UNCHANGED <<list, cpu>> => TypeWait'
  BY DEF TypeOK, TypeWait, list
<1> QED BY <1>1, <1>2, <1>3, <1>4, <1>5, <1>6, <1>7

\* The variables keep their types: one step of the transport.
LEMMA TypeStep ==
  ASSUME TypeOK, [Next]_vars
  PROVE  TypeOK'
<1> USE NumBufAssumption, LimitsAssumption
<1>1. ASSUME NEW e \in 0 .. MaxObjects, HostPost(e)
      PROVE  TypeOK'
  <2>1. UNCHANGED <<ringT, noIntr, noNotify, slots, isr, mask, sem, objs, pc,
                    call, list, cpu>>
    BY <1>1 DEF HostPost
  <2>2. TypeHost'
    BY <1>1 DEF TypeOK, TypeHost, HostPost, host, Bufs
  <2>3. TypeF'
    BY <1>1 DEF TypeOK, TypeF, HostPost, ringF, Bufs, MsgF, NoEp, TypeHost
  <2> QED BY <2>1, <2>2, <2>3, TypeFrame DEF TypeOK, call, list, mask, objs,
      ringT, slots
<1>2. ASSUME HostReclaim
      PROVE  TypeOK'
  <2>1. UNCHANGED <<ringT, noIntr, noNotify, slots, isr, mask, sem, objs, pc,
                    call, list, cpu>>
    BY <1>2 DEF HostReclaim, BlankF
  <2>2. TypeHost'
    <3>1. Head(usedF) \in Bufs
      BY <1>2, TailElems DEF TypeOK, TypeF, HostReclaim
    <3> QED BY <1>2, <3>1 DEF TypeOK, TypeHost, HostReclaim
  <2>3. TypeF'
    <3>1. Tail(usedF) \in Seq(Bufs)
      BY <1>2, TailElems DEF TypeOK, TypeF, HostReclaim
    <3>2. BlankF \in MsgF
      BY DEF BlankF, MsgF, NoEp
    <3> QED BY <1>2, <3>1, <3>2 DEF TypeOK, TypeF, HostReclaim
  <2> QED BY <2>1, <2>2, <2>3, TypeFrame DEF TypeOK, call, list, mask, objs,
      ringT, slots
<1>3. ASSUME HostAccept
      PROVE  TypeOK'
  <2>1. UNCHANGED <<host, ringF, noIntr, noNotify, slots, isr, mask, sem, objs,
                    pc, call, list, cpu>>
    BY <1>3 DEF HostAccept, BlankT
  <2>2. TypeT'
    BY <1>3 DEF TypeOK, TypeT, HostAccept, BlankT, ringT, Bufs, MsgT, TypeTask
  <2> QED BY <2>1, <2>2, TypeFrame DEF TypeOK, call, host, list, mask, objs,
      ringF, slots
<1>4. ASSUME HostRxDone
      PROVE  TypeOK'
  <2>1. UNCHANGED <<ringF, ringT, noIntr, noNotify, slots, isr, mask, sem,
                    objs, pc, call, list, cpu>>
    BY <1>4 DEF HostRxDone
  <2>2. TypeHost'
    BY <1>4 DEF TypeOK, TypeHost, HostRxDone, host, Bufs
  <2> QED BY <2>1, <2>2, TypeFrame DEF TypeOK, call, list, mask, objs, ringF,
      ringT, slots
<1>5. ASSUME NEW q \in {"from", "to"}, HostRing(q)
      PROVE  TypeOK'
  <2>1. UNCHANGED <<ringF, ringT, objs, pc, call, list, cpu>>
    BY <1>5 DEF HostRing
  <2>2. TypeHost'
    BY <1>5 DEF TypeOK, TypeHost, HostRing, host, Bufs
  <2>3. TypeWire'
    BY <1>5 DEF TypeOK, TypeWire, HostRing, slots, mask
  <2> QED BY <2>1, <2>2, <2>3, TypeFrame DEF TypeOK, call, list, objs, ringF,
      ringT
<1>6. ASSUME HostIrq
      PROVE  TypeOK'
  <2>1. UNCHANGED <<ringF, ringT, objs, pc, call, list, cpu>>
    BY <1>6 DEF HostIrq
  <2>2. TypeHost'
    BY <1>6 DEF TypeOK, TypeHost, HostIrq, host, Bufs
  <2>3. TypeWire'
    BY <1>6 DEF TypeOK, TypeWire, HostIrq, slots, mask
  <2> QED BY <2>1, <2>2, <2>3, TypeFrame DEF TypeOK, call, list, objs, ringF,
      ringT
<1>7. ASSUME HostSetIntr
      PROVE  TypeOK'
  <2>1. UNCHANGED <<host, ringF, ringT, objs, pc, call, list, cpu>>
    BY <1>7 DEF HostSetIntr
  <2>2. TypeWire'
    BY <1>7, ChoicesAssumption DEF TypeOK, TypeWire, HostSetIntr, slots, mask
  <2> QED BY <2>1, <2>2, TypeFrame DEF TypeOK, call, host, list, objs, ringF,
      ringT
<1>8. ASSUME IsrEnter
      PROVE  TypeOK'
  <2>1. UNCHANGED <<host, ringF, ringT, objs, pc, call, list, cpu>>
    BY <1>8 DEF IsrEnter
  <2>2. TypeWire'
    BY <1>8 DEF TypeOK, TypeWire, IsrEnter, slots, mask
  <2> QED BY <2>1, <2>2, TypeFrame DEF TypeOK, call, host, list, objs, ringF,
      ringT
<1>9. ASSUME IsrForward
      PROVE  TypeOK'
  <2>1. UNCHANGED <<host, ringT, pc, call, list, cpu>>
    BY <1>9 DEF IsrForward
  <2>2. TypeF'
    <3>1. Head(availF) \in Bufs /\ Tail(availF) \in Seq(Bufs)
      BY <1>9, TailElems DEF TypeOK, TypeF, IsrForward
    <3>2. Append(usedF, Head(availF)) \in Seq(Bufs)
      BY <3>1, AppendElems DEF TypeOK, TypeF
    <3> QED BY <1>9, <3>1, <3>2 DEF TypeOK, TypeF, IsrForward
  <2>3. TypeWire'
    BY <1>9 DEF TypeOK, TypeWire, IsrForward, slots, mask, TypeF, TypeObjs,
      Endpoints, MsgF
  <2>4. TypeObjs'
    <3>1. Head(availF) \in Bufs
      BY <1>9, TailElems DEF TypeOK, TypeF, IsrForward
    <3>2. ASSUME NEW e \in created
          PROVE  [queue EXCEPT ![e] = Append(@, Head(availF))] \in [Endpoints -> Seq(Bufs)]
      BY <3>1, AppendElems DEF TypeOK, TypeObjs
    <3> QED BY <1>9, <3>2 DEF TypeOK, TypeObjs, IsrForward
  <2> QED BY <2>1, <2>2, <2>3, <2>4, TypeFrame DEF TypeOK, call, host, list,
      ringT
<1>10. ASSUME IsrForwardEnd
       PROVE  TypeOK'
  <2>1. UNCHANGED <<host, ringF, ringT, objs, pc, call, list, cpu>>
    BY <1>10 DEF IsrForwardEnd
  <2>2. TypeWire'
    BY <1>10 DEF TypeOK, TypeWire, IsrForwardEnd, slots, mask
  <2> QED BY <2>1, <2>2, TypeFrame DEF TypeOK, call, host, list, objs, ringF,
      ringT
<1>11. ASSUME IsrWake
       PROVE  TypeOK'
  <2>1. UNCHANGED <<host, ringF, ringT, objs, pc, call>>
    BY <1>11 DEF IsrWake
  <2>2. TypeWire'
    BY <1>11 DEF TypeOK, TypeWire, IsrWake, slots, mask
  <2>3. TypeWait'
    BY <1>11 DEF TypeOK, TypeWait, IsrWake, list
  <2> QED BY <2>1, <2>2, <2>3, TypeFrame DEF TypeOK, call, host, objs, ringF,
      ringT
<1>12. ASSUME IsrExit
       PROVE  TypeOK'
  <2>1. UNCHANGED <<host, ringF, ringT, objs, pc, call, list, cpu>>
    BY <1>12 DEF IsrExit
  <2>2. TypeWire'
    BY <1>12 DEF TypeOK, TypeWire, IsrExit, slots, mask
  <2> QED BY <2>1, <2>2, TypeFrame DEF TypeOK, call, host, list, objs, ringF,
      ringT
<1>13. ASSUME NEW t \in Tasks, CreateCall(t)
       PROVE  TypeOK'
  <2>1. UNCHANGED <<host, ringF, ringT, noIntr, noNotify, slots, isr, mask,
                    sem, objs>>
    BY <1>13 DEF CreateCall, Goes, Moves
  <2>2. TypeTask'
    BY <1>13 DEF TypeOK, TypeTask, CreateCall, Goes, Moves, call, Points, Bufs
  <2>3. TypeWait'
    BY <1>13 DEF TypeOK, TypeWait, CreateCall, Goes, Moves, list
  <2> QED BY <2>1, <2>2, <2>3, TypeFrame DEF TypeOK, host, mask, objs, ringF,
      ringT, slots
<1>14. ASSUME NEW t \in Tasks, SendCall(t)
       PROVE  TypeOK'
  <2>1. UNCHANGED <<host, ringF, ringT, noIntr, noNotify, slots, isr, mask,
                    sem, objs>>
    BY <1>14 DEF SendCall, Goes, Moves
  <2>2. TypeTask'
    <3>1. \A k \in Timeouts : k \in {"zero", "finite", "forever"}
      BY ChoicesAssumption
    <3>2. sent' \in [Tasks -> 0 .. MaxSend]
      BY <1>14 DEF TypeOK, TypeTask, SendCall
    <3>3. tmo' \in [Tasks -> {"zero", "finite", "forever"}]
      BY <1>14, <3>1 DEF TypeOK, TypeTask, SendCall
    <3>4. pc' \in [Tasks -> Points]
      BY <1>14 DEF TypeOK, TypeTask, SendCall, Goes, Moves, Points
    <3>5. op' \in [Tasks -> {"none", "create", "recv", "send"}]
      BY <1>14 DEF TypeOK, TypeTask, SendCall
    <3> QED BY <1>14, <3>2, <3>3, <3>4, <3>5 DEF TypeOK, TypeTask, SendCall
  <2>3. TypeWait'
    BY <1>14 DEF TypeOK, TypeWait, SendCall, Goes, Moves, list
  <2> QED BY <2>1, <2>2, <2>3, TypeFrame DEF TypeOK, host, mask, objs, ringF,
      ringT, slots
<1>15. ASSUME NEW t \in Tasks, Lock(t)
       PROVE  TypeOK'
  <2>1. UNCHANGED <<host, ringF, ringT, objs>>
    BY <1>15 DEF Lock, Goes, Moves
  <2>2. TypeWire'
    BY <1>15 DEF TypeOK, TypeWire, Lock, Goes, Moves, slots, mask
  <2>3. TypeTask'
    BY <1>15 DEF TypeOK, TypeTask, Lock, Goes, Moves, call, Points, Bufs
  <2>4. TypeWait'
    BY <1>15 DEF TypeOK, TypeWait, Lock, Goes, Moves, list
  <2> QED BY <2>1, <2>2, <2>3, <2>4, TypeFrame DEF TypeOK, host, objs, ringF,
      ringT
<1>16. ASSUME NEW t \in Tasks, RecvTake(t)
       PROVE  TypeOK'
  <2>1. UNCHANGED <<host, ringF, ringT, noIntr, noNotify, slots, isr, mask,
                    sem>>
    BY <1>16 DEF RecvTake, Goes, Moves
  <2>2. TypeObjs'
    <3>1. ep[t] \in Endpoints
      BY <1>16 DEF TypeOK, TypeTask, RecvTake, NoEp, Endpoints
    <3>2. Tail(queue[ep[t]]) \in Seq(Bufs)
      BY <1>16, <3>1, TailElems DEF TypeOK, TypeObjs, RecvTake
    <3> QED BY <1>16, <3>1, <3>2 DEF TypeOK, TypeObjs, RecvTake
  <2>3. TypeTask'
    BY <1>16 DEF TypeOK, TypeTask, RecvTake, Goes, Moves, call, Points, Bufs,
      TypeObjs, Endpoints, NoEp
  <2>4. TypeWait'
    BY <1>16 DEF TypeOK, TypeWait, RecvTake, Goes, Moves, list
  <2> QED BY <2>1, <2>2, <2>3, <2>4, TypeFrame DEF TypeOK, host, mask, ringF,
      ringT, slots
<1>17. ASSUME NEW t \in Tasks, RecvCopy(t)
       PROVE  TypeOK'
  <2>1. UNCHANGED <<host, ringF, ringT, noIntr, noNotify, slots, isr, mask,
                    sem, objs>>
    BY <1>17 DEF RecvCopy, Goes, Moves
  <2>2. TypeTask'
    BY <1>17 DEF TypeOK, TypeTask, RecvCopy, Goes, Moves, call, Points, Bufs
  <2>3. TypeWait'
    BY <1>17 DEF TypeOK, TypeWait, RecvCopy, Goes, Moves, list
  <2> QED BY <2>1, <2>2, <2>3, TypeFrame DEF TypeOK, host, mask, objs, ringF,
      ringT, slots
<1>18. ASSUME NEW t \in Tasks, Mask(t)
       PROVE  TypeOK'
  <2>1. UNCHANGED <<host, ringF, ringT, objs>>
    BY <1>18 DEF Mask, Goes, Moves
  <2>2. TypeWire'
    <3>1. rxStop' \in Nat
      BY <1>18 DEF TypeOK, TypeWire, Mask, mask
    <3>2. irqOn' \in BOOLEAN
      BY <1>18 DEF TypeOK, TypeWire, Mask, mask
    <3>3. UNCHANGED <<noIntr, noNotify, mail, bell, isr, sem>>
      BY <1>18 DEF Mask, slots
    <3> QED BY <3>1, <3>2, <3>3 DEF TypeOK, TypeWire
  <2>3. TypeTask'
    BY <1>18 DEF TypeOK, TypeTask, Mask, Goes, Moves, call, Points, Bufs
  <2>4. TypeWait'
    BY <1>18 DEF TypeOK, TypeWait, Mask, Goes, Moves, list
  <2> QED BY <2>1, <2>2, <2>3, <2>4, TypeFrame DEF TypeOK, host, objs, ringF,
      ringT
<1>19. ASSUME NEW t \in Tasks, Create(t)
       PROVE  TypeOK'
  <2>1. UNCHANGED <<host, ringF, ringT, noIntr, noNotify, slots, isr, mask,
                    sem>>
    BY <1>19 DEF Create, Goes, Moves, FreeSlot
  <2>2. TypeObjs'
    <3>1. FreeSlot(Request[t]) \subseteq Endpoints
      BY DEF FreeSlot, Endpoints
    <3> QED BY <1>19, <3>1 DEF TypeOK, TypeObjs, Create
  <2>3. TypeTask'
    BY <1>19 DEF TypeOK, TypeTask, Create, Goes, Moves, FreeSlot, call, Points,
      Bufs, NoEp, Endpoints
  <2>4. TypeWait'
    BY <1>19 DEF TypeOK, TypeWait, Create, Goes, Moves, FreeSlot, list, NoEp,
      Endpoints
  <2> QED BY <2>1, <2>2, <2>3, <2>4, TypeFrame DEF TypeOK, host, mask, ringF,
      ringT, slots
<1>20. ASSUME NEW t \in Tasks, RecvReturn(t)
       PROVE  TypeOK'
  <2>1. UNCHANGED <<host, ringT, noIntr, noNotify, slots, isr, mask, sem,
                    objs>>
    BY <1>20 DEF RecvReturn, Goes, Moves
  <2>2. TypeF'
    BY <1>20 DEF TypeOK, TypeF, RecvReturn, Goes, Moves, ringF, Bufs, TypeTask
  <2>3. TypeTask'
    BY <1>20 DEF TypeOK, TypeTask, RecvReturn, Goes, Moves, call, Points, Bufs
  <2>4. TypeWait'
    BY <1>20 DEF TypeOK, TypeWait, RecvReturn, Goes, Moves, list, TypeTask
  <2> QED BY <2>1, <2>2, <2>3, <2>4, TypeFrame DEF TypeOK, host, mask, objs,
      ringT, slots
<1>21. ASSUME NEW t \in Tasks, SendGet(t)
       PROVE  TypeOK'
  <2>1. UNCHANGED <<host, ringF, objs>>
    BY <1>21 DEF SendGet, Goes, Moves, TakeAvail, NoneAvail
  <2>2. TypeT'
    <3>1. availT # <<>> => Tail(availT) \in Seq(Bufs)
      BY TailElems DEF TypeOK, TypeT
    <3> QED BY <1>21, <3>1 DEF TypeOK, TypeT, SendGet, TakeAvail, NoneAvail
  <2>3. TypeWire'
    BY <1>21 DEF TypeOK, TypeWire, SendGet, Goes, Moves, TakeAvail, NoneAvail,
      slots, mask, TypeT, TypeTask, TypeWait
  <2>4. TypeTask'
    <3>1. availT # <<>> => Head(availT) \in Bufs
      BY TailElems DEF TypeOK, TypeT
    <3>2. tok' \in [Tasks -> Bufs]
      BY <1>21, <3>1 DEF TypeOK, TypeTask, SendGet, TakeAvail, NoneAvail
    <3>3. pc' \in [Tasks -> Points]
      BY <1>21 DEF TypeOK, TypeTask, SendGet, Goes, Moves, Points
    <3> QED BY <1>21, <3>2, <3>3 DEF TypeOK, TypeTask, SendGet
  <2>5. TypeWait'
    BY <1>21 DEF TypeOK, TypeWait, SendGet, Goes, Moves, TakeAvail, NoneAvail,
      list, TypeT, TypeTask
  <2> QED BY <2>1, <2>2, <2>3, <2>4, <2>5, TypeFrame DEF TypeOK, host, objs,
      ringF
<1>22. ASSUME NEW t \in Tasks, SendPlace(t)
       PROVE  TypeOK'
  <2>1. UNCHANGED <<host, ringF, ringT, noIntr, noNotify, slots, isr, mask,
                    sem, objs>>
    BY <1>22 DEF SendPlace, Moves
  <2>2. TypeTask'
    BY <1>22 DEF TypeOK, TypeTask, SendPlace, Moves, call, Points, Bufs
  <2>3. TypeWait'
    BY <1>22 DEF TypeOK, TypeWait, SendPlace, Moves, list
  <2> QED BY <2>1, <2>2, <2>3, TypeFrame DEF TypeOK, host, mask, objs, ringF,
      ringT, slots
<1>23. ASSUME NEW t \in Tasks, SendRetry(t)
       PROVE  TypeOK'
  <2>1. UNCHANGED <<host, ringF, objs>>
    BY <1>23 DEF SendRetry, Goes, Moves, TakeAvail, NoneAvail
  <2>2. TypeT'
    <3>1. availT # <<>> => Tail(availT) \in Seq(Bufs)
      BY TailElems DEF TypeOK, TypeT
    <3> QED BY <1>23, <3>1 DEF TypeOK, TypeT, SendRetry, TakeAvail, NoneAvail
  <2>3. TypeWire'
    BY <1>23 DEF TypeOK, TypeWire, SendRetry, Goes, Moves, TakeAvail,
      NoneAvail, slots, mask, TypeT, TypeTask, TypeWait
  <2>4. TypeTask'
    <3>1. availT # <<>> => Head(availT) \in Bufs
      BY TailElems DEF TypeOK, TypeT
    <3>2. tok' \in [Tasks -> Bufs]
      BY <1>23, <3>1 DEF TypeOK, TypeTask, SendRetry, TakeAvail, NoneAvail
    <3>3. pc' \in [Tasks -> Points]
      BY <1>23 DEF TypeOK, TypeTask, SendRetry, Goes, Moves, Points
    <3> QED BY <1>23, <3>2, <3>3 DEF TypeOK, TypeTask, SendRetry
  <2>5. TypeWait'
    BY <1>23 DEF TypeOK, TypeWait, SendRetry, Goes, Moves, TakeAvail,
      NoneAvail, list, TypeT, TypeTask
  <2> QED BY <2>1, <2>2, <2>3, <2>4, <2>5, TypeFrame DEF TypeOK, host, objs,
      ringF
<1>24. ASSUME NEW t \in Tasks, SendPut(t)
       PROVE  TypeOK'
  <2>1. UNCHANGED <<host, ringF, noIntr, noNotify, slots, isr, mask, sem,
                    objs>>
    BY <1>24 DEF SendPut, Goes, Moves
  <2>2. TypeT'
    BY <1>24 DEF TypeOK, TypeT, SendPut, Goes, Moves, ringT, Bufs, MsgT,
      TypeTask
  <2>3. TypeTask'
    BY <1>24 DEF TypeOK, TypeTask, SendPut, Goes, Moves, call, Points, Bufs
  <2>4. TypeWait'
    BY <1>24 DEF TypeOK, TypeWait, SendPut, Goes, Moves, list
  <2> QED BY <2>1, <2>2, <2>3, <2>4, TypeFrame DEF TypeOK, host, mask, objs,
      ringF, slots
<1>25. ASSUME NEW t \in Tasks, Kick(t)
       PROVE  TypeOK'
  <2>1. UNCHANGED <<host, ringF, ringT, objs>>
    BY <1>25 DEF Kick, Goes, Moves
  <2>2. TypeWire'
    BY <1>25 DEF TypeOK, TypeWire, Kick, Goes, Moves, slots, mask
  <2>3. TypeTask'
    BY <1>25 DEF TypeOK, TypeTask, Kick, Goes, Moves, call, Points, Bufs
  <2>4. TypeWait'
    BY <1>25 DEF TypeOK, TypeWait, Kick, Goes, Moves, list
  <2> QED BY <2>1, <2>2, <2>3, <2>4, TypeFrame DEF TypeOK, host, objs, ringF,
      ringT
<1>26. ASSUME NEW t \in Tasks, Unmask(t)
       PROVE  TypeOK'
  <2>1. UNCHANGED <<host, ringF, ringT, objs>>
    BY <1>26 DEF Unmask, Goes, Moves
  <2>2. TypeWire'
    <3>1. rxStop' \in Nat
      BY <1>26 DEF TypeOK, TypeWire, Unmask, mask
    <3>2. irqOn' \in BOOLEAN
      BY <1>26 DEF TypeOK, TypeWire, Unmask, mask
    <3>3. UNCHANGED <<noIntr, noNotify, mail, bell, isr, sem>>
      BY <1>26 DEF Unmask, slots
    <3> QED BY <3>1, <3>2, <3>3 DEF TypeOK, TypeWire
  <2>3. TypeTask'
    BY <1>26 DEF TypeOK, TypeTask, Unmask, Goes, Moves, call, Points, Bufs
  <2>4. TypeWait'
    BY <1>26 DEF TypeOK, TypeWait, Unmask, Goes, Moves, list
  <2> QED BY <2>1, <2>2, <2>3, <2>4, TypeFrame DEF TypeOK, host, objs, ringF,
      ringT
<1>27. ASSUME NEW t \in Tasks, Give(t)
       PROVE  TypeOK'
  <2>1. UNCHANGED <<host, ringF, ringT, objs>>
    BY <1>27 DEF Give, Goes, Moves
  <2>2. TypeWire'
    BY <1>27 DEF TypeOK, TypeWire, Give, Goes, Moves, slots, mask
  <2>3. TypeTask'
    BY <1>27 DEF TypeOK, TypeTask, Give, Goes, Moves, call, Points, Bufs
  <2>4. TypeWait'
    BY <1>27 DEF TypeOK, TypeWait, Give, Goes, Moves, list
  <2> QED BY <2>1, <2>2, <2>3, <2>4, TypeFrame DEF TypeOK, host, objs, ringF,
      ringT
<1>28. ASSUME NEW t \in Tasks, Tick(t)
       PROVE  TypeOK'
  <2>1. UNCHANGED <<host, ringF, ringT, noIntr, noNotify, slots, isr, mask,
                    sem, objs, pc, call>>
    BY <1>28 DEF Tick
  <2>2. TypeWait'
    BY <1>28 DEF TypeOK, TypeWait, Tick, list
  <2> QED BY <2>1, <2>2, TypeFrame DEF TypeOK, call, host, mask, objs, ringF,
      ringT, slots
<1>29. ASSUME NEW t \in Tasks, BlockLinked(t)
       PROVE  TypeOK'
  <2>1. UNCHANGED <<host, ringF, ringT, noIntr, noNotify, slots, isr, mask,
                    sem, objs, pc, call>>
    BY <1>29 DEF BlockLinked
  <2>2. TypeWait'
    BY <1>29 DEF TypeOK, TypeWait, BlockLinked, list
  <2> QED BY <2>1, <2>2, TypeFrame DEF TypeOK, call, host, mask, objs, ringF,
      ringT, slots
<1>30. CASE UNCHANGED vars
  BY <1>30, TypeFrame DEF vars, TypeOK
<1> QED BY <1>1, <1>2, <1>3, <1>4, <1>5, <1>6, <1>7, <1>8, <1>9, <1>10, <1>11,
         <1>12, <1>13, <1>14, <1>15, <1>16, <1>17, <1>18, <1>19, <1>20, <1>21,
         <1>22, <1>23, <1>24, <1>25, <1>26, <1>27, <1>28, <1>29, <1>30 DEF
         Next, Host, Isr, Task, Calls, Step

\* The variables keep their types in every behaviour.
THEOREM TypeCorrect == Spec => []TypeOK
<1>1. Init => TypeOK
  <2> SUFFICES ASSUME Init PROVE TypeOK
    OBVIOUS
  <2> USE NumBufAssumption, LimitsAssumption
  <2>1. /\ 0 \in Bufs /\ BlankF \in MsgF /\ BlankT \in MsgT
        /\ <<>> \in Seq(Bufs)
    BY DEF Bufs, BlankF, MsgF, BlankT, MsgT, NoEp
  <2>2. [i \in 1 .. NumBuf |-> i - 1] \in Seq(Bufs)
    <3>1. \A i \in 1 .. NumBuf : i - 1 \in Bufs
      BY DEF Bufs
    <3> QED BY <3>1
  <2>3. TypeHost
    <3>1. hostFree = Bufs /\ hostKick = {} /\ hostRx = FALSE /\ posted = 0
      BY Zenon DEF Init
    <3>2. 0 \in 0 .. MaxPost
      OBVIOUS
    <3> QED BY <3>1, <3>2, Zenon DEF TypeHost
  <2>4. TypeF
    BY <2>1 DEF Init, TypeF
  <2>5. TypeT
    BY <2>1, <2>2 DEF Init, TypeT
  <2>6. TypeWire
    BY ChoicesAssumption DEF Init, TypeWire
  <2>7. TypeObjs
    BY DEF Init, TypeObjs
  <2>8. TypeTask
    BY <2>1 DEF Init, TypeTask, Points, NoEp
  <2>9. TypeWait
    BY DEF Init, TypeWait
  <2> QED BY <2>3, <2>4, <2>5, <2>6, <2>7, <2>8, <2>9 DEF TypeOK
<1>2. TypeOK /\ [Next]_vars => TypeOK'
  BY TypeStep
<1> QED BY <1>1, <1>2, PTL DEF Spec

-------------------------------------------------------------------------------
(***************************************************************************)
(* The critical section.  CriticalSection is inductive once it says who    *)
(* masked the interrupt: Mask counts rxStop up to 1 only because a task    *)
(* that holds the semaphore at "mask" excludes another one further on.     *)
(***************************************************************************)
CritPoints == {"work", "fill", "place", "retry", "kick", "unmask", "hung"}
CritInv == /\ CriticalSection
           /\ ~irqOn => \E t \in Tasks : InCritical(t)

\* Nothing the section is about changes.
LEMMA CritFrame ==
  ASSUME CritInv, UNCHANGED <<pc, sem, mask, isr>>
  PROVE  CritInv'
BY DEF CritInv, CriticalSection, InCritical, HasSem, mask

\* The holder goes on inside the section.
LEMMA CritInside ==
  ASSUME TypeOK, CritInv, NEW t \in Tasks, pc[t] \in CritPoints,
         NEW to \in CritPoints, pc' = [pc EXCEPT ![t] = to],
         UNCHANGED <<sem, mask, isr>>
  PROVE  CritInv'
<1>1. /\ InCritical(t) /\ InCritical(t)'
      /\ \A u \in Tasks : u # t => pc'[u] = pc[u]
  BY DEF TypeOK, TypeTask, InCritical, CritPoints
<1>2. \A u \in Tasks : /\ InCritical(u)' <=> InCritical(u)
                       /\ HasSem(u)' <=> HasSem(u)
  BY <1>1 DEF InCritical, HasSem
<1> QED BY <1>2 DEF CritInv, CriticalSection, mask

\* A task moves outside the section.
LEMMA CritOutside ==
  ASSUME TypeOK, CritInv, NEW t \in Tasks, pc[t] \in {"idle", "copy"},
         NEW to \in {"lock", "copy"}, pc' = [pc EXCEPT ![t] = to],
         UNCHANGED <<sem, mask, isr>>
  PROVE  CritInv'
<1>1. \A u \in Tasks : /\ InCritical(u)' <=> InCritical(u)
                       /\ HasSem(u)' <=> HasSem(u)
  BY DEF TypeOK, TypeTask, InCritical, HasSem
<1> QED BY <1>1 DEF CritInv, CriticalSection, mask

LEMMA CritStep ==
  ASSUME TypeOK, CritInv, [Next]_vars
  PROVE  CritInv'
<1>1. ASSUME Host PROVE CritInv'
  BY <1>1, CritFrame DEF Host, HostPost, HostReclaim, HostAccept, HostRxDone,
     HostRing, HostIrq, HostSetIntr, mask
<1>2. CASE IsrEnter
  <2>1. irqOn /\ \A t \in Tasks : ~InCritical(t)
    BY <1>2 DEF IsrEnter, CritInv, CriticalSection
  <2>2. UNCHANGED <<pc, sem, irqOn, rxStop>>
    BY <1>2 DEF IsrEnter, mask
  <2> QED BY <2>1, <2>2 DEF CritInv, CriticalSection, InCritical, HasSem
<1>3. CASE IsrForward \/ IsrForwardEnd \/ IsrWake \/ IsrExit
  <2>1. isr # "off" /\ UNCHANGED <<pc, sem, irqOn, rxStop>>
    BY <1>3 DEF IsrForward, IsrForwardEnd, IsrWake, IsrExit, mask
  <2>2. \A t \in Tasks : ~InCritical(t)
    BY <2>1 DEF CritInv, CriticalSection
  <2> QED BY <2>1, <2>2 DEF CritInv, CriticalSection, InCritical, HasSem
<1>4. ASSUME NEW t \in Tasks, Calls(t) \/ RecvTake(t) \/ RecvCopy(t)
      PROVE  CritInv'
  BY <1>4, CritOutside DEF Calls, CreateCall, SendCall, RecvTake, RecvCopy, Goes,
     Moves
<1>5. ASSUME NEW t \in Tasks, Lock(t)
      PROVE  CritInv'
  <2>1. /\ pc[t] = "lock" /\ sem = NoTask /\ sem' = t
        /\ pc' = [pc EXCEPT ![t] = "mask"] /\ UNCHANGED <<irqOn, rxStop, isr>>
    BY <1>5 DEF Lock, Goes, Moves, mask
  <2>2. \A u \in Tasks : ~HasSem(u)
    BY <2>1, TasksAssumption DEF CritInv, CriticalSection
  <2>3. \A u \in Tasks : ~InCritical(u) /\ ~InCritical(u)' /\ (HasSem(u)' <=> u = t)
    BY <2>1, <2>2 DEF TypeOK, TypeTask, InCritical, HasSem
  <2> QED BY <2>1, <2>3 DEF CritInv, CriticalSection
<1>6. ASSUME NEW t \in Tasks, Mask(t)
      PROVE  CritInv'
  <2>1. /\ pc[t] = "mask" /\ isr = "off" /\ ~irqOn' /\ rxStop' = rxStop + 1
        /\ pc' = [pc EXCEPT ![t] = "work"] /\ UNCHANGED <<sem, isr>>
    BY <1>6 DEF Mask, Goes, Moves, CanRun
  <2>2. sem = t /\ \A u \in Tasks : HasSem(u) => u = t
    BY <2>1 DEF CritInv, CriticalSection, HasSem
  <2>3. \A u \in Tasks : ~InCritical(u)
    BY <2>1, <2>2 DEF InCritical, HasSem
  <2>4. irqOn /\ rxStop = 0
    BY <2>3 DEF CritInv, CriticalSection
  <2>5. \A u \in Tasks : (InCritical(u)' <=> u = t) /\ (HasSem(u)' <=> u = t)
    BY <2>1, <2>2 DEF TypeOK, TypeTask, InCritical, HasSem
  <2>6. rxStop' = 1
    BY <2>1, <2>4
  <2> QED BY <2>1, <2>2, <2>5, <2>6 DEF CritInv, CriticalSection
<1>7. ASSUME NEW t \in Tasks,
             Create(t) \/ RecvReturn(t) \/ SendGet(t) \/ SendPlace(t) \/ SendRetry(t)
               \/ SendPut(t) \/ Kick(t)
      PROVE  CritInv'
  <2>1. UNCHANGED <<sem, mask, isr>>
    BY <1>7 DEF Create, RecvReturn, SendGet, SendPlace, SendRetry, SendPut, Kick, mask
  <2>2. \E to \in CritPoints : pc[t] \in CritPoints /\ pc' = [pc EXCEPT ![t] = to]
    BY <1>7 DEF Create, RecvReturn, SendGet, SendPlace, SendRetry, SendPut, Kick,
       Goes, Moves, CritPoints
  <2> QED BY <2>1, <2>2, CritInside
<1>8. ASSUME NEW t \in Tasks, Unmask(t)
      PROVE  CritInv'
  <2>1. /\ pc[t] = "unmask" /\ pc' = [pc EXCEPT ![t] = "give"] /\ UNCHANGED <<sem, isr>>
    BY <1>8 DEF Unmask, Goes, Moves
  <2>2. sem = t /\ rxStop = 1 /\ \A u \in Tasks : HasSem(u) => u = t
    BY <2>1 DEF CritInv, CriticalSection, HasSem, InCritical
  <2>3. irqOn' /\ rxStop' = 0
    BY <1>8, <2>2 DEF Unmask, mask
  <2>4. \A u \in Tasks : ~InCritical(u)' /\ (HasSem(u)' <=> u = t)
    BY <2>1, <2>2 DEF TypeOK, TypeTask, InCritical, HasSem
  <2> QED BY <2>1, <2>2, <2>3, <2>4 DEF CritInv, CriticalSection
<1>9. ASSUME NEW t \in Tasks, Give(t)
      PROVE  CritInv'
  <2>1. /\ pc[t] = "give" /\ pc' = [pc EXCEPT ![t] = "idle"] /\ sem' = NoTask
        /\ UNCHANGED <<irqOn, rxStop, isr>>
    BY <1>9 DEF Give, Goes, Moves, mask
  <2>2. \A u \in Tasks : HasSem(u) => u = t
    BY <2>1 DEF CritInv, CriticalSection, HasSem
  <2>3. \A u \in Tasks : ~HasSem(u)' /\ ~InCritical(u)' /\ ~InCritical(u)
    BY <2>1, <2>2 DEF TypeOK, TypeTask, InCritical, HasSem
  <2> QED BY <2>1, <2>3, TasksAssumption DEF CritInv, CriticalSection
<1>10. ASSUME NEW t \in Tasks, Tick(t) \/ BlockLinked(t)
       PROVE  CritInv'
  BY <1>10, CritFrame DEF Tick, BlockLinked
<1>11. CASE UNCHANGED vars
  BY <1>11, CritFrame DEF vars
<1> QED BY <1>1, <1>2, <1>3, <1>4, <1>5, <1>6, <1>7, <1>8, <1>9, <1>10, <1>11
        DEF Next, Isr, Task, Step

\* One holder of the critical section, the interrupt masked and none under way, and
\* mbox_stop_rx_msg and mbox_resume_rx_msg counted evenly: for every set of tasks.
THEOREM CriticalSectionHolds == Spec => []CriticalSection
<1>1. Init => CritInv
  BY TasksAssumption DEF Init, CritInv, CriticalSection, InCritical, HasSem
<1>2. TypeOK /\ CritInv /\ [Next]_vars => CritInv'
  BY CritStep
<1>3. CritInv => CriticalSection
  BY DEF CritInv
<1> QED BY <1>1, <1>2, <1>3, TypeCorrect, PTL DEF Spec
-------------------------------------------------------------------------------
(***************************************************************************)
(* The doorbell to the host.  Inductive with: only a send is between       *)
(* getting a buffer and publishing it.                                     *)
(***************************************************************************)
BellInv == /\ BellPending
           /\ \A t \in Tasks : pc[t] \in {"fill", "place", "retry"} => op[t] = "send"

\* The doorbell, the rings and the tasks' progress are untouched.
LEMMA BellFrame ==
  ASSUME BellInv, UNCHANGED <<usedT, bell, hostRx, pc, op>>
  PROVE  BellInv'
BY DEF BellInv, BellPending

\* A task that is not about to ring moves on, to a point that is not the wait loop.
LEMMA BellMove ==
  ASSUME TypeOK, BellInv, NEW t \in Tasks, pc[t] # "kick",
         UNCHANGED <<usedT, bell, hostRx>>,
         NEW to, pc' = [pc EXCEPT ![t] = to],
         \A u \in Tasks \ {t} : op'[u] = op[u],
         to \in {"fill", "place", "retry"} => op'[t] = "send"
  PROVE  BellInv'
<1>1. \A u \in Tasks \ {t} : pc'[u] = pc[u] /\ op'[u] = op[u]
  BY DEF TypeOK, TypeTask
<1>2. pc'[t] = to
  BY DEF TypeOK, TypeTask
<1> QED BY <1>1, <1>2 DEF BellInv, BellPending

LEMMA BellStep ==
  ASSUME TypeOK, BellInv, [Next]_vars
  PROVE  BellInv'
<1>1. CASE \/ \E e \in 0 .. MaxObjects : HostPost(e)
           \/ HostReclaim \/ (\E q \in {"from", "to"} : HostRing(q)) \/ HostSetIntr
           \/ Isr \/ (\E t \in Tasks : Tick(t) \/ BlockLinked(t))
  BY <1>1, BellFrame DEF HostPost, HostReclaim, HostRing, HostSetIntr, Isr, IsrEnter,
     IsrForward, IsrForwardEnd, IsrWake, IsrExit, Tick, BlockLinked, host, ringT,
     slots, call
<1>2. CASE HostAccept
  BY <1>2 DEF HostAccept, BellInv, BellPending, host, slots, call
<1>3. CASE HostRxDone
  BY <1>3 DEF HostRxDone, BellInv, BellPending, ringT, slots, call
<1>4. CASE HostIrq
  <2>1. /\ bell = "to" => hostRx'
        /\ hostRx => hostRx'
        /\ UNCHANGED <<usedT, pc, op>>
    BY <1>4, Zenon DEF HostIrq, ringT, call
  <2> QED BY <2>1 DEF BellInv, BellPending
<1>5. ASSUME NEW t \in Tasks, CreateCall(t) \/ SendCall(t) \/ RecvTake(t)
      PROVE  BellInv'
  BY <1>5, BellMove DEF CreateCall, SendCall, RecvTake, Goes, Moves, host, ringT,
     slots, TypeOK, TypeTask
<1>6. ASSUME NEW t \in Tasks, RecvCopy(t) \/ Lock(t) \/ Mask(t) \/ Create(t)
               \/ RecvReturn(t) \/ Unmask(t)
      PROVE  BellInv'
  BY <1>6, BellMove DEF RecvCopy, Lock, Mask, Create, RecvReturn, Unmask, Goes, Moves,
     host, ringT, slots, call
<1>7. ASSUME NEW t \in Tasks, SendGet(t) \/ SendPlace(t) \/ SendRetry(t)
      PROVE  BellInv'
  <2>1. pc[t] # "kick" /\ op[t] = "send" /\ UNCHANGED <<usedT, bell, hostRx, op>>
    BY <1>7 DEF SendGet, SendPlace, SendRetry, Goes, Moves, host, ringT, slots, call,
       BellInv
  <2>2. \E to : pc' = [pc EXCEPT ![t] = to]
    BY <1>7 DEF SendGet, SendPlace, SendRetry, Goes, Moves
  <2> QED BY <2>1, <2>2, BellMove
<1>8. ASSUME NEW t \in Tasks, SendPut(t)
      PROVE  BellInv'
  <2>1. pc[t] = "fill" /\ op' = op /\ pc' = [pc EXCEPT ![t] = "kick"]
    BY <1>8 DEF SendPut, Goes, Moves, call
  <2>2. pc'[t] = "kick" /\ op'[t] = "send"
    BY <2>1 DEF TypeOK, TypeTask, BellInv
  <2>3. \A u \in Tasks \ {t} : pc'[u] = pc[u] /\ op'[u] = op[u]
    BY <2>1 DEF TypeOK, TypeTask
  <2> QED BY <2>2, <2>3 DEF BellInv, BellPending
<1>9. ASSUME NEW t \in Tasks, Kick(t)
      PROVE  BellInv'
  <2>1. /\ pc[t] = "kick" /\ pc' = [pc EXCEPT ![t] = "unmask"]
        /\ UNCHANGED <<usedT, hostRx, op>>
        /\ bell = "to" => bell' = "to"
        /\ op[t] # "recv" => bell' = "to"
    BY <1>9 DEF Kick, Goes, Moves, host, ringT, call
  <2>2. pc'[t] = "unmask" /\ \A u \in Tasks \ {t} : pc'[u] = pc[u]
    BY <2>1 DEF TypeOK, TypeTask
  <2> QED BY <2>1, <2>2 DEF BellInv, BellPending
<1>10. ASSUME NEW t \in Tasks, Give(t)
       PROVE  BellInv'
  BY <1>10, BellMove DEF Give, Goes, Moves, host, ringT, slots, TypeOK, TypeTask
<1>11. CASE UNCHANGED vars
  BY <1>11, BellFrame DEF vars, host, ringT, slots, call
<1> QED BY <1>1, <1>2, <1>3, <1>4, <1>5, <1>6, <1>7, <1>8, <1>9, <1>10, <1>11
        DEF Next, Host, Isr, Task, Calls, Step

\* The ring for a message to the host is never lost in the slot both vrings share.
THEOREM BellNeverLost == Spec => []BellPending
<1>1. Init => BellInv
  BY DEF Init, BellInv, BellPending
<1>2. TypeOK /\ BellInv /\ [Next]_vars => BellInv'
  BY BellStep
<1>3. BellInv => BellPending
  BY DEF BellInv
<1> QED BY <1>1, <1>2, <1>3, TypeCorrect, PTL DEF Spec

-------------------------------------------------------------------------------
(***************************************************************************)
(* The doorbell to the M3.  Inductive with what the interrupt knows of the *)
(* slot: the slot stays taken until IsrExit, and when FromHost's loop has  *)
(* ended, a message offered since then has asked for another ring.         *)
(***************************************************************************)
MailInv == /\ MailPending
           /\ isr = "to" => mail = "to"
           /\ isr \in {"from", "fromUsed"} => mail = "from"
           /\ isr = "clear" => mail # "none"
           /\ isr = "clear" /\ availF # <<>> => "from" \in hostKick

\* The slot, the pending rings and the vring are untouched.
LEMMA MailFrame ==
  ASSUME MailInv, UNCHANGED <<availF, mail, hostKick, isr>>
  PROVE  MailInv'
BY DEF MailInv, MailPending

LEMMA MailStep ==
  ASSUME TypeOK, MailInv, [Next]_vars
  PROVE  MailInv'
<1>1. ASSUME NEW e \in 0 .. MaxObjects, HostPost(e)
      PROVE  MailInv'
  BY <1>1 DEF HostPost, MailInv, MailPending, slots
<1>2. CASE HostReclaim \/ HostAccept \/ HostIrq \/ HostSetIntr
  BY <1>2, MailFrame DEF HostReclaim, HostAccept, HostIrq, HostSetIntr, host, ringF,
     slots
<1>3. CASE HostRxDone
  <2>1. hostKick \subseteq hostKick' /\ UNCHANGED <<availF, mail, isr>>
    BY <1>3 DEF HostRxDone, ringF, slots
  <2> QED BY <2>1 DEF MailInv, MailPending
<1>4. ASSUME NEW q \in {"from", "to"}, HostRing(q)
      PROVE  MailInv'
  BY <1>4 DEF HostRing, MailInv, MailPending, ringF
<1>5. CASE IsrEnter
  <2>1. /\ isr' = mail /\ mail \in {"from", "to"}
        /\ UNCHANGED <<availF, mail, hostKick>>
    BY <1>5 DEF IsrEnter, TypeOK, TypeWire, host, ringF, slots
  <2> QED BY <2>1 DEF MailInv, MailPending
<1>6. CASE IsrForward
  <2>1. /\ isr \in {"from", "fromUsed"} /\ isr' \in {"from", "fromUsed"}
        /\ UNCHANGED <<mail, hostKick>>
    BY <1>6 DEF IsrForward, host, slots
  <2> QED BY <2>1 DEF MailInv, MailPending
<1>7. CASE IsrForwardEnd
  <2>1. /\ isr \in {"from", "fromUsed"} /\ isr' \in {"hung", "clear"} /\ availF = <<>>
        /\ UNCHANGED <<availF, mail, hostKick>>
    BY <1>7 DEF IsrForwardEnd, host, ringF, slots
  <2> QED BY <2>1 DEF MailInv, MailPending
<1>8. CASE IsrWake
  <2>1. /\ isr = "to" /\ isr' \in {"clear", "fault"}
        /\ UNCHANGED <<availF, mail, hostKick>>
    BY <1>8 DEF IsrWake, host, ringF, slots
  <2> QED BY <2>1 DEF MailInv, MailPending
<1>9. CASE IsrExit
  BY <1>9 DEF IsrExit, MailInv, MailPending, host, ringF
<1>10. ASSUME NEW t \in Tasks, Task(t)
       PROVE  MailInv'
  BY <1>10, MailFrame DEF Task, Calls, Step, CreateCall, SendCall, Lock, RecvTake,
     RecvCopy, Mask, Create, RecvReturn, SendGet, SendPlace, SendRetry, SendPut, Kick,
     Unmask, Give, Tick, BlockLinked, host, ringF, slots
<1>11. CASE UNCHANGED vars
  BY <1>11, MailFrame DEF vars, host, ringF, slots
<1> QED BY <1>1, <1>2, <1>3, <1>4, <1>5, <1>6, <1>7, <1>8, <1>9, <1>10, <1>11
        DEF Next, Host, Isr

\* The ring for a message to the M3 is never lost, although the interrupt bit is
\* cleared only after the callback has looked at the vring for the last time.
THEOREM MailNeverLost == Spec => []MailPending
<1>1. Init => MailInv
  BY DEF Init, MailInv, MailPending
<1>2. TypeOK /\ MailInv /\ [Next]_vars => MailInv'
  BY MailStep
<1>3. MailInv => MailPending
  BY DEF MailInv
<1> QED BY <1>1, <1>2, <1>3, TypeCorrect, PTL DEF Spec
-------------------------------------------------------------------------------
(***************************************************************************)
(* The buffers of FromHost.  ExclusiveF is inductive by itself; below a    *)
(* vring or a queue is known by its elements (Elems) and by having no      *)
(* repetition (Distinct) only.                                             *)
(***************************************************************************)
\* Nothing moves, and no task holds a buffer it did not hold.
LEMMA ExclusiveFFrame ==
  ASSUME ExclusiveF, UNCHANGED <<hostFree, availF, usedF, queue>>,
         \A t \in Tasks : HoldsF(t)' => HoldsF(t) /\ tok'[t] = tok[t]
  PROVE  ExclusiveF'
BY DEF ExclusiveF

LEMMA ExclusiveFStep ==
  ASSUME TypeOK, ExclusiveF, [Next]_vars
  PROVE  ExclusiveF'
<1>1. ASSUME NEW e \in 0 .. MaxObjects, HostPost(e)
      PROVE  ExclusiveF'
  <2>1. PICK b \in hostFree : /\ availF' = Append(availF, b)
                              /\ hostFree' = hostFree \ {b}
    BY <1>1 DEF HostPost
  <2>2. /\ UNCHANGED <<usedF, queue, tok>>
        /\ \A t \in Tasks : HoldsF(t)' <=> HoldsF(t)
    BY <1>1 DEF HostPost, objs, call, HoldsF
  <2>3. /\ b \notin Elems(availF) /\ availF \in Seq(Bufs) /\ b \in Bufs
        /\ Distinct(availF)
    BY DEF ExclusiveF, TypeOK, TypeHost, TypeF
  <2>4. Distinct(availF') /\ Elems(availF') = Elems(availF) \cup {b}
    BY <2>1, <2>3, AppendElems
  <2> QED BY <2>1, <2>2, <2>4 DEF ExclusiveF
<1>2. CASE HostReclaim
  <2>1. /\ hostFree' = hostFree \cup {Head(usedF)} /\ usedF' = Tail(usedF)
        /\ UNCHANGED <<availF, queue, tok>>
        /\ \A t \in Tasks : HoldsF(t)' <=> HoldsF(t)
    BY <1>2 DEF HostReclaim, objs, call, HoldsF
  <2>2. /\ Elems(usedF) = Elems(usedF') \cup {Head(usedF)}
        /\ Distinct(usedF') /\ Head(usedF) \notin Elems(usedF')
    BY <1>2, <2>1, TailElems DEF HostReclaim, TypeOK, TypeF, ExclusiveF
  <2> QED BY <2>1, <2>2 DEF ExclusiveF
<1>3. CASE IsrForward
  <2> DEFINE b == Head(availF)
             d == memF[b].dst
  <2>1. /\ availF' = Tail(availF) /\ UNCHANGED <<hostFree, tok>>
        /\ \A t \in Tasks : HoldsF(t)' <=> HoldsF(t)
    BY <1>3 DEF IsrForward, host, call, HoldsF
  <2>2. /\ Elems(availF) = Elems(availF') \cup {b} /\ b \in Bufs
        /\ Distinct(availF') /\ b \notin Elems(availF')
    BY <1>3, <2>1, TailElems DEF IsrForward, TypeOK, TypeF, ExclusiveF
  <2>3. CASE d \in created /\ Len(queue[d]) < QueLen
    <3>1. d \in Endpoints /\ usedF' = usedF
          /\ queue' = [queue EXCEPT ![d] = Append(@, b)]
      BY <1>3, <2>3 DEF IsrForward, TypeOK, TypeObjs
    <3>2. /\ queue'[d] = Append(queue[d], b) /\ queue[d] \in Seq(Bufs)
          /\ \A e \in Endpoints \ {d} : queue'[e] = queue[e]
      BY <3>1 DEF TypeOK, TypeObjs
    <3>3. b \notin Elems(queue[d]) /\ Distinct(queue[d])
      BY <2>2, <3>1 DEF ExclusiveF
    <3>4. Distinct(queue'[d]) /\ Elems(queue'[d]) = Elems(queue[d]) \cup {b}
      BY <2>2, <3>2, <3>3, AppendElems
    <3> HIDE DEF b, d
    <3>5. \A e \in Endpoints : Distinct(queue'[e])
             /\ Elems(queue'[e]) \subseteq Elems(queue[e]) \cup {b}
             /\ (e # d => Elems(queue'[e]) = Elems(queue[e]))
      BY <3>1, <3>2, <3>4 DEF ExclusiveF
    <3>6. \A e, f \in Endpoints : f # e => Elems(queue'[e]) \cap Elems(queue'[f]) = {}
      BY <2>2, <3>5 DEF ExclusiveF
    <3>7. \A t \in Tasks : HoldsF(t) => tok[t] # b
      BY <2>2 DEF ExclusiveF
    <3>8. /\ Distinct(availF') /\ Distinct(usedF')
          /\ Elems(availF') \cap Elems(usedF') = {}
          /\ hostFree' \cap (Elems(availF') \cup Elems(usedF')) = {}
      BY <2>1, <2>2, <3>1 DEF ExclusiveF
    <3>9. ASSUME NEW e \in Endpoints
          PROVE  /\ Distinct(queue'[e])
                 /\ Elems(queue'[e]) \cap (hostFree' \cup Elems(availF') \cup Elems(usedF')) = {}
                 /\ \A f \in Endpoints : f # e => Elems(queue'[e]) \cap Elems(queue'[f]) = {}
      <4>1. b \notin hostFree' \cup Elems(availF') \cup Elems(usedF')
        BY <2>1, <2>2, <3>1 DEF ExclusiveF
      <4>2. Elems(queue[e]) \cap (hostFree' \cup Elems(availF') \cup Elems(usedF')) = {}
        BY <2>1, <2>2, <3>1 DEF ExclusiveF
      <4> QED BY <3>5, <3>6, <4>1, <4>2
    <3>10. ASSUME NEW u \in Tasks, HoldsF(u)'
          PROVE  /\ tok'[u] \notin hostFree' \cup Elems(availF') \cup Elems(usedF')
                 /\ \A e \in Endpoints : tok'[u] \notin Elems(queue'[e])
                 /\ \A v \in Tasks : HoldsF(v)' /\ v # u => tok'[v] # tok'[u]
      BY <3>10, <2>1, <2>2, <3>1, <3>5, <3>7 DEF ExclusiveF
    <3> QED BY <3>8, <3>9, <3>10 DEF ExclusiveF
  <2>4. CASE ~(d \in created /\ Len(queue[d]) < QueLen)
    <3>1. usedF' = Append(usedF, b) /\ queue' = queue
      BY <1>3, <2>4 DEF IsrForward
    <3>2. b \notin Elems(usedF) /\ Distinct(usedF) /\ usedF \in Seq(Bufs)
      BY <2>2 DEF ExclusiveF, TypeOK, TypeF
    <3>3. Distinct(usedF') /\ Elems(usedF') = Elems(usedF) \cup {b}
      BY <2>2, <3>1, <3>2, AppendElems
    <3> HIDE DEF b, d
    <3> QED BY <2>1, <2>2, <3>1, <3>3 DEF ExclusiveF
  <2> QED BY <2>3, <2>4
<1>4. ASSUME NEW t \in Tasks, RecvTake(t)
      PROVE  ExclusiveF'
  <2> DEFINE d == ep[t]
             b == Head(queue[d])
  <2>1. /\ d \in Endpoints /\ queue[d] # <<>> /\ queue[d] \in Seq(Bufs)
        /\ queue' = [queue EXCEPT ![d] = Tail(@)]
        /\ UNCHANGED <<hostFree, availF, usedF>>
    <3>1. d # NoEp /\ d \in 0 .. MaxObjects
      BY <1>4 DEF RecvTake, TypeOK, TypeTask
    <3>2. d \in Endpoints
      BY <3>1, LimitsAssumption DEF NoEp, Endpoints
    <3>3. queue[d] \in Seq(Bufs)
      BY <3>2 DEF TypeOK, TypeObjs
    <3> QED BY <1>4, <3>2, <3>3 DEF RecvTake, host, ringF
  <2>2. /\ tok'[t] = b /\ ~HoldsF(t)
        /\ \A u \in Tasks \ {t} : tok'[u] = tok[u] /\ (HoldsF(u)' <=> HoldsF(u))
    BY <1>4 DEF RecvTake, Goes, Moves, HoldsF, TypeOK, TypeTask
  <2>3. /\ queue'[d] = Tail(queue[d])
        /\ \A e \in Endpoints \ {d} : queue'[e] = queue[e]
    BY <2>1 DEF TypeOK, TypeObjs
  <2>4. /\ Elems(queue[d]) = Elems(queue'[d]) \cup {b}
        /\ Distinct(queue'[d]) /\ b \notin Elems(queue'[d])
    BY <2>1, <2>3, TailElems DEF ExclusiveF
  <2> HIDE DEF b, d
  <2>5. \A e \in Endpoints : Elems(queue'[e]) \subseteq Elems(queue[e])
                             /\ Distinct(queue'[e]) /\ b \notin Elems(queue'[e])
    BY <2>1, <2>3, <2>4 DEF ExclusiveF
  <2>6. b \notin hostFree \cup Elems(availF) \cup Elems(usedF)
        /\ \A u \in Tasks : HoldsF(u) => tok[u] # b
    BY <2>1, <2>4 DEF ExclusiveF
  <2> QED BY <2>1, <2>2, <2>5, <2>6 DEF ExclusiveF
<1>5. ASSUME NEW t \in Tasks, RecvReturn(t)
      PROVE  ExclusiveF'
  <2> DEFINE b == tok[t]
  <2>1. /\ usedF' = Append(usedF, b) /\ UNCHANGED <<hostFree, availF, queue, tok>>
        /\ HoldsF(t) /\ ~HoldsF(t)'
        /\ \A u \in Tasks \ {t} : HoldsF(u)' <=> HoldsF(u)
    BY <1>5 DEF RecvReturn, Goes, Moves, HoldsF, TypeOK, TypeTask, host, objs, call
  <2>2. /\ b \in Bufs /\ b \notin Elems(usedF) /\ Distinct(usedF)
        /\ usedF \in Seq(Bufs)
    BY <2>1 DEF ExclusiveF, TypeOK, TypeF, TypeTask
  <2>3. \A u \in Tasks : HoldsF(u)' => HoldsF(u) /\ tok[u] # b
    BY <2>1 DEF ExclusiveF
  <2>4. Distinct(usedF') /\ Elems(usedF') = Elems(usedF) \cup {b}
    BY <2>1, <2>2, AppendElems
  <2>5. /\ b \notin hostFree \cup Elems(availF)
        /\ \A e \in Endpoints : b \notin Elems(queue[e])
    BY <2>1 DEF ExclusiveF
  <2> HIDE DEF b
  <2>6. /\ Distinct(availF') /\ Distinct(usedF')
        /\ Elems(availF') \cap Elems(usedF') = {}
        /\ hostFree' \cap (Elems(availF') \cup Elems(usedF')) = {}
    BY <2>1, <2>4, <2>5 DEF ExclusiveF
  <2>7. ASSUME NEW e \in Endpoints
        PROVE  /\ Distinct(queue'[e])
               /\ Elems(queue'[e]) \cap (hostFree' \cup Elems(availF') \cup Elems(usedF')) = {}
               /\ \A f \in Endpoints : f # e => Elems(queue'[e]) \cap Elems(queue'[f]) = {}
    BY <2>1, <2>4, <2>5 DEF ExclusiveF
  <2>8. ASSUME NEW u \in Tasks, HoldsF(u)'
        PROVE  /\ tok'[u] \notin hostFree' \cup Elems(availF') \cup Elems(usedF')
               /\ \A e \in Endpoints : tok'[u] \notin Elems(queue'[e])
               /\ \A v \in Tasks : HoldsF(v)' /\ v # u => tok'[v] # tok'[u]
    BY <2>8, <2>1, <2>3, <2>4 DEF ExclusiveF
  <2> QED BY <2>6, <2>7, <2>8 DEF ExclusiveF
<1>6. CASE \/ HostAccept \/ HostRxDone \/ (\E q \in {"from", "to"} : HostRing(q))
           \/ HostIrq \/ HostSetIntr \/ IsrEnter \/ IsrForwardEnd \/ IsrWake \/ IsrExit
           \/ \E t \in Tasks : Tick(t) \/ BlockLinked(t)
  <2>1. UNCHANGED <<hostFree, availF, usedF, queue, pc, op, tok>>
    BY <1>6 DEF HostAccept, HostRxDone, HostRing, HostIrq, HostSetIntr, IsrEnter,
       IsrForwardEnd, IsrWake, IsrExit, Tick, BlockLinked, host, ringF, objs, call
  <2> QED BY <2>1, ExclusiveFFrame DEF HoldsF
<1>7. ASSUME NEW t \in Tasks, Calls(t) \/ SendGet(t) \/ SendRetry(t) \/ Give(t)
      PROVE  ExclusiveF'
  <2>1. /\ UNCHANGED <<hostFree, availF, usedF, queue>>
        /\ \A u \in Tasks \ {t} : /\ tok'[u] = tok[u]
                                  /\ HoldsF(u)' <=> HoldsF(u)
        /\ ~HoldsF(t)'
    BY <1>7 DEF Calls, CreateCall, SendCall, SendGet, SendRetry, Give, TakeAvail,
       Goes, Moves, HoldsF, TypeOK, TypeTask, host, ringF, objs
  <2> QED BY <2>1, ExclusiveFFrame
<1>8. ASSUME NEW t \in Tasks, \/ RecvCopy(t) \/ Lock(t) \/ Mask(t) \/ Create(t)
                              \/ SendPlace(t) \/ SendPut(t) \/ Kick(t) \/ Unmask(t)
      PROVE  ExclusiveF'
  <2>1. /\ UNCHANGED <<hostFree, availF, usedF, queue, tok>>
        /\ \A u \in Tasks : HoldsF(u)' => HoldsF(u)
    BY <1>8 DEF RecvCopy, Lock, Mask, Create, SendPlace, SendPut, Kick, Unmask, Goes,
       Moves, HoldsF, TypeOK, TypeTask, host, ringF, objs, call
  <2> QED BY <2>1, ExclusiveFFrame
<1>9. CASE UNCHANGED vars
  BY <1>9, ExclusiveFFrame DEF vars, host, ringF, objs, call, HoldsF
<1> QED BY <1>1, <1>2, <1>3, <1>4, <1>5, <1>6, <1>7, <1>8, <1>9
        DEF Next, Host, Isr, Task, Step

LEMMA ExclusiveFInit == Init => ExclusiveF
<1>1. Elems(<<>>) = {} /\ Distinct(<<>>)
  BY DEF Elems, Distinct
<1> QED BY <1>1 DEF Init, ExclusiveF, HoldsF

\* A FromHost buffer is in one place only: not handed back twice, not in the host's
\* hands while a task copies from it.
THEOREM ExclusiveFHolds == Spec => []ExclusiveF
<1>1. Init => ExclusiveF
  BY ExclusiveFInit
<1>2. TypeOK /\ ExclusiveF /\ [Next]_vars => ExclusiveF'
  BY ExclusiveFStep
<1> QED BY <1>1, <1>2, TypeCorrect, PTL DEF Spec
-------------------------------------------------------------------------------
(* The buffers of ToHost, in the same way.                                 *)

LEMMA ExclusiveTFrame ==
  ASSUME ExclusiveT, UNCHANGED <<availT, usedT>>,
         \A t \in Tasks : HoldsT(t)' => HoldsT(t) /\ tok'[t] = tok[t]
  PROVE  ExclusiveT'
BY DEF ExclusiveT

\* VirtQueue_getAvailBuf hands an offered buffer to one sender.
LEMMA ExclusiveTTake ==
  ASSUME TypeOK, ExclusiveT, NEW t \in Tasks, TakeAvail(t), UNCHANGED usedT,
         \A u \in Tasks \ {t} : HoldsT(u)' <=> HoldsT(u)
  PROVE  ExclusiveT'
<1>1. /\ availT' = Tail(availT) /\ tok'[t] = Head(availT)
      /\ \A u \in Tasks \ {t} : tok'[u] = tok[u]
  BY DEF TakeAvail, TypeOK, TypeTask
<1>2. /\ Elems(availT) = Elems(availT') \cup {Head(availT)}
      /\ Distinct(availT') /\ Head(availT) \notin Elems(availT')
  BY <1>1, TailElems DEF TakeAvail, TypeOK, TypeT, ExclusiveT
<1>3. /\ Head(availT) \notin Elems(usedT)
      /\ \A u \in Tasks : HoldsT(u) => tok[u] # Head(availT)
  BY <1>2 DEF ExclusiveT
<1> QED BY <1>1, <1>2, <1>3 DEF ExclusiveT

LEMMA ExclusiveTStep ==
  ASSUME TypeOK, ExclusiveT, [Next]_vars
  PROVE  ExclusiveT'
<1>1. CASE HostAccept
  <2>1. /\ usedT' = Tail(usedT) /\ availT' = Append(availT, Head(usedT))
        /\ UNCHANGED tok /\ \A t \in Tasks : HoldsT(t)' <=> HoldsT(t)
    BY <1>1 DEF HostAccept, call, HoldsT
  <2>2. /\ Elems(usedT) = Elems(usedT') \cup {Head(usedT)} /\ Head(usedT) \in Bufs
        /\ Distinct(usedT') /\ Head(usedT) \notin Elems(usedT')
    BY <1>1, <2>1, TailElems DEF HostAccept, TypeOK, TypeT, ExclusiveT
  <2>3. Head(usedT) \notin Elems(availT) /\ Distinct(availT) /\ availT \in Seq(Bufs)
    BY <2>2 DEF ExclusiveT, TypeOK, TypeT
  <2>4. Distinct(availT') /\ Elems(availT') = Elems(availT) \cup {Head(usedT)}
    BY <2>1, <2>2, <2>3, AppendElems
  <2> QED BY <2>1, <2>2, <2>4 DEF ExclusiveT
<1>2. ASSUME NEW t \in Tasks, SendGet(t) \/ SendRetry(t)
      PROVE  ExclusiveT'
  <2>1. /\ UNCHANGED usedT
        /\ \A u \in Tasks \ {t} : HoldsT(u)' <=> HoldsT(u)
    BY <1>2 DEF SendGet, SendRetry, Goes, Moves, HoldsT, TypeOK, TypeTask
  <2>2. CASE TakeAvail(t)
    BY <2>1, <2>2, ExclusiveTTake
  <2>3. CASE ~TakeAvail(t)
    <3>1. UNCHANGED <<availT, tok>> /\ ~HoldsT(t)'
      BY <1>2, <2>3 DEF SendGet, SendRetry, Goes, Moves, HoldsT, TypeOK, TypeTask
    <3> QED BY <2>1, <3>1, ExclusiveTFrame
  <2> QED BY <2>2, <2>3
<1>3. ASSUME NEW t \in Tasks, SendPut(t)
      PROVE  ExclusiveT'
  <2>1. /\ usedT' = Append(usedT, tok[t]) /\ UNCHANGED <<availT, tok>>
        /\ HoldsT(t) /\ ~HoldsT(t)'
        /\ \A u \in Tasks \ {t} : HoldsT(u)' <=> HoldsT(u)
    BY <1>3 DEF SendPut, Goes, Moves, HoldsT, TypeOK, TypeTask, call
  <2>2. /\ tok[t] \in Bufs /\ tok[t] \notin Elems(usedT) /\ Distinct(usedT)
        /\ usedT \in Seq(Bufs)
    BY <2>1 DEF ExclusiveT, TypeOK, TypeT, TypeTask
  <2>3. Distinct(usedT') /\ Elems(usedT') = Elems(usedT) \cup {tok[t]}
    BY <2>1, <2>2, AppendElems
  <2> QED BY <2>1, <2>3 DEF ExclusiveT
<1>4. CASE \/ (\E e \in 0 .. MaxObjects : HostPost(e)) \/ HostReclaim \/ HostRxDone
           \/ (\E q \in {"from", "to"} : HostRing(q)) \/ HostIrq \/ HostSetIntr \/ Isr
           \/ \E t \in Tasks : Tick(t) \/ BlockLinked(t)
  <2>1. UNCHANGED <<availT, usedT, pc, tok>>
    BY <1>4 DEF HostPost, HostReclaim, HostRxDone, HostRing, HostIrq, HostSetIntr, Isr,
       IsrEnter, IsrForward, IsrForwardEnd, IsrWake, IsrExit, Tick, BlockLinked, ringT,
       call
  <2> QED BY <2>1, ExclusiveTFrame DEF HoldsT
<1>5. ASSUME NEW t \in Tasks,
             \/ Calls(t) \/ RecvTake(t) \/ RecvCopy(t) \/ Lock(t) \/ Mask(t) \/ Create(t)
             \/ RecvReturn(t) \/ SendPlace(t) \/ Kick(t) \/ Unmask(t) \/ Give(t)
      PROVE  ExclusiveT'
  <2>1. /\ UNCHANGED <<availT, usedT>>
        /\ \A u \in Tasks \ {t} : tok'[u] = tok[u] /\ (HoldsT(u)' <=> HoldsT(u))
        /\ ~HoldsT(t)'
    BY <1>5 DEF Calls, CreateCall, SendCall, RecvTake, RecvCopy, Lock, Mask, Create,
       RecvReturn, SendPlace, Kick, Unmask, Give, Goes, Moves, HoldsT, TypeOK,
       TypeTask, ringT, call
  <2> QED BY <2>1, ExclusiveTFrame
<1>6. CASE UNCHANGED vars
  BY <1>6, ExclusiveTFrame DEF vars, ringT, call, HoldsT
<1> QED BY <1>1, <1>2, <1>3, <1>4, <1>5, <1>6 DEF Next, Host, Task, Step

LEMMA ExclusiveTInit == Init => ExclusiveT
<1> SUFFICES ASSUME Init PROVE ExclusiveT
  OBVIOUS
<1>1. Elems(<<>>) = {} /\ Distinct(<<>>)
  BY DEF Elems, Distinct
<1>2. usedT = <<>> /\ availT = [i \in 1 .. NumBuf |-> i - 1]
      /\ pc = [t \in Tasks |-> "idle"]
  BY Zenon DEF Init
<1>3. Distinct(availT)
  BY <1>2, NumBufAssumption DEF Distinct
<1> QED BY <1>1, <1>2, <1>3 DEF ExclusiveT, HoldsT

\* A ToHost buffer is in one place only: no two senders fill the same buffer, and none
\* is filled while the host reads it.
THEOREM ExclusiveTHolds == Spec => []ExclusiveT
<1>1. Init => ExclusiveT
  BY ExclusiveTInit
<1>2. TypeOK /\ ExclusiveT /\ [Next]_vars => ExclusiveT'
  BY ExclusiveTStep
<1> QED BY <1>1, <1>2, TypeCorrect, PTL DEF Spec

-------------------------------------------------------------------------------
(* A queue never fills up.                                                 *)

\* A sequence of buffers without repetition is no longer than the vring.
LEMMA DistinctLen ==
  ASSUME NEW s \in Seq(Bufs), Distinct(s), NEW x \in Bufs
  PROVE  /\ Len(s) <= NumBuf
         /\ x \notin Elems(s) => Len(s) < NumBuf
<1>1. /\ Len(s) \in Nat /\ DOMAIN s = 1 .. Len(s)
      /\ IsFiniteSet(1 .. Len(s)) /\ Cardinality(1 .. Len(s)) = Len(s)
  <2>1. Len(s) \in Nat /\ DOMAIN s = 1 .. Len(s)
    OBVIOUS
  <2> QED BY <2>1, FS_Interval
<1>2. IsFiniteSet(Bufs) /\ Cardinality(Bufs) = NumBuf
  BY FS_Interval, NumBufAssumption DEF Bufs
<1>3. IsFiniteSet(Elems(s)) /\ Elems(s) \subseteq Bufs
  BY <1>2, FS_Subset DEF Elems
<1>4. Cardinality(Elems(s)) = Len(s)
  <2> DEFINE f == [i \in 1 .. Len(s) |-> s[i]]
  <2>1. f \in Bijection(1 .. Len(s), Elems(s))
    BY <1>1 DEF Bijection, Injection, Surjection, IsInjective, Distinct, Elems
  <2> QED BY <1>1, <2>1, FS_Bijection DEF ExistsBijection
<1>5. Len(s) <= NumBuf
  BY <1>2, <1>3, <1>4, FS_Subset
<1>6. ASSUME x \notin Elems(s) PROVE Len(s) < NumBuf
  <2>1. Elems(s) # Bufs
    BY <1>6
  <2> QED BY <1>1, <1>2, <1>3, <1>4, <1>5, <2>1, FS_Subset, NumBufAssumption
<1> QED BY <1>5, <1>6

\* MessageQCopy_SendToTask finds room for every message: QUE_LEN is at least the number
\* of buffers, and a queue holds each buffer at most once.
THEOREM QueueAlwaysHasRoom == Spec => []QueueHasRoom
<1>1. ASSUME TypeOK, ExclusiveF PROVE QueueHasRoom
  <2> SUFFICES ASSUME NEW e \in Endpoints
               PROVE  /\ Len(queue[e]) <= QueLen
                      /\ availF # <<>> => Len(queue[e]) < QueLen
    BY DEF QueueHasRoom
  <2>1. queue[e] \in Seq(Bufs) /\ Distinct(queue[e])
    BY <1>1 DEF TypeOK, TypeObjs, ExclusiveF
  <2>2. 0 \in Bufs /\ Len(queue[e]) \in Nat
    BY <2>1, NumBufAssumption DEF Bufs
  <2>3. Len(queue[e]) <= NumBuf
    BY <2>1, <2>2, DistinctLen
  <2>4. ASSUME availF # <<>> PROVE Len(queue[e]) < NumBuf
    <3>1. Head(availF) \in Bufs /\ Head(availF) \in Elems(availF)
      BY <1>1, <2>4, TailElems DEF TypeOK, TypeF
    <3>2. Head(availF) \notin Elems(queue[e])
      BY <1>1, <3>1 DEF ExclusiveF
    <3> QED BY <2>1, <3>1, <3>2, DistinctLen
  <2> QED BY <2>2, <2>3, <2>4, LimitsAssumption, NumBufAssumption
<1> QED BY <1>1, TypeCorrect, ExclusiveFHolds, PTL
-------------------------------------------------------------------------------
(***************************************************************************)
(* Endpoints.  Inductive with: a task's handle is of an endpoint that      *)
(* exists.  That a queued buffer keeps its destination needs ExclusiveF:   *)
(* the host rewrites only buffers it owns.                                 *)
(***************************************************************************)
OwnInv == /\ EndpointsOwned
          /\ \A t \in Tasks : ep[t] # NoEp => ep[t] \in created

LEMMA OwnFrame ==
  ASSUME OwnInv, UNCHANGED <<memF, created, queue, ep>>
  PROVE  OwnInv'
BY DEF OwnInv, EndpointsOwned

\* The host rewrites a buffer that is in no queue.
LEMMA OwnHost ==
  ASSUME OwnInv, NEW b, UNCHANGED <<created, queue, ep>>,
         \A e \in Endpoints : b \notin Elems(queue[e]),
         \A c : c # b => memF'[c] = memF[c]
  PROVE  OwnInv'
<1>1. \A e \in Endpoints : \A c \in Elems(queue[e]) : memF'[c].dst = memF[c].dst
  OBVIOUS
<1> QED BY <1>1 DEF OwnInv, EndpointsOwned

LEMMA OwnStep ==
  ASSUME TypeOK, ExclusiveF, OwnInv, [Next]_vars
  PROVE  OwnInv'
<1>1. ASSUME NEW e \in 0 .. MaxObjects, HostPost(e)
      PROVE  OwnInv'
  <2>1. PICK b \in hostFree : memF' = [memF EXCEPT ![b] = [dst |-> e, seq |-> posted + 1]]
    BY <1>1 DEF HostPost
  <2>2. UNCHANGED <<created, queue, ep>>
    BY <1>1 DEF HostPost, objs, call
  <2>3. \A d \in Endpoints : b \notin Elems(queue[d])
    BY DEF ExclusiveF
  <2>4. \A c : c # b => memF'[c] = memF[c]
    BY <2>1 DEF TypeOK, TypeF
  <2> QED BY <2>2, <2>3, <2>4, OwnHost
<1>2. CASE HostReclaim
  <2>1. /\ memF' = [memF EXCEPT ![Head(usedF)] = BlankF]
        /\ UNCHANGED <<created, queue, ep>>
    BY <1>2 DEF HostReclaim, objs, call
  <2>2. Head(usedF) \in Elems(usedF)
    BY <1>2, TailElems DEF HostReclaim, TypeOK, TypeF
  <2>3. \A d \in Endpoints : Head(usedF) \notin Elems(queue[d])
    BY <2>2 DEF ExclusiveF
  <2>4. \A c : c # Head(usedF) => memF'[c] = memF[c]
    BY <2>1 DEF TypeOK, TypeF
  <2> QED BY <2>1, <2>3, <2>4, OwnHost
<1>3. CASE IsrForward
  <2> DEFINE b == Head(availF)
             d == memF[b].dst
  <2>1. UNCHANGED <<memF, created, ep>>
    BY <1>3 DEF IsrForward, call
  <2>2. CASE d \in created /\ Len(queue[d]) < QueLen
    <3>1. /\ d \in Endpoints /\ queue[d] \in Seq(Bufs) /\ b \in Bufs
          /\ queue' = [queue EXCEPT ![d] = Append(queue[d], b)]
      BY <1>3, <2>2, TailElems DEF IsrForward, TypeOK, TypeObjs, TypeF
    <3>2. Elems(Append(queue[d], b)) = Elems(queue[d]) \cup {b}
      BY <3>1, AppendElems
    <3>3. /\ queue'[d] = Append(queue[d], b)
          /\ \A e \in Endpoints \ {d} : queue'[e] = queue[e]
      BY <3>1 DEF TypeOK, TypeObjs
    <3>4. memF[b].dst = d /\ d \in created
      BY <2>2
    <3> HIDE DEF b, d
    <3>5. ASSUME NEW e \in Endpoints, NEW c \in Elems(queue'[e])
          PROVE  memF[c].dst = e /\ e \in created
      <4>1. CASE e = d /\ c = b
        BY <3>4, <4>1
      <4>2. CASE ~(e = d /\ c = b)
        <5>1. c \in Elems(queue[e])
          BY <3>2, <3>3, <4>2
        <5> QED BY <5>1 DEF OwnInv, EndpointsOwned
      <4> QED BY <4>1, <4>2
    <3> QED BY <2>1, <3>5 DEF OwnInv, EndpointsOwned
  <2>3. CASE ~(d \in created /\ Len(queue[d]) < QueLen)
    BY <1>3, <2>1, <2>3, OwnFrame DEF IsrForward
  <2> QED BY <2>2, <2>3
<1>4. ASSUME NEW t \in Tasks, RecvTake(t)
      PROVE  OwnInv'
  <2> DEFINE d == ep[t]
  <2>1. d \in Endpoints
    <3>1. d # NoEp /\ d \in 0 .. MaxObjects
      BY <1>4 DEF RecvTake, TypeOK, TypeTask
    <3> QED BY <3>1, LimitsAssumption DEF NoEp, Endpoints
  <2>2. /\ UNCHANGED <<memF, created, ep>>
        /\ queue[d] # <<>> /\ queue' = [queue EXCEPT ![d] = Tail(queue[d])]
    BY <1>4 DEF RecvTake, ringF
  <2>3. Elems(Tail(queue[d])) \subseteq Elems(queue[d])
    BY <2>1, <2>2, TailElems DEF TypeOK, TypeObjs
  <2> HIDE DEF d
  <2>4. \A e \in Endpoints : Elems(queue'[e]) \subseteq Elems(queue[e])
    BY <2>1, <2>2, <2>3 DEF TypeOK, TypeObjs
  <2> QED BY <2>2, <2>4 DEF OwnInv, EndpointsOwned
<1>5. ASSUME NEW t \in Tasks, Create(t)
      PROVE  OwnInv'
  <2>1. UNCHANGED <<memF, queue>>
    BY <1>5 DEF Create, ringF
  <2>2. CASE UNCHANGED <<created, ep>>
    BY <2>1, <2>2, OwnFrame
  <2>3. ASSUME NEW e \in FreeSlot(Request[t]), created' = created \cup {e},
               ep' = [ep EXCEPT ![t] = e]
        PROVE  OwnInv'
    <3>1. e \notin created
      BY DEF FreeSlot
    <3>2. ep'[t] = e /\ \A u \in Tasks \ {t} : ep'[u] = ep[u]
      BY <2>3 DEF TypeOK, TypeTask
    <3>3. \A u \in Tasks \ {t} : ep[u] # NoEp => ep[u] # e
      BY <3>1 DEF OwnInv
    <3> QED BY <2>1, <2>3, <3>1, <3>2, <3>3 DEF OwnInv, EndpointsOwned
  <2> QED BY <1>5, <2>2, <2>3 DEF Create
<1>6. CASE \/ HostAccept \/ HostRxDone \/ (\E q \in {"from", "to"} : HostRing(q))
           \/ HostIrq \/ HostSetIntr \/ IsrEnter \/ IsrForwardEnd \/ IsrWake \/ IsrExit
  BY <1>6, OwnFrame DEF HostAccept, HostRxDone, HostRing, HostIrq, HostSetIntr,
     IsrEnter, IsrForwardEnd, IsrWake, IsrExit, ringF, objs, call
<1>7. ASSUME NEW t \in Tasks,
             \/ Calls(t) \/ RecvCopy(t) \/ Lock(t) \/ Mask(t) \/ RecvReturn(t)
             \/ SendGet(t) \/ SendPlace(t) \/ SendRetry(t) \/ SendPut(t) \/ Kick(t)
             \/ Unmask(t) \/ Give(t) \/ Tick(t) \/ BlockLinked(t)
      PROVE  OwnInv'
  BY <1>7, OwnFrame DEF Calls, CreateCall, SendCall, RecvCopy, Lock, Mask, RecvReturn,
     SendGet, SendPlace, SendRetry, SendPut, Kick, Unmask, Give, Tick, BlockLinked,
     ringF, objs, call
<1>8. CASE UNCHANGED vars
  BY <1>8, OwnFrame DEF vars, ringF, objs, call
<1> QED BY <1>1, <1>2, <1>3, <1>4, <1>5, <1>6, <1>7, <1>8
        DEF Next, Host, Isr, Task, Step

LEMMA OwnHolds == Spec => []OwnInv
<1>1. Init => OwnInv
  <2> SUFFICES ASSUME Init PROVE OwnInv
    OBVIOUS
  <2>1. /\ ep = [t \in Tasks |-> NoEp] /\ queue = [e \in Endpoints |-> <<>>]
    BY Zenon DEF Init
  <2>2. \A e \in Endpoints : Elems(queue[e]) = {}
    BY <2>1 DEF Elems
  <2> QED BY <2>1, <2>2 DEF OwnInv, EndpointsOwned
<1>2. TypeOK /\ ExclusiveF /\ OwnInv /\ [Next]_vars => OwnInv'
  BY OwnStep
<1> QED BY <1>1, <1>2, TypeCorrect, ExclusiveFHolds, PTL DEF Spec

\* No two tasks own one endpoint, and a queue holds messages for its own endpoint only.
THEOREM EndpointsStayOwned == Spec => []EndpointsOwned
<1>1. OwnInv => EndpointsOwned
  BY DEF OwnInv
<1> QED BY <1>1, OwnHolds, PTL

\* A buffer of either vring has one owner: host, vring, queue, or one task
\* (MessageQCopy_recv, MessageQCopy_send and the interrupt's callbacks).
THEOREM ExclusiveHolds == Spec => []Exclusive
<1>1. ExclusiveF /\ ExclusiveT => Exclusive
  BY DEF Exclusive
<1> QED BY <1>1, ExclusiveFHolds, ExclusiveTHolds, PTL

\* No ring of either vring is lost in the mailbox slot they share (VirtQueue_kick,
\* RPMSG_U32Send).
THEOREM RingsNeverLost == Spec => []RingsKept
<1>1. BellPending /\ MailPending => RingsKept
  BY DEF RingsKept
<1> QED BY <1>1, BellNeverLost, MailNeverLost, PTL
-------------------------------------------------------------------------------
(***************************************************************************)
(* No buffer is lost.  Inductive as it stands, with the endpoints that     *)
(* exist: said of one buffer at a time.                                    *)
(***************************************************************************)
InF(b) == \/ b \in hostFree \cup Elems(availF) \cup Elems(usedF)
          \/ \E e \in created : b \in Elems(queue[e])
          \/ \E t \in Tasks : HoldsF(t) /\ tok[t] = b
InT(b) == b \in Elems(availT) \cup Elems(usedT) \/ \E t \in Tasks : HoldsT(t) /\ tok[t] = b

\* Nothing about the buffer is changed, or it is handed on.
LEMMA InFFrame ==
  ASSUME NEW b, InF(b), hostFree \subseteq hostFree', UNCHANGED <<availF, usedF, queue>>,
         created \subseteq created',
         \A t \in Tasks : HoldsF(t) => HoldsF(t)' /\ tok'[t] = tok[t]
  PROVE  InF(b)'
BY DEF InF

LEMMA InFStep ==
  ASSUME TypeOK, OwnInv, [Next]_vars, NEW b \in Bufs, InF(b)
  PROVE  InF(b)'
<1>1. ASSUME NEW e \in 0 .. MaxObjects, HostPost(e)
      PROVE  InF(b)'
  <2>1. PICK c \in hostFree : availF' = Append(availF, c) /\ hostFree' = hostFree \ {c}
    BY <1>1 DEF HostPost
  <2>2. UNCHANGED <<usedF, queue, created, tok, op, pc>>
    BY <1>1 DEF HostPost, objs, call
  <2>3. Elems(availF') = Elems(availF) \cup {c}
    BY <2>1, AppendElems DEF TypeOK, TypeF, TypeHost
  <2> QED BY <2>1, <2>2, <2>3 DEF InF, HoldsF
<1>2. CASE HostReclaim
  <2>1. /\ hostFree' = hostFree \cup {Head(usedF)}
        /\ UNCHANGED <<availF, queue, created, tok, op, pc>>
    BY <1>2 DEF HostReclaim, objs, call
  <2>2. Elems(usedF) = Elems(usedF') \cup {Head(usedF)}
    BY <1>2, TailElems DEF HostReclaim, TypeOK, TypeF
  <2> QED BY <2>1, <2>2 DEF InF, HoldsF
<1>3. CASE IsrForward
  <2> DEFINE c == Head(availF)
             d == memF[c].dst
  <2>1. UNCHANGED <<hostFree, created, tok, op, pc>>
    BY <1>3 DEF IsrForward, call, host
  <2>2. Elems(availF) = Elems(availF') \cup {c} /\ c \in Bufs
    BY <1>3, TailElems DEF IsrForward, TypeOK, TypeF
  <2>3. CASE d \in created /\ Len(queue[d]) < QueLen
    <3>1. /\ d \in Endpoints /\ queue[d] \in Seq(Bufs) /\ UNCHANGED usedF
          /\ queue' = [queue EXCEPT ![d] = Append(queue[d], c)]
      BY <1>3, <2>3 DEF IsrForward, TypeOK, TypeObjs, TypeF
    <3>2. Elems(Append(queue[d], c)) = Elems(queue[d]) \cup {c}
      BY <2>2, <3>1, AppendElems
    <3>3. /\ queue'[d] = Append(queue[d], c)
          /\ \A e \in Endpoints \ {d} : queue'[e] = queue[e]
      BY <3>1 DEF TypeOK, TypeObjs
    <3>4. d \in created /\ created \subseteq Endpoints
      BY <2>3 DEF TypeOK, TypeObjs
    <3> HIDE DEF c, d
    <3>5. /\ \A e \in created : Elems(queue[e]) \subseteq Elems(queue'[e])
          /\ c \in Elems(queue'[d])
      BY <3>2, <3>3, <3>4
    <3> QED BY <2>1, <2>2, <3>1, <3>4, <3>5 DEF InF, HoldsF
  <2>4. CASE ~(d \in created /\ Len(queue[d]) < QueLen)
    <3>1. usedF' = Append(usedF, c) /\ UNCHANGED queue
      BY <1>3, <2>4 DEF IsrForward
    <3>2. Elems(usedF') = Elems(usedF) \cup {c}
      BY <2>2, <3>1, AppendElems DEF TypeOK, TypeF
    <3> HIDE DEF c, d
    <3> QED BY <2>1, <2>2, <3>1, <3>2 DEF InF, HoldsF
  <2> QED BY <2>3, <2>4
<1>4. ASSUME NEW t \in Tasks, RecvTake(t)
      PROVE  InF(b)'
  <2> DEFINE d == ep[t]
  <2>1. d \in Endpoints /\ d \in created
    <3>1. d # NoEp /\ d \in 0 .. MaxObjects
      BY <1>4 DEF RecvTake, TypeOK, TypeTask
    <3> QED BY <3>1, LimitsAssumption DEF NoEp, Endpoints, OwnInv
  <2>2. /\ UNCHANGED <<hostFree, availF, usedF, created>>
        /\ queue[d] # <<>> /\ queue' = [queue EXCEPT ![d] = Tail(queue[d])]
        /\ tok' = [tok EXCEPT ![t] = Head(queue[d])]
    BY <1>4 DEF RecvTake, ringF, host
  <2>3. Elems(queue[d]) = Elems(Tail(queue[d])) \cup {Head(queue[d])}
    BY <2>1, <2>2, TailElems DEF TypeOK, TypeObjs
  <2>4. /\ HoldsF(t)' /\ ~HoldsF(t)
        /\ \A u \in Tasks \ {t} : HoldsF(u)' <=> HoldsF(u)
    BY <1>4 DEF RecvTake, Goes, Moves, HoldsF, TypeOK, TypeTask
  <2>5. tok'[t] = Head(queue[d]) /\ \A u \in Tasks \ {t} : tok'[u] = tok[u]
    BY <2>2 DEF TypeOK, TypeTask
  <2>6. /\ queue'[d] = Tail(queue[d])
        /\ \A e \in Endpoints \ {d} : queue'[e] = queue[e]
    BY <2>1, <2>2 DEF TypeOK, TypeObjs
  <2>7. created \subseteq Endpoints
    BY DEF TypeOK, TypeObjs
  <2> HIDE DEF d
  <2>8. ASSUME NEW e \in created, b \in Elems(queue[e])
        PROVE  InF(b)'
    <3>1. CASE e = d /\ b = Head(queue[d])
      BY <3>1, <2>4, <2>5 DEF InF
    <3>2. CASE ~(e = d /\ b = Head(queue[d]))
      <4>1. b \in Elems(queue'[e])
        BY <2>3, <2>6, <2>7, <2>8, <3>2
      <4> QED BY <4>1, <2>2 DEF InF
    <3> QED BY <3>1, <3>2
  <2> QED BY <2>2, <2>4, <2>5, <2>8 DEF InF
<1>5. ASSUME NEW t \in Tasks, RecvReturn(t)
      PROVE  InF(b)'
  <2>1. /\ usedF' = Append(usedF, tok[t]) /\ UNCHANGED <<hostFree, availF, queue, created, tok>>
        /\ \A u \in Tasks \ {t} : HoldsF(u)' <=> HoldsF(u)
    BY <1>5 DEF RecvReturn, Goes, Moves, HoldsF, TypeOK, TypeTask, call, host, objs
  <2>2. Elems(usedF') = Elems(usedF) \cup {tok[t]}
    BY <2>1, AppendElems DEF TypeOK, TypeF, TypeTask
  <2> QED BY <2>1, <2>2 DEF InF
<1>6. CASE \/ HostAccept \/ HostRxDone \/ (\E q \in {"from", "to"} : HostRing(q))
           \/ HostIrq \/ HostSetIntr \/ IsrEnter \/ IsrForwardEnd \/ IsrWake \/ IsrExit
           \/ \E t \in Tasks : Tick(t) \/ BlockLinked(t)
  BY <1>6, InFFrame DEF HostAccept, HostRxDone, HostRing, HostIrq, HostSetIntr,
     IsrEnter, IsrForwardEnd, IsrWake, IsrExit, Tick, BlockLinked, ringF, objs, call, host,
     HoldsF
<1>7. ASSUME NEW t \in Tasks,
             \/ Calls(t) \/ RecvCopy(t) \/ Lock(t) \/ Mask(t) \/ Create(t)
             \/ SendGet(t) \/ SendPlace(t) \/ SendRetry(t) \/ SendPut(t) \/ Kick(t)
             \/ Unmask(t) \/ Give(t)
      PROVE  InF(b)'
  <2>1. UNCHANGED <<hostFree, availF, usedF, queue>> /\ created \subseteq created'
    BY <1>7 DEF Calls, CreateCall, SendCall, RecvCopy, Lock, Mask, Create,
       SendGet, SendPlace, SendRetry, SendPut, Kick, Unmask, Give, ringF, objs, host
  <2>2. ASSUME NEW u \in Tasks \ {t}
        PROVE  tok'[u] = tok[u] /\ (HoldsF(u) <=> HoldsF(u)')
    BY <1>7 DEF Calls, CreateCall, SendCall, RecvCopy, Lock, Mask, Create,
       SendGet, SendPlace, SendRetry, SendPut, Kick, Unmask, Give, TakeAvail, Goes, Moves,
       HoldsF, TypeOK, TypeTask, call
  <2>3. HoldsF(t) => HoldsF(t)' /\ tok'[t] = tok[t]
    BY <1>7 DEF Calls, CreateCall, SendCall, RecvCopy, Lock, Mask, Create,
       SendGet, SendPlace, SendRetry, SendPut, Kick, Unmask, Give, TakeAvail, Goes, Moves,
       HoldsF, TypeOK, TypeTask, call
  <2> QED BY <2>1, <2>2, <2>3, InFFrame
<1>8. CASE UNCHANGED vars
  BY <1>8, InFFrame DEF vars, ringF, objs, call, host, HoldsF
<1> QED BY <1>1, <1>2, <1>3, <1>4, <1>5, <1>6, <1>7, <1>8
        DEF Next, Host, Isr, Task, Step

LEMMA InTFrame ==
  ASSUME NEW b, InT(b), UNCHANGED <<availT, usedT>>,
         \A t \in Tasks : HoldsT(t) => HoldsT(t)' /\ tok'[t] = tok[t]
  PROVE  InT(b)'
BY DEF InT

LEMMA InTStep ==
  ASSUME TypeOK, [Next]_vars, NEW b \in Bufs, InT(b)
  PROVE  InT(b)'
<1>1. CASE HostAccept
  <2>1. /\ usedT' = Tail(usedT) /\ availT' = Append(availT, Head(usedT))
        /\ UNCHANGED tok /\ \A t \in Tasks : HoldsT(t)' <=> HoldsT(t)
    BY <1>1 DEF HostAccept, call, HoldsT
  <2>2. Elems(usedT) = Elems(usedT') \cup {Head(usedT)} /\ Head(usedT) \in Bufs
    BY <1>1, <2>1, TailElems DEF HostAccept, TypeOK, TypeT
  <2>3. Elems(availT') = Elems(availT) \cup {Head(usedT)}
    BY <2>1, <2>2, AppendElems DEF TypeOK, TypeT
  <2> QED BY <2>1, <2>2, <2>3 DEF InT
<1>2. ASSUME NEW t \in Tasks, SendGet(t) \/ SendRetry(t)
      PROVE  InT(b)'
  <2>1. /\ UNCHANGED usedT /\ ~HoldsT(t)
        /\ \A u \in Tasks \ {t} : HoldsT(u)' <=> HoldsT(u)
    BY <1>2 DEF SendGet, SendRetry, Goes, Moves, HoldsT, TypeOK, TypeTask
  <2>2. CASE TakeAvail(t)
    <3>1. /\ availT' = Tail(availT) /\ tok'[t] = Head(availT)
          /\ \A u \in Tasks \ {t} : tok'[u] = tok[u]
      BY <2>2 DEF TakeAvail, TypeOK, TypeTask
    <3>2. Elems(availT) = Elems(availT') \cup {Head(availT)}
      BY <2>2, <3>1, TailElems DEF TakeAvail, TypeOK, TypeT
    <3>3. HoldsT(t)'
      BY <1>2, <2>2 DEF SendGet, SendRetry, TakeAvail, NoneAvail, Goes, Moves, HoldsT, TypeOK,
                        TypeTask
    <3> QED BY <2>1, <3>1, <3>2, <3>3 DEF InT
  <2>3. CASE ~TakeAvail(t)
    <3>1. UNCHANGED <<availT, tok>>
      BY <1>2, <2>3 DEF SendGet, SendRetry
    <3> QED BY <2>1, <3>1, InTFrame
  <2> QED BY <2>2, <2>3
<1>3. ASSUME NEW t \in Tasks, SendPut(t)
      PROVE  InT(b)'
  <2>1. /\ usedT' = Append(usedT, tok[t]) /\ UNCHANGED <<availT, tok>>
        /\ \A u \in Tasks \ {t} : HoldsT(u)' <=> HoldsT(u)
    BY <1>3 DEF SendPut, Goes, Moves, HoldsT, TypeOK, TypeTask, call
  <2>2. Elems(usedT') = Elems(usedT) \cup {tok[t]}
    BY <2>1, AppendElems DEF TypeOK, TypeT, TypeTask
  <2> QED BY <2>1, <2>2 DEF InT
<1>4. CASE \/ (\E e \in 0 .. MaxObjects : HostPost(e)) \/ HostReclaim \/ HostRxDone
           \/ (\E q \in {"from", "to"} : HostRing(q)) \/ HostIrq \/ HostSetIntr \/ Isr
           \/ \E t \in Tasks : Tick(t) \/ BlockLinked(t)
  <2>1. UNCHANGED <<availT, usedT, pc, tok>>
    BY <1>4 DEF HostPost, HostReclaim, HostRxDone, HostRing, HostIrq, HostSetIntr, Isr,
       IsrEnter, IsrForward, IsrForwardEnd, IsrWake, IsrExit, Tick, BlockLinked, ringT,
       call
  <2> QED BY <2>1, InTFrame DEF HoldsT
<1>5. ASSUME NEW t \in Tasks,
             \/ Calls(t) \/ RecvTake(t) \/ RecvCopy(t) \/ Lock(t) \/ Mask(t) \/ Create(t)
             \/ RecvReturn(t) \/ SendPlace(t) \/ Kick(t) \/ Unmask(t) \/ Give(t)
      PROVE  InT(b)'
  <2>1. /\ UNCHANGED <<availT, usedT>>
        /\ \A u \in Tasks \ {t} : tok'[u] = tok[u] /\ (HoldsT(u)' <=> HoldsT(u))
        /\ ~HoldsT(t)
    BY <1>5 DEF Calls, CreateCall, SendCall, RecvTake, RecvCopy, Lock, Mask, Create,
       RecvReturn, SendPlace, Kick, Unmask, Give, Goes, Moves, HoldsT, TypeOK,
       TypeTask, ringT, call
  <2> QED BY <2>1, InTFrame
<1>6. CASE UNCHANGED vars
  BY <1>6, InTFrame DEF vars, ringT, call, HoldsT
<1> QED BY <1>1, <1>2, <1>3, <1>4, <1>5, <1>6 DEF Next, Host, Task, Step

LeakInv == \A b \in Bufs : InF(b) /\ InT(b)

\* No buffer of either vring is lost: every path of callback_FromHost, MessageQCopy_recv
\* and MessageQCopy_send leaves each where the host gets it back from.
THEOREM NothingLeaks == Spec => []NoLeak
<1>1. Init => LeakInv
  <2> SUFFICES ASSUME Init, NEW b \in Bufs PROVE InF(b) /\ InT(b)
    BY DEF LeakInv
  <2>1. InF(b)
    BY DEF Init, InF
  <2>2. availT = [i \in 1 .. NumBuf |-> i - 1]
    BY Zenon DEF Init
  <2>3. b + 1 \in DOMAIN availT /\ availT[b + 1] = b
    BY <2>2, NumBufAssumption DEF Bufs
  <2> QED BY <2>1, <2>3 DEF InT, Elems
<1>2. TypeOK /\ OwnInv /\ LeakInv /\ [Next]_vars => LeakInv'
  BY InFStep, InTStep DEF LeakInv, Bufs
<1>3. TypeOK /\ LeakInv => NoLeak
  <2> SUFFICES ASSUME TypeOK, LeakInv PROVE NoLeak
    OBVIOUS
  <2>1. /\ Elems(availF) \subseteq Bufs /\ Elems(usedF) \subseteq Bufs
        /\ Elems(availT) \subseteq Bufs /\ Elems(usedT) \subseteq Bufs
    BY DEF TypeOK, TypeF, TypeT, Elems
  <2>2. \A e \in created : Elems(queue[e]) \subseteq Bufs
    BY DEF TypeOK, TypeObjs, Elems
  <2>3. hostFree \subseteq Bufs /\ \A t \in Tasks : tok[t] \in Bufs
    BY DEF TypeOK, TypeHost, TypeTask
  <2> DEFINE QF == UNION {Elems(queue[e]) : e \in created}
             HF == {tok[t] : t \in {u \in Tasks : HoldsF(u)}}
             HT == {tok[t] : t \in {u \in Tasks : HoldsT(u)}}
  <2>4. QF \subseteq Bufs /\ HF \subseteq Bufs /\ HT \subseteq Bufs
    BY <2>2, <2>3
  <2>5. ASSUME NEW b \in Bufs
        PROVE  /\ b \in hostFree \cup Elems(availF) \cup Elems(usedF) \cup QF \cup HF
               /\ b \in Elems(availT) \cup Elems(usedT) \cup HT
    <3>1. InF(b) /\ InT(b)
      BY DEF LeakInv
    <3>2. (\E e \in created : b \in Elems(queue[e])) => b \in QF
      OBVIOUS
    <3>3. /\ (\E t \in Tasks : HoldsF(t) /\ tok[t] = b) => b \in HF
          /\ (\E t \in Tasks : HoldsT(t) /\ tok[t] = b) => b \in HT
      OBVIOUS
    <3> HIDE DEF QF, HF, HT
    <3> QED BY <3>1, <3>2, <3>3 DEF InF, InT
  <2>6. /\ Bufs = hostFree \cup Elems(availF) \cup Elems(usedF) \cup QF \cup HF
        /\ Bufs = Elems(availT) \cup Elems(usedT) \cup HT
    <3> HIDE DEF QF, HF, HT
    <3> QED BY <2>1, <2>3, <2>4, <2>5
  <2> QED BY <2>6 DEF NoLeak
<1> QED BY <1>1, <1>2, <1>3, TypeCorrect, OwnHolds, PTL DEF Spec
-------------------------------------------------------------------------------
(***************************************************************************)
(* waitAvaileBuf.  The semaphore lets one task into the wait loop, so the  *)
(* count is 1 while there is one and 0 otherwise.                          *)
(***************************************************************************)
Waits(t) == pc[t] \in {"place", "retry", "hung"}
WaitInv == /\ (\E t \in Tasks : Waits(t)) => waitAvail = 1 /\ noNotify = FALSE
           /\ (\A t \in Tasks : ~Waits(t)) => waitAvail = 0

LEMMA WaitFrame ==
  ASSUME WaitInv, UNCHANGED <<waitAvail, noNotify>>,
         \A t \in Tasks : Waits(t)' <=> Waits(t)
  PROVE  WaitInv'
BY DEF WaitInv

LEMMA WaitStep ==
  ASSUME TypeOK, CriticalSection, WaitInv, [Next]_vars
  PROVE  WaitInv'
<1>1. ASSUME NEW t \in Tasks, SendGet(t) \/ SendPlace(t) \/ SendRetry(t)
      PROVE  WaitInv'
  <2>1. PICK to \in Points : pc' = [pc EXCEPT ![t] = to]
    BY <1>1 DEF SendGet, SendPlace, SendRetry, Goes, Moves, Points
  <2>2. pc'[t] = to /\ \A u \in Tasks \ {t} : pc'[u] = pc[u]
    BY <2>1 DEF TypeOK, TypeTask
  <2>3. HasSem(t)
    BY <1>1 DEF SendGet, SendPlace, SendRetry, Goes, Moves, HasSem, InCritical
  <2>4. \A u \in Tasks \ {t} : ~Waits(u) /\ ~Waits(u)'
    BY <2>2, <2>3 DEF CriticalSection, HasSem, InCritical, Waits
  <2>5. /\ Waits(t) => waitAvail = 1 /\ noNotify = FALSE
        /\ ~Waits(t) => waitAvail = 0
    BY <2>4 DEF WaitInv
  <2>6. CASE SendGet(t)
    <3>1. pc[t] = "work" /\ waitAvail = 0
      BY <2>5, <2>6 DEF SendGet, Goes, Moves, Waits
    <3>2. \/ waitAvail' = 0 /\ to \in {"fill", "unmask"}
          \/ waitAvail' = 1 /\ noNotify' = FALSE /\ to = "place"
      BY <2>2, <2>6, <3>1 DEF SendGet, NoneAvail, Goes, Moves, TypeOK, TypeTask
    <3> QED BY <2>2, <2>4, <3>2 DEF WaitInv, Waits
  <2>7. CASE SendPlace(t)
    <3>1. /\ pc[t] = "place" /\ to \in {"retry", "hung"}
          /\ UNCHANGED <<waitAvail, noNotify>>
      BY <2>2, <2>7 DEF SendPlace, Moves, TypeOK, TypeTask
    <3> QED BY <2>2, <2>4, <2>5, <3>1 DEF WaitInv, Waits
  <2>8. CASE SendRetry(t)
    <3>1. pc[t] = "retry" /\ waitAvail = 1
      BY <2>5, <2>8 DEF SendRetry, Goes, Moves, Waits
    <3>2. \/ waitAvail' = 0 /\ to \in {"fill", "unmask"}
          \/ waitAvail' = 1 /\ noNotify' = FALSE /\ to = "place"
      BY <2>2, <2>8, <3>1 DEF SendRetry, NoneAvail, Goes, Moves, TypeOK, TypeTask
    <3> QED BY <2>2, <2>4, <3>2 DEF WaitInv, Waits
  <2> QED BY <1>1, <2>6, <2>7, <2>8
<1>2. ASSUME NEW t \in Tasks,
             \/ Calls(t) \/ RecvTake(t) \/ RecvCopy(t) \/ Lock(t) \/ Mask(t) \/ Create(t)
             \/ RecvReturn(t) \/ SendPut(t) \/ Kick(t) \/ Unmask(t) \/ Give(t)
      PROVE  WaitInv'
  <2>1. /\ UNCHANGED <<waitAvail, noNotify>>
        /\ \A u \in Tasks : Waits(u)' <=> Waits(u)
    BY <1>2 DEF Calls, CreateCall, SendCall, RecvTake, RecvCopy, Lock, Mask, Create,
       RecvReturn, SendPut, Kick, Unmask, Give, Goes, Moves, Waits, TypeOK, TypeTask, list
  <2> QED BY <2>1, WaitFrame
<1>3. CASE \/ Host \/ Isr \/ UNCHANGED vars
           \/ \E t \in Tasks : Tick(t) \/ BlockLinked(t)
  <2>1. UNCHANGED <<waitAvail, noNotify, pc>>
    BY <1>3 DEF Host, HostPost, HostReclaim, HostAccept, HostRxDone, HostRing, HostIrq,
       HostSetIntr, Isr, IsrEnter, IsrForward, IsrForwardEnd, IsrWake, IsrExit, Tick,
       BlockLinked, list, vars
  <2> QED BY <2>1, WaitFrame DEF Waits
<1> QED BY <1>1, <1>2, <1>3 DEF Next, Task, Step

\* waitAvaileBuf counts the senders in the wait loop of MessageQCopy_send, and while one
\* waits the host is asked to ring (VirtQueue_getAvailBuf clears NO_NOTIFY).
THEOREM WaitersAreCounted == Spec => []WaitersCounted
<1>1. Init => WaitInv
  BY DEF Init, WaitInv, Waits
<1>2. TypeOK /\ CriticalSection /\ WaitInv /\ [Next]_vars => WaitInv'
  BY WaitStep
<1>3. CriticalSection /\ WaitInv => WaitersCounted
  <2> SUFFICES ASSUME CriticalSection, WaitInv PROVE WaitersCounted
    OBVIOUS
  <2>1. CASE \E t \in Tasks : Waits(t)
    <3>1. PICK t \in Tasks : Waits(t)
      BY <2>1
    <3>2. \A u \in Tasks : Waits(u) <=> u = t
      BY <3>1 DEF CriticalSection, HasSem, InCritical, Waits
    <3>3. {u \in Tasks : Waits(u)} = {t}
      BY <3>2
    <3>4. Cardinality({u \in Tasks : Waits(u)}) = 1
      BY <3>3, FS_Singleton
    <3> QED BY <2>1, <3>4 DEF WaitersCounted, WaitInv, Waits
  <2>2. CASE \A t \in Tasks : ~Waits(t)
    <3>1. {u \in Tasks : Waits(u)} = {}
      BY <2>2
    <3>2. Cardinality({u \in Tasks : Waits(u)}) = 0
      BY <3>1, FS_EmptySet
    <3> QED BY <2>2, <3>2 DEF WaitersCounted, WaitInv, Waits
  <2> QED BY <2>1, <2>2
<1> QED BY <1>1, <1>2, <1>3, TypeCorrect, CriticalSectionHolds, PTL DEF Spec

-------------------------------------------------------------------------------
(***************************************************************************)
(* The places of a sequence: EntriesAt(s, I) keeps the order of s and      *)
(* leaves out what is not in I.                                            *)
(***************************************************************************)

LEMMA SameSeq ==
  ASSUME NEW S, NEW s \in Seq(S), NEW r \in Seq(S), Len(s) = Len(r),
         \A i \in 1 .. Len(s) : s[i] = r[i]
  PROVE  s = r
OBVIOUS

LEMMA FunSeq ==
  ASSUME NEW S, NEW n \in Nat, NEW f \in [1 .. n -> S]
  PROVE  f \in Seq(S) /\ Len(f) = n
OBVIOUS

\* The ranks of the elements of I are 1 .. Cardinality(I), each once.
LEMMA Ranks ==
  ASSUME NEW n \in Nat, NEW I \in SUBSET (1 .. n)
  PROVE  /\ IsFiniteSet(I) /\ Cardinality(I) \in Nat
         /\ \A i \in I : Rank(I, i) \in 1 .. Cardinality(I)
         /\ \A i \in I : Place(I, Rank(I, i)) = i
         /\ \A k \in 1 .. Cardinality(I) : Place(I, k) \in I /\ Rank(I, Place(I, k)) = k
<1>1. IsFiniteSet(1 .. n)
  BY FS_Interval
<1>2. IsFiniteSet(I) /\ Cardinality(I) \in Nat
  BY <1>1, FS_Subset, FS_CardinalityType
<1> DEFINE U(i) == {j \in I : j <= i}
<1>3. \A i \in I : /\ IsFiniteSet(U(i)) /\ Cardinality(U(i)) \in Nat
                   /\ Cardinality(U(i)) <= Cardinality(I)
  BY <1>2, FS_Subset, FS_CardinalityType
<1>4. ASSUME NEW i \in I, NEW j \in I, i < j
      PROVE  Cardinality(U(i)) < Cardinality(U(j))
  <2>1. U(i) \cup {j} \in SUBSET U(j) /\ j \notin U(i)
    <3>1. i \in Int /\ j \in Int
      OBVIOUS
    <3>2. \A m \in U(i) : m \in Int /\ m <= j
      BY <1>4, <3>1
    <3>3. j \in U(j) /\ \A m \in U(i) : m \in I
      BY <3>1
    <3>4. j \notin U(i)
      BY <1>4, <3>1
    <3> QED BY <3>2, <3>3, <3>4
  <2>2. /\ IsFiniteSet(U(i) \cup {j})
        /\ Cardinality(U(i) \cup {j}) = Cardinality(U(i)) + 1
    BY <1>3, <2>1, FS_AddElement
  <2>3. Cardinality(U(i) \cup {j}) <= Cardinality(U(j))
    BY <1>3, <2>1, FS_Subset
  <2> QED BY <1>3, <2>2, <2>3
<1>5. \A i \in I : Cardinality(U(i)) \in 1 .. Cardinality(I)
  <2> SUFFICES ASSUME NEW i \in I PROVE Cardinality(U(i)) # 0
    BY <1>2, <1>3
  <2>1. i \in U(i)
    OBVIOUS
  <2> QED BY <1>3, <2>1, FS_EmptySet
<1>6. \A i, j \in I : Cardinality(U(i)) = Cardinality(U(j)) => i = j
  <2> SUFFICES ASSUME NEW i \in I, NEW j \in I, i # j
               PROVE  Cardinality(U(i)) # Cardinality(U(j))
    OBVIOUS
  <2>1. i < j \/ j < i
    OBVIOUS
  <2> QED BY <1>3, <1>4, <2>1
<1> DEFINE f == [i \in I |-> Cardinality(U(i))]
<1>7. f \in Injection(I, 1 .. Cardinality(I))
  BY <1>5, <1>6 DEF Injection, IsInjective
<1>8. /\ IsFiniteSet(1 .. Cardinality(I))
      /\ Cardinality(1 .. Cardinality(I)) = Cardinality(I)
  BY <1>2, FS_Interval
<1>9. f \in Surjection(I, 1 .. Cardinality(I))
  BY <1>7, <1>8, FS_Injection
<1>10. \A k \in 1 .. Cardinality(I) : \E i \in I : Cardinality(U(i)) = k
  BY <1>9 DEF Surjection
<1>11. \A i : Rank(I, i) = Cardinality(U(i))
  BY DEF Rank
<1> HIDE DEF U
<1>12. \A k \in 1 .. Cardinality(I) : Place(I, k) \in I /\ Rank(I, Place(I, k)) = k
  BY <1>10, <1>11 DEF Place
<1>13. \A i \in I : Place(I, Rank(I, i)) = i
  <2> SUFFICES ASSUME NEW i \in I PROVE Place(I, Rank(I, i)) = i
    OBVIOUS
  <2>1. Rank(I, i) \in 1 .. Cardinality(I)
    BY <1>5, <1>11
  <2>2. Place(I, Rank(I, i)) \in I /\ Rank(I, Place(I, Rank(I, i))) = Rank(I, i)
    BY <1>12, <2>1
  <2> QED BY <1>6, <1>11, <2>2
<1> QED BY <1>2, <1>5, <1>11, <1>12, <1>13

\* Moving a set by one keeps its size.
LEMMA Shifted ==
  ASSUME NEW n \in Nat, NEW A \in SUBSET (1 .. n), NEW B, B = {j \in 0 .. n - 1 : j + 1 \in A}
  PROVE  Cardinality(B) = Cardinality(A)
<1>1. IsFiniteSet(A)
  <2>1. IsFiniteSet(1 .. n)
    BY FS_Interval
  <2> QED BY <2>1, FS_Subset
<1> DEFINE f == [i \in A |-> i - 1]
<1>2. f \in Bijection(A, B)
  <2>1. f \in [A -> B]
    OBVIOUS
  <2>2. \A i, j \in A : f[i] = f[j] => i = j
    OBVIOUS
  <2>3. \A j \in B : j + 1 \in A /\ f[j + 1] = j
    OBVIOUS
  <2> QED BY <2>1, <2>2, <2>3 DEF Bijection, Injection, Surjection, IsInjective
<1> QED BY <1>1, <1>2, FS_Bijection DEF ExistsBijection

\* Appending adds the new entry at the end, if it is wanted.
LEMMA EntriesAppend ==
  ASSUME NEW s \in Seq(Bufs), NEW x \in Bufs, NEW I \in SUBSET (1 .. Len(s))
  PROVE  /\ EntriesAt(s, I) \in Seq(Bufs) /\ Elems(EntriesAt(s, I)) \subseteq Elems(s)
         /\ EntriesAt(Append(s, x), I) = EntriesAt(s, I)
         /\ EntriesAt(Append(s, x), I \cup {Len(s) + 1}) = Append(EntriesAt(s, I), x)
<1> DEFINE n == Len(s)
           c == Cardinality(I)
           J == I \cup {n + 1}
           a == Append(s, x)
<1>0. \A i \in I : i \in 1 .. n
  OBVIOUS
<1>1. /\ n \in Nat /\ DOMAIN s = 1 .. n /\ a[n + 1] = x /\ \A i \in 1 .. n : a[i] = s[i] /\ s[i] \in Bufs
  OBVIOUS
<1>2. /\ IsFiniteSet(I) /\ c \in Nat
      /\ \A i \in I : Rank(I, i) \in 1 .. c
      /\ \A k \in 1 .. c : Place(I, k) \in I /\ Rank(I, Place(I, k)) = k
  BY <1>1, Ranks
<1>3. /\ EntriesAt(s, I) = [k \in 1 .. c |-> s[Place(I, k)]]
      /\ \A k \in 1 .. c : s[Place(I, k)] \in Bufs /\ s[Place(I, k)] \in Elems(s)
    BY <1>1, <1>2 DEF EntriesAt, Elems
<1>4. /\ EntriesAt(s, I) \in Seq(Bufs) /\ Len(EntriesAt(s, I)) = c
      /\ \A k \in 1 .. c : EntriesAt(s, I)[k] = s[Place(I, k)]
  <2> HIDE DEF c, n
  <2> QED BY <1>2, <1>3
<1>17. Elems(EntriesAt(s, I)) \subseteq Elems(s)
  <2>1. Elems(EntriesAt(s, I)) = {EntriesAt(s, I)[k] : k \in 1 .. c}
    BY <1>4 DEF Elems
  <2> QED BY <1>3, <1>4, <2>1
<1>18. EntriesAt(a, I) = EntriesAt(s, I)
  <2>1. \A k \in 1 .. c : a[Place(I, k)] = s[Place(I, k)]
    BY <1>1, <1>2
  <2> QED BY <1>3, <2>1 DEF EntriesAt
<1>5. /\ J \in SUBSET (1 .. n + 1) /\ n + 1 \in Nat /\ n + 1 \notin I /\ Cardinality(J) = c + 1
  <2>1. J \in SUBSET (1 .. n + 1) /\ n + 1 \in Nat /\ n + 1 \notin I
    <3>1. n + 1 \in 1 .. n + 1 /\ n + 1 \notin 1 .. n /\ 1 .. n \subseteq 1 .. n + 1
      BY <1>1
    <3>2. \A j \in J : j \in 1 .. n + 1
      BY <1>0, <3>1
    <3>3. J \in SUBSET (1 .. n + 1)
      BY <3>2
    <3>4. n + 1 \notin I
      BY <1>0, <3>1
    <3>5. n + 1 \in Nat
      BY <1>1
    <3> QED BY <3>3, <3>4, <3>5
  <2>2. Cardinality(I \cup {n + 1}) = IF n + 1 \in I THEN Cardinality(I) ELSE Cardinality(I) + 1
    BY <1>2, FS_AddElement
  <2> QED BY <2>1, <2>2
<1>6. \A i \in I : Rank(J, i) = Rank(I, i)
  <2> SUFFICES ASSUME NEW i \in I PROVE {j \in J : j <= i} = {j \in I : j <= i}
    BY DEF Rank
  <2> QED BY <1>1
<1>7. Rank(J, n + 1) = c + 1
  <2>1. {j \in J : j <= n + 1} = J
    <3>1. \A j \in J : j <= n + 1
      BY <1>5
    <3> QED BY <3>1
  <2> QED BY <1>5, <2>1 DEF Rank
<1>8. \A j \in J : Place(J, Rank(J, j)) = j
  BY <1>5, Ranks
<1>9. Place(J, c + 1) = n + 1
  BY <1>7, <1>8
<1>10. \A k \in 1 .. c : Place(J, k) = Place(I, k)
  BY <1>2, <1>6, <1>8
<1>11. EntriesAt(a, J) = [k \in 1 .. c + 1 |-> a[Place(J, k)]]
  BY <1>5 DEF EntriesAt
<1> HIDE DEF J, a, n, c
<1>12. /\ \A k \in 1 .. c : EntriesAt(a, J)[k] = EntriesAt(s, I)[k]
       /\ EntriesAt(a, J)[c + 1] = x
  <2>1. ASSUME NEW k \in 1 .. c PROVE EntriesAt(a, J)[k] = EntriesAt(s, I)[k]
    <3>1. k \in 1 .. c + 1 /\ Place(I, k) \in 1 .. n
      <4>1. c \in Nat /\ Place(I, k) \in I
        BY <1>2
      <4>2. k \in 1 .. c + 1
        BY <4>1
      <4> QED BY <1>0, <4>1, <4>2
    <3>2. EntriesAt(a, J)[k] = a[Place(I, k)]
      BY <1>10, <1>11, <3>1
    <3> QED BY <1>1, <1>4, <3>1, <3>2
  <2>2. c + 1 \in 1 .. c + 1
    BY <1>2
  <2>3. EntriesAt(a, J)[c + 1] = a[Place(J, c + 1)]
    BY <1>11, <2>2
  <2> QED BY <1>1, <1>9, <2>1, <2>3
<1>13. /\ Append(EntriesAt(s, I), x) \in Seq(Bufs)
       /\ Len(Append(EntriesAt(s, I), x)) = c + 1
       /\ \A k \in 1 .. c : Append(EntriesAt(s, I), x)[k] = EntriesAt(s, I)[k]
       /\ Append(EntriesAt(s, I), x)[c + 1] = x
  BY <1>2, <1>4
<1>14. \A k \in 1 .. c + 1 : EntriesAt(a, J)[k] = Append(EntriesAt(s, I), x)[k]
  BY <1>2, <1>12, <1>13
<1>15. EntriesAt(a, J) \in Seq(Bufs) /\ Len(EntriesAt(a, J)) = c + 1
  <2>1. \A k \in 1 .. c + 1 : a[Place(J, k)] \in Bufs
    BY <1>11, <1>13, <1>14
  <2> QED BY <1>2, <1>11, <2>1
<1>16. EntriesAt(a, J) = Append(EntriesAt(s, I), x)
  BY <1>13, <1>14, <1>15, SameSeq
<1> QED BY <1>4, <1>16, <1>17, <1>18 DEF J, a, n

\* Without the first entry the places move by one.
MovedUp(I, n) == {j \in 1 .. n - 1 : j + 1 \in I}
First(I)      == IF 1 \in I THEN 1 ELSE 0
LEMMA RankTail ==
  ASSUME NEW n \in Nat \ {0}, NEW I \in SUBSET (1 .. n)
  PROVE  /\ MovedUp(I, n) \in SUBSET (1 .. n - 1)
         /\ Cardinality(MovedUp(I, n)) + First(I) = Cardinality(I)
         /\ \A j \in MovedUp(I, n) : Rank(MovedUp(I, n), j) + First(I) = Rank(I, j + 1)
         /\ 1 \in I => Rank(I, 1) = 1
<1>0. PICK J, d : J = MovedUp(I, n) /\ d = First(I)
  OBVIOUS
<1>1. /\ n \in Nat /\ n - 1 \in Nat /\ J \in SUBSET (1 .. n - 1)
      /\ J = {j \in 1 .. n - 1 : j + 1 \in I} /\ d = IF 1 \in I THEN 1 ELSE 0
      /\ \A i \in I : i \in 1 .. n
  BY <1>0 DEF MovedUp, First
<1>2. IsFiniteSet(I)
  BY <1>1, Ranks
\* a set of places, and what is left of it after the first entry
<1>3. ASSUME NEW A \in SUBSET I, NEW B \in SUBSET J, \A j \in J : j \in B <=> j + 1 \in A,
             1 \in I => 1 \in A
      PROVE  Cardinality(B) + d = Cardinality(A)
  <2> DEFINE C == A \ {1}
  <2>1. C \in SUBSET (1 .. n)
    BY <1>1, <1>3
  <2>2. B = {j \in 0 .. n - 1 : j + 1 \in C}
    <3>1. \A j \in B : j \in 0 .. n - 1 /\ j + 1 \in C
      BY <1>1, <1>3
    <3>2. ASSUME NEW j \in 0 .. n - 1, j + 1 \in C PROVE j \in B
      <4>1. j + 1 \in I /\ j \in 1 .. n - 1
        BY <1>1, <1>3, <3>2
      <4>2. j \in J
        BY <1>1, <4>1
      <4> QED BY <1>3, <3>2, <4>2
    <3> HIDE DEF C
    <3> QED BY <3>1, <3>2
  <2>3. Cardinality(B) = Cardinality(C)
    BY <1>1, <2>1, <2>2, Shifted
  <2>4. IsFiniteSet(A) /\ Cardinality(A) \in Nat
    BY <1>2, <1>3, FS_Subset, FS_CardinalityType
  <2>5. Cardinality(C) = IF 1 \in A THEN Cardinality(A) - 1 ELSE Cardinality(A)
    BY <2>4, FS_RemoveElement
  <2>6. 1 \in A <=> 1 \in I
    BY <1>3
  <2> HIDE DEF C
  <2> QED BY <1>1, <2>3, <2>4, <2>5, <2>6
<1>4. Cardinality(J) + d = Cardinality(I)
  <2>1. \A j \in J : j \in J <=> j + 1 \in I
    BY <1>1
  <2> QED BY <1>3, <2>1
<1>5. ASSUME NEW j \in J PROVE Rank(J, j) + d = Rank(I, j + 1)
  <2> DEFINE A == {m \in I : m <= j + 1}
             B == {m \in J : m <= j}
  <2>1. A \in SUBSET I /\ B \in SUBSET J /\ (1 \in I => 1 \in A)
    BY <1>1
  <2>2. \A m \in J : m \in B <=> m + 1 \in A
    <3> SUFFICES ASSUME NEW m \in J PROVE m <= j <=> (m + 1 \in I /\ m + 1 <= j + 1)
      OBVIOUS
    <3> QED BY <1>1
  <2> HIDE DEF A, B
  <2>3. Cardinality(B) + d = Cardinality(A)
    BY <1>3, <2>1, <2>2
  <2> QED BY <2>3 DEF Rank, A, B
<1>6. ASSUME 1 \in I PROVE Rank(I, 1) = 1
  <2>1. {j \in I : j <= 1} = {1}
    <3>1. \A j \in I : j <= 1 => j = 1
      BY <1>1
    <3>2. \A j \in {i \in I : i <= 1} : j \in {1}
      BY <3>1
    <3>3. \A j \in {1} : j \in {i \in I : i <= 1}
      BY <1>6
    <3> QED BY <3>2, <3>3
  <2> QED BY <2>1, FS_Singleton DEF Rank
<1> QED BY <1>0, <1>1, <1>4, <1>5, <1>6

\* Taking the first entry away takes the first of those that are wanted, or none.
LEMMA EntriesTail ==
  ASSUME NEW s \in Seq(Bufs), s # <<>>, NEW I \in SUBSET (1 .. Len(s)),
         NEW J, J = MovedUp(I, Len(s))
  PROVE  /\ 1 \notin I => EntriesAt(Tail(s), J) = EntriesAt(s, I)
         /\ 1 \in I => EntriesAt(s, I) = <<Head(s)>> \o EntriesAt(Tail(s), J)
<1>1. PICK n, d : n = Len(s) /\ d = First(I)
  OBVIOUS
<1>2. /\ n \in Nat \ {0} /\ I \in SUBSET (1 .. n) /\ J = MovedUp(I, n)
      /\ \A i \in I : i \in 1 .. n /\ s[i] \in Bufs
      /\ Head(s) = s[1] /\ \A j \in 1 .. n - 1 : Tail(s)[j] = s[j + 1]
  BY <1>1
<1>3. /\ Cardinality(J) + d = Cardinality(I)
      /\ J \in SUBSET (1 .. n - 1) /\ n - 1 \in Nat
      /\ \A j \in J : Rank(J, j) + d = Rank(I, j + 1)
      /\ 1 \in I => Rank(I, 1) = 1
  <2>1. n - 1 \in Nat
    BY <1>2
  <2>2. /\ J \in SUBSET (1 .. n - 1)
        /\ Cardinality(J) + d = Cardinality(I)
        /\ \A j \in J : Rank(J, j) + d = Rank(I, j + 1)
        /\ 1 \in I => Rank(I, 1) = 1
    BY <1>1, <1>2, RankTail
  <2> QED BY <2>1, <2>2
<1>4. PICK b, c : b = Cardinality(J) /\ c = Cardinality(I)
  OBVIOUS
<1>5. /\ b \in Nat /\ c \in Nat /\ b + d = c
      /\ \A k \in 1 .. b : Place(J, k) \in J /\ Rank(J, Place(J, k)) = k
      /\ \A k \in 1 .. c : Place(I, k) \in I
      /\ \A i \in I : Place(I, Rank(I, i)) = i
  BY <1>2, <1>3, <1>4, Ranks
<1>6. \A k \in 1 .. b : Place(I, k + d) = Place(J, k) + 1
  <2> SUFFICES ASSUME NEW k \in 1 .. b PROVE Place(I, k + d) = Place(J, k) + 1
    OBVIOUS
  <2>1. PICK j \in J : j = Place(J, k)
    BY <1>5
  <2>2. j + 1 \in I /\ Rank(J, j) = k
    BY <1>2, <1>5, <2>1 DEF MovedUp
  <2>3. Rank(I, j + 1) = k + d
    BY <1>3, <2>2
  <2> QED BY <1>5, <2>1, <2>2, <2>3
<1>7. PICK e, f : e = EntriesAt(s, I) /\ f = EntriesAt(Tail(s), J)
  OBVIOUS
<1>8. /\ e = [k \in 1 .. c |-> s[Place(I, k)]] /\ f = [k \in 1 .. b |-> Tail(s)[Place(J, k)]]
  BY <1>4, <1>7 DEF EntriesAt
<1>9. \A k \in 1 .. b : Tail(s)[Place(J, k)] = s[Place(I, k + d)]
  BY <1>2, <1>3, <1>5, <1>6
<1>10. CASE 1 \notin I
  <2>1. d = 0 /\ b = c
    BY <1>1, <1>5, <1>10 DEF First
  <2>2. \A k \in 1 .. b : k + d = k
    BY <2>1
  <2>3. e = f
    BY <1>8, <1>9, <2>1, <2>2
  <2> QED BY <1>7, <1>10, <2>3
<1>11. CASE 1 \in I
  <2>1. d = 1 /\ c = b + 1
    BY <1>1, <1>5, <1>11 DEF First
  <2>2. Place(I, 1) = 1
    BY <1>3, <1>5, <1>11
  <2>3. \A k \in 1 .. c : s[Place(I, k)] \in Bufs
    BY <1>2, <1>5
  <2>4. e \in Seq(Bufs) /\ Len(e) = c
    BY <1>5, <1>8, <2>3
  <2>5. f \in Seq(Bufs) /\ Len(f) = b /\ \A k \in 1 .. b : f[k] = e[k + 1]
    <3>1. \A k \in 1 .. b : k + 1 \in 1 .. c
      BY <1>5, <2>1
    <3>2. \A k \in 1 .. b : f[k] = e[k + 1] /\ f[k] \in Bufs
      BY <1>8, <1>9, <2>1, <2>3, <3>1
    <3>3. f \in Seq(Bufs) /\ Len(f) = b
      <4>1. \A k \in 1 .. b : Tail(s)[Place(J, k)] \in Bufs
        BY <1>8, <3>2
      <4>2. f \in [1 .. b -> Bufs]
        BY <1>8, <4>1
      <4> QED BY <1>5, <4>2, FunSeq
    <3> QED BY <3>2, <3>3
  <2>6. e[1] = Head(s) /\ Head(s) \in Bufs
    <3>1. 1 \in 1 .. c
      BY <1>5, <2>1
    <3> QED BY <1>2, <1>8, <2>2, <2>3, <3>1
  <2>7. PICK g \in Seq(Bufs) : g = <<Head(s)>> \o f
    <3>1. <<Head(s)>> \in Seq(Bufs)
      BY <2>6
    <3>2. <<Head(s)>> \o f \in Seq(Bufs)
      BY <2>5, <3>1
    <3> QED BY <3>2
  <2>8. Len(g) = c /\ \A k \in 1 .. c : g[k] = e[k]
    <3>1. Len(g) = b + 1 /\ g[1] = Head(s) /\ \A k \in 2 .. b + 1 : g[k] = f[k - 1]
      BY <1>5, <2>5, <2>6, <2>7
    <3>2. \A k \in 1 .. b + 1 : k = 1 \/ (k \in 2 .. b + 1 /\ k - 1 \in 1 .. b /\ k - 1 + 1 = k)
      BY <1>5
    <3> QED BY <2>1, <2>5, <2>6, <3>1, <3>2
  <2>9. e = g
    BY <2>4, <2>8, SameSeq
  <2> QED BY <1>7, <1>11, <2>7, <2>9
<1> QED BY <1>10, <1>11

-------------------------------------------------------------------------------
(* The messages in buffers.                                                *)

LEMMA ContentsSame ==
  ASSUME NEW S, NEW s \in Seq(S), NEW m, NEW w, \A x \in Elems(s) : w[x] = m[x]
  PROVE  Contents(w, s) = Contents(m, s)
<1>1. \A i \in DOMAIN s : w[s[i]] = m[s[i]]
  BY DEF Elems
<1> QED BY <1>1 DEF Contents

LEMMA ContentsAppend ==
  ASSUME NEW T, NEW s \in Seq(Bufs), NEW x \in Bufs, NEW m \in [Bufs -> T]
  PROVE  /\ Contents(m, s) \in Seq(T)
         /\ Contents(m, Append(s, x)) = Append(Contents(m, s), m[x])
<1>1. PICK n \in Nat : n = Len(s)
  OBVIOUS
<1>2. PICK a : a = Append(s, x)
  OBVIOUS
<1>3. /\ DOMAIN s = 1 .. n /\ DOMAIN a = 1 .. n + 1 /\ a[n + 1] = x
      /\ a \in Seq(Bufs) /\ \A i \in 1 .. n : a[i] = s[i]
      /\ \A i \in 1 .. n + 1 : a[i] \in Bufs
      /\ \A i \in 1 .. n : s[i] \in Bufs
  BY <1>1, <1>2
<1>4. Contents(m, s) \in [1 .. n -> T] /\ Contents(m, a) \in [1 .. n + 1 -> T]
  BY <1>3 DEF Contents
<1>5. /\ Contents(m, s) \in Seq(T) /\ Len(Contents(m, s)) = n
      /\ Contents(m, a) \in Seq(T) /\ Len(Contents(m, a)) = n + 1
  BY <1>4, FunSeq
<1>6. m[x] \in T
  OBVIOUS
<1>7. PICK r : r = Append(Contents(m, s), m[x])
  OBVIOUS
<1>8. /\ r \in Seq(T) /\ Len(r) = n + 1 /\ r[n + 1] = m[x]
      /\ \A i \in 1 .. n : r[i] = Contents(m, s)[i]
  BY <1>5, <1>6, <1>7
<1>9. \A i \in 1 .. n : Contents(m, s)[i] = Contents(m, a)[i]
  BY <1>3 DEF Contents
<1>10. Contents(m, a)[n + 1] = m[x]
  BY <1>3 DEF Contents
<1>11. \A i \in 1 .. n + 1 : Contents(m, a)[i] = r[i]
  BY <1>8, <1>9, <1>10
<1>12. Contents(m, a) = r
  BY <1>5, <1>8, <1>11, SameSeq
<1> QED BY <1>2, <1>5, <1>7, <1>12

LEMMA ContentsTail ==
  ASSUME NEW T, NEW s \in Seq(Bufs), NEW m \in [Bufs -> T], s # <<>>
  PROVE  Contents(m, s) # <<>> /\ Contents(m, Tail(s)) = Tail(Contents(m, s))
<1>1. PICK n \in Nat \ {0} : n = Len(s)
  OBVIOUS
<1>2. PICK a : a = Tail(s)
  OBVIOUS
<1>3. /\ DOMAIN s = 1 .. n /\ DOMAIN a = 1 .. n - 1 /\ n - 1 \in Nat
      /\ a \in Seq(Bufs) /\ \A i \in 1 .. n - 1 : a[i] = s[i + 1]
      /\ \A i \in 1 .. n - 1 : a[i] \in Bufs
      /\ \A i \in 1 .. n : s[i] \in Bufs
  BY <1>1, <1>2
<1>4. Contents(m, s) \in [1 .. n -> T] /\ Contents(m, a) \in [1 .. n - 1 -> T]
  BY <1>3 DEF Contents
<1>5. /\ Contents(m, s) \in Seq(T) /\ Len(Contents(m, s)) = n
      /\ Contents(m, a) \in Seq(T) /\ Len(Contents(m, a)) = n - 1
  BY <1>3, <1>4, FunSeq
<1>6. Contents(m, s) # <<>>
  BY <1>1, <1>5
<1>7. PICK r : r = Tail(Contents(m, s))
  OBVIOUS
<1>8. /\ r \in Seq(T) /\ Len(r) = n - 1
      /\ \A i \in 1 .. n - 1 : r[i] = Contents(m, s)[i + 1]
  BY <1>5, <1>6, <1>7
<1>9. \A i \in 1 .. n - 1 : Contents(m, s)[i + 1] = Contents(m, a)[i]
  BY <1>3 DEF Contents
<1>10. Contents(m, a) = r
  BY <1>5, <1>8, <1>9, SameSeq
<1> QED BY <1>2, <1>6, <1>7, <1>10

\* Putting sequences together.
LEMMA JoinedType ==
  ASSUME NEW r \in Seq(Bufs), NEW q \in Seq(Bufs), NEW o \in Seq(Bufs)
  PROVE  /\ r \o q \o o \in Seq(Bufs)
         /\ Elems(r \o q \o o) = Elems(r) \cup Elems(q) \cup Elems(o)
<1>1. ASSUME NEW a \in Seq(Bufs), NEW b \in Seq(Bufs)
      PROVE  a \o b \in Seq(Bufs) /\ Elems(a \o b) = Elems(a) \cup Elems(b)
  <2>1. PICK c, i, j : c = a \o b /\ i = Len(a) /\ j = Len(b)
    OBVIOUS
  <2>2. /\ c \in Seq(Bufs) /\ i \in Nat /\ j \in Nat /\ DOMAIN c = 1 .. i + j /\ DOMAIN a = 1 .. i /\ DOMAIN b = 1 .. j
        /\ \A k \in 1 .. i : c[k] = a[k]
        /\ \A k \in 1 .. j : c[i + k] = b[k]
    BY <2>1
  <2>3. \A k \in 1 .. i + j : k \in 1 .. i \/ (k - i \in 1 .. j /\ k = i + (k - i))
    BY <2>2
  <2>4. ASSUME NEW k \in 1 .. i + j PROVE c[k] \in Elems(a) \cup Elems(b)
    <3>1. CASE k \in 1 .. i
      BY <2>2, <3>1 DEF Elems
    <3>2. CASE k - i \in 1 .. j /\ k = i + (k - i)
      <4>1. PICK l \in 1 .. j : k = i + l
        BY <3>2
      <4> QED BY <2>2, <4>1 DEF Elems
    <3> QED BY <2>3, <3>1, <3>2
  <2>5. \A k \in 1 .. i : a[k] \in Elems(c)
    <3>1. \A k \in 1 .. i : k \in 1 .. i + j
      BY <2>2
    <3> QED BY <2>2, <3>1 DEF Elems
  <2>6. \A k \in 1 .. j : b[k] \in Elems(c)
    <3>1. \A k \in 1 .. j : i + k \in 1 .. i + j
      BY <2>2
    <3> QED BY <2>2, <3>1 DEF Elems
  <2>7. Elems(c) = Elems(a) \cup Elems(b)
    BY <2>2, <2>4, <2>5, <2>6 DEF Elems
  <2> QED BY <2>1, <2>2, <2>7
<1>2. /\ r \o q \in Seq(Bufs) /\ r \o q \o o \in Seq(Bufs)
      /\ Elems(r \o q \o o) = Elems(r) \cup Elems(q) \cup Elems(o)
  <2>1. PICK b : b = r \o q
    OBVIOUS
  <2>2. b \in Seq(Bufs) /\ Elems(b) = Elems(r) \cup Elems(q)
    BY <1>1, <2>1
  <2>3. b \o o \in Seq(Bufs) /\ Elems(b \o o) = Elems(b) \cup Elems(o)
    BY <1>1, <2>2
  <2> QED BY <2>1, <2>2, <2>3
<1> QED BY <1>2

LEMMA Joined ==
  ASSUME NEW r \in Seq(Bufs), NEW q \in Seq(Bufs), NEW o \in Seq(Bufs), NEW x \in Bufs
  PROVE  /\ r \o q \o Append(o, x) = Append(r \o q \o o, x)
         /\ <<>> \o <<>> \o (<<x>> \o o) # <<>>
         /\ Tail(<<>> \o <<>> \o (<<x>> \o o)) = <<>> \o <<>> \o o
OBVIOUS

-------------------------------------------------------------------------------
(***************************************************************************)
(* The channel.  What is pending for an endpoint is in one buffer that its *)
(* task copies from, in its queue, and in the vring, in that order.        *)
(***************************************************************************)
InCopy(t) == op[t] = "recv" /\ pc[t] = "copy"

\* The sequences of buffers, none of which the host may write.
LEMMA TokensTyped ==
  ASSUME TypeOK, ExclusiveF, NEW e \in 0 .. MaxObjects
  PROVE  /\ Reading(e) \in Seq(Bufs) /\ Queued(e) \in Seq(Bufs) /\ Offered(e) \in Seq(Bufs)
         /\ TokensF(e) \in Seq(Bufs) /\ Slots(e) \in SUBSET (1 .. Len(availF))
         /\ \A b \in Elems(TokensF(e)) : b \in Bufs /\ b \notin hostFree \cup Elems(usedF)
<1>1. Slots(e) \in SUBSET (1 .. Len(availF))
  BY DEF Slots, TypeOK, TypeF
<1>2. /\ Offered(e) \in Seq(Bufs) /\ Elems(Offered(e)) \subseteq Elems(availF)
      /\ \A b \in Elems(availF) : b \notin hostFree \cup Elems(usedF)
  <2>1. availF \in Seq(Bufs) /\ 0 \in Bufs
    BY NumBufAssumption DEF TypeOK, TypeF, Bufs
  <2>2. /\ EntriesAt(availF, Slots(e)) \in Seq(Bufs)
        /\ Elems(EntriesAt(availF, Slots(e))) \subseteq Elems(availF)
    BY <1>1, <2>1, EntriesAppend
  <2> QED BY <2>2 DEF Offered, ExclusiveF
<1>3. /\ Queued(e) \in Seq(Bufs)
      /\ \A b \in Elems(Queued(e)) : b \notin hostFree \cup Elems(usedF)
  <2>1. CASE e \in Endpoints
    BY <2>1 DEF Queued, TypeOK, TypeObjs, ExclusiveF
  <2>2. CASE e \notin Endpoints
    BY <2>2 DEF Queued, Elems
  <2> QED BY <2>1, <2>2
<1>4. /\ Reading(e) \in Seq(Bufs)
      /\ \A b \in Elems(Reading(e)) : b \notin hostFree \cup Elems(usedF)
  <2>1. CASE e # NoEp /\ InHand(e) # {}
    <3>1. PICK t : t = CHOOSE v \in InHand(e) : TRUE
      OBVIOUS
    <3>2. t \in InHand(e)
      BY <2>1, <3>1
    <3>3. t \in Tasks /\ HoldsF(t)
      BY <3>2 DEF InHand, HoldsF
    <3>4. tok[t] \in Bufs /\ tok[t] \notin hostFree \cup Elems(usedF)
      BY <3>3 DEF TypeOK, TypeTask, ExclusiveF
    <3>5. Reading(e) = <<tok[t]>>
      BY <2>1, <3>1 DEF Reading
    <3> QED BY <3>4, <3>5 DEF Elems
  <2>2. CASE ~(e # NoEp /\ InHand(e) # {})
    <3>1. Reading(e) = <<>>
      BY <2>2 DEF Reading
    <3>2. <<>> \in Seq(Bufs) /\ Elems(<<>>) = {}
      BY DEF Elems
    <3> QED BY <3>1, <3>2
  <2> QED BY <2>1, <2>2
<1>6. /\ TokensF(e) \in Seq(Bufs)
      /\ Elems(TokensF(e)) = Elems(Reading(e)) \cup Elems(Queued(e)) \cup Elems(Offered(e))
  <2>1. PICK r, q, o : r = Reading(e) /\ q = Queued(e) /\ o = Offered(e)
    OBVIOUS
  <2>2. /\ r \o q \o o \in Seq(Bufs)
        /\ Elems(r \o q \o o) = Elems(r) \cup Elems(q) \cup Elems(o)
    BY <1>2, <1>3, <1>4, <2>1, JoinedType
  <2> QED BY <2>1, <2>2 DEF TokensF
<1>7. \A b \in Elems(TokensF(e)) : b \in Bufs
  BY <1>6 DEF Elems
<1> QED BY <1>1, <1>2, <1>3, <1>4, <1>6, <1>7

\* A step in which no task takes or gives up a buffer of endpoint e.
LEMMA ReadingOther ==
  ASSUME NEW e \in 0 .. MaxObjects,
         \A t \in Tasks : /\ (ep'[t] = e /\ InCopy(t)') <=> (ep[t] = e /\ InCopy(t))
                          /\ ep[t] = e /\ InCopy(t) => tok'[t] = tok[t]
  PROVE  Reading(e)' = Reading(e)
<1>1. InHand(e)' = InHand(e)
  BY DEF InHand, InCopy
<1>2. CASE InHand(e) = {}
  BY <1>1, <1>2 DEF Reading
<1>3. CASE InHand(e) # {}
  <2>1. PICK t : t = CHOOSE v \in InHand(e) : TRUE
    OBVIOUS
  <2>2. t \in InHand(e)
    BY <1>3, <2>1
  <2>3. tok'[t] = tok[t]
    BY <2>2 DEF InHand, InCopy
  <2>4. t = CHOOSE v \in InHand(e)' : TRUE
    BY <1>1, <2>1
  <2> QED BY <1>1, <2>1, <2>3, <2>4 DEF Reading
<1> QED BY <1>2, <1>3

LEMMA ReadingFrame ==
  ASSUME NEW e \in 0 .. MaxObjects,
         \A t \in Tasks : /\ InCopy(t)' <=> InCopy(t)
                          /\ InCopy(t) => tok'[t] = tok[t] /\ ep'[t] = ep[t]
  PROVE  Reading(e)' = Reading(e)
<1>1. CASE \A t \in Tasks : InCopy(t) => ep'[t] = ep[t]
  BY <1>1, ReadingOther
<1> QED BY <1>1

LEMMA PendingSame ==
  ASSUME TypeOK, ExclusiveF,
         \A e \in 0 .. MaxObjects : TokensF(e)' = TokensF(e),
         \A b \in Bufs : b \notin hostFree \cup Elems(usedF) => memF'[b] = memF[b]
  PROVE  Pending' = Pending
<1>1. ASSUME NEW e \in 0 .. MaxObjects
      PROVE  Contents(memF', TokensF(e)') = Contents(memF, TokensF(e))
  <2>1. /\ TokensF(e) \in Seq(Bufs)
        /\ \A b \in Elems(TokensF(e)) : memF'[b] = memF[b]
    BY TokensTyped
  <2> QED BY <2>1, ContentsSame
<1> QED BY <1>1 DEF Pending

LEMMA PendingFrame ==
  ASSUME TypeOK, ExclusiveF, UNCHANGED <<availF, memF, queue>>,
         \A t \in Tasks : /\ InCopy(t)' <=> InCopy(t)
                          /\ InCopy(t) => tok'[t] = tok[t] /\ ep'[t] = ep[t]
  PROVE  Pending' = Pending
<1>1. ASSUME NEW e \in 0 .. MaxObjects PROVE TokensF(e)' = TokensF(e)
  <2>1. Reading(e)' = Reading(e)
    BY ReadingFrame
  <2>2. Queued(e)' = Queued(e)
    BY DEF Queued
  <2>3. Offered(e)' = Offered(e)
    BY DEF Offered, Slots
  <2> QED BY <2>1, <2>2, <2>3 DEF TokensF
<1> QED BY <1>1, PendingSame

\* One channel changes.
LEMMA PendingAt ==
  ASSUME NEW d \in 0 .. MaxObjects, NEW v, Contents(memF', TokensF(d)') = v,
         \A e \in (0 .. MaxObjects) \ {d} :
           Contents(memF', TokensF(e)') = Contents(memF, TokensF(e))
  PROVE  Pending' = [Pending EXCEPT ![d] = v]
BY DEF Pending

\* The host writes a message into a buffer of its own and offers it.
LEMMA PostStep ==
  ASSUME TypeOK, ExclusiveF, NEW d \in 0 .. MaxObjects, HostPost(d)
  PROVE  Channel!Post(d)
<1>1. PICK b \in hostFree : /\ memF' = [memF EXCEPT ![b] = [dst |-> d, seq |-> posted + 1]]
                            /\ availF' = Append(availF, b)
  BY DEF HostPost
<1>2. /\ posted \in 0 .. MaxPost /\ posted < MaxPost /\ posted + 1 \in 0 .. MaxPost
      /\ UNCHANGED <<usedT, memT, created, queue, pc, op, tok, ep>>
  <2>1. posted \in 0 .. MaxPost /\ posted < MaxPost /\ MaxPost \in Nat
    BY LimitsAssumption DEF HostPost, TypeOK, TypeHost
  <2> QED BY <2>1 DEF HostPost, ringT, objs, call
<1>3. PICK m : m = [dst |-> d, seq |-> posted + 1]
  OBVIOUS
<1>4. /\ m \in MsgF /\ m.dst = d /\ b \in Bufs /\ memF \in [Bufs -> MsgF] /\ memF'[b] = m
      /\ \A c \in Bufs \ {b} : memF'[c] = memF[c]
      /\ memF' \in [Bufs -> MsgF]
  BY <1>1, <1>2, <1>3 DEF MsgF, TypeOK, TypeF, TypeHost
<1>5. /\ availF \in Seq(Bufs) /\ b \notin Elems(availF)
  BY DEF TypeOK, TypeF, ExclusiveF
<1>6. PICK n : n = Len(availF)
  OBVIOUS
<1>7. /\ n \in Nat /\ DOMAIN availF = 1 .. n /\ DOMAIN availF' = 1 .. n + 1
      /\ availF'[n + 1] = b
      /\ \A i \in 1 .. n : availF'[i] = availF[i] /\ availF[i] \in Bufs \ {b}
  BY <1>1, <1>4, <1>5, <1>6 DEF Elems
<1>8. ASSUME NEW e \in 0 .. MaxObjects
      PROVE  Slots(e)' = IF e = d THEN Slots(e) \cup {n + 1} ELSE Slots(e)
  <2>1. \A i \in 1 .. n : memF'[availF'[i]].dst = memF[availF[i]].dst
    BY <1>4, <1>7
  <2>2. memF'[availF'[n + 1]].dst = d
    BY <1>4, <1>7
  <2>3. \A i : i \in 1 .. n + 1 <=> i \in 1 .. n \/ i = n + 1
    BY <1>7
  <2> QED BY <1>7, <2>1, <2>2, <2>3 DEF Slots
<1>9. ASSUME NEW e \in 0 .. MaxObjects
      PROVE  TokensF(e)' = IF e = d THEN Append(TokensF(e), b) ELSE TokensF(e)
  <2>1. Reading(e)' = Reading(e)
    BY <1>2, ReadingFrame DEF InCopy
  <2>2. Queued(e)' = Queued(e)
    BY <1>2 DEF Queued
  <2>3. Offered(e)' = IF e = d THEN Append(Offered(e), b) ELSE Offered(e)
    <3>1. PICK I : I = Slots(e)
      OBVIOUS
    <3>2. I \in SUBSET (1 .. Len(availF))
      BY <3>1, TokensTyped
    <3>3. /\ EntriesAt(Append(availF, b), I) = EntriesAt(availF, I)
          /\ EntriesAt(Append(availF, b), I \cup {Len(availF) + 1})
               = Append(EntriesAt(availF, I), b)
      BY <1>4, <1>5, <3>2, EntriesAppend
    <3>4. Offered(e)' = EntriesAt(Append(availF, b), Slots(e)')
      BY <1>1 DEF Offered
    <3>5. Offered(e) = EntriesAt(availF, I)
      BY <3>1 DEF Offered
    <3>6. CASE e = d
      BY <1>6, <1>8, <3>1, <3>3, <3>4, <3>5, <3>6
    <3>7. CASE e # d
      BY <1>8, <3>1, <3>3, <3>4, <3>5, <3>7
    <3> QED BY <3>6, <3>7
  <2>4. /\ Reading(e) \in Seq(Bufs) /\ Queued(e) \in Seq(Bufs) /\ Offered(e) \in Seq(Bufs)
    BY TokensTyped
  <2>5. Reading(e) \o Queued(e) \o Append(Offered(e), b)
          = Append(Reading(e) \o Queued(e) \o Offered(e), b)
    BY <1>4, <2>4, Joined
  <2> QED BY <2>1, <2>2, <2>3, <2>5 DEF TokensF
<1>10. ASSUME NEW e \in 0 .. MaxObjects
       PROVE  /\ TokensF(e) \in Seq(Bufs)
              /\ Contents(memF', TokensF(e)) = Contents(memF, TokensF(e))
  <2>1. TokensF(e) \in Seq(Bufs) /\ \A c \in Elems(TokensF(e)) : c \in Bufs \ {b}
    BY TokensTyped
  <2> QED BY <1>4, <2>1, ContentsSame
<1>11. Contents(memF', Append(TokensF(d), b)) = Append(Contents(memF, TokensF(d)), m)
  <2>1. PICK w, s : w = memF' /\ s = TokensF(d)
    OBVIOUS
  <2>2. Contents(w, Append(s, b)) = Append(Contents(w, s), w[b])
    <3>1. s \in Seq(Bufs) /\ b \in Bufs /\ w \in [Bufs -> MsgF]
      BY <1>4, <1>10, <2>1
    <3> QED BY <3>1, ContentsAppend
  <2> QED BY <1>4, <1>10, <2>1, <2>2
<1>12. Pending' = [Pending EXCEPT ![d] = Append(Contents(memF, TokensF(d)), m)]
  BY <1>9, <1>10, <1>11, PendingAt
<1>13. Pending[d] = Contents(memF, TokensF(d))
  BY DEF Pending
<1>14. created' = created /\ Out' = Out
  BY <1>2 DEF Out, Contents
<1> QED BY <1>4, <1>12, <1>13, <1>14 DEF Channel!Post

\* The host blanks a buffer it takes back: none of a pending message.
LEMMA ReclaimStep ==
  ASSUME TypeOK, ExclusiveF, HostReclaim
  PROVE  Pending' = Pending
<1>1. /\ usedF # <<>> /\ memF' = [memF EXCEPT ![Head(usedF)] = BlankF]
      /\ UNCHANGED <<availF, queue, pc, op, tok, ep>>
  BY DEF HostReclaim, objs, call
<1>2. Head(usedF) \in Elems(usedF)
  BY <1>1 DEF TypeOK, TypeF, Elems
<1>3. \A b \in Bufs : b \notin hostFree \cup Elems(usedF) => memF'[b] = memF[b]
  BY <1>1, <1>2 DEF TypeOK, TypeF
<1>4. \A i \in DOMAIN availF : memF'[availF[i]] = memF[availF[i]]
  <2>1. \A i \in DOMAIN availF : availF[i] \in Bufs /\ availF[i] \in Elems(availF)
    BY DEF TypeOK, TypeF, Elems
  <2> QED BY <1>3, <2>1 DEF ExclusiveF
<1>5. ASSUME NEW e \in 0 .. MaxObjects PROVE TokensF(e)' = TokensF(e)
  <2>1. Reading(e)' = Reading(e)
    BY <1>1, ReadingFrame DEF InCopy
  <2>2. Queued(e)' = Queued(e)
    BY <1>1 DEF Queued
  <2>3. Slots(e)' = Slots(e)
    BY <1>1, <1>4 DEF Slots
  <2>4. Offered(e)' = Offered(e)
    BY <1>1, <2>3 DEF Offered
  <2> QED BY <2>1, <2>2, <2>4 DEF TokensF
<1> QED BY <1>3, <1>5, PendingSame

\* What the interrupt takes from the vring was the first entry of one endpoint.
LEMMA OfferedTail ==
  ASSUME TypeOK, availF # <<>>, availF' = Tail(availF), memF' = memF,
         NEW e \in 0 .. MaxObjects
  PROVE  /\ e # HeadDst => Offered(e)' = Offered(e)
         /\ e = HeadDst => Offered(e) = <<Head(availF)>> \o Offered(e)'
<1>1. PICK s, n : s = availF /\ n = Len(availF)
  OBVIOUS
<1>2. /\ s \in Seq(Bufs) /\ s # <<>> /\ n \in Nat \ {0} /\ n = Len(s) /\ DOMAIN s = 1 .. n
      /\ DOMAIN Tail(s) = 1 .. n - 1 /\ Head(s) = s[1]
      /\ \A j \in 1 .. n - 1 : Tail(s)[j] = s[j + 1]
  BY <1>1 DEF TypeOK, TypeF
<1>3. PICK I, J : I = Slots(e) /\ J = Slots(e)'
  OBVIOUS
<1>4. I = {i \in 1 .. n : memF[s[i]].dst = e}
  BY <1>1, <1>2, <1>3 DEF Slots
<1>5. J = {j \in 1 .. n - 1 : memF[Tail(s)[j]].dst = e}
  BY <1>1, <1>2, <1>3 DEF Slots
<1>6. J = MovedUp(I, n)
  <2>1. \A j \in 1 .. n - 1 : j + 1 \in 1 .. n
    BY <1>2
  <2>2. \A j \in 1 .. n - 1 : j + 1 \in I <=> memF[s[j + 1]].dst = e
    BY <1>4, <2>1
  <2>3. \A j \in 1 .. n - 1 : j + 1 \in I <=> memF[Tail(s)[j]].dst = e
    BY <1>2, <2>2
  <2> QED BY <1>5, <2>3 DEF MovedUp
<1>7. 1 \in I <=> e = HeadDst
  <2>1. 1 \in 1 .. n
    BY <1>2
  <2> QED BY <1>1, <1>2, <1>4, <2>1 DEF HeadDst
<1>8. /\ 1 \notin I => EntriesAt(Tail(s), J) = EntriesAt(s, I)
      /\ 1 \in I => EntriesAt(s, I) = <<Head(s)>> \o EntriesAt(Tail(s), J)
  <2>1. I \in SUBSET (1 .. Len(s)) /\ J = MovedUp(I, Len(s))
    BY <1>2, <1>4, <1>6
  <2> QED BY <1>2, <2>1, EntriesTail
<1>9. Offered(e) = EntriesAt(s, I) /\ Offered(e)' = EntriesAt(Tail(s), J)
  BY <1>1, <1>3 DEF Offered
<1> QED BY <1>1, <1>7, <1>8, <1>9

\* The oldest message of one endpoint is taken.
LEMMA PendingTail ==
  ASSUME TypeOK, ExclusiveF, NEW d \in 0 .. MaxObjects, memF' = memF,
         TokensF(d) # <<>>, TokensF(d)' = Tail(TokensF(d)),
         \A e \in (0 .. MaxObjects) \ {d} : TokensF(e)' = TokensF(e)
  PROVE  Pending[d] # <<>> /\ Pending' = [Pending EXCEPT ![d] = Tail(Pending[d])]
<1>1. PICK s, m : s = TokensF(d) /\ m = memF
  OBVIOUS
<1>2. s \in Seq(Bufs) /\ m \in [Bufs -> MsgF] /\ s # <<>>
  BY <1>1, TokensTyped DEF TypeOK, TypeF
<1>3. Contents(m, s) # <<>> /\ Contents(m, Tail(s)) = Tail(Contents(m, s))
  BY <1>2, ContentsTail
<1>4. Pending[d] = Contents(m, s)
  BY <1>1 DEF Pending
<1>5. Contents(memF', TokensF(d)') = Tail(Pending[d])
  BY <1>1, <1>3, <1>4
<1>6. \A e \in (0 .. MaxObjects) \ {d} :
        Contents(memF', TokensF(e)') = Contents(memF, TokensF(e))
  OBVIOUS
<1>7. Pending' = [Pending EXCEPT ![d] = Tail(Pending[d])]
  BY <1>5, <1>6, PendingAt
<1> QED BY <1>3, <1>4, <1>7

\* callback_FromHost: queueing a buffer moves it within its channel; a message it
\* refuses, and hands back, is dropped, and there is no endpoint for it.
LEMMA ForwardStep ==
  ASSUME TypeOK, ExclusiveF, OwnInv, QueueHasRoom, IsrForward
  PROVE  /\ created' = created /\ Out' = Out
         /\ Pending' = Pending \/ \E e \in 0 .. MaxObjects : Channel!Drop(e)
<1>1. /\ availF # <<>> /\ availF' = Tail(availF)
      /\ UNCHANGED <<memF, created, usedT, memT, pc, op, tok, ep>>
      /\ \/ Accepted(HeadDst) /\ queue' = [queue EXCEPT ![HeadDst] = Append(@, Head(availF))]
         \/ ~Accepted(HeadDst) /\ queue' = queue
  BY DEF IsrForward, Accepted, HeadDst, ringT, call
<1>2. PICK d, b : d = HeadDst /\ b = Head(availF)
  OBVIOUS
<1>3. b \in Bufs /\ d \in 0 .. MaxObjects /\ created \subseteq Endpoints
      /\ queue \in [Endpoints -> Seq(Bufs)]
  <2>1. b \in Bufs
    BY <1>1, <1>2 DEF TypeOK, TypeF
  <2>2. memF[b] \in MsgF /\ d = memF[b].dst
    BY <1>2, <2>1 DEF TypeOK, TypeF, HeadDst
  <2> QED BY <2>1, <2>2 DEF MsgF, TypeOK, TypeObjs
<1>4. Out' = Out
  BY <1>1 DEF Out, Contents
<1>5. ASSUME NEW e \in 0 .. MaxObjects
      PROVE  /\ Reading(e)' = Reading(e)
             /\ e # d => Offered(e)' = Offered(e)
             /\ e = d => Offered(e) = <<b>> \o Offered(e)'
             /\ Reading(e) \in Seq(Bufs) /\ Queued(e) \in Seq(Bufs)
             /\ Offered(e)' \in Seq(Bufs)
  <2>1. Reading(e)' = Reading(e)
    BY <1>1, ReadingFrame DEF InCopy
  <2>2. /\ e # d => Offered(e)' = Offered(e)
        /\ e = d => Offered(e) = <<b>> \o Offered(e)'
    BY <1>1, <1>2, OfferedTail
  <2>3. Reading(e) \in Seq(Bufs) /\ Queued(e) \in Seq(Bufs)
    BY TokensTyped
  <2>4. Offered(e)' \in Seq(Bufs)
    <3>1. PICK s : s = availF'
      OBVIOUS
    <3>2. PICK I : I = Slots(e)'
      OBVIOUS
    <3>3. s \in Seq(Bufs) /\ I \in SUBSET (1 .. Len(s))
      BY <1>1, <3>1, <3>2 DEF TypeOK, TypeF, Slots
    <3>4. EntriesAt(s, I) \in Seq(Bufs)
      BY <1>3, <3>3, EntriesAppend
    <3> QED BY <3>1, <3>2, <3>4 DEF Offered
  <2> QED BY <2>1, <2>2, <2>3, <2>4
<1>6. CASE Accepted(d)
  <2>1. /\ d \in Endpoints /\ queue' = [queue EXCEPT ![d] = Append(queue[d], b)]
    BY <1>1, <1>2, <1>3, <1>6 DEF Accepted
  <2>2. queue'[d] = Append(queue[d], b) /\ \A e \in Endpoints \ {d} : queue'[e] = queue[e]
    BY <1>3, <2>1
  <2>3. ASSUME NEW e \in 0 .. MaxObjects PROVE TokensF(e)' = TokensF(e)
    <3>1. CASE e = d
      <4>1. Queued(e) = queue[d] /\ Queued(e)' = Append(Queued(e), b)
        BY <2>1, <2>2, <3>1 DEF Queued
      <4>2. PICK r, q, o : r = Reading(e) /\ q = Queued(e) /\ o = Offered(e)'
        OBVIOUS
      <4>3. r \o Append(q, b) \o o = r \o q \o (<<b>> \o o)
        <5>1. r \in Seq(Bufs) /\ q \in Seq(Bufs) /\ o \in Seq(Bufs) /\ b \in Bufs
          BY <1>3, <1>5, <4>2
        <5>2. PICK y : y = <<b>>
          OBVIOUS
        <5>3. y \in Seq(Bufs) /\ Append(q, b) = q \o y
          BY <5>1, <5>2
        <5>4. PICK z, w : z = q \o y /\ w = y \o o
          OBVIOUS
        <5>5. z \in Seq(Bufs) /\ w \in Seq(Bufs)
          BY <5>1, <5>3, <5>4
        <5>6. r \o z \o o = r \o (z \o o)
          BY <5>1, <5>5
        <5>7. z \o o = q \o w
          BY <5>1, <5>3, <5>4
        <5>8. r \o (q \o w) = r \o q \o w
          BY <5>1, <5>5
        <5> QED BY <5>2, <5>3, <5>4, <5>6, <5>7, <5>8
      <4>4. TokensF(e)' = r \o Append(q, b) \o o
        BY <1>5, <4>1, <4>2 DEF TokensF
      <4>5. TokensF(e) = r \o q \o (<<b>> \o o)
        BY <1>5, <3>1, <4>2 DEF TokensF
      <4> QED BY <4>3, <4>4, <4>5
    <3>2. CASE e # d
      <4>1. Queued(e)' = Queued(e)
        BY <2>2, <3>2 DEF Queued
      <4> QED BY <1>5, <3>2, <4>1 DEF TokensF
    <3> QED BY <3>1, <3>2
  <2>4. Pending' = Pending
    BY <1>1, <2>3, PendingSame
  <2> QED BY <1>1, <1>4, <2>4
<1>7. CASE ~Accepted(d)
  <2>1. queue' = queue
    BY <1>1, <1>2, <1>7
  <2>2. d \notin created
    <3>1. d \in Endpoints => Len(queue[d]) < QueLen
      BY <1>1 DEF QueueHasRoom
    <3> QED BY <1>3, <1>7, <3>1 DEF Accepted
  <2>3. Reading(d) = <<>>
    <3>1. \A t \in Tasks : ep[t] = d => d = NoEp
      BY <2>2 DEF OwnInv
    <3>2. d # NoEp => InHand(d) = {}
      BY <3>1 DEF InHand
    <3> QED BY <3>2 DEF Reading
  <2>4. Queued(d) = <<>>
    <3>1. ASSUME d \in Endpoints, queue[d] # <<>> PROVE FALSE
      <4>1. 1 \in DOMAIN queue[d]
        BY <1>3, <3>1
      <4>2. queue[d][1] \in Elems(queue[d])
        BY <4>1 DEF Elems
      <4> QED BY <2>2, <3>1, <4>2 DEF OwnInv, EndpointsOwned
    <3> QED BY <3>1 DEF Queued
  <2>5. TokensF(d) # <<>> /\ TokensF(d)' = Tail(TokensF(d))
    <3>1. PICK o \in Seq(Bufs) : o = Offered(d)'
      BY <1>3, <1>5
    <3>2. <<>> \in Seq(Bufs)
      OBVIOUS
    <3>3. /\ <<>> \o <<>> \o (<<b>> \o o) # <<>>
          /\ Tail(<<>> \o <<>> \o (<<b>> \o o)) = <<>> \o <<>> \o o
      BY <1>3, <3>1, <3>2, Joined
    <3>4. TokensF(d) = <<>> \o <<>> \o (<<b>> \o o)
      BY <1>3, <1>5, <2>3, <2>4, <3>1 DEF TokensF
    <3>5. Queued(d)' = Queued(d)
      BY <2>1 DEF Queued
    <3>6. TokensF(d)' = <<>> \o <<>> \o o
      BY <1>3, <1>5, <2>3, <2>4, <3>1, <3>5 DEF TokensF
    <3> QED BY <3>3, <3>4, <3>6
  <2>6. \A e \in (0 .. MaxObjects) \ {d} : TokensF(e)' = TokensF(e)
    BY <1>5, <2>1 DEF TokensF, Queued
  <2>7. Pending[d] # <<>> /\ Pending' = [Pending EXCEPT ![d] = Tail(Pending[d])]
    BY <1>1, <1>3, <2>5, <2>6, PendingTail
  <2>8. Channel!Drop(d)
    BY <1>1, <1>4, <2>2, <2>7 DEF Channel!Drop, Channel!Take
  <2> QED BY <1>1, <1>3, <1>4, <2>8
<1> QED BY <1>6, <1>7

\* One task at a time copies a message of an endpoint: the endpoint's owner.
LEMMA ReadingOne ==
  ASSUME OwnInv, NEW t \in Tasks, ep[t] # NoEp
  PROVE  /\ InCopy(t) => Reading(ep[t]) = <<tok[t]>>
         /\ ~InCopy(t) => Reading(ep[t]) = <<>>
<1>1. \A u \in Tasks : ep[u] = ep[t] => u = t
  BY DEF OwnInv, EndpointsOwned
<1>2. CASE InCopy(t)
  <2>1. InHand(ep[t]) = {t}
    BY <1>1, <1>2 DEF InHand, InCopy
  <2>2. PICK u : u = CHOOSE v \in InHand(ep[t]) : TRUE
    OBVIOUS
  <2>3. u \in {t}
    BY <2>1, <2>2
  <2> QED BY <1>2, <2>1, <2>2, <2>3 DEF Reading
<1>3. CASE ~InCopy(t)
  <2>1. InHand(ep[t]) = {}
    BY <1>1, <1>3 DEF InHand, InCopy
  <2> QED BY <1>3, <2>1 DEF Reading
<1> QED BY <1>2, <1>3

\* MessageQCopy_recv takes the oldest entry of its queue: it stays the oldest message.
LEMMA TakeStep ==
  ASSUME TypeOK, ExclusiveF, OwnInv, OwnInv', NEW t \in Tasks, RecvTake(t)
  PROVE  created' = created /\ Out' = Out /\ Pending' = Pending
<1>1. /\ ep[t] # NoEp /\ queue[ep[t]] # <<>> /\ pc[t] = "idle"
      /\ pc' = [pc EXCEPT ![t] = "copy"] /\ op' = [op EXCEPT ![t] = "recv"]
      /\ tok' = [tok EXCEPT ![t] = Head(queue[ep[t]])]
      /\ queue' = [queue EXCEPT ![ep[t]] = Tail(queue[ep[t]])]
      /\ UNCHANGED <<availF, memF, usedT, memT, created, ep>>
  BY DEF RecvTake, Goes, Moves, ringF, ringT
<1>2. PICK d : d = ep[t]
  OBVIOUS
<1>3. /\ d \in 0 .. MaxObjects /\ d \in Endpoints /\ queue[d] \in Seq(Bufs)
      /\ queue \in [Endpoints -> Seq(Bufs)]
  <2>1. d \in 0 .. MaxObjects /\ d # NoEp
    BY <1>1, <1>2 DEF TypeOK, TypeTask
  <2>2. d \in Endpoints
    BY <2>1, LimitsAssumption DEF NoEp, Endpoints
  <2> QED BY <2>1, <2>2 DEF TypeOK, TypeObjs
<1>4. queue'[d] = Tail(queue[d]) /\ \A e \in Endpoints \ {d} : queue'[e] = queue[e]
  BY <1>1, <1>2, <1>3
<1>5. ~InCopy(t) /\ InCopy(t)' /\ tok'[t] = Head(queue[d]) /\ ep'[t] = d
  BY <1>1, <1>2 DEF InCopy, TypeOK, TypeTask
<1>6. \A u \in Tasks \ {t} : (InCopy(u)' <=> InCopy(u)) /\ tok'[u] = tok[u] /\ ep'[u] = ep[u]
  BY <1>1 DEF InCopy, TypeOK, TypeTask
<1>7. Reading(d) = <<>>
  BY <1>1, <1>2, <1>5, ReadingOne
<1>8. Reading(d)' = <<Head(queue[d])>>
  <2>1. (ep[t] # NoEp)' /\ OwnInv'
    BY <1>1
  <2>2. (InCopy(t) => Reading(ep[t]) = <<tok[t]>>)'
    BY <2>1, ReadingOne, PTL
  <2>3. Reading(ep[t])' = Reading(d)'
    BY <1>5 DEF Reading, InHand
  <2> QED BY <1>5, <2>2, <2>3
<1>9. ASSUME NEW e \in 0 .. MaxObjects PROVE Offered(e)' = Offered(e)
  BY <1>1 DEF Offered, Slots
<1>10. ASSUME NEW e \in 0 .. MaxObjects PROVE TokensF(e)' = TokensF(e)
  <2>1. CASE e = d
    <3>1. PICK q, o : q = queue[d] /\ o = Offered(e)
      OBVIOUS
    <3>2. q \in Seq(Bufs) /\ o \in Seq(Bufs) /\ q # <<>>
      BY <1>1, <1>2, <1>3, <3>1, TokensTyped
    <3>3. <<Head(q)>> \o Tail(q) \o o = <<>> \o q \o o
      BY <3>2
    <3>4. Queued(e) = q /\ Queued(e)' = Tail(q)
      BY <1>3, <1>4, <2>1, <3>1 DEF Queued
    <3> QED BY <1>7, <1>8, <1>9, <2>1, <3>1, <3>3, <3>4 DEF TokensF
  <2>2. CASE e # d
    <3>1. Reading(e)' = Reading(e)
      BY <1>2, <1>5, <1>6, <2>2, ReadingOther
    <3>2. Queued(e)' = Queued(e)
      BY <1>4, <2>2 DEF Queued
    <3> QED BY <1>9, <3>1, <3>2 DEF TokensF
  <2> QED BY <2>1, <2>2
<1>11. Pending' = Pending
  BY <1>1, <1>10, PendingSame
<1> QED BY <1>1, <1>11 DEF Out, Contents

\* When its task has copied it, the oldest message of an endpoint is delivered.
LEMMA CopyStep ==
  ASSUME TypeOK, ExclusiveF, OwnInv, NEW t \in Tasks, RecvCopy(t)
  PROVE  /\ created' = created /\ Out' = Out
         /\ Pending' = Pending \/ \E e \in 0 .. MaxObjects : Channel!Deliver(e)
<1>1. /\ pc[t] = "copy" /\ pc' = [pc EXCEPT ![t] = "lock"]
      /\ UNCHANGED <<availF, memF, usedT, memT, created, queue, op, tok, ep>>
  BY DEF RecvCopy, Goes, Moves, ringF, ringT, objs, call
<1>2. PICK d : d = ep[t]
  OBVIOUS
<1>3. d \in 0 .. MaxObjects /\ tok[t] \in Bufs
  BY <1>2 DEF TypeOK, TypeTask
<1>4. Out' = Out
  BY <1>1 DEF Out, Contents
<1>5. ~InCopy(t)' /\ \A u \in Tasks \ {t} : InCopy(u)' <=> InCopy(u)
  BY <1>1 DEF InCopy, TypeOK, TypeTask
<1>6. ASSUME NEW e \in 0 .. MaxObjects, e # d \/ ~InCopy(t)
      PROVE  Reading(e)' = Reading(e)
  BY <1>1, <1>2, <1>5, <1>6, ReadingOther
<1>7. ASSUME NEW e \in 0 .. MaxObjects
      PROVE  Offered(e)' = Offered(e) /\ Queued(e)' = Queued(e)
  BY <1>1 DEF Offered, Slots, Queued
<1>8. CASE d = NoEp \/ ~InCopy(t)
  <2>1. ASSUME NEW e \in 0 .. MaxObjects PROVE Reading(e)' = Reading(e)
    <3>1. CASE e = NoEp
      BY <3>1 DEF Reading
    <3> QED BY <1>6, <1>8, <3>1
  <2>2. \A e \in 0 .. MaxObjects : TokensF(e)' = TokensF(e)
    BY <1>7, <2>1 DEF TokensF
  <2>3. Pending' = Pending
    BY <1>1, <2>2, PendingSame
  <2> QED BY <1>1, <1>4, <2>3
<1>9. CASE d # NoEp /\ InCopy(t)
  <2>1. d \in created
    BY <1>2, <1>9 DEF OwnInv
  <2>2. Reading(d) = <<tok[t]>>
    BY <1>2, <1>9, ReadingOne
  <2>3. Reading(d)' = <<>>
    <3>1. \A u \in Tasks : ep[u] = d => u = t
      BY <1>2, <1>9 DEF OwnInv, EndpointsOwned
    <3>2. InHand(d)' = {}
      BY <1>1, <1>5, <3>1 DEF InHand, InCopy
    <3> QED BY <3>2 DEF Reading
  <2>4. TokensF(d) # <<>> /\ TokensF(d)' = Tail(TokensF(d))
    <3>1. PICK x, q, o : x = tok[t] /\ q = Queued(d) /\ o = Offered(d)
      OBVIOUS
    <3>2. x \in Bufs /\ q \in Seq(Bufs) /\ o \in Seq(Bufs)
      BY <1>3, <3>1, TokensTyped
    <3>3. <<x>> \o q \o o # <<>> /\ Tail(<<x>> \o q \o o) = <<>> \o q \o o
      BY <3>2
    <3> QED BY <1>3, <1>7, <2>2, <2>3, <3>1, <3>3 DEF TokensF
  <2>5. \A e \in (0 .. MaxObjects) \ {d} : TokensF(e)' = TokensF(e)
    BY <1>6, <1>7 DEF TokensF
  <2>6. Pending[d] # <<>> /\ Pending' = [Pending EXCEPT ![d] = Tail(Pending[d])]
    BY <1>1, <1>3, <2>4, <2>5, PendingTail
  <2>7. Channel!Deliver(d)
    BY <1>1, <1>4, <2>1, <2>6 DEF Channel!Deliver, Channel!Take
  <2> QED BY <1>1, <1>3, <1>4, <2>7
<1> QED BY <1>8, <1>9

\* MessageQCopy_create opens an endpoint that did not exist.
LEMMA CreateStep ==
  ASSUME TypeOK, TypeOK', ExclusiveF, OwnInv, NEW t \in Tasks, Create(t)
  PROVE  \/ UNCHANGED <<created, Pending, Out>>
         \/ \E e \in 0 .. MaxObjects : Channel!Open(e)
<1>1. /\ op[t] = "create" /\ UNCHANGED <<availF, memF, usedT, memT, queue, op, tok>>
      /\ pc[t] = "work" /\ pc' = [pc EXCEPT ![t] = "unmask"]
  BY DEF Create, Goes, Moves, ringF, ringT
<1>2. \/ UNCHANGED <<created, ep>>
      \/ \E e \in FreeSlot(Request[t]) : /\ created' = created \cup {e}
                                         /\ ep' = [ep EXCEPT ![t] = e]
  BY DEF Create
<1>3. \A u \in Tasks : InCopy(u)' <=> InCopy(u)
  BY <1>1 DEF InCopy, TypeOK, TypeTask
<1>4. \A u \in Tasks : InCopy(u) => ep'[u] = ep[u]
  BY <1>1, <1>2 DEF InCopy, TypeOK, TypeTask
<1>5. Pending' = Pending
  BY <1>1, <1>3, <1>4, PendingFrame
<1>6. Out' = Out
  BY <1>1 DEF Out, Contents
<1>7. ASSUME NEW e \in FreeSlot(Request[t]), created' = created \cup {e}
      PROVE  \E d \in 0 .. MaxObjects : Channel!Open(d)
  <2>1. e \notin created
    BY DEF FreeSlot
  <2>2. e \in 0 .. MaxObjects
    <3>1. e \in Endpoints
      BY <1>7 DEF TypeOK, TypeObjs
    <3> QED BY <3>1, LimitsAssumption DEF Endpoints
  <2>3. Channel!Open(e)
    BY <1>5, <1>6, <1>7, <2>1 DEF Channel!Open
  <2> QED BY <2>2, <2>3
<1> QED BY <1>2, <1>5, <1>6, <1>7

\* MessageQCopy_send publishes a message: in a buffer that the host does not read.
LEMMA PutStep ==
  ASSUME TypeOK, ExclusiveF, ExclusiveT, NEW t \in Tasks, SendPut(t)
  PROVE  Channel!Emit
<1>1. /\ pc[t] = "fill" /\ pc' = [pc EXCEPT ![t] = "kick"]
      /\ memT' = [memT EXCEPT ![tok[t]] = [src |-> t, seq |-> sent[t]]]
      /\ usedT' = Append(usedT, tok[t])
      /\ UNCHANGED <<availF, memF, created, queue, op, tok, ep>>
  BY DEF SendPut, Goes, Moves, ringF, objs, call
<1>2. PICK b, m : b = tok[t] /\ m = [src |-> t, seq |-> sent[t]]
  OBVIOUS
<1>3. /\ b \in Bufs /\ m \in MsgT /\ memT \in [Bufs -> MsgT] /\ usedT \in Seq(Bufs)
  BY <1>2 DEF TypeOK, TypeT, TypeTask, MsgT
<1>4. b \notin Elems(usedT)
  BY <1>1, <1>2 DEF ExclusiveT, HoldsT
<1>5. PICK w, s : w = memT' /\ s = usedT
  OBVIOUS
<1>6. /\ w \in [Bufs -> MsgT] /\ w[b] = m /\ s \in Seq(Bufs)
      /\ \A c \in Bufs \ {b} : w[c] = memT[c]
  BY <1>1, <1>2, <1>3, <1>5
<1>7. Contents(w, Append(s, b)) = Append(Contents(w, s), w[b])
  BY <1>3, <1>6, ContentsAppend
<1>8. Contents(w, s) = Contents(memT, s)
  <2>1. \A c \in Elems(s) : c \in Bufs \ {b}
    BY <1>4, <1>5, <1>6 DEF Elems
  <2>2. \A c \in Elems(s) : w[c] = memT[c]
    BY <1>6, <2>1
  <2> QED BY <1>6, <2>2, ContentsSame
<1>9. Out' = Append(Out, m)
  BY <1>1, <1>2, <1>5, <1>6, <1>7, <1>8 DEF Out
<1>10. Pending' = Pending
  <2>1. \A u \in Tasks : InCopy(u)' <=> InCopy(u)
    BY <1>1 DEF InCopy, TypeOK, TypeTask
  <2> QED BY <1>1, <2>1, PendingFrame
<1> QED BY <1>1, <1>3, <1>9, <1>10 DEF Channel!Emit

\* The host takes the oldest message, and blanks its buffer.
LEMMA AcceptStep ==
  ASSUME TypeOK, ExclusiveF, ExclusiveT, HostAccept
  PROVE  Channel!Accept
<1>1. /\ usedT # <<>> /\ usedT' = Tail(usedT)
      /\ memT' = [memT EXCEPT ![Head(usedT)] = BlankT]
      /\ UNCHANGED <<availF, memF, created, queue, pc, op, tok, ep>>
  BY DEF HostAccept, ringF, objs, call
<1>2. PICK m, s, h : m = memT /\ s = usedT /\ h = Head(usedT)
  OBVIOUS
<1>3. /\ m \in [Bufs -> MsgT] /\ s \in Seq(Bufs) /\ s # <<>> /\ h \in Bufs /\ h = s[1]
      /\ Tail(s) \in Seq(Bufs) /\ Distinct(s)
      /\ DOMAIN s = 1 .. Len(s) /\ DOMAIN Tail(s) = 1 .. Len(s) - 1 /\ Len(s) \in Nat \ {0}
      /\ \A i \in 1 .. Len(s) - 1 : Tail(s)[i] = s[i + 1]
      /\ \A i \in 1 .. Len(s) : s[i] \in Bufs
  BY <1>1, <1>2 DEF TypeOK, TypeT, ExclusiveT
<1>4. Contents(m, s) # <<>> /\ Contents(m, Tail(s)) = Tail(Contents(m, s))
  BY <1>3, ContentsTail
<1>5. \A c \in Elems(Tail(s)) : c \in Bufs /\ c # h
  <2>1. ASSUME NEW i \in 1 .. Len(s) - 1 PROVE Tail(s)[i] \in Bufs /\ Tail(s)[i] # h
    <3>1. i + 1 \in 1 .. Len(s) /\ 1 \in 1 .. Len(s) /\ i + 1 # 1
      BY <1>3
    <3>2. s[i + 1] # s[1]
      BY <1>3, <3>1 DEF Distinct
    <3> QED BY <1>3, <3>1, <3>2
  <2> QED BY <1>3, <2>1 DEF Elems
<1>6. \A c \in Bufs : c # h => memT'[c] = m[c]
  BY <1>1, <1>2, <1>3
<1>7. Contents(memT', Tail(s)) = Contents(m, Tail(s))
  <2>1. PICK r : r = Tail(s)
    OBVIOUS
  <2>2. r \in Seq(Bufs) /\ \A c \in Elems(r) : memT'[c] = m[c]
    BY <1>3, <1>5, <1>6, <2>1
  <2>3. Contents(memT', r) = Contents(m, r)
    BY <2>2, ContentsSame
  <2> QED BY <2>1, <2>3
<1>8. Out # <<>> /\ Out' = Tail(Out)
  BY <1>1, <1>2, <1>4, <1>7 DEF Out
<1>9. Pending' = Pending
  BY <1>1, PendingFrame DEF InCopy
<1> QED BY <1>1, <1>8, <1>9 DEF Channel!Accept

\* Every other step is between the steps of the channel.
LEMMA QuietFrame ==
  ASSUME TypeOK, ExclusiveF, UNCHANGED <<availF, memF, queue, created, usedT, memT>>,
         \A t \in Tasks : /\ InCopy(t)' <=> InCopy(t)
                          /\ InCopy(t) => tok'[t] = tok[t] /\ ep'[t] = ep[t]
  PROVE  UNCHANGED <<created, Pending, Out>>
<1>1. Pending' = Pending
  BY PendingFrame
<1>2. Out' = Out
  BY DEF Out, Contents
<1> QED BY <1>1, <1>2

LEMMA QuietMove ==
  ASSUME TypeOK, ExclusiveF, UNCHANGED <<availF, memF, queue, created, usedT, memT, ep>>,
         NEW t \in Tasks, pc[t] # "copy", NEW p, p # "copy", pc' = [pc EXCEPT ![t] = p],
         \A u \in Tasks \ {t} : tok'[u] = tok[u] /\ op'[u] = op[u]
  PROVE  UNCHANGED <<created, Pending, Out>>
<1>1. \A u \in Tasks : /\ InCopy(u)' <=> InCopy(u)
                       /\ InCopy(u) => tok'[u] = tok[u] /\ ep'[u] = ep[u]
  BY DEF InCopy, TypeOK, TypeTask
<1> QED BY <1>1, QuietFrame

LEMMA QuietStep ==
  ASSUME TypeOK, ExclusiveF, NEW t \in Tasks,
         \/ Calls(t) \/ Lock(t) \/ Mask(t) \/ RecvReturn(t) \/ SendGet(t) \/ SendPlace(t)
         \/ SendRetry(t) \/ Kick(t) \/ Unmask(t) \/ Give(t)
  PROVE  UNCHANGED <<created, Pending, Out>>
<1>1. CASE CreateCall(t)
  BY <1>1, QuietMove DEF CreateCall, Goes, Moves, ringF, ringT, objs, TypeOK, TypeTask
<1>2. CASE SendCall(t)
  BY <1>2, QuietMove DEF SendCall, Goes, Moves, ringF, ringT, objs, TypeOK, TypeTask
<1>3. CASE Lock(t) \/ Mask(t) \/ Kick(t) \/ Unmask(t) \/ SendPlace(t)
  BY <1>3, QuietMove DEF Lock, Mask, Kick, Unmask, SendPlace, Goes, Moves, ringF, ringT,
     objs, call
<1>4. CASE RecvReturn(t)
  BY <1>4, QuietMove DEF RecvReturn, Goes, Moves, ringT, objs, call
<1>5. CASE Give(t)
  BY <1>5, QuietMove DEF Give, Goes, Moves, ringF, ringT, objs, TypeOK, TypeTask
<1>6. CASE SendGet(t) \/ SendRetry(t)
  <2>1. /\ UNCHANGED <<availF, memF, queue, created, usedT, memT, ep, op>>
        /\ pc[t] # "copy" /\ \E p : p # "copy" /\ pc' = [pc EXCEPT ![t] = p]
    BY <1>6 DEF SendGet, SendRetry, Goes, Moves, ringF, objs
  <2>2. \A u \in Tasks \ {t} : tok'[u] = tok[u]
    BY <1>6 DEF SendGet, SendRetry, TakeAvail, TypeOK, TypeTask
  <2> QED BY <2>1, <2>2, QuietMove
<1> QED BY <1>1, <1>2, <1>3, <1>4, <1>5, <1>6 DEF Calls

LEMMA ChannelStep ==
  ASSUME TypeOK, TypeOK', ExclusiveF, ExclusiveT, OwnInv, OwnInv', QueueHasRoom, [Next]_vars
  PROVE  [Channel!Next]_<<created, Pending, Out>>
<1>1. ASSUME NEW e \in 0 .. MaxObjects, HostPost(e) PROVE Channel!Next
  BY <1>1, PostStep DEF Channel!Next
<1>2. CASE HostReclaim
  <2>1. Pending' = Pending
    BY <1>2, ReclaimStep
  <2> QED BY <1>2, <2>1 DEF HostReclaim, ringT, objs, Out, Contents
<1>3. CASE HostAccept
  BY <1>3, AcceptStep DEF Channel!Next
<1>4. CASE IsrForward
  BY <1>4, ForwardStep DEF Channel!Next
<1>5. ASSUME NEW t \in Tasks, RecvTake(t) PROVE UNCHANGED <<created, Pending, Out>>
  BY <1>5, TakeStep
<1>6. ASSUME NEW t \in Tasks, RecvCopy(t) PROVE [Channel!Next]_<<created, Pending, Out>>
  BY <1>6, CopyStep DEF Channel!Next
<1>7. ASSUME NEW t \in Tasks, Create(t) PROVE [Channel!Next]_<<created, Pending, Out>>
  BY <1>7, CreateStep DEF Channel!Next
<1>8. ASSUME NEW t \in Tasks, SendPut(t) PROVE Channel!Next
  BY <1>8, PutStep DEF Channel!Next
<1>9. CASE \/ HostRxDone \/ (\E q \in {"from", "to"} : HostRing(q)) \/ HostIrq
           \/ HostSetIntr \/ IsrEnter \/ IsrForwardEnd \/ IsrWake \/ IsrExit
           \/ (\E t \in Tasks : Tick(t) \/ BlockLinked(t)) \/ UNCHANGED vars
  <2>1. UNCHANGED <<availF, memF, queue, created, usedT, memT, pc, op, tok, ep>>
    BY <1>9 DEF HostRxDone, HostRing, HostIrq, HostSetIntr, IsrEnter, IsrForwardEnd,
       IsrWake, IsrExit, Tick, BlockLinked, vars, ringF, ringT, objs, call
  <2> QED BY <2>1, QuietFrame DEF InCopy
<1>10. ASSUME NEW t \in Tasks,
              \/ Calls(t) \/ Lock(t) \/ Mask(t) \/ RecvReturn(t) \/ SendGet(t)
              \/ SendPlace(t) \/ SendRetry(t) \/ Kick(t) \/ Unmask(t) \/ Give(t)
       PROVE  UNCHANGED <<created, Pending, Out>>
  BY <1>10, QuietStep
<1> QED BY <1>1, <1>2, <1>3, <1>4, <1>5, <1>6, <1>7, <1>8, <1>9, <1>10
        DEF Next, Host, Isr, Task, Step

LEMMA ChannelInit == Init => Channel!Init
<1> SUFFICES ASSUME Init PROVE Channel!Init
  OBVIOUS
<1>1. /\ created = {} /\ availF = <<>> /\ usedT = <<>>
      /\ queue = [e \in Endpoints |-> <<>>] /\ op = [t \in Tasks |-> "none"]
  BY Zenon DEF Init
<1>2. ASSUME NEW e \in 0 .. MaxObjects PROVE Contents(memF, TokensF(e)) = <<>>
  <2>1. Reading(e) = <<>>
    <3>1. InHand(e) = {}
      BY <1>1 DEF InHand
    <3> QED BY <3>1 DEF Reading
  <2>2. Queued(e) = <<>>
    BY <1>1 DEF Queued
  <2>3. Offered(e) = <<>>
    <3>1. Slots(e) = {}
      BY <1>1 DEF Slots
    <3>2. Cardinality({}) = 0
      BY FS_EmptySet
    <3> QED BY <3>1, <3>2 DEF Offered, EntriesAt
  <2>4. TokensF(e) = <<>>
    BY <2>1, <2>2, <2>3 DEF TokensF
  <2> QED BY <2>4 DEF Contents
<1>3. Pending = [e \in 0 .. MaxObjects |-> <<>>]
  BY <1>2 DEF Pending
<1>4. Out = <<>>
  BY <1>1 DEF Out, Contents
<1> QED BY <1>1, <1>3, <1>4 DEF Channel!Init

\* The transport implements the channel of RpmsgChannel: to an endpoint that exists
\* every message is delivered once, in order and unaltered, and what MessageQCopy_send
\* published reaches the host once and in order, whatever the order in which host,
\* interrupt (callback_FromHost) and tasks (MessageQCopy_recv, _create, _send) step.
THEOREM TransportIsChannel == Spec => ImplementsChannel
<1>1. Init => Channel!Init
  BY ChannelInit
<1>2. /\ TypeOK /\ TypeOK' /\ ExclusiveF /\ ExclusiveT /\ OwnInv /\ OwnInv'
      /\ QueueHasRoom /\ [Next]_vars
      => [Channel!Next]_<<created, Pending, Out>>
  BY ChannelStep
<1> QED BY <1>1, <1>2, TypeCorrect, ExclusiveFHolds, ExclusiveTHolds, OwnHolds,
           QueueAlwaysHasRoom, PTL DEF Spec, ImplementsChannel, Channel!Spec
===============================================================================
