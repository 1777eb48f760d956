-------------------------- MODULE PowerManager_proofs --------------------------
(***************************************************************************)
(* Theorems about PowerManager, for any number of tasks and notifiers.     *)
(*                                                                         *)
(* HostInv: whatever lets pm_task go down although the host wants to be    *)
(* told is there only when the host has stopped, or hangs.  DueInv: a      *)
(* notifier that was due when the way became pending has run, or is still  *)
(* on the list, or in pm_task's hands.                                     *)
(***************************************************************************)
EXTENDS PowerManager, TLAPS

Handling == {"send", "list", "pop", "call", "decide"}

HostInv ==
  /\ \A w \in Ways : (ready[w] \/ asked[w]) => host # "up"
  /\ pc[Wdt] # "idle" => host # "up"
  /\ HostStopped

DueInv ==
  /\ \A w \in Ways : ~pending[w] => due[w] = {}
  /\ \A w \in Ways : \A n \in due[w] :
       n \in called \/ n \in Listed(w) \/ (pm = "call" /\ way = w /\ n \in cur)
  /\ \A w \in Ways : parsed[w] => pending[w] /\ due[w] \subseteq called
  /\ pm \in Handling => pending[way]
  /\ pm = "decide" => due[way] \subseteq called
  /\ NotifiedFirst

IInv == TypeOK /\ HostInv /\ DueInv

Elements(s) == {s[i] : i \in 1 .. Len(s)}

-------------------------------------------------------------------------------
\* What a list of notifiers holds when one is added at its end, or taken from its head.
LEMMA Added ==
  ASSUME NEW S, NEW s \in Seq(S), NEW x \in S
  PROVE  Append(s, x) \in Seq(S) /\ Elements(Append(s, x)) = Elements(s) \cup {x}
<1>1. /\ Append(s, x) \in Seq(S) /\ Len(s) \in Nat /\ Len(Append(s, x)) = Len(s) + 1
      /\ \A i \in 1 .. Len(s) : Append(s, x)[i] = s[i]
      /\ Append(s, x)[Len(s) + 1] = x
  OBVIOUS
<1>2. 1 .. Len(s) + 1 = (1 .. Len(s)) \cup {Len(s) + 1}
  BY <1>1
<1> QED BY <1>1, <1>2 DEF Elements

LEMMA Taken ==
  ASSUME NEW S, NEW s \in Seq(S), s # <<>>
  PROVE  /\ Head(s) \in S /\ Tail(s) \in Seq(S)
         /\ Elements(s) = {Head(s)} \cup Elements(Tail(s))
<1>1. /\ Len(s) \in Nat \ {0} /\ Head(s) = s[1] /\ Head(s) \in S
      /\ Tail(s) \in Seq(S) /\ Len(Tail(s)) = Len(s) - 1
  OBVIOUS
<1>2. \A i \in 1 .. Len(s) - 1 : Tail(s)[i] = s[i + 1]
  BY <1>1
<1>3. ASSUME NEW j \in 1 .. Len(s), j # 1
      PROVE  j - 1 \in 1 .. Len(s) - 1 /\ s[j] = Tail(s)[j - 1]
  BY <1>1, <1>2, <1>3
<1>4. Elements(s) \subseteq {Head(s)} \cup Elements(Tail(s))
  BY <1>1, <1>3 DEF Elements
<1>5. {Head(s)} \cup Elements(Tail(s)) \subseteq Elements(s)
  BY <1>1, <1>2 DEF Elements
<1> QED BY <1>1, <1>4, <1>5

LEMMA Empty == Elements(<<>>) = {}
BY DEF Elements

\* What TypeOK says of the lists.
LEMMA Lists ==
  ASSUME TypeOK, NEW w \in Ways
  PROVE  list[w] \in Seq(Notifiers) /\ Listed(w) = Elements(list[w])
BY DEF TypeOK, Listed, Elements

\* A step raises a way from the mailbox, the PMU or a task in one form.
LEMMA Raised ==
  ASSUME TypeOK, NEW w \in Ways, Raise(w)
  PROVE  /\ pending' \in [Ways -> BOOLEAN] /\ due' \in [Ways -> SUBSET Notifiers]
         /\ pending'[w]
         /\ \A v \in Ways : pending[v] => pending'[v] /\ due'[v] = due[v]
         /\ \A v \in Ways : ~pending[v] => \/ ~pending'[v] /\ due'[v] = due[v]
                                           \/ pending'[v] /\ due'[v] = Listed(v)
<1>1. \A v \in Ways : Listed(v) \subseteq Notifiers
  BY DEF TypeOK
<1>2. pending \in [Ways -> BOOLEAN] /\ due \in [Ways -> SUBSET Notifiers]
  BY DEF TypeOK
<1>3. pending' = [pending EXCEPT ![w] = TRUE]
  BY DEF Raise
<1>4. due' = [due EXCEPT ![w] = IF pending[w] THEN due[w] ELSE Listed(w)]
  BY DEF Raise
<1>5. \A v \in Ways : due'[v] = IF v = w /\ ~pending[v] THEN Listed(v) ELSE due[v]
  BY <1>2, <1>4
<1>6. \A v \in Ways : pending'[v] = (pending[v] \/ v = w)
  BY <1>2, <1>3
<1>7. pending' \in [Ways -> BOOLEAN] /\ due' \in [Ways -> SUBSET Notifiers]
  BY <1>1, <1>2, <1>3, <1>4
<1> QED BY <1>5, <1>6, <1>7

-------------------------------------------------------------------------------
\* What TypeOK says of the lists when a notifier has been added to one of them, or been
\* taken from it.
LEMMA ListType ==
  ASSUME TypeOK, NEW w \in Ways, NEW s \in Seq(Notifiers), NEW r,
         Elements(s) \subseteq {n \in Notifiers : Of[n] = w /\ r[n] = "in"},
         \A n \in Notifiers : reg[n] = "in" => r[n] = "in",
         list' = [list EXCEPT ![w] = s], reg' = r
  PROVE  /\ list' \in [Ways -> Seq(Notifiers)]
         /\ \A v \in Ways : Listed(v)' \subseteq {n \in Notifiers : Of[n] = v /\ reg'[n] = "in"}
<1>1. list' \in [Ways -> Seq(Notifiers)] /\ list'[w] = s
      /\ \A v \in Ways \ {w} : list'[v] = list[v]
  BY DEF TypeOK
<1>2. Listed(w)' = Elements(s)
  BY <1>1 DEF Listed, Elements
<1>3. \A v \in Ways \ {w} : Listed(v)' = Listed(v)
  BY <1>1 DEF Listed
<1>4. \A v \in Ways : Listed(v) \subseteq {n \in Notifiers : Of[n] = v /\ reg[n] = "in"}
  BY DEF TypeOK
<1> QED BY <1>1, <1>2, <1>3, <1>4

\* A flag of one way is set or cleared.
LEMMA Flag ==
  ASSUME NEW f \in [Ways -> BOOLEAN], NEW w \in Ways
  PROVE  /\ [f EXCEPT ![w] = TRUE] \in [Ways -> BOOLEAN]
         /\ [f EXCEPT ![w] = FALSE] \in [Ways -> BOOLEAN]
OBVIOUS

LEMMA FlagType ==
  ASSUME TypeOK
  PROVE  /\ pending \in [Ways -> BOOLEAN] /\ asked \in [Ways -> BOOLEAN]
         /\ notify \in [Ways -> BOOLEAN] /\ ready \in [Ways -> BOOLEAN]
         /\ told \in [Ways -> BOOLEAN] /\ parsed \in [Ways -> BOOLEAN]
BY DEF TypeOK

\* Every variable keeps its type.
LEMMA TypeStep ==
  ASSUME TypeOK, [Next]_vars
  PROVE  TypeOK'
<1> DEFINE ListOK == /\ list \in [Ways -> Seq(Notifiers)]
                     /\ \A w \in Ways : Listed(w) \subseteq
                                          {n \in Notifiers : Of[n] = w /\ reg[n] = "in"}
<1>0. ListOK
  BY DEF TypeOK
<1>L. ASSUME UNCHANGED <<list, reg>> PROVE ListOK'
  BY <1>0, <1>L DEF Listed
<1> USE DEF Ways, flags, task, ext, Down, StaysOn
<1>1. CASE Poll
  <2>1. \/ UNCHANGED <<mail, notify>>
        \/ \E w \in Ways : mail' = mail \ {w} /\ notify' = [notify EXCEPT ![w] = TRUE]
    BY <1>1 DEF Poll, TypeOK
  <2>2. mail' \subseteq Ways
    BY <2>1 DEF TypeOK
  <2>3. notify' \in [Ways -> BOOLEAN]
    BY <2>1, Flag, FlagType
  <2> QED BY <1>1, <2>2, <2>3, <1>L DEF Poll, TypeOK
<1>2. CASE Check
  BY <1>2, <1>L DEF Check, Leave, TypeOK
<1>3. CASE Send
  BY <1>3, <1>L DEF Send, TypeOK
<1>4. CASE List
  BY <1>4, <1>L DEF List, TypeOK
<1>5. CASE Pop
  <2>1. CASE list[way] # <<>>
    <3>1. way \in Ways
      BY DEF TypeOK
    <3>2. list[way] \in Seq(Notifiers) /\ Listed(way) = Elements(list[way])
      BY <3>1, Lists
    <3>3. Head(list[way]) \in Notifiers /\ Tail(list[way]) \in Seq(Notifiers)
          /\ Elements(Tail(list[way])) \subseteq Listed(way)
      BY <2>1, <3>2, Taken
    <3>4. list' = [list EXCEPT ![way] = Tail(list[way])] /\ reg' = reg
      BY <1>5, <2>1 DEF Pop
    <3>5. Elements(Tail(list[way])) \subseteq {n \in Notifiers : Of[n] = way /\ reg[n] = "in"}
      BY <3>1, <3>3, <1>0
    <3>6. ListOK'
      BY <3>1, <3>3, <3>4, <3>5, ListType
    <3> QED BY <1>5, <2>1, <3>3, <3>6 DEF Pop, TypeOK
  <2>2. CASE list[way] = <<>>
    <3>1. parsed' = [parsed EXCEPT ![way] = TRUE] /\ UNCHANGED <<cur, list, reg>>
      BY <1>5, <2>2 DEF Pop
    <3>2. parsed' \in [Ways -> BOOLEAN]
      BY <3>1 DEF TypeOK
    <3> QED BY <1>5, <2>2, <3>1, <3>2, <1>L DEF Pop, TypeOK
  <2> QED BY <2>1, <2>2
<1>6. CASE CallBack
  BY <1>6, <1>L DEF CallBack, TypeOK
<1>7. CASE Decide
  BY <1>7, <1>L DEF Decide, Leave, TypeOK
<1>8. ASSUME NEW t \in Callers, SetPending(t)
      PROVE  TypeOK'
  <2>1. call[t] \in Ways /\ Raise(call[t])
    BY <1>8 DEF SetPending, TypeOK
  <2>2. pending' \in [Ways -> BOOLEAN] /\ due' \in [Ways -> SUBSET Notifiers]
    BY <2>1, Raised
  <2> QED BY <1>8, <2>2, <1>L DEF SetPending, TypeOK
<1>9. ASSUME NEW t \in Callers, SetAsked(t)
      PROVE  TypeOK'
  <2>1. (t = Wdt) \in BOOLEAN /\ call[t] \in Ways
    BY DEF TypeOK
  <2>2. asked' \in [Ways -> BOOLEAN]
    BY <2>1, <1>9 DEF SetAsked, TypeOK
  <2>3. lost' \in BOOLEAN
    BY <1>9 DEF SetAsked, TypeOK
  <2> QED BY <1>9, <2>2, <2>3, <1>L DEF SetAsked, TypeOK
<1>10. ASSUME NEW t \in Callers, NEW w \in Ways, Ask(t, w)
       PROVE  TypeOK'
  BY <1>10, <1>L DEF Ask, TypeOK
<1>11. ASSUME NEW n \in Notifiers, Register(n)
       PROVE  TypeOK'
  <2>1. reg' \in [Notifiers -> {"no", "checked", "in", "refused"}]
        /\ \A m \in Notifiers : reg[m] = "in" => reg'[m] = "in"
    BY <1>11 DEF Register, TypeOK
  <2>2. list' = list
    BY <1>11 DEF Register
  <2>3. ListOK'
    BY <2>1, <2>2, <1>0 DEF Listed
  <2> QED BY <1>11, <2>1, <2>3 DEF Register, TypeOK
<1>12. ASSUME NEW n \in Notifiers, Insert(n)
       PROVE  TypeOK'
  <2>1. Of[n] \in Ways
    BY PmAssumption
  <2>2. list[Of[n]] \in Seq(Notifiers) /\ Listed(Of[n]) = Elements(list[Of[n]])
    BY <2>1, Lists
  <2>3. /\ Append(list[Of[n]], n) \in Seq(Notifiers)
        /\ Elements(Append(list[Of[n]], n)) = Listed(Of[n]) \cup {n}
    BY <2>2, Added
  <2>4. /\ reg' \in [Notifiers -> {"no", "checked", "in", "refused"}] /\ reg'[n] = "in"
        /\ \A m \in Notifiers : reg[m] = "in" => reg'[m] = "in"
    BY <1>12 DEF Insert, TypeOK
  <2>5. Elements(Append(list[Of[n]], n))
          \subseteq {m \in Notifiers : Of[m] = Of[n] /\ reg'[m] = "in"}
    BY <2>1, <2>3, <2>4, <1>0
  <2>6. list' = [list EXCEPT ![Of[n]] = Append(list[Of[n]], n)]
    BY <1>12 DEF Insert
  <2>7. ListOK'
    BY <2>1, <2>3, <2>4, <2>5, <2>6, ListType
  <2> QED BY <1>12, <2>4, <2>7 DEF Insert, TypeOK
<1>13. CASE PmuIrq
  <2>1. pending' \in [Ways -> BOOLEAN] /\ due' \in [Ways -> SUBSET Notifiers]
    BY <1>13, Raised DEF PmuIrq, TypeOK
  <2>2. asked' = asked \/ asked' = [asked EXCEPT !["sby"] = FALSE]
    BY <1>13 DEF PmuIrq
  <2>3. asked' \in [Ways -> BOOLEAN]
    BY <2>2, Flag, FlagType
  <2>4. off' \in Ways \cup {"on"} /\ {prepared', lost'} \subseteq BOOLEAN
    BY <1>13 DEF PmuIrq, TypeOK
  <2>5. UNCHANGED <<notify, ready, task, pc, call, reg, ext>>
    BY <1>13 DEF PmuIrq
  <2> QED BY <2>1, <2>3, <2>4, <2>5, <1>L DEF TypeOK
<1>14. ASSUME NEW k \in Kinds, PmCb(k)
       PROVE  TypeOK'
  <2>1. pending' \in [Ways -> BOOLEAN] /\ due' \in [Ways -> SUBSET Notifiers]
    BY <1>14, Raised DEF PmCb, TypeOK
  <2>2. /\ asked' = asked \/ \E w \in Ways : asked' = [asked EXCEPT ![w] = TRUE]
        /\ ready' = ready \/ ready' = [v \in Ways |-> TRUE]
    BY <1>14 DEF PmCb
  <2>4. asked' \in [Ways -> BOOLEAN]
    BY <2>2, Flag, FlagType
  <2>5. ready' \in [Ways -> BOOLEAN]
    BY <2>2, FlagType
  <2>3. magic' \in BOOLEAN
    BY <1>14 DEF PmCb, TypeOK
  <2> QED BY <1>14, <2>1, <2>3, <2>4, <2>5, <1>L DEF PmCb, TypeOK
<1>15. ASSUME NEW w \in Ways, HostRegister(w)
       PROVE  TypeOK'
  BY <1>15, <1>L DEF HostRegister, TypeOK
<1>16. CASE HostHangs
  BY <1>16, <1>L DEF HostHangs, TypeOK
<1>17. CASE UNCHANGED vars
  BY <1>17, <1>L DEF vars, TypeOK
<1> QED BY <1>1, <1>2, <1>3, <1>4, <1>5, <1>6, <1>7, <1>8, <1>9, <1>10, <1>11, <1>12,
           <1>13, <1>14, <1>15, <1>16, <1>17 DEF Next, Pm, Asks

-------------------------------------------------------------------------------
\* Steps that leave alone what HostInv speaks of, but may register the host or start a
\* caller; the machine is on before every step.
LEMMA HostQuiet ==
  ASSUME TypeOK, HostInv, UNCHANGED <<ready, asked, off>>, off = "on",
         host' = host \/ host' # "up",
         pc'[Wdt] # "idle" => pc[Wdt] # "idle" \/ host = "hung"
  PROVE  HostInv'
BY DEF HostInv, HostStopped, Ways

\* What lets the machine go down is there only when the host is not up.
LEMMA HostStep ==
  ASSUME TypeOK, HostInv, [Next]_vars
  PROVE  HostInv'
<1> USE DEF flags, ext, Down, StaysOn
<1>0. ASSUME UNCHANGED <<ready, asked, off, host, pc>>, off = "on"
      PROVE  HostInv'
  BY <1>0, HostQuiet
<1>1. CASE off = "on" /\ (Poll \/ Check \/ Send \/ List \/ Pop \/ CallBack)
  <2>1. UNCHANGED <<ready, asked, off, host, pc>>
    BY <1>1 DEF Poll, Check, Send, List, Pop, CallBack
  <2> QED BY <1>0, <1>1, <2>1
<1>2. CASE off = "on" /\ Decide
  <2>1. UNCHANGED <<ready, asked, notify, host, pc>>
    BY <1>2 DEF Decide
  <2>2. CASE off' = off
    BY <1>0, <1>2, <2>1, <2>2
  <2>3. CASE off' = way /\ ((notify[way] /\ ready[way]) \/ asked[way] \/ ~notify[way])
    BY <2>1, <2>3 DEF HostInv, HostStopped, TypeOK
  <2> QED BY <1>2, <2>2, <2>3 DEF Decide
<1>3. ASSUME NEW t \in Callers, off = "on" /\ SetPending(t)
      PROVE  HostInv'
  <2>1. /\ pc' = [pc EXCEPT ![t] = "asked"] /\ pc[t] = "pending"
        /\ pc \in [Callers -> {"idle", "pending", "asked"}]
    BY <1>3 DEF SetPending, TypeOK
  <2>2. pc'[Wdt] # "idle" => pc[Wdt] # "idle"
    BY <2>1 DEF Callers
  <2> QED BY <1>3, <2>2, HostQuiet DEF SetPending
<1>4. ASSUME NEW t \in Callers, off = "on" /\ SetAsked(t)
      PROVE  HostInv'
  <2>1. /\ pc' = [pc EXCEPT ![t] = "idle"] /\ pc[t] = "asked"
        /\ asked' = [asked EXCEPT ![call[t]] = (t = Wdt)]
        /\ UNCHANGED <<notify, ready, host, off>>
    BY <1>4 DEF SetAsked
  <2>2. pc'[Wdt] # "idle" => pc[Wdt] # "idle"
    BY <2>1 DEF Callers, TypeOK
  <2>3. t = Wdt => host # "up"
    BY <2>1 DEF HostInv
  <2>4. \A w \in Ways : asked'[w] => asked[w] \/ t = Wdt
    BY <2>1, FlagType
  <2> QED BY <1>4, <2>1, <2>2, <2>3, <2>4 DEF HostInv, HostStopped, Ways
<1>5. ASSUME NEW t \in Callers, NEW w \in Ways, off = "on" /\ Ask(t, w)
      PROVE  HostInv'
  <2>1. pc'[Wdt] # "idle" => pc[Wdt] # "idle" \/ host = "hung"
    BY <1>5 DEF Ask, Callers, TypeOK
  <2> QED BY <1>5, <2>1, HostQuiet DEF Ask
<1>6. ASSUME NEW n \in Notifiers, off = "on" /\ (Register(n) \/ Insert(n))
      PROVE  HostInv'
  BY <1>0, <1>6 DEF Register, Insert
<1>7. CASE off = "on" /\ PmuIrq
  <2>1. UNCHANGED <<notify, ready, host, pc>>
    BY <1>7 DEF PmuIrq
  <2>2. \A w \in Ways : asked'[w] => asked[w]
    BY <1>7, FlagType DEF PmuIrq
  <2>3. off' = off \/ (off' = "sby" /\ (~notify["sby"] \/ asked["sby"]))
    BY <1>7 DEF PmuIrq
  <2> QED BY <1>7, <2>1, <2>2, <2>3 DEF HostInv, HostStopped, Ways
<1>8. ASSUME NEW k \in Kinds, off = "on" /\ PmCb(k)
      PROVE  HostInv'
  BY <1>8 DEF PmCb, HostInv, HostStopped
<1>9. ASSUME NEW w \in Ways, off = "on" /\ HostRegister(w)
      PROVE  HostInv'
  BY <1>0, <1>9 DEF HostRegister
<1>10. CASE off = "on" /\ HostHangs
  BY <1>10, HostQuiet DEF HostHangs
<1>11. CASE UNCHANGED vars
  BY <1>11 DEF vars, HostInv, HostStopped
<1> QED BY <1>1, <1>2, <1>3, <1>4, <1>5, <1>6, <1>7, <1>8, <1>9, <1>10, <1>11
        DEF Next, Pm, Asks

-------------------------------------------------------------------------------
\* Steps outside pm_task that leave the machine on: a way may be raised, a list may grow.
LEMMA DueOutside ==
  ASSUME TypeOK, DueInv, off = "on", off' = off,
         UNCHANGED <<told, parsed, pm, way, cur, called>>,
         UNCHANGED <<pending, due>> \/ \E w \in Ways : Raise(w),
         \A w \in Ways : Listed(w) \subseteq Listed(w)'
  PROVE  DueInv'
<1>1. /\ \A v \in Ways : pending[v] => pending'[v] /\ due'[v] = due[v]
      /\ \A v \in Ways : ~pending[v] => \/ ~pending'[v] /\ due'[v] = due[v]
                                        \/ pending'[v] /\ due'[v] = Listed(v)
  BY Raised
<1>2. \A w \in Ways : ~pending'[w] => due'[w] = {}
  BY <1>1 DEF DueInv
<1>3. \A w \in Ways : \A n \in due'[w] :
        n \in called \/ n \in Listed(w)' \/ (pm = "call" /\ way = w /\ n \in cur)
  BY <1>1 DEF DueInv
<1>4. \A w \in Ways : parsed[w] => pending'[w] /\ due'[w] \subseteq called
  BY <1>1 DEF DueInv
<1>5. way \in Ways
  BY DEF TypeOK
<1>6. /\ pm \in Handling => pending'[way]
      /\ pm = "decide" => due'[way] \subseteq called
  BY <1>1, <1>5 DEF DueInv, Handling
<1>7. NotifiedFirst'
  BY DEF NotifiedFirst, Ways
<1> QED BY <1>2, <1>3, <1>4, <1>6, <1>7 DEF DueInv

\* Steps of pm_task that take nothing from a list.
LEMMA DueControl ==
  ASSUME TypeOK, DueInv, off = "on", off' = off, pm # "call",
         UNCHANGED <<pending, due, list, parsed, called>>,
         pm' \in Handling => pending'[way'],
         pm' = "decide" => due'[way'] \subseteq called
  PROVE  DueInv'
<1>1. \A w \in Ways : \A n \in due'[w] : n \in called' \/ n \in Listed(w)'
  BY DEF DueInv, Listed
<1>2. NotifiedFirst'
  BY DEF NotifiedFirst, Ways
<1> QED BY <1>1, <1>2 DEF DueInv

\* A notifier is taken from the list, run, or the list is found empty.
LEMMA DuePop ==
  ASSUME TypeOK, DueInv, off = "on", Pop
  PROVE  DueInv'
<1>0. way \in Ways /\ pm = "pop" /\ pending[way] /\ pending' = pending /\ due' = due
      /\ called' = called /\ way' = way /\ off' = off
  BY DEF Pop, DueInv, Handling, flags, StaysOn, TypeOK
<1>1. list[way] \in Seq(Notifiers) /\ Listed(way) = Elements(list[way])
  BY <1>0, Lists
<1>2. CASE list[way] # <<>>
  <2>1. /\ cur' = {Head(list[way])} /\ list' = [list EXCEPT ![way] = Tail(list[way])]
        /\ pm' = "call" /\ parsed' = parsed
    BY <1>2 DEF Pop
  <2>2. Listed(way) = {Head(list[way])} \cup Elements(Tail(list[way]))
    BY <1>1, <1>2, Taken
  <2>3. list'[way] = Tail(list[way]) /\ \A w \in Ways \ {way} : list'[w] = list[w]
    BY <1>0, <2>1 DEF TypeOK
  <2>4. Listed(way)' = Elements(Tail(list[way]))
        /\ \A w \in Ways \ {way} : Listed(w)' = Listed(w)
    BY <1>0, <2>3 DEF Listed, Elements
  <2>5. \A w \in Ways : \A n \in due'[w] :
          n \in called' \/ n \in Listed(w)' \/ (pm' = "call" /\ way' = w /\ n \in cur')
    BY <1>0, <2>1, <2>2, <2>4 DEF DueInv
  <2>6. NotifiedFirst'
    BY <1>0 DEF NotifiedFirst, Ways
  <2> QED BY <1>0, <2>1, <2>5, <2>6 DEF DueInv
<1>3. CASE list[way] = <<>>
  <2>1. /\ parsed' = [parsed EXCEPT ![way] = TRUE] /\ pm' = "decide"
        /\ cur' = cur /\ list' = list
    BY <1>3 DEF Pop
  <2>2. Listed(way) = {}
    BY <1>1, <1>3, Empty
  <2>3. due[way] \subseteq called
    BY <1>0, <2>2 DEF DueInv
  <2>4. \A w \in Ways : parsed'[w] => pending'[w] /\ due'[w] \subseteq called'
    BY <1>0, <2>1, <2>3 DEF DueInv, TypeOK
  <2>5. \A w \in Ways : \A n \in due'[w] : n \in called' \/ n \in Listed(w)'
    BY <1>0, <2>1 DEF DueInv, Listed
  <2>6. NotifiedFirst'
    BY <1>0 DEF NotifiedFirst, Ways
  <2> QED BY <1>0, <2>1, <2>3, <2>4, <2>5, <2>6 DEF DueInv
<1> QED BY <1>2, <1>3

LEMMA DueCallBack ==
  ASSUME TypeOK, DueInv, off = "on", CallBack
  PROVE  DueInv'
<1>1. /\ pm = "call" /\ pm' = "pop" /\ called' = called \cup cur /\ way \in Ways
      /\ UNCHANGED <<pending, due, list, parsed, way, off>> /\ pending[way]
  BY DEF CallBack, flags, StaysOn, TypeOK, DueInv, Handling
<1>2. \A w \in Ways : \A n \in due'[w] : n \in called' \/ n \in Listed(w)'
  BY <1>1 DEF DueInv, Listed
<1>3. NotifiedFirst'
  BY <1>1 DEF NotifiedFirst, Ways
<1> QED BY <1>1, <1>2, <1>3 DEF DueInv

\* What was due has run, is on the list, or is being run.
LEMMA DueStep ==
  ASSUME TypeOK, DueInv, [Next]_vars
  PROVE  DueInv'
<1> USE DEF flags, task, ext, Down, StaysOn
<1>0. way \in Ways
  BY DEF TypeOK
<1>1. CASE off = "on" /\ Poll
  BY <1>1, DueControl DEF Poll, Handling
<1>2. CASE off = "on" /\ Check
  <2>1. pm' \in Handling => pending'[way']
    BY <1>2 DEF Check, Leave, Handling
  <2> QED BY <1>2, <2>1, DueControl DEF Check, Leave
<1>3. CASE off = "on" /\ Send
  <2>1. pending[way]
    BY <1>3 DEF Send, DueInv, Handling
  <2> QED BY <1>3, <2>1, DueControl DEF Send
<1>4. CASE off = "on" /\ List
  <2>1. pending[way]
    BY <1>4 DEF List, DueInv, Handling
  <2>2. ASSUME pm' = "decide"
        PROVE  due[way] \subseteq called
    <3>1. parsed[way] \/ list[way] = <<>>
      BY <1>4, <2>2 DEF List
    <3>2. list[way] = <<>> => Listed(way) = {}
      BY <1>0, Lists, Empty
    <3> QED BY <1>0, <1>4, <3>1, <3>2 DEF List, DueInv
  <2> QED BY <1>4, <2>1, <2>2, DueControl DEF List
<1>5. CASE off = "on" /\ Pop
  BY <1>5, DuePop
<1>6. CASE off = "on" /\ CallBack
  BY <1>6, DueCallBack
<1>7. CASE off = "on" /\ Decide
  <2>1. CASE off' = off
    <3>1. pm' \notin Handling
      BY <1>7, <1>0, <2>1 DEF Decide, Leave, Handling, Ways
    <3> QED BY <1>7, <2>1, <3>1, DueControl DEF Decide, Handling
  <2>2. CASE off' # off
    <3>1. /\ off' = way /\ due[way] \subseteq called /\ pending[way] /\ pm = "decide"
          /\ UNCHANGED <<pending, due, list, parsed, called, pm, way, cur>>
      BY <1>7, <2>2 DEF Decide, DueInv, Handling
    <3>2. NotifiedFirst'
      BY <3>1 DEF NotifiedFirst
    <3> QED BY <3>1, <3>2 DEF DueInv, Listed
  <2> QED BY <2>1, <2>2
<1>8. ASSUME NEW t \in Callers, off = "on" /\ SetPending(t)
      PROVE  DueInv'
  <2>1. call[t] \in Ways /\ Raise(call[t])
    BY <1>8 DEF SetPending, TypeOK
  <2>2. \A w \in Ways : Listed(w)' = Listed(w)
    BY <1>8 DEF SetPending, Listed
  <2> QED BY <1>8, <2>1, <2>2, DueOutside DEF SetPending
<1>9. ASSUME UNCHANGED <<pending, due, told, parsed, pm, way, cur, called, list, off>>,
             off = "on"
      PROVE  DueInv'
  <2>1. \A w \in Ways : Listed(w)' = Listed(w)
    BY <1>9 DEF Listed
  <2> QED BY <1>9, <2>1, DueOutside
<1>10. ASSUME NEW t \in Callers, off = "on" /\ SetAsked(t)
       PROVE  DueInv'
  BY <1>9, <1>10 DEF SetAsked
<1>11. ASSUME NEW t \in Callers, NEW w \in Ways, off = "on" /\ Ask(t, w)
       PROVE  DueInv'
  BY <1>9, <1>11 DEF Ask
<1>12. ASSUME NEW n \in Notifiers, off = "on" /\ Register(n)
       PROVE  DueInv'
  BY <1>9, <1>12 DEF Register
<1>13. ASSUME NEW n \in Notifiers, off = "on" /\ Insert(n)
       PROVE  DueInv'
  <2>1. Of[n] \in Ways /\ list' = [list EXCEPT ![Of[n]] = Append(list[Of[n]], n)]
    BY <1>13, PmAssumption DEF Insert
  <2>2. list[Of[n]] \in Seq(Notifiers) /\ Listed(Of[n]) = Elements(list[Of[n]])
    BY <2>1, Lists
  <2>3. Elements(Append(list[Of[n]], n)) = Listed(Of[n]) \cup {n}
    BY <2>2, Added
  <2>4. list'[Of[n]] = Append(list[Of[n]], n) /\ \A w \in Ways \ {Of[n]} : list'[w] = list[w]
    BY <2>1 DEF TypeOK
  <2>5. Listed(Of[n])' = Elements(Append(list[Of[n]], n))
    BY <2>4 DEF Listed, Elements
  <2>6. \A w \in Ways \ {Of[n]} : Listed(w)' = Listed(w)
    BY <2>4 DEF Listed
  <2>7. \A w \in Ways : Listed(w) \subseteq Listed(w)'
    BY <2>3, <2>5, <2>6
  <2> QED BY <1>13, <2>7, DueOutside DEF Insert
<1>14. CASE off = "on" /\ PmuIrq
  <2>1. \A w \in Ways : Listed(w)' = Listed(w)
    BY <1>14 DEF PmuIrq, Listed
  <2>2. CASE Down("sby", FALSE) /\ UNCHANGED <<pending, asked, due>>
    <3>1. NotifiedFirst'
      BY <2>2 DEF NotifiedFirst
    <3>2. UNCHANGED <<pending, due, parsed, pm, way, cur, called>>
      BY <1>14, <2>2 DEF PmuIrq
    <3> QED BY <2>1, <3>1, <3>2 DEF DueInv
  <2>3. CASE Raise("sby") /\ StaysOn
    BY <1>14, <2>1, <2>3, DueOutside DEF PmuIrq, Ways
  <2> QED BY <1>14, <2>2, <2>3 DEF PmuIrq
<1>15. ASSUME NEW k \in Kinds, off = "on" /\ PmCb(k)
       PROVE  DueInv'
  <2>1. \A w \in Ways : Listed(w)' = Listed(w)
    BY <1>15 DEF PmCb, Listed
  <2>2. UNCHANGED <<pending, due>> \/ \E w \in Ways : Raise(w)
    BY <1>15 DEF PmCb, Ways
  <2> QED BY <1>15, <2>1, <2>2, DueOutside DEF PmCb
<1>16. ASSUME NEW w \in Ways, off = "on" /\ HostRegister(w)
       PROVE  DueInv'
  BY <1>9, <1>16 DEF HostRegister
<1>17. CASE off = "on" /\ HostHangs
  BY <1>9, <1>17 DEF HostHangs
<1>18. CASE UNCHANGED vars
  BY <1>18 DEF vars, DueInv, NotifiedFirst, Listed
<1> QED BY <1>1, <1>2, <1>3, <1>4, <1>5, <1>6, <1>7, <1>8, <1>10, <1>11, <1>12, <1>13,
           <1>14, <1>15, <1>16, <1>17, <1>18 DEF Next, Pm, Asks

-------------------------------------------------------------------------------
LEMMA Start == Init => IInv
<1> SUFFICES ASSUME Init PROVE IInv
  OBVIOUS
<1>1. \A w \in Ways : list[w] = <<>> /\ Listed(w) = {}
  BY DEF Init, Listed
<1>2. list \in [Ways -> Seq(Notifiers)]
  BY DEF Init
<1>3. TypeOK
  BY <1>1, <1>2 DEF Init, TypeOK, No, Ways
<1>4. HostInv
  BY PmAssumption DEF Init, HostInv, HostStopped, No, Ways, Callers
<1>5. DueInv
  BY DEF Init, DueInv, NotifiedFirst, No, Ways, Handling
<1> QED BY <1>3, <1>4, <1>5 DEF IInv

LEMMA Invariant == Spec => []IInv
<1>1. IInv /\ [Next]_vars => IInv'
  BY TypeStep, HostStep, DueStep DEF IInv
<1> QED BY <1>1, Start, PTL DEF Spec

\* Type correctness: every variable keeps its type, and a list of notifiers holds only
\* notifiers that have been registered on it (pm_register_standby, pm_register_reboot).
THEOREM TypeCorrect == Spec => []TypeOK
<1>1. IInv => TypeOK
  BY DEF IInv
<1> QED BY <1>1, Invariant, PTL

\* However many tasks ask for stand-by or a reboot, and however their calls overlap with
\* the PMU's interrupt, the watchdog and the host's messages: a host that asked to be
\* told is never cut off while it runs.
THEOREM HostNeverCutOff == Spec => []HostStopped
<1>1. IInv => HostStopped
  BY DEF IInv, HostInv
<1> QED BY <1>1, Invariant, PTL

\* However many notifiers are registered, and however late: pm_task takes the machine
\* down only when every notifier that was registered when the way became pending has run.
THEOREM NotifiersRun == Spec => []NotifiedFirst
<1>1. IInv => NotifiedFirst
  BY DEF IInv, DueInv
<1> QED BY <1>1, Invariant, PTL
===============================================================================
