----------------------------- MODULE PowerManager -----------------------------
(***************************************************************************)
(* The power manager (drivers/sta_fwlib/src/sta_pm.c, the ATF build).      *)
(* Stand-by and reboot, the two Ways down, are asked for by tasks (the     *)
(* console, the A7 watchdog's task), by the PMU's interrupt and, through   *)
(* the mailbox interrupt, by the host; pm_task polls for them, tells the   *)
(* host and the notifiers of the M3, and takes the machine down when the   *)
(* host has answered.  The flags are plain variables without a lock.       *)
(***************************************************************************)
EXTENDS Naturals, Sequences, FiniteSets

CONSTANTS Askers,      \* tasks that call pm_goto_sby and pm_reboot for the M3 (the console)
          Wdt,         \* the A7 watchdog's task
          Notifiers,   \* struct pm_notifier's
          Of,          \* Of[n]: the list notifier n is registered on
          MayHang      \* TRUE: the host may stop answering

Ways    == {"sby", "reboot"}
Callers == Askers \cup {Wdt}

ASSUME PmAssumption == /\ Of \in [Notifiers -> Ways] /\ Wdt \notin Askers
                       /\ MayHang \in BOOLEAN

VARIABLES
  pending,     \* [Ways -> BOOLEAN]: pm_stat.goto_sby, pm_stat.reboot
  asked,       \* host_stat.goto_sby, host_stat.reboot: the host is who asked
  notify,      \* host_stat.sby_notify, reboot_notify: the host wants to be told
  ready,       \* host_stat.sby_ready, reboot_ready
  told,        \* host_notified of either handler
  parsed,      \* notifier_list_parsed of either handler
  list,        \* sby_notifier_list, reboot_notifier_list
  pm,          \* pm_task's control point
  way,         \* the handler it is in
  cur,         \* the notifier it has taken from the list (none or one)
  called,      \* the notifiers whose call_back has run
  lost,        \* history: SetAsked has overwritten that the host asked
  due,         \* history: the notifiers registered when the way became pending
  pc, call,    \* the callers' control points and what they ask for
  reg,         \* how far the registration of a notifier is
  mail,        \* PM_MSG_REGISTER_... messages on their way
  host,        \* "up", "hung" or "down"
  inbox,       \* PM_MSG_SBY and PM_MSG_REBOOT that reached the host
  magic,       \* PM_STR_MAGIC is in the backup RAM: the next boot resumes from DDR
  off,         \* "on", or the way the machine went down
  prepared     \* pm_shutdown_prepare has run: DDR keeps its contents

flags == <<pending, asked, notify, ready>>
task  == <<told, parsed, list, pm, way, cur, called>>
ext   == <<mail, host, inbox, magic>>
vars  == <<flags, task, lost, due, pc, call, reg, ext, off, prepared>>

No   == [w \in Ways |-> FALSE]
Init ==
  /\ pending = No /\ asked = No /\ notify = No /\ ready = No
  /\ told = No /\ parsed = No /\ list = [w \in Ways |-> <<>>]
  /\ pm = "poll" /\ way = "sby" /\ cur = {} /\ called = {}
  /\ lost = FALSE /\ due = [w \in Ways |-> {}]
  /\ pc = [t \in Callers |-> "idle"] /\ call = [t \in Callers |-> "sby"]
  /\ reg = [n \in Notifiers |-> "no"]
  /\ mail = {} /\ host = "up" /\ inbox = {} /\ magic = FALSE
  /\ off = "on" /\ prepared = FALSE

Listed(w)   == {list[w][i] : i \in 1 .. Len(list[w])}
Free        == ~pending["sby"] /\ ~pending["reboot"]
\* The way becomes pending.
Raise(w)    == /\ pending' = [pending EXCEPT ![w] = TRUE]
               /\ due' = [due EXCEPT ![w] = IF pending[w] THEN @ ELSE Listed(w)]
\* The machine goes down, with or without pm_shutdown_prepare.
Down(w, p)  == off' = w /\ prepared' = p /\ UNCHANGED lost
StaysOn     == UNCHANGED <<off, prepared, lost>>

-------------------------------------------------------------------------------
\* pm_goto_sby and pm_reboot in a task: both flags are looked at, then the way's flag and
\* who asked are set, and interrupts and tasks come between.  The console passes
\* bypass_host = FALSE, the watchdog TRUE, when the A7 does not serve its watchdog.
Ask(t, w) ==
  /\ pc[t] = "idle" /\ Free /\ (t = Wdt => host = "hung" /\ w = "reboot")
  /\ pc' = [pc EXCEPT ![t] = "pending"] /\ call' = [call EXCEPT ![t] = w]
  /\ UNCHANGED <<flags, task, due, reg, ext>> /\ StaysOn

SetPending(t) ==
  /\ pc[t] = "pending" /\ Raise(call[t]) /\ pc' = [pc EXCEPT ![t] = "asked"]
  /\ UNCHANGED <<asked, notify, ready, task, call, reg, ext>> /\ StaysOn

SetAsked(t) ==
  /\ pc[t] = "asked" /\ asked' = [asked EXCEPT ![call[t]] = (t = Wdt)]
  /\ lost' = (lost \/ (asked[call[t]] /\ t # Wdt))
  /\ pc' = [pc EXCEPT ![t] = "idle"] /\ call' = [call EXCEPT ![t] = "sby"]
  /\ UNCHANGED <<pending, notify, ready, task, due, reg, ext, off, prepared>>

\* pm_register_standby, pm_register_reboot: refused once a way is pending; the list is
\* changed in a critical section, after the look.
Register(n) ==
  /\ reg[n] = "no" /\ reg' = [reg EXCEPT ![n] = IF Free THEN "checked" ELSE "refused"]
  /\ UNCHANGED <<flags, task, due, pc, call, ext>> /\ StaysOn

Insert(n) ==
  /\ reg[n] = "checked" /\ reg' = [reg EXCEPT ![n] = "in"]
  /\ list' = [list EXCEPT ![Of[n]] = Append(@, n)]
  /\ UNCHANGED <<flags, told, parsed, pm, way, cur, called, due, pc, call, ext>> /\ StaysOn

-------------------------------------------------------------------------------
\* Mutant of PmuIrq: the host is not looked at.
PmuIrqAlone ==
  /\ IF list["sby"] = <<>>
       THEN Down("sby", FALSE) /\ UNCHANGED <<pending, asked, due>>
       ELSE /\ Free /\ Raise("sby") /\ asked' = [asked EXCEPT !["sby"] = FALSE] /\ StaysOn
  /\ UNCHANGED <<notify, ready, task, pc, call, reg, ext>>

\* PMU_IRQHandler: with nobody to wait for, stand-by from the interrupt itself; else the
\* way is made pending for pm_task.
PmuIrq ==
  /\ IF list["sby"] = <<>> /\ (~notify["sby"] \/ asked["sby"])
       THEN Down("sby", FALSE) /\ UNCHANGED <<pending, asked, due>>
       ELSE /\ Free /\ Raise("sby") /\ asked' = [asked EXCEPT !["sby"] = FALSE] /\ StaysOn
  /\ UNCHANGED <<notify, ready, task, pc, call, reg, ext>>

\* Mutant of PmCb: only the way the message names is answered.
PmCbOwn(kind) ==
  /\ host = "up" /\ host' = "down" /\ magic' = (magic \/ kind = "suspend")
  /\ LET w == IF kind = "reset" THEN "reboot" ELSE "sby"
     IN  IF Free THEN /\ Raise(w) /\ asked' = [asked EXCEPT ![w] = TRUE]
                      /\ UNCHANGED ready
                 ELSE /\ ready' = [ready EXCEPT ![w] = TRUE] /\ UNCHANGED <<pending, asked, due>>
  /\ UNCHANGED <<notify, task, pc, call, reg, mail, inbox>> /\ StaysOn

\* pm_cb, the mailbox interrupt: the host, which stops with its message, asks for
\* stand-by or a reboot, or so answers what the M3 has asked for.  A suspend leaves the
\* magic first.
PmCb(kind) ==
  /\ host = "up" /\ host' = "down" /\ magic' = (magic \/ kind = "suspend")
  /\ LET w == IF kind = "reset" THEN "reboot" ELSE "sby"
     IN  IF Free THEN /\ Raise(w) /\ asked' = [asked EXCEPT ![w] = TRUE]
                      /\ UNCHANGED ready
                 ELSE /\ ready' = [v \in Ways |-> TRUE] /\ UNCHANGED <<pending, asked, due>>
  /\ UNCHANGED <<notify, task, pc, call, reg, mail, inbox>> /\ StaysOn

HostRegister(w) ==
  /\ host = "up" /\ ~notify[w] /\ w \notin mail /\ mail' = mail \cup {w}
  /\ UNCHANGED <<flags, task, due, pc, call, reg, host, inbox, magic>> /\ StaysOn

HostHangs ==
  /\ MayHang /\ host = "up" /\ host' = "hung"
  /\ UNCHANGED <<flags, task, due, pc, call, reg, mail, inbox, magic>> /\ StaysOn

-------------------------------------------------------------------------------
\* pm_task: a message if there is one, then the two handlers, then 10 ms of delay.
Poll ==
  /\ pm = "poll" /\ pm' = "check"
  /\ \/ mail = {} /\ UNCHANGED <<mail, notify>>
     \/ \E w \in mail : mail' = mail \ {w} /\ notify' = [notify EXCEPT ![w] = TRUE]
  /\ UNCHANGED <<pending, asked, ready, told, parsed, list, way, cur, called,
                 due, pc, call, reg, host, inbox, magic>> /\ StaysOn

\* The other handler, or the next round.
Leave == IF way = "sby" THEN way' = "reboot" /\ pm' = "check"
                        ELSE way' = "sby" /\ pm' = "poll"

\* pm_handle_goto_sby, pm_handle_reboot: is the way pending, and does the host want to
\* be told?
Check ==
  /\ pm = "check"
  /\ IF ~pending[way] THEN Leave
     ELSE /\ pm' = IF notify[way] /\ ~told[way] /\ (\A w \in Ways : ~asked[w])
                     THEN "send" ELSE "list"
          /\ UNCHANGED way
  /\ UNCHANGED <<flags, told, parsed, list, cur, called, due, pc, call, reg, ext>> /\ StaysOn

Send ==
  /\ pm = "send" /\ pm' = "list" /\ inbox' = inbox \cup {way}
  /\ told' = [told EXCEPT ![way] = TRUE]
  /\ UNCHANGED <<flags, parsed, list, way, cur, called, due, pc, call, reg, mail, host,
                 magic>> /\ StaysOn

List ==
  /\ pm = "list" /\ pm' = IF list[way] # <<>> /\ ~parsed[way] THEN "pop" ELSE "decide"
  /\ UNCHANGED <<flags, told, parsed, list, way, cur, called, due, pc, call, reg, ext>>
  /\ StaysOn

\* Mutant of Pop: if instead of while.
PopOne ==
  /\ pm = "pop"
  /\ IF list[way] # <<>> /\ called = {}
       THEN /\ cur' = {Head(list[way])} /\ list' = [list EXCEPT ![way] = Tail(@)]
            /\ pm' = "call" /\ UNCHANGED parsed
       ELSE /\ parsed' = [parsed EXCEPT ![way] = TRUE] /\ pm' = "decide"
            /\ UNCHANGED <<cur, list>>
  /\ UNCHANGED <<flags, told, way, called, due, pc, call, reg, ext>> /\ StaysOn

\* The notifier is taken from the list before it is called.
Pop ==
  /\ pm = "pop"
  /\ IF list[way] # <<>>
       THEN /\ cur' = {Head(list[way])} /\ list' = [list EXCEPT ![way] = Tail(@)]
            /\ pm' = "call" /\ UNCHANGED parsed
       ELSE /\ parsed' = [parsed EXCEPT ![way] = TRUE] /\ pm' = "decide"
            /\ UNCHANGED <<cur, list>>
  /\ UNCHANGED <<flags, told, way, called, due, pc, call, reg, ext>> /\ StaysOn

CallBack ==
  /\ pm = "call" /\ pm' = "pop" /\ called' = called \cup cur /\ cur' = {}
  /\ UNCHANGED <<flags, told, parsed, list, way, due, pc, call, reg, ext>> /\ StaysOn

\* Down, with pm_shutdown_prepare and interrupts off, when the host has answered, was
\* who asked, or does not bother.
Decide ==
  /\ pm = "decide"
  /\ IF (notify[way] /\ ready[way]) \/ asked[way] \/ ~notify[way]
       THEN Down(way, TRUE) /\ UNCHANGED <<pm, way>>
       ELSE Leave /\ StaysOn
  /\ UNCHANGED <<flags, told, parsed, list, cur, called, due, pc, call, reg, ext>>

-------------------------------------------------------------------------------
Kinds  == {"suspend", "off", "reset"}
Pm     == off = "on" /\ (Poll \/ Check \/ Send \/ List \/ Pop \/ CallBack \/ Decide)
Asks(t)    == off = "on" /\ (SetPending(t) \/ SetAsked(t))
Barks      == off = "on" /\ Ask(Wdt, "reboot")
\* The host answers what it has been told.
Answers    == off = "on" /\ inbox # {} /\ \E k \in Kinds : PmCb(k)

Next ==
  \/ Pm \/ \E t \in Callers : Asks(t)
  \/ off = "on" /\ \/ \E t \in Callers, w \in Ways : Ask(t, w)
                   \/ \E n \in Notifiers : Register(n) \/ Insert(n)
                   \/ \E k \in Kinds : PmCb(k)
                   \/ \E w \in Ways : HostRegister(w)
                   \/ PmuIrq \/ HostHangs

Spec == Init /\ [][Next]_vars

\* pm_task is scheduled, a call that has begun goes on, the A7 watchdog bites a hung
\* host, and a host that is up answers.
FairSpec == /\ Spec /\ WF_vars(Pm) /\ WF_vars(Answers) /\ WF_vars(Barks)
            /\ \A t \in Callers : WF_vars(Asks(t))

-------------------------------------------------------------------------------
TypeOK ==
  /\ {pending, asked, notify, ready, told, parsed} \subseteq [Ways -> BOOLEAN]
  /\ list \in [Ways -> Seq(Notifiers)]
  /\ \A w \in Ways : Listed(w) \subseteq {n \in Notifiers : Of[n] = w /\ reg[n] = "in"}
  /\ cur \subseteq Notifiers /\ way \in Ways
  /\ pm \in {"poll", "check", "send", "list", "pop", "call", "decide"}
  /\ called \subseteq Notifiers /\ due \in [Ways -> SUBSET Notifiers]
  /\ pc \in [Callers -> {"idle", "pending", "asked"}] /\ call \in [Callers -> Ways]
  /\ reg \in [Notifiers -> {"no", "checked", "in", "refused"}]
  /\ mail \subseteq Ways /\ inbox \subseteq Ways /\ host \in {"up", "hung", "down"}
  /\ {magic, prepared, lost} \subseteq BOOLEAN /\ off \in Ways \cup {"on"}

\* A host that asked to be told is never cut off: when the machine goes down the way it
\* registered for, the host has stopped, or hangs; whichever of the console, the PMU,
\* the watchdog and the host began, in whatever order their calls overlapped.
HostStopped == off \in Ways /\ notify[off] => host # "up"

\* Every notifier that was on the list when stand-by or reboot became pending has run
\* before pm_task takes the machine down.
NotifiedFirst == off \in Ways /\ prepared => due[off] \subseteq called

\* What was asked for happens: stand-by or reboot, once pending, takes the machine down,
\* unless the host hangs, or another caller overwrites who asked (NeverForgotten).
GoesDown == \A w \in Ways : pending[w] ~> (off # "on" \/ host = "hung" \/ lost)

\* Not so: stand-by after a suspend keeps DDR, from which the magic makes the next boot
\* resume (PMU_IRQHandler goes down without pm_shutdown_prepare).
DdrKept == off # "on" /\ magic => prepared

\* Not so: the machine goes to stand-by with no notifier left out.
AllNotified == off = "sby" => \A n \in Notifiers : Of[n] = "sby" /\ reg[n] = "in"
                                                     => n \in called

\* Not so: what the host asked for is remembered as asked by the host.
NeverForgotten == ~lost

\* Not so: a host that hangs is rebooted by its watchdog.
HangRebooted == (host = "hung") ~> (off # "on")
===============================================================================
