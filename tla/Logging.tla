------------------------------ MODULE Logging ------------------------------
(***************************************************************************)
(* The loggers (src/log.cpp), reconfigured while other threads log.  The   *)
(* variable of ConfigVar is here g_log_defines: its value is the sorted    *)
(* set of LogDefine, its first listener the one LogIniter adds, which      *)
(* brings the loggers to the new value one call at a time.                 *)
(*                                                                         *)
(* A logger locks its mutex for each call; log() holds it while it writes  *)
(* and, when it has no appender, while the root logger takes its own.      *)
(* Levels are read without a lock.  A logger nobody asked for yet is in    *)
(* the state getLogger would create it in.                                 *)
(***************************************************************************)
EXTENDS ConfigVar

CONSTANTS
  Order,      \* the loggers' names in the order of std::string's <
  Root,       \* the root logger's name
  Plain,      \* the formatter Logger's constructor makes
  None,       \* an empty formatter string; nobody
  BadFormat,  \* a pattern LogFormatter::init finds an error in
  Writers,   \* threads that log
  Calls,      \* what they log: pairs of a logger's name and a level
  MaxEvents,  \* bound: events logged
  MaxFaults   \* bound: changes of the disk: working, full, path gone

INSTANCE YamlCast    \* from the document to a set of LogDefine

All == {Order[i] : i \in DOMAIN Order}
Definition == [name : All, level : UNKNOW..FATAL, fmt : STRING,
               apps : Seq([to : STRING, fmt : STRING])]

ASSUME LoggingAssumption ==
  /\ Root \in All /\ None \notin Writers /\ Static # 0 /\ Default = <<>>
  /\ {Plain, None, BadFormat, Stdout} \subseteq STRING /\ Plain \notin {None, BadFormat}
  /\ \A v \in Values : /\ v \in Seq(Definition)
                       /\ \A i, k \in DOMAIN v : v[i].name = v[k].name => i = k
  /\ \A c \in Calls : c[1] \in All /\ c[2] \in DEBUG..FATAL
  /\ MaxEvents \in Nat /\ MaxFaults \in Nat

VARIABLES
  logger,   \* per name: m_level, m_formatter and m_appenders
  lock,     \* holder of the logger's m_mutex while it waits for the root's
  plan,     \* where each loading thread is in the body of the log listener
  lpc, ev,  \* where a logging thread is, and with which event
  written,  \* history: per event, the appenders' destinations it reached
  status,   \* history: what became of it
  nextEv,
  touched,  \* history: loggers the listener has changed
  disk, faults

logging ==
  <<logger, lock, plan, lpc, ev, written, status, nextEv, touched, disk, faults>>
vars == <<config, logging>>

-----------------------------------------------------------------------------
Events == 1..MaxEvents
NoPlan == [pos |-> 0, step |-> 0]
Valid(fmt) == fmt \notin {None, BadFormat}
NewAppender(d) == [to |-> d.to, own |-> Valid(d.fmt), fmt |-> IF Valid(d.fmt) THEN d.fmt ELSE None,
                   stream |-> IF d.to # Stdout /\ disk = "gone" THEN "closed" ELSE "open"]
RootStdout == [to |-> Stdout, own |-> FALSE, fmt |-> Plain, stream |-> "open"]

Init ==
  /\ ConfigInit
  /\ logger = [n \in All |-> [level |-> DEBUG, fmt |-> Plain,
                              apps |-> IF n = Root THEN <<RootStdout>> ELSE <<>>]]
  /\ lock = [n \in All |-> None] /\ plan = [t \in Threads |-> NoPlan]
  /\ lpc = [p \in Writers |-> "idle"]
  /\ ev = [p \in Writers |-> [id |-> 0, name |-> Root, level |-> DEBUG]]
  /\ written = [e \in Events |-> {}] /\ status = [e \in Events |-> "none"]
  /\ nextEv = 1 /\ touched = {} /\ disk = "ok" /\ faults = 0

-----------------------------------------------------------------------------
(* The log listener: on_logger_conf_changed (the line it logs itself is left out). *)

Present(d, old) == \E i \in DOMAIN old : old[i] = d
Named(n, ds) == \E i \in DOMAIN ds : ds[i].name = n

\* Only the definitions whose equal is not in the old set.
Changed(d, old) == ~Present(d, old)

\* The two loops: over the new definitions, then over the old ones, here with one
\* position after the other; and what each has something to do for.
Gone(t, k) == k > Len(arg[t])
DefineAt(t, k) == IF Gone(t, k) THEN val[k - Len(arg[t])] ELSE arg[t][k]
OnLoggerConfChanged(t) ==
  {k \in 1..(Len(arg[t]) + Len(val)) : IF Gone(t, k) THEN ~Named(DefineAt(t, k).name, arg[t])
                                       ELSE Changed(DefineAt(t, k), val)}

\* The listener goes on to the next definition after position k, or is done.
GoOn(t, k) ==
  LET rest == {j \in OnLoggerConfChanged(t) : j > k}
  IN IF rest = {} THEN plan' = [plan EXCEPT ![t] = NoPlan]
                  ELSE \E j \in rest : /\ First(j, rest)
                                       /\ plan' = [plan EXCEPT ![t] = [pos |-> j, step |-> 0]]

\* The calls for one definition: setLevel (0), setFormatter (1), clearAppenders (2),
\* and addAppender for each appender (2 + its number).
NextCall(t, d) ==
  LET k == plan[t].pos s == plan[t].step
      step == IF s = 0 /\ (Gone(t, k) \/ ~Valid(d.fmt)) THEN 2 ELSE s + 1
  IN IF step <= 2 \/ (~Gone(t, k) /\ step <= 2 + Len(d.apps))
       THEN plan' = [plan EXCEPT ![t].step = step] ELSE GoOn(t, k)

\* setFormatter hands the formatter to the appenders that have none of their own.
SetFormatter(l, f) ==
  [l EXCEPT !.fmt = f,
            !.apps = [i \in DOMAIN @ |-> IF @[i].own THEN @[i] ELSE [@[i] EXCEPT !.fmt = f]]]

\* addAppender: an appender without a formatter gets the logger's.
AddAppender(l, a) ==
  [l EXCEPT !.apps = Append(@, IF a.fmt = None THEN [a EXCEPT !.fmt = l.fmt] ELSE a)]

\* clearAppenders.  (Mutant: the old appenders stay.)
Keeps(l) == l
Clear(l) == [l EXCEPT !.apps = <<>>]

PlanStep(t) ==
  /\ plan[t].pos # 0
  /\ LET s == plan[t].step
         d == DefineAt(t, plan[t].pos)
     IN /\ s = 0 \/ lock[d.name] = None
        /\ logger' = [logger EXCEPT ![d.name] =
             CASE s = 0 -> [@ EXCEPT !.level = IF Gone(t, plan[t].pos) THEN UNKNOW ELSE d.level]
               [] s = 1 -> SetFormatter(@, d.fmt)
               [] s = 2 -> Clear(@)
               [] s > 2 -> AddAppender(@, NewAppender(d.apps[s - 2]))]
        /\ NextCall(t, d)
        /\ touched' = touched \cup {d.name}
  /\ UNCHANGED <<config, lock, lpc, ev, written, status, nextEv, disk, faults>>

\* setValue's loop waits for the running listener; the log listener is the first.
NotifyLog(t) ==
  /\ plan[t] = NoPlan /\ CallListener(t)
  /\ IF 1 \in toCall[t] THEN GoOn(t, 0) ELSE UNCHANGED plan
  /\ UNCHANGED <<logger, lock, lpc, ev, written, status, nextEv, touched, disk, faults>>

Loading(t) ==
  \/ PlanStep(t)
  \/ NotifyLog(t)
  \/ /\ plan[t] = NoPlan
     /\ NextKey(t) \/ SetValue(t) \/ EndRead(t) \/ Assign(t)
     /\ UNCHANGED logging

-----------------------------------------------------------------------------
(* A thread that logs. *)

\* SERVER_LOG_LEVEL: the event is made only if the logger's level lets it through.
MakeEvent(p, n, lv) ==
  /\ lpc[p] = "idle" /\ nextEv <= MaxEvents /\ logger[n].level <= lv
  /\ ev' = [ev EXCEPT ![p] = [id |-> nextEv, name |-> n, level |-> lv]]
  /\ status' = [status EXCEPT ![nextEv] = "made"]
  /\ nextEv' = nextEv + 1 /\ lpc' = [lpc EXCEPT ![p] = "check"]
  /\ UNCHANGED <<config, logger, lock, plan, written, touched, disk, faults>>

Ends(p, how) ==
  /\ lpc' = [lpc EXCEPT ![p] = "idle"] /\ status' = [status EXCEPT ![ev[p].id] = how]

\* ~LogEventWrap calls Logger::log, which looks at the level again.
CheckLevel(p) ==
  /\ lpc[p] = "check"
  /\ IF logger[ev[p].name].level <= ev[p].level
       THEN lpc' = [lpc EXCEPT ![p] = "lock"] /\ UNCHANGED status
       ELSE Ends(p, "filtered")
  /\ UNCHANGED <<config, logger, lock, plan, ev, written, nextEv, touched, disk, faults>>

\* FileLogAppender::log reopens the file when it has not for 3 seconds (due).  A stream
\* that has failed is not closed, so opening it again fails.
Reopened(s, due) ==
  IF ~due \/ s = "bad" THEN s ELSE IF disk = "gone" THEN "closed" ELSE "open"
Wrote(a, due) ==
  IF a.to = Stdout THEN "open"
  ELSE IF Reopened(a.stream, due) = "open" /\ disk = "full" THEN "bad"
  ELSE Reopened(a.stream, due)

\* The loop over m_appenders.
WriteAll(n, e, due) ==
  LET apps == [i \in DOMAIN logger[n].apps |->
                 [logger[n].apps[i] EXCEPT !.stream = Wrote(logger[n].apps[i], due)]]
  IN /\ logger' = [logger EXCEPT ![n].apps = apps]
     /\ written' = [written EXCEPT ![e] =
                      {apps[i].to : i \in {j \in DOMAIN apps : apps[j].stream = "open"}}]

\* log() has the mutex: it writes, or turns to the root logger and keeps the mutex.
\* (Mutant: a logger without appenders drops the event.)
NeverRoot(n) == FALSE
FallsBack(n) == n # Root
LogHere(p) ==
  LET n == ev[p].name IN
  /\ lpc[p] = "lock" /\ lock[n] = None
  /\ \/ /\ logger[n].apps # <<>>
        /\ \E due \in BOOLEAN : WriteAll(n, ev[p].id, due)
        /\ Ends(p, "done") /\ UNCHANGED lock
     \/ /\ logger[n].apps = <<>> /\ FallsBack(n)
        /\ lock' = [lock EXCEPT ![n] = p] /\ lpc' = [lpc EXCEPT ![p] = "root"]
        /\ UNCHANGED <<logger, written, status>>
     \/ /\ logger[n].apps = <<>> /\ ~FallsBack(n)
        /\ Ends(p, "done") /\ UNCHANGED <<logger, lock, written>>
  /\ UNCHANGED <<config, plan, ev, nextEv, touched, disk, faults>>

\* m_root->log: the level of the root logger counts too.  (Mutant: the first mutex
\* stays locked.)
NotReleased(n) == lock
Released(n) == [lock EXCEPT ![n] = None]
LogAtRoot(p) ==
  LET n == ev[p].name IN
  /\ lpc[p] = "root" /\ lock[Root] = None
  /\ IF logger[Root].level <= ev[p].level
       THEN (\E due \in BOOLEAN : WriteAll(Root, ev[p].id, due)) /\ Ends(p, "done")
       ELSE Ends(p, "filtered") /\ UNCHANGED <<logger, written>>
  /\ lock' = Released(n)
  /\ UNCHANGED <<config, plan, ev, nextEv, touched, disk, faults>>

LogStep(p) == CheckLevel(p) \/ LogHere(p) \/ LogAtRoot(p)

DiskChanges ==
  /\ faults < MaxFaults /\ faults' = faults + 1
  /\ disk' \in {"ok", "full", "gone"} \ {disk}
  /\ UNCHANGED <<config, logger, lock, plan, lpc, ev, written, status, nextEv, touched>>

-----------------------------------------------------------------------------
Idle(t) ==
  /\ plan[t] = NoPlan /\ UNCHANGED logging
  /\ \/ \E d \in Docs : LoadFromYaml(t, d)
     \/ AddListener(t)
     \/ \E l \in Listeners : DelListener(t, l)

Next ==
  \/ \E t \in Threads : Loading(t) \/ Idle(t)
  \/ \E p \in Writers : LogStep(p) \/ \E c \in Calls : MakeEvent(p, c[1], c[2])
  \/ DiskChanges

Spec == Init /\ [][Next]_vars
FairSpec == Spec /\ (\A t \in Threads : WF_vars(Loading(t)))
                 /\ (\A p \in Writers : WF_vars(LogStep(p)))

-----------------------------------------------------------------------------
(* Properties. *)

Appender == [to : STRING, own : BOOLEAN, fmt : STRING, stream : {"open", "closed", "bad"}]
LoggingTypeOK ==
  /\ logger \in [All -> [level : UNKNOW..FATAL, fmt : STRING, apps : Seq(Appender)]]
  /\ lock \in [All -> Writers \cup {None}]
  /\ plan \in [Threads -> [pos : Nat, step : Nat]]
  /\ lpc \in [Writers -> {"idle", "check", "lock", "root"}]
  /\ ev \in [Writers -> [id : 0..MaxEvents, name : All, level : DEBUG..FATAL]]
  /\ written \in [Events -> SUBSET STRING]
  /\ status \in [Events -> {"none", "made", "filtered", "done"}]
  /\ nextEv \in 1..(MaxEvents + 1) /\ touched \subseteq All
  /\ disk \in {"ok", "full", "gone"} /\ faults \in 0..MaxFaults
TypeOK == ConfigTypeOK /\ LoggingTypeOK

\* What a definition asks of its logger l.
Matches(l, d) ==
  /\ l.level = d.level /\ (Valid(d.fmt) => l.fmt = d.fmt)
  /\ Len(l.apps) = Len(d.apps)
  /\ \A k \in DOMAIN d.apps : /\ l.apps[k].to = d.apps[k].to
                              /\ Valid(d.apps[k].fmt) => l.apps[k].fmt = d.apps[k].fmt

\* An appender has a formatter to write with: its own or its logger's.
Formatted(l) ==
  /\ Valid(l.fmt)
  /\ \A i \in DOMAIN l.apps : /\ Valid(l.apps[i].fmt)
                              /\ ~l.apps[i].own => l.apps[i].fmt = l.fmt

\* Whatever documents were loaded before, when no load is under way and none have
\* overlapped the loggers are what the stored value says: level, own formatter and
\* the appenders in order.  At any time an appender without a formatter of its own
\* writes with its logger's, in whatever order setFormatter and addAppender run, and
\* none is without a formatter.
LoggersMatchConfig ==
  /\ \A n \in All : Formatted(logger[n])
  /\ Assigning = {} /\ ~overlap => \A i \in DOMAIN val : Matches(logger[val[i].name], val[i])

\* An event that passed its level is written somewhere, even when its logger is
\* cleared and filled again at that moment: as long as the root logger is not
\* configured and no disk has failed, the root's appender is there to take it.
NothingLost ==
  faults = 0 /\ Root \notin touched =>
    \A e \in Events : status[e] = "done" => written[e] # {}

\* Every load and every log call returns: the locks (the variable's, a logger's, the
\* root's) are always taken in this order.
EveryCallReturns ==
  /\ \A t \in Threads : []<>(cpc[t] = "idle" /\ todo[t] = <<>> /\ plan[t] = NoPlan)
  /\ \A p \in Writers : []<>(lpc[p] = "idle")
=============================================================================
