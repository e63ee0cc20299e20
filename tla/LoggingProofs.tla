---------------------------- MODULE LoggingProofs ----------------------------
(***************************************************************************)
(* What holds of ConfigVar and Logging for every number of threads,        *)
(* listeners, loads, events and faults, and every set of documents.        *)
(*                                                                         *)
(* ConfigInv is about setValue and its listeners; the loggers are out of   *)
(* its sight.  LogInv is about the loggers: how far the log listener has   *)
(* come with them, and what a thread that logs meanwhile finds.            *)
(***************************************************************************)
EXTENDS Logging, TLAPS

\* A listener is called by a thread that holds the read lock.
Reading ==
  /\ \A t \in Threads : cpc[t] = "call" <=> t \in readers
  /\ \A t \in Threads : toCall[t] # {} => cpc[t] = "call"

\* The log listener is always there, and ids not handed out yet are of no listener.
Registry == 1..Static \subseteq cbs /\ cbs \subseteq 1..lastId /\ Static <= lastId

\* While no two setValue calls have overlapped: what the listeners have been told.
Told(t) == \A l \in (cbs \ gap) \ toCall[t] : told[l] = arg[t]
Knowing == ~overlap =>
  /\ \A t, u \in Assigning : t = u
  /\ \A t \in Assigning : Told(t)
  /\ Assigning = {} => \A l \in cbs \ gap : told[l] = val

ConfigInv == ConfigTypeOK /\ Reading /\ Registry /\ Knowing

-----------------------------------------------------------------------------
\* The log listener is at a call that it has to make.
PlannedAt(t) ==
  /\ plan[t].pos = 0 => plan[t] = NoPlan
  /\ plan[t].pos # 0 =>
       LET d == DefineAt(t, plan[t].pos) s == plan[t].step
       IN /\ cpc[t] = "call" /\ 1 \notin toCall[t]
          /\ plan[t].pos \in OnLoggerConfChanged(t)
          /\ s = 1 => Valid(d.fmt)
          /\ s \in {1, 3} \/ s > 3 => ~Gone(t, plan[t].pos)
          /\ s > 2 => s - 2 \in DOMAIN d.apps
Planned == \A t \in Threads : PlannedAt(t)

\* How far a logger l is on its way to definition d, before call s.
Partly(l, d, s) ==
  /\ s >= 1 => l.level = d.level
  /\ s >= 2 /\ Valid(d.fmt) => l.fmt = d.fmt
  /\ s > 2 => /\ Len(l.apps) = s - 3
              /\ \A k \in 1..(s - 3) : /\ l.apps[k].to = d.apps[k].to
                                       /\ Valid(d.apps[k].fmt) => l.apps[k].fmt = d.apps[k].fmt

AllMatch(v) == \A i \in DOMAIN v : Matches(logger[v[i].name], v[i])

\* What the listener of thread t has behind it, and what it leaves alone, matches.
Brought(t) == \A i \in DOMAIN arg[t] :
  /\ i < plan[t].pos \/ i \notin OnLoggerConfChanged(t) => Matches(logger[arg[t][i].name], arg[t][i])
  /\ i = plan[t].pos => Partly(logger[arg[t][i].name], arg[t][i], plan[t].step)

AppliedAt(t) ==
  /\ 1 \in toCall[t] => AllMatch(val)
  /\ 1 \notin toCall[t] /\ plan[t].pos = 0 => AllMatch(arg[t])
  /\ 1 \notin toCall[t] /\ plan[t].pos # 0 => Brought(t)
Applied == ~overlap =>
  /\ Assigning = {} => AllMatch(val)
  /\ \A t \in Assigning : AppliedAt(t)

Inherits == \A n \in All : Formatted(logger[n])

\* Without a fault no stream is closed or bad.
Faultless == faults = 0 =>
  /\ disk = "ok"
  /\ \A n \in All : \A i \in DOMAIN logger[n].apps : logger[n].apps[i].stream = "open"

\* Until the listener has changed it, the root logger has its appender.
RootFilled == Root \notin touched => logger[Root].apps # <<>>

\* A thread that is not idle has an event.
Eventful == \A p \in Writers : lpc[p] # "idle" => ev[p].id \in Events

LogInv == LoggingTypeOK /\ Planned /\ Applied /\ Inherits /\ Faultless /\ RootFilled /\ Eventful /\ NothingLost

-----------------------------------------------------------------------------
(* Every step of the configuration keeps ConfigInv. *)

LEMMA InitConfig ==
  ASSUME ConfigInit
  PROVE  ConfigInv
<1> USE ConfigAssumption DEF ConfigInit
<1>1. ConfigTypeOK
  <2>1. /\ todo \in [Threads -> Seq(Members)] /\ toCall \in [Threads -> SUBSET Listeners]
        /\ cpc \in [Threads -> {"idle", "set", "call", "write"}]
    OBVIOUS
  <2>2. /\ arg \in [Threads -> Values] /\ told \in [Listeners -> Values] /\ gap \subseteq Listeners
        /\ lastId \in 0..MaxIds /\ loads \in 0..MaxLoads
    BY DEF Listeners
  <2> QED
    BY <2>1, <2>2 DEF ConfigTypeOK
<1>2. Reading /\ Registry
  BY DEF Reading, Registry
<1>3. Knowing
  BY DEF Knowing, Assigning, Told, Listeners
<1> QED
  BY <1>1, <1>2, <1>3 DEF ConfigInv

LEMMA LoadConfig ==
  ASSUME ConfigInv, NEW t \in Threads, NEW doc \in Docs, LoadFromYaml(t, doc)
  PROVE  ConfigInv'
<1> USE ConfigAssumption
<1>1. ConfigTypeOK /\ Reading /\ Registry /\ Knowing
  BY DEF ConfigInv
<1>2. /\ loads < MaxLoads
      /\ loads' = loads + 1
      /\ todo' = [todo EXCEPT ![t] = doc]
      /\ UNCHANGED <<val, cbs, lastId, readers, cpc, arg, toCall, told, overlap, gap>>
  BY DEF LoadFromYaml
<1>3. ConfigTypeOK'
  BY <1>1, <1>2 DEF ConfigTypeOK, Listeners
<1>4. Reading'
  BY <1>1, <1>2 DEF Reading
<1>5. Registry'
  BY <1>1, <1>2 DEF Registry
<1>6. Knowing'
  BY <1>1, <1>2 DEF Knowing, Told, Assigning
<1> QED
  BY <1>3, <1>4, <1>5, <1>6 DEF ConfigInv

LEMMA NextKeyConfig ==
  ASSUME ConfigInv, NEW t \in Threads, NextKey(t)
  PROVE  ConfigInv'
<1> USE ConfigAssumption
<1>1. ConfigTypeOK /\ Reading /\ Registry /\ Knowing
  BY DEF ConfigInv
<1>2. /\ cpc[t] = "idle"
      /\ todo' = [todo EXCEPT ![t] = Tail(@)]
      /\ UNCHANGED <<val, cbs, lastId, readers, toCall, told, overlap, gap, loads>>
  BY DEF NextKey
<1>3. /\ todo[t] \in Seq(Members) /\ todo[t] # <<>>
      /\ Head(todo[t]) \in Members /\ Tail(todo[t]) \in Seq(Members)
  BY <1>1 DEF NextKey, ConfigTypeOK
<1>4. \/ UNCHANGED <<cpc, arg>>
      \/ /\ cpc' = [cpc EXCEPT ![t] = "set"]
         /\ \E v \in Values : arg' = [arg EXCEPT ![t] = v]
  BY <1>3 DEF NextKey
<1>5. Assigning' = Assigning /\ \A u \in Assigning : arg'[u] = arg[u]
  <2>1. CASE UNCHANGED <<cpc, arg>>
    BY <2>1 DEF Assigning
  <2>2. CASE /\ cpc' = [cpc EXCEPT ![t] = "set"]
             /\ \E v \in Values : arg' = [arg EXCEPT ![t] = v]
    BY <1>1, <1>2, <2>2 DEF ConfigTypeOK, Assigning
  <2> QED
    BY <1>4, <2>1, <2>2
<1>6. ConfigTypeOK'
  BY <1>1, <1>2, <1>3, <1>4, <1>5 DEF ConfigTypeOK, Listeners
<1>7. Reading'
  BY <1>1, <1>2, <1>3, <1>4, <1>5 DEF Reading, ConfigTypeOK, Listeners
<1>8. Registry'
  BY <1>1, <1>2 DEF Registry
<1>9. Knowing'
  BY <1>1, <1>2, <1>5 DEF Knowing, Told
<1> QED
  BY <1>6, <1>7, <1>8, <1>9 DEF ConfigInv

LEMMA SameConfig ==
  ASSUME ConfigInv, NEW t \in Threads, SetValue(t), Same(arg[t])
  PROVE  ConfigInv'
<1> USE ConfigAssumption
<1>1. ConfigTypeOK /\ Reading /\ Registry /\ Knowing
  BY DEF ConfigInv
<1>2. /\ cpc[t] = "set"
      /\ cpc' = [cpc EXCEPT ![t] = "idle"]
      /\ arg' = [arg EXCEPT ![t] = Default]
      /\ UNCHANGED <<val, cbs, lastId, readers, todo, toCall, told, overlap, gap, loads>>
  BY DEF SetValue
<1>3. ConfigTypeOK'
  BY <1>1, <1>2 DEF ConfigTypeOK, Listeners
<1>4. Reading'
  BY <1>1, <1>2 DEF Reading, ConfigTypeOK, Listeners
<1>5. Registry'
  BY <1>1, <1>2 DEF Registry
<1>6. Knowing'
  BY <1>1, <1>2 DEF Knowing, Told, Assigning, ConfigTypeOK, Listeners
<1> QED
  BY <1>3, <1>4, <1>5, <1>6 DEF ConfigInv

LEMMA ChangeConfig ==
  ASSUME ConfigInv, NEW t \in Threads, SetValue(t), ~Same(arg[t])
  PROVE  ConfigInv'
<1> USE ConfigAssumption
<1>1. ConfigTypeOK /\ Reading /\ Registry /\ Knowing
  BY DEF ConfigInv
<1>2. /\ cpc[t] = "set"
      /\ cpc' = [cpc EXCEPT ![t] = "call"]
      /\ readers' = readers \cup {t}
      /\ toCall' = [toCall EXCEPT ![t] = cbs]
      /\ overlap' = (overlap \/ Assigning # {})
      /\ UNCHANGED <<val, cbs, lastId, arg, todo, told, gap, loads>>
  BY DEF SetValue
<1>3. ConfigTypeOK'
  BY <1>1, <1>2 DEF ConfigTypeOK, Listeners
<1>4. Reading'
  BY <1>1, <1>2 DEF Reading, ConfigTypeOK, Listeners
<1>5. Registry'
  BY <1>1, <1>2 DEF Registry
<1>6. Knowing'
  BY <1>1, <1>2 DEF Knowing, Told, Assigning, ConfigTypeOK, Listeners
<1> QED
  BY <1>3, <1>4, <1>5, <1>6 DEF ConfigInv

LEMMA CallConfig ==
  ASSUME ConfigInv, NEW t \in Threads, NEW l \in toCall[t], CallListener(t), First(l, toCall[t])
  PROVE  ConfigInv'
<1> USE ConfigAssumption
<1>1. ConfigTypeOK /\ Reading /\ Registry /\ Knowing
  BY DEF ConfigInv
<1>2. /\ cpc[t] = "call"
      /\ told' = [told EXCEPT ![l] = arg[t]]
      /\ toCall' = [toCall EXCEPT ![t] = @ \ {l}]
      /\ UNCHANGED <<val, cbs, lastId, readers, cpc, arg, todo, overlap, gap, loads>>
  <2>1. PICK k \in toCall[t] :
          /\ First(k, toCall[t])
          /\ told' = [told EXCEPT ![k] = arg[t]]
          /\ toCall' = [toCall EXCEPT ![t] = @ \ {k}]
    BY DEF CallListener
  <2>2. toCall[t] \subseteq Listeners
    BY <1>1 DEF ConfigTypeOK
  <2>3. k = l
    BY <2>1, <2>2 DEF First, Listeners
  <2> QED
    BY <2>1, <2>3 DEF CallListener
<1>3. ConfigTypeOK'
  BY <1>1, <1>2 DEF ConfigTypeOK, Listeners
<1>4. Reading'
  BY <1>1, <1>2 DEF Reading, ConfigTypeOK, Listeners
<1>5. Registry'
  BY <1>1, <1>2 DEF Registry
<1>6. Knowing'
  BY <1>1, <1>2 DEF Knowing, Told, Assigning, ConfigTypeOK, Listeners
<1> QED
  BY <1>3, <1>4, <1>5, <1>6 DEF ConfigInv

LEMMA EndReadConfig ==
  ASSUME ConfigInv, NEW t \in Threads, EndRead(t)
  PROVE  ConfigInv'
<1> USE ConfigAssumption
<1>1. ConfigTypeOK /\ Reading /\ Registry /\ Knowing
  BY DEF ConfigInv
<1>2. /\ cpc[t] = "call"
      /\ toCall[t] = {}
      /\ readers' = readers \ {t}
      /\ cpc' = [cpc EXCEPT ![t] = "write"]
      /\ UNCHANGED <<val, cbs, lastId, arg, todo, toCall, told, overlap, gap, loads>>
  BY DEF EndRead, Left
<1>3. ConfigTypeOK'
  BY <1>1, <1>2 DEF ConfigTypeOK, Listeners
<1>4. Reading'
  BY <1>1, <1>2 DEF Reading, ConfigTypeOK, Listeners
<1>5. Registry'
  BY <1>1, <1>2 DEF Registry
<1>6. Knowing'
  BY <1>1, <1>2 DEF Knowing, Told, Assigning, ConfigTypeOK, Listeners
<1> QED
  BY <1>3, <1>4, <1>5, <1>6 DEF ConfigInv

LEMMA AssignConfig ==
  ASSUME ConfigInv, NEW t \in Threads, Assign(t)
  PROVE  ConfigInv'
<1> USE ConfigAssumption
<1>1. ConfigTypeOK /\ Reading /\ Registry /\ Knowing
  BY DEF ConfigInv
<1>2. /\ cpc[t] = "write"
      /\ readers = {}
      /\ val' = arg[t]
      /\ cpc' = [cpc EXCEPT ![t] = "idle"]
      /\ arg' = [arg EXCEPT ![t] = Default]
      /\ UNCHANGED <<cbs, lastId, readers, todo, toCall, told, overlap, gap, loads>>
  BY DEF Assign, WriteLockFree, Assigned
<1>3. ~overlap => Assigning = {t} /\ Assigning' = {}
  BY <1>1, <1>2 DEF Knowing, Assigning, ConfigTypeOK
<1>4. toCall[t] = {} /\ t \in Assigning
  BY <1>1, <1>2 DEF Reading, Assigning
<1>5. ConfigTypeOK'
  BY <1>1, <1>2, <1>3, <1>4 DEF ConfigTypeOK, Listeners
<1>6. Reading'
  BY <1>1, <1>2, <1>3, <1>4 DEF Reading, ConfigTypeOK, Listeners
<1>7. Registry'
  BY <1>1, <1>2 DEF Registry
<1>8. Knowing'
  <2> SUFFICES ASSUME ~overlap
               PROVE  \A l \in cbs \ gap : told[l] = arg[t]
    BY <1>2, <1>3 DEF Knowing, Told
  <2>1. Told(t)
    BY <1>1, <1>4 DEF Knowing
  <2> QED
    BY <1>4, <2>1 DEF Told
<1> QED
  BY <1>5, <1>6, <1>7, <1>8 DEF ConfigInv

LEMMA AddConfig ==
  ASSUME ConfigInv, NEW t \in Threads, AddListener(t)
  PROVE  ConfigInv'
<1> USE ConfigAssumption
<1>1. ConfigTypeOK /\ Reading /\ Registry /\ Knowing
  BY DEF ConfigInv
<1>2. /\ lastId < MaxIds
      /\ lastId' = lastId + 1
      /\ cbs' = cbs \cup {lastId + 1}
      /\ told' = [told EXCEPT ![lastId + 1] = val]
      /\ gap' = IF Assigning = {} THEN gap ELSE gap \cup {lastId + 1}
      /\ UNCHANGED <<val, readers, cpc, arg, todo, toCall, overlap, loads>>
  BY DEF AddListener
<1>3. ConfigTypeOK'
  BY <1>1, <1>2 DEF ConfigTypeOK, Listeners
<1>4. Reading'
  BY <1>1, <1>2 DEF Reading
<1>5. Registry'
  BY <1>1, <1>2 DEF Registry, ConfigTypeOK, Listeners
<1>6. Knowing'
  BY <1>1, <1>2 DEF Knowing, Told, Assigning, ConfigTypeOK, Listeners
<1> QED
  BY <1>3, <1>4, <1>5, <1>6 DEF ConfigInv

LEMMA DelConfig ==
  ASSUME ConfigInv, NEW t \in Threads, NEW l \in Listeners, DelListener(t, l)
  PROVE  ConfigInv'
<1> USE ConfigAssumption
<1>1. ConfigTypeOK /\ Reading /\ Registry /\ Knowing
  BY DEF ConfigInv
<1>2. /\ l > Static
      /\ cbs' = cbs \ {l}
      /\ UNCHANGED <<val, lastId, readers, cpc, arg, todo, toCall, told, overlap, gap, loads>>
  BY DEF DelListener
<1>3. ConfigTypeOK'
  BY <1>1, <1>2 DEF ConfigTypeOK, Listeners
<1>4. Reading'
  BY <1>1, <1>2 DEF Reading
<1>5. Registry'
  BY <1>1, <1>2 DEF Registry, ConfigTypeOK, Listeners
<1>6. Knowing'
  BY <1>1, <1>2 DEF Knowing, Told, Assigning, ConfigTypeOK, Listeners
<1> QED
  BY <1>3, <1>4, <1>5, <1>6 DEF ConfigInv

\* A step of the loggers alone.
LEMMA ConfigStays ==
  ASSUME ConfigInv, UNCHANGED config
  PROVE  ConfigInv'
<1>1. UNCHANGED <<val, cbs, lastId, readers, cpc, arg, todo, toCall, told, overlap, gap, loads>>
  BY DEF config
<1>2. ConfigTypeOK' /\ Reading' /\ Registry'
  BY <1>1 DEF ConfigInv, ConfigTypeOK, Reading, Registry
<1>3. Knowing'
  BY <1>1 DEF ConfigInv, Knowing, Told, Assigning
<1> QED
  BY <1>2, <1>3 DEF ConfigInv

LEMMA ConfigStep ==
  ASSUME ConfigInv, [Next]_vars
  PROVE  ConfigInv'
<1>1. ASSUME NEW t \in Threads, CallListener(t)
      PROVE  ConfigInv'
  <2>1. PICK l \in toCall[t] : First(l, toCall[t])
    BY <1>1 DEF CallListener
  <2> QED
    BY <1>1, <2>1, CallConfig
<1>2. ASSUME NEW t \in Threads, Loading(t)
      PROVE  ConfigInv'
  BY <1>1, <1>2, ConfigStays, NextKeyConfig, SameConfig, ChangeConfig, EndReadConfig, AssignConfig
     DEF Loading, PlanStep, NotifyLog
<1>3. ASSUME NEW t \in Threads, Idle(t)
      PROVE  ConfigInv'
  BY <1>3, LoadConfig, AddConfig, DelConfig DEF Idle
<1>4. ASSUME NEW p \in Writers, LogStep(p) \/ \E c \in Calls : MakeEvent(p, c[1], c[2])
      PROVE  ConfigInv'
  BY <1>4, ConfigStays DEF LogStep, CheckLevel, LogHere, LogAtRoot, MakeEvent
<1> QED
  BY <1>2, <1>3, <1>4, ConfigStays DEF Next, DiskChanges, vars

\* In every reachable state the configuration is what ConfigInv says.
THEOREM ConfigHolds == Spec => []ConfigInv
<1>1. Init => ConfigInv
  BY InitConfig DEF Init
<1>2. ConfigInv /\ [Next]_vars => ConfigInv'
  BY ConfigStep
<1> QED
  BY <1>1, <1>2, PTL DEF Spec

\* Once every setValue has returned each listener knows the stored value
\* (ConfigVar::setValue calls them before it assigns), unless two calls overlapped or
\* the listener came in between.
THEOREM Known == Spec => []ListenersKnowTheValue
<1>1. ConfigInv => ListenersKnowTheValue
  BY DEF ConfigInv, Knowing, ListenersKnowTheValue
<1> QED
  BY <1>1, ConfigHolds, PTL

-----------------------------------------------------------------------------
(* Loggers, and what the calls of the listener do to one. *)

LEMMA Elements ==
  ASSUME NEW S, NEW q \in Seq(S)
  PROVE  \A k \in DOMAIN q : q[k] \in S
OBVIOUS

LoggerRec == [level : UNKNOW..FATAL, fmt : STRING, apps : Seq(Appender)]
Open(l) == \A i \in DOMAIN l.apps : l.apps[i].stream = "open"

LEMMA SetsLevel ==
  ASSUME NEW l \in LoggerRec, NEW v \in UNKNOW..FATAL
  PROVE  LET m == [l EXCEPT !.level = v] IN
         m \in LoggerRec /\ m.level = v /\ m.fmt = l.fmt /\ m.apps = l.apps
BY DEF LoggerRec

LEMMA SetsFormatter ==
  ASSUME NEW l \in LoggerRec, NEW f \in STRING
  PROVE  LET m == SetFormatter(l, f) IN
         /\ m \in LoggerRec /\ m.level = l.level /\ m.fmt = f
         /\ (Valid(f) /\ Formatted(l) => Formatted(m)) /\ (Open(l) => Open(m))
         /\ l.apps # <<>> => m.apps # <<>>
<1> DEFINE new(i) == IF l.apps[i].own THEN l.apps[i] ELSE [l.apps[i] EXCEPT !.fmt = f]
           A == [i \in DOMAIN l.apps |-> new(i)]
           M == [level |-> l.level, fmt |-> f, apps |-> A]
<1>1. l.apps \in Seq(Appender) /\ l.level \in UNKNOW..FATAL
  BY DEF LoggerRec
<1>2. ASSUME NEW i \in DOMAIN l.apps
      PROVE  /\ new(i) \in Appender /\ new(i).stream = l.apps[i].stream
             /\ new(i).own = l.apps[i].own
             /\ new(i).fmt = IF l.apps[i].own THEN l.apps[i].fmt ELSE f
  <2>1. l.apps[i] \in Appender
    BY <1>1
  <2> QED
    BY <2>1 DEF Appender
<1> HIDE DEF new
<1>3. A \in Seq(Appender)
  BY <1>1, <1>2
<1>4. SetFormatter(l, f) = M
  <2> DEFINE k == [l EXCEPT !.fmt = f]
  <2>1. k.apps = l.apps
    BY DEF LoggerRec
  <2>2. SetFormatter(l, f) = [k EXCEPT !.apps =
          [i \in DOMAIN k.apps |-> IF k.apps[i].own THEN k.apps[i] ELSE [k.apps[i] EXCEPT !.fmt = f]]]
    BY DEF SetFormatter
  <2>3. SetFormatter(l, f) = [k EXCEPT !.apps = A]
    BY <2>1, <2>2 DEF new
  <2> HIDE DEF A
  <2> QED
    BY <2>3 DEF LoggerRec
<1>5. M \in LoggerRec
  BY <1>1, <1>3 DEF LoggerRec
<1>6. DOMAIN A = DOMAIN l.apps /\ \A i \in DOMAIN l.apps : A[i] = new(i)
  OBVIOUS
<1>7. l.apps # <<>> => A # <<>>
  BY <1>1, <1>3, <1>6
<1> HIDE DEF A
<1> QED
  BY <1>2, <1>4, <1>5, <1>6, <1>7 DEF Formatted, Open

LEMMA Clears ==
  ASSUME NEW l \in LoggerRec
  PROVE  LET m == Clear(l) IN
         m \in LoggerRec /\ m.level = l.level /\ m.fmt = l.fmt /\ m.apps = <<>>
<1> DEFINE M == [level |-> l.level, fmt |-> l.fmt, apps |-> <<>>]
<1>1. Clear(l) = M
  BY DEF LoggerRec, Clear
<1>2. <<>> \in Seq(Appender)
  OBVIOUS
<1>3. M \in LoggerRec
  BY <1>2 DEF LoggerRec
<1> QED
  BY <1>1, <1>3

LEMMA AddsAppender ==
  ASSUME NEW l \in LoggerRec, NEW a \in Appender
  PROVE  LET m == AddAppender(l, a) IN
         /\ m \in LoggerRec /\ m.level = l.level /\ m.fmt = l.fmt
         /\ Len(m.apps) = Len(l.apps) + 1
         /\ \A i \in 1..Len(l.apps) : m.apps[i] = l.apps[i]
         /\ LET b == m.apps[Len(l.apps) + 1] IN
              /\ b.to = a.to /\ b.own = a.own /\ b.stream = a.stream
              /\ b.fmt = IF a.fmt = None THEN l.fmt ELSE a.fmt
<1> DEFINE b == IF a.fmt = None THEN [a EXCEPT !.fmt = l.fmt] ELSE a
           M == [level |-> l.level, fmt |-> l.fmt, apps |-> Append(l.apps, b)]
<1>1. l.apps \in Seq(Appender) /\ l.level \in UNKNOW..FATAL /\ l.fmt \in STRING
  BY DEF LoggerRec
<1>2. /\ b \in Appender /\ b.to = a.to /\ b.own = a.own /\ b.stream = a.stream
      /\ b.fmt = IF a.fmt = None THEN l.fmt ELSE a.fmt
  BY <1>1 DEF Appender
<1>3. AddAppender(l, a) = M
  BY DEF AddAppender, LoggerRec
<1> HIDE DEF b
<1>4. M \in LoggerRec
  BY <1>1, <1>2 DEF LoggerRec
<1> QED
  BY <1>1, <1>2, <1>3, <1>4

\* NewAppender is an appender, open unless the path is gone.
LEMMA Makes ==
  ASSUME NEW x \in [to : STRING, fmt : STRING]
  PROVE  LET a == NewAppender(x) IN
         /\ a \in Appender /\ a.to = x.to /\ (a.own <=> Valid(x.fmt))
         /\ a.fmt = IF Valid(x.fmt) THEN x.fmt ELSE None
         /\ disk = "ok" => a.stream = "open"
<1>1. None \in STRING
  BY LoggingAssumption
<1>2. Valid(x.fmt) \in BOOLEAN
  BY DEF Valid
<1>3. /\ NewAppender(x).to = x.to /\ NewAppender(x).own = Valid(x.fmt)
      /\ NewAppender(x).fmt = IF Valid(x.fmt) THEN x.fmt ELSE None
      /\ disk = "ok" => NewAppender(x).stream = "open"
  BY DEF NewAppender
<1>4. NewAppender(x) \in Appender
  BY <1>1, <1>2 DEF NewAppender, Appender
<1> QED
  BY <1>3, <1>4

-----------------------------------------------------------------------------
(* The listener's way through the definitions. *)

LEMMA ValuesAre ==
  ASSUME NEW v \in Values
  PROVE  /\ v \in Seq(Definition)
         /\ \A i, k \in DOMAIN v : v[i].name = v[k].name => i = k
BY LoggingAssumption

LEMMA Defines ==
  ASSUME ConfigTypeOK, NEW t \in Threads, NEW k \in OnLoggerConfChanged(t)
  PROVE  /\ k \in Nat \ {0} /\ DefineAt(t, k) \in Definition
         /\ ~Gone(t, k) => k \in DOMAIN arg[t] /\ DefineAt(t, k) = arg[t][k]
         /\ Gone(t, k) => /\ k > Len(arg[t])
                          /\ \A i \in DOMAIN arg[t] : arg[t][i].name # DefineAt(t, k).name
<1>1. arg[t] \in Values /\ val \in Values
  BY DEF ConfigTypeOK
<1>2. arg[t] \in Seq(Definition) /\ val \in Seq(Definition)
  BY <1>1, ValuesAre
<1>3. Len(arg[t]) \in Nat /\ Len(val) \in Nat
  BY <1>2
<1>4. k \in 1..(Len(arg[t]) + Len(val))
  BY DEF OnLoggerConfChanged
<1>5. CASE Gone(t, k)
  <2>1. k > Len(arg[t]) /\ k - Len(arg[t]) \in 1..Len(val)
    BY <1>3, <1>4, <1>5 DEF Gone
  <2>2. DefineAt(t, k) = val[k - Len(arg[t])]
    BY <1>5 DEF DefineAt
  <2>3. ~Named(DefineAt(t, k).name, arg[t])
    BY <1>5 DEF OnLoggerConfChanged
  <2> QED
    BY <1>2, <1>4, <1>3, <1>5, <2>1, <2>2, <2>3 DEF Named
<1>6. CASE ~Gone(t, k)
  <2>1. k \in 1..Len(arg[t])
    BY <1>3, <1>4, <1>6 DEF Gone
  <2>2. DefineAt(t, k) = arg[t][k]
    BY <1>6 DEF DefineAt
  <2> QED
    BY <1>2, <1>3, <1>6, <2>1, <2>2
<1> QED
  BY <1>5, <1>6

\* A definition whose equal is in the old set is left alone, and matches.
LEMMA LeftAlone ==
  ASSUME ConfigTypeOK, NEW t \in Threads, AllMatch(val),
         NEW i \in DOMAIN arg[t], i \notin OnLoggerConfChanged(t)
  PROVE  Matches(logger[arg[t][i].name], arg[t][i])
<1>1. arg[t] \in Values /\ val \in Values
  BY DEF ConfigTypeOK
<1>2. arg[t] \in Seq(Definition) /\ val \in Seq(Definition)
  BY <1>1, ValuesAre
<1>3. i \in 1..(Len(arg[t]) + Len(val)) /\ ~Gone(t, i)
  BY <1>2 DEF Gone
<1>4. DefineAt(t, i) = arg[t][i]
  BY <1>3 DEF DefineAt
<1>5. Present(arg[t][i], val)
  BY <1>3, <1>4 DEF OnLoggerConfChanged, Changed
<1> QED
  BY <1>5 DEF Present, AllMatch

LEMMA SameListener ==
  ASSUME NEW t \in Threads, arg'[t] = arg[t], val' = val
  PROVE  /\ OnLoggerConfChanged(t)' = OnLoggerConfChanged(t)
         /\ \A k : DefineAt(t, k)' = DefineAt(t, k) /\ (Gone(t, k)' <=> Gone(t, k))
<1>1. \A k : DefineAt(t, k)' = DefineAt(t, k) /\ (Gone(t, k)' <=> Gone(t, k))
  BY DEF DefineAt, Gone
<1> QED
  BY <1>1 DEF OnLoggerConfChanged

LEMMA PlannedStays ==
  ASSUME NEW t \in Threads, PlannedAt(t), plan'[t] = plan[t],
         plan[t].pos = 0 \/ /\ arg'[t] = arg[t] /\ val' = val
                            /\ cpc'[t] = cpc[t] /\ toCall'[t] = toCall[t]
  PROVE  PlannedAt(t)'
<1>1. CASE plan[t].pos = 0
  BY <1>1 DEF PlannedAt
<1>2. CASE plan[t].pos # 0
  BY <1>2, SameListener DEF PlannedAt
<1> QED
  BY <1>1, <1>2

\* Where GoOn leads: to the first definition behind k, or out of the listener.
LEMMA GoesOn ==
  ASSUME ConfigTypeOK, LoggingTypeOK, NEW t \in Threads, NEW k \in Nat, GoOn(t, k)
  PROVE  /\ plan' \in [Threads -> [pos : Nat, step : Nat]]
         /\ \A u \in Threads \ {t} : plan'[u] = plan[u]
         /\ \/ /\ plan'[t] = NoPlan
               /\ \A i \in OnLoggerConfChanged(t) : i <= k
            \/ /\ plan'[t].pos \in OnLoggerConfChanged(t) /\ plan'[t].pos > k
               /\ plan'[t].step = 0
               /\ \A i \in OnLoggerConfChanged(t) : i > k => plan'[t].pos <= i
<1> DEFINE rest == {j \in OnLoggerConfChanged(t) : j > k}
<1>0. plan \in [Threads -> [pos : Nat, step : Nat]]
  BY DEF LoggingTypeOK
<1>1. \A j \in OnLoggerConfChanged(t) : j \in Nat
  BY Defines
<1>2. CASE rest = {}
  <2>1. plan' = [plan EXCEPT ![t] = NoPlan]
    BY <1>2 DEF GoOn
  <2>2. \A i \in OnLoggerConfChanged(t) : i <= k
    BY <1>1, <1>2
  <2> HIDE DEF rest
  <2> QED
    BY <1>0, <2>1, <2>2 DEF NoPlan
<1>3. CASE rest # {}
  <2>1. PICK j \in rest : First(j, rest) /\ plan' = [plan EXCEPT ![t] = [pos |-> j, step |-> 0]]
    BY <1>3 DEF GoOn
  <2>2. j \in OnLoggerConfChanged(t) /\ j > k /\ j \in Nat
    BY <1>1
  <2>3. \A i \in OnLoggerConfChanged(t) : i > k => j <= i
    BY <2>1 DEF First
  <2> HIDE DEF rest
  <2> QED
    BY <1>0, <2>1, <2>2, <2>3
<1> QED
  BY <1>2, <1>3

-----------------------------------------------------------------------------
(* Steps that leave the loggers as the definitions see them. *)

Like(l, m) ==
  /\ m.level = l.level /\ m.fmt = l.fmt
  /\ Len(m.apps) = Len(l.apps) /\ DOMAIN m.apps = DOMAIN l.apps
  /\ \A i \in DOMAIN l.apps : /\ m.apps[i].to = l.apps[i].to /\ m.apps[i].own = l.apps[i].own
                              /\ m.apps[i].fmt = l.apps[i].fmt

LEMMA LikeMatches ==
  ASSUME NEW l \in LoggerRec, NEW m, NEW d \in Definition, Like(l, m), Matches(l, d)
  PROVE  Matches(m, d)
<1>1. /\ l.apps \in Seq(Appender) /\ d.apps \in Seq([to : STRING, fmt : STRING])
  BY DEF LoggerRec, Definition
<1>2. Len(l.apps) = Len(d.apps)
  BY DEF Matches
<1>3. DOMAIN d.apps = DOMAIN l.apps
  BY <1>1, <1>2
<1> QED
  BY <1>3 DEF Like, Matches

LEMMA LikePartly ==
  ASSUME NEW l \in LoggerRec, NEW m, NEW d \in Definition, NEW s \in Nat, Like(l, m), Partly(l, d, s)
  PROVE  Partly(m, d, s)
<1>1. l.apps \in Seq(Appender)
  BY DEF LoggerRec
<1>2. CASE s > 2
  <2>1. Len(l.apps) = s - 3
    BY <1>2 DEF Partly
  <2>2. DOMAIN l.apps = 1..(s - 3)
    BY <1>1, <2>1
  <2> QED
    BY <1>2, <2>1, <2>2 DEF Like, Partly
<1>3. CASE ~(s > 2)
  BY <1>3 DEF Like, Partly
<1> QED
  BY <1>2, <1>3

\* The listeners' progress does not depend on the streams, nor on a thread that has
\* nothing to assign.
LEMMA AppliedStays ==
  ASSUME ConfigTypeOK, LoggingTypeOK, Applied,
         \A n \in All : Like(logger[n], logger'[n]),
         val' = val, overlap' = overlap, plan' = plan, Assigning' = Assigning,
         \A t \in Assigning : arg'[t] = arg[t] /\ toCall'[t] = toCall[t]
  PROVE  Applied'
<1>0. logger \in [All -> LoggerRec] /\ plan \in [Threads -> [pos : Nat, step : Nat]]
  BY DEF LoggingTypeOK, LoggerRec
<1>1. ASSUME NEW d \in Definition
      PROVE  /\ Matches(logger[d.name], d) => Matches(logger'[d.name], d)
             /\ \A s \in Nat : Partly(logger[d.name], d, s) => Partly(logger'[d.name], d, s)
  <2>1. d.name \in All
    BY DEF Definition
  <2>2. logger[d.name] \in LoggerRec /\ Like(logger[d.name], logger'[d.name])
    BY <1>0, <2>1
  <2> QED
    BY <2>2, LikeMatches, LikePartly
<1>2. ASSUME NEW v \in Values
      PROVE  \A i \in DOMAIN v : v[i] \in Definition
  BY <1>2, ValuesAre
<1>3. ASSUME NEW v \in Values, AllMatch(v)
      PROVE  \A i \in DOMAIN v : Matches(logger'[v[i].name], v[i])
  BY <1>1, <1>2, <1>3 DEF AllMatch
<1>4. SUFFICES ASSUME ~overlap
               PROVE  /\ Assigning = {} => AllMatch(val)'
                      /\ \A t \in Assigning : AppliedAt(t)'
  BY DEF Applied
<1>5. val \in Values
  BY DEF ConfigTypeOK
<1>6. AllMatch(val) => AllMatch(val)'
  BY <1>3, <1>5 DEF AllMatch
<1>7. Assigning = {} => AllMatch(val)'
  BY <1>4, <1>6 DEF Applied
<1>8. ASSUME NEW t \in Assigning
      PROVE  AppliedAt(t)'
  <2>1. t \in Threads /\ arg[t] \in Values /\ arg'[t] = arg[t] /\ toCall'[t] = toCall[t]
    BY DEF Assigning, ConfigTypeOK
  <2>2. AppliedAt(t)
    BY <1>4 DEF Applied
  <2>3. AllMatch(arg[t]) => AllMatch(arg[t])'
    BY <1>3, <2>1 DEF AllMatch
  <2>4. Brought(t) => Brought(t)'
    <3>1. OnLoggerConfChanged(t)' = OnLoggerConfChanged(t)
      BY <2>1, SameListener
    <3>2. \A i \in DOMAIN arg[t] : arg[t][i] \in Definition
      BY <1>2, <2>1
    <3>3. plan[t].step \in Nat
      BY <1>0, <2>1
    <3> QED
      BY <1>1, <2>1, <3>1, <3>2, <3>3 DEF Brought
  <2> QED
    BY <1>6, <2>1, <2>2, <2>3, <2>4 DEF AppliedAt
<1> QED
  BY <1>7, <1>8

-----------------------------------------------------------------------------
(* The steps of the configuration that are none of the loggers' business. *)

LogRest == LoggingTypeOK /\ Inherits /\ Faultless /\ RootFilled /\ Eventful /\ NothingLost

LEMMA RestMoves ==
  ASSUME LogRest, plan' \in [Threads -> [pos : Nat, step : Nat]],
         UNCHANGED <<logger, lock, lpc, ev, written, status, nextEv, touched, disk, faults>>
  PROVE  LogRest'
<1>1. LoggingTypeOK'
  BY DEF LogRest, LoggingTypeOK
<1>2. Inherits' /\ Faultless' /\ RootFilled'
  BY DEF LogRest, Inherits, Faultless, RootFilled
<1>3. Eventful' /\ NothingLost'
  BY DEF LogRest, Eventful, NothingLost
<1> QED
  BY <1>1, <1>2, <1>3 DEF LogRest

LEMMA RestStays ==
  ASSUME LogRest, UNCHANGED logging
  PROVE  LogRest'
BY RestMoves DEF logging, LogRest, LoggingTypeOK

LEMMA Quiet ==
  ASSUME ConfigTypeOK, LogInv, NEW t \in Threads, plan[t] = NoPlan, UNCHANGED logging,
         val' = val, overlap' = overlap, Assigning' = Assigning,
         \A u \in Threads \ {t} : arg'[u] = arg[u] /\ cpc'[u] = cpc[u] /\ toCall'[u] = toCall[u],
         t \in Assigning => arg'[t] = arg[t] /\ toCall'[t] = toCall[t]
  PROVE  LogInv'
<1>1. LogRest /\ Planned /\ Applied /\ LoggingTypeOK
  BY DEF LogInv, LogRest
<1>2. LogRest'
  BY <1>1, RestStays
<1>3. UNCHANGED <<logger, plan>>
  BY DEF logging
<1>4. Planned'
  <2> SUFFICES ASSUME NEW u \in Threads
               PROVE  PlannedAt(u)'
    BY DEF Planned
  <2>1. PlannedAt(u) /\ plan'[u] = plan[u]
    BY <1>1, <1>3 DEF Planned
  <2>2. plan[t].pos = 0
    BY DEF NoPlan
  <2> QED
    BY <2>1, <2>2, PlannedStays
<1>5. Applied'
  <2>1. \A n \in All : Like(logger[n], logger'[n])
    BY <1>3 DEF Like
  <2>2. \A u \in Assigning : arg'[u] = arg[u] /\ toCall'[u] = toCall[u]
    BY DEF Assigning
  <2> QED
    BY <1>1, <1>3, <2>1, <2>2, AppliedStays
<1> QED
  BY <1>2, <1>4, <1>5 DEF LogInv, LogRest

LEMMA IdleLog ==
  ASSUME ConfigInv, LogInv, NEW t \in Threads, Idle(t)
  PROVE  LogInv'
<1>1. plan[t] = NoPlan /\ UNCHANGED logging
  BY DEF Idle
<1>2. UNCHANGED <<val, cpc, arg, toCall, overlap>>
  BY DEF Idle, LoadFromYaml, AddListener, DelListener
<1>3. Assigning' = Assigning
  BY <1>2 DEF Assigning
<1> QED
  BY <1>1, <1>2, <1>3, Quiet DEF ConfigInv

LEMMA NextKeyLog ==
  ASSUME ConfigInv, LogInv, NEW t \in Threads, plan[t] = NoPlan, UNCHANGED logging, NextKey(t)
  PROVE  LogInv'
<1>1. ConfigTypeOK
  BY DEF ConfigInv
<1>2. cpc[t] = "idle" /\ UNCHANGED <<val, overlap, toCall>>
  BY DEF NextKey
<1>3. \/ UNCHANGED <<cpc, arg>>
      \/ cpc' = [cpc EXCEPT ![t] = "set"] /\ \E v : arg' = [arg EXCEPT ![t] = v]
  BY DEF NextKey
<1>4. /\ \A u \in Threads \ {t} : arg'[u] = arg[u] /\ cpc'[u] = cpc[u] /\ toCall'[u] = toCall[u]
      /\ cpc'[t] \in {"idle", "set"}
  BY <1>1, <1>2, <1>3 DEF ConfigTypeOK
<1>5. Assigning' = Assigning /\ t \notin Assigning
  BY <1>2, <1>4 DEF Assigning
<1> QED
  BY <1>1, <1>2, <1>4, <1>5, Quiet

LEMMA SameLog ==
  ASSUME ConfigInv, LogInv, NEW t \in Threads, plan[t] = NoPlan, UNCHANGED logging, SetValue(t), Same(arg[t])
  PROVE  LogInv'
<1>1. ConfigTypeOK
  BY DEF ConfigInv
<1>2. /\ cpc[t] = "set" /\ UNCHANGED <<val, overlap, toCall>>
      /\ cpc' = [cpc EXCEPT ![t] = "idle"] /\ arg' = [arg EXCEPT ![t] = Default]
  BY DEF SetValue
<1>3. /\ \A u \in Threads \ {t} : arg'[u] = arg[u] /\ cpc'[u] = cpc[u] /\ toCall'[u] = toCall[u]
      /\ cpc'[t] = "idle"
  BY <1>1, <1>2 DEF ConfigTypeOK
<1>4. Assigning' = Assigning /\ t \notin Assigning
  BY <1>2, <1>3 DEF Assigning
<1> QED
  BY <1>1, <1>2, <1>3, <1>4, Quiet

LEMMA EndReadLog ==
  ASSUME ConfigInv, LogInv, NEW t \in Threads, plan[t] = NoPlan, UNCHANGED logging, EndRead(t)
  PROVE  LogInv'
<1>1. ConfigTypeOK
  BY DEF ConfigInv
<1>2. /\ cpc[t] = "call" /\ UNCHANGED <<val, overlap, toCall, arg>>
      /\ cpc' = [cpc EXCEPT ![t] = "write"]
  BY DEF EndRead
<1>3. (\A u \in Threads \ {t} : cpc'[u] = cpc[u]) /\ cpc'[t] = "write"
  BY <1>1, <1>2 DEF ConfigTypeOK
<1>4. Assigning' = Assigning
  BY <1>2, <1>3 DEF Assigning
<1> QED
  BY <1>1, <1>2, <1>3, <1>4, Quiet

\* A setValue that finds another value begins with the loggers where the stored one
\* has brought them, unless it overlaps another.
LEMMA ChangeLog ==
  ASSUME ConfigInv, LogInv, NEW t \in Threads, plan[t] = NoPlan, UNCHANGED logging, SetValue(t), ~Same(arg[t])
  PROVE  LogInv'
<1>1. ConfigTypeOK /\ Registry
  BY DEF ConfigInv
<1>2. LogRest /\ Planned /\ Applied /\ LoggingTypeOK
  BY DEF LogInv, LogRest
<1>3. LogRest'
  BY <1>2, RestStays
<1>4. /\ cpc[t] = "set" /\ UNCHANGED <<val, arg, logger, plan>>
      /\ cpc' = [cpc EXCEPT ![t] = "call"] /\ toCall' = [toCall EXCEPT ![t] = cbs]
  BY DEF SetValue, logging
<1>5. overlap' = (overlap \/ Assigning # {})
  BY DEF SetValue
<1>6. /\ \A u \in Threads \ {t} : cpc'[u] = cpc[u] /\ toCall'[u] = toCall[u]
      /\ cpc'[t] = "call" /\ toCall'[t] = cbs
  BY <1>1, <1>4 DEF ConfigTypeOK
<1>7. Planned'
  <2> SUFFICES ASSUME NEW u \in Threads
               PROVE  PlannedAt(u)'
    BY DEF Planned
  <2>1. PlannedAt(u) /\ plan'[u] = plan[u] /\ plan[t].pos = 0
    BY <1>2, <1>4 DEF Planned, NoPlan
  <2> QED
    BY <1>4, <1>6, <2>1, PlannedStays
<1>8. Applied'
  <2> SUFFICES ASSUME ~overlap'
               PROVE  /\ Assigning' = {} => AllMatch(val)'
                      /\ \A u \in Assigning' : AppliedAt(u)'
    BY DEF Applied
  <2>1. Assigning = {} /\ ~overlap
    BY <1>5
  <2>2. AllMatch(val)
    BY <1>2, <2>1 DEF Applied
  <2>3. AllMatch(val)'
    BY <1>4, <2>2 DEF AllMatch
  <2>4. Assigning' = {t}
    BY <1>6, <2>1 DEF Assigning
  <2>5. 1 \in cbs
    BY <1>1, ConfigAssumption, LoggingAssumption DEF Registry
  <2>6. AppliedAt(t)'
    BY <1>6, <2>3, <2>5 DEF AppliedAt
  <2> QED
    BY <2>4, <2>6
<1> QED
  BY <1>3, <1>7, <1>8 DEF LogInv, LogRest

\* The assignment makes the value the listeners were told the stored one.
LEMMA AssignLog ==
  ASSUME ConfigInv, LogInv, NEW t \in Threads, plan[t] = NoPlan, UNCHANGED logging, Assign(t)
  PROVE  LogInv'
<1>1. ConfigTypeOK /\ Reading /\ Knowing
  BY DEF ConfigInv
<1>2. LogRest /\ Planned /\ Applied /\ LoggingTypeOK
  BY DEF LogInv, LogRest
<1>3. LogRest'
  BY <1>2, RestStays
<1>4. /\ cpc[t] = "write" /\ readers = {} /\ UNCHANGED <<toCall, overlap, logger, plan>>
      /\ cpc' = [cpc EXCEPT ![t] = "idle"] /\ arg' = [arg EXCEPT ![t] = Default] /\ val' = arg[t]
  BY DEF Assign, WriteLockFree, Assigned, logging
<1>5. (\A u \in Threads \ {t} : cpc'[u] = cpc[u]) /\ cpc'[t] = "idle"
  BY <1>1, <1>4 DEF ConfigTypeOK
<1>6. Planned'
  <2> SUFFICES ASSUME NEW u \in Threads
               PROVE  PlannedAt(u)'
    BY DEF Planned
  <2>1. PlannedAt(u) /\ plan'[u] = plan[u]
    BY <1>2, <1>4 DEF Planned
  <2>2. cpc[u] # "call"
    BY <1>1, <1>4 DEF Reading
  <2>3. plan[u].pos = 0
    BY <2>1, <2>2 DEF PlannedAt
  <2> QED
    BY <2>1, <2>3, PlannedStays
<1>7. Applied'
  <2> SUFFICES ASSUME ~overlap'
               PROVE  /\ Assigning' = {} => AllMatch(val)'
                      /\ \A u \in Assigning' : AppliedAt(u)'
    BY DEF Applied
  <2>1. t \in Assigning /\ ~overlap
    BY <1>4 DEF Assigning
  <2>2. Assigning = {t}
    BY <1>1, <2>1 DEF Knowing
  <2>3. Assigning' = {}
    BY <1>5, <2>2 DEF Assigning
  <2>4. toCall[t] = {} /\ plan[t].pos = 0
    BY <1>1, <1>4 DEF Reading, NoPlan
  <2>5. AllMatch(arg[t])
    BY <1>2, <2>1, <2>4 DEF Applied, AppliedAt
  <2>6. AllMatch(val)'
    BY <1>4, <2>5 DEF AllMatch
  <2> QED
    BY <2>3, <2>6
<1> QED
  BY <1>3, <1>6, <1>7 DEF LogInv, LogRest

-----------------------------------------------------------------------------
(* The log listener's steps. *)

\* setValue calls its listeners; with the log listener begins the way through the
\* definitions.
LEMMA NotifyLogKeeps ==
  ASSUME ConfigInv, LogInv, NEW t \in Threads, NotifyLog(t)
  PROVE  LogInv'
<1>1. ConfigTypeOK /\ Reading /\ Knowing
  BY DEF ConfigInv
<1>2. LogRest /\ Planned /\ Applied /\ LoggingTypeOK
  BY DEF LogInv, LogRest
<1>3. /\ plan[t] = NoPlan /\ cpc[t] = "call" /\ UNCHANGED <<val, cpc, arg, overlap>>
      /\ UNCHANGED <<logger, lock, lpc, ev, written, status, nextEv, touched, disk, faults>>
  BY DEF NotifyLog, CallListener
<1>4. PICK l \in toCall[t] : First(l, toCall[t]) /\ toCall' = [toCall EXCEPT ![t] = @ \ {l}]
  BY DEF NotifyLog, CallListener
<1>5. /\ toCall'[t] = toCall[t] \ {l} /\ toCall[t] \subseteq Listeners
      /\ \A u \in Threads \ {t} : toCall'[u] = toCall[u]
  BY <1>1, <1>4 DEF ConfigTypeOK
<1>6. 1 \notin toCall'[t]
  <2>1. 1 \in toCall[t] => l = 1
    BY <1>4, <1>5 DEF First, Listeners
  <2> QED
    BY <1>5, <2>1
<1>7. plan \in [Threads -> [pos : Nat, step : Nat]]
  BY <1>2 DEF LoggingTypeOK
<1>8. \/ 1 \notin toCall[t] /\ plan' = plan
      \/ 1 \in toCall[t] /\ GoOn(t, 0)
  BY DEF NotifyLog
<1>9. /\ plan' \in [Threads -> [pos : Nat, step : Nat]]
      /\ \A u \in Threads \ {t} : plan'[u] = plan[u]
      /\ \/ plan'[t] = NoPlan /\ 1 \notin toCall[t]
         \/ /\ 1 \in toCall[t] /\ plan'[t] = NoPlan
            /\ \A i \in OnLoggerConfChanged(t) : i <= 0
         \/ /\ 1 \in toCall[t] /\ plan'[t].pos \in OnLoggerConfChanged(t) /\ plan'[t].pos > 0
            /\ plan'[t].step = 0
            /\ \A i \in OnLoggerConfChanged(t) : i > 0 => plan'[t].pos <= i
  BY <1>1, <1>2, <1>3, <1>7, <1>8, GoesOn
<1>10. LogRest'
  BY <1>2, <1>3, <1>9, RestMoves
<1>11. OnLoggerConfChanged(t)' = OnLoggerConfChanged(t)
  BY <1>3, SameListener
<1>12. \A i \in OnLoggerConfChanged(t) : i > 0 /\ i \in Nat
  BY <1>1, Defines
<1>13. Planned'
  <2> SUFFICES ASSUME NEW u \in Threads
               PROVE  PlannedAt(u)'
    BY DEF Planned
  <2>1. CASE u # t
    <3>1. PlannedAt(u) /\ plan'[u] = plan[u]
      BY <1>2, <1>9, <2>1 DEF Planned
    <3> QED
      BY <1>3, <1>5, <2>1, <3>1, PlannedStays
  <2>2. CASE u = t /\ plan'[t] = NoPlan
    BY <2>2 DEF PlannedAt, NoPlan
  <2>3. CASE u = t /\ plan'[t] # NoPlan
    BY <1>3, <1>6, <1>9, <1>11, <1>12, <2>3 DEF PlannedAt
  <2> QED
    BY <2>1, <2>2, <2>3
<1>14. Applied'
  <2> SUFFICES ASSUME ~overlap
               PROVE  /\ Assigning' = {} => AllMatch(val)'
                      /\ \A u \in Assigning' : AppliedAt(u)'
    BY <1>3 DEF Applied
  <2>1. t \in Assigning /\ Assigning' = Assigning
    BY <1>3 DEF Assigning
  <2>2. Assigning = {t}
    BY <1>1, <2>1 DEF Knowing
  <2>3. AppliedAt(t)
    BY <1>2, <2>1 DEF Applied
  <2>4. plan[t].pos = 0 /\ NoPlan.pos = 0
    BY <1>3 DEF NoPlan
  <2>5. \A i \in DOMAIN arg[t] : i \notin OnLoggerConfChanged(t) /\ AllMatch(val)
            => Matches(logger[arg[t][i].name], arg[t][i])
    BY <1>1, LeftAlone
  <2>6. \A i \in DOMAIN arg[t] : i \in Nat
    BY <1>1, ValuesAre DEF ConfigTypeOK
  <2>7. CASE 1 \notin toCall[t]
    <3>1. AllMatch(arg[t])
      BY <2>3, <2>4, <2>7 DEF AppliedAt
    <3>2. AllMatch(arg[t])' /\ plan'[t].pos = 0
      BY <1>3, <1>9, <2>4, <2>7, <3>1 DEF AllMatch
    <3> QED
      BY <1>6, <2>1, <2>2, <3>2 DEF AppliedAt
  <2>8. CASE 1 \in toCall[t]
    <3>1. AllMatch(val)
      BY <2>3, <2>8 DEF AppliedAt
    <3>2. CASE plan'[t] = NoPlan
      <4>1. \A i \in OnLoggerConfChanged(t) : FALSE
        BY <1>9, <1>12, <2>4, <2>8, <3>2
      <4>2. AllMatch(arg[t])'
        BY <1>3, <2>5, <3>1, <4>1 DEF AllMatch
      <4> QED
        BY <1>6, <2>1, <2>2, <2>4, <3>2, <4>2 DEF AppliedAt
    <3>3. CASE plan'[t] # NoPlan
      <4>1. plan'[t].pos > 0 /\ plan'[t].step = 0 /\ plan'[t].pos \in Nat
        BY <1>9, <1>12, <3>3
      <4>2. \A i \in DOMAIN arg[t] : i < plan'[t].pos => i \notin OnLoggerConfChanged(t)
        BY <1>9, <1>12, <2>6, <3>3, <4>1
      <4>3. Brought(t)'
        BY <1>3, <1>11, <2>5, <3>1, <4>1, <4>2 DEF Brought, Partly
      <4> QED
        BY <1>6, <2>1, <2>2, <4>1, <4>3 DEF AppliedAt
    <3> QED
      BY <3>2, <3>3
  <2> QED
    BY <2>7, <2>8
<1> QED
  BY <1>10, <1>13, <1>14 DEF LogInv, LogRest

\* One call of the listener, for definition d and the logger of its name.
Called(l, m, d, s, gone) ==
  /\ s = 0 => m.level = IF gone THEN UNKNOW ELSE d.level
  /\ s = 1 => m.level = l.level /\ m.fmt = d.fmt
  /\ s = 2 => m.level = l.level /\ m.fmt = l.fmt /\ m.apps = <<>>
  /\ s > 2 => /\ m.level = l.level /\ m.fmt = l.fmt
              /\ Len(m.apps) = Len(l.apps) + 1
              /\ \A i \in 1..Len(l.apps) : m.apps[i] = l.apps[i]
              /\ LET b == m.apps[Len(l.apps) + 1] a == d.apps[s - 2]
                 IN b.to = a.to /\ (Valid(a.fmt) => b.fmt = a.fmt)

LEMMA OneCall ==
  ASSUME ConfigTypeOK, LoggingTypeOK, NEW t \in Threads, PlannedAt(t), PlanStep(t),
         NEW d, d = DefineAt(t, plan[t].pos)
  PROVE  /\ d \in Definition /\ logger' \in [All -> LoggerRec]
         /\ \A x \in All \ {d.name} : logger'[x] = logger[x]
         /\ Formatted(logger[d.name]) => Formatted(logger'[d.name])
         /\ disk = "ok" /\ Open(logger[d.name]) => Open(logger'[d.name])
         /\ Called(logger[d.name], logger'[d.name], d, plan[t].step, Gone(t, plan[t].pos))
<1> DEFINE s == plan[t].step
           l == logger[d.name]
           m == logger'[d.name]
           gone == Gone(t, plan[t].pos)
<1>1. /\ plan[t].pos \in OnLoggerConfChanged(t) /\ (s > 2 => s - 2 \in DOMAIN d.apps) /\ (s = 1 => Valid(d.fmt))
      /\ plan[t] \in [pos : Nat, step : Nat]
  BY DEF PlannedAt, PlanStep, LoggingTypeOK
<1>2. d \in Definition /\ s \in Nat
  BY <1>1, Defines
<1>3. /\ logger \in [All -> LoggerRec] /\ d.name \in All /\ d.level \in UNKNOW..FATAL /\ d.fmt \in STRING
      /\ d.apps \in Seq([to : STRING, fmt : STRING]) /\ UNKNOW \in UNKNOW..FATAL
  BY <1>2 DEF Definition, LoggingTypeOK, LoggerRec, UNKNOW, FATAL
<1>4. l \in LoggerRec
  BY <1>3
<1> DEFINE new == CASE s = 0 -> [l EXCEPT !.level = IF gone THEN UNKNOW ELSE d.level]
                    [] s = 1 -> SetFormatter(l, d.fmt)
                    [] s = 2 -> Clear(l)
                    [] s > 2 -> AddAppender(l, NewAppender(d.apps[s - 2]))
<1>5. logger' = [logger EXCEPT ![d.name] = new]
  BY DEF PlanStep
<1> HIDE DEF new
<1>6. m = new
  BY <1>3, <1>5
<1>7. logger' = [logger EXCEPT ![d.name] = m]
  BY <1>5, <1>6
<1> HIDE DEF s, l, m, gone
<1>8. /\ m \in LoggerRec /\ (Formatted(l) => Formatted(m)) /\ (disk = "ok" /\ Open(l) => Open(m))
      /\ Called(l, m, d, s, gone)
  <2>1. CASE s = 0
    <3> DEFINE v == IF gone THEN UNKNOW ELSE d.level
    <3>1. m = [l EXCEPT !.level = v]
      BY <1>6, <2>1 DEF new
    <3>2. v \in UNKNOW..FATAL
      BY <1>3
    <3>3. Called(l, m, d, s, gone) <=> m.level = v
      BY <2>1 DEF Called
    <3> HIDE DEF v
    <3>4. m \in LoggerRec /\ m.level = v /\ m.fmt = l.fmt /\ m.apps = l.apps
      BY <1>4, <3>1, <3>2, SetsLevel
    <3> QED
      BY <3>3, <3>4 DEF Formatted, Open
  <2>2. CASE s = 1
    <3> DEFINE f == SetFormatter(l, d.fmt)
    <3>1. m = f
      BY <1>6, <2>2 DEF new
    <3>2. /\ f \in LoggerRec /\ f.level = l.level /\ f.fmt = d.fmt
          /\ (Formatted(l) => Formatted(f)) /\ (Open(l) => Open(f))
      BY <1>1, <1>3, <1>4, <2>2, SetsFormatter
    <3> HIDE DEF f
    <3> QED
      BY <2>2, <3>1, <3>2 DEF Called
  <2>3. CASE s = 2
    <3>1. m = Clear(l)
      BY <1>6, <2>3 DEF new
    <3>2. m \in LoggerRec /\ m.level = l.level /\ m.fmt = l.fmt /\ m.apps = <<>>
      BY <1>4, <3>1, Clears
    <3> QED
      BY <2>3, <3>2 DEF Called, Formatted, Open
  <2>4. CASE s > 2
    <3> DEFINE x == d.apps[s - 2]
               a == NewAppender(x)
    <3>1. m = AddAppender(l, a)
      BY <1>2, <1>6, <2>4 DEF new
    <3>2. x \in [to : STRING, fmt : STRING]
      <4>1. s - 2 \in DOMAIN d.apps
        BY <1>1, <2>4 DEF s
      <4>2. \A k \in DOMAIN d.apps : d.apps[k] \in [to : STRING, fmt : STRING]
        BY <1>3, Elements, Zenon
      <4> QED
        BY <4>1, <4>2
    <3> HIDE DEF x
    <3>3. /\ a \in Appender /\ a.to = x.to /\ (a.own <=> Valid(x.fmt))
          /\ a.fmt = IF Valid(x.fmt) THEN x.fmt ELSE None
          /\ disk = "ok" => a.stream = "open"
      BY <3>2, Makes
    <3> HIDE DEF a
    <3>4. /\ m \in LoggerRec /\ m.level = l.level /\ m.fmt = l.fmt
          /\ Len(m.apps) = Len(l.apps) + 1
          /\ \A i \in 1..Len(l.apps) : m.apps[i] = l.apps[i]
      BY <1>4, <3>1, <3>3, AddsAppender
    <3> DEFINE b == m.apps[Len(l.apps) + 1]
    <3>5. /\ b.to = a.to /\ b.own = a.own /\ b.stream = a.stream
          /\ b.fmt = IF a.fmt = None THEN l.fmt ELSE a.fmt
      BY <1>4, <3>1, <3>3, AddsAppender
    <3>6. /\ b.to = x.to /\ (Valid(x.fmt) => b.fmt = x.fmt)
          /\ (~b.own => b.fmt = l.fmt) /\ (Valid(l.fmt) => Valid(b.fmt))
      BY <3>3, <3>5 DEF Valid
    <3>7. /\ l.apps \in Seq(Appender) /\ m.apps \in Seq(Appender)
      BY <1>4, <3>4 DEF LoggerRec
    <3> HIDE DEF b
    <3>8. \A i \in DOMAIN m.apps : i \in 1..Len(l.apps) \/ i = Len(l.apps) + 1
      BY <3>4, <3>7
    <3>9. DOMAIN l.apps = 1..Len(l.apps)
      BY <3>7
    <3>10. Formatted(l) => Formatted(m)
      BY <3>4, <3>6, <3>8, <3>9 DEF Formatted, b
    <3>11. disk = "ok" /\ Open(l) => Open(m)
      BY <3>3, <3>4, <3>5, <3>8, <3>9 DEF Open, b
    <3>12. Called(l, m, d, s, gone)
      BY <2>4, <3>4, <3>6 DEF Called, b, x
    <3> QED
      BY <3>4, <3>10, <3>11, <3>12
  <2> QED
    BY <1>2, <2>1, <2>2, <2>3, <2>4 DEF s
<1>9. logger' \in [All -> LoggerRec] /\ \A x \in All \ {d.name} : logger'[x] = logger[x]
  BY <1>3, <1>7, <1>8
<1> QED
  BY <1>2, <1>8, <1>9 DEF s, l, m, gone

\* Each call brings the logger one step nearer to its definition; the last one there.
LEMMA Progress ==
  ASSUME NEW l \in LoggerRec, NEW m \in LoggerRec, NEW d \in Definition, NEW s \in Nat,
         NEW gone, ~gone, Called(l, m, d, s, gone), Partly(l, d, s), s > 2 => s - 2 \in DOMAIN d.apps,
         NEW next, next = IF s = 0 /\ ~Valid(d.fmt) THEN 2 ELSE s + 1
  PROVE  /\ next <= 2 + Len(d.apps) => Partly(m, d, next)
         /\ next > 2 + Len(d.apps) => Matches(m, d)
<1>1. /\ d.apps \in Seq([to : STRING, fmt : STRING]) /\ Len(d.apps) \in Nat
      /\ DOMAIN d.apps = 1..Len(d.apps)
  BY DEF Definition
<1>2. /\ l.apps \in Seq(Appender) /\ m.apps \in Seq(Appender)
      /\ Len(l.apps) \in Nat /\ Len(m.apps) \in Nat
  BY DEF LoggerRec
<1>3. CASE s = 0
  <2>1. m.level = d.level
    BY <1>3 DEF Called
  <2>2. next <= 2 /\ next \in Nat /\ (next >= 2 => ~Valid(d.fmt))
    BY <1>3
  <2> QED
    BY <1>1, <2>1, <2>2 DEF Partly
<1>4. CASE s = 1
  <2>1. m.level = d.level /\ m.fmt = d.fmt
    BY <1>4 DEF Called, Partly
  <2>2. next = 2
    BY <1>4
  <2> QED
    BY <1>1, <2>1, <2>2 DEF Partly
<1>5. CASE s = 2
  <2>1. m.level = d.level /\ (Valid(d.fmt) => m.fmt = d.fmt) /\ m.apps = <<>>
    BY <1>5 DEF Called, Partly
  <2>2. next = 3
    BY <1>5
  <2>3. Len(m.apps) = 0
    BY <2>1
  <2> QED
    BY <1>1, <2>1, <2>2, <2>3 DEF Partly, Matches
<1>6. CASE s > 2
  <2>1. /\ m.level = d.level /\ (Valid(d.fmt) => m.fmt = d.fmt)
        /\ Len(l.apps) = s - 3 /\ Len(m.apps) = s - 2
    BY <1>6 DEF Called, Partly
  <2>2. \A k \in 1..(s - 3) : /\ m.apps[k].to = d.apps[k].to
                              /\ Valid(d.apps[k].fmt) => m.apps[k].fmt = d.apps[k].fmt
    BY <1>6, <2>1 DEF Called, Partly
  <2>3. /\ m.apps[s - 2].to = d.apps[s - 2].to
        /\ Valid(d.apps[s - 2].fmt) => m.apps[s - 2].fmt = d.apps[s - 2].fmt
    <3>1. Len(l.apps) + 1 = s - 2
      BY <1>6, <2>1
    <3> QED
      BY <1>6, <3>1 DEF Called
  <2>4. \A k \in 1..(s - 2) : /\ m.apps[k].to = d.apps[k].to
                              /\ Valid(d.apps[k].fmt) => m.apps[k].fmt = d.apps[k].fmt
    <3>1. \A k \in 1..(s - 2) : k \in 1..(s - 3) \/ k = s - 2
      BY <1>6
    <3> QED
      BY <2>2, <2>3, <3>1
  <2>5. next = s + 1 /\ next - 3 = s - 2
    BY <1>6
  <2>6. next <= 2 + Len(d.apps) => Partly(m, d, next)
    BY <1>6, <2>1, <2>4, <2>5 DEF Partly
  <2>7. ASSUME next > 2 + Len(d.apps)
        PROVE  Matches(m, d)
    <3>1. Len(d.apps) = s - 2 /\ DOMAIN d.apps = 1..(s - 2)
      BY <1>1, <1>6, <2>5, <2>7
    <3> QED
      BY <2>1, <2>4, <3>1 DEF Matches
  <2> QED
    BY <2>6, <2>7
<1> QED
  BY <1>3, <1>4, <1>5, <1>6

\* What NextCall makes of the listener's place.
LEMMA NextPlace ==
  ASSUME ConfigTypeOK, LoggingTypeOK, NEW t \in Threads, PlanStep(t),
         NEW k \in Nat, k = plan[t].pos, NEW s \in Nat, s = plan[t].step,
         NEW d, d = DefineAt(t, k), NEW next,
         next = IF s = 0 /\ (Gone(t, k) \/ ~Valid(d.fmt)) THEN 2 ELSE s + 1
  PROVE  \/ /\ next <= 2 \/ (~Gone(t, k) /\ next <= 2 + Len(d.apps))
            /\ plan' = [plan EXCEPT ![t].step = next]
         \/ ~(next <= 2 \/ (~Gone(t, k) /\ next <= 2 + Len(d.apps))) /\ GoOn(t, k)
<1>1. NextCall(t, d)
  BY DEF PlanStep
<1> QED
  BY <1>1 DEF NextCall

LEMMA PlanStepKeeps ==
  ASSUME ConfigInv, LogInv, NEW t \in Threads, PlanStep(t)
  PROVE  LogInv'
<1> DEFINE k == plan[t].pos
           s == plan[t].step
           d == DefineAt(t, k)
           gone == Gone(t, k)
           next == IF s = 0 /\ (gone \/ ~Valid(d.fmt)) THEN 2 ELSE s + 1
           more == next <= 2 \/ (~gone /\ next <= 2 + Len(d.apps))
<1>1. ConfigTypeOK /\ Reading /\ Knowing
  BY DEF ConfigInv
<1>2. /\ LogRest /\ Planned /\ Applied /\ LoggingTypeOK /\ PlannedAt(t)
      /\ Inherits /\ Faultless /\ RootFilled /\ Eventful /\ NothingLost
  BY DEF LogInv, LogRest, Planned
<1>3. /\ k # 0 /\ touched' = touched \cup {d.name}
      /\ UNCHANGED <<val, cpc, arg, toCall, overlap>>
      /\ UNCHANGED <<lock, lpc, ev, written, status, nextEv, disk, faults>>
  BY DEF PlanStep, config
<1>4. plan \in [Threads -> [pos : Nat, step : Nat]] /\ k \in Nat /\ s \in Nat /\ next \in Nat
  BY <1>2 DEF LoggingTypeOK
<1>5. /\ cpc[t] = "call" /\ 1 \notin toCall[t] /\ k \in OnLoggerConfChanged(t)
      /\ (s = 1 => Valid(d.fmt))
      /\ (s \in {1, 3} \/ s > 3 => ~gone)
      /\ s > 2 => s - 2 \in DOMAIN d.apps
  BY <1>2, <1>3 DEF PlannedAt
<1>6. /\ d \in Definition /\ logger' \in [All -> LoggerRec]
      /\ \A x \in All \ {d.name} : logger'[x] = logger[x]
      /\ (Formatted(logger[d.name]) => Formatted(logger'[d.name]))
      /\ (disk = "ok" /\ Open(logger[d.name]) => Open(logger'[d.name]))
      /\ Called(logger[d.name], logger'[d.name], d, s, gone)
  BY <1>1, <1>2, OneCall
<1>7. /\ ~gone => k \in DOMAIN arg[t] /\ d = arg[t][k]
      /\ gone => k > Len(arg[t]) /\ \A i \in DOMAIN arg[t] : arg[t][i].name # d.name
  BY <1>1, <1>5, Defines
<1>8. \/ more /\ plan' = [plan EXCEPT ![t].step = next]
      \/ ~more /\ GoOn(t, k)
  BY <1>1, <1>2, <1>4, NextPlace
<1>9. /\ OnLoggerConfChanged(t)' = OnLoggerConfChanged(t)
      /\ \A j : DefineAt(t, j)' = DefineAt(t, j) /\ (Gone(t, j)' <=> Gone(t, j))
  BY <1>3, SameListener
<1>10. \A i \in OnLoggerConfChanged(t) : i > 0 /\ i \in Nat
  BY <1>1, Defines
<1>11. d.apps \in Seq([to : STRING, fmt : STRING]) /\ d.name \in All
  BY <1>6 DEF Definition
<1>12. Len(d.apps) \in Nat /\ DOMAIN d.apps = 1..Len(d.apps)
  BY <1>11
<1>13. /\ plan' \in [Threads -> [pos : Nat, step : Nat]]
       /\ \A u \in Threads \ {t} : plan'[u] = plan[u]
       /\ \/ more /\ plan'[t].pos = k /\ plan'[t].step = next
          \/ /\ ~more /\ plan'[t] = NoPlan
             /\ \A i \in OnLoggerConfChanged(t) : i <= k
          \/ /\ ~more /\ plan'[t].pos \in OnLoggerConfChanged(t) /\ plan'[t].pos > k
             /\ plan'[t].step = 0
             /\ \A i \in OnLoggerConfChanged(t) : i > k => plan'[t].pos <= i
  <2> HIDE DEF next, more
  <2>1. CASE more /\ plan' = [plan EXCEPT ![t].step = next]
    BY <1>4, <2>1
  <2>2. CASE ~more /\ GoOn(t, k)
    BY <1>1, <1>2, <1>4, <2>2, GoesOn
  <2> QED
    BY <1>8, <2>1, <2>2
<1>14. next = 1 => s = 0 /\ ~gone /\ Valid(d.fmt)
  BY <1>4
<1>15. (next > 2 /\ more) => ~gone /\ next - 2 \in DOMAIN d.apps
  BY <1>4, <1>12
<1> HIDE DEF k, s, d, gone, next, more
<1>16. Planned'
  <2> SUFFICES ASSUME NEW u \in Threads
               PROVE  PlannedAt(u)'
    BY DEF Planned
  <2>1. CASE u # t
    <3>1. PlannedAt(u) /\ plan'[u] = plan[u]
      BY <1>2, <1>13, <2>1 DEF Planned
    <3> QED
      BY <1>3, <2>1, <3>1, PlannedStays
  <2>2. CASE u = t /\ more
    <3>1. plan'[t].pos = k /\ plan'[t].step = next
      BY <1>13, <2>2
    <3>3. k \in OnLoggerConfChanged(t)' /\ cpc'[t] = "call" /\ 1 \notin toCall'[t]
      BY <1>3, <1>5, <1>9
    <3>4. /\ next = 1 => Valid(d.fmt)
          /\ next \in {1, 3} \/ next > 3 => ~gone
          /\ next > 2 => next - 2 \in DOMAIN d.apps
      BY <1>4, <1>14, <1>15, <2>2
    <3>5. DefineAt(t, plan[t].pos)' = d /\ (Gone(t, plan[t].pos)' <=> gone)
      BY <1>3, <1>9, <3>1 DEF DefineAt, Gone, d, gone
    <3> QED
      BY <1>3, <2>2, <3>1, <3>3, <3>4, <3>5 DEF PlannedAt
  <2>3. CASE u = t /\ plan'[t] = NoPlan
    BY <2>3 DEF PlannedAt, NoPlan
  <2>4. CASE u = t /\ ~more /\ plan'[t] # NoPlan
    BY <1>3, <1>5, <1>9, <1>10, <1>13, <2>4 DEF PlannedAt
  <2> QED
    BY <1>13, <2>1, <2>2, <2>3, <2>4
<1>17. LogRest'
  <2>1. LoggingTypeOK'
    BY <1>2, <1>3, <1>6, <1>11, <1>13 DEF LoggingTypeOK, LoggerRec
  <2>2. Inherits'
    <3>1. \A n \in All : Formatted(logger[n])
      BY <1>2 DEF Inherits
    <3>2. \A n \in All : Formatted(logger'[n])
      BY <1>6, <1>11, <3>1
    <3> QED
      BY <3>2 DEF Inherits
  <2>3. Faultless'
    <3> SUFFICES ASSUME faults = 0
                 PROVE  disk = "ok" /\ \A n \in All : Open(logger'[n])
      BY <1>3 DEF Faultless, Open
    <3>1. disk = "ok" /\ \A n \in All : Open(logger[n])
      BY <1>2 DEF Faultless, Open
    <3> QED
      BY <1>6, <1>11, <3>1
  <2>4. RootFilled'
    <3>1. Root \in All
      BY LoggingAssumption
    <3> QED
      BY <1>2, <1>3, <1>6, <3>1 DEF RootFilled
  <2>5. Eventful' /\ NothingLost'
    BY <1>2, <1>3 DEF Eventful, NothingLost
  <2> QED
    BY <2>1, <2>2, <2>3, <2>4, <2>5 DEF LogRest
<1>18. Applied'
  <2> SUFFICES ASSUME ~overlap
               PROVE  /\ Assigning' = {} => AllMatch(val)'
                      /\ \A u \in Assigning' : AppliedAt(u)'
    BY <1>3 DEF Applied
  <2>1. t \in Assigning /\ Assigning' = Assigning
    BY <1>3, <1>5 DEF Assigning
  <2>2. Assigning = {t}
    BY <1>1, <2>1 DEF Knowing
  <2>3. AppliedAt(t)
    BY <1>2, <2>1 DEF Applied
  <2>4. Brought(t)
    BY <1>3, <1>5, <2>3 DEF AppliedAt, k
  <2>5. arg[t] \in Seq(Definition) /\ \A i, j \in DOMAIN arg[t] : arg[t][i].name = arg[t][j].name => i = j
    BY <1>1, ValuesAre DEF ConfigTypeOK
  <2>6. \A i \in DOMAIN arg[t] : i \in Nat /\ arg[t][i] \in Definition /\ arg[t][i].name \in All
    <3>1. \A i \in DOMAIN arg[t] : arg[t][i] \in Definition
      BY <2>5, Elements, Zenon
    <3>2. \A i \in DOMAIN arg[t] : i \in Nat
      BY <2>5
    <3> QED
      BY <3>1, <3>2 DEF Definition
  <2>7. \A i \in DOMAIN arg[t] : i <= Len(arg[t])
    BY <2>5
  <2> DEFINE here(i) == Matches(logger[arg[t][i].name], arg[t][i])
             there(i) == Matches(logger'[arg[t][i].name], arg[t][i])
  \* The other loggers stay where they are.
  <2>8. \A i \in DOMAIN arg[t] : i # k \/ gone => logger'[arg[t][i].name] = logger[arg[t][i].name]
    <3> SUFFICES ASSUME NEW i \in DOMAIN arg[t], i # k \/ gone
                 PROVE  arg[t][i].name # d.name
      BY <1>6, <2>6
    <3> QED
      BY <1>7, <2>5
  <2>9. \A i \in DOMAIN arg[t] : i # k \/ gone => (here(i) => there(i))
    BY <2>8
  <2>10. \A i \in DOMAIN arg[t] : i < k \/ i \notin OnLoggerConfChanged(t) => here(i)
    BY <2>4 DEF Brought, k
  \* The one that was called.
  <2>11. ~gone => IF more THEN Partly(logger'[d.name], d, next) ELSE Matches(logger'[d.name], d)
    <3> SUFFICES ASSUME ~gone
                 PROVE  IF more THEN Partly(logger'[d.name], d, next) ELSE Matches(logger'[d.name], d)
      OBVIOUS
    <3>1. Partly(logger[d.name], d, s)
      BY <1>7, <2>4 DEF Brought, k, s
    <3>2. logger[d.name] \in LoggerRec /\ logger'[d.name] \in LoggerRec
      BY <1>2, <1>6, <1>11 DEF LoggingTypeOK, LoggerRec
    <3>3. next = IF s = 0 /\ ~Valid(d.fmt) THEN 2 ELSE s + 1
      BY DEF next
    <3>5. /\ next <= 2 + Len(d.apps) => Partly(logger'[d.name], d, next)
          /\ next > 2 + Len(d.apps) => Matches(logger'[d.name], d)
      BY <1>4, <1>5, <1>6, <3>1, <3>2, <3>3, Progress
    <3> QED
      BY <1>4, <1>12, <3>5 DEF more
  <2>12. CASE more
    <3>1. plan'[t].pos = k /\ plan'[t].step = next
      BY <1>13, <2>12
    <3>2. \A i \in DOMAIN arg[t] : i < k \/ i \notin OnLoggerConfChanged(t) => there(i)
      BY <1>4, <1>5, <2>6, <2>9, <2>10
    <3>3. \A i \in DOMAIN arg[t] : i = k => Partly(logger'[arg[t][i].name], arg[t][i], next)
      BY <1>7, <2>7, <2>11, <2>12
    <3>4. Brought(t)'
      BY <1>3, <1>9, <3>1, <3>2, <3>3 DEF Brought
    <3> QED
      BY <1>3, <1>4, <1>5, <2>1, <2>2, <3>1, <3>4, <1>10 DEF AppliedAt
  <2>13. CASE ~more
    <3>1. \A i \in DOMAIN arg[t] : i = k => there(i)
      <4>1. CASE gone
        BY <1>7, <2>7, <4>1
      <4>2. CASE ~gone
        BY <1>7, <2>11, <2>13, <4>2
      <4> QED
        BY <4>1, <4>2
    <3>2. \A i \in DOMAIN arg[t] : i <= k \/ i \notin OnLoggerConfChanged(t) => there(i)
      <4> SUFFICES ASSUME NEW i \in DOMAIN arg[t], i <= k \/ i \notin OnLoggerConfChanged(t), i # k
                   PROVE  there(i)
        BY <3>1
      <4>1. i < k \/ i \notin OnLoggerConfChanged(t)
        BY <1>4, <2>6
      <4> QED
        BY <2>9, <2>10, <4>1
    <3> HIDE DEF here, there
    <3>3. CASE plan'[t] = NoPlan
      <4>1. plan'[t].pos = 0
        BY <3>3 DEF NoPlan
      <4>2. \A i \in OnLoggerConfChanged(t) : i <= k
        BY <1>5, <1>10, <1>13, <2>13, <3>3, <4>1
      <4>3. \A i \in DOMAIN arg[t] : there(i)
        BY <3>2, <4>2
      <4>4. AllMatch(arg[t])'
        BY <1>3, <4>3 DEF AllMatch, there
      <4> QED
        BY <1>3, <1>5, <2>1, <2>2, <4>1, <4>4 DEF AppliedAt
    <3>4. CASE plan'[t] # NoPlan
      <4>1. /\ plan'[t].pos \in OnLoggerConfChanged(t) /\ plan'[t].pos > k /\ plan'[t].step = 0
            /\ \A i \in OnLoggerConfChanged(t) : i > k => plan'[t].pos <= i
        BY <1>13, <2>13, <3>4
      <4>2. \A i \in DOMAIN arg[t] : i < plan'[t].pos \/ i \notin OnLoggerConfChanged(t) => there(i)
        <5> SUFFICES ASSUME NEW i \in DOMAIN arg[t], i < plan'[t].pos \/ i \notin OnLoggerConfChanged(t)
                     PROVE  i <= k \/ i \notin OnLoggerConfChanged(t)
          BY <3>2
        <5> QED
          BY <1>4, <1>10, <2>6, <4>1
      <4>3. Brought(t)'
        BY <1>3, <1>9, <4>1, <4>2 DEF Brought, Partly, there
      <4>4. plan'[t].pos # 0
        BY <1>10, <4>1
      <4> QED
        BY <1>3, <1>5, <2>1, <2>2, <4>3, <4>4 DEF AppliedAt
    <3> QED
      BY <3>3, <3>4
  <2> QED
    BY <2>12, <2>13
<1> QED
  BY <1>16, <1>17, <1>18 DEF LogInv, LogRest

-----------------------------------------------------------------------------
(* The threads that log, and the disk. *)

LEMMA ListenersStay ==
  ASSUME ConfigInv, LogInv, UNCHANGED <<config, plan>>,
         \A n \in All : Like(logger[n], logger'[n])
  PROVE  Planned' /\ Applied'
<1>1. UNCHANGED <<val, cpc, arg, toCall, overlap>>
  BY DEF config
<1>2. Assigning' = Assigning
  BY <1>1 DEF Assigning
<1>3. ConfigTypeOK /\ LoggingTypeOK /\ Planned /\ Applied
  BY DEF ConfigInv, LogInv
<1>4. Applied'
  BY <1>1, <1>2, <1>3, AppliedStays
<1>5. ASSUME NEW t \in Threads
      PROVE  PlannedAt(t)'
  <2>1. PlannedAt(t)
    BY <1>3 DEF Planned
  <2> QED
    BY <1>1, <2>1, PlannedStays
<1> QED
  BY <1>4, <1>5 DEF Planned

\* The loop over the appenders: destinations and formatters stay, and without a fault
\* every appender is written to.
LEMMA Writes ==
  ASSUME LoggingTypeOK, NEW n \in All, NEW e \in Events, NEW due \in BOOLEAN, WriteAll(n, e, due)
  PROVE  /\ logger' \in [All -> LoggerRec] /\ written' \in [Events -> SUBSET STRING]
         /\ \A x \in All : Like(logger[x], logger'[x])
         /\ \A x \in All \ {n} : logger'[x] = logger[x]
         /\ \A x \in Events \ {e} : written'[x] = written[x]
         /\ (disk = "ok" /\ Open(logger[n]) => Open(logger'[n]))
         /\ (disk = "ok" /\ Open(logger[n]) /\ logger[n].apps # <<>> => written'[e] # {})
<1> DEFINE old == logger[n].apps
           one(i) == [old[i] EXCEPT !.stream = Wrote(old[i], due)]
           apps == [i \in DOMAIN old |-> one(i)]
<1>1. /\ logger \in [All -> LoggerRec] /\ written \in [Events -> SUBSET STRING]
  BY DEF LoggingTypeOK, LoggerRec
<1>2. old \in Seq(Appender) /\ logger[n] \in LoggerRec
  BY <1>1 DEF LoggerRec
<1>3. /\ logger' = [logger EXCEPT ![n].apps = apps]
      /\ written' = [written EXCEPT ![e] = {apps[i].to : i \in {j \in DOMAIN apps : apps[j].stream = "open"}}]
  BY DEF WriteAll
<1>4. ASSUME NEW i \in DOMAIN old
      PROVE  /\ one(i) \in Appender /\ one(i).to = old[i].to /\ one(i).own = old[i].own
             /\ one(i).fmt = old[i].fmt
             /\ (disk = "ok" /\ old[i].stream = "open" => one(i).stream = "open")
  <2>1. old[i] \in Appender
    BY <1>2, Elements
  <2>2. Wrote(old[i], due) \in {"open", "closed", "bad"}
    BY <2>1 DEF Wrote, Reopened, Appender
  <2>3. disk = "ok" /\ old[i].stream = "open" => Wrote(old[i], due) = "open"
    BY DEF Wrote, Reopened
  <2> QED
    BY <2>1, <2>2, <2>3 DEF Appender
<1> HIDE DEF one
<1>5. /\ apps \in Seq(Appender) /\ DOMAIN apps = DOMAIN old
      /\ \A i \in DOMAIN old : apps[i] = one(i)
  BY <1>2, <1>4
<1>6. Len(apps) = Len(old)
  BY <1>2, <1>5
<1>7. old # <<>> => \E i \in DOMAIN old : i = 1
  BY <1>2
<1> HIDE DEF old, apps
<1>8. /\ \A x \in All \ {n} : logger'[x] = logger[x]
      /\ logger' \in [All -> LoggerRec]
      /\ logger'[n] = [logger[n] EXCEPT !.apps = apps]
  <2> DEFINE m == [logger[n] EXCEPT !.apps = apps]
  <2>1. m \in LoggerRec
    BY <1>2, <1>5 DEF LoggerRec
  <2>2. logger' = [logger EXCEPT ![n] = m]
    BY <1>3
  <2> HIDE DEF m
  <2>3. logger'[n] = m /\ logger' \in [All -> LoggerRec] /\ \A x \in All \ {n} : logger'[x] = logger[x]
    BY <1>1, <2>1, <2>2
  <2> QED
    BY <2>3 DEF m
<1>9. logger'[n].apps = apps /\ logger'[n].level = logger[n].level /\ logger'[n].fmt = logger[n].fmt
  BY <1>2, <1>8 DEF LoggerRec
<1>10. \A x \in All : Like(logger[x], logger'[x])
  <2>1. Like(logger[n], logger'[n])
    BY <1>4, <1>5, <1>6, <1>9 DEF Like, old
  <2>2. \A x \in All \ {n} : Like(logger[x], logger'[x])
    BY <1>8 DEF Like
  <2> QED
    BY <2>1, <2>2
<1> DEFINE W == {apps[i].to : i \in {j \in DOMAIN apps : apps[j].stream = "open"}}
<1>11. W \in SUBSET STRING
  <2>1. \A i \in DOMAIN apps : apps[i] \in Appender
    BY <1>5, Elements, Zenon
  <2> QED
    BY <2>1 DEF Appender
<1>12. disk = "ok" /\ Open(logger[n]) => Open(logger'[n])
  BY <1>4, <1>5, <1>9 DEF Open, old
<1>13. ASSUME disk = "ok", Open(logger[n]), old # <<>>
       PROVE  W # {}
  <2>1. 1 \in DOMAIN apps
    BY <1>5, <1>7, <1>13
  <2>2. apps[1].stream = "open"
    BY <1>9, <1>12, <1>13, <2>1 DEF Open
  <2> QED
    BY <2>1, <2>2
<1>14. written' = [written EXCEPT ![e] = W]
  BY <1>3
<1> HIDE DEF W
<1>15. /\ written' \in [Events -> SUBSET STRING] /\ written'[e] = W
       /\ \A x \in Events \ {e} : written'[x] = written[x]
  BY <1>1, <1>11, <1>14
<1> QED
  BY <1>8, <1>10, <1>12, <1>13, <1>15 DEF old

LEMMA MakeEventKeeps ==
  ASSUME ConfigInv, LogInv, NEW p \in Writers, NEW n \in All, NEW lv \in DEBUG..FATAL, MakeEvent(p, n, lv)
  PROVE  LogInv'
<1>1. /\ nextEv <= MaxEvents /\ ev' = [ev EXCEPT ![p] = [id |-> nextEv, name |-> n, level |-> lv]]
      /\ status' = [status EXCEPT ![nextEv] = "made"]
      /\ nextEv' = nextEv + 1 /\ lpc' = [lpc EXCEPT ![p] = "check"]
      /\ UNCHANGED <<config, logger, lock, plan, written, touched, disk, faults>>
  BY DEF MakeEvent
<1>2. /\ LoggingTypeOK /\ Inherits /\ Faultless /\ RootFilled /\ Eventful /\ NothingLost
  BY DEF LogInv
<1>3. Planned' /\ Applied'
  BY <1>1, ListenersStay DEF Like
<1>4. nextEv \in Events /\ nextEv' \in 1..(MaxEvents + 1) /\ nextEv \in 0..MaxEvents
  BY <1>1, <1>2, LoggingAssumption DEF LoggingTypeOK, Events
<1>5. LoggingTypeOK'
  <2>1. ev' \in [Writers -> [id : 0..MaxEvents, name : All, level : DEBUG..FATAL]]
    BY <1>1, <1>2, <1>4 DEF LoggingTypeOK
  <2>2. status' \in [Events -> {"none", "made", "filtered", "done"}]
    BY <1>1, <1>2 DEF LoggingTypeOK
  <2>3. lpc' \in [Writers -> {"idle", "check", "lock", "root"}]
    BY <1>1, <1>2 DEF LoggingTypeOK
  <2> QED
    BY <1>1, <1>2, <1>4, <2>1, <2>2, <2>3 DEF LoggingTypeOK
<1>6. Inherits' /\ Faultless' /\ RootFilled'
  BY <1>1, <1>2 DEF Inherits, Faultless, RootFilled
<1>7. Eventful'
  BY <1>1, <1>2, <1>4 DEF Eventful, LoggingTypeOK, Events
<1>8. NothingLost'
  <2>1. \A e \in Events : status'[e] = "done" => status[e] = "done"
    BY <1>1, <1>2 DEF LoggingTypeOK
  <2> QED
    BY <1>1, <1>2, <2>1 DEF NothingLost
<1> QED
  BY <1>3, <1>5, <1>6, <1>7, <1>8 DEF LogInv

LEMMA DiskKeeps ==
  ASSUME ConfigInv, LogInv, DiskChanges
  PROVE  LogInv'
<1>1. /\ faults < MaxFaults /\ faults' = faults + 1 /\ disk' \in {"ok", "full", "gone"}
      /\ UNCHANGED <<config, logger, lock, plan, lpc, ev, written, status, nextEv, touched>>
  BY DEF DiskChanges
<1>2. /\ LoggingTypeOK /\ Inherits /\ Faultless /\ RootFilled /\ Eventful /\ NothingLost
  BY DEF LogInv
<1>3. Planned' /\ Applied'
  BY <1>1, ListenersStay DEF Like
<1>4. faults' \in 0..MaxFaults /\ faults' # 0
  BY <1>1, <1>2, LoggingAssumption DEF LoggingTypeOK
<1>5. LoggingTypeOK'
  BY <1>1, <1>2, <1>4 DEF LoggingTypeOK
<1>6. Inherits' /\ Faultless' /\ RootFilled' /\ Eventful' /\ NothingLost'
  BY <1>1, <1>2, <1>4 DEF Inherits, Faultless, RootFilled, Eventful, NothingLost
<1> QED
  BY <1>3, <1>5, <1>6 DEF LogInv

LEMMA CheckLevelKeeps ==
  ASSUME ConfigInv, LogInv, NEW p \in Writers, CheckLevel(p)
  PROVE  LogInv'
<1>1. /\ lpc[p] = "check" /\ UNCHANGED <<config, logger, lock, plan, ev, written, nextEv, touched, disk, faults>>
      /\ \/ lpc' = [lpc EXCEPT ![p] = "lock"] /\ status' = status
         \/ lpc' = [lpc EXCEPT ![p] = "idle"] /\ status' = [status EXCEPT ![ev[p].id] = "filtered"]
  BY DEF CheckLevel, Ends
<1>2. /\ LoggingTypeOK /\ Inherits /\ Faultless /\ RootFilled /\ Eventful /\ NothingLost
  BY DEF LogInv
<1>3. Planned' /\ Applied'
  BY <1>1, ListenersStay DEF Like
<1>4. /\ lpc \in [Writers -> {"idle", "check", "lock", "root"}]
      /\ status \in [Events -> {"none", "made", "filtered", "done"}]
  BY <1>2 DEF LoggingTypeOK
<1>5. /\ lpc' \in [Writers -> {"idle", "check", "lock", "root"}]
      /\ \A q \in Writers : lpc'[q] # "idle" => lpc[q] # "idle"
  BY <1>1, <1>4
<1>6. /\ status' \in [Events -> {"none", "made", "filtered", "done"}]
      /\ \A e \in Events : status'[e] = "done" => status[e] = "done"
  BY <1>1, <1>4
<1>7. LoggingTypeOK'
  BY <1>1, <1>2, <1>5, <1>6 DEF LoggingTypeOK
<1>8. Inherits' /\ Faultless' /\ RootFilled'
  BY <1>1, <1>2 DEF Inherits, Faultless, RootFilled
<1>9. Eventful' /\ NothingLost'
  BY <1>1, <1>2, <1>5, <1>6 DEF Eventful, NothingLost
<1> QED
  BY <1>3, <1>7, <1>8, <1>9 DEF LogInv

\* An event ends with appenders written to, or with none that had to be.
LEMMA EventWritten ==
  ASSUME ConfigInv, LogInv, NEW p \in Writers, NEW n \in All, NEW due \in BOOLEAN,
         lpc[p] # "idle", logger[n].apps # <<>> \/ n = Root,
         WriteAll(n, ev[p].id, due), Ends(p, "done"), lock' \in [All -> Writers \cup {None}],
         UNCHANGED <<config, plan, ev, nextEv, touched, disk, faults>>
  PROVE  LogInv'
<1> DEFINE e == ev[p].id
<1>1. /\ LoggingTypeOK /\ Inherits /\ Faultless /\ RootFilled /\ Eventful /\ NothingLost
  BY DEF LogInv
<1>2. e \in Events
  BY <1>1 DEF Eventful
<1>3. lpc' = [lpc EXCEPT ![p] = "idle"] /\ status' = [status EXCEPT ![e] = "done"]
  BY DEF Ends
<1>4. WriteAll(n, e, due)
  OBVIOUS
<1> HIDE DEF e
<1>5. /\ logger' \in [All -> LoggerRec] /\ written' \in [Events -> SUBSET STRING]
      /\ \A x \in All : Like(logger[x], logger'[x])
      /\ \A x \in All \ {n} : logger'[x] = logger[x]
      /\ \A x \in Events \ {e} : written'[x] = written[x]
      /\ (disk = "ok" /\ Open(logger[n]) => Open(logger'[n]))
      /\ (disk = "ok" /\ Open(logger[n]) /\ logger[n].apps # <<>> => written'[e] # {})
  BY <1>1, <1>2, <1>4, Writes
<1>6. Planned' /\ Applied'
  BY <1>5, ListenersStay
<1>7. /\ lpc \in [Writers -> {"idle", "check", "lock", "root"}]
      /\ status \in [Events -> {"none", "made", "filtered", "done"}]
      /\ logger \in [All -> LoggerRec] /\ Root \in All
  BY <1>1, LoggingAssumption DEF LoggingTypeOK, LoggerRec
<1>8. /\ lpc' \in [Writers -> {"idle", "check", "lock", "root"}]
      /\ status' \in [Events -> {"none", "made", "filtered", "done"}]
      /\ \A q \in Writers : lpc'[q] # "idle" => lpc[q] # "idle"
      /\ \A x \in Events \ {e} : status'[x] = status[x]
  BY <1>3, <1>7
<1>9. LoggingTypeOK'
  BY <1>1, <1>5, <1>8 DEF LoggingTypeOK, LoggerRec
<1>10. Inherits'
  BY <1>1, <1>5 DEF Inherits, Formatted, Like
<1>11. Faultless'
  <2> SUFFICES ASSUME faults = 0
               PROVE  disk = "ok" /\ \A x \in All : Open(logger'[x])
    BY DEF Faultless, Open
  <2>1. disk = "ok" /\ \A x \in All : Open(logger[x])
    BY <1>1 DEF Faultless, Open
  <2> QED
    BY <1>5, <2>1
<1>12. RootFilled'
  <2> SUFFICES ASSUME Root \notin touched
               PROVE  logger'[Root].apps # <<>>
    BY DEF RootFilled
  <2>1. logger[Root].apps # <<>> /\ Like(logger[Root], logger'[Root])
    BY <1>1, <1>5, <1>7 DEF RootFilled
  <2>2. logger[Root].apps \in Seq(Appender) /\ logger'[Root].apps \in Seq(Appender)
    BY <1>5, <1>7 DEF LoggerRec
  <2> QED
    BY <2>1, <2>2 DEF Like
<1>13. Eventful'
  BY <1>1, <1>8 DEF Eventful
<1>14. NothingLost'
  <2> SUFFICES ASSUME faults = 0, Root \notin touched, NEW x \in Events, status'[x] = "done"
               PROVE  written'[x] # {}
    BY DEF NothingLost
  <2>1. CASE x # e
    BY <1>1, <1>5, <1>8, <2>1 DEF NothingLost
  <2>2. CASE x = e
    <3>1. disk = "ok" /\ Open(logger[n]) /\ logger[n].apps # <<>>
      BY <1>1 DEF Faultless, RootFilled, Open
    <3> QED
      BY <1>5, <2>2, <3>1
  <2> QED
    BY <2>1, <2>2
<1> QED
  BY <1>6, <1>9, <1>10, <1>11, <1>12, <1>13, <1>14 DEF LogInv

\* A step of one event that writes nothing: it is filtered, or goes on to the root
\* logger, or the root logger has no appender because the listener has changed it.
LEMMA EventPasses ==
  ASSUME ConfigInv, LogInv, NEW p \in Writers, lpc[p] # "idle",
         NEW lp \in {"idle", "root"}, lpc' = [lpc EXCEPT ![p] = lp],
         \/ status' = status
         \/ status' = [status EXCEPT ![ev[p].id] = "filtered"]
         \/ status' = [status EXCEPT ![ev[p].id] = "done"] /\ Root \in touched,
         lock' \in [All -> Writers \cup {None}],
         UNCHANGED <<config, logger, plan, ev, written, nextEv, touched, disk, faults>>
  PROVE  LogInv'
<1>1. /\ LoggingTypeOK /\ Inherits /\ Faultless /\ RootFilled /\ Eventful /\ NothingLost
  BY DEF LogInv
<1>2. Planned' /\ Applied'
  BY ListenersStay DEF Like
<1>3. /\ lpc \in [Writers -> {"idle", "check", "lock", "root"}]
      /\ status \in [Events -> {"none", "made", "filtered", "done"}]
  BY <1>1 DEF LoggingTypeOK
<1>4. /\ lpc' \in [Writers -> {"idle", "check", "lock", "root"}]
      /\ \A q \in Writers : lpc'[q] # "idle" => lpc[q] # "idle"
  BY <1>3
<1>5. /\ status' \in [Events -> {"none", "made", "filtered", "done"}]
      /\ Root \notin touched => \A e \in Events : status'[e] = "done" => status[e] = "done"
  BY <1>3
<1>6. LoggingTypeOK'
  BY <1>1, <1>4, <1>5 DEF LoggingTypeOK
<1>7. Inherits' /\ Faultless' /\ RootFilled'
  BY <1>1 DEF Inherits, Faultless, RootFilled
<1>8. Eventful' /\ NothingLost'
  BY <1>1, <1>4, <1>5 DEF Eventful, NothingLost
<1> QED
  BY <1>2, <1>6, <1>7, <1>8 DEF LogInv

LEMMA LogHereKeeps ==
  ASSUME ConfigInv, LogInv, NEW p \in Writers, LogHere(p)
  PROVE  LogInv'
<1> DEFINE n == ev[p].name
<1>1. /\ lock \in [All -> Writers \cup {None}] /\ n \in All /\ RootFilled
  BY DEF LogInv, LoggingTypeOK
<1>2. lpc[p] # "idle" /\ UNCHANGED <<config, plan, ev, nextEv, touched, disk, faults>>
  BY DEF LogHere
<1>3. \/ /\ logger[n].apps # <<>> /\ Ends(p, "done") /\ lock' = lock
         /\ \E due \in BOOLEAN : WriteAll(n, ev[p].id, due)
      \/ /\ lock' = [lock EXCEPT ![n] = p] /\ lpc' = [lpc EXCEPT ![p] = "root"]
         /\ UNCHANGED <<logger, written, status>>
      \/ /\ logger[n].apps = <<>> /\ n = Root /\ Ends(p, "done")
         /\ UNCHANGED <<logger, lock, written>>
  BY DEF LogHere, FallsBack
<1> HIDE DEF n
<1>4. CASE /\ logger[n].apps # <<>> /\ Ends(p, "done") /\ lock' = lock
           /\ \E due \in BOOLEAN : WriteAll(n, ev[p].id, due)
  BY <1>1, <1>2, <1>4, EventWritten
<1>5. CASE /\ lock' = [lock EXCEPT ![n] = p] /\ lpc' = [lpc EXCEPT ![p] = "root"]
           /\ UNCHANGED <<logger, written, status>>
  <2>1. lock' \in [All -> Writers \cup {None}]
    BY <1>1, <1>5
  <2> QED
    BY <1>2, <1>5, <2>1, EventPasses
<1>6. CASE /\ logger[n].apps = <<>> /\ n = Root /\ Ends(p, "done")
           /\ UNCHANGED <<logger, lock, written>>
  <2>1. Root \in touched
    BY <1>1, <1>6 DEF RootFilled
  <2> QED
    BY <1>1, <1>2, <1>6, <2>1, EventPasses DEF Ends
<1> QED
  BY <1>3, <1>4, <1>5, <1>6

LEMMA LogAtRootKeeps ==
  ASSUME ConfigInv, LogInv, NEW p \in Writers, LogAtRoot(p)
  PROVE  LogInv'
<1>1. lpc[p] # "idle" /\ UNCHANGED <<config, plan, ev, nextEv, touched, disk, faults>>
  BY DEF LogAtRoot
<1>2. lock' \in [All -> Writers \cup {None}]
  BY DEF LogAtRoot, Released, LogInv, LoggingTypeOK
<1>3. \/ (\E due \in BOOLEAN : WriteAll(Root, ev[p].id, due)) /\ Ends(p, "done")
      \/ Ends(p, "filtered") /\ UNCHANGED <<logger, written>>
  BY DEF LogAtRoot
<1>4. CASE (\E due \in BOOLEAN : WriteAll(Root, ev[p].id, due)) /\ Ends(p, "done")
  BY <1>1, <1>2, <1>4, EventWritten, LoggingAssumption
<1>5. CASE Ends(p, "filtered") /\ UNCHANGED <<logger, written>>
  BY <1>1, <1>2, <1>5, EventPasses DEF Ends
<1> QED
  BY <1>3, <1>4, <1>5

-----------------------------------------------------------------------------
(* The specification. *)

LEMMA InitLog ==
  ASSUME Init
  PROVE  LogInv
<1> USE DEF Init
<1>1. /\ Root \in All /\ {Plain, None, BadFormat} \subseteq STRING /\ MaxEvents \in Nat /\ MaxFaults \in Nat
      /\ Valid(Plain)
  BY LoggingAssumption DEF Valid
<1> DEFINE own(n) == [level |-> DEBUG, fmt |-> Plain, apps |-> IF n = Root THEN <<RootStdout>> ELSE <<>>]
<1>2. RootStdout \in Appender /\ RootStdout.fmt = Plain /\ RootStdout.stream = "open"
  <2>1. RootStdout = [to |-> Stdout, own |-> FALSE, fmt |-> Plain, stream |-> "open"]
    BY DEF RootStdout
  <2>2. Stdout \in STRING /\ FALSE \in BOOLEAN /\ Plain \in STRING
    <3>1. FALSE \in BOOLEAN
      OBVIOUS
    <3>2. Stdout \in STRING /\ Plain \in STRING
      BY LoggingAssumption
    <3> QED
      BY <3>1, <3>2
  <2>3. RootStdout \in Appender
    BY <2>1, <2>2 DEF Appender
  <2>4. RootStdout.fmt = Plain /\ RootStdout.stream = "open"
    BY <2>1
  <2> QED
    BY <2>3, <2>4
<1>3. <<RootStdout>> \in Seq(Appender) /\ <<>> \in Seq(Appender)
  BY <1>2
<1>4. ASSUME NEW n \in All
      PROVE  own(n) \in LoggerRec /\ Formatted(own(n)) /\ Open(own(n))
  <2>1. DEBUG \in UNKNOW..FATAL
    BY DEF DEBUG, UNKNOW, FATAL
  <2>2. own(n) \in LoggerRec
    BY <1>1, <1>3, <2>1 DEF LoggerRec
  <2>3. CASE n = Root
    BY <1>1, <1>2, <2>2, <2>3 DEF Formatted, Open
  <2>4. CASE n # Root
    BY <1>1, <2>2, <2>4 DEF Formatted, Open
  <2> QED
    BY <2>2, <2>3, <2>4
<1>5. logger = [n \in All |-> own(n)]
  OBVIOUS
<1>6. own(Root).apps = <<RootStdout>>
  OBVIOUS
<1> HIDE DEF own
<1>7. /\ logger \in [All -> LoggerRec] /\ \A n \in All : Formatted(logger[n]) /\ Open(logger[n])
  BY <1>4, <1>5
<1>8. LoggingTypeOK
  <2>1. /\ lock \in [All -> Writers \cup {None}] /\ plan \in [Threads -> [pos : Nat, step : Nat]]
        /\ lpc \in [Writers -> {"idle", "check", "lock", "root"}]
    BY DEF NoPlan
  <2>2. ev \in [Writers -> [id : 0..MaxEvents, name : All, level : DEBUG..FATAL]]
    BY <1>1 DEF DEBUG, FATAL
  <2>3. /\ written \in [Events -> SUBSET STRING] /\ status \in [Events -> {"none", "made", "filtered", "done"}]
        /\ nextEv \in 1..(MaxEvents + 1) /\ touched \subseteq All
        /\ disk \in {"ok", "full", "gone"} /\ faults \in 0..MaxFaults
    BY <1>1
  <2> QED
    BY <1>7, <2>1, <2>2, <2>3 DEF LoggingTypeOK, LoggerRec
<1>9. Inherits /\ Faultless
  BY <1>7 DEF Inherits, Faultless, Open
<1>10. RootFilled
  <2>1. logger[Root].apps = <<RootStdout>>
    BY <1>1, <1>5, <1>6
  <2>2. <<RootStdout>> # <<>>
    BY <1>3
  <2> QED
    BY <2>1, <2>2 DEF RootFilled
<1>11. Eventful /\ NothingLost
  BY DEF Eventful, NothingLost
<1>12. Planned
  BY DEF Planned, PlannedAt, NoPlan
<1>13. Applied
  <2>1. Assigning = {}
    BY DEF ConfigInit, Assigning
  <2>2. val = Default
    BY DEF ConfigInit
  <2>3. AllMatch(val)
    BY <2>2, LoggingAssumption DEF AllMatch
  <2> QED
    BY <2>1, <2>3 DEF Applied
<1> QED
  BY <1>8, <1>9, <1>10, <1>11, <1>12, <1>13 DEF LogInv

LEMMA LogStepKeeps ==
  ASSUME ConfigInv, LogInv, [Next]_vars
  PROVE  LogInv'
<1>1. ASSUME NEW t \in Threads, Loading(t)
      PROVE  LogInv'
  <2>1. CASE NotifyLog(t) \/ PlanStep(t)
    BY <2>1, NotifyLogKeeps, PlanStepKeeps
  <2>2. CASE plan[t] = NoPlan /\ UNCHANGED logging /\ (NextKey(t) \/ SetValue(t) \/ EndRead(t) \/ Assign(t))
    BY <2>2, NextKeyLog, SameLog, ChangeLog, EndReadLog, AssignLog
  <2> QED
    BY <1>1, <2>1, <2>2 DEF Loading
<1>2. ASSUME NEW p \in Writers, LogStep(p)
      PROVE  LogInv'
  BY <1>2, CheckLevelKeeps, LogHereKeeps, LogAtRootKeeps DEF LogStep
<1>3. ASSUME NEW p \in Writers, NEW c \in Calls, MakeEvent(p, c[1], c[2])
      PROVE  LogInv'
  BY <1>3, MakeEventKeeps, LoggingAssumption
<1>4. CASE UNCHANGED vars
  <2>1. UNCHANGED <<config, logging, plan, logger>> /\ LogRest
    BY <1>4 DEF vars, logging, LogInv, LogRest
  <2>2. LogRest'
    BY <2>1, RestStays
  <2>3. Planned' /\ Applied'
    BY <2>1, ListenersStay DEF Like
  <2> QED
    BY <2>2, <2>3 DEF LogInv, LogRest
<1> QED
  BY <1>1, <1>2, <1>3, <1>4, IdleLog, DiskKeeps DEF Next

\* In every reachable state the configuration and the loggers are what the two
\* invariants say.
THEOREM LogHolds == Spec => [](ConfigInv /\ LogInv)
<1>1. Init => ConfigInv /\ LogInv
  BY InitConfig, InitLog DEF Init
<1>2. ConfigInv /\ LogInv /\ [Next]_vars => (ConfigInv /\ LogInv)'
  BY ConfigStep, LogStepKeeps
<1> QED
  BY <1>1, <1>2, PTL DEF Spec

\* Every variable of ConfigVar and of the loggers keeps its type.
THEOREM TypeCorrect == Spec => []TypeOK
<1>1. ConfigInv /\ LogInv => TypeOK
  BY DEF ConfigInv, LogInv, TypeOK
<1> QED
  BY <1>1, LogHolds, PTL

\* When no load is under way and none have overlapped the loggers are what the stored
\* value says (on_logger_conf_changed), and an appender without a formatter of its own
\* writes with its logger's (setFormatter, addAppender).
THEOREM Configured == Spec => []LoggersMatchConfig
<1>1. ConfigInv /\ LogInv => LoggersMatchConfig
  BY DEF LogInv, Inherits, Applied, AllMatch, LoggersMatchConfig
<1> QED
  BY <1>1, LogHolds, PTL

\* An event that passed its level is written somewhere, although its logger may be
\* cleared and filled again at that moment (Logger::log), as long as the root logger is
\* not configured and no disk has failed.
THEOREM Written == Spec => []NothingLost
<1>1. ConfigInv /\ LogInv => NothingLost
  BY DEF LogInv
<1> QED
  BY <1>1, LogHolds, PTL
=============================================================================
