---------------------------- MODULE ThreadProofs ----------------------------
(***************************************************************************)
(* Proofs about the two components in which threads share an object: the   *)
(* pool and its client, for any number of workers, any set of tasks and    *)
(* any bound of the queue; and TimerManager, for any timers, threads,      *)
(* periods, clock bounds and number of calls and set-backs.                *)
(***************************************************************************)
EXTENDS PoolClient, TimerManager, TLAPS

-----------------------------------------------------------------------------
(* The pool. *)

\* The inductive invariant: the types need the lock discipline, because the
\* task a worker returns from is recorded as done.
PoolInv == ClientTypeOK /\ RunsUnderLock

LEMMA InitPoolInv == ClientInit => PoolInv
<1> SUFFICES ASSUME ClientInit PROVE PoolInv
  OBVIOUS
<1>1. ClientTypeOK
  BY DEF ClientInit, PoolInit, ClientTypeOK, PoolTypeOK
<1>2. RunsUnderLock
  BY PoolAssumption DEF ClientInit, PoolInit, RunsUnderLock
<1> QED
  BY <1>1, <1>2 DEF PoolInv

LEMMA NextPoolInv == PoolInv /\ [ClientNext]_clientVars => PoolInv'
<1> SUFFICES ASSUME PoolInv, [ClientNext]_clientVars PROVE PoolInv'
  OBVIOUS
<1> USE DEF PoolInv, ClientTypeOK, PoolTypeOK, RunsUnderLock, LockFree
<1>1. ASSUME NEW t \in Tasks, Submit(t) PROVE PoolInv'
  BY <1>1 DEF Submit, AddTask
<1>2. ASSUME NEW w \in Workers, Take(w) PROVE PoolInv'
  <2>1. NextTask \in Tasks /\ Popped \in Seq(Tasks)
    BY <1>2 DEF Take, TakeTask, NextTask, Popped
  <2>2. ClientTypeOK'
    BY <1>2, <2>1 DEF Take, TakeTask
  <2>3. RunsUnderLock'
    BY <1>2, <2>1, PoolAssumption DEF Take, TakeTask
  <2> QED
    BY <2>2, <2>3
<1>3. ASSUME NEW w \in Workers, Return(w) PROVE PoolInv'
  <2>1. running[w] \in Tasks
    BY <1>3 DEF Return, TaskReturns
  <2>2. ClientTypeOK'
    BY <1>3, <2>1 DEF Return, TaskReturns
  <2>3. RunsUnderLock'
    BY <1>3, <2>1, PoolAssumption DEF Return, TaskReturns
  <2> QED
    BY <2>2, <2>3
<1>4. ASSUME NEW w \in Workers, Exit(w) PROVE PoolInv'
  BY <1>4, PoolAssumption DEF Exit, WorkerExits
<1>5. ASSUME Destroy PROVE PoolInv'
  BY <1>5 DEF Destroy, Close, DestroyMembers
<1>6. CASE UNCHANGED clientVars
  BY <1>6 DEF clientVars, poolVars
<1> QED
  BY <1>1, <1>2, <1>3, <1>4, <1>5, <1>6 DEF ClientNext, Step

\* Every variable keeps its type.
THEOREM ClientTypeCorrect == ClientSpec => []ClientTypeOK
<1>1. PoolInv => ClientTypeOK
  BY DEF PoolInv
<1> QED
  BY <1>1, InitPoolInv, NextPoolInv, PTL DEF ClientSpec

\* A task runs only under m_mutex, so never two at a time.
THEOREM MutualExclusion == ClientSpec => []RunsUnderLock
<1>1. PoolInv => RunsUnderLock
  BY DEF PoolInv
<1> QED
  BY <1>1, InitPoolInv, NextPoolInv, PTL DEF ClientSpec

\* What was submitted is what was started followed by what waits: the polling
\* workers lose, double and reorder nothing.
THEOREM Fifo == ClientSpec => []InOrderExactlyOnce
<1>1. ClientInit => InOrderExactlyOnce
  BY DEF ClientInit, PoolInit, InOrderExactlyOnce
<1>2. PoolInv /\ InOrderExactlyOnce /\ [ClientNext]_clientVars => InOrderExactlyOnce'
  <2> SUFFICES ASSUME PoolInv, InOrderExactlyOnce, [ClientNext]_clientVars
               PROVE  InOrderExactlyOnce'
    OBVIOUS
  <2> USE DEF PoolInv, ClientTypeOK, PoolTypeOK, InOrderExactlyOnce
  <2>1. ASSUME NEW t \in Tasks, Submit(t) PROVE InOrderExactlyOnce'
    <3>1. /\ submitted' = Append(submitted, t) /\ tasks' = Append(tasks, t)
          /\ started' = started
      BY <2>1 DEF Submit, AddTask
    <3>2. Append(started \o tasks, t) = started \o Append(tasks, t)
      <4>1. started \in Seq(Tasks) /\ tasks \in Seq(Tasks)
        OBVIOUS
      <4> QED
        BY ONLY <4>1, t \in Tasks
    <3> QED
      BY <3>1, <3>2
  <2>2. ASSUME NEW w \in Workers, Take(w) PROVE InOrderExactlyOnce'
    BY <2>2 DEF Take, TakeTask, NextTask, Popped
  <2>3. ASSUME UNCHANGED <<tasks, submitted, started>> PROVE InOrderExactlyOnce'
    BY <2>3
  <2> QED
    BY <2>1, <2>2, <2>3 DEF ClientNext, Step, Return, TaskReturns, Exit, WorkerExits,
       Destroy, Close, DestroyMembers, clientVars, poolVars
<1> QED
  BY <1>1, <1>2, InitPoolInv, NextPoolInv, PTL DEF ClientSpec

\* The pool implements the serial executor: N workers behave like one.
THEOREM Refinement == ClientSpec => ImplementsExecutor
<1>1. ClientInit => Executor!Init
  BY DEF ClientInit, PoolInit, Executor!Init, Current
<1>2. PoolInv /\ [ClientNext]_clientVars => [Executor!Next]_<<tasks, Current>>
  <2> SUFFICES ASSUME PoolInv, [ClientNext]_clientVars
               PROVE  [Executor!Next]_<<tasks, Current>>
    OBVIOUS
  <2> USE DEF PoolInv, ClientTypeOK, PoolTypeOK, RunsUnderLock, Current, LockFree
  <2>1. ASSUME NEW t \in Tasks, Submit(t) PROVE Executor!Submit(t)
    BY <2>1 DEF Submit, AddTask, Executor!Submit
  <2>2. ASSUME NEW w \in Workers, Take(w) PROVE Executor!Start
    BY <2>2, PoolAssumption DEF Take, TakeTask, NextTask, Popped, Executor!Start
  <2>3. ASSUME NEW w \in Workers, Return(w) PROVE Executor!End
    BY <2>3, PoolAssumption DEF Return, TaskReturns, Executor!End
  <2>4. ASSUME NEW w \in Workers, Exit(w) PROVE UNCHANGED <<tasks, Current>>
    BY <2>4 DEF Exit, WorkerExits
  <2>5. ASSUME Destroy PROVE UNCHANGED <<tasks, Current>>
    BY <2>5 DEF Destroy, Close, DestroyMembers
  <2>6. CASE UNCHANGED clientVars
    BY <2>6 DEF clientVars, poolVars
  <2> QED
    BY <2>1, <2>2, <2>3, <2>4, <2>5, <2>6 DEF ClientNext, Step, Executor!Next
<1> QED
  BY <1>1, <1>2, InitPoolInv, NextPoolInv, PTL
     DEF ClientSpec, ImplementsExecutor, Executor!Spec

\* What DrainedBeforeExit leans on: a worker leaves only a pool that is closed and
\* empty, so nothing is submitted afterwards, and a task that was started is done or
\* still in the hands of a worker.
DrainInv ==
  /\ (\E w \in Workers : wstate[w] = "exit") => tasks = <<>> /\ phase # "open"
  /\ \A t \in ToSet(started) : t \in done \/ \E w \in Workers : running[w] = t
  /\ done \subseteq ToSet(started)
  /\ \A w \in Workers : running[w] # NoTask => running[w] \in ToSet(started)

LEMMA ToSetOfAppend ==
  ASSUME NEW s \in Seq(Tasks), NEW t \in Tasks
  PROVE  ToSet(Append(s, t)) = ToSet(s) \cup {t}
<1>1. /\ DOMAIN s = 1..Len(s) /\ DOMAIN Append(s, t) = 1..(Len(s) + 1)
      /\ Append(s, t)[Len(s) + 1] = t /\ \A i \in 1..Len(s) : Append(s, t)[i] = s[i]
  OBVIOUS
<1>2. 1..(Len(s) + 1) = 1..Len(s) \cup {Len(s) + 1}
  OBVIOUS
<1> QED
  BY <1>1, <1>2, Zenon DEF ToSet

LEMMA NextDrainInv == PoolInv /\ DrainInv /\ [ClientNext]_clientVars => DrainInv'
<1> SUFFICES ASSUME PoolInv, DrainInv, [ClientNext]_clientVars PROVE DrainInv'
  OBVIOUS
<1> USE DEF PoolInv, ClientTypeOK, PoolTypeOK, DrainInv
<1>1. ASSUME NEW t \in Tasks, Submit(t) PROVE DrainInv'
  BY <1>1 DEF Submit, AddTask
<1>2. ASSUME NEW w \in Workers, Take(w) PROVE DrainInv'
  <2>1. tasks # <<>> /\ NextTask \in Tasks
    BY <1>2 DEF Take, TakeTask, NextTask
  <2>2. ToSet(started') = ToSet(started) \cup {NextTask}
    BY <1>2, <2>1, ToSetOfAppend DEF Take
  <2>3. /\ running'[w] = NextTask /\ \A v \in Workers : running[v] \in Tasks => running'[v] = running[v]
        /\ done' = done /\ \A v \in Workers : wstate'[v] # "exit"
    BY <1>2, <2>1, PoolAssumption DEF Take, TakeTask, RunsUnderLock, LockFree
  <2>4. \A t \in ToSet(started) : t \in Tasks
    BY DEF ToSet
  <2>5. \A t \in ToSet(started') : t \in done' \/ \E v \in Workers : running'[v] = t
    BY <2>2, <2>3, <2>4
  <2>6. \A v \in Workers : running'[v] # NoTask => running'[v] \in ToSet(started')
    BY <1>2, <2>2 DEF Take, TakeTask
  <2> QED
    BY <2>2, <2>3, <2>5, <2>6
<1>3. ASSUME NEW w \in Workers, Return(w) PROVE DrainInv'
  <2>1. /\ done' = done \cup {running[w]} /\ running' = [running EXCEPT ![w] = NoTask]
        /\ wstate' = [wstate EXCEPT ![w] = "poll"] /\ UNCHANGED <<started, tasks, phase>>
        /\ running[w] \in Tasks
    BY <1>3, PoolAssumption DEF Return, TaskReturns, RunsUnderLock
  <2>2. running[w] \in ToSet(started)
    BY <2>1, PoolAssumption
  <2> QED
    BY <2>1, <2>2
<1>4. ASSUME NEW w \in Workers, Exit(w) PROVE DrainInv'
  BY <1>4 DEF Exit, WorkerExits, MayExit
<1>5. ASSUME Destroy PROVE DrainInv'
  BY <1>5 DEF Destroy, Close, DestroyMembers
<1>6. CASE UNCHANGED clientVars
  BY <1>6 DEF clientVars, poolVars
<1> QED
  BY <1>1, <1>2, <1>3, <1>4, <1>5, <1>6 DEF ClientNext, Step

\* A pool that every worker has left has run everything that was submitted to it.
THEOREM Drained == ClientSpec => []DrainedBeforeExit
<1>1. ClientInit => DrainInv
  BY DEF ClientInit, PoolInit, DrainInv, ToSet
<1>2. PoolInv /\ DrainInv /\ InOrderExactlyOnce => DrainedBeforeExit
  <2> SUFFICES ASSUME PoolInv, DrainInv, InOrderExactlyOnce, \A w \in Workers : wstate[w] = "exit"
               PROVE  ToSet(submitted) = done
    BY DEF DrainedBeforeExit
  <2>1. tasks = <<>> /\ \A w \in Workers : running[w] = NoTask
    BY OwnerAssumption DEF PoolInv, RunsUnderLock, DrainInv
  <2>2. submitted = started
    BY <2>1 DEF InOrderExactlyOnce, PoolInv, ClientTypeOK
  <2>3. \A t \in ToSet(started) : t # NoTask
    BY PoolAssumption DEF ToSet, PoolInv, ClientTypeOK
  <2> QED
    BY <2>1, <2>2, <2>3 DEF DrainInv
<1> QED
  BY <1>1, <1>2, InitPoolInv, NextPoolInv, NextDrainInv, Fifo, PTL DEF ClientSpec

-----------------------------------------------------------------------------
(* The timer manager. *)

\* No deadline lies before the start of its interval, so reset() never
\* computes one before time 0.
DeadlineAfterStart == \A t \in Timers : ms[t] <= next[t]

\* A timer that addTimer has not returned yet has never been collected, run or
\* cancelled; the threads inside addTimer own different ones, already armed.
NewIsUntouched ==
  /\ \A t \in Timers \ handles : ran[t] = 0 /\ t \notin cancelled
                                 /\ \A e \in cbs : e.t # t
  /\ \A u \in Threads : call[u].op = "add" =>
       call[u].t \in armed /\ call[u].t \notin handles
  /\ \A u, v \in Threads :
       call[u].op = "add" /\ call[v].op = "add" /\ call[u].t = call[v].t => u = v

\* A collection holds each timer once.
CollectedOnce == \A e, f \in cbs : e.t = f.t => e = f

\* Without set-backs the times the manager remembers are in the past, in order.
TimesInOrder ==
  jumps = 0 =>
    /\ prevTime <= clock
    /\ lpc = "collect" => prevTime <= sampled /\ sampled <= clock

\* What the properties need to know of the timers, whatever the loop is doing.
Structure ==
  /\ DeadlineAfterStart /\ ArmedIffScheduled /\ OneShotOnce /\ CancelIsFinal
  /\ NewIsUntouched /\ CollectedOnce

TimerInv == TypeOK /\ Structure /\ TimesInOrder

-----------------------------------------------------------------------------
(* Types *)

\* The arguments a thread carries into the lock.
LEMMA CallTypes ==
  ASSUME TypeOK, NEW u \in Threads
  PROVE  /\ call[u].op = "add" => call[u].t \in Timers
         /\ call[u].op = "reset" => call[u].t \in Timers /\ call[u].ms \in Nat
<1>1. call[u] \in Call
  BY DEF TypeOK
<1>2. ASSUME call[u].op = "add" PROVE call[u].t \in Timers
  BY <1>1, <1>2 DEF Call, Idle
<1>3. ASSUME call[u].op = "reset" PROVE call[u].t \in Timers /\ call[u].ms \in Nat
  <2>1. call[u] \in [op : {"reset"}, t : Timers, ms : Periods, now : BOOLEAN]
    BY <1>1, <1>3 DEF Call, Idle
  <2>2. call[u].t \in Timers /\ call[u].ms \in Periods
    BY <2>1
  <2> QED
    BY <2>2, TimerAssumption
<1> QED
  BY <1>2, <1>3

\* Inserting a timer keeps the set and the flag well typed.
LEMMA InsertTypes ==
  ASSUME NEW t \in Timers, NEW S, S \subseteq Timers, tickled \in BOOLEAN,
         InsertLocked(t, S)
  PROVE  timers' \subseteq Timers /\ tickled' \in BOOLEAN
<1>1. timers' \subseteq Timers
  BY DEF InsertLocked
<1>2. tickled' \in BOOLEAN
  BY Zenon DEF InsertLocked
<1> QED
  BY <1>1, <1>2

\* The timeout given to epoll_wait is a time or "for ever", however it wraps.
LEMMA SleepType ==
  ASSUME TypeOK, NEW t \in Timers
  PROVE  Sleep(t) \in Nat \cup {Forever}
<1>1. CASE clock >= next[t]
  BY <1>1 DEF Sleep
<1>2. CASE ~ (clock >= next[t])
  <2>1. next[t] - clock \in Nat
    BY <1>2 DEF TypeOK
  <2>2. (next[t] - clock) % IntMod \in Nat
    BY <2>1, TimerAssumption
  <2> QED
    BY <1>2, <2>2 DEF Sleep, ToInt
<1> QED
  BY <1>1, <1>2

\* A collection takes only timers that are in the set.
LEMMA ExpiredAreScheduled == Expired(sampled) \subseteq timers
  BY DEF Expired

-----------------------------------------------------------------------------
(* The callers *)

\* A new timer is armed, and invisible until it is in the set.
LEMMA AddTimerKeeps ==
  ASSUME TimerInv, NEW u \in Threads, NEW t \in Timers, NEW m \in Periods,
         NEW rec \in BOOLEAN, AddTimer(u, t, m, rec)
  PROVE  TimerInv'
<1> USE DEF TimerInv, Structure, AddTimer, MayCall, manager, loop, history
<1>1. TypeOK'
  BY TimerAssumption DEF TypeOK, Call
<1>2. DeadlineAfterStart'
  BY TimerAssumption DEF TypeOK, DeadlineAfterStart
<1>3. ArmedIffScheduled'
  BY DEF ArmedIffScheduled
<1>4. OneShotOnce'
  BY DEF TypeOK, OneShotOnce, NewIsUntouched, ArmedIffScheduled
<1>5. CancelIsFinal'
  BY DEF TypeOK, CancelIsFinal, NewIsUntouched
<1>6. NewIsUntouched'
  BY DEF TypeOK, NewIsUntouched, Call, Idle
<1>7. CollectedOnce' /\ TimesInOrder'
  BY DEF CollectedOnce, TimesInOrder
<1> QED
  BY <1>1, <1>2, <1>3, <1>4, <1>5, <1>6, <1>7

\* The new timer enters the set and its handle is returned.
LEMMA AddTimerLockedKeeps ==
  ASSUME TimerInv, NEW u \in Threads, AddTimerLocked(u)
  PROVE  TimerInv'
<1> USE DEF TimerInv, Structure, AddTimerLocked, InsertLocked, heap, loop, bounds
<1>0. call[u].t \in Timers
  BY CallTypes
<1>1. TypeOK'
  <2>1. timers' \subseteq Timers /\ tickled' \in BOOLEAN
    BY <1>0, InsertTypes DEF TypeOK
  <2>2. call' \in [Threads -> Call] /\ handles' \subseteq Timers
    BY <1>0 DEF TypeOK, Call
  <2> QED
    BY <2>1, <2>2 DEF TypeOK
<1>2. DeadlineAfterStart' /\ CollectedOnce' /\ TimesInOrder'
  BY DEF DeadlineAfterStart, CollectedOnce, TimesInOrder
<1>3. ArmedIffScheduled'
  BY DEF ArmedIffScheduled, NewIsUntouched
<1>4. OneShotOnce'
  BY <1>0 DEF OneShotOnce, NewIsUntouched
<1>5. CancelIsFinal'
  BY <1>0 DEF CancelIsFinal, NewIsUntouched
<1>6. NewIsUntouched'
  BY <1>0 DEF TypeOK, NewIsUntouched, Idle
<1> QED
  BY <1>1, <1>2, <1>3, <1>4, <1>5, <1>6

\* A cancelled one-shot had not been collected, for it was in the set.
LEMMA CancelKeeps ==
  ASSUME TimerInv, NEW u \in Threads, NEW t \in Timers, Cancel(u, t)
  PROVE  TimerInv'
<1> USE DEF TimerInv, Structure, Cancel, loop
<1>1. TypeOK'
  BY DEF TypeOK
<1>2. DeadlineAfterStart' /\ CollectedOnce' /\ TimesInOrder'
  BY DEF DeadlineAfterStart, CollectedOnce, TimesInOrder
<1>3. ArmedIffScheduled'
  BY DEF ArmedIffScheduled
<1>4. OneShotOnce'
  BY DEF OneShotOnce
<1>5. CancelIsFinal'
  BY DEF CancelIsFinal, OneShotOnce, ArmedIffScheduled
<1>6. NewIsUntouched'
  BY DEF NewIsUntouched
<1> QED
  BY <1>1, <1>2, <1>3, <1>4, <1>5, <1>6

\* Refreshing moves the deadline of a timer only.
LEMMA RefreshKeeps ==
  ASSUME TimerInv, NEW u \in Threads, NEW t \in Timers, Refresh(u, t)
  PROVE  TimerInv'
<1> USE DEF TimerInv, Refresh, manager, loop, history
<1>1. TypeOK'
  BY DEF TypeOK
<1>2. DeadlineAfterStart'
  BY DEF TypeOK, Structure, DeadlineAfterStart
<1>3. /\ ArmedIffScheduled' /\ OneShotOnce' /\ CancelIsFinal'
      /\ NewIsUntouched' /\ CollectedOnce'
  BY DEF Structure, ArmedIffScheduled, OneShotOnce, CancelIsFinal,
     NewIsUntouched, CollectedOnce
<1>4. TimesInOrder'
  BY DEF TimesInOrder
<1> QED
  BY <1>1, <1>2, <1>3, <1>4 DEF Structure

\* The unlocked half of a reset remembers its arguments only.
LEMMA ResetKeeps ==
  ASSUME TimerInv, NEW u \in Threads, NEW t \in Timers, NEW m \in Periods,
         NEW now \in BOOLEAN, Reset(u, t, m, now)
  PROVE  TimerInv'
<1> USE DEF TimerInv, Structure, Reset, heap, manager, loop, history
<1>1. TypeOK'
  BY DEF TypeOK, Call
<1>2. NewIsUntouched'
  BY DEF TypeOK, NewIsUntouched
<1>3. DeadlineAfterStart' /\ ArmedIffScheduled' /\ OneShotOnce' /\ CancelIsFinal'
  BY DEF DeadlineAfterStart, ArmedIffScheduled, OneShotOnce, CancelIsFinal
<1>4. CollectedOnce' /\ TimesInOrder'
  BY DEF CollectedOnce, TimesInOrder
<1> QED
  BY <1>1, <1>2, <1>3, <1>4

\* A reset that finds its timer scheduled moves it; otherwise it does nothing.
LEMMA ResetLockedKeeps ==
  ASSUME TimerInv, NEW u \in Threads, ResetLocked(u)
  PROVE  TimerInv'
<1> DEFINE c == call[u]
<1> USE DEF TimerInv, Structure, ResetLocked, loop, history, bounds
<1>0. c.t \in Timers /\ c.ms \in Nat
  BY CallTypes
<1>1. /\ armed' = armed /\ recurring' = recurring /\ timers' = timers
      /\ \/ UNCHANGED <<ms, next, tickled>>
         \/ /\ ms' = [ms EXCEPT ![c.t] = c.ms]
            /\ next' = [next EXCEPT ![c.t] = ResetDeadline(c)]
            /\ InsertLocked(c.t, timers \ {c.t})
  BY DEF StillScheduled, InsertLocked, heap
<1>2. ResetDeadline(c) \in Nat /\ c.ms <= ResetDeadline(c)
  BY <1>0 DEF TypeOK, DeadlineAfterStart, ResetDeadline
<1>3. tickled' \in BOOLEAN
  <2>1. timers \ {c.t} \subseteq Timers /\ tickled \in BOOLEAN
    BY DEF TypeOK
  <2> QED
    BY <1>0, <1>1, <2>1, InsertTypes
<1>4. /\ ms' \in [Timers -> Nat] /\ next' \in [Timers -> Nat]
      /\ \A s \in Timers : ms'[s] <= next'[s]
  BY <1>0, <1>1, <1>2 DEF TypeOK, DeadlineAfterStart
<1>5. call' \in [Threads -> Call]
  BY DEF TypeOK, Call
<1>6. TypeOK'
  BY <1>1, <1>3, <1>4, <1>5 DEF TypeOK
<1>7. DeadlineAfterStart'
  BY <1>4 DEF DeadlineAfterStart
<1>8. ArmedIffScheduled' /\ OneShotOnce' /\ CancelIsFinal' /\ CollectedOnce'
  BY <1>1 DEF ArmedIffScheduled, OneShotOnce, CancelIsFinal, CollectedOnce
<1>9. NewIsUntouched'
  BY <1>1 DEF TypeOK, NewIsUntouched, Idle
<1>10. TimesInOrder'
  BY DEF TimesInOrder
<1> QED
  BY <1>6, <1>7, <1>8, <1>9, <1>10

-----------------------------------------------------------------------------
(* The loop *)

\* A collection takes each expired timer once and disarms the one-shots.
LEMMA ListExpiredCbKeeps ==
  ASSUME TimerInv, ListExpiredCb
  PROVE  TimerInv'
<1> DEFINE due == Expired(sampled)
<1> USE DEF TimerInv, Structure, ListExpiredCb, history, bounds
<1>0. due \subseteq timers
  BY ExpiredAreScheduled
<1> HIDE DEF due
<1>1. TypeOK'
  <2>1. timers' \subseteq Timers /\ armed' \subseteq Timers
    BY DEF TypeOK, Kept
  <2>2. cbs' \subseteq Entry
    BY <1>0 DEF TypeOK, Entry, due
  <2>3. next' \in [Timers -> Nat] /\ prevTime' \in Nat
    BY DEF TypeOK
  <2>4. lpc' \in LoopPC
    BY DEF LoopPC
  <2> QED
    BY <2>1, <2>2, <2>3, <2>4 DEF TypeOK
<1>2. DeadlineAfterStart'
  BY DEF TypeOK, DeadlineAfterStart
<1>3. ArmedIffScheduled'
  BY DEF ArmedIffScheduled, Kept
<1>4. OneShotOnce'
  BY <1>0 DEF OneShotOnce, Kept, due
<1>5. CancelIsFinal'
  BY <1>0 DEF CancelIsFinal, Kept, due
<1>6. NewIsUntouched'
  <2>1. \A t \in Timers \ handles : \A e \in cbs' : e.t # t
    BY <1>0 DEF ArmedIffScheduled, due
  <2>2. \A v \in Threads : call[v].op = "add" => call[v].t \in armed'
    BY <1>0 DEF ArmedIffScheduled, NewIsUntouched, Kept, due
  <2> QED
    BY <2>1, <2>2 DEF NewIsUntouched
<1>7. CollectedOnce'
  BY DEF CollectedOnce
<1>8. TimesInOrder'
  BY DEF TypeOK, TimesInOrder
<1> QED
  BY <1>1, <1>2, <1>3, <1>4, <1>5, <1>6, <1>7, <1>8

\* An entry is taken out of the collection and run, or skipped by OnTimer.
LEMMA RunCallbackKeeps ==
  ASSUME TimerInv, RunCallback
  PROVE  TimerInv'
<1> USE DEF TimerInv, Structure, RunCallback, heap, manager, bounds
<1>1. PICK e \in cbs :
        /\ cbs' = cbs \ {e}
        /\ ran' = IF e.t \in gone \/ ran[e.t] = 2 THEN ran
                  ELSE [ran EXCEPT ![e.t] = ran[e.t] + 1]
  OBVIOUS
<1>2. e.t \in Timers /\ ran \in [Timers -> 0..2]
  BY DEF TypeOK, Entry
<1>3. \A t \in Timers : ran'[t] = ran[t] \/ (t = e.t /\ ran'[t] = ran[t] + 1)
  BY <1>1, <1>2
<1>4. TypeOK'
  <2>1. ran' \in [Timers -> 0..2]
    BY <1>1, <1>2
  <2>2. lpc' \in LoopPC /\ cbs' \subseteq Entry
    BY <1>1 DEF TypeOK, LoopPC
  <2> QED
    BY <2>1, <2>2 DEF TypeOK
<1>5. OneShotOnce'
  <2> SUFFICES ASSUME NEW t \in Timers, ~ recurring[t]
               PROVE  /\ ran'[t] <= 1
                      /\ (\E f \in cbs' : f.t = t) => ran'[t] = 0 /\ t \notin timers
                      /\ t \in timers => ran'[t] = 0
    BY DEF OneShotOnce
  <2>1. CASE t = e.t
    <3>1. ran[t] = 0 /\ t \notin timers
      BY <2>1 DEF OneShotOnce
    <3>2. \A f \in cbs' : f.t # t
      BY <1>1, <2>1 DEF CollectedOnce
    <3>3. ran'[t] <= 1
      BY <1>3, <3>1
    <3> QED
      BY <3>1, <3>2, <3>3
  <2>2. CASE t # e.t
    BY <1>1, <1>3, <2>2 DEF OneShotOnce
  <2> QED
    BY <2>1, <2>2
<1>6. CancelIsFinal'
  <2>1. cancelled \subseteq Timers
    BY DEF TypeOK
  <2> QED
    BY <1>1, <1>3, <2>1 DEF CancelIsFinal
<1>7. NewIsUntouched'
  BY <1>1, <1>3 DEF NewIsUntouched
<1>8. DeadlineAfterStart' /\ ArmedIffScheduled' /\ CollectedOnce' /\ TimesInOrder'
  BY <1>1 DEF DeadlineAfterStart, ArmedIffScheduled, CollectedOnce, TimesInOrder
<1> QED
  BY <1>4, <1>5, <1>6, <1>7, <1>8

\* Every other step leaves the timers, the collection and the calls alone.
LEMMA FrameKeepsStructure ==
  ASSUME Structure, UNCHANGED <<heap, timers, cbs, history, call>>
  PROVE  Structure'
<1> USE DEF Structure, heap, history
<1>1. DeadlineAfterStart' /\ ArmedIffScheduled' /\ OneShotOnce'
  BY DEF DeadlineAfterStart, ArmedIffScheduled, OneShotOnce
<1>2. CancelIsFinal' /\ NewIsUntouched' /\ CollectedOnce'
  BY DEF CancelIsFinal, NewIsUntouched, CollectedOnce
<1> QED
  BY <1>1, <1>2

\* The steps of the loop that touch no timer.
LEMMA ControlKeeps ==
  ASSUME TimerInv,
         StartLoop \/ (\E r \in {"timeout", "event"} : WaitEnd(r)) \/ SampleClock
           \/ CallbackReturns \/ NextRound
  PROVE  TimerInv'
<1> USE DEF TimerInv, StartLoop, WaitEnd, SampleClock, CallbackReturns, NextRound,
            manager, bounds
<1>1. TypeOK'
  BY DEF TypeOK, LoopPC, heap, history
<1>2. Structure'
  BY FrameKeepsStructure
<1>3. TimesInOrder'
  BY DEF TypeOK, TimesInOrder
<1> QED
  BY <1>1, <1>2, <1>3

\* Asking for the next deadline changes the timeout only.
LEMMA GetNextTimerKeeps ==
  ASSUME TimerInv, GetNextTimer
  PROVE  TimerInv'
<1> USE DEF TimerInv, GetNextTimer, bounds
<1>1. timeout' \in Nat \cup {Forever}
  BY SleepType DEF TypeOK
<1>2. TypeOK'
  BY <1>1 DEF TypeOK, LoopPC, heap, history
<1>3. Structure'
  BY FrameKeepsStructure
<1>4. TimesInOrder'
  BY DEF TimesInOrder
<1> QED
  BY <1>2, <1>3, <1>4

\* Conditions die and the clock moves, in either direction.
LEMMA EnvironmentKeeps ==
  ASSUME TimerInv, (\E t \in Timers : DropCondition(t)) \/ Tick \/ ClockSetBack
  PROVE  TimerInv'
<1> USE DEF TimerInv, DropCondition, Tick, ClockSetBack, manager, loop, bounds
<1>1. TypeOK'
  <2>1. clock' \in Nat /\ jumps' \in Nat
    BY TimerAssumption DEF TypeOK
  <2>3. gone' \subseteq Timers
    BY DEF TypeOK
  <2>2. timeout' \in Nat \cup {Forever}
    BY DEF TypeOK, Forever
  <2> QED
    BY <2>1, <2>2, <2>3 DEF TypeOK, heap, history
<1>2. Structure'
  BY FrameKeepsStructure
<1>3. TimesInOrder'
  BY DEF TypeOK, TimesInOrder
<1> QED
  BY <1>1, <1>2, <1>3

-----------------------------------------------------------------------------
(* The invariant *)

\* No timer exists yet.
LEMMA InitTimerInv == Init => TimerInv
<1> SUFFICES ASSUME Init PROVE TimerInv
  OBVIOUS
<1> USE TimerAssumption DEF Init
<1>1. TypeOK
  <2>1. clock \in Nat /\ prevTime \in Nat /\ timeout \in Nat /\ sampled \in Nat
        /\ jumps \in Nat /\ calls \in Nat
    OBVIOUS
  <2>2. /\ ms \in [Timers -> Nat] /\ next \in [Timers -> Nat]
        /\ ran \in [Timers -> 0..2]
    OBVIOUS
  <2>5. recurring \in [Timers -> BOOLEAN] /\ tickled \in BOOLEAN
    BY Zenon
  <2>3. call \in [Threads -> Call] /\ lpc \in LoopPC
    BY DEF Call, LoopPC
  <2>4. /\ timers \subseteq Timers /\ armed \subseteq Timers /\ gone \subseteq Timers
        /\ cbs \subseteq Entry /\ handles \subseteq Timers /\ cancelled \subseteq Timers
    OBVIOUS
  <2> QED
    BY <2>1, <2>2, <2>3, <2>4, <2>5 DEF TypeOK
<1>2. Structure
  BY DEF Structure, DeadlineAfterStart, ArmedIffScheduled, OneShotOnce,
     CancelIsFinal, NewIsUntouched, CollectedOnce, Idle
<1>3. TimesInOrder
  BY DEF TimesInOrder
<1> QED
  BY <1>1, <1>2, <1>3 DEF TimerInv

\* Every step keeps the invariant.
LEMMA NextTimerInv == TimerInv /\ [Next]_vars => TimerInv'
<1> SUFFICES ASSUME TimerInv, [Next]_vars PROVE TimerInv'
  OBVIOUS
<1>1. CASE UNCHANGED vars
  <2>1. TypeOK'
    BY <1>1 DEF TimerInv, TypeOK, vars, heap, manager, loop, history, bounds
  <2>2. Structure' /\ TimesInOrder'
    BY <1>1, FrameKeepsStructure
       DEF TimerInv, TimesInOrder, vars, manager, loop, bounds
  <2> QED
    BY <2>1, <2>2 DEF TimerInv
<1> QED
  BY <1>1, AddTimerKeeps, AddTimerLockedKeeps, CancelKeeps, RefreshKeeps,
     ResetKeeps, ResetLockedKeeps, ListExpiredCbKeeps, RunCallbackKeeps,
     ControlKeeps, GetNextTimerKeeps, EnvironmentKeeps
     DEF Next, LockedStep, LoopStep

-----------------------------------------------------------------------------
(* The theorems *)

\* Every variable of the timer manager and its loop keeps its type; deadlines
\* never become negative.
THEOREM TimersTypeCorrect == Spec => []TypeOK
<1>1. TimerInv => TypeOK
  BY DEF TimerInv
<1> QED
  BY <1>1, InitTimerInv, NextTimerInv, PTL DEF Spec

\* A timer whose handle is out is scheduled exactly while its callback is set.
THEOREM ArmedExactlyWhenScheduled == Spec => []ArmedIffScheduled
<1>1. TimerInv => ArmedIffScheduled
  BY DEF TimerInv, Structure
<1> QED
  BY <1>1, InitTimerInv, NextTimerInv, PTL DEF Spec

\* A one-shot timer runs at most once.
THEOREM OneShotRunsOnce == Spec => []OneShotOnce
<1>1. TimerInv => OneShotOnce
  BY DEF TimerInv, Structure
<1> QED
  BY <1>1, InitTimerInv, NextTimerInv, PTL DEF Spec

\* A successful cancel() is never undone.
THEOREM CancelHolds == Spec => []CancelIsFinal
<1>1. TimerInv => CancelIsFinal
  BY DEF TimerInv, Structure
<1> QED
  BY <1>1, InitTimerInv, NextTimerInv, PTL DEF Spec

\* While the clock is never set back a collection takes no timer early and
\* leaves none behind that was due when the clock was read.
THEOREM CollectionIsExact == Spec => NeverEarlyNeverMissed
<1> DEFINE Exact == lpc = "collect" /\ lpc' = "run" /\ jumps = 0 =>
                      /\ \A e \in cbs' : e.at <= clock
                      /\ \A t \in timers' : ms[t] > 0 => next'[t] > sampled
<1>1. TimerInv /\ [Next]_vars => [Exact]_vars
  <2> SUFFICES ASSUME TimerInv, [Next]_vars,
                      lpc = "collect", lpc' = "run", jumps = 0
               PROVE  /\ \A e \in cbs' : e.at <= clock
                      /\ \A t \in timers' : ms[t] > 0 => next'[t] > sampled
    OBVIOUS
  <2>1. ListExpiredCb
    BY DEF Next, LockedStep, LoopStep, AddTimer, AddTimerLocked, Cancel, Refresh,
       Reset, ResetLocked, DropCondition, StartLoop, GetNextTimer, WaitEnd,
       SampleClock, RunCallback, CallbackReturns, NextRound, Tick, ClockSetBack,
       loop, vars
  <2>2. Expired(sampled) = {t \in timers : next[t] <= sampled}
    BY DEF TimerInv, TypeOK, TimesInOrder, Expired, Rollover
  <2>3. sampled <= clock
    BY DEF TimerInv, TimesInOrder
  <2>4. \A e \in cbs' : e.at <= clock
    BY <2>1, <2>2, <2>3 DEF ListExpiredCb, TimerInv, TypeOK
  <2>5. \A t \in timers' : ms[t] > 0 => next'[t] > sampled
    BY <2>1, <2>2 DEF ListExpiredCb, Kept, TimerInv, TypeOK
  <2> QED
    BY <2>4, <2>5
<1> QED
  BY <1>1, InitTimerInv, NextTimerInv, PTL DEF Spec, NeverEarlyNeverMissed
=============================================================================
