---------------------------- MODULE TimerManager ----------------------------
(***************************************************************************)
(* The timer wheel of src/timer.cpp and the event loop that drives it      *)
(* (test/test_timer.cpp, src/server.cpp): threads add, cancel, refresh and *)
(* reset timers under one write lock while the loop sleeps in epoll_wait   *)
(* until the first deadline, collects what has expired and runs it.        *)
(*                                                                         *)
(* A timer is named by its address, a natural number: std::set orders the  *)
(* timers by (m_next, address).  The wall clock (gettimeofday) advances by *)
(* ticks and may be set back; epoll's own timeout only ever counts down.   *)
(***************************************************************************)
EXTENDS Integers

CONSTANTS
  Timers,      \* addresses of the Timer objects
  Conditional, \* the timers made by addConditionTimer
  Threads,     \* the threads that call the manager
  Loop,        \* the thread that runs the event loop
  Periods,     \* the values passed as ms
  Hour,        \* detectClockRollover's 60 * 60 * 1000
  IntMod,      \* 2^32: the width of epoll_wait's int timeout
  MaxTime,     \* bound: the clock stops here
  MaxJumps,    \* bound: how often the clock is set back
  MaxCalls     \* bound: how many calls the threads make

ASSUME TimerAssumption ==
  /\ Timers \subseteq Nat /\ Conditional \subseteq Timers
  /\ Loop \in Threads
  /\ Periods \subseteq Nat
  /\ Hour \in Nat \ {0} /\ IntMod \in Nat \ {0, 1}
  /\ MaxTime \in Nat /\ MaxJumps \in Nat /\ MaxCalls \in Nat

VARIABLES
  clock,      \* GetCurrentMS()
  timers,     \* TimerManager::m_timers
  armed,      \* the timers whose m_cb is not null
  recurring,  \* Timer::m_recurring
  ms,         \* Timer::m_ms
  next,       \* Timer::m_next
  prevTime,   \* TimerManager::m_previousTime
  tickled,    \* TimerManager::m_tickled
  gone,       \* conditional timers whose condition object has been destroyed
  call,       \* what each thread still has to do under the lock
  lpc,        \* where the loop is
  timeout,    \* milliseconds left in epoll_wait, or Forever
  sampled,    \* now_ms of listExpiredCb, read before its lock
  cbs,        \* collected callbacks, each with the deadline it had
  handles,    \* history: the timers addTimer has returned
  cancelled,  \* history: the timers for which cancel() returned true
  ran,        \* history: how often each callback was invoked (2 = more)
  jumps, calls

heap    == <<armed, recurring, ms, next>>
manager == <<timers, prevTime, tickled>>
loop    == <<lpc, timeout, sampled, cbs>>
history == <<handles, cancelled, ran>>
bounds  == <<jumps, calls>>
vars    == <<clock, heap, manager, loop, history, bounds, gone, call>>

Forever == -1
Idle    == [op |-> "idle"]
LoopPC  == {"start", "next", "wait", "sample", "collect", "run", "incb"}

Call == {Idle} \cup [op : {"add"}, t : Timers]
               \cup [op : {"reset"}, t : Timers, ms : Periods, now : BOOLEAN]

Entry == [t : Timers, at : Nat]   \* an element of the vector cbs

-----------------------------------------------------------------------------
\* Timer::Comparator: by deadline, then by address.
Before(s, t) == next[s] < next[t] \/ (next[s] = next[t] /\ s <= t)

\* The conversion of getNextTimer's uint64_t to the int of epoll_wait.
ToInt(d) == IF 2 * (d % IntMod) >= IntMod THEN Forever ELSE d % IntMod

\* getNextTimer for a first timer t.  (Mutant: the comparison is dropped and the
\* unsigned difference wraps.)
WrappedSleep(t) == ToInt(next[t] - clock)
Sleep(t) == IF clock >= next[t] THEN 0 ELSE ToInt(next[t] - clock)

\* detectClockRollover: the subtraction is unsigned, so it wraps below Hour.
Rollover(now) == now < prevTime /\ (prevTime < Hour \/ now < prevTime - Hour)

\* The timers listExpiredCb takes out of the set, and those of a set S that stay
\* behind.  (Mutants: the loop over equal deadlines, or the one-shot test, is
\* missing.)
ExpiredBelow(now) == IF Rollover(now) THEN timers ELSE {t \in timers : next[t] < now}
Expired(now) == IF Rollover(now) THEN timers ELSE {t \in timers : next[t] <= now}
KeptAll(S, due) == S
Kept(S, due) == {t \in S : t \in due => recurring[t]}

\* What refresh() and reset() check under the lock.  (Mutant: they trust the handle.)
HandleOnly(t) == t \in handles
StillScheduled(t) == t \in armed /\ t \in timers

\* reset()'s new deadline.
ResetDeadline(c) == (IF c.now THEN clock ELSE next[c.t] - ms[c.t]) + c.ms

\* A thread other than the loop may call at any time; the loop calls before it
\* starts to loop and from inside a callback.
MayCall(u) == /\ call[u] = Idle /\ calls < MaxCalls
              /\ u = Loop => lpc \in {"start", "incb"}

-----------------------------------------------------------------------------
Init ==
  /\ clock = Hour /\ prevTime = Hour
  /\ timers = {} /\ armed = {} /\ tickled = FALSE /\ gone = {}
  /\ recurring = [t \in Timers |-> FALSE]
  /\ ms = [t \in Timers |-> 0] /\ next = [t \in Timers |-> 0]
  /\ call = [u \in Threads |-> Idle]
  /\ lpc = "start" /\ timeout = 0 /\ sampled = 0 /\ cbs = {}
  /\ handles = {} /\ cancelled = {} /\ ran = [t \in Timers |-> 0]
  /\ jumps = 0 /\ calls = 0

-----------------------------------------------------------------------------
(* The callers. *)

\* addTimer, first half: the constructor reads the clock before the lock.
AddTimer(u, t, m, rec) ==
  /\ MayCall(u)
  /\ t \notin armed \cup handles
  /\ recurring' = [recurring EXCEPT ![t] = rec]
  /\ ms' = [ms EXCEPT ![t] = m]
  /\ next' = [next EXCEPT ![t] = clock + m]
  /\ armed' = armed \cup {t}
  /\ call' = [call EXCEPT ![u] = [op |-> "add", t |-> t]]
  /\ calls' = calls + 1
  /\ UNCHANGED <<clock, manager, loop, history, gone, jumps>>

\* TimerManager::addTimer(val, lock): at_front sets m_tickled, and wakes nobody.
InsertLocked(t, others) ==
  /\ timers' = others \cup {t}
  /\ tickled' = (tickled \/ \A s \in others : next'[t] < next[s]
                                             \/ (next'[t] = next[s] /\ t <= s))

AddTimerLocked(u) ==
  /\ call[u].op = "add"
  /\ UNCHANGED heap /\ InsertLocked(call[u].t, timers)
  /\ handles' = handles \cup {call[u].t}
  /\ call' = [call EXCEPT ![u] = Idle]
  /\ UNCHANGED <<clock, prevTime, loop, cancelled, ran, bounds, gone>>

\* Timer::cancel
Cancel(u, t) ==
  /\ MayCall(u) /\ t \in handles
  /\ t \in armed
  /\ armed' = armed \ {t}
  /\ timers' = timers \ {t}
  /\ cancelled' = cancelled \cup {t}
  /\ calls' = calls + 1
  /\ UNCHANGED <<clock, recurring, ms, next, prevTime, tickled, loop, handles,
                 ran, jumps, gone, call>>

\* Timer::refresh
Refresh(u, t) ==
  /\ MayCall(u) /\ t \in handles
  /\ StillScheduled(t)
  /\ next' = [next EXCEPT ![t] = clock + ms[t]]
  /\ calls' = calls + 1
  /\ UNCHANGED <<clock, armed, recurring, ms, manager, loop, history, jumps,
                 gone, call>>

\* Timer::reset, first half: m_ms is compared without the lock.
Reset(u, t, m, fromNow) ==
  /\ MayCall(u) /\ t \in handles
  /\ m # ms[t] \/ fromNow
  /\ call' = [call EXCEPT ![u] = [op |-> "reset", t |-> t, ms |-> m, now |-> fromNow]]
  /\ calls' = calls + 1
  /\ UNCHANGED <<clock, heap, manager, loop, history, jumps, gone>>

ResetLocked(u) ==
  /\ call[u].op = "reset"
  /\ LET c == call[u]  t == c.t IN
       IF StillScheduled(t)
       THEN /\ ms' = [ms EXCEPT ![t] = c.ms]
            /\ next' = [next EXCEPT ![t] = ResetDeadline(c)]
            /\ InsertLocked(t, timers \ {t})
            /\ UNCHANGED <<armed, recurring>>
       ELSE UNCHANGED <<heap, timers, tickled>>
  /\ call' = [call EXCEPT ![u] = Idle]
  /\ UNCHANGED <<clock, prevTime, loop, history, bounds, gone>>

\* The object behind addConditionTimer's weak_ptr dies.
DropCondition(t) ==
  /\ t \in Conditional \ gone
  /\ gone' = gone \cup {t}
  /\ UNCHANGED <<clock, heap, manager, loop, history, bounds, call>>

-----------------------------------------------------------------------------
(* The event loop of test_timer. *)

StartLoop ==
  /\ lpc = "start" /\ call[Loop] = Idle
  /\ lpc' = "next"
  /\ UNCHANGED <<clock, heap, manager, timeout, sampled, cbs, history, bounds, gone, call>>

\* getNextTimer, whose result is epoll_wait's timeout.
GetNextTimer ==
  /\ lpc = "next"
  /\ tickled' = FALSE
  /\ \/ timers = {} /\ timeout' = Forever
     \/ \E t \in timers :
          /\ \A s \in timers : Before(t, s)
          /\ timeout' = Sleep(t)
  /\ lpc' = "wait"
  /\ UNCHANGED <<clock, heap, timers, prevTime, sampled, cbs, history, bounds, gone, call>>

\* epoll_wait returns: its time is over, or a descriptor or a signal ends it.
WaitEnd(reason) ==
  /\ lpc = "wait"
  /\ reason = "timeout" => timeout = 0
  /\ lpc' = "sample"
  /\ UNCHANGED <<clock, heap, manager, timeout, sampled, cbs, history, bounds, gone, call>>

\* listExpiredCb reads the clock, then looks at the set under the read lock.
SampleClock ==
  /\ lpc = "sample"
  /\ sampled' = clock
  /\ lpc' = IF timers = {} THEN "run" ELSE "collect"
  /\ UNCHANGED <<clock, heap, manager, timeout, cbs, history, bounds, gone, call>>

\* The rest of listExpiredCb, under the write lock.
ListExpiredCb ==
  /\ lpc = "collect"
  /\ lpc' = "run"
  /\ LET due == Expired(sampled) IN
       /\ prevTime' = IF timers = {} THEN prevTime ELSE sampled
       /\ cbs' = {[t |-> t, at |-> next[t]] : t \in due}
       /\ next' = [t \in Timers |-> IF t \in due /\ recurring[t]
                                    THEN sampled + ms[t] ELSE next[t]]
       /\ timers' = Kept(timers, due)
       /\ armed' = Kept(armed, due)
  /\ UNCHANGED <<clock, recurring, ms, tickled, timeout, sampled, history, bounds,
                 gone, call>>

\* The loop runs the collected callbacks in the order of the set they came from;
\* OnTimer skips the callback when its condition is gone.
RunCallback ==
  /\ lpc = "run"
  /\ \E e \in cbs :
       /\ \A f \in cbs : e.at < f.at \/ (e.at = f.at /\ e.t <= f.t)
       /\ cbs' = cbs \ {e}
       /\ ran' = IF e.t \in gone \/ ran[e.t] = 2 THEN ran
                 ELSE [ran EXCEPT ![e.t] = ran[e.t] + 1]
  /\ lpc' = "incb"
  /\ UNCHANGED <<clock, heap, manager, timeout, sampled, handles, cancelled,
                 bounds, gone, call>>

CallbackReturns ==
  /\ lpc = "incb" /\ call[Loop] = Idle
  /\ lpc' = "run"
  /\ UNCHANGED <<clock, heap, manager, timeout, sampled, cbs, history, bounds, gone, call>>

NextRound ==
  /\ lpc = "run" /\ cbs = {}
  /\ lpc' = "next"
  /\ UNCHANGED <<clock, heap, manager, timeout, sampled, cbs, history, bounds, gone, call>>

LoopStep == \/ StartLoop \/ GetNextTimer \/ WaitEnd("timeout") \/ SampleClock
            \/ ListExpiredCb \/ RunCallback \/ CallbackReturns \/ NextRound

-----------------------------------------------------------------------------
(* Time. *)

Tick ==
  /\ clock < MaxTime
  /\ clock' = clock + 1
  /\ timeout' = IF lpc = "wait" /\ timeout > 0 THEN timeout - 1 ELSE timeout
  /\ UNCHANGED <<heap, manager, lpc, sampled, cbs, history, bounds, gone, call>>

ClockSetBack ==
  /\ jumps < MaxJumps
  /\ \E c \in 0..MaxTime : c < clock /\ clock' = c
  /\ jumps' = jumps + 1
  /\ UNCHANGED <<heap, manager, loop, history, calls, gone, call>>

-----------------------------------------------------------------------------
LockedStep(u) == AddTimerLocked(u) \/ ResetLocked(u)

Next ==
  \/ \E u \in Threads, t \in Timers :
       \/ \E m \in Periods, b \in BOOLEAN : AddTimer(u, t, m, b) \/ Reset(u, t, m, b)
       \/ Cancel(u, t)
       \/ Refresh(u, t)
  \/ \E u \in Threads : LockedStep(u)
  \/ \E t \in Timers : DropCondition(t)
  \/ LoopStep
  \/ WaitEnd("event")
  \/ Tick
  \/ ClockSetBack

Spec == Init /\ [][Next]_vars

\* The scheduler runs the loop and every thread inside the manager, and time
\* passes; nothing makes a thread call, the clock jump or an event arrive.
FairSpec ==
  /\ Spec
  /\ WF_vars(LoopStep)
  /\ \A u \in Threads : WF_vars(LockedStep(u))
  /\ WF_vars(Tick)

-----------------------------------------------------------------------------
(* Properties. *)

TypeOK ==
  /\ clock \in Nat /\ prevTime \in Nat
  /\ timers \subseteq Timers /\ armed \subseteq Timers /\ gone \subseteq Timers
  /\ recurring \in [Timers -> BOOLEAN]
  /\ ms \in [Timers -> Nat] /\ next \in [Timers -> Nat]
  /\ tickled \in BOOLEAN
  /\ call \in [Threads -> Call]
  /\ lpc \in LoopPC /\ timeout \in Nat \cup {Forever} /\ sampled \in Nat
  /\ cbs \subseteq Entry
  /\ handles \subseteq Timers /\ cancelled \subseteq Timers
  /\ ran \in [Timers -> 0..2]
  /\ jumps \in Nat /\ calls \in Nat

\* Every timer a caller holds is in the set exactly while its callback is set:
\* cancel() erases the iterator find() returns without comparing it with end(),
\* and listExpiredCb copies m_cb without testing it.
ArmedIffScheduled ==
  /\ timers \subseteq handles
  /\ handles \cap armed = timers

\* A one-shot timer is invoked at most once, however its expiry, refresh() and
\* reset() interleave: once collected it can never be scheduled again.
OneShotOnce ==
  \A t \in Timers :
    ~recurring[t] =>
      /\ ran[t] <= 1
      /\ (\E e \in cbs : e.t = t) => ran[t] = 0 /\ t \notin timers
      /\ t \in timers => ran[t] = 0

\* cancel() returning true is a promise: the timer is never scheduled again by a
\* racing reset() or a collection, and the callback of a one-shot is not run.
CancelIsFinal ==
  \A t \in cancelled :
    /\ t \notin timers /\ t \notin armed
    /\ ~recurring[t] => ran[t] = 0 /\ \A e \in cbs : e.t # t

\* While the clock is never set back, no callback is collected before its
\* deadline although the clock was read before the lock was taken, and a timer
\* left in the set is later than that reading.
NeverEarlyNeverMissed ==
  [][lpc = "collect" /\ lpc' = "run" /\ jumps = 0 =>
       /\ \A e \in cbs' : e.at <= clock
       /\ \A t \in timers' : ms[t] > 0 => next'[t] > sampled]_vars

\* A scheduled timer leaves its deadline once the clock has passed it: it fires,
\* or a caller cancels, refreshes or resets it.
DueTimerFires ==
  \A t \in Timers : \A d \in 0..MaxTime :
    (t \in timers /\ next[t] = d) ~> (t \notin timers \/ next[t] # d)
=============================================================================
