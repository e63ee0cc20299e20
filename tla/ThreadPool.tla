----------------------------- MODULE ThreadPool -----------------------------
(***************************************************************************)
(* server::ThreadPool (src/threadpool.cpp).  The workers poll the queue;   *)
(* a worker holds m_mutex from the moment it pops a task until the task    *)
(* has returned.  The destructor sets m_isClosed and lets the members go   *)
(* without joining the workers, which are detached by ~Thread.             *)
(*                                                                         *)
(* m_sem is notified and never waited for, so it has no state here.  A     *)
(* poll that finds nothing to do is a stuttering step.                     *)
(***************************************************************************)
EXTENDS Sequences, Naturals

CONSTANTS
  Workers,
  Tasks,      \* what can be submitted
  Nested,     \* the tasks whose body calls addTask on the same pool
  NoTask,
  Free,       \* m_mutex is not held
  MaxQueue    \* bound: tasks waiting

ASSUME PoolAssumption ==
  /\ Nested \subseteq Tasks /\ NoTask \notin Tasks
  /\ Free \notin Workers /\ MaxQueue \in Nat \ {0}

VARIABLES
  tasks,      \* m_tasks
  phase,      \* open, closed (m_isClosed), or destroyed with its members
  mutex,      \* the worker that holds m_mutex, or Free
  wstate,     \* each worker: polling, running a task, or returned
  running     \* the task each worker runs

poolVars == <<tasks, phase, mutex, wstate, running>>

PoolInit ==
  /\ tasks = <<>> /\ phase = "open" /\ mutex = Free
  /\ wstate = [w \in Workers |-> "poll"]
  /\ running = [w \in Workers |-> NoTask]

\* m_mutex can be locked.  (Mutant: a task is run after the lock is released.)
LockIgnored == phase # "destroyed"
LockFree == phase # "destroyed" /\ mutex = Free

AddTask(t) ==
  /\ LockFree /\ Len(tasks) < MaxQueue
  /\ tasks' = Append(tasks, t)
  /\ UNCHANGED <<phase, mutex, wstate, running>>

\* std::move(m_tasks.front()), then m_tasks.pop().  (Mutant: the second
\* is forgotten.)
NextTask == Head(tasks)
NotPopped == tasks
Popped == Tail(tasks)

\* The task at the front is moved out and called, all under the lock.
TakeTask(w) ==
  /\ wstate[w] = "poll" /\ LockFree /\ tasks # <<>>
  /\ mutex' = w
  /\ running' = [running EXCEPT ![w] = NextTask] /\ tasks' = Popped
  /\ wstate' = [wstate EXCEPT ![w] = "run"]
  /\ UNCHANGED phase

\* The task returns and the lock's scope ends.  One that calls addTask never
\* returns: it waits for the mutex its own worker holds.
TaskReturns(w) ==
  /\ wstate[w] = "run" /\ running[w] \notin Nested
  /\ mutex' = Free
  /\ running' = [running EXCEPT ![w] = NoTask]
  /\ wstate' = [wstate EXCEPT ![w] = "poll"]
  /\ UNCHANGED <<tasks, phase>>

\* (Mutant: a closed pool is left at once.)
ExitAtOnce == phase = "closed"
MayExit == phase = "closed" /\ tasks = <<>>

WorkerExits(w) ==
  /\ wstate[w] = "poll" /\ LockFree /\ MayExit
  /\ wstate' = [wstate EXCEPT ![w] = "exit"]
  /\ UNCHANGED <<tasks, phase, mutex, running>>

\* ~ThreadPool: the body, then the members.
Close ==
  /\ LockFree /\ phase = "open"
  /\ phase' = "closed"
  /\ UNCHANGED <<tasks, mutex, wstate, running>>

DestroyMembers ==
  /\ phase = "closed"
  /\ phase' = "destroyed"
  /\ UNCHANGED <<tasks, mutex, wstate, running>>

WorkerStep(w) == TakeTask(w) \/ TaskReturns(w) \/ WorkerExits(w)

-----------------------------------------------------------------------------
(* The invariant that ties the lock to the workers. *)

PoolTypeOK ==
  /\ tasks \in Seq(Tasks) /\ phase \in {"open", "closed", "destroyed"}
  /\ mutex \in Workers \cup {Free}
  /\ wstate \in [Workers -> {"poll", "run", "exit"}]
  /\ running \in [Workers -> Tasks \cup {NoTask}]

\* The worker that runs a task is the one that holds the mutex, so at most one
\* task runs at any time whatever the number of workers.
RunsUnderLock ==
  \A w \in Workers : /\ wstate[w] = "run" <=> mutex = w
                     /\ wstate[w] = "run" <=> running[w] # NoTask

\* The task being run, as seen from outside.
Current == IF mutex = Free THEN NoTask ELSE running[mutex]
=============================================================================
