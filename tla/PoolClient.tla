----------------------------- MODULE PoolClient -----------------------------
(***************************************************************************)
(* A pool as test/test_threadpool.cpp uses it: an owner submits tasks from *)
(* outside and may destroy the pool afterwards.                            *)
(***************************************************************************)
EXTENDS ThreadPool, SequencesExt

CONSTANT OwnerDestroys   \* whether the shared_ptr to the pool is ever dropped

ASSUME OwnerAssumption == OwnerDestroys \in BOOLEAN /\ Workers # {}

VARIABLES submitted, started, done   \* history of the tasks

clientVars == <<poolVars, submitted, started, done>>

ClientInit == PoolInit /\ submitted = <<>> /\ started = <<>> /\ done = {}

Submit(t) ==
  /\ phase = "open" /\ t \notin ToSet(submitted)
  /\ AddTask(t)
  /\ submitted' = Append(submitted, t)
  /\ UNCHANGED <<started, done>>

Take(w) ==
  /\ TakeTask(w)
  /\ started' = Append(started, NextTask)
  /\ UNCHANGED <<submitted, done>>

Return(w) ==
  /\ TaskReturns(w)
  /\ done' = done \cup {running[w]}
  /\ UNCHANGED <<submitted, started>>

Exit(w) == WorkerExits(w) /\ UNCHANGED <<submitted, started, done>>

Destroy == OwnerDestroys /\ (Close \/ DestroyMembers) /\ UNCHANGED <<submitted, started, done>>

Step(w) == Take(w) \/ Return(w) \/ Exit(w)

ClientNext == (\E t \in Tasks : Submit(t)) \/ (\E w \in Workers : Step(w)) \/ Destroy

ClientSpec == ClientInit /\ [][ClientNext]_clientVars

\* Every worker thread is scheduled; nothing forces the owner to act.
FairClientSpec == ClientSpec /\ \A w \in Workers : WF_clientVars(Step(w))

-----------------------------------------------------------------------------
ClientTypeOK ==
  /\ PoolTypeOK
  /\ submitted \in Seq(Tasks) /\ started \in Seq(Tasks) /\ done \subseteq Tasks

\* No task is lost, doubled or overtaken between addTask and the worker that
\* runs it, however many workers poll the queue.
InOrderExactlyOnce == submitted = started \o tasks

\* The pool behaves like a single-threaded executor.
Executor == INSTANCE SerialExecutor WITH queue <- tasks, current <- Current
ImplementsExecutor == Executor!Spec

\* A closed pool drains: when every worker has left, every task has been run.
DrainedBeforeExit ==
  (\A w \in Workers : wstate[w] = "exit") => ToSet(submitted) = done

\* Every task that addTask has accepted is run to its end, unless the pool is
\* destroyed first or a task waits for ever for its own pool.
EveryTaskRuns ==
  \A t \in Tasks :
    t \in ToSet(submitted) ~> t \in done \/ phase = "destroyed" \/ Current \in Nested
=============================================================================
