----------------------------- MODULE Heartbeats -----------------------------
(***************************************************************************)
(* The table of heartbeats in shared memory (CPActive and CSEM in          *)
(* src/_public.cpp), checkproc, which ends the programs whose heartbeat is *)
(* late, and procctl, which starts every program again when it has ended.  *)
(*                                                                         *)
(* A record of the table is the process id and whether its last heartbeat  *)
(* is younger than its timeout.  What the programs do while they run is    *)
(* left to the module that extends this one.                               *)
(***************************************************************************)
EXTENDS Integers, FiniteSetsExt

CONSTANTS
  Programs,  \* programs with a heartbeat, each under a procctl of its own
  Mates,     \* the programs started in the process group of checkproc
  Pids,      \* process ids (a bound): one that is free may be given again
  MaxNum,    \* MAXNUMP_: the records of the table
  MaxFaults  \* bound: processes that die, calls that fail or hang, late heartbeats

ASSUME TableAssumption ==
  /\ Mates \subseteq Programs
  /\ 0 \notin Pids
  /\ MaxNum \in Nat \ {0} /\ MaxFaults \in Nat

VARIABLES
  shm,   \* the table
  sem,   \* the semaphore: None before semget has created it, then its value
  pc,    \* per program: where it is
  pid,   \* per program: its process id, 0 while it does not run
  pos,   \* per program: m_pos
  hung,  \* programs stuck in a call that does not come back
  term,  \* programs to which signal 15 has been sent
  chk,   \* where checkproc is
  slot,  \* the record it is at: ii
  faults,
  robbed \* history: checkproc has erased a record that a running program held

table == <<shm, sem>>
program == <<pc, pid, pos, hung, term>>
history == <<faults, robbed>>
checker == <<chk, slot>>

Fault == faults < MaxFaults /\ faults' = faults + 1
None == -1
Slots == 0..(MaxNum - 1)
Empty == [pid |-> 0, fresh |-> FALSE]
Running(p) == pid[p] # 0
Alive(x) == \E p \in Programs : Running(p) /\ pid[p] = x
Lowest(S) == IF S = {} THEN None ELSE Min(S)

HeartbeatInit ==
  /\ shm = [s \in Slots |-> Empty] /\ sem = None
  /\ pc = [p \in Programs |-> "down"]
  /\ pid = [p \in Programs |-> 0] /\ pos = [p \in Programs |-> None]
  /\ hung = {} /\ term = {}
  /\ chk = "look" /\ slot = 0
  /\ faults = 0 /\ robbed = FALSE

\* procctl runs a program that has ended once more, after its pause.
Start(p) ==
  /\ pc[p] = "down"
  /\ \E x \in Pids : ~Alive(x) /\ pid' = [pid EXCEPT ![p] = x]
  /\ pc' = [pc EXCEPT ![p] = "born"]
  /\ UNCHANGED <<table, pos, hung, term, checker, history>>

\* CSEM::init takes the semaphore that exists, or creates it with the value 0.
InitSem(p) ==
  /\ pc[p] = "born"
  /\ pc' = [pc EXCEPT ![p] = IF sem = None THEN "setval" ELSE "scan"]
  /\ sem' = IF sem = None THEN 0 ELSE sem
  /\ UNCHANGED <<shm, pid, pos, hung, term, checker, history>>

\* ... and sets its value in a second call.
SetVal(p) ==
  /\ pc[p] = "setval"
  /\ sem' = 1
  /\ pc' = [pc EXCEPT ![p] = "scan"]
  /\ UNCHANGED <<shm, pid, pos, hung, term, checker, history>>

OwnRecordAnyway(p) == None

\* AddPInfo looks for a record with its own process id, before the P operation:
\* one left behind by a process that ended without clearing it.
OwnRecord(p) == Lowest({s \in Slots : shm[s].pid = pid[p]})

Scan(p) ==
  /\ pc[p] = "scan"
  /\ pos' = [pos EXCEPT ![p] = OwnRecord(p)]
  /\ pc' = [pc EXCEPT ![p] = "lock"]
  /\ UNCHANGED <<table, pid, hung, term, checker, history>>

PTaken == sem \in {0, 1}

P == sem = 1

Lock(p) ==
  /\ pc[p] = "lock" /\ P
  /\ sem' = 0
  /\ pc' = [pc EXCEPT ![p] = "find"]
  /\ UNCHANGED <<shm, pid, pos, hung, term, checker, history>>

\* Otherwise it looks for a free record.  When there is none AddPInfo fails, its
\* callers do not look at that, and the program runs on without a heartbeat.
FindFree(p) ==
  /\ pc[p] = "find"
  /\ LET s == IF pos[p] # None THEN pos[p] ELSE Lowest({x \in Slots : shm[x].pid = 0})
     IN /\ pos' = [pos EXCEPT ![p] = s]
        /\ pc' = [pc EXCEPT ![p] = IF s = None THEN "run" ELSE "write"]
        /\ sem' = IF s = None THEN 1 ELSE sem
  /\ UNCHANGED <<shm, pid, hung, term, checker, history>>

WriteRecord(p) ==
  /\ pc[p] = "write"
  /\ shm' = [shm EXCEPT ![pos[p]] = [pid |-> pid[p], fresh |-> TRUE]]
  /\ sem' = 1
  /\ pc' = [pc EXCEPT ![p] = "run"]
  /\ UNCHANGED <<pid, pos, hung, term, checker, history>>

AddPInfo(p) == InitSem(p) \/ SetVal(p) \/ Scan(p) \/ Lock(p) \/ FindFree(p) \/ WriteRecord(p)

\* UptATime writes the time of the record at m_pos, whosever it is by now.
UptATime(p) ==
  shm' = [s \in Slots |-> IF s = pos[p] THEN [shm[s] EXCEPT !.fresh = TRUE] ELSE shm[s]]

\* A call that never returns, while the program is in one that can.
Hang(p) ==
  /\ p \notin hung
  /\ hung' = hung \cup {p}
  /\ Fault
  /\ UNCHANGED <<table, pc, pid, pos, term, checker, robbed>>

SemLeftTaken(Q) == sem

\* SEM_UNDO: the system gives back what a process that ends has taken.
SemUndone(Q) == IF \E p \in Q : pc[p] \in {"find", "write"} THEN 1 ELSE sem

\* The processes Q end; procctl starts their programs again unless it is gone too.
Ends(Q, where) ==
  /\ pc' = [p \in Programs |-> IF p \in Q THEN where ELSE pc[p]]
  /\ pid' = [p \in Programs |-> IF p \in Q THEN 0 ELSE pid[p]]
  /\ pos' = [p \in Programs |-> IF p \in Q THEN None ELSE pos[p]]
  /\ hung' = hung \ Q /\ term' = term \ Q
  /\ sem' = SemUndone(Q)

\* exit(), from main or from the handler of signal 15: the destructor of CPActive
\* clears the record at m_pos.  With m_pos -1 it writes before the table: that
\* page is not mapped and the process ends there.
Exit(p) ==
  /\ shm' = [s \in Slots |-> IF s = pos[p] THEN Empty ELSE shm[s]]
  /\ Ends({p}, "down")
  /\ UNCHANGED <<checker, robbed>>

ExitOnSignal(p) == p \in term /\ Exit(p) /\ UNCHANGED faults

\* A process that dies without its destructors (a fault, or kill -9 by hand).
Crash(p) ==
  /\ Running(p)
  /\ Ends({p}, "down")
  /\ Fault
  /\ UNCHANGED <<shm, checker, robbed>>

\* The timeout of a record passes without a heartbeat: its program hangs, is gone,
\* or is only slow.
Age(s) ==
  /\ shm[s].fresh
  /\ shm' = [shm EXCEPT ![s].fresh = FALSE]
  /\ IF \E p \in Programs : pos[p] = s /\ p \notin hung THEN Fault ELSE UNCHANGED faults
  /\ UNCHANGED <<sem, program, checker, robbed>>

ToNext == chk' = "look" /\ slot' = (slot + 1) % MaxNum

\* checkproc looks at a record: it passes over an empty one and one in time, and
\* erases one whose process does not exist.  It holds no lock.
Look ==
  /\ chk = "look"
  /\ LET r == shm[slot] IN
       \/ (r.pid = 0 \/ (Alive(r.pid) /\ r.fresh)) /\ ToNext
       \/ r.pid # 0 /\ ~Alive(r.pid) /\ chk' = "erase" /\ UNCHANGED slot
       \/ Alive(r.pid) /\ ~r.fresh /\ chk' = "term" /\ UNCHANGED slot
  /\ UNCHANGED <<table, program, history>>

\* kill(shm[ii].pid, ...) reads the table once more; process id 0 stands for the
\* whole process group of checkproc.
Targets == {p \in Programs : Running(p) /\ IF shm[slot].pid = 0 THEN p \in Mates
                                           ELSE pid[p] = shm[slot].pid}

Terminate ==
  /\ chk = "term"
  /\ term' = term \cup Targets
  /\ chk' = "poll"
  /\ UNCHANGED <<table, pc, pid, pos, hung, slot, history>>

\* Five times a second apart: is the process still there?  Process id 0 is.
Poll ==
  /\ chk = "poll"
  /\ chk' = IF shm[slot].pid # 0 /\ ~Alive(shm[slot].pid) THEN "erase" ELSE "kill"
  /\ UNCHANGED <<table, program, slot, history>>

\* Signal 9 ends the process whose id is in the record now.  When the record has
\* been cleared it ends checkproc's own group, checkproc and its procctl included.
Kill9 ==
  /\ chk = "kill"
  /\ IF shm[slot].pid = 0 THEN Ends(Mates, "gone") /\ chk' = "gone"
                          ELSE Ends(Targets, "down") /\ chk' = "erase"
  /\ UNCHANGED <<shm, slot, history>>

Erase ==
  /\ chk = "erase"
  /\ shm' = [shm EXCEPT ![slot] = Empty]
  /\ robbed' = (robbed \/ \E p \in Programs : pos[p] = slot)
  /\ ToNext
  /\ UNCHANGED <<sem, program, faults>>

Checkproc == Look \/ Terminate \/ Poll \/ Kill9 \/ Erase

-----------------------------------------------------------------------------
(* Properties. *)

\* Two programs that run never write to one record, although the record is chosen
\* outside the semaphore when it carries the own process id: only checkproc, by
\* erasing without a lock a record that is held, can make two of them share it.
SharedOnlyIfErased ==
  \A p, q \in Programs :
    p # q /\ {pc[p], pc[q]} = {"run"} /\ pos[p] = pos[q] /\ pos[p] # None => robbed

\* Process ids come round again (comment in AddPInfo): once a program has
\* registered no other record carries its process id, so that checkproc does not
\* end it for the heartbeat of a process that is long gone.
NoSecondRecord ==
  \A p \in Programs, s \in Slots :
    pc[p] = "run" /\ shm[s].pid = pid[p] => s = pos[p]

\* The semaphore survives every process that dies inside AddPInfo: it is 0 with
\* nobody inside only when its creator died between semget and SETVAL, before
\* any program had registered.
LockOutlivesHolder ==
  sem = 0 /\ (\A p \in Programs : pc[p] \notin {"setval", "find", "write"})
    => \A s \in Slots : shm[s] = Empty
=============================================================================
