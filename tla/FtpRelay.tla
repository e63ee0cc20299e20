------------------------------ MODULE FtpRelay ------------------------------
(***************************************************************************)
(* Files on their way through the FTP tools: ftpgetfiles fetches them from *)
(* a server into the local directory and ftpputfiles sends them on to      *)
(* another (src/tools/bak, with Cftp of _ftp.cpp).  Both are started again *)
(* and again by procctl, keep a heartbeat and are ended by checkproc in    *)
(* the middle of anything (module Heartbeats).                             *)
(*                                                                         *)
(* One file name is followed.  A version of the file is its number, its    *)
(* modification second and its size; a publisher replaces the file on the  *)
(* server as a whole, as crtsurfdata does by renaming it.                  *)
(***************************************************************************)
EXTENDS Heartbeats

CONSTANTS
  Get, Put,   \* the two programs
  Setups,     \* the values of ptype: 1 leave the file, 2 delete it, 3 move it away
  MaxVersion  \* bound: versions published

ASSUME RelayAssumption == Get # Put /\ Programs = {Get, Put} /\ Setups \subseteq [Programs -> 1..3]

VARIABLES
  ptype,  \* per program: starg.ptype
  src,    \* the file in the directory of the first server
  local,  \* in the local directory
  dst,    \* in the directory of the second server
  last,   \* the version published last
  ok,     \* per program: okfilename, the modification times it lists
  job,    \* per program: its step, vlistfile2, vlistfile3 and what it copies
  raced   \* history: the file changed within a second, or between copy and removal

files == <<src, local, dst, last>>
relay == <<ptype, files, ok, job, raced>>
vars == <<table, program, checker, history, relay>>

Absent == [ver |-> 0, mtime |-> 0, size |-> 0]
NoJob == [at |-> "login", listed |-> 0, keep |-> FALSE, copy |-> Absent]

Init ==
  /\ HeartbeatInit
  /\ ptype \in Setups
  /\ src = Absent /\ local = Absent /\ dst = Absent /\ last = Absent
  /\ ok = [p \in Programs |-> {}]
  /\ job = [p \in Programs |-> NoJob]
  /\ raced = FALSE

\* The publisher of the first server; the clock it stamps files with counts seconds.
Publish ==
  /\ last.ver < MaxVersion
  /\ \E m \in {last.mtime, last.mtime + 1}, z \in {last.size, last.size + 1} :
       /\ m > 0 /\ z > 0
       /\ src' = [ver |-> last.ver + 1, mtime |-> m, size |-> z]
       /\ raced' = (raced \/ m = last.mtime)
  /\ last' = src'
  /\ UNCHANGED <<table, program, checker, history, ptype, local, dst, ok, job>>

-----------------------------------------------------------------------------
(* The steps the two programs share. *)

At(p, step) == pc[p] = "run" /\ p \notin hung /\ p \notin term /\ job[p].at = step

\* A step of a running program that ends with a heartbeat, and one without.
Beat(p) ==
  /\ UptATime(p)
  /\ UNCHANGED <<sem, program, checker, history>>

NoBeat == UNCHANGED <<table, program, checker, history>>

\* LoadListFile and LoadLocalFile: the name and its modification time, if it is there.
List(p, dir) ==
  /\ At(p, "login")
  /\ job' = [job EXCEPT ![p].listed = dir.mtime,
                        ![p].at = IF dir = Absent THEN "done"
                                  ELSE IF ptype[p] = 1 THEN "compare" ELSE "copy"]
  /\ Beat(p)
  /\ UNCHANGED <<ptype, files, ok, raced>>

\* LoadOKFile and CompVector; WriteToOKFile then opens okfilename with "w".
Compare(p) ==
  /\ At(p, "compare")
  /\ job' = [job EXCEPT ![p].keep = job[p].listed \in ok[p], ![p].at = "rewrite"]
  /\ ok' = [ok EXCEPT ![p] = {}]
  /\ NoBeat
  /\ UNCHANGED <<ptype, files, raced>>

KeptAll(p) == {job[p].listed}

\* vlistfile3: what is listed and need not be transferred again.
Kept(p) == IF job[p].keep THEN {job[p].listed} ELSE {}

WriteToOKFile(p) ==
  /\ At(p, "rewrite")
  /\ ok' = [ok EXCEPT ![p] = Kept(p)]
  /\ job' = [job EXCEPT ![p].at = IF job[p].keep THEN "done" ELSE "copy"]
  /\ Beat(p)
  /\ UNCHANGED <<ptype, files, raced>>

\* The transfer to the temporary name; it fails when the file is gone.
Copy(p, dir) ==
  /\ At(p, "copy") /\ dir # Absent
  /\ job' = [job EXCEPT ![p].copy = dir, ![p].at = "publish"]
  /\ NoBeat
  /\ UNCHANGED <<ptype, files, ok, raced>>

\* After the transfer: the file is listed as done, or removed, or moved away.
AppendToOKFile(p) ==
  /\ At(p, "settle") /\ ptype[p] = 1
  /\ ok' = [ok EXCEPT ![p] = @ \cup {job[p].listed}]
  /\ job' = [job EXCEPT ![p].at = "done"]
  /\ NoBeat
  /\ UNCHANGED <<ptype, files, raced>>

TakeAway(p, dir) ==
  /\ At(p, "settle") /\ ptype[p] \in {2, 3}
  /\ raced' = (raced \/ (dir # Absent /\ dir # job[p].copy))
  /\ job' = [job EXCEPT ![p].at = "done"]
  /\ NoBeat
  /\ UNCHANGED <<ptype, dst, last, ok>>

-----------------------------------------------------------------------------
(* ftpgetfiles. *)

GetList == List(Get, src)
GetCompVector == Compare(Get)
GetWriteToOKFile == WriteToOKFile(Get)
GetTransfer == Copy(Get, src)

\* Cftp::get compares the modification times before and after, then renames.
GetRename ==
  /\ At(Get, "publish") /\ src.mtime = job[Get].copy.mtime
  /\ local' = job[Get].copy
  /\ job' = [job EXCEPT ![Get].at = "settle"]
  /\ Beat(Get)
  /\ UNCHANGED <<ptype, src, dst, last, ok, raced>>

GetSettle ==
  \/ AppendToOKFile(Get)
  \/ TakeAway(Get, src) /\ src' = Absent /\ UNCHANGED local

-----------------------------------------------------------------------------
(* ftpputfiles. *)

PutList == List(Put, local)
PutCompVector == Compare(Put)
PutWriteToOKFile == WriteToOKFile(Put)
PutTransfer == Copy(Put, local)

\* Cftp::put renames on the server first and compares the sizes afterwards.
PutRename ==
  /\ At(Put, "publish")
  /\ dst' = job[Put].copy
  /\ job' = [job EXCEPT ![Put].at = IF local.size = job[Put].copy.size
                                    THEN "settle" ELSE "done"]
  /\ Beat(Put)
  /\ UNCHANGED <<ptype, src, local, last, ok, raced>>

PutSettle ==
  \/ AppendToOKFile(Put)
  \/ TakeAway(Put, local) /\ local' = Absent /\ UNCHANGED src

-----------------------------------------------------------------------------
(* A run of a program ends after its last file, after a call that failed, by a  *)
(* signal or by a fault; what it knew is gone.                                   *)
Forget ==
  /\ job' = [p \in Programs |-> IF pid'[p] = 0 THEN NoJob ELSE job[p]]
  /\ UNCHANGED <<ptype, files, ok, raced>>

InCall(p) == \E step \in {"login", "copy", "publish", "settle"} : At(p, step)

Heartbeat ==
  \/ \E p \in Programs :
       \/ Start(p) \/ AddPInfo(p) \/ ExitOnSignal(p) \/ Crash(p)
       \/ InCall(p) /\ Hang(p)
       \/ InCall(p) /\ Exit(p) /\ Fault
       \/ At(p, "done") /\ Exit(p) /\ UNCHANGED faults
  \/ \E s \in Slots : Age(s)
  \/ Checkproc

Next ==
  \/ Heartbeat /\ Forget
  \/ Publish
  \/ GetList \/ GetCompVector \/ GetWriteToOKFile \/ GetTransfer \/ GetRename \/ GetSettle
  \/ PutList \/ PutCompVector \/ PutWriteToOKFile \/ PutTransfer \/ PutRename \/ PutSettle

Spec == Init /\ [][Next]_vars

-----------------------------------------------------------------------------
(* Properties. *)

\* A directory still leads to the next one: its file is there and the program
\* that reads it would take it on its next run.
Leads(p, dir, v) == dir = v /\ (ptype[p] # 1 \/ v.mtime \notin ok[p])

\* Wherever the two programs are ended, the newest version is never lost and never
\* listed as done before it has been passed on: it waits in one of the directories
\* or has arrived.  The exceptions are a second version in one second, which the
\* list cannot tell from the first, and a version that replaces the file between
\* its copy and its removal.
NewestNotLost ==
  raced \/ last = Absent
        \/ Leads(Get, src, last) \/ Leads(Put, local, last) \/ dst = last
=============================================================================
