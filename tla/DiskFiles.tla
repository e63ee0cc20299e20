----------------------------- MODULE DiskFiles -----------------------------
(***************************************************************************)
(* Files on disk as the tools handle them (src/_public.cpp): directories   *)
(* made on the way, CFile with its temporary name, CLogFile with its       *)
(* switches, the CDir snapshot, and the two tools that clean up with it    *)
(* (gzipfiles, deletefiles).                                               *)
(*                                                                         *)
(* A path is the sequence of its names, a name that of its characters.  A  *)
(* disk has directories, the text of each file, and the directories in     *)
(* which nothing can be created.  What is written is on the disk at once:  *)
(* no reader looks at a file that is still open.                           *)
(***************************************************************************)
EXTENDS PublicStrings

Without_(f, x) == Restrict(f, DOMAIN f \ {x})

-----------------------------------------------------------------------------
(* MKDIR, FOPEN, REMOVE, RENAME. *)

\* Each directory on the way that is not there is made, up to the first that cannot be.
MKDIR(disk, path, bisfilename) ==
  LET dir(k) == SubSeq(path, 1, k)
      depth == IF bisfilename THEN Len(path) - 1 ELSE Len(path)
      missing == {k \in 1..depth : dir(k) \notin disk.dirs \cup DOMAIN disk.files}
      bad == {k \in missing : Front(dir(k)) \in disk.deny \cup DOMAIN disk.files}
      made == {k \in missing : bad = {} \/ k < Min(bad)}
  IN [ok |-> bad = {}, disk |-> [disk EXCEPT !.dirs = @ \cup {dir(k) : k \in made}]]

FOPEN(disk, path, mode) ==
  LET m == MKDIR(disk, path, TRUE)
      d == m.disk
      there == path \in DOMAIN d.files
      ok == /\ m.ok /\ Front(path) \in d.dirs /\ path \notin d.dirs
            /\ there \/ (mode # "r" /\ Front(path) \notin d.deny)
  IN IF ~ok THEN [ok |-> FALSE, disk |-> d]
     ELSE [ok |-> TRUE,
           disk |-> IF there /\ mode # "w" THEN d ELSE [d EXCEPT !.files = (path :> <<>>) @@ @]]

Printed(disk, path, text) == [disk EXCEPT !.files[path] = @ \o text]
remove(disk, path) ==
  IF path \in DOMAIN disk.files /\ Front(path) \notin disk.deny
    THEN [disk EXCEPT !.files = Without_(@, path)] ELSE disk
rename(disk, from, to) ==
  IF from \in DOMAIN disk.files /\ Front(to) \in disk.dirs \ disk.deny /\ to \notin disk.dirs
    THEN [ok |-> TRUE, disk |-> [disk EXCEPT !.files = Without_((to :> @[from]) @@ @, from)]]
    ELSE [ok |-> FALSE, disk |-> disk]

\* RENAME makes the directories of the new name first.
RENAME(disk, from, to) ==
  LET m == MKDIR(disk, to, TRUE) IN
  IF from \notin DOMAIN disk.files THEN [ok |-> FALSE, disk |-> disk]
  ELSE IF ~m.ok THEN m ELSE rename(m.disk, from, to)

-----------------------------------------------------------------------------
(* CFile: fp is the path that is open (<<>>: none), tmp is m_filenametmp. *)

NewFile(disk) == [disk |-> disk, fp |-> <<>>, mode |-> "w", filename |-> <<>>, tmp |-> <<>>]
Closed(s) == [s EXCEPT !.fp = <<>>, !.filename = <<>>, !.tmp = <<>>]
TmpName(path) == Append(Front(path), Last(path) \o <<".tmp">>)

Close(s) ==
  IF s.fp = <<>> THEN s
  ELSE Closed(IF s.tmp = <<>> THEN s ELSE [s EXCEPT !.disk = remove(@, s.tmp)])

Open(s, path, mode) ==
  LET c == Close(s) o == FOPEN(c.disk, path, mode)
  IN IF o.ok THEN [c EXCEPT !.disk = o.disk, !.fp = path, !.mode = mode, !.filename = path]
     ELSE [c EXCEPT !.disk = o.disk]

OpenForRename(s, path, mode) ==
  LET c == [Close(s) EXCEPT !.filename = path, !.tmp = TmpName(path)]
      o == FOPEN(c.disk, c.tmp, mode)
  IN IF o.ok THEN [c EXCEPT !.disk = o.disk, !.fp = c.tmp, !.mode = mode]
     ELSE [c EXCEPT !.disk = o.disk]

CloseAndRename(s) ==
  IF s.fp = <<>> THEN s
  ELSE LET r == rename(s.disk, s.tmp, s.filename)
       IN Closed([s EXCEPT !.disk = IF r.ok THEN r.disk ELSE remove(@, s.tmp)])

\* The file that is removed is m_filename, and m_filenametmp is kept when it was not there.
CloseAndRemove(s) ==
  IF s.fp = <<>> THEN s
  ELSE IF remove(s.disk, s.filename) = s.disk THEN [s EXCEPT !.fp = <<>>, !.filename = <<>>]
  ELSE Closed([s EXCEPT !.disk = remove(@, s.filename)])

Fprintf(s, text) ==
  IF s.fp = <<>> \/ s.mode = "r" THEN s ELSE [s EXCEPT !.disk = Printed(@, s.fp, text)]

Operation(s, op) ==
  CASE op.name = "Open"           -> Open(s, op.path, op.mode)
    [] op.name = "OpenForRename"  -> OpenForRename(s, op.path, op.mode)
    [] op.name = "Fprintf"        -> Fprintf(s, op.text)
    [] op.name = "CloseAndRename" -> CloseAndRename(s)
    [] op.name = "CloseAndRemove" -> CloseAndRemove(s)
    [] op.name = "Close"          -> Close(s)
Operations(disk, ops) == FoldLeft(Operation, NewFile(disk), ops)

-----------------------------------------------------------------------------
(* CLogFile: pos is the position of its stream. *)

Stamp(now) == timetostr(now, <<"yyyy", "mm", "dd", "hh24", "mi", "ss">>)
Switched(name, now) == Append(Front(name), Last(name) \o <<".">> \o Stamp(now))

\* A stream opened with "a+" stands at 0 until it is written to.
OpenLog(disk, name, mode, backup, max) ==
  LET o == FOPEN(disk, name, mode) IN
  [disk |-> o.disk, open |-> o.ok, pos |-> 0, name |-> name, mode |-> mode, backup |-> backup, max |-> max]

BackupLogFile(l, now) ==
  IF ~l.open \/ ~l.backup \/ l.pos <= l.max THEN l
  ELSE OpenLog(rename(l.disk, l.name, Switched(l.name, now)).disk, l.name, l.mode, l.backup, l.max)

WriteEx(l, text) ==
  IF ~l.open THEN l
  ELSE LET d == Printed(l.disk, l.name, text) IN [l EXCEPT !.disk = d, !.pos = Len(d.files[l.name])]
Write(l, now, text) == WriteEx(BackupLogFile(l, now), Stamp(now) \o text)
LogWrites(l, writes) == FoldLeft(LAMBDA a, w : Write(a, w.now, w.text), l, writes)

-----------------------------------------------------------------------------
(* CDir.  An entry of a directory is a file with its time or a directory with *)
(* its entries in the order of readdir.                                       *)

\* names in acc, the sequence of paths found so far; a full snapshot stops the
\* directory it was filled in, and each that is still being read at its next match.
RECURSIVE _OpenDir(_, _, _, _, _, _)
_OpenDir(acc, path, entries, rules, max, child) ==
  LET add(a, e) ==
        LET p == Append(path, e.name) IN
        IF a.stop \/ ~a.ok \/ e.name[1] = "." THEN a
        ELSE IF e.dir
          THEN IF ~child THEN a
               ELSE IF ~e.readable THEN [a EXCEPT !.ok = FALSE]
               ELSE [_OpenDir(a, p, e.entries, rules, max, child) EXCEPT !.stop = FALSE]
        ELSE IF ~MatchStr(e.name, rules) THEN a
        ELSE [a EXCEPT !.names = Append(@, [path |-> p, mtime |-> e.mtime]), !.stop = Len(a.names) + 1 >= max]
  IN FoldLeft(add, acc, entries)
OpenDir(path, entries, rules, max, child) ==
  _OpenDir([ok |-> TRUE, stop |-> FALSE, names |-> <<>>], path, entries, rules, max, child)

ModifyTime(mtime) == timetostr(mtime, <<"yyyy", "-", "mm", "-", "dd", " ", "hh24", ":", "mi", ":", "ss">>)
FileMTime(mtime, fmt) == timetostr(mtime, IF fmt = <<>> THEN <<"yyyy", "mm", "dd", "hh24", "mi", "ss">> ELSE fmt)
UTime(stime) == strtotime(stime)

-----------------------------------------------------------------------------
(* gzipfiles and deletefiles: every file of the snapshot that is older than *)
(* the timeout, compared as strings.                                        *)

\* strcmp of two times of the same format.
Before(s, t) ==
  \E i \in DOMAIN s : SubSeq(s, 1, i - 1) = SubSeq(t, 1, i - 1) /\ IsDigit(s[i]) /\ DigitOf(s[i]) < DigitOf(t[i])
Older(d, now, timeout) == {f \in Range(d.names) : Before(ModifyTime(f.mtime), ModifyTime(now - timeout))}

Deleted(path, entries, rules, max, now, timeout) ==
  LET d == OpenDir(path, entries, rules, max, TRUE) IN
  IF d.ok THEN {f.path : f \in Older(d, now, timeout)} ELSE {}
Gzipped(path, entries, rules, max, now, timeout) ==
  LET d == OpenDir(path, entries, rules, max, TRUE) IN
  IF d.ok THEN {f.path : f \in {g \in Older(d, now, timeout) : ~MatchStr(Last(g.path), <<"*", ".", "g", "z">>)}}
  ELSE {}
=============================================================================
