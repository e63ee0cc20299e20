----------------------------- MODULE RelayProofs -----------------------------
(***************************************************************************)
(* What holds of Heartbeats and FtpRelay for every number of process ids,  *)
(* records, versions and faults, and wherever a program is ended.          *)
(*                                                                         *)
(* TableInv is about the table of heartbeats and its semaphore; no step of *)
(* the two FTP programs outside the table touches what it says.  RelayInv  *)
(* is about the file on its way; no step of the table touches that, except *)
(* that a program which ends forgets its job.                              *)
(***************************************************************************)
EXTENDS FtpRelay, WellFoundedInduction, FiniteSetTheorems, TLAPS

Where == {"down", "gone", "born", "setval", "scan", "lock", "find", "write", "run"}
Record == [pid : Pids \cup {0}, fresh : BOOLEAN]

TableTypeOK ==
  /\ shm \in [Slots -> Record] /\ sem \in {None, 0, 1}
  /\ pc \in [Programs -> Where] /\ pid \in [Programs -> Pids \cup {0}]
  /\ pos \in [Programs -> Slots \cup {None}]
  /\ hung \subseteq Programs /\ term \subseteq Programs
  /\ chk \in {"look", "term", "poll", "kill", "erase", "gone"} /\ slot \in Slots
  /\ faults \in Nat /\ robbed \in BOOLEAN

\* Process ids tell the programs that run apart.
Identity ==
  /\ \A p \in Programs : pid[p] # 0 <=> pc[p] \notin {"down", "gone"}
  /\ \A p, q \in Programs : pid[p] = pid[q] /\ pid[p] # 0 => p = q

\* Inside the semaphore, or about to give it its first value: one program only.
Exclusive ==
  /\ \A p \in Programs : pc[p] \in {"setval", "find", "write"} => sem = 0
  /\ \A p, q \in Programs :
       {pc[p], pc[q]} \subseteq {"setval", "find", "write"} => p = q
  /\ sem = None => \A p \in Programs : pc[p] \in {"down", "gone", "born"}

\* While the semaphore is not free and nobody is inside, nothing has been registered.
Unregistered ==
  sem # 1 /\ (\A p \in Programs : pc[p] \notin {"find", "write"}) =>
    /\ \A s \in Slots : shm[s] = Empty
    /\ \A p \in Programs : pc[p] # "run"

\* A process id is in one record at most; a program that has looked for its own has
\* found it; before that a program has no record.
Looked == {"lock", "find", "write", "run"}
OneRecord == \A s, r \in Slots : shm[s].pid = shm[r].pid /\ shm[s].pid # 0 => s = r
OwnFound ==
  \A p \in Programs : pc[p] \in Looked => \A s \in Slots : shm[s].pid = pid[p] => s = pos[p]
Placed == \A p \in Programs : /\ pc[p] \notin Looked => pos[p] = None
                              /\ pc[p] = "write" => pos[p] # None
Records == OneRecord /\ OwnFound /\ Placed

\* Until checkproc has erased the record of a running program, the record at m_pos is
\* one's own, or still free for the program inside the semaphore.
OwnRecords == \A p \in Programs : pos[p] # None =>
  \/ shm[pos[p]].pid = pid[p]
  \/ shm[pos[p]].pid = 0 /\ pc[p] = "write"
Apart == \A p, q \in Programs : pos[p] = pos[q] => p = q \/ pos[p] = None
Owned == ~robbed => OwnRecords /\ Apart

TableInv == TableTypeOK /\ Identity /\ Exclusive /\ Unregistered /\ Records /\ Owned

-----------------------------------------------------------------------------
Version == [ver : Nat, mtime : Nat, size : Nat]
Job == [at : {"login", "compare", "rewrite", "copy", "publish", "settle", "done"},
        listed : Nat, keep : BOOLEAN, copy : Version]

RelayTypeOK ==
  /\ ptype \in [Programs -> 1..3]
  /\ src \in Version /\ local \in Version /\ dst \in Version /\ last \in Version
  /\ ok \in [Programs -> SUBSET Nat] /\ job \in [Programs -> Job] /\ raced \in BOOLEAN

\* A file is not newer than the last version, and with its time it is that version.
Known(x) ==
  /\ x.mtime <= last.mtime /\ (x.mtime = 0 => x = Absent)
  /\ ~raced /\ x.mtime = last.mtime => x = last

Dated ==
  /\ \A x \in {src, local, dst, last} : Known(x)
  /\ \A p \in Programs : /\ Known(job[p].copy) /\ job[p].listed <= last.mtime
                         /\ \A m \in ok[p] : m <= last.mtime
  /\ src \in {last, Absent}

\* What is copied is not older than what was listed.
Fetched == \A p \in Programs : job[p].at \in {"publish", "settle"} =>
  job[p].listed <= job[p].copy.mtime /\ job[p].copy # Absent

\* The newest version has left the first server, or is on the list of ftpgetfiles, or is
\* about to be put back there: then it is in the local directory or has arrived.
Passed == local = last \/ dst = last
GetKnows == ~raced /\ last # Absent =>
  /\ src # last => Passed
  /\ last.mtime \in ok[Get] => Passed
  /\ job[Get].at = "rewrite" /\ job[Get].keep /\ job[Get].listed = last.mtime => Passed
  /\ job[Get].at = "settle" /\ job[Get].copy = last => Passed

\* The same for ftpputfiles; and once the newest version has arrived nothing older follows.
PutKnows == ~raced /\ last # Absent =>
  /\ last.mtime \in ok[Put] => dst = last
  /\ job[Put].at = "rewrite" /\ job[Put].keep /\ job[Put].listed = last.mtime => dst = last
  /\ job[Put].at = "settle" /\ job[Put].copy = last => dst = last
  /\ dst = last => local \in {last, Absent} /\ (job[Put].at = "publish" => job[Put].copy = last)
  /\ job[Put].at = "publish" /\ job[Put].copy = last => local \in {last, Absent}

\* What is listed in the local directory is only replaced by something newer.
PutListed == job[Put].at \in {"compare", "rewrite", "copy"} =>
  local = Absent \/ job[Put].listed <= local.mtime

RelayInv == RelayTypeOK /\ Dated /\ Fetched /\ GetKnows /\ PutKnows /\ PutListed

-----------------------------------------------------------------------------
(* The lowest of a set of records. Minimum is by the order of the initial segments,
   because a set of numbers has no induction the provers can use. *)

LEMMA Least ==
  ASSUME NEW n \in Nat, NEW S, S \subseteq 0..n, S # {}
  PROVE  Min(S) \in S /\ \A y \in S : Min(S) <= y
<1> DEFINE D(k) == {i \in 0..n : i <= k}
<1> DEFINE T == {D(k) : k \in S}
<1> DEFINE F == {U \in SUBSET (0..n) : IsFiniteSet(U)}
<1>1. IsWellFoundedOn(StrictSubsetOrdering(0..n), F)
  BY FS_StrictSubsetOrderingWellFounded DEF FiniteSubsetsOf
<1>0. \A k \in S : D(k) \in F
  <2> TAKE k \in S
  <2>1. IsFiniteSet(0..n)
    BY FS_Interval
  <2>2. D(k) \subseteq 0..n
    OBVIOUS
  <2> QED
    BY <2>1, <2>2, FS_Subset, Zenon
<1>2. T \subseteq F /\ T # {}
  BY <1>0, Zenon
<1> HIDE DEF F, T
<1>3. PICK X \in T : \A Y \in T : <<Y, X>> \notin StrictSubsetOrdering(0..n)
  BY <1>1, <1>2, WFMin
<1>4. PICK k \in S : X = D(k)
  BY DEF T
<1>5. ASSUME NEW y \in S PROVE k <= y
  <2>1. D(y) \in T
    BY DEF T
  <2>2. ~ (D(y) \subseteq D(k) /\ D(y) # D(k))
    BY <1>3, <1>4, <2>1 DEF StrictSubsetOrdering
  <2>3. k \in Int /\ y \in Int
    OBVIOUS
  <2>4. y < k => D(y) \subseteq D(k) /\ k \in D(k) /\ k \notin D(y)
    BY <2>3
  <2> QED
    BY <2>2, <2>3, <2>4
<1>6. \E x \in S : \A y \in S : x <= y
  BY <1>5
<1> QED
  BY <1>6 DEF Min

\* Lowest picks a member of a set of records that has one.
LEMMA LowestIs ==
  ASSUME NEW S \in SUBSET Slots
  PROVE  /\ S = {} => Lowest(S) = None
         /\ S # {} => Lowest(S) \in S
<1>1. MaxNum - 1 \in Nat /\ S \subseteq 0..(MaxNum - 1)
  BY TableAssumption DEF Slots
<1> QED
  BY <1>1, Least DEF Lowest

-----------------------------------------------------------------------------
(* Every step of the table keeps TableInv. *)

LEMMA InitTable ==
  ASSUME HeartbeatInit
  PROVE  TableInv
<1> USE TableAssumption DEF HeartbeatInit
<1>1. TableTypeOK
  <2>1. Empty \in Record
    BY DEF Empty, Record
  <2>2. shm \in [Slots -> Record] /\ slot \in Slots
    BY <2>1 DEF Slots
  <2>3. /\ pc \in [Programs -> Where] /\ pid \in [Programs -> Pids \cup {0}]
        /\ pos \in [Programs -> Slots \cup {None}]
    BY DEF Where
  <2> QED
    BY <2>2, <2>3 DEF TableTypeOK
<1>2. Identity /\ Exclusive
  BY DEF Identity, Exclusive, None
<1>3. Unregistered /\ Records /\ Owned
  BY DEF Unregistered, Records, OneRecord, OwnFound, Placed, Looked, Owned, OwnRecords, Apart, Empty
<1> QED
  BY <1>1, <1>2, <1>3 DEF TableInv

LEMMA StartTable ==
  ASSUME TableInv, NEW p \in Programs, Start(p)
  PROVE  TableInv'
<1> USE TableAssumption
<1>1. /\ TableTypeOK /\ Identity /\ Exclusive
      /\ Unregistered /\ Records /\ Owned
  BY DEF TableInv
<1>2. /\ pc[p] = "down"
      /\ pc' = [pc EXCEPT ![p] = "born"]
      /\ UNCHANGED <<shm, sem, pos, hung, term, chk, slot, faults, robbed>>
  BY DEF Start, table, program, checker, history
<1>3. PICK x \in Pids : ~Alive(x) /\ pid' = [pid EXCEPT ![p] = x]
  BY DEF Start
<1>4. /\ \A q \in Programs : pid[q] # x
      /\ pid'[p] = x /\ \A q \in Programs \ {p} : pid'[q] = pid[q]
      /\ x # 0 /\ pos[p] = None
  BY <1>1, <1>2, <1>3 DEF TableTypeOK, Alive, Running, Identity, Records, Placed, Looked
<1>5. TableTypeOK'
  BY <1>1, <1>2, <1>3, <1>4 DEF TableTypeOK, Record, Empty, Where
<1>6. Identity'
  BY <1>1, <1>2, <1>3, <1>4 DEF Identity, TableTypeOK, Record, Empty, Where
<1>7. Exclusive'
  BY <1>1, <1>2, <1>3, <1>4 DEF Exclusive, TableTypeOK, Record, Empty, Where
<1>8. Unregistered'
  BY <1>1, <1>2, <1>3, <1>4 DEF Unregistered, TableTypeOK, Record, Empty, Where
<1>9. Records'
  BY <1>1, <1>2, <1>3, <1>4 DEF Records, OneRecord, OwnFound, Placed, Looked, TableTypeOK, Record, Empty, Where
<1>10. Owned'
  BY <1>1, <1>2, <1>3, <1>4 DEF Owned, OwnRecords, Apart, TableTypeOK, Record, Empty, Where
<1> QED
  BY <1>5, <1>6, <1>7, <1>8, <1>9, <1>10 DEF TableInv

LEMMA InitSemTable ==
  ASSUME TableInv, NEW p \in Programs, InitSem(p)
  PROVE  TableInv'
<1> USE TableAssumption
<1>1. /\ TableTypeOK /\ Identity /\ Exclusive
      /\ Unregistered /\ Records /\ Owned
  BY DEF TableInv
<1>2. /\ pc[p] = "born"
      /\ pc' = [pc EXCEPT ![p] = IF sem = None THEN "setval" ELSE "scan"]
      /\ sem' = IF sem = None THEN 0 ELSE sem
      /\ UNCHANGED <<shm, pid, pos, hung, term, chk, slot, faults, robbed>>
  BY DEF InitSem, table, program, checker, history
<1>3. TableTypeOK'
  BY <1>1, <1>2 DEF TableTypeOK, Record, Empty, Where
<1>4. Identity'
  BY <1>1, <1>2 DEF Identity, TableTypeOK, Record, Empty, Where
<1>5. Exclusive'
  BY <1>1, <1>2 DEF Exclusive, TableTypeOK, Record, Empty, Where, None
<1>6. Unregistered'
  BY <1>1, <1>2 DEF Unregistered, TableTypeOK, Record, Empty, Where, None
<1>7. Records'
  BY <1>1, <1>2 DEF Records, OneRecord, OwnFound, Placed, Looked, TableTypeOK, Record, Empty, Where
<1>8. Owned'
  BY <1>1, <1>2 DEF Owned, OwnRecords, Apart, TableTypeOK, Record, Empty, Where
<1> QED
  BY <1>3, <1>4, <1>5, <1>6, <1>7, <1>8 DEF TableInv

LEMMA SetValTable ==
  ASSUME TableInv, NEW p \in Programs, SetVal(p)
  PROVE  TableInv'
<1> USE TableAssumption
<1>1. /\ TableTypeOK /\ Identity /\ Exclusive
      /\ Unregistered /\ Records /\ Owned
  BY DEF TableInv
<1>2. /\ pc[p] = "setval"
      /\ sem' = 1
      /\ pc' = [pc EXCEPT ![p] = "scan"]
      /\ UNCHANGED <<shm, pid, pos, hung, term, chk, slot, faults, robbed>>
  BY DEF SetVal, table, program, checker, history
<1>3. TableTypeOK'
  BY <1>1, <1>2 DEF TableTypeOK, Record, Empty, Where
<1>4. Identity'
  BY <1>1, <1>2 DEF Identity, TableTypeOK, Record, Empty, Where
<1>5. Exclusive'
  BY <1>1, <1>2 DEF Exclusive, TableTypeOK, Record, Empty, Where, None
<1>6. Unregistered'
  BY <1>1, <1>2 DEF Unregistered, TableTypeOK, Record, Empty, Where
<1>7. Records'
  BY <1>1, <1>2 DEF Records, OneRecord, OwnFound, Placed, Looked, TableTypeOK, Record, Empty, Where
<1>8. Owned'
  BY <1>1, <1>2 DEF Owned, OwnRecords, Apart, TableTypeOK, Record, Empty, Where
<1> QED
  BY <1>3, <1>4, <1>5, <1>6, <1>7, <1>8 DEF TableInv

LEMMA ScanTable ==
  ASSUME TableInv, NEW p \in Programs, Scan(p)
  PROVE  TableInv'
<1> USE TableAssumption
<1>1. /\ TableTypeOK /\ Identity /\ Exclusive
      /\ Unregistered /\ Records /\ Owned
  BY DEF TableInv
<1>2. /\ pc[p] = "scan"
      /\ pos' = [pos EXCEPT ![p] = OwnRecord(p)]
      /\ pc' = [pc EXCEPT ![p] = "lock"]
      /\ UNCHANGED <<shm, sem, pid, hung, term, chk, slot, faults, robbed>>
  BY DEF Scan, table, program, checker, history
<1>3. /\ OwnRecord(p) \in Slots \cup {None}
      /\ \A s \in Slots : shm[s].pid = pid[p] => OwnRecord(p) \in Slots
      /\ OwnRecord(p) # None => shm[OwnRecord(p)].pid = pid[p]
  BY LowestIs DEF OwnRecord
<1>4. pid[p] # 0 /\ \A s \in Slots : shm[s].pid = pid[p] => s = OwnRecord(p)
  BY <1>1, <1>2, <1>3 DEF Identity, Records, OneRecord, TableTypeOK, None, Slots
<1>5. TableTypeOK'
  BY <1>1, <1>2, <1>3, <1>4 DEF TableTypeOK, Record, Empty, Where
<1>6. Identity'
  BY <1>1, <1>2, <1>3, <1>4 DEF Identity, TableTypeOK, Record, Empty, Where
<1>7. Exclusive'
  BY <1>1, <1>2, <1>3, <1>4 DEF Exclusive, TableTypeOK, Record, Empty, Where
<1>8. Unregistered'
  BY <1>1, <1>2, <1>3, <1>4 DEF Unregistered, TableTypeOK, Record, Empty, Where
<1>9. Records'
  BY <1>1, <1>2, <1>3, <1>4 DEF Records, OneRecord, OwnFound, Placed, Looked, TableTypeOK, Record, Empty, Where
<1>10. Owned'
  <2>1. ~robbed' => OwnRecords'
    BY <1>1, <1>2, <1>3, <1>4 DEF Owned, OwnRecords, Apart, Records, OneRecord, OwnFound, Placed, Looked, TableTypeOK, None, Slots, Empty, Identity, Exclusive
  <2>2. ~robbed' => Apart'
    BY <1>1, <1>2, <1>3, <1>4 DEF Owned, OwnRecords, Apart, Records, OneRecord, OwnFound, Placed, Looked, TableTypeOK, None, Slots, Empty, Identity, Exclusive
  <2> QED
    BY <2>1, <2>2 DEF Owned
<1> QED
  BY <1>5, <1>6, <1>7, <1>8, <1>9, <1>10 DEF TableInv

LEMMA LockTable ==
  ASSUME TableInv, NEW p \in Programs, Lock(p)
  PROVE  TableInv'
<1> USE TableAssumption
<1>1. /\ TableTypeOK /\ Identity /\ Exclusive
      /\ Unregistered /\ Records /\ Owned
  BY DEF TableInv
<1>2. /\ pc[p] = "lock"
      /\ sem = 1
      /\ sem' = 0
      /\ pc' = [pc EXCEPT ![p] = "find"]
      /\ UNCHANGED <<shm, pid, pos, hung, term, chk, slot, faults, robbed>>
  BY DEF Lock, P, table, program, checker, history
<1>3. TableTypeOK'
  BY <1>1, <1>2 DEF TableTypeOK, Record, Empty, Where
<1>4. Identity'
  BY <1>1, <1>2 DEF Identity, TableTypeOK, Record, Empty, Where
<1>5. Exclusive'
  BY <1>1, <1>2 DEF Exclusive, TableTypeOK, Record, Empty, Where, None
<1>6. Unregistered'
  BY <1>1, <1>2 DEF Unregistered, TableTypeOK, Record, Empty, Where
<1>7. Records'
  BY <1>1, <1>2 DEF Records, OneRecord, OwnFound, Placed, Looked, TableTypeOK, Record, Empty, Where
<1>8. Owned'
  BY <1>1, <1>2 DEF Owned, OwnRecords, Apart, TableTypeOK, Record, Empty, Where
<1> QED
  BY <1>3, <1>4, <1>5, <1>6, <1>7, <1>8 DEF TableInv

LEMMA FindOwnTable ==
  ASSUME TableInv, NEW p \in Programs, FindFree(p), pos[p] # None
  PROVE  TableInv'
<1> USE TableAssumption
<1>1. /\ TableTypeOK /\ Identity /\ Exclusive
      /\ Unregistered /\ Records /\ Owned
  BY DEF TableInv
<1>2. /\ pc[p] = "find"
      /\ pc' = [pc EXCEPT ![p] = "write"]
      /\ pos' = [pos EXCEPT ![p] = pos[p]]
      /\ UNCHANGED <<shm, sem, pid, hung, term, chk, slot, faults, robbed>>
  BY <1>1 DEF FindFree, table, program, checker, history, TableTypeOK
<1>3. TableTypeOK'
  BY <1>1, <1>2 DEF TableTypeOK, Record, Empty, Where
<1>4. Identity'
  BY <1>1, <1>2 DEF Identity, TableTypeOK, Record, Empty, Where
<1>5. Exclusive'
  BY <1>1, <1>2 DEF Exclusive, TableTypeOK, Record, Empty, Where
<1>6. Unregistered'
  BY <1>1, <1>2 DEF Unregistered, TableTypeOK, Record, Empty, Where
<1>7. Records'
  BY <1>1, <1>2 DEF Records, OneRecord, OwnFound, Placed, Looked, TableTypeOK, Record, Empty, Where
<1>8. Owned'
  BY <1>1, <1>2 DEF Owned, OwnRecords, Apart, TableTypeOK, Record, Empty, Where
<1> QED
  BY <1>3, <1>4, <1>5, <1>6, <1>7, <1>8 DEF TableInv

LEMMA FindFreeTable ==
  ASSUME TableInv, NEW p \in Programs, FindFree(p), pos[p] = None, NEW s \in Slots,
         s = Lowest({x \in Slots : shm[x].pid = 0})
  PROVE  TableInv'
<1> USE TableAssumption
<1>1. /\ TableTypeOK /\ Identity /\ Exclusive
      /\ Unregistered /\ Records /\ Owned
  BY DEF TableInv
<1>2. /\ pc[p] = "find"
      /\ s # None
      /\ shm[s].pid = 0
      /\ pos' = [pos EXCEPT ![p] = s]
      /\ pc' = [pc EXCEPT ![p] = "write"]
      /\ UNCHANGED <<shm, sem, pid, hung, term, chk, slot, faults, robbed>>
  <2>1. s # None
    BY DEF None, Slots
  <2>2. shm[s].pid = 0
    BY <2>1, LowestIs
  <2> QED
    BY <2>1, <2>2 DEF FindFree, table, program, checker, history
<1>3. pid[p] # 0 /\ \A r \in Slots : shm[r].pid # pid[p]
  BY <1>1, <1>2 DEF Records, OneRecord, OwnFound, Placed, Looked, Identity, None, Slots, TableTypeOK
<1>4. \A q \in Programs : pos[q] = s => shm[s].pid # pid[q] /\ pc[q] # "write"
  <2> TAKE q \in Programs
  <2> HAVE pos[q] = s
  <2>1. pc[q] \in Looked
    BY <1>1, <1>2 DEF Records, Placed
  <2>2. pid[q] # 0
    BY <1>1, <2>1 DEF Identity, Looked
  <2>3. q # p
    BY <1>2
  <2> QED
    BY <1>1, <1>2, <2>2, <2>3 DEF Exclusive
<1>5. TableTypeOK'
  BY <1>1, <1>2, <1>3, <1>4 DEF TableTypeOK, Record, Empty, Where
<1>6. Identity'
  BY <1>1, <1>2, <1>3, <1>4 DEF Identity, TableTypeOK, Record, Empty, Where
<1>7. Exclusive'
  BY <1>1, <1>2, <1>3, <1>4 DEF Exclusive, TableTypeOK, Record, Empty, Where
<1>8. Unregistered'
  BY <1>1, <1>2, <1>3, <1>4 DEF Unregistered, TableTypeOK, Record, Empty, Where
<1>9. Records'
  <2>1. OneRecord'
    BY <1>1, <1>2, <1>3 DEF Records, OneRecord, OwnFound, Placed, Looked, TableTypeOK, None, Slots, Empty
  <2>2. OwnFound'
    BY <1>1, <1>2, <1>3 DEF Records, OneRecord, OwnFound, Placed, Looked, TableTypeOK, None, Slots, Empty
  <2>3. Placed'
    BY <1>1, <1>2, <1>3 DEF Records, OneRecord, OwnFound, Placed, Looked, TableTypeOK, None, Slots, Empty
  <2> QED
    BY <2>1, <2>2, <2>3 DEF Records
<1>10. Owned'
  <2>1. ~robbed' => OwnRecords'
    BY <1>1, <1>2, <1>3, <1>4 DEF Owned, OwnRecords, Apart, Records, OneRecord, OwnFound, Placed, Looked, TableTypeOK, None, Slots, Empty
  <2>2. ~robbed' => Apart'
    BY <1>1, <1>2, <1>3, <1>4 DEF Owned, OwnRecords, Apart, Records, OneRecord, OwnFound, Placed, Looked, TableTypeOK, None, Slots, Empty
  <2> QED
    BY <2>1, <2>2 DEF Owned
<1> QED
  BY <1>5, <1>6, <1>7, <1>8, <1>9, <1>10 DEF TableInv

LEMMA NoneFreeTable ==
  ASSUME TableInv, NEW p \in Programs, FindFree(p), pos[p] = None,
         Lowest({x \in Slots : shm[x].pid = 0}) = None
  PROVE  TableInv'
<1> USE TableAssumption
<1>1. /\ TableTypeOK /\ Identity /\ Exclusive
      /\ Unregistered /\ Records /\ Owned
  BY DEF TableInv
<1>2. /\ pc[p] = "find"
      /\ pos' = [pos EXCEPT ![p] = None]
      /\ pc' = [pc EXCEPT ![p] = "run"]
      /\ sem' = 1
      /\ UNCHANGED <<shm, pid, hung, term, chk, slot, faults, robbed>>
  BY <1>1 DEF FindFree, table, program, checker, history, TableTypeOK
<1>3. TableTypeOK'
  BY <1>1, <1>2 DEF TableTypeOK, Record, Empty, Where
<1>4. Identity'
  BY <1>1, <1>2 DEF Identity, TableTypeOK, Record, Empty, Where
<1>5. Exclusive'
  BY <1>1, <1>2 DEF Exclusive, TableTypeOK, Record, Empty, Where, None
<1>6. Unregistered'
  BY <1>1, <1>2 DEF Unregistered, TableTypeOK, Record, Empty, Where
<1>7. Records'
  BY <1>1, <1>2 DEF Records, OneRecord, OwnFound, Placed, Looked, TableTypeOK, Record, Empty, Where
<1>8. Owned'
  BY <1>1, <1>2 DEF Owned, OwnRecords, Apart, TableTypeOK, Record, Empty, Where
<1> QED
  BY <1>3, <1>4, <1>5, <1>6, <1>7, <1>8 DEF TableInv

LEMMA WriteTable ==
  ASSUME TableInv, NEW p \in Programs, WriteRecord(p)
  PROVE  TableInv'
<1> USE TableAssumption
<1>1. /\ TableTypeOK /\ Identity /\ Exclusive
      /\ Unregistered /\ Records /\ Owned
  BY DEF TableInv
<1>2. /\ pc[p] = "write"
      /\ shm' = [shm EXCEPT ![pos[p]] = [pid |-> pid[p], fresh |-> TRUE]]
      /\ sem' = 1
      /\ pc' = [pc EXCEPT ![p] = "run"]
      /\ UNCHANGED <<pid, pos, hung, term, chk, slot, faults, robbed>>
  BY DEF WriteRecord, table, program, checker, history
<1>3. /\ pos[p] \in Slots /\ pid[p] # 0 /\ shm'[pos[p]].pid = pid[p]
      /\ \A s \in Slots \ {pos[p]} : shm'[s] = shm[s] /\ shm[s].pid # pid[p]
  BY <1>1, <1>2 DEF Records, OneRecord, OwnFound, Placed, Looked, Identity, TableTypeOK
<1>4. TableTypeOK'
  BY <1>1, <1>2, <1>3 DEF TableTypeOK, Record, Empty, Where
<1>5. Identity'
  BY <1>1, <1>2, <1>3 DEF Identity, TableTypeOK, Record, Empty, Where
<1>6. Exclusive'
  BY <1>1, <1>2, <1>3 DEF Exclusive, TableTypeOK, Record, Empty, Where, None
<1>7. Unregistered'
  BY <1>1, <1>2, <1>3 DEF Unregistered, TableTypeOK, Record, Empty, Where
<1>8. Records'
  <2>1. OneRecord'
    BY <1>1, <1>2, <1>3 DEF Records, OneRecord, OwnFound, Placed, Looked, TableTypeOK, None, Slots, Empty, Identity
  <2>2. OwnFound'
    BY <1>1, <1>2, <1>3 DEF Records, OneRecord, OwnFound, Placed, Looked, TableTypeOK, None, Slots, Empty, Identity
  <2>3. Placed'
    BY <1>1, <1>2, <1>3 DEF Records, OneRecord, OwnFound, Placed, Looked, TableTypeOK, None, Slots, Empty, Identity
  <2> QED
    BY <2>1, <2>2, <2>3 DEF Records
<1>9. Owned'
  BY <1>1, <1>2, <1>3 DEF Owned, OwnRecords, Apart, TableTypeOK, Record, Empty, Where
<1> QED
  BY <1>4, <1>5, <1>6, <1>7, <1>8, <1>9 DEF TableInv

\* No record changes but those that processes of Q clear.
Cleared(Q) == \A s \in Slots :
  shm'[s] = shm[s] \/ (shm'[s] = Empty /\ \E p \in Q : pos[p] = s)

\* The processes Q end, of which some may clear the record at their m_pos.
LEMMA EndsTable ==
  ASSUME TableInv, NEW Q \in SUBSET Programs, NEW where \in {"down", "gone"}, Ends(Q, where),
         shm' \in [Slots -> Record], Cleared(Q),
         chk' \in {"look", "term", "poll", "kill", "erase", "gone"}, slot' \in Slots,
         faults' \in Nat, robbed' = robbed
  PROVE  TableInv'
<1> USE TableAssumption
<1>1. /\ TableTypeOK /\ Identity /\ Exclusive
      /\ Unregistered /\ Records /\ Owned
  BY DEF TableInv
<1>2. /\ \A p \in Programs : /\ p \in Q => pc'[p] \in {"down", "gone"} /\ pid'[p] = 0 /\ pos'[p] = None
                             /\ p \notin Q => pc'[p] = pc[p] /\ pid'[p] = pid[p] /\ pos'[p] = pos[p]
      /\ pc' \in [Programs -> Where] /\ pid' \in [Programs -> Pids \cup {0}]
      /\ pos' \in [Programs -> Slots \cup {None}]
      /\ sem' = SemUndone(Q) /\ hung' = hung \ Q /\ term' = term \ Q
  <2>1. pc' \in [Programs -> Where]
    BY <1>1 DEF Ends, TableTypeOK, Where
  <2>2. pid' \in [Programs -> Pids \cup {0}] /\ pos' \in [Programs -> Slots \cup {None}]
    BY <1>1 DEF Ends, TableTypeOK
  <2>3. ASSUME NEW p \in Programs
        PROVE  /\ p \in Q => pc'[p] \in {"down", "gone"} /\ pid'[p] = 0 /\ pos'[p] = None
               /\ p \notin Q => pc'[p] = pc[p] /\ pid'[p] = pid[p] /\ pos'[p] = pos[p]
    <3>1. pc'[p] = IF p \in Q THEN where ELSE pc[p]
      BY Zenon DEF Ends
    <3>2. pid'[p] = IF p \in Q THEN 0 ELSE pid[p]
      BY Zenon DEF Ends
    <3>3. pos'[p] = IF p \in Q THEN None ELSE pos[p]
      BY Zenon DEF Ends
    <3> QED
      BY <3>1, <3>2, <3>3, Zenon
  <2>4. sem' = SemUndone(Q) /\ hung' = hung \ Q /\ term' = term \ Q
    BY DEF Ends
  <2> QED
    BY <2>1, <2>2, <2>3, <2>4, Zenon
<1>3. /\ sem' = 1 \/ (sem' = sem /\ \A p \in Q : pc[p] \notin {"find", "write"})
      /\ sem' # sem => \E p \in Q : pc[p] \in {"find", "write"}
  BY <1>2 DEF SemUndone
<1>4. /\ \A p \in Programs : pos'[p] # None => p \notin Q /\ pos[p] = pos'[p]
      /\ \A p \in Programs : pc'[p] \notin {"down", "gone"} =>
           p \notin Q /\ pc[p] = pc'[p] /\ pid[p] = pid'[p] /\ pos[p] = pos'[p]
  BY <1>2
<1>5. \A s \in Slots : shm'[s].pid # 0 => shm'[s] = shm[s]
  BY DEF Cleared, Empty
<1>6. TableTypeOK'
  BY <1>1, <1>2, <1>3, <1>4, <1>5 DEF TableTypeOK, Record, Empty, Where
<1>7. Identity'
  BY <1>1, <1>2, <1>4 DEF Identity
<1>8. Exclusive'
  BY <1>1, <1>2, <1>3, <1>4, <1>5 DEF Exclusive, TableTypeOK, Record, Empty, Where, None
<1>9. Unregistered'
  BY <1>1, <1>2, <1>3 DEF Unregistered, Exclusive, Cleared
<1>10. Records'
  <2>1. OneRecord'
    BY <1>1, <1>5 DEF Records, OneRecord
  <2>2. ASSUME NEW p \in Programs, pc'[p] \in Looked, NEW s \in Slots, shm'[s].pid = pid'[p]
        PROVE  s = pos'[p]
    <3>1. pc[p] \in Looked /\ pid[p] = pid'[p] /\ pos[p] = pos'[p] /\ pid[p] # 0
      BY <1>1, <1>4, <2>2 DEF Looked, Identity
    <3> QED
      BY <1>1, <1>5, <2>2, <3>1 DEF Records, OwnFound
  <2>3. Placed'
    BY <1>1, <1>2 DEF Records, Placed, Looked
  <2> QED
    BY <2>1, <2>2, <2>3 DEF Records, OwnFound
<1>11. Owned'
  <2> SUFFICES ASSUME ~robbed'
               PROVE  OwnRecords' /\ Apart'
    BY DEF Owned
  <2>1. OwnRecords /\ Apart
    BY <1>1 DEF Owned
  <2>2. Apart'
    BY <1>4, <2>1 DEF Apart
  <2>3. ASSUME NEW p \in Programs, pos'[p] # None
        PROVE  shm'[pos'[p]].pid = pid'[p] \/ (shm'[pos'[p]].pid = 0 /\ pc'[p] = "write")
    <3>1. /\ p \notin Q /\ pos[p] = pos'[p] /\ pid[p] = pid'[p] /\ pc[p] = pc'[p]
          /\ pos[p] \in Slots
      BY <1>1, <1>2, <1>4, <2>3 DEF TableTypeOK
    <3>2. shm'[pos[p]] = shm[pos[p]]
      BY <2>1, <2>3, <3>1 DEF Cleared, Apart
    <3> QED
      BY <2>1, <2>3, <3>1, <3>2 DEF OwnRecords
  <2> QED
    BY <2>2, <2>3 DEF OwnRecords
<1> QED
  BY <1>6, <1>7, <1>8, <1>9, <1>10, <1>11 DEF TableInv

LEMMA AgeTable ==
  ASSUME TableInv, NEW s \in Slots, Age(s)
  PROVE  TableInv'
<1> USE TableAssumption
<1>1. /\ TableTypeOK /\ Identity /\ Exclusive
      /\ Unregistered /\ Records /\ Owned
  BY DEF TableInv
<1>2. /\ shm[s].fresh
      /\ faults' \in Nat
      /\ shm' = [shm EXCEPT ![s].fresh = FALSE]
      /\ UNCHANGED <<sem, pc, pid, pos, hung, term, chk, slot, robbed>>
  BY <1>1 DEF Age, Fault, table, program, checker, history, TableTypeOK
<1>3. /\ shm' \in [Slots -> Record] /\ shm[s] # Empty
      /\ \A r \in Slots : shm'[r].pid = shm[r].pid
  <2>1. shm[s] # Empty
    BY <1>2 DEF Empty
  <2>2. \A r \in Slots : shm'[r] = IF r = s THEN [shm[s] EXCEPT !.fresh = FALSE] ELSE shm[r]
    BY <1>1, <1>2 DEF TableTypeOK
  <2>3. [shm[s] EXCEPT !.fresh = FALSE] \in Record /\ [shm[s] EXCEPT !.fresh = FALSE].pid = shm[s].pid
    BY <1>1 DEF TableTypeOK, Record
  <2> QED
    BY <1>1, <1>2, <2>1, <2>2, <2>3 DEF TableTypeOK
<1>4. TableTypeOK'
  BY <1>1, <1>2, <1>3 DEF TableTypeOK, Record, Empty, Where
<1>5. Identity'
  BY <1>1, <1>2 DEF Identity
<1>6. Exclusive'
  BY <1>1, <1>2 DEF Exclusive
<1>7. Unregistered'
  BY <1>1, <1>2, <1>3 DEF Unregistered, TableTypeOK, Record, Empty, Where
<1>8. Records'
  BY <1>1, <1>2, <1>3 DEF Records, OneRecord, OwnFound, Placed, Looked, TableTypeOK, Record, Empty, Where
<1>9. Owned'
  BY <1>1, <1>2, <1>3 DEF Owned, OwnRecords, Apart, TableTypeOK, Record, Empty, Where
<1> QED
  BY <1>4, <1>5, <1>6, <1>7, <1>8, <1>9 DEF TableInv

LEMMA HangTable ==
  ASSUME TableInv, NEW p \in Programs, Hang(p)
  PROVE  TableInv'
<1> USE TableAssumption
<1>1. /\ TableTypeOK /\ Identity /\ Exclusive
      /\ Unregistered /\ Records /\ Owned
  BY DEF TableInv
<1>2. /\ faults' \in Nat
      /\ hung' = hung \cup {p}
      /\ UNCHANGED <<shm, sem, pc, pid, pos, term, chk, slot, robbed>>
  BY <1>1 DEF Hang, Fault, table, checker, TableTypeOK
<1>3. TableTypeOK'
  BY <1>1, <1>2 DEF TableTypeOK, Record, Empty, Where
<1>4. Identity'
  BY <1>1, <1>2 DEF Identity
<1>5. Exclusive'
  BY <1>1, <1>2 DEF Exclusive
<1>6. Unregistered'
  BY <1>1, <1>2 DEF Unregistered
<1>7. Records'
  BY <1>1, <1>2 DEF Records, OneRecord, OwnFound, Placed, Looked
<1>8. Owned'
  BY <1>1, <1>2 DEF Owned, OwnRecords, Apart
<1> QED
  BY <1>3, <1>4, <1>5, <1>6, <1>7, <1>8 DEF TableInv

\* checkproc comes round to the first record after the last.
LEMMA NextSlot ==
  ASSUME NEW s \in Slots
  PROVE  (s + 1) % MaxNum \in Slots
  BY TableAssumption DEF Slots

LEMMA CheckTable ==
  ASSUME TableInv, Look \/ Terminate \/ Poll
  PROVE  TableInv'
<1> USE TableAssumption
<1>1. /\ TableTypeOK /\ Identity /\ Exclusive
      /\ Unregistered /\ Records /\ Owned
  BY DEF TableInv
<1>2. /\ chk' \in {"look", "term", "poll", "kill", "erase", "gone"} /\ slot' \in Slots
      /\ term' \subseteq Programs
      /\ UNCHANGED <<shm, sem, pc, pid, pos, hung, faults, robbed>>
  BY <1>1, NextSlot DEF Look, ToNext, Terminate, Targets, Poll, table, program, checker, history, TableTypeOK
<1>3. TableTypeOK'
  BY <1>1, <1>2 DEF TableTypeOK, Record, Empty, Where
<1>4. Identity'
  BY <1>1, <1>2 DEF Identity
<1>5. Exclusive'
  BY <1>1, <1>2 DEF Exclusive
<1>6. Unregistered'
  BY <1>1, <1>2 DEF Unregistered
<1>7. Records'
  BY <1>1, <1>2 DEF Records, OneRecord, OwnFound, Placed, Looked
<1>8. Owned'
  BY <1>1, <1>2 DEF Owned, OwnRecords, Apart
<1> QED
  BY <1>3, <1>4, <1>5, <1>6, <1>7, <1>8 DEF TableInv

LEMMA EraseTable ==
  ASSUME TableInv, Erase
  PROVE  TableInv'
<1> USE TableAssumption
<1>1. /\ TableTypeOK /\ Identity /\ Exclusive
      /\ Unregistered /\ Records /\ Owned
  BY DEF TableInv
<1>2. /\ slot' \in Slots
      /\ shm' = [shm EXCEPT ![slot] = Empty]
      /\ robbed' = (robbed \/ \E p \in Programs : pos[p] = slot)
      /\ chk' = "look"
      /\ UNCHANGED <<sem, pc, pid, pos, hung, term, faults>>
  BY <1>1, NextSlot DEF Erase, ToNext, table, program, checker, history, TableTypeOK
<1>3. /\ shm' \in [Slots -> Record] /\ shm'[slot] = Empty
      /\ \A s \in Slots \ {slot} : shm'[s] = shm[s]
  BY <1>1, <1>2 DEF TableTypeOK, Record, Empty
<1>4. TableTypeOK'
  BY <1>1, <1>2, <1>3 DEF TableTypeOK, Record, Empty, Where
<1>5. Identity'
  BY <1>1, <1>2 DEF Identity
<1>6. Exclusive'
  BY <1>1, <1>2 DEF Exclusive
<1>7. Unregistered'
  BY <1>1, <1>2, <1>3 DEF Unregistered, TableTypeOK, Record, Empty, Where
<1>8. Records'
  <2>1. OneRecord'
    BY <1>1, <1>2, <1>3 DEF Records, OneRecord, OwnFound, Placed, Looked, TableTypeOK, None, Slots, Empty, Identity
  <2>2. OwnFound'
    BY <1>1, <1>2, <1>3 DEF Records, OneRecord, OwnFound, Placed, Looked, TableTypeOK, None, Slots, Empty, Identity
  <2>3. Placed'
    BY <1>1, <1>2, <1>3 DEF Records, OneRecord, OwnFound, Placed, Looked, TableTypeOK, None, Slots, Empty, Identity
  <2> QED
    BY <2>1, <2>2, <2>3 DEF Records
<1>9. Owned'
  BY <1>1, <1>2, <1>3 DEF Owned, OwnRecords, Apart, TableTypeOK, Record, Empty, Where
<1> QED
  BY <1>4, <1>5, <1>6, <1>7, <1>8, <1>9 DEF TableInv

LEMMA BeatTable ==
  ASSUME TableInv, NEW p \in Programs, pc[p] = "run", Beat(p)
  PROVE  TableInv'
<1> USE TableAssumption
<1>1. /\ TableTypeOK /\ Identity /\ Exclusive
      /\ Unregistered /\ Records /\ Owned
  BY DEF TableInv
<1>2. /\ shm' = [s \in Slots |-> IF s = pos[p] THEN [shm[s] EXCEPT !.fresh = TRUE] ELSE shm[s]]
      /\ UNCHANGED <<sem, pc, pid, pos, hung, term, chk, slot, faults, robbed>>
  BY DEF Beat, UptATime, table, program, checker, history
<1>3. /\ shm' \in [Slots -> Record]
      /\ \A r \in Slots : shm'[r].pid = shm[r].pid
  BY <1>1, <1>2 DEF TableTypeOK, Record
<1>4. TableTypeOK'
  BY <1>1, <1>2, <1>3 DEF TableTypeOK, Record, Empty, Where
<1>5. Identity'
  BY <1>1, <1>2 DEF Identity
<1>6. Exclusive'
  BY <1>1, <1>2 DEF Exclusive
<1>7. Unregistered'
  BY <1>1, <1>2, <1>3 DEF Unregistered, TableTypeOK, Record, Empty, Where
<1>8. Records'
  BY <1>1, <1>2, <1>3 DEF Records, OneRecord, OwnFound, Placed, Looked, TableTypeOK, Record, Empty, Where
<1>9. Owned'
  BY <1>1, <1>2, <1>3 DEF Owned, OwnRecords, Apart, TableTypeOK, Record, Empty, Where
<1> QED
  BY <1>4, <1>5, <1>6, <1>7, <1>8, <1>9 DEF TableInv

\* The processes that end: by exit, by a fault or by signal 9 of checkproc.
LEMMA ExitTable ==
  ASSUME TableInv, NEW p \in Programs, Exit(p), faults' \in Nat
  PROVE  TableInv'
<1>1. TableTypeOK
  BY DEF TableInv
<1>2. \A s \in Slots : shm'[s] = IF s = pos[p] THEN Empty ELSE shm[s]
  BY DEF Exit
<1>3. Empty \in Record
  BY DEF Empty, Record
<1>4. shm' \in [Slots -> Record]
  BY <1>1, <1>3 DEF Exit, TableTypeOK
<1>5. Cleared({p})
  BY <1>2 DEF Cleared
<1>6. Ends({p}, "down") /\ robbed' = robbed /\ chk' = chk /\ slot' = slot
  BY DEF Exit, checker
<1>7. /\ chk' \in {"look", "term", "poll", "kill", "erase", "gone"}
      /\ slot' \in Slots
  BY <1>1, <1>6 DEF TableTypeOK
<1> QED
  BY <1>4, <1>5, <1>6, <1>7, EndsTable

LEMMA CrashTable ==
  ASSUME TableInv, NEW p \in Programs, Crash(p)
  PROVE  TableInv'
<1>1. TableTypeOK
  BY DEF TableInv
<1>2. Ends({p}, "down") /\ UNCHANGED <<shm, chk, slot, robbed>> /\ faults' = faults + 1
  BY DEF Crash, Fault, checker
<1>3. /\ shm' \in [Slots -> Record] /\ faults' \in Nat /\ slot' \in Slots
      /\ chk' \in {"look", "term", "poll", "kill", "erase", "gone"}
  BY <1>1, <1>2 DEF TableTypeOK
<1>4. Cleared({p})
  BY <1>2 DEF Cleared
<1> QED
  BY <1>2, <1>3, <1>4, EndsTable

LEMMA KillTable ==
  ASSUME TableInv, Kill9
  PROVE  TableInv'
<1>1. TableTypeOK
  BY DEF TableInv
<1>2. UNCHANGED <<shm, slot, faults, robbed>>
  BY DEF Kill9, history
<1>3. shm' \in [Slots -> Record] /\ faults' \in Nat /\ slot' \in Slots
  BY <1>1, <1>2 DEF TableTypeOK
<1>4. \A Q \in SUBSET Programs : Cleared(Q)
  BY <1>2 DEF Cleared
<1>5. CASE shm[slot].pid = 0
  <2>1. Ends(Mates, "gone") /\ chk' = "gone"
    BY <1>5 DEF Kill9
  <2>2. Mates \in SUBSET Programs
    BY TableAssumption
  <2> QED
    BY <1>2, <1>3, <1>4, <2>1, <2>2, EndsTable
<1>6. CASE shm[slot].pid # 0
  <2>1. Ends(Targets, "down") /\ chk' = "erase"
    BY <1>6 DEF Kill9
  <2>2. Targets \in SUBSET Programs
    BY DEF Targets
  <2> QED
    BY <1>2, <1>3, <1>4, <2>1, <2>2, EndsTable
<1> QED
  BY <1>5, <1>6

\* FindFree: the record found in Scan, a free one, or none.
LEMMA FindTable ==
  ASSUME TableInv, NEW p \in Programs, FindFree(p)
  PROVE  TableInv'
<1>1. CASE pos[p] # None
  BY <1>1, FindOwnTable
<1>2. CASE pos[p] = None
  <2> DEFINE F == {x \in Slots : shm[x].pid = 0}
  <2>1. CASE F = {}
    <3>1. Lowest(F) = None
      BY <2>1 DEF Lowest
    <3> QED
      BY <1>2, <3>1, NoneFreeTable
  <2>2. CASE F # {}
    <3>1. Lowest(F) \in Slots
      BY <2>2, LowestIs
    <3> QED
      BY <1>2, <3>1, FindFreeTable
  <2> QED
    BY <2>1, <2>2
<1> QED
  BY <1>1, <1>2

LEMMA AddTable ==
  ASSUME TableInv, NEW p \in Programs, AddPInfo(p)
  PROVE  TableInv'
BY InitSemTable, SetValTable, ScanTable, LockTable, FindTable, WriteTable DEF AddPInfo

\* TableInv is about the table only.
LEMMA SameTable ==
  ASSUME TableInv, UNCHANGED <<shm, sem, pc, pid, pos, hung, term, chk, slot, faults, robbed>>
  PROVE  TableInv'
<1>1. TableTypeOK' /\ Identity' /\ Exclusive' /\ Unregistered'
  BY DEF TableInv, TableTypeOK, Identity, Exclusive, Unregistered
<1>2. Records' /\ Owned'
  BY DEF TableInv, Records, OneRecord, OwnFound, Placed, Owned, OwnRecords, Apart
<1> QED
  BY <1>1, <1>2 DEF TableInv

\* Any step of the table, of the processes that end and of checkproc.
LEMMA HeartbeatTable ==
  ASSUME TableInv, Heartbeat
  PROVE  TableInv'
<1>1. faults \in Nat
  BY DEF TableInv, TableTypeOK
<1>2. ASSUME NEW p \in Programs, Start(p) \/ AddPInfo(p)
      PROVE  TableInv'
  BY <1>2, StartTable, AddTable
<1>3. ASSUME NEW p \in Programs, ExitOnSignal(p)
      PROVE  TableInv'
  BY <1>1, <1>3, ExitTable DEF ExitOnSignal
<1>4. ASSUME NEW p \in Programs, Crash(p) \/ Hang(p)
      PROVE  TableInv'
  BY <1>4, CrashTable, HangTable
<1>5. ASSUME NEW p \in Programs, Exit(p), Fault \/ UNCHANGED faults
      PROVE  TableInv'
  <2>1. faults' \in Nat
    BY <1>1, <1>5 DEF Fault
  <2> QED
    BY <1>5, <2>1, ExitTable
<1>6. ASSUME NEW s \in Slots, Age(s)
      PROVE  TableInv'
  BY <1>6, AgeTable
<1>7. CASE Checkproc
  BY <1>7, CheckTable, KillTable, EraseTable DEF Checkproc
<1> QED
  BY <1>2, <1>3, <1>4, <1>5, <1>6, <1>7 DEF Heartbeat

-----------------------------------------------------------------------------
(* Every step of the two programs keeps RelayInv. *)

LEMMA InitRelay ==
  ASSUME Init
  PROVE  RelayInv
<1> USE RelayAssumption DEF Init
<1>1. Absent \in Version /\ Absent.mtime = 0
  BY DEF Absent, Version
<1>2. NoJob \in Job /\ NoJob.at = "login" /\ NoJob.listed = 0 /\ NoJob.copy = Absent
  BY <1>1 DEF NoJob, Job
<1>3. RelayTypeOK
  <2>1. ok \in [Programs -> SUBSET Nat] /\ job \in [Programs -> Job] /\ ptype \in [Programs -> 1..3]
    BY <1>2
  <2> QED
    BY <1>1, <2>1 DEF RelayTypeOK
<1>4. Dated
  BY <1>1, <1>2 DEF Dated, Known
<1>5. Fetched /\ GetKnows /\ PutKnows /\ PutListed
  BY <1>2 DEF Fetched, GetKnows, PutKnows, PutListed
<1> QED
  BY <1>3, <1>4, <1>5 DEF RelayInv

\* A program that ends forgets its job.
LEMMA ForgetRelay ==
  ASSUME RelayInv, Forget
  PROVE  RelayInv'
<1> USE RelayAssumption
<1>1. /\ RelayTypeOK /\ Dated /\ Fetched
      /\ GetKnows /\ PutKnows /\ PutListed
  BY DEF RelayInv
<1>2. /\ \A p \in Programs : job'[p] = NoJob \/ job'[p] = job[p]
      /\ job' \in [Programs -> Job]
      /\ UNCHANGED <<ptype, src, local, dst, last, ok, raced>>
  <2>1. NoJob \in Job
    BY DEF NoJob, Job, Absent, Version
  <2>2. \A p \in Programs : job'[p] = IF pid'[p] = 0 THEN NoJob ELSE job[p]
    BY DEF Forget
  <2>3. job' \in [Programs -> Job]
    BY <1>1, <2>1 DEF Forget, RelayTypeOK
  <2> QED
    BY <2>2, <2>3 DEF Forget, files
<1>3. NoJob.at = "login" /\ NoJob.listed = 0 /\ NoJob.copy = Absent /\ Absent.mtime = 0
  BY DEF NoJob, Absent
<1>4. RelayTypeOK'
  BY <1>1, <1>2, <1>3 DEF RelayTypeOK, Job, Version, Absent
<1>5. Dated'
  BY <1>1, <1>2, <1>3 DEF Dated, Known, RelayTypeOK, Job, Version, Absent
<1>6. Fetched'
  BY <1>1, <1>2, <1>3 DEF Fetched, RelayTypeOK, Job, Version, Absent
<1>7. GetKnows'
  BY <1>1, <1>2, <1>3 DEF GetKnows, Passed, RelayTypeOK, Job, Version, Absent
<1>8. PutKnows'
  BY <1>1, <1>2, <1>3 DEF PutKnows, RelayTypeOK, Job, Version, Absent
<1>9. PutListed'
  BY <1>1, <1>2, <1>3 DEF PutListed, RelayTypeOK, Job, Version, Absent
<1> QED
  BY <1>4, <1>5, <1>6, <1>7, <1>8, <1>9 DEF RelayInv

LEMMA PublishRelay ==
  ASSUME RelayInv, Publish
  PROVE  RelayInv'
<1> USE RelayAssumption
<1>1. /\ RelayTypeOK /\ Dated /\ Fetched
      /\ GetKnows /\ PutKnows /\ PutListed
  BY DEF RelayInv
<1>2. PICK m \in {last.mtime, last.mtime + 1}, z \in {last.size, last.size + 1} :
        /\ m > 0 /\ z > 0
        /\ src' = [ver |-> last.ver + 1, mtime |-> m, size |-> z]
        /\ raced' = (raced \/ m = last.mtime)
  BY DEF Publish
<1>3. last' = src' /\ UNCHANGED <<ptype, local, dst, ok, job>>
  BY DEF Publish
<1>4. /\ src' \in Version /\ last'.mtime = m /\ m \in Nat /\ m > 0 /\ last.mtime <= m
      /\ last.mtime \in Nat
      /\ (~raced' => ~raced /\ last.mtime < m)
  <2>1. ~raced' => ~raced /\ m # last.mtime
    BY <1>2, Zenon
  <2>2. last.mtime \in Nat /\ last.ver \in Nat /\ last.size \in Nat
    BY <1>1 DEF RelayTypeOK, Version
  <2> QED
    BY <1>2, <1>3, <2>1, <2>2 DEF Version
<1>5. last' # Absent
  BY <1>4 DEF Absent
<1>6. \A x \in Version : Known(x) => Known(x)' /\ (~raced' => x.mtime < m)
  BY <1>4 DEF Known, Version
<1>7. RelayTypeOK'
  <2>1. raced' \in BOOLEAN
    BY <1>2
  <2> QED
    BY <1>1, <1>3, <1>4, <2>1 DEF RelayTypeOK
<1>8. Dated'
  <2>1. Known(src)' /\ Known(last)'
    BY <1>3, <1>4 DEF Known
  <2>2. Known(local)' /\ Known(dst)'
    BY <1>1, <1>3, <1>6 DEF Dated, RelayTypeOK, Known
  <2>3. ASSUME NEW p \in Programs
        PROVE  /\ Known(job[p].copy)' /\ job'[p].listed <= last'.mtime
               /\ \A x \in ok'[p] : x <= last'.mtime
    <3>1. job[p].copy \in Version /\ job[p].listed \in Nat /\ ok[p] \subseteq Nat
      BY <1>1 DEF RelayTypeOK, Job
    <3>2. Known(job[p].copy) /\ job[p].listed <= last.mtime /\ \A x \in ok[p] : x <= last.mtime
      BY <1>1 DEF Dated
    <3>3. Known(job[p].copy)'
      BY <1>3, <1>6, <3>1, <3>2 DEF Known
    <3> QED
      BY <1>3, <1>4, <3>1, <3>2, <3>3
  <2> QED
    BY <1>3, <2>1, <2>2, <2>3 DEF Dated
<1>9. Fetched'
  BY <1>1, <1>3 DEF Fetched
<1>10. ~raced' => \A p \in Programs : /\ last'.mtime \notin ok'[p] /\ job'[p].listed # last'.mtime
                                     /\ job'[p].copy # last'
  <2> SUFFICES ASSUME ~raced', NEW p \in Programs
               PROVE  /\ last'.mtime \notin ok'[p] /\ job'[p].listed # last'.mtime
                      /\ job'[p].copy # last'
    OBVIOUS
  <2>1. job[p].copy \in Version /\ job[p].listed \in Nat /\ ok[p] \subseteq Nat
    BY <1>1 DEF RelayTypeOK, Job
  <2>2. Known(job[p].copy) /\ job[p].listed <= last.mtime /\ \A x \in ok[p] : x <= last.mtime
    BY <1>1 DEF Dated
  <2>3. job[p].copy.mtime < m
    BY <1>6, <2>1, <2>2
  <2>4. job[p].listed < m /\ \A x \in ok[p] : x < m
    BY <1>4, <2>1, <2>2
  <2> QED
    BY <1>3, <1>4, <2>1, <2>3, <2>4 DEF Version
<1>11. GetKnows'
  BY <1>3, <1>10 DEF GetKnows, Passed
<1>12. PutKnows'
  <2>1. ~raced' => dst' # last'
    BY <1>1, <1>3, <1>4, <1>6 DEF RelayTypeOK, Dated, Version
  <2> QED
    BY <1>3, <1>10, <2>1 DEF PutKnows
<1>13. PutListed'
  BY <1>1, <1>3 DEF PutListed
<1> QED
  BY <1>7, <1>8, <1>9, <1>11, <1>12, <1>13 DEF RelayInv

LEMMA GetListRelay ==
  ASSUME RelayInv, GetList
  PROVE  RelayInv'
<1> USE RelayAssumption
<1>1. /\ RelayTypeOK /\ Dated /\ Fetched
      /\ GetKnows /\ PutKnows /\ PutListed
  BY DEF RelayInv
<1>2. /\ job' \in [Programs -> Job] /\ job'[Put] = job[Put]
      /\ job'[Get].at = (IF src = Absent THEN "done" ELSE IF ptype[Get] = 1 THEN "compare" ELSE "copy")
      /\ job'[Get].listed = src.mtime
      /\ job'[Get].keep = job[Get].keep
      /\ job'[Get].copy = job[Get].copy
      /\ UNCHANGED <<ptype, src, local, dst, last, ok, raced>>
  <2>1. src \in Version /\ job \in [Programs -> Job] /\ ptype[Get] \in 1..3
    BY <1>1 DEF RelayTypeOK
  <2>2. /\ job' = [job EXCEPT ![Get].listed = src.mtime,
                               ![Get].at = IF src = Absent THEN "done"
                                         ELSE IF ptype[Get] = 1 THEN "compare" ELSE "copy"]
        /\ UNCHANGED <<ptype, src, local, dst, last, ok, raced>>
    BY DEF GetList, List, files
  <2> DEFINE at == IF src = Absent THEN "done" ELSE IF ptype[Get] = 1 THEN "compare" ELSE "copy"
  <2>3. at \in {"done", "compare", "copy"} /\ src.mtime \in Nat /\ job[Get] \in Job
    BY <2>1 DEF Version
  <2>4. job' = [job EXCEPT ![Get] = [job[Get] EXCEPT !.listed = src.mtime, !.at = at]]
    BY <2>1, <2>2
  <2> HIDE DEF at
  <2> DEFINE new == [job[Get] EXCEPT !.listed = src.mtime, !.at = at]
  <2>5. /\ new \in Job /\ new.at = at /\ new.listed = src.mtime
        /\ new.keep = job[Get].keep /\ new.copy = job[Get].copy
    BY <2>3 DEF Job
  <2>6. /\ job' \in [Programs -> Job] /\ job'[Put] = job[Put] /\ job'[Get] = new
    BY <2>1, <2>4, <2>5
  <2> HIDE DEF new
  <2>7. /\ job'[Get].at = at /\ job'[Get].listed = src.mtime
        /\ job'[Get].keep = job[Get].keep /\ job'[Get].copy = job[Get].copy
    BY <2>5, <2>6
  <2> QED
    BY <2>2, <2>6, <2>7 DEF at
<1>3. RelayTypeOK'
  BY <1>1, <1>2 DEF RelayTypeOK, Job, Version, Absent
<1>4. Dated'
  BY <1>1, <1>2 DEF Dated, Known, RelayTypeOK, Job, Version, Absent
<1>5. Fetched'
  BY <1>1, <1>2 DEF Fetched, RelayTypeOK, Job, Version, Absent
<1>6. GetKnows'
  BY <1>1, <1>2 DEF GetKnows, Passed, RelayTypeOK, Job, Version, Absent
<1>7. PutKnows'
  BY <1>1, <1>2 DEF PutKnows, RelayTypeOK, Job, Version, Absent
<1>8. PutListed'
  BY <1>1, <1>2 DEF PutListed, RelayTypeOK, Job, Version, Absent
<1> QED
  BY <1>3, <1>4, <1>5, <1>6, <1>7, <1>8 DEF RelayInv

LEMMA PutListRelay ==
  ASSUME RelayInv, PutList
  PROVE  RelayInv'
<1> USE RelayAssumption
<1>1. /\ RelayTypeOK /\ Dated /\ Fetched
      /\ GetKnows /\ PutKnows /\ PutListed
  BY DEF RelayInv
<1>2. /\ job' \in [Programs -> Job] /\ job'[Get] = job[Get]
      /\ job'[Put].at = (IF local = Absent THEN "done" ELSE IF ptype[Put] = 1 THEN "compare" ELSE "copy")
      /\ job'[Put].listed = local.mtime
      /\ job'[Put].keep = job[Put].keep
      /\ job'[Put].copy = job[Put].copy
      /\ UNCHANGED <<ptype, src, local, dst, last, ok, raced>>
  <2>1. local \in Version /\ job \in [Programs -> Job] /\ ptype[Put] \in 1..3
    BY <1>1 DEF RelayTypeOK
  <2>2. /\ job' = [job EXCEPT ![Put].listed = local.mtime,
                               ![Put].at = IF local = Absent THEN "done"
                                         ELSE IF ptype[Put] = 1 THEN "compare" ELSE "copy"]
        /\ UNCHANGED <<ptype, src, local, dst, last, ok, raced>>
    BY DEF PutList, List, files
  <2> DEFINE at == IF local = Absent THEN "done" ELSE IF ptype[Put] = 1 THEN "compare" ELSE "copy"
  <2>3. at \in {"done", "compare", "copy"} /\ local.mtime \in Nat /\ job[Put] \in Job
    BY <2>1 DEF Version
  <2>4. job' = [job EXCEPT ![Put] = [job[Put] EXCEPT !.listed = local.mtime, !.at = at]]
    BY <2>1, <2>2
  <2> HIDE DEF at
  <2> DEFINE new == [job[Put] EXCEPT !.listed = local.mtime, !.at = at]
  <2>5. /\ new \in Job /\ new.at = at /\ new.listed = local.mtime
        /\ new.keep = job[Put].keep /\ new.copy = job[Put].copy
    BY <2>3 DEF Job
  <2>6. /\ job' \in [Programs -> Job] /\ job'[Get] = job[Get] /\ job'[Put] = new
    BY <2>1, <2>4, <2>5
  <2> HIDE DEF new
  <2>7. /\ job'[Put].at = at /\ job'[Put].listed = local.mtime
        /\ job'[Put].keep = job[Put].keep /\ job'[Put].copy = job[Put].copy
    BY <2>5, <2>6
  <2> QED
    BY <2>2, <2>6, <2>7 DEF at
<1>3. RelayTypeOK'
  BY <1>1, <1>2 DEF RelayTypeOK, Job, Version, Absent
<1>4. Dated'
  BY <1>1, <1>2 DEF Dated, Known, RelayTypeOK, Job, Version, Absent
<1>5. Fetched'
  BY <1>1, <1>2 DEF Fetched, RelayTypeOK, Job, Version, Absent
<1>6. GetKnows'
  BY <1>1, <1>2 DEF GetKnows, Passed, RelayTypeOK, Job, Version, Absent
<1>7. PutKnows'
  BY <1>1, <1>2 DEF PutKnows, RelayTypeOK, Job, Version, Absent
<1>8. PutListed'
  BY <1>1, <1>2 DEF PutListed, RelayTypeOK, Job, Version, Absent
<1> QED
  BY <1>3, <1>4, <1>5, <1>6, <1>7, <1>8 DEF RelayInv

LEMMA GetCompVectorRelay ==
  ASSUME RelayInv, GetCompVector
  PROVE  RelayInv'
<1> USE RelayAssumption
<1>1. /\ RelayTypeOK /\ Dated /\ Fetched
      /\ GetKnows /\ PutKnows /\ PutListed
  BY DEF RelayInv
<1>2. /\ job[Get].at = "compare"
      /\ job' \in [Programs -> Job] /\ job'[Put] = job[Put]
      /\ job'[Get].at = "rewrite"
      /\ job'[Get].keep = (job[Get].listed \in ok[Get])
      /\ job'[Get].listed = job[Get].listed
      /\ job'[Get].copy = job[Get].copy
      /\ ok' = [ok EXCEPT ![Get] = {}]
      /\ UNCHANGED <<ptype, src, local, dst, last, raced>>
  <2>1. /\ job' \in [Programs -> Job] /\ job'[Put] = job[Put]
        /\ job'[Get].at = "rewrite"
        /\ job'[Get].keep = (job[Get].listed \in ok[Get])
        /\ job'[Get].listed = job[Get].listed
        /\ job'[Get].copy = job[Get].copy
    BY <1>1 DEF GetCompVector, Compare, At, files, RelayTypeOK, Job
  <2> QED
    BY <1>1, <2>1 DEF GetCompVector, Compare, At, files, RelayTypeOK
<1>3. RelayTypeOK'
  BY <1>1, <1>2 DEF RelayTypeOK, Job, Version, Absent
<1>4. Dated'
  BY <1>1, <1>2 DEF Dated, Known, RelayTypeOK, Job, Version, Absent
<1>5. Fetched'
  BY <1>1, <1>2 DEF Fetched, RelayTypeOK, Job, Version, Absent
<1>6. GetKnows'
  BY <1>1, <1>2 DEF GetKnows, Passed, RelayTypeOK, Job, Version, Absent
<1>7. PutKnows'
  BY <1>1, <1>2 DEF PutKnows, RelayTypeOK, Job, Version, Absent
<1>8. PutListed'
  BY <1>1, <1>2 DEF PutListed, RelayTypeOK, Job, Version, Absent
<1> QED
  BY <1>3, <1>4, <1>5, <1>6, <1>7, <1>8 DEF RelayInv

LEMMA PutCompVectorRelay ==
  ASSUME RelayInv, PutCompVector
  PROVE  RelayInv'
<1> USE RelayAssumption
<1>1. /\ RelayTypeOK /\ Dated /\ Fetched
      /\ GetKnows /\ PutKnows /\ PutListed
  BY DEF RelayInv
<1>2. /\ job[Put].at = "compare"
      /\ job' \in [Programs -> Job] /\ job'[Get] = job[Get]
      /\ job'[Put].at = "rewrite"
      /\ job'[Put].keep = (job[Put].listed \in ok[Put])
      /\ job'[Put].listed = job[Put].listed
      /\ job'[Put].copy = job[Put].copy
      /\ ok' = [ok EXCEPT ![Put] = {}]
      /\ UNCHANGED <<ptype, src, local, dst, last, raced>>
  <2>1. /\ job' \in [Programs -> Job] /\ job'[Get] = job[Get]
        /\ job'[Put].at = "rewrite"
        /\ job'[Put].keep = (job[Put].listed \in ok[Put])
        /\ job'[Put].listed = job[Put].listed
        /\ job'[Put].copy = job[Put].copy
    BY <1>1 DEF PutCompVector, Compare, At, files, RelayTypeOK, Job
  <2> QED
    BY <1>1, <2>1 DEF PutCompVector, Compare, At, files, RelayTypeOK
<1>3. RelayTypeOK'
  BY <1>1, <1>2 DEF RelayTypeOK, Job, Version, Absent
<1>4. Dated'
  BY <1>1, <1>2 DEF Dated, Known, RelayTypeOK, Job, Version, Absent
<1>5. Fetched'
  BY <1>1, <1>2 DEF Fetched, RelayTypeOK, Job, Version, Absent
<1>6. GetKnows'
  BY <1>1, <1>2 DEF GetKnows, Passed, RelayTypeOK, Job, Version, Absent
<1>7. PutKnows'
  BY <1>1, <1>2 DEF PutKnows, RelayTypeOK, Job, Version, Absent
<1>8. PutListed'
  BY <1>1, <1>2 DEF PutListed, RelayTypeOK, Job, Version, Absent
<1> QED
  BY <1>3, <1>4, <1>5, <1>6, <1>7, <1>8 DEF RelayInv

LEMMA GetWriteToOKFileRelay ==
  ASSUME RelayInv, GetWriteToOKFile
  PROVE  RelayInv'
<1> USE RelayAssumption
<1>1. /\ RelayTypeOK /\ Dated /\ Fetched
      /\ GetKnows /\ PutKnows /\ PutListed
  BY DEF RelayInv
<1>2. /\ job[Get].at = "rewrite"
      /\ job' \in [Programs -> Job] /\ job'[Put] = job[Put]
      /\ job'[Get].at = (IF job[Get].keep THEN "done" ELSE "copy")
      /\ job'[Get].listed = job[Get].listed
      /\ job'[Get].keep = job[Get].keep
      /\ job'[Get].copy = job[Get].copy
      /\ ok' = [ok EXCEPT ![Get] = IF job[Get].keep THEN {job[Get].listed} ELSE {}]
      /\ UNCHANGED <<ptype, src, local, dst, last, raced>>
  <2>1. /\ job' \in [Programs -> Job] /\ job'[Put] = job[Put]
        /\ job'[Get].at = (IF job[Get].keep THEN "done" ELSE "copy")
        /\ job'[Get].listed = job[Get].listed
        /\ job'[Get].keep = job[Get].keep
        /\ job'[Get].copy = job[Get].copy
    BY <1>1 DEF GetWriteToOKFile, WriteToOKFile, Kept, At, files, RelayTypeOK, Job
  <2> QED
    BY <1>1, <2>1 DEF GetWriteToOKFile, WriteToOKFile, Kept, At, files, RelayTypeOK
<1>3. RelayTypeOK'
  BY <1>1, <1>2 DEF RelayTypeOK, Job, Version, Absent
<1>4. Dated'
  BY <1>1, <1>2 DEF Dated, Known, RelayTypeOK, Job, Version, Absent
<1>5. Fetched'
  BY <1>1, <1>2 DEF Fetched, RelayTypeOK, Job, Version, Absent
<1>6. GetKnows'
  BY <1>1, <1>2 DEF GetKnows, Passed, RelayTypeOK, Job, Version, Absent
<1>7. PutKnows'
  BY <1>1, <1>2 DEF PutKnows, RelayTypeOK, Job, Version, Absent
<1>8. PutListed'
  BY <1>1, <1>2 DEF PutListed, RelayTypeOK, Job, Version, Absent
<1> QED
  BY <1>3, <1>4, <1>5, <1>6, <1>7, <1>8 DEF RelayInv

LEMMA PutWriteToOKFileRelay ==
  ASSUME RelayInv, PutWriteToOKFile
  PROVE  RelayInv'
<1> USE RelayAssumption
<1>1. /\ RelayTypeOK /\ Dated /\ Fetched
      /\ GetKnows /\ PutKnows /\ PutListed
  BY DEF RelayInv
<1>2. /\ job[Put].at = "rewrite"
      /\ job' \in [Programs -> Job] /\ job'[Get] = job[Get]
      /\ job'[Put].at = (IF job[Put].keep THEN "done" ELSE "copy")
      /\ job'[Put].listed = job[Put].listed
      /\ job'[Put].keep = job[Put].keep
      /\ job'[Put].copy = job[Put].copy
      /\ ok' = [ok EXCEPT ![Put] = IF job[Put].keep THEN {job[Put].listed} ELSE {}]
      /\ UNCHANGED <<ptype, src, local, dst, last, raced>>
  <2>1. /\ job' \in [Programs -> Job] /\ job'[Get] = job[Get]
        /\ job'[Put].at = (IF job[Put].keep THEN "done" ELSE "copy")
        /\ job'[Put].listed = job[Put].listed
        /\ job'[Put].keep = job[Put].keep
        /\ job'[Put].copy = job[Put].copy
    BY <1>1 DEF PutWriteToOKFile, WriteToOKFile, Kept, At, files, RelayTypeOK, Job
  <2> QED
    BY <1>1, <2>1 DEF PutWriteToOKFile, WriteToOKFile, Kept, At, files, RelayTypeOK
<1>3. RelayTypeOK'
  BY <1>1, <1>2 DEF RelayTypeOK, Job, Version, Absent
<1>4. Dated'
  BY <1>1, <1>2 DEF Dated, Known, RelayTypeOK, Job, Version, Absent
<1>5. Fetched'
  BY <1>1, <1>2 DEF Fetched, RelayTypeOK, Job, Version, Absent
<1>6. GetKnows'
  BY <1>1, <1>2 DEF GetKnows, Passed, RelayTypeOK, Job, Version, Absent
<1>7. PutKnows'
  BY <1>1, <1>2 DEF PutKnows, RelayTypeOK, Job, Version, Absent
<1>8. PutListed'
  BY <1>1, <1>2 DEF PutListed, RelayTypeOK, Job, Version, Absent
<1> QED
  BY <1>3, <1>4, <1>5, <1>6, <1>7, <1>8 DEF RelayInv

LEMMA GetTransferRelay ==
  ASSUME RelayInv, GetTransfer
  PROVE  RelayInv'
<1> USE RelayAssumption
<1>1. /\ RelayTypeOK /\ Dated /\ Fetched
      /\ GetKnows /\ PutKnows /\ PutListed
  BY DEF RelayInv
<1>2. /\ job[Get].at = "copy"
      /\ src # Absent
      /\ job' \in [Programs -> Job] /\ job'[Put] = job[Put]
      /\ job'[Get].at = "publish"
      /\ job'[Get].copy = src
      /\ job'[Get].listed = job[Get].listed
      /\ job'[Get].keep = job[Get].keep
      /\ UNCHANGED <<ptype, src, local, dst, last, ok, raced>>
  <2>1. /\ job' \in [Programs -> Job] /\ job'[Put] = job[Put]
        /\ job'[Get].at = "publish"
        /\ job'[Get].copy = src
        /\ job'[Get].listed = job[Get].listed
        /\ job'[Get].keep = job[Get].keep
    BY <1>1 DEF GetTransfer, Copy, At, files, RelayTypeOK, Job
  <2> QED
    BY <1>1, <2>1 DEF GetTransfer, Copy, At, files, RelayTypeOK
<1>3. RelayTypeOK'
  BY <1>1, <1>2 DEF RelayTypeOK, Job, Version, Absent
<1>4. Dated'
  BY <1>1, <1>2 DEF Dated, Known, RelayTypeOK, Job, Version, Absent
<1>5. Fetched'
  BY <1>1, <1>2 DEF Fetched, RelayTypeOK, Job, Version, Absent, Dated, Known, PutListed
<1>6. GetKnows'
  BY <1>1, <1>2 DEF GetKnows, Passed, RelayTypeOK, Job, Version, Absent
<1>7. PutKnows'
  BY <1>1, <1>2 DEF PutKnows, RelayTypeOK, Job, Version, Absent
<1>8. PutListed'
  BY <1>1, <1>2 DEF PutListed, RelayTypeOK, Job, Version, Absent
<1> QED
  BY <1>3, <1>4, <1>5, <1>6, <1>7, <1>8 DEF RelayInv

LEMMA PutTransferRelay ==
  ASSUME RelayInv, PutTransfer
  PROVE  RelayInv'
<1> USE RelayAssumption
<1>1. /\ RelayTypeOK /\ Dated /\ Fetched
      /\ GetKnows /\ PutKnows /\ PutListed
  BY DEF RelayInv
<1>2. /\ job[Put].at = "copy"
      /\ local # Absent
      /\ job' \in [Programs -> Job] /\ job'[Get] = job[Get]
      /\ job'[Put].at = "publish"
      /\ job'[Put].copy = local
      /\ job'[Put].listed = job[Put].listed
      /\ job'[Put].keep = job[Put].keep
      /\ UNCHANGED <<ptype, src, local, dst, last, ok, raced>>
  <2>1. /\ job' \in [Programs -> Job] /\ job'[Get] = job[Get]
        /\ job'[Put].at = "publish"
        /\ job'[Put].copy = local
        /\ job'[Put].listed = job[Put].listed
        /\ job'[Put].keep = job[Put].keep
    BY <1>1 DEF PutTransfer, Copy, At, files, RelayTypeOK, Job
  <2> QED
    BY <1>1, <2>1 DEF PutTransfer, Copy, At, files, RelayTypeOK
<1>3. RelayTypeOK'
  BY <1>1, <1>2 DEF RelayTypeOK, Job, Version, Absent
<1>4. Dated'
  BY <1>1, <1>2 DEF Dated, Known, RelayTypeOK, Job, Version, Absent
<1>5. Fetched'
  BY <1>1, <1>2 DEF Fetched, RelayTypeOK, Job, Version, Absent, Dated, Known, PutListed
<1>6. GetKnows'
  BY <1>1, <1>2 DEF GetKnows, Passed, RelayTypeOK, Job, Version, Absent
<1>7. PutKnows'
  BY <1>1, <1>2 DEF PutKnows, RelayTypeOK, Job, Version, Absent
<1>8. PutListed'
  BY <1>1, <1>2 DEF PutListed, RelayTypeOK, Job, Version, Absent
<1> QED
  BY <1>3, <1>4, <1>5, <1>6, <1>7, <1>8 DEF RelayInv

LEMMA GetRenameRelay ==
  ASSUME RelayInv, GetRename
  PROVE  RelayInv'
<1> USE RelayAssumption
<1>1. /\ RelayTypeOK /\ Dated /\ Fetched
      /\ GetKnows /\ PutKnows /\ PutListed
  BY DEF RelayInv
<1>2. /\ job[Get].at = "publish"
      /\ src.mtime = job[Get].copy.mtime
      /\ job' \in [Programs -> Job] /\ job'[Put] = job[Put]
      /\ job'[Get].at = "settle"
      /\ job'[Get].listed = job[Get].listed
      /\ job'[Get].keep = job[Get].keep
      /\ job'[Get].copy = job[Get].copy
      /\ local' = job[Get].copy
      /\ UNCHANGED <<ptype, src, dst, last, ok, raced>>
  <2>1. /\ job' \in [Programs -> Job] /\ job'[Put] = job[Put]
        /\ job'[Get].at = "settle"
        /\ job'[Get].listed = job[Get].listed
        /\ job'[Get].keep = job[Get].keep
        /\ job'[Get].copy = job[Get].copy
    BY <1>1 DEF GetRename, At, RelayTypeOK, Job
  <2> QED
    BY <1>1, <2>1 DEF GetRename, At, RelayTypeOK
<1>3. src = last /\ job[Get].copy.mtime = last.mtime /\ (~raced => job[Get].copy = last)
  BY <1>1, <1>2 DEF Fetched, Dated, Known, RelayTypeOK, Job, Absent
<1>4. RelayTypeOK'
  BY <1>1, <1>2, <1>3 DEF RelayTypeOK, Job, Version, Absent
<1>5. Dated'
  BY <1>1, <1>2, <1>3 DEF Dated, Known, RelayTypeOK, Job, Version, Absent
<1>6. Fetched'
  BY <1>1, <1>2, <1>3 DEF Fetched, RelayTypeOK, Job, Version, Absent
<1>7. GetKnows'
  BY <1>1, <1>2, <1>3 DEF GetKnows, Passed, RelayTypeOK, Job, Version, Absent
<1>8. PutKnows'
  BY <1>1, <1>2, <1>3 DEF PutKnows, RelayTypeOK, Job, Version, Absent
<1>9. PutListed'
  BY <1>1, <1>2, <1>3 DEF PutListed, RelayTypeOK, Job, Version, Absent, Dated
<1> QED
  BY <1>4, <1>5, <1>6, <1>7, <1>8, <1>9 DEF RelayInv

LEMMA PutRenameRelay ==
  ASSUME RelayInv, PutRename
  PROVE  RelayInv'
<1> USE RelayAssumption
<1>1. /\ RelayTypeOK /\ Dated /\ Fetched
      /\ GetKnows /\ PutKnows /\ PutListed
  BY DEF RelayInv
<1>2. /\ job[Put].at = "publish"
      /\ job' \in [Programs -> Job] /\ job'[Get] = job[Get]
      /\ job'[Put].at = (IF local.size = job[Put].copy.size THEN "settle" ELSE "done")
      /\ job'[Put].listed = job[Put].listed
      /\ job'[Put].keep = job[Put].keep
      /\ job'[Put].copy = job[Put].copy
      /\ dst' = job[Put].copy
      /\ UNCHANGED <<ptype, src, local, last, ok, raced>>
  <2>1. /\ job' \in [Programs -> Job] /\ job'[Get] = job[Get]
        /\ job'[Put].at = (IF local.size = job[Put].copy.size THEN "settle" ELSE "done")
        /\ job'[Put].listed = job[Put].listed
        /\ job'[Put].keep = job[Put].keep
        /\ job'[Put].copy = job[Put].copy
    BY <1>1 DEF PutRename, At, RelayTypeOK, Job
  <2> QED
    BY <1>1, <2>1 DEF PutRename, At, RelayTypeOK
<1>3. RelayTypeOK'
  BY <1>1, <1>2 DEF RelayTypeOK, Job, Version, Absent
<1>4. Dated'
  BY <1>1, <1>2 DEF Dated, Known, RelayTypeOK, Job, Version, Absent
<1>5. Fetched'
  BY <1>1, <1>2 DEF Fetched, RelayTypeOK, Job, Version, Absent
<1>6. GetKnows'
  BY <1>1, <1>2 DEF GetKnows, Passed, RelayTypeOK, Job, Version, Absent, PutKnows
<1>7. PutKnows'
  BY <1>1, <1>2 DEF PutKnows, RelayTypeOK, Job, Version, Absent
<1>8. PutListed'
  BY <1>1, <1>2 DEF PutListed, RelayTypeOK, Job, Version, Absent
<1> QED
  BY <1>3, <1>4, <1>5, <1>6, <1>7, <1>8 DEF RelayInv

LEMMA GetAppendRelay ==
  ASSUME RelayInv, AppendToOKFile(Get)
  PROVE  RelayInv'
<1> USE RelayAssumption
<1>1. /\ RelayTypeOK /\ Dated /\ Fetched
      /\ GetKnows /\ PutKnows /\ PutListed
  BY DEF RelayInv
<1>2. /\ job[Get].at = "settle"
      /\ job' \in [Programs -> Job] /\ job'[Put] = job[Put]
      /\ job'[Get].at = "done"
      /\ job'[Get].listed = job[Get].listed
      /\ job'[Get].keep = job[Get].keep
      /\ job'[Get].copy = job[Get].copy
      /\ ok' = [ok EXCEPT ![Get] = ok[Get] \cup {job[Get].listed}]
      /\ UNCHANGED <<ptype, src, local, dst, last, raced>>
  <2>1. /\ job' \in [Programs -> Job] /\ job'[Put] = job[Put]
        /\ job'[Get].at = "done"
        /\ job'[Get].listed = job[Get].listed
        /\ job'[Get].keep = job[Get].keep
        /\ job'[Get].copy = job[Get].copy
    BY <1>1 DEF AppendToOKFile, At, files, RelayTypeOK, Job
  <2> QED
    BY <1>1, <2>1 DEF AppendToOKFile, At, files, RelayTypeOK
<1>3. ~raced /\ job[Get].listed = last.mtime => job[Get].copy = last
  BY <1>1, <1>2 DEF Fetched, Dated, Known, RelayTypeOK, Job, Version
<1>4. RelayTypeOK'
  BY <1>1, <1>2, <1>3 DEF RelayTypeOK, Job, Version, Absent
<1>5. Dated'
  BY <1>1, <1>2, <1>3 DEF Dated, Known, RelayTypeOK, Job, Version, Absent
<1>6. Fetched'
  BY <1>1, <1>2, <1>3 DEF Fetched, RelayTypeOK, Job, Version, Absent
<1>7. GetKnows'
  BY <1>1, <1>2, <1>3 DEF GetKnows, Passed, RelayTypeOK, Job, Version, Absent
<1>8. PutKnows'
  BY <1>1, <1>2, <1>3 DEF PutKnows, RelayTypeOK, Job, Version, Absent
<1>9. PutListed'
  BY <1>1, <1>2, <1>3 DEF PutListed, RelayTypeOK, Job, Version, Absent
<1> QED
  BY <1>4, <1>5, <1>6, <1>7, <1>8, <1>9 DEF RelayInv

LEMMA PutAppendRelay ==
  ASSUME RelayInv, AppendToOKFile(Put)
  PROVE  RelayInv'
<1> USE RelayAssumption
<1>1. /\ RelayTypeOK /\ Dated /\ Fetched
      /\ GetKnows /\ PutKnows /\ PutListed
  BY DEF RelayInv
<1>2. /\ job[Put].at = "settle"
      /\ job' \in [Programs -> Job] /\ job'[Get] = job[Get]
      /\ job'[Put].at = "done"
      /\ job'[Put].listed = job[Put].listed
      /\ job'[Put].keep = job[Put].keep
      /\ job'[Put].copy = job[Put].copy
      /\ ok' = [ok EXCEPT ![Put] = ok[Put] \cup {job[Put].listed}]
      /\ UNCHANGED <<ptype, src, local, dst, last, raced>>
  <2>1. /\ job' \in [Programs -> Job] /\ job'[Get] = job[Get]
        /\ job'[Put].at = "done"
        /\ job'[Put].listed = job[Put].listed
        /\ job'[Put].keep = job[Put].keep
        /\ job'[Put].copy = job[Put].copy
    BY <1>1 DEF AppendToOKFile, At, files, RelayTypeOK, Job
  <2> QED
    BY <1>1, <2>1 DEF AppendToOKFile, At, files, RelayTypeOK
<1>3. ~raced /\ job[Put].listed = last.mtime => job[Put].copy = last
  BY <1>1, <1>2 DEF Fetched, Dated, Known, RelayTypeOK, Job, Version
<1>4. RelayTypeOK'
  BY <1>1, <1>2, <1>3 DEF RelayTypeOK, Job, Version, Absent
<1>5. Dated'
  BY <1>1, <1>2, <1>3 DEF Dated, Known, RelayTypeOK, Job, Version, Absent
<1>6. Fetched'
  BY <1>1, <1>2, <1>3 DEF Fetched, RelayTypeOK, Job, Version, Absent
<1>7. GetKnows'
  BY <1>1, <1>2, <1>3 DEF GetKnows, Passed, RelayTypeOK, Job, Version, Absent
<1>8. PutKnows'
  BY <1>1, <1>2, <1>3 DEF PutKnows, RelayTypeOK, Job, Version, Absent
<1>9. PutListed'
  BY <1>1, <1>2, <1>3 DEF PutListed, RelayTypeOK, Job, Version, Absent
<1> QED
  BY <1>4, <1>5, <1>6, <1>7, <1>8, <1>9 DEF RelayInv

LEMMA GetTakeAwayRelay ==
  ASSUME RelayInv, TakeAway(Get, src), src' = Absent, UNCHANGED local
  PROVE  RelayInv'
<1> USE RelayAssumption
<1>1. /\ RelayTypeOK /\ Dated /\ Fetched
      /\ GetKnows /\ PutKnows /\ PutListed
  BY DEF RelayInv
<1>2. /\ job[Get].at = "settle"
      /\ job' \in [Programs -> Job] /\ job'[Put] = job[Put]
      /\ job'[Get].at = "done"
      /\ job'[Get].listed = job[Get].listed
      /\ job'[Get].keep = job[Get].keep
      /\ job'[Get].copy = job[Get].copy
      /\ src' = Absent
      /\ raced' = (raced \/ (src # Absent /\ src # job[Get].copy))
      /\ UNCHANGED <<ptype, local, dst, last, ok>>
  <2>1. /\ job' \in [Programs -> Job] /\ job'[Put] = job[Put]
        /\ job'[Get].at = "done"
        /\ job'[Get].listed = job[Get].listed
        /\ job'[Get].keep = job[Get].keep
        /\ job'[Get].copy = job[Get].copy
    BY <1>1 DEF TakeAway, At, RelayTypeOK, Job
  <2> QED
    BY <1>1, <2>1 DEF TakeAway, At, RelayTypeOK
<1>3. RelayTypeOK'
  BY <1>1, <1>2 DEF RelayTypeOK, Job, Version, Absent
<1>4. Dated'
  BY <1>1, <1>2 DEF Dated, Known, RelayTypeOK, Job, Version, Absent
<1>5. Fetched'
  BY <1>1, <1>2 DEF Fetched, RelayTypeOK, Job, Version, Absent
<1>6. GetKnows'
  BY <1>1, <1>2 DEF GetKnows, Passed, RelayTypeOK, Job, Version, Absent, PutKnows
<1>7. PutKnows'
  BY <1>1, <1>2 DEF PutKnows, RelayTypeOK, Job, Version, Absent
<1>8. PutListed'
  BY <1>1, <1>2 DEF PutListed, RelayTypeOK, Job, Version, Absent
<1> QED
  BY <1>3, <1>4, <1>5, <1>6, <1>7, <1>8 DEF RelayInv

LEMMA PutTakeAwayRelay ==
  ASSUME RelayInv, TakeAway(Put, local), local' = Absent, UNCHANGED src
  PROVE  RelayInv'
<1> USE RelayAssumption
<1>1. /\ RelayTypeOK /\ Dated /\ Fetched
      /\ GetKnows /\ PutKnows /\ PutListed
  BY DEF RelayInv
<1>2. /\ job[Put].at = "settle"
      /\ job' \in [Programs -> Job] /\ job'[Get] = job[Get]
      /\ job'[Put].at = "done"
      /\ job'[Put].listed = job[Put].listed
      /\ job'[Put].keep = job[Put].keep
      /\ job'[Put].copy = job[Put].copy
      /\ local' = Absent
      /\ raced' = (raced \/ (local # Absent /\ local # job[Put].copy))
      /\ UNCHANGED <<ptype, src, dst, last, ok>>
  <2>1. /\ job' \in [Programs -> Job] /\ job'[Get] = job[Get]
        /\ job'[Put].at = "done"
        /\ job'[Put].listed = job[Put].listed
        /\ job'[Put].keep = job[Put].keep
        /\ job'[Put].copy = job[Put].copy
    BY <1>1 DEF TakeAway, At, RelayTypeOK, Job
  <2> QED
    BY <1>1, <2>1 DEF TakeAway, At, RelayTypeOK
<1>3. RelayTypeOK'
  BY <1>1, <1>2 DEF RelayTypeOK, Job, Version, Absent
<1>4. Dated'
  BY <1>1, <1>2 DEF Dated, Known, RelayTypeOK, Job, Version, Absent
<1>5. Fetched'
  BY <1>1, <1>2 DEF Fetched, RelayTypeOK, Job, Version, Absent
<1>6. GetKnows'
  BY <1>1, <1>2 DEF GetKnows, Passed, RelayTypeOK, Job, Version, Absent, PutKnows
<1>7. PutKnows'
  BY <1>1, <1>2 DEF PutKnows, RelayTypeOK, Job, Version, Absent
<1>8. PutListed'
  BY <1>1, <1>2 DEF PutListed, RelayTypeOK, Job, Version, Absent
<1> QED
  BY <1>3, <1>4, <1>5, <1>6, <1>7, <1>8 DEF RelayInv

\* Any step at all.
LEMMA RelayStep ==
  ASSUME RelayInv, [Next]_vars
  PROVE  RelayInv'
<1>1. CASE Heartbeat /\ Forget
  BY <1>1, ForgetRelay
<1>2. CASE Publish
  BY <1>2, PublishRelay
<1>3. CASE GetList \/ GetCompVector \/ GetWriteToOKFile \/ GetTransfer \/ GetRename
  BY <1>3, GetListRelay, GetCompVectorRelay, GetWriteToOKFileRelay, GetTransferRelay, GetRenameRelay
<1>4. CASE GetSettle
  BY <1>4, GetAppendRelay, GetTakeAwayRelay DEF GetSettle
<1>5. CASE PutList \/ PutCompVector \/ PutWriteToOKFile \/ PutTransfer \/ PutRename
  BY <1>5, PutListRelay, PutCompVectorRelay, PutWriteToOKFileRelay, PutTransferRelay, PutRenameRelay
<1>6. CASE PutSettle
  BY <1>6, PutAppendRelay, PutTakeAwayRelay DEF PutSettle
<1>7. CASE UNCHANGED vars
  <2>1. UNCHANGED <<ptype, src, local, dst, last, ok, job, raced>>
    BY <1>7 DEF vars, relay, files
  <2>2. RelayTypeOK' /\ Dated' /\ Fetched'
    BY <2>1 DEF RelayInv, RelayTypeOK, Dated, Known, Fetched
  <2>3. GetKnows' /\ PutKnows' /\ PutListed'
    BY <2>1 DEF RelayInv, GetKnows, Passed, PutKnows, PutListed
  <2> QED
    BY <2>2, <2>3 DEF RelayInv
<1> QED
  BY <1>1, <1>2, <1>3, <1>4, <1>5, <1>6, <1>7 DEF Next

-----------------------------------------------------------------------------
(* The steps of the two programs are heartbeats for the table, or nothing. *)

\* A program in a step of its own is registered, or runs without a record.
LEMMA WorkTable ==
  ASSUME TableInv, NEW p \in Programs, pc[p] = "run", Beat(p) \/ NoBeat
  PROVE  TableInv'
<1>1. CASE Beat(p)
  BY <1>1, BeatTable
<1>2. CASE NoBeat
  <2>1. UNCHANGED <<shm, sem, pc, pid, pos, hung, term, chk, slot, faults, robbed>>
    BY <1>2 DEF NoBeat, table, program, checker, history
  <2> QED
    BY <2>1, SameTable
<1> QED
  BY <1>1, <1>2

\* Any step at all.
LEMMA TableStep ==
  ASSUME TableInv, [Next]_vars
  PROVE  TableInv'
<1>1. CASE Heartbeat
  BY <1>1, HeartbeatTable
<1>2. CASE Publish \/ UNCHANGED vars
  <2>1. UNCHANGED <<shm, sem, pc, pid, pos, hung, term, chk, slot, faults, robbed>>
    BY <1>2 DEF Publish, vars, table, program, checker, history
  <2> QED
    BY <2>1, SameTable
<1>3. CASE GetList \/ GetCompVector \/ GetWriteToOKFile \/ GetTransfer \/ GetRename \/ GetSettle
  <2>1. pc[Get] = "run" /\ (Beat(Get) \/ NoBeat)
    BY <1>3 DEF GetList, List, GetCompVector, Compare, GetWriteToOKFile, WriteToOKFile, GetTransfer,
      Copy, GetRename, GetSettle, AppendToOKFile, TakeAway, At
  <2> QED
    BY <2>1, RelayAssumption, WorkTable
<1>4. CASE PutList \/ PutCompVector \/ PutWriteToOKFile \/ PutTransfer \/ PutRename \/ PutSettle
  <2>1. pc[Put] = "run" /\ (Beat(Put) \/ NoBeat)
    BY <1>4 DEF PutList, List, PutCompVector, Compare, PutWriteToOKFile, WriteToOKFile, PutTransfer,
      Copy, PutRename, PutSettle, AppendToOKFile, TakeAway, At
  <2> QED
    BY <2>1, RelayAssumption, WorkTable
<1> QED
  BY <1>1, <1>2, <1>3, <1>4 DEF Next

\* What holds of the table and of the file after every step, wherever a process is ended.
THEOREM InvariantsHold == Spec => [](TableInv /\ RelayInv)
<1>1. Init => TableInv /\ RelayInv
  BY InitTable, InitRelay DEF Init
<1>2. TableInv /\ RelayInv /\ [Next]_vars => TableInv' /\ RelayInv'
  BY TableStep, RelayStep
<1> QED
  BY <1>1, <1>2, PTL DEF Spec

\* Two running programs write to one record only after checkproc has erased a record
\* that was held: the choice of the record outside the semaphore never leads to it.
THEOREM SharedRecord == Spec => []SharedOnlyIfErased
<1>1. TableInv => SharedOnlyIfErased
  BY DEF TableInv, Owned, Apart, SharedOnlyIfErased
<1> QED
  BY <1>1, InvariantsHold, PTL

\* A registered program has one record, whatever the process ids that came round again
\* have left in the table.
THEOREM OneRecordEach == Spec => []NoSecondRecord
<1>1. TableInv => NoSecondRecord
  BY DEF TableInv, Records, OwnFound, Looked, NoSecondRecord
<1> QED
  BY <1>1, InvariantsHold, PTL

\* No process that dies inside AddPInfo keeps the semaphore, except its creator before
\* SETVAL, when no record exists yet.
THEOREM LockIsGivenBack == Spec => []LockOutlivesHolder
<1>1. TableInv => LockOutlivesHolder
  <2> SUFFICES ASSUME TableInv, sem = 0, \A p \in Programs : pc[p] \notin {"setval", "find", "write"}
               PROVE  \A s \in Slots : shm[s] = Empty
    BY DEF LockOutlivesHolder
  <2> QED
    BY DEF TableInv, Unregistered
<1> QED
  BY <1>1, InvariantsHold, PTL

\* Wherever the two FTP programs are ended, the newest version of a file waits in one of
\* the directories for the next run, or has arrived.
THEOREM NewestArrivesOrWaits == Spec => []NewestNotLost
<1>1. RelayInv => NewestNotLost
  <2> SUFFICES ASSUME RelayInv, ~raced, last # Absent
               PROVE  Leads(Get, src, last) \/ Leads(Put, local, last) \/ dst = last
    BY DEF NewestNotLost
  <2>1. GetKnows /\ PutKnows
    BY DEF RelayInv
  <2>2. src = last \/ local = last \/ dst = last
    BY <2>1 DEF GetKnows, Passed
  <2>3. last.mtime \in ok[Get] => local = last \/ dst = last
    BY <2>1 DEF GetKnows, Passed
  <2>4. last.mtime \in ok[Put] => dst = last
    BY <2>1 DEF PutKnows
  <2> QED
    BY <2>2, <2>3, <2>4 DEF Leads
<1> QED
  BY <1>1, InvariantsHold, PTL
=============================================================================
