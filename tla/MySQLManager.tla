---------------------------- MODULE MySQLManager ----------------------------
(***************************************************************************)
(* src/mysql.cpp: MySQLManager, the cache of idle connections of one data  *)
(* source, shared by the threads of the program; MySQL, one connection;    *)
(* MySQLTransaction and MySQLStmt, which work through a connection; and    *)
(* MySQLUtil, whose calls get a connection, use it and give it back.       *)
(*                                                                         *)
(* The MySQL server is modelled from how it is used: it may go away and    *)
(* come back, or drop one session (wait_timeout); a session that ends      *)
(* takes its uncommitted work with it.  A statement of a call writes one   *)
(* row <<call, i>>; what the server has committed is the set of rows.      *)
(* Time is whether a connection was handed out less than five seconds ago. *)
(***************************************************************************)
EXTENDS Integers, Sequences, SequencesExt, FiniteSets

CONSTANTS
  Threads,    \* threads that use the manager
  Conns,      \* MySQL objects that may be allocated (a bound)
  Calls,      \* calls the threads make (a bound)
  PoolSize,   \* parameter "pool" of the data source: m_poolSize
  Tries,      \* the count of TryExecute and TryQuery
  MaxDrops,   \* bound: sessions and servers lost
  FailingIn,  \* auto_commit values of transactions in which the server may refuse a statement
  DefaultDb,  \* parameter "dbname": the database of a new session
  Databases,  \* databases the users select
  NoDb, NoConn, NoCall

ASSUME ManagerAssumption ==
  /\ PoolSize \in Nat /\ Tries \in Nat \ {0} /\ MaxDrops \in Nat
  /\ FailingIn \subseteq BOOLEAN /\ NoConn \notin Conns

VARIABLES
  defined,   \* the name is in mysql.dbs or m_dbDefines
  pool,      \* m_conns[name], front first
  made,      \* MySQL objects that exist
  err,       \* m_hasError
  recent,    \* connections whose m_lastUsedTime is less than 5 s old
  dbname,    \* m_dbname
  sess,      \* per connection: the server's side of it
  up,        \* the server accepts connections
  committed, \* rows the server has committed
  pc, conn, call, tries,  \* per thread: where it is, what it holds, what it does
  tr,        \* per thread: its MySQLTransaction
  todo,      \* calls not made yet
  drops,
  acked,     \* history: rows whose caller was told they are stored
  written,   \* history: rows a statement of a transaction reported as done
  broken,    \* history: transactions whose first error was that of a statement
  wasted     \* history: calls that failed on the present session after it died

object == <<made, err, recent, dbname>>
thread == <<pc, conn, call, tries, tr, todo>>
history == <<acked, written, broken, wasted>>
vars == <<defined, pool, object, sess, up, committed, thread, drops, history>>

Rows == Calls \X {1, 2}
Kinds == {"execute", "query", "stmt", "trans"}

NoSession == [state |-> "none", db |-> NoDb, tx |-> FALSE, work |-> {}]
NewSession == [state |-> "live", db |-> DefaultDb, tx |-> FALSE, work |-> {}]
NoTransaction == [auto |-> FALSE, finished |-> TRUE, error |-> FALSE]

Init ==
  /\ defined \in BOOLEAN /\ pool = <<>> /\ made = {} /\ recent = {}
  /\ err = [c \in Conns |-> FALSE] /\ dbname = [c \in Conns |-> NoDb]
  /\ sess = [c \in Conns |-> NoSession]
  /\ up = TRUE /\ committed = {}
  /\ pc = [t \in Threads |-> "idle"] /\ conn = [t \in Threads |-> NoConn]
  /\ call = [t \in Threads |-> NoCall] /\ tries = [t \in Threads |-> 0]
  /\ tr = [t \in Threads |-> NoTransaction]
  /\ todo = Calls /\ drops = 0
  /\ acked = {} /\ written = {} /\ broken = {} /\ wasted = [c \in Conns |-> 0]

-----------------------------------------------------------------------------
(* The server. *)

\* The session ends; its open transaction is rolled back.
Ended(s) == [s EXCEPT !.state = IF @ = "live" THEN "dead" ELSE @, !.tx = FALSE, !.work = {}]

ServerDown ==
  /\ up /\ drops < MaxDrops
  /\ up' = FALSE /\ drops' = drops + 1
  /\ sess' = [c \in Conns |-> Ended(sess[c])]
  /\ UNCHANGED <<defined, pool, object, committed, thread, history>>

ServerUp == ~up /\ up' = TRUE /\ UNCHANGED <<defined, pool, object, sess, committed, thread, drops, history>>

\* wait_timeout, a KILL, a broken network path.
SessionDropped(c) ==
  /\ sess[c].state = "live" /\ drops < MaxDrops
  /\ sess' = [sess EXCEPT ![c] = Ended(@)] /\ drops' = drops + 1
  /\ UNCHANGED <<defined, pool, object, up, committed, thread, history>>

\* Five seconds go by for some of the connections.
TimePasses == \E S \in SUBSET recent \ {recent} :
  recent' = S /\ UNCHANGED <<defined, pool, made, err, dbname, sess, up, committed, thread, drops, history>>

Live(c) == sess[c].state = "live"

-----------------------------------------------------------------------------
(* MySQLManager::get and freeMySQL. *)

registerMySQL == ~defined /\ defined' = TRUE
  /\ UNCHANGED <<pool, object, sess, up, committed, thread, drops, history>>

\* A call of MySQLUtil, of the manager, or of a user of get().
Begin(t, j, kind) ==
  /\ pc[t] = "idle" /\ j \in todo
  /\ todo' = todo \ {j} /\ call' = [call EXCEPT ![t] = <<j, kind>>]
  /\ tries' = [tries EXCEPT ![t] = IF kind = "trans" THEN 1 ELSE Tries]
  /\ pc' = [pc EXCEPT ![t] = "get"]
  /\ UNCHANGED <<defined, pool, object, sess, up, committed, conn, tr, drops, history>>

Job(t) == call[t][1]
Kind(t) == call[t][2]

\* A connection handed out within 5 s is trusted unless its last command failed.
\* (Mutant: the error is forgotten.)
TrustsRecent(c) == c \notin recent
isNeedCheck(c) == c \notin recent \/ err[c]

\* What the manager and MySQLUtil do with the connection.
FirstStep(kind) == IF kind = "trans" THEN "begin" ELSE "run"

\* The connection goes to the caller; m_lastUsedTime = now.
HandOut(t, c) ==
  /\ recent' = recent \cup {c} /\ conn' = [conn EXCEPT ![t] = c]
  /\ pc' = [pc EXCEPT ![t] = FirstStep(Kind(t))]

\* What is left of the idle list.  (Mutant: front() without pop_front().)
FrontStays == pool
Popped == Tail(pool)

\* Under the lock: the idle connection used least recently, if there is one.
GetCached(t) ==
  /\ pc[t] = "get" /\ pool # <<>>
  /\ pool' = Popped
  /\ LET c == Head(pool) IN
       IF isNeedCheck(c)
       THEN /\ conn' = [conn EXCEPT ![t] = c] /\ pc' = [pc EXCEPT ![t] = "ping"]
            /\ UNCHANGED recent
       ELSE HandOut(t, c)
  /\ UNCHANGED <<defined, made, err, dbname, sess, up, committed, call, tries, tr, todo, drops, history>>

Return(t) ==
  /\ tries' = [tries EXCEPT ![t] = 0] /\ call' = [call EXCEPT ![t] = NoCall]
  /\ pc' = [pc EXCEPT ![t] = "idle"]

\* get() or the command failed: the loop of TryExecute goes on or is over.
TryAgain(t) ==
  \/ /\ tries[t] > 1
     /\ tries' = [tries EXCEPT ![t] = @ - 1] /\ pc' = [pc EXCEPT ![t] = "get"]
     /\ UNCHANGED call
  \/ tries[t] = 1 /\ Return(t)

\* Nothing cached: the definition is looked up, under the lock.
GetNew(t) ==
  /\ pc[t] = "get" /\ pool = <<>>
  /\ IF defined THEN pc' = [pc EXCEPT ![t] = "new"] /\ UNCHANGED <<call, tries>>
                ELSE TryAgain(t)
  /\ UNCHANGED <<defined, pool, object, sess, up, committed, conn, tr, todo, drops, history>>

\* MySQL::connect of a new object, without the lock; the object is deleted if it fails.
ConnectNew(t) ==
  /\ pc[t] = "new"
  /\ \/ /\ up
        /\ \E c \in Conns \ made :
             /\ made' = made \cup {c} /\ HandOut(t, c)
             /\ sess' = [sess EXCEPT ![c] = NewSession]
             /\ err' = [err EXCEPT ![c] = FALSE] /\ dbname' = [dbname EXCEPT ![c] = NoDb]
             /\ wasted' = [wasted EXCEPT ![c] = 0]
        /\ UNCHANGED <<call, tries>>
     \/ /\ ~up /\ TryAgain(t)
        /\ UNCHANGED <<made, recent, conn, sess, err, dbname, wasted>>
  /\ UNCHANGED <<defined, pool, up, committed, tr, todo, drops, acked, written, broken>>

ping(t) ==
  /\ pc[t] = "ping"
  /\ err' = [err EXCEPT ![conn[t]] = ~Live(conn[t])]
  /\ IF Live(conn[t]) THEN HandOut(t, conn[t])
                      ELSE pc' = [pc EXCEPT ![t] = "connect"] /\ UNCHANGED <<recent, conn>>
  /\ UNCHANGED <<defined, pool, made, dbname, sess, up, committed, call, tries, tr, todo, drops, history>>

\* MySQL::connect after a failed ping.  m_dbname keeps the name selected in the
\* old session.  If it fails, get returns nullptr and nobody deletes the object.
Reconnect(t) ==
  /\ pc[t] = "connect"
  /\ LET c == conn[t] IN
       IF up
       THEN /\ sess' = [sess EXCEPT ![c] = NewSession] /\ err' = [err EXCEPT ![c] = FALSE]
            /\ wasted' = [wasted EXCEPT ![c] = 0]
            /\ HandOut(t, c) /\ UNCHANGED <<call, tries>>
       ELSE /\ TryAgain(t) /\ conn' = [conn EXCEPT ![t] = NoConn]
            /\ UNCHANGED <<sess, err, recent, wasted>>
  /\ UNCHANGED <<defined, pool, made, dbname, up, committed, tr, todo, drops, acked, written, broken>>

\* The room freeMySQL finds.  (Mutant: one connection too many.)
OneTooMany == Len(pool) <= PoolSize
HasRoom == Len(pool) < PoolSize

\* MySQL objects that are deleted: their sessions are closed.
Delete(S) ==
  /\ made' = made \ S
  /\ sess' = [c \in Conns |-> IF c \in S THEN NoSession ELSE sess[c]]
  /\ err' = [c \in Conns |-> c \notin S /\ err[c]]
  /\ dbname' = [c \in Conns |-> IF c \in S THEN NoDb ELSE dbname[c]]
  /\ wasted' = [c \in Conns |-> IF c \in S THEN 0 ELSE wasted[c]]

\* The last shared pointer goes: back to the end of the list, or deleted.
freeMySQL(t) ==
  /\ pc[t] \in {"free", "retry"}
  /\ LET c == conn[t] IN
       IF HasRoom
       THEN pool' = Append(pool, c) /\ UNCHANGED <<object, sess, wasted>>
       ELSE Delete({c}) /\ recent' = recent \ {c} /\ UNCHANGED pool
  /\ conn' = [conn EXCEPT ![t] = NoConn] /\ tr' = [tr EXCEPT ![t] = NoTransaction]
  /\ IF pc[t] = "retry" THEN TryAgain(t) ELSE Return(t)
  /\ UNCHANGED <<defined, up, committed, todo, drops, acked, written, broken>>

\* Where the idle connections are that stay when those of S are erased.
Kept(S) == {i \in 1..Len(pool) : pool[i] \notin S}

\* checkConnection(30) deletes idle connections unused for longer than that; the
\* others keep their order.
checkConnection == \E S \in SUBSET (ToSet(pool) \ recent) \ {{}} :
  /\ \E keep \in [1..Cardinality(Kept(S)) -> Kept(S)] :
       /\ \A i, k \in DOMAIN keep : i < k => keep[i] < keep[k]
       /\ pool' = [i \in DOMAIN keep |-> pool[keep[i]]]
  /\ Delete(S)
  /\ UNCHANGED <<defined, recent, up, committed, thread, drops, acked, written, broken>>

-----------------------------------------------------------------------------
(* Commands on a connection. *)

\* The server runs a statement that writes row r: at once, or with the
\* transaction the session is in.
Store(c, r) ==
  IF sess[c].tx
  THEN sess' = [sess EXCEPT ![c].work = @ \cup {r}] /\ UNCHANGED committed
  ELSE committed' = committed \cup {r} /\ UNCHANGED sess

\* A command of MySQL fails on connection c; counted once for the call.
CommandFails(c, first) ==
  /\ err' = [err EXCEPT ![c] = TRUE]
  /\ wasted' = [wasted EXCEPT ![c] = IF first /\ ~Live(c) THEN @ + 1 ELSE @]

\* MySQL::execute.
Execute(t) ==
  /\ pc[t] = "run" /\ Kind(t) = "execute"
  /\ \/ /\ Live(conn[t]) /\ Store(conn[t], <<Job(t), 1>>)
        /\ acked' = acked \cup {<<Job(t), 1>>}
        /\ err' = [err EXCEPT ![conn[t]] = FALSE]
        /\ pc' = [pc EXCEPT ![t] = "free"] /\ UNCHANGED wasted
     \/ /\ CommandFails(conn[t], TRUE)
        /\ pc' = [pc EXCEPT ![t] = "retry"] /\ UNCHANGED <<sess, committed, acked>>
  /\ UNCHANGED <<defined, pool, made, recent, dbname, up, conn, call, tries, tr, todo, drops, written, broken>>

\* my_mysql_query: no error and a result; a statement without one counts as failed.
HasResult(c) == Live(c)

\* MySQL::query.
Query(t) ==
  /\ pc[t] = "run" /\ Kind(t) = "query"
  /\ \/ /\ HasResult(conn[t]) /\ err' = [err EXCEPT ![conn[t]] = FALSE]
        /\ pc' = [pc EXCEPT ![t] = "free"] /\ UNCHANGED wasted
     \/ CommandFails(conn[t], TRUE) /\ pc' = [pc EXCEPT ![t] = "retry"]
  /\ UNCHANGED <<defined, pool, made, recent, dbname, sess, up, committed, conn, call, tries, tr, todo, drops, acked, written, broken>>

\* MySQLStmt::Create asks the server.
Prepared(c) == Live(c)

\* execStmt and queryStmt.  Whatever happens, m_hasError is not touched.
Statement(t) ==
  /\ pc[t] = "run" /\ Kind(t) = "stmt"
  /\ \/ /\ Prepared(conn[t]) /\ Store(conn[t], <<Job(t), 1>>)
        /\ acked' = acked \cup {<<Job(t), 1>>}
     \/ UNCHANGED <<sess, committed, acked>>     \* queryStmt, or an error
  /\ pc' = [pc EXCEPT ![t] = "free"]
  /\ UNCHANGED <<defined, pool, object, up, conn, call, tries, tr, todo, drops, written, broken, wasted>>

\* MySQL::use.
use(t, d) ==
  /\ pc[t] = "run" /\ dbname[conn[t]] # d
  /\ LET c == conn[t] IN
       IF Live(c)
       THEN /\ sess' = [sess EXCEPT ![c].db = d] /\ dbname' = [dbname EXCEPT ![c] = d]
            /\ err' = [err EXCEPT ![c] = FALSE] /\ UNCHANGED wasted
       ELSE dbname' = [dbname EXCEPT ![c] = NoDb] /\ err' = [err EXCEPT ![c] = TRUE] /\ UNCHANGED <<sess, wasted>>
  /\ UNCHANGED <<defined, pool, made, recent, up, committed, thread, drops, acked, written, broken>>

-----------------------------------------------------------------------------
(* MySQLTransaction. *)

\* Create executes BEGIN, which also commits whatever transaction the session is
\* still in.  If it fails the object is destroyed at once.
OpenTransaction(t, auto) ==
  /\ pc[t] = "begin"
  /\ LET c == conn[t] IN
       IF Live(c)
       THEN /\ committed' = committed \cup sess[c].work
            /\ sess' = [sess EXCEPT ![c].tx = TRUE, ![c].work = {}]
            /\ err' = [err EXCEPT ![c] = FALSE] /\ UNCHANGED wasted
            /\ pc' = [pc EXCEPT ![t] = "trans"]
       ELSE /\ CommandFails(c, TRUE) /\ UNCHANGED <<committed, sess>>
            /\ pc' = [pc EXCEPT ![t] = "drop"]
  /\ tr' = [tr EXCEPT ![t] = [auto |-> auto, finished |-> FALSE, error |-> ~Live(conn[t])]]
  /\ UNCHANGED <<defined, pool, made, recent, dbname, up, conn, call, tries, todo, drops, acked, written, broken>>

RowsOf(j) == {j} \X {1, 2}

\* MySQLTransaction::execute.  MYSQL_OPT_RECONNECT is off: a session that has died
\* is not replaced in the middle of a transaction.  (Mutant: it is.)
RunsInNewSession(c) == TRUE
RunsInSession(c) == Live(c)

TransactionExecute(t, r) ==
  /\ pc[t] = "trans" /\ ~tr[t].finished
  /\ r \in RowsOf(Job(t)) \ written
  /\ LET c == conn[t] IN
       \/ /\ RunsInSession(c) /\ Store(c, r)
          /\ written' = written \cup {r} /\ err' = [err EXCEPT ![c] = FALSE]
          /\ UNCHANGED <<wasted, tr, broken>>
       \/ /\ Live(c) => tr[t].auto \in FailingIn
          /\ CommandFails(c, ~tr[t].error)
          /\ tr' = [tr EXCEPT ![t].error = TRUE]
          /\ broken' = IF tr[t].error THEN broken ELSE broken \cup {Job(t)}
          /\ UNCHANGED <<sess, committed, written>>
  /\ UNCHANGED <<defined, pool, made, recent, dbname, up, pc, conn, call, tries, todo, drops, acked>>

\* What ends a transaction on the server.
EndTransaction(t, rows) ==
  /\ committed' = committed \cup rows
  /\ sess' = [sess EXCEPT ![conn[t]].tx = FALSE, ![conn[t]].work = {}]
  /\ tr' = [tr EXCEPT ![t].finished = TRUE]
  /\ err' = [err EXCEPT ![conn[t]] = FALSE]
  /\ UNCHANGED <<wasted, drops>>

EndFails(t) ==
  /\ CommandFails(conn[t], ~tr[t].error)
  /\ tr' = [tr EXCEPT ![t].error = TRUE]

\* When commit() returns without a COMMIT.  (Mutant: it looks at m_isFinished only.)
CommitsAnyway(t) == tr[t].finished
NothingToCommit(t) == tr[t].finished \/ tr[t].error

\* commit(): the answer to COMMIT may get lost after the server has obeyed it.
Commit(t) ==
  LET c == conn[t] IN
  \/ /\ NothingToCommit(t) /\ UNCHANGED <<committed, sess, tr, err, wasted, drops, acked>>
  \/ /\ ~NothingToCommit(t) /\ Live(c)
     /\ EndTransaction(t, sess[c].work) /\ acked' = acked \cup sess[c].work
  \/ /\ ~NothingToCommit(t) /\ Live(c) /\ drops < MaxDrops
     /\ drops' = drops + 1 /\ EndFails(t)
     /\ committed' = committed \cup sess[c].work /\ sess' = [sess EXCEPT ![c] = Ended(@)]
     /\ UNCHANGED acked
  \/ /\ ~NothingToCommit(t) /\ ~Live(c)
     /\ EndFails(t) /\ UNCHANGED <<committed, sess, drops, acked>>

\* rollback(): whatever has failed before, unless the transaction is finished.
Rollback(t) ==
  \/ /\ tr[t].finished /\ UNCHANGED <<committed, sess, tr, err, wasted, drops>>
  \/ ~tr[t].finished /\ Live(conn[t]) /\ EndTransaction(t, {})
  \/ ~tr[t].finished /\ ~Live(conn[t]) /\ EndFails(t) /\ UNCHANGED <<committed, sess, drops>>

\* The user calls commit() or rollback().
Finish(t) ==
  /\ pc[t] = "trans"
  /\ Commit(t) \/ (Rollback(t) /\ UNCHANGED acked)
  /\ UNCHANGED <<defined, pool, made, recent, dbname, up, pc, conn, call, tries, todo, written, broken>>

\* ~MySQLTransaction: commit or rollback by m_autoCommit; then its pointer to the
\* connection goes.  (Mutant: the destructor leaves an unfinished transaction.)
LeavesOpen(t) == UNCHANGED <<committed, sess, tr, err, wasted, drops, acked>>
Destructor(t) == IF tr[t].auto THEN Commit(t) ELSE Rollback(t) /\ UNCHANGED acked

DropTransaction(t) ==
  /\ pc[t] \in {"trans", "drop"} /\ Destructor(t)
  /\ pc' = [pc EXCEPT ![t] = "free"]
  /\ UNCHANGED <<defined, pool, made, recent, dbname, up, conn, call, tries, todo, written, broken>>

-----------------------------------------------------------------------------
Call(t) ==
  \/ \E j \in Calls, k \in Kinds : Begin(t, j, k)
  \/ GetCached(t) \/ GetNew(t) \/ ConnectNew(t) \/ ping(t) \/ Reconnect(t)
  \/ Execute(t) \/ Query(t) \/ Statement(t) \/ freeMySQL(t)
  \/ \E d \in Databases : use(t, d)
  \/ \E auto \in BOOLEAN : OpenTransaction(t, auto)
  \/ \E r \in Rows : TransactionExecute(t, r)
  \/ Finish(t) \/ DropTransaction(t)

Next ==
  \/ \E t \in Threads : Call(t)
  \/ registerMySQL \/ checkConnection \/ TimePasses
  \/ ServerDown \/ ServerUp \/ \E c \in Conns : SessionDropped(c)

Spec == Init /\ [][Next]_vars

-----------------------------------------------------------------------------
(* Properties. *)

\* However get, freeMySQL and checkConnection interleave, an idle connection is
\* nobody's, no two threads have the same one, and the list stays within "pool".
IdleIsUnused ==
  /\ Len(pool) <= PoolSize /\ IsInjective(pool) /\ ToSet(pool) \subseteq made
  /\ \A t \in Threads : conn[t] \notin ToSet(pool)
  /\ \A t, u \in Threads : conn[t] = conn[u] => t = u \/ conn[t] = NoConn

\* What a caller was told is stored is stored: no write lands in a transaction
\* that somebody else left open on the connection.
AckedIsStored == acked \subseteq committed

\* A transaction leaves all it has written or nothing, and nothing after one of
\* its statements has failed, whoever uses the connection next.
AllOrNothing == \A j \in Calls :
  LET mine == RowsOf(j) \cap written IN
    mine \cap committed # {} => j \notin broken /\ mine \subseteq committed

\* A session that died is found out by the first command that fails on it: the
\* next get() pings, although the connection was in use a moment ago.
OneErrorPerDeadSession == \A c \in Conns : wasted[c] <= 1
=============================================================================
