----------------------------- MODULE MySQLProofs -----------------------------
(***************************************************************************)
(* What holds of MySQLManager for every number of threads, connections,    *)
(* calls and losses, and every size of the list.                           *)
(*                                                                         *)
(* ManagerInv says who has which connection, which jobs are under way and  *)
(* when an error is known; it holds whatever the server refuses.           *)
(* TransactionInv says what an open session has written and for whom.  It  *)
(* needs that the server refuses no statement of an auto_commit            *)
(* transaction: ~MySQLTransaction then calls commit(), which returns at    *)
(* once (src/mysql.cpp:1045), and the connection goes back to the list     *)
(* with its session still in the transaction.                              *)
(***************************************************************************)
EXTENDS MySQLManager, FiniteSetTheorems, TLAPS

States == {"idle", "get", "new", "ping", "connect", "run", "begin", "trans", "drop", "free", "retry"}

\* A thread that has a connection, and one that has not used it yet.
Holding == {"ping", "connect", "run", "begin", "trans", "drop", "free", "retry"}
Early == {"get", "new", "ping", "connect", "begin"}

Session == [state : {"none", "live", "dead"}, db : Databases \cup {DefaultDb, NoDb},
            tx : BOOLEAN, work : SUBSET Rows]
Transaction == [auto : BOOLEAN, finished : BOOLEAN, error : BOOLEAN]

TypeOK ==
  /\ pool \in Seq(Conns) /\ made \subseteq Conns /\ recent \subseteq Conns
  /\ err \in [Conns -> BOOLEAN] /\ sess \in [Conns -> Session]
  /\ dbname \in [Conns -> Databases \cup {NoDb}] /\ wasted \in [Conns -> Nat]
  /\ up \in BOOLEAN /\ defined \in BOOLEAN /\ drops \in Nat
  /\ pc \in [Threads -> States] /\ conn \in [Threads -> Conns \cup {NoConn}]
  /\ call \in [Threads -> (Calls \X Kinds) \cup {NoCall}]
  /\ tries \in [Threads -> Nat] /\ tr \in [Threads -> Transaction]
  /\ todo \subseteq Calls /\ broken \subseteq Calls
  /\ committed \subseteq Rows /\ acked \subseteq Rows /\ written \subseteq Rows

\* The list: nothing twice, nothing deleted, no more than it may hold.
Listed ==
  /\ Len(pool) <= PoolSize
  /\ \A i \in 1..Len(pool) : pool[i] \in made
  /\ \A i, k \in 1..Len(pool) : pool[i] = pool[k] => i = k

\* A connection in use is one thread's and is not in the list.
Held ==
  /\ \A t \in Threads : IF pc[t] \in Holding THEN conn[t] \in made ELSE conn[t] = NoConn
  /\ \A t, u \in Threads : conn[t] = conn[u] => t = u \/ conn[t] = NoConn
  /\ \A t \in Threads : \A i \in 1..Len(pool) : pool[i] # conn[t]

\* A call is made once, and what the thread does next is a step of its kind.
Working ==
  /\ \A t \in Threads : pc[t] # "idle" => call[t] \in Calls \X Kinds /\ Job(t) \notin todo
  /\ \A t, u \in Threads : pc[t] # "idle" /\ pc[u] # "idle" /\ Job(t) = Job(u) => t = u
  /\ \A t \in Threads : /\ pc[t] \in {"begin", "trans", "drop"} => Kind(t) = "trans"
                        /\ pc[t] \in {"run", "retry"} => Kind(t) # "trans"

\* A session that is not in a transaction holds nothing back; a dead one is in none.
Sessions == \A c \in Conns :
  /\ sess[c].tx => Live(c)
  /\ ~sess[c].tx => sess[c].work = {}

\* A command that failed on a dead session has left its mark, and a command is only
\* tried where none has failed.
Errors ==
  /\ \A c \in Conns : wasted[c] <= 1 /\ (wasted[c] # 0 => ~Live(c) /\ err[c])
  /\ \A t \in Threads :
       /\ pc[t] \in {"run", "begin"} => wasted[conn[t]] = 0
       /\ pc[t] = "trans" /\ ~tr[t].error => wasted[conn[t]] = 0
       /\ pc[t] = "drop" => tr[t].error

ManagerInv == TypeOK /\ Listed /\ Held /\ Working /\ Sessions /\ Errors

-----------------------------------------------------------------------------
\* Thread t is in a transaction that its end will close on the server.
InTransaction(t) == pc[t] = "trans" /\ ~tr[t].finished

\* An open transaction belongs to a thread that will commit it or roll it back.
OpenHasOwner == \A c \in Conns : sess[c].tx =>
  \E t \in Threads : /\ conn[t] = c /\ InTransaction(t)
                     /\ tr[t].error => ~tr[t].auto

\* What the session holds back is what the thread has written, none of it committed.
Pending == \A t \in Threads : InTransaction(t) /\ Live(conn[t]) =>
  /\ sess[conn[t]].tx
  /\ sess[conn[t]].work = RowsOf(Job(t)) \cap written
  /\ RowsOf(Job(t)) \cap committed = {}

\* Until its first error nothing of a transaction is committed but by its COMMIT.
Unbroken == \A t \in Threads : pc[t] = "trans" /\ ~tr[t].error =>
  /\ Job(t) \notin broken
  /\ ~tr[t].finished => RowsOf(Job(t)) \cap committed = {}

\* Nothing is known of a transaction that is not open yet.
Untouched(j) == RowsOf(j) \cap written = {} /\ RowsOf(j) \cap committed = {} /\ j \notin broken

NotBegun ==
  /\ \A j \in todo : Untouched(j)
  /\ \A t \in Threads : pc[t] \in Early /\ Kind(t) = "trans" => Untouched(Job(t))

\* A call that is no transaction writes no row of one.
NotTransaction == \A t \in Threads :
  pc[t] # "idle" /\ Kind(t) # "trans" => RowsOf(Job(t)) \cap written = {}

TransactionInv ==
  /\ OpenHasOwner /\ Pending /\ Unbroken /\ NotBegun /\ NotTransaction
  /\ AckedIsStored /\ AllOrNothing

-----------------------------------------------------------------------------
(* Steps that no transaction notices. *)

\* Nothing is written or committed; a thread keeps its transaction; what it begins is
\* a call nobody has made.
Quiet ==
  /\ UNCHANGED <<committed, acked, written, broken>> /\ todo' \subseteq todo
  /\ \A c \in Conns : sess'[c].tx => sess[c].tx
  /\ \A u \in Threads : pc'[u] = "trans" <=> pc[u] = "trans"
  /\ \A u \in Threads : pc[u] = "trans" =>
       /\ conn'[u] = conn[u] /\ tr'[u] = tr[u] /\ call'[u] = call[u]
       /\ sess'[conn[u]].state = "live" =>
            /\ sess[conn[u]].state = "live"
            /\ sess'[conn[u]].tx = sess[conn[u]].tx /\ sess'[conn[u]].work = sess[conn[u]].work
  /\ \A u \in Threads : pc'[u] # "idle" =>
       \/ pc[u] # "idle" /\ call'[u] = call[u]
       \/ call'[u][1] \in todo
  /\ \A u \in Threads : pc'[u] \in Early /\ call'[u][2] = "trans" =>
       \/ pc[u] \in Early /\ call'[u] = call[u]
       \/ call'[u][1] \in todo

\* The others.
Noisy(t) ==
  \/ Execute(t) /\ pc'[t] = "free"
  \/ Statement(t)
  \/ \E auto \in BOOLEAN : OpenTransaction(t, auto)
  \/ \E r \in Rows : TransactionExecute(t, r)
  \/ Finish(t) \/ DropTransaction(t)

-----------------------------------------------------------------------------
(* The list and the session of one connection. *)

\* What pop_front() and push_back() leave.
LEMMA ListFacts ==
  ASSUME NEW s \in Seq(Conns)
  PROVE  /\ Len(s) \in Nat
         /\ s # <<>> => /\ Head(s) \in Conns /\ Head(s) = s[1] /\ 1 \in 1..Len(s)
                        /\ Tail(s) \in Seq(Conns) /\ Len(Tail(s)) = Len(s) - 1
                        /\ \A i \in 1..Len(Tail(s)) : Tail(s)[i] = s[i + 1] /\ i + 1 \in 1..Len(s)
         /\ \A c \in Conns : /\ Append(s, c) \in Seq(Conns) /\ Len(Append(s, c)) = Len(s) + 1
                             /\ \A i \in 1..Len(s) + 1 :
                                  Append(s, c)[i] = IF i = Len(s) + 1 THEN c ELSE s[i]
OBVIOUS

\* What the end of a session leaves of it.
LEMMA EndedFacts ==
  ASSUME NEW s \in Session
  PROVE  /\ Ended(s) \in Session /\ Ended(s).state # "live"
         /\ ~Ended(s).tx /\ Ended(s).work = {}
BY DEF Ended, Session

LEMMA NewSessions ==
  /\ NewSession \in Session /\ NewSession.state = "live" /\ ~NewSession.tx /\ NewSession.work = {}
  /\ NoSession \in Session /\ NoSession.state # "live" /\ ~NoSession.tx /\ NoSession.work = {}
  /\ NoTransaction \in Transaction
BY DEF NewSession, NoSession, NoTransaction, Session, Transaction

\* What setting m_hasError of a transaction leaves.
LEMMA ErrorSet ==
  ASSUME NEW f \in [Threads -> Transaction], NEW t \in Threads
  PROVE  LET g == [f EXCEPT ![t].error = TRUE] IN
           /\ g \in [Threads -> Transaction] /\ g[t].error
           /\ g[t].auto = f[t].auto /\ g[t].finished = f[t].finished
           /\ \A u \in Threads \ {t} : g[u] = f[u]
<1> DEFINE g == [f EXCEPT ![t].error = TRUE]
<1>1. f[t] \in Transaction /\ [f[t] EXCEPT !.error = TRUE] \in Transaction
  BY DEF Transaction
<1>2. g[t] = [f[t] EXCEPT !.error = TRUE] /\ \A u \in Threads \ {t} : g[u] = f[u]
  OBVIOUS
<1>3. g \in [Threads -> Transaction]
  BY <1>1, <1>2
<1> QED
  BY <1>1, <1>2, <1>3 DEF Transaction

-----------------------------------------------------------------------------
(* Every step keeps ManagerInv. Those of the server and of time are quiet. *)

LEMMA DownQuiet ==
  ASSUME ManagerInv, ServerDown
  PROVE  ManagerInv' /\ Quiet
<1> USE ManagerAssumption
<1>1. /\ TypeOK /\ Listed /\ Held
      /\ Working /\ Sessions /\ Errors
  BY DEF ManagerInv
<1>2. /\ up
      /\ up' = FALSE
      /\ drops' = drops + 1
      /\ sess' = [c \in Conns |-> Ended(sess[c])]
      /\ UNCHANGED <<defined, pool, made, err, recent, dbname, committed, pc, conn, call, tries, tr, todo, acked, written, broken, wasted>>
  BY <1>1 DEF ServerDown, object, thread, history
<1>3. \A c \in Conns : /\ sess'[c] \in Session /\ sess'[c].state # "live"
                    /\ ~sess'[c].tx /\ sess'[c].work = {}
  BY <1>1, <1>2, EndedFacts DEF TypeOK
<1>4. TypeOK'
  <2>1. up' \in BOOLEAN
    BY <1>2
  <2>2. sess' \in [Conns -> Session]
    BY <1>2, <1>3
  <2> QED
    BY <1>1, <1>2, <2>1, <2>2 DEF TypeOK
<1>5. Listed'
  BY <1>1, <1>2 DEF Listed
<1>6. Held'
  BY <1>1, <1>2 DEF Held, Holding
<1>7. Working'
  BY <1>1, <1>2 DEF Working, Job, Kind
<1>8. Sessions'
  BY <1>1, <1>2, <1>3 DEF Sessions, Live, TypeOK
<1>9. Errors'
  BY <1>1, <1>2, <1>3 DEF Errors, Live, TypeOK
<1>10. Quiet
  BY <1>1, <1>2, <1>3 DEF Quiet, Early, Holding, Job, Kind, Held, Working, TypeOK
<1> QED
  BY <1>4, <1>5, <1>6, <1>7, <1>8, <1>9, <1>10 DEF ManagerInv

LEMMA UpQuiet ==
  ASSUME ManagerInv, ServerUp
  PROVE  ManagerInv' /\ Quiet
<1> USE ManagerAssumption
<1>1. /\ TypeOK /\ Listed /\ Held
      /\ Working /\ Sessions /\ Errors
  BY DEF ManagerInv
<1>2. /\ up' = TRUE
      /\ UNCHANGED <<defined, pool, made, err, recent, dbname, sess, committed, pc, conn, call, tries, tr, todo, drops, acked, written, broken, wasted>>
  BY <1>1 DEF ServerUp, object, thread, history
<1>3. TypeOK'
  <2>1. up' \in BOOLEAN
    BY <1>2
  <2> QED
    BY <1>1, <1>2, <2>1 DEF TypeOK
<1>4. Listed'
  BY <1>1, <1>2 DEF Listed
<1>5. Held'
  BY <1>1, <1>2 DEF Held, Holding
<1>6. Working'
  BY <1>1, <1>2 DEF Working, Job, Kind
<1>7. Sessions'
  BY <1>1, <1>2 DEF Sessions, Live
<1>8. Errors'
  BY <1>1, <1>2 DEF Errors, Live
<1>9. Quiet
  BY <1>1, <1>2 DEF Quiet, Early, Holding, Job, Kind, Held, Working, TypeOK
<1> QED
  BY <1>3, <1>4, <1>5, <1>6, <1>7, <1>8, <1>9 DEF ManagerInv

LEMMA DroppedQuiet ==
  ASSUME ManagerInv, NEW d \in Conns, SessionDropped(d)
  PROVE  ManagerInv' /\ Quiet
<1> USE ManagerAssumption
<1>1. /\ TypeOK /\ Listed /\ Held
      /\ Working /\ Sessions /\ Errors
  BY DEF ManagerInv
<1>2. /\ drops' = drops + 1
      /\ sess' = [sess EXCEPT ![d] = Ended(sess[d])]
      /\ UNCHANGED <<defined, pool, made, err, recent, dbname, up, committed, pc, conn, call, tries, tr, todo, acked, written, broken, wasted>>
  BY <1>1 DEF SessionDropped, TypeOK, object, thread, history
<1>3. /\ sess'[d] \in Session /\ sess'[d].state # "live"
      /\ ~sess'[d].tx /\ sess'[d].work = {}
      /\ \A c \in Conns \ {d} : sess'[c] = sess[c]
  BY <1>1, <1>2, EndedFacts DEF TypeOK
<1>4. TypeOK'
  <2>1. sess' \in [Conns -> Session]
    BY <1>1, <1>2, <1>3 DEF TypeOK
  <2> QED
    BY <1>1, <1>2, <2>1 DEF TypeOK
<1>5. Listed'
  BY <1>1, <1>2 DEF Listed
<1>6. Held'
  BY <1>1, <1>2 DEF Held, Holding
<1>7. Working'
  BY <1>1, <1>2 DEF Working, Job, Kind
<1>8. Sessions'
  BY <1>1, <1>2, <1>3 DEF Sessions, Live, TypeOK
<1>9. Errors'
  BY <1>1, <1>2, <1>3 DEF Errors, Live, TypeOK
<1>10. Quiet
  BY <1>1, <1>2, <1>3 DEF Quiet, Early, Holding, Job, Kind, Held, Working, TypeOK
<1> QED
  BY <1>4, <1>5, <1>6, <1>7, <1>8, <1>9, <1>10 DEF ManagerInv

LEMMA TimeQuiet ==
  ASSUME ManagerInv, TimePasses
  PROVE  ManagerInv' /\ Quiet
<1> USE ManagerAssumption
<1>1. /\ TypeOK /\ Listed /\ Held
      /\ Working /\ Sessions /\ Errors
  BY DEF ManagerInv
<1>2. /\ recent' \subseteq recent
      /\ UNCHANGED <<defined, pool, made, err, dbname, sess, up, committed, pc, conn, call, tries, tr, todo, drops, acked, written, broken, wasted>>
  BY <1>1 DEF TimePasses, object, thread, history
<1>3. TypeOK'
  BY <1>1, <1>2 DEF TypeOK, States, Session, Transaction, Kinds, Rows
<1>4. Listed'
  BY <1>1, <1>2 DEF Listed
<1>5. Held'
  BY <1>1, <1>2 DEF Held, Holding
<1>6. Working'
  BY <1>1, <1>2 DEF Working, Job, Kind
<1>7. Sessions'
  BY <1>1, <1>2 DEF Sessions, Live
<1>8. Errors'
  BY <1>1, <1>2 DEF Errors, Live
<1>9. Quiet
  BY <1>1, <1>2 DEF Quiet, Early, Holding, Job, Kind, Held, Working, TypeOK
<1> QED
  BY <1>3, <1>4, <1>5, <1>6, <1>7, <1>8, <1>9 DEF ManagerInv

LEMMA RegisterQuiet ==
  ASSUME ManagerInv, registerMySQL
  PROVE  ManagerInv' /\ Quiet
<1> USE ManagerAssumption
<1>1. /\ TypeOK /\ Listed /\ Held
      /\ Working /\ Sessions /\ Errors
  BY DEF ManagerInv
<1>2. /\ defined' = TRUE
      /\ UNCHANGED <<pool, made, err, recent, dbname, sess, up, committed, pc, conn, call, tries, tr, todo, drops, acked, written, broken, wasted>>
  BY <1>1 DEF registerMySQL, object, thread, history
<1>3. TypeOK'
  <2>1. defined' \in BOOLEAN
    BY <1>2
  <2> QED
    BY <1>1, <1>2, <2>1 DEF TypeOK
<1>4. Listed'
  BY <1>1, <1>2 DEF Listed
<1>5. Held'
  BY <1>1, <1>2 DEF Held, Holding
<1>6. Working'
  BY <1>1, <1>2 DEF Working, Job, Kind
<1>7. Sessions'
  BY <1>1, <1>2 DEF Sessions, Live
<1>8. Errors'
  BY <1>1, <1>2 DEF Errors, Live
<1>9. Quiet
  BY <1>1, <1>2 DEF Quiet, Early, Holding, Job, Kind, Held, Working, TypeOK
<1> QED
  BY <1>3, <1>4, <1>5, <1>6, <1>7, <1>8, <1>9 DEF ManagerInv

-----------------------------------------------------------------------------
(* Every step keeps ManagerInv. Those of get() are quiet. *)

LEMMA BeginQuiet ==
  ASSUME ManagerInv, NEW t \in Threads, NEW j \in Calls, NEW kind \in Kinds, Begin(t, j, kind)
  PROVE  ManagerInv' /\ Quiet
<1> USE ManagerAssumption
<1>1. /\ TypeOK /\ Listed /\ Held
      /\ Working /\ Sessions /\ Errors
  BY DEF ManagerInv
<1>2. /\ pc[t] = "idle"
      /\ j \in todo
      /\ todo' = todo \ {j}
      /\ call' = [call EXCEPT ![t] = <<j, kind>>]
      /\ tries' = [tries EXCEPT ![t] = IF kind = "trans" THEN 1 ELSE Tries]
      /\ pc' = [pc EXCEPT ![t] = "get"]
      /\ UNCHANGED <<defined, pool, made, err, recent, dbname, sess, up, committed, conn, tr, drops, acked, written, broken, wasted>>
  BY <1>1 DEF Begin, object, thread, history
<1>3. TypeOK'
  BY <1>1, <1>2 DEF TypeOK, States, Session, Transaction, Kinds, Rows
<1>4. Listed'
  BY <1>1, <1>2 DEF Listed
<1>5. Held'
  BY <1>1, <1>2 DEF Held, Holding, TypeOK
<1>6. Working'
  BY <1>1, <1>2 DEF Working, Job, Kind, TypeOK
<1>7. Sessions'
  BY <1>1, <1>2 DEF Sessions, Live
<1>8. Errors'
  BY <1>1, <1>2 DEF Errors, Live, TypeOK
<1>9. Quiet
  BY <1>1, <1>2 DEF Quiet, Early, Holding, Job, Kind, Held, Working, TypeOK
<1> QED
  BY <1>3, <1>4, <1>5, <1>6, <1>7, <1>8, <1>9 DEF ManagerInv

LEMMA CachedPingQuiet ==
  ASSUME ManagerInv, NEW t \in Threads, GetCached(t), isNeedCheck(Head(pool))
  PROVE  ManagerInv' /\ Quiet
<1> USE ManagerAssumption
<1>1. /\ TypeOK /\ Listed /\ Held
      /\ Working /\ Sessions /\ Errors
  BY DEF ManagerInv
<1>2. /\ pc[t] = "get"
      /\ pool # <<>>
      /\ pool' = Tail(pool)
      /\ conn' = [conn EXCEPT ![t] = Head(pool)]
      /\ pc' = [pc EXCEPT ![t] = "ping"]
      /\ UNCHANGED <<defined, made, err, recent, dbname, sess, up, committed, call, tries, tr, todo, drops, acked, written, broken, wasted>>
  BY <1>1 DEF GetCached, Popped, object, thread, history
<1>3. /\ Head(pool) \in made /\ Head(pool) \in Conns /\ pool' \in Seq(Conns) /\ Len(pool') <= PoolSize
      /\ \A i \in 1..Len(pool') : /\ i + 1 \in 1..Len(pool) /\ pool'[i] = pool[i + 1]
                                 /\ pool[i + 1] # Head(pool)
      /\ \A u \in Threads : conn[u] # Head(pool)
  BY <1>1, <1>2, ListFacts DEF TypeOK, Listed, Held
<1>4. TypeOK'
  BY <1>1, <1>2, <1>3 DEF TypeOK, States, Session, Transaction, Kinds, Rows
<1>5. Listed'
  BY <1>1, <1>2, <1>3 DEF Listed, TypeOK
<1>6. Held'
  BY <1>1, <1>2, <1>3 DEF Held, Holding, TypeOK
<1>7. Working'
  BY <1>1, <1>2, <1>3 DEF Working, Job, Kind, TypeOK
<1>8. Sessions'
  BY <1>1, <1>2 DEF Sessions, Live
<1>9. Errors'
  BY <1>1, <1>2, <1>3 DEF Errors, Live, TypeOK
<1>10. Quiet
  BY <1>1, <1>2, <1>3 DEF Quiet, Early, Holding, Job, Kind, Held, Working, TypeOK
<1> QED
  BY <1>4, <1>5, <1>6, <1>7, <1>8, <1>9, <1>10 DEF ManagerInv

LEMMA CachedTrustQuiet ==
  ASSUME ManagerInv, NEW t \in Threads, GetCached(t), ~isNeedCheck(Head(pool))
  PROVE  ManagerInv' /\ Quiet
<1> USE ManagerAssumption
<1>1. /\ TypeOK /\ Listed /\ Held
      /\ Working /\ Sessions /\ Errors
  BY DEF ManagerInv
<1>2. /\ pc[t] = "get"
      /\ pool # <<>>
      /\ ~err[Head(pool)]
      /\ pool' = Tail(pool)
      /\ conn' = [conn EXCEPT ![t] = Head(pool)]
      /\ recent' = recent \cup {Head(pool)}
      /\ pc' = [pc EXCEPT ![t] = FirstStep(Kind(t))]
      /\ UNCHANGED <<defined, made, err, dbname, sess, up, committed, call, tries, tr, todo, drops, acked, written, broken, wasted>>
  BY <1>1 DEF GetCached, Popped, isNeedCheck, HandOut, object, thread, history
<1>3. /\ Head(pool) \in made /\ Head(pool) \in Conns /\ pool' \in Seq(Conns) /\ Len(pool') <= PoolSize
      /\ \A i \in 1..Len(pool') : /\ i + 1 \in 1..Len(pool) /\ pool'[i] = pool[i + 1]
                                 /\ pool[i + 1] # Head(pool)
      /\ \A u \in Threads : conn[u] # Head(pool)
  BY <1>1, <1>2, ListFacts DEF TypeOK, Listed, Held
<1>4. FirstStep(Kind(t)) = IF Kind(t) = "trans" THEN "begin" ELSE "run"
  BY DEF FirstStep
<1>5. TypeOK'
  BY <1>1, <1>2, <1>3, <1>4 DEF TypeOK, States, Session, Transaction, Kinds, Rows
<1>6. Listed'
  BY <1>1, <1>2, <1>3, <1>4 DEF Listed, TypeOK
<1>7. Held'
  BY <1>1, <1>2, <1>3, <1>4 DEF Held, Holding, TypeOK
<1>8. Working'
  BY <1>1, <1>2, <1>3, <1>4 DEF Working, Job, Kind, TypeOK
<1>9. Sessions'
  BY <1>1, <1>2 DEF Sessions, Live
<1>10. Errors'
  BY <1>1, <1>2, <1>3, <1>4 DEF Errors, Live, TypeOK
<1>11. Quiet
  BY <1>1, <1>2, <1>3, <1>4 DEF Quiet, Early, Holding, Job, Kind, Held, Working, TypeOK
<1> QED
  BY <1>5, <1>6, <1>7, <1>8, <1>9, <1>10, <1>11 DEF ManagerInv

LEMMA DefinedQuiet ==
  ASSUME ManagerInv, NEW t \in Threads, GetNew(t), defined
  PROVE  ManagerInv' /\ Quiet
<1> USE ManagerAssumption
<1>1. /\ TypeOK /\ Listed /\ Held
      /\ Working /\ Sessions /\ Errors
  BY DEF ManagerInv
<1>2. /\ pc[t] = "get"
      /\ pc' = [pc EXCEPT ![t] = "new"]
      /\ UNCHANGED <<defined, pool, made, err, recent, dbname, sess, up, committed, conn, call, tries, tr, todo, drops, acked, written, broken, wasted>>
  BY <1>1 DEF GetNew, object, thread, history
<1>3. TypeOK'
  BY <1>1, <1>2 DEF TypeOK, States, Session, Transaction, Kinds, Rows
<1>4. Listed'
  BY <1>1, <1>2 DEF Listed
<1>5. Held'
  BY <1>1, <1>2 DEF Held, Holding, TypeOK
<1>6. Working'
  BY <1>1, <1>2 DEF Working, Job, Kind, TypeOK
<1>7. Sessions'
  BY <1>1, <1>2 DEF Sessions, Live
<1>8. Errors'
  BY <1>1, <1>2 DEF Errors, Live, TypeOK
<1>9. Quiet
  BY <1>1, <1>2 DEF Quiet, Early, Holding, Job, Kind, Held, Working, TypeOK
<1> QED
  BY <1>3, <1>4, <1>5, <1>6, <1>7, <1>8, <1>9 DEF ManagerInv

LEMMA UndefinedQuiet ==
  ASSUME ManagerInv, NEW t \in Threads, GetNew(t), ~defined
  PROVE  ManagerInv' /\ Quiet
<1> USE ManagerAssumption
<1>1. /\ TypeOK /\ Listed /\ Held
      /\ Working /\ Sessions /\ Errors
  BY DEF ManagerInv
<1>2. /\ pc[t] = "get"
      /\ tries' = [tries EXCEPT ![t] = IF tries[t] > 1 THEN tries[t] - 1 ELSE 0]
      /\ call' = [call EXCEPT ![t] = IF tries[t] > 1 THEN call[t] ELSE NoCall]
      /\ pc' = [pc EXCEPT ![t] = IF tries[t] > 1 THEN "get" ELSE "idle"]
      /\ UNCHANGED <<defined, pool, made, err, recent, dbname, sess, up, committed, conn, tr, todo, drops, acked, written, broken, wasted>>
  BY <1>1 DEF GetNew, TryAgain, Return, TypeOK, object, thread, history
<1>3. TypeOK'
  BY <1>1, <1>2 DEF TypeOK, States, Session, Transaction, Kinds, Rows
<1>4. Listed'
  BY <1>1, <1>2 DEF Listed
<1>5. Held'
  BY <1>1, <1>2 DEF Held, Holding, TypeOK
<1>6. Working'
  BY <1>1, <1>2 DEF Working, Job, Kind, TypeOK
<1>7. Sessions'
  BY <1>1, <1>2 DEF Sessions, Live
<1>8. Errors'
  BY <1>1, <1>2 DEF Errors, Live, TypeOK
<1>9. Quiet
  BY <1>1, <1>2 DEF Quiet, Early, Holding, Job, Kind, Held, Working, TypeOK
<1> QED
  BY <1>3, <1>4, <1>5, <1>6, <1>7, <1>8, <1>9 DEF ManagerInv

LEMMA ConnectedQuiet ==
  ASSUME ManagerInv, NEW t \in Threads, pc[t] = "new", NEW c \in Conns \ made,
         made' = made \cup {c}, HandOut(t, c), sess' = [sess EXCEPT ![c] = NewSession],
         err' = [err EXCEPT ![c] = FALSE], dbname' = [dbname EXCEPT ![c] = NoDb],
         wasted' = [wasted EXCEPT ![c] = 0],
         UNCHANGED <<call, tries, defined, pool, up, committed, tr, todo, drops, acked, written, broken>>
  PROVE  ManagerInv' /\ Quiet
<1> USE ManagerAssumption
<1>1. /\ TypeOK /\ Listed /\ Held
      /\ Working /\ Sessions /\ Errors
  BY DEF ManagerInv
<1>2. /\ made' = made \cup {c}
      /\ recent' = recent \cup {c}
      /\ conn' = [conn EXCEPT ![t] = c]
      /\ pc' = [pc EXCEPT ![t] = FirstStep(Kind(t))]
      /\ sess' = [sess EXCEPT ![c] = NewSession]
      /\ err' = [err EXCEPT ![c] = FALSE]
      /\ dbname' = [dbname EXCEPT ![c] = NoDb]
      /\ wasted' = [wasted EXCEPT ![c] = 0]
      /\ UNCHANGED <<defined, pool, up, committed, call, tries, tr, todo, drops, acked, written, broken>>
  BY <1>1 DEF HandOut
<1>3. FirstStep(Kind(t)) = IF Kind(t) = "trans" THEN "begin" ELSE "run"
  BY DEF FirstStep
<1>4. /\ sess'[c] \in Session /\ Live(c)' /\ ~sess'[c].tx /\ sess'[c].work = {}
      /\ \A d \in Conns \ {c} : sess'[d] = sess[d]
  BY <1>1, <1>2, NewSessions DEF TypeOK, Live
<1>5. /\ \A u \in Threads : conn[u] # c
      /\ \A i \in 1..Len(pool) : pool[i] # c
  BY <1>1 DEF Held, Listed
<1>6. TypeOK'
  <2>1. sess' \in [Conns -> Session]
    BY <1>1, <1>2, <1>4 DEF TypeOK
  <2>2. err' \in [Conns -> BOOLEAN]
    BY <1>1, <1>2 DEF TypeOK
  <2> QED
    BY <1>1, <1>2, <1>3, <1>4, <2>1, <2>2 DEF TypeOK, States
<1>7. Listed'
  BY <1>1, <1>2, <1>3, <1>4, <1>5 DEF Listed, TypeOK
<1>8. Held'
  BY <1>1, <1>2, <1>3, <1>4, <1>5 DEF Held, Holding, TypeOK
<1>9. Working'
  BY <1>1, <1>2, <1>3, <1>4, <1>5 DEF Working, Job, Kind, TypeOK
<1>10. Sessions'
  BY <1>1, <1>2, <1>3, <1>4, <1>5 DEF Sessions, Live, TypeOK
<1>11. Errors'
  BY <1>1, <1>2, <1>3, <1>4, <1>5 DEF Errors, Live, TypeOK
<1>12. Quiet
  BY <1>1, <1>2, <1>3, <1>4, <1>5 DEF Quiet, Early, Holding, Job, Kind, Held, Working, TypeOK
<1> QED
  BY <1>6, <1>7, <1>8, <1>9, <1>10, <1>11, <1>12 DEF ManagerInv

LEMMA NotConnectedQuiet ==
  ASSUME ManagerInv, NEW t \in Threads, ConnectNew(t), ~up
  PROVE  ManagerInv' /\ Quiet
<1> USE ManagerAssumption
<1>1. /\ TypeOK /\ Listed /\ Held
      /\ Working /\ Sessions /\ Errors
  BY DEF ManagerInv
<1>2. /\ pc[t] = "new"
      /\ tries' = [tries EXCEPT ![t] = IF tries[t] > 1 THEN tries[t] - 1 ELSE 0]
      /\ call' = [call EXCEPT ![t] = IF tries[t] > 1 THEN call[t] ELSE NoCall]
      /\ pc' = [pc EXCEPT ![t] = IF tries[t] > 1 THEN "get" ELSE "idle"]
      /\ UNCHANGED <<defined, pool, made, err, recent, dbname, sess, up, committed, conn, tr, todo, drops, acked, written, broken, wasted>>
  BY <1>1 DEF ConnectNew, TryAgain, Return, TypeOK
<1>3. TypeOK'
  BY <1>1, <1>2 DEF TypeOK, States, Session, Transaction, Kinds, Rows
<1>4. Listed'
  BY <1>1, <1>2 DEF Listed
<1>5. Held'
  BY <1>1, <1>2 DEF Held, Holding, TypeOK
<1>6. Working'
  BY <1>1, <1>2 DEF Working, Job, Kind, TypeOK
<1>7. Sessions'
  BY <1>1, <1>2 DEF Sessions, Live
<1>8. Errors'
  BY <1>1, <1>2 DEF Errors, Live, TypeOK
<1>9. Quiet
  BY <1>1, <1>2 DEF Quiet, Early, Holding, Job, Kind, Held, Working, TypeOK
<1> QED
  BY <1>3, <1>4, <1>5, <1>6, <1>7, <1>8, <1>9 DEF ManagerInv

LEMMA PingedQuiet ==
  ASSUME ManagerInv, NEW t \in Threads, ping(t), Live(conn[t])
  PROVE  ManagerInv' /\ Quiet
<1> USE ManagerAssumption
<1>1. /\ TypeOK /\ Listed /\ Held
      /\ Working /\ Sessions /\ Errors
  BY DEF ManagerInv
<1>2. /\ pc[t] = "ping"
      /\ err' = [err EXCEPT ![conn[t]] = FALSE]
      /\ recent' = recent \cup {conn[t]}
      /\ pc' = [pc EXCEPT ![t] = FirstStep(Kind(t))]
      /\ UNCHANGED <<defined, pool, made, dbname, sess, up, committed, conn, call, tries, tr, todo, drops, acked, written, broken, wasted>>
  BY <1>1 DEF ping, HandOut, TypeOK, object, thread, history
<1>3. FirstStep(Kind(t)) = IF Kind(t) = "trans" THEN "begin" ELSE "run"
  BY DEF FirstStep
<1>4. conn[t] \in Conns /\ Live(conn[t]) /\ wasted[conn[t]] = 0
  BY <1>1, <1>2 DEF Held, Holding, TypeOK, Errors
<1>5. TypeOK'
  BY <1>1, <1>2, <1>3, <1>4 DEF TypeOK, States, Session, Transaction, Kinds, Rows
<1>6. Listed'
  BY <1>1, <1>2 DEF Listed
<1>7. Held'
  BY <1>1, <1>2, <1>3, <1>4 DEF Held, Holding, TypeOK
<1>8. Working'
  BY <1>1, <1>2, <1>3, <1>4 DEF Working, Job, Kind, TypeOK
<1>9. Sessions'
  BY <1>1, <1>2 DEF Sessions, Live
<1>10. Errors'
  BY <1>1, <1>2, <1>3, <1>4 DEF Errors, Live, TypeOK
<1>11. Quiet
  BY <1>1, <1>2, <1>3, <1>4 DEF Quiet, Early, Holding, Job, Kind, Held, Working, TypeOK
<1> QED
  BY <1>5, <1>6, <1>7, <1>8, <1>9, <1>10, <1>11 DEF ManagerInv

LEMMA PingFailsQuiet ==
  ASSUME ManagerInv, NEW t \in Threads, ping(t), ~Live(conn[t])
  PROVE  ManagerInv' /\ Quiet
<1> USE ManagerAssumption
<1>1. /\ TypeOK /\ Listed /\ Held
      /\ Working /\ Sessions /\ Errors
  BY DEF ManagerInv
<1>2. /\ pc[t] = "ping"
      /\ err' = [err EXCEPT ![conn[t]] = TRUE]
      /\ pc' = [pc EXCEPT ![t] = "connect"]
      /\ UNCHANGED <<defined, pool, made, recent, dbname, sess, up, committed, conn, call, tries, tr, todo, drops, acked, written, broken, wasted>>
  BY <1>1 DEF ping, TypeOK, object, thread, history
<1>3. conn[t] \in Conns /\ ~Live(conn[t])
  BY <1>1, <1>2 DEF Held, Holding, TypeOK
<1>4. TypeOK'
  BY <1>1, <1>2, <1>3 DEF TypeOK, States, Session, Transaction, Kinds, Rows
<1>5. Listed'
  BY <1>1, <1>2 DEF Listed
<1>6. Held'
  BY <1>1, <1>2, <1>3 DEF Held, Holding, TypeOK
<1>7. Working'
  BY <1>1, <1>2, <1>3 DEF Working, Job, Kind, TypeOK
<1>8. Sessions'
  BY <1>1, <1>2 DEF Sessions, Live
<1>9. Errors'
  BY <1>1, <1>2, <1>3 DEF Errors, Live, TypeOK
<1>10. Quiet
  BY <1>1, <1>2, <1>3 DEF Quiet, Early, Holding, Job, Kind, Held, Working, TypeOK
<1> QED
  BY <1>4, <1>5, <1>6, <1>7, <1>8, <1>9, <1>10 DEF ManagerInv

LEMMA ReconnectedQuiet ==
  ASSUME ManagerInv, NEW t \in Threads, Reconnect(t), up
  PROVE  ManagerInv' /\ Quiet
<1> USE ManagerAssumption
<1>1. /\ TypeOK /\ Listed /\ Held
      /\ Working /\ Sessions /\ Errors
  BY DEF ManagerInv
<1>2. /\ pc[t] = "connect"
      /\ sess' = [sess EXCEPT ![conn[t]] = NewSession]
      /\ err' = [err EXCEPT ![conn[t]] = FALSE]
      /\ wasted' = [wasted EXCEPT ![conn[t]] = 0]
      /\ recent' = recent \cup {conn[t]}
      /\ pc' = [pc EXCEPT ![t] = FirstStep(Kind(t))]
      /\ UNCHANGED <<defined, pool, made, dbname, up, committed, conn, call, tries, tr, todo, drops, acked, written, broken>>
  BY <1>1 DEF Reconnect, HandOut, TypeOK
<1>3. FirstStep(Kind(t)) = IF Kind(t) = "trans" THEN "begin" ELSE "run"
  BY DEF FirstStep
<1>4. conn[t] \in Conns
  BY <1>1, <1>2 DEF Held, Holding, TypeOK
<1>5. /\ sess'[conn[t]] \in Session /\ Live(conn[t])' /\ ~sess'[conn[t]].tx /\ sess'[conn[t]].work = {}
      /\ \A d \in Conns \ {conn[t]} : sess'[d] = sess[d]
  BY <1>1, <1>2, NewSessions, <1>4 DEF TypeOK, Live
<1>6. \A u \in Threads : pc[u] = "trans" => conn[u] \in Conns \ {conn[t]}
  BY <1>1, <1>2 DEF Held, Holding, TypeOK
<1>7. TypeOK'
  <2>1. sess' \in [Conns -> Session]
    BY <1>1, <1>2, <1>5 DEF TypeOK
  <2>2. err' \in [Conns -> BOOLEAN]
    BY <1>1, <1>2 DEF TypeOK
  <2> QED
    BY <1>1, <1>2, <1>3, <1>4, <2>1, <2>2 DEF TypeOK, States
<1>8. Listed'
  BY <1>1, <1>2 DEF Listed
<1>9. Held'
  BY <1>1, <1>2, <1>3, <1>4, <1>5, <1>6 DEF Held, Holding, TypeOK
<1>10. Working'
  BY <1>1, <1>2, <1>3, <1>4, <1>5, <1>6 DEF Working, Job, Kind, TypeOK
<1>11. Sessions'
  BY <1>1, <1>2, <1>3, <1>4, <1>5, <1>6 DEF Sessions, Live, TypeOK
<1>12. Errors'
  BY <1>1, <1>2, <1>3, <1>4, <1>5, <1>6 DEF Errors, Live, TypeOK
<1>13. Quiet
  BY <1>1, <1>2, <1>3, <1>4, <1>5, <1>6 DEF Quiet, Early, Holding, Job, Kind, Held, Working, TypeOK
<1> QED
  BY <1>7, <1>8, <1>9, <1>10, <1>11, <1>12, <1>13 DEF ManagerInv

LEMMA NotReconnectedQuiet ==
  ASSUME ManagerInv, NEW t \in Threads, Reconnect(t), ~up
  PROVE  ManagerInv' /\ Quiet
<1> USE ManagerAssumption
<1>1. /\ TypeOK /\ Listed /\ Held
      /\ Working /\ Sessions /\ Errors
  BY DEF ManagerInv
<1>2. /\ pc[t] = "connect"
      /\ tries' = [tries EXCEPT ![t] = IF tries[t] > 1 THEN tries[t] - 1 ELSE 0]
      /\ call' = [call EXCEPT ![t] = IF tries[t] > 1 THEN call[t] ELSE NoCall]
      /\ pc' = [pc EXCEPT ![t] = IF tries[t] > 1 THEN "get" ELSE "idle"]
      /\ conn' = [conn EXCEPT ![t] = NoConn]
      /\ UNCHANGED <<defined, pool, made, err, recent, dbname, sess, up, committed, tr, todo, drops, acked, written, broken, wasted>>
  BY <1>1 DEF Reconnect, TryAgain, Return, TypeOK
<1>3. TypeOK'
  BY <1>1, <1>2 DEF TypeOK, States, Session, Transaction, Kinds, Rows
<1>4. Listed'
  BY <1>1, <1>2 DEF Listed
<1>5. Held'
  BY <1>1, <1>2 DEF Held, Holding, TypeOK
<1>6. Working'
  BY <1>1, <1>2 DEF Working, Job, Kind, TypeOK
<1>7. Sessions'
  BY <1>1, <1>2 DEF Sessions, Live
<1>8. Errors'
  BY <1>1, <1>2 DEF Errors, Live, TypeOK
<1>9. Quiet
  BY <1>1, <1>2 DEF Quiet, Early, Holding, Job, Kind, Held, Working, TypeOK
<1> QED
  BY <1>3, <1>4, <1>5, <1>6, <1>7, <1>8, <1>9 DEF ManagerInv

-----------------------------------------------------------------------------
(* Every step keeps ManagerInv. Giving back and deleting are quiet. *)

LEMMA KeptQuiet ==
  ASSUME ManagerInv, NEW t \in Threads, freeMySQL(t), HasRoom
  PROVE  ManagerInv' /\ Quiet
<1> USE ManagerAssumption
<1>1. /\ TypeOK /\ Listed /\ Held
      /\ Working /\ Sessions /\ Errors
  BY DEF ManagerInv
<1>2. /\ pc[t] \in {"free", "retry"}
      /\ Len(pool) < PoolSize
      /\ conn' = [conn EXCEPT ![t] = NoConn]
      /\ tr' = [tr EXCEPT ![t] = NoTransaction]
      /\ pc' = [pc EXCEPT ![t] = IF pc[t] = "retry" /\ tries[t] > 1 THEN "get" ELSE "idle"]
      /\ tries' = [tries EXCEPT ![t] = IF pc[t] = "retry" /\ tries[t] > 1 THEN tries[t] - 1 ELSE 0]
      /\ call' = [call EXCEPT ![t] = IF pc[t] = "retry" /\ tries[t] > 1 THEN call[t] ELSE NoCall]
      /\ pool' = Append(pool, conn[t])
      /\ UNCHANGED <<defined, made, err, recent, dbname, sess, up, committed, todo, drops, acked, written, broken, wasted>>
  BY <1>1 DEF freeMySQL, HasRoom, TryAgain, Return, TypeOK, object, thread, history
<1>3. conn[t] \in Conns
  BY <1>1, <1>2 DEF Held, Holding, TypeOK
<1>4. /\ \A i \in 1..Len(pool') : pool'[i] = conn[t] \/ (i \in 1..Len(pool) /\ pool'[i] = pool[i])
      /\ \A i, k \in 1..Len(pool') : pool'[i] = pool'[k] => i = k
      /\ pool' \in Seq(Conns) /\ Len(pool') <= PoolSize /\ conn[t] \in made
  <2>1. /\ Len(pool) \in Nat /\ Len(pool') = Len(pool) + 1 /\ pool' \in Seq(Conns)
        /\ \A i \in 1..Len(pool') : pool'[i] = IF i = Len(pool) + 1 THEN conn[t] ELSE pool[i]
    BY <1>1, <1>2, <1>3, ListFacts DEF TypeOK
  <2>2. conn[t] \in made /\ \A i \in 1..Len(pool) : pool[i] # conn[t]
    BY <1>1, <1>2 DEF Held, Holding
  <2> QED
    BY <1>1, <1>2, <2>1, <2>2 DEF Listed
<1>5. TypeOK'
  BY <1>1, <1>2, <1>3, <1>4, NewSessions DEF TypeOK, States, Session, Transaction, Kinds, Rows
<1>6. Listed'
  BY <1>1, <1>2, <1>3, <1>4 DEF Listed, TypeOK
<1>7. Held'
  BY <1>1, <1>2, <1>3, <1>4 DEF Held, Holding, TypeOK
<1>8. Working'
  BY <1>1, <1>2, <1>3, <1>4 DEF Working, Job, Kind, TypeOK
<1>9. Sessions'
  BY <1>1, <1>2 DEF Sessions, Live
<1>10. Errors'
  BY <1>1, <1>2, <1>3, <1>4 DEF Errors, Live, TypeOK
<1>11. Quiet
  BY <1>1, <1>2, <1>3, <1>4 DEF Quiet, Early, Holding, Job, Kind, Held, Working, TypeOK
<1> QED
  BY <1>5, <1>6, <1>7, <1>8, <1>9, <1>10, <1>11 DEF ManagerInv

LEMMA DeletedQuiet ==
  ASSUME ManagerInv, NEW t \in Threads, freeMySQL(t), ~HasRoom
  PROVE  ManagerInv' /\ Quiet
<1> USE ManagerAssumption
<1>1. /\ TypeOK /\ Listed /\ Held
      /\ Working /\ Sessions /\ Errors
  BY DEF ManagerInv
<1>2. /\ pc[t] \in {"free", "retry"}
      /\ Delete({conn[t]})
      /\ made' = made \ {conn[t]}
      /\ conn' = [conn EXCEPT ![t] = NoConn]
      /\ tr' = [tr EXCEPT ![t] = NoTransaction]
      /\ pc' = [pc EXCEPT ![t] = IF pc[t] = "retry" /\ tries[t] > 1 THEN "get" ELSE "idle"]
      /\ tries' = [tries EXCEPT ![t] = IF pc[t] = "retry" /\ tries[t] > 1 THEN tries[t] - 1 ELSE 0]
      /\ call' = [call EXCEPT ![t] = IF pc[t] = "retry" /\ tries[t] > 1 THEN call[t] ELSE NoCall]
      /\ recent' = recent \ {conn[t]}
      /\ UNCHANGED <<defined, pool, up, committed, todo, drops, acked, written, broken>>
  BY <1>1 DEF freeMySQL, HasRoom, Delete, TryAgain, Return, TypeOK, object, thread, history
<1>3. conn[t] \in Conns
  BY <1>1, <1>2 DEF Held, Holding, TypeOK
<1>4. \A d \in Conns :
        /\ d \in {conn[t]} => sess'[d] = NoSession /\ ~err'[d] /\ dbname'[d] = NoDb /\ wasted'[d] = 0
        /\ d \notin {conn[t]} => /\ sess'[d] = sess[d] /\ err'[d] = err[d]
                       /\ dbname'[d] = dbname[d] /\ wasted'[d] = wasted[d]
  <2>1. \A d \in Conns : sess'[d] = IF d \in {conn[t]} THEN NoSession ELSE sess[d]
    BY <1>2 DEF Delete
  <2>2. \A d \in Conns : err'[d] = (d \notin {conn[t]} /\ err[d])
    BY <1>2 DEF Delete
  <2>3. \A d \in Conns : err[d] \in BOOLEAN
    BY <1>1 DEF TypeOK
  <2>4. \A d \in Conns : /\ dbname'[d] = IF d \in {conn[t]} THEN NoDb ELSE dbname[d]
                        /\ wasted'[d] = IF d \in {conn[t]} THEN 0 ELSE wasted[d]
    BY <1>2 DEF Delete
  <2> QED
    BY <2>1, <2>2, <2>3, <2>4
<1>5. /\ conn[t] \in made /\ \A i \in 1..Len(pool) : pool[i] # conn[t]
      /\ \A u \in Threads : pc[u] \in {"run", "begin", "trans"} => conn[u] \in Conns
  BY <1>1, <1>2 DEF Held, Holding, TypeOK
<1>6. TypeOK'
  <2>1. sess' \in [Conns -> Session]
    BY <1>1, <1>2, <1>4, NewSessions DEF Delete, TypeOK
  <2>2. err' \in [Conns -> BOOLEAN]
    BY <1>1, <1>2 DEF Delete, TypeOK
  <2>3. dbname' \in [Conns -> Databases \cup {NoDb}] /\ wasted' \in [Conns -> Nat] /\ made' \subseteq Conns
    BY <1>1, <1>2 DEF Delete, TypeOK
  <2> QED
    BY <1>1, <1>2, <1>3, <1>4, <2>1, <2>2, <2>3, NewSessions DEF TypeOK, States
<1>7. Listed'
  BY <1>1, <1>2, <1>3, <1>4, <1>5 DEF Listed, TypeOK
<1>8. Held'
  BY <1>1, <1>2, <1>3, <1>4, <1>5 DEF Held, Holding, TypeOK
<1>9. Working'
  BY <1>1, <1>2, <1>3, <1>4, <1>5 DEF Working, Job, Kind, TypeOK
<1>10. Sessions'
  <2>1. \A d \in Conns : sess'[d] = NoSession \/ sess'[d] = sess[d]
    BY <1>4
  <2> QED
    BY <1>1, <2>1, NewSessions DEF Sessions, Live
<1>11. Errors'
  BY <1>1, <1>2, <1>3, <1>4, <1>5, NewSessions DEF Errors, Live, TypeOK, Holding
<1>12. Quiet
  <2>1. \A d \in Conns : sess'[d] = NoSession \/ sess'[d] = sess[d]
    BY <1>4
  <2>2. \A u \in Threads : pc[u] = "trans" => sess'[conn[u]] = sess[conn[u]]
    <3> SUFFICES ASSUME NEW u \in Threads, pc[u] = "trans" PROVE sess'[conn[u]] = sess[conn[u]]
      OBVIOUS
    <3>1. conn[u] \in Conns /\ pc[u] \in Holding
      BY <1>1 DEF Held, Holding, TypeOK
    <3>2. conn[u] # conn[t]
      BY <1>1, <1>2, <3>1, <1>3 DEF Held, Holding
    <3> QED
      BY <1>4, <3>1, <3>2
  <2>3. \A c \in Conns : sess'[c].tx => sess[c].tx
    BY <2>1, NewSessions
  <2>4. \A u \in Threads : /\ pc'[u] = "trans" <=> pc[u] = "trans"
                           /\ pc[u] = "trans" =>
                                conn'[u] = conn[u] /\ tr'[u] = tr[u] /\ call'[u] = call[u]
    BY <1>1, <1>2 DEF TypeOK
  <2>5. \A u \in Threads : pc'[u] # "idle" => pc[u] # "idle" /\ call'[u] = call[u]
    BY <1>1, <1>2 DEF TypeOK
  <2>6. \A u \in Threads : pc'[u] \in Early /\ call'[u][2] = "trans" => pc[u] \in Early /\ call'[u] = call[u]
    BY <1>1, <1>2, <2>5 DEF TypeOK, Early, Working, Kind
  <2>7. UNCHANGED <<committed, acked, written, broken, todo>>
    BY <1>2
  <2> QED
    BY <2>2, <2>3, <2>4, <2>5, <2>6, <2>7 DEF Quiet
<1> QED
  BY <1>6, <1>7, <1>8, <1>9, <1>10, <1>11, <1>12 DEF ManagerInv

LEMMA CheckedQuiet ==
  ASSUME ManagerInv, NEW S \in SUBSET ToSet(pool), NEW keep \in [1..Cardinality(Kept(S)) -> Kept(S)],
         \A i, k \in DOMAIN keep : i < k => keep[i] < keep[k],
         pool' = [i \in DOMAIN keep |-> pool[keep[i]]], Delete(S),
         UNCHANGED <<defined, recent, up, committed, thread, drops, acked, written, broken>>
  PROVE  ManagerInv' /\ Quiet
<1> USE ManagerAssumption
<1>1. /\ TypeOK /\ Listed /\ Held
      /\ Working /\ Sessions /\ Errors
  BY DEF ManagerInv
<1>2. /\ Delete(S) /\ made' = made \ S
      /\ pool' = [i \in DOMAIN keep |-> pool[keep[i]]]
      /\ UNCHANGED <<defined, recent, up, committed, pc, conn, call, tries, tr, todo, drops, acked, written, broken>>
  BY <1>1 DEF Delete, object, thread, history
<1>3. \A d \in Conns :
        /\ d \in S => sess'[d] = NoSession /\ ~err'[d] /\ dbname'[d] = NoDb /\ wasted'[d] = 0
        /\ d \notin S => /\ sess'[d] = sess[d] /\ err'[d] = err[d]
                       /\ dbname'[d] = dbname[d] /\ wasted'[d] = wasted[d]
  <2>1. \A d \in Conns : sess'[d] = IF d \in S THEN NoSession ELSE sess[d]
    BY <1>2 DEF Delete
  <2>2. \A d \in Conns : err'[d] = (d \notin S /\ err[d])
    BY <1>2 DEF Delete
  <2>3. \A d \in Conns : err[d] \in BOOLEAN
    BY <1>1 DEF TypeOK
  <2>4. \A d \in Conns : /\ dbname'[d] = IF d \in S THEN NoDb ELSE dbname[d]
                        /\ wasted'[d] = IF d \in S THEN 0 ELSE wasted[d]
    BY <1>2 DEF Delete
  <2> QED
    BY <2>1, <2>2, <2>3, <2>4
<1>4. \A c \in S : \E i \in 1..Len(pool) : pool[i] = c
  BY <1>1 DEF ToSet, TypeOK
<1>5. /\ pool' \in Seq(Conns) /\ Len(pool') <= PoolSize
      /\ \A i \in 1..Len(pool') : pool'[i] \in made'
      /\ \A i, k \in 1..Len(pool') : pool'[i] = pool'[k] => i = k
      /\ \A i \in 1..Len(pool') : \E k \in 1..Len(pool) : pool'[i] = pool[k]
  <2>1. /\ Len(pool) \in Nat /\ Kept(S) \subseteq 1..Len(pool)
        /\ IsFiniteSet(1..Len(pool)) /\ Cardinality(1..Len(pool)) = Len(pool)
    <3>1. Len(pool) \in Int /\ Len(pool) >= 0 /\ Len(pool) - 1 + 1 = Len(pool) /\ 1 \in Int
      BY <1>1 DEF TypeOK
    <3>2. Kept(S) \subseteq 1..Len(pool)
      BY DEF Kept
    <3>3. IsFiniteSet(1..Len(pool)) /\ Cardinality(1..Len(pool)) = IF 1 > Len(pool) THEN 0 ELSE Len(pool) - 1 + 1
      BY <3>1, FS_Interval
    <3> QED
      BY <3>1, <3>2, <3>3
  <2>2. Cardinality(Kept(S)) \in Nat /\ Cardinality(Kept(S)) <= Len(pool)
    BY <2>1, FS_Subset, FS_CardinalityType
  <2> DEFINE n == Cardinality(Kept(S))
  <2>3. n \in Nat /\ DOMAIN keep = 1..n /\ \A i \in 1..n : keep[i] \in Kept(S)
    BY <2>2
  <2>4. \A i \in 1..n : keep[i] \in 1..Len(pool) /\ pool[keep[i]] \in made \ S
    BY <1>1, <2>3 DEF Kept, Listed
  <2>5. \A i \in 1..n : pool[keep[i]] \in Conns
    BY <1>1, <2>4 DEF TypeOK
  <2> HIDE DEF n
  <2>6. pool' = [i \in 1..n |-> pool[keep[i]]]
    BY <1>2, <2>3
  <2>7. pool' \in Seq(Conns) /\ Len(pool') = n
    BY <2>3, <2>5, <2>6
  <2>8. \A i \in 1..Len(pool') : pool'[i] = pool[keep[i]]
    BY <2>6, <2>7
  <2>9. \A i, k \in 1..n : keep[i] = keep[k] => i = k
    <3> SUFFICES ASSUME NEW i \in 1..n, NEW k \in 1..n, keep[i] = keep[k] PROVE i = k
      OBVIOUS
    <3>1. keep[i] \in Nat /\ i \in Nat /\ k \in Nat
      BY <2>1, <2>3, <2>4
    <3> QED
      BY <2>3, <3>1
  <2>10. Len(pool') <= PoolSize
    <3>1. n <= Len(pool)
      BY <2>2 DEF n
    <3> QED
      BY <1>1, <2>1, <2>3, <2>7, <3>1 DEF Listed
  <2>11. made' = made \ S
    BY <1>2
  <2>12. \A i \in 1..Len(pool') : pool'[i] \in made'
    BY <2>4, <2>7, <2>8, <2>11
  <2>13. \A i, k \in 1..Len(pool') : pool'[i] = pool'[k] => i = k
    <3> SUFFICES ASSUME NEW i \in 1..n, NEW k \in 1..n, pool'[i] = pool'[k] PROVE i = k
      BY <2>7
    <3>1. pool[keep[i]] = pool[keep[k]]
      BY <2>7, <2>8
    <3>2. keep[i] = keep[k]
      BY <1>1, <2>4, <3>1 DEF Listed
    <3> QED
      BY <2>9, <3>2
  <2>14. \A i \in 1..Len(pool') : \E k \in 1..Len(pool) : pool'[i] = pool[k]
    <3> SUFFICES ASSUME NEW i \in 1..n PROVE \E k \in 1..Len(pool) : pool'[i] = pool[k]
      BY <2>7
    <3>1. keep[i] \in 1..Len(pool)
      BY <2>4
    <3> WITNESS keep[i] \in 1..Len(pool)
    <3> QED
      BY <2>7, <2>8
  <2> QED
    BY <2>7, <2>10, <2>12, <2>13, <2>14
<1>6. \A u \in Threads : pc[u] \in Holding => conn[u] \in made' /\ conn[u] \in Conns
  BY <1>1, <1>2, <1>4 DEF Held, TypeOK
<1>7. TypeOK'
  <2>1. sess' \in [Conns -> Session]
    BY <1>1, <1>2, <1>3, NewSessions DEF Delete, TypeOK
  <2>2. err' \in [Conns -> BOOLEAN]
    BY <1>1, <1>2 DEF Delete, TypeOK
  <2>3. dbname' \in [Conns -> Databases \cup {NoDb}] /\ wasted' \in [Conns -> Nat] /\ made' \subseteq Conns
    BY <1>1, <1>2 DEF Delete, TypeOK
  <2> QED
    BY <1>1, <1>2, <1>5, <2>1, <2>2, <2>3, NewSessions DEF TypeOK, States
<1>8. Listed'
  BY <1>1, <1>2, <1>3, <1>4, <1>5, <1>6 DEF Listed, TypeOK
<1>9. Held'
  <2>1. pc' = pc /\ conn' = conn
    BY <1>2
  <2>2. \A t \in Threads : IF pc[t] \in Holding THEN conn[t] \in made' ELSE conn[t] = NoConn
    BY <1>1, <1>6 DEF Held
  <2>3. \A t \in Threads : \A i \in 1..Len(pool') : pool'[i] # conn[t]
    <3> SUFFICES ASSUME NEW t \in Threads, NEW i \in 1..Len(pool') PROVE pool'[i] # conn[t]
      OBVIOUS
    <3>1. PICK k \in 1..Len(pool) : pool'[i] = pool[k]
      BY <1>5
    <3> QED
      BY <1>1, <3>1 DEF Held
  <2> QED
    BY <1>1, <2>1, <2>2, <2>3 DEF Held
<1>10. Working'
  BY <1>1, <1>2 DEF Working, Job, Kind
<1>11. Sessions'
  <2>1. \A d \in Conns : sess'[d] = NoSession \/ sess'[d] = sess[d]
    BY <1>3
  <2> QED
    BY <1>1, <2>1, NewSessions DEF Sessions, Live
<1>12. Errors'
  BY <1>1, <1>2, <1>3, <1>4, <1>5, <1>6, NewSessions DEF Errors, Live, TypeOK, Holding
<1>13. Quiet
  <2>1. \A d \in Conns : sess'[d] = NoSession \/ sess'[d] = sess[d]
    BY <1>3
  <2>2. \A u \in Threads : pc[u] = "trans" => sess'[conn[u]] = sess[conn[u]]
    <3> SUFFICES ASSUME NEW u \in Threads, pc[u] = "trans" PROVE sess'[conn[u]] = sess[conn[u]]
      OBVIOUS
    <3>1. conn[u] \in Conns /\ pc[u] \in Holding
      BY <1>1 DEF Held, Holding, TypeOK
    <3>2. conn[u] \notin S
      BY <1>1, <1>2, <3>1, <1>4 DEF Held, Holding
    <3> QED
      BY <1>3, <3>1, <3>2
  <2>3. \A c \in Conns : sess'[c].tx => sess[c].tx
    BY <2>1, NewSessions
  <2>4. \A u \in Threads : /\ pc'[u] = "trans" <=> pc[u] = "trans"
                           /\ pc[u] = "trans" =>
                                conn'[u] = conn[u] /\ tr'[u] = tr[u] /\ call'[u] = call[u]
    BY <1>1, <1>2 DEF TypeOK
  <2>5. \A u \in Threads : pc'[u] # "idle" => pc[u] # "idle" /\ call'[u] = call[u]
    BY <1>1, <1>2 DEF TypeOK
  <2>6. \A u \in Threads : pc'[u] \in Early /\ call'[u][2] = "trans" => pc[u] \in Early /\ call'[u] = call[u]
    BY <1>1, <1>2, <2>5 DEF TypeOK, Early, Working, Kind
  <2>7. UNCHANGED <<committed, acked, written, broken, todo>>
    BY <1>2
  <2> QED
    BY <2>2, <2>3, <2>4, <2>5, <2>6, <2>7 DEF Quiet
<1> QED
  BY <1>7, <1>8, <1>9, <1>10, <1>11, <1>12, <1>13 DEF ManagerInv

-----------------------------------------------------------------------------
(* Every step keeps ManagerInv: commands. *)

LEMMA ExecutedManager ==
  ASSUME ManagerInv, NEW t \in Threads, Execute(t), pc'[t] = "free"
  PROVE  ManagerInv'
<1> USE ManagerAssumption
<1>1. /\ TypeOK /\ Listed /\ Held
      /\ Working /\ Sessions /\ Errors
  BY DEF ManagerInv
<1>2. /\ pc[t] = "run"
      /\ Live(conn[t])
      /\ sess' = IF sess[conn[t]].tx
               THEN [sess EXCEPT ![conn[t]].work = sess[conn[t]].work \cup {<<Job(t), 1>>}] ELSE sess
      /\ committed' = IF sess[conn[t]].tx THEN committed ELSE committed \cup {<<Job(t), 1>>}
      /\ acked' = acked \cup {<<Job(t), 1>>}
      /\ err' = [err EXCEPT ![conn[t]] = FALSE]
      /\ pc' = [pc EXCEPT ![t] = "free"]
      /\ UNCHANGED <<defined, pool, made, recent, dbname, up, conn, call, tries, tr, todo, drops, written, broken, wasted>>
  BY <1>1 DEF Execute, Store, TypeOK, object, thread, history
<1>3. /\ conn[t] \in Conns
      /\ \A u \in Threads \ {t} : pc[u] \in {"run", "begin", "trans"} => conn[u] \in Conns /\ conn[u] # conn[t]
  <2>1. conn[t] \in Conns /\ pc[t] \in Holding
    BY <1>1, <1>2 DEF Held, Holding, TypeOK
  <2> QED
    BY <1>1, <2>1 DEF Held, Holding, TypeOK
<1>4. /\ <<Job(t), 1>> \in Rows /\ sess' \in [Conns -> Session]
      /\ \A d \in Conns : /\ sess'[d].state = sess[d].state /\ sess'[d].tx = sess[d].tx
                          /\ ~sess[d].tx => sess'[d].work = sess[d].work
  <2>1. <<Job(t), 1>> \in Rows
    BY <1>1, <1>2 DEF Working, Job, Rows
  <2>2. CASE sess[conn[t]].tx
    <3>1. sess[conn[t]] \in Session
      BY <1>1, <1>3 DEF TypeOK
    <3> DEFINE s == [sess[conn[t]] EXCEPT !.work = sess[conn[t]].work \cup {<<Job(t), 1>>}]
    <3>2. s \in Session /\ s.state = sess[conn[t]].state /\ s.tx = sess[conn[t]].tx
      BY <2>1, <3>1 DEF Session
    <3>3. sess' = [sess EXCEPT ![conn[t]] = s]
      BY <1>2, <2>2
    <3> HIDE DEF s
    <3> QED
      BY <1>1, <1>3, <2>1, <2>2, <3>2, <3>3 DEF TypeOK
  <2>3. CASE ~sess[conn[t]].tx
    BY <1>1, <1>2, <2>1, <2>3 DEF TypeOK
  <2> QED
    BY <2>2, <2>3
<1>5. err'[conn[t]] = FALSE /\ \A d \in Conns \ {conn[t]} : err'[d] = err[d]
  BY <1>1, <1>2, <1>3 DEF TypeOK
<1>6. TypeOK'
  BY <1>1, <1>2, <1>3, <1>4, <1>5 DEF TypeOK, States, Session, Transaction, Kinds, Rows
<1>7. Listed'
  BY <1>1, <1>2 DEF Listed
<1>8. Held'
  BY <1>1, <1>2, <1>3, <1>4, <1>5 DEF Held, Holding, TypeOK
<1>9. Working'
  BY <1>1, <1>2, <1>3, <1>4, <1>5 DEF Working, Job, Kind, TypeOK
<1>10. Sessions'
  BY <1>1, <1>2, <1>3, <1>4, <1>5 DEF Sessions, Live, TypeOK
<1>11. Errors'
  BY <1>1, <1>2, <1>3, <1>4, <1>5 DEF Errors, Live, TypeOK
<1> QED
  BY <1>6, <1>7, <1>8, <1>9, <1>10, <1>11 DEF ManagerInv

LEMMA ExecuteFailsQuiet ==
  ASSUME ManagerInv, NEW t \in Threads, Execute(t), pc'[t] # "free"
  PROVE  ManagerInv' /\ Quiet
<1> USE ManagerAssumption
<1>1. /\ TypeOK /\ Listed /\ Held
      /\ Working /\ Sessions /\ Errors
  BY DEF ManagerInv
<1>2. /\ pc[t] = "run"
      /\ err' = [err EXCEPT ![conn[t]] = TRUE]
      /\ wasted' = [wasted EXCEPT ![conn[t]] =
                      IF TRUE /\ ~Live(conn[t]) THEN wasted[conn[t]] + 1 ELSE wasted[conn[t]]]
      /\ pc' = [pc EXCEPT ![t] = "retry"]
      /\ UNCHANGED <<defined, pool, made, recent, dbname, sess, up, committed, conn, call, tries, tr, todo, drops, acked, written, broken>>
  BY <1>1 DEF Execute, CommandFails, TypeOK, object, thread, history
<1>3. /\ conn[t] \in Conns
      /\ \A u \in Threads \ {t} : pc[u] \in {"run", "begin", "trans"} => conn[u] \in Conns /\ conn[u] # conn[t]
  <2>1. conn[t] \in Conns /\ pc[t] \in Holding
    BY <1>1, <1>2 DEF Held, Holding, TypeOK
  <2> QED
    BY <1>1, <2>1 DEF Held, Holding, TypeOK
<1>4. /\ wasted' \in [Conns -> Nat] /\ err' \in [Conns -> BOOLEAN] /\ err'[conn[t]]
      /\ \A d \in Conns \ {conn[t]} : err'[d] = err[d] /\ wasted'[d] = wasted[d]
      /\ wasted'[conn[t]] <= 1 /\ (wasted'[conn[t]] # 0 => ~Live(conn[t]))
  <2>1. wasted[conn[t]] \in {0, 1} /\ wasted[conn[t]] \in Nat /\ (wasted[conn[t]] # 0 => ~Live(conn[t]))
    BY <1>1, <1>2, <1>3 DEF Errors, TypeOK
  <2>2. TRUE => wasted[conn[t]] = 0
    BY <1>1, <1>2, <1>3 DEF Errors
  <2>3. wasted' \in [Conns -> Nat] /\ err' \in [Conns -> BOOLEAN] /\ err'[conn[t]]
    BY <1>1, <1>2, <1>3, <2>1 DEF TypeOK
  <2>4. \A d \in Conns \ {conn[t]} : err'[d] = err[d] /\ wasted'[d] = wasted[d]
    BY <1>1, <1>2, <1>3 DEF TypeOK
  <2>5. wasted'[conn[t]] = IF TRUE /\ ~Live(conn[t]) THEN wasted[conn[t]] + 1 ELSE wasted[conn[t]]
    BY <1>1, <1>2, <1>3 DEF TypeOK
  <2> QED
    BY <2>1, <2>2, <2>3, <2>4, <2>5
<1>5. TypeOK'
  BY <1>1, <1>2, <1>3, <1>4 DEF TypeOK, States, Session, Transaction, Kinds, Rows
<1>6. Listed'
  BY <1>1, <1>2 DEF Listed
<1>7. Held'
  BY <1>1, <1>2, <1>3, <1>4 DEF Held, Holding, TypeOK
<1>8. Working'
  BY <1>1, <1>2, <1>3, <1>4 DEF Working, Job, Kind, TypeOK
<1>9. Sessions'
  BY <1>1, <1>2 DEF Sessions, Live
<1>10. Errors'
  BY <1>1, <1>2, <1>3, <1>4 DEF Errors, Live, TypeOK
<1>11. Quiet
  BY <1>1, <1>2, <1>3, <1>4 DEF Quiet, Early, Holding, Job, Kind, Held, Working, TypeOK
<1> QED
  BY <1>5, <1>6, <1>7, <1>8, <1>9, <1>10, <1>11 DEF ManagerInv

LEMMA QueriedQuiet ==
  ASSUME ManagerInv, NEW t \in Threads, Query(t), pc'[t] = "free"
  PROVE  ManagerInv' /\ Quiet
<1> USE ManagerAssumption
<1>1. /\ TypeOK /\ Listed /\ Held
      /\ Working /\ Sessions /\ Errors
  BY DEF ManagerInv
<1>2. /\ pc[t] = "run"
      /\ Live(conn[t])
      /\ err' = [err EXCEPT ![conn[t]] = FALSE]
      /\ pc' = [pc EXCEPT ![t] = "free"]
      /\ UNCHANGED <<defined, pool, made, recent, dbname, sess, up, committed, conn, call, tries, tr, todo, drops, acked, written, broken, wasted>>
  BY <1>1 DEF Query, HasResult, TypeOK, object, thread, history
<1>3. /\ conn[t] \in Conns
      /\ \A u \in Threads \ {t} : pc[u] \in {"run", "begin", "trans"} => conn[u] \in Conns /\ conn[u] # conn[t]
  <2>1. conn[t] \in Conns /\ pc[t] \in Holding
    BY <1>1, <1>2 DEF Held, Holding, TypeOK
  <2> QED
    BY <1>1, <2>1 DEF Held, Holding, TypeOK
<1>4. err'[conn[t]] = FALSE /\ \A d \in Conns \ {conn[t]} : err'[d] = err[d]
  BY <1>1, <1>2, <1>3 DEF TypeOK
<1>5. TypeOK'
  BY <1>1, <1>2, <1>3, <1>4 DEF TypeOK, States, Session, Transaction, Kinds, Rows
<1>6. Listed'
  BY <1>1, <1>2 DEF Listed
<1>7. Held'
  BY <1>1, <1>2, <1>3, <1>4 DEF Held, Holding, TypeOK
<1>8. Working'
  BY <1>1, <1>2, <1>3, <1>4 DEF Working, Job, Kind, TypeOK
<1>9. Sessions'
  BY <1>1, <1>2 DEF Sessions, Live
<1>10. Errors'
  BY <1>1, <1>2, <1>3, <1>4 DEF Errors, Live, TypeOK
<1>11. Quiet
  BY <1>1, <1>2, <1>3, <1>4 DEF Quiet, Early, Holding, Job, Kind, Held, Working, TypeOK
<1> QED
  BY <1>5, <1>6, <1>7, <1>8, <1>9, <1>10, <1>11 DEF ManagerInv

LEMMA QueryFailsQuiet ==
  ASSUME ManagerInv, NEW t \in Threads, Query(t), pc'[t] # "free"
  PROVE  ManagerInv' /\ Quiet
<1> USE ManagerAssumption
<1>1. /\ TypeOK /\ Listed /\ Held
      /\ Working /\ Sessions /\ Errors
  BY DEF ManagerInv
<1>2. /\ pc[t] = "run"
      /\ err' = [err EXCEPT ![conn[t]] = TRUE]
      /\ wasted' = [wasted EXCEPT ![conn[t]] =
                      IF TRUE /\ ~Live(conn[t]) THEN wasted[conn[t]] + 1 ELSE wasted[conn[t]]]
      /\ pc' = [pc EXCEPT ![t] = "retry"]
      /\ UNCHANGED <<defined, pool, made, recent, dbname, sess, up, committed, conn, call, tries, tr, todo, drops, acked, written, broken>>
  BY <1>1 DEF Query, CommandFails, TypeOK, object, thread, history
<1>3. /\ conn[t] \in Conns
      /\ \A u \in Threads \ {t} : pc[u] \in {"run", "begin", "trans"} => conn[u] \in Conns /\ conn[u] # conn[t]
  <2>1. conn[t] \in Conns /\ pc[t] \in Holding
    BY <1>1, <1>2 DEF Held, Holding, TypeOK
  <2> QED
    BY <1>1, <2>1 DEF Held, Holding, TypeOK
<1>4. /\ wasted' \in [Conns -> Nat] /\ err' \in [Conns -> BOOLEAN] /\ err'[conn[t]]
      /\ \A d \in Conns \ {conn[t]} : err'[d] = err[d] /\ wasted'[d] = wasted[d]
      /\ wasted'[conn[t]] <= 1 /\ (wasted'[conn[t]] # 0 => ~Live(conn[t]))
  <2>1. wasted[conn[t]] \in {0, 1} /\ wasted[conn[t]] \in Nat /\ (wasted[conn[t]] # 0 => ~Live(conn[t]))
    BY <1>1, <1>2, <1>3 DEF Errors, TypeOK
  <2>2. TRUE => wasted[conn[t]] = 0
    BY <1>1, <1>2, <1>3 DEF Errors
  <2>3. wasted' \in [Conns -> Nat] /\ err' \in [Conns -> BOOLEAN] /\ err'[conn[t]]
    BY <1>1, <1>2, <1>3, <2>1 DEF TypeOK
  <2>4. \A d \in Conns \ {conn[t]} : err'[d] = err[d] /\ wasted'[d] = wasted[d]
    BY <1>1, <1>2, <1>3 DEF TypeOK
  <2>5. wasted'[conn[t]] = IF TRUE /\ ~Live(conn[t]) THEN wasted[conn[t]] + 1 ELSE wasted[conn[t]]
    BY <1>1, <1>2, <1>3 DEF TypeOK
  <2> QED
    BY <2>1, <2>2, <2>3, <2>4, <2>5
<1>5. TypeOK'
  BY <1>1, <1>2, <1>3, <1>4 DEF TypeOK, States, Session, Transaction, Kinds, Rows
<1>6. Listed'
  BY <1>1, <1>2 DEF Listed
<1>7. Held'
  BY <1>1, <1>2, <1>3, <1>4 DEF Held, Holding, TypeOK
<1>8. Working'
  BY <1>1, <1>2, <1>3, <1>4 DEF Working, Job, Kind, TypeOK
<1>9. Sessions'
  BY <1>1, <1>2 DEF Sessions, Live
<1>10. Errors'
  BY <1>1, <1>2, <1>3, <1>4 DEF Errors, Live, TypeOK
<1>11. Quiet
  BY <1>1, <1>2, <1>3, <1>4 DEF Quiet, Early, Holding, Job, Kind, Held, Working, TypeOK
<1> QED
  BY <1>5, <1>6, <1>7, <1>8, <1>9, <1>10, <1>11 DEF ManagerInv

LEMMA StatementManager ==
  ASSUME ManagerInv, NEW t \in Threads, Statement(t), Store(conn[t], <<Job(t), 1>>),
         acked' = acked \cup {<<Job(t), 1>>}
  PROVE  ManagerInv'
<1> USE ManagerAssumption
<1>1. /\ TypeOK /\ Listed /\ Held
      /\ Working /\ Sessions /\ Errors
  BY DEF ManagerInv
<1>2. /\ pc[t] = "run"
      /\ sess' = IF sess[conn[t]].tx
               THEN [sess EXCEPT ![conn[t]].work = sess[conn[t]].work \cup {<<Job(t), 1>>}] ELSE sess
      /\ committed' = IF sess[conn[t]].tx THEN committed ELSE committed \cup {<<Job(t), 1>>}
      /\ acked' = acked \cup {<<Job(t), 1>>}
      /\ pc' = [pc EXCEPT ![t] = "free"]
      /\ UNCHANGED <<defined, pool, made, err, recent, dbname, up, conn, call, tries, tr, todo, drops, written, broken, wasted>>
  BY <1>1 DEF Statement, Store, object, thread, history
<1>3. /\ conn[t] \in Conns
      /\ \A u \in Threads \ {t} : pc[u] \in {"run", "begin", "trans"} => conn[u] \in Conns /\ conn[u] # conn[t]
  <2>1. conn[t] \in Conns /\ pc[t] \in Holding
    BY <1>1, <1>2 DEF Held, Holding, TypeOK
  <2> QED
    BY <1>1, <2>1 DEF Held, Holding, TypeOK
<1>4. /\ <<Job(t), 1>> \in Rows /\ sess' \in [Conns -> Session]
      /\ \A d \in Conns : /\ sess'[d].state = sess[d].state /\ sess'[d].tx = sess[d].tx
                          /\ ~sess[d].tx => sess'[d].work = sess[d].work
  <2>1. <<Job(t), 1>> \in Rows
    BY <1>1, <1>2 DEF Working, Job, Rows
  <2>2. CASE sess[conn[t]].tx
    <3>1. sess[conn[t]] \in Session
      BY <1>1, <1>3 DEF TypeOK
    <3> DEFINE s == [sess[conn[t]] EXCEPT !.work = sess[conn[t]].work \cup {<<Job(t), 1>>}]
    <3>2. s \in Session /\ s.state = sess[conn[t]].state /\ s.tx = sess[conn[t]].tx
      BY <2>1, <3>1 DEF Session
    <3>3. sess' = [sess EXCEPT ![conn[t]] = s]
      BY <1>2, <2>2
    <3> HIDE DEF s
    <3> QED
      BY <1>1, <1>3, <2>1, <2>2, <3>2, <3>3 DEF TypeOK
  <2>3. CASE ~sess[conn[t]].tx
    BY <1>1, <1>2, <2>1, <2>3 DEF TypeOK
  <2> QED
    BY <2>2, <2>3
<1>5. TypeOK'
  BY <1>1, <1>2, <1>3, <1>4 DEF TypeOK, States, Session, Transaction, Kinds, Rows
<1>6. Listed'
  BY <1>1, <1>2 DEF Listed
<1>7. Held'
  BY <1>1, <1>2, <1>3, <1>4 DEF Held, Holding, TypeOK
<1>8. Working'
  BY <1>1, <1>2, <1>3, <1>4 DEF Working, Job, Kind, TypeOK
<1>9. Sessions'
  BY <1>1, <1>2, <1>3, <1>4 DEF Sessions, Live, TypeOK
<1>10. Errors'
  BY <1>1, <1>2, <1>3, <1>4 DEF Errors, Live, TypeOK
<1> QED
  BY <1>5, <1>6, <1>7, <1>8, <1>9, <1>10 DEF ManagerInv

LEMMA NoRowQuiet ==
  ASSUME ManagerInv, NEW t \in Threads, Statement(t), UNCHANGED <<sess, committed, acked>>
  PROVE  ManagerInv' /\ Quiet
<1> USE ManagerAssumption
<1>1. /\ TypeOK /\ Listed /\ Held
      /\ Working /\ Sessions /\ Errors
  BY DEF ManagerInv
<1>2. /\ pc[t] = "run"
      /\ pc' = [pc EXCEPT ![t] = "free"]
      /\ UNCHANGED <<defined, pool, made, err, recent, dbname, sess, up, committed, conn, call, tries, tr, todo, drops, acked, written, broken, wasted>>
  BY <1>1 DEF Statement, object, thread, history
<1>3. TypeOK'
  BY <1>1, <1>2 DEF TypeOK, States, Session, Transaction, Kinds, Rows
<1>4. Listed'
  BY <1>1, <1>2 DEF Listed
<1>5. Held'
  BY <1>1, <1>2 DEF Held, Holding, TypeOK
<1>6. Working'
  BY <1>1, <1>2 DEF Working, Job, Kind, TypeOK
<1>7. Sessions'
  BY <1>1, <1>2 DEF Sessions, Live
<1>8. Errors'
  BY <1>1, <1>2 DEF Errors, Live, TypeOK
<1>9. Quiet
  BY <1>1, <1>2 DEF Quiet, Early, Holding, Job, Kind, Held, Working, TypeOK
<1> QED
  BY <1>3, <1>4, <1>5, <1>6, <1>7, <1>8, <1>9 DEF ManagerInv

LEMMA UsedQuiet ==
  ASSUME ManagerInv, NEW t \in Threads, NEW d \in Databases, use(t, d), Live(conn[t])
  PROVE  ManagerInv' /\ Quiet
<1> USE ManagerAssumption
<1>1. /\ TypeOK /\ Listed /\ Held
      /\ Working /\ Sessions /\ Errors
  BY DEF ManagerInv
<1>2. /\ pc[t] = "run"
      /\ sess' = [sess EXCEPT ![conn[t]].db = d]
      /\ dbname' = [dbname EXCEPT ![conn[t]] = d]
      /\ err' = [err EXCEPT ![conn[t]] = FALSE]
      /\ UNCHANGED <<defined, pool, made, recent, up, committed, pc, conn, call, tries, tr, todo, drops, acked, written, broken, wasted>>
  BY <1>1 DEF use, object, thread, history
<1>3. /\ conn[t] \in Conns
      /\ \A u \in Threads \ {t} : pc[u] \in {"run", "begin", "trans"} => conn[u] \in Conns /\ conn[u] # conn[t]
  <2>1. conn[t] \in Conns /\ pc[t] \in Holding
    BY <1>1, <1>2 DEF Held, Holding, TypeOK
  <2> QED
    BY <1>1, <2>1 DEF Held, Holding, TypeOK
<1>4. sess' \in [Conns -> Session] /\ \A c \in Conns : /\ sess'[c].state = sess[c].state
                                                    /\ sess'[c].tx = sess[c].tx /\ sess'[c].work = sess[c].work
  <2>1. sess[conn[t]] \in Session
    BY <1>1, <1>3 DEF TypeOK
  <2> DEFINE s == [sess[conn[t]] EXCEPT !.db = d]
  <2>2. s \in Session /\ s.state = sess[conn[t]].state /\ s.tx = sess[conn[t]].tx /\ s.work = sess[conn[t]].work
    BY <2>1 DEF Session
  <2>3. sess' = [sess EXCEPT ![conn[t]] = s]
    BY <1>2
  <2> HIDE DEF s
  <2> QED
    BY <1>1, <1>3, <2>2, <2>3 DEF TypeOK
<1>5. err'[conn[t]] = FALSE /\ \A c \in Conns \ {conn[t]} : err'[c] = err[c]
  BY <1>1, <1>2, <1>3 DEF TypeOK
<1>6. TypeOK'
  BY <1>1, <1>2, <1>3, <1>4, <1>5 DEF TypeOK, States, Session, Transaction, Kinds, Rows
<1>7. Listed'
  BY <1>1, <1>2 DEF Listed
<1>8. Held'
  BY <1>1, <1>2 DEF Held, Holding
<1>9. Working'
  BY <1>1, <1>2 DEF Working, Job, Kind
<1>10. Sessions'
  BY <1>1, <1>2, <1>3, <1>4, <1>5 DEF Sessions, Live, TypeOK
<1>11. Errors'
  BY <1>1, <1>2, <1>3, <1>4, <1>5 DEF Errors, Live, TypeOK
<1>12. Quiet
  BY <1>1, <1>2, <1>3, <1>4, <1>5 DEF Quiet, Early, Holding, Job, Kind, Held, Working, TypeOK
<1> QED
  BY <1>6, <1>7, <1>8, <1>9, <1>10, <1>11, <1>12 DEF ManagerInv

LEMMA UseFailsQuiet ==
  ASSUME ManagerInv, NEW t \in Threads, NEW d \in Databases, use(t, d), ~Live(conn[t])
  PROVE  ManagerInv' /\ Quiet
<1> USE ManagerAssumption
<1>1. /\ TypeOK /\ Listed /\ Held
      /\ Working /\ Sessions /\ Errors
  BY DEF ManagerInv
<1>2. /\ pc[t] = "run"
      /\ dbname' = [dbname EXCEPT ![conn[t]] = NoDb]
      /\ err' = [err EXCEPT ![conn[t]] = TRUE]
      /\ UNCHANGED <<defined, pool, made, recent, sess, up, committed, pc, conn, call, tries, tr, todo, drops, acked, written, broken, wasted>>
  BY <1>1 DEF use, object, thread, history
<1>3. /\ conn[t] \in Conns
      /\ \A u \in Threads \ {t} : pc[u] \in {"run", "begin", "trans"} => conn[u] \in Conns /\ conn[u] # conn[t]
  <2>1. conn[t] \in Conns /\ pc[t] \in Holding
    BY <1>1, <1>2 DEF Held, Holding, TypeOK
  <2> QED
    BY <1>1, <2>1 DEF Held, Holding, TypeOK
<1>4. err'[conn[t]] = TRUE /\ \A c \in Conns \ {conn[t]} : err'[c] = err[c]
  BY <1>1, <1>2, <1>3 DEF TypeOK
<1>5. TypeOK'
  BY <1>1, <1>2, <1>3, <1>4 DEF TypeOK, States, Session, Transaction, Kinds, Rows
<1>6. Listed'
  BY <1>1, <1>2 DEF Listed
<1>7. Held'
  BY <1>1, <1>2 DEF Held, Holding
<1>8. Working'
  BY <1>1, <1>2 DEF Working, Job, Kind
<1>9. Sessions'
  BY <1>1, <1>2 DEF Sessions, Live
<1>10. Errors'
  BY <1>1, <1>2, <1>3, <1>4 DEF Errors, Live, TypeOK
<1>11. Quiet
  BY <1>1, <1>2, <1>3, <1>4 DEF Quiet, Early, Holding, Job, Kind, Held, Working, TypeOK
<1> QED
  BY <1>5, <1>6, <1>7, <1>8, <1>9, <1>10, <1>11 DEF ManagerInv

-----------------------------------------------------------------------------
(* Every step keeps ManagerInv: transactions. *)

LEMMA OpenedManager ==
  ASSUME ManagerInv, NEW t \in Threads, NEW auto \in BOOLEAN, OpenTransaction(t, auto), Live(conn[t])
  PROVE  ManagerInv'
<1> USE ManagerAssumption
<1>1. /\ TypeOK /\ Listed /\ Held
      /\ Working /\ Sessions /\ Errors
  BY DEF ManagerInv
<1>2. /\ pc[t] = "begin"
      /\ committed' = committed \cup sess[conn[t]].work
      /\ sess' = [sess EXCEPT ![conn[t]].tx = TRUE, ![conn[t]].work = {}]
      /\ err' = [err EXCEPT ![conn[t]] = FALSE]
      /\ pc' = [pc EXCEPT ![t] = "trans"]
      /\ tr' = [tr EXCEPT ![t] = [auto |-> auto, finished |-> FALSE, error |-> FALSE]]
      /\ UNCHANGED <<defined, pool, made, recent, dbname, up, conn, call, tries, todo, drops, acked, written, broken, wasted>>
  BY <1>1 DEF OpenTransaction, object, thread, history
<1>3. /\ conn[t] \in Conns
      /\ \A u \in Threads \ {t} : pc[u] \in {"run", "begin", "trans"} => conn[u] \in Conns /\ conn[u] # conn[t]
  <2>1. conn[t] \in Conns /\ pc[t] \in Holding
    BY <1>1, <1>2 DEF Held, Holding, TypeOK
  <2> QED
    BY <1>1, <2>1 DEF Held, Holding, TypeOK
<1>4. /\ sess' \in [Conns -> Session] /\ \A d \in Conns \ {conn[t]} : sess'[d] = sess[d]
      /\ sess'[conn[t]].tx = TRUE /\ sess'[conn[t]].work = {}
      /\ sess'[conn[t]].state = sess[conn[t]].state
  <2>1. sess[conn[t]] \in Session
    BY <1>1, <1>3 DEF TypeOK
  <2> DEFINE s == [sess[conn[t]] EXCEPT !.tx = TRUE, !.work = {}]
  <2>2. TRUE \in BOOLEAN
    OBVIOUS
  <2>3. s \in Session /\ s.state = sess[conn[t]].state /\ s.tx = TRUE /\ s.work = {}
    BY <2>1, <2>2 DEF Session
  <2>4. sess' = [sess EXCEPT ![conn[t]] = s]
    BY <1>2
  <2> HIDE DEF s
  <2> QED
    BY <1>1, <1>3, <2>3, <2>4 DEF TypeOK
<1>5. err'[conn[t]] = FALSE /\ \A d \in Conns \ {conn[t]} : err'[d] = err[d]
  BY <1>1, <1>2, <1>3 DEF TypeOK
<1>6. /\ tr' \in [Threads -> Transaction] /\ \A u \in Threads \ {t} : tr'[u] = tr[u]
      /\ ~tr'[t].error /\ ~tr'[t].finished /\ tr'[t].auto = auto
  <2>1. FALSE \in BOOLEAN /\ tr[t] \in Transaction
    BY <1>1, <1>2 DEF TypeOK
  <2>2. tr'[t] \in Transaction /\ ~tr'[t].error /\ ~tr'[t].finished /\ tr'[t].auto = auto
    BY <1>1, <1>2, <2>1 DEF TypeOK, Transaction
  <2> QED
    BY <1>1, <1>2, <2>2 DEF TypeOK
<1>7. sess[conn[t]].work \subseteq Rows
  BY <1>1, <1>3 DEF TypeOK, Session
<1>8. TypeOK'
  BY <1>1, <1>2, <1>3, <1>4, <1>5, <1>6, <1>7 DEF TypeOK, States, Session, Transaction, Kinds, Rows
<1>9. Listed'
  BY <1>1, <1>2 DEF Listed
<1>10. Held'
  BY <1>1, <1>2, <1>3, <1>4, <1>5, <1>6, <1>7 DEF Held, Holding, TypeOK
<1>11. Working'
  BY <1>1, <1>2, <1>3, <1>4, <1>5, <1>6, <1>7 DEF Working, Job, Kind, TypeOK
<1>12. Sessions'
  BY <1>1, <1>2, <1>3, <1>4, <1>5, <1>6, <1>7 DEF Sessions, Live, TypeOK
<1>13. Errors'
  BY <1>1, <1>2, <1>3, <1>4, <1>5, <1>6, <1>7 DEF Errors, Live, TypeOK
<1> QED
  BY <1>8, <1>9, <1>10, <1>11, <1>12, <1>13 DEF ManagerInv

LEMMA NotOpenedQuiet ==
  ASSUME ManagerInv, NEW t \in Threads, NEW auto \in BOOLEAN, OpenTransaction(t, auto), ~Live(conn[t])
  PROVE  ManagerInv' /\ Quiet
<1> USE ManagerAssumption
<1>1. /\ TypeOK /\ Listed /\ Held
      /\ Working /\ Sessions /\ Errors
  BY DEF ManagerInv
<1>2. /\ pc[t] = "begin"
      /\ err' = [err EXCEPT ![conn[t]] = TRUE]
      /\ wasted' = [wasted EXCEPT ![conn[t]] =
                      IF TRUE /\ ~Live(conn[t]) THEN wasted[conn[t]] + 1 ELSE wasted[conn[t]]]
      /\ pc' = [pc EXCEPT ![t] = "drop"]
      /\ tr' = [tr EXCEPT ![t] = [auto |-> auto, finished |-> FALSE, error |-> TRUE]]
      /\ UNCHANGED <<defined, pool, made, recent, dbname, sess, up, committed, conn, call, tries, todo, drops, acked, written, broken>>
  BY <1>1 DEF OpenTransaction, CommandFails, object, thread, history
<1>3. /\ conn[t] \in Conns
      /\ \A u \in Threads \ {t} : pc[u] \in {"run", "begin", "trans"} => conn[u] \in Conns /\ conn[u] # conn[t]
  <2>1. conn[t] \in Conns /\ pc[t] \in Holding
    BY <1>1, <1>2 DEF Held, Holding, TypeOK
  <2> QED
    BY <1>1, <2>1 DEF Held, Holding, TypeOK
<1>4. /\ wasted' \in [Conns -> Nat] /\ err' \in [Conns -> BOOLEAN] /\ err'[conn[t]]
      /\ \A d \in Conns \ {conn[t]} : err'[d] = err[d] /\ wasted'[d] = wasted[d]
      /\ wasted'[conn[t]] <= 1 /\ (wasted'[conn[t]] # 0 => ~Live(conn[t]))
  <2>1. wasted[conn[t]] \in {0, 1} /\ wasted[conn[t]] \in Nat /\ (wasted[conn[t]] # 0 => ~Live(conn[t]))
    BY <1>1, <1>2, <1>3 DEF Errors, TypeOK
  <2>2. TRUE => wasted[conn[t]] = 0
    BY <1>1, <1>2, <1>3 DEF Errors
  <2>3. wasted' \in [Conns -> Nat] /\ err' \in [Conns -> BOOLEAN] /\ err'[conn[t]]
    BY <1>1, <1>2, <1>3, <2>1 DEF TypeOK
  <2>4. \A d \in Conns \ {conn[t]} : err'[d] = err[d] /\ wasted'[d] = wasted[d]
    BY <1>1, <1>2, <1>3 DEF TypeOK
  <2>5. wasted'[conn[t]] = IF TRUE /\ ~Live(conn[t]) THEN wasted[conn[t]] + 1 ELSE wasted[conn[t]]
    BY <1>1, <1>2, <1>3 DEF TypeOK
  <2> QED
    BY <2>1, <2>2, <2>3, <2>4, <2>5
<1>5. /\ tr' \in [Threads -> Transaction] /\ \A u \in Threads \ {t} : tr'[u] = tr[u]
      /\ tr'[t].error
  <2>1. TRUE \in BOOLEAN /\ FALSE \in BOOLEAN /\ tr[t] \in Transaction
    BY <1>1, <1>2 DEF TypeOK
  <2>2. tr'[t] \in Transaction /\ tr'[t].error
    BY <1>1, <1>2, <2>1 DEF TypeOK, Transaction
  <2> QED
    BY <1>1, <1>2, <2>2 DEF TypeOK
<1>6. TypeOK'
  BY <1>1, <1>2, <1>3, <1>4, <1>5 DEF TypeOK, States, Session, Transaction, Kinds, Rows
<1>7. Listed'
  BY <1>1, <1>2 DEF Listed
<1>8. Held'
  BY <1>1, <1>2, <1>3, <1>4, <1>5 DEF Held, Holding, TypeOK
<1>9. Working'
  BY <1>1, <1>2, <1>3, <1>4, <1>5 DEF Working, Job, Kind, TypeOK
<1>10. Sessions'
  BY <1>1, <1>2 DEF Sessions, Live
<1>11. Errors'
  BY <1>1, <1>2, <1>3, <1>4, <1>5 DEF Errors, Live, TypeOK
<1>12. Quiet
  BY <1>1, <1>2, <1>3, <1>4, <1>5 DEF Quiet, Early, Holding, Job, Kind, Held, Working, TypeOK
<1> QED
  BY <1>6, <1>7, <1>8, <1>9, <1>10, <1>11, <1>12 DEF ManagerInv

LEMMA WrittenManager ==
  ASSUME ManagerInv, NEW t \in Threads, NEW r \in Rows, TransactionExecute(t, r), RunsInSession(conn[t]),
         Store(conn[t], r), written' = written \cup {r}, err' = [err EXCEPT ![conn[t]] = FALSE],
         UNCHANGED <<wasted, tr, broken>>
  PROVE  ManagerInv'
<1> USE ManagerAssumption
<1>1. /\ TypeOK /\ Listed /\ Held
      /\ Working /\ Sessions /\ Errors
  BY DEF ManagerInv
<1>2. /\ pc[t] = "trans" /\ ~tr[t].finished
      /\ Live(conn[t])
      /\ sess' = IF sess[conn[t]].tx
               THEN [sess EXCEPT ![conn[t]].work = sess[conn[t]].work \cup {r}] ELSE sess
      /\ committed' = IF sess[conn[t]].tx THEN committed ELSE committed \cup {r}
      /\ written' = written \cup {r}
      /\ err' = [err EXCEPT ![conn[t]] = FALSE]
      /\ UNCHANGED <<defined, pool, made, recent, dbname, up, pc, conn, call, tries, tr, todo, drops, acked, broken, wasted>>
  BY <1>1 DEF TransactionExecute, Store, RunsInSession, object, thread, history
<1>3. /\ conn[t] \in Conns
      /\ \A u \in Threads \ {t} : pc[u] \in {"run", "begin", "trans"} => conn[u] \in Conns /\ conn[u] # conn[t]
  <2>1. conn[t] \in Conns /\ pc[t] \in Holding
    BY <1>1, <1>2 DEF Held, Holding, TypeOK
  <2> QED
    BY <1>1, <2>1 DEF Held, Holding, TypeOK
<1>4. /\ r \in Rows /\ sess' \in [Conns -> Session]
      /\ \A d \in Conns : /\ sess'[d].state = sess[d].state /\ sess'[d].tx = sess[d].tx
                          /\ ~sess[d].tx => sess'[d].work = sess[d].work
  <2>1. r \in Rows
    OBVIOUS
  <2>2. CASE sess[conn[t]].tx
    <3>1. sess[conn[t]] \in Session
      BY <1>1, <1>3 DEF TypeOK
    <3> DEFINE s == [sess[conn[t]] EXCEPT !.work = sess[conn[t]].work \cup {r}]
    <3>2. s \in Session /\ s.state = sess[conn[t]].state /\ s.tx = sess[conn[t]].tx
      BY <2>1, <3>1 DEF Session
    <3>3. sess' = [sess EXCEPT ![conn[t]] = s]
      BY <1>2, <2>2
    <3> HIDE DEF s
    <3> QED
      BY <1>1, <1>3, <2>1, <2>2, <3>2, <3>3 DEF TypeOK
  <2>3. CASE ~sess[conn[t]].tx
    BY <1>1, <1>2, <2>1, <2>3 DEF TypeOK
  <2> QED
    BY <2>2, <2>3
<1>5. err'[conn[t]] = FALSE /\ \A d \in Conns \ {conn[t]} : err'[d] = err[d]
  BY <1>1, <1>2, <1>3 DEF TypeOK
<1>6. TypeOK'
  BY <1>1, <1>2, <1>3, <1>4, <1>5 DEF TypeOK, States, Session, Transaction, Kinds, Rows
<1>7. Listed'
  BY <1>1, <1>2 DEF Listed
<1>8. Held'
  BY <1>1, <1>2 DEF Held, Holding
<1>9. Working'
  BY <1>1, <1>2 DEF Working, Job, Kind
<1>10. Sessions'
  BY <1>1, <1>2, <1>3, <1>4, <1>5 DEF Sessions, Live, TypeOK
<1>11. Errors'
  BY <1>1, <1>2, <1>3, <1>4, <1>5 DEF Errors, Live, TypeOK
<1> QED
  BY <1>6, <1>7, <1>8, <1>9, <1>10, <1>11 DEF ManagerInv

LEMMA RefusedManager ==
  ASSUME ManagerInv, NEW t \in Threads, NEW r \in Rows, TransactionExecute(t, r), CommandFails(conn[t], ~tr[t].error),
         tr' = [tr EXCEPT ![t].error = TRUE], broken' = IF tr[t].error THEN broken ELSE broken \cup {Job(t)},
         UNCHANGED <<sess, committed, written>>
  PROVE  ManagerInv'
<1> USE ManagerAssumption
<1>1. /\ TypeOK /\ Listed /\ Held
      /\ Working /\ Sessions /\ Errors
  BY DEF ManagerInv
<1>2. /\ pc[t] = "trans" /\ ~tr[t].finished
      /\ err' = [err EXCEPT ![conn[t]] = TRUE]
      /\ wasted' = [wasted EXCEPT ![conn[t]] =
                      IF ~tr[t].error /\ ~Live(conn[t]) THEN wasted[conn[t]] + 1 ELSE wasted[conn[t]]]
      /\ tr' = [tr EXCEPT ![t].error = TRUE]
      /\ broken' = IF tr[t].error THEN broken ELSE broken \cup {Job(t)}
      /\ UNCHANGED <<defined, pool, made, recent, dbname, sess, up, committed, pc, conn, call, tries, todo, drops, acked, written>>
  BY <1>1 DEF TransactionExecute, CommandFails, object, thread, history
<1>3. /\ conn[t] \in Conns
      /\ \A u \in Threads \ {t} : pc[u] \in {"run", "begin", "trans"} => conn[u] \in Conns /\ conn[u] # conn[t]
  <2>1. conn[t] \in Conns /\ pc[t] \in Holding
    BY <1>1, <1>2 DEF Held, Holding, TypeOK
  <2> QED
    BY <1>1, <2>1 DEF Held, Holding, TypeOK
<1>4. /\ wasted' \in [Conns -> Nat] /\ err' \in [Conns -> BOOLEAN] /\ err'[conn[t]]
      /\ \A d \in Conns \ {conn[t]} : err'[d] = err[d] /\ wasted'[d] = wasted[d]
      /\ wasted'[conn[t]] <= 1 /\ (wasted'[conn[t]] # 0 => ~Live(conn[t]))
  <2>1. wasted[conn[t]] \in {0, 1} /\ wasted[conn[t]] \in Nat /\ (wasted[conn[t]] # 0 => ~Live(conn[t]))
    BY <1>1, <1>2, <1>3 DEF Errors, TypeOK
  <2>2. ~tr[t].error => wasted[conn[t]] = 0
    BY <1>1, <1>2, <1>3 DEF Errors
  <2>3. wasted' \in [Conns -> Nat] /\ err' \in [Conns -> BOOLEAN] /\ err'[conn[t]]
    BY <1>1, <1>2, <1>3, <2>1 DEF TypeOK
  <2>4. \A d \in Conns \ {conn[t]} : err'[d] = err[d] /\ wasted'[d] = wasted[d]
    BY <1>1, <1>2, <1>3 DEF TypeOK
  <2>5. wasted'[conn[t]] = IF ~tr[t].error /\ ~Live(conn[t]) THEN wasted[conn[t]] + 1 ELSE wasted[conn[t]]
    BY <1>1, <1>2, <1>3 DEF TypeOK
  <2> QED
    BY <2>1, <2>2, <2>3, <2>4, <2>5
<1>5. /\ tr' \in [Threads -> Transaction] /\ tr'[t].error
      /\ tr'[t].auto = tr[t].auto /\ tr'[t].finished = tr[t].finished
      /\ \A u \in Threads \ {t} : tr'[u] = tr[u]
  <2>1. tr \in [Threads -> Transaction] /\ tr' = [tr EXCEPT ![t].error = TRUE]
    BY <1>1, <1>2 DEF TypeOK
  <2> DEFINE g == [tr EXCEPT ![t].error = TRUE]
  <2>2. /\ g \in [Threads -> Transaction] /\ g[t].error
        /\ g[t].auto = tr[t].auto /\ g[t].finished = tr[t].finished
        /\ \A u \in Threads \ {t} : g[u] = tr[u]
    BY <2>1, ErrorSet
  <2>3. tr' = g
    BY <2>1
  <2> HIDE DEF g
  <2> QED
    BY <2>2, <2>3
<1>6. Job(t) \in Calls
  BY <1>1, <1>2 DEF Working, Job
<1>7. TypeOK'
  BY <1>1, <1>2, <1>3, <1>4, <1>5, <1>6 DEF TypeOK, States, Session, Transaction, Kinds, Rows
<1>8. Listed'
  BY <1>1, <1>2 DEF Listed
<1>9. Held'
  BY <1>1, <1>2 DEF Held, Holding
<1>10. Working'
  BY <1>1, <1>2 DEF Working, Job, Kind
<1>11. Sessions'
  BY <1>1, <1>2 DEF Sessions, Live
<1>12. Errors'
  BY <1>1, <1>2, <1>3, <1>4, <1>5, <1>6 DEF Errors, Live, TypeOK
<1> QED
  BY <1>7, <1>8, <1>9, <1>10, <1>11, <1>12 DEF ManagerInv

\* The step of a commit(), a rollback() or the destructor apart from what it does on
\* the server: the user keeps the transaction or it is gone.
Ending(t, n) ==
  /\ pc[t] \in {"trans", "drop"} /\ n \in {"trans", "free"} /\ (n = "trans" => pc[t] = "trans")
  /\ pc' = [pc EXCEPT ![t] = n]
  /\ UNCHANGED <<defined, pool, made, recent, dbname, up, conn, call, tries, todo, written, broken>>

Nothing == UNCHANGED <<committed, sess, tr, err, wasted, drops, acked>>

LEMMA NothingManager ==
  ASSUME ManagerInv, NEW t \in Threads, NEW n \in {"trans", "free"}, Ending(t, n), Nothing
  PROVE  ManagerInv'
<1> USE ManagerAssumption
<1>1. /\ TypeOK /\ Listed /\ Held
      /\ Working /\ Sessions /\ Errors
  BY DEF ManagerInv
<1>2. /\ pc[t] \in {"trans", "drop"} /\ (n = "trans" => pc[t] = "trans")
      /\ pc' = [pc EXCEPT ![t] = n]
      /\ UNCHANGED <<defined, pool, made, err, recent, dbname, sess, up, committed, conn, call, tries, tr, todo, drops, acked, written, broken, wasted>>
  BY <1>1 DEF Ending, Nothing, object, thread, history
<1>3. TypeOK'
  BY <1>1, <1>2 DEF TypeOK, States, Session, Transaction, Kinds, Rows
<1>4. Listed'
  BY <1>1, <1>2 DEF Listed
<1>5. Held'
  BY <1>1, <1>2 DEF Held, Holding, TypeOK
<1>6. Working'
  BY <1>1, <1>2 DEF Working, Job, Kind, TypeOK
<1>7. Sessions'
  BY <1>1, <1>2 DEF Sessions, Live
<1>8. Errors'
  BY <1>1, <1>2 DEF Errors, Live, TypeOK
<1> QED
  BY <1>3, <1>4, <1>5, <1>6, <1>7, <1>8 DEF ManagerInv

LEMMA EndedManager ==
  ASSUME ManagerInv, NEW t \in Threads, NEW n \in {"trans", "free"}, Ending(t, n), NEW rows, rows \subseteq sess[conn[t]].work, EndTransaction(t, rows),
         NEW told, told \subseteq sess[conn[t]].work, acked' = acked \cup told, Live(conn[t])
  PROVE  ManagerInv'
<1> USE ManagerAssumption
<1>1. /\ TypeOK /\ Listed /\ Held
      /\ Working /\ Sessions /\ Errors
  BY DEF ManagerInv
<1>2. /\ pc[t] \in {"trans", "drop"} /\ (n = "trans" => pc[t] = "trans")
      /\ pc' = [pc EXCEPT ![t] = n]
      /\ committed' = committed \cup rows
      /\ acked' = acked \cup told
      /\ sess' = [sess EXCEPT ![conn[t]].tx = FALSE, ![conn[t]].work = {}]
      /\ tr' = [tr EXCEPT ![t].finished = TRUE]
      /\ err' = [err EXCEPT ![conn[t]] = FALSE]
      /\ UNCHANGED <<defined, pool, made, recent, dbname, up, conn, call, tries, todo, drops, written, broken, wasted>>
  BY <1>1 DEF Ending, EndTransaction, object, thread, history
<1>3. /\ conn[t] \in Conns
      /\ \A u \in Threads \ {t} : pc[u] \in {"run", "begin", "trans"} => conn[u] \in Conns /\ conn[u] # conn[t]
  <2>1. conn[t] \in Conns /\ pc[t] \in Holding
    BY <1>1, <1>2 DEF Held, Holding, TypeOK
  <2> QED
    BY <1>1, <2>1 DEF Held, Holding, TypeOK
<1>4. /\ sess' \in [Conns -> Session] /\ \A d \in Conns \ {conn[t]} : sess'[d] = sess[d]
      /\ sess'[conn[t]].tx = FALSE /\ sess'[conn[t]].work = {}
      /\ sess'[conn[t]].state = sess[conn[t]].state
  <2>1. sess[conn[t]] \in Session
    BY <1>1, <1>3 DEF TypeOK
  <2> DEFINE s == [sess[conn[t]] EXCEPT !.tx = FALSE, !.work = {}]
  <2>2. FALSE \in BOOLEAN
    OBVIOUS
  <2>3. s \in Session /\ s.state = sess[conn[t]].state /\ s.tx = FALSE /\ s.work = {}
    BY <2>1, <2>2 DEF Session
  <2>4. sess' = [sess EXCEPT ![conn[t]] = s]
    BY <1>2
  <2> HIDE DEF s
  <2> QED
    BY <1>1, <1>3, <2>3, <2>4 DEF TypeOK
<1>5. err'[conn[t]] = FALSE /\ \A d \in Conns \ {conn[t]} : err'[d] = err[d]
  BY <1>1, <1>2, <1>3 DEF TypeOK
<1>6. /\ tr' \in [Threads -> Transaction] /\ \A u \in Threads \ {t} : tr'[u] = tr[u]
      /\ tr'[t].error = tr[t].error
  <2>1. TRUE \in BOOLEAN /\ tr[t] \in Transaction
    BY <1>1, <1>2 DEF TypeOK
  <2>2. tr'[t] \in Transaction /\ tr'[t].error = tr[t].error
    BY <1>1, <1>2, <2>1 DEF TypeOK, Transaction
  <2> QED
    BY <1>1, <1>2, <2>2 DEF TypeOK
<1>7. sess[conn[t]].work \subseteq Rows
  BY <1>1, <1>3 DEF TypeOK, Session
<1>8. TypeOK'
  BY <1>1, <1>2, <1>3, <1>4, <1>5, <1>6, <1>7 DEF TypeOK, States, Session, Transaction, Kinds, Rows
<1>9. Listed'
  BY <1>1, <1>2 DEF Listed
<1>10. Held'
  BY <1>1, <1>2, <1>3, <1>4, <1>5, <1>6, <1>7 DEF Held, Holding, TypeOK
<1>11. Working'
  BY <1>1, <1>2, <1>3, <1>4, <1>5, <1>6, <1>7 DEF Working, Job, Kind, TypeOK
<1>12. Sessions'
  BY <1>1, <1>2, <1>3, <1>4, <1>5, <1>6, <1>7 DEF Sessions, Live, TypeOK
<1>13. Errors'
  BY <1>1, <1>2, <1>3, <1>4, <1>5, <1>6, <1>7 DEF Errors, Live, TypeOK
<1> QED
  BY <1>8, <1>9, <1>10, <1>11, <1>12, <1>13 DEF ManagerInv

LEMMA LostManager ==
  ASSUME ManagerInv, NEW t \in Threads, NEW n \in {"trans", "free"}, Ending(t, n), EndFails(t), drops' = drops + 1,
         committed' = committed \cup sess[conn[t]].work, sess' = [sess EXCEPT ![conn[t]] = Ended(sess[conn[t]])],
         UNCHANGED acked, Live(conn[t])
  PROVE  ManagerInv'
<1> USE ManagerAssumption
<1>1. /\ TypeOK /\ Listed /\ Held
      /\ Working /\ Sessions /\ Errors
  BY DEF ManagerInv
<1>2. /\ pc[t] \in {"trans", "drop"} /\ (n = "trans" => pc[t] = "trans")
      /\ pc' = [pc EXCEPT ![t] = n]
      /\ committed' = committed \cup sess[conn[t]].work
      /\ sess' = [sess EXCEPT ![conn[t]] = Ended(sess[conn[t]])]
      /\ drops' = drops + 1
      /\ tr' = [tr EXCEPT ![t].error = TRUE]
      /\ err' = [err EXCEPT ![conn[t]] = TRUE]
      /\ wasted' = [wasted EXCEPT ![conn[t]] =
                      IF ~tr[t].error /\ ~Live(conn[t]) THEN wasted[conn[t]] + 1 ELSE wasted[conn[t]]]
      /\ UNCHANGED <<defined, pool, made, recent, dbname, up, conn, call, tries, todo, acked, written, broken>>
  BY <1>1 DEF Ending, EndFails, CommandFails, object, thread, history
<1>3. /\ conn[t] \in Conns
      /\ \A u \in Threads \ {t} : pc[u] \in {"run", "begin", "trans"} => conn[u] \in Conns /\ conn[u] # conn[t]
  <2>1. conn[t] \in Conns /\ pc[t] \in Holding
    BY <1>1, <1>2 DEF Held, Holding, TypeOK
  <2> QED
    BY <1>1, <2>1 DEF Held, Holding, TypeOK
<1>4. /\ sess' \in [Conns -> Session] /\ \A d \in Conns \ {conn[t]} : sess'[d] = sess[d]
      /\ ~sess'[conn[t]].tx /\ sess'[conn[t]].work = {} /\ sess'[conn[t]].state # "live"
  BY <1>1, <1>2, <1>3, EndedFacts DEF TypeOK
<1>5. /\ wasted' \in [Conns -> Nat] /\ err' \in [Conns -> BOOLEAN] /\ err'[conn[t]]
      /\ \A d \in Conns \ {conn[t]} : err'[d] = err[d] /\ wasted'[d] = wasted[d]
      /\ wasted'[conn[t]] <= 1 /\ (wasted'[conn[t]] # 0 => ~Live(conn[t]))
  <2>1. wasted[conn[t]] \in {0, 1} /\ wasted[conn[t]] \in Nat /\ (wasted[conn[t]] # 0 => ~Live(conn[t]))
    BY <1>1, <1>2, <1>3 DEF Errors, TypeOK
  <2>2. ~tr[t].error => wasted[conn[t]] = 0
    BY <1>1, <1>2, <1>3 DEF Errors
  <2>3. wasted' \in [Conns -> Nat] /\ err' \in [Conns -> BOOLEAN] /\ err'[conn[t]]
    BY <1>1, <1>2, <1>3, <2>1 DEF TypeOK
  <2>4. \A d \in Conns \ {conn[t]} : err'[d] = err[d] /\ wasted'[d] = wasted[d]
    BY <1>1, <1>2, <1>3 DEF TypeOK
  <2>5. wasted'[conn[t]] = IF ~tr[t].error /\ ~Live(conn[t]) THEN wasted[conn[t]] + 1 ELSE wasted[conn[t]]
    BY <1>1, <1>2, <1>3 DEF TypeOK
  <2> QED
    BY <2>1, <2>2, <2>3, <2>4, <2>5
<1>6. /\ tr' \in [Threads -> Transaction] /\ tr'[t].error
      /\ tr'[t].auto = tr[t].auto /\ tr'[t].finished = tr[t].finished
      /\ \A u \in Threads \ {t} : tr'[u] = tr[u]
  <2>1. tr \in [Threads -> Transaction] /\ tr' = [tr EXCEPT ![t].error = TRUE]
    BY <1>1, <1>2 DEF TypeOK
  <2> DEFINE g == [tr EXCEPT ![t].error = TRUE]
  <2>2. /\ g \in [Threads -> Transaction] /\ g[t].error
        /\ g[t].auto = tr[t].auto /\ g[t].finished = tr[t].finished
        /\ \A u \in Threads \ {t} : g[u] = tr[u]
    BY <2>1, ErrorSet
  <2>3. tr' = g
    BY <2>1
  <2> HIDE DEF g
  <2> QED
    BY <2>2, <2>3
<1>7. sess[conn[t]].work \subseteq Rows
  BY <1>1, <1>3 DEF TypeOK, Session
<1>8. TypeOK'
  BY <1>1, <1>2, <1>3, <1>4, <1>5, <1>6, <1>7 DEF TypeOK, States, Session, Transaction, Kinds, Rows
<1>9. Listed'
  BY <1>1, <1>2 DEF Listed
<1>10. Held'
  BY <1>1, <1>2, <1>3, <1>4, <1>5, <1>6, <1>7 DEF Held, Holding, TypeOK
<1>11. Working'
  BY <1>1, <1>2, <1>3, <1>4, <1>5, <1>6, <1>7 DEF Working, Job, Kind, TypeOK
<1>12. Sessions'
  BY <1>1, <1>2, <1>3, <1>4, <1>5, <1>6, <1>7 DEF Sessions, Live, TypeOK
<1>13. Errors'
  BY <1>1, <1>2, <1>3, <1>4, <1>5, <1>6, <1>7 DEF Errors, Live, TypeOK
<1> QED
  BY <1>8, <1>9, <1>10, <1>11, <1>12, <1>13 DEF ManagerInv

LEMMA EndFailsManager ==
  ASSUME ManagerInv, NEW t \in Threads, NEW n \in {"trans", "free"}, Ending(t, n), EndFails(t), UNCHANGED <<committed, sess, drops, acked>>, ~Live(conn[t])
  PROVE  ManagerInv'
<1> USE ManagerAssumption
<1>1. /\ TypeOK /\ Listed /\ Held
      /\ Working /\ Sessions /\ Errors
  BY DEF ManagerInv
<1>2. /\ pc[t] \in {"trans", "drop"} /\ (n = "trans" => pc[t] = "trans")
      /\ pc' = [pc EXCEPT ![t] = n]
      /\ tr' = [tr EXCEPT ![t].error = TRUE]
      /\ err' = [err EXCEPT ![conn[t]] = TRUE]
      /\ wasted' = [wasted EXCEPT ![conn[t]] =
                      IF ~tr[t].error /\ ~Live(conn[t]) THEN wasted[conn[t]] + 1 ELSE wasted[conn[t]]]
      /\ UNCHANGED <<defined, pool, made, recent, dbname, sess, up, committed, conn, call, tries, todo, drops, acked, written, broken>>
  BY <1>1 DEF Ending, EndFails, CommandFails, object, thread, history
<1>3. /\ conn[t] \in Conns
      /\ \A u \in Threads \ {t} : pc[u] \in {"run", "begin", "trans"} => conn[u] \in Conns /\ conn[u] # conn[t]
  <2>1. conn[t] \in Conns /\ pc[t] \in Holding
    BY <1>1, <1>2 DEF Held, Holding, TypeOK
  <2> QED
    BY <1>1, <2>1 DEF Held, Holding, TypeOK
<1>4. /\ wasted' \in [Conns -> Nat] /\ err' \in [Conns -> BOOLEAN] /\ err'[conn[t]]
      /\ \A d \in Conns \ {conn[t]} : err'[d] = err[d] /\ wasted'[d] = wasted[d]
      /\ wasted'[conn[t]] <= 1 /\ (wasted'[conn[t]] # 0 => ~Live(conn[t]))
  <2>1. wasted[conn[t]] \in {0, 1} /\ wasted[conn[t]] \in Nat /\ (wasted[conn[t]] # 0 => ~Live(conn[t]))
    BY <1>1, <1>2, <1>3 DEF Errors, TypeOK
  <2>2. ~tr[t].error => wasted[conn[t]] = 0
    BY <1>1, <1>2, <1>3 DEF Errors
  <2>3. wasted' \in [Conns -> Nat] /\ err' \in [Conns -> BOOLEAN] /\ err'[conn[t]]
    BY <1>1, <1>2, <1>3, <2>1 DEF TypeOK
  <2>4. \A d \in Conns \ {conn[t]} : err'[d] = err[d] /\ wasted'[d] = wasted[d]
    BY <1>1, <1>2, <1>3 DEF TypeOK
  <2>5. wasted'[conn[t]] = IF ~tr[t].error /\ ~Live(conn[t]) THEN wasted[conn[t]] + 1 ELSE wasted[conn[t]]
    BY <1>1, <1>2, <1>3 DEF TypeOK
  <2> QED
    BY <2>1, <2>2, <2>3, <2>4, <2>5
<1>5. /\ tr' \in [Threads -> Transaction] /\ tr'[t].error
      /\ tr'[t].auto = tr[t].auto /\ tr'[t].finished = tr[t].finished
      /\ \A u \in Threads \ {t} : tr'[u] = tr[u]
  <2>1. tr \in [Threads -> Transaction] /\ tr' = [tr EXCEPT ![t].error = TRUE]
    BY <1>1, <1>2 DEF TypeOK
  <2> DEFINE g == [tr EXCEPT ![t].error = TRUE]
  <2>2. /\ g \in [Threads -> Transaction] /\ g[t].error
        /\ g[t].auto = tr[t].auto /\ g[t].finished = tr[t].finished
        /\ \A u \in Threads \ {t} : g[u] = tr[u]
    BY <2>1, ErrorSet
  <2>3. tr' = g
    BY <2>1
  <2> HIDE DEF g
  <2> QED
    BY <2>2, <2>3
<1>6. TypeOK'
  BY <1>1, <1>2, <1>3, <1>4, <1>5 DEF TypeOK, States, Session, Transaction, Kinds, Rows
<1>7. Listed'
  BY <1>1, <1>2 DEF Listed
<1>8. Held'
  BY <1>1, <1>2, <1>3, <1>4, <1>5 DEF Held, Holding, TypeOK
<1>9. Working'
  BY <1>1, <1>2, <1>3, <1>4, <1>5 DEF Working, Job, Kind, TypeOK
<1>10. Sessions'
  BY <1>1, <1>2 DEF Sessions, Live
<1>11. Errors'
  BY <1>1, <1>2, <1>3, <1>4, <1>5 DEF Errors, Live, TypeOK
<1> QED
  BY <1>6, <1>7, <1>8, <1>9, <1>10, <1>11 DEF ManagerInv

-----------------------------------------------------------------------------
(* ManagerInv is inductive. *)

LEMMA InitManager == Init => ManagerInv
<1> USE ManagerAssumption
<1> SUFFICES ASSUME Init PROVE ManagerInv
  OBVIOUS
<1>1. TypeOK
  <2>1. up \in BOOLEAN /\ drops \in Nat
    BY DEF Init
  <2>2. pool \in Seq(Conns)
    BY DEF Init
  <2> QED
    BY <2>1, <2>2, NewSessions DEF Init, TypeOK, States
<1>2. Listed
  BY DEF Init, Listed
<1>3. Held
  BY DEF Init, Held, Holding
<1>4. Working
  BY DEF Init, Working
<1>5. Sessions
  BY NewSessions DEF Init, Sessions, Live
<1>6. Errors
  BY DEF Init, Errors
<1> QED
  BY <1>1, <1>2, <1>3, <1>4, <1>5, <1>6 DEF ManagerInv

\* What a commit, a rollback or a destructor does on the server is one of four things.
LEMMA EndingCases ==
  ASSUME NEW t \in Threads, ManagerInv,
         NEW n \in {"trans", "free"}, Ending(t, n), Commit(t) \/ (Rollback(t) /\ UNCHANGED acked)
  PROVE  \/ Nothing
         \/ \E rows, told \in {{}, sess[conn[t]].work} :
              EndTransaction(t, rows) /\ acked' = acked \cup told /\ Live(conn[t])
         \/ /\ EndFails(t) /\ drops' = drops + 1 /\ committed' = committed \cup sess[conn[t]].work
            /\ sess' = [sess EXCEPT ![conn[t]] = Ended(sess[conn[t]])]
            /\ UNCHANGED acked /\ Live(conn[t])
         \/ EndFails(t) /\ UNCHANGED <<committed, sess, drops, acked>> /\ ~Live(conn[t])
<1>1. CASE Commit(t)
  BY <1>1 DEF Commit, Nothing
<1>2. CASE Rollback(t) /\ UNCHANGED acked
  BY <1>2 DEF Rollback, Nothing
<1> QED
  BY <1>1, <1>2

LEMMA EndingManager ==
  ASSUME NEW t \in Threads, ManagerInv,
         NEW n \in {"trans", "free"}, Ending(t, n), Commit(t) \/ (Rollback(t) /\ UNCHANGED acked)
  PROVE  ManagerInv'
BY EndingCases, NothingManager, EndedManager, LostManager, EndFailsManager

\* The two actions that end a transaction.
LEMMA FinishEnds ==
  ASSUME NEW t \in Threads, TypeOK, Finish(t)
  PROVE  Ending(t, "trans") /\ (Commit(t) \/ (Rollback(t) /\ UNCHANGED acked))
BY DEF Finish, Ending, TypeOK

LEMMA DropEnds ==
  ASSUME NEW t \in Threads, DropTransaction(t)
  PROVE  Ending(t, "free") /\ Destructor(t) /\ (Commit(t) \/ (Rollback(t) /\ UNCHANGED acked))
BY DEF DropTransaction, Ending, Destructor

LEMMA CallCases ==
  ASSUME ManagerInv, NEW t \in Threads, Call(t)
  PROVE  ManagerInv' /\ (Quiet \/ Noisy(t))
<1>1. TypeOK
  BY DEF ManagerInv
<1>2. CASE \E j \in Calls, k \in Kinds : Begin(t, j, k)
  BY <1>2, BeginQuiet
<1>3. CASE GetCached(t)
  BY <1>3, CachedPingQuiet, CachedTrustQuiet
<1>4. CASE GetNew(t)
  BY <1>4, DefinedQuiet, UndefinedQuiet
<1>5. CASE ConnectNew(t)
  BY <1>5, ConnectedQuiet, NotConnectedQuiet DEF ConnectNew
<1>6. CASE ping(t)
  BY <1>6, PingedQuiet, PingFailsQuiet
<1>7. CASE Reconnect(t)
  BY <1>7, ReconnectedQuiet, NotReconnectedQuiet
<1>8. CASE Execute(t)
  BY <1>8, ExecutedManager, ExecuteFailsQuiet DEF Noisy
<1>9. CASE Query(t)
  BY <1>9, QueriedQuiet, QueryFailsQuiet
<1>10. CASE Statement(t)
  BY <1>10, StatementManager, NoRowQuiet DEF Statement, Noisy
<1>11. CASE freeMySQL(t)
  BY <1>11, KeptQuiet, DeletedQuiet
<1>12. CASE \E d \in Databases : use(t, d)
  BY <1>12, UsedQuiet, UseFailsQuiet
<1>13. CASE \E auto \in BOOLEAN : OpenTransaction(t, auto)
  BY <1>13, OpenedManager, NotOpenedQuiet DEF Noisy
<1>14. CASE \E r \in Rows : TransactionExecute(t, r)
  BY <1>14, WrittenManager, RefusedManager DEF TransactionExecute, Noisy
<1>15. CASE Finish(t)
  BY <1>1, <1>15, FinishEnds, EndingManager DEF Noisy
<1>16. CASE DropTransaction(t)
  BY <1>16, DropEnds, EndingManager DEF Noisy
<1> QED
  BY <1>2, <1>3, <1>4, <1>5, <1>6, <1>7, <1>8, <1>9, <1>10, <1>11, <1>12, <1>13, <1>14, <1>15, <1>16 DEF Call

LEMMA NextCases ==
  ASSUME ManagerInv, [Next]_vars
  PROVE  ManagerInv' /\ (Quiet \/ \E t \in Threads : Noisy(t))
<1>1. CASE \E t \in Threads : Call(t)
  BY <1>1, CallCases
<1>2. CASE registerMySQL
  BY <1>2, RegisterQuiet
<1>3. CASE checkConnection
  BY <1>3, CheckedQuiet DEF checkConnection
<1>4. CASE TimePasses
  BY <1>4, TimeQuiet
<1>5. CASE ServerDown
  BY <1>5, DownQuiet
<1>6. CASE ServerUp
  BY <1>6, UpQuiet
<1>7. CASE \E c \in Conns : SessionDropped(c)
  BY <1>7, DroppedQuiet
<1>8. CASE UNCHANGED vars
  BY <1>8 DEF Quiet, ManagerInv, TypeOK, Listed, Held, Working, Sessions, Errors, Live, Job, Kind,
              vars, object, thread, history
<1> QED
  BY <1>1, <1>2, <1>3, <1>4, <1>5, <1>6, <1>7, <1>8 DEF Next

LEMMA NextManager == ManagerInv /\ [Next]_vars => ManagerInv'
BY NextCases

THEOREM Manager == Spec => []ManagerInv
BY InitManager, NextManager, PTL DEF Spec

\* However get, freeMySQL and checkConnection of any number of threads interleave, a
\* connection is in the list or in one thread's hands, and the list keeps its bound.
THEOREM OneUser == Spec => []IdleIsUnused
<1>1. ManagerInv => IdleIsUnused
  <2> SUFFICES ASSUME ManagerInv PROVE IdleIsUnused
    OBVIOUS
  <2>1. pool \in Seq(Conns) /\ Listed /\ Held
    BY DEF ManagerInv, TypeOK
  <2>2. ToSet(pool) = {pool[i] : i \in 1..Len(pool)}
    BY <2>1 DEF ToSet
  <2>3. IsInjective(pool)
    BY <2>1 DEF IsInjective, Listed
  <2> QED
    BY <2>1, <2>2, <2>3 DEF IdleIsUnused, Listed, Held
<1> QED
  BY <1>1, Manager, PTL

\* However sessions end and threads pass connections on, one command at most fails on a
\* session that died: its error is there when get() hands the connection out again.
THEOREM ErrorsAreNoticed == Spec => []OneErrorPerDeadSession
<1>1. ManagerInv => OneErrorPerDeadSession
  BY DEF ManagerInv, Errors, OneErrorPerDeadSession
<1> QED
  BY <1>1, Manager, PTL

-----------------------------------------------------------------------------
(* TransactionInv: the steps of one call. *)

\* Rows of different calls are different.
LEMMA RowFacts ==
  /\ \A j, k : j # k => RowsOf(j) \cap RowsOf(k) = {}
  /\ \A j : <<j, 1>> \in RowsOf(j)
  /\ \A j, k : <<j, 1>> \in RowsOf(k) => j = k
BY DEF RowsOf

LEMMA QuietTransactions ==
  ASSUME ManagerInv, ManagerInv', TransactionInv, Quiet
  PROVE  TransactionInv'
<1>1. /\ OpenHasOwner /\ Pending /\ Unbroken /\ NotBegun /\ NotTransaction /\ AckedIsStored /\ AllOrNothing
      /\ TypeOK /\ Held
  BY DEF TransactionInv, ManagerInv
<1>2. UNCHANGED <<committed, acked, written, broken>> /\ todo' \subseteq todo
  BY DEF Quiet
<1>3. OpenHasOwner'
  <2> SUFFICES ASSUME NEW c \in Conns, sess'[c].tx
               PROVE  \E t \in Threads : /\ conn'[t] = c /\ InTransaction(t)'
                                         /\ tr'[t].error => ~tr'[t].auto
    BY DEF OpenHasOwner
  <2>1. PICK t \in Threads : conn[t] = c /\ InTransaction(t) /\ (tr[t].error => ~tr[t].auto)
    BY <1>1 DEF Quiet, OpenHasOwner
  <2>2. pc'[t] = "trans" /\ conn'[t] = c /\ tr'[t] = tr[t]
    BY <2>1 DEF Quiet, InTransaction
  <2> QED
    BY <2>1, <2>2 DEF InTransaction
<1>4. ASSUME NEW t \in Threads, pc'[t] = "trans"
      PROVE  /\ pc[t] = "trans" /\ conn'[t] = conn[t] /\ tr'[t] = tr[t] /\ Job(t)' = Job(t)
             /\ sess'[conn[t]].state = "live" =>
                  /\ sess[conn[t]].state = "live"
                  /\ sess'[conn[t]].tx = sess[conn[t]].tx /\ sess'[conn[t]].work = sess[conn[t]].work
  BY <1>4 DEF Quiet, Job
<1>5. Pending'
  <2> SUFFICES ASSUME NEW t \in Threads, InTransaction(t)', Live(conn[t])'
               PROVE  /\ sess'[conn'[t]].tx
                      /\ sess'[conn'[t]].work = RowsOf(Job(t)') \cap written'
                      /\ RowsOf(Job(t)') \cap committed' = {}
    BY DEF Pending, RowsOf
  <2>1. InTransaction(t) /\ Live(conn[t])
    BY <1>4 DEF InTransaction, Live
  <2> QED
    BY <1>1, <1>2, <1>4, <2>1 DEF Pending, InTransaction, Live
<1>6. Unbroken'
  BY <1>1, <1>2, <1>4 DEF Unbroken, RowsOf
<1>7. NotBegun'
  BY <1>1, <1>2 DEF NotBegun, Untouched, Quiet, Job, Kind, RowsOf
<1>8. NotTransaction'
  <2> SUFFICES ASSUME NEW t \in Threads, pc'[t] # "idle", Kind(t)' # "trans"
               PROVE  RowsOf(Job(t)') \cap written' = {}
    BY DEF NotTransaction, RowsOf
  <2>1. CASE pc[t] # "idle" /\ call'[t] = call[t]
    BY <1>1, <1>2, <2>1 DEF NotTransaction, Job, Kind
  <2>2. CASE call'[t][1] \in todo
    BY <1>1, <1>2, <2>2 DEF NotBegun, Untouched, Job
  <2> QED
    BY <2>1, <2>2 DEF Quiet
<1>9. AckedIsStored' /\ AllOrNothing'
  BY <1>1, <1>2 DEF AckedIsStored, AllOrNothing, RowsOf
<1> QED
  BY <1>3, <1>5, <1>6, <1>7, <1>8, <1>9 DEF TransactionInv

\* A thread changes its own transaction, its own session and rows of its own call:
\* what has to be shown is what holds of that call.
LEMMA OneCall ==
  ASSUME ManagerInv, ManagerInv', TransactionInv, NEW t \in Threads,
         pc[t] \in {"run", "begin", "trans", "drop"}, pc'[t] \in {"trans", "drop", "free"},
         UNCHANGED <<conn, call, todo>>,
         \A u \in Threads \ {t} : pc'[u] = pc[u] /\ tr'[u] = tr[u],
         \A d \in Conns \ {conn[t]} : sess'[d] = sess[d],
         written \subseteq written', committed \subseteq committed', broken \subseteq broken',
         written' \subseteq written \cup RowsOf(Job(t)),
         committed' \subseteq committed \cup RowsOf(Job(t)),
         broken' \subseteq broken \cup {Job(t)},
         Kind(t) # "trans" => written' = written,
         sess'[conn[t]].tx => /\ pc'[t] = "trans" /\ ~tr'[t].finished
                              /\ tr'[t].error => ~tr'[t].auto,
         pc'[t] = "trans" /\ ~tr'[t].finished /\ sess'[conn[t]].state = "live" =>
           /\ sess'[conn[t]].tx
           /\ sess'[conn[t]].work = RowsOf(Job(t)) \cap written'
           /\ RowsOf(Job(t)) \cap committed' = {},
         pc'[t] = "trans" /\ ~tr'[t].error =>
           /\ Job(t) \notin broken'
           /\ ~tr'[t].finished => RowsOf(Job(t)) \cap committed' = {},
         RowsOf(Job(t)) \cap written' \cap committed' # {} =>
           Job(t) \notin broken' /\ RowsOf(Job(t)) \cap written' \subseteq committed',
         acked' \subseteq committed'
  PROVE  TransactionInv'
<1>1. /\ OpenHasOwner /\ Pending /\ Unbroken /\ NotBegun /\ NotTransaction /\ AckedIsStored /\ AllOrNothing
      /\ TypeOK /\ Held /\ Working
  BY DEF TransactionInv, ManagerInv
<1>2. conn[t] \in Conns /\ \A u \in Threads \ {t} : pc[u] = "trans" => conn[u] \in Conns \ {conn[t]}
  <2>1. conn[t] \in Conns /\ pc[t] \in Holding
    BY <1>1 DEF Held, Holding, TypeOK
  <2>2. ASSUME NEW u \in Threads \ {t}, pc[u] = "trans" PROVE conn[u] \in Conns /\ conn[u] # conn[t]
    BY <1>1, <2>1, <2>2, ManagerAssumption DEF Held, Holding, TypeOK
  <2> QED
    BY <2>1, <2>2
<1>3. \A u \in Threads : Job(u)' = Job(u) /\ Kind(u)' = Kind(u)
  BY DEF Job, Kind
<1>4. \A u \in Threads \ {t} : pc[u] # "idle" => Job(u) # Job(t)
  BY <1>1 DEF Working
<1>5. Job(t) \notin todo
  BY <1>1 DEF Working
<1>6. \A j : j # Job(t) => /\ RowsOf(j) \cap written' = RowsOf(j) \cap written
                           /\ RowsOf(j) \cap committed' = RowsOf(j) \cap committed
                           /\ j \in broken' => j \in broken
  BY RowFacts
<1>7. OpenHasOwner'
  <2> SUFFICES ASSUME NEW c \in Conns, sess'[c].tx
               PROVE  \E u \in Threads : /\ conn'[u] = c /\ InTransaction(u)'
                                         /\ tr'[u].error => ~tr'[u].auto
    BY DEF OpenHasOwner
  <2>1. CASE c = conn[t]
    BY <2>1 DEF InTransaction
  <2>2. CASE c # conn[t]
    <3>1. PICK u \in Threads : conn[u] = c /\ InTransaction(u) /\ (tr[u].error => ~tr[u].auto)
      BY <1>1, <2>2 DEF OpenHasOwner
    <3>2. u # t
      BY <2>2, <3>1
    <3> QED
      BY <3>1, <3>2 DEF InTransaction
  <2> QED
    BY <2>1, <2>2
<1>8. Pending'
  <2> SUFFICES ASSUME NEW u \in Threads, InTransaction(u)', Live(conn[u])'
               PROVE  /\ sess'[conn'[u]].tx
                      /\ sess'[conn'[u]].work = RowsOf(Job(u)') \cap written'
                      /\ RowsOf(Job(u)') \cap committed' = {}
    BY DEF Pending, RowsOf
  <2>1. CASE u = t
    BY <1>3, <2>1 DEF InTransaction, Live
  <2>2. CASE u # t
    <3>1. pc[u] = "trans" /\ tr'[u] = tr[u] /\ conn'[u] = conn[u] /\ sess'[conn[u]] = sess[conn[u]]
      BY <1>2, <2>2 DEF InTransaction
    <3>2. InTransaction(u) /\ Live(conn[u])
      BY <3>1 DEF InTransaction, Live
    <3> QED
      BY <1>1, <1>3, <1>4, <1>6, <2>2, <3>1, <3>2 DEF Pending
  <2> QED
    BY <2>1, <2>2
<1>9. Unbroken'
  <2> SUFFICES ASSUME NEW u \in Threads, pc'[u] = "trans", ~tr'[u].error
               PROVE  /\ Job(u)' \notin broken'
                      /\ ~tr'[u].finished => RowsOf(Job(u)') \cap committed' = {}
    BY DEF Unbroken, RowsOf
  <2>1. CASE u = t
    BY <1>3, <2>1
  <2>2. CASE u # t
    BY <1>1, <1>3, <1>4, <1>6, <2>2 DEF Unbroken
  <2> QED
    BY <2>1, <2>2
<1>10. NotBegun'
  <2>1. \A j \in todo' : Untouched(j)'
    BY <1>1, <1>5, <1>6 DEF NotBegun, Untouched, RowsOf
  <2>2. ASSUME NEW u \in Threads, pc'[u] \in Early, Kind(u)' = "trans"
        PROVE  RowsOf(Job(u)') \cap written' = {} /\ RowsOf(Job(u)') \cap committed' = {} /\ Job(u)' \notin broken'
    <3>1. u # t /\ pc[u] \in Early /\ pc[u] # "idle"
      BY <2>2 DEF Early
    <3> QED
      BY <1>1, <1>3, <1>4, <1>6, <2>2, <3>1 DEF NotBegun, Untouched
  <2> QED
    BY <2>1, <2>2 DEF NotBegun, Untouched, RowsOf
<1>11. NotTransaction'
  <2> SUFFICES ASSUME NEW u \in Threads, pc'[u] # "idle", Kind(u)' # "trans"
               PROVE  RowsOf(Job(u)') \cap written' = {}
    BY DEF NotTransaction, RowsOf
  <2>1. CASE u = t
    BY <1>1, <1>3, <2>1 DEF NotTransaction
  <2>2. CASE u # t
    BY <1>1, <1>3, <1>4, <1>6, <2>2 DEF NotTransaction
  <2> QED
    BY <2>1, <2>2
<1>12. AckedIsStored' /\ AllOrNothing'
  <2>1. \A j \in Calls : RowsOf(j) \cap written' \cap committed' # {} =>
          j \notin broken' /\ RowsOf(j) \cap written' \subseteq committed'
    <3> SUFFICES ASSUME NEW j \in Calls, j # Job(t), RowsOf(j) \cap written' \cap committed' # {}
                 PROVE  j \notin broken' /\ RowsOf(j) \cap written' \subseteq committed'
      OBVIOUS
    <3>1. RowsOf(j) \cap written \cap committed # {}
      BY <1>6
    <3> QED
      BY <1>1, <1>6, <3>1 DEF AllOrNothing
  <2> QED
    BY <2>1 DEF AckedIsStored, AllOrNothing, RowsOf
<1> QED
  BY <1>7, <1>8, <1>9, <1>10, <1>11, <1>12 DEF TransactionInv

-----------------------------------------------------------------------------
(* TransactionInv is inductive. *)

\* What a thread knows of its own connection.
LEMMA OwnSession ==
  ASSUME ManagerInv, TransactionInv, NEW t \in Threads, pc[t] \in {"run", "begin", "trans", "drop"}
  PROVE  /\ conn[t] \in Conns /\ sess[conn[t]] \in Session /\ Job(t) \in Calls
         /\ sess[conn[t]].tx => /\ pc[t] = "trans" /\ ~tr[t].finished
                                /\ tr[t].error => ~tr[t].auto
         /\ ~sess[conn[t]].tx => sess[conn[t]].work = {}
<1>1. TypeOK /\ Held /\ Working /\ Sessions /\ OpenHasOwner
  BY DEF ManagerInv, TransactionInv
<1>2. conn[t] \in Conns /\ pc[t] \in Holding /\ Job(t) \in Calls
  BY <1>1 DEF Held, Holding, Working, Job, TypeOK
<1>3. sess[conn[t]] \in Session
  BY <1>1, <1>2 DEF TypeOK
<1>4. ASSUME sess[conn[t]].tx PROVE pc[t] = "trans" /\ ~tr[t].finished /\ (tr[t].error => ~tr[t].auto)
  <2>1. PICK u \in Threads : conn[u] = conn[t] /\ InTransaction(u) /\ (tr[u].error => ~tr[u].auto)
    BY <1>1, <1>2, <1>4 DEF OpenHasOwner
  <2>2. u = t
    BY <1>1, <1>2, <2>1, ManagerAssumption DEF Held
  <2> QED
    BY <2>1, <2>2 DEF InTransaction
<1> QED
  BY <1>1, <1>2, <1>3, <1>4 DEF Sessions

\* A command outside a transaction finds no transaction open: its row is committed.
LEMMA RowStored ==
  ASSUME ManagerInv, ManagerInv', TransactionInv, NEW t \in Threads,
         pc[t] = "run", pc' = [pc EXCEPT ![t] = "free"], UNCHANGED <<conn, call, tr, todo, written, broken>>,
         Store(conn[t], <<Job(t), 1>>), acked' = acked \cup {<<Job(t), 1>>}
  PROVE  TransactionInv'
<1>1. TypeOK /\ Working /\ NotTransaction /\ AckedIsStored
  BY DEF ManagerInv, TransactionInv
<1>2. ~sess[conn[t]].tx
  BY OwnSession
<1>3. UNCHANGED sess /\ committed' = committed \cup {<<Job(t), 1>>}
  BY <1>2 DEF Store
<1>4. pc'[t] = "free" /\ \A u \in Threads \ {t} : pc'[u] = pc[u] /\ tr'[u] = tr[u]
  BY <1>1 DEF TypeOK
<1>5. committed' \subseteq committed \cup RowsOf(Job(t)) /\ committed \subseteq committed'
  BY <1>3, RowFacts
<1>6. RowsOf(Job(t)) \cap written' = {}
  BY <1>1 DEF Working, NotTransaction
<1>7. acked' \subseteq committed'
  BY <1>1, <1>3 DEF AckedIsStored
<1>8. ~sess'[conn[t]].tx
  BY <1>2, <1>3
<1>9. \A d \in Conns \ {conn[t]} : sess'[d] = sess[d]
  BY <1>3
<1>10. RowsOf(Job(t)) \cap written' \cap committed' # {} =>
         Job(t) \notin broken' /\ RowsOf(Job(t)) \cap written' \subseteq committed'
  BY <1>6
<1> QED
  BY <1>4, <1>5, <1>7, <1>8, <1>9, <1>10, OneCall

\* BEGIN finds nothing to commit.
LEMMA Opened ==
  ASSUME ManagerInv, ManagerInv', TransactionInv, NEW t \in Threads,
         NEW auto \in BOOLEAN, OpenTransaction(t, auto), Live(conn[t])
  PROVE  TransactionInv'
<1>1. TypeOK /\ Working /\ NotBegun /\ AckedIsStored /\ pc[t] = "begin"
  BY DEF ManagerInv, TransactionInv, OpenTransaction
<1>2. /\ conn[t] \in Conns /\ sess[conn[t]] \in Session /\ Job(t) \in Calls
      /\ ~sess[conn[t]].tx /\ sess[conn[t]].work = {}
  BY <1>1, OwnSession
<1>3. /\ committed' = committed /\ UNCHANGED <<conn, call, todo, acked, written, broken>>
      /\ sess' = [sess EXCEPT ![conn[t]].tx = TRUE, ![conn[t]].work = {}]
      /\ pc' = [pc EXCEPT ![t] = "trans"]
      /\ tr' = [tr EXCEPT ![t] = [auto |-> auto, finished |-> FALSE, error |-> FALSE]]
  BY <1>2 DEF OpenTransaction
<1>4. sess'[conn[t]].tx /\ sess'[conn[t]].work = {} /\ \A d \in Conns \ {conn[t]} : sess'[d] = sess[d]
  <2>1. sess' = [sess EXCEPT ![conn[t]] = [sess[conn[t]] EXCEPT !.tx = TRUE, !.work = {}]]
    BY <1>3
  <2> QED
    BY <1>1, <1>2, <2>1 DEF TypeOK, Session
<1>5. /\ pc'[t] = "trans" /\ ~tr'[t].finished /\ ~tr'[t].error
      /\ \A u \in Threads \ {t} : pc'[u] = pc[u] /\ tr'[u] = tr[u]
  BY <1>1, <1>3 DEF TypeOK
<1>6. Kind(t) = "trans" /\ Untouched(Job(t))
  BY <1>1 DEF Working, NotBegun, Early
<1>7. RowsOf(Job(t)) \cap written' = {} /\ RowsOf(Job(t)) \cap committed' = {} /\ Job(t) \notin broken'
  BY <1>3, <1>6 DEF Untouched
<1>8. acked' \subseteq committed'
  BY <1>1, <1>3 DEF AckedIsStored
<1>9. /\ written' = written /\ committed' = committed /\ broken' = broken
      /\ sess'[conn[t]].tx => pc'[t] = "trans" /\ ~tr'[t].finished /\ (tr'[t].error => ~tr'[t].auto)
      /\ sess'[conn[t]].work = RowsOf(Job(t)) \cap written'
  BY <1>3, <1>4, <1>5, <1>7
<1> QED
  BY <1>1, <1>3, <1>4, <1>5, <1>6, <1>7, <1>8, <1>9, OneCall

\* A statement of a transaction that is not finished runs inside it.
LEMMA Written ==
  ASSUME ManagerInv, ManagerInv', TransactionInv, NEW t \in Threads,
         NEW r \in Rows, TransactionExecute(t, r), RunsInSession(conn[t]), Store(conn[t], r),
         written' = written \cup {r}, UNCHANGED <<wasted, tr, broken>>
  PROVE  TransactionInv'
<1>1. /\ TypeOK /\ Working /\ Pending /\ Unbroken /\ AckedIsStored
      /\ pc[t] = "trans" /\ ~tr[t].finished /\ r \in RowsOf(Job(t))
      /\ UNCHANGED <<pc, conn, call, todo, acked, tr, broken>>
  BY DEF ManagerInv, TransactionInv, TransactionExecute
<1>2. /\ conn[t] \in Conns /\ sess[conn[t]] \in Session
      /\ sess[conn[t]].tx => (tr[t].error => ~tr[t].auto)
  BY <1>1, OwnSession
<1>3. /\ sess[conn[t]].tx /\ sess[conn[t]].work = RowsOf(Job(t)) \cap written
      /\ RowsOf(Job(t)) \cap committed = {}
  BY <1>1 DEF Pending, InTransaction, RunsInSession
<1>4. committed' = committed /\ sess' = [sess EXCEPT ![conn[t]].work = sess[conn[t]].work \cup {r}]
  BY <1>3 DEF Store
<1>5. /\ sess'[conn[t]].tx /\ sess'[conn[t]].work = sess[conn[t]].work \cup {r}
      /\ \A d \in Conns \ {conn[t]} : sess'[d] = sess[d]
  <2>1. sess' = [sess EXCEPT ![conn[t]] = [sess[conn[t]] EXCEPT !.work = sess[conn[t]].work \cup {r}]]
    BY <1>4
  <2> QED
    BY <1>1, <1>2, <1>3, <2>1 DEF TypeOK, Session
<1>6. sess'[conn[t]].work = RowsOf(Job(t)) \cap written' /\ RowsOf(Job(t)) \cap committed' = {}
  BY <1>1, <1>3, <1>4, <1>5
<1>7. Kind(t) = "trans" /\ (~tr[t].error => Job(t) \notin broken)
  BY <1>1 DEF Working, Unbroken
<1>8. acked' \subseteq committed'
  BY <1>1, <1>4 DEF AckedIsStored
<1>9. /\ written \subseteq written' /\ written' \subseteq written \cup RowsOf(Job(t))
      /\ sess'[conn[t]].tx => pc'[t] = "trans" /\ ~tr'[t].finished /\ (tr'[t].error => ~tr'[t].auto)
  BY <1>1, <1>2, <1>3
<1> QED
  BY <1>1, <1>4, <1>5, <1>6, <1>7, <1>8, <1>9, OneCall

\* A statement fails: with the session the transaction is gone, or its end rolls it back.
LEMMA Refused ==
  ASSUME TRUE \notin FailingIn, ManagerInv, ManagerInv', TransactionInv, NEW t \in Threads,
         NEW r \in Rows, TransactionExecute(t, r), Live(conn[t]) => tr[t].auto \in FailingIn,
         tr' = [tr EXCEPT ![t].error = TRUE],
         broken' = IF tr[t].error THEN broken ELSE broken \cup {Job(t)},
         UNCHANGED <<sess, committed, written>>
  PROVE  TransactionInv'
<1>1. /\ TypeOK /\ Working /\ Sessions /\ Pending /\ Unbroken /\ AckedIsStored /\ AllOrNothing
      /\ pc[t] = "trans" /\ ~tr[t].finished
      /\ UNCHANGED <<pc, conn, call, todo, acked>>
  BY DEF ManagerInv, TransactionInv, TransactionExecute
<1>2. conn[t] \in Conns /\ Job(t) \in Calls
  BY <1>1, OwnSession
<1>3. /\ tr'[t].error /\ tr'[t].auto = tr[t].auto /\ ~tr'[t].finished
      /\ \A u \in Threads \ {t} : tr'[u] = tr[u]
  BY <1>1, ErrorSet DEF TypeOK
<1>4. sess[conn[t]].tx => ~tr[t].auto
  <2>1. tr[t].auto \in BOOLEAN
    BY <1>1 DEF TypeOK, Transaction
  <2> QED
    BY <1>1, <1>2, <2>1 DEF Sessions
<1>5. /\ sess[conn[t]].state = "live" => /\ sess[conn[t]].tx
                                         /\ sess[conn[t]].work = RowsOf(Job(t)) \cap written
                                         /\ RowsOf(Job(t)) \cap committed = {}
      /\ ~tr[t].error => RowsOf(Job(t)) \cap committed = {}
      /\ Kind(t) = "trans"
  BY <1>1 DEF Pending, InTransaction, Live, Unbroken, Working
<1>6. RowsOf(Job(t)) \cap written' \cap committed' # {} =>
        Job(t) \notin broken' /\ RowsOf(Job(t)) \cap written' \subseteq committed'
  BY <1>1, <1>2, <1>5 DEF AllOrNothing
<1>7. acked' \subseteq committed'
  BY <1>1 DEF AckedIsStored
<1>8. /\ broken \subseteq broken' /\ broken' \subseteq broken \cup {Job(t)}
      /\ sess'[conn[t]].tx => pc'[t] = "trans" /\ ~tr'[t].finished /\ (tr'[t].error => ~tr'[t].auto)
  BY <1>1, <1>3, <1>4
<1> QED
  BY <1>1, <1>3, <1>5, <1>6, <1>7, <1>8, OneCall

\* COMMIT commits all the transaction has written; ROLLBACK nothing.
LEMMA Ends ==
  ASSUME ManagerInv, ManagerInv', TransactionInv, NEW t \in Threads,
         NEW n \in {"trans", "free"}, Ending(t, n), Commit(t) \/ (Rollback(t) /\ UNCHANGED acked), Live(conn[t]),
         NEW rows, EndTransaction(t, rows),
         \/ rows = sess[conn[t]].work /\ acked' = acked \cup sess[conn[t]].work /\ ~tr[t].error /\ ~tr[t].finished
         \/ rows = {} /\ acked' = acked
  PROVE  TransactionInv'
<1>1. /\ TypeOK /\ Working /\ Pending /\ Unbroken /\ AckedIsStored /\ AllOrNothing
      /\ pc[t] \in {"trans", "drop"} /\ pc' = [pc EXCEPT ![t] = n]
      /\ UNCHANGED <<conn, call, todo, written, broken>>
  BY DEF ManagerInv, TransactionInv, Ending
<1>2. /\ conn[t] \in Conns /\ sess[conn[t]] \in Session /\ Job(t) \in Calls
      /\ ~sess[conn[t]].tx => sess[conn[t]].work = {}
      /\ sess[conn[t]].tx => InTransaction(t)
  BY <1>1, OwnSession DEF InTransaction
<1>3. /\ committed' = committed \cup rows /\ tr' = [tr EXCEPT ![t].finished = TRUE]
      /\ sess' = [sess EXCEPT ![conn[t]].tx = FALSE, ![conn[t]].work = {}]
  BY DEF EndTransaction
<1>4. ~sess'[conn[t]].tx /\ \A d \in Conns \ {conn[t]} : sess'[d] = sess[d]
  <2>1. sess' = [sess EXCEPT ![conn[t]] = [sess[conn[t]] EXCEPT !.tx = FALSE, !.work = {}]]
    BY <1>3
  <2> QED
    BY <1>1, <1>2, <2>1 DEF TypeOK, Session
<1>5. /\ tr'[t].finished /\ tr'[t].error = tr[t].error
      /\ \A u \in Threads \ {t} : pc'[u] = pc[u] /\ tr'[u] = tr[u]
      /\ pc'[t] = n
  BY <1>1, <1>3 DEF TypeOK, Transaction
<1>6. n = "trans" => pc[t] = "trans"
  BY DEF Ending
<1>7. Kind(t) = "trans"
  BY <1>1 DEF Working
<1>8. rows = {} \/ (rows = RowsOf(Job(t)) \cap written /\ pc[t] = "trans" /\ ~tr[t].error /\ Job(t) \notin broken)
  <2>1. CASE sess[conn[t]].tx
    <3>1. pc[t] = "trans" /\ sess[conn[t]].work = RowsOf(Job(t)) \cap written
      BY <1>1, <1>2, <2>1 DEF Pending, InTransaction
    <3> QED
      BY <1>1, <3>1 DEF Unbroken
  <2>2. CASE ~sess[conn[t]].tx
    BY <1>2, <2>2
  <2> QED
    BY <2>1, <2>2
<1>9. RowsOf(Job(t)) \cap written' \cap committed' # {} =>
        Job(t) \notin broken' /\ RowsOf(Job(t)) \cap written' \subseteq committed'
  <2>1. CASE rows = {}
    BY <1>1, <1>2, <1>3, <2>1 DEF AllOrNothing
  <2>2. CASE rows # {}
    BY <1>1, <1>3, <1>8, <2>2
  <2> QED
    BY <2>1, <2>2
<1>10. acked' \subseteq committed'
  BY <1>1, <1>3 DEF AckedIsStored
<1>11. committed' \subseteq committed \cup RowsOf(Job(t)) /\ committed \subseteq committed'
  BY <1>3, <1>8
<1>12. pc'[t] = "trans" /\ ~tr'[t].error => Job(t) \notin broken'
  BY <1>1, <1>5, <1>6 DEF Unbroken
<1> QED
  BY <1>1, <1>4, <1>5, <1>7, <1>9, <1>10, <1>11, <1>12, OneCall

\* The answer to COMMIT is lost: the server has all, and the session is gone.
LEMMA Lost ==
  ASSUME ManagerInv, ManagerInv', TransactionInv, NEW t \in Threads,
         NEW n \in {"trans", "free"}, Ending(t, n), EndFails(t), Live(conn[t]),
         committed' = committed \cup sess[conn[t]].work, sess' = [sess EXCEPT ![conn[t]] = Ended(sess[conn[t]])],
         UNCHANGED acked, ~tr[t].error, ~tr[t].finished
  PROVE  TransactionInv'
<1>1. /\ TypeOK /\ Working /\ Errors /\ Pending /\ Unbroken /\ AckedIsStored
      /\ pc[t] \in {"trans", "drop"} /\ pc' = [pc EXCEPT ![t] = n]
      /\ UNCHANGED <<conn, call, todo, written, broken>> /\ tr' = [tr EXCEPT ![t].error = TRUE]
  BY DEF ManagerInv, TransactionInv, Ending, EndFails
<1>2. pc[t] = "trans" /\ Kind(t) = "trans"
  BY <1>1 DEF Errors, Working
<1>3. /\ conn[t] \in Conns /\ sess[conn[t]] \in Session
      /\ sess[conn[t]].work = RowsOf(Job(t)) \cap written /\ Job(t) \notin broken
  BY <1>1, <1>2, OwnSession DEF Pending, InTransaction, Unbroken
<1>4. ~sess'[conn[t]].tx /\ sess'[conn[t]].state # "live" /\ \A d \in Conns \ {conn[t]} : sess'[d] = sess[d]
  BY <1>1, <1>3, EndedFacts DEF TypeOK
<1>5. /\ tr'[t].error /\ pc'[t] = n
      /\ \A u \in Threads \ {t} : pc'[u] = pc[u] /\ tr'[u] = tr[u]
  BY <1>1, ErrorSet DEF TypeOK
<1>6. RowsOf(Job(t)) \cap written' \subseteq committed' /\ Job(t) \notin broken'
  BY <1>1, <1>3
<1>7. committed' \subseteq committed \cup RowsOf(Job(t)) /\ committed \subseteq committed'
  BY <1>3
<1>8. acked' \subseteq committed'
  BY <1>1 DEF AckedIsStored
<1> QED
  BY <1>1, <1>2, <1>4, <1>5, <1>6, <1>7, <1>8, OneCall

\* Nothing changes on the server, because nothing is open there.
LEMMA NothingOpen ==
  ASSUME ManagerInv, ManagerInv', TransactionInv, NEW t \in Threads,
         NEW n \in {"trans", "free"}, Ending(t, n), UNCHANGED <<committed, sess, acked>>,
         UNCHANGED tr \/ (tr' = [tr EXCEPT ![t].error = TRUE] /\ ~Live(conn[t])),
         n = "free" => ~sess[conn[t]].tx
  PROVE  TransactionInv'
<1>1. /\ TypeOK /\ Working /\ Sessions /\ Pending /\ Unbroken /\ AckedIsStored /\ AllOrNothing
      /\ pc[t] \in {"trans", "drop"} /\ pc' = [pc EXCEPT ![t] = n] /\ (n = "trans" => pc[t] = "trans")
      /\ UNCHANGED <<conn, call, todo, written, broken>>
  BY DEF ManagerInv, TransactionInv, Ending
<1>2. /\ conn[t] \in Conns /\ Job(t) \in Calls
      /\ sess[conn[t]].tx => pc[t] = "trans" /\ ~tr[t].finished /\ (tr[t].error => ~tr[t].auto)
  BY <1>1, OwnSession
<1>3. /\ pc'[t] = n /\ tr'[t].finished = tr[t].finished
      /\ tr'[t] = tr[t] \/ (tr'[t].error /\ ~sess[conn[t]].tx)
      /\ \A u \in Threads \ {t} : pc'[u] = pc[u] /\ tr'[u] = tr[u]
  <2>1. CASE UNCHANGED tr
    BY <1>1, <2>1 DEF TypeOK
  <2>2. CASE tr' = [tr EXCEPT ![t].error = TRUE] /\ ~Live(conn[t])
    BY <1>1, <1>2, <2>2, ErrorSet DEF TypeOK, Sessions
  <2> QED
    BY <2>1, <2>2
<1>4. sess[conn[t]].tx => /\ pc'[t] = "trans" /\ ~tr'[t].finished
                          /\ tr'[t].error => ~tr'[t].auto
  BY <1>1, <1>2, <1>3
<1>5. pc[t] = "trans" /\ ~tr[t].finished /\ sess[conn[t]].state = "live" =>
        /\ sess[conn[t]].tx
        /\ sess[conn[t]].work = RowsOf(Job(t)) \cap written
        /\ RowsOf(Job(t)) \cap committed = {}
  BY <1>1 DEF Pending, InTransaction, Live
<1>6. pc'[t] = "trans" /\ ~tr'[t].error =>
        /\ Job(t) \notin broken
        /\ ~tr'[t].finished => RowsOf(Job(t)) \cap committed = {}
  BY <1>1, <1>3 DEF Unbroken
<1>7. RowsOf(Job(t)) \cap written \cap committed # {} =>
        Job(t) \notin broken /\ RowsOf(Job(t)) \cap written \subseteq committed
  BY <1>1, <1>2 DEF AllOrNothing
<1>8. acked' \subseteq committed' /\ Kind(t) = "trans"
  BY <1>1 DEF AckedIsStored, Working
<1> QED
  BY <1>1, <1>3, <1>4, <1>5, <1>6, <1>7, <1>8, OneCall

\* However a transaction ends: a destructor that leaves it open finds it finished, or
\* failed, and one that failed and is still open is rolled back.
LEMMA EndingTransactions ==
  ASSUME ManagerInv, ManagerInv', TransactionInv, NEW t \in Threads, NEW n \in {"trans", "free"},
         Ending(t, n), Commit(t) \/ (Rollback(t) /\ UNCHANGED acked), n = "free" => Destructor(t)
  PROVE  TransactionInv'
<1>1. pc[t] \in {"trans", "drop"} /\ TypeOK /\ Sessions
  BY DEF Ending, ManagerInv
<1>2. /\ conn[t] \in Conns
      /\ sess[conn[t]].tx => pc[t] = "trans" /\ ~tr[t].finished /\ (tr[t].error => ~tr[t].auto)
  BY <1>1, OwnSession
<1>3. CASE Nothing
  <2>1. n = "free" => ~sess[conn[t]].tx
    <3> SUFFICES ASSUME n = "free", sess[conn[t]].tx PROVE FALSE
      OBVIOUS
    <3>1. Live(conn[t]) /\ ~tr[t].finished /\ (tr[t].error => ~tr[t].auto)
      BY <1>1, <1>2 DEF Sessions
    <3>2. tr' = tr /\ tr \in [Threads -> Transaction]
      BY <1>1, <1>3 DEF Nothing, TypeOK
    <3>3. EndTransaction(t, sess[conn[t]].work) \/ EndTransaction(t, {})
          \/ (EndFails(t) /\ ~tr[t].error)
      BY <3>1 DEF Destructor, Commit, Rollback, NothingToCommit
    <3>4. tr[t] \in Transaction
      BY <3>2
    <3>5. tr' = [tr EXCEPT ![t].finished = TRUE] \/ (tr' = [tr EXCEPT ![t].error = TRUE] /\ ~tr[t].error)
      BY <3>3 DEF EndTransaction, EndFails
    <3>6. ASSUME tr' = [tr EXCEPT ![t].finished = TRUE] PROVE FALSE
      BY <3>1, <3>2, <3>4, <3>6 DEF Transaction
    <3>7. ASSUME tr' = [tr EXCEPT ![t].error = TRUE] PROVE tr[t].error
      BY <3>2, <3>7, ErrorSet
    <3> QED
      BY <3>5, <3>6, <3>7
  <2> QED
    BY <1>3, <2>1, NothingOpen DEF Nothing
<1>4. CASE Commit(t) /\ ~Nothing
  <2>1. ~tr[t].finished /\ ~tr[t].error
    BY <1>4 DEF Commit, NothingToCommit, Nothing
  <2>2. CASE /\ Live(conn[t]) /\ EndTransaction(t, sess[conn[t]].work)
             /\ acked' = acked \cup sess[conn[t]].work
    <3> DEFINE rows == sess[conn[t]].work
    <3>1. EndTransaction(t, rows) /\ acked' = acked \cup rows /\ Live(conn[t])
      BY <2>2
    <3> QED
      BY <1>4, <2>1, <3>1, Ends
  <2>3. CASE /\ Live(conn[t]) /\ EndFails(t) /\ committed' = committed \cup sess[conn[t]].work
             /\ sess' = [sess EXCEPT ![conn[t]] = Ended(sess[conn[t]])] /\ UNCHANGED acked
    BY <2>1, <2>3, Lost
  <2>4. CASE ~Live(conn[t]) /\ EndFails(t) /\ UNCHANGED <<committed, sess, drops, acked>>
    <3>1. sess[conn[t]].tx => Live(conn[t])
      BY <1>1, <1>2 DEF Sessions
    <3> QED
      BY <2>4, <3>1, NothingOpen DEF EndFails
  <2> QED
    BY <1>4, <2>1, <2>2, <2>3, <2>4 DEF Commit, NothingToCommit
<1>5. CASE Rollback(t) /\ UNCHANGED acked /\ ~Nothing
  <2>1. CASE Live(conn[t]) /\ EndTransaction(t, {})
    BY <1>5, <2>1, Ends
  <2>2. CASE ~Live(conn[t]) /\ EndFails(t) /\ UNCHANGED <<committed, sess, drops>>
    <3>1. sess[conn[t]].tx => Live(conn[t])
      BY <1>1, <1>2 DEF Sessions
    <3> QED
      BY <1>5, <2>2, <3>1, NothingOpen DEF EndFails
  <2> QED
    BY <1>5, <2>1, <2>2 DEF Rollback, Nothing
<1> QED
  BY <1>3, <1>4, <1>5

\* The steps of a call that TransactionInv is about.
LEMMA NoisyTransactions ==
  ASSUME TRUE \notin FailingIn, ManagerInv, ManagerInv', TransactionInv, NEW t \in Threads, Noisy(t)
  PROVE  Quiet \/ TransactionInv'
<1>1. TypeOK
  BY DEF ManagerInv
<1>2. CASE Execute(t) /\ pc'[t] = "free"
  <2>1. /\ pc[t] = "run" /\ pc' = [pc EXCEPT ![t] = "free"]
        /\ UNCHANGED <<conn, call, tr, todo, written, broken>>
        /\ Store(conn[t], <<Job(t), 1>>) /\ acked' = acked \cup {<<Job(t), 1>>}
    BY <1>1, <1>2 DEF Execute, TypeOK
  <2> QED
    BY <2>1, RowStored
<1>3. CASE Statement(t)
  <2>1. CASE UNCHANGED <<sess, committed, acked>>
    BY <1>3, <2>1, NoRowQuiet
  <2>2. CASE Store(conn[t], <<Job(t), 1>>) /\ acked' = acked \cup {<<Job(t), 1>>}
    <3>1. /\ pc[t] = "run" /\ pc' = [pc EXCEPT ![t] = "free"]
          /\ UNCHANGED <<conn, call, tr, todo, written, broken>>
      BY <1>3 DEF Statement
    <3> QED
      BY <2>2, <3>1, RowStored
  <2> QED
    BY <1>3, <2>1, <2>2 DEF Statement
<1>4. CASE \E auto \in BOOLEAN : OpenTransaction(t, auto)
  BY <1>4, Opened, NotOpenedQuiet
<1>5. CASE \E r \in Rows : TransactionExecute(t, r)
  <2>1. PICK r \in Rows : TransactionExecute(t, r)
    BY <1>5
  <2>2. CASE /\ RunsInSession(conn[t]) /\ Store(conn[t], r) /\ written' = written \cup {r}
             /\ UNCHANGED <<wasted, tr, broken>>
    BY <2>1, <2>2, Written
  <2>3. CASE /\ Live(conn[t]) => tr[t].auto \in FailingIn
             /\ tr' = [tr EXCEPT ![t].error = TRUE]
             /\ broken' = IF tr[t].error THEN broken ELSE broken \cup {Job(t)}
             /\ UNCHANGED <<sess, committed, written>>
    BY <2>1, <2>3, Refused
  <2> QED
    BY <2>1, <2>2, <2>3 DEF TransactionExecute
<1>6. CASE Finish(t)
  BY <1>1, <1>6, FinishEnds, EndingTransactions
<1>7. CASE DropTransaction(t)
  BY <1>7, DropEnds, EndingTransactions
<1> QED
  BY <1>2, <1>3, <1>4, <1>5, <1>6, <1>7 DEF Noisy

LEMMA InitTransactions == Init => TransactionInv
BY NewSessions DEF Init, TransactionInv, OpenHasOwner, Pending, Unbroken, NotBegun, Untouched, NotTransaction,
                   AckedIsStored, AllOrNothing, InTransaction, Early

LEMMA NextTransactions ==
  ASSUME TRUE \notin FailingIn, ManagerInv, TransactionInv, [Next]_vars
  PROVE  TransactionInv'
BY NextCases, QuietTransactions, NoisyTransactions

\* Where the server refuses no statement of an auto_commit transaction.
THEOREM Transactions ==
  ASSUME TRUE \notin FailingIn
  PROVE  Spec => []TransactionInv
<1>1. ManagerInv /\ TransactionInv /\ [Next]_vars => TransactionInv'
  BY NextTransactions
<1> QED
  BY <1>1, InitTransactions, Manager, PTL DEF Spec

\* What a caller was told is stored is stored, whoever had the connection before, unless
\* an auto_commit transaction with a refused statement has left its session open.
THEOREM AckedStored ==
  ASSUME TRUE \notin FailingIn
  PROVE  Spec => []AckedIsStored
<1>1. TransactionInv => AckedIsStored
  BY DEF TransactionInv
<1> QED
  BY <1>1, Transactions, PTL

\* A transaction leaves all it has written or nothing, whatever sessions end, whatever
\* answer to a COMMIT is lost, and whoever uses the connection next, under the same proviso.
THEOREM Atomic ==
  ASSUME TRUE \notin FailingIn
  PROVE  Spec => []AllOrNothing
<1>1. TransactionInv => AllOrNothing
  BY DEF TransactionInv
<1> QED
  BY <1>1, Transactions, PTL
=============================================================================
