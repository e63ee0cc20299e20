---------------------------- MODULE ServiceProofs ----------------------------
(***************************************************************************)
(* Proofs about the query service, for any number of clients, workers and  *)
(* descriptors.                                                            *)
(***************************************************************************)
EXTENDS QueryService, TLAPS

-----------------------------------------------------------------------------
(* The inductive invariant. *)

\* A connection that waits for accept has a client and nothing else yet.
Untouched(c) == peer[c] # "out" /\ sock[c] = NoFd /\ outcome[c] = "none"
BacklogUntouched ==
  /\ \A i \in 1..Len(backlog) : Untouched(backlog[i])
  /\ \A i, j \in 1..Len(backlog) : backlog[i] = backlog[j] => i = j

\* A connection is being served exactly while its Socket has a descriptor, and what
\* can be received is what its client has sent.
ServedWhileConnected ==
  \A c \in Conns : /\ Connected(c) <=> outcome[c] = "served"
                   /\ peer[c] = "out" => outcome[c] = "none"
                   /\ request[c] # "none" => asked[c] = request[c]

\* The task that is about to answer has received a GET and its socket is open.
AnswererConnected ==
  stage = "answer" =>
    \E w \in Workers : wstate[w] = "run" /\ Connected(running[w]) /\ asked[running[w]] = "get"

\* The listening socket was reported for a connection that still waits, every other
\* event finds a Socket in sock_list.
EventsFindSockets ==
  /\ Listen \in events => backlog # <<>>
  /\ \A e \in events \ {Listen} : sockList[e.fd] \in Conns

\* The connections that were reported ready themselves: they stand in an event, or
\* have a task and never got one from another connection's event.
Queued(c) == \E i \in 1..Len(tasks) : tasks[i] = c
Runs(c) == \E w \in Workers : running[w] = c
Reported(c) == \/ \E e \in events \ {Listen} : e.of = c
               \/ c \notin stale /\ (Queued(c) \/ Runs(c))

\* Such a connection has been accepted, and nobody has received what made it ready
\* except the task that is about to answer.
ReportedStaysReadable ==
  \A c \in Conns : Reported(c) =>
    /\ outcome[c] # "none"
    /\ Connected(c) => Readable(c) \/ (stage = "answer" /\ Runs(c))

ServiceInv ==
  /\ TypeOK /\ RunsUnderLock /\ DescriptorsAgree /\ AnsweredOnce
  /\ BacklogUntouched /\ ServedWhileConnected /\ AnswererConnected
  /\ EventsFindSockets /\ ReportedStaysReadable

-----------------------------------------------------------------------------
(* Every action keeps the invariant. *)

LEMMA ConnectKeepsInv ==
  ASSUME ServiceInv, NEW c \in Conns, Connect(c)
  PROVE  ServiceInv'
<1> USE ServiceAssumption, PoolAssumption
        DEF ServiceInv, TypeOK, PoolTypeOK, Conns, Absent, Connect, poolVars, netVars, fdVars, mainVars
<1>1. TypeOK'
  BY DEF Event
<1>2. RunsUnderLock'
  BY DEF RunsUnderLock
<1>3. DescriptorsAgree'
  BY DEF DescriptorsAgree
<1>4. AnsweredOnce'
  BY DEF AnsweredOnce
<1>5. BacklogUntouched'
  <2>1. \A i \in 1..Len(backlog) : backlog[i] # c
    BY DEF BacklogUntouched, Untouched
  <2>2. Untouched(c)' /\ \A i \in 1..Len(backlog) : Untouched(backlog[i])'
    BY DEF ServedWhileConnected, Connected, BacklogUntouched, Untouched
  <2>3. /\ Len(backlog') = Len(backlog) + 1 /\ backlog'[Len(backlog) + 1] = c
        /\ \A i \in 1..Len(backlog) : backlog'[i] = backlog[i]
    OBVIOUS
  <2>4. \A i \in 1..Len(backlog') : i \in 1..Len(backlog) \/ i = Len(backlog) + 1
    BY <2>3
  <2> QED
    BY <2>1, <2>2, <2>3, <2>4 DEF BacklogUntouched, Untouched
<1>6. ServedWhileConnected'
  BY DEF ServedWhileConnected, Connected
<1>7. AnswererConnected'
  BY DEF AnswererConnected, Connected
<1>8. EventsFindSockets'
  BY DEF EventsFindSockets
<1>9. ReportedStaysReadable'
  BY DEF ReportedStaysReadable, Reported, Queued, Runs, Connected, Readable
<1> QED
  BY <1>1, <1>2, <1>3, <1>4, <1>5, <1>6, <1>7, <1>8, <1>9

LEMMA SendRequestKeepsInv ==
  ASSUME ServiceInv, NEW c \in Conns, NEW r \in {"get", "other"}, SendRequest(c, r)
  PROVE  ServiceInv'
<1> USE ServiceAssumption, PoolAssumption
        DEF ServiceInv, TypeOK, PoolTypeOK, Conns, Absent, SendRequest, poolVars, netVars, fdVars, mainVars
<1>1. TypeOK'
  BY DEF Event
<1>2. RunsUnderLock'
  BY DEF RunsUnderLock
<1>3. DescriptorsAgree'
  BY DEF DescriptorsAgree
<1>4. AnsweredOnce'
  BY DEF AnsweredOnce
<1>5. BacklogUntouched'
  BY DEF BacklogUntouched, Untouched
<1>6. ServedWhileConnected'
  BY DEF ServedWhileConnected, Connected
<1>7. AnswererConnected'
  BY DEF AnswererConnected, Connected
<1>8. EventsFindSockets'
  BY DEF EventsFindSockets
<1>9. ReportedStaysReadable'
  BY DEF ReportedStaysReadable, Reported, Queued, Runs, Connected, Readable
<1> QED
  BY <1>1, <1>2, <1>3, <1>4, <1>5, <1>6, <1>7, <1>8, <1>9

LEMMA HangupKeepsInv ==
  ASSUME ServiceInv, NEW c \in Conns, Hangup(c)
  PROVE  ServiceInv'
<1> USE ServiceAssumption, PoolAssumption
        DEF ServiceInv, TypeOK, PoolTypeOK, Conns, Absent, Hangup, poolVars, netVars, fdVars, mainVars
<1>1. TypeOK'
  BY DEF Event
<1>2. RunsUnderLock'
  BY DEF RunsUnderLock
<1>3. DescriptorsAgree'
  BY DEF DescriptorsAgree
<1>4. AnsweredOnce'
  BY DEF AnsweredOnce
<1>5. BacklogUntouched'
  BY DEF BacklogUntouched, Untouched
<1>6. ServedWhileConnected'
  BY DEF ServedWhileConnected, Connected
<1>7. AnswererConnected'
  <2> SUFFICES ASSUME stage = "answer"
               PROVE  \E w \in Workers : wstate[w] = "run" /\ Connected(running[w]) /\ asked[running[w]] = "get"
    BY DEF AnswererConnected, Connected
  <2> QED
    BY DEF AnswererConnected
<1>8. EventsFindSockets'
  BY DEF EventsFindSockets
<1>9. ReportedStaysReadable'
  BY DEF ReportedStaysReadable, Reported, Queued, Runs, Connected, Readable
<1> QED
  BY <1>1, <1>2, <1>3, <1>4, <1>5, <1>6, <1>7, <1>8, <1>9

LEMMA WaitKeepsInv ==
  ASSUME ServiceInv, Wait
  PROVE  ServiceInv'
<1> USE ServiceAssumption, PoolAssumption
        DEF ServiceInv, TypeOK, PoolTypeOK, Conns, Absent, Wait, poolVars, netVars, fdVars, mainVars
<1>0. \A e \in events' : \/ e = Listen /\ backlog # <<>>
                         \/ \E f \in Fds : /\ e = [fd |-> f, of |-> kernel[f]] /\ kernel[f] \in Tasks
                                          /\ Readable(kernel[f]) /\ e \in [fd : Fds, of : Tasks]
  <2> SUFFICES ASSUME NEW e \in Ready, e # Listen \/ backlog = <<>>
               PROVE  \E f \in Fds : /\ e = [fd |-> f, of |-> kernel[f]] /\ kernel[f] \in Tasks
                                     /\ Readable(kernel[f]) /\ e \in [fd : Fds, of : Tasks]
    OBVIOUS
  <2>1. PICK f \in ReadyFds : e = [fd |-> f, of |-> kernel[f]]
    BY DEF Ready
  <2>2. f \in Fds /\ kernel[f] \in Tasks /\ Readable(kernel[f])
    BY DEF ReadyFds, Registered
  <2> QED
    BY <2>1, <2>2
<1>1. TypeOK'
  <2>1. events' \subseteq Event
    BY <1>0 DEF Event
  <2> QED
    BY <2>1
<1>2. RunsUnderLock'
  BY DEF RunsUnderLock
<1>3. DescriptorsAgree'
  BY DEF DescriptorsAgree
<1>4. AnsweredOnce'
  BY DEF AnsweredOnce
<1>5. BacklogUntouched'
  BY DEF BacklogUntouched, Untouched
<1>6. ServedWhileConnected'
  BY DEF ServedWhileConnected, Connected
<1>7. AnswererConnected'
  BY DEF AnswererConnected, Connected
<1>8. EventsFindSockets'
  <2>1. Listen \in events' => backlog # <<>>
    BY <1>0
  <2>2. ASSUME NEW e \in events' \ {Listen} PROVE sockList[e.fd] \in Conns
    <3>1. PICK f \in Fds : e = [fd |-> f, of |-> kernel[f]] /\ kernel[f] \in Tasks
      BY <1>0
    <3>2. sockList[f] = kernel[f] /\ e.fd = f
      BY <3>1 DEF DescriptorsAgree
    <3> QED
      BY <3>1, <3>2
  <2> QED
    BY <2>1, <2>2 DEF EventsFindSockets
<1>9. ReportedStaysReadable'
  <2> SUFFICES ASSUME NEW c \in Conns, Reported(c)'
               PROVE  /\ outcome[c] # "none"
                      /\ Connected(c) => Readable(c) \/ (stage = "answer" /\ Runs(c))
    BY DEF ReportedStaysReadable, Connected, Readable, Runs
  <2>1. CASE \E e \in events' \ {Listen} : e.of = c
    BY <1>0, <2>1 DEF DescriptorsAgree, ServedWhileConnected, Connected
  <2>2. CASE c \notin stale /\ (Queued(c) \/ Runs(c))
    BY <2>2 DEF ReportedStaysReadable, Reported
  <2> QED
    BY <2>1, <2>2 DEF Reported, Queued, Runs
<1> QED
  BY <1>1, <1>2, <1>3, <1>4, <1>5, <1>6, <1>7, <1>8, <1>9

LEMMA NextWaitKeepsInv ==
  ASSUME ServiceInv, NextWait
  PROVE  ServiceInv'
<1> USE ServiceAssumption, PoolAssumption
        DEF ServiceInv, TypeOK, PoolTypeOK, Conns, Absent, NextWait, poolVars, netVars, fdVars, mainVars
<1>1. TypeOK'
  BY DEF Event
<1>2. RunsUnderLock'
  BY DEF RunsUnderLock
<1>3. DescriptorsAgree'
  BY DEF DescriptorsAgree
<1>4. AnsweredOnce'
  BY DEF AnsweredOnce
<1>5. BacklogUntouched'
  BY DEF BacklogUntouched, Untouched
<1>6. ServedWhileConnected'
  BY DEF ServedWhileConnected, Connected
<1>7. AnswererConnected'
  BY DEF AnswererConnected, Connected
<1>8. EventsFindSockets'
  BY DEF EventsFindSockets
<1>9. ReportedStaysReadable'
  BY DEF ReportedStaysReadable, Reported, Queued, Runs, Connected, Readable
<1> QED
  BY <1>1, <1>2, <1>3, <1>4, <1>5, <1>6, <1>7, <1>8, <1>9

LEMMA AcceptKeepsInv ==
  ASSUME ServiceInv, Accept
  PROVE  ServiceInv'
<1> USE ServiceAssumption, PoolAssumption
        DEF ServiceInv, TypeOK, PoolTypeOK, Conns, Absent, Accept, poolVars, netVars, fdVars, mainVars
<1>0. PICK f \in Fds : /\ kernel[f] = NoTask /\ kernel' = [kernel EXCEPT ![f] = Head(backlog)]
                       /\ sockList' = [sockList EXCEPT ![f] = Head(backlog)]
                       /\ sock' = [sock EXCEPT ![Head(backlog)] = f]
                       /\ outcome' = [outcome EXCEPT ![Head(backlog)] = "served"]
  BY DEF FreeFds, Listed
<1> DEFINE c == Head(backlog)
<1>a. /\ backlog # <<>> /\ c \in Tasks /\ c = backlog[1] /\ 1 \in 1..Len(backlog)
      /\ peer[c] # "out" /\ sock[c] = NoFd /\ outcome[c] = "none" /\ f # NoFd
  BY DEF EventsFindSockets, BacklogUntouched, Untouched
<1>b. backlog' \in Seq(Tasks) /\ Len(backlog') = Len(backlog) - 1
  BY <1>a
<1>c. \A i \in 1..Len(backlog') : backlog'[i] = backlog[i + 1] /\ i + 1 \in 1..Len(backlog)
  BY <1>a, <1>b
<1> HIDE DEF c
<1>1. TypeOK'
  <2>1. /\ kernel' \in [Fds -> Tasks \cup {NoTask}] /\ sockList' \in [Fds -> Tasks \cup {NoTask}]
        /\ sock' \in [Tasks -> Fds \cup {NoFd}]
        /\ outcome' \in [Tasks -> {"none", "served", "eof", "refused", "answered"}]
    BY <1>0, <1>a DEF c
  <2>2. backlog' \in Seq(Tasks) /\ events' \subseteq Event
    BY <1>b
  <2> QED
    BY <2>1, <2>2
<1>2. RunsUnderLock'
  BY DEF RunsUnderLock
<1>3. DescriptorsAgree'
  <2>1. \A g \in Fds, d \in Conns : kernel'[g] = d <=> sock'[d] = g
    BY <1>0, <1>a DEF DescriptorsAgree, c
  <2>2. \A g \in Fds : kernel'[g] # Absent => sockList'[g] = kernel'[g]
    BY <1>0, <1>a DEF DescriptorsAgree, c
  <2> QED
    BY <2>1, <2>2 DEF DescriptorsAgree
<1>4. AnsweredOnce'
  BY <1>0, <1>a DEF c, AnsweredOnce
<1>5. BacklogUntouched'
  <2>1. ASSUME NEW i \in 1..Len(backlog') PROVE backlog'[i] # c
    <3>1. backlog'[i] = backlog[i + 1] /\ i + 1 \in 1..Len(backlog) /\ i + 1 # 1
      BY <1>c
    <3> QED
      BY <1>a, <3>1 DEF BacklogUntouched
  <2>2. ASSUME NEW i \in 1..Len(backlog') PROVE Untouched(backlog[i])'
    <3>1. backlog'[i] = backlog[i + 1] /\ Untouched(backlog[i + 1]) /\ backlog[i + 1] \in Tasks
      BY <1>c DEF BacklogUntouched
    <3>2. sock'[backlog'[i]] = sock[backlog'[i]] /\ outcome'[backlog'[i]] = outcome[backlog'[i]]
      BY <1>0, <2>1, <3>1 DEF c
    <3> QED
      BY <3>1, <3>2 DEF Untouched
  <2>3. ASSUME NEW i \in 1..Len(backlog'), NEW j \in 1..Len(backlog'), backlog'[i] = backlog'[j] PROVE i = j
    <3>1. i + 1 = j + 1
      BY <1>c, <2>3 DEF BacklogUntouched
    <3> QED
      BY <1>b, <3>1
  <2> QED
    BY <2>2, <2>3 DEF BacklogUntouched
<1>6. ServedWhileConnected'
  BY <1>0, <1>a DEF c, ServedWhileConnected, Connected
<1>7. AnswererConnected'
  BY <1>0, <1>a DEF c, AnswererConnected, Connected
<1>8. EventsFindSockets'
  <2>1. \A e \in events' \ {Listen} : sockList'[e.fd] \in Conns
    BY <1>0, <1>a DEF EventsFindSockets, Event, c
  <2> QED
    BY <2>1 DEF EventsFindSockets
<1>9. ReportedStaysReadable'
  <2> SUFFICES ASSUME NEW d \in Conns, Reported(d)'
               PROVE  /\ outcome'[d] # "none"
                      /\ sock'[d] # NoFd => Readable(d)' \/ (stage' = "answer" /\ Runs(d)')
    BY DEF ReportedStaysReadable, Connected
  <2>1. Reported(d)
    BY DEF Reported, Queued, Runs
  <2>2. d # c
    BY <1>a, <2>1 DEF ReportedStaysReadable
  <2> QED
    BY <1>0, <1>a, <2>1, <2>2 DEF ReportedStaysReadable, Connected, Readable, Runs, c
<1> QED
  BY <1>1, <1>2, <1>3, <1>4, <1>5, <1>6, <1>7, <1>8, <1>9

LEMMA AcceptFailsKeepsInv ==
  ASSUME ServiceInv, AcceptFails
  PROVE  ServiceInv'
<1> USE ServiceAssumption, PoolAssumption
        DEF ServiceInv, TypeOK, PoolTypeOK, Conns, Absent, AcceptFails, poolVars, netVars, fdVars, mainVars
<1>1. TypeOK'
  BY DEF Event
<1>2. RunsUnderLock'
  BY DEF RunsUnderLock
<1>3. DescriptorsAgree'
  BY DEF DescriptorsAgree
<1>4. AnsweredOnce'
  BY DEF AnsweredOnce
<1>5. BacklogUntouched'
  BY DEF BacklogUntouched, Untouched
<1>6. ServedWhileConnected'
  BY DEF ServedWhileConnected, Connected
<1>7. AnswererConnected'
  BY DEF AnswererConnected, Connected
<1>8. EventsFindSockets'
  BY DEF EventsFindSockets
<1>9. ReportedStaysReadable'
  BY DEF ReportedStaysReadable, Reported, Queued, Runs, Connected, Readable
<1> QED
  BY <1>1, <1>2, <1>3, <1>4, <1>5, <1>6, <1>7, <1>8, <1>9

LEMMA DispatchKeepsInv ==
  ASSUME ServiceInv, NEW e \in events, Dispatch(e)
  PROVE  ServiceInv'
<1> USE ServiceAssumption, PoolAssumption
        DEF ServiceInv, TypeOK, PoolTypeOK, Conns, Absent, Dispatch, AddTask, poolVars, netVars, fdVars, mainVars
<1>0. e \in events \ {Listen} /\ sockList[e.fd] \in Tasks
  BY DEF EventsFindSockets
<1>1. TypeOK'
  BY <1>0 DEF Event
<1>2. RunsUnderLock'
  BY DEF RunsUnderLock
<1>3. DescriptorsAgree'
  BY DEF DescriptorsAgree
<1>4. AnsweredOnce'
  BY DEF AnsweredOnce
<1>5. BacklogUntouched'
  BY DEF BacklogUntouched, Untouched
<1>6. ServedWhileConnected'
  BY DEF ServedWhileConnected, Connected
<1>7. AnswererConnected'
  BY DEF AnswererConnected, Connected
<1>8. EventsFindSockets'
  BY DEF EventsFindSockets
<1>9. ReportedStaysReadable'
  BY DEF ReportedStaysReadable, Reported, Queued, Runs, Connected, Readable
<1> QED
  BY <1>1, <1>2, <1>3, <1>4, <1>5, <1>6, <1>7, <1>8, <1>9

LEMMA TakeKeepsInv ==
  ASSUME ServiceInv, NEW w \in Workers, Take(w)
  PROVE  ServiceInv'
<1> USE ServiceAssumption, PoolAssumption
        DEF ServiceInv, TypeOK, PoolTypeOK, Conns, Absent, Take, TakeTask, NextTask, Popped, LockFree, poolVars, netVars, fdVars, mainVars
<1>0. /\ Head(tasks) \in Tasks /\ tasks' \in Seq(Tasks) /\ Len(tasks') = Len(tasks) - 1
      /\ 1 \in 1..Len(tasks) /\ Head(tasks) = tasks[1]
      /\ \A i \in 1..Len(tasks') : tasks'[i] = tasks[i + 1] /\ i + 1 \in 1..Len(tasks)
  OBVIOUS
<1>a. \A d \in Tasks : ~Runs(d)
  BY DEF Runs, RunsUnderLock
<1>1. TypeOK'
  BY <1>0 DEF Event
<1>2. RunsUnderLock'
  BY <1>0 DEF RunsUnderLock
<1>3. DescriptorsAgree'
  BY DEF DescriptorsAgree
<1>4. AnsweredOnce'
  BY DEF AnsweredOnce
<1>5. BacklogUntouched'
  BY DEF BacklogUntouched, Untouched
<1>6. ServedWhileConnected'
  BY DEF ServedWhileConnected, Connected
<1>7. AnswererConnected'
  BY DEF AnswererConnected, Connected
<1>8. EventsFindSockets'
  BY DEF EventsFindSockets
<1>9. ReportedStaysReadable'
  <2> SUFFICES ASSUME NEW d \in Conns, Reported(d)'
               PROVE  outcome[d] # "none" /\ (Connected(d) => Readable(d))
    BY DEF ReportedStaysReadable, Connected, Readable
  <2>1. Queued(d)' => Queued(d)
    BY <1>0 DEF Queued
  <2>2. Runs(d)' => Queued(d)
    BY <1>0, <1>a DEF Queued, Runs
  <2>3. Reported(d)
    BY <2>1, <2>2 DEF Reported
  <2> QED
    BY <1>a, <2>3 DEF ReportedStaysReadable
<1> QED
  BY <1>1, <1>2, <1>3, <1>4, <1>5, <1>6, <1>7, <1>8, <1>9

LEMMA RecvAndCloseKeepsInv ==
  ASSUME ServiceInv, NEW w \in Workers, RecvAndClose(w)
  PROVE  ServiceInv'
<1> USE ServiceAssumption, PoolAssumption
        DEF ServiceInv, TypeOK, PoolTypeOK, Conns, Absent, RecvAndClose, TaskReturns, poolVars, netVars, fdVars, mainVars
<1> DEFINE c == running[w]
<1>0. c \in Tasks /\ mutex = w /\ \A v \in Workers \ {w} : running[v] = NoTask /\ wstate[v] # "run"
  BY DEF RunsUnderLock
<1>a. \A d \in Tasks : Runs(d) <=> d = c
  BY ONLY <1>0, PoolAssumption DEF Runs
<1>b. \A d \in Tasks : ~Runs(d)'
  BY <1>0 DEF Runs
<1>c. /\ Connected(c) => Readable(c) /\ request[c] # "get"
      /\ request' = IF Connected(c) THEN [request EXCEPT ![c] = "none"] ELSE request
  BY DEF MustWait
<1>d. ~Connected(c) => UNCHANGED <<kernel, sock, outcome>>
  BY DEF CloseSocket, Connected
<1>e. Connected(c) => /\ kernel' = [kernel EXCEPT ![sock[c]] = NoTask] /\ sock' = [sock EXCEPT ![c] = NoFd]
                      /\ outcome' = [outcome EXCEPT ![c] = IF request[c] = "none" THEN "eof" ELSE "refused"]
                      /\ sock[c] \in Fds
  BY <1>0 DEF CloseSocket, Connected, Forgotten
<1> HIDE DEF c, RecvAndClose
<1>f. UNCHANGED <<peer, asked, backlog, sockList, events, loop, stage, answers, stale, tasks, phase>>
  BY DEF RecvAndClose
<1>g. /\ mutex' = Free /\ running' = [running EXCEPT ![w] = NoTask] /\ wstate' = [wstate EXCEPT ![w] = "poll"]
      /\ stage = "recv"
  BY DEF RecvAndClose
<1>1. TypeOK'
  BY <1>0, <1>c, <1>d, <1>e, <1>f, <1>g DEF Event
<1>2. RunsUnderLock'
  BY <1>0, <1>f, <1>g DEF RunsUnderLock
<1>3. DescriptorsAgree'
  <2>1. CASE Connected(c)
    <3>1. kernel' = [kernel EXCEPT ![sock[c]] = NoTask] /\ sock' = [sock EXCEPT ![c] = NoFd] /\ sock[c] \in Fds
      BY <1>e, <2>1
    <3>2. sockList' = sockList
      BY <1>f
    <3> QED
      BY <1>0, <3>1, <3>2 DEF DescriptorsAgree
  <2>2. CASE ~Connected(c)
    BY <1>d, <1>f, <2>2 DEF DescriptorsAgree
  <2> QED
    BY <2>1, <2>2
<1>4. AnsweredOnce'
  <2>1. Connected(c) => outcome[c] = "served" /\ answers[c] = 0
    BY <1>0 DEF ServedWhileConnected, AnsweredOnce
  <2>2. Connected(c) /\ request[c] = "none" => peer[c] = "gone"
    BY <1>c DEF Readable
  <2> QED
    BY <1>0, <1>d, <1>e, <1>f, <2>1, <2>2 DEF AnsweredOnce
<1>5. BacklogUntouched'
  BY <1>0, <1>d, <1>e, <1>f DEF Connected, BacklogUntouched, Untouched
<1>6. ServedWhileConnected'
  BY <1>0, <1>c, <1>d, <1>e, <1>f DEF ServedWhileConnected, Connected
<1>7. AnswererConnected'
  BY <1>f, <1>g DEF AnswererConnected, Connected
<1>8. EventsFindSockets'
  BY <1>f DEF EventsFindSockets
<1>9. ReportedStaysReadable'
  <2> SUFFICES ASSUME NEW d \in Conns, Reported(d)'
               PROVE  outcome'[d] # "none" /\ (sock'[d] # NoFd => Readable(d)')
    BY DEF ReportedStaysReadable, Connected
  <2>1. Reported(d)
    BY <1>b, <1>f DEF Reported, Queued
  <2>2. CASE d = c
    BY <1>0, <1>d, <1>e, <2>1, <2>2 DEF ReportedStaysReadable, Connected
  <2>3. CASE d # c
    <3>1. outcome'[d] = outcome[d] /\ sock'[d] = sock[d] /\ request'[d] = request[d]
      BY <1>0, <1>c, <1>d, <1>e, <2>3
    <3> QED
      BY <1>f, <1>g, <2>1, <3>1 DEF ReportedStaysReadable, Connected, Readable
  <2> QED
    BY <2>2, <2>3
<1> QED
  BY <1>1, <1>2, <1>3, <1>4, <1>5, <1>6, <1>7, <1>8, <1>9

LEMMA RecvRequestKeepsInv ==
  ASSUME ServiceInv, NEW w \in Workers, RecvRequest(w)
  PROVE  ServiceInv'
<1> USE ServiceAssumption, PoolAssumption
        DEF ServiceInv, TypeOK, PoolTypeOK, Conns, Absent, RecvRequest, poolVars, netVars, fdVars, mainVars
<1>1. TypeOK'
  BY DEF Event
<1>2. RunsUnderLock'
  BY DEF RunsUnderLock
<1>3. DescriptorsAgree'
  BY DEF DescriptorsAgree
<1>4. AnsweredOnce'
  BY DEF AnsweredOnce
<1>5. BacklogUntouched'
  BY DEF BacklogUntouched, Untouched
<1>6. ServedWhileConnected'
  BY DEF ServedWhileConnected, Connected
<1>7. AnswererConnected'
  <2>1. running[w] \in Tasks
    BY DEF RunsUnderLock
  <2>2. Connected(running[w])' /\ asked[running[w]] = "get"
    BY <2>1 DEF ServedWhileConnected, Connected
  <2> QED
    BY <2>2 DEF AnswererConnected
<1>8. EventsFindSockets'
  BY DEF EventsFindSockets
<1>9. ReportedStaysReadable'
  BY DEF ReportedStaysReadable, Reported, Queued, Runs, Connected, Readable
<1> QED
  BY <1>1, <1>2, <1>3, <1>4, <1>5, <1>6, <1>7, <1>8, <1>9

LEMMA AnswerKeepsInv ==
  ASSUME ServiceInv, NEW w \in Workers, Answer(w)
  PROVE  ServiceInv'
<1> USE ServiceAssumption, PoolAssumption
        DEF ServiceInv, TypeOK, PoolTypeOK, Conns, Absent, Answer, TaskReturns, poolVars, netVars, fdVars, mainVars
<1> DEFINE c == running[w]
<1>0. c \in Tasks /\ mutex = w /\ \A v \in Workers \ {w} : running[v] = NoTask /\ wstate[v] # "run"
  BY DEF RunsUnderLock
<1>a. \A d \in Tasks : Runs(d) <=> d = c
  BY ONLY <1>0, PoolAssumption DEF Runs
<1>b. \A d \in Tasks : ~Runs(d)'
  BY <1>0 DEF Runs
<1>c. Connected(c) /\ asked[c] = "get" /\ outcome[c] = "served"
  BY <1>0 DEF AnswererConnected, ServedWhileConnected
<1>d. /\ kernel' = [kernel EXCEPT ![sock[c]] = NoTask] /\ sock' = [sock EXCEPT ![c] = NoFd]
      /\ outcome' = [outcome EXCEPT ![c] = "answered"] /\ answers' = [answers EXCEPT ![c] = @ + 1]
      /\ sock[c] \in Fds
  BY <1>0, <1>c DEF CloseSocket, Connected, Forgotten
<1>e. UNCHANGED <<peer, request, asked, backlog, sockList, events, loop, stale, tasks, phase>>
  OBVIOUS
<1>f. /\ mutex' = Free /\ running' = [running EXCEPT ![w] = NoTask] /\ wstate' = [wstate EXCEPT ![w] = "poll"]
      /\ stage' = "recv"
  OBVIOUS
<1> HIDE DEF c, Answer
<1>1. TypeOK'
  <2>1. PoolTypeOK'
    BY <1>0, <1>e, <1>f
  <2>2. kernel' \in [Fds -> Tasks \cup {NoTask}] /\ sock' \in [Tasks -> Fds \cup {NoFd}]
    BY <1>0, <1>d
  <2>3. /\ outcome' \in [Tasks -> {"none", "served", "eof", "refused", "answered"}]
        /\ answers' \in [Tasks -> Nat]
    BY <1>0, <1>d
  <2> QED
    BY <1>e, <1>f, <2>1, <2>2, <2>3
<1>2. RunsUnderLock'
  BY <1>0, <1>f DEF RunsUnderLock
<1>3. DescriptorsAgree'
  BY <1>0, <1>d, <1>e DEF DescriptorsAgree
<1>4. AnsweredOnce'
  <2>1. answers[c] = 0
    BY <1>0, <1>c DEF AnsweredOnce
  <2> QED
    BY <1>0, <1>c, <1>d, <1>e, <2>1 DEF AnsweredOnce
<1>5. BacklogUntouched'
  BY <1>0, <1>c, <1>d, <1>e DEF BacklogUntouched, Untouched
<1>6. ServedWhileConnected'
  BY <1>0, <1>d, <1>e, <1>c DEF ServedWhileConnected, Connected
<1>7. AnswererConnected'
  BY <1>f DEF AnswererConnected, Connected
<1>8. EventsFindSockets'
  BY <1>e DEF EventsFindSockets
<1>9. ReportedStaysReadable'
  <2> SUFFICES ASSUME NEW d \in Conns, Reported(d)'
               PROVE  outcome'[d] # "none" /\ (sock'[d] # NoFd => Readable(d)')
    BY DEF ReportedStaysReadable, Connected
  <2>1. Reported(d)
    BY <1>b, <1>e DEF Reported, Queued
  <2>2. CASE d = c
    BY <1>0, <1>d, <2>2
  <2>3. CASE d # c
    BY <1>0, <1>a, <1>d, <1>e, <2>1, <2>3 DEF ReportedStaysReadable, Connected, Readable
  <2> QED
    BY <2>2, <2>3
<1> QED
  BY <1>1, <1>2, <1>3, <1>4, <1>5, <1>6, <1>7, <1>8, <1>9

LEMMA SendFailsKeepsInv ==
  ASSUME ServiceInv, NEW w \in Workers, SendFails(w)
  PROVE  ServiceInv'
<1> USE ServiceAssumption, PoolAssumption
        DEF ServiceInv, TypeOK, PoolTypeOK, Conns, Absent, SendFails, TaskReturns, poolVars, netVars, fdVars, mainVars
<1> DEFINE c == running[w]
<1>0. c \in Tasks /\ mutex = w /\ \A v \in Workers \ {w} : running[v] = NoTask /\ wstate[v] # "run"
  BY DEF RunsUnderLock
<1>a. \A d \in Tasks : Runs(d) <=> d = c
  BY ONLY <1>0, PoolAssumption DEF Runs
<1>b. \A d \in Tasks : ~Runs(d)'
  BY <1>0 DEF Runs
<1>1. TypeOK'
  BY DEF Event
<1>2. RunsUnderLock'
  BY DEF RunsUnderLock
<1>3. DescriptorsAgree'
  BY DEF DescriptorsAgree
<1>4. AnsweredOnce'
  BY DEF AnsweredOnce
<1>5. BacklogUntouched'
  BY DEF BacklogUntouched, Untouched
<1>6. ServedWhileConnected'
  BY DEF ServedWhileConnected, Connected
<1>7. AnswererConnected'
  BY DEF AnswererConnected, Connected
<1>8. EventsFindSockets'
  BY DEF EventsFindSockets
<1>9. ReportedStaysReadable'
  <2> SUFFICES ASSUME NEW d \in Conns, Reported(d)'
               PROVE  outcome[d] # "none" /\ (Connected(d) => Readable(d))
    BY DEF ReportedStaysReadable, Connected, Readable
  <2>1. Reported(d)
    BY <1>b DEF Reported, Queued
  <2>2. d = c => Readable(d)
    BY DEF Readable
  <2> QED
    BY <1>a, <2>1, <2>2 DEF ReportedStaysReadable
<1> QED
  BY <1>1, <1>2, <1>3, <1>4, <1>5, <1>6, <1>7, <1>8, <1>9

LEMMA InitServiceInv == Init => ServiceInv
<1> SUFFICES ASSUME Init PROVE ServiceInv
  OBVIOUS
<1> USE ServiceAssumption, PoolAssumption DEF Init, PoolInit, Conns, Absent
<1>1. TypeOK /\ RunsUnderLock
  BY DEF TypeOK, PoolTypeOK, RunsUnderLock
<1>2. DescriptorsAgree /\ AnsweredOnce
  BY DEF DescriptorsAgree, AnsweredOnce
<1>3. BacklogUntouched /\ ServedWhileConnected /\ AnswererConnected /\ EventsFindSockets
  BY DEF BacklogUntouched, ServedWhileConnected, Connected, AnswererConnected, EventsFindSockets
<1>4. ReportedStaysReadable
  BY DEF ReportedStaysReadable, Reported, Queued, Runs
<1> QED
  BY <1>1, <1>2, <1>3, <1>4 DEF ServiceInv

LEMMA NextServiceInv == ServiceInv /\ [Next]_vars => ServiceInv'
<1> SUFFICES ASSUME ServiceInv, [Next]_vars PROVE ServiceInv'
  OBVIOUS
<1>1. CASE \E c \in Conns : Connect(c) \/ Hangup(c) \/ \E r \in {"get", "other"} : SendRequest(c, r)
  BY <1>1, ConnectKeepsInv, HangupKeepsInv, SendRequestKeepsInv
<1>2. CASE MainStep
  BY <1>2, WaitKeepsInv, NextWaitKeepsInv, AcceptKeepsInv, AcceptFailsKeepsInv, DispatchKeepsInv DEF MainStep
<1>3. CASE \E w \in Workers : TaskStep(w)
  BY <1>3, TakeKeepsInv, RecvAndCloseKeepsInv, RecvRequestKeepsInv, AnswerKeepsInv, SendFailsKeepsInv DEF TaskStep
<1>4. CASE UNCHANGED vars
  <2> USE <1>4 DEF vars, poolVars, netVars, fdVars, mainVars, ServiceInv, Conns
  <2>1. TypeOK' /\ RunsUnderLock' /\ DescriptorsAgree' /\ AnsweredOnce'
    BY DEF TypeOK, PoolTypeOK, RunsUnderLock, DescriptorsAgree, AnsweredOnce, Event
  <2>2. BacklogUntouched' /\ ServedWhileConnected' /\ AnswererConnected' /\ EventsFindSockets'
    BY DEF BacklogUntouched, Untouched, ServedWhileConnected, Connected, AnswererConnected, EventsFindSockets
  <2>3. ReportedStaysReadable'
    BY DEF ReportedStaysReadable, Reported, Queued, Runs, Connected, Readable
  <2> QED
    BY <2>1, <2>2, <2>3
<1> QED
  BY <1>1, <1>2, <1>3, <1>4 DEF Next

-----------------------------------------------------------------------------
(* The theorems. *)

\* Every variable of the service keeps its type: no task is queued for a descriptor
\* without a Socket, and accept is called only for a connection that waits.
THEOREM ServiceTypeCorrect == Spec => []TypeOK
<1>1. ServiceInv => TypeOK
  BY DEF ServiceInv
<1> QED
  BY <1>1, InitServiceInv, NextServiceInv, PTL DEF Spec

\* The descriptors of the kernel, of the Socket objects and of sock_list agree.
THEOREM DescriptorsKeepAgreeing == Spec => []DescriptorsAgree
<1>1. ServiceInv => DescriptorsAgree
  BY DEF ServiceInv
<1> QED
  BY <1>1, InitServiceInv, NextServiceInv, PTL DEF Spec

\* A connection is answered at most once, only for a GET and before it is closed.
THEOREM AnswersAreSingle == Spec => []AnsweredOnce
<1>1. ServiceInv => AnsweredOnce
  BY DEF ServiceInv
<1> QED
  BY <1>1, InitServiceInv, NextServiceInv, PTL DEF Spec

\* The pool waits in recv only for a connection that got the event of another one.
THEOREM OnlyStaleWaits == Spec => []WaitsOnlyWhenStale
<1>1. ServiceInv => WaitsOnlyWhenStale
  <2> SUFFICES ASSUME ServiceInv, NEW w \in Workers, wstate[w] = "run", stage = "recv", MustWait(running[w])
               PROVE  running[w] \in stale
    BY DEF WaitsOnlyWhenStale
  <2>1. running[w] \in Conns
    BY PoolAssumption DEF ServiceInv, TypeOK, PoolTypeOK, RunsUnderLock, Conns
  <2>2. running[w] \notin stale => Reported(running[w])
    BY DEF Reported, Runs
  <2> QED
    BY <2>1, <2>2 DEF ServiceInv, ReportedStaysReadable, MustWait
<1> QED
  BY <1>1, InitServiceInv, NextServiceInv, PTL DEF Spec
==============================================================================
