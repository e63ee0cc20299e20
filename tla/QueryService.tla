---------------------------- MODULE QueryService ----------------------------
(***************************************************************************)
(* The data query service of test/test_fileserver.cpp: one thread accepts  *)
(* connections and turns every readiness event of a level-triggered epoll  *)
(* into a task of the ThreadPool; the task receives the request, answers   *)
(* and closes the socket.                                                  *)
(*                                                                         *)
(* A task holds the Socket object, an event only the number of the         *)
(* descriptor; the kernel gives a closed number to the next connection.    *)
(* The tasks of ThreadPool are the Socket objects, one per connection.     *)
(***************************************************************************)
EXTENDS ThreadPool, FiniteSets

CONSTANTS
  Fds,        \* descriptors left to the process for its clients
  Listen,     \* the descriptor of the listening socket
  NoFd        \* Socket::m_sock == -1

Conns == Tasks
Absent == NoTask

ASSUME ServiceAssumption ==
  /\ Fds \subseteq Nat /\ Listen \notin Fds /\ NoFd \notin Fds /\ Nested = {}
  /\ Listen \notin [fd : Fds, of : Tasks]    \* not an event of a client's descriptor

VARIABLES
  peer,       \* each client: not connected, connected, or gone
  request,    \* what it has sent and nobody has received
  backlog,    \* connections waiting for accept
  kernel,     \* the kernel's descriptor table, and with it the epoll set
  sockList,   \* sock_list
  sock,       \* Socket::m_sock of each Socket object
  events,     \* events of the last epoll_wait not handled yet: the descriptor, and
              \* as history the connection it stood for at that time
  loop,       \* the main thread: in epoll_wait, in its loop over events, or dead
  stage,      \* the task being run: before recv, or about to answer
  asked,      \* history: what each client has sent
  outcome,    \* history: what became of each connection
  answers,    \* history: responses sent on each connection
  stale       \* history: connections that got a task from another one's event

netVars == <<peer, request, backlog, asked>>
fdVars  == <<kernel, sockList, sock, outcome>>
mainVars == <<events, loop>>
vars == <<poolVars, netVars, fdVars, mainVars, stage, answers, stale>>

Init ==
  /\ PoolInit
  /\ peer = [c \in Conns |-> "out"] /\ request = [c \in Conns |-> "none"]
  /\ backlog = <<>> /\ asked = [c \in Conns |-> "none"]
  /\ kernel = [f \in Fds |-> Absent] /\ sockList = [f \in Fds |-> Absent]
  /\ sock = [c \in Conns |-> NoFd] /\ outcome = [c \in Conns |-> "none"]
  /\ stale = {} /\ events = {} /\ loop = "wait" /\ stage = "recv"
  /\ answers = [c \in Conns |-> 0]

Alive == loop # "crashed"

-----------------------------------------------------------------------------
(* The clients. *)

Connect(c) ==
  /\ Alive /\ peer[c] = "out"
  /\ peer' = [peer EXCEPT ![c] = "open"]
  /\ backlog' = Append(backlog, c)
  /\ UNCHANGED <<poolVars, request, asked, fdVars, mainVars, stage, answers, stale>>

\* A GET with a user, a password and an interface, or anything else.
SendRequest(c, r) ==
  /\ Alive /\ peer[c] = "open" /\ asked[c] = "none"
  /\ asked' = [asked EXCEPT ![c] = r] /\ request' = [request EXCEPT ![c] = r]
  /\ UNCHANGED <<poolVars, peer, backlog, fdVars, mainVars, stage, answers, stale>>

Hangup(c) ==
  /\ Alive /\ peer[c] = "open"
  /\ peer' = [peer EXCEPT ![c] = "gone"]
  /\ UNCHANGED <<poolVars, request, backlog, asked, fdVars, mainVars, stage, answers, stale>>

-----------------------------------------------------------------------------
(* The main thread. *)

\* (Mutant: the end of the stream is not seen.)
HasData(c) == request[c] # "none"
Readable(c) == request[c] # "none" \/ peer[c] = "gone"

\* What a level-triggered epoll reports: also what earlier events, whose tasks
\* still wait, have reported.  (Mutant: with EPOLLOUT every open descriptor.)
Registered == {f \in Fds : kernel[f] # Absent}
ReadyFds == {f \in Registered : Readable(kernel[f])}

Event == [fd : Fds, of : Conns] \cup {Listen}
Ready == {[fd |-> f, of |-> kernel[f]] : f \in ReadyFds}
           \cup (IF backlog = <<>> THEN {} ELSE {Listen})

Wait ==
  /\ loop = "wait" /\ Ready # {}
  /\ events' = Ready /\ loop' = "events"
  /\ UNCHANGED <<poolVars, netVars, fdVars, stage, answers, stale>>

NextWait ==
  /\ loop = "events" /\ events = {}
  /\ loop' = "wait"
  /\ UNCHANGED <<poolVars, netVars, fdVars, events, stage, answers, stale>>

FreeFds == {f \in Fds : kernel[f] = Absent}

Listed(f, c) == [sockList EXCEPT ![f] = c]

\* accept gives the lowest free descriptor to the connection.
Accept ==
  /\ loop = "events" /\ Listen \in events
  /\ \E f \in FreeFds :
       LET c == Head(backlog) IN
         /\ \A g \in FreeFds : f <= g
         /\ kernel' = [kernel EXCEPT ![f] = c]
         /\ sockList' = Listed(f, c)
         /\ sock' = [sock EXCEPT ![c] = f]
         /\ outcome' = [outcome EXCEPT ![c] = "served"]
  /\ backlog' = Tail(backlog) /\ events' = events \ {Listen}
  /\ UNCHANGED <<poolVars, peer, request, asked, loop, stage, answers, stale>>

\* Without a free descriptor accept returns nullptr, which main dereferences.
AcceptFails ==
  /\ loop = "events" /\ Listen \in events /\ FreeFds = {}
  /\ loop' = "crashed"
  /\ UNCHANGED <<poolVars, netVars, fdVars, events, stage, answers, stale>>

\* Every other event becomes a task for the Socket sock_list has now.
Dispatch(e) ==
  /\ loop = "events" /\ e # Listen
  /\ AddTask(sockList[e.fd])
  /\ events' = events \ {e}
  /\ stale' = IF sockList[e.fd] = e.of THEN stale ELSE stale \cup {sockList[e.fd]}
  /\ UNCHANGED <<netVars, fdVars, loop, stage, answers>>

MainStep == Wait \/ NextWait \/ Accept \/ AcceptFails \/ \E e \in events : Dispatch(e)

-----------------------------------------------------------------------------
(* The tasks: run(). *)

\* Socket::close, which forgets the descriptor.  (Mutant: it keeps the number.)
KeptNumber(c) == sock[c]
Forgotten(c) == NoFd

\* Socket::close acts only on a socket that still has a descriptor.  (Mutant: run()
\* returns without it.)
LeftOpen(c, how) == outcome' = [outcome EXCEPT ![c] = how] /\ UNCHANGED <<kernel, sock>>
CloseSocket(c, how) ==
  IF sock[c] = NoFd THEN UNCHANGED <<kernel, sock, outcome>>
  ELSE /\ kernel' = [kernel EXCEPT ![sock[c]] = Absent]
       /\ sock' = [sock EXCEPT ![c] = Forgotten(c)]
       /\ outcome' = [outcome EXCEPT ![c] = how]

\* recv on a Socket that is not connected returns -1 at once.
Connected(c) == sock[c] # NoFd

Take(w) ==
  /\ Alive /\ TakeTask(w)
  /\ stage' = "recv"
  /\ UNCHANGED <<netVars, fdVars, mainVars, answers, stale>>

\* recv waits for as long as there is nothing to receive, the mutex in its hands.
MustWait(c) == Connected(c) /\ ~Readable(c)

\* What run() does not answer: a Socket closed by an earlier task of the same
\* events, the end of the stream, or a request that is not a GET.
RecvAndClose(w) ==
  /\ Alive /\ wstate[w] = "run" /\ stage = "recv"
  /\ LET c == running[w] IN
       /\ ~MustWait(c)
       /\ Connected(c) => request[c] # "get"
       /\ request' = IF Connected(c) THEN [request EXCEPT ![c] = "none"] ELSE request
       /\ CloseSocket(c, IF request[c] = "none" THEN "eof" ELSE "refused")
  /\ TaskReturns(w)
  /\ UNCHANGED <<peer, backlog, asked, sockList, mainVars, stage, answers, stale>>

RecvRequest(w) ==
  /\ Alive /\ wstate[w] = "run" /\ stage = "recv"
  /\ LET c == running[w] IN
       /\ Connected(c) /\ request[c] = "get"
       /\ request' = [request EXCEPT ![c] = "none"]
  /\ stage' = "answer"
  /\ UNCHANGED <<poolVars, peer, backlog, asked, fdVars, mainVars, answers, stale>>

\* The client is told that Login or CheckPerm has failed, or gets its query's
\* result; every way ends with the socket closed.
Answer(w) ==
  /\ Alive /\ wstate[w] = "run" /\ stage = "answer"
  /\ CloseSocket(running[w], "answered")
  /\ answers' = [answers EXCEPT ![running[w]] = @ + 1]
  /\ stage' = "recv"
  /\ TaskReturns(w)
  /\ UNCHANGED <<netVars, sockList, mainVars, stale>>

\* The response header cannot be sent: run() returns without closing.
SendFails(w) ==
  /\ Alive /\ wstate[w] = "run" /\ stage = "answer"
  /\ peer[running[w]] = "gone"
  /\ stage' = "recv"
  /\ TaskReturns(w)
  /\ UNCHANGED <<netVars, fdVars, mainVars, answers, stale>>

TaskStep(w) == Take(w) \/ RecvAndClose(w) \/ RecvRequest(w) \/ Answer(w) \/ SendFails(w)

-----------------------------------------------------------------------------
Next ==
  \/ \E c \in Conns :
       Connect(c) \/ Hangup(c) \/ \E r \in {"get", "other"} : SendRequest(c, r)
  \/ MainStep
  \/ \E w \in Workers : TaskStep(w)

Spec == Init /\ [][Next]_vars

\* The threads are scheduled, and a client that has connected does not stay
\* silent for ever: it sends its request or goes.
FairSpec ==
  /\ Spec
  /\ WF_vars(MainStep)
  /\ \A w \in Workers : WF_vars(TaskStep(w))
  /\ \A c \in Conns :
       WF_vars(asked[c] = "none" /\ (Hangup(c) \/ \E r \in {"get", "other"} : SendRequest(c, r)))

-----------------------------------------------------------------------------
(* Properties. *)

TypeOK ==
  /\ PoolTypeOK /\ tasks \in Seq(Conns)
  /\ peer \in [Conns -> {"out", "open", "gone"}]
  /\ request \in [Conns -> {"none", "get", "other"}]
  /\ asked \in [Conns -> {"none", "get", "other"}]
  /\ backlog \in Seq(Conns)
  /\ kernel \in [Fds -> Conns \cup {Absent}] /\ sockList \in [Fds -> Conns \cup {Absent}]
  /\ sock \in [Conns -> Fds \cup {NoFd}]
  /\ outcome \in [Conns -> {"none", "served", "eof", "refused", "answered"}]
  /\ events \subseteq Event /\ loop \in {"wait", "events", "crashed"}
  /\ stage \in {"recv", "answer"}
  /\ answers \in [Conns -> Nat] /\ stale \subseteq Conns

\* The three views of the descriptors agree: a Socket holds exactly the numbers
\* the kernel has given to its connection, and sock_list knows the newest owner,
\* although tasks left over from old events close Sockets whose number has been
\* given away meanwhile.
DescriptorsAgree ==
  /\ \A f \in Fds, c \in Conns : kernel[f] = c <=> sock[c] = f
  /\ \A f \in Fds : kernel[f] # Absent => sockList[f] = kernel[f]

\* Level-triggered events queue several tasks for one request; only one of them
\* answers, only on a connection that sent a GET, and only before it is closed.  A
\* connection whose client is still there is never closed unread.
AnsweredOnce ==
  \A c \in Conns :
    /\ outcome[c] = "eof" => peer[c] = "gone"
    /\ answers[c] = IF outcome[c] = "answered" THEN 1 ELSE 0
    /\ outcome[c] = "answered" => asked[c] = "get"

\* The pool stands still in recv only for a connection that was handed the event
\* of its predecessor on the same descriptor: an event of its own is never read
\* by somebody else first.
WaitsOnlyWhenStale ==
  \A w \in Workers :
    (wstate[w] = "run" /\ stage = "recv" /\ MustWait(running[w]))
      => running[w] \in stale

\* Every accepted connection is closed in the end, whether its client asks, goes
\* or fails to take the answer, unless the process dies for lack of descriptors.
EveryConnectionClosed ==
  \A c \in Conns : sock[c] # NoFd ~> sock[c] = NoFd \/ loop = "crashed"
=============================================================================
