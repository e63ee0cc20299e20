---------------------------- MODULE FileTransfer ----------------------------
(***************************************************************************)
(* Transfer of a directory of text files: tcpputfiles or tcpgetfiles (the  *)
(* client), fileserver (the server), the framed TCP connection between     *)
(* them (src/_public.cpp) and the procctl that starts either program again *)
(* when it has ended.                                                      *)
(*                                                                         *)
(* With clienttype 1 the client sends and the server receives, with 2 the  *)
(* other way round; the functions of both sides are the same.  The sender  *)
(* snapshots its directory and, for each file, sends a header, waits for   *)
(* <msg>1</msg>, sends one frame per line and an <endflag>; tcpputfiles    *)
(* then deletes (ptype 1) or copies (ptype 2) the file.  The receiver      *)
(* appends the frames to <file>.bak and renames it at the end.  Either     *)
(* process may be killed, and reads with a limit may time out.  The disks  *)
(* survive: every frame is flushed by std::endl.                           *)
(***************************************************************************)
EXTENDS Integers, Sequences, SequencesExt, FiniteSets

CONSTANTS
  Files,       \* names in the sender's directory
  Lines,       \* number of frames getline makes of a file
  Cap,         \* bound: frames the two kernels buffer
  MaxFailures, \* bound: crashes and timeouts
  NoFile,
  Unnamed      \* the empty name, which a frame without <filename> is taken for

ASSUME TransferAssumption ==
  /\ Lines \in Nat \ {0} /\ Cap \in Nat \ {0}
  /\ MaxFailures \in Nat /\ Unnamed \notin Files
  /\ NoFile \notin Files \cup {Unnamed} /\ NoFile \notin Seq(1..Lines)

VARIABLES
  clienttype, \* starg.clienttype of the server: 1 upload, 2 download
  ptype,      \* starg.ptype: 1 deletes a file after sending, 2 copies it to backup
  source,     \* files in the sender's directory (clientpath, or srvpath for a download)
  backup,     \* files in clientpathbak
  produced,   \* history: files that have ever been put into the directory
  todo,       \* names left in the CDir snapshot
  file,       \* the file being sent
  sent,       \* frames of it already written
  cpc, spc,   \* where the client and the server process are
  linked,     \* the client's connection is known to a live server process
  accepted,   \* ... and is the one the server has in m_connfd
  up, down,   \* frames in flight to the server and to the client
  old,        \* frames to the server on a connection whose client has closed it
  rfile,      \* the file being received
  tmp, final, \* <file>.bak and <file> in the receiver's directory
  failures

pcs      == <<cpc, spc>>
disk     == <<clienttype, ptype, source, backup, produced>>
sender   == <<todo, file, sent>>
net      == <<linked, accepted, up, down, old>>
receiver == <<rfile, tmp, final>>
vars     == <<disk, sender, pcs, net, receiver, failures>>

Upload == clienttype = 1

Login  == [type |-> "login"]
Ok     == [type |-> "ok"]
Msg    == [type |-> "msg"]
Header(f) == [type |-> "head", file |-> f]
Line(i) == [type |-> "line", n |-> i]
EndFlag == [type |-> "end"]
Finish  == [type |-> "finish"]
Frame == {Login, Ok, Msg, EndFlag, Finish} \cup {Header(f) : f \in Files} \cup {Line(i) : i \in 1..Lines}

Whole == [i \in 1..Lines |-> i]     \* what a complete copy consists of
Names == Files \cup {Unnamed}
Copies == {NoFile} \cup Seq(1..Lines)

Init ==
  /\ clienttype \in {1, 2} /\ ptype \in {1, 2}
  /\ source \in SUBSET Files /\ produced = source /\ backup = {}
  /\ cpc = "off" /\ todo = {} /\ file = NoFile /\ sent = 0
  /\ linked = FALSE /\ accepted = FALSE /\ up = <<>> /\ down = <<>> /\ old = <<>>
  /\ spc = "off" /\ rfile = NoFile
  /\ tmp = [f \in Names |-> NoFile] /\ final = [f \in Names |-> NoFile]
  /\ failures = 0

\* Another program renames a finished file into the directory.
Produce(f) ==
  /\ f \notin produced
  /\ produced' = produced \cup {f} /\ source' = source \cup {f}
  /\ UNCHANGED <<clienttype, ptype, backup, sender, pcs, net, receiver, failures>>

-----------------------------------------------------------------------------
(* The connection.  TcpWrite blocks on a full one; what is written to one the *)
(* peer has dropped goes nowhere or fails (ClientError, ServerWriteFails).    *)

ClientWrites(m) == IF linked THEN Len(up) < Cap /\ up' = Append(up, m) ELSE up' = up
ServerWrites(m) == IF accepted THEN Len(down) < Cap /\ down' = Append(down, m) ELSE down' = down

Incoming == IF accepted THEN up ELSE old
ServerReads ==
  /\ Incoming # <<>>
  /\ IF accepted THEN up' = Tail(up) /\ UNCHANGED old
                 ELSE old' = Tail(old) /\ UNCHANGED up
ClientReads == down # <<>> /\ down' = Tail(down)

\* The same by role.
ReceiverIn == IF Upload THEN Incoming ELSE down
SenderReads   == IF Upload THEN ClientReads /\ UNCHANGED <<up, old>>
                           ELSE ServerReads /\ UNCHANGED down
ReceiverReads == IF Upload THEN ServerReads /\ UNCHANGED down
                           ELSE ClientReads /\ UNCHANGED <<up, old>>
Send(m)       == IF Upload THEN ClientWrites(m) /\ UNCHANGED <<down, old>>
                           ELSE ServerWrites(m) /\ UNCHANGED <<up, old>>
ReadAndAnswer(m) == IF Upload THEN ServerReads /\ ServerWrites(m)
                              ELSE ClientReads /\ ClientWrites(m) /\ UNCHANGED old

SenderAt(p)   == IF Upload THEN cpc = p ELSE spc = p
ReceiverAt(p) == IF Upload THEN spc = p ELSE cpc = p
SenderTo(p)   == IF Upload THEN cpc' = p /\ UNCHANGED spc ELSE spc' = p /\ UNCHANGED cpc
ReceiverTo(p) == IF Upload THEN spc' = p /\ UNCHANGED cpc ELSE cpc' = p /\ UNCHANGED spc

-----------------------------------------------------------------------------
(* Sending: _tcpputfiles and sendFileText of the client, sendfiles and *)
(* sendFileText of the server.                                         *)

\* sendFileText's `while (!infile.eof())`.  (Mutant: one frame too few.)
SkipsLastLine == sent + 1 < Lines
MoreLines == sent < Lines

\* Read of the <msg> answer, which has no timeout.  (Mutant: it is not awaited.)
AckIgnored == UNCHANGED <<up, down, old>>
ReadMsg == SenderReads

\* OpenDir reads the names once; ReadDir hands them out in the order of readdir.
Snapshot == source
NextName(f) == f \in todo

Removed(f) == source \ {f}
CopiedToBackup(f) == backup \cup {f}

SendHeader(f) ==
  /\ SenderAt("next") /\ NextName(f)
  /\ Send(Header(f))
  /\ todo' = todo \ {f} /\ file' = f /\ SenderTo("ack")
  /\ UNCHANGED <<disk, sent, linked, accepted, receiver, failures>>

\* The answer is read and the file is opened; nobody else removes files.
ReadAck ==
  /\ SenderAt("ack") /\ ReadMsg
  /\ sent' = 0 /\ SenderTo("send")
  /\ UNCHANGED <<disk, todo, file, linked, accepted, receiver, failures>>

SendLine ==
  /\ SenderAt("send") /\ MoreLines
  /\ Send(Line(sent + 1))
  /\ sent' = sent + 1
  /\ UNCHANGED <<disk, pcs, todo, file, linked, accepted, receiver, failures>>

SendEnd ==
  /\ SenderAt("send") /\ ~MoreLines
  /\ Send(EndFlag)
  /\ SenderTo(IF Upload THEN "post" ELSE "next")
  /\ UNCHANGED <<disk, sender, linked, accepted, receiver, failures>>

\* The end of the client's sendFileText: REMOVE, or COPY without a REMOVE.
PostProcess ==
  /\ cpc = "post"
  /\ IF ptype = 1 THEN source' = Removed(file) /\ UNCHANGED backup
                  ELSE backup' = CopiedToBackup(file) /\ UNCHANGED source
  /\ cpc' = "next"
  /\ UNCHANGED <<clienttype, ptype, produced, sender, spc, net, receiver, failures>>

\* The end of the server's sendfiles.  main goes on to Accept, which overwrites
\* m_connfd: the connection stays open and nobody serves it.
SendFinish ==
  /\ spc = "next" /\ todo = {}
  /\ ServerWrites(Finish) /\ UNCHANGED up
  /\ old' = IF accepted THEN old ELSE <<>>
  /\ spc' = "listen" /\ file' = NoFile /\ sent' = 0
  /\ UNCHANGED <<disk, cpc, todo, linked, accepted, receiver, failures>>
Abandoned == accepted /\ spc = "listen"

-----------------------------------------------------------------------------
(* Receiving: recvfiles and recvFileText of the server, _tcpgetfiles and *)
(* recvFileText of the client.                                           *)

\* The .bak file is opened in append mode.
OpenBak(f) == IF tmp[f] = NoFile THEN <<>> ELSE tmp[f]

\* A frame is a header by its place alone: the client takes <finish> for one.
NameIn(frame) == IF frame.type = "head" THEN frame.file ELSE Unnamed

RecvHeader ==
  /\ ReceiverAt("recv") /\ ReadAndAnswer(Msg)
  /\ LET f == NameIn(Head(ReceiverIn)) IN
       rfile' = f /\ tmp' = [tmp EXCEPT ![f] = OpenBak(f)]
  /\ ReceiverTo("text")
  /\ UNCHANGED <<disk, sender, linked, accepted, final, failures>>

RecvLine ==
  /\ ReceiverAt("text") /\ ReceiverReads
  /\ Head(ReceiverIn).type # "end"
  /\ tmp' = [tmp EXCEPT ![rfile] = Append(@, Head(ReceiverIn).n)]
  /\ UNCHANGED <<disk, sender, pcs, linked, accepted, rfile, final, failures>>

RecvEnd ==
  /\ ReceiverAt("text") /\ ReceiverReads
  /\ Head(ReceiverIn).type = "end"
  /\ ReceiverTo("rename")
  /\ UNCHANGED <<disk, sender, linked, accepted, receiver, failures>>

\* rename(2) replaces what had the final name.
Renamed(f) == [final EXCEPT ![f] = tmp[f]]

Rename ==
  /\ ReceiverAt("rename")
  /\ final' = Renamed(rfile)
  /\ tmp' = [tmp EXCEPT ![rfile] = NoFile]
  /\ rfile' = NoFile /\ ReceiverTo("recv")
  /\ UNCHANGED <<disk, sender, net, failures>>

-----------------------------------------------------------------------------
(* The client process. *)

\* connect() is answered by the kernel while a server process listens.
Connectable == spc # "off"

\* The kernel reports that the peer is gone.  (Mutant: the client never notices.)
PeerLossIgnored == FALSE
PeerLost == ~linked

\* procctl starts the program, ConnectToServer succeeds, Login sends its request.
ClientStart ==
  /\ cpc = "off" /\ Connectable
  /\ cpc' = "login"
  /\ linked' = TRUE /\ accepted' = FALSE /\ up' = <<Login>> /\ down' = <<>>
  /\ UNCHANGED <<disk, sender, spc, old, receiver, failures>>

\* Login returns; the sender's OpenDir takes the snapshot.
ClientLogin ==
  /\ cpc = "login" /\ ClientReads
  /\ IF Upload THEN todo' = Snapshot /\ cpc' = "next" ELSE cpc' = "recv" /\ UNCHANGED todo
  /\ UNCHANGED <<disk, file, sent, spc, linked, accepted, up, old, receiver, failures>>

\* The process ends and its socket is closed; what it has sent stays readable.
\* One connection that ended before it was accepted is remembered, not more.
ClientExit ==
  /\ cpc' = "off" /\ UNCHANGED spc
  /\ IF Upload THEN todo' = {} /\ file' = NoFile /\ sent' = 0 /\ UNCHANGED rfile
               ELSE rfile' = NoFile /\ UNCHANGED sender
  /\ linked' = FALSE /\ accepted' = FALSE /\ up' = <<>> /\ down' = <<>>
  /\ old' = IF \/ accepted /\ ~Abandoned
               \/ linked /\ ~accepted /\ spc = "listen" /\ old = <<>> THEN up ELSE old
  /\ UNCHANGED <<disk, tmp, final>>

\* tcpputfiles' main returns: every file of the snapshot is sent.
ClientDone ==
  /\ Upload /\ cpc = "next" /\ todo = {}
  /\ ClientExit /\ UNCHANGED failures

\* tcpgetfiles waits for the text of the unnamed file, 20 seconds.
FinishTimeout ==
  /\ cpc = "text" /\ down = <<>> /\ Abandoned
  /\ ClientExit /\ UNCHANGED failures

\* A Read or a Write fails on a connection the server has dropped.
ClientError ==
  /\ cpc \notin {"off", "post", "rename"} /\ PeerLost
  /\ ClientExit /\ UNCHANGED failures

Fail == failures < MaxFailures /\ failures' = failures + 1

\* The 20 seconds of a Read are over, or the process is killed.
ClientTimeout ==
  /\ cpc = "login" \/ (~Upload /\ cpc \in {"recv", "text"})
  /\ linked /\ down = <<>> /\ ~Abandoned
  /\ Fail /\ ClientExit
ClientCrash  == cpc # "off" /\ Fail /\ ClientExit

-----------------------------------------------------------------------------
(* The server process: it ends with the connection, except after sendfiles. *)

ServerStart ==
  /\ spc = "off"
  /\ spc' = "listen"
  /\ UNCHANGED <<disk, sender, cpc, net, receiver, failures>>

\* The kernel completes connections into the backlog of the listening socket.
Pending == old # <<>> \/ (linked /\ ~accepted)

\* Accept returns the connection first in the backlog, dead or alive.
ServerAccept ==
  /\ spc = "listen"
  /\ Pending
  /\ accepted' = (old = <<>>)
  /\ spc' = "login"
  /\ UNCHANGED <<disk, sender, cpc, linked, up, down, old, receiver, failures>>

ServerLogin ==
  /\ spc = "login" /\ ServerReads /\ ServerWrites(Ok)
  /\ IF Upload THEN spc' = "recv" /\ UNCHANGED todo ELSE todo' = Snapshot /\ spc' = "next"
  /\ UNCHANGED <<disk, file, sent, cpc, linked, accepted, receiver, failures>>

\* The process ends: its sockets are closed and what has come to them is lost.
ServerExit ==
  /\ spc' = "off" /\ UNCHANGED cpc
  /\ IF Upload THEN rfile' = NoFile /\ UNCHANGED sender
               ELSE todo' = {} /\ file' = NoFile /\ sent' = 0 /\ UNCHANGED rfile
  /\ linked' = FALSE /\ accepted' = FALSE /\ up' = <<>> /\ old' = <<>>
  /\ UNCHANGED <<disk, down, tmp, final>>

\* A read that finds nothing: end of file or timeout.
Reading == spc \in {"login", "recv", "text", "ack"} /\ Incoming = <<>>

ServerEof     == Reading /\ ~accepted /\ ServerExit /\ UNCHANGED failures
ServerTimeout == Reading /\ accepted /\ spc # "ack" /\ Fail /\ ServerExit
ServerCrash   == spc # "off" /\ Fail /\ ServerExit

\* An answer or a frame for a client that is gone.
ServerWriteFails ==
  /\ spc \in {"login", "recv", "next", "send"} /\ ~accepted
  /\ ServerExit /\ UNCHANGED failures

-----------------------------------------------------------------------------
Sending   == (\E f \in Files : SendHeader(f)) \/ ReadAck \/ SendLine \/ SendEnd
Receiving == RecvHeader \/ RecvLine \/ RecvEnd \/ Rename

ClientStep == \/ ClientStart \/ ClientLogin \/ PostProcess
              \/ ClientDone \/ FinishTimeout \/ ClientError
              \/ (Upload /\ Sending) \/ (~Upload /\ Receiving)

ServerStep == \/ ServerStart \/ ServerAccept \/ ServerLogin \/ SendFinish
              \/ ServerEof \/ ServerWriteFails
              \/ (Upload /\ Receiving) \/ (~Upload /\ Sending)

Next == \/ ClientStep \/ ServerStep
        \/ ClientTimeout \/ ClientCrash \/ ServerTimeout \/ ServerCrash
        \/ \E f \in Files : Produce(f)

Spec == Init /\ [][Next]_vars

\* procctl restarts both programs and the scheduler runs them; failures and new
\* files are never forced.
FairSpec == Spec /\ WF_vars(ClientStep) /\ WF_vars(ServerStep)

-----------------------------------------------------------------------------
(* Properties. *)

TypeOK ==
  /\ clienttype \in {1, 2} /\ ptype \in {1, 2}
  /\ source \subseteq Files /\ backup \subseteq Files /\ produced \subseteq Files
  /\ todo \subseteq Files /\ file \in Files \cup {NoFile} /\ sent \in 0..Lines
  /\ cpc \in {"off", "login", "next", "ack", "send", "post", "recv", "text", "rename"}
  /\ spc \in {"off", "listen", "login", "next", "ack", "send", "recv", "text", "rename"}
  /\ linked \in BOOLEAN /\ accepted \in BOOLEAN
  /\ up \in Seq(Frame) /\ down \in Seq(Frame) /\ old \in Seq(Frame)
  /\ rfile \in Names \cup {NoFile}
  /\ tmp \in [Names -> Copies] /\ final \in [Names -> Copies]
  /\ failures \in 0..MaxFailures

\* A file whose frames a live receiver is still to receive or to rename.
InFlight(f) == (ReceiverAt("text") \/ ReceiverAt("rename")) /\ rfile = f

\* The framing never slips, even when a client dies in mid-file and another one
\* connects: the receiver takes a header for a header (or, at the end of a download,
\* the finish flag), what is read for an answer is one, and lines are sent only
\* to a receiver that is waiting for the lines of that very file.
InStep ==
  /\ spc = "login" /\ Incoming # <<>> => Head(Incoming) = Login
  /\ ReceiverAt("recv") /\ ReceiverIn # <<>> =>
       Head(ReceiverIn) \in {Finish} \cup {Header(f) : f \in Files}
  /\ ReceiverAt("text") /\ ReceiverIn # <<>> => Head(ReceiverIn).type \in {"line", "end"}
  /\ spc = "ack" /\ Incoming # <<>> => Head(Incoming) = Msg
  /\ SenderAt("send") /\ linked /\ (accepted \/ Upload) =>
       accepted /\ ReceiverAt("text") /\ rfile = file

\* Whatever fails, a published file ends with one complete copy of the source, and
\* as long as nothing has failed it is the source file: RENAME runs only after every
\* frame of the last attempt was appended.  Nothing is published without a name.
FinalEndsWithWholeCopy ==
  \A f \in Names : final[f] # NoFile =>
    f # Unnamed /\ IsSuffix(Whole, final[f]) /\ (failures = 0 => final[f] = Whole)

\* A failure costs at most the one file in flight: the client waits for the
\* answer to a header, which the server sends only after the previous rename.
OneLossPerFailure ==
  Cardinality({f \in produced \ source : final[f] = NoFile /\ ~InFlight(f)})
    <= failures

\* "ptype: what is done with a file once it is uploaded, 1 - delete": the only
\* copy of a file is never given up before the server has it.
NoFileLost ==
  \A f \in produced : f \in source \/ final[f] # NoFile \/ InFlight(f)

\* The directory empties (ptype 1), every file reaches the backup directory (ptype 2)
\* or the client's directory (a download), although the server ends with most
\* connections, a client may land in the backlog of a dying server, a download never
\* ends but by a timeout, and sessions fail: they are run again.
EveryFileProcessed ==
  \A f \in Files :
    f \in source ~> \/ Upload /\ (f \notin source \/ f \in backup)
                    \/ ~Upload /\ final[f] # NoFile
=============================================================================
