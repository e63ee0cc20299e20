---------------------------- MODULE TransferProofs ----------------------------
(***************************************************************************)
(* Proofs about the file transfer, for any set of files, any length of a   *)
(* file, any capacity of the connection and any number of failures.        *)
(***************************************************************************)
EXTENDS FileTransfer, FiniteSetTheorems, SequenceTheorems, TLAPS

-----------------------------------------------------------------------------
(* What the receiver has read and what is on its way.  The frames of one file *)
(* have the positions 1..Lines, the end flag has Lines + 1 and the next       *)
(* header Lines + 2; the login request, or the answer to it, stands for the   *)
(* end flag of a file before the first.                                       *)

\* A copy that ends with the first k lines of the file.
EndsWith(c, k) ==
  /\ c \in Seq(1..Lines) /\ Len(c) >= k
  /\ \A i \in 1..k : c[Len(c) - k + i] = i

\* What stands at position n.
Fits(m, n, flag, heads) ==
  \/ n \in 1..Lines /\ m = Line(n)
  \/ n = Lines + 1 /\ m = flag
  \/ n = Lines + 2 /\ m \in heads

\* Frames that follow position k.
Stream(s, k, flag, heads) ==
  /\ s \in Seq(Frame) /\ k + Len(s) <= Lines + 2
  /\ \A i \in 1..Len(s) : Fits(s[i], k + i, flag, heads)

Greeting == IF Upload THEN Login ELSE Ok
Flag == IF ReceiverAt("login") THEN Greeting ELSE EndFlag
Heads == {Header(f) : f \in source} \cup (IF Upload THEN {} ELSE {Finish})

\* The receiver has read the frames up to position k.
Progress(k) ==
  /\ ReceiverAt("login") => k = Lines
  /\ ReceiverAt("recv") => k = Lines + 1
  /\ ReceiverAt("text") /\ rfile \in Files =>
       /\ k \in 0..Lines /\ EndsWith(tmp[rfile], k)
       /\ failures = 0 => Len(tmp[rfile]) = k
  /\ ReceiverAt("text") /\ rfile \notin Files => ~Upload /\ k = Lines + 2 /\ tmp[Unnamed] = <<>>
  /\ ReceiverAt("rename") => 
       /\ k = Lines + 1 /\ rfile \in Files /\ EndsWith(tmp[rfile], Lines)
       /\ failures = 0 => Len(tmp[rfile]) = Lines

-----------------------------------------------------------------------------
(* The inductive invariant. *)

\* A connection belongs to a client that is running, and is accepted once.
Links ==
  /\ accepted => linked /\ old = <<>> /\ spc # "off"
  /\ linked => cpc # "off" /\ spc # "off"
  /\ ~linked => up = <<>>
  /\ linked /\ ~accepted => cpc = "login" /\ up = <<Login>> /\ down = <<>>
  /\ cpc = "off" => down = <<>>
  /\ cpc # "off" /\ ~linked => spc \in {"off", "listen"} /\ old = <<>>
  /\ spc = "off" => old = <<>>
  /\ spc = "listen" => old \in {<<>>, <<Login>>}
  /\ ReceiverAt("text") \/ ReceiverAt("rename") \/ rfile = NoFile
  /\ todo \subseteq source /\ file \notin todo
  /\ SenderAt("off") \/ SenderAt("listen") \/ SenderAt("login") => todo = {} /\ file = NoFile
  /\ failures = 0 /\ cpc \notin {"off", "login"} => accepted
  /\ failures = 0 /\ down # <<>> => accepted

\* What is left of attempts: nothing before the first failure.
Leftovers ==
  failures = 0 => \A f \in Files : tmp[f] = NoFile \/ f = rfile

Published ==
  \A f \in Names : final[f] # NoFile =>
    /\ f # Unnamed /\ EndsWith(final[f], Lines)
    /\ failures = 0 => Len(final[f]) = Lines

\* How far the sender has come.
Sent(p, answer) ==
  CASE p \in {"next", "post"} -> Lines + 1
    [] p = "send" -> sent
    [] p = "ack" -> IF answer = <<>> THEN Lines + 2 ELSE 0
    [] p = "login" -> IF Upload THEN Lines + 1 ELSE Lines
    [] OTHER -> Lines + 2

UploadSession(k) ==
  /\ Progress(k) /\ Stream(Incoming, k, Flag, Heads)
  /\ spc = "login" => Len(Incoming) <= 1
  /\ spc = "text" => rfile \in source \/ k + Len(Incoming) >= Lines + 1
  /\ accepted => k + Len(up) = Sent(cpc, down)
  /\ failures = 0 /\ ~accepted /\ spc # "login" => k + Len(old) = Lines + 1

UploadStates ==
  /\ cpc \in {"off", "login", "next", "ack", "send", "post"}
  /\ spc \in {"off", "listen", "login", "recv", "text", "rename"}
  /\ cpc = "login" => down \in {<<>>, <<Ok>>}
  /\ cpc = "ack" => down \in {<<>>, <<Msg>>}
  /\ cpc \notin {"login", "ack"} => down = <<>>
  /\ cpc \in {"ack", "send", "post"} => file \in source

UploadStreams ==
  spc \notin {"off", "listen"} => \E k \in 0..(Lines + 2) : UploadSession(k)

\* Where the two sides of an accepted connection are.
UploadTogether ==
  accepted =>
    /\ spc # "listen"
    /\ cpc = "login" => IF down = <<>> THEN spc = "login" ELSE spc = "recv"
    /\ cpc # "login" => spc # "login"
    /\ cpc = "ack" => IF down = <<>> THEN up # <<>> /\ up[Len(up)] = Header(file)
                                     ELSE spc = "text" /\ rfile = file
    /\ cpc = "send" => spc = "text" /\ rfile = file
    /\ cpc = "post" => IF spc = "recv" THEN final[file] # NoFile ELSE rfile = file

DownloadSession(k) ==
  /\ Progress(k) /\ Stream(down, k, Flag, Heads)
  /\ accepted => k + Len(down) = Sent(spc, up)

DownloadStates ==
  /\ cpc \in {"off", "login", "recv", "text", "rename"}
  /\ spc \in {"off", "listen", "login", "next", "ack", "send"}
  /\ source = produced /\ tmp[Unnamed] \in {NoFile, <<>>}
  /\ spc \in {"next", "send"} => old = <<>> /\ (accepted => up = <<>>)
  /\ spc = "login" => old \in {<<>>, <<Login>>}
  /\ spc = "ack" => old \in {<<>>, <<Msg>>} /\ file \in source
  /\ spc = "send" => file \in source

DownloadStreams ==
  cpc # "off" => \E k \in 0..(Lines + 2) : DownloadSession(k)

DownloadTogether ==
  accepted =>
    /\ spc = "login" => cpc = "login" /\ up = <<Login>>
    /\ spc = "ack" => \/ up = <<>> /\ down # <<>> /\ down[Len(down)] = Header(file)
                      \/ up = <<Msg>> /\ cpc = "text" /\ rfile = file
    /\ spc = "send" => cpc = "text" /\ rfile = file
    /\ spc = "listen" => \/ up = <<>> /\ down # <<>> /\ down[Len(down)] = Finish
                         \/ up = <<Msg>> /\ cpc = "text" /\ rfile = Unnamed

\* Files that are gone, and the file that a client is about to delete although the
\* server that had it has ended.
Lost == {f \in produced \ source : final[f] = NoFile /\ ~InFlight(f)}
Doomed == {f \in Files : /\ Upload /\ ~linked /\ f = file /\ final[f] = NoFile
                         /\ cpc \in {"send", "post"} \/ (cpc = "ack" /\ down # <<>>)}
Losses == IsFiniteSet(Lost \cup Doomed) /\ Cardinality(Lost \cup Doomed) <= failures

TransferInv ==
  /\ TypeOK /\ Links /\ Leftovers /\ Published /\ Losses
  /\ Upload => UploadStates /\ UploadStreams /\ UploadTogether
  /\ ~Upload => DownloadStates /\ DownloadStreams /\ DownloadTogether

-----------------------------------------------------------------------------
(* Frames, streams and copies. *)

LEMMA FrameFields ==
  /\ Login.type = "login" /\ Ok.type = "ok" /\ Msg.type = "msg"
  /\ EndFlag.type = "end" /\ Finish.type = "finish"
  /\ \A f : Header(f).type = "head" /\ Header(f).file = f
  /\ \A i : Line(i).type = "line" /\ Line(i).n = i
BY DEF Login, Ok, Msg, EndFlag, Finish, Header, Line

LEMMA FrameTypes ==
  /\ Login \in Frame /\ Ok \in Frame /\ Msg \in Frame /\ EndFlag \in Frame /\ Finish \in Frame
  /\ \A f \in Files : Header(f) \in Frame
  /\ \A i \in 1..Lines : Line(i) \in Frame
BY DEF Frame

LEMMA OneFrame ==
  ASSUME NEW m \in Frame
  PROVE  /\ <<m>> \in Seq(Frame) /\ <<m>> # <<>> /\ Len(<<m>>) = 1 /\ <<m>>[1] = m
         /\ Head(<<m>>) = m /\ Tail(<<m>>) = <<>> /\ Append(<<>>, m) = <<m>>
OBVIOUS

LEMMA Singles ==
  /\ <<Login>> \in Seq(Frame) /\ <<Ok>> \in Seq(Frame) /\ <<Msg>> \in Seq(Frame)
  /\ <<Login>> # <<Ok>> /\ <<Login>> # <<Msg>> /\ <<Ok>> # <<Msg>>
  /\ \A m \in {Login, Ok, Msg} :
       <<m>> # <<>> /\ Len(<<m>>) = 1 /\ Head(<<m>>) = m /\ Tail(<<m>>) = <<>> /\ Append(<<>>, m) = <<m>>
<1>1. Login \in Frame /\ Ok \in Frame /\ Msg \in Frame
  BY FrameTypes
<1>2. /\ <<Login>> \in Seq(Frame) /\ <<Ok>> \in Seq(Frame) /\ <<Msg>> \in Seq(Frame)
      /\ \A m \in {Login, Ok, Msg} :
           <<m>> # <<>> /\ Len(<<m>>) = 1 /\ Head(<<m>>) = m /\ Tail(<<m>>) = <<>> /\ Append(<<>>, m) = <<m>>
  BY <1>1, OneFrame
<1>3. <<Login>> # <<Ok>> /\ <<Login>> # <<Msg>> /\ <<Ok>> # <<Msg>>
  BY <1>2, FrameFields
<1> QED
  BY <1>2, <1>3

LEMMA SeqFacts ==
  ASSUME NEW s \in Seq(Frame)
  PROVE  /\ Len(s) \in Nat /\ (s = <<>> <=> Len(s) = 0)
         /\ s # <<>> => /\ Head(s) = s[1] /\ Tail(s) \in Seq(Frame) /\ Len(Tail(s)) = Len(s) - 1
                        /\ Head(s) \in Frame /\ s[Len(s)] \in Frame
                        /\ \A i \in 1..Len(s) - 1 : Tail(s)[i] = s[i + 1]
                        /\ Len(s) = 1 => s = <<s[1]>>
         /\ \A m \in Frame : /\ Append(s, m) \in Seq(Frame) /\ Len(Append(s, m)) = Len(s) + 1
                             /\ Append(s, m)[Len(s) + 1] = m /\ Append(s, m) # <<>>
                             /\ \A i \in 1..Len(s) : Append(s, m)[i] = s[i]
<1>1. Len(s) \in Nat /\ (s = <<>> <=> Len(s) = 0)
  OBVIOUS
<1>2. ASSUME s # <<>>
      PROVE  /\ Head(s) = s[1] /\ Tail(s) \in Seq(Frame) /\ Len(Tail(s)) = Len(s) - 1
             /\ Head(s) \in Frame /\ s[Len(s)] \in Frame
             /\ \A i \in 1..Len(s) - 1 : Tail(s)[i] = s[i + 1]
  BY <1>2
<1>3. Len(s) = 1 => s = <<s[1]>>
  OBVIOUS
<1>4. ASSUME NEW m \in Frame
      PROVE  /\ Append(s, m) \in Seq(Frame) /\ Len(Append(s, m)) = Len(s) + 1
             /\ Append(s, m)[Len(s) + 1] = m
             /\ \A i \in 1..Len(s) : Append(s, m)[i] = s[i]
  OBVIOUS
<1>5. \A m \in Frame : Append(s, m) # <<>>
  BY <1>1, <1>4
<1> QED
  BY <1>1, <1>2, <1>3, <1>4, <1>5

LEMMA StreamAppend ==
  ASSUME NEW s, NEW k \in Nat, NEW flag, NEW heads, Stream(s, k, flag, heads), NEW m \in Frame,
         k + Len(s) < Lines + 2, Fits(m, k + Len(s) + 1, flag, heads)
  PROVE  Stream(Append(s, m), k, flag, heads)
<1>1. s \in Seq(Frame) /\ Len(s) \in Nat /\ Lines \in Nat
  BY TransferAssumption DEF Stream
<1>2. /\ Append(s, m) \in Seq(Frame) /\ Len(Append(s, m)) = Len(s) + 1
      /\ Append(s, m)[Len(s) + 1] = m
      /\ \A i \in 1..Len(s) : Append(s, m)[i] = s[i]
  BY <1>1
<1>3. ASSUME NEW i \in 1..Len(Append(s, m)) PROVE Fits(Append(s, m)[i], k + i, flag, heads)
  <2>1. CASE i \in 1..Len(s)
    BY <1>2, <2>1 DEF Stream
  <2>2. CASE i = Len(s) + 1
    <3>1. k + i = k + Len(s) + 1
      BY <1>1, <2>2
    <3> QED
      BY <1>2, <2>2, <3>1
  <2> QED
    BY <1>1, <1>2, <2>1, <2>2
<1> QED
  BY <1>1, <1>2, <1>3 DEF Stream

LEMMA StreamTail ==
  ASSUME NEW s, NEW k \in Nat, NEW flag, NEW heads, Stream(s, k, flag, heads), s # <<>>
  PROVE  /\ Fits(Head(s), k + 1, flag, heads) /\ Stream(Tail(s), k + 1, flag, heads)
         /\ k + 1 <= Lines + 2 /\ (k + 1) + Len(Tail(s)) = k + Len(s)
<1>1. s \in Seq(Frame) /\ Len(s) \in Nat \ {0} /\ Lines \in Nat
  BY TransferAssumption DEF Stream
<1>2. /\ Tail(s) \in Seq(Frame) /\ Len(Tail(s)) = Len(s) - 1 /\ Head(s) = s[1]
      /\ \A i \in 1..Len(s) - 1 : Tail(s)[i] = s[i + 1]
  BY <1>1
<1>3. Fits(Head(s), k + 1, flag, heads)
  BY <1>1, <1>2 DEF Stream
<1>4. ASSUME NEW i \in 1..Len(Tail(s)) PROVE Fits(Tail(s)[i], (k + 1) + i, flag, heads)
  <2>1. i + 1 \in 1..Len(s) /\ k + (i + 1) = (k + 1) + i /\ Tail(s)[i] = s[i + 1]
    BY <1>1, <1>2
  <2> QED
    BY <2>1 DEF Stream
<1>5. k + Len(s) <= Lines + 2
  BY DEF Stream
<1> QED
  BY <1>1, <1>2, <1>3, <1>4, <1>5 DEF Stream

\* A stream stays one when headers become possible, when it holds none, when the
\* position of the flag is passed and when it is empty.
LEMMA StreamOther ==
  ASSUME NEW s, NEW k \in Nat, NEW flag, NEW heads, NEW flag2, NEW heads2,
         Stream(s, k, flag, heads),
         heads \subseteq heads2 \/ k + Len(s) <= Lines + 1,
         flag = flag2 \/ k >= Lines + 1 \/ s = <<>>
  PROVE  Stream(s, k, flag2, heads2)
<1>1. s \in Seq(Frame) /\ Len(s) \in Nat /\ Lines \in Nat /\ k + Len(s) <= Lines + 2
  BY TransferAssumption DEF Stream
<1>2. ASSUME NEW i \in 1..Len(s) PROVE Fits(s[i], k + i, flag2, heads2)
  <2>1. Fits(s[i], k + i, flag, heads) /\ s # <<>>
    BY <1>1 DEF Stream
  <2> QED
    BY <1>1, <2>1 DEF Fits
<1> QED
  BY <1>1, <1>2 DEF Stream

LEMMA EmptyStream ==
  ASSUME NEW k \in Nat, NEW flag, NEW heads, k <= Lines + 2
  PROVE  Stream(<<>>, k, flag, heads)
BY TransferAssumption DEF Stream

LEMMA OneFrameStream ==
  ASSUME NEW m \in Frame, NEW k \in Nat, NEW flag, NEW heads, k + 1 <= Lines + 2,
         Fits(m, k + 1, flag, heads)
  PROVE  Stream(<<m>>, k, flag, heads) /\ k + Len(<<m>>) = k + 1
BY TransferAssumption DEF Stream

LEMMA CopyExtended ==
  ASSUME NEW c, NEW k \in 0..(Lines - 1), EndsWith(c, k)
  PROVE  /\ EndsWith(Append(c, k + 1), k + 1) /\ Append(c, k + 1) \in Seq(1..Lines)
         /\ Len(Append(c, k + 1)) = Len(c) + 1
<1>1. c \in Seq(1..Lines) /\ Len(c) \in Nat /\ k <= Len(c) /\ k + 1 \in 1..Lines /\ Lines \in Nat
  BY TransferAssumption DEF EndsWith
<1> DEFINE d == Append(c, k + 1)
<1>2. /\ d \in Seq(1..Lines) /\ Len(d) = Len(c) + 1 /\ d[Len(c) + 1] = k + 1
      /\ \A i \in 1..Len(c) : d[i] = c[i]
  BY <1>1
<1>3. ASSUME NEW i \in 1..(k + 1) PROVE d[Len(d) - (k + 1) + i] = i
  <2>1. CASE i = k + 1
    <3>1. Len(d) - (k + 1) + i = Len(c) + 1
      BY <1>1, <1>2, <2>1
    <3> QED
      BY <1>2, <2>1, <3>1
  <2>2. CASE i \in 1..k
    <3>1. Len(d) - (k + 1) + i = Len(c) - k + i /\ Len(c) - k + i \in 1..Len(c)
      BY <1>1, <1>2, <2>2
    <3>2. c[Len(c) - k + i] = i
      BY <2>2 DEF EndsWith
    <3> QED
      BY <1>2, <3>1, <3>2
  <2> QED
    BY <1>1, <2>1, <2>2
<1> HIDE DEF d
<1>4. Len(d) >= k + 1
  BY <1>1, <1>2
<1>5. EndsWith(d, k + 1)
  BY <1>2, <1>3, <1>4 DEF EndsWith
<1> QED
  BY <1>2, <1>5 DEF d

LEMMA AnyCopyEndsWithNothing ==
  ASSUME NEW c \in Seq(1..Lines)
  PROVE  EndsWith(c, 0)
BY DEF EndsWith

LEMMA WholeCopy ==
  ASSUME NEW c, EndsWith(c, Lines)
  PROVE  /\ c # NoFile /\ IsSuffix(Whole, c)
         /\ Len(c) = Lines => c = Whole
<1>1. c \in Seq(1..Lines) /\ Len(c) \in Nat /\ Lines \in Nat /\ Lines <= Len(c)
  BY TransferAssumption DEF EndsWith
<1>2. \A i \in 1..Lines : c[Len(c) - Lines + i] = i
  BY DEF EndsWith
<1>3. Whole \in Seq(1..Lines) /\ Len(Whole) = Lines /\ \A i \in 1..Lines : Whole[i] = i
  BY <1>1 DEF Whole
<1>4. Len(c) = Lines => c = Whole
  <2> SUFFICES ASSUME Len(c) = Lines PROVE c = Whole
    OBVIOUS
  <2>1. \A i \in 1..Lines : c[i] = Whole[i]
    <3> SUFFICES ASSUME NEW i \in 1..Lines PROVE c[i] = i
      BY <1>3
    <3>1. Len(c) - Lines + i = i
      BY <1>1
    <3> QED
      BY <1>2, <3>1
  <2> QED
    BY <1>1, <1>3, <2>1
<1>5. IsSuffix(Whole, c)
  <2> DEFINE s == Reverse(Whole)
             t == Reverse(c)
  <2>1. /\ s \in Seq(1..Lines) /\ Len(s) = Lines
        /\ \A i \in 1..Lines : s[i] = Whole[(Lines - i) + 1]
    BY <1>1, <1>3 DEF Reverse
  <2>2. /\ t \in Seq(1..Lines) /\ Len(t) = Len(c)
        /\ \A i \in 1..Len(c) : t[i] = c[(Len(c) - i) + 1]
    BY <1>1 DEF Reverse
  <2> HIDE DEF s, t
  <2>3. ASSUME NEW i \in 1..Lines PROVE s[i] = t[i]
    <3>1. (Lines - i) + 1 \in 1..Lines
      BY <1>1
    <3>2. s[i] = (Lines - i) + 1
      BY <1>3, <2>1, <3>1
    <3>3. i \in 1..Len(c) /\ (Len(c) - i) + 1 = Len(c) - Lines + ((Lines - i) + 1)
      BY <1>1
    <3>4. t[i] = c[Len(c) - Lines + ((Lines - i) + 1)]
      BY <2>2, <3>3
    <3> QED
      BY <1>2, <3>1, <3>2, <3>4
  <2>4. IsPrefix(s, t)
    <3>1. /\ SubSeq(t, 1, Lines) \in Seq(1..Lines) /\ Len(SubSeq(t, 1, Lines)) = Lines
          /\ \A i \in 1..Lines : SubSeq(t, 1, Lines)[i] = t[i]
      <4>1. \A i \in 1..Lines : t[i] \in 1..Lines
        BY <1>1, <2>2
      <4>2. 1 \in Int /\ Lines \in Int /\ (IF 1 <= Lines THEN Lines - 1 + 1 ELSE 0) = Lines
            /\ 1..(Lines - 1 + 1) = 1..Lines /\ \A i \in 1..Lines : 1 + i - 1 = i
        BY <1>1
      <4> QED
        BY <4>1, <4>2, SubSeqProperties
    <3>2. /\ SubSeq(s, 1, Lines) \in Seq(1..Lines) /\ Len(SubSeq(s, 1, Lines)) = Lines
          /\ \A i \in 1..Lines : SubSeq(s, 1, Lines)[i] = s[i]
      <4>1. \A i \in 1..Lines : s[i] \in 1..Lines
        <5> SUFFICES ASSUME NEW i \in 1..Lines PROVE s[i] \in 1..Lines
          OBVIOUS
        <5>1. (Lines - i) + 1 \in 1..Lines
          BY <1>1
        <5> QED
          BY <1>3, <2>1, <5>1
      <4>2. 1 \in Int /\ Lines \in Int /\ (IF 1 <= Lines THEN Lines - 1 + 1 ELSE 0) = Lines
            /\ 1..(Lines - 1 + 1) = 1..Lines /\ \A i \in 1..Lines : 1 + i - 1 = i
        BY <1>1
      <4> QED
        BY <4>1, <4>2, SubSeqProperties
    <3>3. SubSeq(s, 1, Lines) = SubSeq(t, 1, Lines)
      BY ONLY <2>3, <3>1, <3>2
    <3> QED
      BY <1>1, <2>1, <2>2, <3>3 DEF IsPrefix
  <2> QED
    BY <2>4 DEF IsSuffix, s, t
<1> QED
  BY <1>1, <1>4, <1>5, TransferAssumption

LEMMA NoMoreLosses ==
  ASSUME NEW A, NEW B, NEW n \in Nat, NEW m \in Nat, IsFiniteSet(A), Cardinality(A) <= n,
         B \subseteq A, n <= m
  PROVE  IsFiniteSet(B) /\ Cardinality(B) <= m
<1>1. IsFiniteSet(B) /\ Cardinality(B) <= Cardinality(A)
  BY FS_Subset
<1>2. Cardinality(A) \in Nat /\ Cardinality(B) \in Nat
  BY <1>1, FS_CardinalityType
<1> QED
  BY <1>1, <1>2

LEMMA OneMoreLoss ==
  ASSUME NEW A, NEW B, NEW n \in Nat, IsFiniteSet(A), Cardinality(A) <= n,
         NEW x, B \subseteq A \cup {x}
  PROVE  IsFiniteSet(B) /\ Cardinality(B) <= n + 1
<1>1. /\ IsFiniteSet(A \cup {x})
      /\ Cardinality(A \cup {x}) = Cardinality(A) \/ Cardinality(A \cup {x}) = Cardinality(A) + 1
  BY FS_AddElement
<1>2. Cardinality(A) \in Nat /\ Cardinality(A \cup {x}) \in Nat
  BY <1>1, FS_CardinalityType
<1>3. Cardinality(A \cup {x}) <= n + 1 /\ n + 1 \in Nat
  BY <1>1, <1>2
<1> QED
  BY <1>1, <1>2, <1>3, NoMoreLosses

-----------------------------------------------------------------------------
(* Every step of an upload keeps the invariant. *)

LEMMA UploadProduce ==
  ASSUME TransferInv, Upload, NEW f \in Files, Produce(f)
  PROVE  TransferInv'
<1> USE TransferAssumption
<1>1. /\ TypeOK /\ Links /\ Leftovers /\ Published /\ Losses
      /\ UploadStates /\ UploadStreams /\ UploadTogether
  BY DEF TransferInv
<1>2. /\ f \notin produced
      /\ produced' = produced \cup {f}
      /\ source' = source \cup {f}
      /\ UNCHANGED <<clienttype, ptype, backup, todo, file, sent, cpc, spc, linked, accepted, up, down, old, rfile, tmp, final, failures>>
  BY <1>1 DEF Produce, sender, pcs, net, receiver
<1>3. Upload'
  BY <1>2 DEF Upload
<1>4. TypeOK'
  BY <1>1, <1>2, <1>3, FrameTypes, SeqFacts, OneFrame, Singles DEF TypeOK
<1>5. Links'
  BY <1>1, <1>2, <1>3, FrameTypes, SeqFacts, OneFrame, Singles DEF Links, TypeOK, SenderAt, ReceiverAt, ReceiverIn, Incoming, Upload, UploadStates
<1>6. Leftovers'
  BY <1>1, <1>2, <1>3 DEF Leftovers, TypeOK, Links, SenderAt, ReceiverAt, ReceiverIn, Incoming, Upload
<1>7. Published'
  BY <1>1, <1>2 DEF Published, TypeOK
<1>8. Losses'
  <2>1. (Lost \cup Doomed)' \subseteq Lost \cup Doomed
    BY <1>1, <1>2, <1>3 DEF Lost, Doomed, InFlight, TypeOK, Links, UploadStates, SenderAt, ReceiverAt, ReceiverIn, Incoming, Upload
  <2>2. failures \in Nat /\ failures' \in Nat /\ failures <= failures'
    BY <1>1, <1>2 DEF TypeOK
  <2> QED
    BY <1>1, <2>1, <2>2, NoMoreLosses DEF Losses
<1>9. UploadStates'
  BY <1>1, <1>2, <1>3, FrameTypes, SeqFacts, OneFrame, Singles DEF UploadStates, TypeOK, Links, SenderAt, ReceiverAt, ReceiverIn, Incoming, Upload
<1>10. UploadStreams'
  <2> SUFFICES ASSUME spc' \notin {"off", "listen"} PROVE \E n \in 0..(Lines + 2) : UploadSession(n)'
    BY DEF UploadStreams
  <2>1. PICK k \in 0..(Lines + 2) : UploadSession(k)
    BY <1>1, <1>2 DEF UploadStreams
  <2>2. Progress(k)'
    BY <1>1, <1>2, <1>3, <2>1, FrameFields DEF UploadSession, Progress, TypeOK, SenderAt, ReceiverAt, ReceiverIn, Incoming, Upload, UploadStates
  <2>3. Stream(Incoming, k, Flag, Heads)'
    BY <1>1, <1>2, <1>3, <2>1, StreamOther DEF UploadSession, Flag, Greeting, Heads, TypeOK, SenderAt, ReceiverAt, ReceiverIn, Incoming, Upload, UploadStates, Links
  <2>4. UploadSession(k)'
    BY <1>1, <1>2, <1>3, <2>1, <2>2, <2>3, OneFrame, SeqFacts DEF UploadSession, Sent, TypeOK, Links, UploadStates, UploadTogether, SenderAt, ReceiverAt, ReceiverIn, Incoming, Upload
  <2> QED
    BY <2>4
<1>11. UploadTogether'
  BY <1>1, <1>2, <1>3, FrameTypes, SeqFacts, OneFrame, Singles DEF UploadTogether, UploadStates, TypeOK, Links, SenderAt, ReceiverAt, ReceiverIn, Incoming, Upload
<1> QED
  BY <1>3, <1>4, <1>5, <1>6, <1>7, <1>8, <1>9, <1>10, <1>11 DEF TransferInv

LEMMA UploadClientStart ==
  ASSUME TransferInv, Upload, ClientStart
  PROVE  TransferInv'
<1> USE TransferAssumption
<1>1. /\ TypeOK /\ Links /\ Leftovers /\ Published /\ Losses
      /\ UploadStates /\ UploadStreams /\ UploadTogether
  BY DEF TransferInv
<1>2. /\ cpc = "off"
      /\ spc # "off"
      /\ cpc' = "login"
      /\ linked' = TRUE
      /\ accepted' = FALSE
      /\ up' = <<Login>>
      /\ down' = <<>>
      /\ UNCHANGED <<clienttype, ptype, source, backup, produced, todo, file, sent, spc, old, rfile, tmp, final, failures>>
  BY <1>1 DEF ClientStart, Connectable, disk, sender, receiver
<1>3. Upload'
  BY <1>2 DEF Upload
<1>4. TypeOK'
  <2>1. linked' \in BOOLEAN /\ accepted' \in BOOLEAN
    BY <1>1, <1>2 DEF TypeOK
  <2> QED
    BY <1>1, <1>2, <1>3, <2>1, Singles DEF TypeOK
<1>5. Links'
  BY <1>1, <1>2, <1>3, FrameTypes, SeqFacts, OneFrame, Singles DEF Links, TypeOK, SenderAt, ReceiverAt, ReceiverIn, Incoming, Upload, UploadStates
<1>6. Leftovers'
  BY <1>1, <1>2, <1>3 DEF Leftovers, TypeOK, Links, SenderAt, ReceiverAt, ReceiverIn, Incoming, Upload
<1>7. Published'
  BY <1>1, <1>2 DEF Published, TypeOK
<1>8. Losses'
  <2>1. (Lost \cup Doomed)' \subseteq Lost \cup Doomed
    BY <1>1, <1>2, <1>3 DEF Lost, Doomed, InFlight, TypeOK, Links, UploadStates, SenderAt, ReceiverAt, ReceiverIn, Incoming, Upload
  <2>2. failures \in Nat /\ failures' \in Nat /\ failures <= failures'
    BY <1>1, <1>2 DEF TypeOK
  <2> QED
    BY <1>1, <2>1, <2>2, NoMoreLosses DEF Losses
<1>9. UploadStates'
  BY <1>1, <1>2, <1>3, FrameTypes, SeqFacts, OneFrame, Singles DEF UploadStates, TypeOK, Links, SenderAt, ReceiverAt, ReceiverIn, Incoming, Upload
<1>10. UploadStreams'
  <2> SUFFICES ASSUME spc' \notin {"off", "listen"} PROVE \E n \in 0..(Lines + 2) : UploadSession(n)'
    BY DEF UploadStreams
  <2>1. PICK k \in 0..(Lines + 2) : UploadSession(k)
    BY <1>1, <1>2 DEF UploadStreams
  <2>2. Progress(k)'
    BY <1>1, <1>2, <1>3, <2>1, FrameFields DEF UploadSession, Progress, TypeOK, SenderAt, ReceiverAt, ReceiverIn, Incoming, Upload, UploadStates
  <2>3. Stream(Incoming, k, Flag, Heads)'
    BY <1>1, <1>2, <1>3, <2>1, StreamOther DEF UploadSession, Flag, Greeting, Heads, TypeOK, SenderAt, ReceiverAt, ReceiverIn, Incoming, Upload, UploadStates, Links
  <2>4. UploadSession(k)'
    BY <1>1, <1>2, <1>3, <2>1, <2>2, <2>3, OneFrame, SeqFacts DEF UploadSession, Sent, TypeOK, Links, UploadStates, UploadTogether, SenderAt, ReceiverAt, ReceiverIn, Incoming, Upload
  <2> QED
    BY <2>4
<1>11. UploadTogether'
  BY <1>1, <1>2, <1>3, FrameTypes, SeqFacts, OneFrame, Singles DEF UploadTogether, UploadStates, TypeOK, Links, SenderAt, ReceiverAt, ReceiverIn, Incoming, Upload
<1> QED
  BY <1>3, <1>4, <1>5, <1>6, <1>7, <1>8, <1>9, <1>10, <1>11 DEF TransferInv

LEMMA UploadClientLogin ==
  ASSUME TransferInv, Upload, ClientLogin
  PROVE  TransferInv'
<1> USE TransferAssumption
<1>1. /\ TypeOK /\ Links /\ Leftovers /\ Published /\ Losses
      /\ UploadStates /\ UploadStreams /\ UploadTogether
  BY DEF TransferInv
<1>2. /\ cpc = "login"
      /\ down = <<Ok>>
      /\ todo' = source
      /\ cpc' = "next"
      /\ down' = <<>>
      /\ UNCHANGED <<clienttype, ptype, source, backup, produced, file, sent, spc, linked, accepted, up, old, rfile, tmp, final, failures>>
  BY <1>1, FrameTypes, OneFrame DEF ClientLogin, ClientReads, Snapshot, disk, receiver, UploadStates
<1>3. Upload'
  BY <1>2 DEF Upload
<1>4. TypeOK'
  BY <1>1, <1>2, <1>3, FrameTypes, SeqFacts, OneFrame, Singles DEF TypeOK
<1>5. Links'
  BY <1>1, <1>2, <1>3, FrameTypes, SeqFacts, OneFrame, Singles DEF Links, TypeOK, SenderAt, ReceiverAt, ReceiverIn, Incoming, Upload, UploadStates
<1>6. Leftovers'
  BY <1>1, <1>2, <1>3 DEF Leftovers, TypeOK, Links, SenderAt, ReceiverAt, ReceiverIn, Incoming, Upload
<1>7. Published'
  BY <1>1, <1>2 DEF Published, TypeOK
<1>8. Losses'
  <2>1. (Lost \cup Doomed)' \subseteq Lost \cup Doomed
    BY <1>1, <1>2, <1>3 DEF Lost, Doomed, InFlight, TypeOK, Links, UploadStates, SenderAt, ReceiverAt, ReceiverIn, Incoming, Upload
  <2>2. failures \in Nat /\ failures' \in Nat /\ failures <= failures'
    BY <1>1, <1>2 DEF TypeOK
  <2> QED
    BY <1>1, <2>1, <2>2, NoMoreLosses DEF Losses
<1>9. UploadStates'
  BY <1>1, <1>2, <1>3, FrameTypes, SeqFacts, OneFrame, Singles DEF UploadStates, TypeOK, Links, SenderAt, ReceiverAt, ReceiverIn, Incoming, Upload
<1>10. UploadStreams'
  <2> SUFFICES ASSUME spc' \notin {"off", "listen"} PROVE \E n \in 0..(Lines + 2) : UploadSession(n)'
    BY DEF UploadStreams
  <2>1. PICK k \in 0..(Lines + 2) : UploadSession(k)
    BY <1>1, <1>2 DEF UploadStreams
  <2>2. Progress(k)'
    BY <1>1, <1>2, <1>3, <2>1, FrameFields DEF UploadSession, Progress, TypeOK, SenderAt, ReceiverAt, ReceiverIn, Incoming, Upload, UploadStates
  <2>3. Stream(Incoming, k, Flag, Heads)'
    BY <1>1, <1>2, <1>3, <2>1, StreamOther DEF UploadSession, Flag, Greeting, Heads, TypeOK, SenderAt, ReceiverAt, ReceiverIn, Incoming, Upload, UploadStates, Links
  <2>4. UploadSession(k)'
    BY <1>1, <1>2, <1>3, <2>1, <2>2, <2>3, OneFrame, SeqFacts DEF UploadSession, Sent, TypeOK, Links, UploadStates, UploadTogether, SenderAt, ReceiverAt, ReceiverIn, Incoming, Upload
  <2> QED
    BY <2>4
<1>11. UploadTogether'
  BY <1>1, <1>2, <1>3, FrameTypes, SeqFacts, OneFrame, Singles DEF UploadTogether, UploadStates, TypeOK, Links, SenderAt, ReceiverAt, ReceiverIn, Incoming, Upload
<1> QED
  BY <1>3, <1>4, <1>5, <1>6, <1>7, <1>8, <1>9, <1>10, <1>11 DEF TransferInv

LEMMA UploadSendHeader ==
  ASSUME TransferInv, Upload, NEW f \in Files, SendHeader(f)
  PROVE  TransferInv'
<1> USE TransferAssumption
<1>1. /\ TypeOK /\ Links /\ Leftovers /\ Published /\ Losses
      /\ UploadStates /\ UploadStreams /\ UploadTogether
  BY DEF TransferInv
<1>2. /\ cpc = "next"
      /\ f \in todo
      /\ up' = IF linked THEN Append(up, Header(f)) ELSE up
      /\ todo' = todo \ {f}
      /\ file' = f
      /\ cpc' = "ack"
      /\ UNCHANGED <<clienttype, ptype, source, backup, produced, sent, spc, linked, accepted, down, old, rfile, tmp, final, failures>>
  BY <1>1 DEF SendHeader, NextName, Send, ClientWrites, SenderAt, SenderTo, disk, receiver
<1>3. Upload'
  BY <1>2 DEF Upload
<1>4. TypeOK'
  BY <1>1, <1>2, <1>3, FrameTypes, SeqFacts, OneFrame, Singles DEF TypeOK
<1>5. Links'
  BY <1>1, <1>2, <1>3, FrameTypes, SeqFacts, OneFrame, Singles DEF Links, TypeOK, SenderAt, ReceiverAt, ReceiverIn, Incoming, Upload, UploadStates
<1>6. Leftovers'
  BY <1>1, <1>2, <1>3 DEF Leftovers, TypeOK, Links, SenderAt, ReceiverAt, ReceiverIn, Incoming, Upload
<1>7. Published'
  BY <1>1, <1>2 DEF Published, TypeOK
<1>8. Losses'
  <2>1. (Lost \cup Doomed)' \subseteq Lost \cup Doomed
    BY <1>1, <1>2, <1>3 DEF Lost, Doomed, InFlight, TypeOK, Links, UploadStates, SenderAt, ReceiverAt, ReceiverIn, Incoming, Upload
  <2>2. failures \in Nat /\ failures' \in Nat /\ failures <= failures'
    BY <1>1, <1>2 DEF TypeOK
  <2> QED
    BY <1>1, <2>1, <2>2, NoMoreLosses DEF Losses
<1>9. UploadStates'
  BY <1>1, <1>2, <1>3, FrameTypes, SeqFacts, OneFrame, Singles DEF UploadStates, TypeOK, Links, SenderAt, ReceiverAt, ReceiverIn, Incoming, Upload
<1>10. UploadStreams'
  <2> SUFFICES ASSUME spc' \notin {"off", "listen"} PROVE \E n \in 0..(Lines + 2) : UploadSession(n)'
    BY DEF UploadStreams
  <2>1. PICK k \in 0..(Lines + 2) : UploadSession(k)
    BY <1>1, <1>2 DEF UploadStreams
  <2>2. Progress(k)'
    BY <1>1, <1>2, <1>3, <2>1, FrameFields DEF UploadSession, Progress, TypeOK, SenderAt, ReceiverAt, ReceiverIn, Incoming, Upload, UploadStates
  <2>3. Stream(Incoming, k, Flag, Heads)'
    <3>1. CASE ~linked
      BY <1>1, <1>2, <1>3, <2>1, <3>1 DEF UploadSession, Flag, Greeting, Heads, SenderAt, ReceiverAt, ReceiverIn, Incoming, Upload, Links
    <3>2. CASE linked
      <4>1. accepted /\ k \in Nat /\ k + Len(up) = Lines + 1 /\ Lines \in Nat
        BY <1>1, <1>2, <2>1, <3>2 DEF UploadSession, Sent, Links
      <4>2. Fits(Header(f), k + Len(up) + 1, Flag, Heads) /\ Header(f) \in Frame
        BY <1>1, <1>2, <1>3, <4>1, FrameTypes DEF Fits, Heads, Links, TypeOK
      <4>3. Stream(Append(up, Header(f)), k, Flag, Heads)
        BY <2>1, <4>1, <4>2, StreamAppend DEF UploadSession, Incoming
      <4> QED
        BY <1>1, <1>2, <1>3, <3>2, <4>1, <4>3 DEF Flag, Greeting, Heads, SenderAt, ReceiverAt, ReceiverIn, Incoming, Upload
    <3> QED
      BY <3>1, <3>2
  <2>4. UploadSession(k)'
    BY <1>1, <1>2, <1>3, <2>1, <2>2, <2>3, OneFrame, SeqFacts DEF UploadSession, Sent, TypeOK, Links, UploadStates, UploadTogether, SenderAt, ReceiverAt, ReceiverIn, Incoming, Upload
  <2> QED
    BY <2>4
<1>11. UploadTogether'
  BY <1>1, <1>2, <1>3, FrameTypes, SeqFacts, OneFrame, Singles DEF UploadTogether, UploadStates, TypeOK, Links, SenderAt, ReceiverAt, ReceiverIn, Incoming, Upload
<1> QED
  BY <1>3, <1>4, <1>5, <1>6, <1>7, <1>8, <1>9, <1>10, <1>11 DEF TransferInv

LEMMA UploadReadAck ==
  ASSUME TransferInv, Upload, ReadAck
  PROVE  TransferInv'
<1> USE TransferAssumption
<1>1. /\ TypeOK /\ Links /\ Leftovers /\ Published /\ Losses
      /\ UploadStates /\ UploadStreams /\ UploadTogether
  BY DEF TransferInv
<1>2. /\ cpc = "ack"
      /\ down = <<Msg>>
      /\ sent' = 0
      /\ cpc' = "send"
      /\ down' = <<>>
      /\ UNCHANGED <<clienttype, ptype, source, backup, produced, todo, file, spc, linked, accepted, up, old, rfile, tmp, final, failures>>
  BY <1>1, FrameTypes, OneFrame DEF ReadAck, ReadMsg, SenderReads, ClientReads, SenderAt, SenderTo, disk, receiver, UploadStates
<1>3. Upload'
  BY <1>2 DEF Upload
<1>4. TypeOK'
  BY <1>1, <1>2, <1>3, FrameTypes, SeqFacts, OneFrame, Singles DEF TypeOK
<1>5. Links'
  BY <1>1, <1>2, <1>3, FrameTypes, SeqFacts, OneFrame, Singles DEF Links, TypeOK, SenderAt, ReceiverAt, ReceiverIn, Incoming, Upload, UploadStates
<1>6. Leftovers'
  BY <1>1, <1>2, <1>3 DEF Leftovers, TypeOK, Links, SenderAt, ReceiverAt, ReceiverIn, Incoming, Upload
<1>7. Published'
  BY <1>1, <1>2 DEF Published, TypeOK
<1>8. Losses'
  <2>1. (Lost \cup Doomed)' \subseteq Lost \cup Doomed
    BY <1>1, <1>2, <1>3 DEF Lost, Doomed, InFlight, TypeOK, Links, UploadStates, SenderAt, ReceiverAt, ReceiverIn, Incoming, Upload
  <2>2. failures \in Nat /\ failures' \in Nat /\ failures <= failures'
    BY <1>1, <1>2 DEF TypeOK
  <2> QED
    BY <1>1, <2>1, <2>2, NoMoreLosses DEF Losses
<1>9. UploadStates'
  BY <1>1, <1>2, <1>3, FrameTypes, SeqFacts, OneFrame, Singles DEF UploadStates, TypeOK, Links, SenderAt, ReceiverAt, ReceiverIn, Incoming, Upload
<1>10. UploadStreams'
  <2> SUFFICES ASSUME spc' \notin {"off", "listen"} PROVE \E n \in 0..(Lines + 2) : UploadSession(n)'
    BY DEF UploadStreams
  <2>1. PICK k \in 0..(Lines + 2) : UploadSession(k)
    BY <1>1, <1>2 DEF UploadStreams
  <2>2. Progress(k)'
    BY <1>1, <1>2, <1>3, <2>1, FrameFields DEF UploadSession, Progress, TypeOK, SenderAt, ReceiverAt, ReceiverIn, Incoming, Upload, UploadStates
  <2>3. Stream(Incoming, k, Flag, Heads)'
    BY <1>1, <1>2, <1>3, <2>1, StreamOther DEF UploadSession, Flag, Greeting, Heads, TypeOK, SenderAt, ReceiverAt, ReceiverIn, Incoming, Upload, UploadStates, Links
  <2>4. UploadSession(k)'
    BY <1>1, <1>2, <1>3, <2>1, <2>2, <2>3, OneFrame, SeqFacts DEF UploadSession, Sent, TypeOK, Links, UploadStates, UploadTogether, SenderAt, ReceiverAt, ReceiverIn, Incoming, Upload
  <2> QED
    BY <2>4
<1>11. UploadTogether'
  BY <1>1, <1>2, <1>3, FrameTypes, SeqFacts, OneFrame, Singles DEF UploadTogether, UploadStates, TypeOK, Links, SenderAt, ReceiverAt, ReceiverIn, Incoming, Upload
<1> QED
  BY <1>3, <1>4, <1>5, <1>6, <1>7, <1>8, <1>9, <1>10, <1>11 DEF TransferInv

LEMMA UploadSendLine ==
  ASSUME TransferInv, Upload, SendLine
  PROVE  TransferInv'
<1> USE TransferAssumption
<1>1. /\ TypeOK /\ Links /\ Leftovers /\ Published /\ Losses
      /\ UploadStates /\ UploadStreams /\ UploadTogether
  BY DEF TransferInv
<1>2. /\ cpc = "send"
      /\ sent < Lines
      /\ up' = IF linked THEN Append(up, Line(sent + 1)) ELSE up
      /\ sent' = sent + 1
      /\ UNCHANGED <<clienttype, ptype, source, backup, produced, todo, file, cpc, spc, linked, accepted, down, old, rfile, tmp, final, failures>>
  BY <1>1 DEF SendLine, MoreLines, Send, ClientWrites, SenderAt, disk, pcs, receiver
<1>3. Upload'
  BY <1>2 DEF Upload
<1>4. TypeOK'
  BY <1>1, <1>2, <1>3, FrameTypes, SeqFacts, OneFrame, Singles DEF TypeOK
<1>5. Links'
  BY <1>1, <1>2, <1>3, FrameTypes, SeqFacts, OneFrame, Singles DEF Links, TypeOK, SenderAt, ReceiverAt, ReceiverIn, Incoming, Upload, UploadStates
<1>6. Leftovers'
  BY <1>1, <1>2, <1>3 DEF Leftovers, TypeOK, Links, SenderAt, ReceiverAt, ReceiverIn, Incoming, Upload
<1>7. Published'
  BY <1>1, <1>2 DEF Published, TypeOK
<1>8. Losses'
  <2>1. (Lost \cup Doomed)' \subseteq Lost \cup Doomed
    BY <1>1, <1>2, <1>3 DEF Lost, Doomed, InFlight, TypeOK, Links, UploadStates, SenderAt, ReceiverAt, ReceiverIn, Incoming, Upload
  <2>2. failures \in Nat /\ failures' \in Nat /\ failures <= failures'
    BY <1>1, <1>2 DEF TypeOK
  <2> QED
    BY <1>1, <2>1, <2>2, NoMoreLosses DEF Losses
<1>9. UploadStates'
  BY <1>1, <1>2, <1>3, FrameTypes, SeqFacts, OneFrame, Singles DEF UploadStates, TypeOK, Links, SenderAt, ReceiverAt, ReceiverIn, Incoming, Upload
<1>10. UploadStreams'
  <2> SUFFICES ASSUME spc' \notin {"off", "listen"} PROVE \E n \in 0..(Lines + 2) : UploadSession(n)'
    BY DEF UploadStreams
  <2>1. PICK k \in 0..(Lines + 2) : UploadSession(k)
    BY <1>1, <1>2 DEF UploadStreams
  <2>2. Progress(k)'
    BY <1>1, <1>2, <1>3, <2>1, FrameFields DEF UploadSession, Progress, TypeOK, SenderAt, ReceiverAt, ReceiverIn, Incoming, Upload, UploadStates
  <2>3. Stream(Incoming, k, Flag, Heads)'
    <3>1. CASE ~linked
      BY <1>1, <1>2, <1>3, <2>1, <3>1 DEF UploadSession, Flag, Greeting, Heads, SenderAt, ReceiverAt, ReceiverIn, Incoming, Upload, Links
    <3>2. CASE linked
      <4>1. accepted /\ k \in Nat /\ k + Len(up) = sent /\ sent + 1 \in 1..Lines /\ Lines \in Nat
        BY <1>1, <1>2, <2>1, <3>2 DEF UploadSession, Sent, Links, TypeOK
      <4>2. Fits(Line(sent + 1), k + Len(up) + 1, Flag, Heads) /\ Line(sent + 1) \in Frame
        BY <4>1, FrameTypes DEF Fits
      <4>3. Stream(Append(up, Line(sent + 1)), k, Flag, Heads)
        BY <2>1, <4>1, <4>2, StreamAppend DEF UploadSession, Incoming
      <4> QED
        BY <1>1, <1>2, <1>3, <3>2, <4>1, <4>3 DEF Flag, Greeting, Heads, SenderAt, ReceiverAt, ReceiverIn, Incoming, Upload
    <3> QED
      BY <3>1, <3>2
  <2>4. UploadSession(k)'
    BY <1>1, <1>2, <1>3, <2>1, <2>2, <2>3, OneFrame, SeqFacts DEF UploadSession, Sent, TypeOK, Links, UploadStates, UploadTogether, SenderAt, ReceiverAt, ReceiverIn, Incoming, Upload
  <2> QED
    BY <2>4
<1>11. UploadTogether'
  BY <1>1, <1>2, <1>3, FrameTypes, SeqFacts, OneFrame, Singles DEF UploadTogether, UploadStates, TypeOK, Links, SenderAt, ReceiverAt, ReceiverIn, Incoming, Upload
<1> QED
  BY <1>3, <1>4, <1>5, <1>6, <1>7, <1>8, <1>9, <1>10, <1>11 DEF TransferInv

LEMMA UploadSendEnd ==
  ASSUME TransferInv, Upload, SendEnd
  PROVE  TransferInv'
<1> USE TransferAssumption
<1>1. /\ TypeOK /\ Links /\ Leftovers /\ Published /\ Losses
      /\ UploadStates /\ UploadStreams /\ UploadTogether
  BY DEF TransferInv
<1>2. /\ cpc = "send"
      /\ sent >= Lines
      /\ up' = IF linked THEN Append(up, EndFlag) ELSE up
      /\ cpc' = "post"
      /\ UNCHANGED <<clienttype, ptype, source, backup, produced, todo, file, sent, spc, linked, accepted, down, old, rfile, tmp, final, failures>>
  BY <1>1 DEF SendEnd, MoreLines, Send, ClientWrites, SenderAt, SenderTo, disk, sender, receiver, TypeOK
<1>3. Upload'
  BY <1>2 DEF Upload
<1>4. TypeOK'
  BY <1>1, <1>2, <1>3, FrameTypes, SeqFacts, OneFrame, Singles DEF TypeOK
<1>5. Links'
  BY <1>1, <1>2, <1>3, FrameTypes, SeqFacts, OneFrame, Singles DEF Links, TypeOK, SenderAt, ReceiverAt, ReceiverIn, Incoming, Upload, UploadStates
<1>6. Leftovers'
  BY <1>1, <1>2, <1>3 DEF Leftovers, TypeOK, Links, SenderAt, ReceiverAt, ReceiverIn, Incoming, Upload
<1>7. Published'
  BY <1>1, <1>2 DEF Published, TypeOK
<1>8. Losses'
  <2>1. (Lost \cup Doomed)' \subseteq Lost \cup Doomed
    BY <1>1, <1>2, <1>3 DEF Lost, Doomed, InFlight, TypeOK, Links, UploadStates, SenderAt, ReceiverAt, ReceiverIn, Incoming, Upload
  <2>2. failures \in Nat /\ failures' \in Nat /\ failures <= failures'
    BY <1>1, <1>2 DEF TypeOK
  <2> QED
    BY <1>1, <2>1, <2>2, NoMoreLosses DEF Losses
<1>9. UploadStates'
  BY <1>1, <1>2, <1>3, FrameTypes, SeqFacts, OneFrame, Singles DEF UploadStates, TypeOK, Links, SenderAt, ReceiverAt, ReceiverIn, Incoming, Upload
<1>10. UploadStreams'
  <2> SUFFICES ASSUME spc' \notin {"off", "listen"} PROVE \E n \in 0..(Lines + 2) : UploadSession(n)'
    BY DEF UploadStreams
  <2>1. PICK k \in 0..(Lines + 2) : UploadSession(k)
    BY <1>1, <1>2 DEF UploadStreams
  <2>2. Progress(k)'
    BY <1>1, <1>2, <1>3, <2>1, FrameFields DEF UploadSession, Progress, TypeOK, SenderAt, ReceiverAt, ReceiverIn, Incoming, Upload, UploadStates
  <2>3. Stream(Incoming, k, Flag, Heads)'
    <3>1. CASE ~linked
      BY <1>1, <1>2, <1>3, <2>1, <3>1 DEF UploadSession, Flag, Greeting, Heads, SenderAt, ReceiverAt, ReceiverIn, Incoming, Upload, Links
    <3>2. CASE linked
      <4>1. accepted /\ k \in Nat /\ k + Len(up) = Lines /\ Lines \in Nat /\ spc = "text"
        BY <1>1, <1>2, <2>1, <3>2 DEF UploadSession, Sent, Links, TypeOK, UploadTogether
      <4>2. Fits(EndFlag, k + Len(up) + 1, Flag, Heads) /\ EndFlag \in Frame
        BY <1>1, <4>1, FrameTypes DEF Fits, Flag, SenderAt, ReceiverAt, ReceiverIn, Incoming, Upload
      <4>3. Stream(Append(up, EndFlag), k, Flag, Heads)
        BY <2>1, <4>1, <4>2, StreamAppend DEF UploadSession, Incoming
      <4> QED
        BY <1>1, <1>2, <1>3, <3>2, <4>1, <4>3 DEF Flag, Greeting, Heads, SenderAt, ReceiverAt, ReceiverIn, Incoming, Upload
    <3> QED
      BY <3>1, <3>2
  <2>4. UploadSession(k)'
    BY <1>1, <1>2, <1>3, <2>1, <2>2, <2>3, OneFrame, SeqFacts DEF UploadSession, Sent, TypeOK, Links, UploadStates, UploadTogether, SenderAt, ReceiverAt, ReceiverIn, Incoming, Upload
  <2> QED
    BY <2>4
<1>11. UploadTogether'
  BY <1>1, <1>2, <1>3, FrameTypes, SeqFacts, OneFrame, Singles DEF UploadTogether, UploadStates, TypeOK, Links, SenderAt, ReceiverAt, ReceiverIn, Incoming, Upload
<1> QED
  BY <1>3, <1>4, <1>5, <1>6, <1>7, <1>8, <1>9, <1>10, <1>11 DEF TransferInv

LEMMA UploadPostProcess ==
  ASSUME TransferInv, Upload, PostProcess
  PROVE  TransferInv'
<1> USE TransferAssumption
<1>1. /\ TypeOK /\ Links /\ Leftovers /\ Published /\ Losses
      /\ UploadStates /\ UploadStreams /\ UploadTogether
  BY DEF TransferInv
<1>2. /\ cpc = "post"
      /\ source' \in {source, source \ {file}}
      /\ backup' \in {backup, backup \cup {file}}
      /\ cpc' = "next"
      /\ UNCHANGED <<clienttype, ptype, produced, todo, file, sent, spc, linked, accepted, up, down, old, rfile, tmp, final, failures>>
  BY <1>1 DEF PostProcess, Removed, CopiedToBackup, sender, net, receiver
<1>3. Upload'
  BY <1>2 DEF Upload
<1>4. TypeOK'
  BY <1>1, <1>2, <1>3 DEF TypeOK, UploadStates
<1>5. Links'
  BY <1>1, <1>2, <1>3, FrameTypes, SeqFacts, OneFrame, Singles DEF Links, TypeOK, SenderAt, ReceiverAt, ReceiverIn, Incoming, Upload, UploadStates
<1>6. Leftovers'
  BY <1>1, <1>2, <1>3 DEF Leftovers, TypeOK, Links, SenderAt, ReceiverAt, ReceiverIn, Incoming, Upload
<1>7. Published'
  BY <1>1, <1>2 DEF Published, TypeOK
<1>8. Losses'
  <2>1. (Lost \cup Doomed)' \subseteq Lost \cup Doomed
    <3>1. accepted => final[file] # NoFile \/ InFlight(file)
      BY <1>1, <1>2 DEF UploadTogether, UploadStates, InFlight, Links, SenderAt, ReceiverAt, ReceiverIn, Incoming, Upload
    <3>2. final[file] # NoFile \/ InFlight(file) \/ file \in Doomed
      BY <1>1, <1>2, <3>1 DEF Doomed, UploadStates, TypeOK, Links
    <3> QED
      BY <1>2, <1>3, <3>2 DEF Lost, Doomed, InFlight, SenderAt, ReceiverAt, ReceiverIn, Incoming, Upload
  <2>2. failures \in Nat /\ failures' \in Nat /\ failures <= failures'
    BY <1>1, <1>2 DEF TypeOK
  <2> QED
    BY <1>1, <2>1, <2>2, NoMoreLosses DEF Losses
<1>9. UploadStates'
  BY <1>1, <1>2, <1>3, FrameTypes, SeqFacts, OneFrame, Singles DEF UploadStates, TypeOK, Links, SenderAt, ReceiverAt, ReceiverIn, Incoming, Upload
<1>10. UploadStreams'
  <2> SUFFICES ASSUME spc' \notin {"off", "listen"} PROVE \E n \in 0..(Lines + 2) : UploadSession(n)'
    BY DEF UploadStreams
  <2>1. PICK k \in 0..(Lines + 2) : UploadSession(k)
    BY <1>1, <1>2 DEF UploadStreams
  <2>2. Progress(k)'
    BY <1>1, <1>2, <1>3, <2>1, FrameFields DEF UploadSession, Progress, TypeOK, SenderAt, ReceiverAt, ReceiverIn, Incoming, Upload, UploadStates
  <2>3. Stream(Incoming, k, Flag, Heads)'
    <3>1. accepted /\ k \in Nat /\ k + Len(up) <= Lines + 1
      BY <1>1, <1>2, <2>1 DEF UploadSession, Sent, Links
    <3> QED
      BY <1>1, <1>2, <1>3, <2>1, <3>1, StreamOther DEF UploadSession, Flag, Greeting, SenderAt, ReceiverAt, ReceiverIn, Incoming, Upload, UploadStates
  <2>4. UploadSession(k)'
    BY <1>1, <1>2, <1>3, <2>1, <2>2, <2>3, OneFrame, SeqFacts DEF UploadSession, Sent, TypeOK, Links, UploadStates, UploadTogether, SenderAt, ReceiverAt, ReceiverIn, Incoming, Upload
  <2> QED
    BY <2>4
<1>11. UploadTogether'
  BY <1>1, <1>2, <1>3, FrameTypes, SeqFacts, OneFrame, Singles DEF UploadTogether, UploadStates, TypeOK, Links, SenderAt, ReceiverAt, ReceiverIn, Incoming, Upload
<1> QED
  BY <1>3, <1>4, <1>5, <1>6, <1>7, <1>8, <1>9, <1>10, <1>11 DEF TransferInv

LEMMA UploadClientExit ==
  ASSUME TransferInv, Upload, ClientExit, cpc # "off",
         \/ failures' = failures /\ (cpc = "next" \/ (cpc # "post" /\ ~linked))
         \/ failures < MaxFailures /\ failures' = failures + 1
  PROVE  TransferInv'
<1> USE TransferAssumption
<1>1. /\ TypeOK /\ Links /\ Leftovers /\ Published /\ Losses
      /\ UploadStates /\ UploadStreams /\ UploadTogether
  BY DEF TransferInv
<1>2. /\ old' = IF accepted \/ (linked /\ spc = "listen" /\ old = <<>>) THEN up ELSE old
      /\ failures' \in 0..MaxFailures /\ (failures' = failures \/ failures' = failures + 1)
      /\ failures' = 0 => cpc = "next" \/ ~linked
      /\ cpc' = "off"
      /\ todo' = {}
      /\ file' = NoFile
      /\ sent' = 0
      /\ linked' = FALSE
      /\ accepted' = FALSE
      /\ up' = <<>>
      /\ down' = <<>>
      /\ UNCHANGED <<clienttype, ptype, source, backup, produced, spc, rfile, tmp, final>>
  BY <1>1 DEF ClientExit, Abandoned, disk, Upload, TypeOK, UploadTogether
<1>3. Upload'
  BY <1>2 DEF Upload
<1>4. TypeOK'
  <2>1. linked' \in BOOLEAN /\ accepted' \in BOOLEAN
    BY <1>1, <1>2 DEF TypeOK
  <2> QED
    BY <1>1, <1>2, <1>3, <2>1, FrameTypes, SeqFacts, OneFrame, Singles DEF TypeOK
<1>5. Links'
  BY <1>1, <1>2, <1>3 DEF Links, TypeOK, SenderAt, ReceiverAt, Upload, UploadStates, UploadTogether
<1>6. Leftovers'
  BY <1>1, <1>2, <1>3 DEF Leftovers, TypeOK, Links, SenderAt, ReceiverAt, ReceiverIn, Incoming, Upload
<1>7. Published'
  BY <1>1, <1>2 DEF Published, TypeOK
<1>8. Losses'
  <2>1. (Lost \cup Doomed)' \subseteq Lost \cup Doomed
    BY <1>1, <1>2, <1>3 DEF Lost, Doomed, InFlight, TypeOK, Links, UploadStates, SenderAt, ReceiverAt, ReceiverIn, Incoming, Upload
  <2>2. failures \in Nat /\ failures' \in Nat /\ failures <= failures'
    BY <1>1, <1>2 DEF TypeOK
  <2> QED
    BY <1>1, <2>1, <2>2, NoMoreLosses DEF Losses
<1>9. UploadStates'
  BY <1>1, <1>2, <1>3, FrameTypes, SeqFacts, OneFrame, Singles DEF UploadStates, TypeOK, Links, SenderAt, ReceiverAt, ReceiverIn, Incoming, Upload
<1>10. UploadStreams'
  <2> SUFFICES ASSUME spc' \notin {"off", "listen"} PROVE \E n \in 0..(Lines + 2) : UploadSession(n)'
    BY DEF UploadStreams
  <2>1. PICK k \in 0..(Lines + 2) : UploadSession(k)
    BY <1>1, <1>2 DEF UploadStreams
  <2>2. Progress(k)'
    BY <1>1, <1>2, <1>3, <2>1, FrameFields DEF UploadSession, Progress, TypeOK, SenderAt, ReceiverAt, ReceiverIn, Incoming, Upload, UploadStates
  <2>3. Stream(Incoming, k, Flag, Heads)'
    BY <1>1, <1>2, <1>3, <2>1, StreamOther DEF UploadSession, Flag, Greeting, Heads, TypeOK, SenderAt, ReceiverAt, ReceiverIn, Incoming, Upload, UploadStates, Links
  <2>4. UploadSession(k)'
    BY <1>1, <1>2, <1>3, <2>1, <2>2, <2>3, OneFrame, SeqFacts DEF UploadSession, Sent, TypeOK, Links, UploadStates, UploadTogether, SenderAt, ReceiverAt, ReceiverIn, Incoming, Upload
  <2> QED
    BY <2>4
<1>11. UploadTogether'
  BY <1>1, <1>2, <1>3, FrameTypes, SeqFacts, OneFrame, Singles DEF UploadTogether, UploadStates, TypeOK, Links, SenderAt, ReceiverAt, ReceiverIn, Incoming, Upload
<1> QED
  BY <1>3, <1>4, <1>5, <1>6, <1>7, <1>8, <1>9, <1>10, <1>11 DEF TransferInv

LEMMA UploadServerStart ==
  ASSUME TransferInv, Upload, ServerStart
  PROVE  TransferInv'
<1> USE TransferAssumption
<1>1. /\ TypeOK /\ Links /\ Leftovers /\ Published /\ Losses
      /\ UploadStates /\ UploadStreams /\ UploadTogether
  BY DEF TransferInv
<1>2. /\ spc = "off"
      /\ spc' = "listen"
      /\ UNCHANGED <<clienttype, ptype, source, backup, produced, todo, file, sent, cpc, linked, accepted, up, down, old, rfile, tmp, final, failures>>
  BY <1>1 DEF ServerStart, disk, sender, net, receiver
<1>3. Upload'
  BY <1>2 DEF Upload
<1>4. TypeOK'
  BY <1>1, <1>2, <1>3, FrameTypes, SeqFacts, OneFrame, Singles DEF TypeOK
<1>5. Links'
  BY <1>1, <1>2, <1>3, FrameTypes, SeqFacts, OneFrame, Singles DEF Links, TypeOK, SenderAt, ReceiverAt, ReceiverIn, Incoming, Upload, UploadStates
<1>6. Leftovers'
  BY <1>1, <1>2, <1>3 DEF Leftovers, TypeOK, Links, SenderAt, ReceiverAt, ReceiverIn, Incoming, Upload
<1>7. Published'
  BY <1>1, <1>2 DEF Published, TypeOK
<1>8. Losses'
  <2>1. (Lost \cup Doomed)' \subseteq Lost \cup Doomed
    BY <1>1, <1>2, <1>3 DEF Lost, Doomed, InFlight, TypeOK, Links, UploadStates, SenderAt, ReceiverAt, ReceiverIn, Incoming, Upload
  <2>2. failures \in Nat /\ failures' \in Nat /\ failures <= failures'
    BY <1>1, <1>2 DEF TypeOK
  <2> QED
    BY <1>1, <2>1, <2>2, NoMoreLosses DEF Losses
<1>9. UploadStates'
  BY <1>1, <1>2, <1>3, FrameTypes, SeqFacts, OneFrame, Singles DEF UploadStates, TypeOK, Links, SenderAt, ReceiverAt, ReceiverIn, Incoming, Upload
<1>10. UploadStreams'
  <2> SUFFICES ASSUME spc' \notin {"off", "listen"} PROVE \E n \in 0..(Lines + 2) : UploadSession(n)'
    BY DEF UploadStreams
  <2>1. PICK k \in 0..(Lines + 2) : UploadSession(k)
    BY <1>1, <1>2 DEF UploadStreams
  <2>2. Progress(k)'
    BY <1>1, <1>2, <1>3, <2>1, FrameFields DEF UploadSession, Progress, TypeOK, SenderAt, ReceiverAt, ReceiverIn, Incoming, Upload, UploadStates
  <2>3. Stream(Incoming, k, Flag, Heads)'
    BY <1>1, <1>2, <1>3, <2>1, StreamOther DEF UploadSession, Flag, Greeting, Heads, TypeOK, SenderAt, ReceiverAt, ReceiverIn, Incoming, Upload, UploadStates, Links
  <2>4. UploadSession(k)'
    BY <1>1, <1>2, <1>3, <2>1, <2>2, <2>3, OneFrame, SeqFacts DEF UploadSession, Sent, TypeOK, Links, UploadStates, UploadTogether, SenderAt, ReceiverAt, ReceiverIn, Incoming, Upload
  <2> QED
    BY <2>4
<1>11. UploadTogether'
  BY <1>1, <1>2, <1>3, FrameTypes, SeqFacts, OneFrame, Singles DEF UploadTogether, UploadStates, TypeOK, Links, SenderAt, ReceiverAt, ReceiverIn, Incoming, Upload
<1> QED
  BY <1>3, <1>4, <1>5, <1>6, <1>7, <1>8, <1>9, <1>10, <1>11 DEF TransferInv

LEMMA UploadServerAccept ==
  ASSUME TransferInv, Upload, ServerAccept
  PROVE  TransferInv'
<1> USE TransferAssumption
<1>1. /\ TypeOK /\ Links /\ Leftovers /\ Published /\ Losses
      /\ UploadStates /\ UploadStreams /\ UploadTogether
  BY DEF TransferInv
<1>2. /\ spc = "listen"
      /\ old # <<>> \/ (linked /\ ~accepted)
      /\ accepted' = (old = <<>>)
      /\ spc' = "login"
      /\ UNCHANGED <<clienttype, ptype, source, backup, produced, todo, file, sent, cpc, linked, up, down, old, rfile, tmp, final, failures>>
  BY <1>1 DEF ServerAccept, Pending, disk, sender, receiver
<1>3. Upload'
  BY <1>2 DEF Upload
<1>4. ~accepted /\ Incoming' = <<Login>> /\ Lines \in Nat /\ Flag' = Login
  BY <1>1, <1>2, <1>3 DEF Links, UploadTogether, UploadStates, Incoming, Flag, Greeting, ReceiverAt, Upload
<1>5. Stream(<<Login>>, Lines, Login, Heads) /\ Len(<<Login>>) = 1
  BY <1>4, FrameTypes, OneFrame, OneFrameStream DEF Fits
<1>6. TypeOK'
  <2>1. linked' \in BOOLEAN /\ accepted' \in BOOLEAN
    BY <1>1, <1>2 DEF TypeOK
  <2> QED
    BY <1>1, <1>2, <1>3, <2>1, FrameTypes, SeqFacts, OneFrame, Singles DEF TypeOK
<1>7. Links'
  BY <1>1, <1>2, <1>4, <1>5, <1>3, FrameTypes, SeqFacts, OneFrame, Singles DEF Links, TypeOK, SenderAt, ReceiverAt, ReceiverIn, Incoming, Upload, UploadStates
<1>8. Leftovers'
  BY <1>1, <1>2, <1>4, <1>5, <1>3 DEF Leftovers, TypeOK, Links, SenderAt, ReceiverAt, ReceiverIn, Incoming, Upload
<1>9. Published'
  BY <1>1, <1>2, <1>4, <1>5 DEF Published, TypeOK
<1>10. Losses'
  <2>1. (Lost \cup Doomed)' \subseteq Lost \cup Doomed
    BY <1>1, <1>2, <1>4, <1>5, <1>3 DEF Lost, Doomed, InFlight, TypeOK, Links, UploadStates, SenderAt, ReceiverAt, ReceiverIn, Incoming, Upload
  <2>2. failures \in Nat /\ failures' \in Nat /\ failures <= failures'
    BY <1>1, <1>2 DEF TypeOK
  <2> QED
    BY <1>1, <2>1, <2>2, NoMoreLosses DEF Losses
<1>11. UploadStates'
  BY <1>1, <1>2, <1>4, <1>5, <1>3, FrameTypes, SeqFacts, OneFrame, Singles DEF UploadStates, TypeOK, Links, SenderAt, ReceiverAt, ReceiverIn, Incoming, Upload
<1>12. UploadStreams'
  <2> SUFFICES ASSUME spc' \notin {"off", "listen"} PROVE \E n \in 0..(Lines + 2) : UploadSession(n)'
    BY DEF UploadStreams
  <2>1. Lines \in 0..(Lines + 2)
    BY <1>1, <1>2, <1>4, <1>5
  <2>2. Progress(Lines)'
    BY <1>1, <1>2, <1>4, <1>5, <1>3, <2>1, FrameFields DEF UploadSession, Progress, TypeOK, SenderAt, ReceiverAt, ReceiverIn, Incoming, Upload, UploadStates
  <2>3. Stream(Incoming, Lines, Flag, Heads)'
    BY <1>2, <1>3, <1>4, <1>5 DEF Heads, Upload
  <2>4. UploadSession(Lines)'
    <3>1. accepted' => cpc' = "login" /\ up' = <<Login>>
      BY <1>1, <1>2 DEF Links
    <3>2. accepted' => Lines + Len(up') = Lines + 1 /\ Sent(cpc, down)' = Lines + 1
      BY <1>3, <1>5, <3>1 DEF Sent
    <3>3. Len(Incoming') <= 1 /\ spc' = "login"
      BY <1>2, <1>4, <1>5
    <3> QED
      BY <2>2, <2>3, <3>2, <3>3 DEF UploadSession
  <2> QED
    BY <2>4, <2>1
<1>13. UploadTogether'
  BY <1>1, <1>2, <1>4, <1>5, <1>3, FrameTypes, SeqFacts, OneFrame, Singles DEF UploadTogether, UploadStates, TypeOK, Links, SenderAt, ReceiverAt, ReceiverIn, Incoming, Upload
<1> QED
  BY <1>3, <1>6, <1>7, <1>8, <1>9, <1>10, <1>11, <1>12, <1>13 DEF TransferInv

LEMMA UploadServerLogin ==
  ASSUME TransferInv, Upload, ServerLogin
  PROVE  TransferInv'
<1> USE TransferAssumption
<1>1. /\ TypeOK /\ Links /\ Leftovers /\ Published /\ Losses
      /\ UploadStates /\ UploadStreams /\ UploadTogether
  BY DEF TransferInv
<1>2. /\ spc = "login"
      /\ Incoming # <<>>
      /\ up' = IF accepted THEN Tail(up) ELSE up
      /\ old' = IF accepted THEN old ELSE Tail(old)
      /\ down' = IF accepted THEN Append(down, Ok) ELSE down
      /\ spc' = "recv"
      /\ UNCHANGED <<clienttype, ptype, source, backup, produced, todo, file, sent, cpc, linked, accepted, rfile, tmp, final, failures>>
  BY <1>1 DEF ServerLogin, ServerReads, ServerWrites, Incoming, disk, receiver, Upload
<1>3. Upload'
  BY <1>2 DEF Upload
<1>4. PICK k \in 0..(Lines + 2) : UploadSession(k)
  BY <1>1, <1>2 DEF UploadStreams
<1>5. /\ Incoming \in Seq(Frame) /\ Incoming # <<>> /\ Incoming' = Tail(Incoming)
      /\ accepted => up' = Incoming' /\ up = Incoming
      /\ ~accepted => old' = Incoming' /\ old = Incoming /\ up' = up /\ down' = down
  BY <1>1, <1>2 DEF Incoming, TypeOK, UploadStates
<1>6. /\ Incoming' \in Seq(Frame) /\ Len(Incoming') \in Nat /\ Len(Incoming) \in Nat /\ Lines \in Nat
      /\ up' \in Seq(Frame) /\ old' \in Seq(Frame) /\ down' \in Seq(Frame)
  BY <1>1, <1>2, <1>5, SeqFacts, FrameTypes DEF TypeOK
<1>7. /\ Fits(Head(Incoming), k + 1, Flag, Heads) /\ Stream(Incoming', k + 1, Flag, Heads)
      /\ k + 1 <= Lines + 2 /\ (k + 1) + Len(Incoming') = k + Len(Incoming)
      /\ k + Len(Incoming) <= Lines + 2
  BY <1>4, <1>5, StreamTail DEF UploadSession, Stream
<1>8. k = Lines /\ Incoming' = <<>>
  BY <1>2, <1>4, <1>5, <1>6, <1>7, SeqFacts DEF UploadSession, Progress, ReceiverAt, Upload
<1>9. accepted => cpc = "login" /\ down' = <<Ok>>
  BY <1>1, <1>2, Singles DEF UploadTogether, UploadStates, Links
<1>10. TypeOK'
  BY <1>1, <1>2, <1>6 DEF TypeOK
<1>11. Links'
  BY <1>1, <1>2, <1>4, <1>5, <1>6, <1>7, <1>8, <1>9, <1>3, FrameTypes, SeqFacts, OneFrame, Singles DEF Links, TypeOK, SenderAt, ReceiverAt, ReceiverIn, Incoming, Upload, UploadStates
<1>12. Leftovers'
  BY <1>1, <1>2, <1>4, <1>5, <1>6, <1>7, <1>8, <1>9, <1>3 DEF Leftovers, TypeOK, Links, SenderAt, ReceiverAt, ReceiverIn, Incoming, Upload
<1>13. Published'
  BY <1>1, <1>2, <1>4, <1>5, <1>6, <1>7, <1>8, <1>9 DEF Published, TypeOK
<1>14. Losses'
  <2>1. (Lost \cup Doomed)' \subseteq Lost \cup Doomed
    BY <1>1, <1>2, <1>4, <1>5, <1>6, <1>7, <1>8, <1>9, <1>3 DEF Lost, Doomed, InFlight, TypeOK, Links, UploadStates, SenderAt, ReceiverAt, ReceiverIn, Incoming, Upload
  <2>2. failures \in Nat /\ failures' \in Nat /\ failures <= failures'
    BY <1>1, <1>2 DEF TypeOK
  <2> QED
    BY <1>1, <2>1, <2>2, NoMoreLosses DEF Losses
<1>15. UploadStates'
  BY <1>1, <1>2, <1>4, <1>5, <1>6, <1>7, <1>8, <1>9, <1>3, FrameTypes, SeqFacts, OneFrame, Singles DEF UploadStates, TypeOK, Links, SenderAt, ReceiverAt, ReceiverIn, Incoming, Upload
<1>16. UploadStreams'
  <2> SUFFICES ASSUME spc' \notin {"off", "listen"} PROVE \E n \in 0..(Lines + 2) : UploadSession(n)'
    BY DEF UploadStreams
  <2>1. Lines + 1 \in 0..(Lines + 2)
    BY <1>6
  <2>2. Progress(Lines + 1)'
    BY <1>1, <1>2, <1>4, <1>5, <1>6, <1>7, <1>8, <1>9, <1>3, <2>1, FrameFields DEF UploadSession, Progress, TypeOK, SenderAt, ReceiverAt, ReceiverIn, Incoming, Upload, UploadStates
  <2>3. Stream(Incoming, Lines + 1, Flag, Heads)'
    BY <1>6, <1>8, EmptyStream
  <2>4. UploadSession(Lines + 1)'
    BY <1>1, <1>2, <1>4, <1>5, <1>6, <1>7, <1>8, <1>9, <1>3, <2>1, <2>2, <2>3, OneFrame, SeqFacts DEF UploadSession, Sent, TypeOK, Links, UploadStates, UploadTogether, SenderAt, ReceiverAt, ReceiverIn, Incoming, Upload
  <2> QED
    BY <2>4, <2>1
<1>17. UploadTogether'
  BY <1>1, <1>2, <1>4, <1>5, <1>6, <1>7, <1>8, <1>9, <1>3, FrameTypes, SeqFacts, OneFrame, Singles DEF UploadTogether, UploadStates, TypeOK, Links, SenderAt, ReceiverAt, ReceiverIn, Incoming, Upload
<1> QED
  BY <1>3, <1>10, <1>11, <1>12, <1>13, <1>14, <1>15, <1>16, <1>17 DEF TransferInv

LEMMA UploadRecvHeader ==
  ASSUME TransferInv, Upload, RecvHeader
  PROVE  TransferInv'
<1> USE TransferAssumption
<1>1. /\ TypeOK /\ Links /\ Leftovers /\ Published /\ Losses
      /\ UploadStates /\ UploadStreams /\ UploadTogether
  BY DEF TransferInv
<1>2. /\ spc = "recv"
      /\ Incoming # <<>>
      /\ up' = IF accepted THEN Tail(up) ELSE up
      /\ old' = IF accepted THEN old ELSE Tail(old)
      /\ down' = IF accepted THEN Append(down, Msg) ELSE down
      /\ rfile' = NameIn(Head(Incoming))
      /\ tmp' = [tmp EXCEPT ![rfile'] = OpenBak(rfile')]
      /\ spc' = "text"
      /\ UNCHANGED <<clienttype, ptype, source, backup, produced, todo, file, sent, cpc, linked, accepted, final, failures>>
  BY <1>1 DEF RecvHeader, ReceiverAt, ReceiverTo, ReadAndAnswer, ServerReads, ServerWrites, ReceiverIn, Incoming, disk, sender, Upload
<1>3. Upload'
  BY <1>2 DEF Upload
<1>4. PICK k \in 0..(Lines + 2) : UploadSession(k)
  BY <1>1, <1>2 DEF UploadStreams
<1>5. /\ Incoming \in Seq(Frame) /\ Incoming # <<>> /\ Incoming' = Tail(Incoming)
      /\ accepted => up' = Incoming' /\ up = Incoming
      /\ ~accepted => old' = Incoming' /\ old = Incoming /\ up' = up /\ down' = down
  BY <1>1, <1>2 DEF Incoming, TypeOK, UploadStates
<1>6. /\ Incoming' \in Seq(Frame) /\ Len(Incoming') \in Nat /\ Len(Incoming) \in Nat /\ Lines \in Nat
      /\ up' \in Seq(Frame) /\ old' \in Seq(Frame) /\ down' \in Seq(Frame)
  BY <1>1, <1>2, <1>5, SeqFacts, FrameTypes DEF TypeOK
<1>7. /\ Fits(Head(Incoming), k + 1, Flag, Heads) /\ Stream(Incoming', k + 1, Flag, Heads)
      /\ k + 1 <= Lines + 2 /\ (k + 1) + Len(Incoming') = k + Len(Incoming)
      /\ k + Len(Incoming) <= Lines + 2
  BY <1>4, <1>5, StreamTail DEF UploadSession, Stream
<1>8. k = Lines + 1 /\ Incoming' = <<>>
  BY <1>2, <1>4, <1>5, <1>6, <1>7, SeqFacts DEF UploadSession, Progress, ReceiverAt, Upload
<1>9. PICK f \in source : Head(Incoming) = Header(f)
  BY <1>6, <1>7, <1>8 DEF Fits, Heads
<1>10. rfile' = f /\ f \in Files /\ f \in Names
  BY <1>1, <1>2, <1>9, FrameFields DEF NameIn, TypeOK, Names
<1>11. /\ tmp'[f] \in Seq(1..Lines) /\ tmp' = [tmp EXCEPT ![f] = tmp'[f]]
       /\ tmp[f] = NoFile => tmp'[f] = <<>>
  <2>1. tmp' = [tmp EXCEPT ![f] = OpenBak(f)] /\ tmp \in [Names -> Copies]
    BY <1>1, <1>2, <1>10 DEF TypeOK
  <2>2. OpenBak(f) \in Seq(1..Lines) /\ (tmp[f] = NoFile => OpenBak(f) = <<>>)
    <3>1. CASE tmp[f] = NoFile
      BY <3>1 DEF OpenBak
    <3>2. CASE tmp[f] # NoFile
      BY <1>10, <2>1, <3>2 DEF OpenBak, Copies
    <3> QED
      BY <3>1, <3>2
  <2>3. tmp'[f] = OpenBak(f)
    BY <1>10, <2>1
  <2> QED
    BY <2>1, <2>2, <2>3
<1>12. accepted => cpc = "ack" /\ down = <<>> /\ up # <<>> /\ up[Len(up)] = Header(f)
  <2> SUFFICES ASSUME accepted PROVE cpc = "ack" /\ down = <<>> /\ up # <<>> /\ up[Len(up)] = Header(f)
    OBVIOUS
  <2>1. up[Len(up)] = Head(up) /\ k + Len(up) = Lines + 2
    <3>1. up = Incoming /\ k = Lines + 1 /\ k + Len(up) <= Lines + 2 /\ Len(up) \in Nat /\ up \in Seq(Frame)
      BY <1>5, <1>6, <1>7, <1>8
    <3>2. Len(up) <= 1 /\ up # <<>> /\ Len(up) >= 1
      BY <1>5, <1>6, <3>1, SeqFacts
    <3>3. up[Len(up)] = Head(up)
      BY <3>1, <3>2
    <3> QED
      BY <1>6, <3>1, <3>2, <3>3
  <2>2. Sent(cpc, down) = Lines + 2 /\ up # <<>>
    BY <1>4, <1>5, <2>1 DEF UploadSession
  <2>3. cpc = "ack" /\ down = <<>>
    BY <1>1, <1>2, <1>3, <1>6, <2>2 DEF Sent, UploadStates, TypeOK, Links
  <2>4. up[Len(up)] = Header(f)
    BY <1>5, <1>9, <2>1
  <2> QED
    BY <2>2, <2>3, <2>4
<1>13. accepted => down' = <<Msg>> /\ file = f
  BY <1>1, <1>2, <1>12, Singles, FrameFields DEF UploadTogether
<1>14. TypeOK'
  <2>1. tmp' \in [Names -> Copies]
    BY <1>1, <1>10, <1>11 DEF TypeOK, Copies
  <2>2. rfile' \in Names \cup {NoFile}
    BY <1>10
  <2> QED
    BY <1>1, <1>2, <1>6, <2>1, <2>2 DEF TypeOK
<1>15. Links'
  BY <1>1, <1>2, <1>4, <1>5, <1>6, <1>7, <1>8, <1>9, <1>10, <1>11, <1>12, <1>13, <1>3, FrameTypes, SeqFacts, OneFrame, Singles DEF Links, TypeOK, SenderAt, ReceiverAt, ReceiverIn, Incoming, Upload, UploadStates
<1>16. Leftovers'
  BY <1>1, <1>2, <1>4, <1>5, <1>6, <1>7, <1>8, <1>9, <1>10, <1>11, <1>12, <1>13, <1>3 DEF Leftovers, TypeOK, Links, SenderAt, ReceiverAt, ReceiverIn, Incoming, Upload
<1>17. Published'
  BY <1>1, <1>2, <1>4, <1>5, <1>6, <1>7, <1>8, <1>9, <1>10, <1>11, <1>12, <1>13 DEF Published, TypeOK
<1>18. Losses'
  <2>1. (Lost \cup Doomed)' \subseteq Lost \cup Doomed
    BY <1>1, <1>2, <1>4, <1>5, <1>6, <1>7, <1>8, <1>9, <1>10, <1>11, <1>12, <1>13, <1>3 DEF Lost, Doomed, InFlight, TypeOK, Links, UploadStates, SenderAt, ReceiverAt, ReceiverIn, Incoming, Upload
  <2>2. failures \in Nat /\ failures' \in Nat /\ failures <= failures'
    BY <1>1, <1>2 DEF TypeOK
  <2> QED
    BY <1>1, <2>1, <2>2, NoMoreLosses DEF Losses
<1>19. UploadStates'
  BY <1>1, <1>2, <1>4, <1>5, <1>6, <1>7, <1>8, <1>9, <1>10, <1>11, <1>12, <1>13, <1>3, FrameTypes, SeqFacts, OneFrame, Singles DEF UploadStates, TypeOK, Links, SenderAt, ReceiverAt, ReceiverIn, Incoming, Upload
<1>20. UploadStreams'
  <2> SUFFICES ASSUME spc' \notin {"off", "listen"} PROVE \E n \in 0..(Lines + 2) : UploadSession(n)'
    BY DEF UploadStreams
  <2>1. 0 \in 0..(Lines + 2)
    BY <1>6
  <2>2. Progress(0)'
    <3>1. failures = 0 => tmp'[f] = <<>>
      BY <1>1, <1>2, <1>10, <1>11 DEF Leftovers, Links, ReceiverAt, Upload
    <3>2. EndsWith(tmp'[f], 0) /\ Len(<<>>) = 0
      BY <1>11, AnyCopyEndsWithNothing
    <3> QED
      BY <1>2, <1>3, <1>6, <1>10, <3>1, <3>2 DEF Progress, ReceiverAt, Upload
  <2>3. Stream(Incoming, 0, Flag, Heads)'
    BY <1>6, <1>8, EmptyStream
  <2>4. UploadSession(0)'
    BY <1>1, <1>2, <1>4, <1>5, <1>6, <1>7, <1>8, <1>9, <1>10, <1>11, <1>12, <1>13, <1>3, <2>1, <2>2, <2>3, OneFrame, SeqFacts DEF UploadSession, Sent, TypeOK, Links, UploadStates, UploadTogether, SenderAt, ReceiverAt, ReceiverIn, Incoming, Upload
  <2> QED
    BY <2>4, <2>1
<1>21. UploadTogether'
  BY <1>1, <1>2, <1>12, <1>13, Singles, <1>10 DEF UploadTogether
<1> QED
  BY <1>3, <1>14, <1>15, <1>16, <1>17, <1>18, <1>19, <1>20, <1>21 DEF TransferInv

LEMMA UploadRecvLine ==
  ASSUME TransferInv, Upload, RecvLine
  PROVE  TransferInv'
<1> USE TransferAssumption
<1>1. /\ TypeOK /\ Links /\ Leftovers /\ Published /\ Losses
      /\ UploadStates /\ UploadStreams /\ UploadTogether
  BY DEF TransferInv
<1>2. /\ spc = "text"
      /\ Incoming # <<>>
      /\ Head(Incoming).type # "end"
      /\ up' = IF accepted THEN Tail(up) ELSE up
      /\ old' = IF accepted THEN old ELSE Tail(old)
      /\ tmp' = [tmp EXCEPT ![rfile] = Append(tmp[rfile], Head(Incoming).n)]
      /\ UNCHANGED <<clienttype, ptype, source, backup, produced, todo, file, sent, cpc, spc, linked, accepted, down, rfile, final, failures>>
  BY <1>1 DEF RecvLine, ReceiverAt, ReceiverReads, ServerReads, ReceiverIn, Incoming, disk, sender, pcs, Upload
<1>3. Upload'
  BY <1>2 DEF Upload
<1>4. PICK k \in 0..(Lines + 2) : UploadSession(k)
  BY <1>1, <1>2 DEF UploadStreams
<1>5. /\ Incoming \in Seq(Frame) /\ Incoming # <<>> /\ Incoming' = Tail(Incoming)
      /\ accepted => up' = Incoming' /\ up = Incoming
      /\ ~accepted => old' = Incoming' /\ old = Incoming /\ up' = up /\ down' = down
  BY <1>1, <1>2 DEF Incoming, TypeOK, UploadStates
<1>6. /\ Incoming' \in Seq(Frame) /\ Len(Incoming') \in Nat /\ Len(Incoming) \in Nat /\ Lines \in Nat
      /\ up' \in Seq(Frame) /\ old' \in Seq(Frame) /\ down' \in Seq(Frame)
  BY <1>1, <1>2, <1>5, SeqFacts, FrameTypes DEF TypeOK
<1>7. /\ Fits(Head(Incoming), k + 1, Flag, Heads) /\ Stream(Incoming', k + 1, Flag, Heads)
      /\ k + 1 <= Lines + 2 /\ (k + 1) + Len(Incoming') = k + Len(Incoming)
      /\ k + Len(Incoming) <= Lines + 2
  BY <1>4, <1>5, StreamTail DEF UploadSession, Stream
<1>8. /\ rfile \in Files /\ rfile \in Names /\ k \in 0..Lines /\ EndsWith(tmp[rfile], k)
      /\ failures = 0 => Len(tmp[rfile]) = k
  BY <1>1, <1>2, <1>4, <1>6 DEF UploadSession, Progress, ReceiverAt, Upload, Names
<1>9. k \in 0..(Lines - 1) /\ Head(Incoming).n = k + 1
  BY <1>1, <1>2, <1>6, <1>7, <1>8, FrameFields DEF Fits, Flag, ReceiverAt, Upload
<1>10. /\ tmp'[rfile] \in Seq(1..Lines) /\ EndsWith(tmp'[rfile], k + 1) /\ Len(tmp'[rfile]) = Len(tmp[rfile]) + 1
       /\ tmp' = [tmp EXCEPT ![rfile] = tmp'[rfile]]
  BY <1>1, <1>2, <1>8, <1>9, CopyExtended DEF TypeOK
<1>11. accepted /\ cpc = "ack" /\ down = <<>> => up' # <<>> /\ up'[Len(up')] = up[Len(up)]
  <2> SUFFICES ASSUME accepted, cpc = "ack", down = <<>> PROVE up' # <<>> /\ up'[Len(up')] = up[Len(up)]
    OBVIOUS
  <2>1. k + Len(up) = Lines + 2 /\ up' = Tail(up) /\ up \in Seq(Frame) /\ Len(up) \in Nat
    BY <1>1, <1>2, <1>4, <1>5, <1>6 DEF UploadSession, Sent
  <2>2. Len(up) >= 2 /\ Len(up') = Len(up) - 1 /\ Len(up') \in 1..(Len(up) - 1)
    BY <1>5, <1>6, <1>7, <1>8, <2>1
  <2> QED
    BY <2>1, <2>2, SeqFacts
<1>12. TypeOK'
  BY <1>1, <1>2, <1>6, <1>8, <1>10 DEF TypeOK, Copies
<1>13. Links'
  BY <1>1, <1>2, <1>4, <1>5, <1>6, <1>7, <1>8, <1>9, <1>10, <1>11, <1>3, FrameTypes, SeqFacts, OneFrame, Singles DEF Links, TypeOK, SenderAt, ReceiverAt, ReceiverIn, Incoming, Upload, UploadStates
<1>14. Leftovers'
  BY <1>1, <1>2, <1>4, <1>5, <1>6, <1>7, <1>8, <1>9, <1>10, <1>11, <1>3 DEF Leftovers, TypeOK, Links, SenderAt, ReceiverAt, ReceiverIn, Incoming, Upload
<1>15. Published'
  BY <1>1, <1>2, <1>4, <1>5, <1>6, <1>7, <1>8, <1>9, <1>10, <1>11 DEF Published, TypeOK
<1>16. Losses'
  <2>1. (Lost \cup Doomed)' \subseteq Lost \cup Doomed
    BY <1>1, <1>2, <1>4, <1>5, <1>6, <1>7, <1>8, <1>9, <1>10, <1>11, <1>3 DEF Lost, Doomed, InFlight, TypeOK, Links, UploadStates, SenderAt, ReceiverAt, ReceiverIn, Incoming, Upload
  <2>2. failures \in Nat /\ failures' \in Nat /\ failures <= failures'
    BY <1>1, <1>2 DEF TypeOK
  <2> QED
    BY <1>1, <2>1, <2>2, NoMoreLosses DEF Losses
<1>17. UploadStates'
  BY <1>1, <1>2, <1>4, <1>5, <1>6, <1>7, <1>8, <1>9, <1>10, <1>11, <1>3, FrameTypes, SeqFacts, OneFrame, Singles DEF UploadStates, TypeOK, Links, SenderAt, ReceiverAt, ReceiverIn, Incoming, Upload
<1>18. UploadStreams'
  <2> SUFFICES ASSUME spc' \notin {"off", "listen"} PROVE \E n \in 0..(Lines + 2) : UploadSession(n)'
    BY DEF UploadStreams
  <2>1. k + 1 \in 0..(Lines + 2)
    BY <1>6, <1>8
  <2>2. Progress(k + 1)'
    BY <1>1, <1>2, <1>4, <1>5, <1>6, <1>7, <1>8, <1>9, <1>10, <1>11, <1>3, <2>1, FrameFields DEF UploadSession, Progress, TypeOK, SenderAt, ReceiverAt, ReceiverIn, Incoming, Upload, UploadStates
  <2>3. Stream(Incoming, k + 1, Flag, Heads)'
    BY <1>2, <1>3, <1>6, <1>7 DEF Flag, Greeting, Heads, SenderAt, ReceiverAt, ReceiverIn, Incoming, Upload
  <2>4. UploadSession(k + 1)'
    BY <1>1, <1>2, <1>4, <1>5, <1>6, <1>7, <1>8, <1>9, <1>10, <1>11, <1>3, <2>1, <2>2, <2>3, OneFrame, SeqFacts DEF UploadSession, Sent, TypeOK, Links, UploadStates, UploadTogether, SenderAt, ReceiverAt, ReceiverIn, Incoming, Upload
  <2> QED
    BY <2>4, <2>1
<1>19. UploadTogether'
  BY <1>1, <1>2, <1>11 DEF UploadTogether
<1> QED
  BY <1>3, <1>12, <1>13, <1>14, <1>15, <1>16, <1>17, <1>18, <1>19 DEF TransferInv

LEMMA UploadRecvEnd ==
  ASSUME TransferInv, Upload, RecvEnd
  PROVE  TransferInv'
<1> USE TransferAssumption
<1>1. /\ TypeOK /\ Links /\ Leftovers /\ Published /\ Losses
      /\ UploadStates /\ UploadStreams /\ UploadTogether
  BY DEF TransferInv
<1>2. /\ spc = "text"
      /\ Incoming # <<>>
      /\ Head(Incoming).type = "end"
      /\ up' = IF accepted THEN Tail(up) ELSE up
      /\ old' = IF accepted THEN old ELSE Tail(old)
      /\ spc' = "rename"
      /\ UNCHANGED <<clienttype, ptype, source, backup, produced, todo, file, sent, cpc, linked, accepted, down, rfile, tmp, final, failures>>
  BY <1>1 DEF RecvEnd, ReceiverAt, ReceiverTo, ReceiverReads, ServerReads, ReceiverIn, Incoming, disk, sender, receiver, Upload
<1>3. Upload'
  BY <1>2 DEF Upload
<1>4. PICK k \in 0..(Lines + 2) : UploadSession(k)
  BY <1>1, <1>2 DEF UploadStreams
<1>5. /\ Incoming \in Seq(Frame) /\ Incoming # <<>> /\ Incoming' = Tail(Incoming)
      /\ accepted => up' = Incoming' /\ up = Incoming
      /\ ~accepted => old' = Incoming' /\ old = Incoming /\ up' = up /\ down' = down
  BY <1>1, <1>2 DEF Incoming, TypeOK, UploadStates
<1>6. /\ Incoming' \in Seq(Frame) /\ Len(Incoming') \in Nat /\ Len(Incoming) \in Nat /\ Lines \in Nat
      /\ up' \in Seq(Frame) /\ old' \in Seq(Frame) /\ down' \in Seq(Frame)
  BY <1>1, <1>2, <1>5, SeqFacts, FrameTypes DEF TypeOK
<1>7. /\ Fits(Head(Incoming), k + 1, Flag, Heads) /\ Stream(Incoming', k + 1, Flag, Heads)
      /\ k + 1 <= Lines + 2 /\ (k + 1) + Len(Incoming') = k + Len(Incoming)
      /\ k + Len(Incoming) <= Lines + 2
  BY <1>4, <1>5, StreamTail DEF UploadSession, Stream
<1>8. /\ rfile \in Files /\ rfile \in Names /\ k \in 0..Lines /\ EndsWith(tmp[rfile], k)
      /\ failures = 0 => Len(tmp[rfile]) = k
  BY <1>1, <1>2, <1>4, <1>6 DEF UploadSession, Progress, ReceiverAt, Upload, Names
<1>9. k = Lines
  BY <1>1, <1>2, <1>6, <1>7, <1>8, FrameFields DEF Fits, Flag, ReceiverAt, Upload
<1>10. accepted /\ cpc = "ack" /\ down = <<>> => up' # <<>> /\ up'[Len(up')] = up[Len(up)]
  <2> SUFFICES ASSUME accepted, cpc = "ack", down = <<>> PROVE up' # <<>> /\ up'[Len(up')] = up[Len(up)]
    OBVIOUS
  <2>1. k + Len(up) = Lines + 2 /\ up' = Tail(up) /\ up \in Seq(Frame) /\ Len(up) \in Nat
    BY <1>1, <1>2, <1>4, <1>5, <1>6 DEF UploadSession, Sent
  <2>2. Len(up) >= 2 /\ Len(up') = Len(up) - 1 /\ Len(up') \in 1..(Len(up) - 1)
    BY <1>5, <1>6, <1>7, <1>8, <1>9, <2>1
  <2> QED
    BY <2>1, <2>2, SeqFacts
<1>11. accepted => cpc # "send" /\ (cpc = "ack" => down = <<>>)
  BY <1>1, <1>4, <1>5, <1>6, <1>7, <1>9 DEF UploadSession, Sent, TypeOK
<1>12. TypeOK'
  BY <1>1, <1>2, <1>6 DEF TypeOK
<1>13. Links'
  BY <1>1, <1>2, <1>4, <1>5, <1>6, <1>7, <1>8, <1>9, <1>10, <1>11, <1>3, FrameTypes, SeqFacts, OneFrame, Singles DEF Links, TypeOK, SenderAt, ReceiverAt, ReceiverIn, Incoming, Upload, UploadStates
<1>14. Leftovers'
  BY <1>1, <1>2, <1>4, <1>5, <1>6, <1>7, <1>8, <1>9, <1>10, <1>11, <1>3 DEF Leftovers, TypeOK, Links, SenderAt, ReceiverAt, ReceiverIn, Incoming, Upload
<1>15. Published'
  BY <1>1, <1>2, <1>4, <1>5, <1>6, <1>7, <1>8, <1>9, <1>10, <1>11 DEF Published, TypeOK
<1>16. Losses'
  <2>1. (Lost \cup Doomed)' \subseteq Lost \cup Doomed
    BY <1>1, <1>2, <1>4, <1>5, <1>6, <1>7, <1>8, <1>9, <1>10, <1>11, <1>3 DEF Lost, Doomed, InFlight, TypeOK, Links, UploadStates, SenderAt, ReceiverAt, ReceiverIn, Incoming, Upload
  <2>2. failures \in Nat /\ failures' \in Nat /\ failures <= failures'
    BY <1>1, <1>2 DEF TypeOK
  <2> QED
    BY <1>1, <2>1, <2>2, NoMoreLosses DEF Losses
<1>17. UploadStates'
  BY <1>1, <1>2, <1>4, <1>5, <1>6, <1>7, <1>8, <1>9, <1>10, <1>11, <1>3, FrameTypes, SeqFacts, OneFrame, Singles DEF UploadStates, TypeOK, Links, SenderAt, ReceiverAt, ReceiverIn, Incoming, Upload
<1>18. UploadStreams'
  <2> SUFFICES ASSUME spc' \notin {"off", "listen"} PROVE \E n \in 0..(Lines + 2) : UploadSession(n)'
    BY DEF UploadStreams
  <2>1. k + 1 \in 0..(Lines + 2)
    BY <1>6, <1>8
  <2>2. Progress(k + 1)'
    BY <1>1, <1>2, <1>4, <1>5, <1>6, <1>7, <1>8, <1>9, <1>10, <1>11, <1>3, <2>1, FrameFields DEF UploadSession, Progress, TypeOK, SenderAt, ReceiverAt, ReceiverIn, Incoming, Upload, UploadStates
  <2>3. Stream(Incoming, k + 1, Flag, Heads)'
    BY <1>2, <1>3, <1>6, <1>7 DEF Flag, Greeting, Heads, SenderAt, ReceiverAt, ReceiverIn, Incoming, Upload
  <2>4. UploadSession(k + 1)'
    BY <1>1, <1>2, <1>4, <1>5, <1>6, <1>7, <1>8, <1>9, <1>10, <1>11, <1>3, <2>1, <2>2, <2>3, OneFrame, SeqFacts DEF UploadSession, Sent, TypeOK, Links, UploadStates, UploadTogether, SenderAt, ReceiverAt, ReceiverIn, Incoming, Upload
  <2> QED
    BY <2>4, <2>1
<1>19. UploadTogether'
  BY <1>1, <1>2, <1>10, <1>11 DEF UploadTogether, UploadStates
<1> QED
  BY <1>3, <1>12, <1>13, <1>14, <1>15, <1>16, <1>17, <1>18, <1>19 DEF TransferInv

LEMMA UploadRename ==
  ASSUME TransferInv, Upload, Rename
  PROVE  TransferInv'
<1> USE TransferAssumption
<1>1. /\ TypeOK /\ Links /\ Leftovers /\ Published /\ Losses
      /\ UploadStates /\ UploadStreams /\ UploadTogether
  BY DEF TransferInv
<1>2. /\ spc = "rename"
      /\ spc' = "recv"
      /\ final' = [final EXCEPT ![rfile] = tmp[rfile]]
      /\ tmp' = [tmp EXCEPT ![rfile] = NoFile]
      /\ rfile' = NoFile
      /\ UNCHANGED <<clienttype, ptype, source, backup, produced, todo, file, sent, cpc, linked, accepted, up, down, old, failures>>
  BY <1>1 DEF Rename, Renamed, ReceiverAt, ReceiverTo, disk, sender, net, Upload
<1>3. Upload'
  BY <1>2 DEF Upload
<1>4. /\ rfile \in Files /\ rfile \in Names /\ EndsWith(tmp[rfile], Lines) /\ tmp[rfile] # NoFile
      /\ failures = 0 => Len(tmp[rfile]) = Lines
  BY <1>1, <1>2, WholeCopy DEF UploadStreams, UploadSession, Progress, ReceiverAt, Upload, Names
<1>5. tmp[rfile] \in Copies /\ NoFile \in Copies
  BY <1>1, <1>4 DEF TypeOK, Copies
<1>6. TypeOK'
  BY <1>1, <1>2, <1>4, <1>5, <1>3, FrameTypes, SeqFacts, OneFrame, Singles DEF TypeOK
<1>7. Links'
  BY <1>1, <1>2, <1>4, <1>5, <1>3, FrameTypes, SeqFacts, OneFrame, Singles DEF Links, TypeOK, SenderAt, ReceiverAt, ReceiverIn, Incoming, Upload, UploadStates
<1>8. Leftovers'
  BY <1>1, <1>2, <1>4, <1>5, <1>3 DEF Leftovers, TypeOK, Links, SenderAt, ReceiverAt, ReceiverIn, Incoming, Upload
<1>9. Published'
  BY <1>1, <1>2, <1>4, <1>5 DEF Published, TypeOK
<1>10. Losses'
  <2>1. (Lost \cup Doomed)' \subseteq Lost \cup Doomed
    BY <1>1, <1>2, <1>4, <1>5, <1>3 DEF Lost, Doomed, InFlight, TypeOK, Links, UploadStates, SenderAt, ReceiverAt, ReceiverIn, Incoming, Upload
  <2>2. failures \in Nat /\ failures' \in Nat /\ failures <= failures'
    BY <1>1, <1>2 DEF TypeOK
  <2> QED
    BY <1>1, <2>1, <2>2, NoMoreLosses DEF Losses
<1>11. UploadStates'
  BY <1>1, <1>2, <1>4, <1>5, <1>3, FrameTypes, SeqFacts, OneFrame, Singles DEF UploadStates, TypeOK, Links, SenderAt, ReceiverAt, ReceiverIn, Incoming, Upload
<1>12. UploadStreams'
  <2> SUFFICES ASSUME spc' \notin {"off", "listen"} PROVE \E n \in 0..(Lines + 2) : UploadSession(n)'
    BY DEF UploadStreams
  <2>1. PICK k \in 0..(Lines + 2) : UploadSession(k)
    BY <1>1, <1>2 DEF UploadStreams
  <2>2. Progress(k)'
    BY <1>1, <1>2, <1>4, <1>5, <1>3, <2>1, FrameFields DEF UploadSession, Progress, TypeOK, SenderAt, ReceiverAt, ReceiverIn, Incoming, Upload, UploadStates
  <2>3. Stream(Incoming, k, Flag, Heads)'
    BY <1>1, <1>2, <1>4, <1>5, <1>3, <2>1, StreamOther DEF UploadSession, Flag, Greeting, Heads, TypeOK, SenderAt, ReceiverAt, ReceiverIn, Incoming, Upload, UploadStates, Links
  <2>4. UploadSession(k)'
    BY <1>1, <1>2, <1>4, <1>5, <1>3, <2>1, <2>2, <2>3, OneFrame, SeqFacts DEF UploadSession, Sent, TypeOK, Links, UploadStates, UploadTogether, SenderAt, ReceiverAt, ReceiverIn, Incoming, Upload
  <2> QED
    BY <2>4
<1>13. UploadTogether'
  BY <1>1, <1>2, <1>4, <1>5, <1>3, FrameTypes, SeqFacts, OneFrame, Singles DEF UploadTogether, UploadStates, TypeOK, Links, SenderAt, ReceiverAt, ReceiverIn, Incoming, Upload
<1> QED
  BY <1>3, <1>6, <1>7, <1>8, <1>9, <1>10, <1>11, <1>12, <1>13 DEF TransferInv

LEMMA UploadServerExit ==
  ASSUME TransferInv, Upload, ServerExit, spc # "off",
         \/ failures' = failures /\ ~accepted
            /\ ((spc = "text" /\ Incoming = <<>>) \/ spc \in {"login", "recv"})
         \/ failures < MaxFailures /\ failures' = failures + 1
  PROVE  TransferInv'
<1> USE TransferAssumption
<1>1. /\ TypeOK /\ Links /\ Leftovers /\ Published /\ Losses
      /\ UploadStates /\ UploadStreams /\ UploadTogether
  BY DEF TransferInv
<1>2. /\ failures \in Nat /\ failures' \in 0..MaxFailures /\ (failures' = failures \/ failures' = failures + 1)
      /\ failures' = failures => ~accepted /\ ((spc = "text" /\ old = <<>>) \/ spc \in {"login", "recv"})
      /\ spc' = "off"
      /\ rfile' = NoFile
      /\ linked' = FALSE
      /\ accepted' = FALSE
      /\ up' = <<>>
      /\ old' = <<>>
      /\ UNCHANGED <<clienttype, ptype, source, backup, produced, todo, file, sent, cpc, down, tmp, final>>
  BY <1>1 DEF ServerExit, disk, sender, Upload, TypeOK, Incoming
<1>3. Upload'
  BY <1>2 DEF Upload
<1>4. spc = "text" => rfile \in source \/ failures' = failures + 1
  BY <1>1, <1>2 DEF UploadStreams, UploadSession, Progress, ReceiverAt, Upload, Incoming
<1>5. failures' = 0 => spc \notin {"text", "rename"}
  BY <1>1, <1>2 DEF UploadStreams, UploadSession, Progress, ReceiverAt, Upload, Incoming, UploadStates
<1>6. TypeOK'
  <2>1. linked' \in BOOLEAN /\ accepted' \in BOOLEAN
    BY <1>1, <1>2 DEF TypeOK
  <2> QED
    BY <1>1, <1>2, <1>3, <2>1, FrameTypes, SeqFacts, OneFrame, Singles DEF TypeOK
<1>7. Links'
  BY <1>1, <1>2, <1>4, <1>5, <1>3, FrameTypes, SeqFacts, OneFrame, Singles DEF Links, TypeOK, SenderAt, ReceiverAt, ReceiverIn, Incoming, Upload, UploadStates
<1>8. Leftovers'
  BY <1>1, <1>2, <1>4, <1>5, <1>3 DEF Leftovers, TypeOK, Links, SenderAt, ReceiverAt, ReceiverIn, Incoming, Upload
<1>9. Published'
  BY <1>1, <1>2, <1>4, <1>5 DEF Published, TypeOK
<1>10. Losses'
  <2>1. CASE failures' = failures
    <3>1. (Lost \cup Doomed)' \subseteq Lost \cup Doomed
      BY <1>1, <1>2, <1>3, <1>4, <1>5, <2>1 DEF Lost, Doomed, InFlight, TypeOK, Links, UploadStates, SenderAt, ReceiverAt, ReceiverIn, Incoming, Upload
    <3> QED
      BY <1>1, <1>2, <2>1, <3>1, NoMoreLosses DEF Losses
  <2>2. CASE failures' = failures + 1
    <3>1. /\ spc \in {"text", "rename"}
          /\ cpc \in {"send", "post"} \/ (cpc = "ack" /\ down # <<>>)
          => rfile = file
      BY <1>1, <1>2 DEF UploadTogether, UploadStates, Links
    <3>2. PICK x : x = IF spc \in {"text", "rename"} THEN rfile ELSE file
      OBVIOUS
    <3>3. (Lost \cup Doomed)' \subseteq (Lost \cup Doomed) \cup {x}
      BY <1>1, <1>2, <1>3, <3>1, <3>2 DEF Lost, Doomed, InFlight, TypeOK, Links, UploadStates, UploadTogether, SenderAt, ReceiverAt, ReceiverIn, Incoming, Upload
    <3> QED
      BY <1>1, <1>2, <2>2, <3>3, OneMoreLoss DEF Losses
  <2> QED
    BY <1>2, <2>1, <2>2
<1>11. UploadStates'
  BY <1>1, <1>2, <1>4, <1>5, <1>3, FrameTypes, SeqFacts, OneFrame, Singles DEF UploadStates, TypeOK, Links, SenderAt, ReceiverAt, ReceiverIn, Incoming, Upload
<1>12. UploadStreams'
  <2> SUFFICES ASSUME spc' \notin {"off", "listen"} PROVE \E n \in 0..(Lines + 2) : UploadSession(n)'
    BY DEF UploadStreams
  <2>1. PICK k \in 0..(Lines + 2) : UploadSession(k)
    BY <1>1, <1>2 DEF UploadStreams
  <2>2. Progress(k)'
    BY <1>1, <1>2, <1>4, <1>5, <1>3, <2>1, FrameFields DEF UploadSession, Progress, TypeOK, SenderAt, ReceiverAt, ReceiverIn, Incoming, Upload, UploadStates
  <2>3. Stream(Incoming, k, Flag, Heads)'
    BY <1>1, <1>2, <1>4, <1>5, <1>3, <2>1, StreamOther DEF UploadSession, Flag, Greeting, Heads, TypeOK, SenderAt, ReceiverAt, ReceiverIn, Incoming, Upload, UploadStates, Links
  <2>4. UploadSession(k)'
    BY <1>1, <1>2, <1>4, <1>5, <1>3, <2>1, <2>2, <2>3, OneFrame, SeqFacts DEF UploadSession, Sent, TypeOK, Links, UploadStates, UploadTogether, SenderAt, ReceiverAt, ReceiverIn, Incoming, Upload
  <2> QED
    BY <2>4
<1>13. UploadTogether'
  BY <1>1, <1>2, <1>4, <1>5, <1>3, FrameTypes, SeqFacts, OneFrame, Singles DEF UploadTogether, UploadStates, TypeOK, Links, SenderAt, ReceiverAt, ReceiverIn, Incoming, Upload
<1> QED
  BY <1>3, <1>6, <1>7, <1>8, <1>9, <1>10, <1>11, <1>12, <1>13 DEF TransferInv

-----------------------------------------------------------------------------
(* Every step of a download keeps the invariant. *)

LEMMA DownloadProduce ==
  ASSUME TransferInv, ~Upload, NEW f \in Files, Produce(f)
  PROVE  TransferInv'
<1> USE TransferAssumption
<1>1. /\ TypeOK /\ Links /\ Leftovers /\ Published /\ Losses
      /\ DownloadStates /\ DownloadStreams /\ DownloadTogether
  BY DEF TransferInv
<1>2. /\ f \notin produced
      /\ produced' = produced \cup {f}
      /\ source' = source \cup {f}
      /\ UNCHANGED <<clienttype, ptype, backup, todo, file, sent, cpc, spc, linked, accepted, up, down, old, rfile, tmp, final, failures>>
  BY <1>1 DEF Produce, sender, pcs, net, receiver
<1>3. ~Upload'
  BY <1>2 DEF Upload
<1>4. TypeOK'
  BY <1>1, <1>2, <1>3, FrameTypes, SeqFacts, OneFrame, Singles DEF TypeOK
<1>5. Links'
  BY <1>1, <1>2, <1>3, FrameTypes, SeqFacts, OneFrame, Singles DEF Links, TypeOK, SenderAt, ReceiverAt, ReceiverIn, Incoming, Upload, DownloadStates
<1>6. Leftovers'
  BY <1>1, <1>2, <1>3 DEF Leftovers, TypeOK, Links, SenderAt, ReceiverAt, ReceiverIn, Incoming, Upload
<1>7. Published'
  BY <1>1, <1>2 DEF Published, TypeOK
<1>8. Losses'
  <2>1. (Lost \cup Doomed)' \subseteq Lost \cup Doomed
    BY <1>1, <1>2, <1>3 DEF Lost, Doomed, InFlight, TypeOK, Links, DownloadStates, SenderAt, ReceiverAt, ReceiverIn, Incoming, Upload
  <2>2. failures \in Nat /\ failures' \in Nat /\ failures <= failures'
    BY <1>1, <1>2 DEF TypeOK
  <2> QED
    BY <1>1, <2>1, <2>2, NoMoreLosses DEF Losses
<1>9. DownloadStates'
  BY <1>1, <1>2, <1>3, FrameTypes, SeqFacts, OneFrame, Singles DEF DownloadStates, TypeOK, Links, SenderAt, ReceiverAt, ReceiverIn, Incoming, Upload
<1>10. DownloadStreams'
  <2> SUFFICES ASSUME cpc' # "off" PROVE \E n \in 0..(Lines + 2) : DownloadSession(n)'
    BY DEF DownloadStreams
  <2>1. PICK k \in 0..(Lines + 2) : DownloadSession(k)
    BY <1>1, <1>2 DEF DownloadStreams
  <2>2. Progress(k)'
    BY <1>1, <1>2, <1>3, <2>1, FrameFields DEF DownloadSession, Progress, TypeOK, SenderAt, ReceiverAt, ReceiverIn, Incoming, Upload, DownloadStates
  <2>3. Stream(down, k, Flag, Heads)'
    BY <1>1, <1>2, <1>3, <2>1, StreamOther DEF DownloadSession, Flag, Greeting, Heads, TypeOK, SenderAt, ReceiverAt, ReceiverIn, Incoming, Upload, DownloadStates, Links
  <2>4. DownloadSession(k)'
    BY <1>1, <1>2, <1>3, <2>1, <2>2, <2>3, OneFrame, SeqFacts DEF DownloadSession, Sent, TypeOK, Links, DownloadStates, DownloadTogether, SenderAt, ReceiverAt, ReceiverIn, Incoming, Upload
  <2> QED
    BY <2>4
<1>11. DownloadTogether'
  BY <1>1, <1>2, <1>3, FrameTypes, SeqFacts, OneFrame, Singles DEF DownloadTogether, DownloadStates, TypeOK, Links, SenderAt, ReceiverAt, ReceiverIn, Incoming, Upload
<1> QED
  BY <1>3, <1>4, <1>5, <1>6, <1>7, <1>8, <1>9, <1>10, <1>11 DEF TransferInv

LEMMA DownloadClientStart ==
  ASSUME TransferInv, ~Upload, ClientStart
  PROVE  TransferInv'
<1> USE TransferAssumption
<1>1. /\ TypeOK /\ Links /\ Leftovers /\ Published /\ Losses
      /\ DownloadStates /\ DownloadStreams /\ DownloadTogether
  BY DEF TransferInv
<1>2. /\ cpc = "off"
      /\ spc # "off"
      /\ cpc' = "login"
      /\ linked' = TRUE
      /\ accepted' = FALSE
      /\ up' = <<Login>>
      /\ down' = <<>>
      /\ UNCHANGED <<clienttype, ptype, source, backup, produced, todo, file, sent, spc, old, rfile, tmp, final, failures>>
  BY <1>1 DEF ClientStart, Connectable, disk, sender, receiver
<1>3. ~Upload'
  BY <1>2 DEF Upload
<1>4. Lines \in Nat
  OBVIOUS
<1>5. TypeOK'
  <2>1. linked' \in BOOLEAN /\ accepted' \in BOOLEAN
    BY <1>1, <1>2 DEF TypeOK
  <2> QED
    BY <1>1, <1>2, <1>3, <2>1, FrameTypes, SeqFacts, OneFrame, Singles DEF TypeOK
<1>6. Links'
  BY <1>1, <1>2, <1>4, <1>3, FrameTypes, SeqFacts, OneFrame, Singles DEF Links, TypeOK, SenderAt, ReceiverAt, ReceiverIn, Incoming, Upload, DownloadStates
<1>7. Leftovers'
  BY <1>1, <1>2, <1>4, <1>3 DEF Leftovers, TypeOK, Links, SenderAt, ReceiverAt, ReceiverIn, Incoming, Upload
<1>8. Published'
  BY <1>1, <1>2, <1>4 DEF Published, TypeOK
<1>9. Losses'
  <2>1. (Lost \cup Doomed)' \subseteq Lost \cup Doomed
    BY <1>1, <1>2, <1>4, <1>3 DEF Lost, Doomed, InFlight, TypeOK, Links, DownloadStates, SenderAt, ReceiverAt, ReceiverIn, Incoming, Upload
  <2>2. failures \in Nat /\ failures' \in Nat /\ failures <= failures'
    BY <1>1, <1>2 DEF TypeOK
  <2> QED
    BY <1>1, <2>1, <2>2, NoMoreLosses DEF Losses
<1>10. DownloadStates'
  BY <1>1, <1>2, <1>4, <1>3, FrameTypes, SeqFacts, OneFrame, Singles DEF DownloadStates, TypeOK, Links, SenderAt, ReceiverAt, ReceiverIn, Incoming, Upload
<1>11. DownloadStreams'
  <2> SUFFICES ASSUME cpc' # "off" PROVE \E n \in 0..(Lines + 2) : DownloadSession(n)'
    BY DEF DownloadStreams
  <2>1. Lines \in 0..(Lines + 2)
    BY <1>1, <1>2, <1>4
  <2>2. Progress(Lines)'
    BY <1>1, <1>2, <1>4, <1>3, <2>1, FrameFields DEF DownloadSession, Progress, TypeOK, SenderAt, ReceiverAt, ReceiverIn, Incoming, Upload, DownloadStates
  <2>3. Stream(down, Lines, Flag, Heads)'
    BY <1>2, <1>4, EmptyStream
  <2>4. DownloadSession(Lines)'
    BY <1>1, <1>2, <1>4, <1>3, <2>1, <2>2, <2>3, OneFrame, SeqFacts DEF DownloadSession, Sent, TypeOK, Links, DownloadStates, DownloadTogether, SenderAt, ReceiverAt, ReceiverIn, Incoming, Upload
  <2> QED
    BY <2>4, <2>1
<1>12. DownloadTogether'
  BY <1>1, <1>2, <1>4, <1>3, FrameTypes, SeqFacts, OneFrame, Singles DEF DownloadTogether, DownloadStates, TypeOK, Links, SenderAt, ReceiverAt, ReceiverIn, Incoming, Upload
<1> QED
  BY <1>3, <1>5, <1>6, <1>7, <1>8, <1>9, <1>10, <1>11, <1>12 DEF TransferInv

LEMMA DownloadClientLogin ==
  ASSUME TransferInv, ~Upload, ClientLogin
  PROVE  TransferInv'
<1> USE TransferAssumption
<1>1. /\ TypeOK /\ Links /\ Leftovers /\ Published /\ Losses
      /\ DownloadStates /\ DownloadStreams /\ DownloadTogether
  BY DEF TransferInv
<1>2. /\ cpc = "login"
      /\ down # <<>>
      /\ down' = Tail(down)
      /\ cpc' = "recv"
      /\ UNCHANGED <<clienttype, ptype, source, backup, produced, todo, file, sent, spc, linked, accepted, up, old, rfile, tmp, final, failures>>
  BY <1>1 DEF ClientLogin, ClientReads, disk, sender, receiver, Upload
<1>3. ~Upload'
  BY <1>2 DEF Upload
<1>4. PICK k \in 0..(Lines + 2) : DownloadSession(k)
  BY <1>1, <1>2 DEF DownloadStreams
<1>5. down \in Seq(Frame) /\ down # <<>> /\ down' = Tail(down)
  BY <1>1, <1>2 DEF TypeOK
<1>6. /\ down' \in Seq(Frame) /\ up' \in Seq(Frame) /\ Len(down') \in Nat /\ Len(down) \in Nat /\ Lines \in Nat
  BY <1>1, <1>2, <1>5, SeqFacts, FrameTypes DEF TypeOK
<1>7. /\ Fits(Head(down), k + 1, Flag, Heads) /\ Stream(down', k + 1, Flag, Heads)
      /\ k + 1 <= Lines + 2 /\ (k + 1) + Len(down') = k + Len(down)
      /\ k + Len(down) <= Lines + 2
  BY <1>4, <1>5, StreamTail DEF DownloadSession, Stream
<1>8. k = Lines
  BY <1>2, <1>4 DEF DownloadSession, Progress, ReceiverAt, Upload
<1>9. accepted /\ spc \in {"ack", "listen"} /\ up = <<>> => down' # <<>> /\ down'[Len(down')] = down[Len(down)]
  <2> SUFFICES ASSUME accepted, spc \in {"ack", "listen"}, up = <<>> PROVE down' # <<>> /\ down'[Len(down')] = down[Len(down)]
    OBVIOUS
  <2>1. k + Len(down) = Lines + 2
    BY <1>4 DEF DownloadSession, Sent
  <2>2. Len(down) >= 2 /\ Len(down') = Len(down) - 1 /\ Len(down') \in 1..(Len(down) - 1)
    BY <1>5, <1>6, <1>7, <1>8, <2>1
  <2> QED
    BY <1>5, <2>2, SeqFacts
<1>10. accepted => spc # "login"
  BY <1>4, <1>6, <1>7, <1>8 DEF DownloadSession, Sent, Upload
<1>11. TypeOK'
  BY <1>1, <1>2, <1>6 DEF TypeOK
<1>12. Links'
  BY <1>1, <1>2, <1>4, <1>5, <1>6, <1>7, <1>8, <1>9, <1>10, <1>3, FrameTypes, SeqFacts, OneFrame, Singles DEF Links, TypeOK, SenderAt, ReceiverAt, ReceiverIn, Incoming, Upload, DownloadStates
<1>13. Leftovers'
  BY <1>1, <1>2, <1>4, <1>5, <1>6, <1>7, <1>8, <1>9, <1>10, <1>3 DEF Leftovers, TypeOK, Links, SenderAt, ReceiverAt, ReceiverIn, Incoming, Upload
<1>14. Published'
  BY <1>1, <1>2, <1>4, <1>5, <1>6, <1>7, <1>8, <1>9, <1>10 DEF Published, TypeOK
<1>15. Losses'
  <2>1. (Lost \cup Doomed)' \subseteq Lost \cup Doomed
    BY <1>1, <1>2, <1>4, <1>5, <1>6, <1>7, <1>8, <1>9, <1>10, <1>3 DEF Lost, Doomed, InFlight, TypeOK, Links, DownloadStates, SenderAt, ReceiverAt, ReceiverIn, Incoming, Upload
  <2>2. failures \in Nat /\ failures' \in Nat /\ failures <= failures'
    BY <1>1, <1>2 DEF TypeOK
  <2> QED
    BY <1>1, <2>1, <2>2, NoMoreLosses DEF Losses
<1>16. DownloadStates'
  BY <1>1, <1>2, <1>4, <1>5, <1>6, <1>7, <1>8, <1>9, <1>10, <1>3, FrameTypes, SeqFacts, OneFrame, Singles DEF DownloadStates, TypeOK, Links, SenderAt, ReceiverAt, ReceiverIn, Incoming, Upload
<1>17. DownloadStreams'
  <2> SUFFICES ASSUME cpc' # "off" PROVE \E n \in 0..(Lines + 2) : DownloadSession(n)'
    BY DEF DownloadStreams
  <2>1. k + 1 \in 0..(Lines + 2)
    BY <1>6, <1>8
  <2>2. Progress(k + 1)'
    BY <1>1, <1>2, <1>4, <1>5, <1>6, <1>7, <1>8, <1>9, <1>10, <1>3, <2>1, FrameFields DEF DownloadSession, Progress, TypeOK, SenderAt, ReceiverAt, ReceiverIn, Incoming, Upload, DownloadStates
  <2>3. Stream(down, k + 1, Flag, Heads)'
    BY <1>2, <1>3, <1>6, <1>7, <1>8, StreamOther DEF Flag, Greeting, Heads, SenderAt, ReceiverAt, ReceiverIn, Incoming, Upload
  <2>4. DownloadSession(k + 1)'
    BY <1>1, <1>2, <1>4, <1>5, <1>6, <1>7, <1>8, <1>9, <1>10, <1>3, <2>1, <2>2, <2>3, OneFrame, SeqFacts DEF DownloadSession, Sent, TypeOK, Links, DownloadStates, DownloadTogether, SenderAt, ReceiverAt, ReceiverIn, Incoming, Upload
  <2> QED
    BY <2>4, <2>1
<1>18. DownloadTogether'
  BY <1>1, <1>2, <1>9, <1>10 DEF DownloadTogether, DownloadStates, TypeOK
<1> QED
  BY <1>3, <1>11, <1>12, <1>13, <1>14, <1>15, <1>16, <1>17, <1>18 DEF TransferInv

LEMMA DownloadRecvHeader ==
  ASSUME TransferInv, ~Upload, RecvHeader
  PROVE  TransferInv'
<1> USE TransferAssumption
<1>1. /\ TypeOK /\ Links /\ Leftovers /\ Published /\ Losses
      /\ DownloadStates /\ DownloadStreams /\ DownloadTogether
  BY DEF TransferInv
<1>2. /\ cpc = "recv"
      /\ down # <<>>
      /\ down' = Tail(down)
      /\ up' = IF linked THEN Append(up, Msg) ELSE up
      /\ rfile' = NameIn(Head(down))
      /\ tmp' = [tmp EXCEPT ![rfile'] = OpenBak(rfile')]
      /\ cpc' = "text"
      /\ UNCHANGED <<clienttype, ptype, source, backup, produced, todo, file, sent, spc, linked, accepted, old, final, failures>>
  BY <1>1 DEF RecvHeader, ReceiverAt, ReceiverTo, ReadAndAnswer, ClientReads, ClientWrites, ReceiverIn, Incoming, disk, sender, Upload
<1>3. ~Upload'
  BY <1>2 DEF Upload
<1>4. PICK k \in 0..(Lines + 2) : DownloadSession(k)
  BY <1>1, <1>2 DEF DownloadStreams
<1>5. down \in Seq(Frame) /\ down # <<>> /\ down' = Tail(down)
  BY <1>1, <1>2 DEF TypeOK
<1>6. /\ down' \in Seq(Frame) /\ up' \in Seq(Frame) /\ Len(down') \in Nat /\ Len(down) \in Nat /\ Lines \in Nat
  BY <1>1, <1>2, <1>5, SeqFacts, FrameTypes DEF TypeOK
<1>7. /\ Fits(Head(down), k + 1, Flag, Heads) /\ Stream(down', k + 1, Flag, Heads)
      /\ k + 1 <= Lines + 2 /\ (k + 1) + Len(down') = k + Len(down)
      /\ k + Len(down) <= Lines + 2
  BY <1>4, <1>5, StreamTail DEF DownloadSession, Stream
<1>8. k = Lines + 1 /\ down' = <<>>
  BY <1>2, <1>4, <1>5, <1>6, <1>7, SeqFacts DEF DownloadSession, Progress, ReceiverAt, Upload
<1>9. \/ rfile' = Unnamed /\ Head(down) = Finish
      \/ rfile' \in source /\ Head(down) = Header(rfile') /\ rfile' \in Files
  BY <1>1, <1>2, <1>3, <1>6, <1>7, <1>8, FrameFields DEF Fits, Heads, NameIn, TypeOK
<1>10. PICK f \in Names : rfile' = f
  BY <1>9 DEF Names
<1>11. /\ tmp'[f] \in Seq(1..Lines) /\ tmp' = [tmp EXCEPT ![f] = tmp'[f]]
       /\ tmp[f] = NoFile \/ tmp[f] = <<>> => tmp'[f] = <<>>
  <2>1. tmp' = [tmp EXCEPT ![f] = OpenBak(f)] /\ tmp \in [Names -> Copies]
    BY <1>1, <1>2, <1>10 DEF TypeOK
  <2>2. OpenBak(f) \in Seq(1..Lines) /\ (tmp[f] = NoFile \/ tmp[f] = <<>> => OpenBak(f) = <<>>)
    <3>1. CASE tmp[f] = NoFile
      BY <3>1 DEF OpenBak
    <3>2. CASE tmp[f] # NoFile
      BY <1>10, <2>1, <3>2 DEF OpenBak, Copies
    <3> QED
      BY <3>1, <3>2
  <2>3. tmp'[f] = OpenBak(f)
    BY <1>10, <2>1
  <2> QED
    BY <2>1, <2>2, <2>3
<1>12. accepted => /\ spc \in {"ack", "listen"} /\ up' = <<Msg>>
                   /\ spc = "ack" => rfile' = file
                   /\ spc = "listen" => rfile' = Unnamed
  <2> SUFFICES ASSUME accepted
               PROVE  /\ spc \in {"ack", "listen"} /\ up' = <<Msg>>
                      /\ spc = "ack" => rfile' = file
                      /\ spc = "listen" => rfile' = Unnamed
    OBVIOUS
  <2>1. down[Len(down)] = Head(down) /\ k + Len(down) = Lines + 2
    <3>1. Len(down) <= 1 /\ Len(down) >= 1
      BY <1>5, <1>6, <1>7, <1>8, SeqFacts
    <3>2. down[Len(down)] = Head(down)
      BY <1>5, <3>1
    <3> QED
      BY <1>6, <1>7, <1>8, <3>1, <3>2
  <2>2. Sent(spc, up) = Lines + 2
    BY <1>4, <2>1 DEF DownloadSession
  <2>3. spc \in {"ack", "listen"}
    BY <1>1, <1>3, <1>2, <1>6, <2>2 DEF Sent, DownloadStates, TypeOK, Links
  <2>4. up = <<>> /\ up' = <<Msg>>
    BY <1>1, <1>2, <2>3, Singles DEF DownloadTogether, Links
  <2> QED
    BY <1>1, <1>9, <2>1, <2>3, <2>4, FrameFields DEF DownloadTogether
<1>13. TypeOK'
  <2>1. tmp' \in [Names -> Copies]
    BY <1>1, <1>10, <1>11 DEF TypeOK, Copies
  <2>2. rfile' \in Names \cup {NoFile}
    BY <1>10
  <2> QED
    BY <1>1, <1>2, <1>6, <2>1, <2>2 DEF TypeOK
<1>14. Links'
  BY <1>1, <1>2, <1>4, <1>5, <1>6, <1>7, <1>8, <1>9, <1>10, <1>11, <1>12, <1>3, FrameTypes, SeqFacts, OneFrame, Singles DEF Links, TypeOK, SenderAt, ReceiverAt, ReceiverIn, Incoming, Upload, DownloadStates
<1>15. Leftovers'
  BY <1>1, <1>2, <1>4, <1>5, <1>6, <1>7, <1>8, <1>9, <1>10, <1>11, <1>12, <1>3 DEF Leftovers, TypeOK, Links, SenderAt, ReceiverAt, ReceiverIn, Incoming, Upload
<1>16. Published'
  BY <1>1, <1>2, <1>4, <1>5, <1>6, <1>7, <1>8, <1>9, <1>10, <1>11, <1>12 DEF Published, TypeOK
<1>17. Losses'
  <2>1. (Lost \cup Doomed)' \subseteq Lost \cup Doomed
    BY <1>1, <1>2, <1>4, <1>5, <1>6, <1>7, <1>8, <1>9, <1>10, <1>11, <1>12, <1>3 DEF Lost, Doomed, InFlight, TypeOK, Links, DownloadStates, SenderAt, ReceiverAt, ReceiverIn, Incoming, Upload
  <2>2. failures \in Nat /\ failures' \in Nat /\ failures <= failures'
    BY <1>1, <1>2 DEF TypeOK
  <2> QED
    BY <1>1, <2>1, <2>2, NoMoreLosses DEF Losses
<1>18. DownloadStates'
  BY <1>1, <1>2, <1>10, <1>11, <1>12 DEF DownloadStates, TypeOK, Names
<1>19. DownloadStreams'
  <2> DEFINE j == IF f = Unnamed THEN Lines + 2 ELSE 0
  <2>1. j \in 0..(Lines + 2) /\ j \in Nat /\ j <= Lines + 2
    BY <1>6
  <2>2. Stream(down, j, Flag, Heads)'
    BY <1>8, <2>1, EmptyStream
  <2>3. Progress(j)'
    <3>1. f = Unnamed => tmp'[f] = <<>>
      BY <1>1, <1>11 DEF DownloadStates
    <3>2. f \in Files /\ failures = 0 => tmp'[f] = <<>>
      BY <1>1, <1>2, <1>11 DEF Leftovers, Links, ReceiverAt, Upload
    <3>3. EndsWith(tmp'[f], 0) /\ Len(<<>>) = 0
      BY <1>11, AnyCopyEndsWithNothing
    <3> QED
      BY <1>2, <1>3, <1>6, <1>10, <3>1, <3>2, <3>3 DEF Progress, ReceiverAt, Upload, Names
  <2>4. accepted' => j + Len(down') = Sent(spc, up)'
    <3>1. Len(down') <= 0 /\ Len(down') >= 0
      BY <1>6, <1>8
    <3>2. accepted => Sent(spc, up)' = IF spc = "ack" THEN 0 ELSE Lines + 2
      BY <1>2, <1>12, Singles DEF Sent
    <3>3. accepted => (f = Unnamed <=> spc = "listen")
      BY <1>1, <1>10, <1>12 DEF DownloadStates, TypeOK
    <3>4. accepted => Sent(spc, up)' = j
      BY <1>12, <3>2, <3>3
    <3> QED
      BY <1>2, <1>6, <2>1, <3>1, <3>4
  <2>5. DownloadSession(j)'
    BY <2>2, <2>3, <2>4 DEF DownloadSession
  <2> QED
    BY <2>1, <2>5 DEF DownloadStreams
<1>20. DownloadTogether'
  BY <1>1, <1>2, <1>12, Singles DEF DownloadTogether
<1> QED
  BY <1>3, <1>13, <1>14, <1>15, <1>16, <1>17, <1>18, <1>19, <1>20 DEF TransferInv

LEMMA DownloadRecvLine ==
  ASSUME TransferInv, ~Upload, RecvLine
  PROVE  TransferInv'
<1> USE TransferAssumption
<1>1. /\ TypeOK /\ Links /\ Leftovers /\ Published /\ Losses
      /\ DownloadStates /\ DownloadStreams /\ DownloadTogether
  BY DEF TransferInv
<1>2. /\ cpc = "text"
      /\ down # <<>>
      /\ Head(down).type # "end"
      /\ down' = Tail(down)
      /\ tmp' = [tmp EXCEPT ![rfile] = Append(tmp[rfile], Head(down).n)]
      /\ UNCHANGED <<clienttype, ptype, source, backup, produced, todo, file, sent, cpc, spc, linked, accepted, up, old, rfile, final, failures>>
  BY <1>1 DEF RecvLine, ReceiverAt, ReceiverReads, ClientReads, ReceiverIn, Incoming, disk, sender, pcs, Upload
<1>3. ~Upload'
  BY <1>2 DEF Upload
<1>4. PICK k \in 0..(Lines + 2) : DownloadSession(k)
  BY <1>1, <1>2 DEF DownloadStreams
<1>5. down \in Seq(Frame) /\ down # <<>> /\ down' = Tail(down)
  BY <1>1, <1>2 DEF TypeOK
<1>6. /\ down' \in Seq(Frame) /\ up' \in Seq(Frame) /\ Len(down') \in Nat /\ Len(down) \in Nat /\ Lines \in Nat
  BY <1>1, <1>2, <1>5, SeqFacts, FrameTypes DEF TypeOK
<1>7. /\ Fits(Head(down), k + 1, Flag, Heads) /\ Stream(down', k + 1, Flag, Heads)
      /\ k + 1 <= Lines + 2 /\ (k + 1) + Len(down') = k + Len(down)
      /\ k + Len(down) <= Lines + 2
  BY <1>4, <1>5, StreamTail DEF DownloadSession, Stream
<1>8. /\ rfile \in Files /\ rfile \in Names /\ k \in 0..Lines /\ EndsWith(tmp[rfile], k)
      /\ failures = 0 => Len(tmp[rfile]) = k
  <2>1. Len(down) >= 1
    BY <1>5, <1>6, SeqFacts
  <2>2. k < Lines + 2
    BY <1>6, <1>7, <2>1
  <2> QED
    BY <1>1, <1>2, <1>4, <1>6, <2>2 DEF DownloadSession, Progress, ReceiverAt, Upload, Names
<1>9. k \in 0..(Lines - 1) /\ Head(down).n = k + 1
  BY <1>1, <1>2, <1>6, <1>7, <1>8, FrameFields DEF Fits, Flag, ReceiverAt, Upload
<1>10. /\ tmp'[rfile] \in Seq(1..Lines) /\ EndsWith(tmp'[rfile], k + 1) /\ Len(tmp'[rfile]) = Len(tmp[rfile]) + 1
       /\ tmp' = [tmp EXCEPT ![rfile] = tmp'[rfile]]
  BY <1>1, <1>2, <1>8, <1>9, CopyExtended DEF TypeOK
<1>11. accepted /\ spc \in {"ack", "listen"} /\ up = <<>> => down' # <<>> /\ down'[Len(down')] = down[Len(down)]
  <2> SUFFICES ASSUME accepted, spc \in {"ack", "listen"}, up = <<>> PROVE down' # <<>> /\ down'[Len(down')] = down[Len(down)]
    OBVIOUS
  <2>1. k + Len(down) = Lines + 2
    BY <1>4 DEF DownloadSession, Sent
  <2>2. Len(down) >= 2 /\ Len(down') = Len(down) - 1 /\ Len(down') \in 1..(Len(down) - 1)
    BY <1>5, <1>6, <1>7, <1>8, <2>1
  <2> QED
    BY <1>5, <2>2, SeqFacts
<1>12. TypeOK'
  BY <1>1, <1>2, <1>6, <1>8, <1>10 DEF TypeOK, Copies
<1>13. Links'
  BY <1>1, <1>2, <1>4, <1>5, <1>6, <1>7, <1>8, <1>9, <1>10, <1>11, <1>3, FrameTypes, SeqFacts, OneFrame, Singles DEF Links, TypeOK, SenderAt, ReceiverAt, ReceiverIn, Incoming, Upload, DownloadStates
<1>14. Leftovers'
  BY <1>1, <1>2, <1>4, <1>5, <1>6, <1>7, <1>8, <1>9, <1>10, <1>11, <1>3 DEF Leftovers, TypeOK, Links, SenderAt, ReceiverAt, ReceiverIn, Incoming, Upload
<1>15. Published'
  BY <1>1, <1>2, <1>4, <1>5, <1>6, <1>7, <1>8, <1>9, <1>10, <1>11 DEF Published, TypeOK
<1>16. Losses'
  <2>1. (Lost \cup Doomed)' \subseteq Lost \cup Doomed
    BY <1>1, <1>2, <1>4, <1>5, <1>6, <1>7, <1>8, <1>9, <1>10, <1>11, <1>3 DEF Lost, Doomed, InFlight, TypeOK, Links, DownloadStates, SenderAt, ReceiverAt, ReceiverIn, Incoming, Upload
  <2>2. failures \in Nat /\ failures' \in Nat /\ failures <= failures'
    BY <1>1, <1>2 DEF TypeOK
  <2> QED
    BY <1>1, <2>1, <2>2, NoMoreLosses DEF Losses
<1>17. DownloadStates'
  BY <1>1, <1>2, <1>8, <1>10 DEF DownloadStates
<1>18. DownloadStreams'
  <2> SUFFICES ASSUME cpc' # "off" PROVE \E n \in 0..(Lines + 2) : DownloadSession(n)'
    BY DEF DownloadStreams
  <2>1. k + 1 \in 0..(Lines + 2)
    BY <1>6, <1>8
  <2>2. Progress(k + 1)'
    BY <1>1, <1>2, <1>4, <1>5, <1>6, <1>7, <1>8, <1>9, <1>10, <1>11, <1>3, <2>1, FrameFields DEF DownloadSession, Progress, TypeOK, SenderAt, ReceiverAt, ReceiverIn, Incoming, Upload, DownloadStates
  <2>3. Stream(down, k + 1, Flag, Heads)'
    BY <1>2, <1>3, <1>6, <1>7 DEF Flag, Greeting, Heads, SenderAt, ReceiverAt, ReceiverIn, Incoming, Upload
  <2>4. DownloadSession(k + 1)'
    BY <1>1, <1>2, <1>4, <1>5, <1>6, <1>7, <1>8, <1>9, <1>10, <1>11, <1>3, <2>1, <2>2, <2>3, OneFrame, SeqFacts DEF DownloadSession, Sent, TypeOK, Links, DownloadStates, DownloadTogether, SenderAt, ReceiverAt, ReceiverIn, Incoming, Upload
  <2> QED
    BY <2>4, <2>1
<1>19. DownloadTogether'
  BY <1>1, <1>2, <1>11 DEF DownloadTogether
<1> QED
  BY <1>3, <1>12, <1>13, <1>14, <1>15, <1>16, <1>17, <1>18, <1>19 DEF TransferInv

LEMMA DownloadRecvEnd ==
  ASSUME TransferInv, ~Upload, RecvEnd
  PROVE  TransferInv'
<1> USE TransferAssumption
<1>1. /\ TypeOK /\ Links /\ Leftovers /\ Published /\ Losses
      /\ DownloadStates /\ DownloadStreams /\ DownloadTogether
  BY DEF TransferInv
<1>2. /\ cpc = "text"
      /\ down # <<>>
      /\ Head(down).type = "end"
      /\ down' = Tail(down)
      /\ cpc' = "rename"
      /\ UNCHANGED <<clienttype, ptype, source, backup, produced, todo, file, sent, spc, linked, accepted, up, old, rfile, tmp, final, failures>>
  BY <1>1 DEF RecvEnd, ReceiverAt, ReceiverTo, ReceiverReads, ClientReads, ReceiverIn, Incoming, disk, sender, receiver, Upload
<1>3. ~Upload'
  BY <1>2 DEF Upload
<1>4. PICK k \in 0..(Lines + 2) : DownloadSession(k)
  BY <1>1, <1>2 DEF DownloadStreams
<1>5. down \in Seq(Frame) /\ down # <<>> /\ down' = Tail(down)
  BY <1>1, <1>2 DEF TypeOK
<1>6. /\ down' \in Seq(Frame) /\ up' \in Seq(Frame) /\ Len(down') \in Nat /\ Len(down) \in Nat /\ Lines \in Nat
  BY <1>1, <1>2, <1>5, SeqFacts, FrameTypes DEF TypeOK
<1>7. /\ Fits(Head(down), k + 1, Flag, Heads) /\ Stream(down', k + 1, Flag, Heads)
      /\ k + 1 <= Lines + 2 /\ (k + 1) + Len(down') = k + Len(down)
      /\ k + Len(down) <= Lines + 2
  BY <1>4, <1>5, StreamTail DEF DownloadSession, Stream
<1>8. /\ rfile \in Files /\ rfile \in Names /\ k \in 0..Lines /\ EndsWith(tmp[rfile], k)
      /\ failures = 0 => Len(tmp[rfile]) = k
  <2>1. Len(down) >= 1
    BY <1>5, <1>6, SeqFacts
  <2>2. k < Lines + 2
    BY <1>6, <1>7, <2>1
  <2> QED
    BY <1>1, <1>2, <1>4, <1>6, <2>2 DEF DownloadSession, Progress, ReceiverAt, Upload, Names
<1>9. k = Lines
  BY <1>1, <1>2, <1>6, <1>7, <1>8, FrameFields DEF Fits, Flag, ReceiverAt, Upload
<1>10. accepted /\ spc \in {"ack", "listen"} /\ up = <<>> => down' # <<>> /\ down'[Len(down')] = down[Len(down)]
  <2> SUFFICES ASSUME accepted, spc \in {"ack", "listen"}, up = <<>> PROVE down' # <<>> /\ down'[Len(down')] = down[Len(down)]
    OBVIOUS
  <2>1. k + Len(down) = Lines + 2
    BY <1>4 DEF DownloadSession, Sent
  <2>2. Len(down) >= 2 /\ Len(down') = Len(down) - 1 /\ Len(down') \in 1..(Len(down) - 1)
    BY <1>5, <1>6, <1>7, <1>8, <1>9, <2>1
  <2> QED
    BY <1>5, <2>2, SeqFacts
<1>11. accepted => spc # "send" /\ (spc \in {"ack", "listen"} => up = <<>>)
  <2> SUFFICES ASSUME accepted PROVE spc # "send" /\ (spc \in {"ack", "listen"} => up = <<>>)
    OBVIOUS
  <2>1. Len(down) >= 1 /\ k + Len(down) = Sent(spc, up)
    BY <1>4, <1>5, <1>6, SeqFacts DEF DownloadSession
  <2>2. Sent(spc, up) > Lines
    BY <1>6, <1>9, <2>1
  <2> QED
    BY <1>1, <1>5, <1>6, <1>8, <2>2 DEF Sent, TypeOK, DownloadTogether
<1>12. TypeOK'
  BY <1>1, <1>2, <1>6 DEF TypeOK
<1>13. Links'
  BY <1>1, <1>2, <1>4, <1>5, <1>6, <1>7, <1>8, <1>9, <1>10, <1>11, <1>3, FrameTypes, SeqFacts, OneFrame, Singles DEF Links, TypeOK, SenderAt, ReceiverAt, ReceiverIn, Incoming, Upload, DownloadStates
<1>14. Leftovers'
  BY <1>1, <1>2, <1>4, <1>5, <1>6, <1>7, <1>8, <1>9, <1>10, <1>11, <1>3 DEF Leftovers, TypeOK, Links, SenderAt, ReceiverAt, ReceiverIn, Incoming, Upload
<1>15. Published'
  BY <1>1, <1>2, <1>4, <1>5, <1>6, <1>7, <1>8, <1>9, <1>10, <1>11 DEF Published, TypeOK
<1>16. Losses'
  <2>1. (Lost \cup Doomed)' \subseteq Lost \cup Doomed
    BY <1>1, <1>2, <1>4, <1>5, <1>6, <1>7, <1>8, <1>9, <1>10, <1>11, <1>3 DEF Lost, Doomed, InFlight, TypeOK, Links, DownloadStates, SenderAt, ReceiverAt, ReceiverIn, Incoming, Upload
  <2>2. failures \in Nat /\ failures' \in Nat /\ failures <= failures'
    BY <1>1, <1>2 DEF TypeOK
  <2> QED
    BY <1>1, <2>1, <2>2, NoMoreLosses DEF Losses
<1>17. DownloadStates'
  BY <1>1, <1>2, <1>4, <1>5, <1>6, <1>7, <1>8, <1>9, <1>10, <1>11, <1>3, FrameTypes, SeqFacts, OneFrame, Singles DEF DownloadStates, TypeOK, Links, SenderAt, ReceiverAt, ReceiverIn, Incoming, Upload
<1>18. DownloadStreams'
  <2> SUFFICES ASSUME cpc' # "off" PROVE \E n \in 0..(Lines + 2) : DownloadSession(n)'
    BY DEF DownloadStreams
  <2>1. k + 1 \in 0..(Lines + 2)
    BY <1>6, <1>8
  <2>2. Progress(k + 1)'
    BY <1>1, <1>2, <1>4, <1>5, <1>6, <1>7, <1>8, <1>9, <1>10, <1>11, <1>3, <2>1, FrameFields DEF DownloadSession, Progress, TypeOK, SenderAt, ReceiverAt, ReceiverIn, Incoming, Upload, DownloadStates
  <2>3. Stream(down, k + 1, Flag, Heads)'
    BY <1>2, <1>3, <1>6, <1>7 DEF Flag, Greeting, Heads, SenderAt, ReceiverAt, ReceiverIn, Incoming, Upload
  <2>4. DownloadSession(k + 1)'
    BY <1>1, <1>2, <1>4, <1>5, <1>6, <1>7, <1>8, <1>9, <1>10, <1>11, <1>3, <2>1, <2>2, <2>3, OneFrame, SeqFacts DEF DownloadSession, Sent, TypeOK, Links, DownloadStates, DownloadTogether, SenderAt, ReceiverAt, ReceiverIn, Incoming, Upload
  <2> QED
    BY <2>4, <2>1
<1>19. DownloadTogether'
  BY <1>1, <1>2, <1>10, <1>11, Singles DEF DownloadTogether, DownloadStates
<1> QED
  BY <1>3, <1>12, <1>13, <1>14, <1>15, <1>16, <1>17, <1>18, <1>19 DEF TransferInv

LEMMA DownloadRename ==
  ASSUME TransferInv, ~Upload, Rename
  PROVE  TransferInv'
<1> USE TransferAssumption
<1>1. /\ TypeOK /\ Links /\ Leftovers /\ Published /\ Losses
      /\ DownloadStates /\ DownloadStreams /\ DownloadTogether
  BY DEF TransferInv
<1>2. /\ cpc = "rename"
      /\ cpc' = "recv"
      /\ final' = [final EXCEPT ![rfile] = tmp[rfile]]
      /\ tmp' = [tmp EXCEPT ![rfile] = NoFile]
      /\ rfile' = NoFile
      /\ UNCHANGED <<clienttype, ptype, source, backup, produced, todo, file, sent, spc, linked, accepted, up, down, old, failures>>
  BY <1>1 DEF Rename, Renamed, ReceiverAt, ReceiverTo, disk, sender, net, Upload
<1>3. ~Upload'
  BY <1>2 DEF Upload
<1>4. /\ rfile \in Files /\ rfile \in Names /\ EndsWith(tmp[rfile], Lines) /\ tmp[rfile] # NoFile
      /\ failures = 0 => Len(tmp[rfile]) = Lines
  BY <1>1, <1>2, WholeCopy DEF DownloadStreams, DownloadSession, Progress, ReceiverAt, Upload, Names
<1>5. tmp[rfile] \in Copies /\ NoFile \in Copies
  BY <1>1, <1>4 DEF TypeOK, Copies
<1>6. TypeOK'
  BY <1>1, <1>2, <1>4, <1>5, <1>3, FrameTypes, SeqFacts, OneFrame, Singles DEF TypeOK
<1>7. Links'
  BY <1>1, <1>2, <1>4, <1>5, <1>3, FrameTypes, SeqFacts, OneFrame, Singles DEF Links, TypeOK, SenderAt, ReceiverAt, ReceiverIn, Incoming, Upload, DownloadStates
<1>8. Leftovers'
  BY <1>1, <1>2, <1>4, <1>5, <1>3 DEF Leftovers, TypeOK, Links, SenderAt, ReceiverAt, ReceiverIn, Incoming, Upload
<1>9. Published'
  BY <1>1, <1>2, <1>4, <1>5 DEF Published, TypeOK
<1>10. Losses'
  <2>1. (Lost \cup Doomed)' \subseteq Lost \cup Doomed
    BY <1>1, <1>2, <1>4, <1>5, <1>3 DEF Lost, Doomed, InFlight, TypeOK, Links, DownloadStates, SenderAt, ReceiverAt, ReceiverIn, Incoming, Upload
  <2>2. failures \in Nat /\ failures' \in Nat /\ failures <= failures'
    BY <1>1, <1>2 DEF TypeOK
  <2> QED
    BY <1>1, <2>1, <2>2, NoMoreLosses DEF Losses
<1>11. DownloadStates'
  BY <1>1, <1>2, <1>4, <1>5, <1>3, FrameTypes, SeqFacts, OneFrame, Singles DEF DownloadStates, TypeOK, Links, SenderAt, ReceiverAt, ReceiverIn, Incoming, Upload
<1>12. DownloadStreams'
  <2> SUFFICES ASSUME cpc' # "off" PROVE \E n \in 0..(Lines + 2) : DownloadSession(n)'
    BY DEF DownloadStreams
  <2>1. PICK k \in 0..(Lines + 2) : DownloadSession(k)
    BY <1>1, <1>2 DEF DownloadStreams
  <2>2. Progress(k)'
    BY <1>1, <1>2, <1>4, <1>5, <1>3, <2>1, FrameFields DEF DownloadSession, Progress, TypeOK, SenderAt, ReceiverAt, ReceiverIn, Incoming, Upload, DownloadStates
  <2>3. Stream(down, k, Flag, Heads)'
    BY <1>1, <1>2, <1>4, <1>5, <1>3, <2>1, StreamOther DEF DownloadSession, Flag, Greeting, Heads, TypeOK, SenderAt, ReceiverAt, ReceiverIn, Incoming, Upload, DownloadStates, Links
  <2>4. DownloadSession(k)'
    BY <1>1, <1>2, <1>4, <1>5, <1>3, <2>1, <2>2, <2>3, OneFrame, SeqFacts DEF DownloadSession, Sent, TypeOK, Links, DownloadStates, DownloadTogether, SenderAt, ReceiverAt, ReceiverIn, Incoming, Upload
  <2> QED
    BY <2>4
<1>13. DownloadTogether'
  BY <1>1, <1>2, <1>4, <1>5, <1>3, FrameTypes, SeqFacts, OneFrame, Singles DEF DownloadTogether, DownloadStates, TypeOK, Links, SenderAt, ReceiverAt, ReceiverIn, Incoming, Upload
<1> QED
  BY <1>3, <1>6, <1>7, <1>8, <1>9, <1>10, <1>11, <1>12, <1>13 DEF TransferInv

LEMMA DownloadClientExit ==
  ASSUME TransferInv, ~Upload, ClientExit, cpc # "off",
         \/ failures' = failures /\ ((cpc = "text" /\ Abandoned /\ down = <<>>) \/ (cpc # "rename" /\ ~linked))
         \/ failures < MaxFailures /\ failures' = failures + 1
  PROVE  TransferInv'
<1> USE TransferAssumption
<1>1. /\ TypeOK /\ Links /\ Leftovers /\ Published /\ Losses
      /\ DownloadStates /\ DownloadStreams /\ DownloadTogether
  BY DEF TransferInv
<1>2. /\ old' = IF (accepted /\ spc # "listen") \/ (linked /\ ~accepted /\ spc = "listen" /\ old = <<>>) THEN up ELSE old
      /\ failures \in Nat /\ failures' \in 0..MaxFailures /\ (failures' = failures \/ failures' = failures + 1)
      /\ failures' = 0 => failures = 0 /\ ((cpc = "text" /\ accepted /\ spc = "listen" /\ down = <<>>) \/ ~linked)
      /\ cpc' = "off"
      /\ rfile' = NoFile
      /\ linked' = FALSE
      /\ accepted' = FALSE
      /\ up' = <<>>
      /\ down' = <<>>
      /\ UNCHANGED <<clienttype, ptype, source, backup, produced, todo, file, sent, spc, tmp, final>>
  BY <1>1 DEF ClientExit, Abandoned, disk, sender, Upload, TypeOK
<1>3. ~Upload'
  BY <1>2 DEF Upload
<1>4. failures' = 0 => rfile \notin Files
  BY <1>1, <1>2 DEF Links, DownloadTogether, DownloadStates, ReceiverAt, Upload
<1>5. TypeOK'
  <2>1. linked' \in BOOLEAN /\ accepted' \in BOOLEAN
    BY <1>1, <1>2 DEF TypeOK
  <2> QED
    BY <1>1, <1>2, <1>3, <2>1, FrameTypes, SeqFacts, OneFrame, Singles DEF TypeOK
<1>6. Links'
  BY <1>1, <1>2, <1>4, <1>3, FrameTypes, SeqFacts, OneFrame, Singles DEF Links, TypeOK, SenderAt, ReceiverAt, ReceiverIn, Incoming, Upload, DownloadStates
<1>7. Leftovers'
  BY <1>1, <1>2, <1>4 DEF Leftovers
<1>8. Published'
  BY <1>1, <1>2, <1>4 DEF Published, TypeOK
<1>9. Losses'
  <2>1. (Lost \cup Doomed)' \subseteq Lost \cup Doomed
    BY <1>1, <1>2, <1>4, <1>3 DEF Lost, Doomed, InFlight, TypeOK, Links, DownloadStates, SenderAt, ReceiverAt, ReceiverIn, Incoming, Upload
  <2>2. failures \in Nat /\ failures' \in Nat /\ failures <= failures'
    BY <1>1, <1>2 DEF TypeOK
  <2> QED
    BY <1>1, <2>1, <2>2, NoMoreLosses DEF Losses
<1>10. DownloadStates'
  BY <1>1, <1>2 DEF DownloadStates, DownloadTogether, Links
<1>11. DownloadStreams'
  <2> SUFFICES ASSUME cpc' # "off" PROVE \E n \in 0..(Lines + 2) : DownloadSession(n)'
    BY DEF DownloadStreams
  <2>1. PICK k \in 0..(Lines + 2) : DownloadSession(k)
    BY <1>1, <1>2 DEF DownloadStreams
  <2>2. Progress(k)'
    BY <1>1, <1>2, <1>4, <1>3, <2>1, FrameFields DEF DownloadSession, Progress, TypeOK, SenderAt, ReceiverAt, ReceiverIn, Incoming, Upload, DownloadStates
  <2>3. Stream(down, k, Flag, Heads)'
    BY <1>1, <1>2, <1>4, <1>3, <2>1, StreamOther DEF DownloadSession, Flag, Greeting, Heads, TypeOK, SenderAt, ReceiverAt, ReceiverIn, Incoming, Upload, DownloadStates, Links
  <2>4. DownloadSession(k)'
    BY <1>1, <1>2, <1>4, <1>3, <2>1, <2>2, <2>3, OneFrame, SeqFacts DEF DownloadSession, Sent, TypeOK, Links, DownloadStates, DownloadTogether, SenderAt, ReceiverAt, ReceiverIn, Incoming, Upload
  <2> QED
    BY <2>4
<1>12. DownloadTogether'
  BY <1>1, <1>2, <1>4, <1>3, FrameTypes, SeqFacts, OneFrame, Singles DEF DownloadTogether, DownloadStates, TypeOK, Links, SenderAt, ReceiverAt, ReceiverIn, Incoming, Upload
<1> QED
  BY <1>3, <1>5, <1>6, <1>7, <1>8, <1>9, <1>10, <1>11, <1>12 DEF TransferInv

LEMMA DownloadServerStart ==
  ASSUME TransferInv, ~Upload, ServerStart
  PROVE  TransferInv'
<1> USE TransferAssumption
<1>1. /\ TypeOK /\ Links /\ Leftovers /\ Published /\ Losses
      /\ DownloadStates /\ DownloadStreams /\ DownloadTogether
  BY DEF TransferInv
<1>2. /\ spc = "off"
      /\ spc' = "listen"
      /\ UNCHANGED <<clienttype, ptype, source, backup, produced, todo, file, sent, cpc, linked, accepted, up, down, old, rfile, tmp, final, failures>>
  BY <1>1 DEF ServerStart, disk, sender, net, receiver
<1>3. ~Upload'
  BY <1>2 DEF Upload
<1>4. TypeOK'
  BY <1>1, <1>2, <1>3, FrameTypes, SeqFacts, OneFrame, Singles DEF TypeOK
<1>5. Links'
  BY <1>1, <1>2, <1>3, FrameTypes, SeqFacts, OneFrame, Singles DEF Links, TypeOK, SenderAt, ReceiverAt, ReceiverIn, Incoming, Upload, DownloadStates
<1>6. Leftovers'
  BY <1>1, <1>2, <1>3 DEF Leftovers, TypeOK, Links, SenderAt, ReceiverAt, ReceiverIn, Incoming, Upload
<1>7. Published'
  BY <1>1, <1>2 DEF Published, TypeOK
<1>8. Losses'
  <2>1. (Lost \cup Doomed)' \subseteq Lost \cup Doomed
    BY <1>1, <1>2, <1>3 DEF Lost, Doomed, InFlight, TypeOK, Links, DownloadStates, SenderAt, ReceiverAt, ReceiverIn, Incoming, Upload
  <2>2. failures \in Nat /\ failures' \in Nat /\ failures <= failures'
    BY <1>1, <1>2 DEF TypeOK
  <2> QED
    BY <1>1, <2>1, <2>2, NoMoreLosses DEF Losses
<1>9. DownloadStates'
  BY <1>1, <1>2, <1>3, FrameTypes, SeqFacts, OneFrame, Singles DEF DownloadStates, TypeOK, Links, SenderAt, ReceiverAt, ReceiverIn, Incoming, Upload
<1>10. DownloadStreams'
  <2> SUFFICES ASSUME cpc' # "off" PROVE \E n \in 0..(Lines + 2) : DownloadSession(n)'
    BY DEF DownloadStreams
  <2>1. PICK k \in 0..(Lines + 2) : DownloadSession(k)
    BY <1>1, <1>2 DEF DownloadStreams
  <2>2. Progress(k)'
    BY <1>1, <1>2, <1>3, <2>1, FrameFields DEF DownloadSession, Progress, TypeOK, SenderAt, ReceiverAt, ReceiverIn, Incoming, Upload, DownloadStates
  <2>3. Stream(down, k, Flag, Heads)'
    BY <1>1, <1>2, <1>3, <2>1, StreamOther DEF DownloadSession, Flag, Greeting, Heads, TypeOK, SenderAt, ReceiverAt, ReceiverIn, Incoming, Upload, DownloadStates, Links
  <2>4. DownloadSession(k)'
    BY <1>1, <1>2, <1>3, <2>1, <2>2, <2>3, OneFrame, SeqFacts DEF DownloadSession, Sent, TypeOK, Links, DownloadStates, DownloadTogether, SenderAt, ReceiverAt, ReceiverIn, Incoming, Upload
  <2> QED
    BY <2>4
<1>11. DownloadTogether'
  BY <1>1, <1>2, <1>3, FrameTypes, SeqFacts, OneFrame, Singles DEF DownloadTogether, DownloadStates, TypeOK, Links, SenderAt, ReceiverAt, ReceiverIn, Incoming, Upload
<1> QED
  BY <1>3, <1>4, <1>5, <1>6, <1>7, <1>8, <1>9, <1>10, <1>11 DEF TransferInv

LEMMA DownloadServerAccept ==
  ASSUME TransferInv, ~Upload, ServerAccept
  PROVE  TransferInv'
<1> USE TransferAssumption
<1>1. /\ TypeOK /\ Links /\ Leftovers /\ Published /\ Losses
      /\ DownloadStates /\ DownloadStreams /\ DownloadTogether
  BY DEF TransferInv
<1>2. /\ spc = "listen"
      /\ old # <<>> \/ (linked /\ ~accepted)
      /\ accepted' = (old = <<>>)
      /\ spc' = "login"
      /\ UNCHANGED <<clienttype, ptype, source, backup, produced, todo, file, sent, cpc, linked, up, down, old, rfile, tmp, final, failures>>
  BY <1>1 DEF ServerAccept, Pending, disk, sender, receiver
<1>3. ~Upload'
  BY <1>2 DEF Upload
<1>4. TypeOK'
  <2>1. linked' \in BOOLEAN /\ accepted' \in BOOLEAN
    BY <1>1, <1>2 DEF TypeOK
  <2> QED
    BY <1>1, <1>2, <1>3, <2>1, FrameTypes, SeqFacts, OneFrame, Singles DEF TypeOK
<1>5. Links'
  BY <1>1, <1>2, <1>3, FrameTypes, SeqFacts, OneFrame, Singles DEF Links, TypeOK, SenderAt, ReceiverAt, ReceiverIn, Incoming, Upload, DownloadStates
<1>6. Leftovers'
  BY <1>1, <1>2, <1>3 DEF Leftovers, TypeOK, Links, SenderAt, ReceiverAt, ReceiverIn, Incoming, Upload
<1>7. Published'
  BY <1>1, <1>2 DEF Published, TypeOK
<1>8. Losses'
  <2>1. (Lost \cup Doomed)' \subseteq Lost \cup Doomed
    BY <1>1, <1>2, <1>3 DEF Lost, Doomed, InFlight, TypeOK, Links, DownloadStates, SenderAt, ReceiverAt, ReceiverIn, Incoming, Upload
  <2>2. failures \in Nat /\ failures' \in Nat /\ failures <= failures'
    BY <1>1, <1>2 DEF TypeOK
  <2> QED
    BY <1>1, <2>1, <2>2, NoMoreLosses DEF Losses
<1>9. DownloadStates'
  BY <1>1, <1>2, <1>3, FrameTypes, SeqFacts, OneFrame, Singles DEF DownloadStates, TypeOK, Links, SenderAt, ReceiverAt, ReceiverIn, Incoming, Upload
<1>10. DownloadStreams'
  <2> SUFFICES ASSUME cpc' # "off" PROVE \E n \in 0..(Lines + 2) : DownloadSession(n)'
    BY DEF DownloadStreams
  <2>1. PICK k \in 0..(Lines + 2) : DownloadSession(k)
    BY <1>1, <1>2 DEF DownloadStreams
  <2>2. Progress(k)'
    BY <1>1, <1>2, <1>3, <2>1, FrameFields DEF DownloadSession, Progress, TypeOK, SenderAt, ReceiverAt, ReceiverIn, Incoming, Upload, DownloadStates
  <2>3. Stream(down, k, Flag, Heads)'
    BY <1>1, <1>2, <1>3, <2>1, StreamOther DEF DownloadSession, Flag, Greeting, Heads, TypeOK, SenderAt, ReceiverAt, ReceiverIn, Incoming, Upload, DownloadStates, Links
  <2>4. DownloadSession(k)'
    <3>1. accepted' => k = Lines /\ down' = <<>>
      BY <1>1, <1>2, <1>3, <2>1 DEF Links, DownloadSession, Progress, ReceiverAt, Upload
    <3>2. accepted' => k + Len(down') = Lines /\ Sent(spc, up)' = Lines
      BY <1>2, <1>3, <3>1 DEF Sent
    <3> QED
      BY <2>2, <2>3, <3>2 DEF DownloadSession
  <2> QED
    BY <2>4
<1>11. DownloadTogether'
  BY <1>1, <1>2, <1>3, FrameTypes, SeqFacts, OneFrame, Singles DEF DownloadTogether, DownloadStates, TypeOK, Links, SenderAt, ReceiverAt, ReceiverIn, Incoming, Upload
<1> QED
  BY <1>3, <1>4, <1>5, <1>6, <1>7, <1>8, <1>9, <1>10, <1>11 DEF TransferInv

LEMMA DownloadServerLogin ==
  ASSUME TransferInv, ~Upload, ServerLogin
  PROVE  TransferInv'
<1> USE TransferAssumption
<1>1. /\ TypeOK /\ Links /\ Leftovers /\ Published /\ Losses
      /\ DownloadStates /\ DownloadStreams /\ DownloadTogether
  BY DEF TransferInv
<1>2. /\ spc = "login"
      /\ up' = IF accepted THEN <<>> ELSE up
      /\ old' = <<>>
      /\ down' = IF accepted THEN Append(down, Ok) ELSE down
      /\ spc' = "next"
      /\ todo' = source
      /\ UNCHANGED <<clienttype, ptype, source, backup, produced, file, sent, cpc, linked, accepted, rfile, tmp, final, failures>>
  BY <1>1, Singles DEF ServerLogin, ServerReads, ServerWrites, Snapshot, Incoming, disk, receiver, Upload, DownloadStates, DownloadTogether, Links
<1>3. ~Upload'
  BY <1>2 DEF Upload
<1>4. TypeOK'
  BY <1>1, <1>2, <1>3, FrameTypes, SeqFacts, OneFrame, Singles DEF TypeOK
<1>5. Links'
  BY <1>1, <1>2, <1>3, FrameTypes, SeqFacts, OneFrame, Singles DEF Links, TypeOK, SenderAt, ReceiverAt, ReceiverIn, Incoming, Upload, DownloadStates
<1>6. Leftovers'
  BY <1>1, <1>2, <1>3 DEF Leftovers, TypeOK, Links, SenderAt, ReceiverAt, ReceiverIn, Incoming, Upload
<1>7. Published'
  BY <1>1, <1>2 DEF Published, TypeOK
<1>8. Losses'
  <2>1. (Lost \cup Doomed)' \subseteq Lost \cup Doomed
    BY <1>1, <1>2, <1>3 DEF Lost, Doomed, InFlight, TypeOK, Links, DownloadStates, SenderAt, ReceiverAt, ReceiverIn, Incoming, Upload
  <2>2. failures \in Nat /\ failures' \in Nat /\ failures <= failures'
    BY <1>1, <1>2 DEF TypeOK
  <2> QED
    BY <1>1, <2>1, <2>2, NoMoreLosses DEF Losses
<1>9. DownloadStates'
  BY <1>1, <1>2, <1>3, FrameTypes, SeqFacts, OneFrame, Singles DEF DownloadStates, TypeOK, Links, SenderAt, ReceiverAt, ReceiverIn, Incoming, Upload
<1>10. DownloadStreams'
  <2> SUFFICES ASSUME cpc' # "off" PROVE \E n \in 0..(Lines + 2) : DownloadSession(n)'
    BY DEF DownloadStreams
  <2>1. PICK k \in 0..(Lines + 2) : DownloadSession(k)
    BY <1>1, <1>2 DEF DownloadStreams
  <2>2. Progress(k)'
    BY <1>1, <1>2, <1>3, <2>1, FrameFields DEF DownloadSession, Progress, TypeOK, SenderAt, ReceiverAt, ReceiverIn, Incoming, Upload, DownloadStates
  <2>3. Stream(down, k, Flag, Heads)'
    <3>1. CASE ~accepted
      BY <1>1, <1>2, <1>3, <2>1, <3>1 DEF DownloadSession, Flag, Greeting, Heads, ReceiverAt, Upload
    <3>2. CASE accepted
      <4>1. k \in Nat /\ k + Len(down) = Lines /\ Lines \in Nat
        BY <1>1, <1>2, <2>1, <3>2 DEF DownloadSession, Sent, TypeOK, Upload
      <4>2. Fits(Ok, k + Len(down) + 1, Flag, Heads) /\ Ok \in Frame /\ k + Len(down) < Lines + 2
        BY <1>1, <1>2, <1>3, <3>2, <4>1, FrameTypes DEF Fits, Flag, Greeting, Heads, TypeOK, Links, DownloadTogether, ReceiverAt, Upload
      <4>3. Stream(Append(down, Ok), k, Flag, Heads)
        BY <2>1, <4>1, <4>2, StreamAppend DEF DownloadSession
      <4> QED
        BY <1>1, <1>2, <1>3, <3>2, <4>3 DEF Flag, Greeting, Heads, ReceiverAt, Upload
    <3> QED
      BY <3>1, <3>2
  <2>4. DownloadSession(k)'
    BY <1>1, <1>2, <1>3, <2>1, <2>2, <2>3, OneFrame, SeqFacts DEF DownloadSession, Sent, TypeOK, Links, DownloadStates, DownloadTogether, SenderAt, ReceiverAt, ReceiverIn, Incoming, Upload
  <2> QED
    BY <2>4
<1>11. DownloadTogether'
  BY <1>1, <1>2, <1>3, FrameTypes, SeqFacts, OneFrame, Singles DEF DownloadTogether, DownloadStates, TypeOK, Links, SenderAt, ReceiverAt, ReceiverIn, Incoming, Upload
<1> QED
  BY <1>3, <1>4, <1>5, <1>6, <1>7, <1>8, <1>9, <1>10, <1>11 DEF TransferInv

LEMMA DownloadSendHeader ==
  ASSUME TransferInv, ~Upload, NEW f \in Files, SendHeader(f)
  PROVE  TransferInv'
<1> USE TransferAssumption
<1>1. /\ TypeOK /\ Links /\ Leftovers /\ Published /\ Losses
      /\ DownloadStates /\ DownloadStreams /\ DownloadTogether
  BY DEF TransferInv
<1>2. /\ spc = "next"
      /\ f \in todo
      /\ down' = IF accepted THEN Append(down, Header(f)) ELSE down
      /\ todo' = todo \ {f}
      /\ file' = f
      /\ spc' = "ack"
      /\ UNCHANGED <<clienttype, ptype, source, backup, produced, sent, cpc, linked, accepted, up, old, rfile, tmp, final, failures>>
  BY <1>1 DEF SendHeader, NextName, Send, ServerWrites, SenderAt, SenderTo, disk, receiver, Upload
<1>3. ~Upload'
  BY <1>2 DEF Upload
<1>4. TypeOK'
  BY <1>1, <1>2, <1>3, FrameTypes, SeqFacts, OneFrame, Singles DEF TypeOK
<1>5. Links'
  BY <1>1, <1>2, <1>3, FrameTypes, SeqFacts, OneFrame, Singles DEF Links, TypeOK, SenderAt, ReceiverAt, ReceiverIn, Incoming, Upload, DownloadStates
<1>6. Leftovers'
  BY <1>1, <1>2, <1>3 DEF Leftovers, TypeOK, Links, SenderAt, ReceiverAt, ReceiverIn, Incoming, Upload
<1>7. Published'
  BY <1>1, <1>2 DEF Published, TypeOK
<1>8. Losses'
  <2>1. (Lost \cup Doomed)' \subseteq Lost \cup Doomed
    BY <1>1, <1>2, <1>3 DEF Lost, Doomed, InFlight, TypeOK, Links, DownloadStates, SenderAt, ReceiverAt, ReceiverIn, Incoming, Upload
  <2>2. failures \in Nat /\ failures' \in Nat /\ failures <= failures'
    BY <1>1, <1>2 DEF TypeOK
  <2> QED
    BY <1>1, <2>1, <2>2, NoMoreLosses DEF Losses
<1>9. DownloadStates'
  BY <1>1, <1>2, <1>3, FrameTypes, SeqFacts, OneFrame, Singles DEF DownloadStates, TypeOK, Links, SenderAt, ReceiverAt, ReceiverIn, Incoming, Upload
<1>10. DownloadStreams'
  <2> SUFFICES ASSUME cpc' # "off" PROVE \E n \in 0..(Lines + 2) : DownloadSession(n)'
    BY DEF DownloadStreams
  <2>1. PICK k \in 0..(Lines + 2) : DownloadSession(k)
    BY <1>1, <1>2 DEF DownloadStreams
  <2>2. Progress(k)'
    BY <1>1, <1>2, <1>3, <2>1, FrameFields DEF DownloadSession, Progress, TypeOK, SenderAt, ReceiverAt, ReceiverIn, Incoming, Upload, DownloadStates
  <2>3. Stream(down, k, Flag, Heads)'
    <3>1. CASE ~accepted
      BY <1>1, <1>2, <1>3, <2>1, <3>1 DEF DownloadSession, Flag, Greeting, Heads, ReceiverAt, Upload
    <3>2. CASE accepted
      <4>1. k \in Nat /\ k + Len(down) = Lines + 1 /\ Lines \in Nat
        BY <1>1, <1>2, <2>1, <3>2 DEF DownloadSession, Sent, TypeOK, Upload
      <4>2. Fits(Header(f), k + Len(down) + 1, Flag, Heads) /\ Header(f) \in Frame /\ k + Len(down) < Lines + 2
        BY <1>1, <1>2, <1>3, <3>2, <4>1, FrameTypes DEF Fits, Flag, Greeting, Heads, TypeOK, Links, DownloadTogether, ReceiverAt, Upload
      <4>3. Stream(Append(down, Header(f)), k, Flag, Heads)
        BY <2>1, <4>1, <4>2, StreamAppend DEF DownloadSession
      <4> QED
        BY <1>1, <1>2, <1>3, <3>2, <4>3 DEF Flag, Greeting, Heads, ReceiverAt, Upload
    <3> QED
      BY <3>1, <3>2
  <2>4. DownloadSession(k)'
    BY <1>1, <1>2, <1>3, <2>1, <2>2, <2>3, OneFrame, SeqFacts DEF DownloadSession, Sent, TypeOK, Links, DownloadStates, DownloadTogether, SenderAt, ReceiverAt, ReceiverIn, Incoming, Upload
  <2> QED
    BY <2>4
<1>11. DownloadTogether'
  BY <1>1, <1>2, <1>3, FrameTypes, SeqFacts, OneFrame, Singles DEF DownloadTogether, DownloadStates, TypeOK, Links, SenderAt, ReceiverAt, ReceiverIn, Incoming, Upload
<1> QED
  BY <1>3, <1>4, <1>5, <1>6, <1>7, <1>8, <1>9, <1>10, <1>11 DEF TransferInv

LEMMA DownloadReadAck ==
  ASSUME TransferInv, ~Upload, ReadAck
  PROVE  TransferInv'
<1> USE TransferAssumption
<1>1. /\ TypeOK /\ Links /\ Leftovers /\ Published /\ Losses
      /\ DownloadStates /\ DownloadStreams /\ DownloadTogether
  BY DEF TransferInv
<1>2. /\ spc = "ack"
      /\ accepted => up = <<Msg>>
      /\ up' = IF accepted THEN <<>> ELSE up
      /\ old' = <<>>
      /\ sent' = 0
      /\ spc' = "send"
      /\ UNCHANGED <<clienttype, ptype, source, backup, produced, todo, file, cpc, linked, accepted, down, rfile, tmp, final, failures>>
  BY <1>1, Singles DEF ReadAck, ReadMsg, SenderReads, ServerReads, SenderAt, SenderTo, Incoming, disk, receiver, Upload, DownloadStates, DownloadTogether, Links
<1>3. ~Upload'
  BY <1>2 DEF Upload
<1>4. TypeOK'
  BY <1>1, <1>2, <1>3, FrameTypes, SeqFacts, OneFrame, Singles DEF TypeOK
<1>5. Links'
  BY <1>1, <1>2, <1>3, FrameTypes, SeqFacts, OneFrame, Singles DEF Links, TypeOK, SenderAt, ReceiverAt, ReceiverIn, Incoming, Upload, DownloadStates
<1>6. Leftovers'
  BY <1>1, <1>2, <1>3 DEF Leftovers, TypeOK, Links, SenderAt, ReceiverAt, ReceiverIn, Incoming, Upload
<1>7. Published'
  BY <1>1, <1>2 DEF Published, TypeOK
<1>8. Losses'
  <2>1. (Lost \cup Doomed)' \subseteq Lost \cup Doomed
    BY <1>1, <1>2, <1>3 DEF Lost, Doomed, InFlight, TypeOK, Links, DownloadStates, SenderAt, ReceiverAt, ReceiverIn, Incoming, Upload
  <2>2. failures \in Nat /\ failures' \in Nat /\ failures <= failures'
    BY <1>1, <1>2 DEF TypeOK
  <2> QED
    BY <1>1, <2>1, <2>2, NoMoreLosses DEF Losses
<1>9. DownloadStates'
  BY <1>1, <1>2, <1>3, FrameTypes, SeqFacts, OneFrame, Singles DEF DownloadStates, TypeOK, Links, SenderAt, ReceiverAt, ReceiverIn, Incoming, Upload
<1>10. DownloadStreams'
  <2> SUFFICES ASSUME cpc' # "off" PROVE \E n \in 0..(Lines + 2) : DownloadSession(n)'
    BY DEF DownloadStreams
  <2>1. PICK k \in 0..(Lines + 2) : DownloadSession(k)
    BY <1>1, <1>2 DEF DownloadStreams
  <2>2. Progress(k)'
    BY <1>1, <1>2, <1>3, <2>1, FrameFields DEF DownloadSession, Progress, TypeOK, SenderAt, ReceiverAt, ReceiverIn, Incoming, Upload, DownloadStates
  <2>3. Stream(down, k, Flag, Heads)'
    BY <1>1, <1>2, <1>3, <2>1, StreamOther DEF DownloadSession, Flag, Greeting, Heads, TypeOK, SenderAt, ReceiverAt, ReceiverIn, Incoming, Upload, DownloadStates, Links
  <2>4. DownloadSession(k)'
    BY <1>1, <1>2, <1>3, <2>1, <2>2, <2>3, OneFrame, SeqFacts DEF DownloadSession, Sent, TypeOK, Links, DownloadStates, DownloadTogether, SenderAt, ReceiverAt, ReceiverIn, Incoming, Upload
  <2> QED
    BY <2>4
<1>11. DownloadTogether'
  BY <1>1, <1>2, <1>3, FrameTypes, SeqFacts, OneFrame, Singles DEF DownloadTogether, DownloadStates, TypeOK, Links, SenderAt, ReceiverAt, ReceiverIn, Incoming, Upload
<1> QED
  BY <1>3, <1>4, <1>5, <1>6, <1>7, <1>8, <1>9, <1>10, <1>11 DEF TransferInv

LEMMA DownloadSendLine ==
  ASSUME TransferInv, ~Upload, SendLine
  PROVE  TransferInv'
<1> USE TransferAssumption
<1>1. /\ TypeOK /\ Links /\ Leftovers /\ Published /\ Losses
      /\ DownloadStates /\ DownloadStreams /\ DownloadTogether
  BY DEF TransferInv
<1>2. /\ spc = "send"
      /\ sent < Lines
      /\ down' = IF accepted THEN Append(down, Line(sent + 1)) ELSE down
      /\ sent' = sent + 1
      /\ UNCHANGED <<clienttype, ptype, source, backup, produced, todo, file, cpc, spc, linked, accepted, up, old, rfile, tmp, final, failures>>
  BY <1>1 DEF SendLine, MoreLines, Send, ServerWrites, SenderAt, disk, pcs, receiver, Upload
<1>3. ~Upload'
  BY <1>2 DEF Upload
<1>4. TypeOK'
  BY <1>1, <1>2, <1>3, FrameTypes, SeqFacts, OneFrame, Singles DEF TypeOK
<1>5. Links'
  BY <1>1, <1>2, <1>3, FrameTypes, SeqFacts, OneFrame, Singles DEF Links, TypeOK, SenderAt, ReceiverAt, ReceiverIn, Incoming, Upload, DownloadStates
<1>6. Leftovers'
  BY <1>1, <1>2, <1>3 DEF Leftovers, TypeOK, Links, SenderAt, ReceiverAt, ReceiverIn, Incoming, Upload
<1>7. Published'
  BY <1>1, <1>2 DEF Published, TypeOK
<1>8. Losses'
  <2>1. (Lost \cup Doomed)' \subseteq Lost \cup Doomed
    BY <1>1, <1>2, <1>3 DEF Lost, Doomed, InFlight, TypeOK, Links, DownloadStates, SenderAt, ReceiverAt, ReceiverIn, Incoming, Upload
  <2>2. failures \in Nat /\ failures' \in Nat /\ failures <= failures'
    BY <1>1, <1>2 DEF TypeOK
  <2> QED
    BY <1>1, <2>1, <2>2, NoMoreLosses DEF Losses
<1>9. DownloadStates'
  BY <1>1, <1>2, <1>3, FrameTypes, SeqFacts, OneFrame, Singles DEF DownloadStates, TypeOK, Links, SenderAt, ReceiverAt, ReceiverIn, Incoming, Upload
<1>10. DownloadStreams'
  <2> SUFFICES ASSUME cpc' # "off" PROVE \E n \in 0..(Lines + 2) : DownloadSession(n)'
    BY DEF DownloadStreams
  <2>1. PICK k \in 0..(Lines + 2) : DownloadSession(k)
    BY <1>1, <1>2 DEF DownloadStreams
  <2>2. Progress(k)'
    BY <1>1, <1>2, <1>3, <2>1, FrameFields DEF DownloadSession, Progress, TypeOK, SenderAt, ReceiverAt, ReceiverIn, Incoming, Upload, DownloadStates
  <2>3. Stream(down, k, Flag, Heads)'
    <3>1. CASE ~accepted
      BY <1>1, <1>2, <1>3, <2>1, <3>1 DEF DownloadSession, Flag, Greeting, Heads, ReceiverAt, Upload
    <3>2. CASE accepted
      <4>1. k \in Nat /\ k + Len(down) = sent /\ sent + 1 \in 1..Lines /\ Lines \in Nat
        BY <1>1, <1>2, <2>1, <3>2 DEF DownloadSession, Sent, TypeOK, Upload
      <4>2. Fits(Line(sent + 1), k + Len(down) + 1, Flag, Heads) /\ Line(sent + 1) \in Frame /\ k + Len(down) < Lines + 2
        BY <4>1, FrameTypes DEF Fits
      <4>3. Stream(Append(down, Line(sent + 1)), k, Flag, Heads)
        BY <2>1, <4>1, <4>2, StreamAppend DEF DownloadSession
      <4> QED
        BY <1>1, <1>2, <1>3, <3>2, <4>3 DEF Flag, Greeting, Heads, ReceiverAt, Upload
    <3> QED
      BY <3>1, <3>2
  <2>4. DownloadSession(k)'
    BY <1>1, <1>2, <1>3, <2>1, <2>2, <2>3, OneFrame, SeqFacts DEF DownloadSession, Sent, TypeOK, Links, DownloadStates, DownloadTogether, SenderAt, ReceiverAt, ReceiverIn, Incoming, Upload
  <2> QED
    BY <2>4
<1>11. DownloadTogether'
  BY <1>1, <1>2, <1>3, FrameTypes, SeqFacts, OneFrame, Singles DEF DownloadTogether, DownloadStates, TypeOK, Links, SenderAt, ReceiverAt, ReceiverIn, Incoming, Upload
<1> QED
  BY <1>3, <1>4, <1>5, <1>6, <1>7, <1>8, <1>9, <1>10, <1>11 DEF TransferInv

LEMMA DownloadSendEnd ==
  ASSUME TransferInv, ~Upload, SendEnd
  PROVE  TransferInv'
<1> USE TransferAssumption
<1>1. /\ TypeOK /\ Links /\ Leftovers /\ Published /\ Losses
      /\ DownloadStates /\ DownloadStreams /\ DownloadTogether
  BY DEF TransferInv
<1>2. /\ spc = "send"
      /\ sent >= Lines
      /\ down' = IF accepted THEN Append(down, EndFlag) ELSE down
      /\ spc' = "next"
      /\ UNCHANGED <<clienttype, ptype, source, backup, produced, todo, file, sent, cpc, linked, accepted, up, old, rfile, tmp, final, failures>>
  BY <1>1 DEF SendEnd, MoreLines, Send, ServerWrites, SenderAt, SenderTo, disk, sender, receiver, TypeOK, Upload
<1>3. ~Upload'
  BY <1>2 DEF Upload
<1>4. TypeOK'
  BY <1>1, <1>2, <1>3, FrameTypes, SeqFacts, OneFrame, Singles DEF TypeOK
<1>5. Links'
  BY <1>1, <1>2, <1>3, FrameTypes, SeqFacts, OneFrame, Singles DEF Links, TypeOK, SenderAt, ReceiverAt, ReceiverIn, Incoming, Upload, DownloadStates
<1>6. Leftovers'
  BY <1>1, <1>2, <1>3 DEF Leftovers, TypeOK, Links, SenderAt, ReceiverAt, ReceiverIn, Incoming, Upload
<1>7. Published'
  BY <1>1, <1>2 DEF Published, TypeOK
<1>8. Losses'
  <2>1. (Lost \cup Doomed)' \subseteq Lost \cup Doomed
    BY <1>1, <1>2, <1>3 DEF Lost, Doomed, InFlight, TypeOK, Links, DownloadStates, SenderAt, ReceiverAt, ReceiverIn, Incoming, Upload
  <2>2. failures \in Nat /\ failures' \in Nat /\ failures <= failures'
    BY <1>1, <1>2 DEF TypeOK
  <2> QED
    BY <1>1, <2>1, <2>2, NoMoreLosses DEF Losses
<1>9. DownloadStates'
  BY <1>1, <1>2, <1>3, FrameTypes, SeqFacts, OneFrame, Singles DEF DownloadStates, TypeOK, Links, SenderAt, ReceiverAt, ReceiverIn, Incoming, Upload
<1>10. DownloadStreams'
  <2> SUFFICES ASSUME cpc' # "off" PROVE \E n \in 0..(Lines + 2) : DownloadSession(n)'
    BY DEF DownloadStreams
  <2>1. PICK k \in 0..(Lines + 2) : DownloadSession(k)
    BY <1>1, <1>2 DEF DownloadStreams
  <2>2. Progress(k)'
    BY <1>1, <1>2, <1>3, <2>1, FrameFields DEF DownloadSession, Progress, TypeOK, SenderAt, ReceiverAt, ReceiverIn, Incoming, Upload, DownloadStates
  <2>3. Stream(down, k, Flag, Heads)'
    <3>1. CASE ~accepted
      BY <1>1, <1>2, <1>3, <2>1, <3>1 DEF DownloadSession, Flag, Greeting, Heads, ReceiverAt, Upload
    <3>2. CASE accepted
      <4>1. k \in Nat /\ k + Len(down) = Lines /\ Lines \in Nat
        BY <1>1, <1>2, <2>1, <3>2 DEF DownloadSession, Sent, TypeOK, Upload
      <4>2. Fits(EndFlag, k + Len(down) + 1, Flag, Heads) /\ EndFlag \in Frame /\ k + Len(down) < Lines + 2
        BY <1>1, <1>2, <1>3, <3>2, <4>1, FrameTypes DEF Fits, Flag, Greeting, Heads, TypeOK, Links, DownloadTogether, ReceiverAt, Upload
      <4>3. Stream(Append(down, EndFlag), k, Flag, Heads)
        BY <2>1, <4>1, <4>2, StreamAppend DEF DownloadSession
      <4> QED
        BY <1>1, <1>2, <1>3, <3>2, <4>3 DEF Flag, Greeting, Heads, ReceiverAt, Upload
    <3> QED
      BY <3>1, <3>2
  <2>4. DownloadSession(k)'
    BY <1>1, <1>2, <1>3, <2>1, <2>2, <2>3, OneFrame, SeqFacts DEF DownloadSession, Sent, TypeOK, Links, DownloadStates, DownloadTogether, SenderAt, ReceiverAt, ReceiverIn, Incoming, Upload
  <2> QED
    BY <2>4
<1>11. DownloadTogether'
  BY <1>1, <1>2, <1>3, FrameTypes, SeqFacts, OneFrame, Singles DEF DownloadTogether, DownloadStates, TypeOK, Links, SenderAt, ReceiverAt, ReceiverIn, Incoming, Upload
<1> QED
  BY <1>3, <1>4, <1>5, <1>6, <1>7, <1>8, <1>9, <1>10, <1>11 DEF TransferInv

LEMMA DownloadSendFinish ==
  ASSUME TransferInv, ~Upload, SendFinish
  PROVE  TransferInv'
<1> USE TransferAssumption
<1>1. /\ TypeOK /\ Links /\ Leftovers /\ Published /\ Losses
      /\ DownloadStates /\ DownloadStreams /\ DownloadTogether
  BY DEF TransferInv
<1>2. /\ spc = "next"
      /\ todo = {}
      /\ down' = IF accepted THEN Append(down, Finish) ELSE down
      /\ old' = IF accepted THEN old ELSE <<>>
      /\ spc' = "listen"
      /\ file' = NoFile
      /\ sent' = 0
      /\ UNCHANGED <<clienttype, ptype, source, backup, produced, todo, cpc, linked, accepted, up, rfile, tmp, final, failures>>
  BY <1>1 DEF SendFinish, ServerWrites, disk, receiver
<1>3. ~Upload'
  BY <1>2 DEF Upload
<1>4. TypeOK'
  BY <1>1, <1>2, <1>3, FrameTypes, SeqFacts, OneFrame, Singles DEF TypeOK
<1>5. Links'
  BY <1>1, <1>2, <1>3, FrameTypes, SeqFacts, OneFrame, Singles DEF Links, TypeOK, SenderAt, ReceiverAt, ReceiverIn, Incoming, Upload, DownloadStates
<1>6. Leftovers'
  BY <1>1, <1>2, <1>3 DEF Leftovers, TypeOK, Links, SenderAt, ReceiverAt, ReceiverIn, Incoming, Upload
<1>7. Published'
  BY <1>1, <1>2 DEF Published, TypeOK
<1>8. Losses'
  <2>1. (Lost \cup Doomed)' \subseteq Lost \cup Doomed
    BY <1>1, <1>2, <1>3 DEF Lost, Doomed, InFlight, TypeOK, Links, DownloadStates, SenderAt, ReceiverAt, ReceiverIn, Incoming, Upload
  <2>2. failures \in Nat /\ failures' \in Nat /\ failures <= failures'
    BY <1>1, <1>2 DEF TypeOK
  <2> QED
    BY <1>1, <2>1, <2>2, NoMoreLosses DEF Losses
<1>9. DownloadStates'
  BY <1>1, <1>2, <1>3, FrameTypes, SeqFacts, OneFrame, Singles DEF DownloadStates, TypeOK, Links, SenderAt, ReceiverAt, ReceiverIn, Incoming, Upload
<1>10. DownloadStreams'
  <2> SUFFICES ASSUME cpc' # "off" PROVE \E n \in 0..(Lines + 2) : DownloadSession(n)'
    BY DEF DownloadStreams
  <2>1. PICK k \in 0..(Lines + 2) : DownloadSession(k)
    BY <1>1, <1>2 DEF DownloadStreams
  <2>2. Progress(k)'
    BY <1>1, <1>2, <1>3, <2>1, FrameFields DEF DownloadSession, Progress, TypeOK, SenderAt, ReceiverAt, ReceiverIn, Incoming, Upload, DownloadStates
  <2>3. Stream(down, k, Flag, Heads)'
    <3>1. CASE ~accepted
      BY <1>1, <1>2, <1>3, <2>1, <3>1 DEF DownloadSession, Flag, Greeting, Heads, ReceiverAt, Upload
    <3>2. CASE accepted
      <4>1. k \in Nat /\ k + Len(down) = Lines + 1 /\ Lines \in Nat
        BY <1>1, <1>2, <2>1, <3>2 DEF DownloadSession, Sent, TypeOK, Upload
      <4>2. Fits(Finish, k + Len(down) + 1, Flag, Heads) /\ Finish \in Frame /\ k + Len(down) < Lines + 2
        BY <1>1, <1>2, <1>3, <3>2, <4>1, FrameTypes DEF Fits, Flag, Greeting, Heads, TypeOK, Links, DownloadTogether, ReceiverAt, Upload
      <4>3. Stream(Append(down, Finish), k, Flag, Heads)
        BY <2>1, <4>1, <4>2, StreamAppend DEF DownloadSession
      <4> QED
        BY <1>1, <1>2, <1>3, <3>2, <4>3 DEF Flag, Greeting, Heads, ReceiverAt, Upload
    <3> QED
      BY <3>1, <3>2
  <2>4. DownloadSession(k)'
    BY <1>1, <1>2, <1>3, <2>1, <2>2, <2>3, OneFrame, SeqFacts DEF DownloadSession, Sent, TypeOK, Links, DownloadStates, DownloadTogether, SenderAt, ReceiverAt, ReceiverIn, Incoming, Upload
  <2> QED
    BY <2>4
<1>11. DownloadTogether'
  BY <1>1, <1>2, <1>3, FrameTypes, SeqFacts, OneFrame, Singles DEF DownloadTogether, DownloadStates, TypeOK, Links, SenderAt, ReceiverAt, ReceiverIn, Incoming, Upload
<1> QED
  BY <1>3, <1>4, <1>5, <1>6, <1>7, <1>8, <1>9, <1>10, <1>11 DEF TransferInv

LEMMA DownloadServerExit ==
  ASSUME TransferInv, ~Upload, ServerExit, spc # "off",
         \/ failures' = failures /\ ~accepted
         \/ failures < MaxFailures /\ failures' = failures + 1
  PROVE  TransferInv'
<1> USE TransferAssumption
<1>1. /\ TypeOK /\ Links /\ Leftovers /\ Published /\ Losses
      /\ DownloadStates /\ DownloadStreams /\ DownloadTogether
  BY DEF TransferInv
<1>2. /\ failures \in Nat /\ failures' \in 0..MaxFailures /\ (failures' = failures \/ failures' = failures + 1)
      /\ failures' = failures => ~accepted
      /\ spc' = "off"
      /\ todo' = {}
      /\ file' = NoFile
      /\ sent' = 0
      /\ linked' = FALSE
      /\ accepted' = FALSE
      /\ up' = <<>>
      /\ old' = <<>>
      /\ UNCHANGED <<clienttype, ptype, source, backup, produced, cpc, down, rfile, tmp, final>>
  BY <1>1 DEF ServerExit, disk, Upload, TypeOK
<1>3. ~Upload'
  BY <1>2 DEF Upload
<1>4. TypeOK'
  <2>1. linked' \in BOOLEAN /\ accepted' \in BOOLEAN
    BY <1>1, <1>2 DEF TypeOK
  <2> QED
    BY <1>1, <1>2, <1>3, <2>1, FrameTypes, SeqFacts, OneFrame, Singles DEF TypeOK
<1>5. Links'
  BY <1>1, <1>2, <1>3, FrameTypes, SeqFacts, OneFrame, Singles DEF Links, TypeOK, SenderAt, ReceiverAt, ReceiverIn, Incoming, Upload, DownloadStates
<1>6. Leftovers'
  BY <1>1, <1>2, <1>3 DEF Leftovers, TypeOK, Links, SenderAt, ReceiverAt, ReceiverIn, Incoming, Upload
<1>7. Published'
  BY <1>1, <1>2 DEF Published, TypeOK
<1>8. Losses'
  <2>1. (Lost \cup Doomed)' \subseteq Lost \cup Doomed
    BY <1>1, <1>2, <1>3 DEF Lost, Doomed, InFlight, TypeOK, Links, DownloadStates, SenderAt, ReceiverAt, ReceiverIn, Incoming, Upload
  <2>2. failures \in Nat /\ failures' \in Nat /\ failures <= failures'
    BY <1>1, <1>2 DEF TypeOK
  <2> QED
    BY <1>1, <2>1, <2>2, NoMoreLosses DEF Losses
<1>9. DownloadStates'
  BY <1>1, <1>2, <1>3, FrameTypes, SeqFacts, OneFrame, Singles DEF DownloadStates, TypeOK, Links, SenderAt, ReceiverAt, ReceiverIn, Incoming, Upload
<1>10. DownloadStreams'
  <2> SUFFICES ASSUME cpc' # "off" PROVE \E n \in 0..(Lines + 2) : DownloadSession(n)'
    BY DEF DownloadStreams
  <2>1. PICK k \in 0..(Lines + 2) : DownloadSession(k)
    BY <1>1, <1>2 DEF DownloadStreams
  <2>2. Progress(k)'
    BY <1>1, <1>2, <1>3, <2>1, FrameFields DEF DownloadSession, Progress, TypeOK, SenderAt, ReceiverAt, ReceiverIn, Incoming, Upload, DownloadStates
  <2>3. Stream(down, k, Flag, Heads)'
    BY <1>1, <1>2, <1>3, <2>1, StreamOther DEF DownloadSession, Flag, Greeting, Heads, TypeOK, SenderAt, ReceiverAt, ReceiverIn, Incoming, Upload, DownloadStates, Links
  <2>4. DownloadSession(k)'
    BY <1>1, <1>2, <1>3, <2>1, <2>2, <2>3, OneFrame, SeqFacts DEF DownloadSession, Sent, TypeOK, Links, DownloadStates, DownloadTogether, SenderAt, ReceiverAt, ReceiverIn, Incoming, Upload
  <2> QED
    BY <2>4
<1>11. DownloadTogether'
  BY <1>1, <1>2, <1>3, FrameTypes, SeqFacts, OneFrame, Singles DEF DownloadTogether, DownloadStates, TypeOK, Links, SenderAt, ReceiverAt, ReceiverIn, Incoming, Upload
<1> QED
  BY <1>3, <1>4, <1>5, <1>6, <1>7, <1>8, <1>9, <1>10, <1>11 DEF TransferInv

-----------------------------------------------------------------------------
(* The invariant holds. *)

LEMMA InitInv == Init => TransferInv
<1> SUFFICES ASSUME Init PROVE TransferInv
  OBVIOUS
<1> USE TransferAssumption DEF Init
<1>1. TypeOK
  <2>1. NoFile \in Copies /\ <<>> \in Seq(Frame) /\ 0 \in 0..Lines /\ 0 \in 0..MaxFailures
    BY DEF Copies
  <2>3. linked \in BOOLEAN /\ accepted \in BOOLEAN
    OBVIOUS
  <2>2. tmp \in [Names -> Copies] /\ final \in [Names -> Copies]
    BY <2>1
  <2> QED
    BY <2>1, <2>2, <2>3 DEF TypeOK
<1>2. Links
  BY DEF Links, ReceiverAt, SenderAt
<1>3. Leftovers /\ Published
  BY DEF Leftovers, Published, Names
<1>4. Losses
  <2>1. Lost \cup Doomed = {}
    BY DEF Lost, Doomed
  <2>2. IsFiniteSet({}) /\ Cardinality({}) = 0
    BY FS_EmptySet
  <2>3. 0 <= failures
    OBVIOUS
  <2> QED
    BY ONLY <2>1, <2>2, <2>3 DEF Losses
<1>5. UploadStates /\ UploadStreams /\ UploadTogether
  BY DEF UploadStates, UploadStreams, UploadTogether
<1>6. DownloadStates /\ DownloadStreams /\ DownloadTogether
  BY DEF DownloadStates, DownloadStreams, DownloadTogether, Names
<1> QED
  BY <1>1, <1>2, <1>3, <1>4, <1>5, <1>6 DEF TransferInv

LEMMA UploadNextInv ==
  ASSUME TransferInv, Upload, Next
  PROVE  TransferInv'
<1>1. UploadStates
  BY DEF TransferInv
<1>2. CASE ClientStep
  <2>1. ASSUME ClientDone PROVE TransferInv'
    BY <2>1, UploadClientExit DEF ClientDone
  <2>2. ASSUME FinishTimeout PROVE FALSE
    BY <1>1, <2>2 DEF FinishTimeout, UploadStates
  <2>3. ASSUME ClientError PROVE TransferInv'
    BY <2>3, UploadClientExit DEF ClientError, PeerLost
  <2>4. ASSUME Sending PROVE TransferInv'
    BY <2>4, UploadSendHeader, UploadReadAck, UploadSendLine, UploadSendEnd DEF Sending
  <2> QED
    BY <1>2, <2>1, <2>2, <2>3, <2>4, UploadClientStart, UploadClientLogin, UploadPostProcess
       DEF ClientStep
<1>3. CASE ServerStep
  <2>1. ASSUME SendFinish PROVE FALSE
    BY <1>1, <2>1 DEF SendFinish, UploadStates
  <2>2. ASSUME ServerEof PROVE TransferInv'
    <3>1. spc \in {"login", "recv", "text"} /\ Incoming = <<>> /\ ~accepted
      BY <1>1, <2>2 DEF ServerEof, Reading, UploadStates
    <3> QED
      BY <2>2, <3>1, UploadServerExit DEF ServerEof
  <2>3. ASSUME ServerWriteFails PROVE TransferInv'
    <3>1. spc \in {"login", "recv"} /\ ~accepted
      BY <1>1, <2>3 DEF ServerWriteFails, UploadStates
    <3> QED
      BY <2>3, <3>1, UploadServerExit DEF ServerWriteFails
  <2>4. ASSUME Receiving PROVE TransferInv'
    BY <2>4, UploadRecvHeader, UploadRecvLine, UploadRecvEnd, UploadRename DEF Receiving
  <2> QED
    BY <1>3, <2>1, <2>2, <2>3, <2>4, UploadServerStart, UploadServerAccept, UploadServerLogin
       DEF ServerStep
<1>4. CASE ClientTimeout
  BY <1>4, UploadClientExit DEF ClientTimeout, Fail
<1>5. CASE ClientCrash
  BY <1>5, UploadClientExit DEF ClientCrash, Fail
<1>6. CASE ServerTimeout
  BY <1>6, UploadServerExit DEF ServerTimeout, Fail, Reading
<1>7. CASE ServerCrash
  BY <1>7, UploadServerExit DEF ServerCrash, Fail
<1>8. CASE \E f \in Files : Produce(f)
  BY <1>8, UploadProduce
<1> QED
  BY <1>2, <1>3, <1>4, <1>5, <1>6, <1>7, <1>8 DEF Next

LEMMA DownloadNextInv ==
  ASSUME TransferInv, ~Upload, Next
  PROVE  TransferInv'
<1>1. DownloadStates
  BY DEF TransferInv
<1>2. CASE ClientStep
  <2>1. ASSUME PostProcess PROVE FALSE
    BY <1>1, <2>1 DEF PostProcess, DownloadStates
  <2>2. ASSUME FinishTimeout PROVE TransferInv'
    BY <2>2, DownloadClientExit DEF FinishTimeout
  <2>3. ASSUME ClientError PROVE TransferInv'
    BY <2>3, DownloadClientExit DEF ClientError, PeerLost
  <2>4. ASSUME Receiving PROVE TransferInv'
    BY <2>4, DownloadRecvHeader, DownloadRecvLine, DownloadRecvEnd, DownloadRename DEF Receiving
  <2> QED
    BY <1>2, <2>1, <2>2, <2>3, <2>4, DownloadClientStart, DownloadClientLogin
       DEF ClientStep, ClientDone
<1>3. CASE ServerStep
  <2>1. ASSUME ServerEof PROVE TransferInv'
    BY <2>1, DownloadServerExit DEF ServerEof, Reading
  <2>2. ASSUME ServerWriteFails PROVE TransferInv'
    BY <2>2, DownloadServerExit DEF ServerWriteFails
  <2>3. ASSUME Sending PROVE TransferInv'
    BY <2>3, DownloadSendHeader, DownloadReadAck, DownloadSendLine, DownloadSendEnd DEF Sending
  <2> QED
    BY <1>3, <2>1, <2>2, <2>3, DownloadServerStart, DownloadServerAccept, DownloadServerLogin,
       DownloadSendFinish DEF ServerStep
<1>4. CASE ClientTimeout
  BY <1>4, DownloadClientExit DEF ClientTimeout, Fail
<1>5. CASE ClientCrash
  BY <1>5, DownloadClientExit DEF ClientCrash, Fail
<1>6. CASE ServerTimeout
  BY <1>6, DownloadServerExit DEF ServerTimeout, Fail, Reading
<1>7. CASE ServerCrash
  BY <1>7, DownloadServerExit DEF ServerCrash, Fail
<1>8. CASE \E f \in Files : Produce(f)
  BY <1>8, DownloadProduce
<1> QED
  BY <1>2, <1>3, <1>4, <1>5, <1>6, <1>7, <1>8 DEF Next

LEMMA StutterInv ==
  ASSUME TransferInv, UNCHANGED vars
  PROVE  TransferInv'
<1>1. /\ UNCHANGED <<clienttype, ptype, source, backup, produced, todo, file, sent, cpc, spc>>
      /\ UNCHANGED <<linked, accepted, up, down, old, rfile, tmp, final, failures>>
  BY DEF vars, disk, sender, pcs, net, receiver
<1>2. (TypeOK /\ Links /\ Leftovers /\ Published)'
  BY <1>1 DEF TransferInv, TypeOK, Links, Leftovers, Published, SenderAt, ReceiverAt, Upload
<1>3. Losses'
  BY <1>1 DEF TransferInv, Losses, Lost, Doomed, InFlight, ReceiverAt, Upload
<1>4. (Upload => UploadStates /\ UploadStreams /\ UploadTogether)'
  <2>1. ASSUME Upload, spc \notin {"off", "listen"} PROVE \E k \in 0..(Lines + 2) : UploadSession(k)'
    <3>1. PICK k \in 0..(Lines + 2) : UploadSession(k)
      BY <2>1 DEF TransferInv, UploadStreams
    <3>2. Flag' = Flag /\ Heads' = Heads /\ Incoming' = Incoming
      BY <1>1 DEF Flag, Greeting, Heads, Incoming, ReceiverAt, Upload
    <3>3. Progress(k)'
      BY <1>1, <3>1 DEF UploadSession, Progress, ReceiverAt, Upload
    <3>4. UploadSession(k)'
      <4>1. Sent(cpc, down)' = Sent(cpc, down)
        BY <1>1 DEF Sent, Upload
      <4> QED
        BY <1>1, <3>1, <3>2, <3>3, <4>1 DEF UploadSession
    <3> QED
      BY <3>4
  <2> QED
    BY <1>1, <2>1 DEF TransferInv, UploadStates, UploadStreams, UploadTogether, Upload
<1>5. (~Upload => DownloadStates /\ DownloadStreams /\ DownloadTogether)'
  <2>1. ASSUME ~Upload, cpc # "off" PROVE \E k \in 0..(Lines + 2) : DownloadSession(k)'
    <3>1. PICK k \in 0..(Lines + 2) : DownloadSession(k)
      BY <2>1 DEF TransferInv, DownloadStreams
    <3>2. Flag' = Flag /\ Heads' = Heads /\ Incoming' = Incoming
      BY <1>1 DEF Flag, Greeting, Heads, Incoming, ReceiverAt, Upload
    <3>3. Progress(k)'
      BY <1>1, <3>1 DEF DownloadSession, Progress, ReceiverAt, Upload
    <3>4. DownloadSession(k)'
      <4>1. Sent(spc, up)' = Sent(spc, up)
        BY <1>1 DEF Sent, Upload
      <4> QED
        BY <1>1, <3>1, <3>2, <3>3, <4>1 DEF DownloadSession
    <3> QED
      BY <3>4
  <2> QED
    BY <1>1, <2>1 DEF TransferInv, DownloadStates, DownloadStreams, DownloadTogether, Upload
<1> QED
  BY <1>2, <1>3, <1>4, <1>5 DEF TransferInv

LEMMA Invariance == Spec => []TransferInv
<1>1. TransferInv /\ [Next]_vars => TransferInv'
  BY UploadNextInv, DownloadNextInv, StutterInv
<1> QED
  BY InitInv, <1>1, PTL DEF Spec

-----------------------------------------------------------------------------
(* What follows from it. *)

LEMMA InvImpliesInStep == TransferInv => InStep
<1> SUFFICES ASSUME TransferInv PROVE InStep
  OBVIOUS
<1> USE TransferAssumption
<1>1. TypeOK /\ Links
  BY DEF TransferInv
<1>2. CASE Upload
  <2> USE <1>2
  <2>1. UploadStates /\ UploadStreams /\ UploadTogether
    BY DEF TransferInv
  <2>2. ASSUME spc \notin {"off", "listen"}, Incoming # <<>>
        PROVE  /\ spc = "login" => Head(Incoming) = Login
               /\ spc = "recv" => Head(Incoming) \in {Header(f) : f \in Files}
               /\ spc = "text" => Head(Incoming).type \in {"line", "end"}
    <3>1. PICK k \in 0..(Lines + 2) : UploadSession(k)
      BY <2>1, <2>2 DEF UploadStreams
    <3>2. Fits(Head(Incoming), k + 1, Flag, Heads) /\ k \in Nat /\ Lines \in Nat
      BY <2>2, <3>1, StreamTail DEF UploadSession
    <3>3. ASSUME spc = "login" PROVE Head(Incoming) = Login
      BY <3>1, <3>2, <3>3 DEF UploadSession, Progress, Fits, Flag, Greeting, ReceiverAt, Upload
    <3>4. ASSUME spc = "recv" PROVE Head(Incoming) \in {Header(f) : f \in Files}
      <4>1. Head(Incoming) \in Heads
        BY <3>1, <3>2, <3>4 DEF UploadSession, Progress, Fits, ReceiverAt, Upload
      <4> QED
        BY <1>1, <4>1 DEF Heads, TypeOK
    <3>5. ASSUME spc = "text" PROVE Head(Incoming).type \in {"line", "end"}
      <4>1. k \in 0..Lines
        BY <3>1, <3>5 DEF UploadSession, Progress, ReceiverAt, Upload
      <4> QED
        BY <3>2, <3>5, <4>1, FrameFields DEF Fits, Flag, ReceiverAt, Upload
    <3> QED
      BY <3>3, <3>4, <3>5
  <2>3. spc # "ack"
    BY <2>1 DEF UploadStates
  <2>4. cpc = "send" /\ linked => accepted /\ spc = "text" /\ rfile = file
    BY <1>1, <2>1 DEF Links, UploadTogether
  <2> QED
    BY <2>2, <2>3, <2>4 DEF InStep, SenderAt, ReceiverAt, ReceiverIn
<1>3. CASE ~Upload
  <2> USE <1>3
  <2>1. DownloadStates /\ DownloadStreams /\ DownloadTogether
    BY DEF TransferInv
  <2>2. ASSUME cpc \in {"recv", "text"}, down # <<>>
        PROVE  /\ cpc = "recv" => Head(down) \in {Finish} \cup {Header(f) : f \in Files}
               /\ cpc = "text" => Head(down).type \in {"line", "end"}
    <3>1. PICK k \in 0..(Lines + 2) : DownloadSession(k)
      BY <2>1, <2>2 DEF DownloadStreams
    <3>2. /\ Fits(Head(down), k + 1, Flag, Heads) /\ k \in Nat /\ Lines \in Nat
          /\ k + 1 <= Lines + 2
      BY <2>2, <3>1, StreamTail DEF DownloadSession
    <3>3. ASSUME cpc = "recv" PROVE Head(down) \in {Finish} \cup {Header(f) : f \in Files}
      <4>1. Head(down) \in Heads
        BY <3>1, <3>2, <3>3 DEF DownloadSession, Progress, Fits, ReceiverAt, Upload
      <4> QED
        BY <1>1, <4>1 DEF Heads, TypeOK
    <3>4. ASSUME cpc = "text" PROVE Head(down).type \in {"line", "end"}
      <4>1. k \in 0..Lines
        BY <3>1, <3>2, <3>4 DEF DownloadSession, Progress, ReceiverAt, Upload
      <4> QED
        BY <3>2, <3>4, <4>1, FrameFields DEF Fits, Flag, ReceiverAt, Upload
    <3> QED
      BY <3>3, <3>4
  <2>3. ASSUME Incoming # <<>>
        PROVE  (spc = "login" => Head(Incoming) = Login) /\ (spc = "ack" => Head(Incoming) = Msg)
    BY <2>1, <2>3, Singles DEF DownloadStates, DownloadTogether, Incoming
  <2>4. spc = "send" /\ linked /\ accepted => cpc = "text" /\ rfile = file
    BY <2>1 DEF DownloadTogether
  <2> QED
    BY <2>2, <2>3, <2>4 DEF InStep, SenderAt, ReceiverAt, ReceiverIn
<1> QED
  BY <1>2, <1>3

\* The variables of either program, of the connection and of the disks keep their types.
THEOREM TypeCorrect == Spec => []TypeOK
<1>1. TransferInv => TypeOK
  BY DEF TransferInv
<1> QED
  BY Invariance, <1>1, PTL

\* Neither side ever takes a frame for another, for any number of files, lines and
\* failures: the receiver's progress and the frames under way are positions of one text.
THEOREM Framing == Spec => []InStep
BY Invariance, InvImpliesInStep, PTL

\* A published file ends with one whole copy of the source, and is the source as long as
\* nothing has failed.
THEOREM Publication == Spec => []FinalEndsWithWholeCopy
<1>1. TransferInv => FinalEndsWithWholeCopy
  <2> SUFFICES ASSUME TransferInv, NEW f \in Names, final[f] # NoFile
               PROVE  f # Unnamed /\ IsSuffix(Whole, final[f]) /\ (failures = 0 => final[f] = Whole)
    BY DEF FinalEndsWithWholeCopy
  <2>1. f # Unnamed /\ EndsWith(final[f], Lines) /\ (failures = 0 => Len(final[f]) = Lines)
    BY DEF TransferInv, Published
  <2> QED
    BY <2>1, WholeCopy
<1> QED
  BY Invariance, <1>1, PTL

\* Whatever happens, the files that are gone are no more than the failures.
THEOREM LossBound == Spec => []OneLossPerFailure
<1>1. TransferInv => OneLossPerFailure
  <2> SUFFICES ASSUME TransferInv PROVE OneLossPerFailure
    OBVIOUS
  <2>1. failures \in Nat
    BY TransferAssumption DEF TransferInv, TypeOK
  <2>2. Cardinality(Lost) <= failures
    BY <2>1, NoMoreLosses DEF TransferInv, Losses
  <2> QED
    BY <2>2 DEF OneLossPerFailure, Lost
<1> QED
  BY Invariance, <1>1, PTL
=============================================================================
