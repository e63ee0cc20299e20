----------------------------- MODULE ByteBuffer -----------------------------
(***************************************************************************)
(* Buffer (src/buffer.cpp), the storage HttpConn reads requests into and   *)
(* writes responses from: a vector with a read and a write position.       *)
(* Positions count from 0 as in the code, so the byte at position p is     *)
(* store[p + 1].                                                           *)
(*                                                                         *)
(* A buffer is the record [store, rd, wr] of buffer_, readPos_, writePos_. *)
(* A call is atomic: one thread owns the buffer.                           *)
(***************************************************************************)
EXTENDS Sequences, Integers

CONSTANTS
  Byte,
  Chunk,        \* what one call can append, or one readv deliver
  Zero,         \* what resize and bzero fill with
  InitSize,     \* initBuffSize (1024)
  ExtraSize,    \* the array buff of ReadFd (65535)
  MaxReadable   \* bound: bytes waiting to be read

ASSUME BufferAssumption ==
  /\ Zero \in Byte /\ Chunk \subseteq Seq(Byte)
  /\ InitSize \in Nat \ {0} /\ ExtraSize \in Nat /\ MaxReadable \in Nat

VARIABLES
  buf,          \* the buffer
  last,         \* what the last call gave to its caller or to the socket
  peak          \* the most bytes that ever waited (history)

vars == <<buf, last, peak>>

-----------------------------------------------------------------------------
ReadableBytes(b) == b.wr - b.rd
WritableBytes(b) == Len(b.store) - b.wr
PrependableBytes(b) == b.rd

\* The bytes at positions from, from + 1, ... before to.
Between(store, from, to) == [i \in 1..(to - from) |-> store[from + i]]

Readable(b) == Between(b.store, b.rd, b.wr)

\* buffer_.resize(n), only ever to a larger size.
Resized(store, n) == [i \in 1..n |-> IF i <= Len(store) THEN store[i] ELSE Zero]

\* std::copy of s to position to.
Copied(store, to, s) ==
  [i \in 1..Len(store) |->
     IF i > to /\ i <= to + Len(s) THEN s[i - to] ELSE store[i]]

\* The readable bytes move to the front.  (Mutant: they are taken from the
\* front instead of from the read position.)
CompactedFromFront(b) ==
  [store |-> b.store, rd |-> 0, wr |-> ReadableBytes(b)]
Compacted(b) ==
  [store |-> Copied(b.store, 0, Readable(b)), rd |-> 0, wr |-> ReadableBytes(b)]

\* Free space at both ends would not do.  (Mutant: the front is forgotten.)
EndTooShort(b, len) == WritableBytes(b) < len
TooShort(b, len) == WritableBytes(b) + PrependableBytes(b) < len

MakeSpace(b, len) ==
  IF TooShort(b, len)
  THEN [b EXCEPT !.store = Resized(b.store, b.wr + len + 1)]
  ELSE Compacted(b)

\* (Mutant: no space is made.)
WriteAnyway(b, len) == b
EnsureWriteable(b, len) == IF WritableBytes(b) < len THEN MakeSpace(b, len) ELSE b

Stored(b, s) ==
  [b EXCEPT !.store = Copied(b.store, b.wr, s), !.wr = b.wr + Len(s)]

Appended(b, s) == Stored(EnsureWriteable(b, Len(s)), s)

\* readv fills the writable end of the vector first and the array on the stack
\* after it; the array is then appended.
Scattered(b, s) ==
  LET room == WritableBytes(b) IN
  IF Len(s) <= room
  THEN Stored(b, s)
  ELSE Appended(Stored(b, Between(s, 0, room)), Between(s, room, Len(s)))

-----------------------------------------------------------------------------
Init ==
  /\ buf = [store |-> [i \in 1..InitSize |-> Zero], rd |-> 0, wr |-> 0]
  /\ last = <<>> /\ peak = 0

\* bound
Fits(s) == ReadableBytes(buf) + Len(s) <= MaxReadable

Peaks == IF ReadableBytes(buf') > peak THEN ReadableBytes(buf') ELSE peak

Append_(s) ==
  /\ Fits(s)
  /\ buf' = Appended(buf, s) /\ last' = <<>> /\ peak' = Peaks

ReadFd(s) ==
  /\ Fits(s) /\ Len(s) <= WritableBytes(buf) + ExtraSize
  /\ buf' = Scattered(buf, s) /\ last' = <<>> /\ peak' = Peaks

\* The caller peeks at n bytes and retrieves them; Next gives n the range that
\* the assertion in the code demands.
Retrieve(n) ==
  /\ last' = Between(buf.store, buf.rd, buf.rd + n)
  /\ buf' = [buf EXCEPT !.rd = buf.rd + n]
  /\ UNCHANGED peak

\* write() is given every readable byte and accepts n of them.
WriteFd(n) ==
  /\ last' = Between(buf.store, buf.rd, buf.rd + n)
  /\ buf' = [buf EXCEPT !.rd = buf.rd + n]
  /\ UNCHANGED peak

Emptied == [store |-> [i \in 1..Len(buf.store) |-> Zero], rd |-> 0, wr |-> 0]

RetrieveAll == buf' = Emptied /\ last' = <<>> /\ UNCHANGED peak

RetrieveAllToStr == last' = Readable(buf) /\ buf' = Emptied /\ UNCHANGED peak

Next ==
  \/ \E s \in Chunk : Append_(s) \/ ReadFd(s)
  \/ \E n \in 0..ReadableBytes(buf) : Retrieve(n) \/ WriteFd(n)
  \/ RetrieveAll \/ RetrieveAllToStr

Spec == Init /\ [][Next]_vars

-----------------------------------------------------------------------------
(* Properties *)

\* The positions stay ordered and inside the vector: no call reads or writes
\* outside the storage it made room for.
TypeOK ==
  /\ buf \in [store : Seq(Byte), rd : Nat, wr : Nat]
  /\ buf.rd <= buf.wr /\ buf.wr <= Len(buf.store)
  /\ last \in Seq(Byte) /\ peak \in Nat

\* The storage is never more than twice what ever waited in it, however long
\* the connection lives: reading frees space for writing.
StorageBounded ==
  /\ ReadableBytes(buf) <= peak
  /\ Len(buf.store) <= InitSize \/ Len(buf.store) <= 2 * peak

\* The vector grows only in a call whose bytes would not fit into it even when
\* the read ones are given up.
GrowsOnlyWhenFull ==
  [][Len(buf'.store) > Len(buf.store) => ReadableBytes(buf') > Len(buf.store)]_vars

Fifo == INSTANCE ByteFifo WITH bytes <- Readable(buf), taken <- last

\* Whatever is moved, grown or scattered, the bytes come out as they went in:
\* the buffer implements a queue of bytes.
ImplementsFifo == Fifo!Spec
=============================================================================
