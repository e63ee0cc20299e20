-------------------------- MODULE ByteBufferProofs --------------------------
(***************************************************************************)
(* Proofs about ByteBuffer, for every set of bytes and chunks, initial     *)
(* size, size of the array on the stack and bound on the bytes waiting.    *)
(* The operators come first: each writing helper is shown to append to the *)
(* readable bytes and to keep the positions in order.                      *)
(***************************************************************************)
EXTENDS ByteBuffer, TLAPS

\* A function on 1..n is a sequence.
LEMMA FunctionIsSeq ==
  ASSUME NEW S, NEW n \in Nat, NEW f \in [1..n -> S]
  PROVE  f \in Seq(S) /\ Len(f) = n
  OBVIOUS

\* A stretch of the storage has as many bytes as it has positions.
LEMMA BetweenType ==
  ASSUME NEW s \in Seq(Byte), NEW from \in Nat, NEW to \in Nat,
         from <= to, to <= Len(s)
  PROVE  /\ Between(s, from, to) \in Seq(Byte)
         /\ Len(Between(s, from, to)) = to - from
  BY FunctionIsSeq DEF Between

\* Copying into the storage keeps its size.
LEMMA CopiedType ==
  ASSUME NEW st \in Seq(Byte), NEW to \in Nat, NEW s \in Seq(Byte)
  PROVE  Copied(st, to, s) \in Seq(Byte) /\ Len(Copied(st, to, s)) = Len(st)
  BY FunctionIsSeq DEF Copied

\* Two sequences are equal when they agree at every position.
LEMMA SameBytes ==
  ASSUME NEW s \in Seq(Byte), NEW t \in Seq(Byte),
         Len(s) = Len(t), \A i \in 1..Len(s) : s[i] = t[i]
  PROVE  s = t
  OBVIOUS

\* What joining two sequences gives at each position.
LEMMA Concatenation ==
  ASSUME NEW s \in Seq(Byte), NEW t \in Seq(Byte)
  PROVE  /\ s \o t \in Seq(Byte) /\ Len(s \o t) = Len(s) + Len(t)
         /\ \A i \in 1..Len(s \o t) :
              (s \o t)[i] = IF i <= Len(s) THEN s[i] ELSE t[i - Len(s)]
  OBVIOUS

\* Resizing gives the size asked for.
LEMMA ResizedType ==
  ASSUME NEW st \in Seq(Byte), NEW n \in Nat
  PROVE  Resized(st, n) \in Seq(Byte) /\ Len(Resized(st, n)) = n
  BY FunctionIsSeq, BufferAssumption DEF Resized

Buffers == [store : Seq(Byte), rd : Nat, wr : Nat]

\* The positions are ordered and inside the storage.
Good(b) == b \in Buffers /\ b.rd <= b.wr /\ b.wr <= Len(b.store)

\* There are as many readable bytes as the positions say.
LEMMA ReadableType ==
  ASSUME NEW b, Good(b)
  PROVE  /\ Readable(b) \in Seq(Byte)
         /\ Len(Readable(b)) = ReadableBytes(b)
         /\ ReadableBytes(b) \in Nat
<1>1. /\ b.store \in Seq(Byte) /\ b.rd \in Nat /\ b.wr \in Nat
      /\ b.rd <= b.wr /\ b.wr <= Len(b.store)
  BY DEF Good, Buffers
<1>2. ReadableBytes(b) \in Nat
  BY <1>1 DEF ReadableBytes
<1>3. /\ Between(b.store, b.rd, b.wr) \in Seq(Byte)
      /\ Len(Between(b.store, b.rd, b.wr)) = b.wr - b.rd
  BY <1>1, BetweenType
<1> QED
  BY <1>2, <1>3 DEF Readable, ReadableBytes

\* The byte at each place of a stretch of the storage.
LEMMA BetweenAt ==
  ASSUME NEW s, NEW from, NEW to, NEW i \in 1..(to - from)
  PROVE  Between(s, from, to)[i] = s[from + i]
  BY DEF Between

\* Copying changes the positions copied to and no other.
LEMMA CopiedAt ==
  ASSUME NEW st \in Seq(Byte), NEW to \in Nat, NEW s \in Seq(Byte),
         NEW i \in 1..Len(st)
  PROVE  Copied(st, to, s)[i] =
           IF i > to /\ i <= to + Len(s) THEN s[i - to] ELSE st[i]
  BY DEF Copied

\* Moving the readable bytes to the front keeps them and frees the rest.
LEMMA CompactedKeeps ==
  ASSUME NEW b, Good(b)
  PROVE  LET c == Compacted(b) IN
         /\ Good(c) /\ Readable(c) = Readable(b)
         /\ Len(c.store) = Len(b.store)
         /\ WritableBytes(c) = Len(b.store) - ReadableBytes(b)
<1> DEFINE c == Compacted(b)
           n == ReadableBytes(b)
<1>1. /\ Readable(b) \in Seq(Byte) /\ Len(Readable(b)) = n
      /\ n \in Nat /\ n <= Len(b.store) /\ b.store \in Seq(Byte)
  BY ReadableType DEF Good, Buffers, ReadableBytes
<1>2. /\ c.store \in Seq(Byte) /\ Len(c.store) = Len(b.store)
      /\ c.rd = 0 /\ c.wr = n
  BY <1>1, CopiedType DEF Compacted
<1>3. Good(c)
  BY <1>1, <1>2 DEF Good, Buffers, Compacted
<1>4. Readable(c) = Readable(b)
  <2>1. \A i \in 1..n : Readable(c)[i] = Readable(b)[i]
    <3> TAKE i \in 1..n
    <3>1. Readable(c)[i] = c.store[i]
      BY <1>1, <1>2, BetweenAt DEF Readable
    <3>2. c.store[i] = Copied(b.store, 0, Readable(b))[i]
      BY DEF Compacted
    <3>3. i \in 1..Len(b.store) /\ i > 0 /\ i <= 0 + Len(Readable(b)) /\ i - 0 = i
      BY <1>1
    <3> QED
      BY <1>1, <3>1, <3>2, <3>3, CopiedAt
  <2>2. Readable(c) \in Seq(Byte) /\ Len(Readable(c)) = n
    BY <1>2, <1>3, ReadableType DEF ReadableBytes
  <2> QED
    BY <1>1, <2>1, <2>2, SameBytes
<1> QED
  BY <1>2, <1>3, <1>4 DEF WritableBytes

\* Growing keeps the readable bytes where they are.
LEMMA ResizedKeeps ==
  ASSUME NEW b, Good(b), NEW n \in Nat, Len(b.store) <= n
  PROVE  LET g == [b EXCEPT !.store = Resized(b.store, n)] IN
         /\ Good(g) /\ Readable(g) = Readable(b)
         /\ Len(g.store) = n /\ g.rd = b.rd /\ g.wr = b.wr
<1> DEFINE g == [b EXCEPT !.store = Resized(b.store, n)]
<1>1. /\ g.store = Resized(b.store, n) /\ g.rd = b.rd /\ g.wr = b.wr
      /\ g.store \in Seq(Byte) /\ Len(g.store) = n
  BY ResizedType DEF Good, Buffers
<1>2. Good(g)
  BY <1>1 DEF Good, Buffers
<1>3. Readable(g) = Readable(b)
  <2>1. \A i \in 1..ReadableBytes(b) : Readable(g)[i] = Readable(b)[i]
    <3> TAKE i \in 1..ReadableBytes(b)
    <3>1. /\ b.rd \in Nat /\ b.wr \in Nat /\ b.wr <= Len(b.store)
          /\ Len(b.store) \in Nat
      BY DEF Good, Buffers
    <3>2. /\ i \in 1..(b.wr - b.rd) /\ b.rd + i \in 1..Len(b.store)
          /\ b.rd + i \in 1..n
      BY <3>1 DEF ReadableBytes
    <3>3. Readable(g)[i] = g.store[b.rd + i] /\ Readable(b)[i] = b.store[b.rd + i]
      BY <1>1, <3>2, BetweenAt DEF Readable
    <3> QED
      BY <1>1, <3>2, <3>3 DEF Resized
  <2>2. /\ Readable(b) \in Seq(Byte) /\ Len(Readable(b)) = ReadableBytes(b)
        /\ Readable(g) \in Seq(Byte) /\ Len(Readable(g)) = ReadableBytes(g)
    BY <1>2, ReadableType
  <2>3. ReadableBytes(g) = ReadableBytes(b)
    BY <1>1 DEF ReadableBytes
  <2> HIDE DEF g
  <2> QED
    BY <2>1, <2>2, <2>3, SameBytes
<1> QED
  BY <1>1, <1>2, <1>3

\* After EnsureWriteable there is room, the readable bytes are the same, and
\* the storage grew only when they and the new ones could not share it.
LEMMA EnsureWriteableMakesRoom ==
  ASSUME NEW b, Good(b), NEW len \in Nat
  PROVE  LET e == EnsureWriteable(b, len) IN
         /\ Good(e) /\ Readable(e) = Readable(b) /\ len <= WritableBytes(e)
         /\ \/ Len(e.store) = Len(b.store)
            \/ /\ Len(e.store) = b.wr + len + 1
               /\ Len(b.store) < ReadableBytes(b) + len
<1> DEFINE e == EnsureWriteable(b, len)
<1>0. /\ b.rd \in Nat /\ b.wr \in Nat /\ b.store \in Seq(Byte)
      /\ Len(b.store) \in Nat /\ b.rd <= b.wr /\ b.wr <= Len(b.store)
  BY DEF Good, Buffers
<1>1. CASE len <= WritableBytes(b)
  <2>1. e = b
    BY <1>0, <1>1 DEF EnsureWriteable, WritableBytes
  <2> QED
    BY <1>1, <2>1
<1>2. CASE WritableBytes(b) < len /\ TooShort(b, len)
  <2>1. e = [b EXCEPT !.store = Resized(b.store, b.wr + len + 1)]
    BY <1>2 DEF EnsureWriteable, MakeSpace
  <2>2. Len(b.store) < ReadableBytes(b) + len
    BY <1>0, <1>2 DEF TooShort, WritableBytes, PrependableBytes, ReadableBytes
  <2>3. Len(b.store) <= b.wr + len + 1
    BY <1>0, <2>2 DEF ReadableBytes
  <2>4. /\ Good(e) /\ Readable(e) = Readable(b)
        /\ Len(e.store) = b.wr + len + 1 /\ e.wr = b.wr
    <3>1. b.wr + len + 1 \in Nat
      BY <1>0
    <3> QED
      BY <2>1, <2>3, <3>1, ResizedKeeps
  <2>5. len <= WritableBytes(e)
    BY <1>0, <2>4 DEF WritableBytes
  <2> QED
    BY <2>2, <2>4, <2>5
<1>3. CASE WritableBytes(b) < len /\ ~ TooShort(b, len)
  <2>1. e = Compacted(b)
    BY <1>3 DEF EnsureWriteable, MakeSpace
  <2>2. len <= Len(b.store) - ReadableBytes(b)
    BY <1>0, <1>3 DEF TooShort, WritableBytes, PrependableBytes, ReadableBytes
  <2> QED
    BY <2>1, <2>2, CompactedKeeps
<1> QED
  BY <1>0, <1>1, <1>2, <1>3 DEF WritableBytes

\* Storing into free space puts the bytes after the readable ones.
LEMMA StoredAppends ==
  ASSUME NEW b, Good(b), NEW s \in Seq(Byte), Len(s) <= WritableBytes(b)
  PROVE  LET c == Stored(b, s) IN
         /\ Good(c) /\ Readable(c) = Readable(b) \o s
         /\ Len(c.store) = Len(b.store) /\ c.rd = b.rd /\ c.wr = b.wr + Len(s)
<1> DEFINE c == Stored(b, s)
           n == ReadableBytes(b)
<1>0. /\ b.rd \in Nat /\ b.wr \in Nat /\ b.store \in Seq(Byte)
      /\ Len(b.store) \in Nat /\ b.rd <= b.wr /\ Len(s) \in Nat
      /\ b.wr + Len(s) <= Len(b.store)
  BY DEF Good, Buffers, WritableBytes
<1>1. /\ c.store = Copied(b.store, b.wr, s) /\ c.rd = b.rd
      /\ c.wr = b.wr + Len(s)
  BY DEF Stored, Good, Buffers
<1>2. c.store \in Seq(Byte) /\ Len(c.store) = Len(b.store)
  BY <1>0, <1>1, CopiedType
<1>3. Good(c)
  <2>1. c \in Buffers
    <3>1. b.wr + Len(s) \in Nat /\ Copied(b.store, b.wr, s) \in Seq(Byte)
      BY <1>0, CopiedType
    <3> QED
      BY <3>1 DEF Stored, Good, Buffers
  <2> QED
    BY <1>0, <1>1, <1>2, <2>1 DEF Good
<1>4. /\ n = b.wr - b.rd /\ ReadableBytes(c) = n + Len(s) /\ n \in Nat
  BY <1>0, <1>1 DEF ReadableBytes
<1>5. /\ Readable(b) \in Seq(Byte) /\ Len(Readable(b)) = n
      /\ Readable(c) \in Seq(Byte) /\ Len(Readable(c)) = n + Len(s)
  BY <1>3, <1>4, ReadableType
<1>6. ASSUME NEW i \in 1..(n + Len(s))
      PROVE  Readable(c)[i] = (Readable(b) \o s)[i]
  <2>1. b.rd + i \in 1..Len(b.store)
    BY <1>0, <1>4
  <2>2. Readable(c)[i] = Copied(b.store, b.wr, s)[b.rd + i]
    BY <1>0, <1>1, <1>4, BetweenAt DEF Readable
  <2>3. (Readable(b) \o s)[i] = IF i <= n THEN Readable(b)[i] ELSE s[i - n]
    BY <1>0, <1>4, <1>5, Concatenation
  <2>4. CASE i <= n
    <3>1. Readable(b)[i] = b.store[b.rd + i]
      BY <1>0, <1>4, <2>4, BetweenAt DEF Readable
    <3>2. ~ (b.rd + i > b.wr)
      BY <1>0, <1>4, <2>4
    <3> QED
      BY <1>0, <2>1, <2>2, <2>3, <2>4, <3>1, <3>2, CopiedAt
  <2>5. CASE ~ (i <= n)
    <3>1. /\ b.rd + i > b.wr /\ b.rd + i <= b.wr + Len(s)
          /\ (b.rd + i) - b.wr = i - n
      BY <1>0, <1>4, <2>5
    <3> QED
      BY <1>0, <2>1, <2>2, <2>3, <2>5, <3>1, CopiedAt
  <2> QED
    BY <2>4, <2>5
<1>7. Readable(c) = Readable(b) \o s
  <2>1. Readable(b) \o s \in Seq(Byte) /\ Len(Readable(b) \o s) = n + Len(s)
    BY <1>5, Concatenation
  <2> HIDE DEF c, n
  <2> QED
    BY <1>5, <1>6, <2>1, SameBytes
<1> QED
  BY <1>1, <1>2, <1>3, <1>7

\* How a call may change the size of the storage: not at all, or because the
\* bytes to hold exceed it, and then to at most twice what they need.
Resizes(b, c) ==
  \/ Len(c.store) = Len(b.store)
  \/ /\ Len(b.store) < ReadableBytes(c)
     /\ Len(c.store) <= 2 * ReadableBytes(c)

\* Append puts the bytes after the readable ones and resizes only as it must.
LEMMA AppendedAppends ==
  ASSUME NEW b, Good(b), NEW s \in Seq(Byte)
  PROVE  LET c == Appended(b, s) IN
         Good(c) /\ Readable(c) = Readable(b) \o s /\ Resizes(b, c)
<1> DEFINE e == EnsureWriteable(b, Len(s))
           c == Appended(b, s)
<1>1. Len(s) \in Nat
  OBVIOUS
<1>2. /\ Good(e) /\ Readable(e) = Readable(b) /\ Len(s) <= WritableBytes(e)
      /\ \/ Len(e.store) = Len(b.store)
         \/ /\ Len(e.store) = b.wr + Len(s) + 1
            /\ Len(b.store) < ReadableBytes(b) + Len(s)
  BY <1>1, EnsureWriteableMakesRoom
<1>3. c = Stored(e, s)
  BY DEF Appended
<1> HIDE DEF e, c
<1>4. /\ Good(c) /\ Readable(c) = Readable(e) \o s
      /\ Len(c.store) = Len(e.store)
  BY <1>2, <1>3, StoredAppends
<1>5. /\ ReadableBytes(c) = ReadableBytes(b) + Len(s)
      /\ ReadableBytes(b) \in Nat
  <2>1. /\ Readable(b) \in Seq(Byte) /\ Len(Readable(b)) = ReadableBytes(b)
        /\ ReadableBytes(b) \in Nat
    BY ReadableType
  <2>2. Len(Readable(c)) = ReadableBytes(c)
    BY <1>4, ReadableType
  <2>3. Len(Readable(b) \o s) = Len(Readable(b)) + Len(s)
    BY <2>1, Concatenation
  <2> QED
    BY <1>2, <1>4, <2>1, <2>2, <2>3
<1>6. /\ b.wr \in Nat /\ Len(b.store) \in Nat /\ b.wr <= Len(b.store)
  BY DEF Good, Buffers
<1>7. Resizes(b, c)
  BY <1>1, <1>2, <1>4, <1>5, <1>6 DEF Resizes
<1> QED
  BY <1>2, <1>4, <1>7 DEF c

\* Joining is associative.
LEMMA Associative ==
  ASSUME NEW s \in Seq(Byte), NEW t \in Seq(Byte), NEW u \in Seq(Byte)
  PROVE  (s \o t) \o u = s \o (t \o u)
  OBVIOUS

\* Cutting a chunk and joining the parts gives the chunk.
LEMMA CutAndJoin ==
  ASSUME NEW s \in Seq(Byte), NEW k \in 0..Len(s)
  PROVE  Between(s, 0, k) \o Between(s, k, Len(s)) = s
<1> DEFINE p == Between(s, 0, k)
           q == Between(s, k, Len(s))
<1>1. /\ p \in Seq(Byte) /\ Len(p) = k
      /\ q \in Seq(Byte) /\ Len(q) = Len(s) - k /\ k \in Nat /\ Len(s) \in Nat
  <2>1. /\ k \in Nat /\ Len(s) \in Nat /\ 0 \in Nat /\ 0 <= k /\ k <= Len(s)
        /\ Len(s) <= Len(s) /\ k - 0 = k
    OBVIOUS
  <2>2. p \in Seq(Byte) /\ Len(p) = k - 0
    BY <2>1, BetweenType
  <2>3. q \in Seq(Byte) /\ Len(q) = Len(s) - k
    BY <2>1, BetweenType
  <2> QED
    BY <2>1, <2>2, <2>3
<1>2. p \o q \in Seq(Byte) /\ Len(p \o q) = Len(s)
  <2>1. p \o q \in Seq(Byte) /\ Len(p \o q) = Len(p) + Len(q)
    BY <1>1, Concatenation
  <2> HIDE DEF p, q
  <2> QED
    BY <1>1, <2>1
<1>3. ASSUME NEW i \in 1..Len(s) PROVE (p \o q)[i] = s[i]
  <2>1. (p \o q)[i] = IF i <= k THEN p[i] ELSE q[i - k]
    BY <1>1, <1>2, Concatenation
  <2>2. CASE i <= k
    <3>1. i \in 1..(k - 0) /\ 0 + i = i
      BY <1>1, <2>2
    <3>2. p[i] = s[0 + i]
      BY <3>1, BetweenAt
    <3> QED
      BY <2>1, <2>2, <3>1, <3>2
  <2>3. CASE ~ (i <= k)
    <3>1. i - k \in 1..(Len(s) - k) /\ k + (i - k) = i
      BY <1>1, <2>3
    <3>2. q[i - k] = s[k + (i - k)]
      BY <3>1, BetweenAt
    <3> QED
      BY <2>1, <2>3, <3>1, <3>2
  <2> QED
    BY <2>2, <2>3
<1> HIDE DEF p, q
<1>4. p \o q = s
  BY <1>2, <1>3, SameBytes
<1> QED
  BY <1>4 DEF p, q

\* Wherever readv put the bytes, they follow the readable ones.
LEMMA ScatteredAppends ==
  ASSUME NEW b, Good(b), NEW s \in Seq(Byte)
  PROVE  LET c == Scattered(b, s) IN
         Good(c) /\ Readable(c) = Readable(b) \o s /\ Resizes(b, c)
<1> DEFINE room == WritableBytes(b)
           c == Scattered(b, s)
           s1 == Between(s, 0, room)
           s2 == Between(s, room, Len(s))
           b1 == Stored(b, s1)
<1>1. /\ room \in Nat /\ Len(s) \in Nat /\ b.wr \in Nat
      /\ Len(b.store) \in Nat /\ b.wr + room = Len(b.store)
  BY DEF Good, Buffers, WritableBytes
<1>2. CASE Len(s) <= room
  BY <1>2, StoredAppends DEF Scattered, Resizes
<1>3. CASE ~ (Len(s) <= room)
  <2>1. /\ s1 \in Seq(Byte) /\ Len(s1) = room
        /\ s2 \in Seq(Byte) /\ s1 \o s2 = s
    <3>1. /\ room \in 0..Len(s) /\ 0 \in Nat /\ 0 <= room /\ room <= Len(s)
          /\ Len(s) <= Len(s) /\ room - 0 = room
      BY <1>1, <1>3
    <3>2. s1 \in Seq(Byte) /\ Len(s1) = room - 0
      BY <1>1, <3>1, BetweenType
    <3>3. s2 \in Seq(Byte)
      BY <1>1, <3>1, BetweenType
    <3>4. s1 \o s2 = s
      BY <3>1, CutAndJoin
    <3> QED
      BY <3>1, <3>2, <3>3, <3>4
  <2>2. c = Appended(b1, s2)
    BY <1>3 DEF Scattered
  <2> HIDE DEF c, s1, s2, room
  <2>3. /\ Good(b1) /\ Readable(b1) = Readable(b) \o s1
        /\ Len(b1.store) = Len(b.store)
    <3>1. Len(s1) <= WritableBytes(b)
      BY <1>1, <2>1 DEF room
    <3> QED
      BY <2>1, <3>1, StoredAppends
  <2> HIDE DEF b1
  <2>4. Good(c) /\ Readable(c) = Readable(b1) \o s2 /\ Resizes(b1, c)
    BY <2>1, <2>2, <2>3, AppendedAppends
  <2>5. Readable(c) = Readable(b) \o s
    <3>1. Readable(b) \in Seq(Byte)
      BY ReadableType
    <3>2. (Readable(b) \o s1) \o s2 = Readable(b) \o (s1 \o s2)
      BY <2>1, <3>1, Associative
    <3> QED
      BY <2>1, <2>3, <2>4, <3>2
  <2>6. Resizes(b, c)
    BY <2>3, <2>4 DEF Resizes
  <2> QED
    BY <2>4, <2>5, <2>6 DEF c
<1> QED
  BY <1>2, <1>3

-----------------------------------------------------------------------------
(* The inductive invariant *)

BufferInv == TypeOK /\ StorageBounded

\* The buffer of a reachable state satisfies the lemmas' hypothesis.
LEMMA InvGivesGood ==
  ASSUME BufferInv
  PROVE  Good(buf) /\ last \in Seq(Byte) /\ peak \in Nat
  BY DEF BufferInv, TypeOK, Good, Buffers

\* A new buffer is empty, so the invariant holds.
LEMMA InitBufferInv == Init => BufferInv
<1> SUFFICES ASSUME Init PROVE BufferInv
  OBVIOUS
<1>1. /\ InitSize \in Nat /\ [i \in 1..InitSize |-> Zero] \in [1..InitSize -> Byte]
  BY BufferAssumption
<1>2. /\ [i \in 1..InitSize |-> Zero] \in Seq(Byte)
      /\ Len([i \in 1..InitSize |-> Zero]) = InitSize
  BY <1>1, FunctionIsSeq
<1> QED
  BY <1>1, <1>2 DEF Init, BufferInv, TypeOK, StorageBounded, ReadableBytes

\* What every writing call does.
LEMMA WritingCall ==
  ASSUME BufferInv, NEW s \in Seq(Byte), last' = <<>>, peak' = Peaks,
         Good(buf'), Readable(buf)' = Readable(buf) \o s, Resizes(buf, buf')
  PROVE  /\ BufferInv'
         /\ Len(buf'.store) > Len(buf.store) =>
              ReadableBytes(buf') > Len(buf.store)
<1>1. Good(buf) /\ peak \in Nat
  BY InvGivesGood
<1>2. /\ ReadableBytes(buf') \in Nat /\ Len(buf'.store) \in Nat
      /\ ReadableBytes(buf) \in Nat /\ Len(buf.store) \in Nat
  <2>1. Len(buf'.store) \in Nat /\ Len(buf.store) \in Nat
    BY <1>1 DEF Good, Buffers
  <2>2. ReadableBytes(buf) \in Nat
    BY <1>1, ReadableType
  <2>3. ReadableBytes(buf') \in Nat
    BY ReadableType
  <2> QED
    BY <2>1, <2>2, <2>3
<1>3. peak' \in Nat /\ ReadableBytes(buf') <= peak' /\ peak <= peak'
  BY <1>1, <1>2 DEF Peaks
<1>4. TypeOK'
  BY <1>3 DEF TypeOK, Good, Buffers
<1>5. Len(buf'.store) <= InitSize \/ Len(buf'.store) <= 2 * peak'
  BY <1>1, <1>2, <1>3, BufferAssumption
     DEF Resizes, BufferInv, StorageBounded
<1>6. StorageBounded'
  BY <1>3, <1>5 DEF StorageBounded
<1> QED
  BY <1>2, <1>4, <1>6 DEF BufferInv, Resizes

\* What every call that takes the first n bytes does.
LEMMA TakingCall ==
  ASSUME BufferInv, NEW n \in 0..ReadableBytes(buf), Retrieve(n) \/ WriteFd(n)
  PROVE  /\ BufferInv' /\ buf'.store = buf.store
         /\ last' = SubSeq(Readable(buf), 1, n)
         /\ Readable(buf)' = SubSeq(Readable(buf), n + 1, Len(Readable(buf)))
<1> DEFINE r == Readable(buf)
<1>1. /\ buf.rd \in Nat /\ buf.wr \in Nat /\ buf.store \in Seq(Byte)
      /\ Len(buf.store) \in Nat /\ buf.rd <= buf.wr /\ buf.wr <= Len(buf.store)
      /\ n \in Nat /\ buf.rd + n <= buf.wr /\ peak \in Nat
  BY InvGivesGood DEF Good, Buffers, ReadableBytes
<1>2. /\ buf' = [buf EXCEPT !.rd = buf.rd + n] /\ peak' = peak
      /\ last' = Between(buf.store, buf.rd, buf.rd + n)
  BY DEF Retrieve, WriteFd
<1>3. /\ buf'.store = buf.store /\ buf'.rd = buf.rd + n /\ buf'.wr = buf.wr
      /\ buf' \in Buffers
  BY <1>1, <1>2, InvGivesGood DEF Good, Buffers
<1>4. Good(buf')
  BY <1>1, <1>3 DEF Good
<1>5. last' \in Seq(Byte) /\ Len(last') = n
  <2>1. buf.rd + n \in Nat /\ buf.rd <= buf.rd + n /\ buf.rd + n <= Len(buf.store)
    BY <1>1
  <2>2. /\ Between(buf.store, buf.rd, buf.rd + n) \in Seq(Byte)
        /\ Len(Between(buf.store, buf.rd, buf.rd + n)) = (buf.rd + n) - buf.rd
    BY <1>1, <2>1, BetweenType
  <2> QED
    BY <1>1, <1>2, <2>2
<1>6. BufferInv'
  <2>1. TypeOK'
    BY <1>2, <1>4, <1>5, <1>1 DEF TypeOK, Good, Buffers
  <2>2. StorageBounded'
    BY <1>1, <1>2, <1>3 DEF BufferInv, StorageBounded, ReadableBytes
  <2> QED
    BY <2>1, <2>2 DEF BufferInv
<1>7. r \in Seq(Byte) /\ Len(r) = buf.wr - buf.rd
  BY ReadableType, InvGivesGood DEF ReadableBytes
<1>8. last' = SubSeq(r, 1, n)
  <2>1. SubSeq(r, 1, n) \in Seq(Byte) /\ Len(SubSeq(r, 1, n)) = n
    BY <1>1, <1>7
  <2>2. ASSUME NEW i \in 1..n PROVE last'[i] = SubSeq(r, 1, n)[i]
    <3>1. SubSeq(r, 1, n)[i] = r[i]
      BY <1>1, <1>7
    <3>2. i \in 1..((buf.rd + n) - buf.rd) /\ i \in 1..(buf.wr - buf.rd)
      BY <1>1
    <3> QED
      BY <1>2, <3>1, <3>2, BetweenAt DEF Readable
  <2> HIDE DEF r
  <2> QED
    BY <1>5, <2>1, <2>2, SameBytes
<1>9. Readable(buf)' = SubSeq(r, n + 1, Len(r))
  <2>1. /\ Readable(buf') \in Seq(Byte)
        /\ Len(Readable(buf')) = (buf.wr - buf.rd) - n
    BY <1>1, <1>3, <1>4, ReadableType DEF ReadableBytes
  <2>2. /\ SubSeq(r, n + 1, Len(r)) \in Seq(Byte)
        /\ Len(SubSeq(r, n + 1, Len(r))) = (buf.wr - buf.rd) - n
    <3> HIDE DEF r
    <3> QED
      BY <1>1, <1>7
  <2>3. ASSUME NEW i \in 1..((buf.wr - buf.rd) - n)
        PROVE  Readable(buf')[i] = SubSeq(r, n + 1, Len(r))[i]
    <3>1. SubSeq(r, n + 1, Len(r))[i] = r[n + i]
      <4> HIDE DEF r
      <4> QED
        BY <1>1, <1>7
    <3>2. r[n + i] = buf.store[buf.rd + (n + i)]
      <4>1. n + i \in 1..(buf.wr - buf.rd)
        BY <1>1
      <4> QED
        BY <4>1, BetweenAt DEF Readable
    <3>3. Readable(buf')[i] = buf.store[(buf.rd + n) + i]
      <4>1. i \in 1..(buf.wr - (buf.rd + n))
        BY <1>1
      <4> QED
        BY <1>3, <4>1, BetweenAt DEF Readable
    <3>4. buf.rd + (n + i) = (buf.rd + n) + i
      BY <1>1
    <3> HIDE DEF r
    <3> QED
      BY <3>1, <3>2, <3>3, <3>4
  <2> HIDE DEF r
  <2> QED
    BY <2>1, <2>2, <2>3, SameBytes
<1> QED
  BY <1>3, <1>6, <1>8, <1>9

\* What both emptying calls leave.
LEMMA EmptyingCall ==
  ASSUME BufferInv, RetrieveAll \/ RetrieveAllToStr
  PROVE  /\ BufferInv' /\ Len(buf'.store) = Len(buf.store)
         /\ Readable(buf)' = <<>>
<1>1. Good(buf) /\ peak \in Nat /\ Len(buf.store) \in Nat
  BY InvGivesGood DEF Good, Buffers
<1>2. buf' = Emptied /\ peak' = peak /\ last' \in {<<>>, Readable(buf)}
  BY DEF RetrieveAll, RetrieveAllToStr
<1>3. /\ [i \in 1..Len(buf.store) |-> Zero] \in Seq(Byte)
      /\ Len([i \in 1..Len(buf.store) |-> Zero]) = Len(buf.store)
  <2>1. [i \in 1..Len(buf.store) |-> Zero] \in [1..Len(buf.store) -> Byte]
    BY BufferAssumption
  <2> QED
    BY <1>1, <2>1, FunctionIsSeq
<1>4. /\ buf' \in Buffers /\ buf'.rd = 0 /\ buf'.wr = 0
      /\ Len(buf'.store) = Len(buf.store)
  BY <1>2, <1>3 DEF Emptied, Buffers
<1>5. last' \in Seq(Byte)
  <2>1. Readable(buf) \in Seq(Byte)
    BY <1>1, ReadableType
  <2>2. <<>> \in Seq(Byte)
    OBVIOUS
  <2>3. last' = <<>> \/ last' = Readable(buf)
    BY <1>2
  <2> QED
    BY <2>1, <2>2, <2>3
<1>6. TypeOK'
  BY <1>1, <1>2, <1>4, <1>5 DEF TypeOK, Buffers
<1>7. StorageBounded'
  BY <1>1, <1>2, <1>4 DEF BufferInv, StorageBounded, ReadableBytes
<1>8. Readable(buf') = <<>>
  BY <1>4 DEF Readable, Between
<1> QED
  BY <1>4, <1>6, <1>7, <1>8 DEF BufferInv

\* Each step keeps the invariant, grows the storage only when it is too small,
\* and is a step of the queue of bytes.
LEMMA NextBufferInv ==
  BufferInv /\ [Next]_vars =>
    /\ BufferInv'
    /\ Len(buf'.store) > Len(buf.store) => ReadableBytes(buf') > Len(buf.store)
    /\ [Fifo!Next]_<<Readable(buf), last>>
<1> SUFFICES ASSUME BufferInv, [Next]_vars
             PROVE  /\ BufferInv'
                    /\ Len(buf'.store) > Len(buf.store) =>
                         ReadableBytes(buf') > Len(buf.store)
                    /\ [Fifo!Next]_<<Readable(buf), last>>
  OBVIOUS
<1>0. Good(buf) /\ Len(buf.store) \in Nat
  BY InvGivesGood DEF Good, Buffers
<1>1. ASSUME NEW s \in Chunk, Append_(s) \/ ReadFd(s)
      PROVE  /\ BufferInv'
             /\ Len(buf'.store) > Len(buf.store) =>
                  ReadableBytes(buf') > Len(buf.store)
             /\ Fifo!Put(s)
  <2>1. s \in Seq(Byte)
    BY BufferAssumption
  <2>2. /\ Good(buf') /\ Readable(buf') = Readable(buf) \o s
        /\ Resizes(buf, buf') /\ last' = <<>> /\ peak' = Peaks
    <3>1. CASE Append_(s)
      BY <1>0, <2>1, <3>1, AppendedAppends DEF Append_
    <3>2. CASE ReadFd(s)
      BY <1>0, <2>1, <3>2, ScatteredAppends DEF ReadFd
    <3> QED
      BY <1>1, <3>1, <3>2
  <2>3. /\ BufferInv'
        /\ Len(buf'.store) > Len(buf.store) =>
             ReadableBytes(buf') > Len(buf.store)
    BY <2>1, <2>2, WritingCall
  <2> QED
    BY <2>2, <2>3 DEF Fifo!Put
<1>2. ASSUME NEW n \in 0..ReadableBytes(buf), Retrieve(n) \/ WriteFd(n)
      PROVE  /\ BufferInv' /\ buf'.store = buf.store
             /\ n \in 0..Len(Readable(buf)) /\ Fifo!Take(n)
  <2>1. Len(Readable(buf)) = ReadableBytes(buf)
    BY <1>0, ReadableType
  <2> QED
    BY <1>2, <2>1, TakingCall DEF Fifo!Take
<1>3. ASSUME RetrieveAll
      PROVE  BufferInv' /\ Len(buf'.store) = Len(buf.store) /\ Fifo!Clear
  BY <1>3, EmptyingCall DEF RetrieveAll, Fifo!Clear
<1>4. ASSUME RetrieveAllToStr
      PROVE  /\ BufferInv' /\ Len(buf'.store) = Len(buf.store)
             /\ \E n \in 0..Len(Readable(buf)) : Fifo!Take(n)
  <2>1. Readable(buf) \in Seq(Byte) /\ Len(Readable(buf)) \in Nat
    BY <1>0, ReadableType
  <2>2. BufferInv' /\ Len(buf'.store) = Len(buf.store) /\ Readable(buf)' = <<>>
    BY <1>4, EmptyingCall
  <2>3. last' = Readable(buf)
    BY <1>4 DEF RetrieveAllToStr
  <2>4. /\ SubSeq(Readable(buf), 1, Len(Readable(buf))) = Readable(buf)
        /\ SubSeq(Readable(buf), Len(Readable(buf)) + 1, Len(Readable(buf))) = <<>>
    <3> DEFINE r == Readable(buf)
    <3>1. r \in Seq(Byte) /\ Len(r) \in Nat
      BY <2>1
    <3> HIDE DEF r
    <3>2. /\ SubSeq(r, 1, Len(r)) \in Seq(Byte) /\ Len(SubSeq(r, 1, Len(r))) = Len(r)
          /\ \A i \in 1..Len(r) : SubSeq(r, 1, Len(r))[i] = r[i]
      BY <3>1
    <3>3. SubSeq(r, 1, Len(r)) = r
      BY <3>1, <3>2, SameBytes
    <3>4. SubSeq(r, Len(r) + 1, Len(r)) = <<>>
      BY <3>1
    <3> QED
      BY <3>3, <3>4 DEF r
  <2>5. Fifo!Take(Len(Readable(buf)))
    BY <2>2, <2>3, <2>4 DEF Fifo!Take
  <2> QED
    BY <2>1, <2>2, <2>5
<1>5. CASE UNCHANGED vars
  BY <1>0, <1>5 DEF vars, BufferInv, TypeOK, StorageBounded, Readable, ReadableBytes
<1> QED
  BY <1>0, <1>1, <1>2, <1>3, <1>4, <1>5 DEF Next, Fifo!Next

-----------------------------------------------------------------------------
(* The theorems *)

\* The positions stay ordered and inside the storage for every sequence of calls.
THEOREM BufferTypeCorrect == Spec => []TypeOK
<1>1. BufferInv => TypeOK
  BY DEF BufferInv
<1> QED
  BY <1>1, InitBufferInv, NextBufferInv, PTL DEF Spec

\* The storage of a buffer stays below twice the most it ever held, whatever
\* the sizes of the chunks, of the initial vector and of the stack array.
THEOREM StorageStaysBounded == Spec => []StorageBounded
<1>1. BufferInv => StorageBounded
  BY DEF BufferInv
<1> QED
  BY <1>1, InitBufferInv, NextBufferInv, PTL DEF Spec

\* The vector grows only for bytes that could not fit into it.
THEOREM GrowthIsNeeded == Spec => GrowsOnlyWhenFull
<1>1. BufferInv /\ [Next]_vars =>
        [Len(buf'.store) > Len(buf.store) => ReadableBytes(buf') > Len(buf.store)]_vars
  BY NextBufferInv
<1> QED
  BY <1>1, InitBufferInv, NextBufferInv, PTL DEF Spec, GrowsOnlyWhenFull

\* The buffer implements a queue of bytes.
THEOREM BufferIsFifo == Spec => ImplementsFifo
<1>1. Init => Fifo!Init
  BY DEF Init, Fifo!Init, Readable, Between
<1>2. BufferInv /\ [Next]_vars => [Fifo!Next]_<<Readable(buf), last>>
  BY NextBufferInv
<1> QED
  BY <1>1, <1>2, InitBufferInv, NextBufferInv, PTL
     DEF Spec, ImplementsFifo, Fifo!Spec
=============================================================================
