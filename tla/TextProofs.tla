----------------------------- MODULE TextProofs -----------------------------
(***************************************************************************)
(* Two proofs for texts of any length.  MatchStr takes exactly the names   *)
(* its rules describe: the rule is cut into pieces at the asterisks, the   *)
(* pieces are looked for one behind the other, and the first place found   *)
(* is never worse than a later one.  SplitToCmd and UpdateStr agree: the   *)
(* pieces with the separator between them are the text, a replacement in   *)
(* one pass is the pieces with the new string between them, and a repeated *)
(* one that shortens the text leaves no separator.                         *)
(***************************************************************************)
EXTENDS TextConversions, FiniteSetTheorems, WellFoundedInduction, TLAPS

-----------------------------------------------------------------------------
(* Induction over 0..n, and functions defined by recursion over what stands *)
(* lower, both for sets in the place of formulas.                           *)

\* A set of numbers up to n has a least one.
LEMMA LeastIn ==
  ASSUME NEW n \in Nat, NEW S, S \subseteq 0..n, S # {}
  PROVE  \E m \in S : \A y \in S : m <= y
<1> DEFINE D(k) == {i \in 0..n : i <= k}
<1> DEFINE T == {D(k) : k \in S}
<1> DEFINE F == {U \in SUBSET (0..n) : IsFiniteSet(U)}
<1>1. IsWellFoundedOn(StrictSubsetOrdering(0..n), F)
  BY FS_StrictSubsetOrderingWellFounded DEF FiniteSubsetsOf
<1>0. \A k \in S : D(k) \in F
  <2> TAKE k \in S
  <2>1. IsFiniteSet(0..n)
    BY FS_Interval
  <2>2. D(k) \subseteq 0..n
    OBVIOUS
  <2> QED
    BY <2>1, <2>2, FS_Subset, Zenon
<1>2. T \subseteq F /\ T # {}
  BY <1>0, Zenon
<1> HIDE DEF F, T
<1>3. PICK X \in T : \A Y \in T : <<Y, X>> \notin StrictSubsetOrdering(0..n)
  BY <1>1, <1>2, WFMin
<1>4. PICK k \in S : X = D(k)
  BY DEF T
<1>5. ASSUME NEW y \in S PROVE k <= y
  <2>1. D(y) \in T
    BY DEF T
  <2>2. ~ (D(y) \subseteq D(k) /\ D(y) # D(k))
    BY <1>3, <1>4, <2>1 DEF StrictSubsetOrdering
  <2>3. k \in Int /\ y \in Int
    OBVIOUS
  <2>4. y < k => D(y) \subseteq D(k) /\ k \in D(k) /\ k \notin D(y)
    BY <2>3
  <2> QED
    BY <2>2, <2>3, <2>4
<1> QED
  BY <1>5

\* Induction, with a set in the place of the formula.
LEMMA Induct ==
  ASSUME NEW n \in Nat, NEW P, 0 \in P, \A m \in 0..(n - 1) : m \in P => m + 1 \in P
  PROVE  \A m \in 0..n : m \in P
<1> SUFFICES ASSUME (0..n) \ P # {} PROVE FALSE
  OBVIOUS
<1>1. PICK m \in (0..n) \ P : \A y \in (0..n) \ P : m <= y
  BY LeastIn
<1>2. m # 0 /\ m - 1 \in 0..(n - 1) /\ m - 1 \in 0..n
  BY <1>1
<1>3. m - 1 \in P
  BY <1>1, <1>2
<1> QED
  BY <1>1, <1>2, <1>3

\* rank puts the members of I in an order; the value Step gives at i depends only on the
\* values at what stands lower; a function has these values.
Ranked(I, n, rank) == n \in Nat /\ rank \in [I -> 0..n]
Descends(I, T, rank, Step) ==
  \A i \in I : \A f, g \in [I -> T] :
    (\A j \in I : rank[j] < rank[i] => f[j] = g[j]) => Step[i][f] = Step[i][g]
Defined(I, T, Step) == \E f \in [I -> T] : \A i \in I : f[i] = Step[i][f]

\* A function that is defined by recursion exists.
LEMMA Recursion ==
  ASSUME NEW I, NEW T, NEW n, NEW rank, NEW Step, T # {}, Ranked(I, n, rank),
         Step \in [I -> [[I -> T] -> T]], Descends(I, T, rank, Step)
  PROVE  Defined(I, T, Step)
<1> PICK t \in T : TRUE
  OBVIOUS
<1>0. /\ n \in Nat /\ rank \in [I -> 0..n]
      /\ \A i \in I : \A f, g \in [I -> T] :
           (\A j \in I : rank[j] < rank[i] => f[j] = g[j]) => Step[i][f] = Step[i][g]
  BY DEF Ranked, Descends
<1> DEFINE Upto(f, m) == \A i \in I : rank[i] < m => f[i] = Step[i][f]
<1> DEFINE P == {m \in 0..(n + 1) : \E f \in [I -> T] : Upto(f, m)}
<1>1. 0 \in P
  <2> USE <1>0
  <2>1. [i \in I |-> t] \in [I -> T]
    OBVIOUS
  <2>2. Upto([i \in I |-> t], 0)
    OBVIOUS
  <2> QED
    BY <2>1, <2>2
<1>2. ASSUME NEW m \in 0..n, m \in P PROVE m + 1 \in P
  <2> USE <1>0
  <2>1. PICK f \in [I -> T] : Upto(f, m)
    BY <1>2
  <2> DEFINE g == [i \in I |-> IF rank[i] < m THEN f[i] ELSE Step[i][f]]
  <2>2. \A i \in I : Step[i][f] \in T
    OBVIOUS
  <2>3. g \in [I -> T]
    BY <2>2
  <2>4. \A i \in I : rank[i] < m + 1 => Step[i][f] = Step[i][g]
    <3> TAKE i \in I
    <3> HAVE rank[i] < m + 1
    <3>1. \A j \in I : rank[j] < rank[i] => rank[j] < m
      OBVIOUS
    <3>2. \A j \in I : rank[j] < m => f[j] = g[j]
      OBVIOUS
    <3> HIDE DEF g
    <3>3. \A j \in I : rank[j] < rank[i] => f[j] = g[j]
      BY <3>1, <3>2
    <3> QED
      BY <2>3, <3>3
  <2>5. \A i \in I : rank[i] < m + 1 => g[i] = Step[i][f]
    BY <2>1
  <2>6. Upto(g, m + 1)
    <3> HIDE DEF g
    <3> QED
      BY <2>4, <2>5
  <2>7. \E h \in [I -> T] : Upto(h, m + 1)
    <3> HIDE DEF g, Upto
    <3> QED
      BY <2>3, <2>6
  <2>8. m + 1 \in 0..(n + 1)
    OBVIOUS
  <2> QED
    BY <2>7, <2>8
<1>3. n + 1 \in P
  <2>1. n + 1 \in Nat /\ (n + 1) - 1 = n
    BY <1>0
  <2> HIDE DEF P
  <2>2. \A m \in 0..((n + 1) - 1) : m \in P => m + 1 \in P
    BY <1>2, <2>1
  <2>3. \A m \in 0..(n + 1) : m \in P
    BY <1>1, <2>1, <2>2, Induct
  <2> QED
    BY <2>1, <2>3
<1>4. PICK f \in [I -> T] : Upto(f, n + 1)
  BY <1>3
<1>5. \A i \in I : f[i] = Step[i][f]
  BY <1>0, <1>4
<1> QED
  BY <1>5 DEF Defined

-----------------------------------------------------------------------------
(* Sequences: where one occurs in another, its two ends, its elements. *)

\* The least of a nonempty set of numbers up to n.
LEMMA MinIs ==
  ASSUME NEW n \in Nat, NEW S, S \subseteq 0..n, S # {}
  PROVE  Min(S) \in S /\ \A y \in S : Min(S) <= y
BY LeastIn DEF Min

\* A function on 1..n is a sequence of length n.
LEMMA Sequence ==
  ASSUME NEW n \in Nat, NEW S, NEW f \in [1..n -> S]
  PROVE  f \in Seq(S) /\ Len(f) = n
OBVIOUS

\* Sequences of the same length and elements are equal.
LEMMA SameSequence ==
  ASSUME NEW S, NEW s \in Seq(S), NEW t \in Seq(S), Len(s) = Len(t), \A k \in 1..Len(s) : s[k] = t[k]
  PROVE  s = t
OBVIOUS

\* sub stands in s at i.
Stands(sub, s, i) == \A k \in 1..Len(sub) : s[i + k - 1] = sub[k]

\* Occurs finds the places at which sub stands.
LEMMA OccursIs ==
  ASSUME NEW S, NEW sub \in Seq(S), NEW s \in Seq(S), NEW from \in Nat \ {0}, NEW i \in Int
  PROVE  i \in Occurs(sub, s, from) <=>
           i \in from..(Len(s) - Len(sub) + 1) /\ Stands(sub, s, i)
<1> SUFFICES ASSUME i \in from..(Len(s) - Len(sub) + 1)
             PROVE  SubSeq(s, i, i + Len(sub) - 1) = sub <=> Stands(sub, s, i)
  BY DEF Occurs
<1> DEFINE t == SubSeq(s, i, i + Len(sub) - 1)
<1>1. t \in Seq(S) /\ Len(t) = Len(sub) /\ \A k \in 1..Len(sub) : t[k] = s[i + k - 1]
  OBVIOUS
<1> HIDE DEF t
<1>2. t = sub <=> \A k \in 1..Len(sub) : t[k] = sub[k]
  BY <1>1, SameSequence
<1> QED
  BY <1>1, <1>2 DEF Stands, t

\* The place where MatchOne goes on is the first one.
LEMMA FirstOccurrence ==
  ASSUME NEW S, NEW sub \in Seq(S), NEW s \in Seq(S), NEW from \in Nat \ {0}, Occurs(sub, s, from) # {}
  PROVE  /\ Min(Occurs(sub, s, from)) \in Occurs(sub, s, from)
         /\ \A i \in Occurs(sub, s, from) : Min(Occurs(sub, s, from)) <= i
<1>1. Occurs(sub, s, from) \subseteq 0..(Len(s) + 1)
  BY DEF Occurs
<1> QED
  BY <1>1, MinIs

\* A prefix stands at the beginning,
LEMMA PrefixIs ==
  ASSUME NEW S, NEW sub \in Seq(S), NEW s \in Seq(S)
  PROVE  IsPrefix(sub, s) <=> Len(sub) <= Len(s) /\ Stands(sub, s, 1)
<1> SUFFICES ASSUME Len(sub) <= Len(s)
             PROVE  SubSeq(sub, 1, Len(sub)) = SubSeq(s, 1, Len(sub)) <=> Stands(sub, s, 1)
  BY DEF IsPrefix
<1> DEFINE t == SubSeq(s, 1, Len(sub))
<1>1. t \in Seq(S) /\ Len(t) = Len(sub) /\ \A k \in 1..Len(sub) : t[k] = s[k]
  OBVIOUS
<1>2. SubSeq(sub, 1, Len(sub)) = sub
  OBVIOUS
<1> HIDE DEF t
<1>3. t = sub <=> \A k \in 1..Len(sub) : t[k] = sub[k]
  BY <1>1
<1>4. Stands(sub, s, 1) <=> \A k \in 1..Len(sub) : s[k] = sub[k]
  BY DEF Stands
<1> QED
  BY <1>1, <1>2, <1>3, <1>4 DEF t

\* Reverse, element by element.
LEMMA Reversed ==
  ASSUME NEW S, NEW s \in Seq(S)
  PROVE  /\ Reverse(s) \in Seq(S) /\ Len(Reverse(s)) = Len(s)
         /\ \A k \in 1..Len(s) : Reverse(s)[k] = s[Len(s) - k + 1]
<1>1. \A k \in 1..Len(s) : s[Len(s) - k + 1] \in S /\ Len(s) - k + 1 = (Len(s) - k) + 1
  OBVIOUS
<1> QED
  BY <1>1 DEF Reverse

\* and a suffix at the end.
LEMMA SuffixIs ==
  ASSUME NEW S, NEW sub \in Seq(S), NEW s \in Seq(S)
  PROVE  IsSuffix(sub, s) <=> Len(sub) <= Len(s) /\ Stands(sub, s, Len(s) - Len(sub) + 1)
<1>1. IsSuffix(sub, s) <=> Len(sub) <= Len(s) /\ Stands(Reverse(sub), Reverse(s), 1)
  BY PrefixIs, Reversed DEF IsSuffix
<1> SUFFICES ASSUME Len(sub) <= Len(s)
             PROVE  Stands(Reverse(sub), Reverse(s), 1) <=> Stands(sub, s, Len(s) - Len(sub) + 1)
  BY <1>1
<1> DEFINE m == Len(sub)  n == Len(s)
<1>2. Stands(Reverse(sub), Reverse(s), 1) <=> \A k \in 1..m : s[n - k + 1] = sub[m - k + 1]
  BY Reversed DEF Stands
<1>3. Stands(sub, s, n - m + 1) <=> \A k \in 1..m : s[n - m + k] = sub[k]
  BY DEF Stands
<1>4. m \in Nat /\ n \in Nat
  OBVIOUS
<1> HIDE DEF m, n
<1>5. ASSUME \A k \in 1..m : s[n - k + 1] = sub[m - k + 1], NEW k \in 1..m PROVE s[n - m + k] = sub[k]
  <2>1. m - k + 1 \in 1..m /\ n - (m - k + 1) + 1 = n - m + k /\ m - (m - k + 1) + 1 = k
    BY <1>4
  <2> QED
    BY <1>5, <2>1
<1>6. ASSUME \A k \in 1..m : s[n - m + k] = sub[k], NEW k \in 1..m PROVE s[n - k + 1] = sub[m - k + 1]
  <2>1. m - k + 1 \in 1..m /\ n - m + (m - k + 1) = n - k + 1
    BY <1>4
  <2> QED
    BY <1>6, <2>1
<1> QED
  BY <1>2, <1>3, <1>5, <1>6 DEF m, n

\* An element of a sequence is in the set the sequence is over.
LEMMA Element ==
  ASSUME NEW T, NEW q \in Seq(T), NEW k \in 1..Len(q)
  PROVE  q[k] \in T
OBVIOUS

\* A separator of one character occurs where the character is.
LEMMA OccursChar ==
  ASSUME NEW S, NEW c \in S, NEW s \in Seq(S), NEW from \in Nat \ {0}
  PROVE  Occurs(<<c>>, s, from) = {i \in from..Len(s) : s[i] = c}
<1>1. <<c>> \in Seq(S) /\ Len(<<c>>) = 1 /\ <<c>>[1] = c
  OBVIOUS
<1>2. ASSUME NEW i \in Int PROVE i \in Occurs(<<c>>, s, from) <=> i \in from..Len(s) /\ s[i] = c
  <2>1. i \in Occurs(<<c>>, s, from) <=> i \in from..(Len(s) - 1 + 1) /\ Stands(<<c>>, s, i)
    BY <1>1, OccursIs
  <2>2. Stands(<<c>>, s, i) <=> s[i] = c
    BY <1>1 DEF Stands
  <2> QED
    BY <2>1, <2>2
<1>3. Occurs(<<c>>, s, from) \subseteq Int
  BY DEF Occurs
<1> QED
  BY <1>2, <1>3

\* q are the pieces of s from i on, between one separator and the next, and at is
\* where each of them begins.
Parts(s, sep, i, q, at) ==
  /\ q # <<>> /\ at \in [1..Len(q) -> 1..(Len(s) + 1)] /\ at[1] = i
  /\ \A k \in 1..Len(q) :
       at[k] + Len(q[k]) <= Len(s) + 1 /\ q[k] = SubSeq(s, at[k], at[k] + Len(q[k]) - 1)
  /\ \A k \in 1..(Len(q) - 1) :
       /\ Occurs(sep, s, at[k]) # {} /\ at[k] + Len(q[k]) = Min(Occurs(sep, s, at[k]))
       /\ at[k + 1] = at[k] + Len(q[k]) + Len(sep)
  /\ Occurs(sep, s, at[Len(q)]) = {} /\ at[Len(q)] + Len(q[Len(q)]) = Len(s) + 1
PartsFrom(S, s, sep, i, q) == q \in Seq(Seq(S)) /\ \E at : Parts(s, sep, i, q, at)

\* Behind the last separator one piece is left.
LEMMA LastPart ==
  ASSUME NEW S, NEW sep \in Seq(S), NEW s \in Seq(S), NEW i \in 1..(Len(s) + 1), Occurs(sep, s, i) = {}
  PROVE  PartsFrom(S, s, sep, i, <<Drop(s, i - 1)>>)
<1> DEFINE d == Drop(s, i - 1)  q == <<d>>  at == [k \in 1..1 |-> i]
<1>1. d \in Seq(S) /\ Len(d) = Len(s) + 1 - i /\ d = SubSeq(s, i, i + Len(d) - 1)
  <2>1. d = SubSeq(s, i, Len(s))
    BY DEF Drop
  <2>2. SubSeq(s, i, Len(s)) \in Seq(S) /\ Len(SubSeq(s, i, Len(s))) = Len(s) + 1 - i
    OBVIOUS
  <2>3. i + (Len(s) + 1 - i) - 1 = Len(s)
    OBVIOUS
  <2> QED
    BY <2>1, <2>2, <2>3
<1> HIDE DEF d
<1>2. q \in Seq(Seq(S)) /\ Len(q) = 1 /\ q[1] = d /\ q # <<>>
  BY <1>1
<1>3. at \in [1..1 -> 1..(Len(s) + 1)] /\ at[1] = i
  OBVIOUS
<1> HIDE DEF q, at
<1>5. /\ at \in [1..Len(q) -> 1..(Len(s) + 1)]
      /\ at[Len(q)] + Len(q[Len(q)]) = Len(s) + 1
  BY <1>1, <1>2, <1>3
<1>6. \A k \in 1..Len(q) : at[k] + Len(q[k]) <= Len(s) + 1 /\ q[k] = SubSeq(s, at[k], at[k] + Len(q[k]) - 1)
  <2> TAKE k \in 1..Len(q)
  <2>1. k = 1 /\ q[k] = d /\ at[k] = i
    BY <1>2, <1>3
  <2> QED
    BY <1>1, <2>1
<1>7. 1..(Len(q) - 1) = {}
  BY <1>2
<1>8. Occurs(sep, s, at[Len(q)]) = {}
  BY <1>2, <1>3
<1>9. Parts(s, sep, i, q, at)
  BY <1>2, <1>3, <1>5, <1>6, <1>7, <1>8, Zenon DEF Parts
<1> QED
  BY <1>2, <1>9 DEF PartsFrom, q, d

\* A piece up to the next separator, before the pieces behind it.
LEMMA MoreParts ==
  ASSUME NEW S, NEW sep \in Seq(S), NEW s \in Seq(S), NEW i \in 1..(Len(s) + 1), NEW x \in i..Len(s),
         Occurs(sep, s, i) # {}, x = Min(Occurs(sep, s, i)), NEW q, PartsFrom(S, s, sep, x + Len(sep), q)
  PROVE  PartsFrom(S, s, sep, i, <<SubSeq(s, i, x - 1)>> \o q)
<1>0. PICK at : Parts(s, sep, x + Len(sep), q, at)
  BY DEF PartsFrom
<1> DEFINE d == SubSeq(s, i, x - 1)  r == <<d>> \o q
           bt == [k \in 1..(Len(q) + 1) |-> IF k = 1 THEN i ELSE at[k - 1]]
<1>1. d \in Seq(S) /\ Len(d) = x - i
  OBVIOUS
<1>a. d = SubSeq(s, i, i + Len(d) - 1)
  <2>1. i + (x - i) - 1 = x - 1
    OBVIOUS
  <2> QED
    BY <1>1, <2>1, Zenon
<1> HIDE DEF d
<1>2. /\ q \in Seq(Seq(S)) /\ q # <<>> /\ Len(q) \in Nat \ {0}
      /\ at \in [1..Len(q) -> 1..(Len(s) + 1)] /\ at[1] = x + Len(sep)
  BY <1>0 DEF Parts, PartsFrom
<1>3. /\ r \in Seq(Seq(S)) /\ Len(r) = Len(q) + 1 /\ r # <<>> /\ r[1] = d
      /\ \A k \in 1..Len(q) : r[k + 1] = q[k]
  BY <1>1, <1>2
<1>4. /\ bt \in [1..Len(r) -> 1..(Len(s) + 1)] /\ bt[1] = i
      /\ \A k \in 1..Len(q) : bt[k + 1] = at[k]
  BY <1>2, <1>3
<1> HIDE DEF r, bt
<1>6. ASSUME NEW k \in 1..Len(r)
      PROVE  bt[k] + Len(r[k]) <= Len(s) + 1 /\ r[k] = SubSeq(s, bt[k], bt[k] + Len(r[k]) - 1)
  <2>1. CASE k = 1
    <3>1. i + Len(d) <= Len(s) + 1
      BY <1>1
    <3> QED
      BY <1>a, <1>3, <1>4, <2>1, <3>1
  <2>2. CASE k # 1
    <3>1. k - 1 \in 1..Len(q) /\ (k - 1) + 1 = k
      BY <1>2, <1>3, <2>2
    <3>2. r[k] = q[k - 1] /\ bt[k] = at[k - 1]
      BY <1>3, <1>4, <3>1
    <3> QED
      BY <1>0, <3>1, <3>2 DEF Parts
  <2> QED
    BY <2>1, <2>2
<1>7. ASSUME NEW k \in 1..(Len(r) - 1)
      PROVE  /\ Occurs(sep, s, bt[k]) # {} /\ bt[k] + Len(r[k]) = Min(Occurs(sep, s, bt[k]))
             /\ bt[k + 1] = bt[k] + Len(r[k]) + Len(sep)
  <2>1. CASE k = 1
    <3>1. i + Len(d) = x /\ bt[1 + 1] = at[1]
      BY <1>1, <1>2, <1>4
    <3> QED
      BY <1>2, <1>3, <1>4, <2>1, <3>1
  <2>2. CASE k # 1
    <3>0. Len(q) \in Nat /\ k \in 1..Len(q)
      BY <1>2, <1>3
    <3>1. k - 1 \in 1..(Len(q) - 1) /\ k - 1 \in 1..Len(q) /\ k \in 1..Len(q) /\ (k - 1) + 1 = k
      BY <2>2, <3>0
    <3>2. r[k] = q[k - 1] /\ bt[k] = at[k - 1] /\ bt[k + 1] = at[k]
      BY <1>3, <1>4, <3>1
    <3>3. /\ Occurs(sep, s, at[k - 1]) # {} /\ at[k - 1] + Len(q[k - 1]) = Min(Occurs(sep, s, at[k - 1]))
          /\ at[(k - 1) + 1] = at[k - 1] + Len(q[k - 1]) + Len(sep)
      BY <1>0, <3>1 DEF Parts
    <3> QED
      BY <3>1, <3>2, <3>3
  <2> QED
    BY <2>1, <2>2
<1>8. Occurs(sep, s, bt[Len(r)]) = {} /\ bt[Len(r)] + Len(r[Len(r)]) = Len(s) + 1
  <2>1. r[Len(r)] = q[Len(q)] /\ bt[Len(r)] = at[Len(q)]
    BY <1>2, <1>3, <1>4
  <2> QED
    BY <1>0, <2>1 DEF Parts
<1>9. Parts(s, sep, i, r, bt)
  BY <1>3, <1>4, <1>6, <1>7, <1>8 DEF Parts
<1> QED
  BY <1>3, <1>9 DEF PartsFrom, r, d

\* SplitToCmd cuts a text at every separator and nowhere else: the pieces and the
\* separators between them are the text, from its first to its last place.
THEOREM PartsAre ==
  ASSUME NEW S, NEW sep \in Seq(S), sep # <<>>, NEW s \in Seq(S)
  PROVE  PartsFrom(S, s, sep, 1, SplitToCmd(s, sep))
<1> DEFINE I == 1..(Len(s) + 1)  T == Seq(Seq(S))
           Places(i) == Occurs(sep, s, i)
           body(f, i) == IF Places(i) = {} THEN <<Drop(s, i - 1)>>
                         ELSE <<SubSeq(s, i, Min(Places(i)) - 1)>> \o f[Min(Places(i)) + Len(sep)]
           rank == [i \in I |-> Len(s) + 1 - i]
           Step == [i \in I |-> [f \in [I -> T] |-> body(f, i)]]
           f == CHOOSE f : f = [i \in I |-> body(f, i)]
<1>1. ASSUME NEW i \in I, Places(i) # {}
      PROVE  Min(Places(i)) \in i..Len(s) /\ Min(Places(i)) + Len(sep) \in (i + 1)..(Len(s) + 1)
  <2>1. i \in Nat \ {0}
    OBVIOUS
  <2>2. Min(Places(i)) \in Places(i)
    BY <1>1, <2>1, FirstOccurrence
  <2>3. Min(Places(i)) \in i..(Len(s) - Len(sep) + 1)
    BY <2>2 DEF Occurs
  <2> HIDE DEF Places
  <2>4. Len(sep) \in Nat /\ Len(sep) >= 1 /\ Len(s) \in Nat
    OBVIOUS
  <2> QED
    BY <2>3, <2>4
<1>3. SplitToCmd(s, sep) = f[1]
  BY DEF SplitToCmd, Pieces
<1>4. \E g : g = [i \in I |-> body(g, i)]
  <2> HIDE DEF Places
  <2>1. ASSUME NEW i \in I, NEW g \in [I -> T] PROVE body(g, i) \in T
    <3>1. CASE Places(i) = {}
      <4>1. Drop(s, i - 1) \in Seq(S)
        BY DEF Drop
      <4> QED
        BY <3>1, <4>1
    <3>2. CASE Places(i) # {}
      <4>1. Min(Places(i)) \in i..Len(s) /\ g[Min(Places(i)) + Len(sep)] \in T
        BY <1>1, <3>2
      <4>2. SubSeq(s, i, Min(Places(i)) - 1) \in Seq(S)
        BY <4>1
      <4> QED
        BY <3>2, <4>1, <4>2
    <3> QED
      BY <3>1, <3>2
  <2>2. Step \in [I -> [[I -> T] -> T]] /\ T # {}
    <3>1. <<>> \in T
      OBVIOUS
    <3> QED
      BY <2>1, <3>1
  <2>3. Ranked(I, Len(s), rank)
    BY DEF Ranked
  <2>4. ASSUME NEW i \in I, NEW g \in [I -> T], NEW h \in [I -> T], \A j \in I : rank[j] < rank[i] => g[j] = h[j]
        PROVE  Step[i][g] = Step[i][h]
    <3>1. Step[i][g] = body(g, i) /\ Step[i][h] = body(h, i)
      OBVIOUS
    <3>2. CASE Places(i) # {}
      <4>1. Min(Places(i)) \in i..Len(s) /\ Min(Places(i)) + Len(sep) \in (i + 1)..(Len(s) + 1)
        BY <1>1, <3>2
      <4>0. Min(Places(i)) + Len(sep) \in I
        BY <4>1
      <4>2. rank[Min(Places(i)) + Len(sep)] < rank[i]
        BY <4>1
      <4> HIDE DEF I, T, rank, Step
      <4>3. g[Min(Places(i)) + Len(sep)] = h[Min(Places(i)) + Len(sep)]
        BY <2>4, <4>0, <4>2
      <4> QED
        BY <3>1, <3>2, <4>3
    <3>3. CASE Places(i) = {}
      BY <3>1, <3>3
    <3> QED
      BY <3>2, <3>3
  <2>5. Descends(I, T, rank, Step)
    <3> HIDE DEF I, T, rank, Step
    <3> QED
      BY <2>4 DEF Descends
  <2>8. Defined(I, T, Step)
    <3> HIDE DEF I, T, rank, Step
    <3> QED
      BY <2>2, <2>3, <2>5, Recursion
  <2>9. PICK g \in [I -> T] : \A i \in I : g[i] = Step[i][g]
    BY <2>8 DEF Defined
  <2>6. \A i \in I : g[i] = body(g, i)
    BY <2>9
  <2>7. g = [i \in I |-> body(g, i)]
    <3> HIDE DEF I, T, body
    <3> QED
      BY <2>6
  <2> QED
    BY <2>7
<1>5. f = [i \in I |-> body(f, i)]
  BY <1>4
<1>6. \A i \in I : f[i] = body(f, i)
  <2> HIDE DEF f, body, I
  <2> QED
    BY <1>5
<1> HIDE DEF f
<1>7. ASSUME NEW i \in I, Places(i) # {} => PartsFrom(S, s, sep, Min(Places(i)) + Len(sep), f[Min(Places(i)) + Len(sep)])
      PROVE  PartsFrom(S, s, sep, i, f[i])
  <2>1. CASE Places(i) = {}
    <3> HIDE DEF Places
    <3>1. f[i] = <<Drop(s, i - 1)>>
      BY <1>6, <2>1
    <3> QED
      BY <2>1, <3>1, LastPart DEF Places
  <2>2. CASE Places(i) # {}
    <3> DEFINE x == Min(Places(i))
    <3>1. x \in i..Len(s)
      BY <1>1, <2>2
    <3>2. f[i] = <<SubSeq(s, i, x - 1)>> \o f[x + Len(sep)]
      BY <1>6, <2>2
    <3>3. PartsFrom(S, s, sep, x + Len(sep), f[x + Len(sep)])
      BY <1>7, <2>2
    <3>4. Occurs(sep, s, i) # {} /\ x = Min(Occurs(sep, s, i))
      BY <2>2
    <3> HIDE DEF x, Places
    <3> QED
      BY <3>1, <3>2, <3>3, <3>4, MoreParts
  <2> QED
    BY <2>1, <2>2
<1>8. PartsFrom(S, s, sep, 1, f[1])
  <2> DEFINE P == {m \in 0..Len(s) : \A i \in (Len(s) + 1 - m)..(Len(s) + 1) : PartsFrom(S, s, sep, i, f[i])}
  <2>1. 0 \in P
    <3>1. Len(s) + 1 \in I /\ Len(s) \in Nat
      OBVIOUS
    <3>2. Places(Len(s) + 1) = {}
      BY <1>1, <3>1
    <3>3. PartsFrom(S, s, sep, Len(s) + 1, f[Len(s) + 1])
      BY <1>7, <3>1, <3>2
    <3> QED
      BY <3>1, <3>3
  <2>2. ASSUME NEW m \in 0..(Len(s) - 1), m \in P PROVE m + 1 \in P
    <3> DEFINE i == Len(s) + 1 - (m + 1)
    <3>1. i \in I /\ i + 1 = Len(s) + 1 - m /\ m + 1 \in 0..Len(s)
      OBVIOUS
    <3>2. Places(i) # {} => PartsFrom(S, s, sep, Min(Places(i)) + Len(sep), f[Min(Places(i)) + Len(sep)])
      <4> HAVE Places(i) # {}
      <4>1. Min(Places(i)) + Len(sep) \in (i + 1)..(Len(s) + 1)
        BY <1>1, <3>1
      <4>2. Min(Places(i)) + Len(sep) \in (Len(s) + 1 - m)..(Len(s) + 1)
        BY <3>1, <4>1
      <4> QED
        BY <2>2, <4>2
    <3>3. PartsFrom(S, s, sep, i, f[i])
      BY <1>7, <3>1, <3>2
    <3>4. \A j \in i..(Len(s) + 1) : j = i \/ j \in (Len(s) + 1 - m)..(Len(s) + 1)
      BY <3>1
    <3>5. \A j \in i..(Len(s) + 1) : PartsFrom(S, s, sep, j, f[j])
      BY <2>2, <3>3, <3>4
    <3> QED
      BY <3>1, <3>5
  <2>3. Len(s) \in Nat
    OBVIOUS
  <2>4. Len(s) \in P
    <3> HIDE DEF P
    <3>1. \A m \in 0..(Len(s) - 1) : m \in P => m + 1 \in P
      BY <2>2
    <3>2. \A m \in 0..Len(s) : m \in P
      BY <2>1, <2>3, <3>1, Induct, Zenon
    <3> QED
      BY <2>3, <3>2
  <2> QED
    BY <2>3, <2>4
<1> QED
  BY <1>3, <1>8


\* The same, character by character, for a separator of one character.
Cut(s, c, i, q, at) ==
  /\ q # <<>> /\ at \in [1..Len(q) -> 1..(Len(s) + 1)] /\ at[1] = i
  /\ \A k \in 1..Len(q) :
       /\ at[k] + Len(q[k]) <= Len(s) + 1
       /\ \A m \in 1..Len(q[k]) : q[k][m] = s[at[k] + m - 1] /\ q[k][m] # c
  /\ \A k \in 1..(Len(q) - 1) : s[at[k] + Len(q[k])] = c /\ at[k + 1] = at[k] + Len(q[k]) + 1
  /\ at[Len(q)] + Len(q[Len(q)]) = Len(s) + 1
CutFrom(S, s, c, i, q) == q \in Seq(Seq(S)) /\ \E at : Cut(s, c, i, q, at)

LEMMA PiecesAre ==
  ASSUME NEW S, NEW c \in S, NEW s \in Seq(S)
  PROVE  CutFrom(S, s, c, 1, SplitToCmd(s, <<c>>))
<1> DEFINE q == SplitToCmd(s, <<c>>)
<1>1. <<c>> \in Seq(S) /\ <<c>> # <<>> /\ Len(<<c>>) = 1
  OBVIOUS
<1>2. q \in Seq(Seq(S)) /\ \E at : Parts(s, <<c>>, 1, q, at)
  BY <1>1, PartsAre DEF PartsFrom
<1> HIDE DEF q
<1>3. PICK at : Parts(s, <<c>>, 1, q, at)
  BY <1>2
<1>4. q # <<>> /\ at \in [1..Len(q) -> 1..(Len(s) + 1)] /\ at[1] = 1
  BY <1>3 DEF Parts
<1>5. Len(q) \in Nat /\ Len(q) >= 1
  BY <1>2, <1>4
<1>6. ASSUME NEW k \in 1..Len(q)
      PROVE  at[k] \in Nat \ {0} /\ q[k] \in Seq(S) /\ at[k] + Len(q[k]) <= Len(s) + 1
             /\ Occurs(<<c>>, s, at[k]) = {i \in at[k]..Len(s) : s[i] = c}
  <2>1. at[k] \in Nat \ {0}
    BY <1>4
  <2>2. q[k] \in Seq(S)
    BY <1>2, Element
  <2>3. at[k] + Len(q[k]) <= Len(s) + 1
    BY <1>3 DEF Parts
  <2> QED
    BY <2>1, <2>2, <2>3, OccursChar
<1>7. ASSUME NEW k \in 1..(Len(q) - 1)
      PROVE  /\ s[at[k] + Len(q[k])] = c /\ at[k + 1] = at[k] + Len(q[k]) + 1
             /\ \A y \in at[k]..(at[k] + Len(q[k]) - 1) : s[y] # c
  <2>1. k \in 1..Len(q)
    BY <1>5
  <2>2. Occurs(<<c>>, s, at[k]) # {} /\ at[k] + Len(q[k]) = Min(Occurs(<<c>>, s, at[k]))
        /\ at[k + 1] = at[k] + Len(q[k]) + Len(<<c>>)
    BY <1>3 DEF Parts
  <2>3. Min(Occurs(<<c>>, s, at[k])) \in Occurs(<<c>>, s, at[k])
        /\ \A y \in Occurs(<<c>>, s, at[k]) : Min(Occurs(<<c>>, s, at[k])) <= y
    BY <1>1, <1>6, <2>1, <2>2, FirstOccurrence
  <2> DEFINE x == at[k] + Len(q[k])
  <2>4. x \in at[k]..Len(s) /\ s[x] = c /\ \A y \in at[k]..Len(s) : s[y] = c => x <= y
    BY <1>6, <2>1, <2>2, <2>3
  <2>5. at[k] \in Nat /\ Len(s) \in Nat
    BY <1>6, <2>1
  <2>7. at[k + 1] = x + 1
    BY <1>1, <2>2
  <2> HIDE DEF x
  <2>6. \A y \in at[k]..(x - 1) : s[y] # c
    BY <2>4, <2>5
  <2>8. s[x] = c /\ at[k + 1] = x + 1 /\ \A y \in at[k]..(x - 1) : s[y] # c
    BY <2>4, <2>6, <2>7
  <2>9. x = at[k] + Len(q[k])
    BY DEF x
  <2>10. Len(q[k]) \in Nat
    <3>1. q[k] \in Seq(S)
      BY <1>6, <2>1
    <3> QED
      BY <3>1
  <2> QED
    BY <2>5, <2>8, <2>9, <2>10
<1>8. at[Len(q)] + Len(q[Len(q)]) = Len(s) + 1 /\ \A y \in at[Len(q)]..Len(s) : s[y] # c
  <2>1. Len(q) \in 1..Len(q)
    BY <1>5
  <2>2. Occurs(<<c>>, s, at[Len(q)]) = {} /\ at[Len(q)] + Len(q[Len(q)]) = Len(s) + 1
    BY <1>3 DEF Parts
  <2> QED
    BY <1>6, <2>1, <2>2
<1>9. ASSUME NEW k \in 1..Len(q), NEW m \in 1..Len(q[k]) PROVE q[k][m] = s[at[k] + m - 1] /\ q[k][m] # c
  <2>1. at[k] \in Nat \ {0} /\ q[k] \in Seq(S) /\ at[k] + Len(q[k]) <= Len(s) + 1
    BY <1>6
  <2>2. q[k] = SubSeq(s, at[k], at[k] + Len(q[k]) - 1)
    BY <1>3 DEF Parts
  <2>3. q[k][m] = s[at[k] + m - 1]
    <3>1. at[k] + Len(q[k]) - 1 <= Len(s) /\ Len(q[k]) \in Nat
      BY <2>1
    <3> DEFINE a == at[k]  b == Len(q[k])
    <3>2. SubSeq(s, a, a + b - 1)[m] = s[a + m - 1]
      <4>1. a \in Nat \ {0} /\ b \in Nat /\ a + b - 1 <= Len(s) /\ m \in 1..b
        BY <2>1, <3>1
      <4> HIDE DEF a, b
      <4> QED
        BY <4>1
    <3> QED
      BY <2>2, <3>2
  <2>4. at[k] + m - 1 \in at[k]..(at[k] + Len(q[k]) - 1)
    BY <2>1
  <2>5. CASE k = Len(q)
    <3>1. at[k] + m - 1 \in at[k]..Len(s)
      BY <1>8, <2>1, <2>4, <2>5
    <3> QED
      BY <1>8, <2>3, <2>5, <3>1
  <2>6. CASE k # Len(q)
    <3>1. k \in 1..(Len(q) - 1)
      BY <1>5, <2>6
    <3> QED
      BY <1>7, <2>3, <2>4, <3>1
  <2> QED
    BY <2>5, <2>6
<1>10. Cut(s, c, 1, q, at)
  BY <1>4, <1>6, <1>7, <1>8, <1>9 DEF Cut
<1> QED
  BY <1>2, <1>10 DEF CutFrom, q

\* What MatchOne computes: u[n] is where the search goes on after n pieces.
Search(name, q, u) ==
  /\ u \in [0..Len(q) -> 0..(Len(name) + 1)] /\ u[0] = 1
  /\ \A n \in 1..Len(q) :
       u[n] = IF \/ n = 1 /\ ~IsPrefix(q[n], name)
                 \/ n = Len(q) /\ ~IsSuffix(q[n], name)
                 \/ u[n - 1] = 0 \/ Occurs(q[n], name, u[n - 1]) = {}
                THEN 0 ELSE Min(Occurs(q[n], name, u[n - 1])) + Len(q[n])

\* What is found lies in the name, and so does the place behind it.
LEMMA FoundWithin ==
  ASSUME NEW S, NEW sub \in Seq(S), NEW s \in Seq(S), NEW from \in Nat \ {0}, Occurs(sub, s, from) # {}
  PROVE  /\ Min(Occurs(sub, s, from)) \in from..(Len(s) - Len(sub) + 1)
         /\ Min(Occurs(sub, s, from)) + Len(sub) \in 1..(Len(s) + 1)
<1>1. Min(Occurs(sub, s, from)) \in Occurs(sub, s, from)
  BY FirstOccurrence
<1>2. Min(Occurs(sub, s, from)) \in from..(Len(s) - Len(sub) + 1)
  BY <1>1 DEF Occurs
<1> QED
  BY <1>2

\* MatchOne says yes when the search gets through all the pieces.
LEMMA MatchOneIs ==
  ASSUME NEW S, NEW name \in Seq(S), NEW rule, NEW q \in Seq(Seq(S)), q = SplitToCmd(rule, <<"*">>)
  PROVE  \E u : Search(name, q, u) /\ (MatchOne(name, rule) <=> u[Len(q)] # 0)
<1> DEFINE I == 0..Len(q)  T == 0..(Len(name) + 1)
           at(p, from) == IF from = 0 THEN {} ELSE FoundFrom(name, p, from)
           body(f, n) == IF n = 0 THEN 1
                         ELSE IF \/ n = 1 /\ ~IsPrefix(q[n], name)
                                 \/ n = Len(q) /\ ~IsSuffix(q[n], name)
                                 \/ at(q[n], f[n - 1]) = {}
                                THEN 0 ELSE Min(at(q[n], f[n - 1])) + Len(q[n])
           rank == [n \in I |-> n]
           Step == [n \in I |-> [f \in [I -> T] |-> body(f, n)]]
           u == CHOOSE f : f = [n \in I |-> body(f, n)]
<1>1. MatchOne(name, rule) <=> u[Len(q)] # 0
  BY DEF MatchOne
<1>2. ASSUME NEW p \in Seq(S), NEW from \in T, at(p, from) # {}
      PROVE  from # 0 /\ at(p, from) = Occurs(p, name, from) /\ Min(at(p, from)) + Len(p) \in T
  <2>1. from # 0 /\ at(p, from) = Occurs(p, name, from) /\ from \in Nat \ {0}
    BY <1>2 DEF FoundFrom
  <2>2. Occurs(p, name, from) # {}
    BY <1>2, <2>1
  <2>3. Min(Occurs(p, name, from)) + Len(p) \in 1..(Len(name) + 1)
    BY <2>1, <2>2, FoundWithin
  <2> QED
    BY <2>1, <2>3
<1>3. \A n \in 1..Len(q) : q[n] \in Seq(S)
  BY Element
<1>4. ASSUME NEW n \in I, n # 0, NEW f, f[n - 1] \in T PROVE body(f, n) \in T
  <2> HIDE DEF at
  <2>1. q[n] \in Seq(S)
    BY <1>3, <1>4
  <2>2. CASE at(q[n], f[n - 1]) = {}
    BY <1>4, <2>2
  <2>3. CASE at(q[n], f[n - 1]) # {}
    <3>1. Min(at(q[n], f[n - 1])) + Len(q[n]) \in T
      BY <1>2, <1>4, <2>1, <2>3
    <3>2. 0 \in T
      OBVIOUS
    <3> HIDE DEF T
    <3> QED
      BY <1>4, <3>1, <3>2
  <2> QED
    BY <2>2, <2>3
<1>5. ASSUME NEW f PROVE body(f, 0) = 1 /\ 1 \in T
  OBVIOUS
<1> HIDE DEF at
<1>6. \E g : g = [n \in I |-> body(g, n)]
  <2>1. ASSUME NEW n \in I, NEW f \in [I -> T] PROVE body(f, n) \in T
    <3>1. CASE n = 0
      BY <1>5, <3>1
    <3>2. CASE n # 0
      <4>1. n - 1 \in I
        BY <3>2
      <4>2. f[n - 1] \in T
        BY <4>1, Zenon
      <4> HIDE DEF body, T
      <4> QED
        BY <1>4, <3>2, <4>2
    <3> QED
      BY <3>1, <3>2
  <2>2. Step \in [I -> [[I -> T] -> T]] /\ T # {}
    <3> HIDE DEF body
    <3> QED
      BY <2>1, <1>5
  <2>3. Ranked(I, Len(q), rank)
    BY DEF Ranked
  <2>4. ASSUME NEW n \in I, NEW g \in [I -> T], NEW h \in [I -> T], \A j \in I : rank[j] < rank[n] => g[j] = h[j]
        PROVE  Step[n][g] = Step[n][h]
    <3>1. Step[n][g] = body(g, n) /\ Step[n][h] = body(h, n)
      OBVIOUS
    <3>2. CASE n # 0
      <4>1. n - 1 \in I /\ rank[n - 1] < rank[n]
        BY <3>2
      <4> HIDE DEF I, T, rank, Step
      <4>2. g[n - 1] = h[n - 1]
        BY <2>4, <4>1
      <4> QED
        BY <3>1, <4>2
    <3>3. CASE n = 0
      BY <3>1, <3>3
    <3> QED
      BY <3>2, <3>3
  <2>5. Descends(I, T, rank, Step)
    <3> HIDE DEF I, T, rank, Step
    <3> QED
      BY <2>4 DEF Descends
  <2>6. Defined(I, T, Step)
    <3> HIDE DEF I, T, rank, Step
    <3> QED
      BY <2>2, <2>3, <2>5, Recursion
  <2>7. PICK g \in [I -> T] : \A n \in I : g[n] = Step[n][g]
    BY <2>6 DEF Defined
  <2>8. \A n \in I : g[n] = body(g, n)
    BY <2>7
  <2>9. g = [n \in I |-> body(g, n)]
    <3> HIDE DEF I, T, body
    <3> QED
      BY <2>8
  <2> QED
    BY <2>9
<1>7. u = [n \in I |-> body(u, n)]
  BY <1>6
<1>8. \A n \in I : u[n] = body(u, n)
  <2> HIDE DEF u, body, I
  <2> QED
    BY <1>7
<1>9. u = [n \in I |-> u[n]]
  <2> HIDE DEF u, body, I
  <2> QED
    BY <1>7, <1>8
<1> HIDE DEF u
<1>10. \A n \in 0..Len(q) : u[n] \in T
  <2> DEFINE P == {n \in I : u[n] \in T}
  <2> HIDE DEF body
  <2>1. 0 \in P
    BY <1>5, <1>8
  <2>2. ASSUME NEW n \in 0..(Len(q) - 1), n \in P PROVE n + 1 \in P
    <3>1. n + 1 \in I /\ n + 1 # 0 /\ (n + 1) - 1 = n
      OBVIOUS
    <3>2. u[(n + 1) - 1] \in T
      BY <2>2, <3>1
    <3> HIDE DEF T, I
    <3>3. body(u, n + 1) \in T
      BY <1>4, <3>1, <3>2
    <3> QED
      BY <1>8, <3>1, <3>3
  <2>3. Len(q) \in Nat
    OBVIOUS
  <2>4. \A n \in 0..(Len(q) - 1) : n \in P => n + 1 \in P
    BY <2>2
  <2> HIDE DEF P
  <2>5. \A n \in 0..Len(q) : n \in P
    BY <2>1, <2>3, <2>4, Induct, Zenon
  <2> QED
    BY <2>5 DEF P
<1>11. u \in [0..Len(q) -> 0..(Len(name) + 1)]
  <2> HIDE DEF body
  <2> QED
    BY <1>9, <1>10
<1>12. u[0] = 1
  BY <1>5, <1>8
<1>13. ASSUME NEW n \in 1..Len(q)
       PROVE  u[n] = IF \/ n = 1 /\ ~IsPrefix(q[n], name)
                        \/ n = Len(q) /\ ~IsSuffix(q[n], name)
                        \/ u[n - 1] = 0 \/ Occurs(q[n], name, u[n - 1]) = {}
                       THEN 0 ELSE Min(Occurs(q[n], name, u[n - 1])) + Len(q[n])
  <2>0. n \in I /\ n # 0
    OBVIOUS
  <2>1. u[n] = body(u, n)
    BY <1>8, <2>0, Zenon
  <2>2. at(q[n], u[n - 1]) = IF u[n - 1] = 0 THEN {} ELSE Occurs(q[n], name, u[n - 1])
    BY DEF at, FoundFrom
  <2>3. u[n] = IF \/ n = 1 /\ ~IsPrefix(q[n], name)
                  \/ n = Len(q) /\ ~IsSuffix(q[n], name)
                  \/ at(q[n], u[n - 1]) = {}
                 THEN 0 ELSE Min(at(q[n], u[n - 1])) + Len(q[n])
    BY <2>0, <2>1
  <2> HIDE DEF at, body
  <2>4. CASE u[n - 1] = 0
    <3>1. at(q[n], u[n - 1]) = {}
      BY <2>2, <2>4
    <3> QED
      BY <2>3, <2>4, <3>1, Zenon
  <2>5. CASE u[n - 1] # 0
    <3>1. at(q[n], u[n - 1]) = Occurs(q[n], name, u[n - 1])
      BY <2>2, <2>5
    <3> QED
      BY <2>3, <2>5, <3>1, Zenon
  <2> QED
    BY <2>4, <2>5
<1>14. Search(name, q, u)
  <2> HIDE DEF body
  <2> QED
    BY <1>11, <1>12, <1>13 DEF Search
<1> QED
  BY <1>1, <1>14

-----------------------------------------------------------------------------
(* MatchStr takes the names its rule describes. *)

\* What Glob computes: t[j] are the places from which name matches what rule is from j on.
Tails(name, rule, t) ==
  /\ t \in [1..(Len(rule) + 1) -> SUBSET (1..(Len(name) + 1))]
  /\ t[Len(rule) + 1] = {Len(name) + 1}
  /\ \A j \in 1..Len(rule) :
       /\ rule[j] = "*" => t[j] = {i \in 1..(Len(name) + 1) : \E k \in t[j + 1] : i <= k}
       /\ rule[j] # "*" => t[j] = {i \in 1..Len(name) : name[i] = rule[j] /\ i + 1 \in t[j + 1]}

\* Glob says yes when the name matches from its beginning what the rule is from its.
LEMMA GlobIs ==
  ASSUME NEW S, NEW name \in Seq(S), NEW rule \in Seq(S)
  PROVE  \E t : Tails(name, rule, t) /\ (Glob(name, rule) <=> 1 \in t[1])
<1> DEFINE I == 1..(Len(rule) + 1)  T == SUBSET (1..(Len(name) + 1))
           body(f, j) == IF j > Len(rule) THEN {Len(name) + 1}
                         ELSE IF rule[j] = "*" THEN {i \in 1..(Len(name) + 1) : \E k \in f[j + 1] : i <= k}
                         ELSE {i \in DOMAIN name : name[i] = rule[j] /\ i + 1 \in f[j + 1]}
           rank == [j \in I |-> Len(rule) + 1 - j]
           Step == [j \in I |-> [f \in [I -> T] |-> body(f, j)]]
           t == CHOOSE f : f = [j \in I |-> body(f, j)]
<1>1. Glob(name, rule) <=> 1 \in t[1]
  BY DEF Glob
<1>2. Len(name) \in Nat /\ Len(rule) \in Nat /\ DOMAIN name = 1..Len(name)
  OBVIOUS
<1>3. ASSUME NEW f, NEW j \in I PROVE body(f, j) \in T
  <2>1. CASE j > Len(rule)
    BY <1>2, <2>1
  <2>2. CASE ~(j > Len(rule)) /\ rule[j] = "*"
    BY <2>2
  <2>3. CASE ~(j > Len(rule)) /\ rule[j] # "*"
    BY <1>2, <2>3
  <2> QED
    BY <2>1, <2>2, <2>3
<1>4. \E g : g = [j \in I |-> body(g, j)]
  <2>1. Step \in [I -> [[I -> T] -> T]] /\ T # {}
    <3> HIDE DEF body
    <3>1. {} \in T
      OBVIOUS
    <3> HIDE DEF T
    <3> QED
      BY <1>3, <3>1
  <2>2. Ranked(I, Len(rule), rank)
    BY <1>2 DEF Ranked
  <2>3. ASSUME NEW j \in I, NEW g \in [I -> T], NEW h \in [I -> T], \A k \in I : rank[k] < rank[j] => g[k] = h[k]
        PROVE  Step[j][g] = Step[j][h]
    <3>1. Step[j][g] = body(g, j) /\ Step[j][h] = body(h, j)
      OBVIOUS
    <3>2. CASE ~(j > Len(rule))
      <4>1. j + 1 \in I /\ rank[j + 1] < rank[j]
        BY <1>2, <3>2
      <4> HIDE DEF I, T, rank, Step
      <4>2. g[j + 1] = h[j + 1]
        BY <2>3, <4>1
      <4> QED
        BY <3>1, <4>2
    <3>3. CASE j > Len(rule)
      BY <3>1, <3>3
    <3> QED
      BY <3>2, <3>3
  <2>4. Descends(I, T, rank, Step)
    <3> HIDE DEF I, T, rank, Step
    <3> QED
      BY <2>3 DEF Descends
  <2>5. Defined(I, T, Step)
    <3> HIDE DEF I, T, rank, Step
    <3> QED
      BY <2>1, <2>2, <2>4, Recursion
  <2>6. PICK g \in [I -> T] : \A j \in I : g[j] = Step[j][g]
    BY <2>5 DEF Defined
  <2>7. \A j \in I : g[j] = body(g, j)
    BY <2>6
  <2>8. g = [j \in I |-> body(g, j)]
    <3> HIDE DEF I, T, body
    <3> QED
      BY <2>7
  <2> QED
    BY <2>8
<1>5. t = [j \in I |-> body(t, j)]
  BY <1>4
<1>6. \A j \in I : t[j] = body(t, j)
  <2> HIDE DEF t, body, I
  <2> QED
    BY <1>5
<1>7. t \in [I -> T]
  <2> HIDE DEF t, body, I, T
  <2>1. t = [j \in I |-> t[j]]
    BY <1>5, <1>6
  <2> QED
    BY <1>3, <1>6, <2>1
<1> HIDE DEF t
<1>8. t[Len(rule) + 1] = {Len(name) + 1}
  <2>1. Len(rule) + 1 \in I /\ Len(rule) + 1 > Len(rule)
    BY <1>2
  <2> QED
    BY <1>6, <2>1
<1>9. ASSUME NEW j \in 1..Len(rule)
      PROVE  /\ rule[j] = "*" => t[j] = {i \in 1..(Len(name) + 1) : \E k \in t[j + 1] : i <= k}
             /\ rule[j] # "*" => t[j] = {i \in 1..Len(name) : name[i] = rule[j] /\ i + 1 \in t[j + 1]}
  <2>1. j \in I /\ ~(j > Len(rule))
    OBVIOUS
  <2>2. t[j] = body(t, j)
    BY <1>6, <2>1
  <2> QED
    BY <1>2, <2>1, <2>2
<1>10. Tails(name, rule, t)
  BY <1>7, <1>8, <1>9 DEF Tails
<1> QED
  BY <1>1, <1>10

\* At an asterisk the name may go on later.
LEMMA Earlier ==
  ASSUME NEW S, NEW name \in Seq(S), NEW rule \in Seq(S), NEW t, Tails(name, rule, t),
         NEW j \in 1..Len(rule), rule[j] = "*", NEW i \in 1..(Len(name) + 1)
  PROVE  i \in t[j] <=> \E k \in t[j + 1] : i <= k
<1>1. t[j] = {x \in 1..(Len(name) + 1) : \E k \in t[j + 1] : x <= k}
  BY DEF Tails
<1> QED
  BY <1>1

\* The rule has the piece p, without asterisks, at j.
PlainAt(p, rule, j) ==
  j + Len(p) <= Len(rule) + 1 /\ \A m \in 1..Len(p) : p[m] = rule[j + m - 1] /\ p[m] # "*"

\* A piece without asterisks stands in the name and the rest follows it.
LEMMA PieceThenTail ==
  ASSUME NEW S, NEW name \in Seq(S), NEW rule \in Seq(S), NEW t, Tails(name, rule, t),
         NEW p \in Seq(S), NEW j \in 1..(Len(rule) + 1), PlainAt(p, rule, j),
         NEW i \in 1..(Len(name) + 1)
  PROVE  i \in t[j] <=> i \in Occurs(p, name, 1) /\ i + Len(p) \in t[j + Len(p)]
<1> DEFINE n == Len(p)  e == j + n
           Rest(m, x) == /\ x + m \in t[e]
                         /\ \A y \in 1..m : name[x + y - 1] = p[n - m + y]
           P == {m \in 0..n : \A x \in 1..(Len(name) + 1) : x \in t[e - m] <=> Rest(m, x)}
<1>0. j + Len(p) <= Len(rule) + 1 /\ \A m \in 1..Len(p) : p[m] = rule[j + m - 1] /\ p[m] # "*"
  BY DEF PlainAt
<1>1. n \in Nat /\ e \in 1..(Len(rule) + 1) /\ Len(name) \in Nat /\ Len(rule) \in Nat
  BY <1>0
<1>2. \A k \in 1..(Len(rule) + 1) : \A x \in t[k] : x \in 1..(Len(name) + 1)
  BY DEF Tails
<1>3. 0 \in P
  BY <1>1
<1>4. ASSUME NEW m \in 0..(n - 1), m \in P PROVE m + 1 \in P
  <2> DEFINE k == e - (m + 1)
  <2>1. /\ k \in 1..Len(rule) /\ k + 1 = e - m /\ n - m \in 1..n /\ k = j + (n - m) - 1
        /\ m + 1 \in 0..n
    BY <1>1
  <2>2. rule[k] = p[n - m] /\ rule[k] # "*"
    BY <1>0, <2>1
  <2>3. t[k] = {x \in 1..Len(name) : name[x] = rule[k] /\ x + 1 \in t[k + 1]}
    BY <2>1, <2>2 DEF Tails
  <2>4. ASSUME NEW x \in 1..(Len(name) + 1) PROVE x \in t[k] <=> Rest(m + 1, x)
    <3>1. ASSUME x \in t[k] PROVE Rest(m + 1, x)
      <4>1. x \in 1..Len(name) /\ name[x] = p[n - m] /\ x + 1 \in t[e - m] /\ x + 1 \in 1..(Len(name) + 1)
        BY <2>1, <2>2, <2>3, <3>1
      <4>2. Rest(m, x + 1)
        BY <1>4, <4>1
      <4>3. x + (m + 1) \in t[e]
        BY <4>2
      <4>4. ASSUME NEW y \in 1..(m + 1) PROVE name[x + y - 1] = p[n - (m + 1) + y]
        <5>1. CASE y = 1
          <6>1. x + y - 1 = x /\ n - (m + 1) + y = n - m
            BY <1>1, <5>1
          <6> QED
            BY <4>1, <6>1
        <5>2. CASE y # 1
          <6>1. y - 1 \in 1..m /\ (x + 1) + (y - 1) - 1 = x + y - 1 /\ n - m + (y - 1) = n - (m + 1) + y
            BY <1>1, <5>2
          <6>2. name[(x + 1) + (y - 1) - 1] = p[n - m + (y - 1)]
            BY <4>2, <6>1
          <6> QED
            BY <6>1, <6>2
        <5> QED
          BY <5>1, <5>2
      <4> QED
        BY <4>3, <4>4
    <3>2. ASSUME Rest(m + 1, x) PROVE x \in t[k]
      <4>1. x + (m + 1) \in 1..(Len(name) + 1)
        BY <1>1, <1>2, <3>2
      <4>2. x \in 1..Len(name) /\ x + 1 \in 1..(Len(name) + 1) /\ (x + 1) + m = x + (m + 1)
        BY <4>1
      <4>3. name[x] = p[n - m]
        <5>1. 1 \in 1..(m + 1) /\ x + 1 - 1 = x /\ n - (m + 1) + 1 = n - m
          BY <1>1
        <5> QED
          BY <3>2, <5>1
      <4>4. ASSUME NEW y \in 1..m PROVE name[(x + 1) + y - 1] = p[n - m + y]
        <5>1. y + 1 \in 1..(m + 1) /\ (x + 1) + y - 1 = x + (y + 1) - 1 /\ n - (m + 1) + (y + 1) = n - m + y
          BY <1>1
        <5>2. name[x + (y + 1) - 1] = p[n - (m + 1) + (y + 1)]
          BY <3>2, <5>1
        <5> QED
          BY <5>1, <5>2
      <4>5. Rest(m, x + 1)
        BY <3>2, <4>2, <4>4
      <4>6. x + 1 \in t[e - m]
        BY <1>4, <4>2, <4>5
      <4> QED
        BY <2>1, <2>2, <2>3, <4>2, <4>3, <4>6
    <3> QED
      BY <3>1, <3>2
  <2> QED
    BY <2>1, <2>4
<1>5. n \in P
  <2>1. \A m \in 0..(n - 1) : m \in P => m + 1 \in P
    BY <1>4
  <2> HIDE DEF P, n
  <2>2. \A m \in 0..n : m \in P
    BY <1>1, <1>3, <2>1, Induct, Zenon
  <2> QED
    BY <1>1, <2>2
<1>6. i \in t[j] <=> Rest(n, i)
  <2>1. e - n = j
    BY <1>1
  <2> QED
    BY <1>5, <2>1
<1>7. Rest(n, i) <=> i + n \in t[e] /\ Stands(p, name, i)
  <2>1. \A y \in 1..n : n - n + y = y
    BY <1>1
  <2> QED
    BY <2>1 DEF Stands
<1>8. i + n \in t[e] => i \in 1..(Len(name) - n + 1)
  BY <1>1, <1>2
<1>9. i \in Occurs(p, name, 1) <=> i \in 1..(Len(name) - n + 1) /\ Stands(p, name, i)
  BY OccursIs
<1> QED
  BY <1>6, <1>7, <1>8, <1>9

\* The n-th piece of a rule is plain; an asterisk follows it, or the end of the rule.
PieceAt(S, rule, q, at, n) ==
  /\ q[n] \in Seq(S) /\ at[n] \in 1..(Len(rule) + 1) /\ PlainAt(q[n], rule, at[n])
  /\ at[n] + Len(q[n]) \in 1..(Len(rule) + 1)
  /\ n < Len(q) => /\ at[n] + Len(q[n]) \in 1..Len(rule) /\ rule[at[n] + Len(q[n])] = "*"
                   /\ at[n + 1] = at[n] + Len(q[n]) + 1
  /\ n = Len(q) => at[n] + Len(q[n]) = Len(rule) + 1

\* Every piece is one.
LEMMA PiecesPlain ==
  ASSUME NEW S, NEW rule \in Seq(S), NEW q \in Seq(Seq(S)), NEW at, Cut(rule, "*", 1, q, at), NEW n \in 1..Len(q)
  PROVE  PieceAt(S, rule, q, at, n)
<1>1. q[n] \in Seq(S)
  BY Element
<1>2. at[n] \in 1..(Len(rule) + 1) /\ Len(q[n]) \in Nat /\ at[n] + Len(q[n]) <= Len(rule) + 1
  BY <1>1 DEF Cut
<1>3. \A m \in 1..Len(q[n]) : q[n][m] = rule[at[n] + m - 1] /\ q[n][m] # "*"
  BY DEF Cut
<1>4. ASSUME n < Len(q)
      PROVE  /\ at[n] + Len(q[n]) \in 1..Len(rule) /\ rule[at[n] + Len(q[n])] = "*"
             /\ at[n + 1] = at[n] + Len(q[n]) + 1
  <2>1. n \in 1..(Len(q) - 1) /\ n + 1 \in 1..Len(q)
    BY <1>4
  <2>2. rule[at[n] + Len(q[n])] = "*" /\ at[n + 1] = at[n] + Len(q[n]) + 1
    BY <2>1 DEF Cut
  <2>3. at[n + 1] \in 1..(Len(rule) + 1)
    BY <2>1 DEF Cut
  <2> QED
    BY <1>2, <2>2, <2>3
<1>5. n = Len(q) => at[n] + Len(q[n]) = Len(rule) + 1
  BY DEF Cut
<1>6. PlainAt(q[n], rule, at[n])
  BY <1>2, <1>3 DEF PlainAt
<1> QED
  BY <1>1, <1>2, <1>4, <1>5, <1>6 DEF PieceAt

\* The name matches exactly when the search has got through the first n pieces and the
\* rest of the rule matches from there: the first place found is never worse than a later one.
Got(u, t, q, at, n) == u[n] # 0 /\ u[n] \in t[at[n] + Len(q[n])]

\* The first piece has to stand at the beginning of the name, so its first place is there.
LEMMA FirstPiece ==
  ASSUME NEW S, NEW name \in Seq(S), NEW rule \in Seq(S), NEW q \in Seq(Seq(S)), NEW at, NEW u, NEW t,
         Cut(rule, "*", 1, q, at), Search(name, q, u), Tails(name, rule, t), Len(q) > 1
  PROVE  1 \in t[1] <=> Got(u, t, q, at, 1)
<1> DEFINE p == q[1]  found == Occurs(p, name, 1)
<1>0. Len(q) \in Nat /\ Len(name) \in Nat
  OBVIOUS
<1>1. 1 \in 1..Len(q) /\ 1 # Len(q) /\ 1 - 1 = 0 /\ Len(name) \in Nat /\ 1 \in 1..(Len(name) + 1)
  <2>1. \A n \in Nat : n > 1 => 1 \in 1..n /\ 1 # n
    OBVIOUS
  <2>2. \A n \in Nat : 1 \in 1..(n + 1)
    OBVIOUS
  <2>3. 1 - 1 = 0
    OBVIOUS
  <2> QED
    BY <1>0, <2>1, <2>2, <2>3, Zenon
<1>2. p \in Seq(S) /\ 1 + Len(p) \in 1..(Len(rule) + 1) /\ at[1] = 1 /\ PlainAt(p, rule, 1)
  <2>1. at[1] = 1
    BY DEF Cut
  <2>2. PieceAt(S, rule, q, at, 1)
    BY <1>1, PiecesPlain
  <2> QED
    BY <2>1, <2>2 DEF PieceAt
<1> HIDE DEF p
<1>3. 1 \in t[1] <=> 1 \in found /\ 1 + Len(p) \in t[1 + Len(p)]
  <2>1. 1 \in 1..(Len(rule) + 1)
    BY <1>2
  <2> QED
    BY <1>1, <1>2, <2>1, PieceThenTail
<1>4. IsPrefix(p, name) <=> 1 \in found
  <2>1. 1 \in found <=> 1 \in 1..(Len(name) - Len(p) + 1) /\ Stands(p, name, 1)
    BY <1>2, OccursIs
  <2>2. 1 \in 1..(Len(name) - Len(p) + 1) <=> Len(p) <= Len(name)
    BY <1>1, <1>2
  <2> QED
    BY <1>2, <2>1, <2>2, PrefixIs
<1>5. u[1] = IF ~IsPrefix(p, name) \/ found = {} THEN 0 ELSE Min(found) + Len(p)
  <2>1. u[0] = 1 /\ u[1 - 1] = 1
    BY <1>1 DEF Search
  <2>2. u[1] = IF \/ 1 = 1 /\ ~IsPrefix(p, name)
                  \/ 1 = Len(q) /\ ~IsSuffix(p, name)
                  \/ u[1 - 1] = 0 \/ Occurs(p, name, u[1 - 1]) = {}
                 THEN 0 ELSE Min(Occurs(p, name, u[1 - 1])) + Len(p)
    BY <1>1 DEF Search, p
  <2> QED
    BY <1>1, <2>1, <2>2
<1>6. CASE 1 \in found
  <2>1. found # {}
    BY <1>6
  <2>2. Min(found) \in found /\ \A i \in found : Min(found) <= i
    BY <1>2, <2>1, FirstOccurrence
  <2>3. Min(found) = 1
    <3>1. Min(found) \in 1..(Len(name) - Len(p) + 1)
      BY <2>2 DEF Occurs
    <3> QED
      BY <1>6, <2>2, <3>1
  <2> HIDE DEF found
  <2>4. u[1] = 1 + Len(p) /\ u[1] # 0
    BY <1>2, <1>4, <1>5, <1>6, <2>1, <2>3
  <2> QED
    BY <1>2, <1>3, <1>6, <2>4 DEF Got, p
<1>7. CASE 1 \notin found
  <2>1. u[1] = 0
    BY <1>4, <1>5, <1>7
  <2> QED
    BY <1>3, <1>7, <2>1 DEF Got
<1> QED
  BY <1>6, <1>7

\* Behind an asterisk: the rest of the rule matches from i exactly when the next piece
\* is found somewhere from i on and what comes after it matches there.
LEMMA StarThenPiece ==
  ASSUME NEW S, NEW name \in Seq(S), NEW rule \in Seq(S), NEW q \in Seq(Seq(S)), NEW at, NEW t,
         Cut(rule, "*", 1, q, at), Tails(name, rule, t), NEW n \in 1..(Len(q) - 1), NEW i \in 1..(Len(name) + 1)
  PROVE  i \in t[at[n] + Len(q[n])] <=>
           \E k \in Occurs(q[n + 1], name, i) : k + Len(q[n + 1]) \in t[at[n + 1] + Len(q[n + 1])]
<1> DEFINE e == at[n] + Len(q[n])  p == q[n + 1]
<1>1. n \in 1..Len(q) /\ n < Len(q) /\ n + 1 \in 1..Len(q)
  OBVIOUS
<1>2. e \in 1..Len(rule) /\ rule[e] = "*" /\ at[n + 1] = e + 1
  BY <1>1, PiecesPlain DEF PieceAt
<1>3. /\ p \in Seq(S) /\ at[n + 1] \in 1..(Len(rule) + 1) /\ at[n + 1] + Len(p) \in 1..(Len(rule) + 1)
      /\ PlainAt(p, rule, at[n + 1])
  <2>1. PieceAt(S, rule, q, at, n + 1)
    BY <1>1, PiecesPlain
  <2> QED
    BY <2>1 DEF PieceAt
<1> HIDE DEF e, p
<1>4. i \in t[e] <=> \E k \in t[e + 1] : i <= k
  BY <1>2, Earlier
<1>5. \A k \in t[e + 1] : k \in 1..(Len(name) + 1)
  <2>1. e + 1 \in 1..(Len(rule) + 1)
    BY <1>2
  <2> QED
    BY <2>1 DEF Tails
<1>6. \A k \in 1..(Len(name) + 1) :
        k \in t[at[n + 1]] <=> k \in Occurs(p, name, 1) /\ k + Len(p) \in t[at[n + 1] + Len(p)]
  BY <1>3, PieceThenTail
<1>7. \A k \in Int : k \in Occurs(p, name, i) <=> k \in Occurs(p, name, 1) /\ i <= k
  BY DEF Occurs
<1>8. \A k \in Occurs(p, name, i) : k \in 1..(Len(name) + 1)
  BY <1>3 DEF Occurs
<1>9. i \in t[e] <=> \E k \in Occurs(p, name, i) : k + Len(p) \in t[at[n + 1] + Len(p)]
  <2>1. ASSUME NEW k \in t[e + 1], i <= k
        PROVE  k \in Occurs(p, name, i) /\ k + Len(p) \in t[at[n + 1] + Len(p)]
    <3>1. k \in 1..(Len(name) + 1) /\ k \in Int
      BY <1>5
    <3> QED
      BY <1>2, <1>6, <1>7, <2>1, <3>1
  <2>2. ASSUME NEW k \in Occurs(p, name, i), k + Len(p) \in t[at[n + 1] + Len(p)]
        PROVE  k \in t[e + 1] /\ i <= k
    <3>1. k \in 1..(Len(name) + 1) /\ k \in Int
      BY <1>8
    <3> QED
      BY <1>2, <1>6, <1>7, <2>2, <3>1
  <2> QED
    BY <1>4, <2>1, <2>2
<1> QED
  BY <1>9 DEF e, p

\* A piece between two asterisks is taken at its first place: what follows could only go on later.
LEMMA NextPiece ==
  ASSUME NEW S, NEW name \in Seq(S), NEW rule \in Seq(S), NEW q \in Seq(Seq(S)), NEW at, NEW u, NEW t,
         Cut(rule, "*", 1, q, at), Search(name, q, u), Tails(name, rule, t),
         NEW n \in 1..(Len(q) - 1), n + 1 < Len(q)
  PROVE  Got(u, t, q, at, n) <=> Got(u, t, q, at, n + 1)
<1> DEFINE p == q[n + 1]  e == at[n + 1] + Len(p)  found == Occurs(p, name, u[n])
<1>1. /\ n + 1 \in 1..Len(q) /\ n \in 0..Len(q) /\ n + 1 # 1 /\ n + 1 # Len(q) /\ (n + 1) - 1 = n
      /\ n + 1 \in 1..(Len(q) - 1) /\ Len(name) \in Nat
  OBVIOUS
<1>2. u[n] \in 0..(Len(name) + 1)
  BY <1>1 DEF Search
<1>3. u[n + 1] = IF u[n] = 0 \/ found = {} THEN 0 ELSE Min(found) + Len(p)
  <2>1. u[n + 1] = IF \/ n + 1 = 1 /\ ~IsPrefix(p, name)
                      \/ n + 1 = Len(q) /\ ~IsSuffix(p, name)
                      \/ u[(n + 1) - 1] = 0 \/ Occurs(p, name, u[(n + 1) - 1]) = {}
                     THEN 0 ELSE Min(Occurs(p, name, u[(n + 1) - 1])) + Len(p)
    BY <1>1 DEF Search
  <2> HIDE DEF p
  <2> QED
    BY <1>1, <2>1
<1>4. p \in Seq(S) /\ e \in 1..Len(rule) /\ rule[e] = "*"
  <2>1. PieceAt(S, rule, q, at, n + 1)
    BY <1>1, PiecesPlain
  <2> QED
    BY <1>1, <2>1 DEF PieceAt
<1>5. CASE u[n] = 0
  BY <1>3, <1>5 DEF Got
<1>6. CASE u[n] # 0
  <2>0. u[n] \in 1..(Len(name) + 1) /\ u[n] \in Nat \ {0}
    BY <1>2, <1>6
  <2>1. Got(u, t, q, at, n) <=> \E k \in found : k + Len(p) \in t[e]
    BY <1>6, <2>0, StarThenPiece DEF Got
  <2> HIDE DEF p, e, found
  <2>2. CASE found = {}
    <3>1. u[n + 1] = 0
      BY <1>3, <2>2
    <3> QED
      BY <2>1, <2>2, <3>1 DEF Got
  <2>3. CASE found # {}
    <3> DEFINE x == Min(found)
    <3>1. x \in found /\ (\A i \in found : x <= i) /\ x + Len(p) \in 1..(Len(name) + 1)
      BY <1>4, <2>0, <2>3, FirstOccurrence, FoundWithin DEF found
    <3>2. \A k \in found : k + Len(p) \in 1..(Len(name) + 1)
      <4> TAKE k \in found
      <4>1. k \in u[n]..(Len(name) - Len(p) + 1)
        BY DEF found, Occurs
      <4>2. Len(p) \in Nat
        BY <1>4
      <4> QED
        BY <1>1, <2>0, <4>1, <4>2
    <3>3. ASSUME NEW k \in found, k + Len(p) \in t[e] PROVE x + Len(p) \in t[e]
      <4>0. k + Len(p) \in t[e] <=> \E y \in t[e + 1] : k + Len(p) <= y
        <5>1. k + Len(p) \in 1..(Len(name) + 1)
          BY <3>2
        <5> HIDE DEF x
        <5> QED
          BY <1>4, <5>1, Earlier
      <4>1. PICK y \in t[e + 1] : k + Len(p) <= y
        BY <3>3, <4>0
      <4>2. y \in 1..(Len(name) + 1)
        <5>1. e + 1 \in 1..(Len(rule) + 1)
          BY <1>4
        <5> QED
          BY <5>1 DEF Tails
      <4>3. x + Len(p) <= y
        <5>1. x \in Int /\ k \in Int
          BY <3>1 DEF found, Occurs
        <5> QED
          BY <1>4, <3>1, <4>1, <4>2, <5>1
      <4> QED
        BY <1>4, <3>1, <4>1, <4>3, Earlier
    <3>4. u[n + 1] = x + Len(p) /\ u[n + 1] # 0
      BY <1>3, <1>6, <2>3, <3>1
    <3> HIDE DEF x
    <3>5. (\E k \in found : k + Len(p) \in t[e]) <=> x + Len(p) \in t[e]
      BY <3>1, <3>3
    <3> QED
      BY <2>1, <3>4, <3>5 DEF Got, e, p
  <2> QED
    BY <2>2, <2>3
<1> QED
  BY <1>5, <1>6

\* The last piece has to stand at the end of the name, where it is found when it is found at all.
LEMMA FinalPiece ==
  ASSUME NEW S, NEW name \in Seq(S), NEW rule \in Seq(S), NEW q \in Seq(Seq(S)), NEW at, NEW u, NEW t,
         Cut(rule, "*", 1, q, at), Search(name, q, u), Tails(name, rule, t), NEW n \in Nat, n = Len(q) - 1, n >= 1
  PROVE  Got(u, t, q, at, n) <=> u[Len(q)] # 0
<1> DEFINE p == q[n + 1]  found == Occurs(p, name, u[n])  x == Len(name) - Len(p) + 1
<1>1. /\ n \in 1..(Len(q) - 1) /\ n + 1 = Len(q) /\ n + 1 # 1 /\ (n + 1) - 1 = n /\ n \in 0..Len(q)
      /\ n + 1 \in 1..Len(q) /\ Len(name) \in Nat
  OBVIOUS
<1>2. u[n] \in 0..(Len(name) + 1)
  BY <1>1 DEF Search
<1>3. u[n + 1] = IF ~IsSuffix(p, name) \/ u[n] = 0 \/ found = {} THEN 0 ELSE Min(found) + Len(p)
  <2>1. u[n + 1] = IF \/ n + 1 = 1 /\ ~IsPrefix(p, name)
                      \/ n + 1 = Len(q) /\ ~IsSuffix(p, name)
                      \/ u[(n + 1) - 1] = 0 \/ Occurs(p, name, u[(n + 1) - 1]) = {}
                     THEN 0 ELSE Min(Occurs(p, name, u[(n + 1) - 1])) + Len(p)
    BY <1>1 DEF Search
  <2> HIDE DEF p
  <2> QED
    BY <1>1, <2>1
<1>4. p \in Seq(S) /\ at[n + 1] + Len(p) = Len(rule) + 1
  <2>1. PieceAt(S, rule, q, at, n + 1)
    BY <1>1, PiecesPlain
  <2> QED
    BY <1>1, <2>1 DEF PieceAt
<1>5. t[at[n + 1] + Len(p)] = {Len(name) + 1}
  BY <1>4 DEF Tails
<1>6. CASE u[n] = 0
  BY <1>1, <1>3, <1>6 DEF Got
<1>7. CASE u[n] # 0
  <2>0. u[n] \in 1..(Len(name) + 1) /\ u[n] \in Nat \ {0}
    BY <1>2, <1>7
  <2>1. Got(u, t, q, at, n) <=> \E k \in found : k + Len(p) \in t[at[n + 1] + Len(p)]
    BY <1>1, <1>7, <2>0, StarThenPiece DEF Got
  <2> HIDE DEF p, found
  <2>2. \A k \in Int : k \in found <=> k \in u[n]..x /\ Stands(p, name, k)
    BY <1>4, <2>0, OccursIs DEF found
  <2>3. found \subseteq Int
    BY DEF found, Occurs
  <2>4. x \in Int /\ x + Len(p) = Len(name) + 1 /\ \A k \in Int : k + Len(p) = Len(name) + 1 => k = x
    BY <1>1, <1>4
  <2>5. Got(u, t, q, at, n) <=> x \in found
    BY <1>5, <2>1, <2>3, <2>4
  <2>6. IsSuffix(p, name) <=> Len(p) <= Len(name) /\ Stands(p, name, x)
    BY <1>4, SuffixIs
  <2>7. x \in found <=> IsSuffix(p, name) /\ found # {}
    <3>1. ASSUME x \in found PROVE IsSuffix(p, name) /\ found # {}
      <4>1. x >= 1 /\ Stands(p, name, x)
        BY <2>0, <2>2, <2>4, <3>1
      <4> QED
        BY <1>1, <1>4, <2>6, <3>1, <4>1
    <3>2. ASSUME IsSuffix(p, name), NEW k \in found PROVE x \in found
      <4>1. k \in u[n]..x
        BY <2>2, <2>3
      <4>2. x \in u[n]..x
        BY <2>0, <2>4, <4>1
      <4> QED
        BY <2>2, <2>4, <2>6, <3>2, <4>2
    <3> QED
      BY <3>1, <3>2
  <2>8. found # {} => Min(found) + Len(p) \in 1..(Len(name) + 1)
    BY <1>4, <2>0, FoundWithin DEF found
  <2>9. u[n + 1] # 0 <=> IsSuffix(p, name) /\ found # {}
    BY <1>3, <1>7, <2>8
  <2> QED
    BY <1>1, <2>5, <2>7, <2>9
<1> QED
  BY <1>6, <1>7

\* A rule with an asterisk takes exactly the names it describes.
THEOREM MatchOneIsGlob ==
  ASSUME NEW S, "*" \in S, NEW name \in Seq(S), NEW rule \in Seq(S), "*" \in Range(rule)
  PROVE  MatchOne(name, rule) <=> Glob(name, rule)
<1> DEFINE q == SplitToCmd(rule, <<"*">>)
<1>1. q \in Seq(Seq(S)) /\ \E at : Cut(rule, "*", 1, q, at)
  BY PiecesAre DEF CutFrom
<1> HIDE DEF q
<1>2. PICK at : Cut(rule, "*", 1, q, at)
  BY <1>1
<1>3. PICK u : Search(name, q, u) /\ (MatchOne(name, rule) <=> u[Len(q)] # 0)
  BY <1>1, MatchOneIs DEF q
<1>4. PICK t : Tails(name, rule, t) /\ (Glob(name, rule) <=> 1 \in t[1])
  BY GlobIs
<1>5. Len(q) \in Nat /\ Len(q) > 1
  <2>1. Len(q) \in Nat /\ q # <<>>
    BY <1>1, <1>2 DEF Cut
  <2>2. Len(q) # 0
    BY <1>1, <2>1
  <2>3. ASSUME Len(q) = 1 PROVE FALSE
    <3>1. PICK m \in 1..Len(rule) : rule[m] = "*"
      BY DEF Range
    <3>2. 1 \in 1..Len(q) /\ at[1] = 1 /\ at[1] + Len(q[1]) = Len(rule) + 1
      BY <1>2, <2>3 DEF Cut
    <3>3. q[1] \in Seq(S) /\ Len(q[1]) \in Nat
      BY <1>1, <3>2, Element
    <3>4. m \in 1..Len(q[1]) /\ 1 + m - 1 = m
      BY <3>2, <3>3
    <3>5. q[1][m] = rule[1 + m - 1] /\ q[1][m] # "*"
      BY <1>2, <3>2, <3>4 DEF Cut
    <3> QED
      BY <3>1, <3>4, <3>5
  <2>4. \A n \in Nat : n # 0 /\ n # 1 => n > 1
    OBVIOUS
  <2> QED
    BY <2>1, <2>2, <2>3, <2>4, Zenon
<1>6. 1 \in t[1] <=> Got(u, t, q, at, Len(q) - 1)
  <2> DEFINE P == {m \in 0..(Len(q) - 2) : 1 \in t[1] <=> Got(u, t, q, at, m + 1)}
  <2>1. 0 \in P
    <3>1. 0 \in 0..(Len(q) - 2) /\ 0 + 1 = 1
      BY <1>5
    <3>2. 1 \in t[1] <=> Got(u, t, q, at, 1)
      BY <1>1, <1>2, <1>3, <1>4, <1>5, FirstPiece
    <3> QED
      BY <3>1, <3>2
  <2>2. ASSUME NEW m \in 0..((Len(q) - 2) - 1), m \in P PROVE m + 1 \in P
    <3>1. m + 1 \in 1..(Len(q) - 1) /\ (m + 1) + 1 < Len(q) /\ m + 1 \in 0..(Len(q) - 2)
      BY <1>5
    <3>2. Got(u, t, q, at, m + 1) <=> Got(u, t, q, at, (m + 1) + 1)
      BY <1>1, <1>2, <1>3, <1>4, <3>1, NextPiece
    <3> QED
      BY <2>2, <3>1, <3>2
  <2>3. Len(q) - 2 \in Nat /\ (Len(q) - 2) + 1 = Len(q) - 1
    BY <1>5
  <2>4. \A m \in 0..((Len(q) - 2) - 1) : m \in P => m + 1 \in P
    BY <2>2
  <2> HIDE DEF P
  <2>5. \A m \in 0..(Len(q) - 2) : m \in P
    BY <2>1, <2>3, <2>4, Induct, Zenon
  <2>6. Len(q) - 2 \in P
    BY <2>3, <2>5
  <2> QED
    BY <2>3, <2>6 DEF P
<1>7. Got(u, t, q, at, Len(q) - 1) <=> u[Len(q)] # 0
  <2>1. Len(q) - 1 \in Nat /\ Len(q) - 1 >= 1
    BY <1>5
  <2> QED
    BY <1>1, <1>2, <1>3, <1>4, <2>1, FinalPiece
<1> QED
  BY <1>3, <1>4, <1>6, <1>7

\* The characters of names and rules.
Chars == STRING \cup {",", "*"} \cup Range(Upper)

\* What is in a sequence is at one of its places.
LEMMA Elements ==
  ASSUME NEW T, NEW q \in Seq(T)
  PROVE  /\ Len(q) \in Nat /\ Range(q) \subseteq T /\ (q # <<>> => Len(q) >= 1)
         /\ \A k \in 1..Len(q) : q[k] \in Range(q)
         /\ \A r \in Range(q) : \E k \in 1..Len(q) : r = q[k]
BY DEF Range

\* Only the empty sequence has length 0.
LEMMA Length ==
  ASSUME NEW T, NEW s \in Seq(T)
  PROVE  Len(s) \in Nat /\ (s = <<>> <=> Len(s) = 0)
OBVIOUS

\* ToUpper exchanges characters one by one,
LEMMA UpperCase ==
  ASSUME NEW s \in Seq(STRING)
  PROVE  ToUpper(s) \in Seq(Chars) /\ Len(ToUpper(s)) = Len(s)
<1> DEFINE up(c) == IF c \in DOMAIN Upper THEN Upper[c] ELSE c
<1>1. ToUpper(s) = [i \in 1..Len(s) |-> up(s[i])] /\ Len(s) \in Nat
  BY DEF ToUpper
<1>2. ASSUME NEW i \in 1..Len(s) PROVE up(s[i]) \in Chars
  <2>1. s[i] \in STRING
    BY Element
  <2>2. s[i] \in DOMAIN Upper => Upper[s[i]] \in Range(Upper)
    BY DEF Range
  <2> QED
    BY <2>1, <2>2, Zenon DEF Chars
<1> HIDE DEF up
<1>3. [i \in 1..Len(s) |-> up(s[i])] \in [1..Len(s) -> Chars]
  BY <1>2
<1> QED
  BY <1>1, <1>3, Sequence

\* and leaves an asterisk alone.
LEMMA UpperStar ==
  ToUpper(<<"*">>) \in Seq(Chars) /\ Len(ToUpper(<<"*">>)) = 1 /\ ToUpper(<<"*">>)[1] = "*"
<1>1. "*" \notin DOMAIN Upper
  BY DEF Upper
<1>2. DOMAIN <<"*">> = 1..1 /\ <<"*">>[1] = "*"
  OBVIOUS
<1>3. ToUpper(<<"*">>) = [i \in 1..1 |-> IF <<"*">>[i] \in DOMAIN Upper THEN Upper[<<"*">>[i]] ELSE <<"*">>[i]]
  BY <1>2 DEF ToUpper
<1>4. \A i \in 1..1 : i = 1
  OBVIOUS
<1> DEFINE f == [i \in 1..1 |-> "*"]
<1>5. ToUpper(<<"*">>) = f
  BY <1>1, <1>2, <1>3, <1>4
<1>6. "*" \in Chars
  BY DEF Chars
<1>7. f \in [1..1 -> Chars] /\ 1 \in Nat
  BY <1>6
<1>8. f \in Seq(Chars) /\ Len(f) = 1
  BY <1>7, Sequence
<1>9. 1 \in 1..1 /\ f[1] = "*"
  OBVIOUS
<1> HIDE DEF f
<1> QED
  BY <1>5, <1>8, <1>9

\* The one rule "*" is one piece, and it describes every name.
LEMMA StarAlone ==
  ASSUME NEW name \in Seq(Chars), NEW rule \in Seq(Chars), Len(rule) = 1, rule[1] = "*"
  PROVE  \E r \in Range(SplitToCmd(rule, <<",">>)) : r # <<>> /\ "*" \in Range(r) /\ Glob(name, r)
<1> DEFINE q == SplitToCmd(rule, <<",">>)
<1>1. "," \in Chars /\ "*" \in Chars /\ "," # "*"
  BY DEF Chars
<1>2. q \in Seq(Seq(Chars)) /\ \E at : Cut(rule, ",", 1, q, at)
  BY <1>1, PiecesAre DEF CutFrom
<1> HIDE DEF q
<1>3. PICK at : Cut(rule, ",", 1, q, at)
  BY <1>2
<1>4. Len(q) \in Nat /\ Len(q) >= 1
  <2>1. q # <<>>
    BY <1>3 DEF Cut
  <2> QED
    BY <1>2, <2>1, Elements
<1>5. 1 \in 1..Len(q) /\ at[1] = 1
  <2>1. \A n \in Nat : n >= 1 => 1 \in 1..n
    OBVIOUS
  <2>2. at[1] = 1
    BY <1>3 DEF Cut
  <2> QED
    BY <1>4, <2>1, <2>2
<1>6. q[1] \in Seq(Chars) /\ Len(q[1]) \in Nat /\ Len(q[1]) <= 1
  <2>1. q[1] \in Seq(Chars)
    BY <1>2, <1>5, Element
  <2>2. at[1] + Len(q[1]) <= Len(rule) + 1
    BY <1>3, <1>5 DEF Cut
  <2> QED
    BY <1>5, <2>1, <2>2
<1>7. Len(q) = 1
  <2>0. \A n \in Nat : n >= 1 => n = 1 \/ n > 1
    OBVIOUS
  <2>1. SUFFICES ASSUME Len(q) > 1 PROVE FALSE
    BY <1>4, <2>0
  <2>2. 1 \in 1..(Len(q) - 1) /\ 1 + 1 \in 1..Len(q)
    BY <1>4, <2>1
  <2>3. rule[1 + Len(q[1])] = "," /\ at[1 + 1] = 1 + Len(q[1]) + 1 /\ at[1 + 1] \in 1..2
    <3>1. at[1 + 1] \in 1..(Len(rule) + 1)
      BY <1>3, <2>2 DEF Cut
    <3>2. rule[at[1] + Len(q[1])] = "," /\ at[1 + 1] = at[1] + Len(q[1]) + 1
      BY <1>3, <2>2 DEF Cut
    <3>3. Len(rule) + 1 = 2
      OBVIOUS
    <3> QED
      BY <1>5, <3>1, <3>2, <3>3, Zenon
  <2>4. Len(q[1]) = 0
    <3>1. \A n \in Nat : 1 + n + 1 \in 1..2 => n = 0
      OBVIOUS
    <3> QED
      BY <1>6, <2>3, <3>1, Zenon
  <2>5. 1 + 0 = 1
    OBVIOUS
  <2> QED
    BY <1>1, <2>3, <2>4, <2>5, Zenon
<1>8. Len(q[1]) = 1
  <2>1. at[Len(q)] + Len(q[Len(q)]) = Len(rule) + 1
    BY <1>3 DEF Cut
  <2> QED
    BY <1>5, <1>6, <1>7, <2>1
<1>9. q[1][1] = "*"
  <2>1. 1 \in 1..Len(q[1]) /\ 1 + 1 - 1 = 1
    BY <1>8
  <2>2. q[1][1] = rule[1 + 1 - 1]
    BY <1>3, <1>5, <2>1 DEF Cut
  <2> QED
    BY <2>1, <2>2
<1>10. PICK t : Tails(name, q[1], t) /\ (Glob(name, q[1]) <=> 1 \in t[1])
  BY <1>6, GlobIs
<1>11. 1 \in t[1]
  <2>1. 1 \in 1..Len(q[1]) /\ 1 + 1 = 2 /\ Len(q[1]) + 1 = 2
    BY <1>8
  <2>2. Len(name) \in Nat /\ 1 \in 1..(Len(name) + 1) /\ 1 <= Len(name) + 1
    OBVIOUS
  <2>3. t[2] = {Len(name) + 1}
    BY <1>10, <2>1 DEF Tails
  <2>4. \E k \in t[2] : 1 <= k
    BY <2>2, <2>3
  <2> QED
    BY <1>6, <1>9, <1>10, <2>1, <2>2, <2>4, Earlier
<1>12. q[1] # <<>> /\ q[1] \in Range(q)
  <2>1. q[1] \in Range(q)
    BY <1>2, <1>5, Elements, Zenon
  <2>2. 1 # 0
    OBVIOUS
  <2> QED
    BY <1>6, <1>8, <2>1, <2>2, Length, Zenon
<1>13. "*" \in Range(q[1])
  <2>1. 1 \in 1..Len(q[1])
    BY <1>8
  <2>2. q[1][1] \in Range(q[1])
    BY <1>6, <2>1, Elements, Zenon
  <2> QED
    BY <1>9, <2>2, Zenon
<1> QED
  BY <1>10, <1>11, <1>12, <1>13 DEF q

\* A piece that ends where it begins is empty.
LEMMA NoRoom ==
  ASSUME NEW n \in Nat, NEW m \in 1..(0 + 1), m + n <= 0 + 1
  PROVE  n = 0
OBVIOUS

\* An empty list of rules describes nothing.
LEMMA NoRules ==
  ASSUME NEW rule \in Seq(Chars), Len(rule) = 0, NEW q \in Seq(Seq(Chars)), NEW at, Cut(rule, ",", 1, q, at),
         NEW r \in Range(q)
  PROVE  r = <<>>
<1>1. PICK k \in 1..Len(q) : r = q[k]
  BY Elements, Zenon
<1>2. r \in Seq(Chars)
  BY <1>1, Element
<1>3. at[k] \in 1..(Len(rule) + 1) /\ at[k] + Len(r) <= Len(rule) + 1
  BY <1>1 DEF Cut
<1>4. Len(r) \in Nat
  BY <1>2, Length, Zenon
<1>5. Len(r) = 0
  BY <1>3, <1>4, NoRoom, Zenon
<1> QED
  BY <1>2, <1>5, Length, Zenon

\* A rule without an asterisk is one piece.
LEMMA PlainRule ==
  ASSUME NEW S, "*" \in S, NEW name \in Seq(S), NEW rule \in Seq(S), "*" \notin Range(rule)
  PROVE  MatchOne(name, rule) <=> IsPrefix(rule, name) /\ IsSuffix(rule, name)
<1> DEFINE q == SplitToCmd(rule, <<"*">>)
<1>1. q \in Seq(Seq(S)) /\ \E at : Cut(rule, "*", 1, q, at)
  BY PiecesAre DEF CutFrom
<1>2. PICK u : Search(name, q, u) /\ (MatchOne(name, rule) <=> u[Len(q)] # 0)
  BY <1>1, MatchOneIs
<1> HIDE DEF q
<1>3. PICK at : Cut(rule, "*", 1, q, at)
  BY <1>1
<1>4. Len(q) \in Nat /\ Len(q) >= 1
  <2>1. q # <<>>
    BY <1>3 DEF Cut
  <2> QED
    BY <1>1, <2>1, Elements
<1>5. \A j \in 1..Len(rule) : rule[j] # "*"
  BY Elements, Zenon
<1>6. Len(q) = 1
  <2>0. \A n \in Nat : n >= 1 => n = 1 \/ (1 \in 1..(n - 1) /\ 1 \in 1..n)
    OBVIOUS
  <2>1. SUFFICES ASSUME 1 \in 1..(Len(q) - 1), 1 \in 1..Len(q) PROVE FALSE
    BY <1>4, <2>0
  <2>2. 1 < Len(q)
    BY <1>4, <2>1
  <2>3. PieceAt(S, rule, q, at, 1)
    BY <1>1, <1>3, <2>1, PiecesPlain
  <2> QED
    BY <1>5, <2>2, <2>3 DEF PieceAt
<1>7. 1 \in 1..Len(q) /\ 1 - 1 = 0
  BY <1>6
<1>8. q[1] = rule
  <2>1. q[1] \in Seq(S)
    BY <1>1, <1>7, Element
  <2>2. at[1] = 1 /\ at[1] + Len(q[1]) = Len(rule) + 1
    BY <1>3, <1>6 DEF Cut
  <2>3. Len(q[1]) \in Nat /\ Len(rule) \in Nat
    BY <2>1, Length, Zenon
  <2>4. Len(q[1]) = Len(rule)
    BY <2>2, <2>3
  <2>5. ASSUME NEW m \in 1..Len(q[1]) PROVE q[1][m] = rule[m]
    <3>1. q[1][m] = rule[at[1] + m - 1]
      BY <1>3, <1>7 DEF Cut
    <3>2. 1 + m - 1 = m
      BY <2>3
    <3> QED
      BY <2>2, <3>1, <3>2
  <2> QED
    BY <2>1, <2>4, <2>5, SameSequence
<1>9. u[1] = IF ~IsPrefix(rule, name) \/ ~IsSuffix(rule, name) \/ Occurs(rule, name, 1) = {}
               THEN 0 ELSE Min(Occurs(rule, name, 1)) + Len(rule)
  <2>1. u[1] = IF \/ 1 = 1 /\ ~IsPrefix(q[1], name)
                  \/ 1 = Len(q) /\ ~IsSuffix(q[1], name)
                  \/ u[1 - 1] = 0 \/ Occurs(q[1], name, u[1 - 1]) = {}
                 THEN 0 ELSE Min(Occurs(q[1], name, u[1 - 1])) + Len(q[1])
    BY <1>2, <1>7 DEF Search
  <2>2. u[0] = 1 /\ 1 # 0
    BY <1>2 DEF Search
  <2> QED
    BY <1>6, <1>7, <1>8, <2>1, <2>2
<1>10. IsPrefix(rule, name) => Occurs(rule, name, 1) # {}
  <2>1. 1 \in Occurs(rule, name, 1) <=> 1 \in 1..(Len(name) - Len(rule) + 1) /\ Stands(rule, name, 1)
    BY OccursIs
  <2>2. Len(rule) <= Len(name) => 1 \in 1..(Len(name) - Len(rule) + 1)
    OBVIOUS
  <2>3. IsPrefix(rule, name) => 1 \in Occurs(rule, name, 1)
    BY <2>1, <2>2, PrefixIs DEF Stands
  <2> QED
    BY <2>3
<1>11. Occurs(rule, name, 1) # {} => Min(Occurs(rule, name, 1)) + Len(rule) # 0
  <2>1. 1 \in Nat \ {0}
    OBVIOUS
  <2>2. \A n \in 1..(Len(name) + 1) : n # 0
    OBVIOUS
  <2> QED
    BY <2>1, <2>2, FoundWithin, Zenon
<1> QED
  BY <1>2, <1>6, <1>9, <1>10, <1>11

\* MatchStr, for every list of rules.
LEMMA MatchIsGlob ==
  ASSUME NEW str \in Seq(STRING), NEW rules \in Seq(STRING)
  PROVE  MatchStr(str, rules) <=>
           \E r \in Range(SplitToCmd(ToUpper(rules), <<",">>)) \ {<<>>} : Describes(r, ToUpper(str))
<1> DEFINE name == ToUpper(str)  rule == ToUpper(rules)  R == Range(SplitToCmd(rule, <<",">>))
<1>1. name \in Seq(Chars) /\ rule \in Seq(Chars) /\ Len(rule) = Len(rules)
  BY UpperCase
<1>2. MatchStr(str, rules) <=>
        rules # <<>> /\ (rules = <<"*">> \/ \E r \in R : r # <<>> /\ MatchOne(name, r))
  BY DEF MatchStr
<1>3. R \subseteq Seq(Chars)
  <2> DEFINE q == SplitToCmd(rule, <<",">>)
  <2>1. "," \in Chars
    BY DEF Chars
  <2>2. q \in Seq(Seq(Chars))
    BY <1>1, <2>1, PiecesAre DEF CutFrom
  <2> HIDE DEF q
  <2>3. Range(q) \subseteq Seq(Chars)
    BY <2>2, Elements, Zenon
  <2> QED
    BY <2>3 DEF q
<1>5. rules = <<"*">> => \E r \in R : r # <<>> /\ Describes(r, name)
  <2> HAVE rules = <<"*">>
  <2>1. Len(rule) = 1 /\ rule[1] = "*"
    BY UpperStar
  <2>2. \E r \in R : r # <<>> /\ "*" \in Range(r) /\ Glob(name, r)
    BY <1>1, <2>1, StarAlone
  <2> QED
    BY <2>2 DEF Describes
<1>6. rules = <<>> => \A r \in R : r = <<>>
  <2> HAVE rules = <<>>
  <2> DEFINE q == SplitToCmd(rule, <<",">>)
  <2>1. Len(rule) = 0
    BY <1>1
  <2>2. "," \in Chars
    BY DEF Chars
  <2>3. q \in Seq(Seq(Chars)) /\ \E at : Cut(rule, ",", 1, q, at)
    BY <1>1, <2>2, PiecesAre DEF CutFrom
  <2> HIDE DEF q
  <2>4. \A r \in Range(q) : r = <<>>
    BY <1>1, <2>1, <2>3, NoRules
  <2> QED
    BY <2>4 DEF q
<1> HIDE DEF name, rule, R
<1>7. ASSUME NEW r \in R, r # <<>> PROVE MatchOne(name, r) <=> Describes(r, name)
  <2>1. "*" \in Chars
    BY DEF Chars
  <2>2. r \in Seq(Chars)
    BY <1>3
  <2> QED
    BY <1>1, <2>1, <2>2, MatchOneIsGlob, PlainRule DEF Describes
<1>8. MatchStr(str, rules) <=> \E r \in R \ {<<>>} : Describes(r, name)
  BY <1>2, <1>5, <1>6, <1>7
<1> QED
  BY <1>8 DEF R, name, rule

\* The names MatchStr takes are those its rules describe, for every set of inputs.
THEOREM MatchCorrect == Spec => []MatchMeansGlob
<1> DEFINE Given == input = [of |-> "nothing"] \/ input \in Inputs
<1>1. Init => Given
  BY DEF Init
<1>2. Given /\ [Next]_input => Given'
  BY DEF Next, Apply
<1>3. Given => MatchMeansGlob
  <2> SUFFICES ASSUME Given, input.of = "match"
               PROVE  MatchStr(input.name, input.rules) <=>
                        \E r \in Range(SplitToCmd(ToUpper(input.rules), <<",">>)) \ {<<>>} :
                          Describes(r, ToUpper(input.name))
    BY DEF MatchMeansGlob
  <2>1. input \in Inputs
    <3>1. [of |-> "nothing"].of # "match"
      OBVIOUS
    <3> QED
      BY <3>1
  <2>2. input.name \in Seq(STRING) /\ input.rules \in Seq(STRING)
    BY <2>1, InputsAssumption
  <2> QED
    BY <2>2, MatchIsGlob
<1> QED
  BY <1>1, <1>2, <1>3, PTL DEF Spec

-----------------------------------------------------------------------------
(* Functions over 0..n that go from one value to the next. *)

Iterate(n, T, b, Step, f) ==
  f \in [0..n -> T] /\ f[0] = b /\ \A m \in 1..n : f[m] = Step[m][f[m - 1]]

\* They exist,
LEMMA Iterates ==
  ASSUME NEW n \in Nat, NEW T, NEW b \in T, NEW Step \in [1..n -> [T -> T]]
  PROVE  \E f : Iterate(n, T, b, Step, f)
<1> DEFINE Upto(f, k) == f[0] = b /\ \A m \in 1..k : f[m] = Step[m][f[m - 1]]
           P == {k \in 0..n : \E f \in [0..n -> T] : Upto(f, k)}
<1>1. 0 \in P
  <2> DEFINE f == [m \in 0..n |-> b]
  <2>1. f \in [0..n -> T] /\ Upto(f, 0) /\ 0 \in 0..n
    OBVIOUS
  <2> HIDE DEF f, Upto
  <2> QED
    BY <2>1
<1>2. ASSUME NEW k \in 0..(n - 1), k \in P PROVE k + 1 \in P
  <2>1. PICK f \in [0..n -> T] : Upto(f, k)
    BY <1>2
  <2> DEFINE g == [m \in 0..n |-> IF m = k + 1 THEN Step[k + 1][f[k]] ELSE f[m]]
  <2>2. k \in 0..n /\ k + 1 \in 1..n /\ k + 1 \in 0..n /\ 0 \in 0..n /\ 0 # k + 1
    OBVIOUS
  <2>3. Step[k + 1][f[k]] \in T
    BY <2>2
  <2>4. g \in [0..n -> T]
    BY <2>3
  <2>5. g[0] = b
    BY <2>1, <2>2
  <2>6. ASSUME NEW m \in 1..(k + 1) PROVE g[m] = Step[m][g[m - 1]]
    <3>1. m \in 0..n /\ m - 1 \in 0..n /\ m - 1 # k + 1
      BY <2>2
    <3>2. g[m - 1] = f[m - 1]
      BY <3>1
    <3>3. CASE m = k + 1
      <4>1. m - 1 = k
        BY <3>3
      <4>2. g[m] = Step[k + 1][f[k]]
        BY <3>1, <3>3
      <4> HIDE DEF g
      <4> QED
        BY <3>2, <3>3, <4>1, <4>2
    <3>4. CASE m # k + 1
      <4>1. g[m] = f[m]
        BY <3>1, <3>4
      <4>2. m \in 1..k
        BY <3>4
      <4> HIDE DEF g
      <4> QED
        BY <2>1, <3>2, <4>1, <4>2
    <3> QED
      BY <3>3, <3>4
  <2>7. Upto(g, k + 1)
    <3> HIDE DEF g
    <3> QED
      BY <2>5, <2>6
  <2> HIDE DEF g, Upto
  <2> QED
    BY <2>2, <2>4, <2>7
<1>3. \A k \in 0..(n - 1) : k \in P => k + 1 \in P
  BY <1>2
<1> HIDE DEF P
<1>4. \A k \in 0..n : k \in P
  BY <1>1, <1>3, Induct, Zenon
<1>5. n \in P
  BY <1>4
<1> QED
  BY <1>5 DEF P, Iterate

\* and any function with these steps has these values.
LEMMA Iterated ==
  ASSUME NEW n \in Nat, NEW T, NEW u, u[0] \in T, \A m \in 1..n : u[m - 1] \in T => u[m] \in T
  PROVE  \A m \in 0..n : u[m] \in T
<1> DEFINE P == {m \in 0..n : u[m] \in T}
<1>1. 0 \in P
  OBVIOUS
<1>2. ASSUME NEW m \in 0..(n - 1), m \in P PROVE m + 1 \in P
  <2>1. m + 1 \in 1..n /\ (m + 1) - 1 = m /\ m + 1 \in 0..n
    OBVIOUS
  <2>2. u[(m + 1) - 1] \in T
    BY <1>2, <2>1
  <2> QED
    BY <2>1, <2>2
<1>3. \A m \in 0..(n - 1) : m \in P => m + 1 \in P
  BY <1>2
<1> HIDE DEF P
<1>4. \A m \in 0..n : m \in P
  BY <1>1, <1>3, Induct, Zenon
<1> QED
  BY <1>4 DEF P

-----------------------------------------------------------------------------
(* Putting sequences together. *)

LEMMA Concat ==
  ASSUME NEW S, NEW s \in Seq(S), NEW t \in Seq(S)
  PROVE  /\ s \o t \in Seq(S) /\ Len(s \o t) = Len(s) + Len(t)
         /\ \A k \in 1..Len(s) : (s \o t)[k] = s[k]
         /\ \A k \in 1..Len(t) : (s \o t)[Len(s) + k] = t[k]
OBVIOUS

LEMMA ConcatEmpty ==
  ASSUME NEW S, NEW s \in Seq(S)
  PROVE  <<>> \o s = s /\ s \o <<>> = s
OBVIOUS

LEMMA ConcatAssoc ==
  ASSUME NEW S, NEW s \in Seq(S), NEW t \in Seq(S), NEW u \in Seq(S)
  PROVE  (s \o t) \o u = s \o (t \o u)
OBVIOUS

\* A part of a sequence.
LEMMA Sub ==
  ASSUME NEW S, NEW s \in Seq(S), NEW i \in 1..(Len(s) + 1), NEW j \in (i - 1)..Len(s)
  PROVE  /\ SubSeq(s, i, j) \in Seq(S) /\ Len(SubSeq(s, i, j)) = j - i + 1
         /\ \A k \in 1..(j - i + 1) : SubSeq(s, i, j)[k] = s[i + k - 1]
OBVIOUS

\* Two parts that follow each other.
LEMMA SubSub ==
  ASSUME NEW S, NEW s \in Seq(S), NEW i \in 1..(Len(s) + 1), NEW j \in (i - 1)..Len(s), NEW m \in j..Len(s)
  PROVE  SubSeq(s, i, j) \o SubSeq(s, j + 1, m) = SubSeq(s, i, m)
<1> DEFINE x == SubSeq(s, i, j)  y == SubSeq(s, j + 1, m)  z == SubSeq(s, i, m)
<1>0. j \in Int /\ m \in Int /\ i \in Int /\ Len(s) \in Nat /\ j + 1 \in 1..(Len(s) + 1) /\ m \in ((j + 1) - 1)..Len(s) /\ m \in (i - 1)..Len(s)
  OBVIOUS
<1>1. x \in Seq(S) /\ Len(x) = j - i + 1 /\ \A k \in 1..(j - i + 1) : x[k] = s[i + k - 1]
  BY Sub
<1>2. y \in Seq(S) /\ Len(y) = m - (j + 1) + 1 /\ \A k \in 1..(m - (j + 1) + 1) : y[k] = s[(j + 1) + k - 1]
  BY <1>0, Sub
<1>3. z \in Seq(S) /\ Len(z) = m - i + 1 /\ \A k \in 1..(m - i + 1) : z[k] = s[i + k - 1]
  BY <1>0, Sub
<1> HIDE DEF x, y, z
<1>4. /\ x \o y \in Seq(S) /\ Len(x \o y) = Len(x) + Len(y)
      /\ \A k \in 1..Len(x) : (x \o y)[k] = x[k]
      /\ \A k \in 1..Len(y) : (x \o y)[Len(x) + k] = y[k]
  <2>1. x \in Seq(S) /\ y \in Seq(S)
    BY <1>1, <1>2
  <2> QED
    BY <2>1, Concat
<1>5. Len(x \o y) = Len(z)
  BY <1>0, <1>1, <1>2, <1>3, <1>4
<1>6. ASSUME NEW k \in 1..Len(x \o y) PROVE (x \o y)[k] = z[k]
  <2>0. k \in 1..(m - i + 1)
    BY <1>3, <1>5
  <2>1. CASE k <= j - i + 1
    <3>1. k \in 1..(j - i + 1)
      BY <1>0, <2>0, <2>1
    <3> QED
      BY <1>1, <1>3, <1>4, <2>0, <3>1
  <2>2. CASE ~(k <= j - i + 1)
    <3> DEFINE l == k - (j - i + 1)
    <3>1. l \in 1..(m - (j + 1) + 1) /\ (j - i + 1) + l = k /\ (j + 1) + l - 1 = i + k - 1
      BY <1>0, <2>0, <2>2
    <3> HIDE DEF l
    <3>2. (x \o y)[(j - i + 1) + l] = y[l]
      BY <1>1, <1>2, <1>4, <3>1
    <3> QED
      BY <1>2, <1>3, <2>0, <3>1, <3>2
  <2> QED
    BY <2>1, <2>2
<1>7. x \o y = z
  BY <1>3, <1>4, <1>5, <1>6, SameSequence
<1> QED
  BY <1>7 DEF x, y, z

-----------------------------------------------------------------------------
(* Join and UpdateStr. *)

\* What Join computes: v[n] are the first n pieces with what stands between them.
Joined(S, q, sep, v) ==
  /\ v \in [0..Len(q) -> Seq(S)] /\ v[0] = <<>>
  /\ \A n \in 1..Len(q) : v[n] = IF n = 1 THEN q[1] ELSE v[n - 1] \o sep \o q[n]

LEMMA JoinIs ==
  ASSUME NEW S, NEW q \in Seq(Seq(S)), NEW sep \in Seq(S)
  PROVE  \E v : Joined(S, q, sep, v) /\ Join(q, sep) = v[Len(q)]
<1> DEFINE I == 0..Len(q)  T == Seq(S)
           body(f, n) == IF n = 0 THEN <<>> ELSE IF n = 1 THEN q[1] ELSE f[n - 1] \o sep \o q[n]
           Step == [n \in 1..Len(q) |-> [x \in T |-> IF n = 1 THEN q[1] ELSE x \o sep \o q[n]]]
           v == CHOOSE f : f = [n \in I |-> body(f, n)]
<1>1. Join(q, sep) = v[Len(q)]
  BY DEF Join
<1>2. \A n \in 1..Len(q) : q[n] \in T
  BY Element
<1>3. ASSUME NEW n \in 1..Len(q), NEW x \in T PROVE (IF n = 1 THEN q[1] ELSE x \o sep \o q[n]) \in T
  <2>1. q[n] \in T
    BY <1>2
  <2>2. x \o sep \in T
    BY Concat
  <2>3. (x \o sep) \o q[n] \in T
    BY <2>1, <2>2, Concat
  <2> QED
    BY <2>1, <2>3
<1>4. Len(q) \in Nat /\ <<>> \in T
  OBVIOUS
<1> HIDE DEF T
<1>5. \E g : g = [n \in I |-> body(g, n)]
  <2>1. Step \in [1..Len(q) -> [T -> T]]
    BY <1>3
  <2> HIDE DEF Step
  <2>a. PICK g : Iterate(Len(q), T, <<>>, Step, g)
    BY <1>4, <2>1, Iterates, Zenon
  <2>2. g \in [0..Len(q) -> T] /\ g[0] = <<>> /\ \A n \in 1..Len(q) : g[n] = Step[n][g[n - 1]]
    BY <2>a DEF Iterate
  <2>3. ASSUME NEW n \in I PROVE g[n] = body(g, n)
    <3>1. CASE n = 0
      BY <2>2, <3>1
    <3>2. CASE n # 0
      <4>1. n \in 1..Len(q) /\ n - 1 \in 0..Len(q)
        BY <1>4, <3>2
      <4>2. g[n - 1] \in T
        BY <2>2, <4>1
      <4>3. g[n] = Step[n][g[n - 1]]
        BY <2>2, <4>1
      <4>4. Step[n][g[n - 1]] = IF n = 1 THEN q[1] ELSE g[n - 1] \o sep \o q[n]
        BY <4>1, <4>2 DEF Step
      <4> QED
        BY <3>2, <4>3, <4>4
    <3> QED
      BY <3>1, <3>2
  <2> HIDE DEF body
  <2>4. g = [n \in I |-> body(g, n)]
    BY <2>2, <2>3
  <2> QED
    BY <2>4
<1>6. v = [n \in I |-> body(v, n)]
  BY <1>5
<1> HIDE DEF v
<1>7. \A n \in I : v[n] = body(v, n)
  <2> HIDE DEF body, I
  <2> QED
    BY <1>6
<1>8. v = [n \in I |-> v[n]]
  <2> HIDE DEF body, I
  <2> QED
    BY <1>6, <1>7
<1>9. v[0] = <<>>
  BY <1>4, <1>7
<1>10. \A n \in 1..Len(q) : v[n] = IF n = 1 THEN q[1] ELSE v[n - 1] \o sep \o q[n]
  <2> TAKE n \in 1..Len(q)
  <2>1. n \in I /\ n # 0
    OBVIOUS
  <2>2. v[n] = body(v, n)
    BY <1>7, <2>1, Zenon
  <2> QED
    BY <2>1, <2>2
<1>11. \A n \in 1..Len(q) : v[n - 1] \in T => v[n] \in T
  BY <1>3, <1>10
<1>12. \A n \in 0..Len(q) : v[n] \in T
  BY <1>4, <1>9, <1>11, Iterated
<1>13. v \in [0..Len(q) -> T]
  <2> HIDE DEF body
  <2> QED
    BY <1>8, <1>12
<1> QED
  BY <1>1, <1>9, <1>10, <1>13 DEF Joined, T

\* What a bounded copy leaves,
LEMMA AtMostIs ==
  ASSUME NEW S, NEW s \in Seq(S), NEW n \in Int
  PROVE  /\ AtMost(s, n) \in Seq(S)
         /\ n >= Len(s) => AtMost(s, n) = s
         /\ n \in 0..Len(s) => AtMost(s, n) = SubSeq(s, 1, n)
<1>1. Len(s) \in Nat
  OBVIOUS
<1>2. Min({n, Len(s)}) = IF n <= Len(s) THEN n ELSE Len(s)
  BY <1>1 DEF Min
<1>3. SubSeq(s, 1, Len(s)) = s
  OBVIOUS
<1>4. \A m \in Int : m <= Len(s) => SubSeq(s, 1, m) \in Seq(S)
  <2> TAKE m \in Int
  <2> HAVE m <= Len(s)
  <2>1. CASE m >= 0
    <3>1. 1 \in 1..(Len(s) + 1) /\ m \in (1 - 1)..Len(s)
      BY <1>1, <2>1
    <3> QED
      BY <3>1, Sub
  <2>2. CASE ~(m >= 0)
    BY <2>2
  <2> QED
    BY <2>1, <2>2
<1>5. AtMost(s, n) = SubSeq(s, 1, IF n <= Len(s) THEN n ELSE Len(s))
  BY <1>2 DEF AtMost
<1>6. AtMost(s, n) \in Seq(S)
  BY <1>1, <1>3, <1>4, <1>5
<1>7. n >= Len(s) => AtMost(s, n) = s
  <2> HAVE n >= Len(s)
  <2>1. (IF n <= Len(s) THEN n ELSE Len(s)) = Len(s)
    BY <1>1
  <2> QED
    BY <1>3, <1>5, <2>1
<1>8. n \in 0..Len(s) => AtMost(s, n) = SubSeq(s, 1, n)
  <2> HAVE n \in 0..Len(s)
  <2>1. (IF n <= Len(s) THEN n ELSE Len(s)) = n
    BY <1>1
  <2> QED
    BY <1>5, <2>1
<1> QED
  BY <1>6, <1>7, <1>8

\* and what the three of a substitution leave: the whole text when it fits.
Exchanged(room, a, b, n, c) == STRCAT(STRCAT(STRNCPY(room, a, n), room, b), room, c)

WholeIfFits(room, a, b, n, c) ==
  n + Len(b) + Len(c) < room => Exchanged(room, a, b, n, c) = (SubSeq(a, 1, n) \o b) \o c

LEMMA ExchangedIs ==
  ASSUME NEW S, NEW a \in Seq(S), NEW b \in Seq(S), NEW c \in Seq(S), NEW n \in 0..Len(a), NEW room \in Nat \ {0}
  PROVE  Exchanged(room, a, b, n, c) \in Seq(S) /\ WholeIfFits(room, a, b, n, c)
<1> DEFINE x == STRNCPY(room, a, n)  y == STRCAT(x, room, b)  z == STRCAT(y, room, c)
           k == Min({n, room - 1})  e == SubSeq(a, 1, n)
<1>1. Len(a) \in Nat /\ Len(b) \in Nat /\ Len(c) \in Nat /\ n \in Nat /\ room - 1 \in Nat
  OBVIOUS
<1>2. k = IF n <= room - 1 THEN n ELSE room - 1
  BY <1>1 DEF Min
<1>3. k \in Int
  BY <1>1, <1>2
<1>4. x = AtMost(a, k)
  BY DEF STRNCPY
<1> HIDE DEF k
<1>5. x \in Seq(S)
  BY <1>3, <1>4, AtMostIs
<1>6. y = x \o AtMost(b, room - 1 - Len(x))
  BY DEF STRCAT
<1> HIDE DEF x
<1>7. Len(x) \in Nat /\ room - 1 - Len(x) \in Int
  BY <1>1, <1>5
<1>8. AtMost(b, room - 1 - Len(x)) \in Seq(S)
  BY <1>7, AtMostIs
<1>9. y \in Seq(S)
  BY <1>5, <1>6, <1>8, Concat
<1>10. z = y \o AtMost(c, room - 1 - Len(y))
  BY DEF STRCAT
<1> HIDE DEF y
<1>11. Len(y) \in Nat /\ room - 1 - Len(y) \in Int
  BY <1>1, <1>9
<1>12. AtMost(c, room - 1 - Len(y)) \in Seq(S)
  BY <1>11, AtMostIs
<1>13. z \in Seq(S)
  BY <1>9, <1>10, <1>12, Concat
<1> HIDE DEF z
<1>14. ASSUME n + Len(b) + Len(c) < room PROVE z = (e \o b) \o c
  <2>1. k = n /\ k \in 0..Len(a)
    BY <1>1, <1>2, <1>14
  <2>2. x = e
    BY <1>3, <1>4, <2>1, AtMostIs
  <2>3. e \in Seq(S) /\ Len(e) = n
    <3>1. 1 \in 1..(Len(a) + 1) /\ n \in (1 - 1)..Len(a) /\ n - 1 + 1 = n
      BY <1>1
    <3> QED
      BY <3>1, Sub
  <2> HIDE DEF e
  <2>4. room - 1 - Len(x) >= Len(b)
    BY <1>1, <1>14, <2>2, <2>3
  <2>5. AtMost(b, room - 1 - Len(x)) = b
    BY <1>7, <2>4, AtMostIs
  <2>6. y = e \o b
    BY <1>6, <2>2, <2>5
  <2>7. Len(e \o b) = Len(e) + Len(b)
    BY <2>3, Concat
  <2>8. room - 1 - Len(y) >= Len(c)
    BY <1>1, <1>14, <2>3, <2>6, <2>7
  <2>9. AtMost(c, room - 1 - Len(y)) = c
    BY <1>11, <2>8, AtMostIs
  <2> QED
    BY <1>10, <2>6, <2>9
<1> QED
  BY <1>13, <1>14 DEF WholeIfFits, Exchanged, x, y, z, e

LEMMA RoomIs ==
  ASSUME NEW S, NEW s \in Seq(S)
  PROVE  Room(s) \in Nat \ {0} /\ Len(s) < Room(s)
<1>1. Len(s) \in Nat
  OBVIOUS
<1> QED
  BY <1>1 DEF Room

\* What UpdateStr computes: r[n] is the string after n substitutions, and the place
\* behind the last one.
Substituted(S, str, str1, str2, bloop, fuel, r) ==
  /\ r \in [0..fuel -> [s : Seq(S), from : Nat \ {0}]] /\ r[0] = [s |-> str, from |-> 1]
  /\ \A n \in 1..fuel : r[n] = Replaced(r[n - 1], str1, str2, bloop, Room(str))
  /\ UpdateStr(str, str1, str2, bloop, fuel) = IF bloop /\ Has(str2, str1) THEN str ELSE r[fuel].s

LEMMA ReplacedType ==
  ASSUME NEW S, NEW str1 \in Seq(S), NEW str2 \in Seq(S), NEW bloop \in BOOLEAN,
         NEW x \in [s : Seq(S), from : Nat \ {0}], NEW room \in Nat \ {0}
  PROVE  Replaced(x, str1, str2, bloop, room) \in [s : Seq(S), from : Nat \ {0}]
<1> DEFINE at == Occurs(str1, x.s, IF bloop THEN 1 ELSE x.from)
<1>0. x.s \in Seq(S) /\ x.from \in Nat \ {0} /\ (IF bloop THEN 1 ELSE x.from) \in Nat \ {0}
  OBVIOUS
<1>1. Replaced(x, str1, str2, bloop, room) =
        IF at = {} THEN x
        ELSE [s |-> Exchanged(room, x.s, str2, Min(at) - 1, Drop(x.s, Min(at) + Len(str1) - 1)),
              from |-> Min(at) + Len(str2)]
  BY DEF Replaced, Exchanged
<1>2. ASSUME at # {} PROVE Min(at) \in 1..(Len(x.s) - Len(str1) + 1)
  <2>1. Min(at) \in at
    BY <1>0, <1>2, FirstOccurrence
  <2> QED
    BY <1>0, <2>1 DEF Occurs
<1> HIDE DEF at
<1>3. ASSUME at # {}
      PROVE  /\ Exchanged(room, x.s, str2, Min(at) - 1, Drop(x.s, Min(at) + Len(str1) - 1)) \in Seq(S)
             /\ Min(at) + Len(str2) \in Nat \ {0}
  <2> DEFINE m == Min(at)  c == Drop(x.s, m + Len(str1) - 1)
  <2>1. m \in 1..(Len(x.s) - Len(str1) + 1)
    BY <1>2, <1>3
  <2> HIDE DEF m
  <2>2. Len(x.s) \in Nat /\ Len(str1) \in Nat /\ Len(str2) \in Nat
    BY <1>0
  <2>3. m - 1 \in 0..Len(x.s)
    BY <2>1, <2>2
  <2>4. c \in Seq(S)
    <3>1. m + Len(str1) - 1 \in Nat
      BY <2>1, <2>2
    <3>2. SubSeq(x.s, m + Len(str1) - 1 + 1, Len(x.s)) \in Seq(S)
      BY <1>0, <2>2, <3>1
    <3> QED
      BY <3>2 DEF Drop
  <2>5. m + Len(str2) \in Nat \ {0}
    BY <2>1, <2>2
  <2> HIDE DEF c
  <2>6. Exchanged(room, x.s, str2, m - 1, c) \in Seq(S)
    BY <1>0, <2>3, <2>4, ExchangedIs
  <2> QED
    BY <2>5, <2>6 DEF m, c
<1> QED
  BY <1>1, <1>3

LEMMA UpdateIs ==
  ASSUME NEW S, NEW str \in Seq(S), NEW str1 \in Seq(S), NEW str2 \in Seq(S), NEW bloop \in BOOLEAN, NEW fuel \in Nat
  PROVE  \E r : Substituted(S, str, str1, str2, bloop, fuel, r)
<1> DEFINE I == 0..fuel  T == [s : Seq(S), from : Nat \ {0}]
           next(x) == Replaced(x, str1, str2, bloop, Room(str))
           start == [s |-> str, from |-> 1]
           body(f, n) == IF n = 0 THEN start ELSE next(f[n - 1])
           Step == [n \in 1..fuel |-> [x \in T |-> next(x)]]
           r == CHOOSE f : f = [n \in I |-> body(f, n)]
<1>1. UpdateStr(str, str1, str2, bloop, fuel) = IF bloop /\ Has(str2, str1) THEN str ELSE r[fuel].s
  BY DEF UpdateStr
<1>2. \A x \in T : next(x) \in T
  BY RoomIs, ReplacedType
<1>3. start \in T
  OBVIOUS
<1> HIDE DEF T, next, start
<1>5. \E g : g = [n \in I |-> body(g, n)]
  <2>1. Step \in [1..fuel -> [T -> T]]
    BY <1>2
  <2> HIDE DEF Step
  <2>a. PICK g : Iterate(fuel, T, start, Step, g)
    BY <1>3, <2>1, Iterates, Zenon
  <2>2. g \in [0..fuel -> T] /\ g[0] = start /\ \A n \in 1..fuel : g[n] = Step[n][g[n - 1]]
    BY <2>a DEF Iterate
  <2>3. ASSUME NEW n \in I PROVE g[n] = body(g, n)
    <3>1. CASE n = 0
      BY <2>2, <3>1
    <3>2. CASE n # 0
      <4>1. n \in 1..fuel /\ n - 1 \in 0..fuel
        BY <3>2
      <4>2. g[n - 1] \in T
        BY <2>2, <4>1
      <4>3. g[n] = Step[n][g[n - 1]]
        BY <2>2, <4>1
      <4>4. Step[n][g[n - 1]] = next(g[n - 1])
        BY <4>1, <4>2 DEF Step
      <4> QED
        BY <3>2, <4>3, <4>4
    <3> QED
      BY <3>1, <3>2
  <2> HIDE DEF body
  <2>4. g = [n \in I |-> body(g, n)]
    BY <2>2, <2>3
  <2> QED
    BY <2>4
<1>6. r = [n \in I |-> body(r, n)]
  BY <1>5
<1> HIDE DEF r
<1>7. \A n \in I : r[n] = body(r, n)
  <2> HIDE DEF body, I
  <2> QED
    BY <1>6
<1>8. r = [n \in I |-> r[n]]
  <2> HIDE DEF body, I
  <2> QED
    BY <1>6, <1>7
<1>9. r[0] = start
  BY <1>7
<1>10. \A n \in 1..fuel : r[n] = next(r[n - 1])
  <2> TAKE n \in 1..fuel
  <2>1. n \in I /\ n # 0
    OBVIOUS
  <2>2. r[n] = body(r, n)
    BY <1>7, <2>1, Zenon
  <2> QED
    BY <2>1, <2>2
<1>11. \A n \in 1..fuel : r[n - 1] \in T => r[n] \in T
  BY <1>2, <1>10
<1>12. \A n \in 0..fuel : r[n] \in T
  BY <1>3, <1>9, <1>11, Iterated
<1>13. r \in [0..fuel -> T]
  <2> HIDE DEF body
  <2> QED
    BY <1>8, <1>12
<1>14. Substituted(S, str, str1, str2, bloop, fuel, r)
  BY <1>1, <1>9, <1>10, <1>13 DEF Substituted, T, next, start
<1> QED
  BY <1>14

-----------------------------------------------------------------------------
(* SplitToCmd and UpdateStr. *)

\* The beginning and the end of a sequence that is put together.
LEMMA Ends ==
  ASSUME NEW S, NEW h \in Seq(S), NEW d \in Seq(S), NEW j \in 0..Len(d)
  PROVE  /\ SubSeq(h \o d, 1, Len(h) + j) = h \o SubSeq(d, 1, j)
         /\ SubSeq(h \o d, Len(h) + j + 1, Len(h \o d)) = SubSeq(d, j + 1, Len(d))
<1> DEFINE y == h \o d  e == SubSeq(d, 1, j)  x == SubSeq(y, 1, Len(h) + j)  z == h \o e
           u == SubSeq(y, Len(h) + j + 1, Len(y))  w == SubSeq(d, j + 1, Len(d))
<1>1. /\ y \in Seq(S) /\ Len(y) = Len(h) + Len(d)
      /\ \A k \in 1..Len(h) : y[k] = h[k]
      /\ \A k \in 1..Len(d) : y[Len(h) + k] = d[k]
  BY Concat
<1> HIDE DEF y
<1>0. j \in Int /\ Len(h) \in Nat /\ Len(d) \in Nat /\ j <= Len(d) /\ 0 <= j
  OBVIOUS
<1>a. /\ 1 \in 1..(Len(d) + 1) /\ j \in (1 - 1)..Len(d)
      /\ j + 1 \in 1..(Len(d) + 1) /\ Len(d) \in ((j + 1) - 1)..Len(d)
  BY <1>0
<1>b. /\ 1 \in 1..(Len(y) + 1) /\ Len(h) + j \in (1 - 1)..Len(y)
      /\ Len(h) + j + 1 \in 1..(Len(y) + 1) /\ Len(y) \in ((Len(h) + j + 1) - 1)..Len(y)
  BY <1>0, <1>1
<1>2. e \in Seq(S) /\ Len(e) = j - 1 + 1 /\ \A k \in 1..(j - 1 + 1) : e[k] = d[1 + k - 1]
  BY <1>a, Sub
<1>3. w \in Seq(S) /\ Len(w) = Len(d) - (j + 1) + 1 /\ \A k \in 1..(Len(d) - (j + 1) + 1) : w[k] = d[(j + 1) + k - 1]
  BY <1>a, Sub
<1>4. x \in Seq(S) /\ Len(x) = (Len(h) + j) - 1 + 1 /\ \A k \in 1..((Len(h) + j) - 1 + 1) : x[k] = y[1 + k - 1]
  BY <1>1, <1>b, Sub
<1>5. /\ u \in Seq(S) /\ Len(u) = Len(y) - (Len(h) + j + 1) + 1
      /\ \A k \in 1..(Len(y) - (Len(h) + j + 1) + 1) : u[k] = y[(Len(h) + j + 1) + k - 1]
  BY <1>1, <1>b, Sub
<1> HIDE DEF e, x, u, w
<1>6. /\ z \in Seq(S) /\ Len(z) = Len(h) + Len(e)
      /\ \A k \in 1..Len(h) : z[k] = h[k]
      /\ \A k \in 1..Len(e) : z[Len(h) + k] = e[k]
  <2>1. e \in Seq(S)
    BY <1>2
  <2> QED
    BY <2>1, Concat
<1> HIDE DEF z
<1>7. x = z
  <2>1. Len(x) = Len(z)
    BY <1>0, <1>2, <1>4, <1>6
  <2>2. ASSUME NEW k \in 1..Len(x) PROVE x[k] = z[k]
    <3>0. k \in Int /\ 1 <= k /\ k <= Len(h) + j /\ 1 + k - 1 = k
      BY <1>0, <1>4
    <3>1. x[k] = y[k]
      BY <1>4, <3>0
    <3>2. CASE k <= Len(h)
      <4>1. k \in 1..Len(h)
        BY <1>0, <3>0, <3>2
      <4> QED
        BY <1>1, <1>6, <3>1, <4>1
    <3>3. CASE ~(k <= Len(h))
      <4> DEFINE l == k - Len(h)
      <4>1. l \in 1..j /\ l \in 1..Len(d) /\ l \in 1..Len(e) /\ l \in 1..(j - 1 + 1) /\ Len(h) + l = k /\ 1 + l - 1 = l
        BY <1>0, <1>2, <3>0, <3>3
      <4> HIDE DEF l
      <4>2. y[k] = d[l]
        BY <1>1, <4>1
      <4>3. z[k] = e[l]
        BY <1>6, <4>1
      <4>4. e[l] = d[l]
        BY <1>2, <4>1
      <4> QED
        BY <3>1, <4>2, <4>3, <4>4
    <3> QED
      BY <3>2, <3>3
  <2> QED
    BY <1>4, <1>6, <2>1, <2>2, SameSequence
<1>8. u = w
  <2>1. Len(u) = Len(w)
    BY <1>0, <1>1, <1>3, <1>5
  <2>2. ASSUME NEW k \in 1..Len(u) PROVE u[k] = w[k]
    <3>0. k \in 1..(Len(y) - (Len(h) + j + 1) + 1) /\ k \in 1..(Len(d) - (j + 1) + 1)
      BY <1>0, <1>1, <1>5
    <3>1. u[k] = y[(Len(h) + j + 1) + k - 1]
      BY <1>5, <3>0
    <3>2. w[k] = d[(j + 1) + k - 1]
      BY <1>3, <3>0
    <3>3. j + k \in 1..Len(d) /\ (Len(h) + j + 1) + k - 1 = Len(h) + (j + k) /\ (j + 1) + k - 1 = j + k
      BY <1>0, <3>0
    <3>4. y[Len(h) + (j + k)] = d[j + k]
      BY <1>1, <3>3
    <3> QED
      BY <3>1, <3>2, <3>3, <3>4
  <2> QED
    BY <1>3, <1>5, <2>1, <2>2, SameSequence
<1> QED
  BY <1>7, <1>8 DEF x, y, z, u, w, e

\* Behind a text h, the rest of s is searched as it stands in s.
LEMMA OccursBehind ==
  ASSUME NEW S, NEW sub \in Seq(S), NEW s \in Seq(S), NEW h \in Seq(S), NEW a \in 1..(Len(s) + 1), NEW i \in Int
  PROVE  Len(h) + i \in Occurs(sub, h \o Drop(s, a - 1), Len(h) + 1) <=> a + i - 1 \in Occurs(sub, s, a)
<1> DEFINE d == Drop(s, a - 1)  y == h \o d
<1>1. d \in Seq(S) /\ Len(d) = Len(s) - a + 1 /\ \A k \in 1..(Len(s) - a + 1) : d[k] = s[a + k - 1]
  <2>1. d = SubSeq(s, a, Len(s))
    BY DEF Drop
  <2>2. Len(s) \in (a - 1)..Len(s)
    OBVIOUS
  <2> QED
    BY <2>1, <2>2, Sub
<1> HIDE DEF d
<1>2. /\ y \in Seq(S) /\ Len(y) = Len(h) + Len(d)
      /\ \A k \in 1..Len(d) : y[Len(h) + k] = d[k]
  <2>1. d \in Seq(S)
    BY <1>1
  <2> QED
    BY <2>1, Concat
<1> HIDE DEF y
<1>0. Len(h) \in Nat /\ Len(s) \in Nat /\ Len(sub) \in Nat /\ a \in Nat \ {0} /\ Len(h) + 1 \in Nat \ {0} /\ Len(h) + i \in Int /\ a + i - 1 \in Int
  OBVIOUS
<1>3. Len(h) + i \in Occurs(sub, y, Len(h) + 1) <=>
        Len(h) + i \in (Len(h) + 1)..(Len(y) - Len(sub) + 1) /\ Stands(sub, y, Len(h) + i)
  BY <1>0, <1>2, OccursIs
<1>4. a + i - 1 \in Occurs(sub, s, a) <=>
        a + i - 1 \in a..(Len(s) - Len(sub) + 1) /\ Stands(sub, s, a + i - 1)
  BY <1>0, OccursIs
<1>5. Len(h) + i \in (Len(h) + 1)..(Len(y) - Len(sub) + 1) <=> a + i - 1 \in a..(Len(s) - Len(sub) + 1)
  BY <1>0, <1>1, <1>2
<1>6. ASSUME a + i - 1 \in a..(Len(s) - Len(sub) + 1), NEW k \in 1..Len(sub)
      PROVE  y[Len(h) + i + k - 1] = s[a + i - 1 + k - 1]
  <2>1. i + k - 1 \in 1..(Len(s) - a + 1) /\ Len(h) + i + k - 1 = Len(h) + (i + k - 1) /\ a + i - 1 + k - 1 = a + (i + k - 1) - 1
    BY <1>0, <1>6
  <2>2. y[Len(h) + (i + k - 1)] = d[i + k - 1]
    BY <1>1, <1>2, <2>1
  <2>3. d[i + k - 1] = s[a + (i + k - 1) - 1]
    BY <1>1, <2>1
  <2> QED
    BY <2>1, <2>2, <2>3
<1>7. a + i - 1 \in a..(Len(s) - Len(sub) + 1) => (Stands(sub, y, Len(h) + i) <=> Stands(sub, s, a + i - 1))
  BY <1>6 DEF Stands
<1> QED
  BY <1>3, <1>4, <1>5, <1>7 DEF y, d

\* UpdateStr, when h stands for what stood before a in s.
Behind(s, h, a) == [s |-> h \o Drop(s, a - 1), from |-> Len(h) + 1]

\* One substitution of a single pass.
Onwards(x, sep, new, room) == Replaced(x, sep, new, FALSE, room)

Fits(s, sep, new, h, a, x, room) ==
  /\ Occurs(sep, s, a) # {} /\ x = Min(Occurs(sep, s, a)) /\ room \in Nat \ {0}
  /\ Len(h) + (x - a) + Len(new) + (Len(s) - (x + Len(sep)) + 1) < room

\* It exchanges the first separator of the rest, when the text fits into the buffer,
LEMMA ReplacesNext ==
  ASSUME NEW S, NEW sep \in Seq(S), NEW new \in Seq(S), NEW s \in Seq(S), NEW h \in Seq(S), NEW a \in 1..(Len(s) + 1),
         NEW x, NEW room, Fits(s, sep, new, h, a, x, room)
  PROVE  Onwards(Behind(s, h, a), sep, new, room) = Behind(s, (h \o SubSeq(s, a, x - 1)) \o new, x + Len(sep))
<1> DEFINE d == Drop(s, a - 1)  y == h \o d  A == Occurs(sep, y, Len(h) + 1)  m == Len(h) + (x - a + 1)
<1>a. Occurs(sep, s, a) # {} /\ x = Min(Occurs(sep, s, a)) /\ room \in Nat \ {0}
  BY Zenon DEF Fits
<1>0. x \in Occurs(sep, s, a) /\ \A i \in Occurs(sep, s, a) : x <= i
  <2>1. a \in Nat \ {0}
    OBVIOUS
  <2> QED
    BY <1>a, <2>1, FirstOccurrence
<1>1. /\ x \in a..(Len(s) - Len(sep) + 1) /\ x \in Int
      /\ Len(sep) \in Nat /\ Len(s) \in Nat /\ Len(h) \in Nat /\ Len(new) \in Nat
  BY <1>0 DEF Occurs
<1>2. d \in Seq(S) /\ Len(d) = Len(s) - a + 1 /\ d = SubSeq(s, a, Len(s))
  <2>1. d = SubSeq(s, a, Len(s))
    BY DEF Drop
  <2>2. a \in 1..(Len(s) + 1) /\ Len(s) \in (a - 1)..Len(s)
    OBVIOUS
  <2>3. SubSeq(s, a, Len(s)) \in Seq(S) /\ Len(SubSeq(s, a, Len(s))) = Len(s) - a + 1
    BY <2>2, Sub
  <2> QED
    BY <2>1, <2>3
<1>3. y \in Seq(S) /\ Len(y) = Len(h) + Len(d)
  BY <1>2, Concat
<1>4. m \in A
  <2>1. x - a + 1 \in Int /\ a + (x - a + 1) - 1 = x
    BY <1>1
  <2> QED
    BY <1>0, <2>1, OccursBehind
<1>5. ASSUME NEW i \in A PROVE m <= i
  <2>1. i \in Int
    BY DEF Occurs
  <2>2. i - Len(h) \in Int /\ Len(h) + (i - Len(h)) = i
    BY <1>1, <2>1
  <2>3. a + (i - Len(h)) - 1 \in Occurs(sep, s, a)
    BY <2>2, OccursBehind
  <2>4. x <= a + (i - Len(h)) - 1
    BY <1>0, <2>3
  <2> QED
    BY <1>1, <2>1, <2>4
<1>6. A # {} /\ Min(A) = m
  <2>1. Min(A) \in A /\ \A i \in A : Min(A) <= i
    <3>1. Len(h) + 1 \in Nat \ {0} /\ A # {}
      BY <1>1, <1>4
    <3> QED
      BY <1>3, <3>1, FirstOccurrence
  <2>2. Min(A) \in Int
    <3>1. A \subseteq Int
      BY DEF Occurs
    <3> HIDE DEF A
    <3> QED
      BY <2>1, <3>1
  <2>3. m \in Int
    BY <1>1
  <2> HIDE DEF A, m
  <2> QED
    BY <1>4, <1>5, <2>1, <2>2, <2>3
<1>7. Replaced([s |-> y, from |-> Len(h) + 1], sep, new, FALSE, room) =
        [s |-> (SubSeq(y, 1, m - 1) \o new) \o Drop(y, m + Len(sep) - 1), from |-> m + Len(new)]
  <2> DEFINE c == Drop(y, m + Len(sep) - 1)
  <2>1. m \in Nat \ {0} /\ m - 1 \in 0..Len(y) /\ m + Len(sep) \in 1..(Len(y) + 1) /\ m - 1 = Len(h) + (x - a)
        /\ Len(y) - (m + Len(sep)) + 1 = Len(s) - (x + Len(sep)) + 1
    <3> HIDE DEF y, d
    <3>1. Len(y) = Len(h) + (Len(s) - a + 1)
      BY <1>2, <1>3
    <3>2. a \in Int /\ 1 <= a /\ a <= x
      BY <1>1
    <3>3. m \in Nat \ {0} /\ m - 1 = Len(h) + (x - a)
      BY <1>1, <3>2
    <3>4. m - 1 \in 0..Len(y)
      BY <1>1, <3>1, <3>2, <3>3
    <3>6. m + Len(sep) \in 1..(Len(y) + 1)
      BY <1>1, <3>1, <3>2
    <3>7. Len(y) - (m + Len(sep)) + 1 = Len(s) - (x + Len(sep)) + 1
      BY <1>1, <3>1, <3>2
    <3> QED
      BY <3>3, <3>4, <3>6, <3>7
  <2>2. Replaced([s |-> y, from |-> Len(h) + 1], sep, new, FALSE, room) =
          [s |-> Exchanged(room, y, new, m - 1, c), from |-> m + Len(new)]
    <3> HIDE DEF m, y
    <3> QED
      BY <1>6 DEF Replaced, Exchanged
  <2> HIDE DEF m, y
  <2>3. c \in Seq(S) /\ Len(c) = Len(y) - (m + Len(sep)) + 1
    <3> DEFINE b == m + Len(sep)
    <3>0. b \in 1..(Len(y) + 1) /\ Len(y) \in Nat
      BY <1>3, <2>1
    <3>1. c = SubSeq(y, b, Len(y))
      <4>1. m + Len(sep) - 1 + 1 = b
        BY <1>1, <2>1
      <4> QED
        BY <4>1 DEF Drop
    <3> HIDE DEF b, c
    <3>2. Len(y) \in (b - 1)..Len(y)
      BY <3>0
    <3>3. SubSeq(y, b, Len(y)) \in Seq(S) /\ Len(SubSeq(y, b, Len(y))) = Len(y) - b + 1
      BY <1>3, <3>0, <3>2, Sub
    <3> QED
      BY <3>1, <3>3 DEF b
  <2> HIDE DEF c
  <2>4. (m - 1) + Len(new) + Len(c) < room
    <3>1. Len(h) + (x - a) + Len(new) + (Len(s) - (x + Len(sep)) + 1) < room
      BY Zenon DEF Fits
    <3> QED
      BY <1>1, <2>1, <2>3, <3>1
  <2>5. Exchanged(room, y, new, m - 1, c) = (SubSeq(y, 1, m - 1) \o new) \o c
    <3> DEFINE n == m - 1
    <3>1. /\ y \in Seq(S) /\ new \in Seq(S) /\ c \in Seq(S) /\ n \in 0..Len(y) /\ room \in Nat \ {0}
          /\ n + Len(new) + Len(c) < room
      BY <1>3, <1>a, <2>1, <2>3, <2>4
    <3> HIDE DEF n
    <3>a. WholeIfFits(room, y, new, n, c)
      BY <3>1, ExchangedIs
    <3>2. Exchanged(room, y, new, n, c) = (SubSeq(y, 1, n) \o new) \o c
      BY <3>1, <3>a DEF WholeIfFits
    <3> QED
      BY <3>2 DEF n
  <2> QED
    BY <2>2, <2>5, Zenon DEF c
<1>8. SubSeq(y, 1, m - 1) = h \o SubSeq(s, a, x - 1)
  <2>3. x - a \in 0..Len(d) /\ m - 1 = Len(h) + (x - a)
    BY <1>1, <1>2
  <2>4. SubSeq(y, 1, Len(h) + (x - a)) = h \o SubSeq(d, 1, x - a)
    BY <1>2, <2>3, Ends
  <2>5. SubSeq(d, 1, x - a) = SubSeq(s, a, x - 1)
    <3> DEFINE e == SubSeq(s, a, x - 1)  f == SubSeq(s, x, Len(s))
    <3>1. x - 1 \in (a - 1)..Len(s) /\ Len(s) \in (x - 1)..Len(s) /\ (x - 1) + 1 = x /\ x \in 1..(Len(s) + 1)
      BY <1>1
    <3>2. SubSeq(s, a, x - 1) \o SubSeq(s, (x - 1) + 1, Len(s)) = SubSeq(s, a, Len(s))
      BY <3>1, SubSub
    <3>3. d = e \o f
      BY <1>2, <3>1, <3>2
    <3>4. e \in Seq(S) /\ Len(e) = x - 1 - a + 1
      BY <3>1, Sub
    <3>5. f \in Seq(S)
      BY <3>1, Sub
    <3> HIDE DEF e, f, d
    <3>6. 0 \in 0..Len(f) /\ Len(e) + 0 = x - a
      BY <1>1, <3>4, <3>5
    <3>7. SubSeq(e \o f, 1, Len(e) + 0) = e \o SubSeq(f, 1, 0)
      BY <3>4, <3>5, <3>6, Ends
    <3>8. SubSeq(f, 1, 0) = <<>>
      BY <3>5
    <3> QED
      BY <3>3, <3>4, <3>6, <3>7, <3>8, ConcatEmpty DEF e
  <2> QED
    BY <2>3, <2>4, <2>5
<1>9. Drop(y, m + Len(sep) - 1) = Drop(s, x + Len(sep) - 1)
  <2> DEFINE j == x - a + Len(sep)
  <2>1. j \in 0..Len(d) /\ m + Len(sep) - 1 + 1 = Len(h) + j + 1 /\ j \in Int /\ a + j = x + Len(sep)
    <3> HIDE DEF d
    <3> QED
      BY <1>1, <1>2
  <2>2. Drop(y, m + Len(sep) - 1) = SubSeq(y, Len(h) + j + 1, Len(y))
    BY <2>1 DEF Drop
  <2>3. SubSeq(y, Len(h) + j + 1, Len(y)) = SubSeq(d, j + 1, Len(d))
    <3> HIDE DEF j, d
    <3>1. d \in Seq(S) /\ j \in 0..Len(d)
      BY <1>2, <2>1
    <3> QED
      BY <3>1, Ends
  <2>4. SubSeq(d, j + 1, Len(d)) = SubSeq(s, a + j, Len(s))
    <3> DEFINE e == SubSeq(s, a, a + j - 1)  f == SubSeq(s, a + j, Len(s))
    <3>1. a + j - 1 \in (a - 1)..Len(s) /\ Len(s) \in (a + j - 1)..Len(s) /\ (a + j - 1) + 1 = a + j /\ a + j \in 1..(Len(s) + 1)
      <4> HIDE DEF j
      <4> QED
        BY <1>1, <2>1
    <3>0. j \in Int
      BY <2>1
    <3> HIDE DEF j
    <3>2. SubSeq(s, a, a + j - 1) \o SubSeq(s, (a + j - 1) + 1, Len(s)) = SubSeq(s, a, Len(s))
      BY <3>1, SubSub
    <3>3. d = e \o f
      BY <1>2, <3>1, <3>2
    <3>4. e \in Seq(S) /\ Len(e) = (a + j - 1) - a + 1
      BY <3>1, Sub
    <3>5. f \in Seq(S)
      BY <3>1, Sub
    <3> HIDE DEF e, f, d
    <3>6. 0 \in 0..Len(f) /\ Len(e) + 0 + 1 = j + 1
      BY <1>1, <3>0, <3>4, <3>5
    <3>7. SubSeq(e \o f, Len(e) + 0 + 1, Len(e \o f)) = SubSeq(f, 0 + 1, Len(f))
      BY <3>4, <3>5, <3>6, Ends
    <3>8. SubSeq(f, 0 + 1, Len(f)) = f
      BY <3>5
    <3> QED
      BY <3>3, <3>6, <3>7, <3>8 DEF f
  <2>5. Drop(s, x + Len(sep) - 1) = SubSeq(s, a + j, Len(s))
    <3>1. x + Len(sep) - 1 + 1 = a + j
      BY <1>1
    <3> QED
      BY <3>1 DEF Drop
  <2> QED
    BY <2>2, <2>3, <2>4, <2>5
<1>10. m + Len(new) = Len((h \o SubSeq(s, a, x - 1)) \o new) + 1
  <2> DEFINE e == SubSeq(s, a, x - 1)
  <2>1. x - 1 \in (a - 1)..Len(s)
    BY <1>1
  <2>2. e \in Seq(S) /\ Len(e) = x - 1 - a + 1
    BY <2>1, Sub
  <2> HIDE DEF e
  <2>3. h \o e \in Seq(S) /\ Len(h \o e) = Len(h) + Len(e)
    BY <2>2, Concat
  <2>4. Len((h \o e) \o new) = Len(h \o e) + Len(new)
    BY <2>3, Concat
  <2>5. m + Len(new) = Len((h \o e) \o new) + 1
    <3>1. Len((h \o e) \o new) = Len(h) + (x - a) + Len(new)
      BY <1>1, <2>2, <2>3, <2>4
    <3> QED
      BY <1>1, <3>1
  <2> QED
    BY <2>5 DEF e
<1> DEFINE g == (h \o SubSeq(s, a, x - 1)) \o new
<1>11. (x + Len(sep)) - 1 = x + Len(sep) - 1
  BY <1>1
<1>12. Replaced([s |-> y, from |-> Len(h) + 1], sep, new, FALSE, room) =
         [s |-> g \o Drop(s, (x + Len(sep)) - 1), from |-> Len(g) + 1]
  <2> HIDE DEF m, y
  <2> QED
    BY <1>7, <1>8, <1>9, <1>10, <1>11, Zenon
<1> HIDE DEF g
<1>13. Onwards(Behind(s, h, a), sep, new, room) = Behind(s, g, x + Len(sep))
  BY <1>12, Zenon DEF y, d, Behind, Onwards
<1> QED
  BY <1>13 DEF g

\* and where none is left nothing changes.
LEMMA ReplacesNone ==
  ASSUME NEW S, NEW sep \in Seq(S), NEW new \in Seq(S), NEW s \in Seq(S), NEW h \in Seq(S), NEW a \in 1..(Len(s) + 1),
         NEW room, Occurs(sep, s, a) = {}
  PROVE  Onwards(Behind(s, h, a), sep, new, room) = Behind(s, h, a)
<1> DEFINE A == Occurs(sep, h \o Drop(s, a - 1), Len(h) + 1)
<1>1. ASSUME NEW i \in A PROVE FALSE
  <2>1. i \in Int /\ i - Len(h) \in Int /\ Len(h) + (i - Len(h)) = i
    BY DEF Occurs
  <2>2. Len(h) + (i - Len(h)) \in A
    BY <1>1, <2>1
  <2>3. a + (i - Len(h)) - 1 \in Occurs(sep, s, a)
    BY <2>1, <2>2, OccursBehind
  <2> QED
    BY <2>3
<1>2. A = {}
  BY <1>1
<1> QED
  BY <1>2 DEF Onwards, Replaced, Behind

\* Each piece begins behind the one before it, so there are no more than there are places.
LEMMA PartsGrow ==
  ASSUME NEW S, NEW sep \in Seq(S), sep # <<>>, NEW s \in Seq(S), NEW q \in Seq(Seq(S)), NEW at, Parts(s, sep, 1, q, at)
  PROVE  /\ Len(q) \in 1..(Len(s) + 1) /\ \A k \in 1..Len(q) : at[k] \in 1..(Len(s) + 1) /\ Len(q[k]) \in Nat
<1>1. /\ Len(q) \in Nat \ {0} /\ at \in [1..Len(q) -> 1..(Len(s) + 1)] /\ at[1] = 1
      /\ \A k \in 1..(Len(q) - 1) : at[k + 1] = at[k] + Len(q[k]) + Len(sep)
  BY DEF Parts
<1>2. Len(sep) \in Nat \ {0} /\ Len(s) \in Nat
  OBVIOUS
<1>3. \A k \in 1..Len(q) : Len(q[k]) \in Nat
  OBVIOUS
<1>b. \A k \in 1..Len(q) : at[k] \in 1..(Len(s) + 1) /\ at[k] \in Nat
  <2>1. \A a \in 1..(Len(s) + 1) : a \in Nat
    BY <1>2
  <2> QED
    BY <1>1, <2>1
<1> DEFINE P == {m \in 0..(Len(q) - 1) : at[m + 1] >= m + 1}  n == Len(q) - 1
<1>4. 0 \in P /\ n \in Nat
  BY <1>1
<1>5. ASSUME NEW m \in 0..(n - 1), m \in P PROVE m + 1 \in P
  <2>1. m + 1 \in 1..(Len(q) - 1) /\ m + 1 \in 1..Len(q) /\ m + 1 \in 0..(Len(q) - 1) /\ (m + 1) + 1 \in 1..Len(q)
    BY <1>1
  <2>2. at[(m + 1) + 1] = at[m + 1] + Len(q[m + 1]) + Len(sep)
    BY <1>1, <2>1
  <2>3. at[m + 1] >= m + 1
    BY <1>5
  <2>4. at[m + 1] \in Nat /\ at[(m + 1) + 1] \in Nat /\ Len(q[m + 1]) \in Nat
    <3>1. m + 1 \in 1..Len(q) /\ (m + 1) + 1 \in 1..Len(q)
      BY <2>1
    <3> QED
      BY <1>3, <1>b, <3>1
  <2>5. at[(m + 1) + 1] >= (m + 1) + 1
    BY <1>2, <2>2, <2>3, <2>4
  <2> QED
    BY <2>1, <2>5
<1>6. \A m \in 0..(n - 1) : m \in P => m + 1 \in P
  BY <1>5
<1> HIDE DEF P
<1>7. \A m \in 0..n : m \in P
  BY <1>4, <1>6, Induct, Zenon
<1>8. at[Len(q)] >= Len(q)
  <2>1. n \in P /\ n + 1 = Len(q)
    BY <1>1, <1>7
  <2> QED
    BY <2>1 DEF P
<1>9. Len(q) \in 1..(Len(s) + 1)
  <2>1. Len(q) \in 1..Len(q)
    BY <1>1
  <2>2. at[Len(q)] \in 1..(Len(s) + 1) /\ at[Len(q)] \in Nat
    BY <1>b, <2>1
  <2>3. at[Len(q)] <= Len(s) + 1
    BY <1>2, <2>2
  <2> QED
    BY <1>1, <1>2, <1>8, <2>2, <2>3
<1> QED
  BY <1>3, <1>9, <1>b

\* A piece, and the separator behind it, as they stand in the text.
SepBehind(s, sep, q, at, k) ==
  /\ at[k] \in 1..(Len(s) + 1) /\ at[k + 1] \in 1..(Len(s) + 1) /\ Len(q[k]) \in Nat
  /\ at[k] + Len(q[k]) + Len(sep) = at[k + 1]
  /\ Occurs(sep, s, at[k]) # {} /\ at[k] + Len(q[k]) = Min(Occurs(sep, s, at[k]))
  /\ q[k] = SubSeq(s, at[k], (at[k] + Len(q[k])) - 1)
  /\ sep = SubSeq(s, at[k] + Len(q[k]), at[k + 1] - 1)

LEMMA PieceIs ==
  ASSUME NEW S, NEW sep \in Seq(S), NEW s \in Seq(S), NEW q \in Seq(Seq(S)), NEW at, Parts(s, sep, 1, q, at),
         NEW k \in 1..(Len(q) - 1)
  PROVE  SepBehind(s, sep, q, at, k)
<1>1. /\ k \in 1..Len(q) /\ k + 1 \in 1..Len(q)
  OBVIOUS
<1>2. /\ at[k] \in 1..(Len(s) + 1) /\ at[k + 1] \in 1..(Len(s) + 1)
      /\ Occurs(sep, s, at[k]) # {} /\ at[k] + Len(q[k]) = Min(Occurs(sep, s, at[k]))
      /\ at[k + 1] = at[k] + Len(q[k]) + Len(sep)
      /\ q[k] = SubSeq(s, at[k], at[k] + Len(q[k]) - 1)
  BY <1>1 DEF Parts
<1>3. Len(q[k]) \in Nat
  BY <1>1
<1>4. at[k] + Len(q[k]) \in Occurs(sep, s, at[k])
  <2>1. at[k] \in Nat \ {0}
    BY <1>2
  <2> QED
    BY <1>2, <2>1, FirstOccurrence
<1>5. SubSeq(s, at[k] + Len(q[k]), at[k] + Len(q[k]) + Len(sep) - 1) = sep
  BY <1>4 DEF Occurs
<1>6. sep = SubSeq(s, at[k] + Len(q[k]), at[k + 1] - 1)
  <2> DEFINE c == at[k] + Len(q[k])  b == at[k + 1]
  <2>1. b = c + Len(sep) /\ SubSeq(s, c, c + Len(sep) - 1) = sep
    BY <1>2, <1>5, Zenon
  <2>a. c \in Int
    <3>1. Occurs(sep, s, at[k]) \subseteq Int
      BY DEF Occurs
    <3> QED
      BY <1>4, <3>1, Zenon
  <2> HIDE DEF b, c
  <2>2. sep = SubSeq(s, c, b - 1)
    BY <2>1, <2>a
  <2> QED
    BY <2>2, Zenon DEF b, c
<1>7. at[k] + Len(q[k]) - 1 = (at[k] + Len(q[k])) - 1
  <2>1. \A a \in 1..(Len(s) + 1), l \in Nat : a + l - 1 = (a + l) - 1
    OBVIOUS
  <2> QED
    BY <1>2, <1>3, <2>1, Zenon
<1>8. q[k] = SubSeq(s, at[k], (at[k] + Len(q[k])) - 1)
  BY <1>2, <1>7, Zenon
<1> QED
  BY <1>2, <1>3, <1>6, <1>8, Zenon DEF SepBehind

\* Three parts that follow each other from the first place on.
LEMMA ThreeParts ==
  ASSUME NEW S, NEW s \in Seq(S), NEW a \in 1..(Len(s) + 1), NEW l \in Nat, NEW g \in Nat,
         NEW b \in 1..(Len(s) + 1), a + l + g = b, NEW m \in Nat, b + m <= Len(s) + 1
  PROVE  (SubSeq(s, 1, a + l - 1) \o SubSeq(s, a + l, b - 1)) \o SubSeq(s, b, b + m - 1) = SubSeq(s, 1, b + m - 1)
<1>1. /\ 1 \in 1..(Len(s) + 1) /\ a + l - 1 \in (1 - 1)..Len(s) /\ b - 1 \in (a + l - 1)..Len(s)
      /\ b - 1 \in (1 - 1)..Len(s) /\ b + m - 1 \in (b - 1)..Len(s)
      /\ (a + l - 1) + 1 = a + l /\ (b - 1) + 1 = b
  OBVIOUS
<1>2. SubSeq(s, 1, a + l - 1) \o SubSeq(s, (a + l - 1) + 1, b - 1) = SubSeq(s, 1, b - 1)
  BY <1>1, SubSub
<1>3. SubSeq(s, 1, b - 1) \o SubSeq(s, (b - 1) + 1, b + m - 1) = SubSeq(s, 1, b + m - 1)
  BY <1>1, SubSub
<1> QED
  BY <1>1, <1>2, <1>3

\* The pieces and the separators between them are the text,
LEMMA JoinsToText ==
  ASSUME NEW S, NEW sep \in Seq(S), sep # <<>>, NEW s \in Seq(S), NEW q \in Seq(Seq(S)), NEW at, Parts(s, sep, 1, q, at)
  PROVE  Join(q, sep) = s
<1>1. PICK v : Joined(S, q, sep, v) /\ Join(q, sep) = v[Len(q)]
  BY JoinIs
<1> DEFINE upto(k) == SubSeq(s, 1, at[k] + Len(q[k]) - 1)
           P == {m \in 0..(Len(q) - 1) : v[m + 1] = upto(m + 1)}  n == Len(q) - 1
<1>2. Len(q) \in Nat \ {0} /\ Len(s) \in Nat /\ n \in Nat /\ Len(sep) \in Nat
  <2>1. Len(q) \in 1..(Len(s) + 1)
    BY PartsGrow
  <2> QED
    BY <2>1
<1>3. 0 \in P
  <2>0. 1 \in 1..Len(q) /\ 0 \in 0..(Len(q) - 1) /\ 0 + 1 = 1
    BY <1>2
  <2>1. q[1] = upto(1)
    <3>1. q[1] = SubSeq(s, at[1], at[1] + Len(q[1]) - 1) /\ at[1] = 1
      BY <2>0 DEF Parts
    <3> QED
      BY <3>1, Zenon
  <2>2. v[1] = q[1]
    BY <1>1, <2>0 DEF Joined
  <2> HIDE DEF upto
  <2> QED
    BY <2>0, <2>1, <2>2
<1>4. ASSUME NEW m \in 0..(n - 1), m \in P PROVE m + 1 \in P
  <2> DEFINE k == m + 1
  <2>1. k \in 1..(Len(q) - 1) /\ k + 1 \in 1..Len(q) /\ k \in 0..(Len(q) - 1) /\ k + 1 # 1 /\ (k + 1) - 1 = k
    BY <1>2
  <2>2. v[k] = upto(k)
    BY <1>4
  <2> HIDE DEF k
  <2>3. v[k + 1] = v[k] \o sep \o q[k + 1]
    BY <1>1, <2>1 DEF Joined
  <2>4. SepBehind(s, sep, q, at, k)
    BY <2>1, PieceIs
  <2>5. q[k + 1] = SubSeq(s, at[k + 1], at[k + 1] + Len(q[k + 1]) - 1) /\ at[k + 1] + Len(q[k + 1]) <= Len(s) + 1
    BY <2>1 DEF Parts
  <2>6. Len(q[k + 1]) \in Nat
    BY <2>1
  <2>7. (SubSeq(s, 1, at[k] + Len(q[k]) - 1) \o SubSeq(s, at[k] + Len(q[k]), at[k + 1] - 1))
          \o SubSeq(s, at[k + 1], at[k + 1] + Len(q[k + 1]) - 1) = SubSeq(s, 1, at[k + 1] + Len(q[k + 1]) - 1)
    <3>1. /\ at[k] \in 1..(Len(s) + 1) /\ Len(q[k]) \in Nat /\ Len(sep) \in Nat /\ at[k + 1] \in 1..(Len(s) + 1)
          /\ at[k] + Len(q[k]) + Len(sep) = at[k + 1] /\ Len(q[k + 1]) \in Nat /\ at[k + 1] + Len(q[k + 1]) <= Len(s) + 1
      BY <1>2, <2>4, <2>5, <2>6, Zenon DEF SepBehind
    <3> QED
      BY <3>1, ThreeParts, Zenon
  <2>8. v[k] \o sep \o q[k + 1] = upto(k + 1)
    BY <2>2, <2>4, <2>5, <2>7, Zenon DEF SepBehind
  <2> HIDE DEF upto
  <2>9. k \in P
    BY <2>1, <2>3, <2>8
  <2> QED
    BY <2>9 DEF k
<1>5. \A m \in 0..(n - 1) : m \in P => m + 1 \in P
  BY <1>4
<1> HIDE DEF P
<1>6. \A m \in 0..n : m \in P
  BY <1>2, <1>3, <1>5, Induct, Zenon
<1>7. v[Len(q)] = upto(Len(q))
  <2>1. n \in P /\ n + 1 = Len(q)
    BY <1>2, <1>6
  <2> HIDE DEF upto
  <2> QED
    BY <2>1 DEF P
<1>8. upto(Len(q)) = s
  <2>1. at[Len(q)] + Len(q[Len(q)]) = Len(s) + 1
    BY DEF Parts
  <2>2. at[Len(q)] \in 1..(Len(s) + 1) /\ Len(q[Len(q)]) \in Nat
    <3>1. Len(q) \in 1..Len(q)
      BY <1>2
    <3> QED
      BY <3>1, PartsGrow
  <2>3. \A a \in 1..(Len(s) + 1), l \in Nat : a + l = Len(s) + 1 => a + l - 1 = Len(s)
    BY <1>2
  <2>4. at[Len(q)] + Len(q[Len(q)]) - 1 = Len(s)
    BY <2>1, <2>2, <2>3, Zenon
  <2>5. SubSeq(s, 1, Len(s)) = s
    OBVIOUS
  <2> QED
    BY <2>4, <2>5, Zenon
<1> HIDE DEF upto
<1> QED
  BY <1>1, <1>7, <1>8

\* and no separator is left in a piece.
LEMMA NoneLeft ==
  ASSUME NEW S, NEW sep \in Seq(S), sep # <<>>, NEW s \in Seq(S), NEW q \in Seq(Seq(S)), NEW at, Parts(s, sep, 1, q, at),
         NEW k \in 1..Len(q)
  PROVE  ~Has(q[k], sep)
<1> SUFFICES ASSUME NEW i \in Occurs(sep, q[k], 1) PROVE FALSE
  BY DEF Has
<1> DEFINE p == q[k]  a == at[k]
<1>1. /\ a \in 1..(Len(s) + 1) /\ a + Len(p) <= Len(s) + 1 /\ p = SubSeq(s, a, a + Len(p) - 1)
      /\ Occurs(sep, s, a) = {} \/ a + Len(p) = Min(Occurs(sep, s, a))
  <2>1. k = Len(q) \/ k \in 1..(Len(q) - 1)
    OBVIOUS
  <2> QED
    BY <2>1 DEF Parts
<1>2. p \in Seq(S) /\ Len(p) \in Nat /\ Len(sep) \in Nat \ {0} /\ Len(s) \in Nat
  OBVIOUS
<1>a. i \in Occurs(sep, p, 1)
  OBVIOUS
<1> HIDE DEF p, a
<1>3. i \in Int /\ i \in 1..(Len(p) - Len(sep) + 1) /\ Stands(sep, p, i)
  <2>1. i \in Int
    BY <1>a DEF Occurs
  <2> QED
    BY <1>2, <1>a, <2>1, OccursIs
<1>4. a \in 1..(Len(s) + 1) /\ a + Len(p) - 1 \in (a - 1)..Len(s)
  BY <1>1, <1>2
<1>5. \A j \in 1..((a + Len(p) - 1) - a + 1) : p[j] = s[a + j - 1]
  BY <1>1, <1>4, Sub
<1>6. ASSUME NEW j \in 1..Len(sep) PROVE s[a + i - 1 + j - 1] = sep[j]
  <2>1. i + j - 1 \in 1..((a + Len(p) - 1) - a + 1) /\ a + (i + j - 1) - 1 = a + i - 1 + j - 1
    BY <1>2, <1>3, <1>4
  <2>2. p[i + j - 1] = s[a + (i + j - 1) - 1]
    BY <1>5, <2>1
  <2>3. p[i + j - 1] = sep[j]
    BY <1>3 DEF Stands
  <2> QED
    BY <2>1, <2>2, <2>3
<1>7. a + i - 1 \in Occurs(sep, s, a)
  <2>1. a + i - 1 \in Int /\ a \in Nat \ {0} /\ a + i - 1 \in a..(Len(s) - Len(sep) + 1)
    BY <1>1, <1>2, <1>3
  <2>2. Stands(sep, s, a + i - 1)
    BY <1>6 DEF Stands
  <2> QED
    BY <2>1, <2>2, OccursIs
<1>8. a + Len(p) <= a + i - 1
  <2>1. a \in Nat \ {0} /\ Occurs(sep, s, a) # {} /\ a + Len(p) = Min(Occurs(sep, s, a))
    BY <1>1, <1>7
  <2> QED
    BY <1>7, <2>1, FirstOccurrence
<1> QED
  BY <1>1, <1>2, <1>3, <1>8

\* Numbers that change by the same amount each time lie below the first or the last.
LEMMA BelowAnEnd ==
  ASSUME NEW n \in Nat \ {0}, NEW t \in [1..n -> Nat], NEW a \in Nat, NEW b \in Nat,
         \A k \in 1..(n - 1) : t[k + 1] + a = t[k] + b
  PROVE  \A k \in 1..n : t[k] <= t[1] \/ t[k] <= t[n]
<1>0. \A k \in 1..n : t[k] \in Nat
  OBVIOUS
<1>1. CASE b <= a
  <2> DEFINE P == {m \in 0..(n - 1) : t[m + 1] <= t[1]}
  <2>1. 0 \in P /\ n - 1 \in Nat
    OBVIOUS
  <2>2. ASSUME NEW m \in 0..((n - 1) - 1), m \in P PROVE m + 1 \in P
    <3>1. m + 1 \in 1..(n - 1) /\ m + 1 \in 0..(n - 1) /\ m + 1 \in 1..n /\ (m + 1) + 1 \in 1..n /\ 1 \in 1..n
      OBVIOUS
    <3>2. t[(m + 1) + 1] + a = t[m + 1] + b /\ t[m + 1] <= t[1]
      BY <2>2, <3>1
    <3>3. t[(m + 1) + 1] <= t[1]
      BY <1>0, <1>1, <3>1, <3>2
    <3> QED
      BY <3>1, <3>3
  <2>3. \A m \in 0..((n - 1) - 1) : m \in P => m + 1 \in P
    BY <2>2
  <2> HIDE DEF P
  <2>4. \A m \in 0..(n - 1) : m \in P
    BY <2>1, <2>3, Induct, Zenon
  <2> TAKE k \in 1..n
  <2>5. k - 1 \in P /\ (k - 1) + 1 = k
    BY <2>4
  <2> QED
    BY <2>5 DEF P
<1>2. CASE ~(b <= a)
  <2> DEFINE P == {m \in 0..(n - 1) : t[n - m] <= t[n]}
  <2>1. 0 \in P /\ n - 1 \in Nat
    OBVIOUS
  <2>2. ASSUME NEW m \in 0..((n - 1) - 1), m \in P PROVE m + 1 \in P
    <3> DEFINE k == n - (m + 1)
    <3>1. k \in 1..(n - 1) /\ m + 1 \in 0..(n - 1) /\ k \in 1..n /\ k + 1 \in 1..n /\ n \in 1..n /\ k + 1 = n - m
      OBVIOUS
    <3> HIDE DEF k
    <3>2. t[k + 1] + a = t[k] + b
      BY <3>1
    <3>3. t[k + 1] <= t[n]
      BY <2>2, <3>1
    <3>4. t[k] <= t[n]
      BY <1>0, <1>2, <3>1, <3>2, <3>3
    <3> QED
      BY <3>1, <3>4 DEF k
  <2>3. \A m \in 0..((n - 1) - 1) : m \in P => m + 1 \in P
    BY <2>2
  <2> HIDE DEF P
  <2>4. \A m \in 0..(n - 1) : m \in P
    BY <2>1, <2>3, Induct, Zenon
  <2> TAKE k \in 1..n
  <2>5. n - k \in P /\ n - (n - k) = k
    BY <2>4
  <2> QED
    BY <2>5 DEF P
<1> QED
  BY <1>1, <1>2

\* Only the text behind the place is exchanged: the text as a whole grows by what the new string is longer.
GrowsByNew(n, a, b, l, c, m, h, e, f) ==
  a + l + c = b /\ e = h + (n - a + 1) /\ f = (h + l + m) + (n - b + 1) => f + c = e + m

LEMMA LengthThen ==
  \A n, a, b, l, c, m, h, e, f \in Nat : GrowsByNew(n, a, b, l, c, m, h, e, f)
  BY DEF GrowsByNew

\* One pass of UpdateStr exchanges exactly the separators, when the result fits into the
\* buffer: every text on the way is at most as long as the first or the last one.
LEMMA OnePass ==
  ASSUME NEW S, NEW sep \in Seq(S), sep # <<>>, NEW new \in Seq(S), NEW s \in Seq(S), NEW q \in Seq(Seq(S)), NEW at,
         Parts(s, sep, 1, q, at), Len(Join(q, new)) < Room(s)
  PROVE  UpdateStr(s, sep, new, FALSE, Len(s)) = Join(q, new)
<1>1. PICK w : Joined(S, q, new, w) /\ Join(q, new) = w[Len(q)]
  BY JoinIs
<1>2. Len(s) \in Nat /\ FALSE \in BOOLEAN
  OBVIOUS
<1>3. PICK r : Substituted(S, s, sep, new, FALSE, Len(s), r)
  BY <1>2, UpdateIs, Zenon
<1>a. UpdateStr(s, sep, new, FALSE, Len(s)) = r[Len(s)].s
  BY <1>3 DEF Substituted
<1>4. Len(q) \in 1..(Len(s) + 1) /\ Len(q) \in Nat \ {0}
  <2>1. Len(q) \in 1..(Len(s) + 1)
    BY PartsGrow
  <2> QED
    BY <1>2, <2>1
<1> DEFINE \* what the first k - 1 pieces have become
           head(k) == IF k = 1 THEN <<>> ELSE w[k - 1] \o new
           state(k) == Behind(s, head(k), at[k])
           Reached(m, k) == (k = m + 1 \/ (k = Len(q) /\ m + 1 >= Len(q))) /\ r[m] = state(k)
           P == {m \in 0..Len(s) : \E k \in 1..Len(q) : Reached(m, k)}
<1>5. ASSUME NEW k \in 1..Len(q) PROVE head(k) \in Seq(S)
  <2>1. CASE k = 1
    BY <2>1
  <2>2. CASE k # 1
    <3>1. k - 1 \in 0..Len(q)
      BY <1>4, <2>2
    <3>2. w[k - 1] \in Seq(S)
      BY <1>1, <3>1 DEF Joined
    <3>3. w[k - 1] \o new \in Seq(S)
      BY <3>2, Concat
    <3> QED
      BY <2>2, <3>3
  <2> QED
    BY <2>1, <2>2
<1>6. ASSUME NEW k \in 1..Len(q) PROVE w[k] = head(k) \o q[k]
  <2>0. q[k] \in Seq(S)
    BY Element
  <2>1. CASE k = 1
    <3>1. w[1] = q[1]
      BY <1>1, <1>4 DEF Joined
    <3> QED
      BY <2>0, <2>1, <3>1, ConcatEmpty
  <2>2. CASE k # 1
    BY <1>1, <2>2 DEF Joined
  <2> QED
    BY <2>1, <2>2
<1>7. \A k \in 1..Len(q) : at[k] \in 1..(Len(s) + 1) /\ Len(q[k]) \in Nat
  BY PartsGrow
\* The length of the text after k - 1 substitutions.
<1> DEFINE long == [k \in 1..Len(q) |-> Len(head(k)) + (Len(s) - at[k] + 1)]
<1>b. ASSUME NEW k \in 1..Len(q) PROVE long[k] \in Nat /\ long[k] = Len(head(k)) + (Len(s) - at[k] + 1)
  <2> DEFINE a == at[k]  l == Len(head(k))
  <2>1. a \in 1..(Len(s) + 1) /\ l \in Nat
    BY <1>5, <1>7
  <2>2. long[k] = l + (Len(s) - a + 1)
    BY Zenon
  <2> HIDE DEF long, a, l
  <2>3. l + (Len(s) - a + 1) \in Nat
    BY <1>2, <2>1
  <2> QED
    BY <2>2, <2>3, Zenon DEF a, l
<1>c. ASSUME NEW k \in 1..(Len(q) - 1)
      PROVE  /\ long[k + 1] + Len(sep) = long[k] + Len(new)
             /\ long[k + 1] = Len(head(k)) + Len(q[k]) + Len(new) + (Len(s) - (at[k] + Len(q[k]) + Len(sep)) + 1)
  <2>1. k \in 1..Len(q) /\ k + 1 \in 1..Len(q) /\ k + 1 # 1 /\ (k + 1) - 1 = k
    BY <1>4
  <2>2. SepBehind(s, sep, q, at, k)
    BY PieceIs
  <2>3. head(k + 1) = w[k] \o new /\ w[k] = head(k) \o q[k]
    BY <1>6, <2>1
  <2>4. head(k) \in Seq(S) /\ q[k] \in Seq(S)
    BY <1>5, <2>1, Element
  <2> HIDE DEF head, long
  <2>5. w[k] \in Seq(S) /\ Len(w[k]) = Len(head(k)) + Len(q[k])
    BY <2>3, <2>4, Concat
  <2>6. Len(head(k + 1)) = Len(w[k]) + Len(new)
    BY <2>3, <2>5, Concat
  <2> DEFINE a == at[k]  b == at[k + 1]  l == Len(q[k])  h == Len(head(k))  g == Len(head(k + 1))  v == Len(w[k])
             e == long[k]  f == long[k + 1]
  <2>7. /\ a \in 1..(Len(s) + 1) /\ b \in 1..(Len(s) + 1) /\ l \in Nat /\ a + l + Len(sep) = b
        /\ v = h + l /\ g = v + Len(new) /\ e = h + (Len(s) - a + 1) /\ f = g + (Len(s) - b + 1)
    BY <1>b, <2>1, <2>2, <2>5, <2>6, Zenon DEF SepBehind
  <2>8. h \in Nat /\ Len(new) \in Nat /\ Len(sep) \in Nat
    BY <2>4
  <2>a. e \in Nat /\ f \in Nat
    BY <1>b, <2>1
  <2> HIDE DEF a, b, l, h, g, v, e, f
  <2>b. v \in Nat /\ g \in Nat
    BY <2>7, <2>8
  <2>c. a \in Int /\ b \in Int
    BY <1>2, <2>7
  <2>d. f = h + l + Len(new) + (Len(s) - (a + l + Len(sep)) + 1)
    BY <2>7
  <2>e. a \in Nat /\ b \in Nat /\ l \in Nat /\ Len(s) \in Nat /\ f = (h + l + Len(new)) + (Len(s) - b + 1)
    BY <1>2, <2>7
  <2>f. f + Len(sep) = e + Len(new)
    <3>1. a \in Nat /\ b \in Nat /\ l \in Nat /\ h \in Nat /\ e \in Nat /\ f \in Nat
      BY <2>8, <2>a, <2>e
    <3>2. Len(s) \in Nat /\ Len(sep) \in Nat /\ Len(new) \in Nat
      BY <2>8, <2>e
    <3>3. GrowsByNew(Len(s), a, b, l, Len(sep), Len(new), h, e, f)
      BY <3>1, <3>2, LengthThen, Zenon
    <3>4. a + l + Len(sep) = b
      BY <2>7, Zenon
    <3>5. e = h + (Len(s) - a + 1)
      BY <2>7, Zenon
    <3>6. f = (h + l + Len(new)) + (Len(s) - b + 1)
      BY <2>e, Zenon
    <3> QED
      BY <3>3, <3>4, <3>5, <3>6, Zenon DEF GrowsByNew
  <2>9. f + Len(sep) = e + Len(new) /\ f = h + l + Len(new) + (Len(s) - (a + l + Len(sep)) + 1)
    BY <2>d, <2>f
  <2> QED
    BY <2>9, Zenon DEF a, l, h, e, f
<1>d. ASSUME NEW k \in 1..Len(q) PROVE long[k] < Room(s)
  <2>1. long[1] = Len(s)
    <3>1. head(1) = <<>> /\ at[1] = 1 /\ 1 \in 1..Len(q)
      BY <1>4 DEF Parts
    <3>2. long[1] = Len(<<>>) + (Len(s) - 1 + 1)
      <4> HIDE DEF head, long
      <4> QED
        BY <1>b, <3>1
    <3> HIDE DEF long
    <3> QED
      BY <1>2, <3>2
  <2>2. long[Len(q)] = Len(Join(q, new))
    <3>1. Len(q) \in 1..Len(q)
      BY <1>4
    <3>2. at[Len(q)] + Len(q[Len(q)]) = Len(s) + 1
      BY DEF Parts
    <3>3. head(Len(q)) \in Seq(S) /\ q[Len(q)] \in Seq(S) /\ w[Len(q)] = head(Len(q)) \o q[Len(q)]
      BY <1>5, <1>6, <3>1, Element
    <3> DEFINE h == head(Len(q))  p == q[Len(q)]  a == at[Len(q)]  e == long[Len(q)]
    <3>4. h \in Seq(S) /\ p \in Seq(S) /\ a \in 1..(Len(s) + 1) /\ a + Len(p) = Len(s) + 1 /\ w[Len(q)] = h \o p
      BY <1>7, <3>1, <3>2, <3>3, Zenon
    <3>5. e = Len(h) + (Len(s) - a + 1)
      BY <1>b, <3>1, Zenon
    <3> HIDE DEF long, h, p, a, e
    <3>6. Len(h \o p) = Len(h) + Len(p)
      BY <3>4, Concat
    <3>a. a \in Int /\ Len(p) \in Nat /\ Len(h) \in Nat
      BY <1>2, <3>4
    <3>b. Len(s) - a + 1 = Len(p)
      BY <1>2, <3>4, <3>a
    <3>7. e = Len(h \o p)
      BY <3>5, <3>6, <3>b
    <3> QED
      BY <1>1, <3>4, <3>7, Zenon DEF e
  <2>3. long \in [1..Len(q) -> Nat]
    <3>1. long = [k_1 \in 1..Len(q) |-> long[k_1]]
      BY Zenon
    <3> HIDE DEF long
    <3> QED
      BY <1>b, <3>1
  <2> HIDE DEF long
  <2>4. \A j \in 1..(Len(q) - 1) : long[j + 1] + Len(sep) = long[j] + Len(new)
    BY <1>c
  <2>5. Len(sep) \in Nat /\ Len(new) \in Nat
    OBVIOUS
  <2>6. long[k] <= long[1] \/ long[k] <= long[Len(q)]
    BY <1>4, <2>3, <2>4, <2>5, BelowAnEnd
  <2>7. Len(s) < Room(s) /\ Room(s) \in Nat
    BY RoomIs
  <2>8. long[k] \in Nat /\ long[Len(q)] < Room(s) /\ long[Len(q)] \in Nat
    BY <1>4, <1>b, <2>2
  <2> QED
    BY <1>2, <2>1, <2>6, <2>7, <2>8
<1>8. 0 \in P
  <2>1. head(1) = <<>> /\ at[1] = 1 /\ 1 \in 1..Len(q) /\ 0 \in 0..Len(s) /\ 1 = 0 + 1
    BY <1>2, <1>4 DEF Parts
  <2>2. Drop(s, 1 - 1) = s
    BY DEF Drop
  <2>3. state(1) = [s |-> s, from |-> 1]
    <3>1. <<>> \o s = s /\ Len(<<>>) + 1 = 1
      BY ConcatEmpty
    <3> HIDE DEF head
    <3> QED
      BY <2>1, <2>2, <3>1 DEF Behind
  <2>4. r[0] = [s |-> s, from |-> 1]
    BY <1>3 DEF Substituted
  <2> HIDE DEF state, head
  <2> QED
    BY <2>1, <2>3, <2>4
<1>9. ASSUME NEW m \in 0..(Len(s) - 1), m \in P PROVE m + 1 \in P
  <2>1. PICK k \in 1..Len(q) : Reached(m, k)
    BY <1>9
  <2>2. m + 1 \in 1..Len(s) /\ m + 1 \in 0..Len(s) /\ (m + 1) - 1 = m
    BY <1>2
  <2>3. r[m + 1] = Onwards(r[m], sep, new, Room(s))
    BY <1>3, <2>2 DEF Substituted, Onwards
  <2>4. r[m + 1] = Onwards(state(k), sep, new, Room(s))
    <3> HIDE DEF state
    <3> QED
      BY <2>1, <2>3
  <2>5. CASE k = Len(q)
    <3>1. Occurs(sep, s, at[k]) = {}
      BY <2>5 DEF Parts
    <3>2. Onwards(state(k), sep, new, Room(s)) = state(k)
      <4>1. head(k) \in Seq(S) /\ at[k] \in 1..(Len(s) + 1)
        BY <1>5, <1>7
      <4> HIDE DEF head
      <4> QED
        BY <3>1, <4>1, ReplacesNone
    <3>3. (m + 1) + 1 >= Len(q)
      BY <1>4, <2>1, <2>5
    <3>4. Reached(m + 1, k)
      <4> HIDE DEF state
      <4> QED
        BY <2>4, <2>5, <3>2, <3>3
    <3> QED
      BY <2>2, <3>4
  <2>6. CASE k # Len(q)
    <3>1. k \in 1..(Len(q) - 1) /\ k + 1 \in 1..Len(q) /\ k + 1 # 1 /\ (k + 1) - 1 = k
      BY <1>4, <2>6
    <3>2. k = m + 1
      BY <2>1, <2>6
    <3> DEFINE x == at[k] + Len(q[k])
    <3>3. /\ Occurs(sep, s, at[k]) # {} /\ x = Min(Occurs(sep, s, at[k]))
          /\ x + Len(sep) = at[k + 1] /\ q[k] = SubSeq(s, at[k], x - 1)
      <4>1. SepBehind(s, sep, q, at, k)
        BY <3>1, PieceIs
      <4>2. Occurs(sep, s, at[k]) # {} /\ x = Min(Occurs(sep, s, at[k]))
        BY <4>1, Zenon DEF SepBehind
      <4>3. x + Len(sep) = at[k + 1]
        BY <4>1, Zenon DEF SepBehind
      <4>4. q[k] = SubSeq(s, at[k], x - 1)
        BY <4>1, Zenon DEF SepBehind
      <4> HIDE DEF x
      <4> QED
        BY <4>2, <4>3, <4>4, Zenon
    <3>4. head(k + 1) = (head(k) \o SubSeq(s, at[k], x - 1)) \o new
      <4>1. head(k + 1) = w[k] \o new
        BY <3>1
      <4>2. w[k] = head(k) \o q[k]
        BY <1>6
      <4> HIDE DEF head, x
      <4> QED
        BY <3>3, <4>1, <4>2
    <3>5. head(k) \in Seq(S) /\ at[k] \in 1..(Len(s) + 1)
      BY <1>5, <1>7
    <3>7. Onwards(state(k), sep, new, Room(s)) = state(k + 1)
      <4>b. Room(s) \in Nat \ {0}
        BY RoomIs
      <4>a. Fits(s, sep, new, head(k), at[k], x, Room(s))
        <5>1. /\ long[k + 1] = Len(head(k)) + Len(q[k]) + Len(new) + (Len(s) - (at[k] + Len(q[k]) + Len(sep)) + 1)
              /\ long[k + 1] < Room(s)
          BY <1>c, <1>d, <3>1
        <5> DEFINE a == at[k]  l == Len(q[k])  h == Len(head(k))
        <5>2. a \in 1..(Len(s) + 1) /\ l \in Nat /\ h \in Nat
          BY <1>7, <3>5
        <5>3. h + l + Len(new) + (Len(s) - (a + l + Len(sep)) + 1) < Room(s)
          BY <5>1, Zenon
        <5> HIDE DEF a, l, h
        <5>4. Len(new) \in Nat /\ Len(sep) \in Nat
          OBVIOUS
        <5>5. h + ((a + l) - a) + Len(new) + (Len(s) - ((a + l) + Len(sep)) + 1) < Room(s)
          BY <1>2, <5>2, <5>3, <5>4
        <5> QED
          BY <3>3, <4>b, <5>5, Zenon DEF Fits, a, l, h
      <4> HIDE DEF head, x
      <4>1. Onwards(Behind(s, head(k), at[k]), sep, new, Room(s)) =
              Behind(s, (head(k) \o SubSeq(s, at[k], x - 1)) \o new, x + Len(sep))
        BY <3>5, <4>a, ReplacesNext
      <4> QED
        BY <3>3, <3>4, <4>1
    <3>8. Reached(m + 1, k + 1)
      <4> HIDE DEF state
      <4> QED
        BY <2>4, <3>2, <3>7
    <3> QED
      BY <2>2, <3>1, <3>8
  <2> QED
    BY <2>5, <2>6
<1>10. \A m \in 0..(Len(s) - 1) : m \in P => m + 1 \in P
  BY <1>9
<1>11. Len(s) \in P
  <2> HIDE DEF P
  <2>1. \A m \in 0..Len(s) : m \in P
    BY <1>2, <1>8, <1>10, Induct, Zenon
  <2> QED
    BY <1>2, <2>1
<1>12. r[Len(s)] = state(Len(q))
  <2>1. PICK k \in 1..Len(q) : Reached(Len(s), k)
    BY <1>11
  <2>2. k = Len(q)
    BY <1>2, <1>4, <2>1
  <2> HIDE DEF state
  <2> QED
    BY <2>1, <2>2
<1>13. Len(q) \in 1..Len(q)
  BY <1>4
<1>14. Drop(s, at[Len(q)] - 1) = q[Len(q)]
  <2>1. /\ q[Len(q)] = SubSeq(s, at[Len(q)], at[Len(q)] + Len(q[Len(q)]) - 1)
        /\ at[Len(q)] + Len(q[Len(q)]) = Len(s) + 1
    BY <1>13 DEF Parts
  <2>a. \A a \in 1..(Len(s) + 1), l \in Nat : a + l = Len(s) + 1 => a + l - 1 = Len(s)
    BY <1>2
  <2>b. at[Len(q)] + Len(q[Len(q)]) - 1 = Len(s)
    BY <1>7, <1>13, <2>1, <2>a, Zenon
  <2>2. q[Len(q)] = SubSeq(s, at[Len(q)], Len(s))
    BY <2>1, <2>b, Zenon
  <2>3. (at[Len(q)] - 1) + 1 = at[Len(q)]
    <3>1. \A a \in 1..(Len(s) + 1) : (a - 1) + 1 = a
      BY <1>2
    <3> QED
      BY <1>7, <1>13, <3>1, Zenon
  <2> QED
    BY <2>2, <2>3, Zenon DEF Drop
<1>15. r[Len(s)].s = w[Len(q)]
  <2>1. state(Len(q)).s = head(Len(q)) \o Drop(s, at[Len(q)] - 1)
    BY DEF Behind
  <2> HIDE DEF state, head
  <2> QED
    BY <1>6, <1>12, <1>13, <1>14, <2>1
<1> QED
  BY <1>1, <1>a, <1>15

\* One substitution of a repeated replacement.
Again(x, sep, new, room) == Replaced(x, sep, new, TRUE, room)

Shrinks(x, sep, new, room) ==
  Occurs(sep, x.s, 1) # {} /\ room \in Nat \ {0} /\ Len(x.s) < room /\ Len(new) < Len(sep)

\* A substitution makes the text longer by the difference of the two.
LEMMA ReplacedLength ==
  ASSUME NEW S, NEW sep \in Seq(S), NEW new \in Seq(S), NEW x \in [s : Seq(S), from : Nat \ {0}],
         NEW room, Shrinks(x, sep, new, room)
  PROVE  Len(Again(x, sep, new, room).s) = Len(x.s) - Len(sep) + Len(new)
<1>z. Occurs(sep, x.s, 1) # {} /\ room \in Nat \ {0} /\ Len(x.s) < room /\ Len(new) < Len(sep)
  BY Zenon DEF Shrinks
<1> DEFINE y == x.s  A == Occurs(sep, y, 1)  m == Min(A)  h == SubSeq(y, 1, m - 1)  d == Drop(y, m + Len(sep) - 1)
<1>0. y \in Seq(S)
  OBVIOUS
<1>1. m \in 1..(Len(y) - Len(sep) + 1)
  <2>1. 1 \in Nat \ {0} /\ A # {}
    BY <1>z
  <2>2. m \in A
    BY <1>0, <2>1, FirstOccurrence
  <2> QED
    BY <2>2 DEF Occurs
<1>2. Again(x, sep, new, room).s = Exchanged(room, y, new, m - 1, d)
  BY <1>z DEF Again, Replaced, Exchanged
<1>a. Len(y) < room /\ Len(new) < Len(sep) /\ room \in Nat \ {0}
  BY <1>z
<1> HIDE DEF m, A, y
<1>3. Len(y) \in Nat /\ Len(sep) \in Nat /\ Len(new) \in Nat
  BY <1>0
<1>5. h \in Seq(S) /\ Len(h) = m - 1
  <2>1. 1 \in 1..(Len(y) + 1) /\ m - 1 \in (1 - 1)..Len(y) /\ (m - 1) - 1 + 1 = m - 1
    BY <1>1, <1>3
  <2> QED
    BY <1>0, <2>1, Sub
<1>6. d \in Seq(S) /\ Len(d) = Len(y) - (m + Len(sep)) + 1
  <2>1. m + Len(sep) \in 1..(Len(y) + 1) /\ Len(y) \in ((m + Len(sep)) - 1)..Len(y) /\ m + Len(sep) - 1 + 1 = m + Len(sep)
    BY <1>1, <1>3
  <2>2. d = SubSeq(y, m + Len(sep), Len(y))
    BY <2>1 DEF Drop
  <2>3. Len(SubSeq(y, m + Len(sep), Len(y))) = Len(y) - (m + Len(sep)) + 1 /\ SubSeq(y, m + Len(sep), Len(y)) \in Seq(S)
    <3> DEFINE b == m + Len(sep)
    <3>1. b \in 1..(Len(y) + 1) /\ Len(y) \in (b - 1)..Len(y)
      BY <2>1
    <3> HIDE DEF b
    <3>2. SubSeq(y, b, Len(y)) \in Seq(S) /\ Len(SubSeq(y, b, Len(y))) = Len(y) - b + 1
      BY <1>0, <3>1, Sub
    <3> QED
      BY <3>2 DEF b
  <2> QED
    BY <2>2, <2>3
<1> HIDE DEF d
<1>4. Exchanged(room, y, new, m - 1, d) = (h \o new) \o d
  <2> DEFINE n == m - 1
  <2>1. /\ y \in Seq(S) /\ new \in Seq(S) /\ d \in Seq(S) /\ n \in 0..Len(y) /\ room \in Nat \ {0}
        /\ n + Len(new) + Len(d) < room
    BY <1>0, <1>1, <1>3, <1>6, <1>a
  <2> HIDE DEF n, h
  <2>2. WholeIfFits(room, y, new, n, d)
    BY <2>1, ExchangedIs
  <2> QED
    BY <2>1, <2>2 DEF WholeIfFits, n, h
<1> HIDE DEF h
<1>7. h \o new \in Seq(S) /\ Len(h \o new) = Len(h) + Len(new)
  BY <1>5, Concat
<1>8. Len((h \o new) \o d) = Len(h \o new) + Len(d)
  BY <1>6, <1>7, Concat
<1>9. Len((h \o new) \o d) = Len(y) - Len(sep) + Len(new)
  BY <1>1, <1>3, <1>5, <1>6, <1>7, <1>8
<1> QED
  BY <1>2, <1>4, <1>9 DEF y

\* Substituting from the start again, by something shorter, ends before the text does.
LEMMA RepeatedEnds ==
  ASSUME NEW S, NEW sep \in Seq(S), NEW new \in Seq(S), NEW s \in Seq(S), Len(new) < Len(sep)
  PROVE  ~Has(UpdateStr(s, sep, new, TRUE, Len(s)), sep)
<1>1. Len(s) \in Nat /\ TRUE \in BOOLEAN /\ Len(new) \in Nat /\ Len(sep) \in Nat
  OBVIOUS
<1>2. PICK r : Substituted(S, s, sep, new, TRUE, Len(s), r)
  BY <1>1, UpdateIs, Zenon
<1>3. ~Has(new, sep)
  BY <1>1 DEF Has, Occurs
<1>4. UpdateStr(s, sep, new, TRUE, Len(s)) = r[Len(s)].s
  BY <1>2, <1>3 DEF Substituted
<1>5. /\ r \in [0..Len(s) -> [s : Seq(S), from : Nat \ {0}]] /\ r[0].s = s
      /\ \A n \in 1..Len(s) : r[n] = Again(r[n - 1], sep, new, Room(s))
  <2>1. /\ r \in [0..Len(s) -> [s : Seq(S), from : Nat \ {0}]] /\ r[0] = [s |-> s, from |-> 1]
        /\ \A n \in 1..Len(s) : r[n] = Again(r[n - 1], sep, new, Room(s))
    BY <1>2, Zenon DEF Substituted, Again
  <2>2. r[0].s = s
    BY <2>1
  <2> QED
    BY <2>1, <2>2, Zenon
<1> DEFINE P == {m \in 0..Len(s) : Occurs(sep, r[m].s, 1) = {} \/ Len(r[m].s) + m <= Len(s)}
<1>6. 0 \in P
  BY <1>1, <1>5
<1>7. ASSUME NEW m \in 0..(Len(s) - 1), m \in P PROVE m + 1 \in P
  <2>1. m + 1 \in 1..Len(s) /\ m + 1 \in 0..Len(s) /\ m \in 0..Len(s) /\ (m + 1) - 1 = m
    BY <1>1
  <2>2. r[m + 1] = Again(r[m], sep, new, Room(s)) /\ r[m] \in [s : Seq(S), from : Nat \ {0}]
    BY <1>5, <2>1
  <2>3. CASE Occurs(sep, r[m].s, 1) = {}
    <3>1. r[m + 1] = r[m]
      BY <2>2, <2>3 DEF Again, Replaced
    <3> QED
      BY <2>1, <2>3, <3>1
  <2>4. CASE Occurs(sep, r[m].s, 1) # {}
    <3>1. Len(r[m].s) + m <= Len(s)
      BY <1>7, <2>4
    <3>3. Len(r[m].s) \in Nat
      BY <2>2
    <3>a. Room(s) \in Nat \ {0} /\ Len(s) < Room(s)
      BY RoomIs
    <3>b. Len(r[m].s) < Room(s)
      BY <1>1, <3>1, <3>3, <3>a
    <3>c. Shrinks(r[m], sep, new, Room(s))
      BY <2>4, <3>a, <3>b, Zenon DEF Shrinks
    <3>d. Len(Again(r[m], sep, new, Room(s)).s) = Len(r[m].s) - Len(sep) + Len(new)
      BY <2>2, <3>c, ReplacedLength
    <3>2. Len(r[m + 1].s) = Len(r[m].s) - Len(sep) + Len(new)
      BY <2>2, <3>d, Zenon
    <3>4. Len(r[m + 1].s) + (m + 1) <= Len(s)
      <4>1. \A u, v, g, l \in Nat : g < l /\ u + m <= Len(s) /\ v = u - l + g => v + (m + 1) <= Len(s)
        BY <1>1
      <4>2. Len(r[m + 1].s) \in Nat
        BY <1>5, <2>1
      <4>3. Len(new) < Len(sep)
        OBVIOUS
      <4> QED
        BY <1>1, <3>1, <3>2, <3>3, <4>1, <4>2, <4>3, Zenon
    <3> QED
      BY <2>1, <3>4
  <2> QED
    BY <2>3, <2>4
<1>8. \A m \in 0..(Len(s) - 1) : m \in P => m + 1 \in P
  BY <1>7
<1>9. Len(s) \in P
  <2> HIDE DEF P
  <2>1. \A m \in 0..Len(s) : m \in P
    BY <1>1, <1>6, <1>8, Induct, Zenon
  <2> QED
    BY <1>1, <2>1
<1>10. Occurs(sep, r[Len(s)].s, 1) = {}
  <2> DEFINE y == r[Len(s)].s
  <2>1. y \in Seq(S) /\ Len(y) \in Nat
    <3>1. r[Len(s)] \in [s : Seq(S), from : Nat \ {0}]
      BY <1>1, <1>5
    <3> QED
      BY <3>1
  <2>2. Occurs(sep, y, 1) = {} \/ Len(y) + Len(s) <= Len(s)
    BY <1>9
  <2> HIDE DEF y
  <2>3. Len(y) + Len(s) <= Len(s) => Occurs(sep, y, 1) = {}
    BY <1>1, <2>1 DEF Occurs
  <2> QED
    BY <2>2, <2>3 DEF y
<1> QED
  BY <1>4, <1>10 DEF Has

\* What an input of the family "split" comes to.
LEMMA SplitsAndReplaces ==
  ASSUME NEW S, NEW sep \in Seq(S), sep # <<>>, NEW new \in Seq(S), NEW s \in Seq(S)
  PROVE  LET pieces == SplitToCmd(s, sep) IN
         /\ Join(pieces, sep) = s
         /\ \A k \in DOMAIN pieces : ~Has(pieces[k], sep)
         /\ Len(Join(pieces, new)) < Room(s) => UpdateStr(s, sep, new, FALSE, Len(s)) = Join(pieces, new)
         /\ Len(new) < Len(sep) => ~Has(UpdateStr(s, sep, new, TRUE, Len(s)), sep)
<1> DEFINE q == SplitToCmd(s, sep)
<1>1. PartsFrom(S, s, sep, 1, q)
  BY PartsAre
<1> HIDE DEF q
<1>2. q \in Seq(Seq(S))
  BY <1>1 DEF PartsFrom
<1>3. PICK at : Parts(s, sep, 1, q, at)
  BY <1>1 DEF PartsFrom
<1>4. Join(q, sep) = s
  BY <1>2, <1>3, JoinsToText
<1>5. \A k \in DOMAIN q : ~Has(q[k], sep)
  <2>1. DOMAIN q = 1..Len(q)
    BY <1>2
  <2> QED
    BY <1>2, <1>3, <2>1, NoneLeft
<1>6. Len(Join(q, new)) < Room(s) => UpdateStr(s, sep, new, FALSE, Len(s)) = Join(q, new)
  BY <1>2, <1>3, OnePass
<1>7. Len(new) < Len(sep) => ~Has(UpdateStr(s, sep, new, TRUE, Len(s)), sep)
  BY RepeatedEnds
<1> QED
  BY <1>4, <1>5, <1>6, <1>7 DEF q

\* SplitToCmd and UpdateStr do what their users rely on, for every set of inputs.
THEOREM SplitCorrect == Spec => []SplitAndReplace
<1> DEFINE Given == input = [of |-> "nothing"] \/ input \in Inputs
<1>1. Init => Given
  BY DEF Init
<1>2. Given /\ [Next]_input => Given'
  BY DEF Next, Apply
<1>3. Given => SplitAndReplace
  <2> SUFFICES ASSUME Given, input.of = "split"
               PROVE  LET pieces == SplitToCmd(input.s, input.sep) IN
                      /\ Join(pieces, input.sep) = input.s
                      /\ \A k \in DOMAIN pieces : ~Has(pieces[k], input.sep)
                      /\ Len(Join(pieces, input.new)) < Room(input.s)
                           => UpdateStr(input.s, input.sep, input.new, FALSE, Len(input.s)) = Join(pieces, input.new)
                      /\ Len(input.new) < Len(input.sep)
                           => ~Has(UpdateStr(input.s, input.sep, input.new, TRUE, Len(input.s)), input.sep)
    BY DEF SplitAndReplace
  <2>1. input \in Inputs
    <3>1. [of |-> "nothing"].of # "split"
      OBVIOUS
    <3> QED
      BY <3>1
  <2>2. /\ input.s \in Seq(STRING) /\ input.new \in Seq(STRING)
        /\ input.sep \in Seq(STRING) /\ input.sep # <<>>
    BY <2>1, InputsAssumption
  <2> QED
    BY <2>2, SplitsAndReplaces
<1> QED
  BY <1>1, <1>2, <1>3, PTL DEF Spec
=============================================================================
