--------------------------- MODULE PublicStrings ---------------------------
(***************************************************************************)
(* The string functions of src/_public.cpp that the tools build on: bounded *)
(* copies, substitution, splitting, file name patterns, XML fields, times  *)
(* and the reading of records.                                             *)
(*                                                                         *)
(* A string is the sequence of its characters, without the final 0; a      *)
(* buffer's size counts that 0.                                            *)
(***************************************************************************)
EXTENDS Integers, Sequences, SequencesExt, Functions, FiniteSetsExt

CONSTANT Zone    \* seconds the local time is ahead of UTC
ASSUME ZoneAssumption == Zone \in Int

Digits == <<"0", "1", "2", "3", "4", "5", "6", "7", "8", "9">>
DigitOf(c) == (CHOOSE i \in DOMAIN Digits : Digits[i] = c) - 1
IsDigit(c) == \E i \in DOMAIN Digits : Digits[i] = c

Upper == [a |-> "A", b |-> "B", c |-> "C", d |-> "D", e |-> "E", f |-> "F", g |-> "G",
          h |-> "H", i |-> "I", j |-> "J", k |-> "K", l |-> "L", m |-> "M", n |-> "N",
          o |-> "O", p |-> "P", q |-> "Q", r |-> "R", s |-> "S", t |-> "T", u |-> "U",
          v |-> "V", w |-> "W", x |-> "X", y |-> "Y", z |-> "Z"]
ToUpper(s) == [i \in DOMAIN s |-> IF s[i] \in DOMAIN Upper THEN Upper[s[i]] ELSE s[i]]
ToLower(s) == [i \in DOMAIN s |-> IF s[i] \in Range(Upper)
                                    THEN CHOOSE c \in DOMAIN Upper : Upper[c] = s[i] ELSE s[i]]

-----------------------------------------------------------------------------
(* Bounded copies. *)

AtMost(s, n) == SubSeq(s, 1, Min({n, Len(s)}))
Drop(s, n) == SubSeq(s, n + 1, Len(s))

STRCPY(destlen, src) == AtMost(src, destlen - 1)
STRNCPY(destlen, src, n) == AtMost(src, Min({n, destlen - 1}))
STRCAT(dest, destlen, src) == dest \o AtMost(src, destlen - 1 - Len(dest))
STRNCAT(dest, destlen, src, n) == dest \o AtMost(src, Min({n, destlen - 1 - Len(dest)}))

DeleteLChar(s, c) ==
  LET kept == {i \in DOMAIN s : s[i] # c} IN IF kept = {} THEN <<>> ELSE Drop(s, Min(kept) - 1)
DeleteRChar(s, c) ==
  LET kept == {i \in DOMAIN s : s[i] # c} IN IF kept = {} THEN <<>> ELSE AtMost(s, Max(kept))
DeleteLRChar(s, c) == DeleteRChar(DeleteLChar(s, c), c)

-----------------------------------------------------------------------------
(* Searching, substituting, splitting. *)

\* Where sub occurs in s, not before position from.
Occurs(sub, s, from) ==
  {i \in from..(Len(s) - Len(sub) + 1) : SubSeq(s, i, i + Len(sub) - 1) = sub}
Has(s, sub) == Occurs(sub, s, 1) # {}

\* UpdateStr: one substitution after the other, each behind the last one or, with
\* bloop, from the start again.  The text is put together in a buffer of the size Room:
\* one that outgrows it is cut.  fuel bounds the substitutions the model follows.
Room(str) == IF 10 * Len(str) < 1000 THEN 1000 ELSE 10 * Len(str)
Replaced(r, str1, str2, bloop, room) ==
  LET at == Occurs(str1, r.s, IF bloop THEN 1 ELSE r.from) IN
  IF at = {} THEN r
  ELSE [s |-> STRCAT(STRCAT(STRNCPY(room, r.s, Min(at) - 1), room, str2),
                     room, Drop(r.s, Min(at) + Len(str1) - 1)),
        from |-> Min(at) + Len(str2)]
UpdateStr(str, str1, str2, bloop, fuel) ==
  LET step[n \in 0..fuel] ==
        IF n = 0 THEN [s |-> str, from |-> 1]
        ELSE Replaced(step[n - 1], str1, str2, bloop, Room(str))
  IN IF bloop /\ Has(str2, str1) THEN str ELSE step[fuel].s

\* SplitToCmd.  (Mutant: the rest after the last separator is forgotten when empty.)
Pieces(s, sep) ==
  LET split[i \in 1..(Len(s) + 1)] ==
        LET at == Occurs(sep, s, i)
        IN IF at = {} THEN <<Drop(s, i - 1)>>
           ELSE <<SubSeq(s, i, Min(at) - 1)>> \o split[Min(at) + Len(sep)]
  IN split[1]
ForgetsEmptyEnd(s, sep) ==
  LET pieces == Pieces(s, sep) IN IF Last(pieces) = <<>> THEN Front(pieces) ELSE pieces
SplitToCmd(s, sep) == Pieces(s, sep)

Atoi(s) ==
  LET t == DeleteLChar(s, " ")
      signed == t # <<>> /\ t[1] \in {"+", "-"}
      u == IF signed THEN Tail(t) ELSE t
      end == {i \in DOMAIN u : ~IsDigit(u[i])}
      n == FoldLeft(LAMBDA acc, c : acc * 10 + DigitOf(c), 0,
                    IF end = {} THEN u ELSE AtMost(u, Min(end) - 1))
  IN IF signed /\ t[1] = "-" THEN -n ELSE n

IsTrue(s) == ToUpper(AtMost(s, 10)) = <<"T", "R", "U", "E">>

\* GetValue: ilen = 0 means no limit; "none" when there is no such piece.
GetValue(pieces, inum, ilen) ==
  IF inum + 1 > Len(pieces) THEN <<"none">>
  ELSE IF ilen = 0 THEN pieces[inum + 1] ELSE AtMost(pieces[inum + 1], ilen)

PieceInt(pieces, inum) == IF inum + 1 > Len(pieces) THEN 0 ELSE Atoi(pieces[inum + 1])
PieceBool(pieces, inum) == inum + 1 <= Len(pieces) /\ IsTrue(pieces[inum + 1])

-----------------------------------------------------------------------------
(* MatchStr. *)

\* The pieces between the asterisks are looked for one behind the other; the first
\* and the last are compared with the ends of the name too.
\* (Mutant: each piece is looked for from the start of the name.)
FromTheStart(name, piece, from) == Occurs(piece, name, 1)
FoundFrom(name, piece, from) == Occurs(piece, name, from)
MatchOne(name, rule) ==
  LET pieces == SplitToCmd(rule, <<"*">>)
      \* where the search goes on after the first n pieces; 0: no match
      upto[n \in 0..Len(pieces)] ==
        IF n = 0 THEN 1
        ELSE LET p == pieces[n] from == upto[n - 1]
                 at == IF from = 0 THEN {} ELSE FoundFrom(name, p, from)
             IN IF \/ n = 1 /\ ~IsPrefix(p, name)
                   \/ n = Len(pieces) /\ ~IsSuffix(p, name)
                   \/ at = {}
                  THEN 0 ELSE Min(at) + Len(p)
  IN upto[Len(pieces)] # 0

MatchStr(str, rules) ==
  /\ rules # <<>>
  /\ \/ rules = <<"*">>
     \/ \E rule \in Range(SplitToCmd(ToUpper(rules), <<",">>)) :
          rule # <<>> /\ MatchOne(ToUpper(str), rule)

-----------------------------------------------------------------------------
(* GetXMLBuffer. *)

Tag(name) == <<"<">> \o name \o <<">">>
EndTag(name) == <<"<", "/">> \o name \o <<">">>

GetXMLBuffer(xml, name, ilen) ==
  LET cut(value) == DeleteLRChar(IF ilen = 0 THEN value ELSE AtMost(value, ilen), " ")
      between(start, ends) ==
        IF ends = {} THEN [ok |-> FALSE, value |-> <<>>]
        ELSE [ok |-> TRUE, value |-> cut(SubSeq(xml, start + Len(name) + 2, Min(ends) - 1))]
      after(starts) ==
        IF starts = {} THEN [ok |-> FALSE, value |-> <<>>]
        ELSE between(Min(starts), Occurs(EndTag(name), xml, Min(starts)))
  IN after(Occurs(Tag(name), xml, 1))

XmlBool(xml, name) ==
  LET isTrue(f) == f.ok /\ IsTrue(f.value) IN isTrue(GetXMLBuffer(xml, name, 10))
XmlInt(xml, name) ==
  LET asInt(f) == [ok |-> f.ok, value |-> IF f.ok THEN Atoi(f.value) ELSE 0]
  IN asInt(GetXMLBuffer(xml, name, 50))

-----------------------------------------------------------------------------
(* Times. *)

\* PickNumber.
PickNumber(src, bsigned, bdot) ==
  SelectSeq(DeleteLRChar(src, " "),
            LAMBDA c : IsDigit(c) \/ (bsigned /\ c \in {"+", "-"}) \/ (bdot /\ c = "."))

\* mktime and localtime, for a fixed offset of the time zone: days since 1970-01-01
\* of a date, and back.
Days(y, m, d) ==
  LET yy == IF m > 2 THEN y ELSE y - 1
      mm == IF m > 2 THEN m - 3 ELSE m + 9
      era == yy \div 400
      yoe == yy - era * 400
  IN era * 146097 + yoe * 365 + yoe \div 4 - yoe \div 100 + (153 * mm + 2) \div 5 + d - 1 - 719468
Date(days) ==
  LET z == days + 719468
      doe == z % 146097
      yoe == (doe - doe \div 1460 + doe \div 36524 - doe \div 146096) \div 365
      doy == doe - (365 * yoe + yoe \div 4 - yoe \div 100)
      mm == (5 * doy + 2) \div 153
      m == IF mm < 10 THEN mm + 3 ELSE mm - 9
  IN [d |-> doy - (153 * mm + 2) \div 5 + 1, m |-> m,
      y |-> yoe + (z \div 146097) * 400 + (IF m <= 2 THEN 1 ELSE 0)]

\* A month outside 1..12 carries over into the year.
Mktime(y, m, d, hh, mi, ss) ==
  Days(y + ((m - 1) \div 12), ((m - 1) % 12) + 1, d) * 86400 + hh * 3600 + mi * 60 + ss - Zone

strtotime(stime) ==
  LET n == PickNumber(stime, FALSE, FALSE)
      num(i, len) == Atoi(SubSeq(n, i, i + len - 1))
  IN IF Len(n) # 14 THEN -1
     ELSE Mktime(num(1, 4), num(5, 2), num(7, 2), num(9, 2), num(11, 2), num(13, 2))

Pad(n, width) == [i \in 1..width |-> Digits[((n \div 10^(width - i)) % 10) + 1]]
Numeral(n) ==
  LET width == CHOOSE w \in 1..10 : n < 10^w /\ (w = 1 \/ n >= 10^(w - 1)) IN Pad(n, width)

\* The formats timetostr knows; any other leaves the result empty.
Formats == {
  <<"yyyy", "-", "mm", "-", "dd", " ", "hh24", ":", "mi", ":", "ss">>,
  <<"yyyy", "-", "mm", "-", "dd", " ", "hh24", ":", "mi">>,
  <<"yyyy", "-", "mm", "-", "dd", " ", "hh24">>, <<"yyyy", "-", "mm", "-", "dd">>,
  <<"yyyy", "-", "mm">>,
  <<"yyyy", "mm", "dd", "hh24", "mi", "ss">>, <<"yyyy", "mm", "dd", "hh24", "mi">>,
  <<"yyyy", "mm", "dd", "hh24">>, <<"yyyy", "mm", "dd">>,
  <<"hh24", "mi", "ss">>, <<"hh24", "mi">>, <<"hh24">>, <<"mi">>}

\* (Mutant: the month is the tm_mon of struct tm, 0 to 11.)
MonthFromZero(dt) == dt.m - 1
Month(dt) == dt.m
timetostr(ltime, fmt) ==
  LET local == ltime + Zone
      dt == Date(local \div 86400)
      s == local % 86400
      part(p) == CASE p = "yyyy" -> Pad(dt.y, 4)        [] p = "mm" -> Pad(Month(dt), 2)
                   [] p = "dd"   -> Pad(dt.d, 2)        [] p = "hh24" -> Pad(s \div 3600, 2)
                   [] p = "mi"   -> Pad((s \div 60) % 60, 2) [] p = "ss" -> Pad(s % 60, 2)
                   [] OTHER      -> <<p>>
  IN IF fmt \in Formats THEN FlattenSeq([i \in DOMAIN fmt |-> part(fmt[i])]) ELSE <<>>

\* <<>> when stime is not a time.
AddTime(stime, timetvl, fmt) ==
  LET t == strtotime(stime) IN IF t = -1 THEN <<>> ELSE timetostr(t + timetvl, fmt)

-----------------------------------------------------------------------------
(* Reading records: FGETS, CFile::Fgets and CFile::FFGETS. *)

\* fgets(3) with a buffer of size bytes.
fgets(file, size) ==
  LET nl == {i \in DOMAIN file : file[i] = "\n"}
  IN AtMost(file, IF nl = {} THEN size - 1 ELSE Min({Min(nl), size - 1}))

\* Lines are put together until one contains endbz (<<>>: any line is a record).  A
\* record that does not fit, and the end of the file, end the reading.
FGETS(file, readsize, endbz) ==
  LET read[n \in 0..Len(file)] ==    \* after n lines
        IF n = 0 THEN [st |-> "more", buf |-> <<>>, rest |-> file]
        ELSE LET r == read[n - 1] line == fgets(r.rest, readsize)
             IN IF r.st # "more" THEN r
                ELSE IF line = <<>> THEN [r EXCEPT !.st = "end"]
                ELSE IF Len(r.buf) + Len(line) >= readsize
                  THEN [r EXCEPT !.st = "end", !.rest = Drop(@, Len(line))]
                ELSE [st |-> IF endbz = <<>> \/ Has(line, endbz) THEN "ok" ELSE "more",
                      buf |-> r.buf \o line, rest |-> Drop(r.rest, Len(line))]
      last == read[Len(file)]
  IN [ok |-> last.st = "ok", buffer |-> last.buf, rest |-> last.rest]

\* while (FGETS(...)): what a program that reads a file to its end sees.
Records(file, readsize, endbz) ==
  LET next[n \in 0..Len(file)] ==
        IF n = 0 THEN [go |-> TRUE, got |-> <<>>, rest |-> file]
        ELSE LET s == next[n - 1] r == FGETS(s.rest, readsize, endbz)
             IN IF ~s.go \/ ~r.ok THEN [s EXCEPT !.go = FALSE]
                ELSE [go |-> TRUE, got |-> Append(s.got, r.buffer), rest |-> r.rest]
  IN next[Len(file)].got
=============================================================================
