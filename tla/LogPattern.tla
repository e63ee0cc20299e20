----------------------------- MODULE LogPattern -----------------------------
(***************************************************************************)
(* LogFormatter (src/log.cpp): the parsing of a pattern into format items, *)
(* and what the items print.  A pattern is a sequence of characters.       *)
(***************************************************************************)
EXTENDS Integers, Sequences, SequencesExt, FiniteSetsExt

\* The format items; everything else is printed as it stands.
Items == {"m", "p", "r", "c", "t", "n", "d", "f", "l", "T", "F", "N"}
Letters == Items \cup {"a", "b", "x", "Y", "H"}     \* isalpha, as far as patterns use it

Text(str) == [kind |-> "text", str |-> str, fmt |-> <<>>]
Item(str, fmt) == [kind |-> "item", str |-> str, fmt |-> fmt]

First(S) == IF S = {} THEN 0 ELSE Min(S)

\* The placeholder that begins with the '%' at i: its name, the format between braces
\* and where the pattern goes on; next = 0: the brace is never closed.
Placeholder(p, i) ==
  LET stop  == First({n \in (i + 1)..Len(p) : p[n] \notin Letters \cup {"{", "}"}})
      open  == First({n \in (i + 1)..Len(p) : p[n] = "{"})
      close == First({n \in (open + 1)..Len(p) : p[n] = "}"})
  IN IF open # 0 /\ (stop = 0 \/ open < stop)
       THEN [str |-> SubSeq(p, i + 1, open - 1),
             fmt |-> IF close = 0 THEN <<>> ELSE SubSeq(p, open + 1, close - 1),
             next |-> IF close = 0 THEN 0 ELSE close + 1]
     ELSE [str |-> SubSeq(p, i + 1, IF stop = 0 THEN Len(p) ELSE stop - 1), fmt |-> <<>>,
           next |-> IF stop = 0 THEN Len(p) + 1 ELSE stop]

\* nstr is pushed before an item.  (Mutant: it is not, and the text comes out behind.)
NotFlushed(s) == s
Flushed(s) == IF s.nstr = <<>> THEN s ELSE [s EXCEPT !.vec = Append(@, Text(s.nstr)), !.nstr = <<>>]
PushItem(s, q) ==
  LET r == Flushed(s) IN [r EXCEPT !.vec = Append(@, Item(q.str, q.fmt)), !.i = q.next]

\* One round of the loop of init.
Round(p, s) ==
  LET c == p[s.i] q == Placeholder(p, s.i) IN
  IF c # "%" THEN [s EXCEPT !.nstr = Append(@, c), !.i = @ + 1]
  ELSE IF s.i < Len(p) /\ p[s.i + 1] = "%" THEN [s EXCEPT !.nstr = Append(@, "%"), !.i = @ + 1]
  ELSE IF q.next = 0
    THEN [s EXCEPT !.vec = Append(@, Text(<<"<<pattern_error>>">>)), !.error = TRUE, !.i = @ + 1]
  ELSE PushItem(s, q)

\* An item without a meaning becomes a text that says so.
Known(e) == e.kind = "text" \/ (Len(e.str) = 1 /\ e.str[1] \in Items)
init(p) ==
  LET s[n \in 0..Len(p)] ==
        IF n = 0 THEN [i |-> 1, nstr |-> <<>>, vec |-> <<>>, error |-> FALSE]
        ELSE LET r == s[n - 1] IN IF r.i > Len(p) THEN r ELSE Round(p, r)
      last == s[Len(p)]
      vec == IF last.nstr = <<>> THEN last.vec ELSE Append(last.vec, Text(last.nstr))
  IN [items |-> [k \in DOMAIN vec |->
                   IF Known(vec[k]) THEN vec[k] ELSE Text(<<"<<error_format %>>">> \o vec[k].str)],
      error |-> last.error \/ \E k \in DOMAIN vec : ~Known(vec[k])]

-----------------------------------------------------------------------------
\* What the items print for an event: ev gives the text of each letter but "d", whose
\* empty format stands for the default one.
DefaultFormat == <<"%Y:%m:%d %H:%M:%S">>
Prints(item, ev) ==
  IF item.kind = "text" THEN item.str
  ELSE IF item.str = <<"d">> THEN <<ev["d"]>> \o (IF item.fmt = <<>> THEN DefaultFormat ELSE item.fmt)
  ELSE <<ev[item.str[1]]>>
format(items, ev) == FlattenSeq([k \in DOMAIN items |-> Prints(items[k], ev)])
=============================================================================
