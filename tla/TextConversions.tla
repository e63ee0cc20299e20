-------------------------- MODULE TextConversions ---------------------------
(***************************************************************************)
(* A step per input: one function of the project is applied to one of a    *)
(* set of inputs and its result compared with what its users rely on.  The *)
(* file name patterns of PublicStrings are compared here, and Conversions  *)
(* adds the functions of the other modules.                                *)
(***************************************************************************)
EXTENDS PublicStrings

CONSTANT Inputs    \* records with a field "of", the function's family
VARIABLE input

ASSUME InputsAssumption ==
  \A i \in Inputs :
    /\ i.of = "match" => i.name \in Seq(STRING) /\ i.rules \in Seq(STRING)
    /\ i.of = "split" => /\ i.s \in Seq(STRING) /\ i.new \in Seq(STRING)
                         /\ i.sep \in Seq(STRING) /\ i.sep # <<>>

Init == input = [of |-> "nothing"]
Apply(i) == input' = i
Next == input.of = "nothing" /\ \E i \in Inputs : Apply(i)
Spec == Init /\ [][Next]_input

-----------------------------------------------------------------------------
\* name matches rule, '*' being any string: the places of name from which on it
\* matches what rule is from its j-th character on.
Glob(name, rule) ==
  LET from[j \in 1..(Len(rule) + 1)] ==
        IF j > Len(rule) THEN {Len(name) + 1}
        ELSE IF rule[j] = "*" THEN {i \in 1..(Len(name) + 1) : \E k \in from[j + 1] : i <= k}
        ELSE {i \in DOMAIN name : name[i] = rule[j] /\ i + 1 \in from[j + 1]}
  IN 1 \in from[1]

\* A rule without an asterisk only pins the two ends.
Describes(rule, name) ==
  IF "*" \in Range(rule) THEN Glob(name, rule) ELSE IsPrefix(rule, name) /\ IsSuffix(rule, name)

Join(pieces, sep) ==
  LET upto[n \in 0..Len(pieces)] ==    \* the first n pieces
        IF n = 0 THEN <<>> ELSE IF n = 1 THEN pieces[1] ELSE upto[n - 1] \o sep \o pieces[n]
  IN upto[Len(pieces)]

-----------------------------------------------------------------------------
(* Properties. *)

\* A list of rules takes exactly the names that one of its rules describes, however
\* the pieces between the asterisks overlap and whatever the case of the letters
\* (MatchStr chooses the files that are transferred, compressed or deleted).
MatchMeansGlob ==
  input.of = "match" =>
    LET rules == Range(SplitToCmd(ToUpper(input.rules), <<",">>)) IN
    MatchStr(input.name, input.rules) <=> \E r \in rules \ {<<>>} : Describes(r, ToUpper(input.name))

\* Splitting loses nothing; a single-pass replacement whose result fits into the buffer
\* exchanges exactly the separators, and a repeated one that makes the string shorter
\* ends with none left (paths and file lists are rewritten this way).
SplitAndReplace ==
  input.of = "split" =>
    LET pieces == SplitToCmd(input.s, input.sep) IN
    /\ Join(pieces, input.sep) = input.s
    /\ \A k \in DOMAIN pieces : ~Has(pieces[k], input.sep)
    /\ Len(Join(pieces, input.new)) < Room(input.s)
         => UpdateStr(input.s, input.sep, input.new, FALSE, Len(input.s)) = Join(pieces, input.new)
    /\ Len(input.new) < Len(input.sep)
         => ~Has(UpdateStr(input.s, input.sep, input.new, TRUE, Len(input.s)), input.sep)
=============================================================================
