---------------------------- MODULE MySQLValues -----------------------------
(***************************************************************************)
(* src/mysql.cpp: the values MySQLStmt binds to the parameters of a        *)
(* statement and the values the two kinds of results give back.            *)
(***************************************************************************)
EXTENDS Integers, Sequences, SequencesExt

CONSTANT SqlWidth   \* C integer type |-> number of its bits

SqlInts == DOMAIN SqlWidth
SqlUnsigned == {"uint8", "uint16", "uint32", "uint64"}

\* The integers of a C type, and the conversion to it.
RangeOf(k) == IF k \in SqlUnsigned THEN 0..(2^SqlWidth[k] - 1)
              ELSE -(2^(SqlWidth[k] - 1))..(2^(SqlWidth[k] - 1) - 1)
CastTo(k, v) ==
  LET p == v % 2^SqlWidth[k] IN
  IF k \in SqlUnsigned \/ p < 2^(SqlWidth[k] - 1) THEN p ELSE p - 2^SqlWidth[k]

-----------------------------------------------------------------------------
(* Parameters: MYSQL_BIND. *)

Unbound == [type |-> "zero", cap |-> 0, len |-> 0, unsigned |-> FALSE, pattern |-> 0, fits |-> TRUE]

\* Every bindIntN but bindInt8 sets is_unsigned.
IsUnsigned(k) == k # "int8"

\* BIND_COPY: the buffer of the parameter is allocated once and never enlarged.
BIND_COPY(b, size) ==
  LET cap == IF b.cap = 0 THEN size ELSE b.cap IN
  [b EXCEPT !.cap = cap, !.len = size, !.fits = @ /\ size <= cap]

\* BIND_COPY_LEN: enlarged when the previous value was shorter.  (Mutant: never.)
NeverEnlarged(b, size) == BIND_COPY(b, size)
BIND_COPY_LEN(b, size) ==
  LET cap == IF b.cap = 0 \/ b.len < size THEN size ELSE b.cap IN
  [b EXCEPT !.cap = cap, !.len = size, !.fits = @ /\ size <= cap]

BindInteger(b, k, v) ==
  [BIND_COPY(b, SqlWidth[k]) EXCEPT !.type = "int", !.unsigned = IsUnsigned(k), !.pattern = v % 2^SqlWidth[k]]
BindReal(b, size) == [BIND_COPY(b, size) EXCEPT !.type = "real"]
BindText(b, size) == [BIND_COPY_LEN(b, size) EXCEPT !.type = "text"]   \* string, blob, time
BindNull(b) == [b EXCEPT !.type = "null"]

Bind(b, v) ==
  CASE v.kind = "null" -> BindNull(b)
    [] v.kind = "text" -> BindText(b, v.size)
    [] v.kind = "real" -> BindReal(b, v.size)
    [] OTHER -> BindInteger(b, v.kind, v.value)

\* A parameter that is bound again and again, as in a loop over rows.
Rebound(values) == FoldLeft(Bind, Unbound, values)

\* bindX: the arguments of execStmt and queryStmt go to the parameters in order.
BindAll(args) == [i \in DOMAIN args |-> Bind(Unbound, args[i])]

\* What the server makes of an integer parameter of w bits.
ServerReads(b, w) ==
  IF b.unsigned \/ b.pattern < 2^(w - 1) THEN b.pattern ELSE b.pattern - 2^w

-----------------------------------------------------------------------------
(* Results. *)

\* MySQLRes: the server sends text, atoi and a conversion read it.
GetText(k, x) == CastTo(k, x)

\* MySQLStmtRes: the bytes of the column are read as the type that is asked for;
\* more bytes than the column has are not the column's.
AllocatedBits(column) == SqlWidth[column]
GetStmt(k, column, x) ==
  IF SqlWidth[k] <= AllocatedBits(column) THEN {CastTo(k, x)}
  ELSE {y \in RangeOf(k) : y % 2^AllocatedBits(column) = x % 2^AllocatedBits(column)}

\* MySQLRes::foreach: the callback may end the walk.
Foreach(rows, goOn) ==
  LET stops == {i \in DOMAIN rows : ~goOn[rows[i]]} IN
  IF stops = {} THEN rows ELSE SubSeq(rows, 1, CHOOSE i \in stops : \A j \in stops : i <= j)
=============================================================================
