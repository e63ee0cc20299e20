--------------------------- MODULE SqlStatements ---------------------------
(***************************************************************************)
(* src/tools/bak/_mysql.cpp, the wrapper under obttodb, dbtofile and their *)
(* likes: connections, and statements whose parameters and results are     *)
(* variables of the program.  A program is the sequence of the calls it    *)
(* makes; each operator below is one call's effect on its state.           *)
(*                                                                         *)
(* A word of SQL is one character of the model, and so is an error code.   *)
(***************************************************************************)
EXTENDS PublicStrings, DiskFiles, MySQLValues

CONSTANT MAXPARAMS
ASSUME MaxParamsAssumption == MAXPARAMS \in Nat \ {0}

-----------------------------------------------------------------------------
(* Connection. *)

\* Each piece is taken when a comma follows; the port is what is behind the fourth.
setdbopt(connstr) ==
  LET p == SplitToCmd(connstr, <<",">>)
      piece(k) == IF k < Len(p) THEN p[k] ELSE <<>>
  IN [ip |-> piece(1), user |-> piece(2), pwd |-> piece(3), dbname |-> piece(4),
      port |-> IF Len(p) > 4 THEN Atoi(p[5]) ELSE 0]

\* live: m_conn is not null.  staged is what the open transaction has done; crashed:
\* mysql_commit or mysql_rollback was called with a null pointer.
NewConnection == [state |-> 0, live |-> FALSE, auto |-> FALSE, rc |-> "not open", opened |-> 0, closed |-> 0,
                  staged |-> {}, stored |-> {}, crashed |-> FALSE]
CloseHandle(c) == IF c.live THEN [c EXCEPT !.live = FALSE, !.closed = @ + 1, !.staged = {}] ELSE c

\* The statement that sets the isolation level is misspelt, so rc ends as an error.
connecttodb(c, auto, reached, modeSet) ==
  IF c.state = 1 THEN c
  ELSE LET opened == [c EXCEPT !.live = TRUE, !.opened = @ + 1] IN
       IF reached /\ modeSet THEN [opened EXCEPT !.state = 1, !.auto = auto, !.rc = "syntax"]
       ELSE [CloseHandle(opened) EXCEPT !.rc = "failed", !.auto = IF reached THEN auto ELSE @]

\* A failed one closes the handle and leaves m_state at 1.
EndTransaction(c, answered, kept) ==
  IF c.state = 0 THEN [c EXCEPT !.rc = "not open"]
  ELSE IF ~c.live THEN [c EXCEPT !.crashed = TRUE]
  ELSE IF answered THEN [c EXCEPT !.rc = "ok", !.staged = {}, !.stored = @ \cup kept]
  ELSE [CloseHandle(c) EXCEPT !.rc = "failed"]
commit(c, answered) == EndTransaction(c, answered, c.staged)
rollback(c, answered) == EndTransaction(c, answered, {})

disconnect(c, answered) ==
  IF c.state = 0 THEN [c EXCEPT !.rc = "not open"]
  ELSE LET r == rollback(c, answered) IN IF r.crashed THEN r ELSE [CloseHandle(r) EXCEPT !.state = 0]

Stores(c, row) ==   \* a statement of this connection inserts row
  IF ~c.live THEN c ELSE IF c.auto THEN [c EXCEPT !.stored = @ \cup {row}] ELSE [c EXCEPT !.staged = @ \cup {row}]

ConnectionCall(c, call) ==
  IF c.crashed THEN c
  ELSE CASE call.name = "connecttodb" -> connecttodb(c, call.auto, call.reached, call.modeSet)
         [] call.name = "commit"      -> commit(c, call.answered)
         [] call.name = "rollback"    -> rollback(c, call.answered)
         [] call.name = "disconnect"  -> disconnect(c, call.answered)
         [] call.name = "insert"      -> Stores(c, call.row)

-----------------------------------------------------------------------------
(* SqlStatement::prepare. *)

\* ":256", ":255", ... ":1" become "?" wherever they stand.
Downwards == [i \in 1..MAXPARAMS |-> MAXPARAMS + 1 - i]
Placed(sql) == FoldLeft(LAMBDA s, n : UpdateStr(s, <<":">> \o Numeral(n), <<"?">>, FALSE, Len(s)), sql, Downwards)
Dated(sql) == IF Has(sql, <<"sysdate", "(", ")">>) THEN sql
              ELSE UpdateStr(sql, <<"sysdate">>, <<"sysdate", "(", ")">>, FALSE, Len(sql))
Rewritten(sql) == Dated(Placed(sql))
IsQuery(sql) == LET t == DeleteLChar(sql, " ") IN t # <<>> /\ t[1] \in {"select", "SELECT"}

\* A statement and what its program sees: h is the handle of the library, in and outs
\* the params_in and params_out of the wrapper; sent and got are the arguments that
\* reached the server and the rows that came back.  rc1 is that of the last prepare
\* that failed; until then it is uninitialised, and programs prepare first.
NoHandle == [prepared |-> FALSE, params |-> 0, fields |-> 0, bound |-> FALSE, binds |-> <<>>, results |-> <<>>,
             open |-> FALSE, rows |-> <<>>]
NewStatement(vars, table) ==
  [state |-> 0, rc |-> "not open", rc1 |-> "none", rpc |-> 0, query |-> FALSE, in |-> <<>>, outs |-> <<>>, maxbindin |-> 0,
   null |-> [i \in 1..MAXPARAMS |-> FALSE], length |-> [i \in 1..MAXPARAMS |-> 0],
   h |-> NoHandle, vars |-> vars, table |-> table, sent |-> <<>>, got |-> <<>>]

Unset == [i \in 1..MAXPARAMS |-> "unset"]
UnsetOut == [i \in 1..MAXPARAMS |-> [var |-> "unset", len |-> 0]]
Fails(s, rc) == [s EXCEPT !.rc = rc]
connect(s, open) ==
  IF s.state = 1 THEN s ELSE IF ~open THEN Fails(s, "not open") ELSE [s EXCEPT !.state = 1, !.rc = "ok", !.rpc = 0]
Disconnect(s) ==
  IF s.state = 0 THEN s ELSE [s EXCEPT !.state = 0, !.h = NoHandle, !.rc = "not open", !.rpc = 0]

Prepare(s, sql) ==
  LET text == Rewritten(sql) c == [s EXCEPT !.rc = "ok", !.rpc = 0] IN
  IF s.state = 0 THEN Fails(c, "not open")
  ELSE IF Has(text, <<"bad">>) THEN [c EXCEPT !.rc = "syntax", !.rc1 = "syntax", !.h = NoHandle]
  ELSE [c EXCEPT !.query = IsQuery(text), !.in = Unset, !.outs = UnsetOut, !.maxbindin = 0,
          !.h = [NoHandle EXCEPT !.prepared = TRUE, !.params = Cardinality(Occurs(<<"?">>, text, 1)),
                                 !.fields = IF IsQuery(text) THEN 1 ELSE 0]]

-----------------------------------------------------------------------------
(* bindin, bindout, execute, next. *)

\* A position out of range sets rc and is bound all the same.
Reach(pos, count) == pos < MAXPARAMS /\ pos <= count
bindin(s, pos, var) ==
  IF s.state = 0 THEN Fails(s, "not open")
  ELSE [s EXCEPT !.rc = IF Reach(pos, s.h.params) THEN @ ELSE "array bound", !.in[pos] = var, !.maxbindin = Max({@, pos})]
bindout(s, pos, var, len) ==
  IF s.state = 0 THEN Fails(s, "not open")
  ELSE [s EXCEPT !.rc = IF Reach(pos, s.h.fields) THEN @ ELSE "array bound", !.outs[pos] = [var |-> var, len |-> len]]

\* The library takes params_in once for a prepared statement; where the null flags and
\* the lengths it points to are set before every execution, from params_in as it is then.
Flagged(s) ==
  LET of(i) == s.vars[s.in[i]]
      texts == {i \in 1..s.maxbindin : s.in[i] # "unset" /\ of(i).kind \in {"text", "lob"}}
  IN [s EXCEPT !.null = [i \in DOMAIN @ |-> IF i \in texts THEN of(i).value = <<>> ELSE @[i]],
               !.length = [i \in DOMAIN @ |-> IF i \in texts THEN Len(of(i).value) ELSE @[i]]]
Bound(s) ==
  [s EXCEPT !.h = [@ EXCEPT !.bound = @ \/ s.h.params > 0 \/ s.h.fields > 0,
                            !.binds = IF s.h.params > 0 /\ ~s.h.bound THEN s.in ELSE @,
                            !.results = IF s.h.fields > 0 /\ ~s.h.bound THEN s.outs ELSE @]]
Sends(s, i) ==
  LET b == s.h.binds[i] v == s.vars[b] IN
  IF b = "unset" THEN <<>>
  ELSE IF v.kind \notin {"text", "lob"} THEN <<"int", CastTo(IF v.kind = "uint32" THEN "int32" ELSE v.kind, v.value[1])>>
  ELSE IF s.null[i] THEN <<"NULL">>
  ELSE IF s.length[i] > Len(v.value) THEN v.value \o <<"whatever is behind it">>
  ELSE AtMost(v.value, s.length[i])

Execute(s, accepted) ==
  LET c == [s EXCEPT !.rc = "ok", !.rpc = 0] b == Flagged(Bound(c)) IN
  IF s.state = 0 THEN Fails(c, "not open")
  ELSE IF ~s.h.prepared THEN Fails(Flagged(c), s.rc1)
  ELSE IF ~accepted THEN [Fails(b, "refused") EXCEPT !.h.open = FALSE, !.h.rows = <<>>]
  ELSE [b EXCEPT !.sent = Append(@, [i \in 1..s.h.params |-> Sends(b, i)]), !.rpc = IF s.query THEN 0 ELSE 1,
                 !.h.open = s.query, !.h.rows = IF s.query THEN s.table ELSE <<>>]

next(s) ==
  IF s.state = 0 THEN Fails(s, "not open")
  ELSE IF s.rc # "ok" THEN s
  ELSE IF ~s.query THEN Fails(s, "no recordset")
  ELSE IF ~s.h.open THEN Fails(s, "out of sync")
  ELSE IF s.h.rows = <<>> THEN s
  ELSE LET out == s.h.results[1] row == Head(s.h.rows)
           put(v) == IF out.var = "unset" THEN v ELSE [v EXCEPT ![out.var].value = AtMost(row, out.len)]
       IN [s EXCEPT !.rpc = @ + 1, !.h.rows = Tail(@), !.got = Append(@, row), !.vars = put(@)]

Call(s, c) ==
  CASE c.name = "connect"    -> connect(s, c.open)    [] c.name = "disconnect" -> Disconnect(s)
    [] c.name = "prepare"    -> Prepare(s, c.sql)     [] c.name = "bindin"     -> bindin(s, c.pos, c.var)
    [] c.name = "bindout"    -> bindout(s, c.pos, c.var, c.len)
    [] c.name = "execute"    -> Execute(s, c.accepted) [] c.name = "next"      -> next(s)
    [] c.name = "set"        -> [s EXCEPT !.vars[c.var].value = c.value]

-----------------------------------------------------------------------------
(* filetobuf, buftofile. *)

filetobuf(disk, path) == IF path \in DOMAIN disk.files THEN disk.files[path] ELSE <<>>

\* written: what fwrite reports as written.
buftofile(disk, path, buffer, written) ==
  LET tmp == TmpName(path)
      made == [disk EXCEPT !.files = (tmp :> AtMost(buffer, written)) @@ @]
  IN IF buffer = <<>> \/ Front(path) \notin disk.dirs \/ (tmp \notin DOMAIN disk.files /\ Front(path) \in disk.deny)
       THEN [ok |-> FALSE, disk |-> disk]
     ELSE IF written < Len(buffer) THEN [ok |-> FALSE, disk |-> remove(made, tmp)]
     ELSE rename(made, tmp, path)
=============================================================================
