----------------------------- MODULE BatchTools -----------------------------
(***************************************************************************)
(* The programs between the weather data, its files and the database:      *)
(* crtdata and crtsurfdata write a file of observations, obttodb (and its  *)
(* predecessors obtcodetodb, obtdatatodb) stores stations and              *)
(* observations, dbtofile writes the result of a query into files.         *)
(*                                                                         *)
(* A text is a sequence of characters and field names.  A table is a       *)
(* function from the key to the row.  The functions that use a connection  *)
(* are given one that exists (obttodb.cpp and dbtofile.cpp never create    *)
(* theirs); a connection that is refused ends them at once.  Quotes are    *)
(* single and the spaces of JSON are left out, and so are the latitude,    *)
(* longitude and height that crtdata reads and never uses.                 *)
(***************************************************************************)
EXTENDS DiskFiles

-----------------------------------------------------------------------------
(* Stations: a line of six fields, trimmed and cut. *)

Line(s) == LET p == SplitToCmd(s, <<",">>) IN [i \in DOMAIN p |-> DeleteLRChar(p[i], " ")]

\* A line is a station when it has six fields.
Stations(lines, widths) ==
  LET six == SelectSeq([i \in DOMAIN lines |-> Line(lines[i])], LAMBDA p : Len(p) = 6)
  IN [i \in DOMAIN six |-> [j \in 1..6 |-> GetValue(six[i], j - 1, widths[j])]]

LoadStcode(lines) ==
  LET s == Stations(lines, <<30, 10, 30, 50, 50, 50>>) IN [i \in DOMAIN s |-> s[i][2]]

\* crtsurfdata and obtcodetodb read the lines into a buffer of 300 and remove the line end.
ReadLines(file) ==
  LET r == Records(file, 300, <<>>)
  IN [i \in DOMAIN r |-> DeleteRChar(DeleteRChar(r[i], "\n"), "\r")]
LoadSTCode(file) == LoadStcode(ReadLines(file))

-----------------------------------------------------------------------------
(* Observations.  The measured values come from rand(), in these ranges. *)

Ranges == [t |-> 0..350, p |-> 10000..10255, u |-> 1..100, wd |-> 0..359, wf |-> 0..149,
           r |-> 0..15, vis |-> 100000..105000]
FieldNames == <<"obtid", "ddatetime", "t", "p", "u", "wd", "wf", "r", "vis">>
InTenths == {"t", "p", "wf", "r", "vis"}

\* One observation of each station; values[i] is drawn for the i-th.
CrtSurfData(obtids, ddatetime, values) ==
  [i \in DOMAIN obtids |->
    [obtid |-> AtMost(obtids[i], 10), ddatetime |-> AtMost(ddatetime, 14),
     t |-> values[i].t, p |-> values[i].p, u |-> values[i].u, wd |-> values[i].wd,
     wf |-> values[i].wf, r |-> values[i].r, vis |-> values[i].vis]]

\* ostream << n / 10.0, and "%.1f".
Tenths(n) == Numeral(n \div 10) \o (IF n % 10 = 0 THEN <<>> ELSE <<".">> \o Numeral(n % 10))
Tenths1(n) == Numeral(n \div 10) \o <<".">> \o Numeral(n % 10)

Shown(d, f, fixed) ==
  IF f \in {"obtid", "ddatetime"} THEN d[f]
  ELSE IF f \notin InTenths THEN Numeral(d[f]) ELSE IF fixed THEN Tenths1(d[f]) ELSE Tenths(d[f])

Ended(text) == text \o Tag(<<"endl">>) \o <<"\n">>
XmlRecord(d, fixed) ==
  Ended(FlattenSeq([k \in DOMAIN FieldNames |->
          Tag(<<FieldNames[k]>>) \o Shown(d, FieldNames[k], fixed) \o EndTag(<<FieldNames[k]>>)]))
CsvRecord(d, fixed, sep) ==
  FlattenSeq([k \in DOMAIN FieldNames |->
    (IF k = 1 THEN <<>> ELSE sep) \o Shown(d, FieldNames[k], fixed)]) \o <<"\n">>
JsonRecord(d, fixed, last) ==
  <<"{">> \o FlattenSeq([k \in DOMAIN FieldNames |->
     (IF k = 1 THEN <<>> ELSE <<",">>)
       \o <<"'", FieldNames[k], "'", ":", "'">> \o Shown(d, FieldNames[k], fixed) \o <<"'">>])
     \o <<"}">> \o (IF last THEN <<>> ELSE <<",">>) \o <<"\n">>

Written(datafmt, data, fixed, sep) ==
  CASE datafmt = "csv"  -> <<"title", "\n">> \o FlattenSeq([i \in DOMAIN data |-> CsvRecord(data[i], fixed, sep)])
    [] datafmt = "xml"  -> Tag(<<"data">>) \o <<"\n">>
                             \o FlattenSeq([i \in DOMAIN data |-> XmlRecord(data[i], fixed)])
                             \o EndTag(<<"data">>) \o (IF fixed THEN <<"\n">> ELSE <<>>)
    [] datafmt = "json" -> <<"{", "'", "data", "'", ":", "[", "\n">>
                             \o FlattenSeq([i \in DOMAIN data |-> JsonRecord(data[i], fixed, i = Len(data))])
                             \o <<"]", "}", "\n">>

\* crtdata appends to <name>.bak (in a directory that is there) and renames it.
BakName(path) == Append(Front(path), Last(path) \o <<".bak">>)
writeToFile(disk, path, datafmt, data) ==
  LET bak == BakName(path) opened == FOPEN(disk, bak, "a") IN
  IF Front(path) \notin disk.dirs \/ ~opened.ok THEN disk
  ELSE RENAME(Printed(opened.disk, bak, Written(datafmt, data, FALSE, <<",">>)), bak, path).disk
CrtSurfFile(disk, path, datafmt, data) ==
  LET s == OpenForRename(NewFile(disk), path, "w") IN
  IF s.fp = <<>> THEN s.disk
  ELSE CloseAndRename(Fprintf(s, Written(datafmt, data, TRUE, <<",", " ">>))).disk

-----------------------------------------------------------------------------
(* obttodb: observations.  A second row of a key is refused with 1062. *)

\* snprintf("%d", (int)(atof(tmp) * 10)) for what Tenths writes.
TimesTen(s) ==
  LET dot == {i \in DOMAIN s : s[i] = "."}
      tenth == IF dot = {} \/ Max(dot) = Len(s) THEN 0 ELSE DigitOf(s[Max(dot) + 1])
  IN IF s = <<>> THEN <<>> ELSE Numeral(Atoi(s) * 10 + tenth)

\* What a record of the file is stored as; obtdatatodb keeps the decimals.
Observation(record, ten) ==
  [f \in Range(FieldNames) |->
    LET v == GetXMLBuffer(record, <<f>>, IF f = "ddatetime" THEN 14 ELSE 10).value
    IN IF ten /\ f \in InTenths THEN TimesTen(v) ELSE v]

KeyOf(o) == <<o.obtid, o.ddatetime>>
Insert(table, row) == IF KeyOf(row) \in DOMAIN table THEN table ELSE (KeyOf(row) :> row) @@ table

\* Rows of refused keys fail with another error, which is logged.
StoreRecord(table, record, ten, refused) ==
  LET stored(o) == IF KeyOf(o) \in refused THEN table ELSE Insert(table, o)
  IN stored(Observation(record, ten))
StoreFile(table, file, ten, refused) ==
  FoldLeft(LAMBDA t, record : StoreRecord(t, record, ten, refused), table, Records(file, 1000, Tag(<<"endl">>)))

\* Each file is committed; one that cannot be opened ends the program.
dataToDB(table, files, refused) ==
  FoldLeft(LAMBDA s, file : IF ~s.ok THEN s
                            ELSE IF file = "unreadable" THEN [s EXCEPT !.ok = FALSE]
                            ELSE [s EXCEPT !.table = StoreFile(@, file, TRUE, refused)],
           [ok |-> TRUE, table |-> table], files)
obtDataToDB(table, files, refused) ==
  FoldLeft(LAMBDA t, file : StoreFile(t, file, FALSE, refused), table, files)

-----------------------------------------------------------------------------
(* obttodb: stations.  The rows of the table also have an id. *)

CodeRow(s, id) == [id |-> id, provname |-> s[1], cityname |-> s[3], lat |-> s[4], lon |-> s[5], height |-> s[6]]

\* "update ... where id=:6" with the obtid for :6.
UpdateById(table, s) ==
  [k \in DOMAIN table |-> IF table[k].id = s[2] THEN CodeRow(s, table[k].id) ELSE table[k]]

\* ids[k] is the id the server gives to a new row of key k.
StoreCode(state, s, ids, failing) ==
  IF ~state.ok THEN state
  ELSE IF s[2] \in failing THEN [state EXCEPT !.ok = FALSE]
  ELSE IF s[2] \in DOMAIN state.table THEN [state EXCEPT !.table = UpdateById(@, s)]
  ELSE [state EXCEPT !.table = (s[2] :> CodeRow(s, ids[s[2]])) @@ @]

\* Whatever fails ends the program, whose connection then rolls everything back.
\* obttodb cuts the positions to 5 characters, obtcodetodb to 10.
Codes(table, stations, ids, failing) ==
  LET s == FoldLeft(LAMBDA st, x : StoreCode(st, x, ids, failing), [ok |-> TRUE, table |-> table], stations)
  IN IF s.ok THEN s ELSE [s EXCEPT !.table = table]
codeToDB(table, lines, ids, failing) == Codes(table, Stations(lines, <<30, 10, 30, 5, 5, 5>>), ids, failing)
obtCodeToDB(table, file, ids, failing) ==
  Codes(table, Stations(ReadLines(file), <<30, 10, 30, 10, 10, 10>>), ids, failing)

-----------------------------------------------------------------------------
(* dbtofile. *)

\* selInDB: names and lengths of the fields; that there are as many of the one as of
\* the other is only logged.
SelInDB(fieldstr, fieldlen) ==
  LET lens == SplitToCmd(fieldlen, <<",">>) strs == SplitToCmd(fieldstr, <<",">>)
  IN [count |-> Len(lens), len |-> [i \in DOMAIN lens |-> PieceInt(lens, i - 1)],
      name |-> [i \in DOMAIN lens |-> IF i <= Len(strs) THEN GetValue(strs, i - 1, 30) ELSE <<>>]]

RowText(row, sel) ==
  FlattenSeq([i \in 1..sel.count |->
    Tag(sel.name[i]) \o AtMost(row[i], sel.len[i]) \o EndTag(sel.name[i])]) \o <<"\n">>

\* A file of at most limit rows; flag is m_flag when its name is made.
OneFile(flag, rows, sel, limit) ==
  [flag |-> flag,
   text |-> Tag(<<"data">>) \o <<"\n">>
              \o FlattenSeq([i \in 1..Min({limit, Len(rows)}) |-> RowText(rows[i], sel)])
              \o EndTag(<<"data">>)]

\* run: one file after the other until one is not full, which may have no rows at all.
\* A file that cannot be opened leaves m_flag, on which the loop goes on, as it is.
RECURSIVE FilesOf(_, _, _, _, _)
FilesOf(flag, rows, sel, limit, opens) ==
  IF ~opens THEN IF flag > -1 THEN <<"for ever">> ELSE <<>>
  ELSE <<OneFile(flag, rows, sel, limit)>>
         \o (IF Len(rows) < limit THEN <<>> ELSE FilesOf(flag + 1, Drop(rows, limit), sel, limit, opens))
FileName(f, bfilename, efilename, strtime) ==
  <<bfilename, "_">> \o strtime \o <<"_", efilename>>
    \o (IF f.flag > -1 THEN <<"_">> \o Numeral(f.flag) ELSE <<>>) \o <<".xml">>
=============================================================================
