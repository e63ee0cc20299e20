--------------------------- MODULE MCConversions ---------------------------
(* Short inputs over two or three characters, and the times, offsets and     *)
(* words at which carries happen.  Integer types are scaled to 2, 3, 4, 5 bits.*)
EXTENDS Conversions

Strings(chars, n) == UNION {[1..k -> chars] : k \in 0..n}
Match == [of : {"match"}, name : Strings({"a", "B"}, 3), rules : Strings({"A", "b", "*", ","}, 4)]
SplitS == [of : {"split"}, s : Strings({"a", ","}, 6), sep : {<<",">>, <<",", ",">>, <<",", "a">>},
           new : {<<>>, <<"a">>, <<"a", ",">>, <<",", "a", "a">>}]
Fields == [name : {<<"f">>, <<"f", "n">>}, value : Strings({"x", " ", "<"}, 2)]
Xml == [of : {"xml"}, name : {<<"f">>, <<"n">>}, ilen : {1, 5}, fields : [1..2 -> Fields]]
Files == [of : {"file"}, file : Strings({"x", "\n"}, 6), size : {3, 5},
          endbz : {<<>>, <<"x", "\n">>, <<"\n">>}]
Full == {f \in Formats : Len(f) = 11 \/ f = <<"yyyy", "mm", "dd", "hh24", "mi", "ss">>}
Midnights == {0, 68169600, 94608000, 951696000, 951782400, 1077926400, 1078012800,
              1109548800, 1672444800, 1740700800, 2114380800}
Time == [of : {"time"}, t : {m + s : m \in Midnights, s \in {0, 57599, 57600, 86399}},
         tvl : {0, 1, 59, 3600, 86400, 31536000}, fmt : Full]
Tokens == {Text(<<"x">>), Text(<<" ", "-">>), Item(<<"m">>, <<>>), Item(<<"d">>, <<>>),
           Item(<<"d">>, <<"%", "Y", " ", "H">>)}
Pattern == [of : {"pattern"}, toks : UNION {[1..k -> Tokens] : k \in 0..4}]
Apps == {[type |-> "FileLogAppender", file |-> "f", fmt |-> None],
         [type |-> "FileLogAppender", file |-> None, fmt |-> None],
         [type |-> "StdoutLogAppender", file |-> None, fmt |-> "own"],
         [type |-> "other", file |-> "f", fmt |-> None]}
Defs == [name : {"a", "b", None}, level : {"info", "FATAL", "loud"}, fmt : {None, "own"},
         apps : {<<>>} \cup [1..2 -> Apps]]
Yaml == {[of |-> "yaml", node |-> <<d>>] : d \in Defs} \cup
        {[of |-> "yaml", node |-> <<d, e>>] : d, e \in {x \in Defs : Len(x.apps) = 0}}
Maps == [of : {"map"}, node : UNION {[1..k -> [key : {"k", "l"}, node : {1, 2}]] : k \in 0..3}]
Subnets == [of : {"subnet"}, w : Word, bits : 1..Bits]
Hosts == [of : {"host"}, parts : UNION {[1..k -> {<<"h">>, <<"8", "0">>, <<"h", ".", "c">>}] : k \in 1..2}]
         \cup [of : {"host"}, parts : {<<<<"[", "f", "]">>>>, <<<<"[", "f", ":", ":", "1", "]">>>>,
                                       <<<<"[", "f", ":", ":", "1", "]">>, <<"8", "0">>>>}]

Ints == {[of |-> "int", k |-> k, v |-> v] : k \in SqlInts, v \in -16..31}
Values == {[kind |-> "null"], [kind |-> "int8", value |-> -1], [kind |-> "int16", value |-> 3],
           [kind |-> "uint64", value |-> 17], [kind |-> "real", size |-> 4]}
          \cup [kind : {"text"}, size : {1, 3, 6}]
Binds == [of : {"binds"}, values : UNION {[1..k -> Values] : k \in 1..3}]
Walks == [of : {"rows"}, rows : UNION {[1..k -> {1, 2}] : k \in 0..3}, goOn : [{1, 2} -> BOOLEAN]]

Sites == {Without,
          [p \in {<<"/index", ".html">>, <<"/welcome", ".html">>} |->
             [dir |-> FALSE, readable |-> p[1] = "/index", size |-> 3, ones |-> FALSE]],
          [p \in {<<"/login", ".html">>, <<"/welcome", ".html">>, <<"/error", ".html">>, <<"/404", ".html">>} |->
             [dir |-> p[1] = "/login", readable |-> TRUE, size |-> IF p[1] = "/404" THEN 0 ELSE 2, ones |-> p[1] = "/error"]]}
Headers == {[name |-> <<"Content-Type">>, value |-> <<"urlencoded">>],
            [name |-> <<"Connection">>, value |-> <<"keep-alive">>],
            [name |-> <<"Connection">>, value |-> <<>>], [name |-> <<"h">>, value |-> <<"a", ":", " ">>]}
Forms == [key : {<<"u">>, <<"p">>}, value : {<<>>, <<"a">>, <<"a", " ">>}]
Paths == {<<"/">>, <<"/login">>, <<"/register", ".html">>, <<"/index">>}
Gets == [of : {"http"}, method : {<<"GET">>}, path : Paths, version : {<<"1.1">>, <<"1.0">>},
         headers : UNION {[1..k -> Headers] : k \in 0..2}, form : {<<>>}, site : Sites]
Posts == [of : {"http"}, method : {<<"POST">>}, path : Paths, version : {<<"1.1">>},
          headers : {<<>>} \cup {<<h>> : h \in Headers}, form : UNION {[1..k -> Forms] : k \in 0..2}, site : Sites]
Https == Gets \cup {p \in Posts : Len(p.form) < 2 \/ (Len(p.headers) = 1 /\ p.headers[1].name[1] = "Content-Type")}
Writes == {w \in [of : {"write"}, head : {<<>>, <<1, 2>>, <<1, 2, 3>>}, file : {<<>>, <<4>>, <<4, 5, 6>>},
                  lens : UNION {[1..k -> 1..4] : k \in 0..3}] : FoldLeft(+, 0, w.lens) <= Len(w.head \o w.file)}
MCSqlWidth == [k \in {"int8", "uint8", "int16", "uint16", "int32", "uint32", "int64", "uint64"} |->
  CASE k \in {"int8", "uint8"} -> 2 [] k \in {"int16", "uint16"} -> 3
    [] k \in {"int32", "uint32"} -> 4 [] OTHER -> 5]

D1 == <<<<"p">>>>    \* directories and paths in them
File(d, n) == d \o <<<<n>>>>
Disk(dirs, files, deny) == [dirs |-> dirs, files |-> files, deny |-> deny]
Disks == {Disk({<<>>}, Without, {}), Disk({<<>>, D1}, (File(D1, "f") :> <<"old">>) @@ (TmpName(File(D1, "f")) :> <<"part">>), {}),
          Disk({<<>>, D1}, File(D1, "f") :> <<"old">>, {D1}), Disk({<<>>}, Without, {<<>>})}
FileOps == {[name |-> "OpenForRename", path |-> File(D1, "f"), mode |-> "w"], [name |-> "Fprintf", text |-> <<"x">>],
            [name |-> "CloseAndRename"], [name |-> "Close"], [name |-> "CloseAndRemove"],
            [name |-> "Open", path |-> File(D1, "f"), mode |-> "a"]}
Opss == [of : {"ops"}, disk : Disks, path : {File(D1, "f")}, ops : UNION {[1..k -> FileOps] : k \in 0..4}]
LogText == [now : {0, 59, 86400}, text : {<<>>, <<"x", "y", "z">>}]
Logs == [of : {"log"}, old : {Without, <<<<"log">>>> :> <<"old">>}, backup : BOOLEAN, max : {14, 30},
         writes : UNION {[1..k -> LogText] : k \in 1..3}]
Entries(ns) == [name : ns, dir : {FALSE}, mtime : {86399, 86400}]
Trees == {t \in [of : {"tree"}, entries : {<<e, d, g>> : e \in Entries({<<"a">>, <<".", "a">>}),
                    d \in [name : {<<"s">>, <<".">>}, dir : {TRUE}, readable : BOOLEAN, entries : [1..2 -> Entries({<<"a">>, <<"b", ".", "G", "Z">>})]],
                    g \in Entries({<<"b">>, <<"c", ".", "g", "z">>})},
                  rules : {<<"*">>, <<"B", "*">>}, max : {1, 5}, timeout : {0, 3600}, now : {86400, 90000}] :
            LET sub == t.entries[2].entries IN sub[1].name # sub[2].name /\ t.now - t.timeout = 86400}

Drawn == [k \in 1..3 |-> CASE k = 1 -> [t |-> 0, p |-> 10000, u |-> 1, wd |-> 0, wf |-> 0, r |-> 0, vis |-> 100000]
                           [] k = 2 -> [t |-> 350, p |-> 10255, u |-> 100, wd |-> 359, wf |-> 149, r |-> 15, vis |-> 105000]
                           [] k = 3 -> [t |-> 7, p |-> 10110, u |-> 50, wd |-> 10, wf |-> 20, r |-> 9, vis |-> 104999]]
Obtids == {<<"5", "8">>, <<"5">>}
Stored == {Without, <<<<"5">>, Stamp(0)>> :> [f \in Range(FieldNames) |-> IF f = "obtid" THEN <<"5">> ELSE IF f = "ddatetime" THEN Stamp(0) ELSE <<"1">>]}
Crt == {c \in [of : {"crt"}, obtids : UNION {[1..k -> Obtids] : k \in 0..2}, now : {Stamp(0), Stamp(86400)},
              values : UNION {[1..k -> Range(Drawn)] : k \in 0..2}, surf : BOOLEAN, ten : BOOLEAN, table : Stored] :
          Len(c.obtids) = Len(c.values)}
CodeLine(p, o, lat, tail) == p \o <<",">> \o o \o <<",", "c", ",">> \o lat \o <<",", "1", ",", "2">> \o tail
CodeLines == {CodeLine(<<"A">>, <<"5">>, <<"1", "1", "5", ".", "4", "4">>, <<>>), CodeLine(<<"B", " ">>, <<" ", "5">>, <<"3">>, <<>>),
              CodeLine(<<"B">>, <<"8">>, <<"3">>, <<>>), CodeLine(<<"A">>, <<"5">>, <<"3">>, <<",", "x">>), <<"t">>}
CodeTables == {Without, <<"5">> :> CodeRow(<<<<"o">>, <<"5">>, <<"o">>, <<>>, <<>>, <<>>>>, <<"5">>),
               <<"5">> :> CodeRow(<<<<"o">>, <<"5">>, <<"o">>, <<>>, <<>>, <<>>>>, <<"1">>)}
Codess == [of : {"codes"}, table : CodeTables, lines : UNION {[1..k -> CodeLines] : k \in 0..3},
           ids : {[x \in {<<"5">>, <<"8">>} |-> x], [x \in {<<"5">>, <<"8">>} |-> <<"1", "0">>]}, failing : {{}, {<<"8">>}}]
DbFiles == {q \in [of : {"dbfile"}, flag : {-1, 0}, limit : {1, 2}, fieldstr : {<<"f", ",", "g">>, <<"f">>, <<"f", ",", "f">>},
                  fieldlen : {<<"1", ",", "2">>, <<"2">>}, rows : UNION {[1..k -> [1..2 -> {<<"x">>, <<"x", "y">>}]] : k \in 0..4}] :
              q.flag = 0 \/ Len(q.rows) < 4}

\* Every argument once with its usual value, and one at a time left out or changed.
TcpNames == <<"ip", "port", "ptype", "clientpath", "andchild", "matchname", "srvpath", "timeval", "timeout", "pname">>
FtpNames == <<"host", "mode", "username", "password", "remotepath", "localpath", "matchname", "ptype", "okfilename", "timeout", "pname">>
Names == [tcpputfiles |-> TcpNames \o <<"clientpathbak">>, tcpgetfiles |-> TcpNames \o <<"clienttype">>,
          ftpgetfiles |-> FtpNames \o <<"listfilename", "remotepathbak", "checkmtime">>, ftpputfiles |-> FtpNames \o <<"localpathbak">>]
Usual(n) == CASE n \in {"ptype", "mode"} -> <<"2">> [] n \in {"timeval", "timeout", "port"} -> <<"9", "9">>
              [] n \in {"andchild", "checkmtime"} -> <<"t", "r", "u", "e">> [] OTHER -> <<"a">>
Unusual == {<<>>, <<" ">>, <<"0">>, <<" ", "3", " ">>, <<"1">>, [i \in 1..51 |-> "x"]}
Args == UNION {LET fields == [i \in DOMAIN Names[p] |-> [name |-> Names[p][i], value |-> Usual(Names[p][i])]] IN
               {[of |-> "args", program |-> p, fields |-> f] :
                  f \in {fields} \cup {RemoveAt(fields, i) : i \in DOMAIN fields} \cup {[fields EXCEPT ![i].value = v] : i \in DOMAIN fields, v \in Unusual}}
               : p \in DOMAIN Names}
PrepInsert == [name |-> "prepare", sql |-> <<"insert", ":", "1", ",", ":", "2">>]
PrepSelect == [name |-> "prepare", sql |-> <<"select", " ", ":", "1">>]
BindIn == [name : {"bindin"}, pos : 1..2, var : {"a", "n"}]
Runs == [name : {"execute"}, accepted : BOOLEAN]
Starts == {<<PrepInsert>>, <<PrepInsert, [name |-> "bindin", pos |-> 1, var |-> "a"], [name |-> "execute", accepted |-> TRUE]>>,
           <<PrepSelect, [name |-> "bindin", pos |-> 1, var |-> "a"], [name |-> "bindout", pos |-> 1, var |-> "o", len |-> 1],
             [name |-> "execute", accepted |-> TRUE]>>}
StatementCalls == {PrepInsert, PrepSelect, [name |-> "prepare", sql |-> <<"bad">>], [name |-> "next"], [name |-> "set", var |-> "a", value |-> <<>>],
                   [name |-> "set", var |-> "n", value |-> <<1>>]} \cup BindIn \cup Runs
Scripts == [of : {"script"}, calls : {b \o c : b \in Starts, c \in UNION {[1..k -> StatementCalls] : k \in 0..3}},
            vars : {[a |-> [kind |-> "text", value |-> <<"x", "y">>], n |-> [kind |-> "uint32", value |-> <<15>>],
                     o |-> [kind |-> "text", value |-> <<>>]]},
            table : {<<<<"r">>, <<"s", "t">>>>}]
Sqls == [of : {"sql"}, parts : UNION {[1..k -> {1, 2, 10, 12, -1}] : k \in 0..3}]
ConnectionCalls == [name : {"connecttodb"}, auto : BOOLEAN, reached : {TRUE}, modeSet : {TRUE}]
                   \cup {[name |-> "connecttodb", auto |-> FALSE, reached |-> FALSE, modeSet |-> TRUE],
                         [name |-> "connecttodb", auto |-> TRUE, reached |-> TRUE, modeSet |-> FALSE]}
                   \cup [name : {"commit", "rollback", "disconnect"}, answered : BOOLEAN] \cup [name : {"insert"}, row : {1, 2}]
Connections == [of : {"connection"}, calls : UNION {[1..k -> ConnectionCalls] : k \in 0..3}]
               \cup [of : {"connection"}, calls : {<<[name |-> "connecttodb", auto |-> FALSE, reached |-> TRUE, modeSet |-> TRUE]>> \o c : c \in [1..3 -> ConnectionCalls]}]
Logins == [of : {"login"}, ip : {<<>>, <<"1">>, <<"1", ".", "2">>}]
Blobs == [of : {"blob"}, disk : Disks \cup {Disk({<<>>, D1}, Without, {})}, path : {File(D1, "f")}, buffer : {<<>>, <<"x">>, <<"x", "y">>}, written : 0..2]
MCInputs == Match \cup SplitS \cup Xml \cup Files \cup Time \cup Pattern \cup Yaml \cup Maps
            \cup Subnets \cup Hosts \cup Ints \cup Binds \cup Walks \cup Https \cup Writes
            \cup Opss \cup Logs \cup Trees \cup Crt \cup Codess \cup DbFiles \cup Args
            \cup Scripts \cup Sqls \cup Connections \cup Logins \cup {b \in Blobs : b.written <= Len(b.buffer)}
MCOrder == <<"a", "b">>
=============================================================================
