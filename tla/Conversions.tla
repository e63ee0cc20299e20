---------------------------- MODULE Conversions ----------------------------
(***************************************************************************)
(* The pure functions of the project, each applied to every input of a set *)
(* and compared with what its users rely on: file name patterns, fields,   *)
(* records and times (PublicStrings), arguments (ToolArguments), files     *)
(* (DiskFiles), the batch programs (BatchTools), HTTP (Http), log patterns *)
(* (LogPattern), YAML (YamlCast), addresses (Addresses), SQL values and    *)
(* statements (MySQLValues, SqlStatements).                                *)
(***************************************************************************)
EXTENDS TextConversions, ToolArguments, DiskFiles, BatchTools, YamlCast, LogPattern, Addresses, MySQLValues, SqlStatements, Http

-----------------------------------------------------------------------------
(* What the functions are compared with. *)

\* The file's lines, and its records up to the last line with endbz.
Lines(file) ==
  LET ends == {i \in DOMAIN file : file[i] = "\n" \/ i = Len(file)}
      end == SetToSortSeq(ends, <)
  IN [k \in DOMAIN end |-> SubSeq(file, (IF k = 1 THEN 0 ELSE end[k - 1]) + 1, end[k])]
Whole(file, endbz) ==
  LET lines == Lines(file)
      ends == SetToSortSeq({k \in DOMAIN lines : Has(lines[k], endbz)}, <)
  IN [r \in DOMAIN ends |->
        FlattenSeq(SubSeq(lines, (IF r = 1 THEN 0 ELSE ends[r - 1]) + 1, ends[r]))]

\* A pattern is put together of texts and items; an item without braces must not be
\* followed by what could belong to its name.
Source(tok) ==
  IF tok.kind = "text" THEN tok.str
  ELSE <<"%">> \o tok.str \o (IF tok.fmt = <<>> THEN <<>> ELSE <<"{">> \o tok.fmt \o <<"}">>)
Separate(toks) ==
  \A k \in 1..(Len(toks) - 1) :
    toks[k].kind = "item" /\ toks[k].fmt = <<>> /\ toks[k + 1].kind = "text"
      => toks[k + 1].str[1] \notin Letters \cup {"{", "}"}
Subnet(w, bits) == {v \in Word : v \div 2^(Bits - bits) = w \div 2^(Bits - bits)}

-----------------------------------------------------------------------------
(* Properties. *)

\* A repeated replacement that does not lengthen the string ends with no separator left.
ReplacementsEnd ==
  input.of = "split" =>
    (Len(input.new) <= Len(input.sep) /\ ~Has(input.new, input.sep)
       => ~Has(UpdateStr(input.s, input.sep, input.new, TRUE, Len(input.s)^2), input.sep))

\* A field of a message is found with its own value, trimmed and cut, whatever
\* fields are beside it; a field that is not there is reported missing.
FieldsFound ==
  input.of = "xml" =>
    LET f == input.fields
        msg == FlattenSeq([i \in DOMAIN f |-> Tag(f[i].name) \o f[i].value \o EndTag(f[i].name)])
        is == {i \in DOMAIN f : f[i].name = input.name}
        got == GetXMLBuffer(msg, input.name, input.ilen)
    IN IF is = {} THEN ~got.ok
       ELSE got.ok /\ got.value = DeleteLRChar(
              STRNCPY(input.ilen + 1, f[Min(is)].value, input.ilen), " ")

\* A program that reads a file record by record gets all of it when each record fits
\* into the buffer; without an end mark it gets every byte of any file.
RecordsAreWhole ==
  input.of = "file" =>
    LET whole == Whole(input.file, input.endbz)
        got == Records(input.file, input.size, input.endbz)
    IN IF input.endbz = <<>> THEN FlattenSeq(got) = input.file
       ELSE (\A i \in DOMAIN whole : Len(whole[i]) < input.size) => IsPrefix(whole, got) /\ got = whole

\* Time arithmetic on strings is exact over the ends of months and leap years.
TimesAddUp ==
  input.of = "time" =>
    LET s == timetostr(input.t, input.fmt) IN
    /\ strtotime(s) = input.t
    /\ strtotime(AddTime(s, input.tvl, input.fmt)) = input.t + input.tvl

\* A request that arrives whole is understood whatever headers it has, it is
\* consumed up to an unterminated last line, a form of distinct fields without escapes
\* reaches its page, and the answer names the file it carries with its length; the
\* bytes go out in order however the kernel cuts them.
RequestsAnswered ==
  /\ input.of = "http" =>
       LET i == input
           plussed(v) == [c \in DOMAIN v |-> IF v[c] = " " THEN "+" ELSE v[c]]
           body == Join([k \in DOMAIN i.form |-> i.form[k].key \o <<"=">> \o plussed(i.form[k].value)], <<"&">>)
           headers == FlattenSeq([k \in DOMAIN i.headers |-> i.headers[k].name \o <<":", " ">> \o i.headers[k].value \o CRLF])
           text == i.method \o <<" ">> \o i.path \o <<" ", "HTTP/">> \o i.version \o CRLF \o headers \o CRLF \o body
           value(f) == LET is == {k \in DOMAIN i.form : Bytes(i.form[k].key) = f} IN
                         IF is = {} THEN <<>> ELSE Bytes(i.form[Min(is)].value)
           page(typed) ==
             IF typed /\ ParsePath_(i.path) \in DEFAULT_HTML_TAG
               THEN IF value(Username) # <<>> /\ value(Password) # <<>> THEN <<"/welcome", ".html">> ELSE <<"/error", ".html">>
               ELSE ParsePath_(i.path)
           understood(r, typed) ==
             /\ r.method = i.method /\ r.version = i.version
             /\ \A k \in DOMAIN i.headers :
                  (\A l \in DOMAIN i.headers : l > k => i.headers[l].name # i.headers[k].name)
                    => r.header[i.headers[k].name] = i.headers[k].value
             /\ typed /\ (\A k, l \in DOMAIN i.form : k # l => i.form[k].key # i.form[l].key)
                  => r.path = page(typed) /\ \A f \in {Username, Password} : GetPost(r, f) = value(f)
           answered(r, a) ==
             /\ a.code = 200 <=> r.path \in DOMAIN i.site /\ ~i.site[r.path].dir /\ i.site[r.path].readable
             /\ a.content.kind = "file" => a.content.path = ErrorHtml_(r.path, a.code) /\ a.content.len = i.site[a.content.path].size
             /\ a.code = 200 /\ i.site[r.path].size > 0 /\ ~i.site[r.path].ones => a.content.kind = "file"
             /\ a.keep = (Entry(r.header, <<"Connection">>, <<>>) = <<"keep-alive">> /\ i.version = <<"1.1">>)
           served(conn) ==
             /\ conn.rest = body
             /\ understood(conn.request, i.method = <<"POST">> /\ body # <<>>
                             /\ Entry(conn.request.header, <<"Content-Type">>, <<>>) = <<"urlencoded">>)
             /\ answered(conn.request, conn.response)
       IN served(process(text, i.site))
  /\ input.of = "write" =>
       LET w == write(input.head, input.file, input.lens) all == input.head \o input.file IN
       /\ w.out = AtMost(all, FoldLeft(+, 0, input.lens)) /\ w.out \o w.iov0 \o w.iov1 = all
       /\ w.writeBuff = w.iov0

\* A program that publishes with OpenForRename and CloseAndRename shows under the name
\* nothing or the whole of one text, never a part, and leaves no temporary file; a
\* path is made with every directory on the way or not at all below the first failure.
PublishedWhole ==
  input.of = "ops" =>
    LET ops == input.ops path == input.path
        shadow == FoldLeft(LAMBDA a, o :
                    CASE o.name = "OpenForRename"  -> [a EXCEPT !.open = TRUE, !.text = <<>>]
                      [] o.name = "Fprintf"        -> [a EXCEPT !.text = IF a.open THEN @ \o o.text ELSE @]
                      [] o.name = "CloseAndRename" -> [a EXCEPT !.open = FALSE, !.shown = IF a.open THEN a.text ELSE @]
                      [] OTHER                     -> [a EXCEPT !.open = FALSE],
                    [open |-> FALSE, text |-> <<>>, shown |-> Entry(input.disk.files, path, <<"absent">>)], ops)
        s == Operations(input.disk, ops)
        works == FOPEN(input.disk, TmpName(path), "w").ok
    IN /\ {o.name : o \in Range(ops)} \cap {"Open", "CloseAndRemove"} = {} =>
            /\ Entry(s.disk.files, path, <<"absent">>) = IF works THEN shadow.shown ELSE Entry(input.disk.files, path, <<"absent">>)
            /\ works /\ ops # <<>> /\ ops[1].name = "OpenForRename" => TmpName(path) \notin DOMAIN Close(s).disk.files
       /\ DOMAIN s.disk.files \cup {path, TmpName(path)} = DOMAIN input.disk.files \cup {path, TmpName(path)}
       /\ s.fp # <<>> => Front(s.fp) \in s.disk.dirs
       /\ LET m == MKDIR(input.disk, path, TRUE) IN
            /\ m.ok <=> Front(path) \in m.disk.dirs
            /\ MKDIR(m.disk, path, TRUE) = m

\* Nothing that is logged is lost when the file is switched, unless two switches fall
\* into one second, and only files over the limit are switched.
LogsComplete ==
  input.of = "log" =>
    LET name == <<<<"log">>>>
        l == LogWrites(OpenLog([dirs |-> {<<>>}, files |-> input.old, deny |-> {}], name, "a+", input.backup, input.max), input.writes)
        stamps == SetToSortSeq({w.now : w \in Range(input.writes)}, <)
        files == [i \in DOMAIN stamps |-> Entry(l.disk.files, Switched(name, stamps[i]), <<>>)]
        all == FlattenSeq(files) \o l.disk.files[name]
        once == \A i, j \in DOMAIN input.writes : i < j => input.writes[i].now < input.writes[j].now
    IN /\ once => all = Entry(input.old, name, <<>>)
                           \o FlattenSeq([i \in DOMAIN input.writes |-> Stamp(input.writes[i].now) \o input.writes[i].text])
       /\ \A i \in DOMAIN files : files[i] # <<>> => input.backup /\ Len(files[i]) > input.max

\* gzipfiles and deletefiles touch exactly the matching files older than the timeout,
\* at any depth, when the snapshot has room for all that match, and never another.
OnlyOldFiles ==
  input.of = "tree" =>
    LET i == input
        files == {<<e.name>> : e \in {x \in Range(i.entries) : ~x.dir}}
                   \cup UNION {{<<e.name, c.name>> : c \in Range(e.entries)} : e \in {x \in Range(i.entries) : x.dir}}
        time(p) == IF Len(p) = 1 THEN (CHOOSE e \in Range(i.entries) : e.name = p[1]).mtime
                   ELSE (CHOOSE c \in Range((CHOOSE e \in Range(i.entries) : e.name = p[1]).entries) : c.name = p[2]).mtime
        match == {p \in files : \A n \in Range(p) : n[1] # "."}
        chosen == {p \in match : MatchStr(Last(p), i.rules)}
        old == {<<<<"d">>>> \o p : p \in {q \in chosen : time(q) < i.now - i.timeout}}
        deleted == Deleted(<<<<"d">>>>, i.entries, i.rules, i.max, i.now, i.timeout)
        opened == \A e \in Range(i.entries) : e.dir => e.readable
    IN /\ deleted \subseteq old
       /\ opened /\ Cardinality(chosen) <= i.max => deleted = old
       /\ Gzipped(<<<<"d">>>>, i.entries, i.rules, i.max, i.now, i.timeout) = {p \in deleted : ~IsSuffix(<<".", "g", "z">>, ToLower(Last(p)))}
       /\ \A p \in files : UTime(FileMTime(time(p), <<>>)) = time(p)

\* The observations that crtdata or crtsurfdata writes are the rows that obttodb or
\* obtdatatodb stores, whatever was stored before; storing a file again changes
\* nothing and adds what an error kept out, and the file is published whole.
ObservationsStored ==
  input.of = "crt" =>
    LET i == input
        data == CrtSurfData(i.obtids, i.now, i.values)
        path == <<<<"o">>, <<"s", ".", "x", "m", "l">>>>
        disk == [dirs |-> {<<>>, <<<<"o">>>>}, files |-> Without, deny |-> {}]
        written == IF i.surf THEN CrtSurfFile(disk, path, "xml", data) ELSE writeToFile(disk, path, "xml", data)
        shown(d, f) == IF f \in {"obtid", "ddatetime"} THEN d[f]
                       ELSE IF f \notin InTenths \/ i.ten THEN Numeral(d[f])
                       ELSE Numeral(d[f] \div 10) \o (IF ~i.surf /\ d[f] % 10 = 0 THEN <<>> ELSE <<".", Digits[(d[f] % 10) + 1]>>)
        rows == {[f \in Range(FieldNames) |-> shown(data[k], f)] : k \in {k \in DOMAIN data : \A l \in 1..(k - 1) : data[l].obtid # data[k].obtid}}
        \* with the rows of the stations in busy kept out by an error
        store(table, new, busy) == IF i.ten THEN dataToDB(table, <<new.files[path]>>, busy).table
                                            ELSE obtDataToDB(table, <<new.files[path]>>, {})
        stored(table, all) == table = i.table @@ [k \in {KeyOf(r) : r \in all} |-> CHOOSE r \in all : KeyOf(r) = k]
        inOneStep(new, table) == stored(table, rows) /\ store(table, new, {}) = table
        inTwoSteps(new, table, missed) ==
          (\A x \in DOMAIN missed : missed[x] = table[x]) /\ store(missed, new, {}) = table
        loads(new) ==
          /\ DOMAIN new.files = {path}
          /\ inOneStep(new, store(i.table, new, {}))
          /\ i.ten => \A k \in DOMAIN data :
               inTwoSteps(new, store(i.table, new, {}), store(i.table, new, {KeyOf(data[k])}))
    IN /\ loads(written)
       /\ \A k \in DOMAIN data : \A f \in DOMAIN Ranges : data[k][f] \in Ranges[f]
       /\ \A fmt \in {"csv", "json"} :
            LET lines == Lines(Written(fmt, data, i.surf, <<",">>))
                of(k) == SelectSeq(lines[k + 1], LAMBDA c : c = ",")
            IN Len(lines) = Len(data) + (IF fmt = "csv" THEN 1 ELSE 2)
               /\ \A k \in DOMAIN data : Len(of(k)) = 8 + (IF fmt = "json" /\ k < Len(data) THEN 1 ELSE 0)

\* Every station of a file is in the table after a run that succeeds, with the last
\* line's values where the table's id is the station's, and no other row changes; a run
\* that fails changes nothing.
StationsStored ==
  input.of = "codes" =>
    LET i == input
        got == codeToDB(i.table, i.lines, i.ids, i.failing)
        six == [k \in DOMAIN i.lines |-> Line(i.lines[k])]
        last(x) == Max({k \in DOMAIN six : Len(six[k]) = 6 /\ six[k][2] = x})
        named == {six[k][2] : k \in {k \in DOMAIN six : Len(six[k]) = 6}}
    IN /\ got.ok = (named \cap i.failing = {})
       /\ IF ~got.ok THEN got.table = i.table
          ELSE /\ DOMAIN got.table = DOMAIN i.table \cup named
               /\ \A x \in named : got.table[x].id = x =>
                    LET s == six[last(x)] r == got.table[x] IN
                    /\ r.provname = s[1] /\ r.cityname = s[3]
                    /\ \A v \in {<<r.lat, s[4]>>, <<r.lon, s[5]>>, <<r.height, s[6]>>} : v[1] = AtMost(v[2], 5)
               /\ \A x \in DOMAIN i.table \ named : got.table[x] = i.table[x]
       /\ obtCodeToDB(i.table, FlattenSeq([k \in DOMAIN i.lines |-> i.lines[k] \o <<"\r", "\n">>]), i.ids, i.failing).ok = got.ok
       /\ LoadStcode(i.lines) = LoadSTCode(FlattenSeq([k \in DOMAIN i.lines |-> i.lines[k] \o <<"\r", "\n">>]))

\* The files of one query hold every row once and in order, cut to its lengths, no
\* file more than the limit, and each has a name of its own.
QueryWritten ==
  input.of = "dbfile" =>
    LET i == input
        sel == SelInDB(i.fieldstr, i.fieldlen)
        files == FilesOf(i.flag, i.rows, sel, i.limit, TRUE)
        head == Tag(<<"data">>) \o <<"\n">>
        body(f) == SubSeq(f.text, Len(head) + 1, Len(f.text) - Len(EndTag(<<"data">>)))
        strs == SplitToCmd(i.fieldstr, <<",">>)
    IN /\ FlattenSeq([k \in DOMAIN files |-> body(files[k])]) = FlattenSeq([k \in DOMAIN i.rows |-> RowText(i.rows[k], sel)])
       /\ \A k \in DOMAIN files : /\ files[k].text = head \o body(files[k]) \o EndTag(<<"data">>)
                                  /\ Len(Lines(body(files[k]))) <= i.limit
       /\ \A k, l \in DOMAIN files : k # l => FileName(files[k], "b", "e", <<"0">>) # FileName(files[l], "b", "e", <<"0">>)
       /\ \A k \in DOMAIN i.rows, n \in DOMAIN strs :
            n <= sel.count /\ (\A m \in 1..(n - 1) : strs[m] # strs[n])
              => GetXMLBuffer(RowText(i.rows[k], sel), strs[n], 0).value = AtMost(i.rows[k][n], sel.len[n])

\* A program starts exactly when every argument it cannot do without has a value (the
\* backup directory and the list of the FTP programs are not asked for), the order of
\* the arguments does not matter, and the server goes by what its client was given,
\* but waits no longer than its own limits.
ArgumentsRead ==
  input.of = "args" =>
    LET f == input.fields
        text(fields) == FlattenSeq([i \in DOMAIN fields |-> Tag(<<fields[i].name>>) \o fields[i].value \o EndTag(<<fields[i].name>>)])
        readBy(x) == CASE input.program = "tcpputfiles" -> Tcpputfiles(x) [] input.program = "tcpgetfiles" -> Tcpgetfiles(x)
                      [] input.program = "ftpgetfiles" -> Ftpgetfiles(x) [] input.program = "ftpputfiles" -> Ftpputfiles(x)
        value(n) == LET is == {i \in DOMAIN f : f[i].name = n} IN IF is = {} THEN <<>> ELSE DeleteLRChar(f[Min(is)].value, " ")
        numbers == {"port", "ptype", "timeval", "timeout", "mode"}
        needed(got) == DOMAIN got.arg \ ({"andchild", "checkmtime", "mode"} \cup
                    (IF "host" \in DOMAIN got.arg THEN {"remotepathbak", "localpathbak", "okfilename"} ELSE {}))
        ptypes(got) == IF "host" \in DOMAIN got.arg THEN 1..3 ELSE 1..2
        started(got) ==
          /\ got.ok = /\ Atoi(value("ptype")) \in ptypes(got)
                      /\ \A n \in needed(got) : IF n \in numbers THEN Atoi(value(n)) # 0 ELSE value(n) # <<>>
          /\ got.ok => \A n \in needed(got) \ numbers : IsPrefix(got.arg[n], value(n))
        loggedIn(got, srv) == got.ok /\ "ip" \in DOMAIN got.arg =>
          /\ \A n \in DOMAIN got.arg \ {"timeval", "timeout", "pname"} : srv[n] = got.arg[n]
          /\ srv["timeval"] <= 30 /\ srv["timeout"] <= 50 /\ srv["timeout"] <= got.arg["timeout"]
          /\ srv["clienttype"] = IF \A i \in DOMAIN f : f[i].name # "clienttype" THEN 1 ELSE Atoi(value("clienttype"))
          /\ IsPrefix(got.arg["pname"], srv["pname"]) /\ srv["pname"] # got.arg["pname"]
        agree(got, turned, srv) == started(got) /\ turned = got /\ loggedIn(got, srv)
    IN agree(readBy(text(f)), readBy(text(Reverse(f))), Fileserver(LoginMessage(text(f))))

MessagesAndFiles ==
  /\ ReplacementsEnd /\ FieldsFound /\ ArgumentsRead /\ RecordsAreWhole /\ TimesAddUp /\ RequestsAnswered
  /\ PublishedWhole /\ LogsComplete /\ OnlyOldFiles
  /\ ObservationsStored /\ StationsStored /\ QueryWritten

\* A pattern is parsed without an error, and the line printed with it is that of the
\* texts and items it is put together of, in order.
PatternParses ==
  input.of = "pattern" /\ Separate(input.toks) =>
    LET parsed == init(FlattenSeq([k \in DOMAIN input.toks |-> Source(input.toks[k])]))
        ev == [letter \in Items |-> letter]
    IN ~parsed.error /\ format(parsed.items, ev) = format(input.toks, ev)

\* Configured loggers written as YAML and read again are the same; so is a map.
\* An IPv4 broadcast address is the last of its subnet, a mask covers exactly the
\* prefix, and a host string is split into its node and service.
YamlRoundTrip ==
  /\ input.of = "yaml" =>
       LET ds == LogDefines(input.node) IN
       ds # Thrown => LogDefines([i \in DOMAIN ds |-> DefineNode(ds[i])]) = ds
  /\ input.of = "map" =>
       LET up == [x \in {1, 2} |-> x + 1] down == [y \in {2, 3} |-> y - 1]
           f == ToMap(input.node, up) vals == ToVector([i \in DOMAIN input.node |-> input.node[i].node], up)
       IN /\ ToMap(FromMap(f, down), up) = f
          /\ \A i \in DOMAIN input.node :
               (\A j \in 1..(i - 1) : input.node[j].key # input.node[i].key)
                 => f[input.node[i].key] = up[input.node[i].node]
          /\ ToVector(FromVector(vals, down), up) = vals
          /\ ToSetOf(FromSet(Range(vals), down), up) = Range(vals)
SubnetsAgree ==
  /\ input.of = "subnet" =>
       /\ broadcastAddress(input.w, input.bits) = {Max(Subnet(input.w, input.bits))}
       /\ \A m \in subnetMask(input.bits) : Ones(m) = input.bits
  /\ input.of = "host" =>
       NodeAndService(Join(input.parts, <<":">>))
         = [node |-> IF input.parts[1][1] = "[" THEN Front(Tail(input.parts[1])) ELSE input.parts[1],
            service |-> IF Len(input.parts) = 1 THEN <<"none">> ELSE input.parts[2]]
ValuesRoundTrip == YamlRoundTrip /\ SubnetsAgree

\* An integer bound to a statement reaches the server as it was, unless it is negative
\* and wider than a byte, and either kind of result gives it back; a buffer bound again
\* is large enough unless a number follows something shorter; a walk over the rows ends with the first row refused.
BoundValuesArrive ==
  /\ input.of = "int" =>
       LET k == input.k v == input.v b == BindAll(<<[kind |-> "null"], [kind |-> k, value |-> v]>>)[2] x == ServerReads(b, SqlWidth[k]) IN
       /\ v \in RangeOf(k) /\ (v >= 0 \/ k = "int8") => x = v
       /\ v \in RangeOf(k) => GetText(k, v) = v /\ GetStmt(k, k, v) = {v}
  /\ input.of = "binds" =>
       LET size(v) == IF v.kind \in SqlInts THEN SqlWidth[v.kind] ELSE IF v.kind = "null" THEN 0 ELSE v.size
           vs == input.values
           widens == \E i, j \in DOMAIN vs : i < j /\ vs[j].kind \in SqlInts \cup {"real"} /\ vs[i].kind # "null"
                                             /\ size(vs[i]) < size(vs[j])
       IN ~widens => Rebound(vs).fits
  /\ input.of = "rows" =>
       LET seen == Foreach(input.rows, input.goOn) IN
       /\ IsPrefix(seen, input.rows) /\ \A i \in 1..(Len(seen) - 1) : input.goOn[seen[i]]
       /\ seen = input.rows \/ ~input.goOn[Last(seen)]

\* Each execution that succeeds sends, for each placeholder of the statement prepared
\* last, what the variable bound to it holds at that moment (an empty text as NULL, an
\* unsigned integer by its bits), as long as nothing is bound after the first one; a
\* query gives its rows once and in order, and only after it was executed.
StatementsSend ==
  input.of = "script" =>
    LET calls == input.calls
        s == FoldLeft(Call, NewStatement(input.vars, input.table), <<[name |-> "connect", open |-> TRUE]>> \o calls)
        prep(k) == Max({j \in 1..k : calls[j].name = "prepare"})
        runs == {k \in DOMAIN calls : calls[k].name = "execute" /\ calls[k].accepted /\ "bad" \notin Range(calls[prep(k)].sql)}
        run == SetToSortSeq(runs, <)
        value(var, k) == LET sets == {j \in 1..k : calls[j].name = "set" /\ calls[j].var = var} IN
                           IF sets = {} THEN input.vars[var].value ELSE calls[Max(sets)].value
        bound(i, k) == {j \in prep(k)..k : calls[j].name = "bindin" /\ calls[j].pos = i}
        late(k) == \E j \in prep(k)..k : calls[j].name = "bindin" /\ \E e \in prep(k)..j : calls[e].name = "execute"
        arrives(var, v) == IF input.vars[var].kind # "text" THEN <<"int", CastTo("int32", v[1])>> ELSE IF v = <<>> THEN <<"NULL">> ELSE v
        count(k) == Cardinality(Occurs(<<":">>, calls[prep(k)].sql, 1))
        nexts(k) == {j \in k..Len(calls) : calls[j].name = "next" /\ \A e \in (k + 1)..j : calls[e].name \notin {"execute", "prepare"}}
        query(k) == calls[prep(k)].sql[1] = "select"
    IN /\ Len(s.sent) = Len(run)
       /\ \A n \in DOMAIN run : ~late(run[n]) =>
            s.sent[n] = [i \in 1..count(run[n]) |->
              IF bound(i, run[n]) = {} THEN <<>>
              ELSE LET var == calls[Max(bound(i, run[n]))].var IN arrives(var, value(var, run[n]))]
       /\ (\A k \in DOMAIN calls : calls[k].name = "bindin" => calls[k].pos <= count(k)) =>
            s.got = FlattenSeq([n \in DOMAIN run |-> IF query(run[n]) THEN AtMost(input.table, Cardinality(nexts(run[n]))) ELSE <<>>])

\* Every ":n" is one placeholder, whatever its number of digits, and sysdate is a call.
PlaceholdersReplaced ==
  input.of = "sql" =>
    LET source == FlattenSeq([k \in DOMAIN input.parts |-> IF input.parts[k] \in Nat THEN <<":">> \o Numeral(input.parts[k]) \o <<" ">> ELSE <<"sysdate", " ">>])
    IN Rewritten(source) = FlattenSeq([k \in DOMAIN input.parts |-> IF input.parts[k] \in Nat THEN <<"?", " ">> ELSE <<"sysdate", "(", ")", " ">>])

\* Every handle that is opened is closed once; what a commit has acknowledged is stored,
\* with what is committed at once, and nothing else; no call meets a null handle as
\* long as no commit or rollback has failed.
ConnectionsEnd ==
  /\ input.of = "connection" =>
       LET calls == input.calls
           c == FoldLeft(ConnectionCall, NewConnection, calls)
           is(k, names) == calls[k].name \in names
           works(k) == is(k, {"connecttodb"}) /\ calls[k].reached /\ calls[k].modeSet
           session(j) == {i \in 1..j : works(i) /\ \A k \in i..j : ~is(k, {"disconnect"})}
           atOnce(j) == session(j) # {} /\ calls[Min(session(j))].auto
           committed(j) == \E k \in j..Len(calls) : is(k, {"commit"}) /\ session(j) # {} /\ \A e \in j..k : ~is(e, {"rollback", "disconnect"})
       IN /\ c.opened - c.closed = IF c.live THEN 1 ELSE 0
          /\ c.state = 0 => ~c.live /\ c.staged = {}
          /\ (\A k \in DOMAIN calls : is(k, {"commit", "rollback"}) => calls[k].answered) =>
               /\ ~c.crashed /\ (c.live <=> c.state = 1)
               /\ c.stored = {calls[j].row : j \in {j \in DOMAIN calls : is(j, {"insert"}) /\ (atOnce(j) \/ committed(j))}}
  /\ input.of = "login" =>
       setdbopt(Join(<<input.ip, <<"u">>, <<"p">>, <<"d">>, <<"3", "3">>>>, <<",">>)) =
         [ip |-> input.ip, user |-> <<"u">>, pwd |-> <<"p">>, dbname |-> <<"d">>, port |-> 33]
  /\ input.of = "blob" =>
       LET i == input b == buftofile(i.disk, i.path, i.buffer, i.written) IN
       /\ b.ok => filetobuf(b.disk, i.path) = i.buffer
       /\ ~b.ok => filetobuf(b.disk, i.path) = filetobuf(i.disk, i.path)
       /\ b.ok \/ i.written < Len(i.buffer) => TmpName(i.path) \notin DOMAIN b.disk.files \ DOMAIN i.disk.files

SqlValuesRoundTrip == BoundValuesArrive /\ StatementsSend /\ PlaceholdersReplaced /\ ConnectionsEnd
=============================================================================
