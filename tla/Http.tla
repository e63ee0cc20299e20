-------------------------------- MODULE Http --------------------------------
(***************************************************************************)
(* One connection of the HTTP server: the request parser, the response and *)
(* the partial writes (httprequest.cpp, httpresponse.cpp, httpconn.cpp).   *)
(*                                                                         *)
(* Words with a meaning of their own ("POST", "HTTP/", "/index", ".html")  *)
(* are single characters; bodies are bytes, so that percent escapes can be *)
(* computed, and the form fields username and password are one byte each.  *)
(***************************************************************************)
EXTENDS PublicStrings

CRLF == <<"\r", "\n">>
Amp == 38  Plus == 43  Percent == 37  Equals == 61  Space == 32
Alphabet == <<"a", "b", "c", "d", "e", "f", "g", "h", "i", "j", "k", "l", "m",
              "n", "o", "p", "q", "r", "s", "t", "u", "v", "w", "x", "y", "z">>
Code(c) == CASE c = " " -> Space [] c = "%" -> Percent [] c = "&" -> Amp [] c = "+" -> Plus
             [] c = "=" -> Equals [] IsDigit(c) -> 48 + DigitOf(c)
             [] c \in Range(Alphabet) -> 96 + (CHOOSE k \in 1..26 : Alphabet[k] = c)
             [] OTHER -> 64 + (CHOOSE k \in 1..26 : ToUpper(Alphabet)[k] = c)
Bytes(s) == [k \in DOMAIN s |-> Code(s[k])]
Username == <<117>>  Password == <<112>>

DEFAULT_HTML == {<<w>> : w \in {"/index", "/register", "/login", "/welcome", "/video", "/picture"}}
DEFAULT_HTML_TAG == {<<"/register", ".html">>, <<"/login", ".html">>}

Without == [x \in {} |-> x]
Entry(f, key, default) == IF key \in DOMAIN f THEN f[key] ELSE default
Put(f, key, value) == [x \in DOMAIN f \cup {key} |-> IF x = key THEN value ELSE f[x]]

Request == [state |-> "REQUEST_LINE", method |-> <<>>, path |-> <<>>, version |-> <<>>,
            body |-> <<>>, header |-> Without, post |-> Without]

-----------------------------------------------------------------------------
(* HttpRequest. *)

ParsePath_(path) ==
  IF path = <<"/">> THEN <<"/index", ".html">>
  ELSE IF path \in DEFAULT_HTML THEN path \o <<".html">> ELSE path

\* "^([^ ]*) ([^ ]*) HTTP/([^ ]*)$"
ParseRequestLine_(r, line) ==
  LET w == SplitToCmd(line, <<" ">>)
      matched == Len(w) = 3 /\ w[3] # <<>> /\ w[3][1] = "HTTP/"
  IN IF ~matched THEN r
     ELSE [r EXCEPT !.method = w[1], !.path = ParsePath_(w[2]), !.version = Tail(w[3]),
                    !.state = "HEADERS"]

\* "^([^:]*): ?(.*)$"
ParseHeader_(r, line) ==
  LET colon == Occurs(<<":">>, line, 1)
      rest == Drop(line, Min(colon))
      value == IF rest # <<>> /\ rest[1] = " " THEN Tail(rest) ELSE rest
  IN IF colon = {} THEN [r EXCEPT !.state = "BODY"]
     ELSE [r EXCEPT !.header = Put(r.header, AtMost(line, Min(colon) - 1), value)]

\* The digits are not converted.
ConverHex(ch) == IF ch \in 65..70 THEN ch - 55 ELSE IF ch \in 97..102 THEN ch - 87 ELSE ch

\* One pass over the body, which it rewrites: an escape becomes '%' and two bytes,
\* the tens and the units of its value.  What follows the last '&' is stored only
\* under a new key.
ParseFromUrlencoded_(bytes) ==
  LET n == Len(bytes)
      none == [i |-> 1, j |-> 1, key |-> <<>>, post |-> Without, body |-> bytes]
      step(s) ==
        LET piece == SubSeq(s.body, s.j, s.i - 1)
            ch == s.body[s.i]
        IN CASE ch = Equals  -> [s EXCEPT !.i = @ + 1, !.key = piece, !.j = s.i + 1]
             [] ch = Plus    -> [s EXCEPT !.i = @ + 1, !.body[s.i] = Space]
             [] ch = Percent ->
                  LET num == ConverHex(s.body[s.i + 1]) * 16 + ConverHex(s.body[s.i + 2]) IN
                  [s EXCEPT !.i = @ + 3, !.body[s.i + 2] = (num % 10) + 48,
                            !.body[s.i + 1] = ((num \div 10) + 48) % 256]
             [] ch = Amp     -> [s EXCEPT !.i = @ + 1, !.j = s.i + 1, !.post = Put(@, s.key, piece)]
             [] OTHER        -> [s EXCEPT !.i = @ + 1]
      run[k \in 0..n] == IF k = 0 THEN none ELSE LET s == run[k - 1] IN IF s.i > n THEN s ELSE step(s)
      last == run[n]
  IN IF last.key \notin DOMAIN last.post /\ last.j < last.i
       THEN Put(last.post, last.key, SubSeq(last.body, last.j, n)) ELSE last.post

\* The table of users is not consulted yet.
UserVerify(name, pwd) == name # <<>> /\ pwd # <<>>

ParsePost_(r) ==
  IF r.method = <<"POST">> /\ Entry(r.header, <<"Content-Type">>, <<>>) = <<"urlencoded">>
  THEN LET post == ParseFromUrlencoded_(r.body)
           known == UserVerify(Entry(post, Username, <<>>), Entry(post, Password, <<>>))
       IN [r EXCEPT !.post = post,
                    !.path = IF @ \notin DEFAULT_HTML_TAG THEN @
                             ELSE IF known THEN <<"/welcome", ".html">> ELSE <<"/error", ".html">>]
  ELSE r
ParseBody_(r, line) == ParsePost_([[r EXCEPT !.body = Bytes(line)] EXCEPT !.state = "FINISH"])

IsKeepAlive(r) ==
  Entry(r.header, <<"Connection">>, <<>>) = <<"keep-alive">> /\ r.version = <<"1.1">>
GetPost(r, key) == Entry(r.post, key, <<>>)

\* parse: line after line; a line without an end is parsed, but stays in the buffer,
\* and so does a request line that is refused.
parse(buff) ==
  LET atEnd(s, h) == IF Len(s.buff) <= 2 THEN [h EXCEPT !.state = "FINISH"] ELSE h
      parsed(s, line) ==
        CASE s.r.state = "REQUEST_LINE" -> ParseRequestLine_(s.r, line)
          [] s.r.state = "HEADERS" -> atEnd(s, ParseHeader_(s.r, line))
          [] s.r.state = "BODY" -> ParseBody_(s.r, line)
      retrieved(s, ends, r) ==
        LET refused == r.state = "REQUEST_LINE" IN
        [r |-> r, ok |-> ~refused, more |-> ~refused /\ ends # {},
         buff |-> IF refused \/ ends = {} THEN s.buff ELSE Drop(s.buff, Min(ends) + 1)]
      next(s) ==
        LET ends == Occurs(CRLF, s.buff, 1)
            line == IF ends = {} THEN s.buff ELSE AtMost(s.buff, Min(ends) - 1)
        IN retrieved(s, ends, parsed(s, line))
      run[k \in 0..Len(buff)] ==
        IF k = 0 THEN [r |-> Request, ok |-> buff # <<>>, more |-> TRUE, buff |-> buff]
        ELSE LET s == run[k - 1] IN
             IF s.more /\ s.buff # <<>> /\ s.r.state # "FINISH" THEN next(s) ELSE s
  IN run[Len(buff)]

-----------------------------------------------------------------------------
(* HttpResponse.  A site gives the files under srcDir: dir, readable by others, *)
(* size and whether the first four bytes are all 255 (ones).                    *)

CODE_PATH == [c \in {400, 403, 404} |->
  CASE c = 400 -> <<"/400", ".html">> [] c = 403 -> <<"/403", ".html">> [] c = 404 -> <<"/404", ".html">>]
CODE_STATUS == {200, 400, 403, 404}
SUFFIX_TYPE == [s \in {".html", ".txt", ".png", ".js"} |->
  CASE s = ".html" -> "text/html" [] s = ".txt" -> "text/plain"
    [] s = ".png" -> "image/png" [] s = ".js" -> "text/javascript "]
GetFileType_(path) ==
  IF path # <<>> /\ Last(path) \in DOMAIN SUFFIX_TYPE THEN SUFFIX_TYPE[Last(path)] ELSE "text/plain"

CodeFor(site, path, code) ==
  IF path = <<>> \/ path \notin DOMAIN site \/ site[path].dir THEN 404
  ELSE IF ~site[path].readable THEN 403 ELSE IF code = -1 THEN 200 ELSE code
ErrorHtml_(path, code) == IF code \in DOMAIN CODE_PATH THEN CODE_PATH[code] ELSE path
StateLine(code) == IF code \in CODE_STATUS THEN code ELSE 400

\* The result of mmap is taken for an int and compared with -1 through its address:
\* the map of an empty file is MAP_FAILED, and a file of ones looks like a failure.
ErrorContent == [kind |-> "text", len |-> 1]
AddContent_(site, path) ==
  IF path \notin DOMAIN site THEN ErrorContent
  ELSE IF site[path].size = 0 THEN [kind |-> "fault", len |-> 0]
  ELSE IF site[path].ones THEN ErrorContent
  ELSE [kind |-> "file", path |-> path, len |-> site[path].size]

MakeResponse(site, path, keep, code) ==
  LET c == CodeFor(site, path, code) p == ErrorHtml_(path, c) IN
  [code |-> StateLine(c), keep |-> keep, type |-> GetFileType_(p), content |-> AddContent_(site, p)]

-----------------------------------------------------------------------------
(* HttpConn. *)

process(buff, site) ==
  LET replied(p) ==
        [rest |-> p.buff, request |-> p.r,
         response |-> MakeResponse(site, p.r.path, p.ok /\ IsKeepAlive(p.r), IF p.ok THEN 200 ELSE 400)]
  IN replied(parse(buff))

\* write: writev takes the next bytes of the two parts, as many as each call can.
writeOnce(w, len) ==
  LET out == w.out \o SubSeq(w.iov0 \o w.iov1, 1, len) IN
  IF len > Len(w.iov0)
    THEN [w EXCEPT !.out = out, !.iov1 = Drop(w.iov1, len - Len(w.iov0)), !.iov0 = <<>>,
                   !.writeBuff = IF w.iov0 # <<>> THEN <<>> ELSE @]
    ELSE [w EXCEPT !.out = out, !.iov0 = Drop(@, len), !.writeBuff = Drop(@, len)]
write(head, file, lens) ==
  FoldLeft(writeOnce, [out |-> <<>>, iov0 |-> head, iov1 |-> file, writeBuff |-> head], lens)
=============================================================================
