--------------------------- MODULE ToolArguments ---------------------------
(***************************************************************************)
(* How tcpputfiles, tcpgetfiles, ftpgetfiles, ftpputfiles and fileserver   *)
(* read their arguments (_xmltoarg of each), and what reaches the server   *)
(* in the message with which a client logs in.                             *)
(*                                                                         *)
(* The name of an argument is one character of the model; a tag still has  *)
(* its brackets.                                                           *)
(***************************************************************************)
EXTENDS PublicStrings

Arg(name, kind, len) == [name |-> name, kind |-> kind, len |-> len]
TextArgs(names, len) == {Arg(n, "text", len) : n \in names}
IntArgs(names) == {Arg(n, "int", 50) : n \in names}
BoolArgs(names) == {Arg(n, "bool", 10) : n \in names}

\* The members of st_arg after the memset and the calls of GetXMLBuffer.
Given(xml, a) ==
  CASE a.kind = "text" -> GetXMLBuffer(xml, <<a.name>>, a.len).value
    [] a.kind = "int"  -> XmlInt(xml, <<a.name>>).value
    [] a.kind = "bool" -> XmlBool(xml, <<a.name>>)
Read(xml, args) == [n \in {a.name : a \in args} |-> Given(xml, CHOOSE a \in args : a.name = n)]

\* An empty text and a 0 are what is refused.
Missing(arg, a) == IF a.kind = "text" THEN arg[a.name] = <<>> ELSE a.kind = "int" /\ arg[a.name] = 0
Parsed(xml, args, required, ptypes) ==
  LET checked(arg) ==
        [ok |-> arg["ptype"] \in ptypes /\ \A a \in args : a.name \in required => ~Missing(arg, a),
         arg |-> arg]
  IN checked(Read(xml, args))

-----------------------------------------------------------------------------
TcpArgs == TextArgs({"ip"}, 30) \cup TextArgs({"clientpath", "matchname", "srvpath"}, 300) \cup TextArgs({"pname"}, 50)
           \cup IntArgs({"port", "ptype", "timeval", "timeout"}) \cup BoolArgs({"andchild"})
PutArgs == TcpArgs \cup TextArgs({"clientpathbak"}, 300)
Tcpputfiles(xml) == Parsed(xml, PutArgs, {a.name : a \in PutArgs}, {1, 2})
Tcpgetfiles(xml) == Parsed(xml, TcpArgs, {a.name : a \in TcpArgs}, {1, 2})

\* The two clients append the same clienttype; the server takes the first one.
LoginMessage(xml) == xml \o Tag(<<"clienttype">>) \o <<"1">> \o EndTag(<<"clienttype">>)
Fileserver(xml) ==
  LET arg == Read(xml, PutArgs \cup IntArgs({"clienttype"}))
  IN [arg EXCEPT !["timeval"] = Min({@, 30}), !["timeout"] = Min({@, 50}), !["pname"] = @ \o <<"_", "s", "r", "v">>]

\* The backup directory and the list of finished files are never required: where they
\* are needed it is matchname that is looked at again.
FtpArgs == TextArgs({"host", "username", "password"}, 30) \cup TextArgs({"remotepath", "localpath"}, 300)
           \cup TextArgs({"matchname"}, 100) \cup TextArgs({"pname"}, 50) \cup IntArgs({"ptype", "timeout"})
Optional == TextArgs({"okfilename"}, 300) \cup IntArgs({"mode"})
Passive(r) == [r EXCEPT !.arg["mode"] = IF @ = 2 THEN 2 ELSE 1]
FtpGetArgs == FtpArgs \cup TextArgs({"listfilename"}, 301)
Ftpgetfiles(xml) ==
  Passive(Parsed(xml, FtpGetArgs \cup Optional \cup TextArgs({"remotepathbak"}, 300) \cup BoolArgs({"checkmtime"}),
                 {a.name : a \in FtpGetArgs}, 1..3))
Ftpputfiles(xml) ==
  Passive(Parsed(xml, FtpArgs \cup Optional \cup TextArgs({"localpathbak"}, 300), {a.name : a \in FtpArgs}, 1..3))
=============================================================================
