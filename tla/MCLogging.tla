----------------------------- MODULE MCLogging -----------------------------
(* Documents for the loggers: one logger with another level and formatter    *)
(* (after a node that cannot be cast), two loggers of which one is given      *)
(* twice, the root logger itself, and an empty set.                           *)
EXTENDS Logging

App(type, file, fmt) == [type |-> type, file |-> file, fmt |-> fmt]
Def(n, lv, fmt, apps) == [name |-> n, level |-> lv, fmt |-> fmt, apps |-> apps]

A1 == Def("a", "debug", None, <<App("FileLogAppender", "f", None)>>)
A2 == Def("a", "FATAL", "own", <<App("StdoutLogAppender", None, None),
                                 App("FileLogAppedder", "h", None),
                                 App("FileLogAppender", "f", "app")>>)
B1 == Def("b", "loud", BadFormat, <<App("FileLogAppender", "g", BadFormat)>>)
R1 == Def(Root, "fatal", None, <<App("FileLogAppender", "f", None)>>)
X  == Def(None, "info", None, <<>>)

Nodes == {<<>>, <<X>>, <<A2>>, <<B1, A1, A2>>, <<R1>>}
MCValues == {LogDefines(n) : n \in Nodes \ {<<X>>}}
NoDefinition == <<>>
Var(v) == [key |-> "var", node |-> v]
MCDocs == {<<Var(<<X>>), Var(<<A2>>)>>, <<Var(<<B1, A1, A2>>)>>, <<Var(<<R1>>)>>,
           <<Var(<<>>), [key |-> "other", node |-> <<A2>>]>>}
MCCalls == {<<"a", DEBUG>>, <<"b", FATAL>>, <<Root, DEBUG>>}
MCOrder == <<"a", "b", "root">>
=============================================================================
