------------------------------ MODULE YamlCast ------------------------------
(***************************************************************************)
(* LexicalCast between YAML and the values of configuration variables      *)
(* (include/config.h, src/log.cpp).  A sequence node is a sequence of      *)
(* nodes, a map node a sequence of [key, node]; cast is the function that  *)
(* casts an element.                                                       *)
(***************************************************************************)
EXTENDS Integers, Sequences, SequencesExt, Functions, FiniteSetsExt

CONSTANTS
  Order,      \* names in the order of std::string's <
  None,       \* an empty or missing string
  Thrown      \* what a cast is when it throws

DEBUG == 1
FATAL == 5
UNKNOW == 0
Stdout == "stdout"

-----------------------------------------------------------------------------
(* Containers: each element is dumped, cast and put in. *)

ToVector(node, cast) == [i \in DOMAIN node |-> cast[node[i]]]
FromVector(v, cast) == [i \in DOMAIN v |-> cast[v[i]]]
ToSetOf(node, cast) == {cast[node[i]] : i \in DOMAIN node}
FromSet(S, cast) == SetToSeq({cast[x] : x \in S})

\* std::map::insert keeps the first value of a key.
FirstOf(node, k) == Min({i \in DOMAIN node : node[i].key = k})
ToMap(node, cast) ==
  [k \in {node[i].key : i \in DOMAIN node} |-> cast[node[FirstOf(node, k)].node]]
FromMap(f, cast) ==
  LET keys == SetToSeq(DOMAIN f) IN [i \in DOMAIN keys |-> [key |-> keys[i], node |-> cast[f[keys[i]]]]]

-----------------------------------------------------------------------------
(* The definitions of loggers. *)

LevelNames == <<{"debug", "DEBUG"}, {"info", "INFO"}, {"warn", "WARN"},
                {"error", "ERROR"}, {"fatal", "FATAL"}>>
FromString(str) ==
  IF \E l \in DEBUG..FATAL : str \in LevelNames[l]
    THEN CHOOSE l \in DEBUG..FATAL : str \in LevelNames[l] ELSE UNKNOW
LevelToString(level) ==
  IF level \in DEBUG..FATAL THEN <<"DEBUG", "INFO", "WARN", "ERROR", "FATAL">>[level] ELSE "UNKNOW"

\* An appender of an unknown type, or a file without a name, is passed over.  Its
\* level is never read from the document: it stays UNKNOW and lets everything pass.
ValidAppender(a) ==
  \/ a.type = "FileLogAppender" /\ a.file # None
  \/ a.type = "StdoutLogAppender"
AppenderDefine(a) ==
  [to |-> IF a.type = "FileLogAppender" THEN a.file ELSE Stdout, fmt |-> a.fmt]

LogDefine(n) ==
  LET valid == SelectSeq(n.apps, ValidAppender)
  IN [name |-> n.name, level |-> FromString(n.level), fmt |-> n.fmt,
      apps |-> [i \in DOMAIN valid |-> AppenderDefine(valid[i])]]

\* The cast of the whole node throws at a definition without a name; the std::set
\* is ordered by name and keeps the first definition of each.
LogDefines(node) ==
  IF \E i \in DOMAIN node : node[i].name = None THEN Thrown
  ELSE LET named == SelectSeq(Order, LAMBDA n : \E i \in DOMAIN node : node[i].name = n)
           first(n) == Min({i \in DOMAIN node : node[i].name = n})
       IN [k \in DOMAIN named |-> LogDefine(node[first(named[k])])]

\* The way back.  (Mutant: every appender is written as a file.)
AlwaysFile(a) == "FileLogAppender"
TypeOf(a) == IF a.to = Stdout THEN "StdoutLogAppender" ELSE "FileLogAppender"
DefineNode(d) ==
  [name |-> d.name, level |-> IF d.level # UNKNOW THEN LevelToString(d.level) ELSE None, fmt |-> d.fmt,
   apps |-> [i \in DOMAIN d.apps |->
              [type |-> TypeOf(d.apps[i]),
               file |-> IF d.apps[i].to = Stdout THEN None ELSE d.apps[i].to, fmt |-> d.apps[i].fmt]]]
=============================================================================
