----------------------------- MODULE ConfigVar -----------------------------
(***************************************************************************)
(* A configuration variable (ConfigVar<T>, include/config.h), the registry *)
(* it is found in (Config) and the loading of a YAML document, which       *)
(* assigns every variable the document names (src/config.cpp).             *)
(*                                                                         *)
(* setValue holds the variable's read lock while it calls the listeners    *)
(* and assigns later, under the write lock.  What happens under a write    *)
(* lock is one action; a reader that calls out is several, and stands in   *)
(* readers meanwhile.                                                      *)
(***************************************************************************)
EXTENDS Integers, Sequences, SequencesExt, FiniteSets

CONSTANTS
  Threads,    \* callers of LoadFromYaml, getValue and of the listener calls
  Static,     \* how many listeners static initialisers add
  MaxIds,     \* bound: listeners ever added; ids are handed out in order, 1, 2, ...
  Values,     \* values of the variable (the type T)
  Default,    \* its default value
  Thrown,     \* what the cast of a node is when it throws
  Cast(_),    \* LexicalCast<std::string, T>: from a YAML node
  Docs,       \* documents: sequences of [key, node]
  MaxLoads    \* bound: documents loaded

Members == UNION {Range(doc) : doc \in Docs}
Registered(key) == key = "var"

ASSUME ConfigAssumption ==
  /\ Default \in Values /\ Thrown \notin Values
  /\ Static \in Nat /\ MaxIds \in Nat \ {0} /\ Static <= MaxIds /\ MaxLoads \in Nat
  /\ Docs \subseteq Seq(Members)
  /\ \A m \in Members : Registered(m.key) => Cast(m.node) \in Values \cup {Thrown}

VARIABLES
  val,       \* m_val
  cbs,       \* keys of m_cbs
  lastId,    \* s_fun_id
  readers,   \* threads inside setValue's first block
  cpc,       \* where each thread is
  arg,       \* the value it is setting
  todo,      \* (key, node) pairs of its document still to be looked at
  toCall,    \* listeners its setValue has still to call
  told,      \* history: the new value each listener was last called with
  overlap,   \* history: one setValue was still to assign when another called listeners
  gap,       \* history: listeners added when some setValue had still to assign
  loads

config == <<val, cbs, lastId, readers, cpc, arg, todo, toCall, told, overlap, gap, loads>>

Listeners == 1..MaxIds

ConfigInit ==
  /\ val = Default /\ cbs = 1..Static /\ lastId = Static /\ readers = {}
  /\ cpc = [t \in Threads |-> "idle"] /\ arg = [t \in Threads |-> Default]
  /\ todo = [t \in Threads |-> <<>>] /\ toCall = [t \in Threads |-> {}]
  /\ told = [l \in Listeners |-> Default] /\ overlap = FALSE /\ gap = {}
  /\ loads = 0

\* ListAllMember flattens the document; LoadFromYaml walks over the list.
LoadFromYaml(t, doc) ==
  /\ cpc[t] = "idle" /\ todo[t] = <<>> /\ loads < MaxLoads
  /\ loads' = loads + 1
  /\ todo' = [todo EXCEPT ![t] = doc]
  /\ UNCHANGED <<val, cbs, lastId, readers, cpc, arg, toCall, told, overlap, gap>>

\* LookupBase finds the variable by its name (Registered), and fromString casts the
\* node; a key nobody registered and a cast that throws leave the variable alone.
NextKey(t) ==
  /\ cpc[t] = "idle" /\ todo[t] # <<>>
  /\ LET m == Head(todo[t]) IN
       IF Registered(m.key) /\ Cast(m.node) # Thrown
         THEN cpc' = [cpc EXCEPT ![t] = "set"] /\ arg' = [arg EXCEPT ![t] = Cast(m.node)]
         ELSE UNCHANGED <<cpc, arg>>
  /\ todo' = [todo EXCEPT ![t] = Tail(@)]
  /\ UNCHANGED <<val, cbs, lastId, readers, toCall, told, overlap, gap, loads>>

\* Threads that have called some listener and have not assigned yet.
Assigning == {t \in Threads : cpc[t] \in {"call", "write"}}

\* setValue takes the read lock and compares.
Same(v) == v = val
SetValue(t) ==
  /\ cpc[t] = "set"
  /\ IF Same(arg[t])
       THEN /\ cpc' = [cpc EXCEPT ![t] = "idle"] /\ arg' = [arg EXCEPT ![t] = Default]
            /\ UNCHANGED <<readers, toCall, overlap>>
       ELSE /\ cpc' = [cpc EXCEPT ![t] = "call"]
            /\ readers' = readers \cup {t}
            /\ toCall' = [toCall EXCEPT ![t] = cbs]
            /\ overlap' = (overlap \/ Assigning # {})
            /\ UNCHANGED arg
  /\ UNCHANGED <<val, cbs, lastId, todo, told, gap, loads>>

\* i.second(m_val, v), in the order of the keys.
First(x, S) == x \in S /\ \A y \in S : x <= y
CallListener(t) ==
  /\ cpc[t] = "call"
  /\ \E l \in toCall[t] :
       /\ First(l, toCall[t])
       /\ told' = [told EXCEPT ![l] = arg[t]]
       /\ toCall' = [toCall EXCEPT ![t] = @ \ {l}]
  /\ UNCHANGED <<val, cbs, lastId, readers, cpc, arg, todo, overlap, gap, loads>>

\* The block ends and with it the read lock.  (Mutant: the lock is kept.)
Kept(t) == readers
Left(t) == readers \ {t}
EndRead(t) ==
  /\ cpc[t] = "call" /\ toCall[t] = {}
  /\ readers' = Left(t) /\ cpc' = [cpc EXCEPT ![t] = "write"]
  /\ UNCHANGED <<val, cbs, lastId, arg, todo, toCall, told, overlap, gap, loads>>

\* The write lock is granted when no reader is left.  (Mutant: the assignment is lost.)
WriteLockFree == readers = {}
StaysOld(t) == val
Assigned(t) == arg[t]
Assign(t) ==
  /\ cpc[t] = "write" /\ WriteLockFree
  /\ val' = Assigned(t) /\ cpc' = [cpc EXCEPT ![t] = "idle"]
  /\ arg' = [arg EXCEPT ![t] = Default]
  /\ UNCHANGED <<cbs, lastId, readers, todo, toCall, told, overlap, gap, loads>>

\* addListener: ids are never handed out twice.
AddListener(t) ==
  /\ cpc[t] = "idle" /\ todo[t] = <<>> /\ WriteLockFree /\ lastId < MaxIds
  /\ lastId' = lastId + 1
  /\ cbs' = cbs \cup {lastId'} /\ told' = [told EXCEPT ![lastId'] = val]
  /\ gap' = IF Assigning = {} THEN gap ELSE gap \cup {lastId'}
  /\ UNCHANGED <<val, readers, cpc, arg, todo, toCall, overlap, loads>>

\* delListener; the listeners of the static initialisers are never taken away.
DelListener(t, l) ==
  /\ cpc[t] = "idle" /\ todo[t] = <<>> /\ WriteLockFree
  /\ l \in cbs /\ l > Static
  /\ cbs' = cbs \ {l}
  /\ UNCHANGED <<val, lastId, readers, cpc, arg, todo, toCall, told, overlap, gap, loads>>

-----------------------------------------------------------------------------
ConfigTypeOK ==
  /\ val \in Values /\ cbs \subseteq 1..lastId /\ lastId \in 0..MaxIds /\ readers \subseteq Threads
  /\ cpc \in [Threads -> {"idle", "set", "call", "write"}]
  /\ arg \in [Threads -> Values] /\ todo \in [Threads -> Seq(Members)]
  /\ toCall \in [Threads -> SUBSET Listeners] /\ told \in [Listeners -> Values]
  /\ overlap \in BOOLEAN /\ gap \subseteq Listeners /\ loads \in 0..MaxLoads

\* Once every setValue has returned, each listener knows the value that is stored,
\* although it was called before the assignment and under another lock: the only
\* ways to leave it with a stale value are two setValue calls that overlap and a
\* listener added between the calls and the assignment.
ListenersKnowTheValue ==
  Assigning = {} /\ ~overlap => \A l \in cbs \ gap : told[l] = val
=============================================================================
