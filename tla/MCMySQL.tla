------------------------------ MODULE MCMySQL -------------------------------
(* MySQLManager with threads, connections and calls that are interchangeable: *)
(* no definition chooses among them, and the run has no liveness property.    *)
EXTENDS MySQLManager, TLC

Symmetric == Permutations(Threads) \cup Permutations(Conns) \cup Permutations(Calls)
=============================================================================
