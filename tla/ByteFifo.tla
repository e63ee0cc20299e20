------------------------------ MODULE ByteFifo ------------------------------
(***************************************************************************)
(* What a byte buffer promises: a queue of bytes.  Chunks are put at the   *)
(* end, prefixes are taken from the front, and what is left can be thrown  *)
(* away.  taken is what the last call gave to its caller or to the socket. *)
(***************************************************************************)
EXTENDS Sequences, Naturals

CONSTANT Chunk   \* what can be put in one call: sequences of bytes

VARIABLES bytes, taken

Init == bytes = <<>> /\ taken = <<>>

Put(s) == bytes' = bytes \o s /\ taken' = <<>>

Take(n) ==
  /\ taken' = SubSeq(bytes, 1, n)
  /\ bytes' = SubSeq(bytes, n + 1, Len(bytes))

Clear == bytes' = <<>> /\ taken' = <<>>

Next ==
  \/ \E s \in Chunk : Put(s)
  \/ \E n \in 0..Len(bytes) : Take(n)
  \/ Clear

Spec == Init /\ [][Next]_<<bytes, taken>>
=============================================================================
