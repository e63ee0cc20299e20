---------------------------- MODULE MCByteBuffer ----------------------------
(***************************************************************************)
(* ByteBuffer with every chunk of at most MaxChunk bytes.                  *)
(***************************************************************************)
EXTENDS ByteBuffer

CONSTANT MaxChunk

Chunks == UNION {[1..n -> Byte \ {Zero}] : n \in 0..MaxChunk}
=============================================================================
