SPECIFICATION Spec
CONSTANTS
  Byte = {a, b, z}
  Zero = z
  Chunk <- Chunks
  MaxChunk = 3
  InitSize = 2
  ExtraSize = 2
  MaxReadable = 4
INVARIANT TypeOK
INVARIANT StorageBounded
PROPERTY GrowsOnlyWhenFull
PROPERTY ImplementsFifo
