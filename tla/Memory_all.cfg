\* Three local pointers, two chunks of two nodes.
CONSTANTS
  Locals = {h1, h2, h3}
  Null = Null
  ChunkSize = 2
  MaxChunks = 2
SPECIFICATION Spec
SYMMETRY Interchangeable
INVARIANTS CountExact NoDangling PoolExact
