SPECIFICATION Spec
CONSTANTS
  Identity = {"s1", "s2", "o1", "k1", "t1", "u1", "x1", "f1", "f2", "f3", "f4"}
  NoIdentity = "no identity"
  Bytes <- MCBytes
  Frames <- MCFrames
  Streams <- MCStreams
  ChunkSizes = {1, 3, 5}
  MAX_PROVIDER_LINE_BYTES = 4
  MAX_PROVIDER_BUFFER_BYTES = 8
  MAX_PROVIDER_EVENT_IDENTITIES = 5
  MAX_CONSECUTIVE_INVALID = 5
CHECK_DEADLOCK FALSE
INVARIANTS
  ParserConsistent
  ChunksAreImmaterial
  FixturesHold
  SmokeAgrees
