\* "No chunk is larger than the target", of the chunker's test: it is not so.
SPECIFICATION ChunkerSpec
CONSTANTS
  Sources <- MCSources
  ChunkConfigs <- MCChunkConfigs
  HeaderPages = 2
  HeaderTokens = 1
INVARIANT EveryChunkRespectsTheTarget
CHECK_DEADLOCK FALSE
