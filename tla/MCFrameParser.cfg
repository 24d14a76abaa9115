SPECIFICATION ParserSpec

CONSTANTS
  Streams <- MCAllStreams
  ExtendedFrom = 6
  ChunkSize = 7
  MaxBuffer = 19

INVARIANTS
  ParserTypeOK
  ParsedAreSent
  NothingHeldBack

CHECK_DEADLOCK FALSE
