CONSTANTS
  Base = 2
  Payloads <- MCPayloads
  MaxFrames = 3
SPECIFICATION FairSpec
CHECK_DEADLOCK FALSE
INVARIANTS
  InStep
PROPERTIES
  AllRead
  ReaderNotices
