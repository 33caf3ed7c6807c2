CONSTANTS
  Height = {0, 1, 2}
  Round = {0, 1}
  a = a
  b = b
  Nil = Nil
  NoFile = NoFile
  mine = mine
  other = other
  Block <- MCBlock
  ChainId = mine
  Chains <- MCChains
  MaxHeight <- MCMaxHeight
  SignRequests <- MCSignRequests
SPECIFICATION Spec
INVARIANTS
  TypeOK
  NoDoubleSign
  NoFlip
  FileCoversSigned
  RetryAccepted
PROPERTIES
  FileOnlyAdvances
  GuardSpec
