CONSTANTS
  Height = {0, 1, 2}
  Round = {0}
  a = a
  b = b
  Nil = Nil
  NoFile = NoFile
  mine = mine
  other = other
  Block <- MCBlock
  ChainId = mine
  Chains <- MCChains
  MaxHeight <- MCMaxHeight
  SignRequests <- MCVoteRequests
  MaxInFlight = 2
SPECIFICATION FairSpec
INVARIANTS
  TypeOK
  NoDoubleSignUnlessLost
  NewestCoversSigned
  EnclaveHoldsNewest
  InFlightInOrder
PROPERTIES
  FileOnlyAdvances
  EveryUpdateStored
  GuardSpec
