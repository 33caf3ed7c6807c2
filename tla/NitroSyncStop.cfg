CONSTANTS
  Height = {0, 1, 2}
  Round = {0}
  a = a
  b = b
  Nil = Nil
  NoFile = NoFile
  mine = mine
  other = other
  Block <- MCBlock
  ChainId = mine
  Chains <- MCChains
  MaxHeight <- MCMaxHeight
  SignRequests <- MCBlockRequests
  MaxInFlight = 2
  MaxConfigs = 1
SPECIFICATION FairSpec
PROPERTIES
  StopFinishes
