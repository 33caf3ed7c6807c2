CONSTANTS
  CPUs = {cpu1, cpu2}
  CloudKeys = {ck1, ck2}
  MaxKeys = 4
  NoFile = NoFile
  Torn = Torn
SPECIFICATION Spec
CHECK_DEADLOCK FALSE
INVARIANT
  RecoversId
