CONSTANTS
  CPUs = {cpu1, cpu2}
  CloudKeys = {ck1, ck2}
  MaxKeys = 6
  NoFile = NoFile
  Torn = Torn
SPECIFICATION Spec
CHECK_DEADLOCK FALSE
INVARIANTS
  TypeOK
  BackupTaken
  KeysApart
