SPECIFICATION WrapSpec
CONSTANTS
  N = 2
  Word <- MCWord
  Keks = {"k1", "k2"}
  BadKek = BadKek
  IV = 10
  Encrypt <- MCEncrypt
  Decrypt <- MCDecrypt
  Mix <- MCMix
INVARIANT WrapTypeOK
INVARIANT RoundTrip
INVARIANT OpensOnlyWrapped
CHECK_DEADLOCK FALSE
