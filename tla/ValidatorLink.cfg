SPECIFICATION Spec
CONSTANTS
  Conns = {c1, c2, c3}
  None = None
  Kinds = {"vote", "ping"}
INVARIANT TypeOK
INVARIANT OneInFlight
PROPERTY RequestSettled
PROPERTY Reattaches
