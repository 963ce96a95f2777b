SPECIFICATION Spec
CONSTANTS
  Clients = {c1, c2}
  Cids = {d1, d2}
  Broadcast = broadcast
  CapCbor = {TRUE}
  DisableFallback = TRUE
  MaxNonce = 2
  MaxReqs = 2
SYMMETRY Symmetry
INVARIANTS ClosedCanBeOpened
