SPECIFICATION Spec
CONSTANTS
  Clients = {c1}
  Cids = {d1}
  Broadcast = broadcast
  CapCbor = {TRUE}
  DisableFallback = FALSE
  MaxNonce = 1
  MaxReqs = 4
SYMMETRY Symmetry
INVARIANTS CancelTerminates
