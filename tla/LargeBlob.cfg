SPECIFICATION Spec
CONSTANTS
  Clients = {c1, c2}
  Keys = {k1, k2}
  Vals = {v1}
  UserArrays <- Emptied
  Parts = 2
  MaxChunk = 3
  Capacity = 6
  Protected = TRUE
SYMMETRY Symmetry
PROPERTIES AckedIsStored StoreSpec
