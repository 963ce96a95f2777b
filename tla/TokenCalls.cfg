\* Two clients, three calls in all, one lost request or reply.
SPECIFICATION Spec
CONSTANTS
  Clients = {c1, c2}
  a1 = a1
  a2 = a2
  b1 = b1
  ra = ra
  rb = rb
  Ids = {a1, a2, b1}
  RpOf <- MCRpOf
  Templates = {t1, t2}
  Kinds <- MCKinds
  Topics <- MCTopics
  Pins = {p1, p2}
  MaxRetries = 2
  Samples = 2
  None = None
  MaxCalls = 3
  MaxFailures = 1
SYMMETRY Symmetry
INVARIANTS EntriesOfOneCall TokenPermits FlagsFollow SamplesRemaining
PROPERTIES ListIsStored PinAttempts
