SPECIFICATION FairSpec
CONSTANTS
  Procs = {p1, p2, p3}
  Sessions = {s1, s2}
  MaxRetries = 1
  NoOne = none
INVARIANTS OneOwner NothingOfTheAwaited NoLeak
PROPERTY OpenReturns
