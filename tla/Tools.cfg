\* Runs: two processes, a right and a wrong PIN.  Lists: two tokens and another device
\* in three places, nodes, readers and entries one more than fit.
\* The bounds on runs and changes are reached: no more steps.
SPECIFICATION MCSpec
CHECK_DEADLOCK FALSE
SYMMETRY Swaps
CONSTANTS
  Procs = {p1, p2}
  Pins = {n1, n2}
  Attempts = 3
  MaxRuns = 2
  MaxLost = 1
  None = None
  Absent = Absent
  Systems = {"linux", "freebsd", "netbsd", "openbsd", "osx", "win", "hidapi"}
  Tokens = {t1, t2}
  Others = {o1}
  MaxNodes = 2
  MaxReaders = 2
  Room = 2
  MaxPlaces = 3
  MaxChanges = 4
INVARIANTS WrongPins
PROPERTIES StatusTells ListedOpens
