\* APDUs: requests and replies around the multiples of a chunk and of a response;
\* replies of 6 do not leave room for the status in the buffer, those of 9 overflow
\* it.  Reports: every system, and a kernel queue that overflows.
\* Targets: two processes, two readers, and a target that was there before.
\* The counters are at their bounds, or the card has been taken away: no more steps.
SPECIFICATION MCSpec
CHECK_DEADLOCK FALSE
CONSTANTS
  Readers = {"pcsc", "socket"}
  Chunk = 2
  Room = 2
  RequestLens = {2, 4, 5}
  ReplyLens = {0, 2, 5, 6, 9}
  BufLen = 7
  MaxCmds = 3
  MaxFailures = 1
  Systems = {"linux", "freebsd", "netbsd", "openbsd", "hidapi", "osx", "win"}
  QueueLen = 2
  MaxReports = 4
  MaxHidFailures = 1
  Waits <- MCWaits
  NoReport = NoReport
  Openers = {p1, p2}
  Devs = {d1, d2}
  MaxTargets = 2
  MaxEvents = 2
  NoOne = NoOne
INVARIANTS RequestsWhole OwnReply OpenedClean FoundByThisOpen
PROPERTIES TransportReturns QueueSpec
