\* Three commands whose replies may come late, be interleaved with reports of
\* another channel, or be lost; two commands with a timeout of two milliseconds of
\* two ticks each, and writes that take time; and the refinement of HidMessage.
SPECIFICATION MCSpec
CONSTANTS
  Cid = cid
  Other = other
  ReportLen = 8
  RequestLens <- ThreeRequests
  ReplyLens <- SmallReplies
  BufLen = 5
  Timeout = 2
  Ticks = 2
  MaxWrite = 3
  MaxCmds = 3
  MaxNoise = 2
  MaxLoss = 2
INVARIANTS AcceptedWhole OwnReply RequestsWhole TimeoutBudget
PROPERTIES SentWhole MessageSpec CommandReturns
