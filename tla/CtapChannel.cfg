\* Two clients open and reopen one token, or one sends up to four requests, FIDO2
\* and U2F, with failures of every call.
SPECIFICATION MCSpec
CONSTANTS
  Clients = {c1, c2}
  Cids = {d1, d2}
  Broadcast = broadcast
  CapCbor = {TRUE, FALSE}
  DisableFallback = FALSE
  MaxNonce = 2
  MaxReqs = 4
SYMMETRY Symmetry
INVARIANTS OwnChannel ReplyOfThisSession OwnReply
