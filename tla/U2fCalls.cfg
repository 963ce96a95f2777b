\* Objects filled in any order, verified, and handed to devices of either kind in
\* three calls.
SPECIFICATION CallsSpec
CONSTANTS
  None = None
  r1 = r1
  r2 = r2
  d1 = d1
  d2 = d2
  i1 = i1
  i2 = i2
  i3 = i3
  i4 = i4
  DigestRoom = 1
  Made <- MCMade
  Given <- MCGiven
  Programs <- MCPrograms
  Timeouts <- MCTimeouts
  MaxTook = 2
  MaxCalls = 3
INVARIANTS VerifiedIsAttested GenuineAccepted DecodedTogether AssertionIsGiven GivenAccepted
  TimeoutKept CredentialOfThisCall AssertionsOfThisCall
PROPERTY U2fReturns
