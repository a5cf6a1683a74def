\* Three calls at once, four in all, three tokens and a sign-on link.
CONSTANTS
  Calls = {w1, w2, w3}
  MaxTokens = 3
  MaxLinks = 1
  MaxCalls = 4
  NoOne = NoOne
SPECIFICATION MCSessionsSpec
SYMMETRY Symmetry
CHECK_DEADLOCK FALSE
INVARIANTS RotatedOnce RevocationHolds
PROPERTY ReleasesOwnLock
