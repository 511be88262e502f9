\* Two callers; the issuer rotates once and may cap the lifetime below or above TTL.
CONSTANTS
  Callers = {c1, c2}
  NoCaller = NoCaller
  TTL = 1
  NegativeTTL = 2
  Timeout = 1
  MaxAges = {0, 2}
  MaxTime = 2
  MaxRotations = 1
SPECIFICATION FairSpec
INVARIANTS TypeOK BoundedStaleness RefreshSeesRotation NoStampede
PROPERTIES ErrorsJustified NeverBack CallsReturn
