\* RefreshThreshold 1: the cutoff is the whole lifetime.  Nothing goes wrong.
CONSTANTS
  TicksPerSecond = 2
  Expiration = 5
  Cutoff = 5
  MaxEdits = 0
  MaxFailures = 0
  MaxCrashes = 0
  MaxTrouble = 0
SPECIFICATION FairSpec
PROPERTY Settles
