\* A lifetime of 2.5 seconds, refreshed half a second before its end.
CONSTANTS
  TicksPerSecond = 2
  Expiration = 5
  Cutoff = 1
  MaxEdits = 2
  MaxFailures = 2
  MaxCrashes = 1
  MaxTrouble = 3
SPECIFICATION FairSpec
INVARIANTS TypeOK FreshWhenQuiet ReadyHasToken
PROPERTIES Recovers Settles NoOrphan
