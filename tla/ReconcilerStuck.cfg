\* Two failed calls, nothing else goes wrong.
CONSTANTS
  TicksPerSecond = 2
  Expiration = 5
  Cutoff = 1
  MaxEdits = 0
  MaxFailures = 2
  MaxCrashes = 0
  MaxTrouble = 2
SPECIFICATION Spec
INVARIANT AlwaysFresh
