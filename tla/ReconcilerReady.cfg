\* One edit of the spec.
CONSTANTS
  TicksPerSecond = 2
  Expiration = 5
  Cutoff = 1
  MaxEdits = 1
  MaxFailures = 0
  MaxCrashes = 0
  MaxTrouble = 1
SPECIFICATION Spec
INVARIANT ReadyMeansCurrent
