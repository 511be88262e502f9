\* Two keys, one reader, one cleaner: the clock runs through 1..3.
CONSTANTS
  Keys = {k1, k2}
  NoKey = NoKey
  NilToken = NilToken
  Readers = {r1}
  Sweepers = {s1}
  MaxTime = 3
SPECIFICATION Spec
INVARIANTS TypeOK LookupHonest
PROPERTY KeepsPromise
