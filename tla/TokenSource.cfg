\* Two goroutines share the cache, one reads the file source beside them.
CONSTANTS
  Clients = {c1, c2}
  Direct = {d1}
  Nobody = Nobody
  TTL = 1
  Interval = 1
  MaxDelay = 1
  MaxTime = 3
  MaxVersion = 1
SPECIFICATION Spec
INVARIANTS TypeOK TokenAge LocksReleased
PROPERTY NeverOlder
