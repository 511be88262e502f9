CONSTANTS
  TicksPerSecond = 2
  DefaultExpiration = 3
  MaxAge = 3
  Leeway = 1
  NoKid = NoKid
  NoKey = NoKey
  NilToken = NilToken
  SignKeys = {ka}
  Jtis = {j1}
  Requests = {q1}
  Exps <- NoTimes
  Iats <- MCIats
  Nbfs <- NoTimes
  Lifetimes = {2}
  KidHeaders = {NoKid}
  MaxTime = 5
  MaxTokens = 2
  MaxRestarts = 0
SPECIFICATION Spec
INVARIANT SpentStaysSpent
