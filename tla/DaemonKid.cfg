CONSTANTS
  TicksPerSecond = 2
  DefaultExpiration = 3
  MaxAge = 3
  Leeway = 1
  NoKid = NoKid
  NoKey = NoKey
  NilToken = NilToken
  SignKeys = {ka, kb}
  Jtis = {}
  Requests = {q1}
  Exps <- NoTimes
  Iats <- MCIats
  Nbfs <- NoTimes
  Lifetimes = {2}
  KidHeaders = {NoKid, kb}
  MaxTime = 5
  MaxTokens = 2
  MaxRestarts = 0
SPECIFICATION Spec
INVARIANT IssuedVerifiable
