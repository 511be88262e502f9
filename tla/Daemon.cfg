\* Two keys, one restart; a token and its refresh, or two tokens of one jti.
CONSTANTS
  TicksPerSecond = 2
  DefaultExpiration = 3
  MaxAge = 2
  Leeway = 1
  NoKid = NoKid
  NoKey = NoKey
  NilToken = NilToken
  SignKeys = {ka, kb}
  Jtis = {j1}
  Requests = {q1}
  Exps <- MCExps
  Iats <- MCIats
  Nbfs <- MCNbfs
  Lifetimes = {2}
  KidHeaders = {NoKid}
  MaxTime = 3
  MaxTokens = 2
  MaxRestarts = 1
SPECIFICATION Spec
SYMMETRY AnyKey
INVARIANTS TypeOK ChainRevoked RejectedForCause WindowPreserved
