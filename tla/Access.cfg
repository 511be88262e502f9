\* One token, two connections, one change from outside.
CONSTANTS
  Empty = Empty
  Nil = Nil
  Conns = {q1, q2}
  Asks <- MCAsks
  Policies <- MCPolicies
  DefaultIssuer <- MCIssuer
  Wants <- MCWants
  Configs <- MCConfigs
  Stores <- MCStores
  Revokers <- MCRevokers
  Accounts <- MCAccounts
  MaxTokens = 1
  MaxEvents = 1
SPECIFICATION FairSpec
INVARIANTS TypeOK OwnAudience DeniedForCause IdentityGranted RevokedShut OnlyLiveAccounts CleanStop
PROPERTIES Stops
