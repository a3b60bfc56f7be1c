SPECIFICATION MCSpec
CONSTANTS
  Clients = {"owner", "other", "admin"}
  Requests = {"r1", "r2", "r3", "s1", "s2"}
  Queries = {"small", "large", "common"}
  Versions = {"pS", "pL", "oS", "s", "t", "n"}
  MasterClients = {"admin"}
  Public = {"pS", "pL", "n"}
  ClientOf <- MCClientOf
  QueryOf <- MCQueryOf
  Match <- MCMatch
  Sessions <- MCSessions
  Roles <- MCRoles
  Grants <- MCGrants
  HasTrigger = TRUE
  LookupsFail = TRUE
  MaxMessages = 3
  None = None
  Settings = {"mixed", "shared"}
CHECK_DEADLOCK FALSE
INVARIANTS PushedToReaders SecretsToMasterOnly SharedPushedAsDecided ViewTracksObject
PROPERTY ViewsConverge
