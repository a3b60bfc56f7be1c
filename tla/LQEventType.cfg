SPECIFICATION MCSpec
CONSTANTS
  Clients = {"owner", "other", "admin"}
  Requests = {"r1", "r2", "r3", "s1", "s2"}
  Queries = {"small", "large", "common"}
  Versions = {"pS", "pL", "oS", "s", "t", "n"}
  MasterClients = {"admin"}
  Public = {"pS", "pL", "n"}
  ClientOf <- MCClientOf
  QueryOf <- MCQueryOf
  Match <- MCMatch
  Sessions <- MCSessions
  Roles <- MCRoles
  Grants <- MCGrants
  HasTrigger = FALSE
  LookupsFail = FALSE
  MaxMessages = 3
  None = None
  Settings = {"mixed"}
CHECK_DEADLOCK FALSE
INVARIANT PushedAsDecided
