SPECIFICATION Spec
CONSTANTS
  Chosen = {"installations"}
  InstallationKinds = {"every"}
  Tokens = {"t1", "t2"}
  Users = {"u1"}
  Roles = {"r1", "r2"}
  Owner <- MCOwner
  TTL = 1
  AuthLoads <- MCAuthLoads
  PushIds = {1, 2, 3, 4, 5}
  Locales = {"fr"}
  BatchSize = 2
  Pushes <- MCPushes
  DeviceIds = {1, 2, 3}
  Insts = {"i1", "i2"}
  DeviceTokens = {"k1", "k2"}
  DeviceLoads <- MCDeviceLoads
  ObjectIds = {"x1", "x2", "x3"}
  Fields = {"a", "b"}
  RequestIds = {"q1"}
  ObjectLoads <- MCObjectLoads
  HookNames = {"f", "g"}
  Urls = {"here", "there"}
  Code = "code"
  HookLoads <- MCHookLoads
  Slots = {1, 2}
  None = None
CHECK_DEADLOCK FALSE
INVARIANT MergeKeepsARow
