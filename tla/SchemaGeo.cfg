\* Two writes of GeoPoints at a time, each request with a cache of its own.
SPECIFICATION Spec
CONSTANTS
  f = f
  g = g
  Number = Number
  GeoPoint = GeoPoint
  Fields = {f, g}
  Types = {Number, GeoPoint}
  Requests <- GeoRequests
  Slots = {s1, s2}
  CacheModes <- Never
  MaxRequests = 2
  None = None
  Delete = Delete
  NoClass = NoClass
  Nothing = Nothing
  Shared = Shared
SYMMETRY Symm
INVARIANT OneGeoPointField
CHECK_DEADLOCK FALSE
