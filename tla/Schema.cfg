\* Two requests at a time, three in all; every kind, with and without the
\* shared cache.
SPECIFICATION Spec
CONSTANTS
  f = f
  g = g
  Number = Number
  GeoPoint = GeoPoint
  Fields = {f, g}
  Types = {Number, GeoPoint}
  Requests <- MCRequests
  Slots = {s1, s2}
  CacheModes <- Both
  MaxRequests = 3
  None = None
  Delete = Delete
  NoClass = NoClass
  Nothing = Nothing
  Shared = Shared
SYMMETRY Symm
INVARIANTS StoredMatchesSchema
PROPERTY RefusedForAConflict
CHECK_DEADLOCK FALSE
