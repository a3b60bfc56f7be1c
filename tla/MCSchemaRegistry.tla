-------------------------- MODULE MCSchemaRegistry --------------------------
(***************************************************************************)
(* Instances of SchemaRegistry for TLC.                                    *)
(***************************************************************************)
EXTENDS SchemaRegistry, TLC

CONSTANTS f, g, Number

Object(t, u) == [h \in Fields |-> IF h = f THEN t ELSE u]
Request(k, t, u) == [kind |-> k, fields |-> Object(t, u)]

\* Writes that agree, writes that do not, and every kind of change.
MCRequests ==
  {Request("write", Number, None), Request("write", GeoPoint, None),
   Request("write", Number, GeoPoint), Request("alter", Delete, None),
   Request("alter", Delete, GeoPoint), Request("drop", None, None)}

\* Writes only, two of them of a GeoPoint.
GeoRequests ==
  {Request("write", GeoPoint, None), Request("write", Number, GeoPoint),
   Request("write", None, GeoPoint)}

Both == {TRUE, FALSE}
Never == {FALSE}
Symm == Permutations(Slots)
=============================================================================
