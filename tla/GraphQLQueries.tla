---------------------------- MODULE GraphQLQueries ----------------------------
(***************************************************************************)
(* The queries of the GraphQL API: how a where becomes one of the REST API *)
(* (transformers/query.js), how the arguments of a connection become a     *)
(* skip and a limit and its answer edges and cursors                       *)
(* (helpers/objectsQueries.js), and how the fields selected become keys    *)
(* and paths to include (parseGraphQLUtils.js).                            *)
(*                                                                         *)
(* A where is a function from names to constraints, a constraint one from  *)
(* operators to values; OR, AND and NOR hold sets of wheres.  In a REST    *)
(* where the names are paths.  An id is <<"object", id>> as it is stored,  *)
(* <<class, id>> when it is global; a place is <<tag, x, y>>.  Arguments   *)
(* are coerced in the order their types declare them: have, haveNot and    *)
(* exists, for one.                                                        *)
(***************************************************************************)
EXTENDS Integers, Sequences, FiniteSets, SequencesExt, TLC

CONSTANTS
  Fields,   \* of each class: [type, target] of each field
  None

With(k, v) == [x \in {k} |-> v]
Or(a, b) == IF a # None THEN a ELSE b
Merged(maps) == FoldLeft(LAMBDA acc, f : f @@ acc, <<>>, maps)

-----------------------------------------------------------------------------
\* Global ids are those of the class; any other is taken for an objectId.
FromGlobalId(class, id) == IF id[1] = class THEN <<"object", id[2]>> ELSE id

ParseQueryMap == [OR |-> "$or", AND |-> "$and", NOR |-> "$nor"]
ParseConstraintMap ==
  [equalTo |-> "$eq", notEqualTo |-> "$ne", lessThan |-> "$lt", greaterThan |-> "$gt", in |-> "$in", notIn |-> "$nin",
   exists |-> "$exists", inQueryKey |-> "$select", notInQueryKey |-> "$dontSelect", nearSphere |-> "$nearSphere",
   maxDistance |-> "$maxDistance", within |-> "$within", geoWithin |-> "$geoWithin", geoIntersects |-> "$geoIntersects"]

\* Places get the type REST knows them by; boxes and spheres become lists.
GeoPoint(p) == <<"GeoPoint", p[2], p[3]>>
Place(op, v) ==
  CASE op = "nearSphere" -> GeoPoint(v)
    [] op = "geoIntersects" -> With("$point", GeoPoint(v.point))
    [] op = "within" -> With("$box", <<GeoPoint(v.box.bottomLeft), GeoPoint(v.box.upperRight)>>)
    [] op = "geoWithin" -> IF "polygon" \in DOMAIN v THEN With("$polygon", [i \in DOMAIN v.polygon |-> GeoPoint(v.polygon[i])])
                           ELSE With("$centerSphere", <<GeoPoint(v.centerSphere.center), v.centerSphere.distance>>)

RECURSIVE TransformQueryInputToParse(_, _), TransformConstraint(_, _, _)

\* Constraints on the keys of an object; a value or key that is empty does not count.
Keyed(c) == {op \in DOMAIN c \ {"exists"} : c[op].key # None /\ c[op].value # None}
Dotted(f, c) ==
  [path \in {<<f, c[op].key>> : op \in Keyed(c)} |->
     Merged(SetToSeq({With(ParseConstraintMap[op], c[op].value) : op \in {o \in Keyed(c) : c[o].key = path[2]}}))]

\* have and haveNot are subqueries on the class the field points to; whether a relation
\* exists is one too, and takes the place of have.
Related(class, f, c) ==
  LET target == Fields[class][f].target
      sub(where) == [class |-> target, where |-> where]
      query(op) == sub(TransformQueryInputToParse(c[op], target))
      some == sub(With(<<"objectId">>, With("$exists", TRUE)))
      linked == [op \in {o \in {"$inQuery", "$notInQuery"} : (IF o = "$inQuery" THEN "have" ELSE "haveNot") \in DOMAIN c} |->
                   query(IF op = "$inQuery" THEN "have" ELSE "haveNot")]
      exists == IF Fields[class][f].type = "Pointer" THEN With("$exists", c["exists"])
                ELSE With(IF c["exists"] THEN "$inQuery" ELSE "$notInQuery", some)
  IN IF "exists" \in DOMAIN c THEN exists @@ linked ELSE linked

\* The values of the other operators; a subquery's where is read as one of this class.
Value(class, f, op, v) ==
  CASE f = "id" /\ op \in {"equalTo", "notEqualTo"} -> FromGlobalId(class, v)
    [] f = "id" /\ op \in {"in", "notIn"} -> {FromGlobalId(class, id) : id \in v}
    [] op \in {"inQueryKey", "notInQueryKey"} -> [v EXCEPT !.where = TransformQueryInputToParse(v.where, class)]
    [] op \in {"nearSphere", "within", "geoWithin", "geoIntersects"} -> Place(op, v)
    [] OTHER -> v
Renamed(class, f, c) ==
  Merged(SetToSeq({With(ParseConstraintMap[op], Value(class, f, op, c[op])) : op \in DOMAIN c}))

TransformConstraint(class, f, c) ==
  LET type == IF f = "id" THEN "String" ELSE Fields[class][f].type IN
  CASE type \in {"Pointer", "Relation"} -> With(<<f>>, Related(class, f, c))
    [] type = "Object" /\ Keyed(c) # {} -> Dotted(f, c)
    [] OTHER -> With(<<IF f = "id" THEN "objectId" ELSE f>>, Renamed(class, f, c))

TransformQueryInputToParse(where, class) ==
  Merged(SetToSeq({IF f \in DOMAIN ParseQueryMap
                   THEN With(<<ParseQueryMap[f]>>, {TransformQueryInputToParse(w, class) : w \in where[f]})
                   ELSE TransformConstraint(class, f, where[f]) : f \in DOMAIN where}))

-----------------------------------------------------------------------------
\* Arguments [skip, first, after, last, before] to [skip, limit, needToPreCount]; a cursor is
\* the offset it encodes.
Negative(n) == n # None /\ n < 0
CalculateSkipAndLimit(a, maxLimit) ==
  LET from == Or(a.skip, 0)
      skip == IF a.after = None THEN a.skip ELSE from + a.after + 1
      start == Or(skip, 0)
      before == IF a.before = None THEN a.first
                ELSE IF start >= a.before THEN 0
                ELSE IF a.first = None \/ start + a.first > a.before THEN a.before - start
                ELSE a.first
      last == IF a.last # None /\ maxLimit # None /\ a.last > maxLimit THEN maxLimit ELSE a.last
      asked(s, l, count) == [skip |-> s, limit |-> l, needToPreCount |-> count]
  IN CASE \E k \in DOMAIN a : Negative(a[k]) -> None
       [] OTHER -> CASE last = None -> asked(skip, before, FALSE)
                     [] last # None /\ before # None ->
                          IF last < before THEN asked(start + before - last, last, FALSE) ELSE asked(skip, before, FALSE)
                     [] last # None /\ before = None -> asked(skip, last, last # 0)

\* A find over n rows that meet the where; the rows answered by their offsets.  `selected`:
\* which of edges, count and pageInfo (with hasPreviousPage) the answer is to have.  A count of
\* no rows made beforehand is taken for none made; count and hasPreviousPage are never null, so
\* a query that selects one of them then fails.
FindObjects(n, a, selected, maxLimit) ==
  LET asked == CalculateSkipAndLimit(a, maxLimit)
      counted == asked.needToPreCount
      skip == IF counted /\ Or(asked.skip, 0) + asked.limit < n THEN n - asked.limit ELSE Or(asked.skip, 0)
      wanted == Or(asked.limit, 100)
      limit == IF selected \cap {"edges", "pageInfo"} = {} THEN 0
               ELSE IF maxLimit # None /\ wanted > maxLimit THEN maxLimit ELSE wanted
      preCount == IF counted /\ n > 0 THEN n ELSE None
      count == IF ~counted /\ selected \cap {"count", "pageInfo"} # {} THEN n ELSE None
      total == Or(preCount, count)
      found == SelectSeq([i \in 1..n |-> i - 1], LAMBDA p : limit # 0 /\ p >= skip /\ p < skip + limit)
      nodes == [i \in DOMAIN found |-> [cursor |-> skip + i - 1, node |-> found[i]]]
  IN IF asked = None \/ (total = None /\ selected \cap {"count", "pageInfo"} # {}) THEN None
     ELSE [edges |-> nodes, count |-> total,
           pageInfo |-> [hasPreviousPage |-> total # None /\ total > 0 /\ skip > 0,
                         hasNextPage |-> total # None /\ total > skip + Len(found),
                         startCursor |-> skip,
                         endCursor |-> skip + (IF found = <<>> THEN 1 ELSE Len(found)) - 1]]

-----------------------------------------------------------------------------
\* The paths selected, as keys and as paths to include; authData is not to be asked for by name.
KeysOf(selected) ==
  {[i \in DOMAIN p |-> IF i = Len(p) /\ p[i] = "id" THEN "objectId" ELSE p[i]] :
     p \in {q \in selected : "__typename" \notin ToSet(q)}}
ExtractKeysAndInclude(selected) ==
  LET keys == KeysOf(selected) IN
  [keys |-> IF keys = {} \/ \E k \in keys : "authData" \in ToSet(k) THEN None ELSE keys,
   include |-> IF keys = {} THEN None ELSE keys]

\* A key the schema does not know is made by a trigger or a resolver: then all are fetched.
Custom(class, k) ==
  ~ /\ k[1] \in DOMAIN Fields[class]
    /\ LET field == Fields[class][k[1]] IN
       CASE field.type = "Relation" -> TRUE
         [] field.type = "Pointer" -> field.target \in DOMAIN Fields /\ Len(k) > 1 /\ k[2] \in DOMAIN Fields[field.target]
         [] OTHER -> Len(k) = 1 \/ field.type \in {"Array", "Object"}
NeedToGetAllKeys(class, keys) == keys = None \/ \E k \in keys : Custom(class, k)

\* The options of the get or find that fetches what was selected.
OptionsOf(class, selected) ==
  LET asked == ExtractKeysAndInclude(selected) IN
  [keys |-> IF NeedToGetAllKeys(class, asked.keys) THEN {} ELSE asked.keys,
   include |-> Or(asked.include, {})]
=============================================================================
