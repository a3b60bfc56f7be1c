---------------------------- MODULE QueryEngines ----------------------------
(***************************************************************************)
(* The three places that decide whether a row meets a where: MongoDB, for  *)
(* which MongoTransform translates; PostgreSQL, for which buildWhereClause *)
(* writes a pattern; and the live query server's own matchesQuery.  A      *)
(* where is a function from keys to constraints, a constraint one from     *)
(* operators to operands ("is": a value itself); $or, $and and $nor hold   *)
(* sets of wheres.  Values are numbers, 0 the empty string among strings;  *)
(* an array is a sequence of them; None is no value, and null in a query.  *)
(***************************************************************************)
EXTENDS Integers, Sequences, FiniteSets, SequencesExt

CONSTANTS
  Type,   \* the class's schema: fields to types
  None

Logical == {"$or", "$and", "$nor"}
Comparisons == {"$lt", "$lte", "$gt", "$gte"}
Compare(v, op, x) ==
  CASE op = "$lt" -> v < x [] op = "$lte" -> v <= x [] op = "$gt" -> v > x [] op = "$gte" -> v >= x

Value(row, k) == IF k \in DOMAIN row THEN row[k] ELSE None
IsArray(k) == k \in DOMAIN Type /\ Type[k] = "Array"

-----------------------------------------------------------------------------
\* What a constraint means: an array has a value if it contains it.
Has(k, v, x) == IF IsArray(k) /\ v # None /\ x # None THEN x \in ToSet(v) ELSE v = x

RequiredOf(k, v, op, x) ==
  CASE op \in {"is", "$eq"} -> Has(k, v, x)
    [] op = "$ne" -> ~ Has(k, v, x)
    [] op = "$in" -> \E y \in x : Has(k, v, y)
    [] op = "$nin" -> \A y \in x : ~ Has(k, v, y)
    [] op \in Comparisons -> v # None /\ Compare(v, op, x)
    [] op = "$exists" -> (v # None) = x
    [] op = "$all" -> x # {} /\ \A y \in x : Has(k, v, y)
    [] op = "$containedBy" -> v # None /\ ToSet(v) \subseteq x

RECURSIVE Means(_, _)
Means(row, where) ==
  \A k \in DOMAIN where :
    CASE k = "$or" -> \E w \in where[k] : Means(row, w)
      [] k = "$and" -> \A w \in where[k] : Means(row, w)
      [] k = "$nor" -> \A w \in where[k] : ~ Means(row, w)
      [] OTHER -> \A op \in DOMAIN where[k] : RequiredOf(k, Value(row, k), op, where[k][op])

-----------------------------------------------------------------------------
\* MongoDB: an array's own field is asked with $all; $containedBy becomes a $nor of what
\* its constraint asks, with an element that is not in the list.
MongoOperator(k, v, op, x) ==
  IF op = "is" /\ IsArray(k) THEN v # None /\ x \in ToSet(v)
  ELSE RequiredOf(k, v, op, x)

MongoConstraint(k, v, c) ==
  IF "$containedBy" \in DOMAIN c
  THEN ~ /\ v # None /\ \E y \in ToSet(v) : y \notin c["$containedBy"]
         /\ \A op \in DOMAIN c \ {"$containedBy"} : MongoOperator(k, v, op, c[op])
  ELSE \A op \in DOMAIN c : MongoOperator(k, v, op, c[op])

RECURSIVE Mongo(_, _)
Mongo(row, where) ==
  \A k \in DOMAIN where :
    CASE k = "$or" -> \E w \in where[k] : Mongo(row, w)
      [] k = "$and" -> \A w \in where[k] : Mongo(row, w)
      [] k = "$nor" -> \A w \in where[k] : ~ Mongo(row, w)
      [] OTHER -> MongoConstraint(k, Value(row, k), where[k])

\* Where the translation keeps the meaning.
RECURSIVE MongoExact(_, _)
MongoExact(row, where) ==
  \A k \in DOMAIN where :
    IF k \in Logical THEN \A w \in where[k] : MongoExact(row, w)
    ELSE /\ "$containedBy" \in DOMAIN where[k] => DOMAIN where[k] = {"$containedBy"} /\ Value(row, k) # None
         /\ IsArray(k) => \A op \in DOMAIN where[k] : op = "is" => where[k][op] # None

-----------------------------------------------------------------------------
\* PostgreSQL: a pattern is true ("t"), false ("f") or unknown ("u"), or empty, or an error.
Sql(v, b) == IF v = None THEN "u" ELSE IF b THEN "t" ELSE "f"
Bool(b) == IF b THEN "t" ELSE "f"
Not(t) == CASE t = "t" -> "f" [] t = "f" -> "t" [] OTHER -> t
AndOf(ts) ==
  IF "error" \in ts THEN "error" ELSE IF "f" \in ts THEN "f" ELSE IF "u" \in ts THEN "u"
  ELSE IF "t" \in ts THEN "t" ELSE "empty"
OrOf(ts) ==
  IF "error" \in ts THEN "error" ELSE IF "t" \in ts THEN "t" ELSE IF "u" \in ts THEN "u"
  ELSE IF "f" \in ts THEN "f" ELSE "error"

ArrayContains(v, xs) == Sql(v, v # None /\ ToSet(v) \cap xs # {})
\* As many elements as values, whichever they are.
ArrayContainsAll(v, xs) ==
  Sql(v, v # None /\ xs # {} /\ Len(SelectSeq(v, LAMBDA y : y \in xs)) = Cardinality(xs))

\* Mutant: a row without the field is not told from one with the value.
NotEqual_Strict(v, x) == IF x = None THEN Bool(v # None) ELSE Sql(v, v # x)
NotEqual(v, x) == IF x = None THEN Bool(v # None) ELSE Bool(v = None \/ v # x)

InList(k, v, xs) ==
  IF xs = {} THEN Bool(v = None)
  ELSE IF IsArray(k) THEN ArrayContains(v, xs)
  ELSE IF xs = {None} THEN "error" ELSE Sql(v, v \in xs \ {None})
NotInList(k, v, xs) == IF xs = {} THEN "t" ELSE Not(InList(k, v, xs))

\* The pattern of one operator.
Pattern(k, v, op, x) ==
  CASE op \in {"is", "$eq"} -> IF x = None THEN Bool(v = None) ELSE IF IsArray(k) THEN "error" ELSE Sql(v, v = x)
    [] op = "$ne" -> IF IsArray(k) THEN Not(ArrayContains(v, {x})) ELSE NotEqual(v, x)
    [] op = "$in" -> InList(k, v, x)
    [] op = "$nin" -> NotInList(k, v, x)
    [] op \in Comparisons -> IF Type[k] = "String" /\ x = 0 THEN "empty" ELSE Sql(v, v # None /\ Compare(v, op, x))
    [] op = "$exists" -> Bool((v # None) = x)
    [] op = "$all" -> IF IsArray(k) THEN ArrayContainsAll(v, x) ELSE "error"
    [] op = "$containedBy" -> Sql(v, v # None /\ ToSet(v) \subseteq x)

\* A field the class does not have has no column; only that it is not there can be asked.
\* Once a field is asked to be there by $ne null, its other operators are not looked at.
NotNull(k, c) == ~ IsArray(k) /\ "$ne" \in DOMAIN c /\ c["$ne"] = None
ColumnOperators(k, c) == IF NotNull(k, c) THEN {"$ne"} ELSE DOMAIN c
ColumnPattern(row, k, c) ==
  IF k \notin DOMAIN Type THEN (IF "$exists" \in DOMAIN c /\ ~ c["$exists"] THEN "empty" ELSE "error")
  ELSE LET t == AndOf({Pattern(k, Value(row, k), op, c[op]) : op \in ColumnOperators(k, c)}) IN
       IF t = "empty" THEN "error" ELSE t

RECURSIVE WherePattern(_, _)
WherePattern(row, where) ==
  LET Clauses(k) == {WherePattern(row, w) : w \in where[k]} \ {"empty"} IN
  AndOf({CASE k = "$or" -> OrOf(Clauses(k))
           [] k = "$nor" -> Not(OrOf(Clauses(k)))
           [] k = "$and" -> (IF Clauses(k) = {} THEN "error" ELSE AndOf(Clauses(k)))
           [] OTHER -> ColumnPattern(row, k, where[k]) : k \in DOMAIN where})

Postgres(row, where) == WherePattern(row, where) \in {"t", "empty"}

\* Where the pattern keeps the meaning: not for rows without a value and an operator that
\* is unknown for them where it should be true; nor for arrays with a value twice.
PostgresOperatorExact(k, v, op, x) ==
  CASE op \in {"is", "$eq"} -> ~ IsArray(k)
    [] op = "$ne" -> IsArray(k) => v # None /\ x # None
    [] op = "$in" -> v # None /\ None \notin x
    [] op = "$nin" -> x = {} \/ (v # None /\ None \notin x)
    [] op \in Comparisons -> ~ (Type[k] = "String" /\ x = 0)
    [] op = "$all" -> IsArray(k) /\ (v # None => Cardinality(ToSet(v)) = Len(v))
    [] OTHER -> TRUE

\* Under a $nor, nothing may be unknown; no part of $or, $and or $nor may be empty; and what a
\* $ne null comes with is not looked at.
RECURSIVE PostgresExact(_, _, _)
PostgresExact(row, where, under) ==
  \A k \in DOMAIN where :
    IF k \in Logical
    THEN \A w \in where[k] : DOMAIN w # {} /\ PostgresExact(row, w, IF under = "$nor" THEN under ELSE k)
    ELSE IF k \notin DOMAIN Type THEN under = None /\ where[k] = [op \in {"$exists"} |-> FALSE]
    ELSE /\ NotNull(k, where[k]) => DOMAIN where[k] = {"$ne"}
         /\ \A op \in DOMAIN where[k] :
              /\ PostgresOperatorExact(k, Value(row, k), op, where[k][op])
              /\ under = "$nor" => Value(row, k) # None \/ op \in {"$exists"}

-----------------------------------------------------------------------------
\* matchesKeyConstraints: comparisons only turn down; $ne, $in and $nin look at an array as
\* a whole; the other logical keys, $eq and $containedBy match nothing.
LiveOperator(k, v, op, x) ==
  CASE op = "is" -> x # None /\ Has(k, v, x)
    [] op = "$ne" -> v # x
    [] op = "$in" -> v # None /\ ~ IsArray(k) /\ v \in x
    [] op = "$nin" -> v = None \/ IsArray(k) \/ v \notin x
    [] op \in Comparisons -> v = None \/ Compare(v, op, x)
    [] op = "$exists" -> (v # None) = x
    [] op = "$all" -> v # None /\ x \subseteq ToSet(v)
    [] OTHER -> FALSE

RECURSIVE Live(_, _)
Live(row, where) ==
  \A k \in DOMAIN where :
    CASE k = "$or" -> \E w \in where[k] : Live(row, w)
      [] k \in {"$and", "$nor"} -> FALSE
      [] OTHER -> \A op \in DOMAIN where[k] : LiveOperator(k, Value(row, k), op, where[k][op])

LiveOperatorExact(k, v, op, x) ==
  CASE op = "is" -> x # None
    [] op = "$ne" -> ~ IsArray(k) /\ x # None
    [] op \in {"$in", "$nin"} -> ~ IsArray(k) /\ None \notin x
    [] op \in Comparisons -> v # None
    [] op = "$exists" -> TRUE
    [] op = "$all" -> IsArray(k) /\ v # None /\ x # {}
    [] OTHER -> FALSE

RECURSIVE LiveExact(_, _)
LiveExact(row, where) ==
  \A k \in DOMAIN where :
    IF k \in Logical THEN k = "$or" /\ \A w \in where[k] : LiveExact(row, w)
    ELSE \A op \in DOMAIN where[k] : LiveOperatorExact(k, Value(row, k), op, where[k][op])

-----------------------------------------------------------------------------
\* queryHash, by which a subscription is shared: the columns, and the values (of their
\* types) without the columns they are of.  Of a query with $or only the alternatives are
\* taken, each with its columns.
QueryHash(where) ==
  LET values == {<<Type[k], where[k]>> : k \in DOMAIN where} IN
  IF "$or" \in DOMAIN where
  THEN [columns |-> UNION {DOMAIN w : w \in where["$or"]}, values |-> where["$or"]]
  ELSE [columns |-> DOMAIN where,
        values |-> [x \in values |-> Cardinality({k \in DOMAIN where : <<Type[k], where[k]>> = x})]]
=============================================================================
