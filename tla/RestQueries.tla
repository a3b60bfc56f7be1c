---------------------------- MODULE RestQueries -----------------------------
(***************************************************************************)
(* What becomes of a REST query before the database adapter sees it        *)
(* (RestQuery, DatabaseController): subqueries are run and replaced by     *)
(* their results, constraints on relations by the objectIds the join table *)
(* gives, `keys` and `include` by queries of their own, whose results take *)
(* the place of pointers.                                                  *)
(*                                                                         *)
(* A where is a function from keys to constraints, a constraint one from   *)
(* operators to values; $or and $and hold sets of wheres; a pointer or a   *)
(* value itself is an $eq.  Class "A" has a pointer f and a relation rel   *)
(* to class "B", whose rows have a pointer g to class "B"; x is data.  A   *)
(* row: [id, x, f, g], None for what it lacks.                             *)
(***************************************************************************)
EXTENDS Integers, Sequences, FiniteSets, SequencesExt

CONSTANT None

Put(f, k, v) == [x \in DOMAIN f \cup {k} |-> IF x = k THEN v ELSE f[x]]
Drop(f, ks) == [x \in DOMAIN f \ ks |-> f[x]]
Get(f, k, default) == IF k \in DOMAIN f THEN f[k] ELSE default

-----------------------------------------------------------------------------
\* What the adapters do with a where that has none of the rewritten constraints.  Nothing
\* is stored in the column of a relation.
Column(row, k) == CASE k = "objectId" -> row.id [] k = "rel" -> None [] OTHER -> row[k]

Satisfies(value, c) ==
  /\ "$eq" \in DOMAIN c => value = c["$eq"]
  /\ "$ne" \in DOMAIN c => value # c["$ne"]
  /\ "$in" \in DOMAIN c => value \in c["$in"]
  /\ "$nin" \in DOMAIN c => value \notin c["$nin"]

RECURSIVE Meets(_, _)
Meets(row, where) ==
  \A k \in DOMAIN where :
    CASE k = "$or" -> \E w \in where[k] : Meets(row, w)
      [] k = "$and" -> \A w \in where[k] : Meets(row, w)
      [] OTHER -> Satisfies(Column(row, k), where[k])

-----------------------------------------------------------------------------
\* transformInQuery and its three likes: what the subquery gave joins what is there.
Joined(c, op, from, values) == Put(Drop(c, {from}), op, Get(c, op, {}) \cup values)


ReplaceIn(c, from, values) ==
  Joined(c, IF from \in {"$inQuery", "$select"} THEN "$in" ELSE "$nin", from, values)

Subqueries == <<"$select", "$dontSelect", "$inQuery", "$notInQuery">>

-----------------------------------------------------------------------------
\* DatabaseController: relations.  A constraint on objectId narrows the ids found.
\* Mutant: the ids found take the place of those asked for.
AddInObjectIdsIds_Clobbers(where, ids) == Put(where, "objectId", Put(Get(where, "objectId", <<>>), "$in", ids))

AddInObjectIdsIds(where, ids) ==
  LET c == Get(where, "objectId", <<>>)
      eq == IF "$eq" \in DOMAIN c THEN ids \cap {c["$eq"]} ELSE ids
  IN Put(where, "objectId", Put(c, "$in", IF "$in" \in DOMAIN c THEN eq \cap c["$in"] ELSE eq))

AddNotInObjectIdsIds(where, ids) ==
  LET c == Get(where, "objectId", <<>>) IN
  Put(where, "objectId", Put(c, "$nin", Get(c, "$nin", {}) \cup ids))

\* The join table: pairs of an owner and the object related to it, in the order they were made.
Prefix(s, n) == SubSeq(s, 1, IF n < Len(s) THEN n ELSE Len(s))
RelatedIds(db, owner, sorted, limit) ==
  LET found == SelectSeq(db.join, LAMBDA p : p[1] = owner)
      taken == IF sorted /\ limit # None THEN Prefix(found, limit) ELSE found
  IN {taken[n][2] : n \in DOMAIN taken}
OwningIds(db, related) == {p[1] : p \in {q \in ToSet(db.join) : q[2] \in related}}

RECURSIVE ReduceRelationKeys(_, _, _, _)
ReduceRelationKeys(db, where, sorted, limit) ==
  IF "$or" \in DOMAIN where
  THEN Put(where, "$or", {ReduceRelationKeys(db, w, sorted, limit) : w \in where["$or"]})
  ELSE IF "$relatedTo" \in DOMAIN where
  THEN AddInObjectIdsIds(Drop(where, {"$relatedTo"}), RelatedIds(db, where["$relatedTo"], sorted, limit))
  ELSE where

\* The constraints on a relation, one by one; any other kind of constraint matches nothing.
RelationQueries(c) ==
  IF DOMAIN c \cap {"$in", "$ne", "$nin", "$eq"} = {} THEN {[negated |-> FALSE, ids |-> {}]}
  ELSE {[negated |-> op \in {"$nin", "$ne"}, ids |-> IF op \in {"$in", "$nin"} THEN c[op] ELSE {c[op]}] :
          op \in DOMAIN c \cap {"$in", "$ne", "$nin", "$eq"}}


Related(db, where, q) ==
  IF q.negated THEN AddNotInObjectIdsIds(where, OwningIds(db, q.ids))
  ELSE AddInObjectIdsIds(where, OwningIds(db, q.ids))

RECURSIVE ReduceInRelation(_, _)
ReduceInRelation(db, where) ==
  IF "$or" \in DOMAIN where THEN Put(where, "$or", {ReduceInRelation(db, w) : w \in where["$or"]})
  ELSE IF "rel" \in DOMAIN where
  THEN FoldSeq(LAMBDA q, w : Related(db, w, q), Drop(where, {"rel"}), SetToSeq(RelationQueries(where["rel"])))
  ELSE where

-----------------------------------------------------------------------------
\* A query of rows the caller may read (db.readable), with its subqueries.
RECURSIVE Execute(_, _, _, _, _), Rewrite(_, _)

Subresult(db, from, sub) ==
  LET rows == Execute(db, "B", sub, FALSE, None) IN
  IF from \in {"$inQuery", "$notInQuery"} THEN {r.id : r \in rows} ELSE {r.x : r \in rows}

Rewrite(db, where) ==
  [k \in DOMAIN where |->
     IF k \in {"$or", "$and"} THEN {Rewrite(db, w) : w \in where[k]}
     ELSE IF k = "$relatedTo" THEN where[k]
     ELSE FoldSeq(LAMBDA from, c : IF from \in DOMAIN c THEN ReplaceIn(c, from, Subresult(db, from, c[from])) ELSE c,
                  where[k], Subqueries)]

\* The rows a find is about, and, with `count`, how many there are.
Execute(db, class, where, sorted, limit) ==
  LET reduced == ReduceInRelation(db, ReduceRelationKeys(db, Rewrite(db, where), sorted, limit)) IN
  {row \in db[class] : row.id \in db.readable /\ Meets(row, reduced)}

-----------------------------------------------------------------------------
\* `each`: page by page in the order of objectIds, each query above the last id seen, until
\* a page is not full.  The rows there are at each page: a sequence of sets.
FirstOf(s, n) == {id \in s : Cardinality({j \in s : j < id}) < n}

Page(rows, last, n) == FirstOf({id \in rows : id > last}, n)

RECURSIVE EachFrom(_, _, _, _)
EachFrom(versions, last, n, p) ==
  LET page == Page(versions[IF p > Len(versions) THEN Len(versions) ELSE p], last, n)
      top == CHOOSE id \in page : \A j \in page : j <= id
  IN IF Cardinality(page) < n THEN <<page>> ELSE <<page>> \o EachFrom(versions, top, n, p + 1)

-----------------------------------------------------------------------------
\* `keys` and `include`: sets of paths, sequences of fields.
Paths(include) == UNION {{SubSeq(p, 1, n) : n \in 1..Len(p)} : p \in include}

Included(keys, include) == Paths(include \cup {Front(k) : k \in {j \in keys : Len(j) > 1}})

\* The keys of the query that fetches the objects at a path; none is all of them.
KeysBelow(keys, path) == {k[Len(path) + 1] : k \in {j \in keys : IsPrefix(path, j) /\ Len(j) > Len(path)}}

\* An object of an answer: a function from fields to data, pointers and objects.
Pointer(id) == [ptr |-> id]
IsPointer(v) == DOMAIN v = {"ptr"}
Whole(row) ==
  [k \in {j \in {"x", "f", "g"} : row[j] # None} |-> IF k = "x" THEN [data |-> row.x] ELSE Pointer(row[k])]
Projected(row, keys) == LET o == Whole(row) IN IF keys = {} THEN o ELSE Drop(o, DOMAIN o \ keys)

\* The pointers at a path of an object, and the object with what they point to in their
\* place; a pointer to what was not found goes.
RECURSIVE FindPointers(_, _), ReplacePointers(_, _, _)
FindPointers(v, path) ==
  IF path = <<>> THEN (IF IsPointer(v) THEN {v.ptr} ELSE {})
  ELSE IF IsPointer(v) \/ Head(path) \notin DOMAIN v THEN {}
  ELSE FindPointers(v[Head(path)], Tail(path))

ReplacePointers(v, path, found) ==
  IF IsPointer(v) \/ Head(path) \notin DOMAIN v THEN v
  ELSE LET sub == v[Head(path)] IN
    IF Len(path) > 1 THEN Put(v, Head(path), ReplacePointers(sub, Tail(path), found))
    ELSE IF ~ IsPointer(sub) THEN v
    ELSE IF sub.ptr \in DOMAIN found THEN Put(v, Head(path), found[sub.ptr])
    ELSE Drop(v, {Head(path)})

\* The objects are fetched by id, with the caller's rights.
IncludePath(db, keys, path, answer) ==
  LET ids == UNION {FindPointers(v, path) : v \in answer}
      rows == {r \in db["B"] : r.id \in ids \cap db.readable}
      found == [id \in {r.id : r \in rows} |-> Projected(CHOOSE r \in rows : r.id = id, KeysBelow(keys, path))]
  IN {ReplacePointers(v, path, found) : v \in answer}

\* includeAll: every pointer of the class is included, and among the keys if there are any.
PointerFields == {<<"f">>, <<"g">>}

\* excludeKeys: a key is left out if it is named as it is written; the objectId never is.
TopKeys(keys, all, excluded) ==
  LET asked == IF keys # {} THEN keys \cup (IF all THEN PointerFields ELSE {})
               ELSE IF excluded # {} THEN {<<"x">>} \cup PointerFields ELSE {}
  IN IF asked = {} THEN {} ELSE {Head(k) : k \in asked \ excluded} \cup {"objectId"}

\* Shorter paths first, those of includeAll last.
Answer(db, rows, keys, include, all, excluded) ==
  LET paths == SetToSortSeq(Included(keys, include), LAMBDA p, q : Len(p) < Len(q))
               \o (IF all THEN SetToSeq(PointerFields) ELSE <<>>)
  IN FoldLeft(LAMBDA answer, path : IncludePath(db, keys, path, answer),
              {Projected(row, TopKeys(keys, all, excluded)) : row \in rows}, paths)

-----------------------------------------------------------------------------
\* What a query means: a row meets it or not, whatever is asked of other classes.
RECURSIVE Means(_, _, _)
Means(db, row, where) ==
  \A k \in DOMAIN where :
    LET c == where[k]
        Sub(w) == {r \in db["B"] : r.id \in db.readable /\ Means(db, r, w)}
        linked == {p[2] : p \in {q \in ToSet(db.join) : q[1] = row.id}}
    IN
    CASE k = "$or" -> \E w \in c : Means(db, row, w)
      [] k = "$and" -> \A w \in c : Means(db, row, w)
      [] k = "$relatedTo" -> \E p \in ToSet(db.join) : p = <<c, row.id>>
      [] k = "rel" ->
           /\ "$eq" \in DOMAIN c => c["$eq"] \in linked
           /\ "$in" \in DOMAIN c => c["$in"] \cap linked # {}
           /\ "$ne" \in DOMAIN c => c["$ne"] \notin linked
           /\ "$nin" \in DOMAIN c => c["$nin"] \cap linked = {}
      [] OTHER ->
           /\ Satisfies(Column(row, k), c)
           /\ "$inQuery" \in DOMAIN c => \E r \in Sub(c["$inQuery"]) : Column(row, k) = r.id
           /\ "$notInQuery" \in DOMAIN c => \A r \in Sub(c["$notInQuery"]) : Column(row, k) # r.id
           /\ "$select" \in DOMAIN c => \E r \in Sub(c["$select"]) : Column(row, k) = r.x
           /\ "$dontSelect" \in DOMAIN c => \A r \in Sub(c["$dontSelect"]) : Column(row, k) # r.x

\* The queries whose meaning is kept: not those with values and a subquery for one $in,
\* which become one list; nor those with relations beside an $or or in an $and, which no
\* rewriting reaches.
RECURSIVE Kept(_, _)
Kept(where, relations) ==
  \A k \in DOMAIN where :
    CASE k = "$or" -> DOMAIN where \cap {"rel", "$relatedTo"} = {} /\ \A w \in where[k] : Kept(w, relations)
      [] k = "$and" -> \A w \in where[k] : Kept(w, FALSE)
      [] k \in {"rel", "$relatedTo"} -> relations
      [] OTHER ->
           /\ Cardinality(DOMAIN where[k] \cap {"$in", "$inQuery", "$select"}) <= 1
           /\ \A from \in DOMAIN where[k] \cap ToSet(Subqueries) : Kept(where[k][from], TRUE)

\* What is asked for by keys and paths: a field is shown if no key goes below its object or
\* one goes through it, and a pointer on an included path is its object, if it may be read.
RECURSIVE Asked(_, _, _, _, _)
Asked(db, row, keys, paths, path) ==
  LET o == Whole(row)
      shown == IF KeysBelow(keys, path) = {} THEN DOMAIN o ELSE DOMAIN o \cap KeysBelow(keys, path)
      Target(k) == {r \in db["B"] : r.id = row[k] /\ r.id \in db.readable}
      Opened(k) == k # "x" /\ Append(path, k) \in paths
  IN [k \in {j \in shown : Opened(j) => Target(j) # {}} |->
        IF Opened(k) THEN Asked(db, CHOOSE r \in Target(k) : TRUE, keys, paths, Append(path, k)) ELSE o[k]]

\* At the top, a field is gone once every key that asks for it is excluded.
AskedOf(db, row, keys, include, all, excluded) ==
  LET paths == Included(keys, include) \cup (IF all THEN PointerFields ELSE {})
      whole == Asked(db, row, IF all /\ keys # {} THEN keys \cup PointerFields ELSE keys, paths, <<>>)
      asking(k) == {j \in keys \cup (IF keys = {} \/ (all /\ k # "x") THEN {<<k>>} ELSE {}) : j[1] = k}
  IN Drop(whole, {k \in DOMAIN whole : asking(k) \subseteq excluded})
=============================================================================
