-------------------------- MODULE CloudCode_proofs --------------------------
(***************************************************************************)
(* Proofs about the cloud functions served side by side, for any numbers   *)
(* of users, fruits, slots and rows, with failures, restarts and the user  *)
(* cache or without.                                                       *)
(***************************************************************************)
EXTENDS CloudCode, Functions, FiniteSetTheorems, SequenceTheorems, TLAPS

(***************************************************************************)
(* Sums of a function over a finite set, for the books of the cloud        *)
(* functions: SumFunctionOnSet of the community modules is a fold, a       *)
(* function chosen by a recursive equation.  That the equation has one     *)
(* solution, and what follows from it, is shown by taking a smallest       *)
(* subset for which it fails (WFMin on the strict subsets of a finite      *)
(* set), as induction over the elements is.                                *)
(***************************************************************************)
\* One step of the fold that SumFunctionOnSet is.
First(s) == CHOOSE x \in s : TRUE
Adds(f, g, T) == [s \in SUBSET T |-> IF s = {} THEN 0 ELSE f[First(s)] + g[s \ {First(s)}]]

\* A set of subsets of a finite set has a smallest member.
LEMMA SmallestSubset ==
  ASSUME NEW S, IsFiniteSet(S), NEW B, B \subseteq SUBSET S, B # {}
  PROVE  \E s \in B : \A t \in B : ~ (t \subseteq s /\ t # s)
  <1>1. IsWellFoundedOn(StrictSubsetOrdering(S), SUBSET S)
    BY FS_StrictSubsetOrderingWellFounded, FS_FiniteSubsetsOfFinite
  <1>2. \E s \in B : \A t \in B : <<t, s>> \notin StrictSubsetOrdering(S)
    BY <1>1, WFMin
  <1> QED
    BY <1>2 DEF StrictSubsetOrdering

LEMMA FirstIsIn ==
  ASSUME NEW s, s # {}
  PROVE  First(s) \in s
  BY DEF First

\* Two solutions of the fold's equation agree on what both define.
LEMMA AddsAreUnique ==
  ASSUME NEW S, IsFiniteSet(S), NEW T, NEW U, NEW f, NEW g, NEW h,
         g = Adds(f, g, T), h = Adds(f, h, U), S \subseteq T, S \subseteq U
  PROVE  g[S] = h[S]
  <1> DEFINE B == {s \in SUBSET S : g[s] # h[s]}
  <1> SUFFICES ASSUME B # {} PROVE FALSE
    OBVIOUS
  <1>1. PICK s \in B : \A t \in B : ~ (t \subseteq s /\ t # s)
    <2> HIDE DEF B
    <2>1. B \subseteq SUBSET S
      BY DEF B
    <2> QED
      BY <2>1, SmallestSubset
  <1>2. s # {}
    BY DEF Adds
  <1>3. First(s) \in s
    BY <1>2, FirstIsIn
  <1>4. g[s \ {First(s)}] = h[s \ {First(s)}]
    BY <1>1, <1>3
  <1>5. /\ g[s] = f[First(s)] + g[s \ {First(s)}]
        /\ h[s] = f[First(s)] + h[s \ {First(s)}]
    BY <1>2 DEF Adds
  <1> QED
    BY <1>4, <1>5

\* The solution that is chosen.
Fold(f, T) == CHOOSE g : g = Adds(f, g, T)

\* The fold's equation has a solution.
LEMMA AddsExist ==
  ASSUME NEW S, IsFiniteSet(S), NEW f
  PROVE  \E g : g = Adds(f, g, S)
  <1> DEFINE Bad == {T \in SUBSET S : ~ \E g : g = Adds(f, g, T)}
  <1> SUFFICES ASSUME Bad # {} PROVE FALSE
    OBVIOUS
  <1>1. PICK T \in Bad : \A t \in Bad : ~ (t \subseteq T /\ t # T)
    <2> HIDE DEF Bad
    <2>1. Bad \subseteq SUBSET S
      BY DEF Bad
    <2> QED
      BY <2>1, SmallestSubset
  <1>2. ASSUME NEW s \in SUBSET T, s # T
        PROVE  Fold(f, s) = Adds(f, Fold(f, s), s)
    <2>1. \E g : g = Adds(f, g, s)
      BY <1>1, <1>2
    <2> QED
      BY <2>1 DEF Fold
  <1> DEFINE g == [s \in SUBSET T |-> IF s = {} THEN 0 ELSE f[First(s)] + Fold(f, s \ {First(s)})[s \ {First(s)}]]
  <1>3. ASSUME NEW s \in SUBSET T, s # T
        PROVE  g[s] = Fold(f, s)[s]
    <2> DEFINE t == s \ {First(s)}
    <2>1. CASE s = {}
      <3>1. Adds(f, Fold(f, s), s)[s] = 0
        BY <2>1 DEF Adds
      <3> QED
        BY <3>1, <2>1, <1>2, <1>3
    <2>2. CASE s # {}
      <3>1. First(s) \in s
        BY <2>2, FirstIsIn
      <3>2. Fold(f, s)[t] = Fold(f, t)[t]
        <4>1. IsFiniteSet(t)
          BY FS_Subset
        <4>2. Fold(f, s) = Adds(f, Fold(f, s), s) /\ Fold(f, t) = Adds(f, Fold(f, t), t)
          BY <1>2, <1>3, <3>1
        <4> QED
          BY <4>1, <4>2, AddsAreUnique
      <3>3. Adds(f, Fold(f, s), s)[s] = f[First(s)] + Fold(f, s)[t]
        BY <2>2 DEF Adds
      <3> QED
        BY <3>2, <3>3, <2>2, <1>2, <1>3
    <2> QED
      BY <2>1, <2>2
  <1>4. ASSUME NEW s \in SUBSET T, s # {}
        PROVE  g[s] = f[First(s)] + g[s \ {First(s)}]
    <2>1. s \ {First(s)} \in SUBSET T /\ s \ {First(s)} # T
      BY <1>4, FirstIsIn
    <2>2. g[s \ {First(s)}] = Fold(f, s \ {First(s)})[s \ {First(s)}]
      BY <2>1, <1>3
    <2> QED
      BY <2>2, <1>4
  <1>5. g = Adds(f, g, T)
    <2>1. g[{}] = 0
      OBVIOUS
    <2>2. g = [s \in SUBSET T |-> g[s]]
      OBVIOUS
    <2> HIDE DEF g
    <2> QED
      BY <2>1, <2>2, <1>4 DEF Adds
  <1> QED
    BY <1>1, <1>5

\* A sum takes out its first element and adds the sum of the others.
LEMMA SumUnfolds ==
  ASSUME NEW S, IsFiniteSet(S), NEW f
  PROVE  SumFunctionOnSet(f, S) =
           IF S = {} THEN 0 ELSE f[First(S)] + SumFunctionOnSet(f, S \ {First(S)})
  <1>1. ASSUME NEW T \in SUBSET S
        PROVE  SumFunctionOnSet(f, T) = Fold(f, T)[T]
    BY DEF SumFunctionOnSet, FoldFunctionOnSet, MapThenFoldSet, Fold, Adds, First
  <1>2. ASSUME NEW T \in SUBSET S
        PROVE  Fold(f, T) = Adds(f, Fold(f, T), T)
    <2>1. \E g : g = Adds(f, g, T)
      BY AddsExist, FS_Subset
    <2> QED
      BY <2>1 DEF Fold
  <1>3. Fold(f, S)[S] = IF S = {} THEN 0 ELSE f[First(S)] + Fold(f, S)[S \ {First(S)}]
    BY <1>2 DEF Adds
  <1>4. Fold(f, S)[S \ {First(S)}] = Fold(f, S \ {First(S)})[S \ {First(S)}]
    BY <1>2, FS_Subset, AddsAreUnique
  <1> QED
    BY <1>1, <1>3, <1>4

\* The sum of nothing.
LEMMA SumOfNone ==
  ASSUME NEW f
  PROVE  SumFunctionOnSet(f, {}) = 0
  BY SumUnfolds, FS_EmptySet

\* A sum of integers is an integer.
LEMMA SumIsInteger ==
  ASSUME NEW S, IsFiniteSet(S), NEW f, \A x \in S : f[x] \in Int
  PROVE  SumFunctionOnSet(f, S) \in Int
  <1> DEFINE Bad == {T \in SUBSET S : SumFunctionOnSet(f, T) \notin Int}
  <1> SUFFICES ASSUME Bad # {} PROVE FALSE
    OBVIOUS
  <1>1. PICK T \in Bad : \A t \in Bad : ~ (t \subseteq T /\ t # T)
    <2>1. Bad \subseteq SUBSET S
      OBVIOUS
    <2> HIDE DEF Bad
    <2> QED
      BY <2>1, SmallestSubset
  <1>2. IsFiniteSet(T)
    BY FS_Subset
  <1>3. T # {}
    BY SumOfNone
  <1>4. First(T) \in T
    BY <1>3, FirstIsIn
  <1>5. SumFunctionOnSet(f, T) = f[First(T)] + SumFunctionOnSet(f, T \ {First(T)})
    BY <1>2, <1>3, SumUnfolds
  <1>6. T \ {First(T)} \notin Bad
    BY <1>1, <1>4
  <1> QED
    BY <1>4, <1>5, <1>6

\* Any element can be taken out first.
LEMMA SumWithout ==
  ASSUME NEW S, IsFiniteSet(S), NEW f, \A x \in S : f[x] \in Int, NEW x \in S
  PROVE  SumFunctionOnSet(f, S) = f[x] + SumFunctionOnSet(f, S \ {x})
  <1> DEFINE Sum(T) == SumFunctionOnSet(f, T)
             Bad == {T \in SUBSET S : \E y \in T : Sum(T) # f[y] + Sum(T \ {y})}
  <1> SUFFICES ASSUME Bad # {} PROVE FALSE
    OBVIOUS
  <1>1. PICK T \in Bad : \A t \in Bad : ~ (t \subseteq T /\ t # T)
    <2>1. Bad \subseteq SUBSET S
      OBVIOUS
    <2> HIDE DEF Bad
    <2> QED
      BY <2>1, SmallestSubset
  <1>2. PICK y \in T : Sum(T) # f[y] + Sum(T \ {y})
    BY <1>1
  <1> DEFINE c == First(T)
  <1>3. c \in T
    BY FirstIsIn
  <1>4. \A t \in SUBSET S : IsFiniteSet(t) /\ Sum(t) \in Int
    BY FS_Subset, SumIsInteger
  <1>5. Sum(T) = f[c] + Sum(T \ {c})
    BY <1>2, <1>4, SumUnfolds
  <1>6. y # c
    BY <1>2, <1>5
  <1>7. Sum(T \ {c}) = f[y] + Sum((T \ {c}) \ {y})
    <2>1. T \ {c} \notin Bad
      BY <1>1, <1>3
    <2> QED
      BY <2>1, <1>6, <1>2
  <1>8. Sum(T \ {y}) = f[c] + Sum((T \ {y}) \ {c})
    <2>1. T \ {y} \notin Bad
      BY <1>1, <1>2
    <2> QED
      BY <2>1, <1>6, <1>3
  <1>9. Sum((T \ {y}) \ {c}) = Sum((T \ {c}) \ {y})
    <2>1. (T \ {y}) \ {c} = (T \ {c}) \ {y}
      OBVIOUS
    <2> QED
      BY <2>1, Zenon
  <1>10. f[c] \in Int /\ f[y] \in Int /\ Sum((T \ {c}) \ {y}) \in Int
    BY <1>3, <1>2, <1>4
  <1> HIDE DEF Sum, c
  <1> QED
    BY <1>2, <1>5, <1>7, <1>8, <1>9, <1>10

\* Functions that agree on a set have the same sum over it.
LEMMA SumsAgree ==
  ASSUME NEW S, IsFiniteSet(S), NEW f, NEW g, \A x \in S : f[x] = g[x]
  PROVE  SumFunctionOnSet(f, S) = SumFunctionOnSet(g, S)
  <1> DEFINE Bad == {T \in SUBSET S : SumFunctionOnSet(f, T) # SumFunctionOnSet(g, T)}
  <1> SUFFICES ASSUME Bad # {} PROVE FALSE
    OBVIOUS
  <1>1. PICK T \in Bad : \A t \in Bad : ~ (t \subseteq T /\ t # T)
    <2>1. Bad \subseteq SUBSET S
      OBVIOUS
    <2> HIDE DEF Bad
    <2> QED
      BY <2>1, SmallestSubset
  <1>2. IsFiniteSet(T)
    BY FS_Subset
  <1>3. T # {}
    BY SumOfNone
  <1>4. First(T) \in T
    BY <1>3, FirstIsIn
  <1>5. /\ SumFunctionOnSet(f, T) = f[First(T)] + SumFunctionOnSet(f, T \ {First(T)})
        /\ SumFunctionOnSet(g, T) = g[First(T)] + SumFunctionOnSet(g, T \ {First(T)})
    BY <1>2, <1>3, SumUnfolds
  <1>6. T \ {First(T)} \notin Bad
    BY <1>1, <1>4
  <1> QED
    BY <1>4, <1>5, <1>6

\* A sum with and without one element, whether it was there or not.
LEMMA SumSplits ==
  ASSUME NEW S, IsFiniteSet(S), NEW f, \A y \in S : f[y] \in Int, NEW x
  PROVE  /\ SumFunctionOnSet(f, S) = SumFunctionOnSet(f, S \ {x}) + (IF x \in S THEN f[x] ELSE 0)
         /\ SumFunctionOnSet(f, S \ {x}) \in Int
  <1>1. SumFunctionOnSet(f, S \ {x}) \in Int
    BY FS_Subset, SumIsInteger
  <1>2. CASE x \in S
    <2>1. SumFunctionOnSet(f, S) = f[x] + SumFunctionOnSet(f, S \ {x})
      BY <1>2, SumWithout
    <2> QED
      BY <2>1, <1>1, <1>2
  <1>3. CASE x \notin S
    <2>1. S \ {x} = S
      BY <1>3
    <2>2. SumFunctionOnSet(f, S \ {x}) = SumFunctionOnSet(f, S)
      BY <2>1, Zenon
    <2> QED
      BY <2>2, <1>1, <1>3
  <1> QED
    BY <1>2, <1>3

\* What the sum becomes when only x comes, goes or changes its value.
THEOREM SumChanges ==
  ASSUME NEW S, IsFiniteSet(S), NEW f, \A y \in S : f[y] \in Int,
         NEW T, IsFiniteSet(T), NEW g, \A y \in T : g[y] \in Int,
         NEW x, S \ {x} = T \ {x}, \A y \in S \ {x} : f[y] = g[y]
  PROVE  SumFunctionOnSet(g, T) =
           SumFunctionOnSet(f, S) + (IF x \in T THEN g[x] ELSE 0) - (IF x \in S THEN f[x] ELSE 0)
  <1>1. SumFunctionOnSet(g, T \ {x}) = SumFunctionOnSet(f, S \ {x})
    <2>1. IsFiniteSet(S \ {x})
      BY FS_Subset
    <2>2. SumFunctionOnSet(f, S \ {x}) = SumFunctionOnSet(g, S \ {x})
      BY <2>1, SumsAgree
    <2> QED
      BY <2>2, Zenon
  <1>2. /\ SumFunctionOnSet(f, S) = SumFunctionOnSet(f, S \ {x}) + (IF x \in S THEN f[x] ELSE 0)
        /\ SumFunctionOnSet(f, S \ {x}) \in Int
    BY SumSplits
  <1>3. /\ SumFunctionOnSet(g, T) = SumFunctionOnSet(g, T \ {x}) + (IF x \in T THEN g[x] ELSE 0)
        /\ SumFunctionOnSet(g, T \ {x}) \in Int
    BY SumSplits
  <1>4. (x \in S => f[x] \in Int) /\ (x \in T => g[x] \in Int)
    OBVIOUS
  <1> QED
    BY <1>1, <1>2, <1>3, <1>4

\* A function changed at one element changes its sum by as much.
LEMMA SumOfOneChange ==
  ASSUME NEW S, IsFiniteSet(S), NEW f, \A y \in S : f[y] \in Int,
         NEW g, \A y \in S : g[y] \in Int,
         NEW x, \A y \in S \ {x} : f[y] = g[y]
  PROVE  /\ SumFunctionOnSet(f, S) \in Int
         /\ SumFunctionOnSet(g, S) = SumFunctionOnSet(f, S) + (IF x \in S THEN g[x] - f[x] ELSE 0)
  <1>1. SumFunctionOnSet(f, S) \in Int
    BY SumIsInteger
  <1>2. ASSUME NEW T, T = S
        PROVE  SumFunctionOnSet(g, T) =
                 SumFunctionOnSet(f, S) + (IF x \in T THEN g[x] ELSE 0) - (IF x \in S THEN f[x] ELSE 0)
    <2>1. IsFiniteSet(T) /\ (\A y \in T : g[y] \in Int) /\ S \ {x} = T \ {x}
      BY <1>2
    <2> QED
      BY <2>1, SumChanges
  <1>3. x \in S => f[x] \in Int /\ g[x] \in Int
    OBVIOUS
  <1> QED
    BY <1>1, <1>2, <1>3

\* A sum of zeros is zero.
LEMMA SumOfZeros ==
  ASSUME NEW S, IsFiniteSet(S), NEW f, \A x \in S : f[x] = 0
  PROVE  SumFunctionOnSet(f, S) = 0
  <1> DEFINE Bad == {T \in SUBSET S : SumFunctionOnSet(f, T) # 0}
  <1> SUFFICES ASSUME Bad # {} PROVE FALSE
    OBVIOUS
  <1>1. PICK T \in Bad : \A t \in Bad : ~ (t \subseteq T /\ t # T)
    <2>1. Bad \subseteq SUBSET S
      OBVIOUS
    <2> HIDE DEF Bad
    <2> QED
      BY <2>1, SmallestSubset
  <1>2. T \subseteq S /\ IsFiniteSet(T) /\ SumFunctionOnSet(f, T) # 0
    BY <1>1, FS_Subset
  <1>3. T # {}
    BY <1>2, SumOfNone
  <1>4. PICK x \in T : TRUE
    BY <1>3
  <1>5. SumFunctionOnSet(f, T) = f[x] + SumFunctionOnSet(f, T \ {x})
    <2>1. \A y \in T : f[y] \in Int
      BY <1>2
    <2> QED
      BY <1>2, <1>4, <2>1, SumWithout
  <1>6. SumFunctionOnSet(f, T \ {x}) = 0
    BY <1>1, <1>2, <1>4
  <1> QED
    BY <1>2, <1>4, <1>5, <1>6

\* A sum of naturals is a natural.
LEMMA SumIsNatural ==
  ASSUME NEW S, IsFiniteSet(S), NEW f, \A x \in S : f[x] \in Nat
  PROVE  SumFunctionOnSet(f, S) \in Nat
  <1> DEFINE Bad == {T \in SUBSET S : SumFunctionOnSet(f, T) \notin Nat}
  <1> SUFFICES ASSUME Bad # {} PROVE FALSE
    OBVIOUS
  <1>1. PICK T \in Bad : \A t \in Bad : ~ (t \subseteq T /\ t # T)
    <2>1. Bad \subseteq SUBSET S
      OBVIOUS
    <2> HIDE DEF Bad
    <2> QED
      BY <2>1, SmallestSubset
  <1>2. IsFiniteSet(T)
    BY FS_Subset
  <1>3. T # {}
    BY SumOfNone
  <1>4. First(T) \in T
    BY <1>3, FirstIsIn
  <1>5. SumFunctionOnSet(f, T) = f[First(T)] + SumFunctionOnSet(f, T \ {First(T)})
    BY <1>2, <1>3, SumUnfolds
  <1>6. T \ {First(T)} \notin Bad
    BY <1>1, <1>4
  <1> QED
    BY <1>4, <1>5, <1>6

\* Leaving out, or lowering, what counts cannot raise the sum.
THEOREM SumIsMonotonic ==
  ASSUME NEW S, IsFiniteSet(S), NEW f, \A x \in S : f[x] \in Nat,
         NEW T, T \subseteq S, NEW g, \A x \in T : g[x] \in Nat /\ g[x] <= f[x]
  PROVE  SumFunctionOnSet(g, T) <= SumFunctionOnSet(f, S)
  <1> DEFINE Bad == {U \in SUBSET S : ~ (SumFunctionOnSet(g, T \cap U) <= SumFunctionOnSet(f, U))}
  <1> SUFFICES ASSUME Bad # {} PROVE FALSE
    <2>1. T \cap S = T
      OBVIOUS
    <2> QED
      BY <2>1
  <1>1. PICK U \in Bad : \A t \in Bad : ~ (t \subseteq U /\ t # U)
    <2>1. Bad \subseteq SUBSET S
      OBVIOUS
    <2> HIDE DEF Bad
    <2> QED
      BY <2>1, SmallestSubset
  <1>2. \A V \in SUBSET S : IsFiniteSet(V) /\ SumFunctionOnSet(f, V) \in Nat /\ SumFunctionOnSet(g, T \cap V) \in Nat
    <2>1. \A V \in SUBSET S : IsFiniteSet(V) /\ IsFiniteSet(T \cap V)
      BY FS_Subset
    <2>2. ASSUME NEW V \in SUBSET S
          PROVE  SumFunctionOnSet(f, V) \in Nat /\ SumFunctionOnSet(g, T \cap V) \in Nat
      <3>1. \A x \in V : f[x] \in Nat
        OBVIOUS
      <3>2. \A x \in T \cap V : g[x] \in Nat
        OBVIOUS
      <3> QED
        BY <2>1, <3>1, <3>2, SumIsNatural
    <2> QED
      BY <2>1, <2>2
  <1>3. U # {}
    <2>1. T \cap {} = {}
      OBVIOUS
    <2> QED
      BY <2>1, SumOfNone
  <1>4. PICK x \in U : TRUE
    BY <1>3
  <1>5. U \ {x} \notin Bad
    BY <1>1
  <1>6. SumFunctionOnSet(f, U) = f[x] + SumFunctionOnSet(f, U \ {x})
    <2>1. IsFiniteSet(U) /\ \A y \in U : f[y] \in Int
      BY <1>2
    <2> QED
      BY <2>1, SumWithout
  <1>7. SumFunctionOnSet(g, T \cap U) = SumFunctionOnSet(g, T \cap (U \ {x})) + (IF x \in T THEN g[x] ELSE 0)
    <2>1. IsFiniteSet(T \cap U) /\ \A y \in T \cap U : g[y] \in Int
      BY <1>2, FS_Subset
    <2>2. SumFunctionOnSet(g, T \cap U) = SumFunctionOnSet(g, (T \cap U) \ {x}) + (IF x \in T \cap U THEN g[x] ELSE 0)
      BY <2>1, SumSplits
    <2>3. (T \cap U) \ {x} = T \cap (U \ {x}) /\ (x \in T \cap U <=> x \in T)
      OBVIOUS
    <2> QED
      BY <2>2, <2>3
  <1>8. SumFunctionOnSet(g, T \cap (U \ {x})) <= SumFunctionOnSet(f, U \ {x})
    BY <1>5
  <1>9. /\ SumFunctionOnSet(g, T \cap (U \ {x})) \in Nat /\ SumFunctionOnSet(f, U \ {x}) \in Nat
        /\ f[x] \in Nat /\ (x \in T => g[x] \in Nat /\ g[x] <= f[x])
    BY <1>2
  <1>10. SumFunctionOnSet(g, T \cap U) <= SumFunctionOnSet(f, U)
    BY <1>6, <1>7, <1>8, <1>9
  <1> QED
    BY <1>10, <1>1

\* A sum does not depend on how its terms are named: h names each element of S once.
THEOREM SumOfImage ==
  ASSUME NEW S, IsFiniteSet(S), NEW h, \A x, y \in S : h[x] = h[y] => x = y,
         NEW f, \A x \in S : f[x] \in Int, NEW g, \A x \in S : g[h[x]] = f[x]
  PROVE  /\ IsFiniteSet({h[x] : x \in S})
         /\ SumFunctionOnSet(g, {h[x] : x \in S}) = SumFunctionOnSet(f, S)
  <1> DEFINE Image(T) == {h[x] : x \in T}
             Same(T) == IsFiniteSet(Image(T)) /\ SumFunctionOnSet(g, Image(T)) = SumFunctionOnSet(f, T)
             Bad == {T \in SUBSET S : ~ Same(T)}
  <1> SUFFICES ASSUME Bad # {} PROVE FALSE
    OBVIOUS
  <1>1. PICK T \in Bad : \A t \in Bad : ~ (t \subseteq T /\ t # T)
    <2>1. Bad \subseteq SUBSET S
      OBVIOUS
    <2> HIDE DEF Bad
    <2> QED
      BY <2>1, SmallestSubset
  <1>2. T \subseteq S /\ IsFiniteSet(T) /\ ~ Same(T)
    BY <1>1, FS_Subset
  <1>3. T # {}
    <2>1. Image({}) = {} /\ IsFiniteSet({})
      BY FS_EmptySet
    <2> HIDE DEF Image
    <2>2. Same({})
      BY <2>1, SumOfNone
    <2> QED
      BY <1>2, <2>2
  <1>4. PICK x \in T : TRUE
    BY <1>3
  <1>5. Same(T \ {x})
    <2>1. T \ {x} \in SUBSET S /\ T \ {x} \subseteq T /\ T \ {x} # T
      BY <1>2, <1>4
    <2> QED
      BY <1>1, <2>1
  <1>6. Image(T \ {x}) = Image(T) \ {h[x]} /\ h[x] \in Image(T)
    BY <1>2, <1>4
  <1>7. IsFiniteSet(Image(T))
    <2>1. Image(T) = Image(T \ {x}) \cup {h[x]}
      BY <1>6
    <2>2. IsFiniteSet(Image(T \ {x}))
      BY <1>5
    <2> HIDE DEF Image
    <2>3. IsFiniteSet(Image(T \ {x}) \cup {h[x]})
      BY <2>2, FS_AddElement, Zenon
    <2> QED
      BY <2>1, <2>3, Zenon
  <1>8. \A y \in Image(T) : g[y] \in Int
    BY <1>2
  <1>9. SumFunctionOnSet(f, T) = f[x] + SumFunctionOnSet(f, T \ {x})
    <2>1. \A y \in T : f[y] \in Int
      BY <1>2
    <2> QED
      BY <1>2, <1>4, <2>1, SumWithout
  <1> HIDE DEF Image
  <1>10. SumFunctionOnSet(g, Image(T)) = g[h[x]] + SumFunctionOnSet(g, Image(T) \ {h[x]})
    BY <1>6, <1>7, <1>8, SumWithout
  <1>11. g[h[x]] = f[x]
    BY <1>2, <1>4
  <1>12. Same(T)
    BY <1>5, <1>6, <1>7, <1>9, <1>10, <1>11
  <1> QED
    BY <1>2, <1>12

-----------------------------------------------------------------------------
\* The jobs of each component, by what a request does next.
Bet == [at : {"fetch", "debit", "find"}, user : Users, choice : Fruits, gold : Gold, round : WheelRounds]
FiledBet(at, rows) ==
  [at : {at}, user : Users, choice : Fruits, gold : Gold, round : WheelRounds, row : rows]
Winner == [id : BetIds, user : Users, gold : Nat]
Draw == [at : {"draw"}, round : WheelRounds]
Winners == [at : {"winners"}, round : WheelRounds, fruit : Fruits]
Pay == [at : {"pay"}, round : WheelRounds, fruit : Fruits, left : SUBSET Winner]
Reset == [at : {"reset"}, user : Users, left : SUBSET BetIds]
WheelJob == Bet \cup FiledBet("insert", {None}) \cup FiledBet("raise", BetIds) \cup Draw \cup Winners \cup Pay \cup Reset
WheelTags == {"fetch", "debit", "find", "insert", "raise", "draw", "winners", "pay", "reset"}

JBet == [at : {"jfetch", "jdebit", "jfile"}, user : Users, choice : Fruits, gold : Gold, since : 0..MaxNow]
JDraw == [at : {"jdraw"}, round : JackpotRounds]
JWinners == [at : {"jwinners"}, round : JackpotRounds, fruit : Fruits]
JPay == [at : {"jpay"}, left : SUBSET Nat, fruit : Fruits]
JMark == [at : {"jmark"}, bet : Nat, left : SUBSET Nat, fruit : Fruits]
JackpotJob == JBet \cup JDraw \cup JWinners \cup JPay \cup JMark
JackpotTags == {"jfetch", "jdebit", "jfile", "jdraw", "jwinners", "jpay", "jmark"}

CoinJob == [at : {"keep", "check", "verify", "grant", "record"}, tx : Transactions, seen : Int]
CoinTags == {"keep", "check", "verify", "grant", "record"}
FollowJob == [at : {"author", "receiver"}, op : {"follow", "unfollow"}, pair : Pairs]
FollowTags == {"author", "receiver"}
Job == {Idle} \cup WheelJob \cup JackpotJob \cup CoinJob \cup FollowJob

LEMMA JobsByTag ==
  ASSUME NEW j \in Job
  PROVE  /\ j.at \in {"idle"} \cup WheelTags \cup JackpotTags \cup CoinTags \cup FollowTags
         /\ j.at = "idle" => j = Idle
         /\ j.at \in {"fetch", "debit", "find"} => j \in Bet
         /\ j.at = "insert" => j \in FiledBet("insert", {None})
         /\ j.at = "raise" => j \in FiledBet("raise", BetIds)
         /\ j.at = "draw" => j \in Draw
         /\ j.at = "winners" => j \in Winners
         /\ j.at = "pay" => j \in Pay
         /\ j.at = "reset" => j \in Reset
         /\ j.at \in {"jfetch", "jdebit", "jfile"} => j \in JBet
         /\ j.at = "jdraw" => j \in JDraw
         /\ j.at = "jwinners" => j \in JWinners
         /\ j.at = "jpay" => j \in JPay
         /\ j.at = "jmark" => j \in JMark
         /\ j.at \in CoinTags => j \in CoinJob
         /\ j.at \in FollowTags => j \in FollowJob
  BY DEF Job, Idle, WheelJob, Bet, FiledBet, Draw, Winners, Pay, Reset,
         JackpotJob, JBet, JDraw, JWinners, JPay, JMark, CoinJob, FollowJob,
         WheelTags, JackpotTags, CoinTags, FollowTags

StoreTypes ==
  /\ now \in 0..MaxNow /\ served \in 0..MaxRequests
  /\ credit \in [Users -> Int]
PcTypes == pc \in [Slots -> Job]
WheelTypes ==
  /\ profit \in [Users -> Nat]
  /\ bets \in [BetIds -> {None, Deleted} \cup {b \in Row : b.gold > 0}]
  /\ results \in [WheelRounds -> Seq(Fruits)]
  /\ recorded \in Seq(WheelRounds)
  /\ staked \in [Places -> Nat] /\ paid \in [Places -> Nat]
JackpotTypes ==
  /\ jackpotBets \in Seq(JackpotRow)
  /\ jackpotResults \in [JackpotRounds -> Seq(Fruits)]
  /\ timesPaid \in Seq(Nat) /\ Len(timesPaid) = Len(jackpotBets)
  /\ \A h \in Slots :
       /\ pc[h].at \in {"jpay", "jmark"} => pc[h].left \subseteq DOMAIN jackpotBets
       /\ pc[h].at = "jmark" => pc[h].bet \in DOMAIN jackpotBets
CoinTypes ==
  /\ cached \in [Users -> Int \cup {None}]
  /\ payments \in [Transactions -> Nat] /\ granted \in [Transactions -> Nat]
  /\ stale \in [Users -> Int]
FollowTypes ==
  /\ following \subseteq Pairs /\ followers \subseteq Pairs
  /\ alone \subseteq Slots
  /\ \A u \in Users : <<u, u>> \notin following \cup followers
  /\ \A h \in Slots : pc[h].at \in FollowTags /\ pc[h].op = "follow" => pc[h].pair[1] # pc[h].pair[2]
Types == StoreTypes /\ PcTypes /\ WheelTypes /\ JackpotTypes /\ CoinTypes /\ FollowTypes

LEMMA RoundTypes ==
  ASSUME NEW t \in 0..MaxNow
  PROVE  /\ t \div WheelDuration \in WheelRounds
         /\ t \div WheelDuration > 0 => (t \div WheelDuration) - 1 \in WheelRounds
         /\ JackpotRound(t) \in JackpotRounds
         /\ JackpotRound(t) > 0 => JackpotRound(t) - 1 \in JackpotRounds
  BY StoreConstants, WheelConstants, JackpotConstants
  DEF WheelRounds, JackpotRound, JackpotRounds

\* What a request does to its slot, the clock and the count of requests.
Moves(h) ==
  /\ now' = now /\ served' \in 0..MaxRequests
  /\ pc' = [pc EXCEPT ![h] = pc'[h]]

LEMMA StepsMove ==
  ASSUME Types, NEW h \in Slots, NEW job
  PROVE  /\ Begin(h, job) => Moves(h) /\ pc'[h] = job /\ credit' = credit /\ pc[h] = Idle
         /\ Continue(h, job) => Moves(h) /\ pc'[h] = job /\ credit' = credit
         /\ End(h) => Moves(h) /\ pc'[h] = Idle /\ credit' = credit
         /\ Goto(h, job) /\ UNCHANGED <<now, served>> => Moves(h) /\ pc'[h] = job
  BY StoreConstants DEF Types, StoreTypes, PcTypes, Moves, Begin, Continue, End, Goto

-----------------------------------------------------------------------------
\* A wheel step gives one slot another wheel job, or none.
LEMMA WheelTyped ==
  ASSUME Types, NEW h \in Slots, WheelStep(h)
  PROVE  /\ StoreTypes'
         /\ WheelTypes'
         /\ Moves(h)
         /\ pc'[h] \in {Idle} \cup WheelJob
         /\ pc[h] \in {Idle} \cup WheelJob
  <1> USE DEF Types, StoreTypes, PcTypes
  <1> DEFINE j == pc[h]
  <1>1. j \in Job
    OBVIOUS
  <1>2. ASSUME NEW u \in Users, GameReset(h, u)
        PROVE  pc'[h] \in Reset /\ UNCHANGED wheelVars
    BY <1>2 DEF GameReset, Begin, Goto, Reset, RowsOfUser, Rows
  <1>3. ASSUME NEW u \in Users, NEW f \in Fruits, NEW g \in Gold, GameChoice(h, u, f, g)
        PROVE  pc'[h] \in Bet /\ UNCHANGED wheelVars
    BY <1>3, RoundTypes DEF GameChoice, Begin, Goto, Bet, WheelRound
  <1>4. ASSUME FetchBalance(h)
        PROVE  pc'[h] \in {Idle} \cup Bet /\ UNCHANGED wheelVars /\ j \in Bet
    <2>1. j \in Bet
      BY <1>1, <1>4, JobsByTag DEF FetchBalance
    <2> QED
      BY <1>4, <2>1 DEF FetchBalance, Continue, End, Goto, Bet
  <1>5. ASSUME Debit(h)
        PROVE  pc'[h] \in Bet /\ UNCHANGED wheelVars /\ credit' \in [Users -> Int] /\ j \in Bet
    <2>1. j \in Bet
      BY <1>1, <1>5, JobsByTag DEF Debit
    <2> QED
      BY <1>5, <2>1, StoreConstants DEF Debit, Goto, AddCredit, Bet
  <1>6. ASSUME FindBet(h)
        PROVE  pc'[h] \in WheelJob /\ UNCHANGED wheelVars /\ j \in Bet
    <2>1. j \in Bet
      BY <1>1, <1>6, JobsByTag DEF FindBet
    <2>2. pc'[h] \in FiledBet("insert", {None}) \cup FiledBet("raise", BetIds)
      BY <1>6, <2>1 DEF FindBet, Continue, Goto, AtRow, Bet, FiledBet, RowsOf, Rows
    <2> QED
      BY <2>1, <2>2, <1>6 DEF FindBet, WheelJob
  <1>7. ASSUME InsertBet(h)
        PROVE  pc'[h] = Idle /\ WheelTypes' /\ j \in FiledBet("insert", {None})
    <2>1. j \in FiledBet("insert", {None})
      BY <1>1, <1>7, JobsByTag DEF InsertBet
    <2>2. j.gold \in Nat \ {0} /\ <<j.user, j.round, j.choice>> \in Places
      BY <2>1, StoreConstants DEF FiledBet, Places
    <2>3. staked' \in [Places -> Nat]
      BY <1>7, <2>2 DEF InsertBet, Filed, WheelTypes
    <2>4. bets' \in [BetIds -> {None, Deleted} \cup {b \in Row : b.gold > 0}]
      BY <1>7, <2>1, <2>2 DEF InsertBet, FiledBet, WheelTypes, Row
    <2> QED
      BY <1>7, <2>1, <2>3, <2>4 DEF InsertBet, End, Continue, Goto, WheelTypes
  <1>8. ASSUME RaiseBet(h)
        PROVE  pc'[h] = Idle /\ WheelTypes' /\ j \in FiledBet("raise", BetIds)
    <2>1. j \in FiledBet("raise", BetIds)
      BY <1>1, <1>8, JobsByTag DEF RaiseBet
    <2>2. j.gold \in Nat \ {0} /\ <<j.user, j.round, j.choice>> \in Places
      BY <2>1, StoreConstants DEF FiledBet, Places
    <2>3. CASE j.row \in Rows
      <3>1. bets[j.row] \in Row /\ bets[j.row].gold \in Nat /\ j.row \in BetIds
        BY <2>3 DEF Rows, WheelTypes, Row
      <3>2. [bets[j.row] EXCEPT !.gold = @ + j.gold] \in {b \in Row : b.gold > 0}
        BY <3>1, <2>2 DEF Row
      <3>3. bets' = [bets EXCEPT ![j.row] = [bets[j.row] EXCEPT !.gold = @ + j.gold]] /\ Filed(j)
        BY <1>8, <2>3 DEF RaiseBet
      <3>4. staked' \in [Places -> Nat]
        BY <3>3, <2>2 DEF Filed, WheelTypes
      <3>5. bets' \in [BetIds -> {None, Deleted} \cup {b \in Row : b.gold > 0}]
        BY <3>2, <3>3 DEF WheelTypes
      <3> QED
        BY <1>8, <2>1, <3>4, <3>5 DEF RaiseBet, End, Continue, Goto, WheelTypes
    <2>4. CASE j.row \notin Rows
      BY <1>8, <2>1, <2>4 DEF RaiseBet, End, Continue, Goto, WheelTypes
    <2> QED
      BY <2>3, <2>4
  <1>9. ASSUME GameInfo(h)
        PROVE  pc'[h] \in Draw /\ UNCHANGED wheelVars
    <2>1. WheelRound > 0 => WheelRound - 1 \in WheelRounds
      BY RoundTypes DEF WheelRound
    <2> QED
      BY <1>9, <2>1 DEF GameInfo, Begin, Goto, Draw
  <1>10. ASSUME SaveResult(h)
         PROVE  pc'[h] \in Winners /\ WheelTypes' /\ j \in Draw
    <2>1. j \in Draw
      BY <1>1, <1>10, JobsByTag DEF SaveResult
    <2> QED
      BY <1>10, <2>1 DEF SaveResult, Continue, Goto, Draw, Winners, WheelTypes
  <1>11. ASSUME FindWinners(h)
         PROVE  pc'[h] \in Pay /\ UNCHANGED wheelVars /\ j \in Winners
    <2>1. j \in Winners
      BY <1>1, <1>11, JobsByTag DEF FindWinners
    <2>2. \A b \in Rows : [id |-> b, user |-> bets[b].user, gold |-> bets[b].gold] \in Winner
      BY DEF WheelTypes, Rows, Row, Winner
    <2> QED
      BY <1>11, <2>1, <2>2 DEF FindWinners, Continue, Goto, Paying, RowsOfRound, Winners, Pay
  <1>12. ASSUME PayWinner(h)
         PROVE  /\ pc'[h] \in Pay /\ j \in Pay
                /\ credit' \in [Users -> Int] /\ WheelTypes'
    <2>1. j \in Pay
      BY <1>1, <1>12, JobsByTag DEF PayWinner
    <2>2. PICK w \in j.left :
            LET win == WheelMultiplier[j.fruit] * w.gold IN
            /\ AddCredit(w.user, win)
            /\ profit' = [profit EXCEPT ![w.user] = @ + win]
            /\ paid' = [paid EXCEPT ![<<w.user, j.round, j.fruit>>] = @ + win]
            /\ Goto(h, [j EXCEPT !.left = @ \ {w}])
      BY <1>12 DEF PayWinner
    <2>3. w \in Winner /\ WheelMultiplier[j.fruit] * w.gold \in Nat
      BY <2>1, WheelConstants DEF Pay, Winner
    <2>4. pc'[h] = [j EXCEPT !.left = @ \ {w}] /\ pc'[h] \in Pay
      BY <2>1, <2>2 DEF Goto, Pay
    <2>5. credit' \in [Users -> Int] /\ profit' \in [Users -> Nat]
      BY <2>2, <2>3 DEF AddCredit, Winner, WheelTypes
    <2>6. paid' \in [Places -> Nat]
      BY <2>1, <2>2, <2>3 DEF Pay, Winner, Places, WheelTypes
    <2> QED
      BY <1>12, <2>1, <2>4, <2>5, <2>6 DEF PayWinner, WheelTypes
  <1>13. ASSUME RecordRound(h)
         PROVE  pc'[h] = Idle /\ WheelTypes' /\ j \in Pay
    <2>1. j \in Pay
      BY <1>1, <1>13, JobsByTag DEF RecordRound
    <2> QED
      BY <1>13, <2>1 DEF RecordRound, End, Continue, Goto, Pay, WheelTypes
  <1>14. ASSUME DestroyBet(h)
         PROVE  pc'[h] \in Reset /\ WheelTypes' /\ j \in Reset
    <2>1. j \in Reset
      BY <1>1, <1>14, JobsByTag DEF DestroyBet
    <2>2. PICK b \in j.left \cap Rows :
            bets' = [bets EXCEPT ![b] = Deleted] /\ Continue(h, [j EXCEPT !.left = @ \ {b}])
      BY <1>14 DEF DestroyBet
    <2>3. pc'[h] = [j EXCEPT !.left = @ \ {b}] /\ pc'[h] \in Reset
      BY <2>1, <2>2 DEF Continue, Goto, Reset
    <2>4. bets' \in [BetIds -> {None, Deleted} \cup {c \in Row : c.gold > 0}]
      BY <2>2 DEF WheelTypes
    <2> QED
      BY <1>14, <2>1, <2>3, <2>4 DEF DestroyBet, WheelTypes
  <1>15. ASSUME DestroyFails(h)
         PROVE  pc'[h] = Idle /\ UNCHANGED wheelVars /\ j \in Reset
    <2>1. j \in Reset
      BY <1>1, <1>15, JobsByTag DEF DestroyFails
    <2> QED
      BY <1>15, <2>1 DEF DestroyFails, End, Continue, Goto
  <1>16. ASSUME ZeroProfit(h)
         PROVE  pc'[h] = Idle /\ WheelTypes' /\ j \in Reset
    <2>1. j \in Reset
      BY <1>1, <1>16, JobsByTag DEF ZeroProfit
    <2> QED
      BY <1>16, <2>1 DEF ZeroProfit, End, Continue, Goto, Reset, WheelTypes
  <1>17. Moves(h)
    BY StepsMove
    DEF WheelStep, GameReset, GameChoice, FetchBalance, Debit, FindBet, InsertBet, RaiseBet, GameInfo,
        SaveResult, FindWinners, PayWinner, RecordRound, DestroyBet, DestroyFails, ZeroProfit
  <1>18. /\ pc'[h] \in {Idle} \cup WheelJob /\ pc[h] \in {Idle} \cup WheelJob
         /\ WheelTypes'
         /\ credit' \in [Users -> Int]
    BY <1>2, <1>3, <1>4, <1>5, <1>6, <1>7, <1>8, <1>9, <1>10, <1>11, <1>12, <1>13, <1>14, <1>15, <1>16
    DEF WheelStep, WheelTypes, wheelVars, WheelJob, GameReset, GameChoice, FetchBalance, FindBet, InsertBet,
        RaiseBet, GameInfo, SaveResult, FindWinners, RecordRound, DestroyBet, DestroyFails, ZeroProfit,
        Begin, End, Continue
  <1> QED
    BY <1>17, <1>18 DEF Moves

-----------------------------------------------------------------------------
\* A jackpot step gives one slot another jackpot job, or none, and takes no row away.
LEMMA JackpotTyped ==
  ASSUME Types, NEW h \in Slots, JackpotStep(h)
  PROVE  /\ StoreTypes'
         /\ JackpotTypes'
         /\ Moves(h)
         /\ pc'[h] \in {Idle} \cup JackpotJob
         /\ pc[h] \in {Idle} \cup JackpotJob
  <1> USE DEF Types, StoreTypes, PcTypes
  <1> DEFINE j == pc[h]
             Sound(job) ==
               /\ job.at \in {"jpay", "jmark"} => job.left \subseteq DOMAIN jackpotBets
               /\ job.at = "jmark" => job.bet \in DOMAIN jackpotBets
  <1>1. j \in Job
    OBVIOUS
  <1>2. ASSUME NEW u \in Users, NEW f \in Fruits, NEW g \in Gold, JackpotBet(h, u, f, g)
        PROVE  pc'[h] \in JBet /\ UNCHANGED jackpotVars
    BY <1>2, StepsMove DEF JackpotBet, JBet
  <1>3. ASSUME JackpotFetchBalance(h)
        PROVE  pc'[h] \in {Idle} \cup JBet /\ UNCHANGED jackpotVars /\ j \in JBet
    <2>1. j \in JBet
      BY <1>1, <1>3, JobsByTag DEF JackpotFetchBalance
    <2> QED
      BY <1>3, <2>1, StepsMove DEF JackpotFetchBalance, JBet
  <1>4. ASSUME JackpotDebit(h)
        PROVE  pc'[h] \in JBet /\ UNCHANGED jackpotVars /\ credit' \in [Users -> Int] /\ j \in JBet
    <2>1. j \in JBet
      BY <1>1, <1>4, JobsByTag DEF JackpotDebit
    <2> QED
      BY <1>4, <2>1, StepsMove, StoreConstants DEF JackpotDebit, AddCredit, JBet
  <1>5. ASSUME JackpotFile(h)
        PROVE  /\ pc'[h] = Idle /\ j \in JBet
               /\ jackpotBets' \in Seq(JackpotRow) /\ timesPaid' \in Seq(Nat)
               /\ Len(timesPaid') = Len(jackpotBets') /\ DOMAIN jackpotBets \subseteq DOMAIN jackpotBets'
               /\ jackpotResults' = jackpotResults
    <2>1. j \in JBet
      BY <1>1, <1>5, JobsByTag DEF JackpotFile
    <2>2. [user |-> j.user, round |-> JackpotRound(j.since), choice |-> j.choice,
           amount |-> j.gold, isWinner |-> FALSE] \in JackpotRow
      BY <2>1, RoundTypes, StoreConstants DEF JBet, JackpotRow
    <2>3. Len(jackpotBets) \in Nat /\ DOMAIN jackpotBets = 1..Len(jackpotBets)
      BY DEF JackpotTypes
    <2>4. /\ jackpotBets' \in Seq(JackpotRow) /\ timesPaid' \in Seq(Nat)
          /\ Len(jackpotBets') = Len(jackpotBets) + 1 /\ Len(timesPaid') = Len(timesPaid) + 1
          /\ DOMAIN jackpotBets' = 1..Len(jackpotBets')
      BY <1>5, <2>2, <2>3 DEF JackpotFile, JackpotTypes
    <2>5. UNCHANGED jackpotResults /\ pc'[h] = Idle
      BY <1>5, StepsMove DEF JackpotFile
    <2>6. Len(timesPaid') = Len(jackpotBets') /\ DOMAIN jackpotBets \subseteq DOMAIN jackpotBets'
      BY <2>3, <2>4 DEF JackpotTypes
    <2> QED
      BY <2>1, <2>4, <2>5, <2>6
  <1>6. ASSUME ProcessRound(h)
        PROVE  pc'[h] \in JDraw /\ UNCHANGED jackpotVars
    <2>1. JackpotRound(now) > 0 => JackpotRound(now) - 1 \in JackpotRounds
      BY RoundTypes
    <2> QED
      BY <1>6, <2>1, StepsMove DEF ProcessRound, JDraw
  <1>7. ASSUME JackpotSaveResult(h)
        PROVE  /\ pc'[h] \in JWinners /\ j \in JDraw
               /\ UNCHANGED <<jackpotBets, timesPaid>>
               /\ jackpotResults' \in [JackpotRounds -> Seq(Fruits)]
    <2>1. j \in JDraw
      BY <1>1, <1>7, JobsByTag DEF JackpotSaveResult
    <2> QED
      BY <1>7, <2>1 DEF JackpotSaveResult, Continue, Goto, JDraw, JWinners, JackpotTypes
  <1>8. ASSUME JackpotFindWinners(h)
        PROVE  pc'[h] \in JPay /\ Sound(pc'[h]) /\ UNCHANGED jackpotVars /\ j \in JWinners
    <2>1. j \in JWinners
      BY <1>1, <1>8, JobsByTag DEF JackpotFindWinners
    <2>2. DOMAIN jackpotBets \subseteq Nat
      BY DEF JackpotTypes
    <2> QED
      BY <1>8, <2>1, <2>2, StepsMove DEF JackpotFindWinners, JWinners, JPay, Winning
  <1>9. ASSUME JackpotPay(h)
        PROVE  /\ pc'[h] \in JMark /\ Sound(pc'[h]) /\ j \in JPay
               /\ credit' \in [Users -> Int]
               /\ timesPaid' \in Seq(Nat) /\ Len(timesPaid') = Len(jackpotBets)
               /\ UNCHANGED <<jackpotBets, jackpotResults>>
    <2>1. j \in JPay
      BY <1>1, <1>9, JobsByTag DEF JackpotPay
    <2>2. PICK n \in j.left :
            /\ AddCredit(jackpotBets[n].user, JackpotMultiplier[j.fruit] * jackpotBets[n].amount)
            /\ timesPaid' = [timesPaid EXCEPT ![n] = @ + 1]
            /\ Goto(h, [at |-> "jmark", bet |-> n, left |-> j.left \ {n}, fruit |-> j.fruit])
      BY <1>9 DEF JackpotPay
    <2>3. n \in DOMAIN jackpotBets /\ jackpotBets[n] \in JackpotRow /\ j.left \subseteq DOMAIN jackpotBets
      BY <1>9, <2>2 DEF JackpotPay, JackpotTypes
    <2>4. JackpotMultiplier[j.fruit] * jackpotBets[n].amount \in Nat
      BY <2>1, <2>3, JackpotConstants DEF JackpotRow, JPay
    <2>5. credit' \in [Users -> Int]
      <3> DEFINE win == JackpotMultiplier[j.fruit] * jackpotBets[n].amount
                 u == jackpotBets[n].user
      <3>1. win \in Int /\ credit' = [credit EXCEPT ![u] = credit[u] + win]
        BY <2>2, <2>4 DEF AddCredit
      <3>2. u \in Users
        BY <2>3 DEF JackpotRow
      <3> HIDE DEF win, u
      <3> QED
        BY <3>1, <3>2
    <2>6. timesPaid' \in Seq(Nat) /\ Len(timesPaid') = Len(jackpotBets)
      <3>1. n \in 1..Len(timesPaid) /\ timesPaid[n] + 1 \in Nat
        BY <2>3 DEF JackpotTypes
      <3>2. timesPaid' = [timesPaid EXCEPT ![n] = timesPaid[n] + 1]
        BY <2>2
      <3> QED
        BY <3>1, <3>2, ExceptSeq DEF JackpotTypes
    <2>7. pc'[h] = [at |-> "jmark", bet |-> n, left |-> j.left \ {n}, fruit |-> j.fruit]
      BY <2>2 DEF Goto
    <2> QED
      BY <1>9, <2>1, <2>3, <2>5, <2>6, <2>7 DEF JackpotPay, JPay, JMark
  <1>10. ASSUME JackpotMark(h)
         PROVE  /\ pc'[h] \in JPay /\ Sound(pc'[h]) /\ j \in JMark
                /\ jackpotBets' \in Seq(JackpotRow) /\ Len(jackpotBets') = Len(jackpotBets)
                /\ DOMAIN jackpotBets' = DOMAIN jackpotBets
                /\ UNCHANGED <<jackpotResults, timesPaid>>
    <2>1. j \in JMark
      BY <1>1, <1>10, JobsByTag DEF JackpotMark
    <2>2. j.bet \in DOMAIN jackpotBets /\ j.left \subseteq DOMAIN jackpotBets
      BY <1>10 DEF JackpotMark, JackpotTypes
    <2>3. jackpotBets \in [1..Len(jackpotBets) -> JackpotRow] /\ Len(jackpotBets) \in Nat
      BY DEF JackpotTypes
    <2>4. [jackpotBets[j.bet] EXCEPT !.isWinner = TRUE] \in JackpotRow
      BY <2>2, <2>3 DEF JackpotRow
    <2>5. jackpotBets' = [jackpotBets EXCEPT ![j.bet] = [jackpotBets[j.bet] EXCEPT !.isWinner = TRUE]]
      BY <1>10 DEF JackpotMark
    <2>6. jackpotBets' \in [1..Len(jackpotBets) -> JackpotRow]
      BY <2>3, <2>4, <2>5
    <2>7. jackpotBets' \in Seq(JackpotRow) /\ Len(jackpotBets') = Len(jackpotBets)
      BY <2>2, <2>4, <2>5, ExceptSeq DEF JackpotTypes
    <2> QED
      BY <1>10, <2>1, <2>2, <2>3, <2>6, <2>7, StepsMove DEF JackpotMark, JMark, JPay
  <1>11. ASSUME Processed(h)
         PROVE  pc'[h] = Idle /\ UNCHANGED jackpotVars /\ j \in JPay
    <2>1. j \in JPay
      BY <1>1, <1>11, JobsByTag DEF Processed
    <2> QED
      BY <1>11, <2>1, StepsMove DEF Processed
  <1>12. Moves(h)
    BY StepsMove
    DEF JackpotStep, JackpotBet, JackpotFetchBalance, JackpotDebit, JackpotFile, ProcessRound,
        JackpotSaveResult, JackpotFindWinners, JackpotPay, JackpotMark, Processed
  <1>13. /\ pc'[h] \in {Idle} \cup JackpotJob /\ pc[h] \in {Idle} \cup JackpotJob
         /\ credit' \in [Users -> Int]
    BY <1>2, <1>3, <1>4, <1>5, <1>6, <1>7, <1>8, <1>9, <1>10, <1>11
    DEF JackpotStep, JackpotJob, JackpotBet, JackpotFetchBalance, JackpotFile, ProcessRound,
        JackpotSaveResult, JackpotFindWinners, JackpotMark, Processed, Begin, End, Continue
  <1>14. /\ jackpotBets' \in Seq(JackpotRow)
         /\ jackpotResults' \in [JackpotRounds -> Seq(Fruits)]
         /\ timesPaid' \in Seq(Nat) /\ Len(timesPaid') = Len(jackpotBets')
         /\ DOMAIN jackpotBets \subseteq DOMAIN jackpotBets'
    BY <1>2, <1>3, <1>4, <1>5, <1>6, <1>7, <1>8, <1>9, <1>10, <1>11
    DEF JackpotStep, JackpotTypes, jackpotVars
  <1>15. Sound(pc'[h])
    BY <1>2, <1>3, <1>4, <1>5, <1>6, <1>7, <1>8, <1>9, <1>10, <1>11
    DEF JackpotStep, Idle, JBet, JDraw, JWinners
  <1>16. \A k \in Slots : k # h => pc'[k] = pc[k]
    BY <1>12 DEF Moves
  <1> QED
    BY <1>12, <1>13, <1>14, <1>15, <1>16 DEF Moves, JackpotTypes

-----------------------------------------------------------------------------
LEMMA ForgetTyped ==
  ASSUME Types, NEW saved, Forget(saved)
  PROVE  cached' \in [Users -> Int \cup {None}]
  BY DEF Types, CoinTypes, Forget

LEMMA CoinTyped ==
  ASSUME Types, NEW h \in Slots, CoinStep(h)
  PROVE  /\ StoreTypes'
         /\ CoinTypes'
         /\ Moves(h)
         /\ pc'[h] \in {Idle} \cup CoinJob
         /\ pc[h] \in {Idle} \cup CoinJob
  <1> USE DEF Types, StoreTypes, PcTypes, CoinTags
  <1> DEFINE j == pc[h]
  <1>1. j \in Job
    OBVIOUS
  <1>2. ASSUME NEW t \in Transactions, Authenticate(h, t)
        PROVE  /\ pc'[h] \in CoinJob /\ j = Idle /\ CoinTypes' /\ credit' = credit /\ Moves(h)
    <2> DEFINE u == Buyer[t]
               seen == IF cached[u] # None THEN cached[u] ELSE credit[u]
    <2>1. u \in Users
      BY CoinConstants
    <2>2. seen \in Int
      BY <2>1 DEF CoinTypes
    <2>3. PICK at \in {"keep", "check"} : Begin(h, [at |-> at, tx |-> t, seen |-> seen])
      BY <1>2 DEF Authenticate
    <2> HIDE DEF seen
    <2>4. [at |-> at, tx |-> t, seen |-> seen] \in CoinJob
      BY <2>2 DEF CoinJob
    <2> QED
      BY <1>2, <2>3, <2>4, StepsMove DEF Authenticate, CoinTypes, coinVars
  <1>3. ASSUME CheckDuplicate(h)
        PROVE  pc'[h] \in {Idle} \cup CoinJob /\ j \in CoinJob /\ UNCHANGED <<cached, coinVars>> /\ credit' = credit /\ Moves(h)
    <2>1. j \in CoinJob
      BY <1>1, <1>3, JobsByTag DEF CheckDuplicate
    <2> QED
      BY <1>3, <2>1, StepsMove DEF CheckDuplicate, CoinJob
  <1>4. ASSUME Verify(h)
        PROVE  pc'[h] \in {Idle} \cup CoinJob /\ j \in CoinJob /\ UNCHANGED <<cached, coinVars>> /\ credit' = credit /\ Moves(h)
    <2>1. j \in CoinJob
      BY <1>1, <1>4, JobsByTag DEF Verify
    <2> QED
      BY <1>4, <2>1, StepsMove DEF Verify, CoinJob
  <1>5. ASSUME Grant(h)
        PROVE  pc'[h] \in CoinJob /\ j \in CoinJob /\ CoinTypes' /\ credit' \in [Users -> Int] /\ Moves(h)
    <2>1. j \in CoinJob
      BY <1>1, <1>5, JobsByTag DEF Grant
    <2>2. j.tx \in Transactions /\ j.seen \in Int /\ Buyer[j.tx] \in Users /\ Coins[j.tx] \in Nat
      BY <2>1, CoinConstants DEF CoinJob
    <2>3. pc'[h] \in CoinJob /\ Moves(h)
      BY <1>5, <2>1, StepsMove DEF Grant, CoinJob
    <2>4. cached' \in [Users -> Int \cup {None}]
      BY <1>5, ForgetTyped DEF Grant
    <2>5. credit' \in [Users -> Int] /\ payments' = payments
      BY <1>5, <2>2 DEF Grant
    <2>6. granted' \in [Transactions -> Nat]
      BY <1>5, <2>2 DEF Grant, CoinTypes
    <2>7. stale' \in [Users -> Int]
      BY <1>5, <2>2 DEF Grant, CoinTypes
    <2> QED
      BY <2>1, <2>3, <2>4, <2>5, <2>6, <2>7 DEF CoinTypes
  <1>6. ASSUME Record(h)
        PROVE  pc'[h] = Idle /\ j \in CoinJob /\ CoinTypes' /\ credit' = credit /\ Moves(h)
    <2>1. j \in CoinJob
      BY <1>1, <1>6, JobsByTag DEF Record
    <2>2. j.tx \in Transactions
      BY <2>1 DEF CoinJob
    <2> QED
      BY <1>6, <2>1, <2>2, StepsMove DEF Record, CoinTypes
  <1>7. UNCHANGED <<cached, coinVars>> => CoinTypes'
    BY DEF coinVars, CoinTypes
  <1>8. ASSUME PutUser(h)
        PROVE  pc'[h] \in CoinJob /\ j \in CoinJob /\ CoinTypes' /\ credit' = credit /\ Moves(h)
    <2>1. j \in CoinJob
      BY <1>1, <1>8, JobsByTag DEF PutUser
    <2>2. pc'[h] \in CoinJob /\ credit' = credit /\ Moves(h)
      BY <1>8, <2>1, StepsMove DEF PutUser, CoinJob
    <2>3. j.seen \in Int
      BY <2>1 DEF CoinJob
    <2> QED
      BY <1>8, <2>1, <2>2, <2>3 DEF PutUser, CoinTypes, coinVars
  <1> QED
    BY <1>2, <1>3, <1>4, <1>5, <1>6, <1>7, <1>8 DEF CoinStep, Moves

LEMMA FollowTyped ==
  ASSUME Types, NEW h \in Slots, FollowStep(h)
  PROVE  /\ StoreTypes'
         /\ FollowTypes'
         /\ Moves(h)
         /\ pc'[h] \in {Idle} \cup FollowJob
         /\ pc[h] \in {Idle} \cup FollowJob
  <1> USE DEF Types, StoreTypes, PcTypes, FollowTags
  <1> DEFINE j == pc[h]
             Apart(job) == job.at \in FollowTags /\ job.op = "follow" => job.pair[1] # job.pair[2]
  <1>1. j \in Job
    OBVIOUS
  <1>2. ASSUME NEW o \in {"follow", "unfollow"}, NEW p \in Pairs, BeginFollow(h, o, p),
               o = "follow" => p[1] # p[2]
        PROVE  /\ pc'[h] \in FollowJob /\ j = Idle /\ Apart(pc'[h]) /\ credit' = credit /\ Moves(h)
               /\ UNCHANGED <<following, followers>> /\ alone' \subseteq Slots
    BY <1>2, StepsMove DEF BeginFollow, FollowJob, FollowTypes
  <1>3. ASSUME SaveAuthor(h)
        PROVE  /\ pc'[h] \in FollowJob /\ j \in FollowJob /\ Apart(pc'[h]) /\ credit' = credit /\ Moves(h)
               /\ following' \subseteq Pairs /\ (\A u \in Users : <<u, u>> \notin following')
               /\ UNCHANGED <<followers, alone>>
    <2>1. j \in FollowJob
      BY <1>1, <1>3, JobsByTag DEF SaveAuthor
    <2>2. Apart(j)
      BY DEF FollowTypes
    <2>3. following' \subseteq Pairs /\ \A u \in Users : <<u, u>> \notin following'
      BY <1>3, <2>1, <2>2 DEF SaveAuthor, Saved, FollowJob, FollowTypes
    <2>4. pc'[h] = [j EXCEPT !.at = "receiver"] /\ credit' = credit /\ Moves(h)
      BY <1>3, StepsMove DEF SaveAuthor
    <2>5. pc'[h] \in FollowJob /\ Apart(pc'[h])
      BY <2>1, <2>2, <2>4 DEF FollowJob
    <2> QED
      BY <1>3, <2>1, <2>3, <2>4, <2>5 DEF SaveAuthor
  <1>4. ASSUME SaveReceiver(h)
        PROVE  /\ pc'[h] = Idle /\ j \in FollowJob /\ credit' = credit /\ Moves(h)
               /\ followers' \subseteq Pairs /\ (\A u \in Users : <<u, u>> \notin followers')
               /\ UNCHANGED <<following, alone>>
    <2>1. j \in FollowJob
      BY <1>1, <1>4, JobsByTag DEF SaveReceiver
    <2>2. Apart(j)
      BY DEF FollowTypes
    <2>3. followers' \subseteq Pairs /\ \A u \in Users : <<u, u>> \notin followers'
      BY <1>4, <2>1, <2>2 DEF SaveReceiver, Saved, FollowJob, FollowTypes
    <2> QED
      BY <1>4, <2>1, <2>3, StepsMove DEF SaveReceiver
  <1>5. ASSUME NEW p \in Pairs, FollowUser(h, p[1], p[2]) \/ UnfollowUser(h, p[1], p[2])
        PROVE  \E o \in {"follow", "unfollow"} : BeginFollow(h, o, p) /\ (o = "follow" => p[1] # p[2])
    <2>1. p = <<p[1], p[2]>>
      BY FollowConstants
    <2> QED
      BY <1>5, <2>1 DEF FollowUser, UnfollowUser
  <1>6. /\ pc'[h] \in {Idle} \cup FollowJob /\ j \in {Idle} \cup FollowJob
        /\ Apart(pc'[h]) /\ credit' = credit /\ Moves(h)
        /\ following' \subseteq Pairs /\ followers' \subseteq Pairs /\ alone' \subseteq Slots
        /\ \A u \in Users : <<u, u>> \notin following' \cup followers'
    BY <1>2, <1>3, <1>4, <1>5 DEF FollowStep, FollowTypes, Idle
  <1>7. \A k \in Slots : k # h => pc'[k] = pc[k]
    BY <1>6 DEF Moves
  <1> QED
    BY <1>6, <1>7 DEF Moves, FollowTypes

\* What a step that leaves a component alone leaves of its types.
LEMMA OthersKeep ==
  ASSUME Types, NEW h \in Slots, Moves(h), pc'[h] \in Job
  PROVE  /\ PcTypes'
         /\ UNCHANGED wheelVars => WheelTypes'
         /\ UNCHANGED jackpotVars /\ pc'[h] \notin JackpotJob => JackpotTypes'
         /\ UNCHANGED coinVars /\ cached' \in [Users -> Int \cup {None}] => CoinTypes'
         /\ UNCHANGED followVars /\ pc'[h] \notin FollowJob => FollowTypes'
  <1> USE DEF Types
  <1>1. PcTypes' /\ \A k \in Slots : k # h => pc'[k] = pc[k]
    BY DEF Moves, PcTypes
  <1>2. UNCHANGED wheelVars => WheelTypes'
    BY DEF wheelVars, WheelTypes, Rows
  <1>3. ASSUME UNCHANGED jackpotVars, pc'[h] \notin JackpotJob
        PROVE  JackpotTypes'
    <2>1. pc'[h].at \notin {"jpay", "jmark"}
      BY <1>3, JobsByTag DEF JackpotJob
    <2> QED
      BY <1>1, <1>3, <2>1 DEF jackpotVars, JackpotTypes
  <1>4. UNCHANGED coinVars /\ cached' \in [Users -> Int \cup {None}] => CoinTypes'
    BY DEF coinVars, CoinTypes
  <1>5. ASSUME UNCHANGED followVars, pc'[h] \notin FollowJob
        PROVE  FollowTypes'
    <2>1. pc'[h].at \notin FollowTags
      BY <1>5, JobsByTag
    <2> QED
      BY <1>1, <1>5, <2>1 DEF followVars, FollowTypes
  <1> QED
    BY <1>1, <1>2, <1>3, <1>4, <1>5

LEMMA JobsApart ==
  /\ Idle \in Job /\ WheelJob \subseteq Job /\ JackpotJob \subseteq Job /\ CoinJob \subseteq Job /\ FollowJob \subseteq Job
  /\ \A j \in {Idle} \cup WheelJob : j \notin JackpotJob \cup CoinJob \cup FollowJob
  /\ \A j \in {Idle} \cup JackpotJob : j \notin WheelJob \cup CoinJob \cup FollowJob
  /\ \A j \in {Idle} \cup CoinJob : j \notin WheelJob \cup JackpotJob \cup FollowJob
  /\ \A j \in {Idle} \cup FollowJob : j \notin WheelJob \cup JackpotJob \cup CoinJob
  <1>1. /\ \A j \in WheelJob : j.at \in WheelTags
        /\ \A j \in JackpotJob : j.at \in JackpotTags
        /\ \A j \in CoinJob : j.at \in CoinTags
        /\ \A j \in FollowJob : j.at \in FollowTags
        /\ Idle.at = "idle"
    BY DEF Idle, WheelJob, Bet, FiledBet, Draw, Winners, Pay, Reset, JackpotJob, JBet, JDraw, JWinners, JPay, JMark,
           CoinJob, FollowJob, WheelTags, JackpotTags, CoinTags, FollowTags
  <1> QED
    BY <1>1 DEF Job, WheelTags, JackpotTags, CoinTags, FollowTags

-----------------------------------------------------------------------------
LEMMA InitTyped == Init => Types
  <1> SUFFICES ASSUME Init PROVE Types
    OBVIOUS
  <1> USE DEF Init
  <1>1. StoreTypes
    BY StoreConstants DEF StoreInit, StoreTypes
  <1>2. PcTypes /\ \A h \in Slots : pc[h].at = "idle"
    BY JobsApart DEF StoreInit, PcTypes, Idle
  <1>3. WheelTypes
    BY DEF WheelInit, WheelTypes
  <1>4. JackpotTypes
    BY <1>2 DEF JackpotInit, JackpotTypes
  <1>5. CoinTypes
    BY DEF CoinInit, CoinTypes
  <1>6. FollowTypes
    BY <1>2 DEF FollowInit, FollowTypes, FollowTags
  <1> QED
    BY <1>1, <1>2, <1>3, <1>4, <1>5, <1>6 DEF Types

LEMMA StepTyped == Types /\ [Next]_vars => Types'
  <1> SUFFICES ASSUME Types, [Next]_vars PROVE Types'
    OBVIOUS
  <1> DEFINE forget == Forget({u \in Users : credit'[u] # credit[u]})
  <1>1. ASSUME NEW h \in Slots, WheelStep(h), UNCHANGED <<jackpotVars, coinVars, followVars>>, forget
        PROVE  Types'
    <2>1. /\ StoreTypes' /\ WheelTypes' /\ Moves(h)
          /\ pc'[h] \in {Idle} \cup WheelJob
      BY <1>1, WheelTyped
    <2>2. pc'[h] \in Job /\ pc'[h] \notin JackpotJob /\ pc'[h] \notin FollowJob
      BY <2>1, JobsApart
    <2> QED
      BY <1>1, <2>1, <2>2, ForgetTyped, OthersKeep DEF Types
  <1>2. ASSUME NEW h \in Slots, JackpotStep(h), UNCHANGED <<wheelVars, coinVars, followVars>>, forget
        PROVE  Types'
    <2>1. /\ StoreTypes' /\ JackpotTypes' /\ Moves(h)
          /\ pc'[h] \in {Idle} \cup JackpotJob
      BY <1>2, JackpotTyped
    <2>2. pc'[h] \in Job /\ pc'[h] \notin FollowJob
      BY <2>1, JobsApart
    <2> QED
      BY <1>2, <2>1, <2>2, ForgetTyped, OthersKeep DEF Types
  <1>3. ASSUME NEW h \in Slots, CoinStep(h), UNCHANGED <<wheelVars, jackpotVars, followVars>>
        PROVE  Types'
    <2>1. /\ StoreTypes' /\ CoinTypes' /\ Moves(h)
          /\ pc'[h] \in {Idle} \cup CoinJob
      BY <1>3, CoinTyped
    <2>2. pc'[h] \in Job /\ pc'[h] \notin JackpotJob /\ pc'[h] \notin FollowJob
      BY <2>1, JobsApart
    <2> QED
      BY <1>3, <2>1, <2>2, OthersKeep DEF Types
  <1>4. ASSUME NEW h \in Slots, FollowStep(h), UNCHANGED <<wheelVars, jackpotVars, coinVars>>, Forget(SavedNext(h))
        PROVE  Types'
    <2>1. /\ StoreTypes' /\ FollowTypes' /\ Moves(h)
          /\ pc'[h] \in {Idle} \cup FollowJob
      BY <1>4, FollowTyped
    <2>2. pc'[h] \in Job /\ pc'[h] \notin JackpotJob
      BY <2>1, JobsApart
    <2> QED
      BY <1>4, <2>1, <2>2, ForgetTyped, OthersKeep DEF Types
  <1>5. ASSUME NEW u \in Users, Expire(u), UNCHANGED <<wheelVars, jackpotVars, followVars>>
        PROVE  Types'
    BY <1>5
    DEF Expire, Types, shared, coinVars, wheelVars, jackpotVars, followVars,
        StoreTypes, PcTypes, WheelTypes, JackpotTypes, CoinTypes, FollowTypes
  <1>6. ASSUME ResetStats, UNCHANGED <<jackpotVars, cached, coinVars, followVars>>
        PROVE  Types'
    BY <1>6
    DEF ResetStats, Types, shared, jackpotVars, coinVars, followVars,
        StoreTypes, PcTypes, WheelTypes, JackpotTypes, CoinTypes, FollowTypes
  <1>7. ASSUME Tick, UNCHANGED <<wheelVars, jackpotVars, cached, coinVars, followVars>>
        PROVE  Types'
    BY <1>7, StoreConstants
    DEF Tick, Types, wheelVars, jackpotVars, coinVars, followVars,
        StoreTypes, PcTypes, WheelTypes, JackpotTypes, CoinTypes, FollowTypes
  <1>8. ASSUME NEW h \in Slots, CallFails(h), UNCHANGED <<wheelVars, jackpotVars, cached, coinVars, followVars>>
        PROVE  Types'
    <2>1. Moves(h) /\ pc'[h] = Idle /\ credit' = credit
      BY <1>8, StepsMove DEF CallFails
    <2>2. pc'[h] \in Job /\ pc'[h] \notin JackpotJob /\ pc'[h] \notin FollowJob
      BY <2>1, JobsApart
    <2> QED
      BY <1>8, <2>1, <2>2, OthersKeep DEF Types, CoinTypes, StoreTypes, Moves
  <1>9. ASSUME Restart
        PROVE  Types'
    <2>1. \A h \in Slots : pc'[h] = Idle /\ pc'[h] \in Job /\ pc'[h].at = "idle"
      BY <1>9, JobsApart DEF Restart, Idle
    <2>2. PcTypes' /\ StoreTypes'
      BY <1>9, <2>1 DEF Restart, Types, PcTypes, StoreTypes
    <2>3. WheelTypes' /\ CoinTypes'
      BY <1>9 DEF Restart, Types, coinVars, WheelTypes, CoinTypes
    <2>4. JackpotTypes' /\ FollowTypes'
      BY <1>9, <2>1 DEF Restart, Types, jackpotVars, followVars, JackpotTypes, FollowTypes, FollowTags
    <2> QED
      BY <2>2, <2>3, <2>4 DEF Types
  <1>10. ASSUME UNCHANGED vars
         PROVE  Types'
    BY <1>10
    DEF vars, shared, wheelVars, jackpotVars, coinVars, followVars,
        Types, StoreTypes, PcTypes, WheelTypes, JackpotTypes, CoinTypes, FollowTypes
  <1> QED
    BY <1>1, <1>2, <1>3, <1>4, <1>5, <1>6, <1>7, <1>8, <1>9, <1>10 DEF Next, Games, Others

\* Every variable, and every request on its way, keeps the shape the handlers give it.
THEOREM TypeCorrect == Spec => []TypeOK
  <1>1. Types => TypeOK
    <2> SUFFICES ASSUME Types PROVE TypeOK
      OBVIOUS
    <2> USE DEF Types
    <2>1. StoreTypeOK
      BY DEF StoreTypes, StoreTypeOK
    <2>2. WheelTypeOK
      BY DEF WheelTypes, WheelTypeOK, Rows
    <2>3. JackpotTypeOK
      BY DEF JackpotTypes, JackpotTypeOK
    <2>4. CoinTypeOK
      <3>1. \A h \in Slots : pc[h].at \in {"keep", "check"} => pc[h] \in CoinJob
        BY JobsByTag DEF PcTypes, CoinTags
      <3> QED
        BY <3>1 DEF CoinTypes, CoinTypeOK, CoinJob
    <2>5. FollowTypeOK
      BY FollowConstants DEF FollowTypes, FollowTypeOK
    <2> QED
      BY <2>1, <2>2, <2>3, <2>4, <2>5 DEF TypeOK
  <1> QED
    BY <1>1, InitTyped, StepTyped, PTL DEF Spec

-----------------------------------------------------------------------------
\* What is left of a step that belongs to no component.
Background ==
  /\ now' \in 0..MaxNow /\ now <= now'
  /\ \A h \in Slots : pc'[h] \in {pc[h], Idle}
  /\ UNCHANGED <<credit, profit, bets, results, staked, paid, jackpotVars, payments, granted, stale, followVars>>

LEMMA StepKinds ==
  ASSUME Types, [Next]_vars
  PROVE  \/ \E h \in Slots : WheelStep(h) /\ UNCHANGED <<jackpotVars, coinVars, followVars>>
         \/ \E h \in Slots : JackpotStep(h) /\ UNCHANGED <<wheelVars, coinVars, followVars>>
         \/ \E h \in Slots : CoinStep(h) /\ UNCHANGED <<wheelVars, jackpotVars, followVars>>
         \/ \E h \in Slots : FollowStep(h) /\ UNCHANGED <<wheelVars, jackpotVars, coinVars>>
         \/ Background
  <1> USE DEF Types, StoreTypes, PcTypes
  <1>1. ASSUME NEW u \in Users, Expire(u), UNCHANGED <<wheelVars, jackpotVars, followVars>>
        PROVE  Background
    BY <1>1 DEF Background, Expire, shared, coinVars, wheelVars, jackpotVars, followVars
  <1>2. ASSUME ResetStats, UNCHANGED <<jackpotVars, cached, coinVars, followVars>>
        PROVE  Background
    BY <1>2 DEF Background, ResetStats, shared, jackpotVars, coinVars, followVars
  <1>3. ASSUME Tick, UNCHANGED <<wheelVars, jackpotVars, cached, coinVars, followVars>>
        PROVE  Background
    BY <1>3, StoreConstants DEF Background, Tick, wheelVars, jackpotVars, coinVars, followVars
  <1>4. ASSUME NEW h \in Slots, CallFails(h), UNCHANGED <<wheelVars, jackpotVars, cached, coinVars, followVars>>
        PROVE  Background
    BY <1>4 DEF Background, CallFails, End, Continue, Goto, wheelVars, jackpotVars, coinVars, followVars
  <1>5. ASSUME Restart
        PROVE  Background
    BY <1>5 DEF Background, Restart, coinVars, wheelVars, jackpotVars, coinVars, followVars
  <1>6. ASSUME UNCHANGED vars
        PROVE  Background
    BY <1>6 DEF Background, vars, shared, wheelVars, jackpotVars, coinVars, followVars
  <1> QED
    BY <1>1, <1>2, <1>3, <1>4, <1>5, <1>6 DEF Next, Games, Others

\* A step of another component, or of none, neither touches the wheel's tables nor gives a
\* request a wheel job; the same for the jackpot.
WheelQuiet ==
  /\ UNCHANGED <<bets, results, staked, paid>>
  /\ now' \in 0..MaxNow /\ now <= now'
  /\ \A h \in Slots : pc'[h] = pc[h] \/ pc'[h].at \notin WheelTags
JackpotQuiet ==
  /\ UNCHANGED jackpotVars
  /\ now' \in 0..MaxNow /\ now <= now'
  /\ \A h \in Slots : pc'[h] = pc[h] \/ pc'[h].at \notin JackpotTags

LEMMA Quiet ==
  ASSUME Types, [Next]_vars
  PROVE  /\ (\E h \in Slots : WheelStep(h)) \/ WheelQuiet
         /\ (\E h \in Slots : JackpotStep(h)) \/ JackpotQuiet
  <1> USE DEF Types, StoreTypes
  <1>1. /\ \A j \in {Idle} \cup JackpotJob \cup CoinJob \cup FollowJob : j.at \notin WheelTags
        /\ \A j \in {Idle} \cup WheelJob \cup CoinJob \cup FollowJob : j.at \notin JackpotTags
    BY DEF Idle, WheelJob, Bet, FiledBet, Draw, Winners, Pay, Reset, JackpotJob, JBet, JDraw, JWinners, JPay, JMark,
           CoinJob, FollowJob, WheelTags, JackpotTags
  <1>2. ASSUME NEW h \in Slots, WheelStep(h), UNCHANGED <<jackpotVars, coinVars, followVars>>
        PROVE  JackpotQuiet
    BY <1>1, <1>2, WheelTyped DEF JackpotQuiet, Moves, PcTypes
  <1>3. ASSUME NEW h \in Slots, JackpotStep(h), UNCHANGED <<wheelVars, coinVars, followVars>>
        PROVE  WheelQuiet
    BY <1>1, <1>3, JackpotTyped DEF WheelQuiet, wheelVars, Moves, PcTypes
  <1>4. ASSUME NEW h \in Slots, CoinStep(h), UNCHANGED <<wheelVars, jackpotVars, followVars>>
        PROVE  WheelQuiet /\ JackpotQuiet
    BY <1>1, <1>4, CoinTyped DEF WheelQuiet, JackpotQuiet, wheelVars, Moves, PcTypes
  <1>5. ASSUME NEW h \in Slots, FollowStep(h), UNCHANGED <<wheelVars, jackpotVars, coinVars>>
        PROVE  WheelQuiet /\ JackpotQuiet
    BY <1>1, <1>5, FollowTyped DEF WheelQuiet, JackpotQuiet, wheelVars, Moves, PcTypes
  <1>6. ASSUME Background
        PROVE  WheelQuiet /\ JackpotQuiet
    BY <1>1, <1>6 DEF Background, WheelQuiet, JackpotQuiet
  <1> QED
    BY <1>2, <1>3, <1>4, <1>5, <1>6, StepKinds

-----------------------------------------------------------------------------
LEMMA RoundsGoOn ==
  ASSUME NEW s \in Nat, NEW t \in Nat, s <= t, NEW d \in Nat \ {0}
  PROVE  s \div d <= t \div d /\ s \div d \in Nat /\ t \div d \in Nat
  OBVIOUS

\* From which tag to which each wheel action takes its slot.
LEMMA WheelTransitions ==
  ASSUME Types, NEW h \in Slots
  PROVE  /\ \A u \in Users : GameReset(h, u) => pc'[h].at = "reset"
         /\ \A u \in Users, f \in Fruits, g \in Gold : GameChoice(h, u, f, g) => pc'[h].at = "fetch"
         /\ FetchBalance(h) => pc'[h].at \in {"idle", "debit"}
         /\ Debit(h) => pc'[h].at = "find"
         /\ FindBet(h) => pc'[h].at \in {"insert", "raise"}
         /\ InsertBet(h) \/ RaiseBet(h) => pc'[h].at = "idle"
         /\ GameInfo(h) => pc'[h].at = "draw"
         /\ SaveResult(h) => pc'[h].at = "winners"
         /\ FindWinners(h) \/ PayWinner(h) => pc'[h].at = "pay"
         /\ RecordRound(h) => pc'[h].at = "idle"
         /\ DestroyBet(h) => pc'[h].at = "reset"
         /\ DestroyFails(h) \/ ZeroProfit(h) => pc'[h].at = "idle"
  <1> USE DEF Types, PcTypes
  <1>1. \A u \in Users : GameReset(h, u) => pc'[h].at = "reset"
    BY StepsMove DEF GameReset
  <1>2. \A u \in Users, f \in Fruits, g \in Gold : GameChoice(h, u, f, g) => pc'[h].at = "fetch"
    BY StepsMove DEF GameChoice
  <1>3. FetchBalance(h) => pc'[h].at \in {"idle", "debit"}
    BY JobsByTag, StepsMove DEF FetchBalance, Bet, Idle
  <1>4. Debit(h) => pc'[h].at = "find"
    BY JobsByTag, StepsMove DEF Debit, Bet
  <1>5. FindBet(h) => pc'[h].at \in {"insert", "raise"}
    <2> SUFFICES ASSUME FindBet(h) PROVE pc'[h].at \in {"insert", "raise"}
      OBVIOUS
    <2>1. PICK b : Continue(h, AtRow(pc[h], "insert", b)) \/ Continue(h, AtRow(pc[h], "raise", b))
      BY DEF FindBet
    <2> QED
      BY <2>1, StepsMove DEF AtRow
  <1>6. InsertBet(h) \/ RaiseBet(h) => pc'[h].at = "idle"
    BY StepsMove DEF InsertBet, RaiseBet, Idle
  <1>7. GameInfo(h) => pc'[h].at = "draw"
    BY StepsMove DEF GameInfo
  <1>8. SaveResult(h) => pc'[h].at = "winners"
    BY StepsMove DEF SaveResult
  <1>9. FindWinners(h) => pc'[h].at = "pay"
    BY StepsMove DEF FindWinners, Paying
  <1>10. PayWinner(h) => pc'[h].at = "pay"
    BY JobsByTag DEF PayWinner, Goto, Pay
  <1>11. RecordRound(h) => pc'[h].at = "idle"
    BY StepsMove DEF RecordRound, Idle
  <1>12. DestroyBet(h) => pc'[h].at = "reset"
    BY JobsByTag DEF DestroyBet, Continue, Goto, Reset
  <1>13. DestroyFails(h) \/ ZeroProfit(h) => pc'[h].at = "idle"
    BY StepsMove DEF DestroyFails, ZeroProfit, Idle
  <1> QED
    BY <1>1, <1>2, <1>3, <1>4, <1>5, <1>6, <1>7, <1>8, <1>9, <1>10, <1>11, <1>12, <1>13

LEMMA NotDrawn ==
  ASSUME Types, NEW h \in Slots, WheelStep(h), ~ SaveResult(h), ~ GameInfo(h)
  PROVE  results' = results /\ pc'[h].at # "draw"
  <1>1. results' = results
    BY DEF WheelStep, GameReset, GameChoice, FetchBalance, Debit, FindBet, InsertBet, RaiseBet,
           FindWinners, PayWinner, RecordRound, DestroyBet, DestroyFails, ZeroProfit, wheelVars
  <1> QED
    BY <1>1, WheelTransitions DEF WheelStep

\* The round a settlement in progress is for is over.
DrawsAreLate == \A h \in Slots : pc[h].at = "draw" => pc[h].round < WheelRound

LEMMA DrawsStayLate ==
  ASSUME Types, SettledAfterClose, DrawsAreLate, [Next]_vars
  PROVE  SettledAfterClose' /\ DrawsAreLate'
  <1> USE DEF Types
  <1>1. ASSUME NEW h \in Slots, WheelStep(h)
        PROVE  SettledAfterClose' /\ DrawsAreLate'
    <2>1. Moves(h) /\ WheelRound' = WheelRound /\ WheelRound \in Nat
      <3>1. Moves(h) /\ WheelRound' = WheelRound /\ now \in Nat
        BY <1>1, WheelTyped DEF Moves, WheelRound, StoreTypes
      <3>2. WheelDuration \in Nat \ {0} /\ now <= now
        BY <3>1, WheelConstants
      <3> QED
        BY <3>1, <3>2, RoundsGoOn, Zenon DEF WheelRound
    <2>2. \A k \in Slots : k # h => pc'[k] = pc[k]
      BY <2>1 DEF Moves, PcTypes
    <2>3. CASE SaveResult(h)
      <3>1. pc[h] \in Draw
        BY <2>3, JobsByTag DEF SaveResult, PcTypes
      <3>2. results' = [results EXCEPT ![pc[h].round] = results'[pc[h].round]] /\ pc'[h].at = "winners"
        BY <2>3, <3>1 DEF SaveResult, Continue, Goto, WheelTypes, Draw, PcTypes
      <3>3. pc[h].round < WheelRound
        BY <2>3 DEF SaveResult, DrawsAreLate
      <3> QED
        BY <2>1, <2>2, <3>1, <3>2, <3>3 DEF SettledAfterClose, DrawsAreLate, WheelTypes
    <2>4. CASE GameInfo(h)
      BY <2>1, <2>2, <2>4, StepsMove DEF GameInfo, wheelVars, SettledAfterClose, DrawsAreLate
    <2>5. CASE ~ SaveResult(h) /\ ~ GameInfo(h)
      <3>1. results' = results /\ pc'[h].at # "draw"
        BY <1>1, <2>5, NotDrawn
      <3> QED
        BY <2>1, <2>2, <3>1 DEF SettledAfterClose, DrawsAreLate
    <2> QED
      BY <2>3, <2>4, <2>5
  <1>2. ASSUME WheelQuiet
        PROVE  SettledAfterClose' /\ DrawsAreLate'
    <2>1. WheelRound \in Nat /\ WheelRound' \in Nat /\ WheelRound <= WheelRound'
      <3>1. now \in Nat /\ now' \in Nat /\ now <= now'
        BY <1>2, StoreConstants DEF WheelQuiet, StoreTypes
      <3>2. WheelDuration \in Nat \ {0}
        BY WheelConstants
      <3> QED
        BY <3>1, <3>2, RoundsGoOn, Zenon DEF WheelRound
    <2>2. \A h \in Slots : pc[h].at = "draw" => pc[h].round \in Int
      BY JobsByTag DEF PcTypes, Draw, WheelRounds
    <2> QED
      BY <1>2, <2>1, <2>2 DEF WheelQuiet, SettledAfterClose, DrawsAreLate, WheelTags, WheelRounds
  <1> QED
    BY <1>1, <1>2, Quiet

\* A round is settled only when the clock has left it, although the clock goes on between
\* game_info's reading of it and the saving of the result.
THEOREM SettledRoundsAreOver == Spec => []SettledAfterClose
  <1> DEFINE Inv == Types /\ SettledAfterClose /\ DrawsAreLate
  <1>1. Init => Inv
    <2>1. Init => \A h \in Slots : pc[h].at = "idle"
      BY DEF Init, StoreInit, Idle
    <2> QED
      BY <2>1, InitTyped DEF Init, WheelInit, SettledAfterClose, DrawsAreLate
  <1>2. Inv /\ [Next]_vars => Inv'
    BY StepTyped, DrawsStayLate
  <1> QED
    BY <1>1, <1>2, PTL DEF Spec

-----------------------------------------------------------------------------
\* f is one of the results saved for a round.
Drawn(saved, f) == \E k \in DOMAIN saved : saved[k] = f

LEMMA JackpotTransitions ==
  ASSUME Types, NEW h \in Slots
  PROVE  /\ \A u \in Users, f \in Fruits, g \in Gold : JackpotBet(h, u, f, g) => pc'[h].at = "jfetch"
         /\ JackpotFetchBalance(h) => pc'[h].at \in {"idle", "jdebit"}
         /\ JackpotDebit(h) => pc'[h].at = "jfile"
         /\ JackpotFile(h) => pc'[h].at = "idle"
         /\ ProcessRound(h) => pc'[h].at = "jdraw"
         /\ JackpotSaveResult(h) => pc'[h].at = "jwinners"
         /\ JackpotFindWinners(h) => pc'[h].at = "jpay"
         /\ JackpotPay(h) => pc'[h].at = "jmark"
         /\ JackpotMark(h) => pc'[h].at = "jpay"
         /\ Processed(h) => pc'[h].at = "idle"
  <1> USE DEF Types, PcTypes
  <1>1. \A u \in Users, f \in Fruits, g \in Gold : JackpotBet(h, u, f, g) => pc'[h].at = "jfetch"
    BY StepsMove DEF JackpotBet
  <1>2. JackpotFetchBalance(h) => pc'[h].at \in {"idle", "jdebit"}
    BY JobsByTag, StepsMove DEF JackpotFetchBalance, JBet, Idle
  <1>3. JackpotDebit(h) => pc'[h].at = "jfile"
    BY JobsByTag, StepsMove DEF JackpotDebit, JBet
  <1>4. JackpotFile(h) => pc'[h].at = "idle"
    BY StepsMove DEF JackpotFile, Idle
  <1>5. ProcessRound(h) => pc'[h].at = "jdraw"
    BY StepsMove DEF ProcessRound
  <1>6. JackpotSaveResult(h) => pc'[h].at = "jwinners"
    BY StepsMove DEF JackpotSaveResult
  <1>7. JackpotFindWinners(h) => pc'[h].at = "jpay"
    BY StepsMove DEF JackpotFindWinners
  <1>8. JackpotPay(h) => pc'[h].at = "jmark"
    BY StepsMove DEF JackpotPay, Goto
  <1>9. JackpotMark(h) => pc'[h].at = "jpay"
    BY StepsMove DEF JackpotMark
  <1>10. Processed(h) => pc'[h].at = "idle"
    BY StepsMove DEF Processed, Idle
  <1> QED
    BY <1>1, <1>2, <1>3, <1>4, <1>5, <1>6, <1>7, <1>8, <1>9, <1>10

\* Rows are only added, marked, and paid once more, and results only added.
LEMMA RowsStay ==
  ASSUME Types, NEW h \in Slots, JackpotStep(h)
  PROVE  /\ \A n \in DOMAIN jackpotBets :
              /\ n \in DOMAIN jackpotBets' /\ n \in DOMAIN timesPaid
              /\ jackpotBets'[n].user = jackpotBets[n].user
              /\ jackpotBets'[n].round = jackpotBets[n].round
              /\ jackpotBets'[n].choice = jackpotBets[n].choice
              /\ jackpotBets'[n].amount = jackpotBets[n].amount
              /\ timesPaid'[n] \in Nat /\ timesPaid'[n] >= timesPaid[n]
         /\ \A r \in JackpotRounds, f \in Fruits : Drawn(jackpotResults[r], f) => Drawn(jackpotResults'[r], f)
  <1> USE DEF Types
  <1>1. /\ Len(jackpotBets) \in Nat /\ DOMAIN jackpotBets = 1..Len(jackpotBets)
        /\ DOMAIN timesPaid = 1..Len(jackpotBets) /\ \A n \in DOMAIN jackpotBets : timesPaid[n] \in Nat
        /\ \A n \in DOMAIN jackpotBets : jackpotBets[n] \in JackpotRow
    BY DEF JackpotTypes
  <1>2. CASE JackpotFile(h)
    <2>1. PICK row : jackpotBets' = Append(jackpotBets, row) /\ timesPaid' = Append(timesPaid, 0)
      BY <1>2 DEF JackpotFile
    <2>2. \A n \in DOMAIN jackpotBets : n \in DOMAIN jackpotBets' /\ jackpotBets'[n] = jackpotBets[n] /\ timesPaid'[n] = timesPaid[n]
      BY <1>1, <2>1 DEF JackpotTypes
    <2> QED
      BY <1>1, <1>2, <2>2 DEF JackpotFile, Drawn
  <1>3. CASE JackpotSaveResult(h)
    <2>1. pc[h] \in JDraw
      BY <1>3, JobsByTag DEF JackpotSaveResult, PcTypes
    <2>2. PICK f \in Fruits : jackpotResults' = [jackpotResults EXCEPT ![pc[h].round] = Append(@, f)]
      BY <1>3 DEF JackpotSaveResult
    <2>3. ASSUME NEW r \in JackpotRounds, NEW g \in Fruits, Drawn(jackpotResults[r], g)
          PROVE  Drawn(jackpotResults'[r], g)
      <3>1. PICK k \in DOMAIN jackpotResults[r] : jackpotResults[r][k] = g
        BY <2>3 DEF Drawn
      <3>2. k \in DOMAIN jackpotResults'[r] /\ jackpotResults'[r][k] = g
        <4>1. CASE r = pc[h].round
          <5>1. jackpotResults'[r] = Append(jackpotResults[r], f)
            BY <2>2, <4>1 DEF JackpotTypes
          <5>2. jackpotResults[r] \in Seq(Fruits)
            BY DEF JackpotTypes
          <5> QED
            BY <3>1, <5>1, <5>2
        <4>2. CASE r # pc[h].round
          BY <2>2, <3>1, <4>2 DEF JackpotTypes
        <4> QED
          BY <4>1, <4>2
      <3> QED
        BY <3>2 DEF Drawn
    <2> QED
      BY <1>1, <1>3, <2>3 DEF JackpotSaveResult
  <1>4. CASE JackpotPay(h)
    <2>1. PICK n \in pc[h].left : timesPaid' = [timesPaid EXCEPT ![n] = @ + 1]
      BY <1>4 DEF JackpotPay
    <2> QED
      BY <1>1, <1>4, <2>1 DEF JackpotPay, Drawn
  <1>5. CASE JackpotMark(h)
    <2>1. jackpotBets' = [jackpotBets EXCEPT ![pc[h].bet] = [jackpotBets[pc[h].bet] EXCEPT !.isWinner = TRUE]]
      BY <1>5 DEF JackpotMark
    <2>2. pc[h].bet \in DOMAIN jackpotBets
      BY <1>5 DEF JackpotMark, JackpotTypes
    <2> QED
      BY <1>1, <1>5, <2>1, <2>2 DEF JackpotMark, Drawn, JackpotRow
  <1>6. CASE UNCHANGED jackpotVars
    BY <1>1, <1>6 DEF jackpotVars, Drawn
  <1>7. JackpotFile(h) \/ JackpotSaveResult(h) \/ JackpotPay(h) \/ JackpotMark(h) \/ UNCHANGED jackpotVars
    BY DEF JackpotStep, JackpotBet, JackpotFetchBalance, JackpotDebit, ProcessRound, JackpotFindWinners, Processed
  <1> QED
    BY <1>2, <1>3, <1>4, <1>5, <1>6, <1>7

\* What a round in progress has found is so: the fruit was drawn, the bets it pays named
\* it, and the one to be marked was paid.
JobsSeeDraws ==
  \A h \in Slots :
    /\ pc[h].at = "jwinners" => Drawn(jackpotResults[pc[h].round], pc[h].fruit)
    /\ pc[h].at \in {"jpay", "jmark"} =>
         \A n \in pc[h].left : jackpotBets[n].choice = pc[h].fruit /\ Drawn(jackpotResults[jackpotBets[n].round], pc[h].fruit)
    /\ pc[h].at = "jmark" =>
         /\ jackpotBets[pc[h].bet].choice = pc[h].fruit /\ Drawn(jackpotResults[jackpotBets[pc[h].bet].round], pc[h].fruit)
         /\ timesPaid[pc[h].bet] > 0
MarkedHold ==
  \A n \in DOMAIN jackpotBets :
    jackpotBets[n].isWinner => timesPaid[n] > 0 /\ Drawn(jackpotResults[jackpotBets[n].round], jackpotBets[n].choice)

LEMMA MarksStayTrue ==
  ASSUME Types, JobsSeeDraws, MarkedHold, [Next]_vars
  PROVE  JobsSeeDraws' /\ MarkedHold'
  <1> USE DEF Types
  <1> DEFINE Sees(j) ==
        /\ j.at = "jwinners" => Drawn(jackpotResults[j.round], j.fruit)
        /\ j.at \in {"jpay", "jmark"} =>
             \A n \in j.left : jackpotBets[n].choice = j.fruit /\ Drawn(jackpotResults[jackpotBets[n].round], j.fruit)
        /\ j.at = "jmark" =>
             /\ jackpotBets[j.bet].choice = j.fruit /\ Drawn(jackpotResults[jackpotBets[j.bet].round], j.fruit)
             /\ timesPaid[j.bet] > 0
  <1>1. \A n \in DOMAIN jackpotBets : jackpotBets[n] \in JackpotRow /\ timesPaid[n] \in Nat /\ DOMAIN timesPaid = DOMAIN jackpotBets
    BY DEF JackpotTypes
  <1>2. ASSUME NEW h \in Slots, JackpotStep(h)
        PROVE  JobsSeeDraws' /\ MarkedHold'
    <2>1. /\ \A n \in DOMAIN jackpotBets :
               /\ n \in DOMAIN jackpotBets'
               /\ jackpotBets'[n].round = jackpotBets[n].round
               /\ jackpotBets'[n].choice = jackpotBets[n].choice
               /\ timesPaid'[n] \in Nat /\ timesPaid'[n] >= timesPaid[n]
          /\ \A r \in JackpotRounds, f \in Fruits : Drawn(jackpotResults[r], f) => Drawn(jackpotResults'[r], f)
      BY <1>2, RowsStay
    <2>2. Moves(h) /\ \A k \in Slots : k # h => pc'[k] = pc[k]
      BY <1>2, JackpotTyped DEF Moves, PcTypes
    <2>3. ASSUME NEW k \in Slots
          PROVE  Sees(pc[k])
      BY DEF JobsSeeDraws
    <2>4. ASSUME NEW k \in Slots, pc'[k] = pc[k]
          PROVE  Sees(pc[k])'
      <3>1. CASE pc[k].at = "jwinners"
        <4>1. pc[k] \in JWinners
          BY <3>1, JobsByTag DEF PcTypes
        <4> QED
          BY <3>1, <4>1, <2>1, <2>3, <2>4 DEF JWinners
      <3>2. CASE pc[k].at \in {"jpay", "jmark"}
        <4>1. pc[k].fruit \in Fruits
          BY <3>2, JobsByTag DEF PcTypes, JPay, JMark
        <4>2. pc[k].left \subseteq DOMAIN jackpotBets /\ (pc[k].at = "jmark" => pc[k].bet \in DOMAIN jackpotBets)
          BY <3>2 DEF JackpotTypes
        <4>3. \A n \in DOMAIN jackpotBets : jackpotBets[n].round \in JackpotRounds
          BY <1>1 DEF JackpotRow
        <4>4. \A n \in DOMAIN jackpotBets : jackpotBets[n].choice = pc[k].fruit /\ Drawn(jackpotResults[jackpotBets[n].round], pc[k].fruit)
                 => jackpotBets'[n].choice = pc[k].fruit /\ Drawn(jackpotResults'[jackpotBets'[n].round], pc[k].fruit)
          BY <2>1, <4>1, <4>3
        <4> QED
          BY <1>1, <2>1, <2>3, <2>4, <3>2, <4>2, <4>4
      <3> QED
        BY <3>1, <3>2, <2>4
    <2>5. CASE JackpotMark(h)
      <3>1. pc[h] \in JMark /\ pc[h].bet \in DOMAIN jackpotBets
        BY <2>5, JobsByTag DEF JackpotMark, PcTypes, JackpotTypes
      <3>2. jackpotBets' = [jackpotBets EXCEPT ![pc[h].bet] = [jackpotBets[pc[h].bet] EXCEPT !.isWinner = TRUE]]
            /\ UNCHANGED <<jackpotResults, timesPaid>>
            /\ pc'[h] = [at |-> "jpay", left |-> pc[h].left, fruit |-> pc[h].fruit]
        BY <2>5, StepsMove DEF JackpotMark
      <3>3. MarkedHold'
        <4>1. Sees(pc[h]) /\ pc[h].at = "jmark"
          BY <2>3, <2>5 DEF JackpotMark
        <4>2. \A n \in DOMAIN jackpotBets : n # pc[h].bet => jackpotBets'[n] = jackpotBets[n]
          BY <3>2
        <4>3. DOMAIN jackpotBets' = DOMAIN jackpotBets
          BY <3>2
        <4> QED
          BY <4>1, <4>2, <4>3, <2>1, <3>1, <3>2 DEF MarkedHold
      <3>4. Sees(pc[h])'
        <4>1. Sees(pc[h]) /\ pc[h].at = "jmark" /\ pc[h].left \subseteq DOMAIN jackpotBets
          BY <2>3, <2>5 DEF JackpotMark, JackpotTypes
        <4> QED
          BY <4>1, <2>1, <3>2
      <3> QED
        BY <2>2, <2>4, <3>3, <3>4 DEF JobsSeeDraws
    <2>6. CASE JackpotPay(h)
      <3>1. pc[h] \in JPay /\ pc[h].left \subseteq DOMAIN jackpotBets /\ Sees(pc[h])
        BY <2>6, <2>3, JobsByTag DEF JackpotPay, PcTypes, JackpotTypes
      <3>2. PICK n \in pc[h].left :
              /\ timesPaid' = [timesPaid EXCEPT ![n] = @ + 1]
              /\ pc'[h] = [at |-> "jmark", bet |-> n, left |-> pc[h].left \ {n}, fruit |-> pc[h].fruit]
        BY <2>6 DEF JackpotPay, Goto, PcTypes
      <3>3. UNCHANGED <<jackpotBets, jackpotResults>> /\ timesPaid'[n] > 0
        BY <1>1, <2>6, <3>1, <3>2 DEF JackpotPay
      <3>4. MarkedHold'
        BY <1>1, <2>1, <3>3 DEF MarkedHold
      <3>5. Sees(pc[h])'
        BY <2>6, <3>1, <3>2, <3>3 DEF JackpotPay
      <3> QED
        BY <2>2, <2>4, <3>4, <3>5 DEF JobsSeeDraws
    <2>7. CASE JackpotFile(h)
      <3>1. /\ jackpotBets' = Append(jackpotBets,
                 [user |-> pc[h].user, round |-> JackpotRound(pc[h].since), choice |-> pc[h].choice,
                  amount |-> pc[h].gold, isWinner |-> FALSE])
            /\ timesPaid' = Append(timesPaid, 0)
            /\ UNCHANGED jackpotResults
        BY <2>7 DEF JackpotFile
      <3>2. /\ Len(jackpotBets) \in Nat /\ DOMAIN jackpotBets = 1..Len(jackpotBets)
            /\ DOMAIN jackpotBets' = 1..(Len(jackpotBets) + 1)
            /\ \A n \in 1..Len(jackpotBets) : jackpotBets'[n] = jackpotBets[n] /\ timesPaid'[n] = timesPaid[n]
            /\ jackpotBets'[Len(jackpotBets) + 1].isWinner = FALSE
        BY <3>1 DEF JackpotTypes
      <3>3. MarkedHold'
        <4>1. ASSUME NEW n \in DOMAIN jackpotBets', jackpotBets'[n].isWinner
              PROVE  timesPaid'[n] > 0 /\ Drawn(jackpotResults'[jackpotBets'[n].round], jackpotBets'[n].choice)
          <5>1. n \in DOMAIN jackpotBets
            BY <3>2, <4>1
          <5>2. jackpotBets'[n] = jackpotBets[n] /\ timesPaid'[n] = timesPaid[n]
            BY <3>2, <5>1
          <5> QED
            BY <3>1, <4>1, <5>1, <5>2 DEF MarkedHold
        <4> QED
          BY <4>1 DEF MarkedHold
      <3>4. Sees(pc[h])'
        BY <2>7, JackpotTransitions
      <3> QED
        BY <2>2, <2>4, <3>3, <3>4 DEF JobsSeeDraws
    <2>8. CASE JackpotSaveResult(h)
      <3>1. MarkedHold'
        <4>1. UNCHANGED <<jackpotBets, timesPaid>>
          BY <2>8 DEF JackpotSaveResult
        <4> QED
          BY <1>1, <2>1, <4>1 DEF MarkedHold, JackpotRow
      <3>2. Sees(pc[h])'
        <4>1. pc[h] \in JDraw
          BY <2>8, JobsByTag DEF JackpotSaveResult, PcTypes
        <4>2. PICK f \in Fruits :
                /\ jackpotResults' = [jackpotResults EXCEPT ![pc[h].round] = Append(@, f)]
                /\ pc'[h] = [at |-> "jwinners", round |-> pc[h].round, fruit |-> f]
          BY <2>8, StepsMove DEF JackpotSaveResult
        <4>3. jackpotResults'[pc[h].round] = Append(jackpotResults[pc[h].round], f) /\ jackpotResults[pc[h].round] \in Seq(Fruits)
          BY <4>1, <4>2 DEF JDraw, JackpotTypes
        <4>4. Drawn(jackpotResults'[pc[h].round], f)
          <5>1. LET s == jackpotResults'[pc[h].round] IN Len(s) \in DOMAIN s /\ s[Len(s)] = f
            BY <4>3
          <5> QED
            BY <5>1 DEF Drawn
        <4> QED
          BY <4>2, <4>4
      <3> QED
        BY <2>2, <2>4, <3>1, <3>2 DEF JobsSeeDraws
    <2>9. CASE JackpotFindWinners(h)
      <3>1. pc[h] \in JWinners /\ Sees(pc[h]) /\ UNCHANGED jackpotVars
        BY <2>9, <2>3, JobsByTag DEF JackpotFindWinners, PcTypes
      <3>2. pc'[h] = [at |-> "jpay", left |-> Winning(pc[h].round, pc[h].fruit), fruit |-> pc[h].fruit]
        BY <2>9, StepsMove DEF JackpotFindWinners
      <3>3. Sees(pc[h])'
        BY <2>9, <3>1, <3>2 DEF JackpotFindWinners, Winning, jackpotVars
      <3> QED
        BY <2>2, <2>4, <3>1, <3>3 DEF JobsSeeDraws, MarkedHold, jackpotVars
    <2>10. CASE UNCHANGED jackpotVars /\ pc'[h].at \notin {"jwinners", "jpay", "jmark"}
      BY <2>2, <2>4, <2>10 DEF JobsSeeDraws, MarkedHold, jackpotVars
    <2> QED
      BY <1>2, <2>5, <2>6, <2>7, <2>8, <2>9, <2>10, JackpotTransitions
      DEF JackpotStep, JackpotBet, JackpotFetchBalance, JackpotDebit, ProcessRound, Processed
  <1>3. ASSUME JackpotQuiet
        PROVE  JobsSeeDraws' /\ MarkedHold'
    BY <1>3 DEF JackpotQuiet, jackpotVars, JackpotTags, JobsSeeDraws, MarkedHold, Drawn
  <1> QED
    BY <1>2, <1>3, Quiet

\* The requests that added the coins of t and have not recorded the purchase yet.
Recording(t) == {h \in Slots : pc[h].at = "record" /\ pc[h].tx = t}
EachGranted == \A t \in Transactions : payments[t] + Cardinality(Recording(t)) <= granted[t]

LEMMA GrantsStayAhead ==
  ASSUME Types, EachGranted, [Next]_vars
  PROVE  EachGranted'
  <1> USE DEF Types
  <1>1. SUFFICES ASSUME NEW t \in Transactions
                 PROVE  payments'[t] + Cardinality(Recording(t)') <= granted'[t]
    BY DEF EachGranted
  <1> DEFINE before == Recording(t)
             after == Recording(t)'
  <1>2. /\ IsFiniteSet(before) /\ IsFiniteSet(after)
        /\ Cardinality(before) \in Nat /\ Cardinality(after) \in Nat
        /\ payments[t] \in Nat /\ granted[t] \in Nat
        /\ payments[t] + Cardinality(before) <= granted[t]
    <2>1. before \in SUBSET Slots /\ after \in SUBSET Slots
      BY DEF Recording
    <2>2. IsFiniteSet(before) /\ IsFiniteSet(after)
      BY <2>1, StoreConstants, FS_Subset
    <2> HIDE DEF after
    <2> QED
      BY <2>2, FS_CardinalityType DEF CoinTypes, EachGranted
  <1>3. ASSUME after \subseteq before, payments' = payments, granted' = granted
        PROVE  payments'[t] + Cardinality(after) <= granted'[t]
    <2> HIDE DEF before, after
    <2>1. Cardinality(after) <= Cardinality(before)
      BY <1>2, <1>3, FS_Subset
    <2> QED
      BY <1>2, <1>3, <2>1
  <1>4. ASSUME NEW h \in Slots, CoinStep(h)
        PROVE  payments'[t] + Cardinality(after) <= granted'[t]
    <2>1. Moves(h) /\ \A k \in Slots : k # h => pc'[k] = pc[k]
      BY <1>4, CoinTyped DEF Moves, PcTypes
    <2>2. CASE Grant(h)
      <3>1. pc[h] \in CoinJob
        BY <2>2, JobsByTag DEF Grant, PcTypes, CoinTags
      <3>2. /\ pc'[h] = [pc[h] EXCEPT !.at = "record"] /\ payments' = payments
            /\ granted' = [granted EXCEPT ![pc[h].tx] = @ + 1]
        BY <2>2, StepsMove DEF Grant
      <3>3. CASE pc[h].tx = t
        <4>1. after = before \cup {h}
          BY <2>1, <2>2, <3>1, <3>2, <3>3 DEF Recording, CoinJob, Grant
        <4>2. granted'[t] = granted[t] + 1
          BY <3>2, <3>3 DEF CoinTypes
        <4> HIDE DEF before, after
        <4>3. Cardinality(after) <= Cardinality(before) + 1
          BY <1>2, <4>1, FS_AddElement
        <4> QED
          BY <1>2, <3>2, <4>2, <4>3
      <3>4. CASE pc[h].tx # t
        <4>1. after = before /\ granted'[t] = granted[t]
          BY <2>1, <2>2, <3>1, <3>2, <3>4 DEF Recording, CoinJob, CoinTypes, Grant
        <4> QED
          BY <1>2, <3>2, <4>1
      <3> QED
        BY <3>3, <3>4
    <2>3. CASE Record(h)
      <3>1. pc[h].tx \in Transactions /\ pc[h].at = "record"
        BY <2>3, JobsByTag DEF Record, PcTypes, CoinJob, CoinTags
      <3>2. pc'[h] = Idle /\ payments' = [payments EXCEPT ![pc[h].tx] = @ + 1] /\ granted' = granted
        BY <2>3, StepsMove DEF Record
      <3>3. after = before \ {h}
        BY <2>1, <3>2 DEF Recording, Idle
      <3>4. h \in before <=> pc[h].tx = t
        BY <3>1 DEF Recording
      <3>5. payments'[t] = payments[t] + (IF pc[h].tx = t THEN 1 ELSE 0)
        BY <3>1, <3>2 DEF CoinTypes
      <3> HIDE DEF before, after
      <3>6. Cardinality(after) = IF h \in before THEN Cardinality(before) - 1 ELSE Cardinality(before)
        BY <1>2, <3>3, FS_RemoveElement
      <3> QED
        BY <1>2, <3>2, <3>4, <3>5, <3>6
    <2>4. CASE ~ Grant(h) /\ ~ Record(h)
      <3>1. payments' = payments /\ granted' = granted
        BY <1>4, <2>4 DEF CoinStep, Authenticate, PutUser, CheckDuplicate, Verify, coinVars
      <3>2. pc'[h].at # "record"
        <4>1. \A x \in Transactions : Authenticate(h, x) => pc'[h].at \in {"keep", "check"}
          BY StepsMove DEF Authenticate
        <4>4. PutUser(h) => pc'[h].at = "check"
          BY StepsMove, JobsByTag DEF PutUser, CoinJob, CoinTags, PcTypes
        <4>2. CheckDuplicate(h) => pc'[h].at \in {"idle", "verify"}
          BY StepsMove, JobsByTag DEF CheckDuplicate, CoinJob, CoinTags, PcTypes, Idle
        <4>3. Verify(h) => pc'[h].at \in {"idle", "grant"}
          BY StepsMove, JobsByTag DEF Verify, CoinJob, CoinTags, PcTypes, Idle
        <4> QED
          BY <1>4, <2>4, <4>1, <4>2, <4>3, <4>4 DEF CoinStep
      <3>3. after \subseteq before
        BY <2>1, <3>2 DEF Recording
      <3> QED
        BY <1>3, <3>1, <3>3
    <2> QED
      BY <2>2, <2>3, <2>4
  <1>5. ASSUME UNCHANGED <<payments, granted>>, \A h \in Slots : pc'[h] = pc[h] \/ pc'[h].at # "record"
        PROVE  payments'[t] + Cardinality(after) <= granted'[t]
    <2>1. after \subseteq before
      BY <1>5 DEF Recording
    <2> QED
      BY <1>3, <1>5, <2>1
  <1>6. \A j \in {Idle} \cup WheelJob \cup JackpotJob \cup FollowJob : j.at # "record"
    BY DEF Idle, WheelJob, Bet, FiledBet, Draw, Winners, Pay, Reset, JackpotJob, JBet, JDraw, JWinners, JPay, JMark,
           FollowJob
  <1>7. ASSUME NEW h \in Slots, WheelStep(h) \/ JackpotStep(h) \/ FollowStep(h), UNCHANGED coinVars
        PROVE  payments'[t] + Cardinality(after) <= granted'[t]
    <2>1. Moves(h) /\ pc'[h].at # "record"
      BY <1>6, <1>7, WheelTyped, JackpotTyped, FollowTyped
    <2> QED
      BY <1>5, <1>7, <2>1 DEF coinVars, Moves, PcTypes
  <1>8. ASSUME Background
        PROVE  payments'[t] + Cardinality(after) <= granted'[t]
    BY <1>5, <1>6, <1>8 DEF Background
  <1> QED
    BY <1>4, <1>7, <1>8, StepKinds

\* A bet marked as a winner was paid for a fruit its round drew, and a recorded purchase was
\* added to the credit, however the rounds and the purchases interleave and wherever they
\* are cut short.
THEOREM MarkersHold == Spec => []MarkersAreTrue
  <1> DEFINE Inv == Types /\ JobsSeeDraws /\ MarkedHold /\ EachGranted
  <1>1. Init => Inv
    <2> SUFFICES ASSUME Init PROVE Inv
      OBVIOUS
    <2>1. \A h \in Slots : pc[h].at = "idle"
      BY DEF Init, StoreInit, Idle
    <2>2. JobsSeeDraws /\ MarkedHold
      BY <2>1 DEF Init, JackpotInit, JobsSeeDraws, MarkedHold
    <2>3. \A t \in Transactions : Recording(t) = {}
      BY <2>1 DEF Recording
    <2>4. EachGranted
      BY <2>3, FS_EmptySet DEF Init, CoinInit, EachGranted
    <2> QED
      BY <2>2, <2>4, InitTyped
  <1>2. Inv /\ [Next]_vars => Inv'
    BY StepTyped, MarksStayTrue, GrantsStayAhead
  <1>3. Inv => MarkersAreTrue
    <2> SUFFICES ASSUME Inv PROVE MarkersAreTrue
      OBVIOUS
    <2>1. MarkedArePaid
      BY DEF MarkedArePaid, MarkedHold, Drawn
    <2>2. ASSUME NEW t \in Transactions
          PROVE  payments[t] <= granted[t]
      <3>1. Recording(t) \in SUBSET Slots
        BY DEF Recording
      <3>2. Cardinality(Recording(t)) \in Nat
        BY <3>1, StoreConstants, FS_Subset, FS_CardinalityType
      <3> QED
        BY <3>2 DEF EachGranted, Types, CoinTypes
    <2> QED
      BY <2>1, <2>2 DEF MarkersAreTrue, RecordedWasGranted
  <1> QED
    BY <1>1, <1>2, <1>3, PTL DEF Spec

-----------------------------------------------------------------------------
\* A request that began alone has had nobody about its pair beside it since, and past its
\* first save the author's array is as it left it.
AloneHold ==
  \A h \in alone : pc[h].at \in FollowTags =>
    /\ \A k \in Slots : pc[k].at \in FollowTags /\ pc[k].pair = pc[h].pair => k = h
    /\ pc[h].at = "receiver" => (pc[h].pair \in following <=> pc[h].op = "follow")

LEMMA AloneStays ==
  ASSUME Types, AloneHold, [Next]_vars
  PROVE  AloneHold'
  <1> USE DEF Types
  <1>1. ASSUME NEW h \in Slots, FollowStep(h)
        PROVE  AloneHold'
    <2>1. Moves(h) /\ \A k \in Slots : k # h => pc'[k] = pc[k]
      BY <1>1, FollowTyped DEF Moves, PcTypes
    <2>2. ASSUME NEW o \in {"follow", "unfollow"}, NEW p \in Pairs, BeginFollow(h, o, p)
          PROVE  AloneHold'
      <3>1. /\ pc'[h] = [at |-> "author", op |-> o, pair |-> p]
            /\ following' = following
            /\ alone' = (alone \ (About(p) \cup {h})) \cup (IF About(p) = {} THEN {h} ELSE {})
        BY <2>2, StepsMove DEF BeginFollow
      <3>2. \A k \in alone' : k # h => k \in alone /\ k \in Slots /\ k \notin About(p)
        BY <3>1 DEF FollowTypes
      <3>3. h \in alone' => About(p) = {}
        BY <3>1
      <3> QED
        BY <2>1, <3>1, <3>2, <3>3 DEF AloneHold, About, FollowTags
    <2>3. CASE SaveAuthor(h)
      <3>1. pc[h] \in FollowJob
        BY <2>3, JobsByTag DEF SaveAuthor, PcTypes, FollowTags
      <3>2. /\ pc'[h] = [pc[h] EXCEPT !.at = "receiver"] /\ pc[h].at = "author"
            /\ following' = Saved(following, pc[h]) /\ alone' = alone
        BY <2>3, StepsMove DEF SaveAuthor
      <3>3. pc'[h].at = "receiver" /\ pc'[h].pair = pc[h].pair /\ pc'[h].op = pc[h].op
        BY <3>1, <3>2 DEF FollowJob
      <3>4. \A k \in alone : k \in Slots
        BY DEF FollowTypes
      <3>5. pc'[h].pair \in following' <=> pc'[h].op = "follow"
        BY <3>1, <3>2, <3>3 DEF Saved, FollowJob
      <3>6. ASSUME NEW k \in alone, k # h, pc[k].at \in FollowTags
            PROVE  pc[k].pair # pc[h].pair /\ (pc[k].pair \in following' <=> pc[k].pair \in following)
        <4>1. pc[k].pair # pc[h].pair
          BY <3>2, <3>6 DEF AloneHold, FollowTags
        <4> QED
          BY <4>1, <3>2 DEF Saved
      <3>7. \A k \in Slots :
              /\ pc'[k].at \in FollowTags <=> pc[k].at \in FollowTags
              /\ pc'[k].pair = pc[k].pair
              /\ k # h => pc'[k] = pc[k]
        BY <2>1, <3>2, <3>3 DEF FollowTags
      <3>8. ASSUME NEW k \in alone', pc'[k].at \in FollowTags
            PROVE  /\ \A l \in Slots : pc'[l].at \in FollowTags /\ pc'[l].pair = pc'[k].pair => l = k
                   /\ pc'[k].at = "receiver" => (pc'[k].pair \in following' <=> pc'[k].op = "follow")
        <4>1. k \in alone /\ k \in Slots /\ pc[k].at \in FollowTags
          BY <3>2, <3>4, <3>7, <3>8
        <4>2. \A l \in Slots : pc[l].at \in FollowTags /\ pc[l].pair = pc[k].pair => l = k
          BY <4>1 DEF AloneHold
        <4>3. \A l \in Slots : pc'[l].at \in FollowTags /\ pc'[l].pair = pc'[k].pair => l = k
          BY <4>1, <4>2, <3>7
        <4>4. CASE k # h
          BY <4>1, <4>3, <4>4, <3>6, <3>7 DEF AloneHold
        <4>5. CASE k = h
          BY <4>3, <4>5, <3>5
        <4> QED
          BY <4>4, <4>5
      <3> QED
        BY <3>8 DEF AloneHold
    <2>4. CASE SaveReceiver(h)
      <3>1. pc'[h] = Idle /\ following' = following /\ alone' = alone
        BY <2>4, StepsMove DEF SaveReceiver
      <3> QED
        BY <2>1, <3>1 DEF AloneHold, FollowTags, Idle, FollowTypes
    <2>5. ASSUME NEW p \in Pairs, FollowUser(h, p[1], p[2]) \/ UnfollowUser(h, p[1], p[2])
          PROVE  \E o \in {"follow", "unfollow"} : BeginFollow(h, o, p)
      <3>1. p = <<p[1], p[2]>>
        BY FollowConstants
      <3> QED
        BY <2>5, <3>1 DEF FollowUser, UnfollowUser
    <2> QED
      BY <1>1, <2>2, <2>3, <2>4, <2>5 DEF FollowStep
  <1>2. ASSUME UNCHANGED followVars, \A h \in Slots : pc'[h] = pc[h] \/ pc'[h].at \notin FollowTags
        PROVE  AloneHold'
    BY <1>2 DEF followVars, AloneHold, FollowTags, FollowTypes
  <1>3. \A j \in {Idle} \cup WheelJob \cup JackpotJob \cup CoinJob : j.at \notin FollowTags
    BY DEF Idle, WheelJob, Bet, FiledBet, Draw, Winners, Pay, Reset, JackpotJob, JBet, JDraw, JWinners, JPay, JMark,
           CoinJob, FollowTags
  <1>4. ASSUME NEW h \in Slots, WheelStep(h) \/ JackpotStep(h) \/ CoinStep(h), UNCHANGED followVars
        PROVE  AloneHold'
    <2>1. Moves(h) /\ pc'[h].at \notin FollowTags
      BY <1>3, <1>4, WheelTyped, JackpotTyped, CoinTyped
    <2> QED
      BY <1>2, <1>4, <2>1 DEF Moves, PcTypes
  <1>5. ASSUME Background
        PROVE  AloneHold'
    BY <1>2, <1>3, <1>5 DEF Background
  <1> QED
    BY <1>1, <1>4, <1>5, StepKinds

\* Whatever failures and races left of a pair of users, a follow or unfollow of it that got
\* through with no other beside it leaves the two arrays in agreement.
THEOREM RetriesHeal == Spec => RetryHeals
  <1> DEFINE Inv == Types /\ AloneHold
             Heals ==
               \A h \in Slots :
                 SaveReceiver(h) /\ h \in alone => (pc[h].pair \in following' <=> pc[h].pair \in followers')
  <1>1. Init => Inv
    BY InitTyped DEF Init, FollowInit, AloneHold
  <1>2. Inv /\ [Next]_vars => Inv'
    BY StepTyped, AloneStays
  <1>3. Inv => [Heals]_shared
    BY DEF AloneHold, SaveReceiver, Saved, FollowTags
  <1>4. RetryHeals <=> [][Heals]_shared
    BY DEF RetryHeals
  <1> QED
    BY <1>1, <1>2, <1>3, <1>4, PTL DEF Spec

-----------------------------------------------------------------------------
\* With betting closed c seconds before the end of a round of d, one taken at s and filed
\* less than c seconds later is filed in its round.
LEMMA InTime ==
  ASSUME NEW s \in Nat, NEW n \in Nat, NEW d \in Nat \ {0}, NEW c \in 0..d,
         s % d <= d - c, n < s + c
  PROVE  n \div d <= s \div d
  <1>1. s = d * (s \div d) + (s % d) /\ s \div d \in Nat /\ s % d \in Nat
    <2>1. s = d * (s \div d) + (s % d)
      OBVIOUS
    <2>2. s \div d \in Nat
      OBVIOUS
    <2>3. s % d \in Nat
      OBVIOUS
    <2> QED
      BY <2>1, <2>2, <2>3
  <1>2. n < d * (s \div d + 1)
    <2> DEFINE q == s \div d
    <2>1. d * (q + 1) = d * q + d
      BY <1>1
    <2> QED
      BY <1>1, <2>1
  <1>3. ASSUME NEW q \in Nat, n < d * (q + 1)
        PROVE  n \div d <= q
    BY <1>3
  <1> QED
    BY <1>1, <1>2, <1>3

\* A round has a result only when the clock has left it, and a bet on its way was taken
\* while betting was open.
RoundsAreOver ==
  /\ \A r \in JackpotRounds : jackpotResults[r] # <<>> => r < JackpotRound(now)
  /\ \A h \in Slots :
       /\ pc[h].at = "jdraw" => pc[h].round < JackpotRound(now)
       /\ pc[h].at \in {"jfetch", "jdebit", "jfile"} => pc[h].since <= now /\ BettingOpen(pc[h].since)

LEMMA RoundsStayOver ==
  ASSUME Types, RoundsAreOver, [Next]_vars
  PROVE  RoundsAreOver'
  <1> USE DEF Types
  <1>1. now \in Nat /\ JackpotDuration \in Nat \ {0}
    BY StoreConstants, JackpotConstants DEF StoreTypes
  <1>2. ASSUME NEW h \in Slots, JackpotStep(h)
        PROVE  RoundsAreOver'
    <2>1. Moves(h) /\ now' = now /\ \A k \in Slots : k # h => pc'[k] = pc[k]
      BY <1>2, JackpotTyped DEF Moves, PcTypes
    <2>2. CASE JackpotSaveResult(h)
      <3>1. pc[h] \in JDraw /\ pc[h].round < JackpotRound(now)
        BY <2>2, JobsByTag DEF JackpotSaveResult, PcTypes, RoundsAreOver
      <3>2. jackpotResults' = [jackpotResults EXCEPT ![pc[h].round] = jackpotResults'[pc[h].round]] /\ pc'[h].at = "jwinners"
        BY <2>2, <3>1, JackpotTransitions DEF JackpotSaveResult, JackpotTypes, JDraw
      <3> QED
        BY <2>1, <3>1, <3>2 DEF RoundsAreOver, JackpotTypes
    <2>3. CASE ProcessRound(h)
      <3>1. pc'[h].at = "jdraw" /\ pc'[h].round = JackpotRound(now) - 1 /\ UNCHANGED jackpotVars
        BY <2>3, StepsMove DEF ProcessRound
      <3>2. JackpotRound(now) \in Nat
        BY <1>1 DEF JackpotRound
      <3> QED
        BY <2>1, <3>1, <3>2 DEF RoundsAreOver, jackpotVars
    <2>4. ASSUME NEW u \in Users, NEW f \in Fruits, NEW g \in Gold, JackpotBet(h, u, f, g)
          PROVE  RoundsAreOver'
      <3>1. pc'[h].at = "jfetch" /\ pc'[h].since = now /\ BettingOpen(now) /\ UNCHANGED jackpotVars
        BY <2>4, StepsMove DEF JackpotBet
      <3> QED
        BY <1>1, <2>1, <3>1 DEF RoundsAreOver, jackpotVars
    <2>5. CASE JackpotFetchBalance(h) \/ JackpotDebit(h)
      <3>1. pc[h] \in JBet
        BY <2>5, JobsByTag DEF JackpotFetchBalance, JackpotDebit, PcTypes
      <3>2. ASSUME JackpotFetchBalance(h)
            PROVE  pc'[h].at = "idle" \/ (pc'[h].at = "jdebit" /\ pc'[h].since = pc[h].since)
        BY <3>1, <3>2, StepsMove DEF JackpotFetchBalance, JBet, Idle
      <3>3. ASSUME JackpotDebit(h)
            PROVE  pc'[h].at = "jfile" /\ pc'[h].since = pc[h].since
        BY <3>1, <3>3, StepsMove DEF JackpotDebit, JBet
      <3>4. pc[h].since <= now /\ BettingOpen(pc[h].since)
        BY <3>1 DEF RoundsAreOver, JBet
      <3>5. UNCHANGED jackpotVars
        BY <2>5 DEF JackpotFetchBalance, JackpotDebit
      <3> QED
        BY <2>1, <2>5, <3>2, <3>3, <3>4, <3>5 DEF RoundsAreOver, jackpotVars
    <2>6. CASE jackpotResults' = jackpotResults /\ pc'[h].at \in {"idle", "jpay", "jmark"}
      BY <2>1, <2>6 DEF RoundsAreOver
    <2> QED
      BY <1>2, <2>2, <2>3, <2>4, <2>5, <2>6, JackpotTransitions
      DEF JackpotStep, JackpotFile, JackpotFindWinners, JackpotPay, JackpotMark, Processed, jackpotVars
  <1>3. ASSUME JackpotQuiet
        PROVE  RoundsAreOver'
    <2>1. now' \in Nat /\ now <= now' /\ JackpotRound(now) <= JackpotRound(now') /\ JackpotRound(now') \in Nat /\ JackpotRound(now) \in Nat
      <3>1. now \in Nat /\ now' \in Nat /\ now <= now'
        BY <1>1, <1>3, StoreConstants DEF JackpotQuiet
      <3>2. JackpotDuration \in Nat \ {0}
        BY JackpotConstants
      <3> QED
        BY <3>1, <3>2, RoundsGoOn, Zenon DEF JackpotRound
    <2>2. \A r \in JackpotRounds : r \in Int
      BY DEF JackpotRounds
    <2>3. \A h \in Slots : /\ pc[h].at = "jdraw" => pc[h].round \in Int
                           /\ pc[h].at \in {"jfetch", "jdebit", "jfile"} => pc[h].since \in Int
      BY <2>2, JobsByTag DEF PcTypes, JDraw, JBet
    <2>4. \A r \in JackpotRounds : jackpotResults'[r] # <<>> => r < JackpotRound(now')
      BY <1>3, <2>1, <2>2 DEF JackpotQuiet, jackpotVars, RoundsAreOver
    <2>5. ASSUME NEW h \in Slots, pc'[h] = pc[h]
          PROVE  /\ pc'[h].at = "jdraw" => pc'[h].round < JackpotRound(now')
                 /\ pc'[h].at \in {"jfetch", "jdebit", "jfile"} => pc'[h].since <= now' /\ BettingOpen(pc'[h].since)
      BY <1>1, <2>1, <2>3, <2>5 DEF RoundsAreOver
    <2>6. ASSUME NEW h \in Slots, pc'[h].at \notin JackpotTags
          PROVE  pc'[h].at \notin {"jdraw", "jfetch", "jdebit", "jfile"}
      BY <2>6 DEF JackpotTags
    <2> QED
      BY <1>3, <2>4, <2>5, <2>6 DEF JackpotQuiet, RoundsAreOver
  <1> QED
    BY <1>2, <1>3, Quiet

\* The seconds between the end of betting and the end of the round are enough: a bet filed
\* within them finds its round without a result.
THEOREM TimelyBetsCount == Spec => TimelyBetCounts
  <1> DEFINE Inv == Types /\ RoundsAreOver
             Counts ==
               \A h \in Slots :
                 JackpotFile(h) /\ now < pc[h].since + Closing =>
                   jackpotResults[JackpotRound(pc[h].since)] = <<>>
  <1>1. Init => Inv
    <2> SUFFICES ASSUME Init PROVE Inv
      OBVIOUS
    <2>1. \A h \in Slots : pc[h].at = "idle"
      BY DEF Init, StoreInit, Idle
    <2> QED
      BY <2>1, InitTyped DEF Init, JackpotInit, RoundsAreOver
  <1>2. Inv /\ [Next]_vars => Inv'
    BY StepTyped, RoundsStayOver
  <1>3. Inv => [Counts]_shared
    <2> SUFFICES ASSUME Inv, NEW h \in Slots, JackpotFile(h), now < pc[h].since + Closing
                 PROVE  jackpotResults[JackpotRound(pc[h].since)] = <<>>
      OBVIOUS
    <2> DEFINE s == pc[h].since
    <2>1. pc[h] \in JBet /\ BettingOpen(s)
      BY JobsByTag DEF JackpotFile, Types, PcTypes, RoundsAreOver
    <2>2. s \in 0..MaxNow /\ now \in 0..MaxNow
      BY <2>1 DEF JBet, Types, StoreTypes
    <2>3. s \in Nat /\ now \in Nat /\ s % JackpotDuration <= JackpotDuration - Closing
      BY <2>1, <2>2, StoreConstants DEF BettingOpen
    <2>4. JackpotRound(now) <= JackpotRound(s)
      BY <2>3, JackpotConstants, InTime DEF JackpotRound
    <2>5. JackpotRound(s) \in JackpotRounds /\ JackpotRound(now) \in JackpotRounds
      BY <2>2, RoundTypes
    <2> QED
      BY <2>4, <2>5 DEF RoundsAreOver, JackpotRounds
  <1>4. TimelyBetCounts <=> [][Counts]_shared
    BY DEF TimelyBetCounts
  <1> QED
    BY <1>1, <1>2, <1>3, <1>4, PTL DEF Spec
=============================================================================
