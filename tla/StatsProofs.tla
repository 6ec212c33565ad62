------------------------------ MODULE StatsProofs ------------------------------
(***************************************************************************)
(* Theorems about Stats, for every set of orders, cleaners, properties and *)
(* statuses, all prices above and below 0, and any number of changes       *)
(* during a report.                                                        *)
(*                                                                         *)
(* Its reports add numbers up, so the first part is about the sums of the  *)
(* library: each is a recursive function over the subsets of a set, and    *)
(* what it returns follows by induction on finite sets.                    *)
(***************************************************************************)
EXTENDS Stats, FiniteSetTheorems, TLAPS

------------------------------------------------------------------------------
(* Sums over finite sets                                                   *)

\* A set of sets that has every set all of whose proper subsets it has, has all
\* finite ones.
LEMMA SetInduction ==
  ASSUME NEW S, IsFiniteSet(S), NEW Good,
         \A T \in SUBSET S : (\A U \in SUBSET T : U # T => U \in Good) => T \in Good
  PROVE  S \in Good
  <1> SUFFICES ASSUME S \notin Good PROVE FALSE
    OBVIOUS
  <1> DEFINE Bad == {T \in SUBSET S : T \notin Good}
  <1>1. Bad \subseteq FiniteSubsetsOf(S) /\ Bad # {}
    BY FS_FiniteSubsetsOfFinite
  <1>2. IsWellFoundedOn(StrictSubsetOrdering(S), FiniteSubsetsOf(S))
    BY FS_StrictSubsetOrderingWellFounded
  <1> HIDE DEF Bad
  <1>3. PICK T \in Bad : \A U \in Bad : <<U, T>> \notin StrictSubsetOrdering(S)
    BY <1>1, <1>2, WFMin
  <1> USE DEF Bad
  <1>4. \A U \in SUBSET T : U # T => U \in Good
    BY <1>3 DEF StrictSubsetOrdering
  <1> QED
    BY <1>3, <1>4

\* What a sum of the library takes out of a set first.
Pick(s) == CHOOSE x \in s : TRUE

\* g has the sum of f over each subset of S.
Sums(g, f, S) ==
    g = [s \in SUBSET S |-> IF s = {} THEN 0 ELSE f[Pick(s)] + g[s \ {Pick(s)}]]

SumOver(f, S) == (CHOOSE g : Sums(g, f, S))[S]

\* The sum of the library is one of these sums.
LEMMA SumIs == ASSUME NEW f PROVE SumFunction(f) = SumOver(f, DOMAIN f)
  BY DEF SumFunction, SumFunctionOnSet, FoldFunctionOnSet, MapThenFoldSet, SumOver, Sums, Pick

\* What is taken out of a set was in it.
LEMMA PickIn == ASSUME NEW s, s # {} PROVE Pick(s) \in s
  BY DEF Pick

\* Two such functions agree on the subsets that both have.
LEMMA SumsUnique ==
  ASSUME NEW f, NEW S, NEW g, Sums(g, f, S), NEW T, NEW h, Sums(h, f, T),
         NEW s \in SUBSET S, s \in SUBSET T, IsFiniteSet(s)
  PROVE  g[s] = h[s]
  <1> DEFINE Good == {u \in SUBSET s : g[u] = h[u]}
  <1>1. ASSUME NEW u \in SUBSET s, \A v \in SUBSET u : v # u => v \in Good
        PROVE  u \in Good
    <2>1. /\ g[u] = IF u = {} THEN 0 ELSE f[Pick(u)] + g[u \ {Pick(u)}]
          /\ h[u] = IF u = {} THEN 0 ELSE f[Pick(u)] + h[u \ {Pick(u)}]
      BY DEF Sums
    <2>2. u # {} => u \ {Pick(u)} \in Good
      BY <1>1, PickIn
    <2> QED
      BY <2>1, <2>2
  <1> HIDE DEF Good
  <1>2. s \in Good
    BY <1>1, SetInduction
  <1> QED
    BY <1>2 DEF Good

\* There is one.
LEMMA SumsExist ==
  ASSUME NEW f, NEW S, IsFiniteSet(S)
  PROVE  \E g : Sums(g, f, S)
  <1> DEFINE Good == {T \in SUBSET S : \E g : Sums(g, f, T)}
  <1>1. ASSUME NEW T \in SUBSET S, \A U \in SUBSET T : U # T => U \in Good
        PROVE  T \in Good
    <2> DEFINE best(U) == CHOOSE g : Sums(g, f, U)
               new == [s \in SUBSET T |->
                         IF s = {} THEN 0 ELSE f[Pick(s)] + best(s \ {Pick(s)})[s \ {Pick(s)}]]
    <2>1. \A U \in SUBSET T : U # T => Sums(best(U), f, U)
      BY <1>1
    <2> HIDE DEF best
    <2>2. ASSUME NEW s \in SUBSET T, s # T
          PROVE  new[s] = best(s)[s]
      <3>1. Sums(best(s), f, s)
        BY <2>1, <2>2
      <3>2. best(s)[s] = IF s = {} THEN 0 ELSE f[Pick(s)] + best(s)[s \ {Pick(s)}]
        BY <3>1 DEF Sums
      <3>3. CASE s = {}
        BY <3>2, <3>3
      <3>4. CASE s # {}
        <4> DEFINE r == s \ {Pick(s)}
        <4>1. r \in SUBSET s /\ r # T /\ r \in SUBSET T
          BY <2>2, <3>4, PickIn
        <4>2. Sums(best(r), f, r) /\ IsFiniteSet(r) /\ r \in SUBSET r
          BY <2>1, <4>1, FS_Subset
        <4> HIDE DEF r
        <4>3. best(s)[r] = best(r)[r]
          BY <3>1, <4>1, <4>2, SumsUnique
        <4> QED
          BY <3>2, <3>4, <4>3 DEF r
      <3> QED
        BY <3>3, <3>4
    <2>3. \A s \in SUBSET T : s # {} => new[s \ {Pick(s)}] = best(s \ {Pick(s)})[s \ {Pick(s)}]
      <3> SUFFICES ASSUME NEW s \in SUBSET T, s # {}
                   PROVE  new[s \ {Pick(s)}] = best(s \ {Pick(s)})[s \ {Pick(s)}]
        OBVIOUS
      <3>1. s \ {Pick(s)} \in SUBSET T /\ s \ {Pick(s)} # T
        BY PickIn
      <3> HIDE DEF new
      <3> QED
        BY <2>2, <3>1
    <2>4. new = [s \in SUBSET T |-> IF s = {} THEN 0 ELSE f[Pick(s)] + new[s \ {Pick(s)}]]
      <3>1. \A s \in SUBSET T : new[s] = IF s = {} THEN 0 ELSE f[Pick(s)] + new[s \ {Pick(s)}]
        BY <2>3
      <3>2. new = [s \in SUBSET T |-> new[s]]
        OBVIOUS
      <3> HIDE DEF new
      <3> QED
        BY <3>1, <3>2
    <2>5. Sums(new, f, T)
      <3> HIDE DEF new
      <3> QED
        BY <2>4 DEF Sums
    <2> HIDE DEF new
    <2> QED
      BY <2>5
  <1> HIDE DEF Good
  <1>2. S \in Good
    BY <1>1, SetInduction
  <1> QED
    BY <1>2 DEF Good

\* A sum is the first number and the sum of the rest.
LEMMA SumStep ==
  ASSUME NEW f, NEW S, IsFiniteSet(S)
  PROVE  /\ S = {} => SumOver(f, S) = 0
         /\ S # {} => SumOver(f, S) = f[Pick(S)] + SumOver(f, S \ {Pick(S)})
  <1> DEFINE best(U) == CHOOSE g : Sums(g, f, U)
             R == S \ {Pick(S)}
  <1>1. IsFiniteSet(R)
    BY FS_RemoveElement
  <1>2. Sums(best(S), f, S) /\ Sums(best(R), f, R)
    BY <1>1, SumsExist
  <1>3. SumOver(f, S) = best(S)[S] /\ SumOver(f, R) = best(R)[R]
    BY DEF SumOver
  <1> HIDE DEF best
  <1>4. best(S)[S] = IF S = {} THEN 0 ELSE f[Pick(S)] + best(S)[R]
    BY <1>2 DEF Sums
  <1> HIDE DEF R
  <1>5. R \in SUBSET S
    BY DEF R
  <1>6. best(S)[R] = best(R)[R]
    BY <1>1, <1>2, <1>5, SumsUnique
  <1> QED
    BY <1>3, <1>4, <1>6 DEF R

\* A sum of integers is an integer, and one of naturals a natural.
LEMMA SumType ==
  ASSUME NEW f, NEW S, IsFiniteSet(S), \A x \in S : f[x] \in Int
  PROVE  /\ SumOver(f, S) \in Int
         /\ (\A x \in S : f[x] \in Nat) => SumOver(f, S) \in Nat
  <1> DEFINE naturals == \A x \in S : f[x] \in Nat
             Good == {T \in SUBSET S :
                        SumOver(f, T) \in Int /\ (naturals => SumOver(f, T) \in Nat)}
  <1>1. ASSUME NEW T \in SUBSET S, \A U \in SUBSET T : U # T => U \in Good
        PROVE  T \in Good
    <2>1. IsFiniteSet(T)
      BY FS_Subset
    <2>2. T # {} => /\ Pick(T) \in S /\ SumOver(f, T \ {Pick(T)}) \in Int
                    /\ naturals => SumOver(f, T \ {Pick(T)}) \in Nat
      BY <1>1, PickIn
    <2>3. T # {} => f[Pick(T)] \in Int /\ (naturals => f[Pick(T)] \in Nat)
      BY <2>2
    <2> HIDE DEF naturals
    <2>4. T = {} => SumOver(f, T) = 0
      BY <2>1, SumStep
    <2>5. T # {} => SumOver(f, T) = f[Pick(T)] + SumOver(f, T \ {Pick(T)})
      BY <2>1, SumStep
    <2>6. SumOver(f, T) \in Int /\ (naturals => SumOver(f, T) \in Nat)
      BY <2>2, <2>3, <2>4, <2>5
    <2> QED
      BY <2>6
  <1> HIDE DEF Good
  <1>2. S \in Good
    BY <1>1, SetInduction
  <1> QED
    BY <1>2 DEF Good

\* It depends on the numbers of the set only.
LEMMA SumSame ==
  ASSUME NEW f, NEW g, NEW S, IsFiniteSet(S), \A x \in S : f[x] = g[x]
  PROVE  SumOver(f, S) = SumOver(g, S)
  <1> DEFINE Good == {T \in SUBSET S : SumOver(f, T) = SumOver(g, T)}
  <1>1. ASSUME NEW T \in SUBSET S, \A U \in SUBSET T : U # T => U \in Good
        PROVE  T \in Good
    <2>1. IsFiniteSet(T)
      BY FS_Subset
    <2>2. T # {} => /\ f[Pick(T)] = g[Pick(T)]
                    /\ SumOver(f, T \ {Pick(T)}) = SumOver(g, T \ {Pick(T)})
      BY <1>1, PickIn
    <2>3. SumOver(f, T) = SumOver(g, T)
      BY <2>1, <2>2, SumStep
    <2> QED
      BY <2>3
  <1> HIDE DEF Good
  <1>2. S \in Good
    BY <1>1, SetInduction
  <1> QED
    BY <1>2 DEF Good

\* Any number may be taken out of it first.
LEMMA SumRemove ==
  ASSUME NEW f, NEW S, IsFiniteSet(S), \A x \in S : f[x] \in Int, NEW x \in S
  PROVE  SumOver(f, S) = f[x] + SumOver(f, S \ {x})
  <1> DEFINE Good == {T \in SUBSET S :
                        \A y \in T : SumOver(f, T) = f[y] + SumOver(f, T \ {y})}
  <1>1. ASSUME NEW T \in SUBSET S, \A U \in SUBSET T : U # T => U \in Good
        PROVE  T \in Good
    <2> SUFFICES ASSUME NEW y \in T
                 PROVE  SumOver(f, T) = f[y] + SumOver(f, T \ {y})
      OBVIOUS
    <2> HIDE DEF Good
    <2>1. IsFiniteSet(T) /\ IsFiniteSet(T \ {y})
      BY FS_Subset
    <2> DEFINE z == Pick(T)
               both == (T \ {y}) \ {z}
    <2>2. z \in T
      BY PickIn
    <2>3. SumOver(f, T) = f[z] + SumOver(f, T \ {z})
      BY <2>1, SumStep
    <2> HIDE DEF z
    <2>4. CASE y = z
      BY <2>3, <2>4
    <2>5. CASE y # z
      <3>1. T \ {z} \in Good /\ T \ {y} \in Good
        BY <1>1, <2>2
      <3>2. y \in T \ {z} /\ z \in T \ {y}
        BY <2>2, <2>5
      <3>3. (T \ {z}) \ {y} = both
        OBVIOUS
      <3> HIDE DEF both
      <3>4. SumOver(f, T \ {z}) = f[y] + SumOver(f, both)
        BY <3>1, <3>2, <3>3 DEF Good
      <3>5. SumOver(f, T \ {y}) = f[z] + SumOver(f, both)
        BY <3>1, <3>2 DEF Good, both
      <3>6. SumOver(f, both) \in Int /\ f[y] \in Int /\ f[z] \in Int
        <4>1. IsFiniteSet(both) /\ both \in SUBSET S
          BY <2>1, FS_Subset DEF both
        <4> QED
          BY <2>2, <4>1, SumType
      <3> QED
        BY <2>3, <3>4, <3>5, <3>6
    <2> QED
      BY <2>4, <2>5
  <1> HIDE DEF Good
  <1>2. S \in Good
    BY <1>1, SetInduction
  <1> QED
    BY <1>2 DEF Good

\* Sums over sets that have nothing in common add up.
LEMMA SumUnion ==
  ASSUME NEW f, NEW S, IsFiniteSet(S), NEW T, IsFiniteSet(T), S \cap T = {},
         \A x \in S \cup T : f[x] \in Int
  PROVE  SumOver(f, S \cup T) = SumOver(f, S) + SumOver(f, T)
  <1> DEFINE Good == {U \in SUBSET S : SumOver(f, U \cup T) = SumOver(f, U) + SumOver(f, T)}
  <1>1. ASSUME NEW U \in SUBSET S, \A V \in SUBSET U : V # U => V \in Good
        PROVE  U \in Good
    <2>1. IsFiniteSet(U) /\ IsFiniteSet(U \cup T)
      BY FS_Subset, FS_Union
    <2>2. CASE U = {}
      <3>1. SumOver(f, U) = 0 /\ SumOver(f, T) \in Int
        BY <2>1, <2>2, SumStep, SumType
      <3>2. SumOver(f, U \cup T) = SumOver(f, T)
        <4>1. U \cup T = T
          BY <2>2
        <4> QED
          BY <4>1
      <3>3. SumOver(f, U \cup T) = SumOver(f, U) + SumOver(f, T)
        BY <3>1, <3>2
      <3> QED
        BY <3>3
    <2>3. CASE U # {}
      <3> DEFINE x == Pick(U)
      <3>1. x \in U
        BY <2>3, PickIn
      <3> HIDE DEF x
      <3>2. SumOver(f, (U \cup T) \ {x}) = SumOver(f, U \ {x}) + SumOver(f, T)
        <4>1. U \ {x} \in Good
          BY <1>1, <3>1
        <4>2. (U \cup T) \ {x} = (U \ {x}) \cup T
          BY <3>1
        <4>3. SumOver(f, (U \cup T) \ {x}) = SumOver(f, (U \ {x}) \cup T)
          BY <4>2
        <4> QED
          BY <4>1, <4>3
      <3>3. /\ SumOver(f, U) = f[x] + SumOver(f, U \ {x})
            /\ SumOver(f, U \cup T) = f[x] + SumOver(f, (U \cup T) \ {x})
        BY <2>1, <3>1, SumRemove
      <3>4. f[x] \in Int /\ SumOver(f, U \ {x}) \in Int /\ SumOver(f, T) \in Int
        <4>1. IsFiniteSet(U \ {x}) /\ U \ {x} \in SUBSET S
          BY <2>1, FS_Subset
        <4> QED
          BY <3>1, <4>1, SumType
      <3>5. SumOver(f, U \cup T) = SumOver(f, U) + SumOver(f, T)
        BY <3>2, <3>3, <3>4
      <3> QED
        BY <3>5
    <2> QED
      BY <2>2, <2>3
  <1> HIDE DEF Good
  <1>2. S \in Good
    BY <1>1, SetInduction
  <1> QED
    BY <1>2 DEF Good

\* A sum is that of a part and that of the rest.
LEMMA SumPart ==
  ASSUME NEW f, NEW S, IsFiniteSet(S), \A x \in S : f[x] \in Int, NEW T \in SUBSET S
  PROVE  /\ SumOver(f, T) \in Int /\ SumOver(f, S \ T) \in Int
         /\ SumOver(f, S) = SumOver(f, T) + SumOver(f, S \ T)
  <1>1. IsFiniteSet(T) /\ IsFiniteSet(S \ T) /\ T \cap (S \ T) = {} /\ T \cup (S \ T) = S
    BY FS_Subset
  <1>2. SumOver(f, T) \in Int /\ SumOver(f, S \ T) \in Int
    BY <1>1, SumType
  <1>3. SumOver(f, S) = SumOver(f, T) + SumOver(f, S \ T)
    BY <1>1, SumUnion
  <1> QED
    BY <1>2, <1>3

\* Numbers from -k to m sum up to at most m for each, and at least -k.
LEMMA SumBound ==
  ASSUME NEW f, NEW S, IsFiniteSet(S), NEW m \in Nat, NEW k \in Nat,
         \A x \in S : f[x] \in Int /\ f[x] <= m /\ -f[x] <= k
  PROVE  SumOver(f, S) <= m * Cardinality(S) /\ -SumOver(f, S) <= k * Cardinality(S)
  <1> DEFINE Good == {T \in SUBSET S : /\ SumOver(f, T) <= m * Cardinality(T)
                                       /\ -SumOver(f, T) <= k * Cardinality(T)}
  <1>1. ASSUME NEW T \in SUBSET S, \A U \in SUBSET T : U # T => U \in Good
        PROVE  T \in Good
    <2>1. IsFiniteSet(T)
      BY FS_Subset
    <2>2. CASE T = {}
      <3>1. SumOver(f, T) = 0 /\ Cardinality(T) = 0
        BY <2>1, <2>2, SumStep, FS_EmptySet
      <3> QED
        BY <3>1
    <2>3. CASE T # {}
      <3> DEFINE x == Pick(T)
                 n == Cardinality(T \ {x})
                 rest == SumOver(f, T \ {x})
      <3>1. x \in T /\ IsFiniteSet(T \ {x})
        BY <2>1, <2>3, PickIn, FS_RemoveElement
      <3>2. SumOver(f, T) = f[x] + rest
        BY <2>1, <2>3, SumStep
      <3> HIDE DEF x
      <3>3. T \ {x} \in Good
        BY <1>1, <3>1
      <3>4. Cardinality(T) \in Nat /\ Cardinality(T) = n + 1 /\ n \in Nat
        BY <2>1, <3>1, FS_RemoveElement, FS_CardinalityType
      <3>5. rest \in Int /\ f[x] \in Int /\ f[x] <= m /\ -f[x] <= k
        BY <3>1, SumType
      <3>6. rest <= m * n /\ -rest <= k * n
        BY <3>3
      <3> HIDE DEF n, rest
      <3>7. m * Cardinality(T) = m * n + m /\ k * Cardinality(T) = k * n + k
        BY <3>4
      <3>8. m * n \in Nat /\ k * n \in Nat
        BY <3>4
      <3>9. SumOver(f, T) <= m * Cardinality(T) /\ -SumOver(f, T) <= k * Cardinality(T)
        BY <3>2, <3>5, <3>6, <3>7, <3>8
      <3> QED
        BY <3>9
    <2> QED
      BY <2>2, <2>3
  <1> HIDE DEF Good
  <1>2. S \in Good
    BY <1>1, SetInduction
  <1> QED
    BY <1>2 DEF Good

\* Counting is a sum of ones.
LEMMA SumOfOnes ==
  ASSUME NEW f, NEW S, IsFiniteSet(S), \A x \in S : f[x] = 1
  PROVE  SumOver(f, S) = Cardinality(S)
  <1> DEFINE Good == {T \in SUBSET S : SumOver(f, T) = Cardinality(T)}
  <1>1. ASSUME NEW T \in SUBSET S, \A U \in SUBSET T : U # T => U \in Good
        PROVE  T \in Good
    <2>1. IsFiniteSet(T)
      BY FS_Subset
    <2>2. CASE T = {}
      <3>1. SumOver(f, T) = 0 /\ Cardinality(T) = 0
        BY <2>1, <2>2, SumStep, FS_EmptySet
      <3> QED
        BY <3>1
    <2>3. CASE T # {}
      <3>1. Pick(T) \in T /\ Cardinality(T) \in Nat
        BY <2>1, <2>3, PickIn, FS_CardinalityType
      <3>2. SumOver(f, T) = 1 + SumOver(f, T \ {Pick(T)})
        BY <2>1, <2>3, <3>1, SumStep
      <3>3. SumOver(f, T \ {Pick(T)}) = Cardinality(T) - 1
        BY <1>1, <2>1, <3>1, FS_RemoveElement
      <3>4. SumOver(f, T) = Cardinality(T)
        BY <3>1, <3>2, <3>3
      <3> QED
        BY <3>4
    <2> QED
      BY <2>2, <2>3
  <1> HIDE DEF Good
  <1>2. S \in Good
    BY <1>1, SetInduction
  <1> QED
    BY <1>2 DEF Good

\* The sums of the groups of a set add up to the sum of the set.
LEMMA SumGroups ==
  ASSUME NEW f, NEW S, IsFiniteSet(S), \A x \in S : f[x] \in Int,
         NEW D, IsFiniteSet(D), NEW group \in [D -> SUBSET S],
         \A d, e \in D : d # e => group[d] \cap group[e] = {},
         NEW g, \A d \in D : g[d] = SumOver(f, group[d])
  PROVE  SumOver(g, D) = SumOver(f, UNION {group[d] : d \in D})
  <1> DEFINE All(E) == UNION {group[d] : d \in E}
             Good == {E \in SUBSET D : SumOver(g, E) = SumOver(f, All(E))}
  <1>1. ASSUME NEW E \in SUBSET D, \A F \in SUBSET E : F # E => F \in Good
        PROVE  E \in Good
    <2>1. IsFiniteSet(E)
      BY FS_Subset
    <2>2. CASE E = {}
      <3>1. All(E) = {} /\ IsFiniteSet(All(E))
        BY <2>2, FS_EmptySet
      <3> HIDE DEF All
      <3>2. SumOver(g, E) = 0 /\ SumOver(f, All(E)) = 0
        BY <2>1, <2>2, <3>1, SumStep
      <3> QED
        BY <3>2
    <2>3. CASE E # {}
      <3> DEFINE d == Pick(E)
                 R == E \ {d}
      <3>1. d \in E
        BY <2>3, PickIn
      <3>2. SumOver(g, E) = g[d] + SumOver(g, R)
        BY <2>1, <2>3, SumStep
      <3> HIDE DEF d
      <3>3. All(E) = group[d] \cup All(R)
        BY <3>1
      <3>4. group[d] \cap All(R) = {}
        BY <3>1
      <3>5. group[d] \in SUBSET S /\ All(R) \in SUBSET S
        BY <3>1
      <3>6. R \in Good
        BY <1>1, <3>1
      <3>7. SumOver(g, R) = SumOver(f, All(R))
        BY <3>6
      <3> HIDE DEF All, R
      <3>8. IsFiniteSet(group[d]) /\ IsFiniteSet(All(R))
        BY <3>5, FS_Subset
      <3>9. SumOver(f, group[d] \cup All(R)) = SumOver(f, group[d]) + SumOver(f, All(R))
        BY <3>4, <3>5, <3>8, SumUnion
      <3>10. SumOver(g, E) = SumOver(f, All(E))
        BY <3>1, <3>2, <3>3, <3>7, <3>9
      <3> QED
        BY <3>10
    <2> QED
      BY <2>2, <2>3
  <1> HIDE DEF Good
  <1>2. D \in Good
    BY <1>1, SetInduction
  <1> QED
    BY <1>2 DEF Good

\* The sizes of the groups of a set add up to its size.
LEMMA SizeOfGroups ==
  ASSUME NEW S, IsFiniteSet(S), NEW D, IsFiniteSet(D), NEW group \in [D -> SUBSET S],
         \A d, e \in D : d # e => group[d] \cap group[e] = {},
         NEW g, \A d \in D : g[d] = Cardinality(group[d])
  PROVE  SumOver(g, D) = Cardinality(UNION {group[d] : d \in D})
  <1> DEFINE one == [x \in S |-> 1]
             all == UNION {group[d] : d \in D}
  <1>1. ASSUME NEW d \in D PROVE g[d] = SumOver(one, group[d])
    <2>1. IsFiniteSet(group[d]) /\ \A x \in group[d] : one[x] = 1
      BY FS_Subset
    <2> HIDE DEF one
    <2> QED
      BY <2>1, SumOfOnes
  <1>2. \A x \in S : one[x] \in Int
    OBVIOUS
  <1>3. all \in SUBSET S
    OBVIOUS
  <1>4. IsFiniteSet(all) /\ \A x \in all : one[x] = 1
    BY <1>3, FS_Subset
  <1> HIDE DEF one
  <1>5. SumOver(g, D) = SumOver(one, all)
    BY <1>1, <1>2, SumGroups
  <1> HIDE DEF all
  <1>6. SumOver(one, all) = Cardinality(all)
    BY <1>4, SumOfOnes
  <1> QED
    BY <1>5, <1>6 DEF all

------------------------------------------------------------------------------
(* The tables: what the queries count, of a table t of orders              *)

Tables == [Orders -> Row \cup {Absent}]

LiveIn(t) == {o \in Orders : t[o] # Absent}
CompletedIn(t) == {o \in LiveIn(t) : t[o].status = "completed"}
DoneIn(t, from, to) ==
    {o \in CompletedIn(t) : t[o].completed_at # NULL /\ t[o].completed_at \in from..to}
NotDoneIn(t, from, to) == CompletedIn(t) \ DoneIn(t, from, to)
HeldIn(t, C) == {o \in LiveIn(t) : t[o].cleaner \in C}
OfIn(t, P) == {o \in LiveIn(t) : t[o].property \in P}

\* What the orders of a table cost.
PriceIn(t) == [o \in Orders |-> IF o \in LiveIn(t) THEN t[o].price ELSE 0]
Bill(t, S) == SumOver(PriceIn(t), S)

\* The constants are what arithmetic needs.
LEMMA Constants ==
  /\ MaxPrice \in Nat /\ MaxCredit \in Nat /\ Worth \in Nat /\ Worth = MaxPrice + MaxCredit
  /\ LastMoment \in Nat /\ Day \in Nat \ {0} /\ Period \in Nat \ {0}
  /\ LastMoment \div Day \in Nat /\ LastMoment \in Moments /\ 0 \in Moments
  /\ Moments \subseteq Nat
  BY PriceAssumption, TimeAssumption DEF Moments, Worth

\* The products of the bounds grow with the changes.
LEMMA Products ==
  ASSUME NEW m \in Nat, NEW a \in Nat, NEW b \in Nat
  PROVE  /\ m * (a + b) = m * a + m * b /\ m * a \in Nat /\ m * b \in Nat
         /\ a <= b => m * a <= m * b
  <1>1. m * (a + b) = m * a + m * b /\ m * a \in Nat /\ m * b \in Nat
    OBVIOUS
  <1>2. ASSUME a <= b PROVE m * a <= m * b
    <2>1. PICK c \in Nat : b = a + c
      <3>1. b - a \in Nat /\ b = a + (b - a)
        BY <1>2
      <3> QED
        BY <3>1
    <2>2. m * b = m * a + m * c /\ m * c \in Nat
      BY <2>1
    <2> QED
      BY <1>1, <2>2
  <1> QED
    BY <1>1, <1>2

\* What so many orders can be worth, more can.
LEMMA WorthyMore ==
  ASSUME NEW sum \in Int, NEW a \in Nat, NEW b \in Nat, Worthy(sum, a), a <= b
  PROVE  Worthy(sum, b)
  <1> DEFINE top == MaxPrice * a
             topNext == MaxPrice * b
             credit == MaxCredit * a
             creditNext == MaxCredit * b
  <1>1. /\ top <= topNext /\ top \in Nat /\ topNext \in Nat
        /\ credit <= creditNext /\ credit \in Nat /\ creditNext \in Nat
    BY Constants, Products
  <1>2. sum <= top /\ -sum <= credit
    BY DEF Worthy
  <1> HIDE DEF top, topNext, credit, creditNext
  <1>3. sum <= topNext /\ -sum <= creditNext
    BY <1>1, <1>2
  <1> QED
    BY <1>3 DEF Worthy, topNext, creditNext

\* A function over one of the finite domains has a total.
LEMMA TotalType ==
  ASSUME NEW D, IsFiniteSet(D), NEW f \in [D -> Int]
  PROVE  /\ Total(f) = SumOver(f, D) /\ Total(f) \in Int
         /\ f \in [D -> Nat] => Total(f) \in Nat
  <1>1. Total(f) = SumOver(f, D)
    BY SumIs DEF Total
  <1> QED
    BY <1>1, SumType

\* The total of nothing is 0.
LEMMA TotalNone ==
  ASSUME NEW D, IsFiniteSet(D)
  PROVE  Total(None(D)) = 0
  <1> DEFINE f == None(D)
  <1>1. f \in [D -> Int] /\ \A x \in D : f[x] \in Int /\ f[x] <= 0 /\ -f[x] <= 0
    BY DEF None
  <1> HIDE DEF f
  <1>2. Total(f) = SumOver(f, D) /\ Total(f) \in Int
    BY <1>1, TotalType
  <1>3. SumOver(f, D) <= 0 * Cardinality(D) /\ -SumOver(f, D) <= 0 * Cardinality(D)
    BY <1>1, SumBound
  <1>4. 0 * Cardinality(D) = 0
    BY FS_CardinalityType
  <1>5. Total(f) = 0
    BY <1>2, <1>3, <1>4
  <1> QED
    BY <1>5 DEF f

\* The days, the statuses and the rows are finitely many.
LEMMA DomainsFinite ==
  /\ IsFiniteSet(Days) /\ IsFiniteSet(Statuses) /\ IsFiniteSet(Orders)
  /\ IsFiniteSet(Cleaners) /\ IsFiniteSet(Properties)
  <1>1. 0 \in Int /\ LastMoment \div Day \in Int
    BY Constants
  <1>2. IsFiniteSet(Days)
    BY <1>1, FS_Interval DEF Days
  <1>3. IsFiniteSet({"open"} \cup {"completed"})
    BY FS_Singleton, FS_Union
  <1>4. {"open", "completed"} = {"open"} \cup {"completed"}
    OBVIOUS
  <1>5. IsFiniteSet({"open", "completed"})
    BY <1>3, <1>4
  <1>6. IsFiniteSet(Statuses)
    BY <1>5, SetsAssumption, FS_Union DEF Statuses
  <1> QED
    BY <1>2, <1>6, SetsAssumption

\* The queries select from a finite table, and what they select is priced.
LEMMA TableSets ==
  ASSUME NEW t \in Tables
  PROVE  /\ \A o \in LiveIn(t) : t[o] \in Row
         /\ \A o \in Orders : /\ PriceIn(t)[o] \in Int
                              /\ PriceIn(t)[o] <= MaxPrice /\ -PriceIn(t)[o] <= MaxCredit
         /\ LiveIn(t) \subseteq Orders /\ CompletedIn(t) \subseteq LiveIn(t)
         /\ \A S \in SUBSET Orders : IsFiniteSet(S) /\ Cardinality(S) \in Nat
         /\ \A S \in SUBSET Orders : \A T \in SUBSET S : Cardinality(T) <= Cardinality(S)
  <1>1. \A o \in LiveIn(t) : t[o] \in Row
    BY DEF LiveIn, Tables
  <1>2. \A o \in Orders : /\ PriceIn(t)[o] \in Int
                          /\ PriceIn(t)[o] <= MaxPrice /\ -PriceIn(t)[o] <= MaxCredit
    <2>1. \A o \in LiveIn(t) : t[o].price \in (-MaxCredit)..MaxPrice
      BY <1>1, PriceAssumption DEF Row
    <2>2. \A o \in Orders : PriceIn(t)[o] \in (-MaxCredit)..MaxPrice
      <3>1. 0 \in (-MaxCredit)..MaxPrice
        BY Constants
      <3> QED
        BY <2>1, <3>1 DEF PriceIn
    <2>3. \A n \in (-MaxCredit)..MaxPrice : n \in Int /\ n <= MaxPrice /\ -n <= MaxCredit
      BY Constants
    <2> QED
      BY <2>2, <2>3
  <1>3. \A S \in SUBSET Orders : IsFiniteSet(S) /\ Cardinality(S) \in Nat
    BY DomainsFinite, FS_Subset, FS_CardinalityType
  <1>4. \A S \in SUBSET Orders : \A T \in SUBSET S : Cardinality(T) <= Cardinality(S)
    BY <1>3, FS_Subset
  <1> QED
    BY <1>1, <1>2, <1>3, <1>4 DEF LiveIn, CompletedIn

\* A bill is what so many orders can be worth, and that of fewer orders is larger by no
\* more than the others can be below 0.
LEMMA BillType ==
  ASSUME NEW t \in Tables, NEW S \in SUBSET Orders
  PROVE  /\ Bill(t, S) \in Int /\ Worthy(Bill(t, S), Cardinality(S))
         /\ \A T \in SUBSET S : Bill(t, T) <= Bill(t, S) + MaxCredit * Cardinality(S \ T)
  <1> DEFINE f == PriceIn(t)
  <1>1. \A T \in SUBSET Orders :
          IsFiniteSet(T) /\ \A o \in T : f[o] \in Int /\ f[o] <= MaxPrice /\ -f[o] <= MaxCredit
    BY TableSets
  <1> HIDE DEF f
  <1>2. \A T \in SUBSET Orders : SumOver(f, T) \in Int /\ Worthy(SumOver(f, T), Cardinality(T))
    BY <1>1, Constants, SumType, SumBound DEF Worthy
  <1>3. ASSUME NEW T \in SUBSET S
        PROVE  SumOver(f, T) <= SumOver(f, S) + MaxCredit * Cardinality(S \ T)
    <2> DEFINE rest == SumOver(f, S \ T)
               credit == MaxCredit * Cardinality(S \ T)
    <2>1. SumOver(f, S) = SumOver(f, T) + rest
      <3>1. IsFiniteSet(S) /\ \A o \in S : f[o] \in Int
        BY <1>1
      <3> QED
        BY <3>1, SumPart
    <2>2. rest \in Int /\ -rest <= credit
      BY <1>2 DEF Worthy
    <2>3. credit \in Nat
      <3>1. Cardinality(S \ T) \in Nat
        BY TableSets
      <3> QED
        BY <3>1, Constants
    <2>4. SumOver(f, T) \in Int /\ SumOver(f, S) \in Int
      BY <1>2
    <2> HIDE DEF rest, credit
    <2>5. SumOver(f, T) <= SumOver(f, S) + credit
      BY <2>1, <2>2, <2>3, <2>4
    <2> QED
      BY <2>5 DEF credit
  <1> QED
    BY <1>2, <1>3 DEF Bill, f

\* It is what SUM(price) adds up.
LEMMA BillIs ==
  ASSUME NEW t \in Tables, NEW S \in SUBSET LiveIn(t)
  PROVE  SumFunction([o \in S |-> t[o].price]) = Bill(t, S)
  <1> DEFINE f == [o \in S |-> t[o].price]
  <1>1. IsFiniteSet(S) /\ \A o \in S : f[o] = PriceIn(t)[o]
    BY TableSets DEF PriceIn
  <1>2. DOMAIN f = S
    OBVIOUS
  <1> HIDE DEF f
  <1>3. SumFunction(f) = SumOver(f, S)
    BY <1>2, SumIs
  <1>4. SumOver(f, S) = SumOver(PriceIn(t), S)
    BY <1>1, SumSame
  <1> QED
    BY <1>3, <1>4 DEF Bill, f

\* The queries of the reports, in these words.
LEMMA QueriesNow ==
  ASSUME TypeOK
  PROVE  /\ order \in Tables /\ Live = LiveIn(order) /\ Completed = CompletedIn(order)
         /\ \A from, to : Done(from, to) = DoneIn(order, from, to)
         /\ \A S \in SUBSET LiveIn(order) : Revenue(S) = Bill(order, S)
  <1>1. order \in Tables /\ Live = LiveIn(order) /\ Completed = CompletedIn(order)
    BY DEF TypeOK, Tables, Live, LiveIn, Completed, CompletedIn, WithStatus
  <1>2. \A from, to : Done(from, to) = DoneIn(order, from, to)
    BY <1>1 DEF Done, DoneIn
  <1>3. \A S \in SUBSET LiveIn(order) : Revenue(S) = Bill(order, S)
    BY <1>1, BillIs DEF Revenue
  <1> QED
    BY <1>1, <1>2, <1>3

\* The same for the next state.
LEMMA QueriesNext ==
  ASSUME TypeOK'
  PROVE  /\ order' \in Tables /\ Live' = LiveIn(order') /\ Completed' = CompletedIn(order')
         /\ Done(since, until)' = DoneIn(order', since', until')
         /\ Done(today, until)' = DoneIn(order', today', until')
         /\ Revenue(Done(since, until))' = Bill(order', DoneIn(order', since', until'))
  <1>1. order' \in Tables /\ Live' = LiveIn(order') /\ Completed' = CompletedIn(order')
    BY DEF TypeOK, Tables, Live, LiveIn, Completed, CompletedIn, WithStatus
  <1>2. /\ Done(since, until)' = DoneIn(order', since', until')
        /\ Done(today, until)' = DoneIn(order', today', until')
    BY <1>1 DEF Done, DoneIn
  <1>3. \A S \in SUBSET LiveIn(order') :
          SumFunction([o \in S |-> order'[o].price]) = Bill(order', S)
    BY <1>1, BillIs
  <1>4. Revenue(Done(since, until))' = Bill(order', DoneIn(order', since', until'))
    <2>1. DoneIn(order', since', until') \in SUBSET LiveIn(order')
      BY DEF DoneIn, CompletedIn
    <2>2. Revenue(Done(since, until))'
            = SumFunction([o \in Done(since, until)' |-> order'[o].price])
      BY DEF Revenue
    <2> QED
      BY <1>2, <1>3, <2>1, <2>2
  <1> QED
    BY <1>1, <1>2, <1>4

------------------------------------------------------------------------------
(* How much a change of the orders changes what the reports read           *)

\* What is counted and summed up in the table t is at most what it is in the table u,
\* and n orders.
AtMost(t, u, n) ==
    /\ Cardinality(LiveIn(t)) <= Cardinality(LiveIn(u)) + n
    /\ Cardinality(CompletedIn(t)) <= Cardinality(CompletedIn(u)) + n
    /\ \A from, to \in Moments :
         /\ Cardinality(DoneIn(t, from, to)) <= Cardinality(DoneIn(u, from, to)) + n
         /\ Cardinality(NotDoneIn(t, from, to)) <= Cardinality(NotDoneIn(u, from, to)) + n
         /\ Bill(t, DoneIn(t, from, to)) <= Bill(u, DoneIn(u, from, to)) + Worth * n
    /\ \A C \in SUBSET Cleaners : Cardinality(HeldIn(t, C)) <= Cardinality(HeldIn(u, C)) + n
    /\ \A P \in SUBSET Properties : Cardinality(OfIn(t, P)) <= Cardinality(OfIn(u, P)) + n

\* Sets that differ in one element differ by one in size.
LEMMA SizeOneMore ==
  ASSUME NEW S \in SUBSET Orders, NEW T \in SUBSET Orders, NEW o, S \ {o} = T \ {o}
  PROVE  Cardinality(S) <= Cardinality(T) + 1
  <1>1. IsFiniteSet(S) /\ IsFiniteSet(T)
    BY DomainsFinite, FS_Subset
  <1>2. /\ Cardinality(S \ {o}) = IF o \in S THEN Cardinality(S) - 1 ELSE Cardinality(S)
        /\ Cardinality(T \ {o}) = IF o \in T THEN Cardinality(T) - 1 ELSE Cardinality(T)
    BY <1>1, FS_RemoveElement
  <1>3. Cardinality(S) \in Nat /\ Cardinality(T) \in Nat
    BY <1>1, FS_CardinalityType
  <1>4. Cardinality(S \ {o}) = Cardinality(T \ {o})
    OBVIOUS
  <1> QED
    BY <1>2, <1>3, <1>4

\* And by the worth of one order in what they cost.
LEMMA BillOneMore ==
  ASSUME NEW t \in Tables, NEW u \in Tables, NEW S \in SUBSET Orders, NEW T \in SUBSET Orders,
         NEW o, S \ {o} = T \ {o}, \A q \in S \ {o} : PriceIn(t)[q] = PriceIn(u)[q]
  PROVE  Bill(t, S) <= Bill(u, T) + Worth
  <1> DEFINE R == S \ {o}
  <1>1. R \in SUBSET Orders /\ R = T \ {o}
    OBVIOUS
  <1>2. Bill(t, R) = Bill(u, R)
    <2>1. IsFiniteSet(R)
      BY <1>1, TableSets
    <2> QED
      BY <2>1, SumSame DEF Bill
  <1>3. ASSUME NEW v \in Tables, NEW U \in SUBSET Orders, U \ {o} = R
        PROVE  /\ Bill(v, U) \in Int /\ Bill(v, R) \in Int
               /\ Bill(v, U) <= Bill(v, R) + MaxPrice /\ Bill(v, R) <= Bill(v, U) + MaxCredit
    <2> HIDE DEF R
    <2>1. Bill(v, U) \in Int /\ Bill(v, R) \in Int
      BY <1>1, BillType
    <2>2. CASE o \in U
      <3>1. IsFiniteSet(U) /\ \A q \in U : PriceIn(v)[q] \in Int
        BY TableSets
      <3>2. Bill(v, U) = PriceIn(v)[o] + Bill(v, R)
        BY <1>3, <2>2, <3>1, SumRemove DEF Bill
      <3>3. /\ PriceIn(v)[o] \in Int
            /\ PriceIn(v)[o] <= MaxPrice /\ -PriceIn(v)[o] <= MaxCredit
        BY <2>2, TableSets
      <3> QED
        BY <2>1, <3>2, <3>3, Constants
    <2>3. CASE o \notin U
      <3>1. U = R
        BY <1>3, <2>3
      <3>2. Bill(v, U) = Bill(v, R)
        BY <3>1
      <3> QED
        BY <2>1, <3>2, Constants
    <2> QED
      BY <2>2, <2>3
  <1>4. /\ Bill(t, S) \in Int /\ Bill(t, R) \in Int /\ Bill(t, S) <= Bill(t, R) + MaxPrice
        /\ Bill(u, T) \in Int /\ Bill(u, R) <= Bill(u, T) + MaxCredit
    BY <1>1, <1>3
  <1> HIDE DEF R
  <1> QED
    BY <1>2, <1>4, Constants

\* A table in which one order is another has at most one order more of everything.
LEMMA OneOrder ==
  ASSUME NEW t \in Tables, NEW u \in Tables, NEW o \in Orders,
         \A q \in Orders \ {o} : t[q] = u[q]
  PROVE  AtMost(t, u, 1)
  <1>1. LiveIn(t) \ {o} = LiveIn(u) \ {o}
    BY DEF LiveIn
  <1>2. CompletedIn(t) \ {o} = CompletedIn(u) \ {o}
    BY <1>1 DEF CompletedIn, LiveIn
  <1>3. \A from, to : DoneIn(t, from, to) \ {o} = DoneIn(u, from, to) \ {o}
    BY <1>2 DEF DoneIn, CompletedIn, LiveIn
  <1>4. \A C : HeldIn(t, C) \ {o} = HeldIn(u, C) \ {o}
    BY <1>1 DEF HeldIn, LiveIn
  <1>5. \A P : OfIn(t, P) \ {o} = OfIn(u, P) \ {o}
    BY <1>1 DEF OfIn, LiveIn
  <1>6. \A q \in Orders \ {o} : PriceIn(t)[q] = PriceIn(u)[q]
    BY <1>1 DEF PriceIn, LiveIn
  <1>7. \A v \in Tables : /\ LiveIn(v) \in SUBSET Orders /\ CompletedIn(v) \in SUBSET Orders
                          /\ \A from, to : DoneIn(v, from, to) \in SUBSET Orders
                          /\ \A from, to : NotDoneIn(v, from, to) \in SUBSET Orders
                          /\ \A C : HeldIn(v, C) \in SUBSET Orders
                          /\ \A P : OfIn(v, P) \in SUBSET Orders
    BY DEF LiveIn, CompletedIn, DoneIn, NotDoneIn, HeldIn, OfIn
  <1>8. Worth * 1 = Worth
    BY Constants
  <1>9. /\ Cardinality(LiveIn(t)) <= Cardinality(LiveIn(u)) + 1
        /\ Cardinality(CompletedIn(t)) <= Cardinality(CompletedIn(u)) + 1
    BY <1>1, <1>2, <1>7, SizeOneMore
  <1>10. \A from, to : NotDoneIn(t, from, to) \ {o} = NotDoneIn(u, from, to) \ {o}
    BY <1>2, <1>3 DEF NotDoneIn
  <1>11. ASSUME NEW from, NEW to
         PROVE  /\ Cardinality(DoneIn(t, from, to)) <= Cardinality(DoneIn(u, from, to)) + 1
                /\ Cardinality(NotDoneIn(t, from, to)) <= Cardinality(NotDoneIn(u, from, to)) + 1
                /\ Bill(t, DoneIn(t, from, to)) <= Bill(u, DoneIn(u, from, to)) + Worth
    BY <1>3, <1>6, <1>7, <1>10, SizeOneMore, BillOneMore
  <1>12. \A C : Cardinality(HeldIn(t, C)) <= Cardinality(HeldIn(u, C)) + 1
    BY <1>4, <1>7, SizeOneMore
  <1>13. \A P : Cardinality(OfIn(t, P)) <= Cardinality(OfIn(u, P)) + 1
    BY <1>5, <1>7, SizeOneMore
  <1> QED
    BY <1>8, <1>9, <1>11, <1>12, <1>13 DEF AtMost

\* A table in which orders change their cleaner only has as many orders of everything
\* but of the cleaners.
LEMMA OtherCleaners ==
  ASSUME NEW t \in Tables, NEW u \in Tables, NEW S \in SUBSET Orders,
         LiveIn(t) = LiveIn(u),
         \A o \in Orders \ S : t[o] = u[o],
         \A o \in LiveIn(t) : /\ t[o].status = u[o].status /\ t[o].price = u[o].price
                               /\ t[o].completed_at = u[o].completed_at
                               /\ t[o].property = u[o].property
  PROVE  AtMost(t, u, Cardinality(S))
  <1> DEFINE n == Cardinality(S)
  <1>1. CompletedIn(t) = CompletedIn(u)
    BY DEF CompletedIn
  <1>2. \A from, to : /\ DoneIn(t, from, to) = DoneIn(u, from, to)
                      /\ NotDoneIn(t, from, to) = NotDoneIn(u, from, to)
    BY <1>1 DEF DoneIn, NotDoneIn, CompletedIn
  <1>3. \A P : OfIn(t, P) = OfIn(u, P)
    BY DEF OfIn
  <1>4. PriceIn(t) = PriceIn(u)
    BY DEF PriceIn
  <1>5. n \in Nat /\ Worth * n \in Nat
    BY TableSets, Constants
  <1>6. ASSUME NEW T \in SUBSET Orders
        PROVE  /\ Cardinality(T) <= Cardinality(T) + n
               /\ Bill(t, T) = Bill(u, T) /\ Bill(u, T) <= Bill(u, T) + Worth * n
    <2>1. Cardinality(T) \in Nat /\ Bill(u, T) \in Int
      BY TableSets, BillType
    <2> QED
      BY <1>4, <1>5, <2>1 DEF Bill
  <1>7. ASSUME NEW C PROVE Cardinality(HeldIn(t, C)) <= Cardinality(HeldIn(u, C)) + n
    <2>1. HeldIn(t, C) \subseteq HeldIn(u, C) \cup S
      BY DEF HeldIn, LiveIn
    <2>2. /\ IsFiniteSet(HeldIn(u, C)) /\ IsFiniteSet(S)
          /\ HeldIn(u, C) \cup S \in SUBSET Orders
      <3>1. HeldIn(u, C) \in SUBSET Orders
        BY DEF HeldIn, LiveIn
      <3> QED
        BY <3>1, TableSets
    <2>3. Cardinality(HeldIn(t, C)) <= Cardinality(HeldIn(u, C) \cup S)
      BY <2>1, <2>2, TableSets
    <2>4. Cardinality(HeldIn(u, C) \cup S) <= Cardinality(HeldIn(u, C)) + n
      <3>1. Cardinality(HeldIn(u, C) \cup S)
              = Cardinality(HeldIn(u, C)) + n - Cardinality(HeldIn(u, C) \cap S)
        BY <2>2, FS_Union
      <3>2. Cardinality(HeldIn(u, C)) \in Nat /\ Cardinality(HeldIn(u, C) \cap S) \in Nat
        BY <2>2, FS_CardinalityType, FS_Intersection
      <3> QED
        BY <1>5, <3>1, <3>2
    <2>5. /\ Cardinality(HeldIn(t, C)) \in Nat /\ Cardinality(HeldIn(u, C)) \in Nat
          /\ Cardinality(HeldIn(u, C) \cup S) \in Nat
      <3>1. HeldIn(t, C) \in SUBSET Orders
        BY DEF HeldIn, LiveIn
      <3> QED
        BY <2>2, <3>1, TableSets, FS_CardinalityType
    <2> QED
      BY <1>5, <2>3, <2>4, <2>5
  <1>8. /\ LiveIn(u) \in SUBSET Orders /\ CompletedIn(u) \in SUBSET Orders
        /\ \A from, to : DoneIn(u, from, to) \in SUBSET Orders
        /\ \A from, to : NotDoneIn(u, from, to) \in SUBSET Orders
        /\ \A P : OfIn(u, P) \in SUBSET Orders
    BY DEF LiveIn, CompletedIn, DoneIn, NotDoneIn, OfIn
  <1> HIDE DEF n
  <1>9. AtMost(t, u, n)
    BY <1>1, <1>2, <1>3, <1>6, <1>7, <1>8 DEF AtMost
  <1> QED
    BY <1>9 DEF n

\* What is counted and summed up in a table are numbers.
LEMMA TableNumbers ==
  ASSUME NEW t \in Tables
  PROVE  /\ Cardinality(LiveIn(t)) \in Nat /\ Cardinality(CompletedIn(t)) \in Nat
         /\ \A from, to : /\ Cardinality(DoneIn(t, from, to)) \in Nat
                          /\ Cardinality(NotDoneIn(t, from, to)) \in Nat
                          /\ Bill(t, DoneIn(t, from, to)) \in Int
         /\ \A C : Cardinality(HeldIn(t, C)) \in Nat
         /\ \A P : Cardinality(OfIn(t, P)) \in Nat
  <1>1. /\ LiveIn(t) \in SUBSET Orders /\ CompletedIn(t) \in SUBSET Orders
        /\ \A from, to : DoneIn(t, from, to) \in SUBSET Orders
        /\ \A from, to : NotDoneIn(t, from, to) \in SUBSET Orders
        /\ \A C : HeldIn(t, C) \in SUBSET Orders
        /\ \A P : OfIn(t, P) \in SUBSET Orders
    BY DEF LiveIn, CompletedIn, DoneIn, NotDoneIn, HeldIn, OfIn
  <1> QED
    BY <1>1, TableSets, BillType

\* What a report has read are numbers, and so are their totals.
LEMMA ReportNumbers ==
  ASSUME TypeOK
  PROVE  /\ \A name \in Numbers : number[name] \in Int
         /\ \A name \in Counts : number[name] \in Nat
         /\ byStatus["completed"] \in Nat /\ moved \in Nat /\ at \in 0..8
         /\ Total(byDay) = SumOver(byDay, Days) /\ Total(byDay) \in Int
         /\ Total(byStatus) = SumOver(byStatus, Statuses) /\ Total(byStatus) \in Nat
         /\ Total(byCleaner) = SumOver(byCleaner, Cleaners) /\ Total(byCleaner) \in Nat
         /\ Total(byProperty) = SumOver(byProperty, Properties) /\ Total(byProperty) \in Nat
  <1>1. /\ byDay \in [Days -> Int] /\ byStatus \in [Statuses -> Nat]
        /\ byCleaner \in [Cleaners -> Nat] /\ byProperty \in [Properties -> Nat]
        /\ byStatus \in [Statuses -> Int] /\ byCleaner \in [Cleaners -> Int]
        /\ byProperty \in [Properties -> Int]
    BY DEF TypeOK
  <1>2. "completed" \in Statuses
    BY DEF Statuses
  <1>3. /\ \A name \in Numbers : number[name] \in Int
        /\ \A name \in Counts : number[name] \in Nat
        /\ byStatus["completed"] \in Nat /\ moved \in Nat /\ at \in 0..8
    BY <1>2 DEF TypeOK
  <1> QED
    BY <1>1, <1>3, DomainsFinite, TotalType

\* The reports and their lengths.
LEMMA Plans ==
  /\ Kinds = {"basic", "dashboard", "revenue", "cleaners", "properties"}
  /\ Plan["basic"] = BasicStats /\ Plan["dashboard"] = Dashboard
  /\ Plan["revenue"] = RevenueReport /\ Plan["cleaners"] = CleanerStats
  /\ Plan["properties"] = PropertyStats
  /\ Len(BasicStats) = 4 /\ Len(Dashboard) = 8 /\ Len(RevenueReport) = 2
  /\ Len(CleanerStats) = 1 /\ Len(PropertyStats) = 1
  /\ \A k \in Kinds : Len(Plan[k]) \in 1..8
  BY DEF Kinds, Plan, BasicStats, Dashboard, RevenueReport, CleanerStats, PropertyStats

------------------------------------------------------------------------------
(* Steps of others                                                         *)

\* A change of at most n orders, counted in moved, keeps what the report in progress
\* has read as close to the orders as moved says.
LEMMA ChangeKeeps ==
  ASSUME StatsInv, TypeOK', DatedByCompletion', UNCHANGED report, NEW n \in Nat,
         moved' = IF kind = NULL THEN 0 ELSE moved + n,
         AtMost(order, order', n), AtMost(order', order, n), now <= now'
  PROVE  StatsInv'
  <1> USE DEF report, lists
  <1>t. /\ order \in Tables /\ order' \in Tables /\ TypeOK /\ now \in Nat /\ now' \in Nat
        /\ since \in Moments /\ until \in Moments /\ today \in Moments /\ Moments \subseteq Nat
    BY QueriesNow, QueriesNext, Constants DEF StatsInv, TypeOK
  <1> DEFINE cost == Worth * moved
             costNext == Worth * moved'
             costMore == Worth * n
  <1>k. /\ kind # NULL => moved' = moved + n
        /\ moved \in Nat /\ moved' \in Nat /\ Day \in Nat
    BY <1>t, Constants DEF TypeOK
  <1>p. /\ kind # NULL => costNext = cost + costMore
        /\ cost \in Nat /\ costNext \in Nat /\ costMore \in Nat
    BY <1>k, Constants, Products
  <1>b. ASSUME kind # NULL, NEW a \in Nat, NEW b \in Int, Worthy(b, a + moved)
        PROVE  Worthy(b, a + moved')
    BY <1>b, <1>k, WorthyMore
  <1> HIDE DEF cost, costNext, costMore
  <1>m. /\ \A name \in Numbers : number[name] \in Int
        /\ \A name \in Counts : number[name] \in Nat
    BY <1>t, ReportNumbers
  <1>n. /\ byStatus["completed"] \in Nat /\ at \in 0..8
        /\ Total(byDay) \in Int /\ Total(byStatus) \in Nat
        /\ Total(byCleaner) \in Nat /\ Total(byProperty) \in Nat
    BY <1>t, ReportNumbers
  <1>s. /\ Total(byDay)' = Total(byDay) /\ Total(byStatus)' = Total(byStatus)
        /\ Total(byCleaner)' = Total(byCleaner) /\ Total(byProperty)' = Total(byProperty)
    BY DEF Total
  <1>1. BeginOK'
    BY DEF StatsInv, BeginOK
  <1>2. FrontPageOK'
    <2> SUFFICES ASSUME kind = "basic" PROVE FrontPageOK'
      BY DEF FrontPageOK
    <2>1. kind # NULL /\ FrontPageOK
      BY Plans, MarksAssumption DEF StatsInv
    <2>2. /\ Cardinality(Live') <= Cardinality(Live) + n
          /\ Cardinality(Completed') <= Cardinality(Completed) + n
          /\ Cardinality(Live') \in Nat /\ Cardinality(Live) \in Nat
          /\ Cardinality(Completed') \in Nat /\ Cardinality(Completed) \in Nat
      BY <1>t, QueriesNow, QueriesNext, TableNumbers DEF AtMost, costMore
    <2>3. /\ number["total"] \in Nat /\ number["open"] \in Nat /\ number["completed"] \in Nat
          /\ number["revenue"] \in Int
      BY <1>m DEF Numbers, Counts, Amounts
    <2>4. at >= 4 => Worthy(number["revenue"], number["total"] + moved')
      BY <1>b, <2>1, <2>3 DEF FrontPageOK
    <2>5. at >= 1 => Cardinality(Live') <= number["total"] + moved'
      BY <1>k, <2>1, <2>2, <2>3 DEF FrontPageOK
    <2>6. at >= 2 => number["open"] + Cardinality(Completed') <= number["total"] + moved'
      BY <1>k, <2>1, <2>2, <2>3 DEF FrontPageOK
    <2>7. at >= 3 => number["open"] + number["completed"] <= number["total"] + moved'
      BY <1>k, <2>1, <2>3 DEF FrontPageOK
    <2> QED
      BY <2>4, <2>5, <2>6, <2>7 DEF FrontPageOK, Worthy
  <1>3. DashboardOK'
    <2> SUFFICES ASSUME kind = "dashboard" PROVE DashboardOK'
      BY DEF DashboardOK
    <2>1. kind # NULL /\ DashboardOK
      BY Plans, MarksAssumption DEF StatsInv
    <2>2. /\ Cardinality(Live') <= Cardinality(Live) + n
          /\ Cardinality(Live) <= Cardinality(Live') + n
          /\ Cardinality(Completed') <= Cardinality(Completed) + n
          /\ Cardinality(Live') \in Nat /\ Cardinality(Live) \in Nat
          /\ Cardinality(Completed') \in Nat /\ Cardinality(Completed) \in Nat
      BY <1>t, QueriesNow, QueriesNext, TableNumbers DEF AtMost, costMore
    <2> DEFINE bill == Revenue(Done(since, until))
               billNext == Revenue(Done(since, until))'
               other == Cardinality(Completed \ Done(today, until))
               otherNext == Cardinality(Completed \ Done(today, until))'
    <2>3. /\ billNext <= bill + costMore /\ bill <= billNext + costMore
          /\ billNext \in Int /\ bill \in Int
          /\ Cardinality(Done(today, until)') <= Cardinality(Done(today, until)) + n
          /\ Cardinality(Done(today, until)') \in Nat /\ Cardinality(Done(today, until)) \in Nat
          /\ otherNext <= other + n /\ otherNext \in Nat /\ other \in Nat
      <3>1. DoneIn(order, since, until) \in SUBSET LiveIn(order)
        BY DEF DoneIn, CompletedIn
      <3>2. /\ bill = Bill(order, DoneIn(order, since, until))
            /\ Done(today, until) = DoneIn(order, today, until)
            /\ other = Cardinality(NotDoneIn(order, today, until))
        BY <1>t, <3>1, QueriesNow DEF NotDoneIn
      <3>3. /\ billNext = Bill(order', DoneIn(order', since, until))
            /\ Done(today, until)' = DoneIn(order', today, until)
            /\ otherNext = Cardinality(NotDoneIn(order', today, until))
        BY QueriesNext DEF NotDoneIn
      <3> HIDE DEF bill, billNext, other, otherNext
      <3> QED
        BY <1>t, <3>2, <3>3, TableNumbers DEF AtMost, costMore
    <2>4. /\ number["total"] \in Nat /\ number["today_completed"] \in Nat
          /\ number["today_revenue"] \in Int /\ number["revenue"] \in Int
      BY <1>m DEF Numbers, Counts, Amounts
    <2>5. until' = LastMoment /\ (since' = 0 \/ since' + Day <= now')
      <3>1. since \in Nat
        BY <1>t
      <3> QED
        BY <1>t, <1>k, <2>1, <3>1 DEF DashboardOK
    <2> HIDE DEF bill, billNext, other, otherNext
    <2>6. at >= 1 => Near(billNext, Total(byDay), costNext)
      <3>1. at >= 1 => bill <= Total(byDay) + cost /\ Total(byDay) <= bill + cost
        BY <2>1 DEF DashboardOK, Near, cost, bill
      <3> QED
        BY <1>p, <1>n, <2>1, <2>3, <3>1 DEF Near
    <2>7. at >= 2 => Cardinality(Completed') <= byStatus["completed"] + moved'
                     /\ Near(Cardinality(Live'), Total(byStatus), moved')
      <3>1. at >= 2 => Cardinality(Completed) <= byStatus["completed"] + moved
                       /\ Cardinality(Live) <= Total(byStatus) + moved
                       /\ Total(byStatus) <= Cardinality(Live) + moved
        BY <2>1 DEF DashboardOK, Near
      <3> QED
        BY <1>k, <1>n, <2>1, <2>2, <3>1 DEF Near
    <2>8. at >= 3 => Total(byProperty) <= Total(byStatus) + moved'
      BY <1>k, <1>n, <2>1 DEF DashboardOK
    <2> DEFINE earlier == byStatus["completed"] - number["today_completed"] + moved
    <2>e. /\ Earlier = earlier /\ Earlier' = earlier + n /\ earlier \in Int
          /\ at >= 5 => earlier \in Nat
      BY <1>k, <1>n, <2>1, <2>4 DEF Earlier, DashboardOK
    <2> HIDE DEF earlier
    <2>9. at >= 5 => number["today_completed"] <= byStatus["completed"] + moved'
                     /\ Cardinality(Done(today, until)') <= number["today_completed"] + moved'
                     /\ otherNext <= Earlier'
      <3>1. at >= 5 => number["today_completed"] <= byStatus["completed"] + moved
                       /\ Cardinality(Done(today, until)) <= number["today_completed"] + moved
                       /\ other <= Earlier
        BY <2>1 DEF DashboardOK, other
      <3> QED
        BY <1>k, <1>n, <2>1, <2>3, <2>4, <2>e, <3>1
    <2>w. ASSUME at >= 5, NEW a \in Int, NEW b \in Int, Within(a, b), NEW c, c = b
          PROVE  a <= c + Worth * moved' + MaxCredit * Earlier'
      <3> DEFINE credit == MaxCredit * earlier
                 creditNext == MaxCredit * Earlier'
      <3>1. creditNext >= credit /\ credit \in Nat /\ creditNext \in Nat
        <4>1. earlier \in Nat /\ earlier + n \in Nat /\ earlier <= earlier + n
          BY <2>w, <2>e
        <4> QED
          BY <2>e, <4>1, Constants, Products
      <3>2. a <= b + cost + credit
        BY <2>w, <2>e DEF Within, cost
      <3> HIDE DEF credit, creditNext
      <3>3. a <= b + costNext + creditNext
        BY <1>p, <2>1, <2>w, <3>1, <3>2
      <3> QED
        BY <2>w, <3>3 DEF costNext, creditNext
    <2>10. at >= 6 => /\ Within(number["today_revenue"], Total(byDay))'
                      /\ Worthy(number["today_revenue"], number["today_completed"] + moved')
      <3>1. at >= 6 => Worthy(number["today_revenue"], number["today_completed"] + moved')
        BY <1>b, <2>1, <2>4 DEF DashboardOK
      <3>2. at >= 6 => at >= 5 /\ Within(number["today_revenue"], Total(byDay))
        BY <1>n, <2>1 DEF DashboardOK
      <3>3. at >= 6 => number["today_revenue"] <= Total(byDay)' + Worth * moved' + MaxCredit * Earlier'
        BY <1>n, <1>s, <2>4, <2>w, <3>2
      <3> QED
        BY <3>1, <3>3 DEF Within
    <2>11. at >= 7 => Cardinality(Live') <= number["total"] + moved'
                      /\ Near(Total(byStatus), number["total"], moved')
      <3>1. at >= 7 => Cardinality(Live) <= number["total"] + moved
                       /\ Total(byStatus) <= number["total"] + moved
                       /\ number["total"] <= Total(byStatus) + moved
        BY <2>1 DEF DashboardOK, Near
      <3> QED
        BY <1>k, <1>n, <2>1, <2>2, <2>4, <3>1 DEF Near
    <2>12. at >= 8 => /\ Within(Total(byDay), number["revenue"])'
                      /\ Worthy(number["revenue"], number["total"] + moved')
      <3>1. at >= 8 => Worthy(number["revenue"], number["total"] + moved')
        BY <1>b, <2>1, <2>4 DEF DashboardOK
      <3>2. at >= 8 => at >= 5 /\ Within(Total(byDay), number["revenue"])
        BY <1>n, <2>1 DEF DashboardOK
      <3>3. at >= 8 => Total(byDay) <= number["revenue"] + Worth * moved' + MaxCredit * Earlier'
        BY <1>n, <2>4, <2>w, <3>2
      <3> QED
        BY <1>s, <3>1, <3>3 DEF Within
    <2>13. at >= 4 => since' <= today'
      BY <2>1 DEF DashboardOK
    <2>14. at >= 1 => Near(Revenue(Done(since, until)), Total(byDay), Worth * moved)'
      BY <1>s, <2>6 DEF Near, billNext, costNext
    <2>15. at >= 5 => Cardinality(Completed \ Done(today, until))' <= Earlier'
      BY <2>9 DEF otherNext
    <2> QED
      BY <1>s, <2>5, <2>7, <2>8, <2>9, <2>10, <2>11, <2>12, <2>13, <2>14, <2>15
      DEF DashboardOK, Near, Worthy
  <1>4. RevenueOK'
    <2> SUFFICES ASSUME kind = "revenue" PROVE RevenueOK'
      BY DEF RevenueOK
    <2>1. kind # NULL /\ RevenueOK
      BY Plans, MarksAssumption DEF StatsInv
    <2> DEFINE bill == Revenue(Done(since, until))
               billNext == Revenue(Done(since, until))'
    <2>2. /\ billNext <= bill + costMore /\ bill <= billNext + costMore
          /\ billNext \in Int /\ bill \in Int
      <3>1. DoneIn(order, since, until) \in SUBSET LiveIn(order)
        BY DEF DoneIn, CompletedIn
      <3>2. /\ bill = Bill(order, DoneIn(order, since, until))
            /\ billNext = Bill(order', DoneIn(order', since, until))
        BY <1>t, <3>1, QueriesNow, QueriesNext
      <3> HIDE DEF bill, billNext
      <3> QED
        BY <1>t, <3>2, TableNumbers DEF AtMost, costMore
    <2>3. number["period"] \in Int
      BY <1>m DEF Numbers, Amounts
    <2> HIDE DEF bill, billNext
    <2>4. at >= 1 => Near(number["period"], billNext, costNext)
      <3>1. at >= 1 => number["period"] <= bill + cost /\ bill <= number["period"] + cost
        BY <2>1 DEF RevenueOK, Near, cost, bill
      <3> QED
        BY <1>p, <1>n, <2>1, <2>2, <2>3, <3>1 DEF Near
    <2>5. at >= 2 => Near(number["period"], Total(byDay), costNext)
      <3>1. at >= 2 => /\ number["period"] <= Total(byDay) + cost
                       /\ Total(byDay) <= number["period"] + cost
        BY <2>1 DEF RevenueOK, Near, cost
      <3> QED
        BY <1>p, <1>n, <2>1, <2>3, <3>1 DEF Near
    <2> QED
      BY <1>s, <2>4, <2>5 DEF RevenueOK, Near, billNext, costNext
  <1>5. RowsOK'
    <2>1. /\ {o \in Live : order[o].cleaner \in Cleaners \ todo} = HeldIn(order, Cleaners \ todo)
          /\ {o \in Live : order[o].property \in Properties \ todo} = OfIn(order, Properties \ todo)
      BY <1>t, QueriesNow DEF HeldIn, OfIn
    <2>2. /\ {o \in Live' : order'[o].cleaner \in Cleaners \ todo} = HeldIn(order', Cleaners \ todo)
          /\ {o \in Live' : order'[o].property \in Properties \ todo} = OfIn(order', Properties \ todo)
      BY QueriesNext DEF HeldIn, OfIn
    <2>3. /\ Cardinality(HeldIn(order', Cleaners \ todo)) \in Nat
          /\ Cardinality(HeldIn(order, Cleaners \ todo)) \in Nat
          /\ Cardinality(HeldIn(order, Cleaners \ todo))
               <= Cardinality(HeldIn(order', Cleaners \ todo)) + n
          /\ Cardinality(OfIn(order', Properties \ todo)) \in Nat
          /\ Cardinality(OfIn(order, Properties \ todo)) \in Nat
          /\ Cardinality(OfIn(order, Properties \ todo))
               <= Cardinality(OfIn(order', Properties \ todo)) + n
      BY <1>t, TableNumbers DEF AtMost
    <2>6. RowsOK /\ (kind \in {"cleaners", "properties"} => kind # NULL)
      BY Plans, MarksAssumption DEF StatsInv
    <2>4. kind = "cleaners" => Total(byCleaner) <= Cardinality(HeldIn(order', Cleaners \ todo)) + moved'
      <3>1. kind = "cleaners" => Total(byCleaner) <= Cardinality(HeldIn(order, Cleaners \ todo)) + moved
        BY <2>1, <2>6 DEF RowsOK
      <3> QED
        BY <1>k, <1>n, <2>3, <2>6, <3>1
    <2>5. kind = "properties" =>
            Total(byProperty) <= Cardinality(OfIn(order', Properties \ todo)) + moved'
      <3>1. kind = "properties" => Total(byProperty) <= Cardinality(OfIn(order, Properties \ todo)) + moved
        BY <2>1, <2>6 DEF RowsOK
      <3> QED
        BY <1>k, <1>n, <2>3, <2>6, <3>1
    <2> QED
      BY <1>s, <2>2, <2>4, <2>5, <2>6 DEF RowsOK
  <1> QED
    BY <1>1, <1>2, <1>3, <1>4, <1>5 DEF StatsInv

\* A request that changes one order, and leaves it dated if it is completed.
LEMMA OneChange ==
  ASSUME StatsInv, NEW o \in Orders, NEW r \in Row \cup {Absent},
         order' = [order EXCEPT ![o] = r], Moves(1), UNCHANGED <<hired, now, report>>,
         NEW m \in Moments \cup {NULL}, completion' = [completion EXCEPT ![o] = m],
         r # Absent /\ r.status = "completed" /\ m # NULL => r.completed_at = m
  PROVE  StatsInv'
  <1>1. TypeOK /\ DatedByCompletion
    BY DEF StatsInv
  <1>2. order \in Tables /\ order' \in Tables
    BY <1>1 DEF TypeOK, Tables
  <1>3. moved' \in Nat /\ moved' = IF kind = NULL THEN 0 ELSE moved + 1
    BY <1>1 DEF TypeOK, Moves
  <1>4. completion' \in [Orders -> Moments \cup {NULL}]
    BY <1>1 DEF TypeOK
  <1>5. TypeOK'
    BY <1>1, <1>2, <1>3, <1>4 DEF TypeOK, Tables, report, lists
  <1>6. \A q \in Orders \ {o} : order'[q] = order[q] /\ completion'[q] = completion[q]
    BY <1>1 DEF TypeOK
  <1>7. DatedByCompletion'
    <2>1. order'[o] = r /\ completion'[o] = m
      BY <1>1 DEF TypeOK
    <2> QED
      BY <1>1, <1>6, <2>1 DEF DatedByCompletion, Completed, WithStatus, Live
  <1>8. AtMost(order, order', 1) /\ AtMost(order', order, 1)
    BY <1>2, <1>6, OneOrder
  <1>9. now <= now'
    BY <1>1, Constants DEF TypeOK
  <1> QED
    BY <1>3, <1>5, <1>7, <1>8, <1>9, ChangeKeeps

\* So do the requests that change one.
LEMMA ChangeStep == ASSUME StatsInv, NEW o \in Orders, Change(o) PROVE StatsInv'
  <1>1. /\ TypeOK /\ DatedByCompletion /\ order \in [Orders -> Row \cup {Absent}]
        /\ completion \in [Orders -> Moments \cup {NULL}]
    BY DEF StatsInv, TypeOK
  <1>2. o \in Live => order[o] \in Row
    BY <1>1 DEF Live
  <1>3. /\ "open" \in Statuses /\ "completed" \in Statuses
        /\ Others \subseteq Statuses /\ "completed" \notin Others
        /\ hired \subseteq Cleaners /\ Begun \subseteq Moments
        /\ NULL \notin Moments
    BY <1>1, StatusAssumption, MarksAssumption DEF Statuses, TypeOK, Begun
  <1>4. completion = [completion EXCEPT ![o] = completion[o]] /\ completion[o] \in Moments \cup {NULL}
    BY <1>1
  <1>5. CASE CreateOrder(o)
    <2>1. PICK p \in Properties, price \in Prices :
            order' = [order EXCEPT ![o] =
                        [status |-> "open", completed_at |-> NULL, cleaner |-> NULL,
                         property |-> p, price |-> price]]
      BY <1>5 DEF CreateOrder
    <2> DEFINE r == [status |-> "open", completed_at |-> NULL, cleaner |-> NULL,
                     property |-> p, price |-> price]
    <2>2. r \in Row /\ r.status # "completed"
      BY <1>3 DEF Row
    <2> HIDE DEF r
    <2>3. completion' = [completion EXCEPT ![o] = completion[o]]
      BY <1>4, <1>5 DEF CreateOrder
    <2> QED
      BY <1>4, <1>5, <2>1, <2>2, <2>3, OneChange DEF CreateOrder, r, report, lists
  <1>6. CASE AcceptOrder(o)
    <2>1. PICK c \in hired, s \in Others :
            order' = [order EXCEPT ![o].status = s, ![o].cleaner = c]
      BY <1>6 DEF AcceptOrder
    <2> DEFINE r == [order[o] EXCEPT !.status = s, !.cleaner = c]
    <2>2. order[o] \in Row
      BY <1>2, <1>6 DEF AcceptOrder, WithStatus
    <2>3. r \in Row /\ r.status = s
      BY <1>3, <2>2 DEF Row
    <2>4. order' = [order EXCEPT ![o] = r]
      BY <1>1, <2>1
    <2>5. completion' = [completion EXCEPT ![o] = completion[o]]
      BY <1>4, <1>6 DEF AcceptOrder
    <2> HIDE DEF r
    <2> QED
      BY <1>3, <1>4, <1>6, <2>3, <2>4, <2>5, OneChange DEF AcceptOrder
  <1>7. CASE SetStatus(o)
    <2>1. PICK s \in Statuses, t \in Begun :
            /\ order' = [order EXCEPT ![o].status = s,
                                      ![o].completed_at = IF s = "completed" THEN t ELSE @]
            /\ Said(o, t)
      BY <1>7 DEF SetStatus
    <2> DEFINE r == [order[o] EXCEPT !.status = s,
                                     !.completed_at = IF s = "completed" THEN t ELSE @]
               m == IF s # "completed" THEN NULL ELSE t
    <2>2. order[o] \in Row
      BY <1>2, <1>7 DEF SetStatus
    <2>3. r \in Row /\ r.status = s /\ (s = "completed" => r.completed_at = t)
      BY <1>3, <2>2 DEF Row
    <2>4. order' = [order EXCEPT ![o] = r]
      BY <1>1, <2>1
    <2> HIDE DEF r
    <2>5. m = IF r.status # "completed" THEN NULL ELSE IF t = NULL THEN completion[o] ELSE t
      BY <1>3, <2>1, <2>3
    <2>6. m \in Moments \cup {NULL} /\ (r.status = "completed" => r.completed_at = m)
      BY <1>3, <2>1, <2>3
    <2> HIDE DEF m
    <2>7. completion' = [completion EXCEPT ![o] = m]
      <3>1. order'[o] = r
        BY <1>1, <2>4
      <3> QED
        BY <2>1, <2>5, <3>1 DEF Said
    <2> QED
      BY <1>7, <2>3, <2>4, <2>6, <2>7, OneChange DEF SetStatus
  <1>8. CASE PutStatus(o)
    <2>1. o \in Live /\ order[o] \in Row
      BY <1>2, <1>8 DEF PutStatus
    <2>2. PICK s \in Statuses, t \in Begun \cup {order[o].completed_at}, u \in Begun \cup {NULL} :
            /\ Write(o, s, t) /\ Said(o, u)
            /\ IF u = NULL THEN (s = "completed" => s = order[o].status) /\ t = order[o].completed_at
                           ELSE t = u
      <3>1. order[o].status \in Statuses
        BY <2>1 DEF Row
      <3>2. CASE \E s \in (Statuses \ {"completed"}) \cup {order[o].status} :
                   Write(o, s, order[o].completed_at) /\ Said(o, NULL)
        <4>1. PICK s \in (Statuses \ {"completed"}) \cup {order[o].status} :
                Write(o, s, order[o].completed_at) /\ Said(o, NULL)
          BY <3>2
        <4>2. s \in Statuses /\ (s = "completed" => s = order[o].status)
          BY <3>1
        <4> QED
          BY <4>1, <4>2
      <3>3. CASE \E s \in {"completed", order[o].status}, t \in Begun : Write(o, s, t) /\ Said(o, t)
        <4>1. PICK s \in {"completed", order[o].status}, t \in Begun : Write(o, s, t) /\ Said(o, t)
          BY <3>3
        <4>2. s \in Statuses /\ t # NULL
          BY <1>3, <3>1
        <4> QED
          BY <4>1, <4>2
      <3> QED
        BY <1>8, <3>2, <3>3 DEF PutStatus
    <2>3. PICK c \in hired \cup {NULL, order[o].cleaner}, price \in Prices :
            order' = [order EXCEPT ![o] =
              [order[o] EXCEPT !.status = s, !.completed_at = t, !.cleaner = c, !.price = price]]
      BY <2>2 DEF Write
    <2> DEFINE r == [order[o] EXCEPT !.status = s, !.completed_at = t, !.cleaner = c,
                                     !.price = price]
               m == IF s # "completed" THEN NULL ELSE IF u = NULL THEN completion[o] ELSE u
    <2>4. r \in Row /\ r.status = s /\ r.completed_at = t
      <3>1. t \in Moments \cup {NULL} /\ c \in Cleaners \cup {NULL}
        BY <1>3, <2>1 DEF Row
      <3> QED
        BY <2>1, <3>1 DEF Row
    <2>5. order' = [order EXCEPT ![o] = r]
      BY <2>3
    <2> HIDE DEF r
    <2>6. m \in Moments \cup {NULL}
      BY <1>3, <1>4
    <2>7. r.status = "completed" /\ m # NULL => r.completed_at = m
      <3>1. order[o].status = "completed" /\ completion[o] # NULL
              => order[o].completed_at = completion[o]
        BY <1>1, <2>1 DEF DatedByCompletion, Completed, WithStatus
      <3> QED
        BY <2>2, <2>4, <3>1
    <2>8. m = IF r.status # "completed" THEN NULL ELSE IF u = NULL THEN completion[o] ELSE u
      BY <2>4
    <2> HIDE DEF m
    <2>9. completion' = [completion EXCEPT ![o] = m]
      <3>1. order'[o] = r
        BY <1>1, <2>5
      <3> QED
        BY <2>2, <2>8, <3>1 DEF Said
    <2> QED
      BY <1>8, <2>4, <2>5, <2>6, <2>7, <2>9, OneChange DEF PutStatus
  <1>9. CASE PutName(o)
    <2>1. order[o] \in Row
      BY <1>2, <1>9 DEF PutName
    <2>2. PICK c \in hired \cup {NULL, order[o].cleaner}, price \in Prices :
            order' = [order EXCEPT ![o] =
              [order[o] EXCEPT !.status = "completed", !.completed_at = order[o].completed_at,
                               !.cleaner = c, !.price = price]]
      BY <1>9 DEF PutName, Write
    <2> DEFINE r == [order[o] EXCEPT !.status = "completed",
                                     !.completed_at = order[o].completed_at, !.cleaner = c,
                                     !.price = price]
    <2>3. r \in Row
      <3>1. c \in Cleaners \cup {NULL}
        BY <1>3, <2>1 DEF Row
      <3> QED
        BY <1>3, <2>1, <3>1 DEF Row
    <2>4. order' = [order EXCEPT ![o] = r]
      BY <2>2
    <2> HIDE DEF r
    <2> QED
      BY <1>9, <2>3, <2>4, OneChange DEF PutName
  <1>10. CASE Cancel(o)
    <2>1. PICK s \in Others : order' = [order EXCEPT ![o].status = s] /\ Said(o, NULL)
      BY <1>10 DEF Cancel
    <2> DEFINE r == [order[o] EXCEPT !.status = s]
    <2>2. order[o] \in Row
      BY <1>2, <1>10 DEF Cancel
    <2>3. r \in Row /\ r.status = s /\ s # "completed"
      BY <1>3, <2>2 DEF Row
    <2>4. order' = [order EXCEPT ![o] = r]
      BY <1>1, <2>1
    <2> HIDE DEF r
    <2>5. completion' = [completion EXCEPT ![o] = NULL]
      <3>1. order'[o] = r
        BY <1>1, <2>4
      <3> QED
        BY <2>1, <2>3, <3>1 DEF Said
    <2> QED
      BY <1>10, <2>3, <2>4, <2>5, OneChange DEF Cancel
  <1>11. CASE DeleteOrder(o)
    BY <1>11, OneChange DEF DeleteOrder
  <1> QED
    BY <1>5, <1>6, <1>7, <1>8, <1>9, <1>10, <1>11 DEF Change

\* So does delete_cleaner, however many orders the cleaner has.
LEMMA DeleteCleanerStep == ASSUME StatsInv, NEW c \in Cleaners, DeleteCleaner(c) PROVE StatsInv'
  <1> DEFINE held == {o \in Live : order[o].cleaner = c}
             n == Cardinality(held)
  <1>1. TypeOK /\ DatedByCompletion
    BY DEF StatsInv
  <1>2. /\ hired' = hired \ {c}
        /\ order' = [o \in Orders |-> IF o \in held THEN [order[o] EXCEPT !.cleaner = NULL]
                                       ELSE order[o]]
        /\ Moves(n) /\ UNCHANGED <<now, report, completion>>
    BY DEF DeleteCleaner
  <1>3. /\ held \in SUBSET Orders /\ n \in Nat
        /\ order \in Tables /\ \A o \in Live : order[o] \in Row
    <2>1. held \in SUBSET Orders
      BY DEF Live
    <2> HIDE DEF held
    <2>2. n \in Nat
      BY <2>1, DomainsFinite, FS_Subset, FS_CardinalityType
    <2> QED
      BY <1>1, <2>1, <2>2 DEF TypeOK, Tables, Live
  <1>4. \A o \in Live : /\ order'[o] \in Row
                         /\ order'[o].status = order[o].status
                         /\ order'[o].price = order[o].price
                         /\ order'[o].completed_at = order[o].completed_at
                         /\ order'[o].property = order[o].property
    BY <1>2, <1>3 DEF Live, Row
  <1>5. /\ \A o \in Orders \ held : order'[o] = order[o]
        /\ \A o \in Orders \ Live : order'[o] = order[o]
    BY <1>2
  <1>6. order' \in Tables /\ LiveIn(order') = LiveIn(order) /\ LiveIn(order) = Live
    <2>1. LiveIn(order) = Live
      BY DEF LiveIn, Live
    <2>2. order' = [o \in Orders |-> order'[o]]
      BY <1>2
    <2> QED
      BY <1>3, <1>4, <1>5, <2>1, <2>2, MarksAssumption DEF Tables, LiveIn, Live
  <1>7. moved' \in Nat /\ moved' = IF kind = NULL THEN 0 ELSE moved + n
    <2> HIDE DEF n
    <2> QED
      BY <1>1, <1>2, <1>3 DEF TypeOK, Moves
  <1>8. TypeOK'
    BY <1>1, <1>2, <1>6, <1>7 DEF TypeOK, Tables, report, lists
  <1>9. DatedByCompletion'
    <2>1. Live' = Live
      BY <1>6 DEF LiveIn, Live
    <2> QED
      BY <1>1, <1>2, <1>4, <2>1 DEF DatedByCompletion, Completed, WithStatus
  <1>10. AtMost(order, order', n) /\ AtMost(order', order, n)
    <2> HIDE DEF held
    <2> QED
      BY <1>3, <1>4, <1>5, <1>6, OtherCleaners
  <1>11. now <= now'
    BY <1>1, <1>2, Constants DEF TypeOK
  <1>12. UNCHANGED report
    BY <1>2
  <1> HIDE DEF n
  <1> QED
    BY <1>3, <1>7, <1>8, <1>9, <1>10, <1>11, <1>12, ChangeKeeps

\* A table has nothing more than itself.
LEMMA SameTable == ASSUME NEW t \in Tables PROVE AtMost(t, t, 0)
  <1>1. Worth * 0 = 0
    BY Constants
  <1> QED
    BY <1>1, TableNumbers DEF AtMost

\* The clock goes on, or nothing happens.
LEMMA QuietStep ==
  ASSUME StatsInv, UNCHANGED <<tables, report, moved, completion>>, now' = now \/ Tick
  PROVE  StatsInv'
  <1>1. TypeOK /\ DatedByCompletion /\ BeginOK
    BY DEF StatsInv
  <1>2. now' \in Moments /\ now <= now'
    BY <1>1, Constants DEF TypeOK, Tick, Moments
  <1>3. TypeOK'
    BY <1>1, <1>2 DEF TypeOK, tables, report, lists
  <1>4. DatedByCompletion'
    BY <1>1 DEF DatedByCompletion, Completed, WithStatus, Live, tables
  <1>5. moved' = IF kind = NULL THEN 0 ELSE moved + 0
    BY <1>1 DEF BeginOK, TypeOK
  <1>6. AtMost(order, order', 0) /\ AtMost(order', order, 0)
    BY <1>1, SameTable, QueriesNow DEF tables
  <1> QED
    BY <1>2, <1>3, <1>4, <1>5, <1>6, ChangeKeeps

------------------------------------------------------------------------------
(* What one SELECT returns                                                 *)

\* No number exceeds the one that it is a part of, and no sum what its orders can be
\* worth.
LEMMA QueryNumbers ==
  ASSUME TypeOK
  PROVE  /\ Cardinality(Live) \in Nat /\ Cardinality(Completed) \in Nat
         /\ Cardinality(Completed) <= Cardinality(Live)
         /\ Cardinality(WithStatus("open")) \in Nat
         /\ Cardinality(WithStatus("open")) + Cardinality(Completed) <= Cardinality(Live)
         /\ Revenue(Completed) \in Int
         /\ Worthy(Revenue(Completed), Cardinality(Completed))
         /\ \A from, to : /\ Cardinality(Done(from, to)) \in Nat
                          /\ Cardinality(Done(from, to)) <= Cardinality(Completed)
                          /\ Cardinality(Completed \ Done(from, to))
                               = Cardinality(Completed) - Cardinality(Done(from, to))
                          /\ Revenue(Done(from, to)) \in Int
                          /\ Worthy(Revenue(Done(from, to)), Cardinality(Done(from, to)))
  <1> DEFINE open == WithStatus("open")
  <1>1. /\ Live \in SUBSET Orders /\ Completed \in SUBSET Live /\ open \in SUBSET Live
        /\ \A from, to : Done(from, to) \in SUBSET Completed
        /\ open \cap Completed = {}
    BY DEF Live, Completed, WithStatus, Done
  <1>2. order \in Tables /\ Live = LiveIn(order) /\ \A S \in SUBSET Live : Revenue(S) = Bill(order, S)
    BY QueriesNow
  <1> HIDE DEF open
  <1>3. \A S \in SUBSET Orders : IsFiniteSet(S) /\ Cardinality(S) \in Nat
    BY <1>2, TableSets
  <1>4. \A S \in SUBSET Orders : \A T \in SUBSET S : Cardinality(T) <= Cardinality(S)
    BY <1>2, TableSets
  <1>5. \A S \in SUBSET Live : Revenue(S) \in Int /\ Worthy(Revenue(S), Cardinality(S))
    BY <1>1, <1>2, BillType
  <1>6. Cardinality(open) + Cardinality(Completed) <= Cardinality(Live)
    <2>1. /\ IsFiniteSet(open) /\ IsFiniteSet(Completed)
          /\ open \cup Completed \in SUBSET Live
      BY <1>1, <1>3
    <2>2. Cardinality(open \cup Completed)
            = Cardinality(open) + Cardinality(Completed) - Cardinality(open \cap Completed)
      BY <2>1, FS_Union
    <2>3. Cardinality(open \cap Completed) = 0
      BY <1>1, FS_EmptySet
    <2>4. Cardinality(open \cup Completed) <= Cardinality(Live)
      BY <1>1, <1>4, <2>1
    <2>5. Cardinality(open) \in Nat /\ Cardinality(Completed) \in Nat
      BY <1>1, <1>3
    <2> QED
      BY <2>2, <2>3, <2>4, <2>5
  <1>7. /\ Cardinality(Live) \in Nat /\ Cardinality(Completed) \in Nat
        /\ Cardinality(Completed) <= Cardinality(Live) /\ Cardinality(open) \in Nat
    BY <1>1, <1>3, <1>4
  <1>8. Revenue(Completed) \in Int /\ Worthy(Revenue(Completed), Cardinality(Completed))
    BY <1>1, <1>5
  <1>9. ASSUME NEW from, NEW to
        PROVE  /\ Cardinality(Done(from, to)) \in Nat
               /\ Cardinality(Done(from, to)) <= Cardinality(Completed)
               /\ Cardinality(Completed \ Done(from, to))
                    = Cardinality(Completed) - Cardinality(Done(from, to))
               /\ Revenue(Done(from, to)) \in Int
               /\ Worthy(Revenue(Done(from, to)), Cardinality(Done(from, to)))
    <2>1. Done(from, to) \in SUBSET Completed /\ Done(from, to) \in SUBSET Live
      BY <1>1
    <2>2. Done(from, to) \in SUBSET Orders /\ Completed \in SUBSET Orders
      BY <1>1
    <2>3. Cardinality(Completed \ Done(from, to))
            = Cardinality(Completed) - Cardinality(Completed \cap Done(from, to))
      BY <1>3, <2>2, FS_Difference
    <2>4. Completed \cap Done(from, to) = Done(from, to)
      BY <2>1
    <2> QED
      BY <1>1, <1>3, <1>4, <1>5, <2>1, <2>2, <2>3, <2>4
  <1> QED
    BY <1>6, <1>7, <1>8, <1>9 DEF open

\* A later beginning of the period leaves no more in it, and the period no more than all,
\* except by what the orders left out can be below 0.
LEMMA ShorterPeriod ==
  ASSUME TypeOK, NEW from \in Moments, NEW low \in Moments, low <= from, NEW to,
         NEW n \in Nat, Cardinality(Completed \ Done(from, to)) <= n
  PROVE  /\ Revenue(Done(from, to)) <= Revenue(Done(low, to)) + MaxCredit * n
         /\ Revenue(Done(low, to)) <= Revenue(Completed) + MaxCredit * n
  <1> DEFINE late == Done(from, to)
             all == Done(low, to)
  <1>1. late \in SUBSET all
    <2> SUFFICES ASSUME NEW m, m \in from..to PROVE m \in low..to
      BY DEF Done
    <2> QED
      BY Constants
  <1>2. /\ Completed \in SUBSET LiveIn(order) /\ Completed \in SUBSET Orders
        /\ all \in SUBSET Completed
    BY DEF Done, Completed, WithStatus, Live, LiveIn
  <1> HIDE DEF late, all
  <1>3. /\ Cardinality(all \ late) \in Nat /\ Cardinality(Completed \ all) \in Nat
        /\ Cardinality(Completed \ late) \in Nat
        /\ Cardinality(all \ late) <= Cardinality(Completed \ late)
        /\ Cardinality(Completed \ all) <= Cardinality(Completed \ late)
    <2>1. /\ all \ late \in SUBSET (Completed \ late) /\ Completed \ all \in SUBSET (Completed \ late)
          /\ Completed \ late \in SUBSET Orders /\ all \ late \in SUBSET Orders
          /\ Completed \ all \in SUBSET Orders
      BY <1>1, <1>2
    <2> QED
      BY <2>1, QueriesNow, TableSets
  <1>4. ASSUME NEW S \in SUBSET Completed, NEW T \in SUBSET S, Cardinality(S \ T) <= n
        PROVE  Revenue(T) <= Revenue(S) + MaxCredit * n
    <2>1. /\ Revenue(T) = Bill(order, T) /\ Revenue(S) = Bill(order, S) /\ order \in Tables
          /\ S \in SUBSET Orders /\ T \in SUBSET Orders /\ S \ T \in SUBSET Orders
      <3>1. S \in SUBSET LiveIn(order) /\ T \in SUBSET LiveIn(order)
        BY <1>2
      <3> QED
        BY <1>2, <3>1, QueriesNow
    <2> DEFINE credit == MaxCredit * Cardinality(S \ T)
               most == MaxCredit * n
    <2>2. Revenue(T) <= Revenue(S) + credit /\ Revenue(T) \in Int /\ Revenue(S) \in Int
      BY <2>1, BillType
    <2>3. credit <= most /\ credit \in Nat /\ most \in Nat
      <3>1. Cardinality(S \ T) \in Nat
        BY <2>1, TableSets
      <3> QED
        BY <1>4, <3>1, Constants, Products
    <2> HIDE DEF credit, most
    <2>4. Revenue(T) <= Revenue(S) + most
      BY <2>2, <2>3
    <2> QED
      BY <2>4 DEF most
  <1>5. Cardinality(all \ late) <= n /\ Cardinality(Completed \ all) <= n
    BY <1>3 DEF late
  <1> QED
    BY <1>1, <1>2, <1>4, <1>5 DEF late, all

\* The days of a report share out what was completed in its period.
LEMMA DaysAddUp ==
  ASSUME TypeOK
  PROVE  RevenueByDay \in [Days -> Int] /\ Total(RevenueByDay) = Revenue(Done(since, until))
  <1> DEFINE done == Done(since, until)
             group == [d \in Days |-> {o \in done : order[o].completed_at \div Day = d}]
             price == PriceIn(order)
             g == RevenueByDay
  <1>1. done \in SUBSET LiveIn(order) /\ done \in SUBSET Orders
    BY DEF Done, Completed, WithStatus, Live, LiveIn
  <1>2. order \in Tables /\ \A S \in SUBSET LiveIn(order) : Revenue(S) = Bill(order, S)
    BY QueriesNow
  <1>3. \A o \in done : order[o].completed_at \in 0..LastMoment
    BY <1>1, <1>2, TableSets DEF Done, Row, Moments
  <1>4. \A o \in done : order[o].completed_at \div Day \in Days
    <2>1. \A m \in 0..LastMoment : m \div Day \in 0..(LastMoment \div Day)
      BY Constants
    <2> QED
      BY <1>3, <2>1 DEF Days
  <1>5. /\ group \in [Days -> SUBSET done]
        /\ \A d, e \in Days : d # e => group[d] \cap group[e] = {}
    OBVIOUS
  <1>6. UNION {group[d] : d \in Days} = done
    BY <1>4
  <1>7. \A d \in Days : g[d] = Revenue(group[d])
    BY DEF RevenueByDay
  <1>8. /\ IsFiniteSet(done) /\ \A o \in done : price[o] \in Int
        /\ \A S \in SUBSET done : Bill(order, S) \in Int
    <2>1. \A o \in done : price[o] \in Int
      BY <1>1, <1>2, TableSets
    <2> QED
      BY <1>1, <1>2, <2>1, Constants, TableSets, BillType
  <1>9. DOMAIN g = Days /\ g = [d \in Days |-> g[d]]
    BY DEF RevenueByDay
  <1> HIDE DEF done, group, g
  <1>10. \A d \in Days : g[d] = Bill(order, group[d]) /\ g[d] \in Int
    BY <1>1, <1>2, <1>5, <1>7, <1>8
  <1>11. \A d \in Days : g[d] = SumOver(price, group[d])
    BY <1>10 DEF Bill
  <1> HIDE DEF price
  <1>12. SumOver(g, Days) = SumOver(price, UNION {group[d] : d \in Days})
    BY <1>5, <1>8, <1>11, DomainsFinite, SumGroups
  <1>13. SumOver(g, Days) = Bill(order, done)
    BY <1>6, <1>12 DEF Bill, price
  <1>14. g \in [Days -> Int]
    BY <1>9, <1>10
  <1>15. Total(g) = Revenue(done)
    BY <1>1, <1>2, <1>13, <1>14, DomainsFinite, TotalType
  <1> QED
    BY <1>14, <1>15 DEF g, done

\* The statuses share out all orders.
LEMMA StatusesAddUp ==
  ASSUME TypeOK
  PROVE  /\ CountByStatus \in [Statuses -> Nat] /\ Total(CountByStatus) = Cardinality(Live)
         /\ CountByStatus["completed"] = Cardinality(Completed)
  <1> DEFINE group == [s \in Statuses |-> WithStatus(s)]
             g == CountByStatus
  <1>1. Live \in SUBSET Orders /\ \A o \in Live : order[o].status \in Statuses
    BY DEF Live, TypeOK, Row
  <1>2. /\ group \in [Statuses -> SUBSET Live]
        /\ \A s, t \in Statuses : s # t => group[s] \cap group[t] = {}
    BY DEF WithStatus
  <1>3. UNION {group[s] : s \in Statuses} = Live
    BY <1>1 DEF WithStatus
  <1>4. \A s \in Statuses : g[s] = Cardinality(group[s])
    BY DEF CountByStatus
  <1>5. IsFiniteSet(Live) /\ \A S \in SUBSET Live : Cardinality(S) \in Nat
    BY <1>1, QueriesNow, TableSets
  <1>6. g = [s \in Statuses |-> g[s]]
    BY DEF CountByStatus
  <1>7. CountByStatus["completed"] = Cardinality(Completed)
    BY DEF CountByStatus, Completed, Statuses
  <1> HIDE DEF group, g
  <1>8. g \in [Statuses -> Nat] /\ g \in [Statuses -> Int]
    BY <1>2, <1>4, <1>5, <1>6
  <1>9. SumOver(g, Statuses) = Cardinality(UNION {group[s] : s \in Statuses})
    BY <1>2, <1>4, <1>5, DomainsFinite, SizeOfGroups
  <1>10. Total(g) = Cardinality(Live)
    BY <1>3, <1>8, <1>9, DomainsFinite, TotalType
  <1> QED
    BY <1>7, <1>8, <1>10 DEF g

\* The properties of a list have no more than all orders.
LEMMA PropertiesAddUp ==
  ASSUME TypeOK, NEW top
  PROVE  /\ CountByProperty(top) \in [Properties -> Nat]
         /\ Total(CountByProperty(top)) <= Cardinality(Live)
  <1> DEFINE group == [p \in Properties |-> IF p \in top THEN OrdersOf(p) ELSE {}]
             all == UNION {group[p] : p \in Properties}
             g == CountByProperty(top)
  <1>1. Live \in SUBSET Orders
    BY DEF Live
  <1>2. /\ group \in [Properties -> SUBSET Live]
        /\ \A p, q \in Properties : p # q => group[p] \cap group[q] = {}
    BY DEF OrdersOf
  <1>3. all \in SUBSET Live
    BY <1>2
  <1>4. \A p \in Properties : g[p] = Cardinality(group[p])
    BY FS_EmptySet DEF CountByProperty
  <1>5. IsFiniteSet(Live) /\ \A S \in SUBSET Live : Cardinality(S) \in Nat
    BY <1>1, QueriesNow, TableSets
  <1>6. g = [p \in Properties |-> g[p]]
    BY DEF CountByProperty
  <1> HIDE DEF group, g
  <1>7. g \in [Properties -> Nat] /\ g \in [Properties -> Int]
    BY <1>2, <1>4, <1>5, <1>6
  <1>8. SumOver(g, Properties) = Cardinality(all)
    BY <1>2, <1>4, <1>5, DomainsFinite, SizeOfGroups
  <1>9. Cardinality(all) <= Cardinality(Live)
    BY <1>1, <1>3, QueriesNow, TableSets
  <1>10. Total(g) = SumOver(g, Properties)
    BY <1>7, DomainsFinite, TotalType
  <1>11. Total(g) <= Cardinality(Live)
    BY <1>8, <1>9, <1>10
  <1> QED
    BY <1>7, <1>11 DEF g

\* A number put where nothing was adds to the total.
LEMMA TotalOneMore ==
  ASSUME NEW D, IsFiniteSet(D), NEW f \in [D -> Nat], NEW x \in D, f[x] = 0, NEW n \in Nat
  PROVE  Total([f EXCEPT ![x] = n]) = Total(f) + n
  <1> DEFINE g == [f EXCEPT ![x] = n]
  <1>1. g \in [D -> Nat] /\ g \in [D -> Int] /\ f \in [D -> Int] /\ g[x] = n /\ \A y \in D \ {x} : g[y] = f[y]
    OBVIOUS
  <1> HIDE DEF g
  <1>2. IsFiniteSet(D \ {x}) /\ \A y \in D : f[y] \in Int /\ g[y] \in Int
    BY <1>1, FS_RemoveElement
  <1>3. /\ SumOver(f, D) = f[x] + SumOver(f, D \ {x})
        /\ SumOver(g, D) = g[x] + SumOver(g, D \ {x})
    BY <1>2, SumRemove
  <1>4. SumOver(g, D \ {x}) = SumOver(f, D \ {x}) /\ SumOver(f, D \ {x}) \in Int
    BY <1>1, <1>2, SumSame, SumType
  <1>5. Total(f) = SumOver(f, D) /\ Total(g) = SumOver(g, D)
    BY <1>1, TotalType
  <1>6. Total(g) = Total(f) + n
    BY <1>1, <1>3, <1>4, <1>5
  <1> QED
    BY <1>6 DEF g

\* The sizes of sets that have nothing in common add up.
LEMMA SizesAddUp ==
  ASSUME NEW S \in SUBSET Orders, NEW T \in SUBSET Orders, NEW U \in SUBSET Orders,
         S \cap T = {}, S \cup T \subseteq U
  PROVE  Cardinality(S) + Cardinality(T) <= Cardinality(U)
  <1>1. IsFiniteSet(S) /\ IsFiniteSet(T) /\ IsFiniteSet(U)
    BY DomainsFinite, FS_Subset
  <1>2. Cardinality(S \cup T) = Cardinality(S) + Cardinality(T) - Cardinality(S \cap T)
    BY <1>1, FS_Union
  <1>3. Cardinality(S \cap T) = 0
    BY FS_EmptySet
  <1>4. Cardinality(S \cup T) <= Cardinality(U)
    BY <1>1, FS_Subset
  <1>5. Cardinality(S) \in Nat /\ Cardinality(T) \in Nat
    BY <1>1, FS_CardinalityType
  <1> QED
    BY <1>2, <1>3, <1>4, <1>5

------------------------------------------------------------------------------
(* Steps of a report                                                       *)

\* Nothing that a report does dates an order.
LEMMA StillDated ==
  ASSUME DatedByCompletion, UNCHANGED <<order, completion>>
  PROVE  DatedByCompletion'
  BY DEF DatedByCompletion, Completed, WithStatus, Live

\* The period of the dashboard begins at a moment, at the first or a day ago at least.
LEMMA BackInTime ==
  ASSUME TypeOK
  PROVE  LET from == Max({0, now - Period * Day}) IN
         from \in Moments /\ (from = 0 \/ from + Day <= now)
  <1> DEFINE back == now - Period * Day
             from == Max({0, back})
  <1>1. Period * Day \in Nat /\ Day <= Period * Day /\ now \in 0..LastMoment
    <2>1. Day * 1 <= Day * Period /\ Day * Period \in Nat
      BY Constants, Products
    <2>2. Day * 1 = Day /\ Day * Period = Period * Day
      BY Constants
    <2> QED
      BY <2>1, <2>2, Constants DEF TypeOK, Moments
  <1>2. back \in Int /\ back + Day <= now /\ back <= LastMoment
    BY <1>1, Constants
  <1> HIDE DEF back
  <1>3. from \in {0, back} /\ from >= 0
    <2>1. \E x \in {0, back} : \A y \in {0, back} : x >= y
      BY <1>2
    <2> QED
      BY <2>1 DEF Max
  <1> HIDE DEF from
  <1>4. from \in Moments /\ (from = 0 \/ from + Day <= now)
    BY <1>2, <1>3, Constants DEF Moments
  <1> QED
    BY <1>4 DEF from, back

\* A report begins with nothing read, and with a period of whole days up to now.
LEMMA AskStep == ASSUME StatsInv, NEW k \in Kinds, Ask(k) PROVE StatsInv'
  <1>1. TypeOK /\ DatedByCompletion /\ BeginOK
    BY DEF StatsInv
  <1>3. /\ kind = NULL /\ kind' = k
        /\ k = "dashboard" => since' = Max({0, now - Period * Day}) /\ until' = LastMoment
        /\ UNCHANGED <<tables, now, at, today, todo, number, lists, moved, completion>>
    BY DEF Ask
  <1>4. /\ at = 0 /\ moved = 0 /\ todo = {}
        /\ byCleaner = None(Cleaners) /\ byProperty = None(Properties)
    BY <1>1, <1>3 DEF BeginOK
  <1>2. since' \in Moments /\ until' \in Moments
    <2>1. CASE k = "revenue"
      <3>1. PICK span \in Spans : since' = span[1] /\ until' = span[2]
        BY <2>1 DEF Ask
      <3>2. span \in Moments \X Moments
        BY TimeAssumption
      <3> QED
        BY <3>1, <3>2
    <2>2. CASE k = "dashboard"
      <3>1. since' = Max({0, now - Period * Day}) /\ until' = LastMoment
        BY <2>2 DEF Ask
      <3> QED
        BY <1>1, <3>1, BackInTime, Constants
    <2>3. CASE k \notin {"revenue", "dashboard"}
      BY <1>1, <2>3 DEF Ask, TypeOK
    <2> QED
      BY <2>1, <2>2, <2>3
  <1>5. TypeOK'
    BY <1>1, <1>2, <1>3 DEF TypeOK, tables, lists
  <1>6. DatedByCompletion'
    BY <1>1, <1>3, StillDated DEF tables
  <1>7. BeginOK'
    <2>1. Len(Plan[k]) >= 0
      BY Plans
    <2> QED
      BY <1>3, <1>4, <2>1, MarksAssumption DEF BeginOK, lists
  <1>8. FrontPageOK' /\ RevenueOK'
    BY <1>3, <1>4 DEF FrontPageOK, RevenueOK
  <1>9. DashboardOK'
    <2> SUFFICES ASSUME k = "dashboard" PROVE DashboardOK'
      BY <1>3 DEF DashboardOK
    <2>1. until' = LastMoment /\ since' = Max({0, now - Period * Day})
      BY <1>3
    <2>4. since' = 0 \/ since' + Day <= now
      BY <1>1, <2>1, BackInTime
    <2> QED
      BY <1>3, <1>4, <2>1, <2>4 DEF DashboardOK
  <1>10. RowsOK'
    <2>1. /\ Total(None(Cleaners)) = 0 /\ Total(None(Properties)) = 0
      BY DomainsFinite, TotalNone
    <2>2. /\ byCleaner' = None(Cleaners) /\ byProperty' = None(Properties)
          /\ todo' = {} /\ moved' = 0
      BY <1>3, <1>4 DEF lists
    <2> DEFINE held == {o \in Live' : order'[o].cleaner \in Cleaners \ todo'}
               of == {o \in Live' : order'[o].property \in Properties \ todo'}
    <2>3. held \in SUBSET Orders /\ of \in SUBSET Orders
      BY DEF Live
    <2> HIDE DEF held, of
    <2>4. Cardinality(held) \in Nat /\ Cardinality(of) \in Nat
      BY <2>3, DomainsFinite, FS_Subset, FS_CardinalityType
    <2>5. /\ Total(byCleaner)' <= Cardinality(held) + moved'
          /\ Total(byProperty)' <= Cardinality(of) + moved'
      BY <2>1, <2>2, <2>4 DEF Total
    <2>6. /\ \A c \in todo' : byCleaner'[c] = 0
          /\ \A p \in todo' : byProperty'[p] = 0
      BY <2>2
    <2> QED
      BY <2>2, <2>5, <2>6 DEF RowsOK, held, of
  <1> QED
    BY <1>5, <1>6, <1>7, <1>8, <1>9, <1>10 DEF StatsInv

\* The answer leaves nothing behind.
LEMMA ReplyStep == ASSUME StatsInv, Reply PROVE StatsInv'
  <1>1. TypeOK /\ DatedByCompletion
    BY DEF StatsInv
  <1>2. /\ kind' = NULL /\ at' = 0 /\ since' = 0 /\ until' = 0 /\ today' = 0 /\ moved' = 0
        /\ number' = None(Numbers) /\ byDay' = None(Days) /\ byStatus' = None(Statuses)
        /\ byCleaner' = None(Cleaners) /\ byProperty' = None(Properties)
        /\ UNCHANGED <<tables, now, todo, completion>> /\ todo = {}
    BY DEF Reply
  <1>3. TypeOK'
    <2>1. /\ None(Numbers) \in [Numbers -> Int] /\ None(Days) \in [Days -> Int]
          /\ \A name \in Counts : None(Numbers)[name] \in Nat
          /\ None(Statuses) \in [Statuses -> Nat] /\ None(Cleaners) \in [Cleaners -> Nat]
          /\ None(Properties) \in [Properties -> Nat]
      BY DEF None, Numbers
    <2> QED
      BY <1>1, <1>2, <2>1, Constants DEF TypeOK, tables
  <1>4. DatedByCompletion'
    BY <1>1, <1>2, StillDated DEF tables
  <1>5. kind' \notin {"basic", "dashboard", "revenue", "cleaners", "properties"}
    BY <1>2, Plans, MarksAssumption
  <1>6. BeginOK' /\ FrontPageOK' /\ DashboardOK' /\ RevenueOK' /\ RowsOK'
    BY <1>2, <1>5 DEF BeginOK, FrontPageOK, DashboardOK, RevenueOK, RowsOK
  <1> QED
    BY <1>3, <1>4, <1>6 DEF StatsInv

\* A row of the list of cleaners is counted: its orders are of no other row.
LEMMA CountOfCleanerStep ==
  ASSUME StatsInv, NEW c \in Cleaners, CountOfCleaner(c)
  PROVE  StatsInv'
  <1> DEFINE counted == {o \in Live : order[o].cleaner \in Cleaners \ todo}
             next == {o \in Live : order[o].cleaner \in Cleaners \ (todo \ {c})}
             n == Cardinality(CompletedOf(c))
  <1>1. TypeOK /\ DatedByCompletion /\ BeginOK /\ RowsOK
    BY DEF StatsInv
  <1>2. /\ kind = "cleaners" /\ c \in todo /\ todo' = todo \ {c}
        /\ byCleaner' = [byCleaner EXCEPT ![c] = n]
        /\ UNCHANGED <<tables, now, kind, at, since, until, today, number, byDay, byStatus,
                       byProperty, moved, completion>>
    BY DEF CountOfCleaner
  <1>3. /\ CompletedOf(c) \in SUBSET Orders /\ counted \in SUBSET Orders
        /\ next \in SUBSET Orders /\ counted \cap CompletedOf(c) = {}
        /\ counted \cup CompletedOf(c) \subseteq next
    BY <1>2 DEF CompletedOf, Completed, WithStatus, Live
  <1>4. /\ todo \subseteq Cleaners /\ \A d \in todo : byCleaner[d] = 0
        /\ Total(byCleaner) <= Cardinality(counted) + moved
    BY <1>1, <1>2 DEF RowsOK
  <1>5. /\ next = {o \in Live' : order'[o].cleaner \in Cleaners \ todo'}
    BY <1>2 DEF tables, Live
  <1> HIDE DEF counted, next
  <1>6. n \in Nat /\ Cardinality(counted) \in Nat /\ Cardinality(next) \in Nat
    BY <1>3, DomainsFinite, FS_Subset, FS_CardinalityType
  <1>7. Cardinality(counted) + n <= Cardinality(next)
    BY <1>3, SizesAddUp
  <1> HIDE DEF n
  <1>8. TypeOK'
    BY <1>1, <1>2, <1>6 DEF TypeOK, tables
  <1>9. Total(byCleaner)' <= Cardinality(next) + moved'
    <2>1. byCleaner \in [Cleaners -> Nat] /\ byCleaner[c] = 0 /\ moved \in Nat
      BY <1>1, <1>2, <1>4 DEF TypeOK
    <2>2. Total([byCleaner EXCEPT ![c] = n]) = Total(byCleaner) + n
      BY <1>6, <2>1, DomainsFinite, TotalOneMore
    <2>3. Total(byCleaner)' = Total(byCleaner) + n
      BY <1>2, <2>2 DEF Total
    <2>4. Total(byCleaner) \in Nat
      BY <1>1, ReportNumbers
    <2> QED
      BY <1>2, <1>4, <1>6, <1>7, <2>1, <2>3, <2>4
  <1>10. RowsOK'
    <2>1. todo' \subseteq Cleaners /\ \A d \in todo' : byCleaner'[d] = 0
      BY <1>1, <1>2, <1>4 DEF TypeOK
    <2> QED
      BY <1>2, <1>5, <1>9, <2>1 DEF RowsOK
  <1>11. DatedByCompletion'
    BY <1>1, <1>2, StillDated DEF tables
  <1>12. BeginOK' /\ FrontPageOK' /\ DashboardOK' /\ RevenueOK'
    <2>1. at # 0 /\ kind # NULL
      BY <1>1, <1>2, Plans, MarksAssumption DEF BeginOK
    <2> QED
      BY <1>1, <1>2, <2>1 DEF BeginOK, FrontPageOK, DashboardOK, RevenueOK
  <1> QED
    BY <1>8, <1>10, <1>11, <1>12 DEF StatsInv

\* So are those of a property.
LEMMA CountOfPropertyStep ==
  ASSUME StatsInv, NEW p \in Properties, CountOfProperty(p)
  PROVE  StatsInv'
  <1> DEFINE counted == {o \in Live : order[o].property \in Properties \ todo}
             next == {o \in Live : order[o].property \in Properties \ (todo \ {p})}
             n == Cardinality(OrdersOf(p))
  <1>1. TypeOK /\ DatedByCompletion /\ BeginOK /\ RowsOK
    BY DEF StatsInv
  <1>2. /\ kind = "properties" /\ p \in todo /\ todo' = todo \ {p}
        /\ byProperty' = [byProperty EXCEPT ![p] = n]
        /\ UNCHANGED <<tables, now, kind, at, since, until, today, number, byDay, byStatus,
                       byCleaner, moved, completion>>
    BY DEF CountOfProperty
  <1>3. /\ OrdersOf(p) \in SUBSET Orders /\ counted \in SUBSET Orders
        /\ next \in SUBSET Orders /\ counted \cap OrdersOf(p) = {}
        /\ counted \cup OrdersOf(p) \subseteq next
    BY <1>2 DEF OrdersOf, Live
  <1>4. /\ todo \subseteq Properties /\ \A q \in todo : byProperty[q] = 0
        /\ Total(byProperty) <= Cardinality(counted) + moved
        /\ byCleaner = None(Cleaners)
    BY <1>1, <1>2 DEF RowsOK
  <1>5. /\ next = {o \in Live' : order'[o].property \in Properties \ todo'}
    BY <1>2 DEF tables, Live
  <1> HIDE DEF counted, next
  <1>6. n \in Nat /\ Cardinality(counted) \in Nat /\ Cardinality(next) \in Nat
    BY <1>3, DomainsFinite, FS_Subset, FS_CardinalityType
  <1>7. Cardinality(counted) + n <= Cardinality(next)
    BY <1>3, SizesAddUp
  <1> HIDE DEF n
  <1>8. TypeOK'
    BY <1>1, <1>2, <1>6 DEF TypeOK, tables
  <1>9. Total(byProperty)' <= Cardinality(next) + moved'
    <2>1. byProperty \in [Properties -> Nat] /\ byProperty[p] = 0 /\ moved \in Nat
      BY <1>1, <1>2, <1>4 DEF TypeOK
    <2>2. Total([byProperty EXCEPT ![p] = n]) = Total(byProperty) + n
      BY <1>6, <2>1, DomainsFinite, TotalOneMore
    <2>3. Total(byProperty)' = Total(byProperty) + n
      BY <1>2, <2>2 DEF Total
    <2>4. Total(byProperty) \in Nat
      BY <1>1, ReportNumbers
    <2> QED
      BY <1>2, <1>4, <1>6, <1>7, <2>1, <2>3, <2>4
  <1>10. RowsOK'
    <2>1. todo' \subseteq Properties /\ \A q \in todo' : byProperty'[q] = 0
      BY <1>1, <1>2, <1>4 DEF TypeOK
    <2> QED
      BY <1>2, <1>4, <1>5, <1>9, <2>1 DEF RowsOK
  <1>11. DatedByCompletion'
    BY <1>1, <1>2, StillDated DEF tables
  <1>12. BeginOK' /\ FrontPageOK' /\ DashboardOK' /\ RevenueOK'
    <2>1. at # 0 /\ kind # NULL
      BY <1>1, <1>2, Plans, MarksAssumption DEF BeginOK
    <2> QED
      BY <1>1, <1>2, <2>1 DEF BeginOK, FrontPageOK, DashboardOK, RevenueOK
  <1> QED
    BY <1>8, <1>10, <1>11, <1>12 DEF StatsInv

\* The names of the SELECTs.
LEMMA Names ==
  /\ BasicStats[1] = "total" /\ BasicStats[2] = "open" /\ BasicStats[3] = "completed"
  /\ BasicStats[4] = "revenue"
  /\ Dashboard[1] = "by_day" /\ Dashboard[2] = "by_status" /\ Dashboard[3] = "by_property"
  /\ Dashboard[4] = "today" /\ Dashboard[5] = "today_completed"
  /\ Dashboard[6] = "today_revenue" /\ Dashboard[7] = "total" /\ Dashboard[8] = "revenue"
  /\ RevenueReport[1] = "period" /\ RevenueReport[2] = "by_day"
  /\ CleanerStats[1] = "list" /\ PropertyStats[1] = "list"
  BY DEF BasicStats, Dashboard, RevenueReport, CleanerStats, PropertyStats

\* The single numbers, and that they are numbers.
LEMMA ValueIs ==
  ASSUME TypeOK
  PROVE  /\ Value("total") = Cardinality(Live)
         /\ Value("open") = Cardinality(WithStatus("open"))
         /\ Value("completed") = Cardinality(Completed)
         /\ Value("today_completed") = Cardinality(Done(today, LastMoment))
         /\ Value("today_revenue") = Revenue(Done(today, LastMoment))
         /\ Value("revenue") = Revenue(Completed)
         /\ Value("period") = Revenue(Done(since, until))
         /\ \A name \in Numbers : Value(name) \in Int
         /\ \A name \in Counts : Value(name) \in Nat
  <1>1. /\ Value("total") = Cardinality(Live)
        /\ Value("open") = Cardinality(WithStatus("open"))
        /\ Value("completed") = Cardinality(Completed)
        /\ Value("today_completed") = Cardinality(Done(today, LastMoment))
        /\ Value("today_revenue") = Revenue(Done(today, LastMoment))
        /\ Value("revenue") = Revenue(Completed)
        /\ Value("period") = Revenue(Done(since, until))
    BY DEF Value
  <1>2. /\ Value("total") \in Nat /\ Value("open") \in Nat /\ Value("completed") \in Nat
        /\ Value("today_completed") \in Nat
        /\ Value("today_revenue") \in Int /\ Value("revenue") \in Int /\ Value("period") \in Int
    BY <1>1, QueryNumbers
  <1>3. \A name \in Counts : Value(name) \in Nat
    BY <1>2 DEF Counts
  <1>4. \A name \in Amounts : Value(name) \in Int
    BY <1>2 DEF Amounts
  <1> QED
    BY <1>1, <1>3, <1>4 DEF Numbers

\* What every SELECT does: it goes on, and leaves the orders alone.
LEMMA SelectDoes ==
  ASSUME StatsInv, Select, NEW name, name = Plan[kind][at + 1]
  PROVE  /\ kind \in Kinds /\ kind # NULL /\ at \in Nat /\ at < Len(Plan[kind]) /\ at' = at + 1
         /\ today' = IF name = "today" THEN now - (now % Day) ELSE today
         /\ number' = IF name \in Numbers THEN [number EXCEPT ![name] = Value(name)] ELSE number
         /\ byDay' = IF name = "by_day" THEN RevenueByDay ELSE byDay
         /\ byStatus' = IF name = "by_status" THEN CountByStatus ELSE byStatus
         /\ IF name = "by_property" THEN \E top : byProperty' = CountByProperty(top)
                                    ELSE byProperty' = byProperty
         /\ IF name = "list" THEN todo' \subseteq IF kind = "cleaners" THEN hired ELSE Properties
                             ELSE todo' = todo
         /\ UNCHANGED <<tables, now, kind, since, until, byCleaner, moved, completion>>
         /\ Live' = Live /\ Completed' = Completed
         /\ Revenue(Done(since, until))' = Revenue(Done(since, until))
         /\ name # "today" => Done(today, until)' = Done(today, until)
  <1>1. TypeOK
    BY DEF StatsInv
  <1>2. /\ kind \in Kinds /\ kind # NULL /\ at \in Nat /\ at < Len(Plan[kind]) /\ at' = at + 1
        /\ UNCHANGED <<tables, now, kind, since, until, byCleaner, moved, completion>>
    BY <1>1 DEF Select, TypeOK
  <1>3. /\ today' = IF name = "today" THEN now - (now % Day) ELSE today
        /\ number' = IF name \in Numbers THEN [number EXCEPT ![name] = Value(name)] ELSE number
        /\ byDay' = IF name = "by_day" THEN RevenueByDay ELSE byDay
        /\ byStatus' = IF name = "by_status" THEN CountByStatus ELSE byStatus
    BY DEF Select
  <1>4. IF name = "by_property" THEN \E top : byProperty' = CountByProperty(top)
                                ELSE byProperty' = byProperty
    BY DEF Select
  <1>5. IF name = "list" THEN todo' \subseteq IF kind = "cleaners" THEN hired ELSE Properties
                         ELSE todo' = todo
    BY DEF Select
  <1>6. Live' = Live /\ Completed' = Completed
    BY <1>2 DEF tables, Live, Completed, WithStatus
  <1>7. /\ Done(since, until)' = Done(since, until)
        /\ name # "today" => Done(today, until)' = Done(today, until)
    BY <1>2, <1>3, <1>6 DEF tables, Done
  <1>8. Revenue(Done(since, until))' = Revenue(Done(since, until))
    BY <1>2, <1>6, <1>7 DEF tables, Revenue
  <1> QED
    BY <1>2, <1>3, <1>4, <1>5, <1>6, <1>7, <1>8

\* It leaves numbers where numbers were.
LEMMA SelectType == ASSUME StatsInv, Select PROVE TypeOK'
  <1> DEFINE name == Plan[kind][at + 1]
  <1>1. TypeOK
    BY DEF StatsInv
  <1>2. /\ kind \in Kinds /\ kind # NULL /\ at \in Nat /\ at < Len(Plan[kind]) /\ at' = at + 1
        /\ today' = IF name = "today" THEN now - (now % Day) ELSE today
        /\ number' = IF name \in Numbers THEN [number EXCEPT ![name] = Value(name)] ELSE number
        /\ byDay' = IF name = "by_day" THEN RevenueByDay ELSE byDay
        /\ byStatus' = IF name = "by_status" THEN CountByStatus ELSE byStatus
        /\ IF name = "by_property" THEN \E top : byProperty' = CountByProperty(top)
                                   ELSE byProperty' = byProperty
        /\ IF name = "list" THEN todo' \subseteq IF kind = "cleaners" THEN hired ELSE Properties
                            ELSE todo' = todo
        /\ UNCHANGED <<tables, now, kind, since, until, byCleaner, moved, completion>>
    BY SelectDoes
  <1> HIDE DEF name
  <1>3. at' \in 0..8
    <2>1. kind \in Kinds
      BY <1>2
    <2>2. PICK n \in 1..8 : n = Len(Plan[kind])
      BY <2>1, Plans
    <2>3. at \in Nat /\ at' = at + 1 /\ at < n
      BY <1>2, <2>2
    <2> QED
      BY <2>3
  <1>4. today' \in Moments
    <2>1. \A m \in 0..LastMoment : m - (m % Day) \in 0..LastMoment
      BY Constants
    <2> QED
      BY <1>1, <1>2, <2>1 DEF TypeOK, Moments
  <1>5. todo' \subseteq Cleaners \cup Properties
    BY <1>1, <1>2 DEF TypeOK
  <1>6. number' \in [Numbers -> Int] /\ \A s \in Counts : number'[s] \in Nat
    <2>1. number \in [Numbers -> Int] /\ \A s \in Counts : s \in Numbers /\ number[s] \in Nat
      BY <1>1 DEF TypeOK, Numbers
    <2>2. /\ \A s \in Numbers : Value(s) \in Int
          /\ \A s \in Counts : Value(s) \in Nat
      BY <1>1, ValueIs
    <2> QED
      BY <1>2, <2>1, <2>2
  <1>7. byDay' \in [Days -> Int] /\ byStatus' \in [Statuses -> Nat]
    BY <1>1, <1>2, DaysAddUp, StatusesAddUp DEF TypeOK
  <1>8. byProperty' \in [Properties -> Nat]
    BY <1>1, <1>2, PropertiesAddUp DEF TypeOK
  <1> QED
    BY <1>1, <1>2, <1>3, <1>4, <1>5, <1>6, <1>7, <1>8 DEF TypeOK, tables

\* The front page: each number against those before it.
LEMMA SelectFrontPage ==
  ASSUME StatsInv, Select, kind = "basic"
  PROVE  FrontPageOK'
  <1> DEFINE name == Plan[kind][at + 1]
  <1>1. TypeOK /\ FrontPageOK
    BY DEF StatsInv
  <1>2. /\ at \in 0..3 /\ at' = at + 1 /\ moved' = moved /\ moved \in Nat
        /\ number' = IF name \in Numbers THEN [number EXCEPT ![name] = Value(name)] ELSE number
        /\ Live' = Live /\ Completed' = Completed /\ number \in [Numbers -> Int]
    BY <1>1, SelectDoes, Plans DEF TypeOK
  <1>3. /\ name \in Numbers
        /\ at = 0 => name = "total"
        /\ at = 1 => name = "open"
        /\ at = 2 => name = "completed"
        /\ at = 3 => name = "revenue"
    BY <1>2, Plans, Names DEF Numbers, Counts, Amounts
  <1> HIDE DEF name
  <1>4. \A s \in Numbers : number'[s] = IF s = name THEN Value(name) ELSE number[s]
    BY <1>2, <1>3
  <1>5. {"total", "open", "completed", "revenue"} \subseteq Numbers
    BY DEF Numbers, Counts, Amounts
  <1>6. /\ number'["total"] = IF at = 0 THEN Cardinality(Live) ELSE number["total"]
        /\ number'["open"] = IF at = 1 THEN Cardinality(WithStatus("open")) ELSE number["open"]
        /\ number'["completed"] = IF at = 2 THEN Cardinality(Completed) ELSE number["completed"]
        /\ number'["revenue"] = IF at = 3 THEN Revenue(Completed) ELSE number["revenue"]
    BY <1>1, <1>2, <1>3, <1>4, <1>5, ValueIs
  <1>7. /\ number["total"] \in Nat /\ number["open"] \in Nat /\ number["completed"] \in Nat
    BY <1>1, ReportNumbers DEF Counts
  <1> DEFINE live == Cardinality(Live)
             completed == Cardinality(Completed)
             open == Cardinality(WithStatus("open"))
  <1>8. /\ live \in Nat /\ completed \in Nat /\ open \in Nat
        /\ completed <= live /\ open + completed <= live
    BY <1>1, QueryNumbers
  <1>9. /\ at >= 1 => live <= number["total"] + moved
        /\ at >= 2 => number["open"] + completed <= number["total"] + moved
        /\ at >= 3 => number["open"] + number["completed"] <= number["total"] + moved
    BY <1>1 DEF FrontPageOK
  <1>10. /\ live = Cardinality(Live') /\ completed = Cardinality(Completed')
    BY <1>2
  <1>11. at = 3 => Worthy(Revenue(Completed), number["total"] + moved)
    <2>1. Worthy(Revenue(Completed), completed) /\ Revenue(Completed) \in Int
      BY <1>1, QueryNumbers
    <2> HIDE DEF live, completed
    <2>2. at = 3 => completed <= number["total"] + moved
      BY <1>2, <1>7, <1>8, <1>9
    <2>3. number["total"] + moved \in Nat
      BY <1>2, <1>7
    <2> QED
      BY <1>8, <2>1, <2>2, <2>3, WorthyMore
  <1> HIDE DEF live, completed, open
  <1>12. at' >= 1 => live <= number'["total"] + moved'
    BY <1>2, <1>6, <1>7, <1>8, <1>9 DEF live
  <1>13. at' >= 2 => number'["open"] + completed <= number'["total"] + moved'
    BY <1>2, <1>6, <1>7, <1>8, <1>9 DEF open
  <1>14. at' >= 3 => number'["open"] + number'["completed"] <= number'["total"] + moved'
    BY <1>2, <1>6, <1>7, <1>8, <1>9 DEF completed
  <1>15. at' >= 4 => Worthy(number'["revenue"], number'["total"] + moved')
    BY <1>2, <1>6, <1>11
  <1> QED
    BY <1>10, <1>12, <1>13, <1>14, <1>15 DEF FrontPageOK, Worthy

\* The dashboard: each list and number against those before it.
LEMMA SelectDashboard ==
  ASSUME StatsInv, Select, kind = "dashboard"
  PROVE  DashboardOK'
  <1> DEFINE name == Plan[kind][at + 1]
             bill == Revenue(Done(since, until))
             doneToday == Cardinality(Done(today, until))
             other == Cardinality(Completed \ Done(today, until))
             live == Cardinality(Live)
             completed == Cardinality(Completed)
             cost == Worth * moved
  <1>1. TypeOK /\ DashboardOK
    BY DEF StatsInv
  <1>2. /\ at \in 0..7 /\ at' = at + 1 /\ moved' = moved /\ moved \in Nat
        /\ since' = since /\ until' = until /\ now' = now
        /\ today' = IF name = "today" THEN now - (now % Day) ELSE today
        /\ number' = IF name \in Numbers THEN [number EXCEPT ![name] = Value(name)] ELSE number
        /\ byDay' = IF name = "by_day" THEN RevenueByDay ELSE byDay
        /\ byStatus' = IF name = "by_status" THEN CountByStatus ELSE byStatus
        /\ IF name = "by_property" THEN \E top : byProperty' = CountByProperty(top)
                                   ELSE byProperty' = byProperty
        /\ Live' = Live /\ Completed' = Completed /\ bill' = bill
        /\ name # "today" => Done(today, until)' = Done(today, until)
        /\ number \in [Numbers -> Int]
    BY <1>1, SelectDoes, Plans DEF TypeOK
  <1>3. /\ at = 0 => name = "by_day"
        /\ at = 1 => name = "by_status"
        /\ at = 2 => name = "by_property"
        /\ at = 3 => name = "today"
        /\ at = 4 => name = "today_completed"
        /\ at = 5 => name = "today_revenue"
        /\ at = 6 => name = "total"
        /\ at = 7 => name = "revenue"
    BY Plans, Names
  <1> HIDE DEF name
  <1>4. /\ {"total", "revenue", "today_completed", "today_revenue"} \subseteq Numbers
        /\ {"by_day", "by_status", "by_property", "today"} \cap Numbers = {}
    BY DEF Numbers, Counts, Amounts
  <1>5. \A s \in Numbers : number'[s] = IF s = name THEN Value(name) ELSE number[s]
    BY <1>2
  <1>6. until = LastMoment /\ (since = 0 \/ since + Day <= now)
    BY <1>1 DEF DashboardOK
  <1>7. /\ number'["total"] = IF at = 6 THEN live ELSE number["total"]
        /\ number'["revenue"] = IF at = 7 THEN Revenue(Completed) ELSE number["revenue"]
        /\ number'["today_completed"] = IF at = 4 THEN doneToday ELSE number["today_completed"]
        /\ number'["today_revenue"] = IF at = 5 THEN Revenue(Done(today, until))
                                      ELSE number["today_revenue"]
    BY <1>1, <1>2, <1>3, <1>4, <1>5, <1>6, ValueIs
  <1>8. /\ Total(byDay)' = IF at = 0 THEN bill ELSE Total(byDay)
        /\ Total(byStatus)' = IF at = 1 THEN live ELSE Total(byStatus)
        /\ byStatus'["completed"] = IF at = 1 THEN completed ELSE byStatus["completed"]
        /\ IF at = 2 THEN Total(byProperty)' <= live ELSE Total(byProperty)' = Total(byProperty)
    BY <1>1, <1>2, <1>3, DaysAddUp, StatusesAddUp, PropertiesAddUp DEF Total
  <1>9. /\ number["total"] \in Nat /\ number["revenue"] \in Int
        /\ number["today_completed"] \in Nat /\ number["today_revenue"] \in Int
    BY <1>1, ReportNumbers DEF Numbers, Counts, Amounts
  <1>10. /\ Total(byDay) \in Int /\ Total(byStatus) \in Nat /\ Total(byProperty) \in Nat
         /\ byStatus["completed"] \in Nat
    BY <1>1, ReportNumbers
  <1>11. /\ live \in Nat /\ completed \in Nat /\ completed <= live /\ doneToday \in Nat
         /\ doneToday <= completed /\ other = completed - doneToday
         /\ Revenue(Completed) \in Int /\ Worthy(Revenue(Completed), completed)
         /\ bill \in Int /\ Revenue(Done(today, until)) \in Int
         /\ Worthy(Revenue(Done(today, until)), doneToday)
    BY <1>1, QueryNumbers
  <1>12. cost \in Nat /\ MaxCredit \in Nat
    BY <1>2, Constants, Products
  <1>13. /\ Live' = Live /\ Completed' = Completed
         /\ live = Cardinality(Live') /\ completed = Cardinality(Completed')
    BY <1>2
  <1>14. at' >= 4 => since <= today'
    <2>1. at = 3 => since <= now - (now % Day)
      <3>1. now \in Nat /\ since \in Nat /\ Day \in Nat \ {0}
        BY <1>1, Constants DEF TypeOK
      <3>2. now - (now % Day) \in Nat /\ now < now - (now % Day) + Day
        BY <3>1
      <3> QED
        BY <1>6, <3>1, <3>2
    <2>2. at >= 4 => since <= today /\ today' = today
      BY <1>1, <1>2, <1>3 DEF DashboardOK
    <2> QED
      BY <1>2, <1>3, <2>1, <2>2
  <1>15. /\ at' >= 5 => /\ Cardinality(Done(today, until)') = doneToday
                        /\ Cardinality(Completed \ Done(today, until))' = other
         /\ until' = until /\ since' = since /\ now' = now
    <2>1. at' >= 5 => Done(today, until)' = Done(today, until)
      BY <1>2, <1>3
    <2>2. Completed' = Completed
      BY <1>2
    <2> QED
      BY <1>2, <2>1, <2>2
  <1>16. at >= 5 => Earlier \in Nat /\ other <= Earlier
    BY <1>1, <1>2, <1>9, <1>10 DEF DashboardOK, Earlier
  <1>17. at >= 5 => /\ Revenue(Done(today, until)) <= bill + MaxCredit * Earlier
                    /\ bill <= Revenue(Completed) + MaxCredit * Earlier
    <2> SUFFICES ASSUME at >= 5 PROVE /\ Revenue(Done(today, until)) <= bill + MaxCredit * Earlier
                                      /\ bill <= Revenue(Completed) + MaxCredit * Earlier
      OBVIOUS
    <2>1. since <= today /\ since \in Moments /\ today \in Moments
      BY <1>1, <1>2 DEF DashboardOK, TypeOK
    <2>2. Earlier \in Nat /\ Cardinality(Completed \ Done(today, until)) <= Earlier
      BY <1>16
    <2> QED
      BY <1>1, <2>1, <2>2, ShorterPeriod
  <1>18. /\ at >= 1 => bill <= Total(byDay) + cost /\ Total(byDay) <= bill + cost
         /\ at >= 6 => number["today_revenue"] <= Total(byDay) + cost + MaxCredit * Earlier
    BY <1>1 DEF DashboardOK, Near, Within
  <1>19. /\ at >= 2 => /\ completed <= byStatus["completed"] + moved
                       /\ live <= Total(byStatus) + moved
                       /\ Total(byStatus) <= live + moved
         /\ at >= 3 => Total(byProperty) <= Total(byStatus) + moved
    BY <1>1 DEF DashboardOK, Near
  <1>20. /\ at >= 5 => /\ number["today_completed"] <= byStatus["completed"] + moved
                       /\ doneToday <= number["today_completed"] + moved
         /\ at >= 6 => Worthy(number["today_revenue"], number["today_completed"] + moved)
         /\ at >= 7 => /\ live <= number["total"] + moved
                       /\ Total(byStatus) <= number["total"] + moved
                       /\ number["total"] <= Total(byStatus) + moved
    BY <1>1 DEF DashboardOK, Near
  <1> DEFINE costNext == Worth * moved'
             credit == MaxCredit * Earlier
             creditNext == MaxCredit * Earlier'
  <1>21. costNext = cost /\ moved' = moved
    BY <1>2
  <1>22. Earlier' = byStatus'["completed"] - number'["today_completed"] + moved'
    BY DEF Earlier
  <1>23. at >= 5 => creditNext = credit /\ credit \in Nat
    <2>1. at >= 5 => Earlier' = Earlier
      BY <1>2, <1>7, <1>8, <1>22 DEF Earlier
    <2>2. at >= 5 => credit \in Nat
      BY <1>12, <1>16
    <2> QED
      BY <2>1, <2>2
  <1> HIDE DEF live, completed, doneToday, cost, costNext, bill, other
  <1>24. at' >= 1 => /\ bill' <= Total(byDay)' + costNext
                     /\ Total(byDay)' <= bill' + costNext
    BY <1>2, <1>8, <1>10, <1>11, <1>12, <1>18, <1>21
  <1>25. at' >= 2 => /\ completed <= byStatus'["completed"] + moved'
                     /\ live <= Total(byStatus)' + moved'
                     /\ Total(byStatus)' <= live + moved'
    BY <1>2, <1>8, <1>10, <1>11, <1>19
  <1>26. at' >= 3 => Total(byProperty)' <= Total(byStatus)' + moved'
    <2>1. Total(byProperty)' \in Nat
      <3>1. byProperty' \in [Properties -> Nat] /\ byProperty' \in [Properties -> Int]
        BY SelectType DEF TypeOK
      <3> QED
        BY <3>1, TotalType, DomainsFinite DEF Total
    <2> QED
      BY <1>2, <1>8, <1>10, <1>11, <1>19, <2>1
  <1>27. at' >= 5 => /\ number'["today_completed"] <= byStatus'["completed"] + moved'
                     /\ doneToday <= number'["today_completed"] + moved'
                     /\ other <= Earlier'
    <2>1. at' >= 5 => /\ number'["today_completed"] <= byStatus'["completed"] + moved'
                      /\ doneToday <= number'["today_completed"] + moved'
      BY <1>2, <1>7, <1>8, <1>9, <1>10, <1>11, <1>19, <1>20
    <2>2. at = 4 => other <= Earlier'
      BY <1>2, <1>7, <1>8, <1>10, <1>11, <1>19, <1>22
    <2>3. at >= 5 => other <= Earlier'
      BY <1>2, <1>7, <1>8, <1>16, <1>22 DEF Earlier
    <2> QED
      BY <1>2, <2>1, <2>2, <2>3
  <1> HIDE DEF credit, creditNext
  <1>28. at' >= 6 => /\ number'["today_revenue"] <= Total(byDay)' + costNext + creditNext
                     /\ Worthy(number'["today_revenue"], number'["today_completed"] + moved')
    <2>1. at = 5 => Revenue(Done(today, until)) <= bill + credit
      BY <1>17 DEF credit
    <2>2. at >= 6 => number["today_revenue"] <= Total(byDay) + cost + credit
      BY <1>18 DEF credit
    <2>3. at' >= 6 => number'["today_revenue"] <= Total(byDay)' + costNext + creditNext
      <3>1. at = 5 => number'["today_revenue"] <= Total(byDay)' + costNext + creditNext
        BY <1>7, <1>8, <1>10, <1>11, <1>12, <1>18, <1>21, <1>23, <2>1
      <3>2. at >= 6 => number'["today_revenue"] <= Total(byDay)' + costNext + creditNext
        BY <1>2, <1>7, <1>8, <1>21, <1>23, <2>2
      <3> QED
        BY <1>2, <3>1, <3>2
    <2>4. at = 5 => Worthy(Revenue(Done(today, until)), number["today_completed"] + moved)
      <3>1. at = 5 => doneToday <= number["today_completed"] + moved
        BY <1>20
      <3>2. number["today_completed"] + moved \in Nat
        BY <1>2, <1>9
      <3> QED
        BY <1>11, <3>1, <3>2, WorthyMore
    <2>5. at' >= 6 => number'["today_completed"] = number["today_completed"]
      BY <1>2, <1>7
    <2>6. at' >= 6 => Worthy(number'["today_revenue"], number["today_completed"] + moved)
      BY <1>2, <1>7, <1>20, <2>4
    <2> QED
      BY <1>21, <2>3, <2>5, <2>6
  <1>29. at' >= 7 => /\ live <= number'["total"] + moved'
                     /\ Total(byStatus)' <= number'["total"] + moved'
                     /\ number'["total"] <= Total(byStatus)' + moved'
    BY <1>2, <1>7, <1>8, <1>9, <1>10, <1>11, <1>19, <1>20
  <1>30. at' >= 8 => /\ Total(byDay)' <= number'["revenue"] + costNext + creditNext
                     /\ Worthy(number'["revenue"], number'["total"] + moved')
    <2>1. at' >= 8 => at = 7 /\ number'["total"] = number["total"] /\ Total(byDay)' = Total(byDay)
      BY <1>2, <1>7, <1>8
    <2>2. at = 7 => number'["revenue"] = Revenue(Completed)
      BY <1>7
    <2>3. at = 7 => bill <= Revenue(Completed) + credit
      BY <1>17 DEF credit
    <2>4. at' >= 8 => Total(byDay)' <= number'["revenue"] + costNext + creditNext
      BY <1>2, <1>10, <1>11, <1>12, <1>18, <1>21, <1>23, <2>1, <2>2, <2>3
    <2>5. at = 7 => Worthy(Revenue(Completed), number["total"] + moved)
      <3>1. at = 7 => completed <= number["total"] + moved
        BY <1>2, <1>9, <1>11, <1>20
      <3>2. number["total"] + moved \in Nat
        BY <1>2, <1>9
      <3> QED
        BY <1>11, <3>1, <3>2, WorthyMore
    <2> QED
      BY <1>21, <2>1, <2>2, <2>4, <2>5
  <1>31. until' = LastMoment /\ (since' = 0 \/ since' + Day <= now')
    BY <1>6, <1>15
  <1>32. at' >= 1 => Near(Revenue(Done(since, until)), Total(byDay), Worth * moved)'
    BY <1>24 DEF Near, costNext, bill
  <1>33. at' >= 2 => Near(live, Total(byStatus)', moved')
    BY <1>25 DEF Near
  <1>34. at' >= 5 => Cardinality(Completed \ Done(today, until))' <= Earlier'
    BY <1>15, <1>27
  <1>35. at' >= 6 => Within(number["today_revenue"], Total(byDay))'
    BY <1>28 DEF Within, costNext, creditNext
  <1>36. at' >= 7 => Near(Total(byStatus), number["total"], moved)'
    BY <1>29 DEF Near
  <1>37. at' >= 8 => Within(Total(byDay), number["revenue"])'
    BY <1>30 DEF Within, costNext, creditNext
  <1> QED
    BY <1>13, <1>14, <1>15, <1>25, <1>26, <1>27, <1>28, <1>29, <1>30, <1>31, <1>32, <1>33, <1>34,
       <1>35, <1>36, <1>37
    DEF DashboardOK, Near, Worthy

\* The revenue report: its days against its total.
LEMMA SelectRevenue ==
  ASSUME StatsInv, Select, kind = "revenue"
  PROVE  RevenueOK'
  <1> DEFINE name == Plan[kind][at + 1]
             all == Revenue(Done(since, until))
             cost == Worth * moved
             costNext == Worth * moved'
  <1>1. TypeOK /\ RevenueOK
    BY DEF StatsInv
  <1>2. /\ at \in 0..1 /\ at' = at + 1 /\ moved' = moved /\ moved \in Nat
        /\ number' = IF name \in Numbers THEN [number EXCEPT ![name] = Value(name)] ELSE number
        /\ byDay' = IF name = "by_day" THEN RevenueByDay ELSE byDay
        /\ all' = all /\ number \in [Numbers -> Int]
    BY <1>1, SelectDoes, Plans DEF TypeOK
  <1>3. (at = 0 => name = "period") /\ (at = 1 => name = "by_day")
    BY Plans, Names
  <1> HIDE DEF name
  <1>4. "period" \in Numbers /\ "by_day" \notin Numbers
    BY DEF Numbers, Counts, Amounts
  <1>5. number'["period"] = IF at = 0 THEN all ELSE number["period"]
    BY <1>1, <1>2, <1>3, <1>4, ValueIs
  <1>6. at = 1 => Total(byDay)' = all
    BY <1>1, <1>2, <1>3, DaysAddUp DEF Total
  <1>7. all \in Int /\ cost \in Nat /\ number["period"] \in Int /\ costNext = cost
    BY <1>1, <1>2, <1>4, QueryNumbers, Constants, Products
  <1>8. at >= 1 => number["period"] <= all + cost /\ all <= number["period"] + cost
    BY <1>1 DEF RevenueOK, Near
  <1>9. all' = all
    BY <1>2
  <1> HIDE DEF all, cost, costNext
  <1>10. at' >= 1 => number'["period"] <= all' + costNext /\ all' <= number'["period"] + costNext
    BY <1>2, <1>5, <1>7, <1>8, <1>9
  <1>11. at' >= 2 => /\ number'["period"] <= Total(byDay)' + costNext
                     /\ Total(byDay)' <= number'["period"] + costNext
    BY <1>2, <1>5, <1>6, <1>7, <1>8
  <1>12. at' >= 1 => Near(number["period"], Revenue(Done(since, until)), Worth * moved)'
    BY <1>10 DEF Near, all, costNext
  <1>13. at' >= 2 => Near(number["period"], Total(byDay), Worth * moved)'
    BY <1>11 DEF Near, costNext
  <1> QED
    BY <1>12, <1>13 DEF RevenueOK

\* The lists: no row is counted yet.
LEMMA SelectRows == ASSUME StatsInv, Select PROVE RowsOK'
  <1> DEFINE name == Plan[kind][at + 1]
             rows == IF kind = "cleaners" THEN hired ELSE Properties
             held == {o \in Live' : order'[o].cleaner \in Cleaners \ todo'}
             of == {o \in Live' : order'[o].property \in Properties \ todo'}
  <1>1. TypeOK /\ BeginOK /\ RowsOK
    BY DEF StatsInv
  <1>2. /\ kind \in Kinds /\ kind # NULL /\ at \in Nat /\ at < Len(Plan[kind])
        /\ IF name = "by_property" THEN \E top : byProperty' = CountByProperty(top)
                                   ELSE byProperty' = byProperty
        /\ IF name = "list" THEN todo' \subseteq rows ELSE todo' = todo
        /\ kind' = kind /\ byCleaner' = byCleaner /\ moved' = moved
    BY SelectDoes
  <1>3. kind \in {"cleaners", "properties"} => name = "list" /\ at = 0
    BY <1>2, Plans, Names
  <1> HIDE DEF name
  <1>4. at = 0 => byCleaner = None(Cleaners) /\ byProperty = None(Properties)
    BY <1>1 DEF BeginOK
  <1>5. kind # "cleaners" => byCleaner' = None(Cleaners)
    BY <1>1, <1>2 DEF RowsOK
  <1>6. held \in SUBSET Orders /\ of \in SUBSET Orders
    BY DEF Live
  <1> HIDE DEF held, of
  <1>7. Cardinality(held) \in Nat /\ Cardinality(of) \in Nat /\ moved \in Nat
    BY <1>1, <1>6, DomainsFinite, FS_Subset, FS_CardinalityType DEF TypeOK
  <1>8. Total(None(Cleaners)) = 0 /\ Total(None(Properties)) = 0
    BY DomainsFinite, TotalNone
  <1>9. ASSUME kind = "cleaners"
        PROVE  /\ todo' \subseteq Cleaners /\ \A c \in todo' : byCleaner'[c] = 0
               /\ Total(byCleaner)' <= Cardinality(held) + moved'
    <2>1. todo' \subseteq Cleaners
      BY <1>1, <1>2, <1>3, <1>9 DEF TypeOK
    <2>2. byCleaner' = None(Cleaners)
      BY <1>2, <1>3, <1>4, <1>9
    <2>3. \A c \in todo' : byCleaner'[c] = 0
      BY <2>1, <2>2 DEF None
    <2>4. Total(byCleaner)' = 0 /\ moved' = moved
      BY <1>2, <1>8, <2>2 DEF Total
    <2>5. Total(byCleaner)' <= Cardinality(held) + moved'
      BY <1>7, <2>4
    <2> QED
      BY <2>1, <2>3, <2>5
  <1>10. ASSUME kind = "properties"
         PROVE  /\ todo' \subseteq Properties /\ \A p \in todo' : byProperty'[p] = 0
                /\ Total(byProperty)' <= Cardinality(of) + moved'
    <2>1. todo' \subseteq Properties
      BY <1>2, <1>3, <1>10
    <2>2. byProperty' = None(Properties)
      BY <1>2, <1>3, <1>4, <1>10
    <2>3. \A p \in todo' : byProperty'[p] = 0
      BY <2>1, <2>2 DEF None
    <2>4. Total(byProperty)' = 0 /\ moved' = moved
      BY <1>2, <1>8, <2>2 DEF Total
    <2>5. Total(byProperty)' <= Cardinality(of) + moved'
      BY <1>7, <2>4
    <2> QED
      BY <2>1, <2>3, <2>5
  <1> QED
    BY <1>2, <1>5, <1>9, <1>10 DEF RowsOK, held, of

\* Every SELECT.
LEMMA SelectStep == ASSUME StatsInv, Select PROVE StatsInv'
  <1>1. TypeOK /\ DatedByCompletion /\ kind \in Kinds /\ kind # NULL
        /\ at \in Nat /\ at < Len(Plan[kind]) /\ at' = at + 1
        /\ UNCHANGED <<tables, now, kind, since, until, byCleaner, moved, completion>>
    BY SelectDoes DEF StatsInv
  <1>2. DatedByCompletion'
    BY <1>1, StillDated DEF tables
  <1>3. BeginOK'
    <2>1. Len(Plan[kind]) \in 1..8
      BY <1>1, Plans
    <2>2. at' <= Len(Plan[kind]) /\ at' # 0
      BY <1>1, <2>1
    <2> QED
      BY <1>1, <2>2 DEF BeginOK
  <1>4. FrontPageOK'
    BY <1>1, SelectFrontPage DEF FrontPageOK
  <1>5. DashboardOK'
    BY <1>1, SelectDashboard DEF DashboardOK
  <1>6. RevenueOK'
    BY <1>1, SelectRevenue DEF RevenueOK
  <1> QED
    BY <1>2, <1>3, <1>4, <1>5, <1>6, SelectType, SelectRows DEF StatsInv

------------------------------------------------------------------------------
(* The theorems                                                            *)

\* Before the first request no order is there and nothing is read.
LEMMA InitOK == ASSUME Init PROVE StatsInv
  <1> USE DEF Init, NoReport
  <1>1. TypeOK
    <2>1. /\ None(Numbers) \in [Numbers -> Int] /\ None(Days) \in [Days -> Int]
          /\ \A name \in Counts : None(Numbers)[name] \in Nat
          /\ None(Statuses) \in [Statuses -> Nat] /\ None(Cleaners) \in [Cleaners -> Nat]
          /\ None(Properties) \in [Properties -> Nat]
      BY DEF None, Numbers
    <2> QED
      BY <2>1, Constants DEF TypeOK
  <1>2. DatedByCompletion
    BY DEF DatedByCompletion, Completed, WithStatus, Live
  <1>3. kind \notin {"basic", "dashboard", "revenue", "cleaners", "properties"}
    BY Plans, MarksAssumption
  <1>4. BeginOK /\ FrontPageOK /\ DashboardOK /\ RevenueOK /\ RowsOK
    BY <1>3 DEF BeginOK, FrontPageOK, DashboardOK, RevenueOK, RowsOK
  <1> QED
    BY <1>1, <1>2, <1>4 DEF StatsInv

\* Every step keeps the inductive invariant.
LEMMA StepKeeps == ASSUME StatsInv, [Next]_vars PROVE StatsInv'
  <1>1. ASSUME NEW k \in Kinds, Ask(k) PROVE StatsInv'
    BY <1>1, AskStep
  <1>2. CASE Select
    BY <1>2, SelectStep
  <1>3. CASE Reply
    BY <1>3, ReplyStep
  <1>4. ASSUME NEW c \in Cleaners, CountOfCleaner(c) \/ DeleteCleaner(c) PROVE StatsInv'
    BY <1>4, CountOfCleanerStep, DeleteCleanerStep
  <1>5. ASSUME NEW p \in Properties, CountOfProperty(p) PROVE StatsInv'
    BY <1>5, CountOfPropertyStep
  <1>6. ASSUME NEW o \in Orders, Change(o) PROVE StatsInv'
    BY <1>6, ChangeStep
  <1>7. CASE Tick
    BY <1>7, QuietStep DEF Tick
  <1>8. CASE UNCHANGED vars
    BY <1>8, QuietStep DEF vars
  <1> QED
    BY <1>1, <1>2, <1>3, <1>4, <1>5, <1>6, <1>7, <1>8 DEF Next

\* What a report has read stays as close to the orders as the changes since it began
\* allow, at every moment of every report, whatever other requests commit.
THEOREM StatsInductive == Spec => []StatsInv
  <1>1. Init => StatsInv
    BY InitOK
  <1>2. StatsInv /\ [Next]_vars => StatsInv'
    BY StepKeeps
  <1> QED
    BY <1>1, <1>2, PTL DEF Spec

\* The reports hold numbers, and the tables hold rows.
THEOREM StatsTypeCorrect == Spec => []TypeOK
  <1>1. StatsInv => TypeOK
    BY DEF StatsInv
  <1> QED
    BY <1>1, StatsInductive, PTL

\* A report has read a number when it is past its SELECT.
LEMMA AskedAt ==
  ASSUME StatsInv
  PROVE  /\ kind # NULL => kind \in Kinds
         /\ kind = "basic" => /\ Asked("completed") => at >= 3
                              /\ Asked("revenue") => at >= 4
         /\ kind = "dashboard" => /\ ~Asked("completed")
                                  /\ Asked("by_property") => at >= 3
                                  /\ Asked("today_completed") => at >= 5
                                  /\ Asked("today_revenue") => at >= 6
                                  /\ Asked("total") => at >= 7
                                  /\ Asked("revenue") => at >= 8
         /\ kind = "revenue" => /\ Asked("by_day") => at >= 2
                                /\ ~Asked("completed") /\ ~Asked("revenue")
         /\ kind \in {"cleaners", "properties"} => ~Asked("completed") /\ ~Asked("revenue")
  <1>1. TypeOK /\ BeginOK /\ (kind # NULL => kind \in Kinds) /\ at \in 0..8
    BY DEF StatsInv, TypeOK
  <1>2. kind \in Kinds => kind # NULL /\ at <= Len(Plan[kind])
    BY <1>1, MarksAssumption DEF BeginOK
  <1>3. ASSUME kind = "basic"
        PROVE  (Asked("completed") => at >= 3) /\ (Asked("revenue") => at >= 4)
    <2>1. at \in 0..4
      BY <1>1, <1>2, <1>3, Plans
    <2>2. \A i \in 1..at : /\ i \in 1..4 /\ i <= at
                           /\ BasicStats[i] = "completed" => i = 3
                           /\ BasicStats[i] = "revenue" => i = 4
      BY <2>1, Names
    <2>3. \A i \in 1..at : Plan[kind][i] = BasicStats[i]
      BY <1>3, Plans
    <2>4. Asked("completed") => 3 <= at
      BY <2>2, <2>3 DEF Asked
    <2>5. Asked("revenue") => 4 <= at
      BY <2>2, <2>3 DEF Asked
    <2> QED
      BY <2>1, <2>4, <2>5
  <1>4. ASSUME kind = "dashboard"
        PROVE  /\ ~Asked("completed")
               /\ Asked("by_property") => at >= 3
               /\ Asked("today_completed") => at >= 5
               /\ Asked("today_revenue") => at >= 6
               /\ Asked("total") => at >= 7
               /\ Asked("revenue") => at >= 8
    <2>1. at \in 0..8
      BY <1>1
    <2>2. \A i \in 1..at : /\ i \in 1..8 /\ i <= at
                           /\ Dashboard[i] # "completed"
                           /\ Dashboard[i] = "by_property" => i = 3
                           /\ Dashboard[i] = "today_completed" => i = 5
                           /\ Dashboard[i] = "today_revenue" => i = 6
                           /\ Dashboard[i] = "total" => i = 7
                           /\ Dashboard[i] = "revenue" => i = 8
      BY <2>1, Names
    <2>3. \A i \in 1..at : Plan[kind][i] = Dashboard[i]
      BY <1>4, Plans
    <2>4. /\ ~Asked("completed")
          /\ Asked("by_property") => 3 <= at
          /\ Asked("today_completed") => 5 <= at
          /\ Asked("today_revenue") => 6 <= at
          /\ Asked("total") => 7 <= at
          /\ Asked("revenue") => 8 <= at
      BY <2>2, <2>3 DEF Asked
    <2> QED
      BY <2>1, <2>4
  <1>5. ASSUME kind = "revenue"
        PROVE  /\ Asked("by_day") => at >= 2
               /\ ~Asked("completed") /\ ~Asked("revenue")
    <2>1. at \in 0..2
      BY <1>1, <1>2, <1>5, Plans
    <2>2. \A i \in 1..at : /\ i \in 1..2 /\ i <= at
                           /\ RevenueReport[i] = "by_day" => i = 2
                           /\ RevenueReport[i] \notin {"completed", "revenue"}
      BY <2>1, Names
    <2>3. \A i \in 1..at : Plan[kind][i] = RevenueReport[i]
      BY <1>5, Plans
    <2>4. /\ Asked("by_day") => 2 <= at
          /\ ~Asked("completed") /\ ~Asked("revenue")
      BY <2>2, <2>3 DEF Asked
    <2> QED
      BY <2>1, <2>4
  <1>6. ASSUME kind \in {"cleaners", "properties"}
        PROVE  ~Asked("completed") /\ ~Asked("revenue")
    <2>1. at \in 0..1
      <3>1. Len(Plan[kind]) = 1
        BY <1>6, Plans
      <3>2. at <= Len(Plan[kind])
        BY <1>2, <1>6, Plans
      <3>3. at <= 1
        BY <3>1, <3>2
      <3> QED
        BY <1>1, <3>3
    <2>2. \A i \in 1..at : i = 1
      BY <2>1
    <2>3. Plan[kind][1] = "list"
      BY <1>6, Plans, Names
    <2> QED
      BY <2>2, <2>3 DEF Asked
  <1> QED
    BY <1>1, <1>3, <1>4, <1>5, <1>6

\* The numbers of a report disagree with each other by no more than the changes that
\* were made while it was read.
THEOREM ReportsAgreeAlways == Spec => []ReportsAgree
  <1>1. ASSUME StatsInv PROVE ReportsAgree
    <2>1. /\ TypeOK /\ FrontPageOK /\ DashboardOK /\ RevenueOK
          /\ kind # NULL => kind \in {"basic", "dashboard", "revenue", "cleaners", "properties"}
      BY <1>1, Plans, AskedAt DEF StatsInv
    <2>2. FrontPageAgrees
      <3>1. CASE kind = "basic"
        BY <1>1, <2>1, <3>1, AskedAt DEF FrontPageAgrees, FrontPageOK
      <3>2. CASE kind = "dashboard"
        BY <1>1, <2>1, <3>2, AskedAt DEF FrontPageAgrees, DashboardOK
      <3>3. CASE kind \in {"revenue", "cleaners", "properties"}
        BY <1>1, <3>3, AskedAt DEF FrontPageAgrees
      <3>4. CASE kind = NULL
        BY <3>4 DEF FrontPageAgrees, Asked
      <3> QED
        BY <2>1, <3>1, <3>2, <3>3, <3>4
    <2>3. DashboardAgrees
      <3> SUFFICES ASSUME kind = "dashboard" PROVE DashboardAgrees
        BY DEF DashboardAgrees
      <3>1. /\ Asked("by_property") => at >= 3
            /\ Asked("today_completed") => at >= 5
            /\ Asked("today_revenue") => at >= 6
            /\ Asked("total") => at >= 7
            /\ Asked("revenue") => at >= 8
        BY <1>1, AskedAt
      <3>2. at \in Nat /\ (at >= 8 => at >= 1)
        BY <2>1 DEF TypeOK
      <3> QED
        BY <2>1, <3>1 DEF DashboardAgrees, DashboardOK
    <2>4. RevenueAddsUp
      <3>1. kind = "revenue" => (Asked("by_day") => at >= 2)
        BY <1>1, AskedAt
      <3> QED
        BY <2>1, <3>1 DEF RevenueAddsUp, RevenueOK
    <2> QED
      BY <2>2, <2>3, <2>4 DEF ReportsAgree
  <1> QED
    BY <1>1, StatsInductive, PTL

\* No order is counted for two rows of a list, except one that changes while the rows
\* are counted.
THEOREM CountedOnceAlways == Spec => []CountedOnce
  <1>1. ASSUME StatsInv PROVE CountedOnce
    <2> DEFINE held == {o \in Live : order[o].cleaner \in Cleaners \ todo}
               of == {o \in Live : order[o].property \in Properties \ todo}
               live == Cardinality(Live)
    <2>1. TypeOK /\ RowsOK
      BY <1>1 DEF StatsInv
    <2>2. /\ held \in SUBSET Orders /\ of \in SUBSET Orders /\ Live \in SUBSET Orders
          /\ held \in SUBSET Live /\ of \in SUBSET Live
      BY DEF Live
    <2>3. /\ kind = "cleaners" => Total(byCleaner) <= Cardinality(held) + moved
          /\ kind = "properties" => Total(byProperty) <= Cardinality(of) + moved
      BY <2>1 DEF RowsOK
    <2> HIDE DEF held, of
    <2>4. /\ Cardinality(held) <= live /\ Cardinality(of) <= live
          /\ Cardinality(held) \in Nat /\ Cardinality(of) \in Nat /\ live \in Nat
      BY <2>1, <2>2, QueriesNow, TableSets
    <2>5. /\ Total(byCleaner) \in Nat /\ Total(byProperty) \in Nat /\ moved \in Nat
      BY <2>1, ReportNumbers
    <2> HIDE DEF live
    <2>6. kind = "cleaners" => Total(byCleaner) <= live + moved
      BY <2>3, <2>4, <2>5
    <2>7. kind = "properties" => Total(byProperty) <= live + moved
      BY <2>3, <2>4, <2>5
    <2> QED
      BY <2>6, <2>7 DEF CountedOnce, live
  <1> QED
    BY <1>1, StatsInductive, PTL

\* A completed order has the time of its present completion, unless a client named the
\* status as the enum does.
THEOREM DatedByCompletionAlways == Spec => []DatedByCompletion
  <1>1. StatsInv => DatedByCompletion
    BY DEF StatsInv
  <1> QED
    BY <1>1, StatsInductive, PTL
==============================================================================
