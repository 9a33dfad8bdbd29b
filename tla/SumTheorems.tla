------------------------------ MODULE SumTheorems ------------------------------
(***************************************************************************)
(* Facts about sums over finite sets.                                      *)
(***************************************************************************)
EXTENDS Sums, Integers, FiniteSetTheorems, TLAPS

\* Induction over the subsets of a finite set, without a predicate as parameter:
\* among the subsets that are bad one has no bad subset that lacks an element.
LEMMA SmallestSubset ==
  ASSUME NEW S, IsFiniteSet(S), NEW Bad, Bad \subseteq SUBSET S, Bad # {}
  PROVE  \E T \in Bad : \A x \in T : T \ {x} \notin Bad
<1> DEFINE R == StrictSubsetOrdering(S)
<1>1. IsWellFoundedOn(R, FiniteSubsetsOf(S))
  BY FS_StrictSubsetOrderingWellFounded
<1>2. Bad \subseteq FiniteSubsetsOf(S)
  BY FS_Subset DEF FiniteSubsetsOf
<1>3. \E T \in Bad : \A U \in Bad : ~(<<U, T>> \in R)
  <2> HIDE DEF R
  <2> QED BY <1>1, <1>2, WFMin
<1>4. PICK T \in Bad : \A U \in Bad : ~(<<U, T>> \in R)
  BY <1>3
<1>5. ASSUME NEW x \in T, T \ {x} \in Bad
      PROVE  FALSE
  <2>1. <<T \ {x}, T>> \in R
    BY <1>5 DEF StrictSubsetOrdering
  <2> HIDE DEF R
  <2> QED BY <1>4, <1>5, <2>1
<1> QED BY <1>5

Pick(s) == CHOOSE x \in s : TRUE

IsFold(g, f, S) ==
    g = [s \in SUBSET S |-> IF s = {} THEN 0 ELSE f[Pick(s)] + g[s \ {Pick(s)}]]

LEMMA FoldUnique ==
  ASSUME NEW f, NEW S, IsFiniteSet(S), NEW T \in SUBSET S,
         NEW g, IsFold(g, f, S), NEW h, IsFold(h, f, T)
  PROVE  g[T] = h[T]
<1> DEFINE Bad == {U \in SUBSET T : g[U] # h[U]}
<1>1. SUFFICES Bad = {}
  OBVIOUS
<1>2. SUFFICES ASSUME Bad # {} PROVE FALSE
  OBVIOUS
<1>3. IsFiniteSet(T) 
  BY FS_Subset
<1>4. PICK U \in Bad : \A x \in U : U \ {x} \notin Bad
  <2> HIDE DEF Bad
  <2>1. Bad \subseteq SUBSET T
    BY DEF Bad
  <2> QED BY <1>2, <1>3, <2>1, SmallestSubset
<1>5. g[U] = (IF U = {} THEN 0 ELSE f[Pick(U)] + g[U \ {Pick(U)}])
  BY DEF IsFold
<1>6. h[U] = (IF U = {} THEN 0 ELSE f[Pick(U)] + h[U \ {Pick(U)}])
  BY DEF IsFold
<1>7. CASE U = {}
  BY <1>5, <1>6, <1>7
<1>8. CASE U # {}
  <2>1. Pick(U) \in U
    BY <1>8 DEF Pick
  <2>2. g[U \ {Pick(U)}] = h[U \ {Pick(U)}]
    BY <2>1, <1>4
  <2> QED BY <1>5, <1>6, <1>8, <2>2
<1> QED BY <1>7, <1>8

LEMMA FoldExists ==
  ASSUME NEW f, NEW S, IsFiniteSet(S)
  PROVE  \E g : IsFold(g, f, S)
<1> DEFINE Below(n) == {s \in SUBSET S : Cardinality(s) <= n}
           Part(g, n) == g = [s \in Below(n) |-> IF s = {} THEN 0 ELSE f[Pick(s)] + g[s \ {Pick(s)}]]
           Bad == {T \in SUBSET S : ~ \E g : Part(g, Cardinality(T))}
<1>1. \A s \in SUBSET S : IsFiniteSet(s) /\ Cardinality(s) \in Nat /\ Cardinality(s) <= Cardinality(S)
  BY FS_Subset, FS_CardinalityType
<1>2. Bad = {}
  <2> SUFFICES ASSUME Bad # {} PROVE FALSE
    OBVIOUS
  <2>1. PICK T \in Bad : \A x \in T : T \ {x} \notin Bad
    <3> HIDE DEF Bad
    <3>1. Bad \subseteq SUBSET S
      BY DEF Bad
    <3> QED BY <3>1, SmallestSubset
  <2>2. CASE T = {}
    <3> DEFINE g == [s \in Below(0) |-> 0]
    <3>1. \A s \in Below(0) : s = {}
      BY <1>1, FS_EmptySet
    <3>2. Part(g, 0)
      BY <3>1
    <3> QED BY <2>1, <2>2, <3>2, FS_EmptySet
  <2>3. CASE T # {}
    <3>1. PICK x \in T : TRUE
      BY <2>3
    <3> DEFINE n == Cardinality(T \ {x})
    <3>2. n \in Nat /\ Cardinality(T) = n + 1
      BY <1>1, <3>1, FS_RemoveElement
    <3>3. PICK g : Part(g, n)
      BY <2>1, <3>1
    <3> DEFINE h == [s \in Below(n+1) |-> IF s = {} THEN 0 ELSE f[Pick(s)] + g[s \ {Pick(s)}]]
    <3> HIDE DEF n
    <3>4. \A s \in Below(n) : h[s] = g[s]
      <4> SUFFICES ASSUME NEW s \in Below(n) PROVE h[s] = g[s]
        OBVIOUS
      <4>1. s \in Below(n+1)
        BY <1>1, <3>2
      <4>2. g[s] = IF s = {} THEN 0 ELSE f[Pick(s)] + g[s \ {Pick(s)}]
        BY <3>3
      <4> QED BY <4>1, <4>2
    <3>5. \A s \in Below(n+1) : s # {} => s \ {Pick(s)} \in Below(n)
      <4> SUFFICES ASSUME NEW s \in Below(n+1), s # {} PROVE s \ {Pick(s)} \in Below(n)
        OBVIOUS
      <4>1. Pick(s) \in s
        BY DEF Pick
      <4>2. Cardinality(s \ {Pick(s)}) = Cardinality(s) - 1
        BY <4>1, <1>1, FS_RemoveElement
      <4> QED BY <4>2, <3>2, <1>1
    <3>6. Part(h, n+1)
      BY <3>4, <3>5
    <3>7. \E k : Part(k, Cardinality(T))
      <4>1. Part(h, Cardinality(T))
        BY <3>2, <3>6
      <4> HIDE DEF Part, h
      <4> QED BY <4>1
    <3> QED BY <2>1, <3>7
  <2> QED BY <2>2, <2>3
<1>3. PICK g : Part(g, Cardinality(S))
  BY <1>2
<1>4. Below(Cardinality(S)) = SUBSET S
  BY <1>1
<1>5. IsFold(g, f, S)
  BY <1>3, <1>4 DEF IsFold
<1> QED BY <1>5

LEMMA SumIsFold ==
  ASSUME NEW f, NEW S, IsFiniteSet(S)
  PROVE  \E g : IsFold(g, f, S) /\ SumOver(f, S) = g[S]
<1> DEFINE g == CHOOSE g : IsFold(g, f, S)
<1>1. SumOver(f, S) = g[S]
  BY DEF SumOver, MapThenSumSet, MapThenFoldSet, IsFold, Pick
<1>2. IsFold(g, f, S)
  BY FoldExists
<1> QED BY <1>1, <1>2

LEMMA SumEmpty ==
  ASSUME NEW f
  PROVE  SumOver(f, {}) = 0
<1>1. PICK g : IsFold(g, f, {}) /\ SumOver(f, {}) = g[{}]
  BY SumIsFold, FS_EmptySet
<1> QED BY <1>1 DEF IsFold

LEMMA SumPick ==
  ASSUME NEW f, NEW S, IsFiniteSet(S), S # {}
  PROVE  SumOver(f, S) = f[Pick(S)] + SumOver(f, S \ {Pick(S)})
<1> DEFINE T == S \ {Pick(S)}
<1>1. T \in SUBSET S /\ IsFiniteSet(T)
  BY FS_Subset
<1>2. PICK g : IsFold(g, f, S) /\ SumOver(f, S) = g[S]
  BY SumIsFold
<1>3. PICK h : IsFold(h, f, T) /\ SumOver(f, T) = h[T]
  BY <1>1, SumIsFold
<1>4. g[T] = h[T]
  <2> HIDE DEF T
  <2> QED BY <1>1, <1>2, <1>3, FoldUnique
<1>5. g[S] = f[Pick(S)] + g[T]
  BY <1>2 DEF IsFold
<1> QED BY <1>2, <1>3, <1>4, <1>5

LEMMA SumInt ==
  ASSUME NEW f, NEW S, IsFiniteSet(S), \A x \in S : f[x] \in Int
  PROVE  SumOver(f, S) \in Int
<1> DEFINE Bad == {T \in SUBSET S : SumOver(f, T) \notin Int}
<1> SUFFICES ASSUME Bad # {} PROVE FALSE
  OBVIOUS
<1>1. PICK T \in Bad : \A x \in T : T \ {x} \notin Bad
  <2> HIDE DEF Bad
  <2>1. Bad \subseteq SUBSET S
    BY DEF Bad
  <2> QED BY <2>1, SmallestSubset
<1>2. T # {}
  BY SumEmpty
<1>3. Pick(T) \in T
  BY <1>2 DEF Pick
<1>4. SumOver(f, T \ {Pick(T)}) \in Int
  BY <1>1, <1>3
<1>5. SumOver(f, T) = f[Pick(T)] + SumOver(f, T \ {Pick(T)})
  BY <1>2, SumPick, FS_Subset
<1> QED BY <1>3, <1>4, <1>5

\* Whatever element is added last.
LEMMA SumRemove ==
  ASSUME NEW f, NEW S, IsFiniteSet(S), \A x \in S : f[x] \in Int, NEW z \in S
  PROVE  SumOver(f, S) = f[z] + SumOver(f, S \ {z})
<1> DEFINE Ok(T, x) == SumOver(f, T) = f[x] + SumOver(f, T \ {x})
           Bad == {T \in SUBSET S : \E x \in T : ~Ok(T, x)}
<1> SUFFICES ASSUME Bad # {} PROVE FALSE
  OBVIOUS
<1>1. PICK T \in Bad : \A x \in T : T \ {x} \notin Bad
  <2> HIDE DEF Bad
  <2>1. Bad \subseteq SUBSET S
    BY DEF Bad
  <2> QED BY <2>1, SmallestSubset
<1>2. PICK x \in T : ~Ok(T, x)
  OBVIOUS
<1> DEFINE p == Pick(T)
<1>3. p \in T
  BY DEF Pick
<1>4. Ok(T, p)
  BY SumPick, FS_Subset
<1>5. x # p
  BY <1>2, <1>4
<1> HIDE DEF p
<1>6. Ok(T \ {p}, x) /\ Ok(T \ {x}, p)
  <2>1. x \in T \ {p} /\ p \in T \ {x}
    BY <1>3, <1>5
  <2>2. T \ {p} \notin Bad /\ T \ {x} \notin Bad
    BY <1>1, <1>3
  <2> HIDE DEF Ok
  <2> QED BY <2>1, <2>2
<1>7. (T \ {p}) \ {x} = (T \ {x}) \ {p}
  OBVIOUS
<1>8. SumOver(f, (T \ {p}) \ {x}) \in Int
  BY SumInt, FS_Subset
<1>9. f[x] \in Int /\ f[p] \in Int
  BY <1>3
<1>10. SumOver(f, T) = f[p] + (f[x] + SumOver(f, (T \ {p}) \ {x}))
  BY <1>4, <1>6
<1>11. f[x] + SumOver(f, T \ {x}) = f[x] + (f[p] + SumOver(f, (T \ {p}) \ {x}))
  BY <1>6, <1>7
<1>12. SumOver(f, T) = f[x] + SumOver(f, T \ {x})
  BY <1>8, <1>9, <1>10, <1>11
<1> QED BY <1>2, <1>12

LEMMA SumAdd ==
  ASSUME NEW f, NEW S, IsFiniteSet(S), NEW z, z \notin S,
         \A x \in S \cup {z} : f[x] \in Int
  PROVE  SumOver(f, S \cup {z}) = f[z] + SumOver(f, S)
<1>1. IsFiniteSet(S \cup {z}) /\ (S \cup {z}) \ {z} = S
  BY FS_AddElement
<1> QED BY <1>1, SumRemove

LEMMA SumNat ==
  ASSUME NEW f, NEW S, IsFiniteSet(S), \A x \in S : f[x] \in Nat
  PROVE  SumOver(f, S) \in Nat
<1> DEFINE Bad == {T \in SUBSET S : SumOver(f, T) \notin Nat}
<1> SUFFICES ASSUME Bad # {} PROVE FALSE
  OBVIOUS
<1>1. PICK T \in Bad : \A x \in T : T \ {x} \notin Bad
  <2> HIDE DEF Bad
  <2>1. Bad \subseteq SUBSET S
    BY DEF Bad
  <2> QED BY <2>1, SmallestSubset
<1>2. PICK z \in T : TRUE
  BY SumEmpty
<1>3. SumOver(f, T \ {z}) \in Nat
  BY <1>1
<1>4. SumOver(f, T) = f[z] + SumOver(f, T \ {z})
  BY SumRemove, FS_Subset
<1> QED BY <1>3, <1>4

LEMMA SumEqual ==
  ASSUME NEW f, NEW g, NEW S, IsFiniteSet(S), \A x \in S : f[x] \in Int /\ f[x] = g[x]
  PROVE  SumOver(f, S) = SumOver(g, S)
<1> DEFINE Bad == {T \in SUBSET S : SumOver(f, T) # SumOver(g, T)}
<1> SUFFICES ASSUME Bad # {} PROVE FALSE
  OBVIOUS
<1>1. PICK T \in Bad : \A x \in T : T \ {x} \notin Bad
  <2> HIDE DEF Bad
  <2>1. Bad \subseteq SUBSET S
    BY DEF Bad
  <2> QED BY <2>1, SmallestSubset
<1>2. PICK z \in T : TRUE
  BY SumEmpty
<1>3. SumOver(f, T \ {z}) = SumOver(g, T \ {z})
  BY <1>1
<1>4. SumOver(f, T) = f[z] + SumOver(f, T \ {z})
  BY SumRemove, FS_Subset
<1>5. SumOver(g, T) = g[z] + SumOver(g, T \ {z})
  BY SumRemove, FS_Subset
<1> QED BY <1>3, <1>4, <1>5

LEMMA SumPlus ==
  ASSUME NEW f, NEW g, NEW h, NEW S, IsFiniteSet(S),
         \A x \in S : f[x] \in Int /\ g[x] \in Int /\ h[x] = f[x] + g[x]
  PROVE  SumOver(h, S) = SumOver(f, S) + SumOver(g, S)
<1> DEFINE Bad == {T \in SUBSET S : SumOver(h, T) # SumOver(f, T) + SumOver(g, T)}
<1> SUFFICES ASSUME Bad # {} PROVE FALSE
  OBVIOUS
<1>1. PICK T \in Bad : \A x \in T : T \ {x} \notin Bad
  <2> HIDE DEF Bad
  <2>1. Bad \subseteq SUBSET S
    BY DEF Bad
  <2> QED BY <2>1, SmallestSubset
<1>2. T # {}
  <2>1. SumOver(f, {}) = 0 /\ SumOver(g, {}) = 0 /\ SumOver(h, {}) = 0
    BY SumEmpty
  <2>2. SumOver(h, {}) = SumOver(f, {}) + SumOver(g, {})
    BY <2>1
  <2> QED BY <2>2
<1>3. PICK z \in T : TRUE
  BY <1>2
<1>4. SumOver(h, T \ {z}) = SumOver(f, T \ {z}) + SumOver(g, T \ {z})
  BY <1>1
<1>5. IsFiniteSet(T) /\ IsFiniteSet(T \ {z})
  BY FS_Subset
<1>6. SumOver(f, T \ {z}) \in Int /\ SumOver(g, T \ {z}) \in Int
  BY <1>5, SumInt
<1>7. \A x \in T : h[x] \in Int
  OBVIOUS
<1>8. /\ SumOver(f, T) = f[z] + SumOver(f, T \ {z})
      /\ SumOver(g, T) = g[z] + SumOver(g, T \ {z})
      /\ SumOver(h, T) = h[z] + SumOver(h, T \ {z})
  BY <1>5, <1>7, SumRemove
<1> QED BY <1>4, <1>6, <1>8

LEMMA SumMonotonic ==
  ASSUME NEW f, NEW g, NEW S, IsFiniteSet(S),
         \A x \in S : f[x] \in Int /\ g[x] \in Int /\ f[x] <= g[x]
  PROVE  SumOver(f, S) <= SumOver(g, S)
<1> DEFINE d == [x \in S |-> g[x] - f[x]]
<1>1. SumOver(d, S) \in Nat
  <2>1. \A x \in S : d[x] \in Nat
    OBVIOUS
  <2> HIDE DEF d
  <2> QED BY <2>1, SumNat
<1>2. SumOver(g, S) = SumOver(f, S) + SumOver(d, S)
  <2>1. \A x \in S : f[x] \in Int /\ d[x] \in Int /\ g[x] = f[x] + d[x]
    OBVIOUS
  <2> HIDE DEF d
  <2> QED BY <2>1, SumPlus
<1>3. SumOver(f, S) \in Int
  BY SumInt
<1> QED BY <1>1, <1>2, <1>3

LEMMA SumUnion ==
  ASSUME NEW f, NEW S, IsFiniteSet(S), NEW A, A \subseteq S, \A x \in S : f[x] \in Int
  PROVE  SumOver(f, S) = SumOver(f, A) + SumOver(f, S \ A)
<1> DEFINE Bad == {T \in SUBSET A : SumOver(f, (S \ A) \cup T) # SumOver(f, T) + SumOver(f, S \ A)}
<1>1. Bad = {}
  <2> SUFFICES ASSUME Bad # {} PROVE FALSE
    OBVIOUS
  <2>1. IsFiniteSet(A) /\ IsFiniteSet(S \ A) /\ \A T \in SUBSET S : IsFiniteSet(T)
    BY FS_Subset
  <2>2. PICK T \in Bad : \A x \in T : T \ {x} \notin Bad
    <3> HIDE DEF Bad
    <3>1. Bad \subseteq SUBSET A
      BY DEF Bad
    <3> QED BY <2>1, <3>1, SmallestSubset
  <2>3. SumOver(f, S \ A) \in Int
    BY <2>1, SumInt
  <2>4. T # {}
    <3>1. (S \ A) \cup {} = S \ A
      OBVIOUS
    <3>2. SumOver(f, S \ A) = SumOver(f, {}) + SumOver(f, S \ A)
      BY <2>3, SumEmpty
    <3>3. SumOver(f, (S \ A) \cup {}) = SumOver(f, {}) + SumOver(f, S \ A)
      BY <3>1, <3>2
    <3> QED BY <3>3
  <2>5. PICK z \in T : TRUE
    BY <2>4
  <2>6. SumOver(f, (S \ A) \cup (T \ {z})) = SumOver(f, T \ {z}) + SumOver(f, S \ A)
    BY <2>2
  <2>7. SumOver(f, T) = f[z] + SumOver(f, T \ {z})
    BY <2>1, SumRemove
  <2>8. SumOver(f, (S \ A) \cup T) = f[z] + SumOver(f, (S \ A) \cup (T \ {z}))
    <3> DEFINE U == (S \ A) \cup T
    <3>1. U \in SUBSET S /\ z \in U /\ U \ {z} = (S \ A) \cup (T \ {z})
      OBVIOUS
    <3> HIDE DEF U
    <3>2. SumOver(f, U) = f[z] + SumOver(f, U \ {z})
      BY <2>1, <3>1, SumRemove
    <3> QED BY <3>1, <3>2 DEF U
  <2>9. SumOver(f, T \ {z}) \in Int
    BY <2>1, SumInt
  <2>10. f[z] \in Int
    BY <2>5
  <2>11. SumOver(f, (S \ A) \cup T) = SumOver(f, T) + SumOver(f, S \ A)
    BY <2>3, <2>6, <2>7, <2>8, <2>9, <2>10
  <2> QED BY <2>11
<1>2. (S \ A) \cup A = S
  OBVIOUS
<1> QED BY <1>1, <1>2

\* Elements at which the function is zero do not matter.
LEMMA SumSupport ==
  ASSUME NEW f, NEW S, IsFiniteSet(S), NEW A, A \subseteq S,
         \A x \in S : f[x] \in Int, \A x \in S \ A : f[x] = 0
  PROVE  SumOver(f, S) = SumOver(f, A)
<1>1. IsFiniteSet(A) /\ IsFiniteSet(S \ A)
  BY FS_Subset
<1>2. SumOver(f, S \ A) + SumOver(f, S \ A) = SumOver(f, S \ A)
  <2>1. \A x \in S \ A : f[x] \in Int /\ f[x] = f[x] + f[x]
    OBVIOUS
  <2> QED BY <1>1, <2>1, SumPlus
<1>3. SumOver(f, S \ A) \in Int /\ SumOver(f, A) \in Int
  BY <1>1, SumInt
<1>4. SumOver(f, S) = SumOver(f, A) + SumOver(f, S \ A)
  BY SumUnion
<1>5. SumOver(f, S \ A) = 0
  <2> DEFINE n == SumOver(f, S \ A)
  <2>1. n \in Int /\ n + n = n
    BY <1>2, <1>3
  <2> HIDE DEF n
  <2>2. n = 0
    BY <2>1
  <2> QED BY <2>2 DEF n
<1> QED BY <1>3, <1>4, <1>5

\* A change at one element changes the sum by as much.
LEMMA SumChange ==
  ASSUME NEW f, NEW g, NEW S, IsFiniteSet(S), NEW z \in S,
         \A x \in S : f[x] \in Int /\ g[x] \in Int,
         \A x \in S \ {z} : g[x] = f[x]
  PROVE  SumOver(g, S) = SumOver(f, S) + (g[z] - f[z])
<1>1. IsFiniteSet(S \ {z})
  BY FS_Subset
<1>2. SumOver(f, S \ {z}) = SumOver(g, S \ {z})
  BY <1>1, SumEqual
<1>3. SumOver(f, S \ {z}) \in Int
  BY <1>1, SumInt
<1>4. SumOver(f, S) = f[z] + SumOver(f, S \ {z})
  BY SumRemove
<1>5. SumOver(g, S) = g[z] + SumOver(g, S \ {z})
  BY SumRemove
<1> QED BY <1>2, <1>3, <1>4, <1>5
=============================================================================
