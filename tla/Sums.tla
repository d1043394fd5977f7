--------------------------------- MODULE Sums ---------------------------------
(***************************************************************************)
(* Induction over finite sets, from the well-foundedness of strict           *)
(* inclusion, and what it shows of SumFunctionOnSet: that the recursive      *)
(* function its fold chooses exists, and so what a sum over a finite set is, *)
(* whatever the order the fold takes the elements in.                        *)
(***************************************************************************)
EXTENDS Integers, FiniteSets, Functions, TLAPS, WellFoundedInduction, FiniteSetTheorems

\* A family of subsets of a finite set has a minimal member.
LEMMA MinimalSubset ==
  ASSUME NEW S, IsFiniteSet(S), NEW F, F \subseteq SUBSET S, F # {}
  PROVE  \E T \in F : \A U \in F : U \subseteq T => U = T
<1>1. IsWellFoundedOn(StrictSubsetOrdering(S), FiniteSubsetsOf(S))
  BY FS_StrictSubsetOrderingWellFounded
<1>2. FiniteSubsetsOf(S) = SUBSET S
  BY FS_FiniteSubsetsOfFinite
<1>3. \E T \in F : \A U \in F : ~ (<<U, T>> \in StrictSubsetOrdering(S))
  BY <1>1, <1>2, WFMin
<1>. QED  BY <1>3 DEF StrictSubsetOrdering

\* Induction over a finite set: a family of sets that has a set as soon as it has
\* that set without any one of its elements has all the subsets.
LEMMA SubsetInduction ==
  ASSUME NEW S, IsFiniteSet(S), NEW G,
         \A T \in SUBSET S : (\A x \in T : T \ {x} \in G) => T \in G
  PROVE  SUBSET S \subseteq G
<1>. DEFINE F == (SUBSET S) \ G
<1>. SUFFICES ASSUME F # {} PROVE FALSE
  OBVIOUS
<1>1. PICK T \in F : \A U \in F : U \subseteq T => U = T
  <2>1. F \subseteq SUBSET S
    OBVIOUS
  <2>. HIDE DEF F
  <2>. QED  BY <2>1, MinimalSubset
<1>2. \A x \in T : T \ {x} \in G
  <2>. SUFFICES ASSUME NEW x \in T PROVE T \ {x} \notin F
    BY <1>1
  <2>. QED  BY <1>1
<1>. QED  BY <1>1, <1>2

\* Induction up to a bound: what has 0 and, with any number below the bound, the next
\* one, has all the numbers up to it.
LEMMA UpTo ==
  ASSUME NEW L \in Nat, NEW G, 0 \in G, \A n \in 0..L : n < L /\ n \in G => n + 1 \in G
  PROVE  0..L \subseteq G
<1>. DEFINE F == {T \in SUBSET (1..L) : \A n \in 0..L : T = 1..n => n \in G}
<1>1. ASSUME NEW T \in SUBSET (1..L), \A x \in T : T \ {x} \in F
      PROVE  T \in F
  <2>. SUFFICES ASSUME NEW n \in 0..L, T = 1..n PROVE n \in G
    OBVIOUS
  <2>1. CASE n = 0
    BY <2>1
  <2>2. CASE n # 0
    <3>1. n \in T /\ T \ {n} = 1..(n - 1) /\ n - 1 \in 0..L
      BY <2>2
    <3>2. n - 1 \in G
      BY <1>1, <3>1
    <3>. QED  BY <2>2, <3>1, <3>2
  <2>. QED  BY <2>1, <2>2
<1>2. SUBSET (1..L) \subseteq F
  <2>1. IsFiniteSet(1..L)
    BY FS_Interval
  <2>. HIDE DEF F
  <2>. QED  BY <1>1, <2>1, SubsetInduction
<1>3. \A n \in 0..L : 1..n \in SUBSET (1..L)
  OBVIOUS
<1>4. \A n \in 0..L : 1..n \in F
  <2>. HIDE DEF F
  <2>. QED  BY <1>2, <1>3
<1>. QED  BY <1>4

----------------------------------------------------------------------------
(* The recursive function of the fold *)

\* g is the function the fold of f over S defines by recursion.
IsSum(g, f, S) ==
  g = [s \in SUBSET S |-> IF s = {} THEN 0
         ELSE LET x == CHOOSE x \in s : TRUE IN f[x] + g[s \ {x}]]

\* The fold is that function, at the set itself.
LEMMA SumUnfolds ==
  ASSUME NEW f, NEW S
  PROVE  SumFunctionOnSet(f, S) = (CHOOSE g : IsSum(g, f, S))[S]
BY DEF IsSum, SumFunctionOnSet, FoldFunctionOnSet, MapThenFoldSet

\* Two such functions, over two sets, agree on their common subsets.
LEMMA SumsAgree ==
  ASSUME NEW f, NEW U, NEW V, IsFiniteSet(U), NEW g, NEW h, IsSum(g, f, U), IsSum(h, f, V)
  PROVE  \A s \in SUBSET U : s \in SUBSET V => g[s] = h[s]
<1>. DEFINE G == {s \in SUBSET U : s \in SUBSET V => g[s] = h[s]}
<1>1. ASSUME NEW s \in SUBSET U, \A x \in s : s \ {x} \in G
      PROVE  s \in G
  <2>. SUFFICES ASSUME s \in SUBSET V PROVE g[s] = h[s]
    OBVIOUS
  <2>1. CASE s = {}
    BY <2>1 DEF IsSum
  <2>2. CASE s # {}
    <3>. DEFINE x == CHOOSE x \in s : TRUE
    <3>1. x \in s
      BY <2>2
    <3>2. g[s \ {x}] = h[s \ {x}]
      BY <1>1, <3>1
    <3>3. g[s] = f[x] + g[s \ {x}] /\ h[s] = f[x] + h[s \ {x}]
      BY <2>2 DEF IsSum
    <3>. QED  BY <3>2, <3>3
  <2>. QED  BY <2>1, <2>2
<1>. HIDE DEF G
<1>2. SUBSET U \subseteq G
  BY <1>1, SubsetInduction
<1>. QED  BY <1>2 DEF G

\* The recursion defines a function: it is built from those of the smaller sets.
LEMMA SumExists ==
  ASSUME NEW f, NEW S, IsFiniteSet(S)
  PROVE  IsSum(CHOOSE g : IsSum(g, f, S), f, S)
<1>. DEFINE D == {T \in SUBSET S : \E g : IsSum(g, f, T)}
            on(U) == CHOOSE g : IsSum(g, f, U)
            pick(s) == CHOOSE x \in s : TRUE
<1>1. ASSUME NEW T \in SUBSET S, \A x \in T : T \ {x} \in D
      PROVE  T \in D
  <2>. DEFINE rest(s) == s \ {pick(s)}
              G == [s \in SUBSET T |-> IF s = {} THEN 0 ELSE f[pick(s)] + on(rest(s))[rest(s)]]
              H == [s \in SUBSET T |-> IF s = {} THEN 0 ELSE f[pick(s)] + G[rest(s)]]
  <2>1. ASSUME NEW x \in T, NEW U \in SUBSET (T \ {x})
        PROVE  IsSum(on(U), f, U)
    <3>1. PICK g : IsSum(g, f, T \ {x})
      BY <1>1
    <3>. DEFINE h == [s \in SUBSET U |-> g[s]]
                k == [s \in SUBSET U |-> IF s = {} THEN 0 ELSE f[pick(s)] + h[rest(s)]]
    <3>2. \A s \in SUBSET U : h[s] = k[s]
      BY <3>1 DEF IsSum
    <3>3. h = k
      <4>1. h = [s \in SUBSET U |-> h[s]] /\ k = [s \in SUBSET U |-> k[s]]
        OBVIOUS
      <4>. HIDE DEF h, k
      <4>. QED  BY <3>2, <4>1
    <3>4. IsSum(h, f, U)
      BY <3>3 DEF IsSum
    <3>. QED  BY <3>4
  <2>2. ASSUME NEW s \in SUBSET T, s # {}
        PROVE  G[rest(s)] = on(rest(s))[rest(s)]
    <3>. DEFINE r == rest(s)
    <3>1. pick(s) \in s /\ r \in SUBSET T /\ r \in SUBSET (T \ {pick(s)})
      BY <2>2
    <3>2. IsSum(on(r), f, r)
      BY <2>1, <3>1
    <3>3. CASE r = {}
      <4>1. G[r] = 0
        BY <3>3
      <4>2. on(r)[r] = 0
        <5>. HIDE DEF on, r
        <5>. QED  BY <3>2, <3>3 DEF IsSum
      <4>. QED  BY <4>1, <4>2
    <3>4. CASE r # {}
      <4>. DEFINE q == rest(r)
      <4>1. pick(r) \in r /\ q \in SUBSET r /\ q \in SUBSET (T \ {pick(s)})
        BY <3>4
      <4>2. IsSum(on(q), f, q) /\ IsFiniteSet(q)
        BY <2>1, <3>1, <4>1, FS_Subset
      <4>3. G[r] = f[pick(r)] + on(q)[q]
        BY <3>1, <3>4
      <4>. HIDE DEF on
      <4>4. on(q)[q] = on(r)[q]
        BY <3>2, <4>1, <4>2, SumsAgree
      <4>5. on(r)[r] = f[pick(r)] + on(r)[q]
        <5>1. r \in SUBSET r
          OBVIOUS
        <5>. QED  BY <3>2, <3>4, <5>1 DEF IsSum
      <4>. QED  BY <4>3, <4>4, <4>5
    <3>. QED  BY <3>3, <3>4
  <2>3. G = H
    <3>1. \A s \in SUBSET T : G[s] = H[s]
      <4>. SUFFICES ASSUME NEW s \in SUBSET T PROVE G[s] = H[s]
        OBVIOUS
      <4>1. CASE s = {}
        BY <4>1
      <4>2. CASE s # {}
        <5>1. /\ G[s] = f[pick(s)] + on(rest(s))[rest(s)]
              /\ H[s] = f[pick(s)] + G[rest(s)]
          BY <4>2
        <5>2. G[rest(s)] = on(rest(s))[rest(s)]
          BY <2>2, <4>2
        <5>. HIDE DEF G, H
        <5>. QED  BY <5>1, <5>2
      <4>. QED  BY <4>1, <4>2
    <3>2. G = [s \in SUBSET T |-> G[s]] /\ H = [s \in SUBSET T |-> H[s]]
      OBVIOUS
    <3>. HIDE DEF G, H
    <3>. QED  BY <3>1, <3>2
  <2>4. IsSum(G, f, T)
    <3>. HIDE DEF G
    <3>. QED  BY <2>3 DEF IsSum
  <2>. HIDE DEF G
  <2>. QED  BY <2>4
<1>2. SUBSET S \subseteq D
  <2>. HIDE DEF D
  <2>. QED  BY <1>1, SubsetInduction
<1>3. \E g : IsSum(g, f, S)
  BY <1>2
<1>. QED  BY <1>3

\* The sum over a set is the value there of any such function over a larger set.
LEMMA SumIsSum ==
  ASSUME NEW f, NEW S, IsFiniteSet(S), NEW T \in SUBSET S, NEW g, IsSum(g, f, S)
  PROVE  SumFunctionOnSet(f, T) = g[T]
<1>1. IsFiniteSet(T)
  BY FS_Subset
<1>. DEFINE h == CHOOSE h : IsSum(h, f, T)
<1>2. IsSum(h, f, T)
  BY <1>1, SumExists
<1>3. SumFunctionOnSet(f, T) = h[T]
  BY SumUnfolds
<1>. HIDE DEF h
<1>. QED  BY <1>1, <1>2, <1>3, SumsAgree

----------------------------------------------------------------------------
(* Sums *)

\* A sum of nothing is 0.
LEMMA SumOfNone ==
  ASSUME NEW f
  PROVE  SumFunctionOnSet(f, {}) = 0
<1>1. IsFiniteSet({})
  BY FS_EmptySet
<1>2. PICK g : IsSum(g, f, {})
  BY <1>1, SumExists
<1>3. g[{}] = 0
  BY <1>2 DEF IsSum
<1>. QED  BY <1>1, <1>2, <1>3, SumIsSum

\* Any other sum takes some element first.
LEMMA SumTakes ==
  ASSUME NEW f, NEW S, IsFiniteSet(S), S # {}
  PROVE  \E x \in S : SumFunctionOnSet(f, S) = f[x] + SumFunctionOnSet(f, S \ {x})
<1>1. PICK g : IsSum(g, f, S)
  BY SumExists
<1>. DEFINE x == CHOOSE x \in S : TRUE
<1>2. x \in S
  OBVIOUS
<1>3. g[S] = f[x] + g[S \ {x}]
  BY <1>1 DEF IsSum
<1>4. SumFunctionOnSet(f, S) = g[S] /\ SumFunctionOnSet(f, S \ {x}) = g[S \ {x}]
  BY <1>1, SumIsSum
<1>. QED  BY <1>2, <1>3, <1>4

\* A sum of integers is an integer.
LEMMA SumInt ==
  ASSUME NEW f, NEW S, IsFiniteSet(S), \A x \in S : f[x] \in Int
  PROVE  SumFunctionOnSet(f, S) \in Int
<1>. DEFINE G == {T \in SUBSET S : SumFunctionOnSet(f, T) \in Int}
<1>1. ASSUME NEW T \in SUBSET S, \A x \in T : T \ {x} \in G
      PROVE  T \in G
  <2>1. CASE T = {}
    BY <2>1, SumOfNone
  <2>2. CASE T # {}
    <3>1. PICK x \in T : SumFunctionOnSet(f, T) = f[x] + SumFunctionOnSet(f, T \ {x})
      BY <2>2, FS_Subset, SumTakes
    <3>. QED  BY <1>1, <3>1
  <2>. QED  BY <2>1, <2>2
<1>2. SUBSET S \subseteq G
  <2>. HIDE DEF G
  <2>. QED  BY <1>1, SubsetInduction
<1>. QED  BY <1>2

\* Which element a sum of integers takes first makes no difference.
LEMMA SumWithout ==
  ASSUME NEW f, NEW S, IsFiniteSet(S), \A y \in S : f[y] \in Int, NEW x \in S
  PROVE  SumFunctionOnSet(f, S) = f[x] + SumFunctionOnSet(f, S \ {x})
<1>. DEFINE sum(T) == SumFunctionOnSet(f, T)
            G == {T \in SUBSET S : \A y \in T : sum(T) = f[y] + sum(T \ {y})}
<1>1. \A U \in SUBSET S : sum(U) \in Int
  <2>. SUFFICES ASSUME NEW U \in SUBSET S PROVE sum(U) \in Int
    OBVIOUS
  <2>1. IsFiniteSet(U)
    BY FS_Subset
  <2>. QED  BY <2>1, SumInt
<1>2. ASSUME NEW T \in SUBSET S, \A y \in T : T \ {y} \in G, NEW y \in T
      PROVE  sum(T) = f[y] + sum(T \ {y})
  <2>1. PICK z \in T : sum(T) = f[z] + sum(T \ {z})
    BY <1>2, FS_Subset, SumTakes
  <2>2. CASE z = y
    BY <2>1, <2>2
  <2>3. CASE z # y
    <3>. DEFINE rest == (T \ {y}) \ {z}
    <3>1. sum(T \ {z}) = f[y] + sum((T \ {z}) \ {y}) /\ sum(T \ {y}) = f[z] + sum(rest)
      BY <1>2, <2>1, <2>3
    <3>2. (T \ {z}) \ {y} = rest
      OBVIOUS
    <3>3. sum(rest) \in Int /\ f[y] \in Int /\ f[z] \in Int
      BY <1>1, <1>2, <2>1
    <3>. HIDE DEF sum, rest
    <3>4. sum(T) = f[z] + (f[y] + sum(rest))
      BY <2>1, <3>1, <3>2
    <3>5. sum(T \ {y}) = f[z] + sum(rest)
      BY <3>1
    <3>. QED  BY <3>3, <3>4, <3>5
  <2>. QED  BY <2>2, <2>3
<1>3. SUBSET S \subseteq G
  <2>1. \A T \in SUBSET S : (\A y \in T : T \ {y} \in G) => T \in G
    BY <1>2
  <2>. HIDE DEF G
  <2>. QED  BY <2>1, SubsetInduction
<1>. QED  BY <1>3

\* A sum of natural numbers is one.
LEMMA SumNat ==
  ASSUME NEW f, NEW S, IsFiniteSet(S), \A x \in S : f[x] \in Nat
  PROVE  SumFunctionOnSet(f, S) \in Nat
<1>. DEFINE G == {T \in SUBSET S : SumFunctionOnSet(f, T) \in Nat}
<1>1. ASSUME NEW T \in SUBSET S, \A x \in T : T \ {x} \in G
      PROVE  T \in G
  <2>1. CASE T = {}
    BY <2>1, SumOfNone
  <2>2. CASE T # {}
    <3>1. PICK x \in T : SumFunctionOnSet(f, T) = f[x] + SumFunctionOnSet(f, T \ {x})
      BY <2>2, FS_Subset, SumTakes
    <3>. QED  BY <1>1, <3>1
  <2>. QED  BY <2>1, <2>2
<1>2. SUBSET S \subseteq G
  <2>. HIDE DEF G
  <2>. QED  BY <1>1, SubsetInduction
<1>. QED  BY <1>2

\* What adds nothing adds up to nothing.
LEMMA SumOfZeros ==
  ASSUME NEW f, NEW S, IsFiniteSet(S), \A x \in S : f[x] = 0
  PROVE  SumFunctionOnSet(f, S) = 0
<1>. DEFINE G == {T \in SUBSET S : SumFunctionOnSet(f, T) = 0}
<1>1. ASSUME NEW T \in SUBSET S, \A x \in T : T \ {x} \in G
      PROVE  T \in G
  <2>1. CASE T = {}
    BY <2>1, SumOfNone
  <2>2. CASE T # {}
    <3>1. IsFiniteSet(T)
      BY FS_Subset
    <3>2. PICK x \in T : SumFunctionOnSet(f, T) = f[x] + SumFunctionOnSet(f, T \ {x})
      BY <2>2, <3>1, SumTakes
    <3>3. f[x] = 0 /\ SumFunctionOnSet(f, T \ {x}) = 0
      BY <1>1
    <3>. QED  BY <3>2, <3>3
  <2>. QED  BY <2>1, <2>2
<1>. HIDE DEF G
<1>2. SUBSET S \subseteq G
  BY <1>1, SubsetInduction
<1>. QED  BY <1>2 DEF G

\* Sums of equal numbers are equal.
LEMMA SumEqual ==
  ASSUME NEW S, IsFiniteSet(S), NEW f, NEW g, \A x \in S : f[x] \in Int /\ f[x] = g[x]
  PROVE  SumFunctionOnSet(f, S) = SumFunctionOnSet(g, S)
<1>. DEFINE G == {T \in SUBSET S : SumFunctionOnSet(f, T) = SumFunctionOnSet(g, T)}
<1>1. ASSUME NEW T \in SUBSET S, \A x \in T : T \ {x} \in G
      PROVE  T \in G
  <2>1. CASE T = {}
    BY <2>1, SumOfNone
  <2>2. CASE T # {}
    <3>1. IsFiniteSet(T)
      BY FS_Subset
    <3>2. PICK x \in T : SumFunctionOnSet(f, T) = f[x] + SumFunctionOnSet(f, T \ {x})
      BY <2>2, <3>1, SumTakes
    <3>3. SumFunctionOnSet(g, T) = g[x] + SumFunctionOnSet(g, T \ {x})
      BY <3>1, SumWithout
    <3>. QED  BY <1>1, <3>2, <3>3
  <2>. QED  BY <2>1, <2>2
<1>2. SUBSET S \subseteq G
  <2>. HIDE DEF G
  <2>. QED  BY <1>1, SubsetInduction
<1>. QED  BY <1>2

\* A sum over two disjoint sets is the sum of the sums.
LEMMA SumUnion ==
  ASSUME NEW f, NEW S, NEW T, IsFiniteSet(S), IsFiniteSet(T), S \cap T = {},
         \A x \in S \cup T : f[x] \in Int
  PROVE  SumFunctionOnSet(f, S \cup T) = SumFunctionOnSet(f, S) + SumFunctionOnSet(f, T)
<1>. DEFINE sum(U) == SumFunctionOnSet(f, U)
            G == {U \in SUBSET S : sum(U \cup T) = sum(U) + sum(T)}
<1>1. ASSUME NEW U \in SUBSET S, \A x \in U : U \ {x} \in G
      PROVE  U \in G
  <2>1. CASE U = {}
    <3>1. sum({}) = 0 /\ sum(T) \in Int /\ U \cup T = T
      BY <2>1, SumOfNone, SumInt
    <3>. HIDE DEF sum
    <3>. QED  BY <2>1, <3>1
  <2>2. CASE U # {}
    <3>1. PICK x \in U : TRUE
      BY <2>2
    <3>2. IsFiniteSet(U) /\ IsFiniteSet(U \cup T) /\ IsFiniteSet(U \ {x})
      BY FS_Subset, FS_Union
    <3>3. sum(U) = f[x] + sum(U \ {x})
      BY <3>2, SumWithout
    <3>4. sum(U \cup T) = f[x] + sum((U \cup T) \ {x})
      BY <3>2, SumWithout
    <3>5. (U \cup T) \ {x} = (U \ {x}) \cup T
      OBVIOUS
    <3>6. sum((U \ {x}) \cup T) = sum(U \ {x}) + sum(T)
      BY <1>1
    <3>7. sum(U \ {x}) \in Int /\ sum(T) \in Int /\ f[x] \in Int
      BY <3>2, SumInt
    <3>. HIDE DEF sum
    <3>8. sum(U \cup T) = f[x] + (sum(U \ {x}) + sum(T))
      BY <3>4, <3>5, <3>6
    <3>9. sum(U \cup T) = sum(U) + sum(T)
      BY <3>3, <3>7, <3>8
    <3>. QED  BY <3>9
  <2>. QED  BY <2>1, <2>2
<1>2. SUBSET S \subseteq G
  <2>. HIDE DEF G
  <2>. QED  BY <1>1, SubsetInduction
<1>. QED  BY <1>2

\* A part of a sum of natural numbers is not above it.
LEMMA SumOfPart ==
  ASSUME NEW f, NEW S, IsFiniteSet(S), \A x \in S : f[x] \in Nat, NEW T \in SUBSET S
  PROVE  SumFunctionOnSet(f, T) <= SumFunctionOnSet(f, S)
<1>1. IsFiniteSet(T) /\ IsFiniteSet(S \ T) /\ S = T \cup (S \ T)
  BY FS_Subset
<1>2. SumFunctionOnSet(f, S) = SumFunctionOnSet(f, T) + SumFunctionOnSet(f, S \ T)
  BY <1>1, SumUnion
<1>3. SumFunctionOnSet(f, T) \in Nat /\ SumFunctionOnSet(f, S \ T) \in Nat
  BY <1>1, SumNat
<1>. QED  BY <1>2, <1>3

\* A sum over a partition of a set into parts, one per index, is the sum over the
\* indices of the sums over the parts.
LEMMA SumOfSums ==
  ASSUME NEW I, IsFiniteSet(I), NEW f, NEW part,
         \A i \in I : IsFiniteSet(part[i]) /\ \A x \in part[i] : f[x] \in Int,
         \A i, j \in I : i # j => part[i] \cap part[j] = {}
  PROVE  SumFunctionOnSet([i \in I |-> SumFunctionOnSet(f, part[i])], I)
           = SumFunctionOnSet(f, UNION {part[i] : i \in I})
<1>. DEFINE all(J) == UNION {part[i] : i \in J}
            g == [i \in I |-> SumFunctionOnSet(f, part[i])]
            G == {J \in SUBSET I : IsFiniteSet(all(J))
                                   /\ SumFunctionOnSet(g, J) = SumFunctionOnSet(f, all(J))}
<1>1. \A i \in I : g[i] = SumFunctionOnSet(f, part[i]) /\ g[i] \in Int
  BY SumInt
<1>2. ASSUME NEW J \in SUBSET I, \A i \in J : J \ {i} \in G
      PROVE  J \in G
  <2>1. CASE J = {}
    <3>1. all(J) = {} /\ IsFiniteSet({})
      BY <2>1, FS_EmptySet
    <3>. HIDE DEF g, all
    <3>. QED  BY <2>1, <3>1, SumOfNone
  <2>2. CASE J # {}
    <3>1. PICK i \in J : TRUE
      BY <2>2
    <3>2. IsFiniteSet(J)
      BY FS_Subset
    <3>3. IsFiniteSet(all(J \ {i})) /\ SumFunctionOnSet(g, J \ {i}) = SumFunctionOnSet(f, all(J \ {i}))
      BY <1>2
    <3>4. all(J) = part[i] \cup all(J \ {i}) /\ part[i] \cap all(J \ {i}) = {}
      OBVIOUS
    <3>5. IsFiniteSet(part[i]) /\ \A x \in part[i] \cup all(J \ {i}) : f[x] \in Int
      OBVIOUS
    <3>. DEFINE rest == all(J \ {i})
                own == part[i]
    <3>. HIDE DEF G, g, all, own, rest
    <3>6. SumFunctionOnSet(g, J) = g[i] + SumFunctionOnSet(g, J \ {i})
      BY <1>1, <3>2, SumWithout
    <3>7. SumFunctionOnSet(f, own \cup rest) = SumFunctionOnSet(f, own) + SumFunctionOnSet(f, rest)
      <4>1. IsFiniteSet(own) /\ IsFiniteSet(rest) /\ own \cap rest = {}
            /\ \A x \in own \cup rest : f[x] \in Int
        BY <3>3, <3>4, <3>5 DEF own, rest
      <4>. QED  BY <4>1, SumUnion
    <3>8. IsFiniteSet(own \cup rest)
      BY <3>3, <3>5, FS_Union DEF own, rest
    <3>9. all(J) = own \cup rest
      BY <3>4 DEF own, rest
    <3>10. g[i] = SumFunctionOnSet(f, own)
      BY <1>1 DEF own
    <3>11. SumFunctionOnSet(g, J \ {i}) = SumFunctionOnSet(f, rest)
      BY <3>3 DEF rest
    <3>12. SumFunctionOnSet(g, J) = SumFunctionOnSet(f, all(J))
      BY <3>6, <3>7, <3>9, <3>10, <3>11
    <3>. QED  BY <3>8, <3>9, <3>12 DEF G
  <2>. QED  BY <2>1, <2>2
<1>3. SUBSET I \subseteq G
  <2>. HIDE DEF G
  <2>. QED  BY <1>2, SubsetInduction
<1>4. I \in G
  BY <1>3
<1>. QED  BY <1>4

\* Of two sums over the same set, the one with the lesser numbers is the lesser.
LEMMA SumMonotone ==
  ASSUME NEW S, IsFiniteSet(S), NEW f, NEW g,
         \A x \in S : f[x] \in Int /\ g[x] \in Int /\ f[x] <= g[x]
  PROVE  SumFunctionOnSet(f, S) <= SumFunctionOnSet(g, S)
<1>. DEFINE G == {T \in SUBSET S : SumFunctionOnSet(f, T) <= SumFunctionOnSet(g, T)}
<1>1. ASSUME NEW T \in SUBSET S, \A x \in T : T \ {x} \in G
      PROVE  T \in G
  <2>1. CASE T = {}
    BY <2>1, SumOfNone
  <2>2. CASE T # {}
    <3>1. PICK x \in T : TRUE
      BY <2>2
    <3>2. IsFiniteSet(T) /\ IsFiniteSet(T \ {x})
      BY FS_Subset
    <3>3. SumFunctionOnSet(f, T) = f[x] + SumFunctionOnSet(f, T \ {x})
      BY <3>2, SumWithout
    <3>4. SumFunctionOnSet(g, T) = g[x] + SumFunctionOnSet(g, T \ {x})
      BY <3>2, SumWithout
    <3>5. SumFunctionOnSet(f, T \ {x}) \in Int /\ SumFunctionOnSet(g, T \ {x}) \in Int
      BY <3>2, SumInt
    <3>. QED  BY <1>1, <3>3, <3>4, <3>5
  <2>. QED  BY <2>1, <2>2
<1>2. SUBSET S \subseteq G
  <2>. HIDE DEF G
  <2>. QED  BY <1>1, SubsetInduction
<1>. QED  BY <1>2

\* The sum of a function that adds two others is the sum of their sums.
LEMMA SumAdds ==
  ASSUME NEW S, IsFiniteSet(S), NEW f, NEW g, NEW h,
         \A x \in S : f[x] \in Int /\ g[x] \in Int /\ h[x] = f[x] + g[x]
  PROVE  SumFunctionOnSet(h, S) = SumFunctionOnSet(f, S) + SumFunctionOnSet(g, S)
<1>. DEFINE G == {T \in SUBSET S :
                   SumFunctionOnSet(h, T) = SumFunctionOnSet(f, T) + SumFunctionOnSet(g, T)}
<1>1. ASSUME NEW T \in SUBSET S, \A x \in T : T \ {x} \in G
      PROVE  T \in G
  <2>1. CASE T = {}
    BY <2>1, SumOfNone
  <2>2. CASE T # {}
    <3>1. PICK x \in T : TRUE
      BY <2>2
    <3>2. IsFiniteSet(T) /\ IsFiniteSet(T \ {x})
      BY FS_Subset
    <3>3. SumFunctionOnSet(f, T) = f[x] + SumFunctionOnSet(f, T \ {x})
      BY <3>2, SumWithout
    <3>4. SumFunctionOnSet(g, T) = g[x] + SumFunctionOnSet(g, T \ {x})
      BY <3>2, SumWithout
    <3>5. SumFunctionOnSet(h, T) = h[x] + SumFunctionOnSet(h, T \ {x})
      BY <3>2, SumWithout
    <3>6. SumFunctionOnSet(f, T \ {x}) \in Int /\ SumFunctionOnSet(g, T \ {x}) \in Int
      BY <3>2, SumInt
    <3>. QED  BY <1>1, <3>3, <3>4, <3>5, <3>6
  <2>. QED  BY <2>1, <2>2
<1>2. SUBSET S \subseteq G
  <2>. HIDE DEF G
  <2>. QED  BY <1>1, SubsetInduction
<1>. QED  BY <1>2

\* What some members of a set add to the sum over it.
LEMMA SumRaised ==
  ASSUME NEW S, IsFiniteSet(S), NEW T \in SUBSET S, NEW f, NEW g, NEW h,
         \A x \in S : f[x] \in Int /\ h[x] \in Int,
         \A x \in T : g[x] \in Int /\ h[x] = f[x] + g[x],
         \A x \in S \ T : h[x] = f[x]
  PROVE  SumFunctionOnSet(h, S) = SumFunctionOnSet(f, S) + SumFunctionOnSet(g, T)
<1>. DEFINE rest == S \ T
            sum(f_, U) == SumFunctionOnSet(f_, U)
<1>1. IsFiniteSet(T) /\ IsFiniteSet(rest) /\ S = T \cup rest /\ T \cap rest = {}
  BY FS_Subset
<1>2. sum(f, T \cup rest) = sum(f, T) + sum(f, rest) /\ sum(h, T \cup rest) = sum(h, T) + sum(h, rest)
  <2>. HIDE DEF rest
  <2>. QED  BY <1>1, SumUnion
<1>3. sum(h, T) = sum(f, T) + sum(g, T)
  BY <1>1, SumAdds
<1>4. sum(h, rest) = sum(f, rest)
  BY <1>1, SumEqual
<1>5. sum(f, T) \in Int /\ sum(f, rest) \in Int /\ sum(g, T) \in Int
  BY <1>1, SumInt
<1>. HIDE DEF rest
<1>. QED  BY <1>1, <1>2, <1>3, <1>4, <1>5

\* A sum over a sequence grows by what is appended to it.
LEMMA SumAppended ==
  ASSUME NEW n \in Nat, NEW f, NEW g, g[n + 1] \in Int,
         \A i \in 1..n : f[i] \in Int /\ f[i] = g[i]
  PROVE  SumFunctionOnSet(g, 1..(n + 1)) = SumFunctionOnSet(f, 1..n) + g[n + 1]
<1>. DEFINE all == 1..(n + 1)
            old == 1..n
<1>1. IsFiniteSet(all) /\ IsFiniteSet(old)
  BY FS_Interval
<1>2. old = all \ {n + 1} /\ n + 1 \in all
  OBVIOUS
<1>3. \A i \in all : g[i] \in Int
  OBVIOUS
<1>4. \A i \in old : f[i] \in Int /\ f[i] = g[i]
  OBVIOUS
<1>. HIDE DEF all, old
<1>5. SumFunctionOnSet(g, all) = g[n + 1] + SumFunctionOnSet(g, all \ {n + 1})
  BY <1>1, <1>2, <1>3, SumWithout
<1>6. SumFunctionOnSet(f, old) = SumFunctionOnSet(g, old)
  BY <1>1, <1>4, SumEqual
<1>7. SumFunctionOnSet(f, old) \in Int
  BY <1>1, <1>4, SumInt
<1>8. SumFunctionOnSet(g, all) = SumFunctionOnSet(f, old) + g[n + 1]
  BY <1>2, <1>5, <1>6, <1>7
<1>. QED  BY <1>8 DEF all, old

\* A sum over an interval does not depend on where it starts.
LEMMA SumShifted ==
  ASSUME NEW m \in Nat, NEW l \in Nat, NEW f, NEW g,
         \A i \in 1..l : f[i] \in Int /\ f[i] = g[m + i]
  PROVE  SumFunctionOnSet(f, 1..l) = SumFunctionOnSet(g, (m + 1)..(m + l))
<1>. DEFINE own(n) == 1..n
            other(n) == (m + 1)..(m + n)
            G == {n \in 0..l : SumFunctionOnSet(f, own(n)) = SumFunctionOnSet(g, other(n))}
<1>1. 0 \in G
  <2>1. own(0) = {} /\ other(0) = {}
    OBVIOUS
  <2>. HIDE DEF own, other
  <2>. QED  BY <2>1, SumOfNone
<1>2. ASSUME NEW n \in 0..l, n < l, n \in G
      PROVE  n + 1 \in G
  <2>1. /\ own(n) = own(n + 1) \ {n + 1} /\ n + 1 \in own(n + 1)
        /\ other(n) = other(n + 1) \ {m + (n + 1)} /\ m + (n + 1) \in other(n + 1)
    BY <1>2
  <2>2. IsFiniteSet(own(n + 1)) /\ IsFiniteSet(other(n + 1))
    BY <1>2, FS_Interval
  <2>3. (\A i \in own(n + 1) : f[i] \in Int) /\ f[n + 1] = g[m + (n + 1)]
    BY <1>2
  <2>4. \A i \in other(n + 1) : g[i] \in Int
    <3>. SUFFICES ASSUME NEW i \in other(n + 1) PROVE g[i] \in Int
      OBVIOUS
    <3>1. i - m \in 1..l /\ i = m + (i - m)
      BY <1>2
    <3>. QED  BY <3>1
  <2>5. SumFunctionOnSet(f, own(n)) = SumFunctionOnSet(g, other(n)) /\ n + 1 \in 0..l
    BY <1>2
  <2>. HIDE DEF own, other
  <2>6. SumFunctionOnSet(f, own(n + 1)) = f[n + 1] + SumFunctionOnSet(f, own(n))
    BY <2>1, <2>2, <2>3, SumWithout
  <2>7. SumFunctionOnSet(g, other(n + 1)) = g[m + (n + 1)] + SumFunctionOnSet(g, other(n))
    BY <2>1, <2>2, <2>4, SumWithout
  <2>. QED  BY <2>3, <2>5, <2>6, <2>7
<1>3. 0..l \subseteq G
  <2>. HIDE DEF G
  <2>. QED  BY <1>1, <1>2, UpTo
<1>. QED  BY <1>3

\* The values of a function on a finite set are finitely many.
LEMMA FiniteValues ==
  ASSUME NEW S, IsFiniteSet(S), NEW f
  PROVE  IsFiniteSet({f[x] : x \in S})
<1>. DEFINE g == [x \in S |-> f[x]]
            T == {f[x] : x \in S}
<1>1. g \in Surjection(S, T)
  BY DEF Surjection
<1>. HIDE DEF g, T
<1>. QED  BY <1>1, FS_Surjection DEF T
=============================================================================
