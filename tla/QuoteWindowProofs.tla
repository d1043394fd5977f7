--------------------------- MODULE QuoteWindowProofs ---------------------------
(***************************************************************************)
(* Theorems about QuoteWindow for every set of windows: that the ladders are *)
(* what arrived, that every order is linked or counted once, that a match    *)
(* names an answer the order carries and none is lost, that the tallies are  *)
(* shares, and that the validation reports nothing where the rule itself    *)
(* decided.                                                                *)
(***************************************************************************)
EXTENDS QuoteWindow, Sums

----------------------------------------------------------------------------
(* Sorting *)

\* A strict order in which the incomparable elements are ties.
IsRanking(before, S) ==
  /\ \A x, y \in S : <<x, y>> \in before => <<y, x>> \notin before
  /\ \A x, y, z \in S : <<x, z>> \in before => <<x, y>> \in before \/ <<y, z>> \in before

LEMMA LastExists ==
  ASSUME NEW S, IsFiniteSet(S), S # {}, NEW before, IsRanking(before, S)
  PROVE  \E m \in S : \A x \in S : <<m, x>> \notin before
<1>. DEFINE last(T, m) == m \in T /\ \A x \in T : <<m, x>> \notin before
            G == {T \in SUBSET S : T # {} => \E m \in T : last(T, m)}
<1>1. ASSUME NEW T \in SUBSET S, \A x \in T : T \ {x} \in G, T # {}
      PROVE  \E m \in T : last(T, m)
  <2>1. PICK x \in T : TRUE
    BY <1>1
  <2>2. <<x, x>> \notin before
    BY <2>1 DEF IsRanking
  <2>3. CASE T \ {x} = {}
    BY <2>1, <2>2, <2>3
  <2>4. CASE T \ {x} # {}
    <3>1. PICK m \in T \ {x} : last(T \ {x}, m)
      BY <1>1, <2>4
    <3>2. CASE <<m, x>> \in before
      <4>1. \A y \in T \ {x} : <<x, y>> \notin before
        BY <3>1, <3>2 DEF IsRanking
      <4>. QED  BY <2>2, <4>1
    <3>3. CASE <<m, x>> \notin before
      BY <3>1, <3>3
    <3>. QED  BY <3>2, <3>3
  <2>. QED  BY <2>3, <2>4
<1>2. SUBSET S \subseteq G
  <2>1. \A T \in SUBSET S : (\A x \in T : T \ {x} \in G) => T \in G
    BY <1>1
  <2>. HIDE DEF G
  <2>. QED  BY <2>1, SubsetInduction
<1>. QED  BY <1>2

\* The list exists whatever the ties.
LEMMA ArrangedIs ==
  ASSUME NEW S, IsFiniteSet(S), NEW before, IsRanking(before, S)
  PROVE  /\ Arranged(S, before) \in Bijection(1..Cardinality(S), S)
         /\ \A i, k \in 1..Cardinality(S) :
              i < k => <<Arranged(S, before)[k], Arranged(S, before)[i]>> \notin before
<1>. DEFINE inOrder(list, T) ==
              /\ list \in Bijection(1..Cardinality(T), T)
              /\ \A i, k \in 1..Cardinality(T) : i < k => <<list[k], list[i]>> \notin before
            G == {T \in SUBSET S : \E list : inOrder(list, T)}
<1>1. ASSUME NEW T \in SUBSET S, \A x \in T : T \ {x} \in G
      PROVE  \E list : inOrder(list, T)
  <2>1. IsFiniteSet(T) /\ Cardinality(T) \in Nat
    BY FS_Subset, FS_CardinalityType
  <2>2. CASE T = {}
    <3>1. Cardinality(T) = 0 /\ 1..Cardinality(T) = {}
      BY <2>2, FS_EmptySet
    <3>2. [i \in {} |-> i] \in Bijection({}, {})
      BY DEF Bijection, Injection, Surjection, IsInjective
    <3>. QED  BY <2>2, <3>1, <3>2
  <2>3. CASE T # {}
    <3>1. IsRanking(before, T)
      BY DEF IsRanking
    <3>2. PICK m \in T : \A x \in T : <<m, x>> \notin before
      BY <2>1, <2>3, <3>1, LastExists
    <3>. DEFINE n == Cardinality(T)
    <3>3. /\ n \in Nat \ {0} /\ Cardinality(T \ {m}) = n - 1
      BY <2>1, FS_RemoveElement, FS_EmptySet
    <3>4. PICK front : inOrder(front, T \ {m})
      BY <1>1
    <3>. DEFINE list == [i \in 1..n |-> IF i = n THEN m ELSE front[i]]
    <3>5. /\ front \in [1..(n - 1) -> T \ {m}]
          /\ \A i, k \in 1..(n - 1) : front[i] = front[k] => i = k
          /\ \A x \in T \ {m} : \E i \in 1..(n - 1) : front[i] = x
          /\ \A i, k \in 1..(n - 1) : i < k => <<front[k], front[i]>> \notin before
      BY <3>3, <3>4 DEF Bijection, Injection, Surjection, IsInjective
    <3>. HIDE DEF n
    <3>6. \A i \in 1..n : i = n \/ i \in 1..(n - 1)
      BY <3>3
    <3>7. /\ n \in 1..n /\ 1..(n - 1) \subseteq 1..n /\ n \notin 1..(n - 1)
      BY <3>3
    <3>8. list \in [1..n -> T]
      BY <3>5, <3>6
    <3>9. \A i, k \in 1..n : list[i] = list[k] => i = k
      BY <3>5, <3>6
    <3>10. \A x \in T : \E i \in 1..n : list[i] = x
      <4>1. SUFFICES ASSUME NEW x \in T, x # m PROVE \E i \in 1..n : list[i] = x
        BY <3>7
      <4>2. PICK i \in 1..(n - 1) : front[i] = x
        BY <3>5, <4>1
      <4>. QED  BY <3>7, <4>2
    <3>11. ASSUME NEW i \in 1..n, NEW k \in 1..n, i < k
           PROVE  <<list[k], list[i]>> \notin before
      <4>1. i \in 1..(n - 1)
        BY <3>3, <3>11
      <4>2. front[i] \in T
        BY <3>5, <4>1
      <4>3. list[i] = front[i]
        BY <3>7, <4>1
      <4>4. CASE k = n
        BY <3>2, <4>2, <4>3, <4>4
      <4>5. CASE k # n
        BY <3>5, <3>6, <3>11, <4>1, <4>3, <4>5
      <4>. QED  BY <4>4, <4>5
    <3>12. list \in Bijection(1..n, T)
      <4>. HIDE DEF list
      <4>. QED  BY <3>8, <3>9, <3>10 DEF Bijection, Injection, Surjection, IsInjective
    <3>. QED  BY <3>11, <3>12 DEF n
  <2>. QED  BY <2>2, <2>3
<1>2. SUBSET S \subseteq G
  <2>1. \A T \in SUBSET S : (\A x \in T : T \ {x} \in G) => T \in G
    BY <1>1
  <2>. HIDE DEF G
  <2>. QED  BY <2>1, SubsetInduction
<1>3. \E list : inOrder(list, S)
  BY <1>2
<1>4. \A list \in Bijection(1..Cardinality(S), S) : DOMAIN list = 1..Cardinality(S)
  BY DEF Bijection, Injection
<1>. QED  BY <1>3, <1>4 DEF Arranged

\* What the positions of the list are.
LEMMA ArrangedList ==
  ASSUME NEW S, IsFiniteSet(S), NEW before, IsRanking(before, S)
  PROVE  LET list == Arranged(S, before)
         IN  /\ Cardinality(S) \in Nat
             /\ list \in Seq(S) /\ Len(list) = Cardinality(S)
             /\ DOMAIN list = 1..Len(list) /\ ToSet(list) = S /\ IsInjective(list)
             /\ \A i, k \in DOMAIN list : i < k => <<list[k], list[i]>> \notin before
<1>. DEFINE list == Arranged(S, before)
            n == Cardinality(S)
<1>1. /\ list \in Bijection(1..n, S)
      /\ \A i, k \in 1..n : i < k => <<list[k], list[i]>> \notin before
  BY ArrangedIs
<1>2. n \in Nat
  BY FS_CardinalityType
<1>. HIDE DEF n, list
<1>3. /\ list \in [1..n -> S] /\ IsInjective(list)
      /\ \A x \in S : \E i \in 1..n : list[i] = x
  BY <1>1 DEF Bijection, Injection, Surjection
<1>4. list \in Seq(S) /\ Len(list) = n /\ DOMAIN list = 1..n
  BY <1>2, <1>3
<1>5. ToSet(list) = S
  BY <1>3, <1>4 DEF ToSet
<1>. QED  BY <1>1, <1>2, <1>3, <1>4, <1>5 DEF n, list

\* Numbers in their order.
LEMMA InOrderIs ==
  ASSUME NEW S \in SUBSET Int, IsFiniteSet(S)
  PROVE  /\ Cardinality(S) \in Nat
         /\ InOrder(S) \in Seq(S) /\ Len(InOrder(S)) = Cardinality(S)
         /\ ToSet(InOrder(S)) = S /\ IsInjective(InOrder(S))
         /\ DOMAIN InOrder(S) = 1..Len(InOrder(S))
         /\ \A i, k \in DOMAIN InOrder(S) : i < k => InOrder(S)[i] < InOrder(S)[k]
<1>. DEFINE before == {pair \in S \X S : pair[1] < pair[2]}
<1>1. IsRanking(before, S)
  BY DEF IsRanking
<1>. HIDE DEF before
<1>2. /\ Cardinality(S) \in Nat
      /\ Arranged(S, before) \in Seq(S) /\ Len(Arranged(S, before)) = Cardinality(S)
      /\ ToSet(Arranged(S, before)) = S /\ IsInjective(Arranged(S, before))
      /\ DOMAIN Arranged(S, before) = 1..Len(Arranged(S, before))
      /\ \A i, k \in DOMAIN Arranged(S, before) :
           i < k => <<Arranged(S, before)[k], Arranged(S, before)[i]>> \notin before
  BY <1>1, ArrangedList
<1>3. InOrder(S) = Arranged(S, before)
  BY DEF InOrder, before
<1>4. ASSUME NEW i \in DOMAIN InOrder(S), NEW k \in DOMAIN InOrder(S), i < k
      PROVE  InOrder(S)[i] < InOrder(S)[k]
  <2>1. InOrder(S)[i] \in S /\ InOrder(S)[k] \in S
    BY <1>2, <1>3
  <2>2. ~(InOrder(S)[k] < InOrder(S)[i])
    BY <1>2, <1>3, <1>4, <2>1 DEF before
  <2>3. InOrder(S)[i] # InOrder(S)[k]
    <3>1. i \in Int /\ k \in Int /\ i # k
      BY <1>2, <1>3, <1>4
    <3>2. IsInjective(InOrder(S))
      BY <1>2, <1>3
    <3>. QED  BY <3>1, <3>2 DEF IsInjective
  <2>4. InOrder(S)[i] \in Int /\ InOrder(S)[k] \in Int
    BY <2>1
  <2>. QED  BY <2>2, <2>3, <2>4
<1>. QED  BY <1>2, <1>3, <1>4

----------------------------------------------------------------------------
(* Lists *)

IsList(s) == s \in Seq(ToSet(s))

LEMMA ListIs ==
  ASSUME NEW s, IsList(s)
  PROVE  Len(s) \in Nat /\ DOMAIN s = 1..Len(s)
BY DEF IsList

LEMMA SeqIsList ==
  ASSUME NEW S, NEW s \in Seq(S)
  PROVE  IsList(s) /\ ToSet(s) \subseteq S
<1>1. s \in [1..Len(s) -> S] /\ Len(s) \in Nat
  OBVIOUS
<1>2. s \in [1..Len(s) -> ToSet(s)]
  BY <1>1 DEF ToSet
<1>3. s \in Seq(ToSet(s))
  BY <1>1, <1>2
<1>. QED  BY <1>1, <1>3 DEF IsList, ToSet

LEMMA AppendIs ==
  ASSUME NEW s, IsList(s), NEW e
  PROVE  /\ IsList(Append(s, e)) /\ Len(Append(s, e)) = Len(s) + 1
         /\ DOMAIN Append(s, e) = 1..(Len(s) + 1)
         /\ \A i \in 1..Len(s) : Append(s, e)[i] = s[i]
         /\ Append(s, e)[Len(s) + 1] = e
         /\ ToSet(Append(s, e)) = ToSet(s) \cup {e}
<1>. DEFINE S == ToSet(s) \cup {e}
            t == Append(s, e)
<1>1. s \in Seq(S) /\ e \in S /\ Len(s) \in Nat /\ DOMAIN s = 1..Len(s)
  BY DEF IsList
<1>2. \A x : x \in ToSet(s) <=> \E i \in 1..Len(s) : s[i] = x
  BY <1>1 DEF ToSet
<1>. HIDE DEF S
<1>3. /\ t \in Seq(S) /\ Len(t) = Len(s) + 1
      /\ \A i \in 1..Len(s) : t[i] = s[i]
      /\ t[Len(s) + 1] = e
  BY <1>1
<1>4. IsList(t) /\ DOMAIN t = 1..(Len(s) + 1)
  BY <1>3, SeqIsList, ListIs
<1>5. \A x : x \in ToSet(t) <=> \E i \in 1..(Len(s) + 1) : t[i] = x
  BY <1>4 DEF ToSet
<1>6. 1..(Len(s) + 1) = 1..Len(s) \cup {Len(s) + 1}
  BY <1>1
<1>. HIDE DEF t
<1>7. ToSet(t) = ToSet(s) \cup {e}
  BY <1>2, <1>3, <1>5, <1>6
<1>. QED  BY <1>3, <1>4, <1>7 DEF t

\* A loop takes the first of a list without repetitions.
LEMMA TakenFrom ==
  ASSUME NEW s, IsList(s), IsInjective(s), s # <<>>
  PROVE  /\ IsList(Tail(s)) /\ IsInjective(Tail(s)) /\ Len(s) \in Nat
         /\ Len(Tail(s)) \in Nat /\ Len(s) = Len(Tail(s)) + 1
         /\ Head(s) \in ToSet(s) /\ ToSet(Tail(s)) = ToSet(s) \ {Head(s)}
         /\ \A i \in 1..Len(Tail(s)) : Tail(s)[i] = s[i + 1]
<1>. DEFINE t == Tail(s)
<1>1. /\ Len(s) \in Nat \ {0} /\ DOMAIN s = 1..Len(s)
      /\ t \in Seq(ToSet(s)) /\ Len(t) = Len(s) - 1
      /\ \A i \in 1..Len(t) : t[i] = s[i + 1]
      /\ Head(s) = s[1]
  BY DEF IsList
<1>2. IsList(t) /\ DOMAIN t = 1..Len(t)
  BY <1>1, SeqIsList, ListIs
<1>. HIDE DEF t
<1>3. IsInjective(t)
  BY <1>1, <1>2 DEF IsInjective
<1>4. Head(s) \in ToSet(s)
  BY <1>1 DEF ToSet
<1>5. ASSUME NEW x
      PROVE  x \in ToSet(t) <=> x \in ToSet(s) \ {Head(s)}
  <2>1. ASSUME x \in ToSet(t) PROVE x \in ToSet(s) \ {Head(s)}
    <3>1. PICK i \in 1..Len(t) : t[i] = x
      BY <1>2, <2>1 DEF ToSet
    <3>2. i + 1 \in DOMAIN s /\ 1 \in DOMAIN s /\ i + 1 # 1 /\ s[i + 1] = x
      BY <1>1, <3>1
    <3>. QED  BY <1>1, <3>2 DEF ToSet, IsInjective
  <2>2. ASSUME x \in ToSet(s) \ {Head(s)} PROVE x \in ToSet(t)
    <3>1. PICK i \in 1..Len(s) : s[i] = x
      BY <1>1, <2>2 DEF ToSet
    <3>2. i - 1 \in DOMAIN t /\ t[i - 1] = x
      BY <1>1, <1>2, <2>2, <3>1
    <3>. QED  BY <3>2 DEF ToSet
  <2>. QED  BY <2>1, <2>2
<1>. QED  BY <1>1, <1>2, <1>3, <1>4, <1>5 DEF t

----------------------------------------------------------------------------
(* The population *)

LEMMA TablesAre ==
  ASSUME window \in Readings
  PROVE  /\ IsTables(window)
         /\ All = 1..Len(window.orders) /\ Len(window.orders) \in Nat /\ IsFiniteSet(All)
         /\ \A n \in All : Order_(n) \in Order
<1>1. IsTables(window)
  <2>. PICK w \in Windows : \E kept \in LastFetched(w.computed) :
         window = [byRule |-> w.byRule, orders |-> w.orders, rows |-> w.rows,
                   winning |-> w.winning, computed |-> kept, requests |-> w.requests]
    BY DEF Readings
  <2>1. PICK kept \in LastFetched(w.computed) :
          window = [byRule |-> w.byRule, orders |-> w.orders, rows |-> w.rows,
                    winning |-> w.winning, computed |-> kept, requests |-> w.requests]
    OBVIOUS
  <2>2. IsTables(w)
    BY QuoteWindowAssumption
  <2>3. kept \subseteq w.computed
    BY DEF LastFetched
  <2>4. /\ window.byRule = w.byRule /\ window.orders = w.orders /\ window.rows = w.rows
        /\ window.winning = w.winning /\ window.computed = kept /\ window.requests = w.requests
    BY <2>1
  <2>5. /\ kept \subseteq [rid : Nat, qid : Nat, seq : Nat] /\ IsFiniteSet(kept)
    BY <2>2, <2>3, FS_Subset DEF IsTables
  <2>. QED  BY <2>2, <2>4, <2>5 DEF IsTables
<1>2. window.orders \in Seq(Order)
  BY <1>1 DEF IsTables
<1>3. All = 1..Len(window.orders) /\ Len(window.orders) \in Nat
  BY <1>2 DEF All
<1>4. IsFiniteSet(All)
  BY <1>3, FS_Interval
<1>5. \A n \in All : Order_(n) \in Order
  BY <1>2 DEF All, Order_
<1>. QED  BY <1>1, <1>3, <1>4, <1>5

Phases == {"populate", "fetch", "heuristic", "id", "requote", "validate", "analyse"}

Dropped == {n \in All : ~Order_(n).evaluable}
Uncovered == {n \in All : Order_(n).evaluable /\ ~Kept(n)}

PopulationInv ==
  /\ window \in Readings /\ pc \in Phases
  /\ population = IF pc = "populate" THEN {} ELSE {n \in All : Kept(n)}
  /\ pc # "populate" => left = <<Cardinality(Dropped), Cardinality(Uncovered)>>

LEMMA PopulationInit == Init => PopulationInv
BY DEF Init, PopulationInv, Phases

LEMMA PopulationStep == PopulationInv /\ [Next]_vars => PopulationInv'
<1>. SUFFICES ASSUME PopulationInv, [Next]_vars PROVE PopulationInv'
  OBVIOUS
<1>. USE DEF PopulationInv, Phases, Dropped, Uncovered, All, Kept, Order_
<1>1. CASE Populate
  BY <1>1 DEF Populate
<1>2. CASE Fetch
  BY <1>2 DEF Fetch
<1>3. CASE StartHeuristic \/ StartById \/ StartRequotes \/ StartValidation
  BY <1>3 DEF StartHeuristic, StartById, StartRequotes, StartValidation
<1>4. CASE MatchHeuristic \/ MatchById \/ DeferToRequote \/ LinkRequote \/ LeaveUnlinked
  BY <1>4 DEF MatchHeuristic, MatchById, DeferToRequote, LinkRequote, LeaveUnlinked
<1>5. CASE Validate \/ StartAnalysis \/ Add
  BY <1>5 DEF Validate, StartAnalysis, Add
<1>6. CASE Returned \/ UNCHANGED vars
  BY <1>6 DEF Returned, vars
<1>. QED  BY <1>1, <1>2, <1>3, <1>4, <1>5, <1>6 DEF Next

LEMMA DisjointCount ==
  ASSUME NEW S, NEW T, IsFiniteSet(S), IsFiniteSet(T), S \cap T = {}
  PROVE  Cardinality(S \cup T) = Cardinality(S) + Cardinality(T)
<1>1. Cardinality(S \cup T) = Cardinality(S) + Cardinality(T) - Cardinality(S \cap T)
  BY FS_Union
<1>2. Cardinality(S \cap T) = 0
  BY FS_EmptySet
<1>3. Cardinality(S) \in Nat /\ Cardinality(T) \in Nat
  BY FS_CardinalityType
<1>. QED  BY <1>1, <1>2, <1>3

\* Every order is of one kind, and the two links divide those that are linked.
LEMMA OrdersAre ==
  ASSUME PopulationInv, pc # "populate"
  PROVE  /\ IsFiniteSet(population) /\ population \subseteq All
         /\ Cardinality(All) = left[1] + left[2] + Cardinality(population)
         /\ Linkable \subseteq population /\ IsFiniteSet(Linkable)
         /\ ByHeuristic \subseteq Linkable /\ ById \subseteq Linkable
         /\ IsFiniteSet(ByHeuristic) /\ IsFiniteSet(ById)
         /\ ByHeuristic \cap ById = {} /\ Linkable \subseteq Int
<1>1. /\ IsFiniteSet(All) /\ All \subseteq Int
      /\ \A n \in All : Order_(n).created \in Nat /\ Order_(n).evaluable \in BOOLEAN
  BY TablesAre DEF PopulationInv, Order
<1>2. /\ population = {n \in All : Kept(n)}
      /\ left[1] = Cardinality(Dropped) /\ left[2] = Cardinality(Uncovered)
  BY DEF PopulationInv
<1>3. /\ All = Dropped \cup (Uncovered \cup population)
      /\ Dropped \cap (Uncovered \cup population) = {} /\ Uncovered \cap population = {}
  BY <1>2 DEF Dropped, Uncovered, Kept
<1>4. IsFiniteSet(Dropped) /\ IsFiniteSet(Uncovered) /\ IsFiniteSet(population)
  BY <1>1, <1>3, FS_Subset
<1>5. IsFiniteSet(Uncovered \cup population)
  BY <1>4, FS_Union
<1>6. Cardinality(Uncovered \cup population) = Cardinality(Uncovered) + Cardinality(population)
  BY <1>3, <1>4, DisjointCount
<1>7. Cardinality(All) = Cardinality(Dropped) + Cardinality(Uncovered \cup population)
  BY <1>3, <1>4, <1>5, DisjointCount
<1>8. /\ Cardinality(Dropped) \in Nat /\ Cardinality(Uncovered) \in Nat
      /\ Cardinality(population) \in Nat
  BY <1>4, FS_CardinalityType
<1>9. Cardinality(All) = left[1] + left[2] + Cardinality(population)
  BY <1>2, <1>6, <1>7, <1>8
<1>10. /\ Linkable \subseteq population /\ population \subseteq All
       /\ ByHeuristic \subseteq Linkable /\ ById \subseteq Linkable
  BY <1>2 DEF Linkable, ByHeuristic, ById
<1>11. IsFiniteSet(Linkable) /\ IsFiniteSet(ByHeuristic) /\ IsFiniteSet(ById)
  BY <1>4, <1>10, FS_Subset
<1>12. ByHeuristic \cap ById = {}
  <2>1. \A n \in Linkable : Order_(n).created \in Int
    BY <1>1, <1>10
  <2>. QED  BY <2>1, QuoteWindowAssumption DEF ByHeuristic, ById
<1>. QED  BY <1>1, <1>4, <1>9, <1>10, <1>11, <1>12

----------------------------------------------------------------------------
(* Every order is linked or counted once *)

Linked(list) == {list[i].order : i \in DOMAIN list}
LinkedBy(list, links) == {i \in DOMAIN list : list[i].link \in links}
Once(list) == \A i, k \in DOMAIN list : list[i].order = list[k].order => i = k

LEMMA MatchAdded ==
  ASSUME NEW list, IsList(list), Once(list), NEW match, match.order \notin Linked(list)
  PROVE  LET longer == Append(list, match)
         IN  /\ IsList(longer) /\ Once(longer)
             /\ Linked(longer) = Linked(list) \cup {match.order}
             /\ \A i \in DOMAIN longer : longer[i] = match \/ \E k \in DOMAIN list : longer[i] = list[k]
             /\ \A links : Cardinality(LinkedBy(longer, links))
                             = Cardinality(LinkedBy(list, links))
                                 + IF match.link \in links THEN 1 ELSE 0
<1>. DEFINE longer == Append(list, match)
            n == Len(list)
<1>1. n \in Nat /\ DOMAIN list = 1..n
  BY ListIs
<1>2. /\ IsList(longer) /\ DOMAIN longer = 1..(n + 1)
      /\ \A i \in 1..n : longer[i] = list[i]
      /\ longer[n + 1] = match
  BY AppendIs
<1>. HIDE DEF longer, n
<1>3. /\ DOMAIN longer = DOMAIN list \cup {n + 1} /\ n + 1 \notin DOMAIN list
      /\ \A i \in DOMAIN list : longer[i] = list[i]
  BY <1>1, <1>2
<1>4. Linked(longer) = Linked(list) \cup {match.order}
  <2>1. \A x : x \in Linked(longer) <=> \E i \in DOMAIN longer : longer[i].order = x
    BY DEF Linked
  <2>2. \A x : x \in Linked(list) <=> \E i \in DOMAIN list : list[i].order = x
    BY DEF Linked
  <2>3. /\ \A i \in DOMAIN list : longer[i].order = list[i].order
        /\ longer[n + 1].order = match.order
    BY <1>2, <1>3
  <2>. DEFINE m == n + 1
  <2>4. /\ DOMAIN longer = DOMAIN list \cup {m} /\ longer[m].order = match.order
        /\ \A i \in DOMAIN list : longer[i].order = list[i].order
    BY <1>3, <2>3
  <2>. HIDE DEF m
  <2>5. \A x : x \in Linked(longer) <=> x \in Linked(list) \/ x = match.order
    BY <2>1, <2>2, <2>4
  <2>. QED  BY <2>5
<1>5. Once(longer)
  <2>1. SUFFICES ASSUME NEW i \in DOMAIN longer, NEW k \in DOMAIN longer,
                        longer[i].order = longer[k].order
                 PROVE  i = k
    BY DEF Once
  <2>2. \A j \in DOMAIN list : longer[j].order # match.order
    BY <1>3 DEF Linked
  <2>. QED  BY <1>2, <1>3, <2>1, <2>2 DEF Once
<1>6. ASSUME NEW links
      PROVE  Cardinality(LinkedBy(longer, links))
               = Cardinality(LinkedBy(list, links)) + IF match.link \in links THEN 1 ELSE 0
  <2>. DEFINE S == LinkedBy(list, links)
  <2>1. IsFiniteSet(DOMAIN list)
    BY <1>1, FS_Interval
  <2>2. IsFiniteSet(S) /\ Cardinality(S) \in Nat
    BY <2>1, FS_Subset, FS_CardinalityType DEF LinkedBy
  <2>3. CASE match.link \in links
    <3>1. LinkedBy(longer, links) = S \cup {n + 1} /\ n + 1 \notin S
      BY <1>2, <1>3, <2>3 DEF LinkedBy
    <3>. HIDE DEF S
    <3>2. Cardinality(S \cup {n + 1}) = Cardinality(S) + 1
      BY <2>2, <3>1, FS_AddElement
    <3>. QED  BY <2>3, <3>1, <3>2 DEF S
  <2>4. CASE match.link \notin links
    <3>1. LinkedBy(longer, links) = S
      BY <1>2, <1>3, <2>4 DEF LinkedBy
    <3>. QED  BY <2>2, <2>4, <3>1
  <2>. QED  BY <2>3, <2>4
<1>7. \A i \in DOMAIN longer : longer[i] = match \/ \E k \in DOMAIN list : longer[i] = list[k]
  BY <1>2, <1>3
<1>. QED  BY <1>2, <1>4, <1>5, <1>6, <1>7 DEF longer

LEMMA ReasonsFinite == IsFiniteSet(Reason)
<1>1. IsFiniteSet({"no quote id"})
  BY FS_Singleton
<1>2. IsFiniteSet({"no quote id"} \cup {"id not in the competition record"})
  BY <1>1, FS_AddElement
<1>3. IsFiniteSet(({"no quote id"} \cup {"id not in the competition record"})
                    \cup {"stored quote not reproduced"})
  BY <1>2, FS_AddElement
<1>4. IsFiniteSet((({"no quote id"} \cup {"id not in the competition record"})
                    \cup {"stored quote not reproduced"})
                    \cup {"not a forwarded answer of its stream"})
  BY <1>3, FS_AddElement
<1>5. Reason = (({"no quote id"} \cup {"id not in the competition record"})
                    \cup {"stored quote not reproduced"})
                    \cup {"not a forwarded answer of its stream"}
  BY DEF Reason
<1>. QED  BY <1>4, <1>5

LEMMA Counted ==
  ASSUME NEW u \in [Reason -> Nat]
  PROVE  /\ SumFunction(u) \in Nat
         /\ \A why \in Reason :
              /\ [u EXCEPT ![why] = @ + 1] \in [Reason -> Nat]
              /\ SumFunction([u EXCEPT ![why] = @ + 1]) = SumFunction(u) + 1
<1>1. IsFiniteSet(Reason)
  BY ReasonsFinite
<1>2. ASSUME NEW why \in Reason
      PROVE  /\ [u EXCEPT ![why] = @ + 1] \in [Reason -> Nat]
             /\ SumFunction([u EXCEPT ![why] = @ + 1]) = SumFunction(u) + 1
  <2>. DEFINE v == [u EXCEPT ![why] = @ + 1]
              rest == Reason \ {why}
  <2>1. v \in [Reason -> Nat] /\ v[why] = u[why] + 1 /\ \A x \in rest : v[x] = u[x]
    OBVIOUS
  <2>2. DOMAIN v = Reason /\ DOMAIN u = Reason
    BY <2>1
  <2>. HIDE DEF v
  <2>3. SumFunctionOnSet(v, Reason) = v[why] + SumFunctionOnSet(v, rest)
    <3>1. \A x \in Reason : v[x] \in Int
      BY <2>1
    <3>2. \A x \in Reason : SumFunctionOnSet(v, Reason) = v[x] + SumFunctionOnSet(v, Reason \ {x})
      BY <1>1, <3>1, SumWithout, Zenon
    <3>. QED  BY <3>2, Zenon
  <2>4. SumFunctionOnSet(u, Reason) = u[why] + SumFunctionOnSet(u, rest)
    <3>1. \A x \in Reason : u[x] \in Int
      OBVIOUS
    <3>2. \A x \in Reason : SumFunctionOnSet(u, Reason) = u[x] + SumFunctionOnSet(u, Reason \ {x})
      BY <1>1, <3>1, SumWithout, Zenon
    <3>. QED  BY <3>2, Zenon
  <2>5. SumFunctionOnSet(v, rest) = SumFunctionOnSet(u, rest)
    <3>1. IsFiniteSet(rest)
      BY <1>1, FS_Subset
    <3>2. \A x \in rest : v[x] \in Int /\ v[x] = u[x]
      BY <2>1
    <3>. HIDE DEF rest
    <3>. QED  BY <3>1, <3>2, SumEqual
  <2>6. SumFunctionOnSet(u, rest) \in Int /\ u[why] \in Int
    <3>1. IsFiniteSet(rest) /\ \A x \in rest : u[x] \in Int
      BY <1>1, FS_Subset
    <3>. QED  BY <3>1, SumInt
  <2>. HIDE DEF rest
  <2>7. SumFunction(v) = SumFunction(u) + 1
    BY <2>1, <2>2, <2>3, <2>4, <2>5, <2>6 DEF SumFunction
  <2>. QED  BY <2>1, <2>7 DEF v
<1>3. SumFunction(u) \in Nat
  <2>1. \A x \in Reason : u[x] \in Nat
    OBVIOUS
  <2>. QED  BY <1>1, <2>1, SumNat DEF SumFunction
<1>. QED  BY <1>2, <1>3

(***************************************************************************)
(* The orders a loop has left, those that are matched and those that wait    *)
(* for a re-quote are disjoint, and those with a quote id are the sum of     *)
(* them and of the counted ones.                                            *)
(***************************************************************************)
Identified == {"quote-id", "requote"}
Deferred == {requotable[i][1] : i \in DOMAIN requotable}

MatchInv ==
  /\ IsList(matches) /\ Once(matches)
  /\ \A i \in DOMAIN matches :
       \/ matches[i].link = "heuristic" /\ matches[i].order \in ByHeuristic
       \/ matches[i].link \in Identified /\ matches[i].order \in ById
  /\ pc \in {"populate", "fetch"} => matches = <<>>
  /\ pc = "heuristic" => \A i \in DOMAIN matches : matches[i].link = "heuristic"

ReasonInv ==
  /\ unlinked \in [Reason -> Nat]
  /\ requotable \in Seq(ById \X Reason)
  /\ \A i, k \in DOMAIN requotable : requotable[i][1] = requotable[k][1] => i = k
  /\ pc \in {"populate", "fetch", "heuristic"} =>
       requotable = <<>> /\ unlinked = [why \in Reason |-> 0]

TodoInv ==
  pc \in {"heuristic", "id", "requote"} =>
    /\ IsList(todo) /\ IsInjective(todo) /\ ToSet(todo) \cap Linked(matches) = {}
    /\ pc = "heuristic" => ToSet(todo) \subseteq ByHeuristic
    /\ pc = "id" => /\ ToSet(todo) \subseteq ById
                    /\ (ToSet(todo) \cup Linked(matches)) \cap Deferred = {}
    /\ pc = "requote" => ToSet(todo) \subseteq Deferred

Waiting ==
  IF pc = "id" THEN Len(todo) + Len(requotable) ELSE IF pc = "requote" THEN Len(todo) ELSE 0

CountInv ==
  pc \in {"id", "requote", "validate", "analyse"} =>
    Cardinality(ById) = Cardinality(LinkedBy(matches, Identified)) + SumFunction(unlinked) + Waiting

LinkInv == MatchInv /\ ReasonInv /\ TodoInv /\ CountInv

LEMMA NoneLinked ==
  /\ IsList(<<>>) /\ Once(<<>>) /\ Linked(<<>>) = {}
  /\ \A links : LinkedBy(<<>>, links) = {} /\ Cardinality(LinkedBy(<<>>, links)) = 0
<1>1. \A S : <<>> \in Seq(S)
  OBVIOUS
<1>2. Linked(<<>>) = {} /\ \A links : LinkedBy(<<>>, links) = {}
  BY DEF Linked, LinkedBy
<1>. QED  BY <1>1, <1>2, FS_EmptySet DEF IsList, Once

LEMMA NoneCounted ==
  /\ [why \in Reason |-> 0] \in [Reason -> Nat]
  /\ SumFunction([why \in Reason |-> 0]) = 0
<1>. DEFINE none == [why \in Reason |-> 0]
<1>1. none \in [Reason -> Nat] /\ DOMAIN none = Reason /\ \A x \in Reason : none[x] = 0
  OBVIOUS
<1>2. IsFiniteSet(Reason)
  BY ReasonsFinite
<1>. HIDE DEF none
<1>3. SumFunctionOnSet(none, Reason) = 0
  BY <1>1, <1>2, SumOfZeros
<1>. QED  BY <1>1, <1>3 DEF none, SumFunction

LEMMA LinkInit == Init => LinkInv
<1>. SUFFICES ASSUME Init PROVE LinkInv
  OBVIOUS
<1>1. pc = "populate" /\ matches = <<>> /\ requotable = <<>> /\ unlinked = [why \in Reason |-> 0]
  BY DEF Init
<1>2. MatchInv
  BY <1>1, NoneLinked DEF MatchInv
<1>3. ReasonInv
  BY <1>1, NoneCounted DEF ReasonInv
<1>. QED  BY <1>1, <1>2, <1>3 DEF LinkInv, TodoInv, CountInv

\* Which orders the links are about does not change once it is settled.
LEMMA SameOrders ==
  ASSUME PopulationInv, [Next]_vars, pc # "populate"
  PROVE  /\ window' = window /\ population' = population /\ pc' # "populate"
         /\ ById' = ById /\ ByHeuristic' = ByHeuristic /\ Linkable' = Linkable
<1>1. window' = window /\ population' = population /\ pc' # "populate"
  <2>1. ~Populate
    BY DEF Populate
  <2>2. CASE Fetch \/ StartHeuristic \/ StartById \/ StartRequotes \/ StartValidation
    BY <2>2 DEF Fetch, StartHeuristic, StartById, StartRequotes, StartValidation
  <2>3. CASE MatchHeuristic \/ MatchById \/ DeferToRequote \/ LinkRequote \/ LeaveUnlinked
    BY <2>3 DEF MatchHeuristic, MatchById, DeferToRequote, LinkRequote, LeaveUnlinked
  <2>4. CASE Validate \/ StartAnalysis \/ Add
    BY <2>4 DEF Validate, StartAnalysis, Add
  <2>5. CASE Returned \/ UNCHANGED vars
    BY <2>5 DEF Returned, vars
  <2>. QED  BY <2>1, <2>2, <2>3, <2>4, <2>5 DEF Next
<1>. QED  BY <1>1 DEF ById, ByHeuristic, Linkable, Order_

\* The loop places its order: the match joins the others and the order leaves the list.
LEMMA MatchStep ==
  ASSUME PopulationInv, MatchInv, TodoInv, pc \in {"heuristic", "id", "requote"}, todo # <<>>,
         [Next]_vars, pc' = pc, todo' = Tail(todo),
         NEW match, matches' = Append(matches, match), match.order = Head(todo),
         \/ pc = "heuristic" /\ match.link = "heuristic"
         \/ pc # "heuristic" /\ match.link \in Identified /\ Head(todo) \in ById
  PROVE  /\ MatchInv'
         /\ Linked(matches') = Linked(matches) \cup {Head(todo)}
         /\ Cardinality(LinkedBy(matches', Identified))
              = Cardinality(LinkedBy(matches, Identified)) + IF pc = "heuristic" THEN 0 ELSE 1
<1>1. /\ IsList(todo) /\ IsInjective(todo) /\ ToSet(todo) \cap Linked(matches) = {}
      /\ pc = "heuristic" => ToSet(todo) \subseteq ByHeuristic
  BY DEF TodoInv
<1>2. Head(todo) \in ToSet(todo)
  BY <1>1, TakenFrom
<1>3. IsList(matches) /\ Once(matches) /\ match.order \notin Linked(matches)
  BY <1>1, <1>2 DEF MatchInv
<1>4. LET longer == Append(matches, match)
      IN  /\ IsList(longer) /\ Once(longer)
          /\ Linked(longer) = Linked(matches) \cup {match.order}
          /\ \A i \in DOMAIN longer : longer[i] = match \/ \E k \in DOMAIN matches : longer[i] = matches[k]
          /\ \A links : Cardinality(LinkedBy(longer, links))
                          = Cardinality(LinkedBy(matches, links))
                              + IF match.link \in links THEN 1 ELSE 0
  BY <1>3, MatchAdded
<1>5. /\ IsList(matches') /\ Once(matches')
      /\ Linked(matches') = Linked(matches) \cup {Head(todo)}
      /\ \A i \in DOMAIN matches' :
           matches'[i] = match \/ \E k \in DOMAIN matches : matches'[i] = matches[k]
      /\ Cardinality(LinkedBy(matches', Identified))
           = Cardinality(LinkedBy(matches, Identified)) + IF match.link \in Identified THEN 1 ELSE 0
  BY <1>4
<1>6. ById' = ById /\ ByHeuristic' = ByHeuristic
  BY SameOrders
<1>7. MatchInv'
  <2>1. ASSUME NEW i \in DOMAIN matches'
        PROVE  /\ \/ matches'[i].link = "heuristic" /\ matches'[i].order \in ByHeuristic
                  \/ matches'[i].link \in Identified /\ matches'[i].order \in ById
               /\ pc = "heuristic" => matches'[i].link = "heuristic"
    <3>1. CASE matches'[i] = match
      BY <1>1, <1>2, <3>1
    <3>2. CASE \E k \in DOMAIN matches : matches'[i] = matches[k]
      BY <3>2 DEF MatchInv
    <3>. QED  BY <1>5, <3>1, <3>2
  <2>. QED  BY <1>5, <1>6, <2>1 DEF MatchInv
<1>. QED  BY <1>5, <1>7 DEF Identified

LEMMA MatchedIs ==
  ASSUME NEW competition, NEW take, NEW tier, NEW link
  PROVE  LET match == MatchedQuote(competition, take, tier, link)
         IN  /\ match.order = Head(todo) /\ match.competition = competition
             /\ match.take = take /\ match.tier = tier /\ match.link = link
BY DEF MatchedQuote

LEMMA LinkStarts ==
  ASSUME PopulationInv, LinkInv, [Next]_vars, Populate \/ Fetch \/ StartHeuristic
  PROVE  LinkInv'
<1>1. /\ matches = <<>> /\ requotable = <<>> /\ unlinked = [why \in Reason |-> 0]
      /\ UNCHANGED <<matches, requotable, unlinked>>
      /\ pc' \in {"fetch", "heuristic"}
  BY DEF LinkInv, MatchInv, ReasonInv, Populate, Fetch, StartHeuristic, linked
<1>2. MatchInv'
  BY <1>1, NoneLinked DEF MatchInv
<1>3. ReasonInv'
  BY <1>1, NoneCounted DEF ReasonInv
<1>4. TodoInv'
  <2>1. CASE Populate \/ Fetch
    BY <2>1 DEF Populate, Fetch, TodoInv
  <2>2. CASE StartHeuristic
    <3>1. pc = "fetch" /\ pc' = "heuristic" /\ todo' = InOrder(ByHeuristic)
      BY <2>2 DEF StartHeuristic
    <3>2. /\ ByHeuristic' = ByHeuristic /\ IsFiniteSet(ByHeuristic)
          /\ ByHeuristic \in SUBSET Int
      BY <3>1, SameOrders, OrdersAre
    <3>3. /\ todo' \in Seq(ByHeuristic) /\ ToSet(todo') = ByHeuristic /\ IsInjective(todo')
      BY <3>1, <3>2, InOrderIs
    <3>4. IsList(todo') /\ Linked(matches') = {}
      BY <1>1, <3>3, SeqIsList, NoneLinked
    <3>. QED  BY <3>1, <3>2, <3>3, <3>4 DEF TodoInv
  <2>. QED  BY <2>1, <2>2
<1>5. CountInv'
  BY <1>1 DEF CountInv
<1>. QED  BY <1>2, <1>3, <1>4, <1>5 DEF LinkInv

LEMMA HeuristicStep ==
  ASSUME PopulationInv, LinkInv, [Next]_vars, MatchHeuristic
  PROVE  LinkInv'
<1>1. /\ pc = "heuristic" /\ pc' = pc /\ todo # <<>> /\ todo' = Tail(todo)
      /\ UNCHANGED <<requotable, unlinked>>
  BY DEF MatchHeuristic
<1>2. /\ ById' = ById /\ ByHeuristic' = ByHeuristic
  BY <1>1, SameOrders
<1>3. /\ IsList(todo) /\ IsInjective(todo) /\ ToSet(todo) \cap Linked(matches) = {}
      /\ ToSet(todo) \subseteq ByHeuristic
  BY <1>1 DEF LinkInv, TodoInv
<1>4. /\ IsList(todo') /\ IsInjective(todo') /\ ToSet(todo') = ToSet(todo) \ {Head(todo)}
  BY <1>1, <1>3, TakenFrom
<1>5. MatchInv' /\ Linked(matches') \subseteq Linked(matches) \cup {Head(todo)}
  <2>1. CASE matches' = matches
    BY <1>1, <1>2, <2>1 DEF LinkInv, MatchInv
  <2>2. CASE matches' # matches
    <3>1. PICK c, tier : matches' = Append(matches, MatchedQuote(c, OneShot(c), tier, "heuristic"))
      BY <2>2 DEF MatchHeuristic
    <3>. DEFINE match == MatchedQuote(c, OneShot(c), tier, "heuristic")
    <3>2. match.order = Head(todo) /\ match.link = "heuristic"
      BY MatchedIs
    <3>. HIDE DEF match
    <3>3. matches' = Append(matches, match)
      BY <3>1 DEF match
    <3>. QED  BY <1>1, <3>2, <3>3, MatchStep DEF LinkInv
  <2>. QED  BY <2>1, <2>2
<1>6. TodoInv'
  BY <1>1, <1>2, <1>3, <1>4, <1>5 DEF TodoInv
<1>7. ReasonInv' /\ CountInv'
  BY <1>1, <1>2 DEF LinkInv, ReasonInv, CountInv
<1>. QED  BY <1>5, <1>6, <1>7 DEF LinkInv

LEMMA ByIdStarts ==
  ASSUME PopulationInv, LinkInv, [Next]_vars, StartById
  PROVE  LinkInv'
<1>1. /\ pc = "heuristic" /\ pc' = "id" /\ todo' = InOrder(ById)
      /\ UNCHANGED <<matches, requotable, unlinked>>
      /\ requotable = <<>> /\ unlinked = [why \in Reason |-> 0]
      /\ \A i \in DOMAIN matches : matches[i].link = "heuristic"
  BY DEF StartById, linked, LinkInv, ReasonInv, MatchInv
<1>2. /\ ById' = ById /\ ByHeuristic' = ByHeuristic
      /\ IsFiniteSet(ById) /\ ById \in SUBSET Int /\ ByHeuristic \cap ById = {}
  BY <1>1, SameOrders, OrdersAre
<1>3. /\ todo' \in Seq(ById) /\ ToSet(todo') = ById /\ IsInjective(todo')
      /\ Len(todo') = Cardinality(ById) /\ Cardinality(ById) \in Nat
  BY <1>1, <1>2, InOrderIs
<1>4. MatchInv' /\ ReasonInv'
  BY <1>1, <1>2 DEF LinkInv, MatchInv, ReasonInv
<1>5. Linked(matches) \cap ById = {} /\ LinkedBy(matches, Identified) = {}
  BY <1>1, <1>2 DEF LinkInv, MatchInv, Linked, LinkedBy, Identified
<1>6. Deferred' = {}
  BY <1>1 DEF Deferred
<1>7. TodoInv'
  <2>1. IsList(todo')
    BY <1>3, SeqIsList
  <2>. QED  BY <1>1, <1>2, <1>3, <1>5, <1>6, <2>1 DEF TodoInv
<1>8. CountInv'
  <2>1. Cardinality(LinkedBy(matches, Identified)) = 0 /\ SumFunction(unlinked) = 0
    BY <1>1, <1>5, NoneCounted, FS_EmptySet
  <2>2. Waiting' = Cardinality(ById)
    BY <1>1, <1>3 DEF Waiting
  <2>. QED  BY <1>1, <1>2, <1>3, <2>1, <2>2 DEF CountInv
<1>. QED  BY <1>4, <1>7, <1>8 DEF LinkInv

\* What both loops over orders with a quote id have at hand.
LEMMA TurnIs ==
  ASSUME PopulationInv, LinkInv, [Next]_vars, pc \in {"id", "requote"}, todo # <<>>,
         todo' = Tail(todo)
  PROVE  /\ ById' = ById /\ ByHeuristic' = ByHeuristic
         /\ IsList(todo) /\ IsInjective(todo) /\ Head(todo) \in ToSet(todo)
         /\ IsList(todo') /\ IsInjective(todo') /\ ToSet(todo') = ToSet(todo) \ {Head(todo)}
         /\ Len(todo') \in Nat /\ Len(todo) = Len(todo') + 1
         /\ Head(todo) \in ById /\ ToSet(todo) \cap Linked(matches) = {}
         /\ Cardinality(LinkedBy(matches, Identified)) \in Nat
         /\ SumFunction(unlinked) \in Nat /\ Len(requotable) \in Nat
<1>1. /\ ById' = ById /\ ByHeuristic' = ByHeuristic
  BY SameOrders
<1>2. /\ IsList(todo) /\ IsInjective(todo) /\ ToSet(todo) \cap Linked(matches) = {}
  BY DEF LinkInv, TodoInv
<1>3. /\ Head(todo) \in ToSet(todo)
      /\ IsList(todo') /\ IsInjective(todo') /\ ToSet(todo') = ToSet(todo) \ {Head(todo)}
      /\ Len(todo') \in Nat /\ Len(todo) = Len(todo') + 1
  BY <1>2, TakenFrom
<1>4. requotable \in Seq(ById \X Reason) /\ SumFunction(unlinked) \in Nat
  BY Counted DEF LinkInv, ReasonInv
<1>5. Head(todo) \in ById
  <2>1. Deferred \subseteq ById
    BY <1>4 DEF Deferred
  <2>. QED  BY <1>3, <2>1 DEF LinkInv, TodoInv
<1>6. Cardinality(LinkedBy(matches, Identified)) \in Nat
  <2>1. DOMAIN matches = 1..Len(matches) /\ Len(matches) \in Nat
    BY ListIs DEF LinkInv, MatchInv
  <2>2. IsFiniteSet(LinkedBy(matches, Identified))
    <3>1. IsFiniteSet(DOMAIN matches)
      BY <2>1, FS_Interval
    <3>. QED  BY <3>1, FS_Subset DEF LinkedBy
  <2>. QED  BY <2>2, FS_CardinalityType
<1>. QED  BY <1>1, <1>2, <1>3, <1>4, <1>5, <1>6

\* One order is linked, in either loop.
LEMMA PlaceStep ==
  ASSUME PopulationInv, LinkInv, [Next]_vars, pc \in {"id", "requote"}, todo # <<>>, pc' = pc,
         todo' = Tail(todo), UNCHANGED <<requotable, unlinked>>,
         NEW match, matches' = Append(matches, match), match.order = Head(todo),
         match.link \in Identified
  PROVE  LinkInv'
<1>1. /\ ById' = ById /\ ByHeuristic' = ByHeuristic
      /\ IsList(todo) /\ IsInjective(todo) /\ Head(todo) \in ToSet(todo)
      /\ IsList(todo') /\ IsInjective(todo') /\ ToSet(todo') = ToSet(todo) \ {Head(todo)}
      /\ Len(todo') \in Nat /\ Len(todo) = Len(todo') + 1
      /\ Head(todo) \in ById /\ ToSet(todo) \cap Linked(matches) = {}
      /\ Cardinality(LinkedBy(matches, Identified)) \in Nat
      /\ SumFunction(unlinked) \in Nat /\ Len(requotable) \in Nat
  BY TurnIs
<1>2. /\ MatchInv'
      /\ Linked(matches') = Linked(matches) \cup {Head(todo)}
      /\ Cardinality(LinkedBy(matches', Identified))
           = Cardinality(LinkedBy(matches, Identified)) + 1
  BY <1>1, MatchStep DEF LinkInv
<1>3. ReasonInv'
  BY <1>1 DEF LinkInv, ReasonInv
<1>4. Deferred' = Deferred
  BY DEF Deferred
<1>5. TodoInv'
  BY <1>1, <1>2, <1>4 DEF LinkInv, TodoInv
<1>6. CountInv'
  <2>1. Waiting = Waiting' + 1 /\ Waiting' \in Nat
    BY <1>1 DEF Waiting
  <2>2. Cardinality(ById) = Cardinality(LinkedBy(matches, Identified)) + SumFunction(unlinked) + Waiting
    BY DEF LinkInv, CountInv
  <2>3. Cardinality(ById)
          = Cardinality(LinkedBy(matches', Identified)) + SumFunction(unlinked) + Waiting'
    BY <1>1, <1>2, <2>1, <2>2
  <2>. QED  BY <1>1, <2>3 DEF CountInv
<1>. QED  BY <1>2, <1>3, <1>5, <1>6 DEF LinkInv

\* One order is counted as not linked, in either loop.
LEMMA CountStep ==
  ASSUME PopulationInv, LinkInv, [Next]_vars, pc \in {"id", "requote"}, todo # <<>>, pc' = pc,
         todo' = Tail(todo), UNCHANGED <<matches, requotable>>,
         NEW why \in Reason, unlinked' = [unlinked EXCEPT ![why] = @ + 1]
  PROVE  LinkInv'
<1>1. /\ ById' = ById /\ ByHeuristic' = ByHeuristic
      /\ IsList(todo) /\ IsInjective(todo) /\ Head(todo) \in ToSet(todo)
      /\ IsList(todo') /\ IsInjective(todo') /\ ToSet(todo') = ToSet(todo) \ {Head(todo)}
      /\ Len(todo') \in Nat /\ Len(todo) = Len(todo') + 1
      /\ Head(todo) \in ById /\ ToSet(todo) \cap Linked(matches) = {}
      /\ Cardinality(LinkedBy(matches, Identified)) \in Nat
      /\ SumFunction(unlinked) \in Nat /\ Len(requotable) \in Nat
  BY TurnIs
<1>2. unlinked' \in [Reason -> Nat] /\ SumFunction(unlinked') = SumFunction(unlinked) + 1
  BY Counted DEF LinkInv, ReasonInv
<1>3. MatchInv'
  BY <1>1 DEF LinkInv, MatchInv
<1>4. ReasonInv'
  BY <1>1, <1>2 DEF LinkInv, ReasonInv
<1>5. Deferred' = Deferred
  BY DEF Deferred
<1>6. TodoInv'
  BY <1>1, <1>5 DEF LinkInv, TodoInv
<1>7. CountInv'
  <2>1. Waiting = Waiting' + 1 /\ Waiting' \in Nat
    BY <1>1 DEF Waiting
  <2>2. Cardinality(ById) = Cardinality(LinkedBy(matches, Identified)) + SumFunction(unlinked) + Waiting
    BY DEF LinkInv, CountInv
  <2>3. Cardinality(ById)
          = Cardinality(LinkedBy(matches, Identified)) + SumFunction(unlinked') + Waiting'
    BY <1>1, <1>2, <2>1, <2>2
  <2>. QED  BY <1>1, <2>3 DEF CountInv
<1>. QED  BY <1>3, <1>4, <1>6, <1>7 DEF LinkInv

LEMMA ByIdStep ==
  ASSUME PopulationInv, LinkInv, [Next]_vars, MatchById
  PROVE  LinkInv'
<1>1. /\ pc = "id" /\ pc' = pc /\ todo # <<>> /\ todo' = Tail(todo)
      /\ UNCHANGED requotable
  BY DEF MatchById
<1>2. CASE NotForwarded
  <2>1. /\ UNCHANGED matches
        /\ unlinked' = [unlinked EXCEPT !["not a forwarded answer of its stream"] = @ + 1]
    BY <1>2 DEF MatchById
  <2>2. "not a forwarded answer of its stream" \in Reason
    BY DEF Reason
  <2>. QED  BY <1>1, <2>1, <2>2, CountStep
<1>3. CASE ~NotForwarded
  <2>1. PICK take : /\ matches' = Append(matches, MatchedQuote(IdCompetition, take, "corroborated", "quote-id"))
                    /\ UNCHANGED unlinked
    BY <1>3 DEF MatchById
  <2>. DEFINE match == MatchedQuote(IdCompetition, take, "corroborated", "quote-id")
  <2>2. match.order = Head(todo) /\ match.link \in Identified
    BY MatchedIs DEF Identified
  <2>. HIDE DEF match
  <2>3. matches' = Append(matches, match) /\ UNCHANGED <<requotable, unlinked>>
    BY <1>1, <2>1 DEF match
  <2>. QED  BY <1>1, <2>2, <2>3, PlaceStep
<1>. QED  BY <1>2, <1>3

LEMMA DeferStep ==
  ASSUME PopulationInv, LinkInv, [Next]_vars, DeferToRequote
  PROVE  LinkInv'
<1>1. /\ pc = "id" /\ pc' = pc /\ todo # <<>> /\ todo' = Tail(todo)
      /\ UNCHANGED <<matches, unlinked>>
  BY DEF DeferToRequote
<1>2. PICK why \in Reason : requotable' = Append(requotable, <<Head(todo), why>>)
  BY DEF DeferToRequote, Reason
<1>3. /\ ById' = ById /\ ByHeuristic' = ByHeuristic
      /\ IsList(todo) /\ IsInjective(todo) /\ Head(todo) \in ToSet(todo)
      /\ IsList(todo') /\ IsInjective(todo') /\ ToSet(todo') = ToSet(todo) \ {Head(todo)}
      /\ Len(todo') \in Nat /\ Len(todo) = Len(todo') + 1
      /\ Head(todo) \in ById /\ ToSet(todo) \cap Linked(matches) = {}
      /\ Cardinality(LinkedBy(matches, Identified)) \in Nat
      /\ SumFunction(unlinked) \in Nat /\ Len(requotable) \in Nat
  BY <1>1, TurnIs
<1>4. /\ requotable \in Seq(ById \X Reason)
      /\ \A i, k \in DOMAIN requotable : requotable[i][1] = requotable[k][1] => i = k
      /\ (ToSet(todo) \cup Linked(matches)) \cap Deferred = {}
  BY <1>1 DEF LinkInv, ReasonInv, TodoInv
<1>. DEFINE n == Len(requotable)
            pair == <<Head(todo), why>>
<1>5. pair \in ById \X Reason /\ pair[1] = Head(todo)
  BY <1>3
<1>. HIDE DEF pair
<1>6. /\ requotable' \in Seq(ById \X Reason) /\ Len(requotable') = n + 1
      /\ DOMAIN requotable' = DOMAIN requotable \cup {n + 1} /\ n + 1 \notin DOMAIN requotable
      /\ \A i \in DOMAIN requotable : requotable'[i] = requotable[i]
      /\ requotable'[n + 1] = pair
  <2>1. requotable' = Append(requotable, pair)
    BY <1>2 DEF pair
  <2>. QED  BY <1>4, <1>5, <2>1
<1>7. Deferred' = Deferred \cup {Head(todo)}
  <2>1. \A x : x \in Deferred <=> \E i \in DOMAIN requotable : requotable[i][1] = x
    BY DEF Deferred
  <2>2. \A x : x \in Deferred' <=> \E i \in DOMAIN requotable' : requotable'[i][1] = x
    BY DEF Deferred
  <2>3. /\ \A i \in DOMAIN requotable : requotable'[i][1] = requotable[i][1]
        /\ requotable'[n + 1][1] = Head(todo)
    BY <1>5, <1>6
  <2>. DEFINE m == n + 1
  <2>4. /\ DOMAIN requotable' = DOMAIN requotable \cup {m}
        /\ requotable'[m][1] = Head(todo)
    BY <1>6, <2>3
  <2>. HIDE DEF m
  <2>5. \A x : x \in Deferred' <=> x \in Deferred \/ x = Head(todo)
    BY <2>1, <2>2, <2>3, <2>4
  <2>. QED  BY <2>5
<1>8. \A i, k \in DOMAIN requotable' : requotable'[i][1] = requotable'[k][1] => i = k
  <2>1. \A i \in DOMAIN requotable : requotable[i][1] # Head(todo)
    BY <1>3, <1>4 DEF Deferred
  <2>. QED  BY <1>4, <1>5, <1>6, <2>1
<1>9. ReasonInv'
  BY <1>1, <1>3, <1>6, <1>8 DEF LinkInv, ReasonInv
<1>10. MatchInv'
  BY <1>1, <1>3 DEF LinkInv, MatchInv
<1>11. TodoInv'
  <2>1. ToSet(todo') \subseteq ById
    BY <1>1, <1>3 DEF LinkInv, TodoInv
  <2>2. (ToSet(todo') \cup Linked(matches)) \cap Deferred' = {}
    BY <1>3, <1>4, <1>7
  <2>. QED  BY <1>1, <1>3, <2>1, <2>2 DEF TodoInv
<1>12. CountInv'
  <2>1. Waiting' = Waiting
    BY <1>1, <1>3, <1>6 DEF Waiting
  <2>. QED  BY <1>1, <1>3, <2>1 DEF LinkInv, CountInv
<1>. QED  BY <1>9, <1>10, <1>11, <1>12 DEF LinkInv

LEMMA RequotesStart ==
  ASSUME PopulationInv, LinkInv, [Next]_vars, StartRequotes
  PROVE  LinkInv'
<1>1. /\ pc = "id" /\ pc' = "requote" /\ todo = <<>>
      /\ todo' = [i \in DOMAIN requotable |-> requotable[i][1]]
      /\ UNCHANGED <<matches, requotable, unlinked>>
  BY DEF StartRequotes, linked
<1>2. /\ ById' = ById /\ ByHeuristic' = ByHeuristic
  BY <1>1, SameOrders
<1>3. /\ requotable \in Seq(ById \X Reason)
      /\ \A i, k \in DOMAIN requotable : requotable[i][1] = requotable[k][1] => i = k
      /\ Linked(matches) \cap Deferred = {}
  BY <1>1 DEF LinkInv, ReasonInv, TodoInv
<1>4. MatchInv' /\ ReasonInv'
  BY <1>1, <1>2 DEF LinkInv, MatchInv, ReasonInv
<1>5. todo' \in Seq(ById) /\ Len(todo') = Len(requotable) /\ DOMAIN todo' = DOMAIN requotable
  BY <1>1, <1>3
<1>6. IsList(todo') /\ IsInjective(todo') /\ ToSet(todo') = Deferred
  BY <1>1, <1>3, <1>5, SeqIsList DEF IsInjective, ToSet, Deferred
<1>7. Deferred' = Deferred
  BY <1>1 DEF Deferred
<1>8. TodoInv'
  BY <1>1, <1>3, <1>6, <1>7 DEF TodoInv
<1>9. CountInv'
  <2>1. Waiting' = Waiting
    BY <1>1, <1>3, <1>5 DEF Waiting
  <2>. QED  BY <1>1, <1>2, <2>1 DEF LinkInv, CountInv
<1>. QED  BY <1>4, <1>8, <1>9 DEF LinkInv

LEMMA RequoteStep ==
  ASSUME PopulationInv, LinkInv, [Next]_vars, LinkRequote \/ LeaveUnlinked
  PROVE  LinkInv'
<1>1. /\ pc = "requote" /\ pc' = pc /\ todo # <<>> /\ todo' = Tail(todo)
      /\ UNCHANGED requotable
  BY DEF LinkRequote, LeaveUnlinked
<1>2. CASE LinkRequote
  <2>1. PICK competition :
          matches' = Append(matches, MatchedQuote(competition, OneShot(competition),
                                                  "corroborated", "requote"))
    BY <1>2 DEF LinkRequote
  <2>. DEFINE match == MatchedQuote(competition, OneShot(competition), "corroborated", "requote")
  <2>2. match.order = Head(todo) /\ match.link \in Identified
    BY MatchedIs DEF Identified
  <2>. HIDE DEF match
  <2>3. matches' = Append(matches, match) /\ UNCHANGED <<requotable, unlinked>>
    BY <1>2, <2>1 DEF match, LinkRequote
  <2>. QED  BY <1>1, <2>2, <2>3, PlaceStep
<1>3. CASE LeaveUnlinked
  <2>. DEFINE c == CHOOSE c \in ToSet(requotable) : c[1] = Head(todo)
  <2>1. \E d \in ToSet(requotable) : d[1] = Head(todo)
    <3>1. Head(todo) \in ToSet(todo) /\ ToSet(todo) \subseteq Deferred
      BY <1>1, TurnIs DEF LinkInv, TodoInv
    <3>. QED  BY <3>1 DEF Deferred, ToSet
  <2>2. c \in ToSet(requotable)
    BY <2>1
  <2>3. c[2] \in Reason
    <3>1. requotable \in Seq(ById \X Reason)
      BY DEF LinkInv, ReasonInv
    <3>2. ToSet(requotable) \subseteq ById \X Reason
      BY <3>1, SeqIsList
    <3>. QED  BY <2>2, <3>2
  <2>4. unlinked' = [unlinked EXCEPT ![c[2]] = @ + 1] /\ UNCHANGED <<matches, requotable>>
    BY <1>3 DEF LeaveUnlinked
  <2>. HIDE DEF c
  <2>. QED  BY <1>1, <2>3, <2>4, CountStep
<1>. QED  BY <1>2, <1>3

\* What comes after the links leaves them alone.
LEMMA LinksStay ==
  ASSUME PopulationInv, LinkInv, [Next]_vars,
         \/ StartValidation \/ Validate \/ StartAnalysis \/ Add
         \/ Returned \/ UNCHANGED vars
  PROVE  LinkInv'
<1>1. CASE UNCHANGED vars \/ Returned
  <2>1. UNCHANGED vars
    BY <1>1 DEF Returned
  <2>. QED  BY <2>1 DEF vars, LinkInv, MatchInv, ReasonInv, TodoInv, CountInv, Waiting, Deferred,
                       ById, ByHeuristic, Linkable, Order_
<1>2. CASE StartValidation \/ Validate \/ StartAnalysis \/ Add
  <2>1. /\ UNCHANGED <<matches, requotable, unlinked>>
        /\ (pc = "requote" /\ todo = <<>>) \/ pc \in {"validate", "analyse"}
        /\ pc' \in {"validate", "analyse"}
    BY <1>2 DEF StartValidation, Validate, StartAnalysis, Add, linked
  <2>2. /\ ById' = ById /\ ByHeuristic' = ByHeuristic
    BY <2>1, SameOrders
  <2>3. Waiting = 0 /\ Waiting' = 0
    BY <2>1 DEF Waiting
  <2>. QED  BY <2>1, <2>2, <2>3 DEF LinkInv, MatchInv, ReasonInv, TodoInv, CountInv
<1>. QED  BY <1>1, <1>2

LEMMA LinkInductive == Spec => [](PopulationInv /\ LinkInv)
<1>1. Init => PopulationInv /\ LinkInv
  BY PopulationInit, LinkInit
<1>2. PopulationInv /\ LinkInv /\ [Next]_vars => (PopulationInv /\ LinkInv)'
  <2>. SUFFICES ASSUME PopulationInv, LinkInv, [Next]_vars PROVE LinkInv'
    BY PopulationStep
  <2>1. CASE Populate \/ Fetch \/ StartHeuristic
    BY <2>1, LinkStarts
  <2>2. CASE MatchHeuristic
    BY <2>2, HeuristicStep
  <2>3. CASE StartById
    BY <2>3, ByIdStarts
  <2>4. CASE MatchById
    BY <2>4, ByIdStep
  <2>5. CASE DeferToRequote
    BY <2>5, DeferStep
  <2>6. CASE StartRequotes
    BY <2>6, RequotesStart
  <2>7. CASE LinkRequote \/ LeaveUnlinked
    BY <2>7, RequoteStep
  <2>8. CASE \/ StartValidation \/ Validate \/ StartAnalysis \/ Add
             \/ Returned \/ UNCHANGED vars
    BY <2>8, LinksStay
  <2>. QED  BY <2>1, <2>2, <2>3, <2>4, <2>5, <2>6, <2>7, <2>8 DEF Next
<1>. QED  BY <1>1, <1>2, PTL DEF Spec

\* Every order of the period is dropped, before the coverage, trivial, or goes through
\* exactly one link, and one the quote-id link does not place has one reason
\* (load_quote_window, link_by_quote_id, LinkStats).
THEOREM OrdersAreCounted == Spec => []EveryOrderAccounted
<1>1. PopulationInv /\ LinkInv => EveryOrderAccounted
  <2>. SUFFICES ASSUME PopulationInv, LinkInv, Done PROVE EveryOrderAccounted
    BY DEF EveryOrderAccounted
  <2>1. pc = "analyse"
    BY DEF Done
  <2>2. /\ Cardinality(All) = left[1] + left[2] + Cardinality(population)
        /\ ByHeuristic \subseteq Linkable /\ ById \subseteq Linkable
    BY <2>1, OrdersAre
  <2>3. Cardinality(ById) = Cardinality(MatchesBy({"quote-id", "requote"})) + SumFunction(unlinked)
    <3>1. /\ Waiting = 0
          /\ LinkedBy(matches, Identified) = MatchesBy({"quote-id", "requote"})
      BY <2>1 DEF Waiting, LinkedBy, MatchesBy, Identified
    <3>2. SumFunction(unlinked) \in Nat /\ Cardinality(LinkedBy(matches, Identified)) \in Nat
      <4>1. DOMAIN matches = 1..Len(matches) /\ Len(matches) \in Nat
        BY ListIs DEF LinkInv, MatchInv
      <4>2. IsFiniteSet(DOMAIN matches)
        BY <4>1, FS_Interval
      <4>3. IsFiniteSet(LinkedBy(matches, Identified))
        BY <4>2, FS_Subset DEF LinkedBy
      <4>. QED  BY <4>3, Counted, FS_CardinalityType DEF LinkInv, ReasonInv
    <3>3. Cardinality(ById)
            = Cardinality(LinkedBy(matches, Identified)) + SumFunction(unlinked) + Waiting
      BY <2>1 DEF LinkInv, CountInv
    <3>. QED  BY <3>1, <3>2, <3>3
  <2>4. \A i \in DOMAIN matches : matches[i].order \in Linkable
    BY <2>2 DEF LinkInv, MatchInv
  <2>5. \A i, k \in DOMAIN matches : matches[i].order = matches[k].order => i = k
    BY DEF LinkInv, MatchInv, Once
  <2>. QED  BY <2>2, <2>3, <2>4, <2>5 DEF EveryOrderAccounted
<1>. QED  BY <1>1, LinkInductive, PTL

----------------------------------------------------------------------------
(* The tallies are shares *)

LeafOf(match) == DiffOf(match).leaf
Sure(match) == match.tier = "corroborated"

\* A leaf for every match; a broken price and an empty removal keep it from a replacement.
LEMMA LeafIs ==
  ASSUME NEW match
  PROVE  /\ LeafOf(match) \in Leaves
         /\ match.order \in Suspects => LeafOf(match) \in {"unaffected", "price_suspect"}
         /\ removed = {} => LeafOf(match) = "unaffected"
         /\ DiffOf(match).quote # <<>> <=> LeafOf(match) \in Charged
<1>. DEFINE q == Priced(Order_(match.order), match.competition, Ranking)
            take == match.take
            stored == QuoteOf(Order_(match.order))
            suspect == match.order \in Suspects
<1>1. /\ LeafOf(match) = Leaf(q, take, stored, suspect, removed)
      /\ DiffOf(match).quote = IF Leaf(q, take, stored, suspect, removed) \in Charged
                               THEN CounterfactualQuote(q, Replacement(q, take, removed))
                               ELSE <<>>
  BY DEF LeafOf, DiffOf, DiffQuote
<1>. HIDE DEF q, take, stored, suspect
<1>2. \A loo : PriceLeaf(q, take, stored, loo) \in Named
  BY DEF PriceLeaf, Named
<1>3. Leaf(q, take, stored, suspect, removed) \in Leaves
  BY <1>2 DEF Leaf, Leaves, Named
<1>4. suspect => Leaf(q, take, stored, suspect, removed) \in {"unaffected", "price_suspect"}
  BY DEF Leaf
<1>5. removed = {} => Leaf(q, take, stored, suspect, removed) = "unaffected"
  BY DEF Leaf, Untouched
<1>6. \A loo : CounterfactualQuote(q, loo) # <<>>
  <2>1. \A loo : DOMAIN CounterfactualQuote(q, loo) = {"sell", "buy", "fee"}
    BY DEF CounterfactualQuote
  <2>2. DOMAIN <<>> = {}
    OBVIOUS
  <2>. QED  BY <2>1, <2>2
<1>. QED  BY <1>1, <1>3, <1>4, <1>5, <1>6 DEF suspect

\* What one match adds to each counter.
LEMMA AddedIs ==
  ASSUME NEW match, NEW diff, Volume(Order_(match.order)) \in Nat
  PROVE  LET added == Added(match, diff)
             leaf == diff.leaf
         IN  /\ added \in [Counter -> Nat]
             /\ added["orders"] = 0 /\ added["volume"] = 0
             /\ added["wins"] = One(leaf # "unaffected")
             /\ added["winsCorroborated"] = One(leaf # "unaffected" /\ Sure(match))
             /\ added["unrecorded"] = One(leaf = "unrecorded")
             /\ added["unpriced"] = One(leaf = "unpriced")
             /\ added["nonpositive"] = One(leaf = "nonpositive")
             /\ added["suspect"] = One(leaf = "price_suspect")
             /\ added["implausible"] = One(leaf = "implausible")
             /\ added["noQuoteAll"] = One(leaf = "no_quote")
             /\ added["flips"] = One(leaf = "class_flip")
             /\ added["degradedAll"] = One(leaf = "degraded")
             /\ added["noQuote"] = One(leaf = "no_quote" /\ Sure(match))
             /\ added["degraded"] = One(leaf = "degraded" /\ Sure(match))
             /\ added["degradedVolumeAll"]
                  = IF leaf = "degraded" THEN Volume(Order_(match.order)) ELSE 0
<1>. DEFINE added == Added(match, diff)
            volume == Volume(Order_(match.order))
<1>1. DOMAIN added = Counter
  BY DEF Added
<1>2. volume \in Nat /\ \A condition : One(condition) \in Nat
  BY DEF One
<1>. HIDE DEF volume
<1>3. \A c \in Counter : added[c] \in Nat
  BY <1>2 DEF Added, volume, One
<1>4. added \in [Counter -> Nat]
  BY <1>1, <1>3 DEF Added
<1>. USE DEF Added, Counter, Sure
<1>5. added["orders"] = 0 /\ added["volume"] = 0
  OBVIOUS
<1>6. added["wins"] = One(diff.leaf # "unaffected")
  OBVIOUS
<1>7. added["winsCorroborated"] = One(diff.leaf # "unaffected" /\ Sure(match))
  OBVIOUS
<1>8. /\ added["unrecorded"] = One(diff.leaf = "unrecorded")
      /\ added["unpriced"] = One(diff.leaf = "unpriced")
      /\ added["nonpositive"] = One(diff.leaf = "nonpositive")
      /\ added["suspect"] = One(diff.leaf = "price_suspect")
      /\ added["implausible"] = One(diff.leaf = "implausible")
  OBVIOUS
<1>9. /\ added["noQuoteAll"] = One(diff.leaf = "no_quote")
      /\ added["flips"] = One(diff.leaf = "class_flip")
      /\ added["degradedAll"] = One(diff.leaf = "degraded")
  OBVIOUS
<1>10. /\ added["noQuote"] = One(diff.leaf = "no_quote" /\ Sure(match))
       /\ added["degraded"] = One(diff.leaf = "degraded" /\ Sure(match))
  OBVIOUS
<1>11. added["degradedVolumeAll"] = IF diff.leaf = "degraded" THEN volume ELSE 0
  BY DEF volume
<1>. HIDE DEF Added, Counter, Sure
<1>. HIDE DEF added
<1>. QED  BY <1>4, <1>5, <1>6, <1>7, <1>8, <1>9, <1>10, <1>11 DEF added, volume

LEMMA SumPlus ==
  ASSUME NEW f, NEW S, IsFiniteSet(S), NEW x, x \notin S, \A y \in S \cup {x} : f[y] \in Int
  PROVE  /\ IsFiniteSet(S \cup {x})
         /\ SumFunctionOnSet(f, S \cup {x}) = SumFunctionOnSet(f, S) + f[x]
<1>. DEFINE T == S \cup {x}
<1>1. IsFiniteSet(T) /\ x \in T /\ T \ {x} = S
  BY FS_AddElement
<1>. HIDE DEF T
<1>2. \A y \in T : f[y] \in Int
  BY DEF T
<1>3. \A y \in T : SumFunctionOnSet(f, T) = f[y] + SumFunctionOnSet(f, T \ {y})
  BY <1>1, <1>2, SumWithout, Zenon
<1>4. SumFunctionOnSet(f, T) = f[x] + SumFunctionOnSet(f, S)
  BY <1>1, <1>3, Zenon
<1>5. SumFunctionOnSet(f, S) \in Int /\ f[x] \in Int
  <2>1. \A y \in S : f[y] \in Int
    OBVIOUS
  <2>2. SumFunctionOnSet(f, S) \in Int
    BY <2>1, SumInt
  <2>. QED  BY <2>2
<1>. QED  BY <1>1, <1>4, <1>5 DEF T

LEMMA LeafSum ==
  ASSUME NEW f \in [Counter -> Nat]
  PROVE  SumFunctionOnSet(f, LeafCounters)
           = f["unrecorded"] + f["unpriced"] + f["nonpositive"] + f["suspect"] + f["implausible"]
               + f["noQuoteAll"] + f["flips"] + f["degradedAll"]
<1>. DEFINE s1 == {} \cup {"unrecorded"}
            s2 == s1 \cup {"unpriced"}
            s3 == s2 \cup {"nonpositive"}
            s4 == s3 \cup {"suspect"}
            s5 == s4 \cup {"implausible"}
            s6 == s5 \cup {"noQuoteAll"}
            s7 == s6 \cup {"flips"}
            s8 == s7 \cup {"degradedAll"}
            sum(S) == SumFunctionOnSet(f, S)
<1>1. LeafCounters = s8 /\ s8 \subseteq Counter
  BY DEF LeafCounters, Counter
<1>2. \A c \in s8 : f[c] \in Nat
  BY <1>1
<1>3. /\ "unpriced" \notin s1 /\ "nonpositive" \notin s2 /\ "suspect" \notin s3
      /\ "implausible" \notin s4 /\ "noQuoteAll" \notin s5 /\ "flips" \notin s6
      /\ "degradedAll" \notin s7
  OBVIOUS
<1>4. /\ \A c \in s1 : f[c] \in Int
      /\ \A c \in s2 : f[c] \in Int
      /\ \A c \in s3 : f[c] \in Int
      /\ \A c \in s4 : f[c] \in Int
      /\ \A c \in s5 : f[c] \in Int
      /\ \A c \in s6 : f[c] \in Int
      /\ \A c \in s7 : f[c] \in Int
      /\ \A c \in s8 : f[c] \in Int
  BY <1>2
<1>5. IsFiniteSet({}) /\ sum({}) = 0
  BY FS_EmptySet, SumOfNone
<1>6. IsFiniteSet(s1) /\ sum(s1) = sum({}) + f["unrecorded"]
  BY <1>4, <1>5, SumPlus
<1>. HIDE DEF s1
<1>7. IsFiniteSet(s2) /\ sum(s2) = sum(s1) + f["unpriced"]
  BY <1>3, <1>4, <1>6, SumPlus
<1>. HIDE DEF s2
<1>8. IsFiniteSet(s3) /\ sum(s3) = sum(s2) + f["nonpositive"]
  BY <1>3, <1>4, <1>7, SumPlus
<1>. HIDE DEF s3
<1>9. IsFiniteSet(s4) /\ sum(s4) = sum(s3) + f["suspect"]
  BY <1>3, <1>4, <1>8, SumPlus
<1>. HIDE DEF s4
<1>10. IsFiniteSet(s5) /\ sum(s5) = sum(s4) + f["implausible"]
  BY <1>3, <1>4, <1>9, SumPlus
<1>. HIDE DEF s5
<1>11. IsFiniteSet(s6) /\ sum(s6) = sum(s5) + f["noQuoteAll"]
  BY <1>3, <1>4, <1>10, SumPlus
<1>. HIDE DEF s6
<1>12. IsFiniteSet(s7) /\ sum(s7) = sum(s6) + f["flips"]
  BY <1>3, <1>4, <1>11, SumPlus
<1>. HIDE DEF s7
<1>13. IsFiniteSet(s8) /\ sum(s8) = sum(s7) + f["degradedAll"]
  BY <1>3, <1>4, <1>12, SumPlus
<1>. HIDE DEF s8, sum
<1>14. /\ f["unrecorded"] \in Nat /\ f["unpriced"] \in Nat /\ f["nonpositive"] \in Nat
       /\ f["suspect"] \in Nat /\ f["implausible"] \in Nat /\ f["noQuoteAll"] \in Nat
       /\ f["flips"] \in Nat /\ f["degradedAll"] \in Nat
  BY DEF Counter
<1>15. sum(s8) = f["unrecorded"] + f["unpriced"] + f["nonpositive"] + f["suspect"]
                   + f["implausible"] + f["noQuoteAll"] + f["flips"] + f["degradedAll"]
  BY <1>5, <1>6, <1>7, <1>8, <1>9, <1>10, <1>11, <1>12, <1>13, <1>14
<1>. QED  BY <1>1, <1>15 DEF sum

(***************************************************************************)
(* The matches diffed so far are the first ones, and the counters are what   *)
(* the orders among them with each leaf come to.                            *)
(***************************************************************************)
Diffed == IF pc # "analyse" \/ removed = {} THEN 0 ELSE Len(matches) - Len(todo)

Among(n, leaves) == {k \in 1..n : LeafOf(matches[k]) \in leaves}
Hit(n, leaves) == {matches[k].order : k \in Among(n, leaves)}
Quotes(n) == {<<matches[k].order, DiffOf(matches[k]).quote>> :
                k \in {j \in Among(n, Charged) : Sure(matches[j])}}

VolumeOf == [n \in Clean |-> Volume(Order_(n))]
Moved == {"no_quote", "class_flip", "degraded"}

LeftInv ==
  pc = "analyse" =>
    /\ IsList(todo) /\ Len(todo) <= Len(matches)
    /\ removed = {} => todo = <<>>
    /\ \A k \in DOMAIN todo : todo[k] = Len(matches) - Len(todo) + k

TalliesInv ==
  /\ analysis \in [Counter -> Nat]
  /\ analysis["wins"] = analysis["unrecorded"] + analysis["unpriced"] + analysis["nonpositive"]
                          + analysis["suspect"] + analysis["implausible"]
                          + analysis["noQuoteAll"] + analysis["flips"] + analysis["degradedAll"]
  /\ analysis["noQuote"] + analysis["degraded"] <= analysis["winsCorroborated"]
  /\ pc # "analyse" => analysis = [c \in Counter |-> 0]
  /\ pc = "analyse" => /\ analysis["orders"] = Cardinality(Clean)
                      /\ analysis["volume"] = SumFunction(VolumeOf)

HitInv ==
  LET hit == Hit(Diffed, Moved)
      degraded == Hit(Diffed, {"degraded"})
  IN  /\ IsFiniteSet(hit) /\ IsFiniteSet(degraded)
      /\ Cardinality(hit)
           = analysis["noQuoteAll"] + analysis["flips"] + analysis["degradedAll"]
      /\ analysis["degradedVolumeAll"] = SumFunctionOnSet(VolumeOf, degraded)

QuotesInv ==
  /\ IsFiniteSet(Quotes(Diffed))
  /\ Cardinality(Quotes(Diffed))
       \in analysis["degraded"] .. analysis["degraded"] + analysis["flips"]

AnalysisInv == LeftInv /\ TalliesInv /\ HitInv /\ QuotesInv

\* What a replacement was found for is clean.
LEMMA HitsAreClean ==
  ASSUME PopulationInv, LinkInv, pc # "populate", NEW k \in DOMAIN matches,
         LeafOf(matches[k]) \in Moved \cup Charged
  PROVE  /\ matches[k].order \in Clean
         /\ Volume(Order_(matches[k].order)) \in Nat
<1>1. matches[k].order \in population /\ population \subseteq All
  BY OrdersAre DEF LinkInv, MatchInv
<1>2. matches[k].order \notin Suspects
  BY LeafIs DEF Moved, Charged
<1>3. Order_(matches[k].order) \in Order
  BY <1>1, TablesAre DEF PopulationInv
<1>. QED  BY <1>1, <1>2, <1>3 DEF Clean, Volume, Order

LEMMA VolumesAre ==
  ASSUME PopulationInv, pc # "populate"
  PROVE  /\ IsFiniteSet(Clean) /\ VolumeOf \in [Clean -> Nat]
<1>1. IsFiniteSet(population) /\ population \subseteq All /\ Clean \subseteq population
  BY OrdersAre DEF Clean
<1>2. \A n \in Clean : Order_(n) \in Order
  BY <1>1, TablesAre DEF PopulationInv
<1>3. \A n \in Clean : Volume(Order_(n)) \in Nat
  BY <1>2 DEF Volume, Order
<1>. QED  BY <1>1, <1>3, FS_Subset DEF VolumeOf

LEMMA HitsInClean ==
  ASSUME PopulationInv, LinkInv, pc # "populate", NEW n \in Nat, n <= Len(matches),
         NEW leaves, leaves \subseteq Moved
  PROVE  Hit(n, leaves) \subseteq Clean
<1>1. DOMAIN matches = 1..Len(matches) /\ Len(matches) \in Nat
  BY ListIs DEF LinkInv, MatchInv
<1>2. \A k \in Among(n, leaves) : k \in DOMAIN matches /\ LeafOf(matches[k]) \in Moved \cup Charged
  BY <1>1 DEF Among
<1>. QED  BY <1>2, HitsAreClean DEF Hit

\* One match more brings at most one order more, and it is a new one.
LEMMA HitGrows ==
  ASSUME IsList(matches), Once(matches), NEW n \in Nat, n + 1 \in DOMAIN matches
  PROVE  LET match == matches[n + 1]
         IN  /\ \A leaves :
                  /\ match.order \notin Hit(n, leaves)
                  /\ Hit(n + 1, leaves) = Hit(n, leaves)
                       \cup IF LeafOf(match) \in leaves THEN {match.order} ELSE {}
             /\ <<match.order, DiffOf(match).quote>> \notin Quotes(n)
             /\ Quotes(n + 1) = Quotes(n)
                  \cup IF LeafOf(match) \in Charged /\ Sure(match)
                       THEN {<<match.order, DiffOf(match).quote>>} ELSE {}
<1>. DEFINE match == matches[n + 1]
            pair == <<match.order, DiffOf(match).quote>>
<1>1. DOMAIN matches = 1..Len(matches) /\ Len(matches) \in Nat
  BY ListIs
<1>2. \A k \in 1..n : matches[k].order # match.order
  <2>1. \A k \in 1..n : k \in DOMAIN matches /\ k # n + 1
    BY <1>1
  <2>. QED  BY <2>1 DEF Once
<1>3. 1..(n + 1) = 1..n \cup {n + 1}
  OBVIOUS
<1>4. ASSUME NEW leaves
      PROVE  /\ match.order \notin Hit(n, leaves)
             /\ Hit(n + 1, leaves) = Hit(n, leaves)
                  \cup IF LeafOf(match) \in leaves THEN {match.order} ELSE {}
  <2>1. match.order \notin Hit(n, leaves)
    BY <1>2 DEF Hit, Among
  <2>2. Among(n + 1, leaves) = Among(n, leaves)
          \cup IF LeafOf(match) \in leaves THEN {n + 1} ELSE {}
    BY <1>3 DEF Among
  <2>3. Hit(n + 1, leaves) = Hit(n, leaves)
          \cup IF LeafOf(match) \in leaves THEN {match.order} ELSE {}
    BY <2>2 DEF Hit
  <2>. QED  BY <2>1, <2>3
<1>5. pair \notin Quotes(n)
  BY <1>2 DEF Quotes, Among
<1>6. Quotes(n + 1) = Quotes(n) \cup IF LeafOf(match) \in Charged /\ Sure(match) THEN {pair} ELSE {}
  <2>. DEFINE places(m) == {j \in Among(m, Charged) : Sure(matches[j])}
  <2>1. places(n + 1) = places(n)
          \cup IF LeafOf(match) \in Charged /\ Sure(match) THEN {n + 1} ELSE {}
    BY <1>3 DEF Among
  <2>2. /\ Quotes(n) = {<<matches[k].order, DiffOf(matches[k]).quote>> : k \in places(n)}
        /\ Quotes(n + 1) = {<<matches[k].order, DiffOf(matches[k]).quote>> : k \in places(n + 1)}
    BY DEF Quotes
  <2>. HIDE DEF places
  <2>. QED  BY <2>1, <2>2
<1>. QED  BY <1>4, <1>5, <1>6

LEMMA SameDiffs ==
  ASSUME UNCHANGED <<window, population, matches, removed>>
  PROVE  /\ \A n, leaves : Hit(n, leaves)' = Hit(n, leaves)
         /\ \A n : Quotes(n)' = Quotes(n)
         /\ Clean' = Clean /\ VolumeOf' = VolumeOf
<1>1. Clean' = Clean /\ Suspects' = Suspects
  BY DEF Clean, Suspects, Order_
<1>2. \A k : /\ LeafOf(matches[k])' = LeafOf(matches[k])
             /\ (DiffOf(matches[k]).quote)' = DiffOf(matches[k]).quote
             /\ (matches[k].order)' = matches[k].order /\ Sure(matches[k])' = Sure(matches[k])
  BY <1>1 DEF LeafOf, DiffOf, Order_, Sure
<1>3. \A n, leaves : Among(n, leaves)' = Among(n, leaves)
  BY <1>2 DEF Among
<1>4. \A n, leaves : Hit(n, leaves)' = Hit(n, leaves)
  BY <1>2, <1>3 DEF Hit
<1>5. \A n : Quotes(n)' = Quotes(n)
  BY <1>2, <1>3 DEF Quotes
<1>6. VolumeOf' = VolumeOf
  BY <1>1 DEF VolumeOf, Order_
<1>. QED  BY <1>1, <1>4, <1>5, <1>6

LEMMA NothingHit ==
  /\ \A leaves : Hit(0, leaves) = {} /\ Quotes(0) = {}
  /\ IsFiniteSet({}) /\ Cardinality({}) = 0
<1>1. \A leaves : Among(0, leaves) = {}
  BY DEF Among
<1>. QED  BY <1>1, FS_EmptySet DEF Hit, Quotes

\* As long as no match is diffed there is nothing to show.
Nothing ==
  /\ Diffed = 0
  /\ analysis["noQuoteAll"] = 0 /\ analysis["flips"] = 0 /\ analysis["degradedAll"] = 0
  /\ analysis["degradedVolumeAll"] = 0 /\ analysis["degraded"] = 0

LEMMA NothingDiffed == Nothing => HitInv /\ QuotesInv
<1>. SUFFICES ASSUME Nothing PROVE HitInv /\ QuotesInv
  OBVIOUS
<1>. USE DEF Nothing
<1>1. /\ Hit(Diffed, Moved) = {} /\ Hit(Diffed, {"degraded"}) = {} /\ Quotes(Diffed) = {}
      /\ IsFiniteSet({}) /\ Cardinality({}) = 0
  BY NothingHit
<1>2. SumFunctionOnSet(VolumeOf, {}) = 0
  BY SumOfNone
<1>3. 0 \in 0..(0 + 0)
  OBVIOUS
<1>. QED  BY <1>1, <1>2, <1>3 DEF HitInv, QuotesInv

LEMMA NothingDiffedAfter == Nothing' => HitInv' /\ QuotesInv'
BY NothingDiffed, PTL

LEMMA ZeroTallies ==
  ASSUME NEW f, f = [c \in Counter |-> 0]
  PROVE  /\ f \in [Counter -> Nat]
         /\ \A c \in {"wins", "unrecorded", "unpriced", "nonpositive", "suspect", "implausible",
                      "noQuoteAll", "flips", "degradedAll", "degradedVolumeAll", "degraded",
                      "noQuote", "winsCorroborated"} : f[c] = 0
BY DEF Counter

LEMMA AnalysisInit == Init => AnalysisInv
<1>. SUFFICES ASSUME Init PROVE AnalysisInv
  OBVIOUS
<1>1. pc = "populate" /\ analysis = [c \in Counter |-> 0]
  BY DEF Init
<1>2. TalliesInv
  BY <1>1, ZeroTallies DEF TalliesInv
<1>3. HitInv /\ QuotesInv
  BY <1>1, ZeroTallies, NothingDiffed DEF Diffed, Nothing
<1>. QED  BY <1>1, <1>2, <1>3 DEF AnalysisInv, LeftInv

\* Nothing is analysed before the loop starts, and afterwards nothing changes.
LEMMA AnalysisWaits ==
  ASSUME AnalysisInv, pc # "analyse", pc' # "analyse", analysis' = analysis
  PROVE  AnalysisInv'
<1>1. analysis' = [c \in Counter |-> 0]
  BY DEF AnalysisInv, TalliesInv
<1>2. TalliesInv'
  BY <1>1, ZeroTallies DEF TalliesInv
<1>3. HitInv' /\ QuotesInv'
  BY <1>1, ZeroTallies, NothingDiffedAfter DEF Diffed, Nothing
<1>. QED  BY <1>2, <1>3 DEF AnalysisInv, LeftInv

LEMMA AnalysisRests ==
  ASSUME AnalysisInv, UNCHANGED vars
  PROVE  AnalysisInv'
<1>1. /\ \A n, leaves : Hit(n, leaves)' = Hit(n, leaves)
      /\ \A n : Quotes(n)' = Quotes(n)
      /\ Clean' = Clean /\ VolumeOf' = VolumeOf
  BY SameDiffs DEF vars
<1>2. Diffed' = Diffed /\ analysis' = analysis /\ pc' = pc /\ todo' = todo
      /\ matches' = matches /\ removed' = removed
  BY DEF vars, Diffed
<1>. QED  BY <1>1, <1>2 DEF AnalysisInv, LeftInv, TalliesInv, HitInv, QuotesInv

LEMMA StartAnalysisStep ==
  ASSUME PopulationInv, LinkInv, AnalysisInv, StartAnalysis
  PROVE  AnalysisInv'
<1>1. /\ pc = "validate" /\ pc' = "analyse" /\ UNCHANGED <<window, population, matches>>
      /\ analysis' = [analysis EXCEPT !["orders"] = Cardinality(Clean),
                                      !["volume"] = SumFunction(VolumeOf)]
      /\ todo' = IF removed' = {} THEN <<>> ELSE [i \in DOMAIN matches |-> i]
  BY DEF StartAnalysis, linked, VolumeOf
<1>2. analysis = [c \in Counter |-> 0]
  BY <1>1 DEF AnalysisInv, TalliesInv
<1>3. Clean' = Clean /\ VolumeOf' = VolumeOf
  BY <1>1 DEF Clean, Suspects, VolumeOf, Order_
<1>4. Cardinality(Clean) \in Nat /\ SumFunction(VolumeOf) \in Nat
  <2>1. IsFiniteSet(Clean) /\ VolumeOf \in [Clean -> Nat]
    BY <1>1, VolumesAre
  <2>2. DOMAIN VolumeOf = Clean /\ \A n \in Clean : VolumeOf[n] \in Nat
    BY <2>1
  <2>3. SumFunctionOnSet(VolumeOf, Clean) \in Nat
    BY <2>1, <2>2, SumNat
  <2>. QED  BY <2>1, <2>2, <2>3, FS_CardinalityType DEF SumFunction
<1>5. /\ analysis' \in [Counter -> Nat]
      /\ analysis'["orders"] = Cardinality(Clean) /\ analysis'["volume"] = SumFunction(VolumeOf)
      /\ \A c \in {"wins", "unrecorded", "unpriced", "nonpositive", "suspect", "implausible",
                   "noQuoteAll", "flips", "degradedAll", "degradedVolumeAll", "degraded",
                   "noQuote", "winsCorroborated"} : analysis'[c] = 0
  BY <1>1, <1>2, <1>4 DEF Counter
<1>6. /\ Len(matches) \in Nat /\ DOMAIN matches = 1..Len(matches)
  BY ListIs DEF LinkInv, MatchInv
<1>7. /\ IsList(todo') /\ Len(todo') <= Len(matches')
      /\ removed' = {} => todo' = <<>>
      /\ removed' # {} => Len(todo') = Len(matches)
      /\ \A k \in DOMAIN todo' : todo'[k] = Len(matches') - Len(todo') + k
  <2>1. CASE removed' = {}
    <3>1. todo' = <<>> /\ Len(todo') = 0 /\ DOMAIN todo' = {}
      BY <1>1, <2>1
    <3>2. IsList(todo')
      BY <3>1, NoneLinked
    <3>3. Len(matches') \in Nat
      BY <1>1, <1>6
    <3>. QED  BY <2>1, <3>1, <3>2, <3>3
  <2>2. CASE removed' # {}
    <3>1. todo' = [i \in 1..Len(matches) |-> i] /\ todo' \in Seq(Nat)
      BY <1>1, <1>6, <2>2
    <3>2. IsList(todo') /\ Len(todo') = Len(matches)
      BY <1>6, <3>1, SeqIsList
    <3>. QED  BY <1>1, <1>6, <2>2, <3>1, <3>2
  <2>. QED  BY <2>1, <2>2
<1>8. LeftInv'
  BY <1>7 DEF LeftInv
<1>9. TalliesInv'
  <2>1. \A c \in {"wins", "unrecorded", "unpriced", "nonpositive", "suspect", "implausible",
                  "noQuoteAll", "flips", "degradedAll", "degraded", "noQuote",
                  "winsCorroborated"} : analysis'[c] = 0
    BY <1>5
  <2>2. /\ analysis'["orders"] = Cardinality(Clean') /\ analysis'["volume"] = SumFunction(VolumeOf')
        /\ pc' = "analyse" /\ analysis' \in [Counter -> Nat]
    BY <1>1, <1>3, <1>5
  <2>. QED  BY <2>1, <2>2 DEF TalliesInv
<1>10. HitInv' /\ QuotesInv'
  <2>1. Diffed' = 0
    BY <1>1, <1>6, <1>7 DEF Diffed
  <2>. QED  BY <1>5, <2>1, NothingDiffedAfter DEF Nothing
<1>. QED  BY <1>8, <1>9, <1>10 DEF AnalysisInv

\* The leaves of one match add up like the counters.
LEMMA LeavesAdd ==
  ASSUME NEW leaf \in Leaves, NEW sure
  PROVE  /\ One(leaf # "unaffected")
              = One(leaf = "unrecorded") + One(leaf = "unpriced") + One(leaf = "nonpositive")
                  + One(leaf = "price_suspect") + One(leaf = "implausible")
                  + One(leaf = "no_quote") + One(leaf = "class_flip") + One(leaf = "degraded")
         /\ One(leaf = "no_quote" /\ sure) + One(leaf = "degraded" /\ sure)
              <= One(leaf # "unaffected" /\ sure)
         /\ One(leaf = "no_quote") + One(leaf = "class_flip") + One(leaf = "degraded")
              = One(leaf \in Moved)
         /\ One(leaf = "degraded" /\ sure) <= One(leaf \in Charged /\ sure)
         /\ One(leaf \in Charged /\ sure) <= One(leaf = "degraded" /\ sure) + One(leaf = "class_flip")
BY DEF One, Leaves, Moved, Charged

LEMMA AddStep ==
  ASSUME PopulationInv, LinkInv, AnalysisInv, Add
  PROVE  AnalysisInv'
<1>. DEFINE n == Diffed
            match == matches[n + 1]
            added == Added(match, DiffOf(match))
            leaf == LeafOf(match)
            order == match.order
<1>1. /\ pc = "analyse" /\ pc' = pc /\ todo # <<>> /\ todo' = Tail(todo)
      /\ UNCHANGED <<window, population, matches, removed>>
  BY DEF Add, linked
<1>2. /\ Len(matches) \in Nat /\ DOMAIN matches = 1..Len(matches)
      /\ IsList(matches) /\ Once(matches)
  BY ListIs DEF LinkInv, MatchInv
<1>3. /\ IsList(todo) /\ Len(todo) <= Len(matches) /\ removed # {}
      /\ \A k \in DOMAIN todo : todo[k] = Len(matches) - Len(todo) + k
      /\ Len(todo) \in Nat \ {0} /\ DOMAIN todo = 1..Len(todo)
  <2>1. /\ IsList(todo) /\ Len(todo) <= Len(matches) /\ removed # {}
        /\ \A k \in DOMAIN todo : todo[k] = Len(matches) - Len(todo) + k
    BY <1>1 DEF AnalysisInv, LeftInv
  <2>2. Len(todo) \in Nat \ {0}
    BY <1>1, <2>1 DEF IsList
  <2>. QED  BY <2>1, <2>2, ListIs
<1>4. n = Len(matches) - Len(todo) /\ n \in Nat /\ n + 1 \in DOMAIN matches
  <2>1. n = Len(matches) - Len(todo)
    BY <1>1, <1>3 DEF Diffed
  <2>. HIDE DEF n
  <2>. QED  BY <1>2, <1>3, <2>1
<1>5. /\ IsList(todo') /\ Len(todo) = Len(todo') + 1 /\ Len(todo') \in Nat
      /\ \A k \in DOMAIN todo' : todo'[k] = Len(matches') - Len(todo') + k
  <2>1. IsInjective(todo)
    BY <1>2, <1>3 DEF IsInjective
  <2>2. /\ IsList(todo') /\ Len(todo) = Len(todo') + 1 /\ Len(todo') \in Nat
        /\ \A i \in 1..Len(todo') : todo'[i] = todo[i + 1]
    BY <1>1, <1>3, <2>1, TakenFrom
  <2>3. DOMAIN todo' = 1..Len(todo')
    BY <2>2, ListIs
  <2>. QED  BY <1>1, <1>2, <1>3, <2>2, <2>3
<1>6. LeftInv' /\ Diffed' = n + 1
  BY <1>1, <1>2, <1>3, <1>4, <1>5 DEF LeftInv, Diffed
<1>7. Head(todo) = n + 1 /\ Match = match
  <2>1. Head(todo) = todo[1] /\ 1 \in DOMAIN todo
    BY <1>3 DEF IsList
  <2>. QED  BY <1>3, <1>4, <2>1 DEF Match
<1>8. analysis' = [c \in Counter |-> analysis[c] + added[c]]
  BY <1>7 DEF Add
<1>9. /\ IsFiniteSet(Clean) /\ VolumeOf \in [Clean -> Nat]
      /\ Hit(n, Moved) \subseteq Clean /\ Hit(n, {"degraded"}) \subseteq Clean
  <2>1. n <= Len(matches)
    BY <1>2, <1>3, <1>4
  <2>. QED  BY <1>1, <1>4, <2>1, VolumesAre, HitsInClean DEF Moved
<1>. HIDE DEF n
<1>10. Volume(Order_(order)) \in Nat
  <2>1. order \in population /\ population \subseteq All
    BY <1>1, <1>4, OrdersAre DEF LinkInv, MatchInv
  <2>2. Order_(order) \in Order
    BY <2>1, TablesAre DEF PopulationInv
  <2>. QED  BY <2>2 DEF Volume, Order
<1>11. leaf \in Leaves
  BY LeafIs
<1>12. LET diff == DiffOf(match)
       IN  /\ added \in [Counter -> Nat]
           /\ added["orders"] = 0 /\ added["volume"] = 0
           /\ added["wins"] = One(leaf # "unaffected")
           /\ added["winsCorroborated"] = One(leaf # "unaffected" /\ Sure(match))
           /\ added["unrecorded"] = One(leaf = "unrecorded")
           /\ added["unpriced"] = One(leaf = "unpriced")
           /\ added["nonpositive"] = One(leaf = "nonpositive")
           /\ added["suspect"] = One(leaf = "price_suspect")
           /\ added["implausible"] = One(leaf = "implausible")
           /\ added["noQuoteAll"] = One(leaf = "no_quote")
           /\ added["flips"] = One(leaf = "class_flip")
           /\ added["degradedAll"] = One(leaf = "degraded")
           /\ added["noQuote"] = One(leaf = "no_quote" /\ Sure(match))
           /\ added["degraded"] = One(leaf = "degraded" /\ Sure(match))
           /\ added["degradedVolumeAll"] = IF leaf = "degraded" THEN Volume(Order_(order)) ELSE 0
  BY <1>10, AddedIs DEF LeafOf
<1>13. analysis \in [Counter -> Nat]
  BY DEF AnalysisInv, TalliesInv
<1>14. /\ Clean' = Clean /\ VolumeOf' = VolumeOf
       /\ \A m, leaves : Hit(m, leaves)' = Hit(m, leaves)
       /\ \A m : Quotes(m)' = Quotes(m)
  BY <1>1, SameDiffs
<1>. HIDE DEF added, leaf, match
<1>15. /\ analysis' \in [Counter -> Nat]
       /\ \A c \in Counter : analysis'[c] = analysis[c] + added[c]
  BY <1>8, <1>12, <1>13
<1>16. /\ One(leaf # "unaffected")
            = One(leaf = "unrecorded") + One(leaf = "unpriced") + One(leaf = "nonpositive")
                + One(leaf = "price_suspect") + One(leaf = "implausible")
                + One(leaf = "no_quote") + One(leaf = "class_flip") + One(leaf = "degraded")
       /\ One(leaf = "no_quote" /\ Sure(match)) + One(leaf = "degraded" /\ Sure(match))
            <= One(leaf # "unaffected" /\ Sure(match))
       /\ One(leaf = "no_quote") + One(leaf = "class_flip") + One(leaf = "degraded")
            = One(leaf \in Moved)
       /\ One(leaf = "degraded" /\ Sure(match)) <= One(leaf \in Charged /\ Sure(match))
       /\ One(leaf \in Charged /\ Sure(match))
            <= One(leaf = "degraded" /\ Sure(match)) + One(leaf = "class_flip")
  BY <1>11, LeavesAdd
<1>17. \A c \in {"orders", "volume", "wins", "unrecorded", "unpriced", "nonpositive", "suspect",
                 "implausible", "noQuoteAll", "flips", "degradedAll", "degradedVolumeAll",
                 "degraded", "noQuote", "winsCorroborated"} :
         /\ analysis[c] \in Nat /\ added[c] \in Nat
         /\ analysis'[c] = analysis[c] + added[c]
  BY <1>12, <1>13, <1>15 DEF Counter
<1>18. /\ added["wins"] = added["unrecorded"] + added["unpriced"] + added["nonpositive"]
                            + added["suspect"] + added["implausible"] + added["noQuoteAll"]
                            + added["flips"] + added["degradedAll"]
       /\ added["noQuote"] + added["degraded"] <= added["winsCorroborated"]
       /\ added["noQuoteAll"] + added["flips"] + added["degradedAll"] = One(leaf \in Moved)
       /\ added["degraded"] <= One(leaf \in Charged /\ Sure(match))
       /\ One(leaf \in Charged /\ Sure(match)) <= added["degraded"] + added["flips"]
  BY <1>12, <1>16
<1>19. TalliesInv'
  <2>1. /\ analysis["wins"] = analysis["unrecorded"] + analysis["unpriced"]
                                + analysis["nonpositive"] + analysis["suspect"]
                                + analysis["implausible"] + analysis["noQuoteAll"]
                                + analysis["flips"] + analysis["degradedAll"]
        /\ analysis["noQuote"] + analysis["degraded"] <= analysis["winsCorroborated"]
        /\ analysis["orders"] = Cardinality(Clean) /\ analysis["volume"] = SumFunction(VolumeOf)
    BY <1>1 DEF AnalysisInv, TalliesInv
  <2>2. analysis'["wins"] = analysis'["unrecorded"] + analysis'["unpriced"]
                              + analysis'["nonpositive"] + analysis'["suspect"]
                              + analysis'["implausible"] + analysis'["noQuoteAll"]
                              + analysis'["flips"] + analysis'["degradedAll"]
    BY <1>17, <1>18, <2>1
  <2>3. analysis'["noQuote"] + analysis'["degraded"] <= analysis'["winsCorroborated"]
    BY <1>17, <1>18, <2>1
  <2>4. /\ analysis'["orders"] = Cardinality(Clean')
        /\ analysis'["volume"] = SumFunction(VolumeOf')
    <3>1. analysis'["orders"] = analysis["orders"] /\ analysis'["volume"] = analysis["volume"]
      BY <1>12, <1>17
    <3>. QED  BY <1>14, <2>1, <3>1
  <2>. QED  BY <1>1, <1>15, <2>2, <2>3, <2>4 DEF TalliesInv
<1>20. /\ \A leaves :
            /\ order \notin Hit(n, leaves)
            /\ Hit(n + 1, leaves) = Hit(n, leaves) \cup IF leaf \in leaves THEN {order} ELSE {}
       /\ <<order, DiffOf(match).quote>> \notin Quotes(n)
       /\ Quotes(n + 1) = Quotes(n) \cup IF leaf \in Charged /\ Sure(match)
                                         THEN {<<order, DiffOf(match).quote>>} ELSE {}
  BY <1>2, <1>4, HitGrows DEF leaf, match
<1>21. leaf \in Moved \cup Charged => order \in Clean
  BY <1>1, <1>4, HitsAreClean DEF leaf, match
<1>22. HitInv'
  <2>. DEFINE hit == Hit(n, Moved)
              degraded == Hit(n, {"degraded"})
  <2>1. /\ IsFiniteSet(hit) /\ IsFiniteSet(degraded)
        /\ Cardinality(hit) = analysis["noQuoteAll"] + analysis["flips"] + analysis["degradedAll"]
        /\ analysis["degradedVolumeAll"] = SumFunctionOnSet(VolumeOf, degraded)
    BY DEF AnalysisInv, HitInv, n
  <2>2. /\ Hit(n + 1, Moved) = hit \cup IF leaf \in Moved THEN {order} ELSE {}
        /\ Hit(n + 1, {"degraded"}) = degraded \cup IF leaf = "degraded" THEN {order} ELSE {}
        /\ order \notin hit /\ order \notin degraded
    BY <1>20
  <2>. HIDE DEF hit, degraded
  <2>3. /\ IsFiniteSet(Hit(n + 1, Moved))
        /\ Cardinality(Hit(n + 1, Moved)) = Cardinality(hit) + One(leaf \in Moved)
    <3>1. CASE leaf \in Moved
      BY <2>1, <2>2, <3>1, FS_AddElement DEF One
    <3>2. CASE leaf \notin Moved
      <4>1. Hit(n + 1, Moved) = hit /\ Cardinality(hit) \in Nat
        BY <2>1, <2>2, <3>2, FS_CardinalityType
      <4>. QED  BY <2>1, <3>2, <4>1 DEF One
    <3>. QED  BY <3>1, <3>2
  <2>4. Cardinality(Hit(n + 1, Moved))
          = analysis'["noQuoteAll"] + analysis'["flips"] + analysis'["degradedAll"]
    BY <1>17, <1>18, <2>1, <2>3
  <2>5. /\ IsFiniteSet(Hit(n + 1, {"degraded"}))
        /\ analysis'["degradedVolumeAll"] = SumFunctionOnSet(VolumeOf, Hit(n + 1, {"degraded"}))
    <3>1. CASE leaf = "degraded"
      <4>1. order \in Clean
        BY <1>21, <3>1 DEF Charged
      <4>2. VolumeOf[order] = Volume(Order_(order))
        BY <4>1 DEF VolumeOf
      <4>3. \A y \in degraded \cup {order} : VolumeOf[y] \in Int
        BY <1>9, <4>1 DEF degraded
      <4>4. /\ IsFiniteSet(degraded \cup {order})
            /\ SumFunctionOnSet(VolumeOf, degraded \cup {order})
                 = SumFunctionOnSet(VolumeOf, degraded) + VolumeOf[order]
        BY <2>1, <2>2, <4>3, SumPlus
      <4>5. analysis'["degradedVolumeAll"] = analysis["degradedVolumeAll"] + VolumeOf[order]
        BY <1>12, <1>17, <3>1, <4>2
      <4>. QED  BY <2>1, <2>2, <3>1, <4>4, <4>5
    <3>2. CASE leaf # "degraded"
      <4>1. analysis'["degradedVolumeAll"] = analysis["degradedVolumeAll"]
        BY <1>12, <1>17, <3>2
      <4>. QED  BY <2>1, <2>2, <3>2, <4>1
    <3>. QED  BY <3>1, <3>2
  <2>. QED  BY <1>6, <1>14, <2>3, <2>4, <2>5 DEF HitInv
<1>23. QuotesInv'
  <2>. DEFINE old == Quotes(n)
              pair == <<order, DiffOf(match).quote>>
              due == leaf \in Charged /\ Sure(match)
  <2>1. /\ IsFiniteSet(old)
        /\ Cardinality(old) \in analysis["degraded"] .. analysis["degraded"] + analysis["flips"]
    BY DEF AnalysisInv, QuotesInv, n
  <2>2. pair \notin old /\ Quotes(n + 1) = old \cup IF due THEN {pair} ELSE {}
    BY <1>20
  <2>. HIDE DEF old, pair
  <2>3. IsFiniteSet(Quotes(n + 1)) /\ Cardinality(Quotes(n + 1)) = Cardinality(old) + One(due)
    <3>1. CASE due
      BY <2>1, <2>2, <3>1, FS_AddElement DEF One
    <3>2. CASE ~due
      <4>1. Quotes(n + 1) = old /\ Cardinality(old) \in Nat
        BY <2>1, <2>2, <3>2, FS_CardinalityType
      <4>. QED  BY <2>1, <3>2, <4>1 DEF One
    <3>. QED  BY <3>1, <3>2
  <2>4. One(due) \in Nat /\ added["degraded"] <= One(due)
        /\ One(due) <= added["degraded"] + added["flips"]
    BY <1>18 DEF One
  <2>. HIDE DEF due
  <2>5. Cardinality(Quotes(n + 1))
          \in analysis'["degraded"] .. analysis'["degraded"] + analysis'["flips"]
    BY <1>17, <2>1, <2>3, <2>4
  <2>. QED  BY <1>6, <1>14, <2>3, <2>5 DEF QuotesInv
<1>. QED  BY <1>6, <1>19, <1>22, <1>23 DEF AnalysisInv

LEMMA AnalysisInductive == Spec => [](PopulationInv /\ LinkInv /\ AnalysisInv)
<1>1. Init => AnalysisInv
  BY AnalysisInit
<1>2. PopulationInv /\ LinkInv /\ AnalysisInv /\ [Next]_vars => AnalysisInv'
  <2>. SUFFICES ASSUME PopulationInv, LinkInv, AnalysisInv, [Next]_vars PROVE AnalysisInv'
    OBVIOUS
  <2>1. CASE Populate \/ Fetch \/ StartHeuristic \/ MatchHeuristic \/ StartById
    BY <2>1, AnalysisWaits DEF Populate, Fetch, StartHeuristic, MatchHeuristic, StartById, analysed
  <2>2. CASE MatchById \/ DeferToRequote \/ StartRequotes \/ LinkRequote \/ LeaveUnlinked
    BY <2>2, AnalysisWaits
       DEF MatchById, DeferToRequote, StartRequotes, LinkRequote, LeaveUnlinked, analysed
  <2>3. CASE StartValidation \/ Validate
    BY <2>3, AnalysisWaits DEF StartValidation, Validate, analysed
  <2>4. CASE StartAnalysis
    BY <2>4, StartAnalysisStep
  <2>5. CASE Add
    BY <2>5, AddStep
  <2>6. CASE Returned \/ UNCHANGED vars
    BY <2>6, AnalysisRests DEF Returned
  <2>. QED  BY <2>1, <2>2, <2>3, <2>4, <2>5, <2>6 DEF Next
<1>. QED  BY <1>1, <1>2, LinkInductive, PTL DEF Spec

\* The leaves partition the quote wins, and what a share counts is within what it is a
\* share of: an order with a broken price is on neither side (QuoteAnalysis.add,
\* clean_orders).
THEOREM SharesStayShares == Spec => []SharesAreShares
<1>1. PopulationInv /\ LinkInv /\ AnalysisInv => SharesAreShares
  <2>. SUFFICES ASSUME PopulationInv, LinkInv, AnalysisInv PROVE SharesAreShares
    OBVIOUS
  <2>1. analysis["wins"] = SumFunctionOnSet(analysis, LeafCounters)
    BY LeafSum DEF AnalysisInv, TalliesInv
  <2>2. analysis["noQuote"] + analysis["degraded"] <= analysis["winsCorroborated"]
    BY DEF AnalysisInv, TalliesInv
  <2>3. /\ analysis["noQuoteAll"] + analysis["flips"] + analysis["degradedAll"]
             <= analysis["orders"]
        /\ analysis["degradedVolumeAll"] <= analysis["volume"]
    <3>1. CASE pc # "analyse"
      <4>1. analysis = [c \in Counter |-> 0]
        BY <3>1 DEF AnalysisInv, TalliesInv
      <4>. QED  BY <4>1 DEF Counter
    <3>2. CASE pc = "analyse"
      <4>. DEFINE hit == Hit(Diffed, Moved)
                  degraded == Hit(Diffed, {"degraded"})
      <4>1. /\ DOMAIN matches = 1..Len(matches) /\ Len(matches) \in Nat
            /\ Diffed \in Nat /\ Diffed <= Len(matches)
        <5>1. DOMAIN matches = 1..Len(matches) /\ Len(matches) \in Nat
          BY ListIs DEF LinkInv, MatchInv
        <5>2. Len(todo) \in Nat /\ Len(todo) <= Len(matches)
          BY <3>2, ListIs DEF AnalysisInv, LeftInv
        <5>. QED  BY <5>1, <5>2 DEF Diffed
      <4>2. /\ hit \subseteq Clean /\ degraded \subseteq Clean
            /\ IsFiniteSet(Clean) /\ VolumeOf \in [Clean -> Nat]
        BY <3>2, <4>1, HitsInClean, VolumesAre DEF Moved
      <4>3. /\ Cardinality(hit)
                 = analysis["noQuoteAll"] + analysis["flips"] + analysis["degradedAll"]
            /\ analysis["degradedVolumeAll"] = SumFunctionOnSet(VolumeOf, degraded)
            /\ analysis["orders"] = Cardinality(Clean)
            /\ analysis["volume"] = SumFunction(VolumeOf)
        BY <3>2 DEF AnalysisInv, HitInv, TalliesInv
      <4>. HIDE DEF hit, degraded
      <4>4. Cardinality(hit) <= Cardinality(Clean)
        BY <4>2, FS_Subset
      <4>5. SumFunctionOnSet(VolumeOf, degraded) <= SumFunction(VolumeOf)
        <5>1. DOMAIN VolumeOf = Clean /\ \A n \in Clean : VolumeOf[n] \in Nat
          BY <4>2
        <5>2. SumFunctionOnSet(VolumeOf, degraded) <= SumFunctionOnSet(VolumeOf, Clean)
          BY <4>2, <5>1, SumOfPart
        <5>. QED  BY <5>1, <5>2 DEF SumFunction
      <4>. QED  BY <4>3, <4>4, <4>5
    <3>. QED  BY <3>1, <3>2
  <2>. QED  BY <2>1, <2>2, <2>3 DEF SharesAreShares
<1>. QED  BY <1>1, AnalysisInductive, PTL

\* The fee path gets at most one quote per order, for clean and corroborated orders only:
\* exactly those of the headline and of the class flips (counterfactual_quotes).
THEOREM OrdersAreChargedOnce == Spec => []ChargedOnce
<1>1. PopulationInv /\ LinkInv /\ AnalysisInv => ChargedOnce
  <2>. SUFFICES ASSUME PopulationInv, LinkInv, AnalysisInv, Done PROVE ChargedOnce
    BY DEF ChargedOnce
  <2>1. pc = "analyse" /\ todo = <<>>
    BY DEF Done
  <2>2. /\ DOMAIN matches = 1..Len(matches) /\ Len(matches) \in Nat /\ Once(matches)
    BY ListIs DEF LinkInv, MatchInv
  <2>. DEFINE charged(k) == LeafOf(matches[k]) \in Charged /\ Sure(matches[k])
              pair(k) == <<matches[k].order, DiffOf(matches[k]).quote>>
  <2>3. \A x : x \in CounterfactualQuotes <=> \E k \in DOMAIN matches : charged(k) /\ x = pair(k)
    <3>1. \A m : m \in ToSet(matches) <=> \E k \in DOMAIN matches : m = matches[k]
      BY DEF ToSet
    <3>2. \A m : DiffOf(m).quote # <<>> <=> LeafOf(m) \in Charged
      BY LeafIs
    <3>3. \A x : x \in CounterfactualQuotes
                   <=> \E m \in ToSet(matches) : /\ LeafOf(m) \in Charged /\ Sure(m)
                                                 /\ x = <<m.order, DiffOf(m).quote>>
      BY <3>2 DEF CounterfactualQuotes, Sure
    <3>. QED  BY <3>1, <3>3
  <2>4. CounterfactualQuotes = Quotes(Diffed)
    <3>1. CASE removed = {}
      <4>1. \A k : ~charged(k)
        BY <3>1, LeafIs DEF Charged
      <4>2. CounterfactualQuotes = {}
        BY <2>3, <4>1
      <4>. QED  BY <3>1, <4>2, NothingHit DEF Diffed
    <3>2. CASE removed # {}
      <4>1. Diffed = Len(matches)
        BY <2>1, <2>2, <3>2 DEF Diffed
      <4>2. \A x : x \in Quotes(Diffed) <=> \E k \in DOMAIN matches : charged(k) /\ x = pair(k)
        BY <2>2, <4>1 DEF Quotes, Among
      <4>. QED  BY <2>3, <4>2
    <3>. QED  BY <3>1, <3>2
  <2>5. Cardinality(CounterfactualQuotes)
          \in analysis["degraded"] .. analysis["degraded"] + analysis["flips"]
    BY <2>4 DEF AnalysisInv, QuotesInv
  <2>6. \A x, y \in CounterfactualQuotes : x[1] = y[1] => x = y
    BY <2>2, <2>3 DEF Once
  <2>7. {x[1] : x \in CounterfactualQuotes} \subseteq Clean
    BY <2>1, <2>3, HitsAreClean
  <2>. QED  BY <2>5, <2>6, <2>7 DEF ChargedOnce
<1>. QED  BY <1>1, AnalysisInductive, PTL

----------------------------------------------------------------------------
(* The ladders *)

\* A stable sort by arrival loses nothing and repeats nothing.
LEMMA SortedIs ==
  ASSUME NEW E, IsFiniteSet(E), \A e \in E : e.row.seq \in Nat /\ e.nth \in Nat,
         \A d, e \in E : d.row.who = e.row.who => d = e
  PROVE  LET rows == Sorted(E)
         IN  /\ DOMAIN rows = 1..Len(rows) /\ Len(rows) \in Nat
             /\ ToSet(rows) = {e.row : e \in E}
             /\ \A i, k \in DOMAIN rows : rows[i].who = rows[k].who => i = k
             /\ \A i, k \in DOMAIN rows : i < k => rows[i].seq <= rows[k].seq
             /\ rows = [i \in 1..Len(rows) |-> rows[i]]
<1>. DEFINE before == {pair \in E \X E : Earlier(pair[1], pair[2])}
            list == Arranged(E, before)
            rows == Sorted(E)
            n == Len(list)
<1>1. \A d, e \in E : <<d, e>> \in before <=> Earlier(d, e)
  OBVIOUS
<1>. HIDE DEF before
<1>2. IsRanking(before, E)
  <2>1. ASSUME NEW x \in E, NEW y \in E, NEW z \in E
        PROVE  /\ Earlier(x, y) => ~Earlier(y, x)
               /\ Earlier(x, z) => Earlier(x, y) \/ Earlier(y, z)
    <3>1. /\ x.row.seq \in Nat /\ x.nth \in Nat /\ y.row.seq \in Nat /\ y.nth \in Nat
          /\ z.row.seq \in Nat /\ z.nth \in Nat
      OBVIOUS
    <3>. QED  BY <3>1 DEF Earlier
  <2>. QED  BY <1>1, <2>1 DEF IsRanking
<1>3. /\ list \in Seq(E) /\ DOMAIN list = 1..Len(list) /\ ToSet(list) = E /\ IsInjective(list)
      /\ \A i, k \in DOMAIN list : i < k => <<list[k], list[i]>> \notin before
  BY <1>2, ArrangedList
<1>4. rows = [i \in DOMAIN list |-> list[i].row]
  BY DEF Sorted, before
<1>5. n \in Nat
  BY <1>3
<1>. HIDE DEF list, rows, n
<1>6. rows = [i \in 1..n |-> list[i].row]
  BY <1>3, <1>4 DEF n
<1>7. DOMAIN rows = 1..n /\ Len(rows) = n /\ rows = [i \in 1..n |-> rows[i]]
  BY <1>5, <1>6
<1>8. \A i \in 1..n : list[i] \in E /\ rows[i] = list[i].row
  BY <1>3, <1>6 DEF n
<1>9. ToSet(rows) = {e.row : e \in E}
  <2>1. \A x : x \in ToSet(rows) <=> \E i \in 1..n : x = rows[i]
    BY <1>7 DEF ToSet
  <2>2. \A e : e \in E <=> \E i \in 1..n : e = list[i]
    BY <1>3 DEF ToSet, n
  <2>3. \A x : x \in ToSet(rows) <=> \E e \in E : x = e.row
    BY <1>8, <2>1, <2>2
  <2>. QED  BY <2>3
<1>10. \A i, k \in 1..n : rows[i].who = rows[k].who => i = k
  <2>1. \A i, k \in 1..n : list[i] = list[k] => i = k
    BY <1>3 DEF IsInjective, n
  <2>. QED  BY <1>8, <2>1
<1>11. ASSUME NEW i \in 1..n, NEW k \in 1..n, i < k
       PROVE  rows[i].seq <= rows[k].seq
  <2>1. ~Earlier(list[k], list[i])
    BY <1>1, <1>3, <1>8, <1>11 DEF n
  <2>2. /\ list[i].row.seq \in Nat /\ list[k].row.seq \in Nat
    BY <1>8
  <2>3. ~(list[k].row.seq < list[i].row.seq)
    BY <2>1 DEF Earlier
  <2>. QED  BY <1>8, <2>2, <2>3
<1>. QED  BY <1>5, <1>7, <1>9, <1>10, <1>11 DEF rows

(***************************************************************************)
(* The rows fetched so far are folded into one entry per request and         *)
(* estimator, the one that arrived first among them.                        *)
(***************************************************************************)
Recorded == {row \in window.rows : row.rid # 0}
Fetched == Recorded \ unread

LoadedInv ==
  /\ pc = "populate" => loaded = <<>>
  /\ pc # "populate" =>
       /\ unread \subseteq Recorded
       /\ FetchedAll => unread = {}
       /\ IsFiniteSet(DOMAIN loaded)
       /\ loaded \in [DOMAIN loaded -> [row : Row, nth : Nat]]
       /\ \A row \in Fetched : Slot(row) \in DOMAIN loaded
       /\ \A k \in DOMAIN loaded :
            /\ loaded[k].row \in Fetched /\ Slot(loaded[k].row) = k
            /\ \A row \in Fetched : Slot(row) = k => loaded[k].row.seq <= row.seq

LEMMA LoadedInit == Init => LoadedInv
BY DEF Init, LoadedInv

\* One more row, in either case of _keep_earliest.
LEMMA EarliestKept ==
  ASSUME NEW table, NEW rows, NEW row \in Row, rows \subseteq Row,
         IsFiniteSet(DOMAIN table), table \in [DOMAIN table -> [row : Row, nth : Nat]],
         \A r \in rows : Slot(r) \in DOMAIN table,
         \A k \in DOMAIN table :
           /\ table[k].row \in rows /\ Slot(table[k].row) = k
           /\ \A r \in rows : Slot(r) = k => table[k].row.seq <= r.seq
  PROVE  LET longer == KeepEarliest(table, row)
             more == rows \cup {row}
         IN  /\ IsFiniteSet(DOMAIN longer) /\ longer \in [DOMAIN longer -> [row : Row, nth : Nat]]
             /\ \A r \in more : Slot(r) \in DOMAIN longer
             /\ \A k \in DOMAIN longer :
                  /\ longer[k].row \in more /\ Slot(longer[k].row) = k
                  /\ \A r \in more : Slot(r) = k => longer[k].row.seq <= r.seq
<1>. DEFINE longer == KeepEarliest(table, row)
            more == rows \cup {row}
            slot == Slot(row)
<1>1. /\ row.seq \in Nat /\ \A r \in rows : r.seq \in Nat
      /\ \A k \in DOMAIN table : table[k].row.seq \in Nat
  BY DEF Row
<1>2. CASE slot \notin DOMAIN table
  <2>. DEFINE new == [row |-> row, nth |-> Cardinality(DOMAIN table) + 1]
  <2>1. longer = [k \in DOMAIN table \cup {slot} |-> IF k \in DOMAIN table THEN table[k] ELSE new]
    BY <1>2 DEF KeepEarliest
  <2>2. new \in [row : Row, nth : Nat] /\ new.row = row
    BY FS_CardinalityType
  <2>. HIDE DEF longer, new, slot
  <2>3. /\ DOMAIN longer = DOMAIN table \cup {slot}
        /\ \A k \in DOMAIN table : longer[k] = table[k]
        /\ longer[slot] = new
    BY <1>2, <2>1
  <2>4. IsFiniteSet(DOMAIN longer)
    BY <2>3, FS_AddElement
  <2>5. longer \in [DOMAIN longer -> [row : Row, nth : Nat]]
    BY <2>1, <2>2, <2>3
  <2>6. \A r \in more : Slot(r) \in DOMAIN longer
    BY <2>3 DEF slot
  <2>7. ASSUME NEW k \in DOMAIN table
        PROVE  /\ longer[k].row \in more /\ Slot(longer[k].row) = k
               /\ \A r \in more : Slot(r) = k => longer[k].row.seq <= r.seq
    BY <1>2, <2>3 DEF slot
  <2>8. /\ longer[slot].row \in more /\ Slot(longer[slot].row) = slot
        /\ \A r \in more : Slot(r) = slot => longer[slot].row.seq <= r.seq
    BY <1>1, <1>2, <2>2, <2>3 DEF slot
  <2>. QED  BY <2>3, <2>4, <2>5, <2>6, <2>7, <2>8 DEF longer
<1>3. CASE slot \in DOMAIN table /\ row.seq < table[slot].row.seq
  <2>1. longer = [table EXCEPT ![slot].row = row]
    BY <1>3 DEF KeepEarliest
  <2>2. table[slot] \in [row : Row, nth : Nat]
    BY <1>3
  <2>. HIDE DEF longer, slot
  <2>3. /\ DOMAIN longer = DOMAIN table
        /\ \A k \in DOMAIN table : k # slot => longer[k] = table[k]
        /\ longer[slot] = [table[slot] EXCEPT !.row = row]
    BY <1>3, <2>1
  <2>4. longer[slot] \in [row : Row, nth : Nat] /\ longer[slot].row = row
    BY <2>2, <2>3
  <2>5. longer \in [DOMAIN longer -> [row : Row, nth : Nat]]
    BY <2>1, <2>3, <2>4
  <2>6. \A r \in more : Slot(r) \in DOMAIN longer
    BY <1>3, <2>3 DEF slot
  <2>7. ASSUME NEW k \in DOMAIN table, k # slot
        PROVE  /\ longer[k].row \in more /\ Slot(longer[k].row) = k
               /\ \A r \in more : Slot(r) = k => longer[k].row.seq <= r.seq
    BY <2>3, <2>7 DEF slot
  <2>8. /\ longer[slot].row \in more /\ Slot(longer[slot].row) = slot
        /\ \A r \in more : Slot(r) = slot => longer[slot].row.seq <= r.seq
    <3>1. \A r \in rows : Slot(r) = slot => row.seq <= r.seq
      BY <1>1, <1>3
    <3>. QED  BY <1>1, <2>4, <3>1 DEF slot
  <2>. QED  BY <2>3, <2>5, <2>6, <2>7, <2>8 DEF longer
<1>4. CASE slot \in DOMAIN table /\ ~(row.seq < table[slot].row.seq)
  <2>1. longer = table
    BY <1>4 DEF KeepEarliest
  <2>2. \A k \in DOMAIN table : Slot(row) = k => table[k].row.seq <= row.seq
    BY <1>1, <1>4
  <2>. QED  BY <1>4, <2>1, <2>2
<1>. QED  BY <1>2, <1>3, <1>4

LEMMA LoadedStep == PopulationInv /\ LoadedInv /\ [Next]_vars => LoadedInv'
<1>. SUFFICES ASSUME PopulationInv, LoadedInv, [Next]_vars PROVE LoadedInv'
  OBVIOUS
<1>1. CASE Populate
  <2>1. /\ pc' = "fetch" /\ loaded' = <<>> /\ window' = window /\ unread' = Recorded
    BY <1>1 DEF Populate, LoadedInv, Recorded
  <2>2. Recorded' = Recorded /\ Fetched' = {} /\ ~FetchedAll'
    BY <2>1 DEF Recorded, Fetched, FetchedAll
  <2>3. DOMAIN loaded' = {} /\ IsFiniteSet({}) /\ loaded' \in [{} -> [row : Row, nth : Nat]]
    BY <2>1, FS_EmptySet
  <2>. QED  BY <2>1, <2>2, <2>3 DEF LoadedInv
<1>2. CASE Fetch
  <2>1. PICK row \in unread : unread' = unread \ {row} /\ loaded' = KeepEarliest(loaded, row)
    BY <1>2 DEF Fetch
  <2>2. pc = "fetch" /\ pc' = pc /\ window' = window
    BY <1>2 DEF Fetch
  <2>3. Recorded' = Recorded /\ unread \subseteq Recorded /\ Recorded \subseteq Row
    BY <2>2, TablesAre DEF Recorded, LoadedInv, PopulationInv, IsTables
  <2>4. Fetched' = Fetched \cup {row}
    BY <2>1, <2>3 DEF Fetched
  <2>5. /\ IsFiniteSet(DOMAIN loaded') /\ loaded' \in [DOMAIN loaded' -> [row : Row, nth : Nat]]
        /\ \A r \in Fetched' : Slot(r) \in DOMAIN loaded'
        /\ \A k \in DOMAIN loaded' :
             /\ loaded'[k].row \in Fetched' /\ Slot(loaded'[k].row) = k
             /\ \A r \in Fetched' : Slot(r) = k => loaded'[k].row.seq <= r.seq
    <3>1. Fetched \subseteq Row /\ row \in Row
      BY <2>3 DEF Fetched
    <3>2. /\ IsFiniteSet(DOMAIN loaded) /\ loaded \in [DOMAIN loaded -> [row : Row, nth : Nat]]
          /\ \A r \in Fetched : Slot(r) \in DOMAIN loaded
          /\ \A k \in DOMAIN loaded :
               /\ loaded[k].row \in Fetched /\ Slot(loaded[k].row) = k
               /\ \A r \in Fetched : Slot(r) = k => loaded[k].row.seq <= r.seq
      BY <2>2 DEF LoadedInv
    <3>. DEFINE longer == KeepEarliest(loaded, row)
                more == Fetched \cup {row}
    <3>3. /\ IsFiniteSet(DOMAIN longer) /\ longer \in [DOMAIN longer -> [row : Row, nth : Nat]]
          /\ \A r \in more : Slot(r) \in DOMAIN longer
          /\ \A k \in DOMAIN longer :
               /\ longer[k].row \in more /\ Slot(longer[k].row) = k
               /\ \A r \in more : Slot(r) = k => longer[k].row.seq <= r.seq
      BY <3>1, <3>2, EarliestKept
    <3>4. longer = loaded' /\ more = Fetched'
      BY <2>1, <2>4
    <3>. HIDE DEF longer, more
    <3>. QED  BY <3>3, <3>4
  <2>. QED  BY <2>1, <2>2, <2>3, <2>5 DEF LoadedInv, FetchedAll
<1>3. CASE StartHeuristic
  <2>1. /\ pc = "fetch" /\ pc' = "heuristic" /\ unread = {}
        /\ UNCHANGED <<window, unread, loaded>>
    BY <1>3 DEF StartHeuristic, read
  <2>2. Recorded' = Recorded /\ Fetched' = Fetched
    BY <2>1 DEF Recorded, Fetched
  <2>. QED  BY <2>1, <2>2 DEF LoadedInv
<1>4. ASSUME pc \notin {"populate", "fetch"}, pc' \notin {"populate", "fetch"},
             UNCHANGED <<window, unread, loaded>>
      PROVE  LoadedInv'
  <2>1. Recorded' = Recorded /\ Fetched' = Fetched
    BY <1>4 DEF Recorded, Fetched
  <2>. QED  BY <1>4, <2>1 DEF LoadedInv, FetchedAll
<1>5. CASE MatchHeuristic \/ StartById \/ MatchById \/ DeferToRequote \/ StartRequotes
  BY <1>4, <1>5 DEF MatchHeuristic, StartById, MatchById, DeferToRequote, StartRequotes, read
<1>6. CASE LinkRequote \/ LeaveUnlinked \/ StartValidation \/ Validate \/ StartAnalysis \/ Add
  BY <1>4, <1>6 DEF LinkRequote, LeaveUnlinked, StartValidation, Validate, StartAnalysis, Add, read
<1>7. CASE Returned \/ UNCHANGED vars
  BY <1>7 DEF Returned, vars, LoadedInv, FetchedAll, Recorded, Fetched
<1>. QED  BY <1>1, <1>2, <1>3, <1>5, <1>6, <1>7 DEF Next

LEMMA LoadedInductive == Spec => [](PopulationInv /\ LoadedInv)
BY PopulationInit, PopulationStep, LoadedInit, LoadedStep, PTL DEF Spec

\* One entry per request and estimator with its first row.
HoldsEarliest(table) ==
  /\ IsFiniteSet(DOMAIN table) /\ table \in [DOMAIN table -> [row : Row, nth : Nat]]
  /\ \A row \in Recorded : Slot(row) \in DOMAIN table
  /\ \A k \in DOMAIN table :
       /\ table[k].row \in Recorded /\ Slot(table[k].row) = k
       /\ \A row \in Recorded : Slot(row) = k => table[k].row.seq <= row.seq

\* The rows of a request are the first answers of its estimators, as they arrived.
LEMMA RowsOfAll ==
  ASSUME PopulationInv, NEW table, HoldsEarliest(table), NEW layer, NEW rid \in Nat \ {0}
  PROVE  LET rows == Rows(table, layer, rid)
             answers == {row \in window.rows : row.layer = layer /\ row.rid = rid}
         IN  /\ DOMAIN rows = 1..Len(rows) /\ Len(rows) \in Nat
             /\ ToSet(rows) = {row \in answers :
                                 \A x \in answers : x.who = row.who => row.seq <= x.seq}
             /\ \A i, k \in DOMAIN rows : rows[i].who = rows[k].who => i = k
             /\ \A i, k \in DOMAIN rows : i < k => rows[i].seq <= rows[k].seq
             /\ \A row \in answers : \E i \in DOMAIN rows : rows[i].who = row.who
             /\ rows = [i \in 1..Len(rows) |-> rows[i]]
<1>. DEFINE rows == Rows(table, layer, rid)
            answers == {row \in window.rows : row.layer = layer /\ row.rid = rid}
            K == {j \in DOMAIN table : j[1] = layer /\ j[2] = rid}
            E == {table[k] : k \in K}
<1>1. /\ window.rows \subseteq Row
      /\ \A x, y \in window.rows : Slot(x) = Slot(y) /\ x.seq = y.seq => x = y
  BY TablesAre DEF PopulationInv, IsTables
<1>2. /\ IsFiniteSet(DOMAIN table) /\ table \in [DOMAIN table -> [row : Row, nth : Nat]]
      /\ \A row \in Recorded : Slot(row) \in DOMAIN table
      /\ \A k \in DOMAIN table :
           /\ table[k].row \in Recorded /\ Slot(table[k].row) = k
           /\ \A row \in Recorded : Slot(row) = k => table[k].row.seq <= row.seq
  BY DEF HoldsEarliest
<1>3. IsFiniteSet(K)
  BY <1>2, FS_Subset
<1>4. IsFiniteSet(E)
  BY <1>3, FiniteValues
<1>5. \A k \in K : /\ table[k].row \in answers /\ k = <<layer, rid, table[k].row.who>>
                   /\ table[k].row.seq \in Nat /\ table[k].nth \in Nat
                   /\ \A row \in answers : row.who = table[k].row.who => table[k].row.seq <= row.seq
  <2>. SUFFICES ASSUME NEW k \in K
                PROVE  /\ table[k].row \in answers /\ k = <<layer, rid, table[k].row.who>>
                       /\ table[k].row.seq \in Nat /\ table[k].nth \in Nat
                       /\ \A row \in answers :
                            row.who = table[k].row.who => table[k].row.seq <= row.seq
    OBVIOUS
  <2>1. /\ table[k].row \in Recorded /\ Slot(table[k].row) = k
        /\ k[1] = layer /\ k[2] = rid
    BY <1>2
  <2>2. /\ table[k].row.layer = layer /\ table[k].row.rid = rid
        /\ k = <<layer, rid, table[k].row.who>>
    BY <2>1 DEF Slot
  <2>3. table[k] \in [row : Row, nth : Nat]
    BY <1>2
  <2>4. table[k].row.seq \in Nat /\ table[k].nth \in Nat
    BY <2>3 DEF Row
  <2>5. \A row \in answers : row.who = table[k].row.who => row \in Recorded /\ Slot(row) = k
    BY <2>2 DEF Recorded, Slot
  <2>. QED  BY <1>2, <2>1, <2>2, <2>4, <2>5 DEF Recorded
<1>6. \A row \in answers : \E k \in K : k = Slot(row) /\ table[k].row.who = row.who
  <2>. SUFFICES ASSUME NEW row \in answers
                PROVE  Slot(row) \in K /\ table[Slot(row)].row.who = row.who
    OBVIOUS
  <2>1. row \in Recorded /\ Slot(row) = <<layer, rid, row.who>>
    BY DEF Recorded, Slot
  <2>2. Slot(row) \in K
    BY <1>2, <2>1
  <2>. QED  BY <1>5, <2>1, <2>2
<1>. HIDE DEF K
<1>7. /\ \A e \in E : e.row.seq \in Nat /\ e.nth \in Nat
      /\ \A d, e \in E : d.row.who = e.row.who => d = e
  BY <1>5
<1>8. rows = Sorted(E)
  BY DEF Rows, K
<1>9. {e.row : e \in E} = {row \in answers :
                             \A x \in answers : x.who = row.who => row.seq <= x.seq}
  <2>1. ASSUME NEW e \in E
        PROVE  e.row \in answers /\ \A x \in answers : x.who = e.row.who => e.row.seq <= x.seq
    BY <1>5
  <2>2. ASSUME NEW row \in answers, \A x \in answers : x.who = row.who => row.seq <= x.seq
        PROVE  \E e \in E : e.row = row
    <3>1. PICK k \in K : table[k].row.who = row.who
      BY <1>6
    <3>2. /\ table[k].row \in answers /\ table[k].row.seq <= row.seq
          /\ row.seq <= table[k].row.seq
      BY <1>5, <2>2, <3>1
    <3>3. /\ row.seq \in Nat /\ table[k].row.seq \in Nat
      BY <1>1, <3>2 DEF Row
    <3>4. table[k].row.seq = row.seq /\ Slot(table[k].row) = Slot(row)
      BY <3>1, <3>2, <3>3 DEF Slot
    <3>5. table[k].row = row
      BY <1>1, <3>2, <3>4
    <3>. QED  BY <3>5
  <2>. QED  BY <2>1, <2>2
<1>. HIDE DEF E, answers, rows
<1>10. /\ DOMAIN rows = 1..Len(rows) /\ Len(rows) \in Nat
       /\ ToSet(rows) = {e.row : e \in E}
       /\ rows = [i \in 1..Len(rows) |-> rows[i]]
       /\ \A i, k \in DOMAIN rows : rows[i].who = rows[k].who => i = k
       /\ \A i, k \in DOMAIN rows : i < k => rows[i].seq <= rows[k].seq
  BY <1>4, <1>7, <1>8, SortedIs
<1>11. \A row \in answers : \E i \in DOMAIN rows : rows[i].who = row.who
  <2>1. \A row \in answers : \E e \in E : e.row.who = row.who
    BY <1>6 DEF E
  <2>2. \A e \in E : \E i \in DOMAIN rows : rows[i] = e.row
    BY <1>10 DEF ToSet
  <2>. QED  BY <2>1, <2>2
<1>. QED  BY <1>9, <1>10, <1>11 DEF answers, rows

LEMMA LoadedHolds == LoadedInv /\ FetchedAll => HoldsEarliest(loaded)
BY DEF LoadedInv, FetchedAll, Fetched, HoldsEarliest

LEMMA RowsAre ==
  ASSUME PopulationInv, LoadedInv, FetchedAll, NEW layer, NEW rid \in Nat \ {0}
  PROVE  LET rows == Rows(loaded, layer, rid)
             answers == {row \in window.rows : row.layer = layer /\ row.rid = rid}
         IN  /\ DOMAIN rows = 1..Len(rows) /\ Len(rows) \in Nat
             /\ ToSet(rows) = {row \in answers :
                                 \A x \in answers : x.who = row.who => row.seq <= x.seq}
             /\ \A i, k \in DOMAIN rows : rows[i].who = rows[k].who => i = k
             /\ \A i, k \in DOMAIN rows : i < k => rows[i].seq <= rows[k].seq
             /\ \A row \in answers : \E i \in DOMAIN rows : rows[i].who = row.who
BY LoadedHolds, RowsOfAll

\* Whatever order the database returns the rows in and however often, a ladder holds the
\* first answer of each estimator, in the order of arrival (_keep_earliest, _ladders).
THEOREM LaddersAreAsArrived == Spec => []LadderAsArrived
<1>1. PopulationInv /\ LoadedInv => LadderAsArrived
  <2>1. PopulationInv => \A rid \in DOMAIN window.requests : rid \in Nat \ {0}
    BY TablesAre DEF PopulationInv, IsTables
  <2>. QED  BY <2>1, RowsAre DEF LadderAsArrived
<1>. QED  BY <1>1, LoadedInductive, PTL

----------------------------------------------------------------------------
(* A match names an answer the order carries *)

LEMMA TheOne ==
  ASSUME NEW S, NEW i
  PROVE  /\ S = {i} => The(S) = i
         /\ IsFiniteSet(S) /\ The(S) # 0 => The(S) \in S
<1>1. ASSUME S = {i} PROVE The(S) = i
  <2>1. Cardinality({i}) = 1
    BY FS_Singleton
  <2>. QED  BY <1>1, <2>1 DEF The
<1>2. ASSUME IsFiniteSet(S), The(S) # 0 PROVE The(S) \in S
  <2>1. Cardinality(S) = 1
    BY <1>2 DEF The
  <2>2. S # {}
    BY <2>1, FS_EmptySet
  <2>. QED  BY <2>1, <2>2 DEF The
<1>. QED  BY <1>1, <1>2

\* What a match needs so as to name an answer the order carries.
Carries(match) ==
  LET taken == match.take.taken
  IN  /\ taken # 0
      /\ match.competition.ladder[taken].out = Order_(match.order).out
      /\ \/ taken \in match.competition.marked
         \/ taken \in ToSet(ForwardedOf(match)) \/ ForwardedOf(match) = <<>>

TakenInv ==
  \A i \in DOMAIN matches :
    matches[i].tier = "corroborated" /\ OneAnswerEach(matches[i]) => Carries(matches[i])

LEMMA TakenInit == Init => TakenInv
BY DEF Init, TakenInv

\* If one answer at most is marked, the recorded winner is what the user takes.
LEMMA WinnerIsTaken ==
  ASSUME NEW c, IsFiniteSet(c.marked), \A i, k \in c.marked : i = k, RecordedWinner(c) # 0
  PROVE  The(c.marked) = RecordedWinner(c) /\ RecordedWinner(c) \in c.marked
<1>. DEFINE let == {i \in c.marked : c.ladder[i].out > 0 /\ c.ladder[i].gas > 0}
<1>1. RecordedWinner(c) = The(let)
  BY DEF RecordedWinner
<1>2. IsFiniteSet(let) /\ let \subseteq c.marked
  BY FS_Subset
<1>. HIDE DEF let
<1>3. The(let) \in let
  BY <1>1, <1>2, TheOne
<1>4. c.marked = {The(let)}
  BY <1>2, <1>3
<1>5. The(c.marked) = The(let)
  BY <1>4, TheOne
<1>. QED  BY <1>1, <1>2, <1>3, <1>5

\* Of a request of the tables finitely many answers are marked.
LEMMA MarkedAreRows ==
  ASSUME PopulationInv, LoadedInv, FetchedAll, NEW layer, NEW rid \in Nat \ {0}
  PROVE  IsFiniteSet(Competition(window, loaded, layer, rid).marked)
<1>. DEFINE rows == Rows(loaded, layer, rid)
<1>1. Competition(window, loaded, layer, rid).marked = Marked(window, rows, rid)
  BY DEF Competition
<1>2. DOMAIN rows = 1..Len(rows) /\ Len(rows) \in Nat
  BY RowsAre
<1>. HIDE DEF rows
<1>3. IsFiniteSet(DOMAIN rows) /\ Marked(window, rows, rid) \subseteq DOMAIN rows
  BY <1>2, FS_Interval DEF Marked
<1>. QED  BY <1>1, <1>3, FS_Subset

LEMMA HeuristicCarries ==
  ASSUME PopulationInv, LoadedInv, FetchedAll, NEW c \in Candidates(window, loaded, Current),
         Corroborated(Current, c), \A i, k \in c.marked : i = k, NEW tier, NEW link
  PROVE  Carries(MatchedQuote(c, OneShot(c), tier, link))
<1>. DEFINE match == MatchedQuote(c, OneShot(c), tier, link)
<1>1. PICK layer : \E rid \in DOMAIN window.requests : c = Competition(window, loaded, layer, rid)
  <2>. DEFINE layer == IF Viable(window, Current, "gold") # {} THEN "gold" ELSE "raw"
  <2>1. c \in {Competition(window, loaded, layer, rid) : rid \in Viable(window, Current, layer)}
    BY DEF Candidates
  <2>2. Viable(window, Current, layer) \subseteq DOMAIN window.requests
    BY DEF Viable
  <2>. HIDE DEF layer
  <2>. QED  BY <2>1, <2>2
<1>. PICK rid \in DOMAIN window.requests : c = Competition(window, loaded, layer, rid)
  BY <1>1
<1>2. rid \in Nat \ {0}
  BY TablesAre DEF PopulationInv, IsTables
<1>3. RecordedWinner(c) # 0 /\ c.ladder[RecordedWinner(c)].out = Current.out
  BY DEF Corroborated
<1>4. The(c.marked) = RecordedWinner(c) /\ RecordedWinner(c) \in c.marked
  <2>1. IsFiniteSet(c.marked)
    BY <1>2, MarkedAreRows
  <2>. QED  BY <1>3, <2>1, WinnerIsTaken
<1>5. match.take.taken = The(c.marked) /\ match.competition = c /\ Order_(match.order) = Current
  BY DEF MatchedQuote, OneShot, Current
<1>. QED  BY <1>3, <1>4, <1>5 DEF Carries

LEMMA IdCarries ==
  ASSUME PopulationInv, LoadedInv, FetchedAll, Found(window, Current) # {}, IdReproduced,
         ~NotForwarded, NEW tier, NEW link
  PROVE  Carries(MatchedQuote(IdCompetition,
                   IF Streamed THEN StreamTake(arrived, Current, IdCompetition, IdPosition, IdForwarded)
                   ELSE OneShot(IdCompetition), tier, link))
<1>. DEFINE match == MatchedQuote(IdCompetition,
                       IF Streamed THEN StreamTake(arrived, Current, IdCompetition, IdPosition, IdForwarded)
                       ELSE OneShot(IdCompetition), tier, link)
            rows == Rows(loaded, "raw", IdRow.rid)
<1>1. IdRow \in window.rows /\ IdRow.layer = "raw" /\ IdRow.rid # 0 /\ IdRow \in Row
  <2>1. IdRow \in Found(window, Current)
    BY DEF IdRow
  <2>2. window.rows \subseteq Row
    BY TablesAre DEF PopulationInv, IsTables
  <2>. QED  BY <2>1, <2>2 DEF Found
<1>2. IdRow.rid \in Nat \ {0}
  BY <1>1 DEF Row
<1>3. /\ DOMAIN rows = 1..Len(rows) /\ Len(rows) \in Nat
      /\ \E i \in DOMAIN rows : rows[i].who = IdRow.who
  BY <1>1, <1>2, RowsAre
<1>4. IdCompetition.rows = rows
  BY DEF IdCompetition, Competition
<1>5. IdPosition \in DOMAIN rows
  BY <1>3, <1>4 DEF IdPosition, PositionOf
<1>6. IdPosition # 0
  BY <1>3, <1>5
<1>7. match.competition = IdCompetition /\ Order_(match.order) = Current
  BY DEF MatchedQuote, Current
<1>8. /\ match.take.taken = IdPosition
      /\ ~Streamed => IdPosition \in IdCompetition.marked
  <2>1. CASE Streamed
    BY <2>1 DEF MatchedQuote, StreamTake
  <2>2. CASE ~Streamed
    <3>1. IdPosition = The(IdCompetition.marked)
      BY <1>6, <2>2 DEF Streamed, IdCompetition, Competition
    <3>2. IsFiniteSet(IdCompetition.marked)
      BY <1>2, MarkedAreRows DEF IdCompetition
    <3>3. IdPosition \in IdCompetition.marked
      BY <1>6, <3>1, <3>2, TheOne
    <3>. QED  BY <2>2, <3>1, <3>3 DEF MatchedQuote, OneShot
  <2>. QED  BY <2>1, <2>2
<1>9. IdCompetition.ladder[IdPosition].out = Current.out
  BY DEF IdReproduced
<1>10. \/ IdPosition \in IdCompetition.marked
       \/ IdPosition \in ToSet(IdForwarded) \/ IdForwarded = <<>>
  BY <1>8 DEF NotForwarded, ToSet
<1>11. ForwardedOf(match) = IdForwarded
  BY <1>7 DEF ForwardedOf, IdForwarded
<1>. HIDE DEF match
<1>12. Carries(match)
  BY <1>6, <1>7, <1>8, <1>9, <1>10, <1>11 DEF Carries
<1>. QED  BY <1>12 DEF match

LEMMA RequoteCarries ==
  ASSUME PopulationInv, NEW anchor \in Anchors(window, Current), NEW tier,
         \A row, x \in SameMarket(window, Current) : x.who = row.who => x = row
  PROVE  Carries(MatchedQuote(Requote(window, Current, anchor),
                   OneShot(Requote(window, Current, anchor)), tier, "requote"))
<1>. DEFINE c == Requote(window, Current, anchor)
            match == MatchedQuote(c, OneShot(c), tier, "requote")
            near == Siblings(window, Current, anchor)
            E == {[row |-> row, nth |-> 0] : row \in near}
            rows == Sorted(E)
            won == {i \in DOMAIN rows : rows[i].who = anchor.who}
<1>1. /\ window.rows \subseteq Row /\ IsFiniteSet(window.rows)
  BY TablesAre DEF PopulationInv, IsTables
<1>2. /\ near \subseteq SameMarket(window, Current) /\ SameMarket(window, Current) \subseteq window.rows
      /\ anchor \in SameMarket(window, Current) /\ anchor.out = Current.out
  BY DEF Siblings, Near, SameMarket, Anchors
<1>3. anchor \in near
  <2>1. anchor.qid \in Nat /\ anchor.ts \in Nat /\ anchor.seq \in Nat
    BY <1>1, <1>2 DEF Row
  <2>2. Apart(anchor.qid, anchor.qid) <= IdSpan /\ Apart(anchor.ts, anchor.ts) <= SiblingSeconds
    BY <2>1, QuoteLinkAssumption DEF Apart
  <2>3. \A x \in SameMarket(window, Current) : x.who = anchor.who => anchor.seq <= x.seq
    BY <1>2, <2>1
  <2>. QED  BY <1>2, <2>2, <2>3 DEF Siblings, Near
<1>. HIDE DEF near
<1>4. IsFiniteSet(near) /\ near \subseteq Row
  BY <1>1, <1>2, FS_Subset
<1>5. IsFiniteSet(E)
  <2>. DEFINE entry == [row \in near |-> [row |-> row, nth |-> 0]]
  <2>1. E = {entry[row] : row \in near}
    OBVIOUS
  <2>. HIDE DEF entry
  <2>2. IsFiniteSet({entry[row] : row \in near})
    BY <1>4, FiniteValues
  <2>. QED  BY <2>1, <2>2
<1>6. /\ \A e \in E : e.row.seq \in Nat /\ e.nth \in Nat
      /\ \A d, e \in E : d.row.who = e.row.who => d = e
  BY <1>2, <1>4 DEF Row
<1>7. {e.row : e \in E} = near
  <2>1. \A row \in near : \E e \in E : e.row = row
    <3>1. \A row : [row |-> row, nth |-> 0].row = row
      OBVIOUS
    <3>. QED  BY <3>1
  <2>2. \A e \in E : e.row \in near
    OBVIOUS
  <2>. QED  BY <2>1, <2>2
<1>. HIDE DEF E
<1>8. /\ DOMAIN rows = 1..Len(rows) /\ Len(rows) \in Nat /\ ToSet(rows) = near
      /\ \A i, k \in DOMAIN rows : rows[i].who = rows[k].who => i = k
  BY <1>5, <1>6, <1>7, SortedIs
<1>9. /\ c.marked = won /\ c.ladder = [i \in DOMAIN rows |-> Answer(rows[i])]
  BY DEF Requote, E, near
<1>. HIDE DEF rows
<1>10. PICK i \in DOMAIN rows : rows[i] = anchor
  BY <1>3, <1>8 DEF ToSet
<1>11. won = {i}
  BY <1>8, <1>10
<1>12. The(won) = i /\ i # 0
  <2>1. i # 0
    BY <1>8
  <2>. HIDE DEF won
  <2>. QED  BY <1>11, <2>1, TheOne
<1>13. c.ladder[i].out = Current.out
  BY <1>2, <1>9, <1>10 DEF Answer
<1>14. match.take.taken = The(c.marked) /\ match.competition = c /\ Order_(match.order) = Current
  BY DEF MatchedQuote, OneShot, Current
<1>. HIDE DEF match, c
<1>15. Carries(match)
  BY <1>9, <1>11, <1>12, <1>13, <1>14 DEF Carries
<1>. QED  BY <1>15 DEF match, c

LEMMA TakenAdded ==
  ASSUME TakenInv, LinkInv, window' = window, NEW match, matches' = Append(matches, match),
         match.tier = "corroborated" /\ OneAnswerEach(match) => Carries(match)
  PROVE  TakenInv'
<1>1. IsList(matches)
  BY DEF LinkInv, MatchInv
<1>2. /\ DOMAIN matches = 1..Len(matches) /\ Len(matches) \in Nat
      /\ DOMAIN matches' = 1..(Len(matches) + 1)
      /\ \A i \in 1..Len(matches) : matches'[i] = matches[i]
      /\ matches'[Len(matches) + 1] = match
  BY <1>1, ListIs, AppendIs
<1>3. \A m : Carries(m)' = Carries(m) /\ OneAnswerEach(m)' = OneAnswerEach(m)
  BY DEF Carries, OneAnswerEach, ForwardedOf, Order_
<1>4. ASSUME NEW i \in DOMAIN matches', matches'[i].tier = "corroborated",
             OneAnswerEach(matches'[i])
      PROVE  Carries(matches'[i])
  <2>1. CASE i \in 1..Len(matches)
    BY <1>2, <1>4, <2>1 DEF TakenInv
  <2>2. CASE i = Len(matches) + 1
    BY <1>2, <1>4, <2>2
  <2>. QED  BY <1>2, <2>1, <2>2
<1>. QED  BY <1>3, <1>4 DEF TakenInv, Carries, OneAnswerEach, ForwardedOf, Order_

LEMMA TakenStays == TakenInv /\ UNCHANGED <<window, matches>> => TakenInv'
BY DEF TakenInv, Carries, OneAnswerEach, ForwardedOf, Order_

LEMMA TakenStep ==
  PopulationInv /\ LinkInv /\ LoadedInv /\ TakenInv /\ [Next]_vars => TakenInv'
<1>. SUFFICES ASSUME PopulationInv, LinkInv, LoadedInv, TakenInv, [Next]_vars PROVE TakenInv'
  OBVIOUS
<1>1. CASE MatchHeuristic
  <2>1. FetchedAll /\ window' = window
    BY <1>1 DEF MatchHeuristic, FetchedAll
  <2>. DEFINE C == Candidates(window, loaded, Current)
              tier(c) == IF Corroborated(Current, c) THEN "corroborated" ELSE "heuristic"
              match(c) == MatchedQuote(c, OneShot(c), tier(c), "heuristic")
  <2>2. CASE matches' = matches
    BY <2>1, <2>2, TakenStays
  <2>3. CASE matches' # matches
    <3>1. PICK c \in Preferable(Current, C) : matches' = Append(matches, match(c))
      BY <1>1, <2>3 DEF MatchHeuristic
    <3>2. c \in C
      BY DEF Preferable
    <3>3. match(c).tier = "corroborated" /\ OneAnswerEach(match(c)) => Carries(match(c))
      <4>1. /\ match(c).tier = "corroborated" => Corroborated(Current, c)
            /\ match(c).link = "heuristic" /\ match(c).competition = c
        BY DEF MatchedQuote
      <4>2. Corroborated(Current, c) /\ (\A i, k \in c.marked : i = k) => Carries(match(c))
        BY <2>1, <3>2, HeuristicCarries
      <4>3. OneAnswerEach(match(c)) => \A i, k \in c.marked : i = k
        <5>. HIDE DEF match
        <5>. QED  BY <4>1 DEF OneAnswerEach
      <4>. QED  BY <4>1, <4>2, <4>3
    <3>. HIDE DEF match
    <3>. QED  BY <2>1, <3>1, <3>3, TakenAdded
  <2>. QED  BY <2>2, <2>3
<1>2. CASE MatchById
  <2>1. /\ FetchedAll /\ window' = window /\ Found(window, Current) # {} /\ IdReproduced
    BY <1>2 DEF MatchById, FetchedAll
  <2>2. CASE NotForwarded
    <3>1. matches' = matches
      BY <1>2, <2>2 DEF MatchById
    <3>. QED  BY <2>1, <3>1, TakenStays
  <2>3. CASE ~NotForwarded
    <3>. DEFINE match == MatchedQuote(IdCompetition,
                  IF Streamed THEN StreamTake(arrived, Current, IdCompetition, IdPosition, IdForwarded)
                  ELSE OneShot(IdCompetition), "corroborated", "quote-id")
    <3>1. matches' = Append(matches, match)
      BY <1>2, <2>3 DEF MatchById
    <3>2. Carries(match)
      BY <2>1, <2>3, IdCarries
    <3>. HIDE DEF match
    <3>. QED  BY <2>1, <3>1, <3>2, TakenAdded
  <2>. QED  BY <2>2, <2>3
<1>3. CASE LinkRequote
  <2>1. window' = window
    BY <1>3 DEF LinkRequote
  <2>. DEFINE match(anchor) == MatchedQuote(Requote(window, Current, anchor),
                OneShot(Requote(window, Current, anchor)), "corroborated", "requote")
  <2>2. PICK anchor \in Nearest(Current, Anchors(window, Current)) :
          matches' = Append(matches, match(anchor))
    BY <1>3 DEF LinkRequote
  <2>3. anchor \in Anchors(window, Current)
    BY DEF Nearest
  <2>4. OneAnswerEach(match(anchor)) => Carries(match(anchor))
    <3>1. match(anchor).link = "requote" /\ Order_(match(anchor).order) = Current
      BY DEF MatchedQuote, Current
    <3>2. OneAnswerEach(match(anchor)) =>
            \A row, x \in SameMarket(window, Current) : x.who = row.who => x = row
      <4>. HIDE DEF match
      <4>. QED  BY <3>1 DEF OneAnswerEach
    <3>. QED  BY <2>3, <3>2, RequoteCarries
  <2>. HIDE DEF match
  <2>. QED  BY <2>1, <2>2, <2>4, TakenAdded
<1>4. CASE Populate \/ Fetch \/ StartHeuristic \/ StartById \/ DeferToRequote
  BY <1>4, TakenStays DEF Populate, Fetch, StartHeuristic, StartById, DeferToRequote, linked
<1>5. CASE StartRequotes \/ LeaveUnlinked \/ StartValidation \/ Validate
  BY <1>5, TakenStays DEF StartRequotes, LeaveUnlinked, StartValidation, Validate, linked
<1>6. CASE StartAnalysis \/ Add \/ Returned \/ UNCHANGED vars
  BY <1>6, TakenStays DEF StartAnalysis, Add, Returned, vars, linked
<1>. QED  BY <1>1, <1>2, <1>3, <1>4, <1>5, <1>6 DEF Next

\* A corroborated match names the answer the order carries, and one its user can have
\* had: it reproduces the stored amount and was forwarded, or won (MatchedQuote.tier).
THEOREM MatchesCarryTheOrder == Spec => []TakenIsWhatTheOrderCarries
<1>1. Spec => [](PopulationInv /\ LinkInv /\ LoadedInv /\ TakenInv)
  BY TakenInit, TakenStep, LinkInductive, LoadedInductive, PTL DEF Spec
<1>2. TakenInv => TakenIsWhatTheOrderCarries
  BY DEF TakenInv, Carries, TakenIsWhatTheOrderCarries, Matched
<1>. QED  BY <1>1, <1>2, PTL

----------------------------------------------------------------------------
(* An order is left unlinked for a cause in the tables *)

\* What the id of the order in turn names: one answer, at one position of its ladder.
LEMMA IdNames ==
  ASSUME PopulationInv, LoadedInv, FetchedAll, Found(window, Current) # {}
  PROVE  /\ IdRow.rid \in Nat \ {0} /\ IdPosition \in DOMAIN IdCompetition.rows
         /\ IdCompetition.rid = IdRow.rid
         /\ IdCompetition.rows[IdPosition] \in FirstAnswers
         /\ Slot(IdCompetition.rows[IdPosition]) = Slot(IdRow)
         /\ IdCompetition.ladder[IdPosition].out = IdCompetition.rows[IdPosition].out
         /\ \A x \in NamedAnswers(Current) : x = IdCompetition.rows[IdPosition]
<1>. DEFINE rows == Rows(loaded, "raw", IdRow.rid)
            answers == {row \in window.rows : row.layer = "raw" /\ row.rid = IdRow.rid}
<1>1. IdRow \in Found(window, Current)
  BY DEF IdRow
<1>2. /\ IdRow \in window.rows /\ IdRow.layer = "raw" /\ IdRow.rid # 0
      /\ \A row \in Found(window, Current) :
           row \in window.rows /\ row.layer = "raw" /\ row.rid # 0 /\ row.qid = IdRow.qid
  BY <1>1 DEF Found
<1>3. IsTables(window)
  BY TablesAre DEF PopulationInv
<1>4. IdRow.rid \in Nat \ {0}
  BY <1>2, <1>3 DEF IsTables, Row
<1>5. /\ DOMAIN rows = 1..Len(rows) /\ Len(rows) \in Nat
      /\ ToSet(rows) = {row \in answers : \A x \in answers : x.who = row.who => row.seq <= x.seq}
      /\ \E i \in DOMAIN rows : rows[i].who = IdRow.who
  BY <1>2, <1>4, RowsAre
<1>6. /\ IdCompetition.rows = rows /\ IdCompetition.rid = IdRow.rid
      /\ \A i \in DOMAIN rows : IdCompetition.ladder[i].out = rows[i].out
  BY DEF IdCompetition, Competition, Answer
<1>7. IdPosition \in DOMAIN rows /\ rows[IdPosition].who = IdRow.who
  BY <1>5, <1>6 DEF IdPosition, PositionOf
<1>. DEFINE first == rows[IdPosition]
<1>8. first \in ToSet(rows)
  BY <1>7 DEF ToSet
<1>. HIDE DEF rows
<1>9. /\ first \in answers /\ first.who = IdRow.who
      /\ \A x \in answers : x.who = first.who => first.seq <= x.seq
  BY <1>5, <1>7, <1>8
<1>. HIDE DEF first
<1>10. Slot(first) = Slot(IdRow)
  BY <1>2, <1>9 DEF Slot
<1>11. first \in FirstAnswers
  BY <1>2, <1>9 DEF FirstAnswers, Slot
<1>12. ASSUME NEW x \in NamedAnswers(Current)
       PROVE  x = first
  <2>1. /\ x \in FirstAnswers /\ x \in window.rows
        /\ \E row \in Found(window, Current) : Slot(row) = Slot(x)
    BY DEF NamedAnswers, FirstAnswers
  <2>2. \A row \in Found(window, Current) : Slot(row) = Slot(IdRow)
    <3>1. ASSUME NEW row \in Found(window, Current)
          PROVE  Slot(row) = Slot(IdRow)
      <4>1. row.rid = IdRow.rid /\ row.who = IdRow.who
        BY <1>2, <1>3 DEF IsTables
      <4>. QED  BY <1>2, <4>1 DEF Slot
    <3>. QED  BY <3>1
  <2>3. Slot(x) = Slot(first)
    BY <1>10, <2>1, <2>2
  <2>4. x.seq <= first.seq /\ first.seq <= x.seq
    BY <1>11, <2>1, <2>3 DEF FirstAnswers
  <2>5. first \in window.rows
    BY <1>9
  <2>6. x.seq \in Nat /\ first.seq \in Nat
    BY <1>3, <2>1, <2>5 DEF IsTables, Row
  <2>7. x.seq = first.seq
    BY <2>4, <2>6
  <2>. QED  BY <1>3, <2>1, <2>3, <2>5, <2>7 DEF IsTables
<1>. QED  BY <1>4, <1>6, <1>7, <1>10, <1>11, <1>12 DEF first

LEMMA DeferredHasNone ==
  ASSUME PopulationInv, LoadedInv, FetchedAll, ~(Found(window, Current) # {} /\ IdReproduced)
  PROVE  NamedAnswers(Current) = {}
<1>1. SUFFICES ASSUME NEW x \in NamedAnswers(Current) PROVE FALSE
  OBVIOUS
<1>2. x.out = Current.out /\ Found(window, Current) # {}
  BY DEF NamedAnswers
<1>3. x = IdCompetition.rows[IdPosition]
      /\ IdCompetition.ladder[IdPosition].out = IdCompetition.rows[IdPosition].out
  BY <1>2, IdNames
<1>. QED  BY <1>2, <1>3 DEF IdReproduced

\* The request forwarded other answers, and not the one of the order.
ForwardedOthers(n) ==
  /\ NamedAnswers(Order_(n)) # {}
  /\ \A x \in NamedAnswers(Order_(n)) :
       Forwarders(x.rid) # {} /\ x.who \notin Forwarders(x.rid)

LEMMA ForwardedIs ==
  ASSUME PopulationInv, NEW competition
  PROVE  LET ids == {x \in window.computed : /\ x.rid = competition.rid
                                             /\ RowsNamed(window, x.rid, x.qid) # {}}
             whose(x) == (CHOOSE row \in RowsNamed(window, x.rid, x.qid) : TRUE).who
             forwarded == Forwarded(window, competition)
         IN  /\ ids = {} => forwarded = <<>>
             /\ \A x \in ids : \E i \in DOMAIN forwarded :
                  forwarded[i] = PositionOf(competition, whose(x))
<1>. DEFINE ids == {x \in window.computed : /\ x.rid = competition.rid
                                            /\ RowsNamed(window, x.rid, x.qid) # {}}
            whose(x) == (CHOOSE row \in RowsNamed(window, x.rid, x.qid) : TRUE).who
            before == {pair \in ids \X ids : pair[1].seq < pair[2].seq}
            list == Arranged(ids, before)
<1>1. IsTables(window)
  BY TablesAre DEF PopulationInv
<1>2. IsFiniteSet(ids) /\ \A x \in ids : x.seq \in Nat
  <2>1. /\ window.computed \subseteq [rid : Nat, qid : Nat, seq : Nat]
        /\ IsFiniteSet(window.computed)
    BY <1>1 DEF IsTables
  <2>. QED  BY <2>1, FS_Subset
<1>3. Forwarded(window, competition)
        = [i \in DOMAIN list |-> PositionOf(competition, whose(list[i]))]
  BY DEF Forwarded
<1>. HIDE DEF ids, whose
<1>4. IsRanking(before, ids)
  BY <1>2 DEF IsRanking
<1>. HIDE DEF before
<1>5. /\ Len(list) = Cardinality(ids) /\ DOMAIN list = 1..Len(list) /\ ToSet(list) = ids
  BY <1>2, <1>4, ArrangedList
<1>. HIDE DEF list
<1>6. ASSUME ids = {} PROVE Forwarded(window, competition) = <<>>
  <2>1. DOMAIN list = {}
    BY <1>5, <1>6, FS_EmptySet
  <2>. QED  BY <1>3, <2>1
<1>7. ASSUME NEW x \in ids
      PROVE  \E i \in DOMAIN Forwarded(window, competition) :
               Forwarded(window, competition)[i] = PositionOf(competition, whose(x))
  <2>1. PICK i \in DOMAIN list : list[i] = x
    BY <1>5 DEF ToSet
  <2>. QED  BY <1>3, <2>1
<1>. QED  BY <1>6, <1>7 DEF ids, whose

LEMMA GivenUpForOthers ==
  ASSUME PopulationInv, LoadedInv, FetchedAll, Found(window, Current) # {}, IdReproduced,
         NotForwarded
  PROVE  ForwardedOthers(Head(todo))
<1>. DEFINE rid == IdRow.rid
            first == IdCompetition.rows[IdPosition]
            ids == {x \in window.computed : /\ x.rid = IdCompetition.rid
                                            /\ RowsNamed(window, x.rid, x.qid) # {}}
            whose(x) == (CHOOSE row \in RowsNamed(window, x.rid, x.qid) : TRUE).who
<1>1. /\ rid \in Nat \ {0} /\ IdCompetition.rid = rid
      /\ first \in FirstAnswers /\ Slot(first) = Slot(IdRow)
      /\ IdCompetition.ladder[IdPosition].out = first.out
      /\ \A x \in NamedAnswers(Current) : x = first
  BY IdNames
<1>2. first.rid = rid /\ first.who = IdRow.who
  BY <1>1 DEF Slot
<1>3. first \in NamedAnswers(Current)
  <2>1. IdRow \in Found(window, Current)
    BY DEF IdRow
  <2>. QED  BY <1>1, <2>1 DEF NamedAnswers, IdReproduced
<1>4. /\ ids = {} => IdForwarded = <<>>
      /\ \A x \in ids : \E i \in DOMAIN IdForwarded :
           IdForwarded[i] = PositionOf(IdCompetition, whose(x))
  BY ForwardedIs DEF IdForwarded
<1>5. IdPosition = PositionOf(IdCompetition, IdRow.who)
  BY DEF IdPosition
<1>6. IsTables(window)
  BY TablesAre DEF PopulationInv
<1>7. Forwarders(rid) # {}
  <2>1. ids # {}
    BY <1>4 DEF NotForwarded
  <2>2. PICK x \in window.computed : x.rid = rid /\ RowsNamed(window, rid, x.qid) # {}
    BY <1>1, <2>1
  <2>. QED  BY <2>2 DEF Forwarders
<1>8. IdRow.who \notin Forwarders(rid)
  <2>1. SUFFICES ASSUME IdRow.who \in Forwarders(rid) PROVE FALSE
    OBVIOUS
  <2>. PICK x \in window.computed :
         x.rid = rid /\ \E row \in RowsNamed(window, rid, x.qid) : row.who = IdRow.who
    BY <2>1 DEF Forwarders
  <2>2. PICK row \in RowsNamed(window, rid, x.qid) : x.rid = rid /\ row.who = IdRow.who
    OBVIOUS
  <2>3. x \in ids
    BY <1>1, <2>2
  <2>4. whose(x) = IdRow.who
    <3>1. PICK r \in RowsNamed(window, rid, x.qid) : r.who = whose(x)
      BY <2>2
    <3>. QED  BY <1>1, <1>6, <2>2, <3>1 DEF RowsNamed, IsTables
  <2>. QED  BY <1>4, <1>5, <2>3, <2>4 DEF NotForwarded
<1>9. \A x \in NamedAnswers(Current) : x.rid = rid /\ x.who = IdRow.who
  BY <1>1, <1>2
<1>. HIDE DEF rid, first
<1>. QED  BY <1>3, <1>7, <1>8, <1>9 DEF ForwardedOthers, Current

\* Each order with a quote id is to be linked yet, is linked, or has its cause.
CauseInv ==
  pc \in {"id", "requote", "validate", "analyse"} =>
    \A n \in ById :
      \/ n \in Linked(matches) \/ ForwardedOthers(n)
      \/ pc = "id" /\ n \in ToSet(todo)
      \/ /\ NamedAnswers(Order_(n)) = {}
         /\ \/ pc = "id" /\ n \in Deferred
            \/ pc = "requote" /\ n \in ToSet(todo)
            \/ pc # "id" /\ Anchors(window, Order_(n)) = {}

LEMMA CauseInit == Init => CauseInv
BY DEF Init, CauseInv

LEMMA CausesStand ==
  ASSUME PopulationInv, [Next]_vars, pc # "populate"
  PROVE  /\ \A n : /\ Order_(n)' = Order_(n) /\ ForwardedOthers(n)' = ForwardedOthers(n)
                   /\ NamedAnswers(Order_(n))' = NamedAnswers(Order_(n))
                   /\ Anchors(window, Order_(n))' = Anchors(window, Order_(n))
         /\ ById' = ById
<1>1. window' = window /\ ById' = ById
  BY SameOrders
<1>. QED  BY <1>1 DEF Order_, ForwardedOthers, NamedAnswers, FirstAnswers, Forwarders

\* The loop goes on with the others, once the first order is linked or has its cause.
LEMMA CauseFound ==
  ASSUME PopulationInv, LinkInv, CauseInv, [Next]_vars, pc \in {"id", "requote"}, pc' = pc,
         todo # <<>>, todo' = Tail(todo),
         Linked(matches) \subseteq Linked(matches'), Deferred \subseteq Deferred',
         \/ Head(todo) \in Linked(matches') \/ ForwardedOthers(Head(todo))
         \/ NamedAnswers(Order_(Head(todo))) = {}
              /\ \/ pc = "id" /\ Head(todo) \in Deferred'
                 \/ pc = "requote" /\ Anchors(window, Order_(Head(todo))) = {}
  PROVE  CauseInv'
<1>1. /\ ById' = ById
      /\ \A n : /\ ForwardedOthers(n)' = ForwardedOthers(n)
               /\ NamedAnswers(Order_(n))' = NamedAnswers(Order_(n))
               /\ Anchors(window, Order_(n))' = Anchors(window, Order_(n))
  BY CausesStand
<1>2. ToSet(todo)' = ToSet(todo) \ {Head(todo)}
  BY TurnIs
<1>3. ASSUME NEW n \in ById
      PROVE  \/ n \in Linked(matches') \/ ForwardedOthers(n)
             \/ pc = "id" /\ n \in ToSet(todo')
             \/ /\ NamedAnswers(Order_(n)) = {}
                /\ \/ pc = "id" /\ n \in Deferred'
                   \/ pc = "requote" /\ n \in ToSet(todo')
                   \/ pc # "id" /\ Anchors(window, Order_(n)) = {}
  <2>1. CASE n = Head(todo)
    BY <2>1
  <2>2. CASE n # Head(todo)
    BY <1>2, <2>2 DEF CauseInv
  <2>. QED  BY <2>1, <2>2
<1>. QED  BY <1>1, <1>3 DEF CauseInv

\* Of two lists of matches the longer one links more.
LEMMA LinkedMore ==
  ASSUME LinkInv, NEW match, matches' = Append(matches, match)
  PROVE  Linked(matches) \subseteq Linked(matches') /\ match.order \in Linked(matches')
<1>1. IsList(matches) /\ DOMAIN matches = 1..Len(matches) /\ Len(matches) \in Nat
  BY ListIs DEF LinkInv, MatchInv
<1>2. /\ DOMAIN matches' = 1..(Len(matches) + 1)
      /\ \A i \in 1..Len(matches) : matches'[i] = matches[i]
      /\ matches'[Len(matches) + 1] = match
  BY <1>1, AppendIs
<1>3. Len(matches) + 1 \in DOMAIN matches' /\ DOMAIN matches \subseteq DOMAIN matches'
  BY <1>1, <1>2
<1>. QED  BY <1>1, <1>2, <1>3 DEF Linked

LEMMA CauseStep ==
  PopulationInv /\ LinkInv /\ LoadedInv /\ CauseInv /\ [Next]_vars => CauseInv'
<1>. SUFFICES ASSUME PopulationInv, LinkInv, LoadedInv, CauseInv, [Next]_vars PROVE CauseInv'
  OBVIOUS
<1>1. CASE Populate \/ Fetch \/ StartHeuristic \/ MatchHeuristic
  BY <1>1 DEF Populate, Fetch, StartHeuristic, MatchHeuristic, CauseInv
<1>2. CASE StartById
  <2>1. pc = "heuristic" /\ pc' = "id" /\ todo' = InOrder(ById)
    BY <1>2 DEF StartById
  <2>2. ById' = ById /\ IsFiniteSet(ById) /\ ById \in SUBSET Int
    BY <2>1, SameOrders, OrdersAre
  <2>3. ToSet(todo') = ById
    BY <2>1, <2>2, InOrderIs
  <2>. QED  BY <2>1, <2>2, <2>3 DEF CauseInv
<1>3. CASE MatchById
  <2>1. /\ pc = "id" /\ pc' = pc /\ todo # <<>> /\ todo' = Tail(todo) /\ UNCHANGED requotable
        /\ FetchedAll /\ Found(window, Current) # {} /\ IdReproduced
    BY <1>3 DEF MatchById, FetchedAll
  <2>2. Deferred' = Deferred
    BY <2>1 DEF Deferred
  <2>3. CASE NotForwarded
    <3>1. matches' = matches
      BY <1>3, <2>3 DEF MatchById
    <3>2. ForwardedOthers(Head(todo))
      BY <2>1, <2>3, GivenUpForOthers
    <3>. QED  BY <2>1, <2>2, <3>1, <3>2, CauseFound
  <2>4. CASE ~NotForwarded
    <3>1. PICK take : matches' = Append(matches,
                        MatchedQuote(IdCompetition, take, "corroborated", "quote-id"))
      BY <1>3, <2>4 DEF MatchById
    <3>2. /\ Linked(matches) \subseteq Linked(matches') /\ Head(todo) \in Linked(matches')
      BY <3>1, LinkedMore, MatchedIs
    <3>. QED  BY <2>1, <2>2, <3>2, CauseFound
  <2>. QED  BY <2>3, <2>4
<1>4. CASE DeferToRequote
  <2>1. /\ pc = "id" /\ pc' = pc /\ todo # <<>> /\ todo' = Tail(todo) /\ UNCHANGED matches
        /\ FetchedAll /\ ~(Found(window, Current) # {} /\ IdReproduced)
    BY <1>4 DEF DeferToRequote, FetchedAll
  <2>2. NamedAnswers(Order_(Head(todo))) = {}
    BY <2>1, DeferredHasNone DEF Current
  <2>3. Deferred \subseteq Deferred' /\ Head(todo) \in Deferred'
    <3>1. PICK why \in Reason : requotable' = Append(requotable, <<Head(todo), why>>)
      BY <1>4 DEF DeferToRequote, Reason
    <3>2. requotable \in Seq(ById \X Reason)
      BY DEF LinkInv, ReasonInv
    <3>3. Head(todo) \in ById
      BY <2>1, TurnIs
    <3>. DEFINE n == Len(requotable) + 1
                pair == <<Head(todo), why>>
    <3>4. pair \in ById \X Reason /\ pair[1] = Head(todo)
      BY <3>3
    <3>. HIDE DEF pair
    <3>5. /\ n \in DOMAIN requotable' /\ DOMAIN requotable \subseteq DOMAIN requotable'
          /\ \A i \in DOMAIN requotable : requotable'[i] = requotable[i]
          /\ requotable'[n] = pair
      <4>1. requotable' = Append(requotable, pair)
        BY <3>1 DEF pair
      <4>. QED  BY <3>2, <3>4, <4>1
    <3>. HIDE DEF n
    <3>. QED  BY <3>4, <3>5 DEF Deferred
  <2>. QED  BY <2>1, <2>2, <2>3, CauseFound
<1>5. CASE StartRequotes
  <2>1. /\ pc = "id" /\ pc' = "requote" /\ todo = <<>> /\ UNCHANGED <<matches, requotable>>
        /\ todo' = [i \in DOMAIN requotable |-> requotable[i][1]]
    BY <1>5 DEF StartRequotes, linked
  <2>2. ToSet(todo) = {} /\ ToSet(todo)' = Deferred
    BY <2>1 DEF ToSet, Deferred
  <2>3. Linked(matches)' = Linked(matches)
    BY <2>1 DEF Linked
  <2>4. /\ ById' = ById
        /\ \A n : /\ ForwardedOthers(n)' = ForwardedOthers(n)
                 /\ NamedAnswers(Order_(n))' = NamedAnswers(Order_(n))
    BY <2>1, CausesStand
  <2>. QED  BY <2>1, <2>2, <2>3, <2>4 DEF CauseInv
<1>6. CASE LinkRequote
  <2>1. /\ pc = "requote" /\ pc' = pc /\ todo # <<>> /\ todo' = Tail(todo)
        /\ UNCHANGED requotable
    BY <1>6 DEF LinkRequote
  <2>2. PICK competition : matches' = Append(matches,
          MatchedQuote(competition, OneShot(competition), "corroborated", "requote"))
    BY <1>6 DEF LinkRequote
  <2>3. Linked(matches) \subseteq Linked(matches') /\ Head(todo) \in Linked(matches')
    BY <2>2, LinkedMore, MatchedIs
  <2>4. Deferred' = Deferred
    BY <2>1 DEF Deferred
  <2>. QED  BY <2>1, <2>3, <2>4, CauseFound
<1>7. CASE LeaveUnlinked
  <2>1. /\ pc = "requote" /\ pc' = pc /\ todo # <<>> /\ todo' = Tail(todo)
        /\ UNCHANGED <<matches, requotable>> /\ Anchors(window, Order_(Head(todo))) = {}
    BY <1>7 DEF LeaveUnlinked, Current
  <2>2. Deferred' = Deferred
    BY <2>1 DEF Deferred
  <2>3. Head(todo) \in ById /\ Head(todo) \in ToSet(todo)
    BY <2>1, TurnIs
  <2>4. \/ Head(todo) \in Linked(matches) \/ ForwardedOthers(Head(todo))
        \/ NamedAnswers(Order_(Head(todo))) = {}
    BY <2>1, <2>3 DEF CauseInv
  <2>5. Linked(matches') = Linked(matches)
    BY <2>1
  <2>6. \/ Head(todo) \in Linked(matches') \/ ForwardedOthers(Head(todo))
        \/ /\ NamedAnswers(Order_(Head(todo))) = {} /\ pc = "requote"
           /\ Anchors(window, Order_(Head(todo))) = {}
    BY <2>1, <2>4, <2>5
  <2>. QED  BY <2>1, <2>2, <2>5, <2>6, CauseFound
<1>8. CASE StartValidation \/ Validate \/ StartAnalysis \/ Add
  <2>1. /\ UNCHANGED matches /\ pc' \in {"validate", "analyse"}
        /\ (pc = "requote" /\ todo = <<>>) \/ pc \in {"validate", "analyse"}
    BY <1>8 DEF StartValidation, Validate, StartAnalysis, Add, linked
  <2>2. pc = "requote" => ToSet(todo) = {}
    BY <2>1 DEF ToSet
  <2>3. Linked(matches)' = Linked(matches)
    BY <2>1 DEF Linked
  <2>4. /\ ById' = ById
        /\ \A n : /\ ForwardedOthers(n)' = ForwardedOthers(n)
                 /\ NamedAnswers(Order_(n))' = NamedAnswers(Order_(n))
                 /\ Anchors(window, Order_(n))' = Anchors(window, Order_(n))
    BY <2>1, CausesStand
  <2>. QED  BY <2>1, <2>2, <2>3, <2>4 DEF CauseInv
<1>9. CASE Returned \/ UNCHANGED vars
  <2>1. UNCHANGED vars
    BY <1>9 DEF Returned
  <2>. QED  BY <2>1 DEF vars, CauseInv, ById, Linkable, Order_, Linked, Deferred, ForwardedOthers,
                       NamedAnswers, FirstAnswers, Forwarders, ToSet
<1>. QED  BY <1>1, <1>2, <1>3, <1>4, <1>5, <1>6, <1>7, <1>8, <1>9 DEF Next

\* An order is left unlinked for a cause that is in the tables: the answer that its id
\* names is of another amount, and no re-quote won with this one; or the request forwarded
\* other answers and not this one (link_by_quote_id).
THEOREM NoneIsLost == Spec => []LinkedWhereRecorded
<1>1. Spec => [](PopulationInv /\ LinkInv /\ LoadedInv /\ CauseInv)
  BY CauseInit, CauseStep, LinkInductive, LoadedInductive, PTL DEF Spec
<1>2. CauseInv => LinkedWhereRecorded
  <2>. SUFFICES ASSUME CauseInv, Done, NEW n \in ById
                PROVE  \/ \E i \in DOMAIN matches : matches[i].order = n
                       \/ NamedAnswers(Order_(n)) = {} /\ Anchors(window, Order_(n)) = {}
                       \/ ForwardedOthers(n)
    BY DEF LinkedWhereRecorded, ForwardedOthers
  <2>1. pc = "analyse"
    BY DEF Done
  <2>2. \/ n \in Linked(matches) \/ ForwardedOthers(n)
        \/ NamedAnswers(Order_(n)) = {} /\ Anchors(window, Order_(n)) = {}
    BY <2>1 DEF CauseInv
  <2>. QED  BY <2>2 DEF Linked
<1>. QED  BY <1>1, <1>2, PTL

----------------------------------------------------------------------------
(* The validation accuses nobody *)

\* The first n values of f are the elements of S, in the order of their numbers.
Enumerates(f, n, S, r) ==
  /\ n \in Nat
  /\ \A x \in S : r[x] \in Int
  /\ \A i \in 1..n : f[i] \in S
  /\ \A x \in S : \E i \in 1..n : f[i] = x
  /\ \A i, k \in 1..n : i < k => r[f[i]] < r[f[k]]

\* T has the elements of S with the smallest numbers.
Smallest(T, S, r) == T \subseteq S /\ \A x \in T, y \in S \ T : r[x] < r[y]

\* Such lists, of a set and of the part with the smallest numbers, begin alike.
LEMMA InitialPart ==
  ASSUME NEW S, NEW T, NEW r, NEW n, NEW p, NEW f, NEW g,
         Enumerates(f, n, S, r), Enumerates(g, p, T, r), Smallest(T, S, r)
  PROVE  p <= n /\ \A i \in 1..p : f[i] = g[i]
<1>0. /\ n \in Nat /\ p \in Nat
      /\ \A x \in S : r[x] \in Int
      /\ \A i \in 1..n : f[i] \in S
      /\ \A x \in S : \E i \in 1..n : f[i] = x
      /\ \A i, k \in 1..n : i < k => r[f[i]] < r[f[k]]
      /\ \A i \in 1..p : g[i] \in T
      /\ \A x \in T : \E i \in 1..p : g[i] = x
      /\ \A i, k \in 1..p : i < k => r[g[i]] < r[g[k]]
      /\ T \subseteq S /\ \A x \in T, y \in S \ T : r[x] < r[y]
  BY DEF Enumerates, Smallest
<1>. DEFINE G == {j \in 0..p : j <= n /\ \A i \in 1..j : f[i] = g[i]}
<1>1. 0 \in G
  BY <1>0
<1>2. ASSUME NEW j \in 0..p, j < p, j \in G
      PROVE  j + 1 \in G
  <2>1. j \in Nat /\ j + 1 \in 1..p /\ j <= n /\ \A i \in 1..j : i \in 1..n /\ i \in 1..p
    BY <1>0, <1>2
  <2>2. \A i \in 1..j : f[i] = g[i]
    BY <1>2
  <2>. DEFINE m == j + 1
  <2>. HIDE DEF G
  <2>3. PICK k \in 1..n : f[k] = g[m]
    BY <1>0, <2>1
  <2>4. k \notin 1..j
    <3>1. SUFFICES ASSUME k \in 1..j PROVE FALSE
      OBVIOUS
    <3>2. g[k] = g[m] /\ k < m /\ k \in 1..p
      BY <2>1, <2>2, <2>3, <3>1
    <3>3. r[g[k]] < r[g[m]] /\ r[g[m]] \in Int
      BY <1>0, <2>1, <3>2
    <3>. QED  BY <3>2, <3>3
  <2>5. m \in 1..n /\ k >= m
    BY <1>0, <2>1, <2>4
  <2>6. k = m
    <3>1. SUFFICES ASSUME m < k PROVE FALSE
      BY <1>0, <2>1, <2>5
    <3>2. /\ r[f[m]] < r[g[m]] /\ f[m] \in S /\ g[m] \in T
          /\ r[f[m]] \in Int /\ r[g[m]] \in Int
      BY <1>0, <2>1, <2>3, <2>5, <3>1
    <3>3. f[m] \in T
      BY <1>0, <3>2
    <3>4. PICK l \in 1..p : g[l] = f[m]
      BY <1>0, <3>3
    <3>5. CASE l \in 1..j
      <4>1. f[l] = f[m] /\ l \in 1..n /\ l < m
        BY <1>0, <2>1, <2>2, <3>4, <3>5
      <4>2. r[f[l]] < r[f[m]]
        BY <1>0, <2>5, <4>1
      <4>. QED  BY <3>2, <4>1, <4>2
    <3>6. CASE l = m
      BY <3>2, <3>4, <3>6
    <3>7. CASE m < l
      <4>1. r[g[m]] < r[g[l]]
        BY <1>0, <2>1, <3>7
      <4>. QED  BY <3>2, <3>4, <4>1
    <3>. QED  BY <2>1, <3>5, <3>6, <3>7
  <2>7. \A i \in 1..m : f[i] = g[i]
    BY <2>1, <2>2, <2>3, <2>6
  <2>. QED  BY <2>1, <2>5, <2>7 DEF G
<1>3. 0..p \subseteq G
  <2>. HIDE DEF G
  <2>1. \A j \in 0..p : j < p /\ j \in G => j + 1 \in G
    BY <1>2
  <2>. QED  BY <1>0, <1>1, <2>1, UpTo
<1>4. p \in G
  BY <1>0, <1>3
<1>. QED  BY <1>4

\* What a stream has sent when it is dropped is the beginning of what it would send.
LEMMA SentBefore ==
  ASSUME NEW S \in SUBSET Int, IsFiniteSet(S), NEW m \in Int
  PROVE  IsPrefix(InOrder({i \in S : i <= m}), InOrder(S))
<1>. DEFINE T == {i \in S : i <= m}
            r == [x \in S |-> x]
<1>1. T \in SUBSET S /\ IsFiniteSet(T) /\ T \in SUBSET Int
  BY FS_Subset
<1>. HIDE DEF T
<1>. SUFFICES ASSUME NEW full, full = InOrder(S), NEW part, part = InOrder(T)
              PROVE  IsPrefix(part, full)
  BY DEF T
<1>2. /\ Cardinality(S) \in Nat
      /\ full \in Seq(S) /\ Len(full) = Cardinality(S)
      /\ ToSet(full) = S /\ DOMAIN full = 1..Len(full)
      /\ \A i, k \in DOMAIN full : i < k => full[i] < full[k]
  BY InOrderIs
<1>3. /\ Cardinality(T) \in Nat
      /\ part \in Seq(T) /\ Len(part) = Cardinality(T)
      /\ ToSet(part) = T /\ DOMAIN part = 1..Len(part)
      /\ \A i, k \in DOMAIN part : i < k => part[i] < part[k]
  BY <1>1, InOrderIs
<1>4. /\ \A i \in 1..Len(full) : full[i] \in S
      /\ \A x \in S : \E i \in 1..Len(full) : full[i] = x
      /\ \A i \in 1..Len(part) : part[i] \in T
      /\ \A x \in T : \E i \in 1..Len(part) : part[i] = x
      /\ \A x \in S : r[x] \in Int /\ r[x] = x
  BY <1>2, <1>3 DEF ToSet
<1>5. \A x \in T, y \in S \ T : x < y
  BY DEF T
<1>. HIDE DEF r
<1>6. Enumerates(full, Len(full), S, r) /\ Enumerates(part, Len(part), T, r)
  <2>1. Len(full) \in Nat /\ Len(part) \in Nat
    BY <1>2, <1>3
  <2>2. \A i, k \in 1..Len(full) : i < k => r[full[i]] < r[full[k]]
    <3>1. \A i \in 1..Len(full) : r[full[i]] = full[i]
      BY <1>4
    <3>. QED  BY <1>2, <3>1
  <2>3. \A i, k \in 1..Len(part) : i < k => r[part[i]] < r[part[k]]
    <3>1. \A i \in 1..Len(part) : r[part[i]] = part[i]
      BY <1>1, <1>4
    <3>. QED  BY <1>3, <3>1
  <2>4. Enumerates(full, Len(full), S, r)
    BY <1>4, <2>1, <2>2 DEF Enumerates
  <2>5. Enumerates(part, Len(part), T, r)
    <3>1. \A x \in T : r[x] \in Int
      BY <1>1, <1>4
    <3>. QED  BY <1>4, <2>1, <2>3, <3>1 DEF Enumerates
  <2>. QED  BY <2>4, <2>5
<1>7. Len(part) <= Len(full) /\ \A i \in 1..Len(part) : full[i] = part[i]
  <2>1. Smallest(T, S, r)
    BY <1>1, <1>4, <1>5 DEF Smallest
  <2>2. Len(part) <= Len(full)
    BY <1>6, <2>1, InitialPart
  <2>3. ASSUME NEW i \in 1..Len(part) PROVE full[i] = part[i]
    BY <1>6, <2>1, InitialPart
  <2>. QED  BY <2>2, <2>3
<1>8. SubSeq(part, 1, Len(part)) = SubSeq(full, 1, Len(part))
  <2>1. SubSeq(part, 1, Len(part)) = [i \in 1..Len(part) |-> part[i]]
    BY <1>3
  <2>2. SubSeq(full, 1, Len(part)) = [i \in 1..Len(part) |-> full[i]]
    BY <1>2, <1>3, <1>7
  <2>. QED  BY <1>7, <2>1, <2>2
<1>. QED  BY <1>7, <1>8 DEF IsPrefix

\* The arrivals of a request are told apart.
ArrivalsApart ==
  \A x, y \in window.rows :
    x.rid # 0 /\ x.layer = y.layer /\ x.rid = y.rid /\ x.seq = y.seq => x = y

\* The numbers of the rows.
Arrival == [row \in window.rows |-> row.seq]

LEMMA RowsInOrder ==
  ASSUME PopulationInv, ArrivalsApart, NEW table, HoldsEarliest(table), NEW layer,
         NEW rid \in Nat \ {0}
  PROVE  LET rows == Rows(table, layer, rid)
             answers == {row \in window.rows : row.layer = layer /\ row.rid = rid}
             firsts == {row \in answers : \A x \in answers : x.who = row.who => row.seq <= x.seq}
         IN  /\ Enumerates(rows, Len(rows), firsts, Arrival)
             /\ rows = [i \in 1..Len(rows) |-> rows[i]]
<1>. DEFINE rows == Rows(table, layer, rid)
            answers == {row \in window.rows : row.layer = layer /\ row.rid = rid}
            firsts == {row \in answers : \A x \in answers : x.who = row.who => row.seq <= x.seq}
<1>1. /\ DOMAIN rows = 1..Len(rows) /\ Len(rows) \in Nat
      /\ ToSet(rows) = firsts
      /\ \A i, k \in DOMAIN rows : rows[i].who = rows[k].who => i = k
      /\ \A i, k \in DOMAIN rows : i < k => rows[i].seq <= rows[k].seq
      /\ rows = [i \in 1..Len(rows) |-> rows[i]]
  BY RowsOfAll
<1>2. /\ firsts \subseteq window.rows /\ \A row \in firsts : row.layer = layer /\ row.rid = rid
      /\ window.rows \subseteq Row
  BY TablesAre DEF PopulationInv, IsTables
<1>. HIDE DEF rows, firsts, answers
<1>3. \A row \in firsts : Arrival[row] \in Int /\ Arrival[row] = row.seq
  BY <1>2 DEF Arrival, Row
<1>4. /\ \A i \in 1..Len(rows) : rows[i] \in firsts
      /\ \A row \in firsts : \E i \in 1..Len(rows) : rows[i] = row
  BY <1>1 DEF ToSet
<1>5. ASSUME NEW i \in 1..Len(rows), NEW k \in 1..Len(rows), i < k
      PROVE  Arrival[rows[i]] < Arrival[rows[k]]
  <2>1. rows[i] \in firsts /\ rows[k] \in firsts /\ rows[i].seq <= rows[k].seq
    BY <1>1, <1>4, <1>5
  <2>2. rows[i].seq # rows[k].seq
    <3>1. SUFFICES ASSUME rows[i].seq = rows[k].seq PROVE FALSE
      OBVIOUS
    <3>2. rows[i] = rows[k]
      BY <1>2, <2>1, <3>1 DEF ArrivalsApart
    <3>3. i = k
      BY <1>1, <3>2
    <3>. QED  BY <1>5, <3>3
  <2>3. rows[i].seq \in Int /\ rows[k].seq \in Int
    BY <1>3, <2>1
  <2>. QED  BY <1>3, <2>1, <2>2, <2>3
<1>6. Enumerates(rows, Len(rows), firsts, Arrival)
  BY <1>1, <1>3, <1>4, <1>5 DEF Enumerates
<1>. QED  BY <1>1, <1>6 DEF rows, firsts, answers

\* So what a request's rows are does not depend on how they were fetched.
LEMMA SameRows ==
  ASSUME PopulationInv, ArrivalsApart, NEW table, HoldsEarliest(table), NEW other,
         HoldsEarliest(other), NEW layer, NEW rid \in Nat \ {0}
  PROVE  Rows(table, layer, rid) = Rows(other, layer, rid)
<1>. DEFINE answers == {row \in window.rows : row.layer = layer /\ row.rid = rid}
            firsts == {row \in answers : \A x \in answers : x.who = row.who => row.seq <= x.seq}
<1>. SUFFICES ASSUME NEW f, f = Rows(table, layer, rid), NEW g, g = Rows(other, layer, rid)
              PROVE  f = g
  OBVIOUS
<1>1. Enumerates(f, Len(f), firsts, Arrival) /\ f = [i \in 1..Len(f) |-> f[i]]
  BY RowsInOrder
<1>2. Enumerates(g, Len(g), firsts, Arrival) /\ g = [i \in 1..Len(g) |-> g[i]]
  BY RowsInOrder
<1>. HIDE DEF firsts
<1>3. Smallest(firsts, firsts, Arrival)
  BY DEF Smallest
<1>4. Len(f) <= Len(g) /\ Len(g) <= Len(f)
  <2>1. Len(f) <= Len(g)
    BY <1>1, <1>2, <1>3, InitialPart
  <2>2. Len(g) <= Len(f)
    BY <1>1, <1>2, <1>3, InitialPart
  <2>. QED  BY <2>1, <2>2
<1>5. Len(f) \in Nat /\ Len(g) \in Nat
  BY <1>1, <1>2 DEF Enumerates
<1>6. Len(f) = Len(g)
  BY <1>4, <1>5
<1>7. ASSUME NEW i \in 1..Len(f) PROVE g[i] = f[i]
  BY <1>1, <1>2, <1>3, InitialPart
<1>. QED  BY <1>1, <1>2, <1>6, <1>7

LEMMA AllLoadedHolds == PopulationInv => HoldsEarliest(AllLoaded(window))
<1>. SUFFICES ASSUME PopulationInv PROVE HoldsEarliest(AllLoaded(window))
  OBVIOUS
<1>. DEFINE first(k) == CHOOSE row \in window.rows :
              Slot(row) = k /\ \A x \in window.rows : Slot(x) = k => row.seq <= x.seq
            K == {Slot(row) : row \in Recorded}
            table == AllLoaded(window)
<1>1. window.rows \subseteq Row /\ IsFiniteSet(window.rows)
  BY TablesAre DEF PopulationInv, IsTables
<1>2. table = [k \in K |-> [row |-> first(k), nth |-> 0]]
  BY DEF AllLoaded, Recorded
<1>3. IsFiniteSet(K)
  <2>. DEFINE slot == [row \in Recorded |-> Slot(row)]
  <2>1. K = {slot[row] : row \in Recorded}
    OBVIOUS
  <2>2. IsFiniteSet(Recorded)
    BY <1>1, FS_Subset DEF Recorded
  <2>. HIDE DEF slot, K
  <2>3. IsFiniteSet({slot[row] : row \in Recorded})
    BY <2>2, FiniteValues
  <2>. QED  BY <2>1, <2>3
<1>4. ASSUME NEW k \in K
      PROVE  /\ first(k) \in window.rows /\ Slot(first(k)) = k
             /\ \A x \in window.rows : Slot(x) = k => first(k).seq <= x.seq
  <2>. DEFINE S == {row \in window.rows : Slot(row) = k}
              before == {pair \in S \X S : pair[2].seq < pair[1].seq}
  <2>1. IsFiniteSet(S) /\ S # {}
    BY <1>1, FS_Subset DEF Recorded
  <2>2. \A x \in S : x.seq \in Nat
    BY <1>1 DEF Row
  <2>3. \A x, y \in S : <<x, y>> \in before <=> y.seq < x.seq
    OBVIOUS
  <2>. HIDE DEF before, S
  <2>4. IsRanking(before, S)
    BY <2>2, <2>3 DEF IsRanking
  <2>5. PICK m \in S : \A x \in S : <<m, x>> \notin before
    BY <2>1, <2>4, LastExists
  <2>6. ASSUME NEW x \in S PROVE m.seq <= x.seq
    <3>1. ~(x.seq < m.seq) /\ x.seq \in Nat /\ m.seq \in Nat
      BY <2>2, <2>3, <2>5
    <3>. QED  BY <3>1
  <2>7. m \in window.rows /\ Slot(m) = k /\ \A x \in window.rows : Slot(x) = k => m.seq <= x.seq
    BY <2>6 DEF S
  <2>. QED  BY <2>7
<1>5. \A k \in K : first(k) \in Recorded
  <2>1. \A k \in K : k[2] # 0
    BY DEF Recorded, Slot
  <2>. HIDE DEF first, K
  <2>2. \A k \in K : first(k).rid # 0
    BY <1>4, <2>1 DEF Slot
  <2>. QED  BY <1>4, <2>2 DEF Recorded
<1>6. \A row \in Recorded : Slot(row) \in K
  OBVIOUS
<1>7. \A row \in Recorded : row \in window.rows
  BY DEF Recorded
<1>. HIDE DEF first, K, table
<1>8. /\ DOMAIN table = K
      /\ \A k \in K : table[k] = [row |-> first(k), nth |-> 0] /\ table[k].row = first(k)
  BY <1>2
<1>9. table \in [K -> [row : Row, nth : Nat]]
  BY <1>1, <1>2, <1>4
<1>10. HoldsEarliest(table)
  BY <1>3, <1>4, <1>5, <1>6, <1>7, <1>8, <1>9 DEF HoldsEarliest
<1>. QED  BY <1>10 DEF table

LEMMA SameCompetition ==
  ASSUME PopulationInv, LoadedInv, FetchedAll, ArrivalsApart, NEW layer, NEW rid \in Nat \ {0}
  PROVE  Competition(window, loaded, layer, rid)
           = Competition(window, AllLoaded(window), layer, rid)
<1>1. HoldsEarliest(loaded) /\ HoldsEarliest(AllLoaded(window))
  BY LoadedHolds, AllLoadedHolds
<1>2. Rows(loaded, layer, rid) = Rows(AllLoaded(window), layer, rid)
  BY <1>1, SameRows
<1>. QED  BY <1>2 DEF Competition

(***************************************************************************)
(* Every match has a competition that the rule decided, unless a price of    *)
(* its order is broken, and a stream that ran to its end has a winner.      *)
(***************************************************************************)
AsDecided(n, competition) ==
  \/ PriceSuspect(Order_(n)) \/ Imbalanced(Order_(n))
  \/ Decided(window, Order_(n), competition)

DecidedInv ==
  window.byRule =>
    \A i \in DOMAIN matches :
      /\ AsDecided(matches[i].order, matches[i].competition)
      /\ matches[i].take.streamed /\ matches[i].take.complete => matches[i].competition.complete

LEMMA DecidedInit == Init => DecidedInv
BY DEF Init, DecidedInv

\* What the assumption says of the order in turn.
LEMMA RuleIs ==
  ASSUME PopulationInv, LoadedInv, FetchedAll, window.byRule, Head(todo) \in All
  PROVE  /\ \A c \in Candidates(window, loaded, Current) : AsDecided(Head(todo), c)
         /\ \A row \in Found(window, Current) :
              AsDecided(Head(todo), Competition(window, loaded, "raw", row.rid))
         /\ \A anchor \in Anchors(window, Current) :
              AsDecided(Head(todo), Requote(window, Current, anchor))
<1>1. RuleDecides(window)
  BY ByRuleAssumption DEF PopulationInv
<1>2. ArrivalsApart
  BY <1>1 DEF RuleDecides, ArrivalsApart
<1>3. \/ PriceSuspect(Current) \/ Imbalanced(Current)
      \/ /\ \A c \in Candidates(window, AllLoaded(window), Current) : Decided(window, Current, c)
         /\ \A row \in Found(window, Current) :
              Decided(window, Current, Competition(window, AllLoaded(window), "raw", row.rid))
         /\ \A anchor \in Anchors(window, Current) :
              Decided(window, Current, Requote(window, Current, anchor))
  BY <1>1 DEF RuleDecides, Current, Order_, All
<1>4. /\ \A rid \in DOMAIN window.requests : rid \in Nat \ {0}
      /\ window.rows \subseteq Row
  BY TablesAre DEF PopulationInv, IsTables
<1>5. Candidates(window, loaded, Current) = Candidates(window, AllLoaded(window), Current)
  <2>. DEFINE layer == IF Viable(window, Current, "gold") # {} THEN "gold" ELSE "raw"
              V == Viable(window, Current, layer)
  <2>1. \A rid \in V : rid \in Nat \ {0}
    BY <1>4 DEF Viable
  <2>2. /\ Candidates(window, loaded, Current) = {Competition(window, loaded, layer, rid) : rid \in V}
        /\ Candidates(window, AllLoaded(window), Current)
             = {Competition(window, AllLoaded(window), layer, rid) : rid \in V}
    BY DEF Candidates
  <2>. HIDE DEF V, layer
  <2>3. \A rid \in V : Competition(window, loaded, layer, rid)
                         = Competition(window, AllLoaded(window), layer, rid)
    BY <1>2, <2>1, SameCompetition
  <2>. QED  BY <2>2, <2>3
<1>6. ASSUME NEW row \in Found(window, Current)
      PROVE  Competition(window, loaded, "raw", row.rid)
               = Competition(window, AllLoaded(window), "raw", row.rid)
  <2>1. row.rid \in Nat \ {0}
    BY <1>4 DEF Found, Row
  <2>. QED  BY <1>2, <2>1, SameCompetition
<1>. QED  BY <1>3, <1>5, <1>6 DEF AsDecided, Current

LEMMA DecidedAdded ==
  ASSUME DecidedInv, LinkInv, window' = window, NEW match, matches' = Append(matches, match),
         window.byRule => AsDecided(match.order, match.competition),
         match.take.streamed /\ match.take.complete => match.competition.complete
  PROVE  DecidedInv'
<1>1. IsList(matches)
  BY DEF LinkInv, MatchInv
<1>2. /\ DOMAIN matches = 1..Len(matches) /\ Len(matches) \in Nat
      /\ DOMAIN matches' = 1..(Len(matches) + 1)
      /\ \A i \in 1..Len(matches) : matches'[i] = matches[i]
      /\ matches'[Len(matches) + 1] = match
  BY <1>1, ListIs, AppendIs
<1>3. ASSUME window.byRule, NEW i \in DOMAIN matches'
      PROVE  /\ AsDecided(matches'[i].order, matches'[i].competition)
             /\ matches'[i].take.streamed /\ matches'[i].take.complete
                  => matches'[i].competition.complete
  <2>1. CASE i \in 1..Len(matches)
    BY <1>2, <1>3, <2>1 DEF DecidedInv
  <2>2. CASE i = Len(matches) + 1
    BY <1>2, <1>3, <2>2
  <2>. QED  BY <1>2, <2>1, <2>2
<1>. QED  BY <1>3 DEF DecidedInv, AsDecided, Order_

LEMMA DecidedStays == DecidedInv /\ UNCHANGED <<window, matches>> => DecidedInv'
BY DEF DecidedInv, AsDecided, Order_

\* A loop over orders has one of the tables in turn.
LEMMA InTurn ==
  ASSUME PopulationInv, LinkInv, [Next]_vars, pc \in {"heuristic", "id", "requote"}, todo # <<>>,
         todo' = Tail(todo)
  PROVE  Head(todo) \in All
<1>1. /\ population \subseteq All /\ Linkable \subseteq population
      /\ ByHeuristic \subseteq Linkable /\ ById \subseteq Linkable
  BY OrdersAre
<1>2. CASE pc = "heuristic"
  <2>1. IsList(todo) /\ IsInjective(todo) /\ ToSet(todo) \subseteq ByHeuristic
    BY <1>2 DEF LinkInv, TodoInv
  <2>. QED  BY <1>1, <2>1, TakenFrom
<1>3. CASE pc \in {"id", "requote"}
  BY <1>1, <1>3, TurnIs
<1>. QED  BY <1>2, <1>3

LEMMA DecidedStep ==
  PopulationInv /\ LinkInv /\ LoadedInv /\ DecidedInv /\ [Next]_vars => DecidedInv'
<1>. SUFFICES ASSUME PopulationInv, LinkInv, LoadedInv, DecidedInv, [Next]_vars PROVE DecidedInv'
  OBVIOUS
<1>1. CASE MatchHeuristic
  <2>1. /\ FetchedAll /\ window' = window /\ pc = "heuristic" /\ todo # <<>> /\ todo' = Tail(todo)
    BY <1>1 DEF MatchHeuristic, FetchedAll
  <2>2. Head(todo) \in All
    BY <2>1, InTurn
  <2>. DEFINE C == Candidates(window, loaded, Current)
              tier(c) == IF Corroborated(Current, c) THEN "corroborated" ELSE "heuristic"
              match(c) == MatchedQuote(c, OneShot(c), tier(c), "heuristic")
  <2>3. CASE matches' = matches
    BY <2>1, <2>3, DecidedStays
  <2>4. CASE matches' # matches
    <3>1. PICK c \in Preferable(Current, C) : matches' = Append(matches, match(c))
      BY <1>1, <2>4 DEF MatchHeuristic
    <3>2. c \in C
      BY DEF Preferable
    <3>3. window.byRule => AsDecided(Head(todo), c)
      BY <2>1, <2>2, <3>2, RuleIs
    <3>4. match(c).order = Head(todo) /\ match(c).competition = c /\ ~match(c).take.streamed
      BY DEF MatchedQuote, OneShot
    <3>. HIDE DEF match
    <3>. QED  BY <2>1, <3>1, <3>3, <3>4, DecidedAdded
  <2>. QED  BY <2>3, <2>4
<1>2. CASE MatchById
  <2>1. /\ FetchedAll /\ window' = window /\ Found(window, Current) # {}
        /\ pc = "id" /\ todo # <<>> /\ todo' = Tail(todo)
    BY <1>2 DEF MatchById, FetchedAll
  <2>2. Head(todo) \in All
    BY <2>1, InTurn
  <2>3. CASE NotForwarded
    <3>1. matches' = matches
      BY <1>2, <2>3 DEF MatchById
    <3>. QED  BY <2>1, <3>1, DecidedStays
  <2>4. CASE ~NotForwarded
    <3>. DEFINE take == IF Streamed THEN StreamTake(arrived, Current, IdCompetition, IdPosition, IdForwarded)
                        ELSE OneShot(IdCompetition)
                match == MatchedQuote(IdCompetition, take, "corroborated", "quote-id")
    <3>1. matches' = Append(matches, match)
      BY <1>2, <2>4 DEF MatchById
    <3>2. window.byRule => AsDecided(Head(todo), IdCompetition)
      <4>1. IdRow \in Found(window, Current)
        BY <2>1 DEF IdRow
      <4>. QED  BY <2>1, <2>2, <4>1, RuleIs DEF IdCompetition
    <3>3. take.streamed /\ take.complete => IdCompetition.complete
      BY DEF StreamTake, OneShot
    <3>4. match.order = Head(todo) /\ match.competition = IdCompetition /\ match.take = take
      BY MatchedIs
    <3>. HIDE DEF match, take
    <3>. QED  BY <2>1, <3>1, <3>2, <3>3, <3>4, DecidedAdded
  <2>. QED  BY <2>3, <2>4
<1>3. CASE LinkRequote
  <2>1. window' = window /\ FetchedAll /\ pc = "requote" /\ todo # <<>> /\ todo' = Tail(todo)
    BY <1>3 DEF LinkRequote, FetchedAll
  <2>2. Head(todo) \in All
    BY <2>1, InTurn
  <2>. DEFINE match(anchor) == MatchedQuote(Requote(window, Current, anchor),
                OneShot(Requote(window, Current, anchor)), "corroborated", "requote")
  <2>3. PICK anchor \in Nearest(Current, Anchors(window, Current)) :
          matches' = Append(matches, match(anchor))
    BY <1>3 DEF LinkRequote
  <2>4. anchor \in Anchors(window, Current)
    BY DEF Nearest
  <2>5. window.byRule => AsDecided(Head(todo), Requote(window, Current, anchor))
    BY <2>1, <2>2, <2>4, RuleIs
  <2>6. /\ match(anchor).order = Head(todo) /\ ~match(anchor).take.streamed
        /\ match(anchor).competition = Requote(window, Current, anchor)
    BY DEF MatchedQuote, OneShot
  <2>. HIDE DEF match
  <2>. QED  BY <2>1, <2>3, <2>5, <2>6, DecidedAdded
<1>4. CASE Populate \/ Fetch \/ StartHeuristic \/ StartById \/ DeferToRequote
  BY <1>4, DecidedStays DEF Populate, Fetch, StartHeuristic, StartById, DeferToRequote, linked
<1>5. CASE StartRequotes \/ LeaveUnlinked \/ StartValidation \/ Validate
  BY <1>5, DecidedStays DEF StartRequotes, LeaveUnlinked, StartValidation, Validate, linked
<1>6. CASE StartAnalysis \/ Add \/ Returned \/ UNCHANGED vars
  BY <1>6, DecidedStays DEF StartAnalysis, Add, Returned, vars, linked
<1>. QED  BY <1>1, <1>2, <1>3, <1>4, <1>5, <1>6 DEF Next

\* Every answer has a class and an integer key.
LEMMA RequestKeys ==
  ASSUME NEW q, IsRequest(q)
  PROVE  /\ Len(q.ladder) \in Nat /\ DOMAIN q.ladder = 1..Len(q.ladder)
         /\ \A i \in DOMAIN q.ladder : Key(q, i) \in Int
<1>1. Len(q.ladder) \in Nat /\ DOMAIN q.ladder = 1..Len(q.ladder)
  BY DEF IsRequest
<1>2. ASSUME NEW i \in DOMAIN q.ladder
      PROVE  Key(q, i) \in Int
  <2>1. q.ladder[i] \in Estimate
    BY DEF IsRequest
  <2>2. /\ q.ladder[i].out \in Nat /\ q.ladder[i].gas \in Nat
        /\ q.in \in Nat \ {0} /\ q.gasPrice \in Nat
        /\ q.sellPrice \in Nat \ {0} /\ q.buyPrice \in Nat
    BY <2>1 DEF Estimate, IsRequest
  <2>3. /\ GasWei(q, i) \in Nat /\ InWei(q) \in Nat \ {0}
        /\ q.ladder[i].out * q.buyPrice \in Nat /\ q.ladder[i].out * q.sellPrice \in Nat
    BY <2>2 DEF GasWei, InWei
  <2>4. AutopilotKey(q, i) \in Int
    BY <2>3 DEF AutopilotKey
  <2>5. EffectiveKey(q, i) \in Int
    <3>1. \A x \in Int, d \in Nat \ {0} : x \div d \in Int
      OBVIOUS
    <3>2. /\ q.ladder[i].out * (InWei(q) - GasWei(q, i)) \in Int
          /\ q.ladder[i].out * q.sellPrice + GasWei(q, i) \in Int
      BY <2>2, <2>3
    <3>3. /\ (q.ladder[i].out * (InWei(q) - GasWei(q, i))) \div InWei(q) \in Int
          /\ (q.ladder[i].out * q.sellPrice + GasWei(q, i)) \div q.sellPrice \in Int
      BY <2>2, <2>3, <3>1, <3>2
    <3>. QED  BY <3>3 DEF EffectiveKey
  <2>. QED  BY <2>4, <2>5 DEF Key
<1>. QED  BY <1>1, <1>2

LEMMA PickIsPreferred ==
  ASSUME NEW q, IsRequest(q), Preferred(q, DOMAIN q.ladder) # {}
  PROVE  Pick(q, DOMAIN q.ladder) \in Preferred(q, DOMAIN q.ladder)
<1>. DEFINE P == Preferred(q, DOMAIN q.ladder)
            better(k, i) == Key(q, k) > Key(q, i) \/ (Key(q, k) = Key(q, i) /\ k < i)
            before == {pair \in P \X P : better(pair[2], pair[1])}
<1>1. P \subseteq DOMAIN q.ladder
  BY DEF Preferred, Usable
<1>2. Len(q.ladder) \in Nat /\ DOMAIN q.ladder = 1..Len(q.ladder)
  BY RequestKeys
<1>3. IsFiniteSet(P)
  <2>1. IsFiniteSet(1..Len(q.ladder))
    BY <1>2, FS_Interval
  <2>. QED  BY <1>1, <1>2, <2>1, FS_Subset
<1>4. \A i \in P : i \in Int /\ Key(q, i) \in Int
  BY <1>1, <1>2, RequestKeys
<1>5. \A i, k \in P : <<i, k>> \in before <=> better(k, i)
  OBVIOUS
<1>. HIDE DEF P, before
<1>6. IsRanking(before, P)
  BY <1>4, <1>5 DEF IsRanking
<1>7. PICK i \in P : \A k \in P : <<i, k>> \notin before
  BY <1>3, <1>6, LastExists DEF P
<1>8. IsFirstBest(q, P, i)
  <2>1. ASSUME NEW k \in P
        PROVE  Key(q, k) <= Key(q, i) /\ (Key(q, k) = Key(q, i) => i <= k)
    <3>1. ~better(k, i)
      BY <1>5, <1>7
    <3>. QED  BY <1>4, <3>1
  <2>. QED  BY <2>1 DEF IsFirstBest
<1>9. Pick(q, DOMAIN q.ladder) = CHOOSE k \in P : IsFirstBest(q, P, k)
  BY DEF Pick, P
<1>. QED  BY <1>8, <1>9 DEF P

TallyOf == IF Match.order \in Suspects \/ Winner = 0 THEN Counts ELSE PickTally

LEMMA TalliesAreCounts == TallyOf \in [Tally -> Nat]
<1>1. \A c : One(c) \in Nat
  BY DEF One
<1>2. Counts \in [Tally -> Nat]
  BY <1>1 DEF Counts, Tally
<1>3. PickTally \in [Tally -> Nat]
  BY <1>1, <1>2 DEF PickTally, Tally
<1>. QED  BY <1>2, <1>3 DEF TallyOf

\* A stream that is due sent what its replay sends.
LEMMA ReplaysAgree ==
  ASSUME DecidedInv, window.byRule, Head(todo) \in DOMAIN matches,
         Decided(window, Order_(Match.order), Match.competition), ReplayDue
  PROVE  Replayed
<1>. DEFINE D == DOMAIN Request.ladder
            sent == Sent(Request, D)
            forwarded == ForwardedOf(Match)
<1>1. IsRequest(Request) /\ Len(forwarded) >= 2
  BY DEF Decided, Request, ReplayDue
<1>2. PICK m \in 0..Len(Request.ladder) :
        /\ forwarded = InOrder({i \in sent : i <= m})
        /\ Match.competition.complete => m = Len(Request.ladder)
  BY <1>1 DEF Decided, Request, ForwardedOf
<1>3. Len(Request.ladder) \in Nat /\ D = 1..Len(Request.ladder)
  BY <1>1, RequestKeys
<1>4. sent \subseteq D
  BY DEF Sent
<1>5. sent \in SUBSET Int /\ IsFiniteSet(sent) /\ m \in Int
  <2>1. IsFiniteSet(1..Len(Request.ladder))
    BY <1>3, FS_Interval
  <2>2. sent \in SUBSET (1..Len(Request.ladder))
    BY <1>3, <1>4
  <2>. HIDE DEF sent, D
  <2>3. IsFiniteSet(sent)
    BY <2>1, <2>2, FS_Subset
  <2>4. m \in Int
    BY <1>2, <1>3
  <2>. QED  BY <2>2, <2>3, <2>4
<1>. HIDE DEF sent, D
<1>6. IsPrefix(forwarded, InOrder(sent))
  BY <1>2, <1>5, SentBefore
<1>7. Match.take.complete => Len(InOrder(sent)) = Len(forwarded)
  <2>1. SUFFICES ASSUME Match.take.complete PROVE Len(InOrder(sent)) = Len(forwarded)
    OBVIOUS
  <2>2. Match.competition.complete
    BY <2>1 DEF DecidedInv, Match, ReplayDue
  <2>3. \A i \in sent : i <= m
    BY <1>2, <1>3, <1>4, <2>2
  <2>4. {i \in sent : i <= m} = sent
    BY <2>3
  <2>. QED  BY <1>2, <2>4
<1>. QED  BY <1>6, <1>7 DEF Replayed, sent, D

\* What the validation counts of one match is no deviation.
LEMMA TallyAccusesNobody ==
  ASSUME PopulationInv, LinkInv, DecidedInv, window.byRule, pc = "validate",
         Head(todo) \in DOMAIN matches
  PROVE  /\ TallyOf["disagreements"] = 0 /\ TallyOf["tieMismatches"] = 0
         /\ TallyOf["streamsReproduced"] = TallyOf["streams"]
         /\ TallyOf["mixedCorrect"] = TallyOf["mixed"]
<1>1. CASE Match.order \in Suspects
  BY <1>1 DEF TallyOf, Counts, Tally, One
<1>2. CASE Match.order \notin Suspects
  <2>1. Match.order \in population
    <3>1. /\ Linkable \subseteq population /\ ByHeuristic \subseteq Linkable
          /\ ById \subseteq Linkable
      BY OrdersAre
    <3>. QED  BY <3>1 DEF Match, LinkInv, MatchInv
  <2>2. Decided(window, Order_(Match.order), Match.competition)
    BY <1>2, <2>1 DEF Suspects, DecidedInv, AsDecided, Match
  <2>3. ReplayDue => Replayed
    BY <2>2, ReplaysAgree
  <2>4. /\ Counts["disagreements"] = 0 /\ Counts["tieMismatches"] = 0
        /\ Counts["mixedCorrect"] = 0 /\ Counts["mixed"] = 0
        /\ Counts["streamsReproduced"] = Counts["streams"]
    BY <1>2, <2>3 DEF Counts, Tally, One
  <2>5. CASE Winner = 0
    BY <2>4, <2>5 DEF TallyOf
  <2>6. CASE Winner # 0
    <3>. DEFINE D == DOMAIN Request.ladder
                mixed == Verified # {} /\ Verified # Usable(Request, D)
    <3>1. /\ IsRequest(Request) /\ ~Unpriced(Request)
          /\ Winner = Pick(Request, D)
      BY <2>2, <2>6 DEF Decided, Request, Winner
    <3>2. mixed => Winner \in Verified
      <4>1. Verified # {} => Preferred(Request, D) = Verified
        BY DEF Preferred, Verified
      <4>. QED  BY <3>1, <4>1, PickIsPreferred
    <3>3. DOMAIN Counts = Tally
      BY DEF Counts
    <3>4. /\ PickTally["disagreements"] = 0 /\ PickTally["tieMismatches"] = 0
          /\ PickTally["streamsReproduced"] = Counts["streamsReproduced"]
          /\ PickTally["streams"] = Counts["streams"]
          /\ PickTally["mixedCorrect"] = One(mixed /\ Winner \in Verified)
          /\ PickTally["mixed"] = One(mixed)
      BY <3>1, <3>3 DEF PickTally, Tally, One
    <3>5. TallyOf = PickTally
      BY <1>2, <2>6 DEF TallyOf
    <3>. QED  BY <2>4, <3>2, <3>4, <3>5 DEF One
  <2>. QED  BY <2>5, <2>6
<1>. QED  BY <1>1, <1>2

ValidationInv ==
  /\ pc = "validate" => todo \in Seq(DOMAIN matches)
  /\ validation \in [Tally -> Nat]
  /\ RuleAccusesNobody

LEMMA ValidationInit == Init => ValidationInv
BY DEF Init, ValidationInv, RuleAccusesNobody, Tally

LEMMA ValidationStep ==
  PopulationInv /\ LinkInv /\ DecidedInv /\ ValidationInv /\ [Next]_vars => ValidationInv'
<1>. SUFFICES ASSUME PopulationInv, LinkInv, DecidedInv, ValidationInv, [Next]_vars
              PROVE  ValidationInv'
  OBVIOUS
<1>1. ASSUME pc' # "validate", UNCHANGED <<validation>>, window' = window
      PROVE  ValidationInv'
  BY <1>1 DEF ValidationInv, RuleAccusesNobody
<1>2. CASE Populate \/ Fetch \/ StartHeuristic \/ MatchHeuristic \/ StartById
  BY <1>1, <1>2 DEF Populate, Fetch, StartHeuristic, MatchHeuristic, StartById, checked
<1>3. CASE MatchById \/ DeferToRequote \/ StartRequotes \/ LinkRequote \/ LeaveUnlinked
  BY <1>1, <1>3 DEF MatchById, DeferToRequote, StartRequotes, LinkRequote, LeaveUnlinked, checked
<1>4. CASE StartValidation
  <2>1. /\ todo' = [i \in DOMAIN matches |-> i]
        /\ UNCHANGED <<window, matches, validation>>
    BY <1>4 DEF StartValidation, linked, checked
  <2>2. DOMAIN matches = 1..Len(matches) /\ Len(matches) \in Nat
    BY ListIs DEF LinkInv, MatchInv
  <2>3. todo' \in Seq(DOMAIN matches)
    BY <2>1, <2>2
  <2>. QED  BY <2>1, <2>3 DEF ValidationInv, RuleAccusesNobody
<1>5. CASE Validate
  <2>1. /\ pc = "validate" /\ todo # <<>> /\ todo' = Tail(todo)
        /\ validation' = [t \in Tally |-> validation[t] + TallyOf[t]]
        /\ UNCHANGED <<window, pc, matches>>
    BY <1>5 DEF Validate, linked, TallyOf
  <2>2. /\ Head(todo) \in DOMAIN matches /\ todo' \in Seq(DOMAIN matches)
    BY <2>1 DEF ValidationInv
  <2>3. TallyOf \in [Tally -> Nat] /\ validation \in [Tally -> Nat]
    BY TalliesAreCounts DEF ValidationInv
  <2>4. validation' \in [Tally -> Nat]
    BY <2>1, <2>3
  <2>5. ASSUME window.byRule PROVE RuleAccusesNobody'
    <3>1. /\ TallyOf["disagreements"] = 0 /\ TallyOf["tieMismatches"] = 0
          /\ TallyOf["streamsReproduced"] = TallyOf["streams"]
          /\ TallyOf["mixedCorrect"] = TallyOf["mixed"]
      BY <2>1, <2>2, <2>5, TallyAccusesNobody
    <3>2. /\ validation["disagreements"] = 0 /\ validation["tieMismatches"] = 0
          /\ validation["streamsReproduced"] = validation["streams"]
          /\ validation["mixedCorrect"] = validation["mixed"]
      BY <2>5 DEF ValidationInv, RuleAccusesNobody
    <3>3. {"disagreements", "tieMismatches", "streamsReproduced", "streams", "mixedCorrect",
           "mixed"} \subseteq Tally
      BY DEF Tally
    <3>. HIDE DEF TallyOf
    <3>. QED  BY <2>1, <3>1, <3>2, <3>3 DEF RuleAccusesNobody
  <2>6. RuleAccusesNobody'
    BY <2>1, <2>5 DEF RuleAccusesNobody
  <2>. QED  BY <2>1, <2>2, <2>4, <2>6 DEF ValidationInv
<1>6. CASE StartAnalysis \/ Add
  BY <1>1, <1>6 DEF StartAnalysis, Add, checked
<1>7. CASE Returned \/ UNCHANGED vars
  BY <1>7 DEF Returned, vars, ValidationInv, RuleAccusesNobody
<1>. QED  BY <1>2, <1>3, <1>4, <1>5, <1>6, <1>7 DEF Next

\* Where the rule itself decided the competitions, the validation reports no deviation:
\* not for a stream that was dropped, a row that was written twice, an order with a
\* broken price, or an answer the user took before the winner came (validate_picks).
THEOREM RuleIsNotAccused == Spec => []RuleAccusesNobody
<1>1. Spec => [](PopulationInv /\ LinkInv /\ LoadedInv /\ DecidedInv)
  BY DecidedInit, DecidedStep, LinkInductive, LoadedInductive, PTL DEF Spec
<1>2. Spec => []ValidationInv
  BY <1>1, ValidationInit, ValidationStep, PTL DEF Spec
<1>3. ValidationInv => RuleAccusesNobody
  BY DEF ValidationInv
<1>. QED  BY <1>2, <1>3, PTL

=============================================================================
