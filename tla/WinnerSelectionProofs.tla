------------------------ MODULE WinnerSelectionProofs ------------------------
(***************************************************************************)
(* Facts about the order bids are walked in, the greedy pick and the        *)
(* fairness filter, for auctions of any size.                               *)
(***************************************************************************)
EXTENDS WinnerSelection, FiniteSetTheorems, WellFoundedInduction, TLAPS

\* A set of bids is finite, as part of Uid.
LEMMA BidsFinite ==
  ASSUME NEW W, W \subseteq Uid
  PROVE  IsFiniteSet(W) /\ Cardinality(W) \in Nat
BY WinnerSelectionAssumption, FS_Subset, FS_CardinalityType

\* Of two bids at most one is walked before the other.
LEMMA BeforeAsymmetric ==
  ASSUME NEW b, IsAuction(b), NEW T, NEW u \in DOMAIN b, NEW v \in DOMAIN b,
         Before(b, T, u, v)
  PROVE  ~Before(b, T, v, u)
<1>1. u \in Nat /\ v \in Nat /\ b[u].total \in Nat /\ b[v].total \in Nat
  BY WinnerSelectionAssumption DEF IsAuction, IsSolution
<1>. QED  BY <1>1 DEF Before

\* Of two different bids one is walked before the other.
LEMMA BeforeTotal ==
  ASSUME NEW b, IsAuction(b), NEW T, NEW u \in DOMAIN b, NEW v \in DOMAIN b, u # v
  PROVE  Before(b, T, u, v) \/ Before(b, T, v, u)
<1>1. u \in Nat /\ v \in Nat /\ b[u].total \in Nat /\ b[v].total \in Nat
  BY WinnerSelectionAssumption DEF IsAuction, IsSolution
<1>. QED  BY <1>1 DEF Before

\* The order is transitive.
LEMMA BeforeTransitive ==
  ASSUME NEW b, IsAuction(b), NEW T,
         NEW u \in DOMAIN b, NEW v \in DOMAIN b, NEW w \in DOMAIN b,
         Before(b, T, u, v), Before(b, T, v, w)
  PROVE  Before(b, T, u, w)
<1>1. /\ u \in Nat /\ v \in Nat /\ w \in Nat
      /\ b[u].total \in Nat /\ b[v].total \in Nat /\ b[w].total \in Nat
  BY WinnerSelectionAssumption DEF IsAuction, IsSolution
<1>. QED  BY <1>1 DEF Before

LEMMA LeastNatural ==
  ASSUME NEW N, N \subseteq Nat, N # {}
  PROVE  \E n \in N : \A m \in N : n <= m
<1>. DEFINE R == OpToRel(<, Nat)
<1>1. IsWellFoundedOn(R, Nat)
  BY NatLessThanWellFounded
<1>2. PICK n \in N : \A m \in N : <<m, n>> \notin R
  <2>. HIDE DEF R
  <2>. QED  BY <1>1, WFMin
<1>3. \A m \in N : ~(m < n)
  BY <1>2 DEF OpToRel
<1>. QED  BY <1>3

\* Some bid of a nonempty list comes first: the one with the fewest before it.
LEMMA FirstExists ==
  ASSUME NEW b, IsAuction(b), NEW T, NEW S, S \subseteq DOMAIN b, S # {}
  PROVE  \E u \in S : \A v \in S : ~Before(b, T, v, u)
<1>. DEFINE ahead(u) == {v \in S : Before(b, T, v, u)}
            ranks == {Cardinality(ahead(u)) : u \in S}
<1>1. \A u \in S : IsFiniteSet(ahead(u)) /\ Cardinality(ahead(u)) \in Nat
  BY BidsFinite DEF IsAuction
<1>2. ranks \subseteq Nat /\ ranks # {}
  BY <1>1
<1>3. PICK n \in ranks : \A m \in ranks : n <= m
  <2>. HIDE DEF ranks
  <2>. QED  BY <1>2, LeastNatural
<1>4. PICK u \in S : n = Cardinality(ahead(u))
  BY <1>3
<1>5. ASSUME NEW v \in S, Before(b, T, v, u)
      PROVE  FALSE
  <2>1. ahead(v) \subseteq ahead(u)
    BY <1>5, BeforeTransitive
  <2>2. v \in ahead(u) \ ahead(v)
    BY <1>5, BeforeAsymmetric
  <2>3. Cardinality(ahead(v)) <= Cardinality(ahead(u)) /\ Cardinality(ahead(v)) # Cardinality(ahead(u))
    <3>. HIDE DEF ahead
    <3>. QED  BY <1>1, <2>1, <2>2, FS_Subset
  <2>4. Cardinality(ahead(u)) <= Cardinality(ahead(v))
    BY <1>3, <1>4
  <2>. QED  BY <1>1, <2>3, <2>4
<1>. QED  BY <1>4, <1>5

----------------------------------------------------------------------------
(* The greedy pick *)

\* No two bids of a pick claim the same pair.
LEMMA PickDisjoint ==
  ASSUME NEW b, IsAuction(b), NEW T, NEW C, C \subseteq DOMAIN b, NEW W,
         IsPick(b, T, C, W)
  PROVE  \A u, v \in W : u # v => Disjoint(b, u, v)
<1>. SUFFICES ASSUME NEW u \in W, NEW v \in W, u # v
              PROVE  Disjoint(b, u, v)
  OBVIOUS
<1>1. u \in C /\ v \in C /\ u \in DOMAIN b /\ v \in DOMAIN b
  BY DEF IsPick
<1>2. Free(b, T, W, u) /\ Free(b, T, W, v)
  BY <1>1 DEF IsPick
<1>3. CASE Before(b, T, u, v)
  BY <1>2, <1>3 DEF Free
<1>4. CASE Before(b, T, v, u)
  BY <1>2, <1>4 DEF Free, Disjoint
<1>. QED  BY <1>1, <1>3, <1>4, BeforeTotal

\* Bids that did not win can be taken out of the auction, or put in if they
\* would not win, without any effect on the winners.
LEMMA PickIgnoresLosers ==
  ASSUME NEW b, NEW T, NEW C, NEW D, NEW W,
         IsPick(b, T, C, W), W \subseteq D, D \subseteq C
  PROVE  IsPick(b, T, D, W)
BY DEF IsPick

\* A pick depends on nothing but the bids it is made among.
LEMMA PickAgrees ==
  ASSUME NEW b, NEW c, NEW T, NEW C, \A u \in C : b[u] = c[u],
         NEW W, IsPick(b, T, C, W)
  PROVE  IsPick(c, T, C, W)
<1>1. W \subseteq C
  BY DEF IsPick
<1>2. \A u, v \in C : /\ Before(b, T, u, v) <=> Before(c, T, u, v)
                      /\ Disjoint(b, u, v) <=> Disjoint(c, u, v)
  BY DEF Before, Disjoint
<1>3. ASSUME NEW u \in C
      PROVE  Free(b, T, W, u) <=> Free(c, T, W, u)
  <2>1. {w \in W : Before(b, T, w, u)} = {w \in W : Before(c, T, w, u)}
    BY <1>1, <1>2
  <2>2. \A w \in W : Disjoint(b, w, u) <=> Disjoint(c, w, u)
    BY <1>1, <1>2
  <2>. QED  BY <2>1, <2>2 DEF Free
<1>. QED  BY <1>1, <1>3 DEF IsPick

\* There is only one greedy pick: the first bid two picks could disagree about
\* meets the same winners in both.
LEMMA PickUnique ==
  ASSUME NEW b, IsAuction(b), NEW T, NEW C, C \subseteq DOMAIN b,
         NEW V, IsPick(b, T, C, V), NEW W, IsPick(b, T, C, W)
  PROVE  V = W
<1>. DEFINE D == (V \ W) \cup (W \ V)
<1>. SUFFICES ASSUME D # {} PROVE FALSE
  OBVIOUS
<1>1. V \subseteq C /\ W \subseteq C /\ D \subseteq DOMAIN b
  BY DEF IsPick
<1>2. PICK u \in D : \A v \in D : ~Before(b, T, v, u)
  <2>. HIDE DEF D
  <2>. QED  BY <1>1, FirstExists
<1>3. {w \in V : Before(b, T, w, u)} = {w \in W : Before(b, T, w, u)}
  BY <1>2
<1>4. Free(b, T, V, u) <=> Free(b, T, W, u)
  BY <1>3 DEF Free
<1>. QED  BY <1>1, <1>2, <1>4 DEF IsPick

\* Walked winners first, the candidates without the bids X are won by all the
\* winners outside X, and maybe others.
LEMMA PickKeepsWinners ==
  ASSUME NEW b, IsAuction(b), NEW C, C \subseteq DOMAIN b, NEW W,
         IsPick(b, {}, C, W),
         NEW X, NEW V, IsPick(b, W, C \ X, V)
  PROVE  W \ X \subseteq V
<1>. SUFFICES ASSUME NEW u \in W \ X
              PROVE  u \in V
  OBVIOUS
<1>. DEFINE headV == {w \in V : Before(b, W, w, u)}
            headW == {w \in W : Before(b, {}, w, u)}
<1>1. u \in C \ X /\ u \in C /\ W \subseteq C
  BY DEF IsPick
<1>2. headV \subseteq headW
  BY DEF Before
<1>3. Free(b, {}, W, u)
  BY <1>1 DEF IsPick
<1>4. Cardinality(headV) < MaxWinners
  <2>1. headW \subseteq Uid
    BY <1>1 DEF IsAuction
  <2>2. Cardinality(headV) <= Cardinality(headW)
    BY <2>1, <1>2, BidsFinite, FS_Subset
  <2>3. Cardinality(headW) < MaxWinners
    BY <1>3 DEF Free
  <2>4. Cardinality(headV) \in Nat /\ Cardinality(headW) \in Nat
    BY <2>1, <1>2, BidsFinite
  <2>. QED  BY <2>2, <2>3, <2>4, WinnerSelectionAssumption
<1>5. \A w \in headV : Disjoint(b, w, u)
  BY <1>2, <1>3 DEF Free
<1>6. Free(b, W, V, u)
  BY <1>4, <1>5 DEF Free
<1>. QED  BY <1>1, <1>6 DEF IsPick

----------------------------------------------------------------------------
(* The fairness filter *)

\* What remains without some of the solvers is an auction.
LEMMA WithoutAuction ==
  ASSUME NEW b, IsAuction(b), NEW R
  PROVE  /\ IsAuction(Without(b, R))
         /\ DOMAIN Without(b, R) \subseteq DOMAIN b
         /\ \A u \in DOMAIN Without(b, R) : Without(b, R)[u] = b[u]
BY DEF IsAuction, Without

\* Baselines are numbers.
LEMMA BaselineNat ==
  ASSUME NEW b, IsAuction(b), NEW base, IsBaseline(b, base), NEW p \in Pair
  PROVE  base[p] \in Nat
<1>. DEFINE worth == {0} \cup {b[u].total : u \in {v \in DOMAIN b : SetsBaseline(b, v, p)}}
<1>1. base[p] \in worth
  BY DEF IsBaseline
<1>2. worth \subseteq Nat
  BY DEF IsAuction, IsSolution
<1>. QED  BY <1>1, <1>2

\* Comparing with the baseline is comparing with every bid on one pair alone.
LEMMA BeatenByBaseline ==
  ASSUME NEW b, IsAuction(b), NEW base, IsBaseline(b, base), NEW u \in DOMAIN b,
         NEW p \in Traded(b[u])
  PROVE  ~FairOn(b[u], p, base) <=> \E v \in DOMAIN b : Beats(b, v, u, p)
<1>. DEFINE worth == {0} \cup {b[v].total : v \in {w \in DOMAIN b : SetsBaseline(b, w, p)}}
<1>1. IsSolution(b[u]) /\ p \in Pair
  BY DEF IsAuction, IsSolution, IsPairValues, Traded
<1>2. Worth(b[u], p) \in Nat
  BY <1>1 DEF IsSolution, IsPairValues, Traded, Worth
<1>3. base[p] \in worth /\ \A x \in worth : x <= base[p]
  BY <1>1 DEF IsBaseline
<1>4. base[p] \in Nat /\ \A v \in DOMAIN b : b[v].total \in Nat
  BY <1>1, BaselineNat DEF IsAuction, IsSolution
<1>5. ASSUME FairOn(b[u], p, base), NEW v \in DOMAIN b, SetsBaseline(b, v, p)
      PROVE  ~(b[v].total > Worth(b[u], p))
  BY <1>2, <1>3, <1>4, <1>5 DEF FairOn
<1>6. ASSUME ~FairOn(b[u], p, base)
      PROVE  \E v \in DOMAIN b : Beats(b, v, u, p)
  <2>1. base[p] > Worth(b[u], p) /\ base[p] # 0
    BY <1>2, <1>4, <1>6 DEF FairOn
  <2>. QED  BY <1>3, <2>1 DEF Beats
<1>. QED  BY <1>5, <1>6 DEF Beats

\* The verdicts of the loops are those of the definitions without loops.
LEMMA FairByBaseline ==
  ASSUME NEW b, IsAuction(b), NEW base, IsBaseline(b, base), NEW u \in DOMAIN b
  PROVE  IsFair(b[u], base) <=> Fair(b, u)
BY BeatenByBaseline DEF IsFair, Fair

LEMMA ProxiedByBaseline ==
  ASSUME NEW b, IsAuction(b), NEW base, IsBaseline(b, base), NEW u \in DOMAIN b
  PROVE  FilterProxied(b[u], base) <=>
           \E p \in Traded(b[u]) \ DOMAIN b[u].score, v \in DOMAIN b : Beats(b, v, u, p)
BY BeatenByBaseline DEF FilterProxied

\* Without some of the solvers no baseline is higher.
LEMMA BaselinesFall ==
  ASSUME NEW b, IsAuction(b), NEW R,
         NEW high, IsBaseline(b, high), NEW low, IsBaseline(Without(b, R), low)
  PROVE  \A p \in Pair : low[p] <= high[p]
<1>. SUFFICES ASSUME NEW p \in Pair
              PROVE  low[p] <= high[p]
  OBVIOUS
<1>. DEFINE worth(c) == {0} \cup {c[u].total : u \in {v \in DOMAIN c : SetsBaseline(c, v, p)}}
<1>1. low[p] \in worth(Without(b, R)) /\ \A x \in worth(b) : x <= high[p]
  BY DEF IsBaseline
<1>2. worth(Without(b, R)) \subseteq worth(b)
  BY DEF Without, SetsBaseline
<1>. QED  BY <1>1, <1>2

\* A bid that is fair stays fair when solvers leave: leave_one_out can relax
\* the filter and never tighten it, so RelaxationError is unreachable.
THEOREM FilterRelaxes ==
  ASSUME NEW b, IsAuction(b), NEW R,
         NEW high, IsBaseline(b, high), NEW low, IsBaseline(Without(b, R), low),
         NEW u \in DOMAIN b, IsFair(b[u], high)
  PROVE  IsFair(b[u], low)
<1>1. CASE Cardinality(Traded(b[u])) = 1
  BY <1>1 DEF IsFair
<1>2. CASE \A p \in Traded(b[u]) : FairOn(b[u], p, high)
  <2>. SUFFICES ASSUME NEW p \in Traded(b[u])
                PROVE  FairOn(b[u], p, low)
    BY DEF IsFair
  <2>1. p \in Pair /\ Worth(b[u], p) \in Int
    BY DEF Traded, Worth, IsAuction, IsSolution, IsPairValues
  <2>2. Worth(b[u], p) >= high[p]
    BY <1>2 DEF FairOn
  <2>3. low[p] <= high[p]
    BY <2>1, BaselinesFall
  <2>4. high[p] \in Int /\ low[p] \in Int
    BY <2>1, BaselineNat, WithoutAuction
  <2>. QED  BY <2>1, <2>2, <2>3, <2>4 DEF FairOn
<1>. QED  BY <1>1, <1>2 DEF IsFair

\* The same fact of the filter without its baselines: what is fair stays fair when
\* other solvers leave.
LEMMA FairStaysFair ==
  ASSUME NEW b, NEW R, NEW u \in FairBids(b), b[u].solver \notin R
  PROVE  u \in FairBids(Without(b, R))
<1>. DEFINE c == Without(b, R)
<1>1. /\ u \in DOMAIN b /\ b[u].total # 0 /\ Fair(b, u)
      /\ u \in DOMAIN c /\ c[u] = b[u]
  BY DEF FairBids, Without
<1>2. \A v \in DOMAIN c : v \in DOMAIN b /\ c[v] = b[v]
  BY DEF Without
<1>3. Fair(c, u)
  <2>. HIDE DEF c
  <2>. QED  BY <1>1, <1>2 DEF Fair, Beats, SetsBaseline
<1>. QED  BY <1>1, <1>3 DEF FairBids
=============================================================================
