--------------------------- MODULE WinnerSelection ---------------------------
(***************************************************************************)
(* The vocabulary of CoW's combinatorial auction as loo/winner_selection.py *)
(* computes it: bids, the order they are walked in, the fairness filter and *)
(* the greedy pick.  Everything here is a constant-level definition; the    *)
(* loops that compute it are the actions of module Arbitration.             *)
(***************************************************************************)
EXTENDS Integers, FiniteSets

CONSTANTS
  Uid,         \* solution_uid: positions in the recorded competition
  Solver,      \* submission addresses
  Pair,        \* directed token pairs
  MaxWinners   \* primitives.MAX_WINNERS

ASSUME WinnerSelectionAssumption ==
  /\ Uid \subseteq Nat
  /\ IsFiniteSet(Uid) /\ IsFiniteSet(Pair)
  /\ MaxWinners \in Nat

\* A value for some of the pairs (a Python dict keyed by pair).
IsPairValues(f) == DOMAIN f \subseteq Pair /\ \A p \in DOMAIN f : f[p] \in Nat

(***************************************************************************)
(* One valued bid.  `surplus' is pair_values, `score' is pair_scores (known *)
(* for some pairs only) and `claims' is winner_pairs, which covers every    *)
(* order and may be wider or (ETH against WETH) coarser than the domain of  *)
(* `surplus'.  `truth' is in no record of the program: it is the score the  *)
(* protocol gave each pair, which `score' and `surplus' approximate.        *)
(***************************************************************************)
IsSolution(s) ==
  /\ s.solver \in Solver
  /\ s.total \in Nat
  /\ IsPairValues(s.surplus) /\ IsPairValues(s.score) /\ IsPairValues(s.truth)
  /\ s.claims \subseteq Pair

\* The bids of an auction: some of the uids, each with its solution.
IsAuction(b) == DOMAIN b \subseteq Uid /\ \A u \in DOMAIN b : IsSolution(b[u])

Traded(s) == DOMAIN s.surplus

Bidders(b, W) == {b[u].solver : u \in W}

\* leave_one_out: every solution of a removed solver goes.
Without(b, R) == [u \in {v \in DOMAIN b : b[v].solver \notin R} |-> b[u]]

----------------------------------------------------------------------------
(* The fairness filter. *)

\* A single-pair solution puts its whole total on its pair.
SetsBaseline(b, u, p) == Traded(b[u]) = {p}

\* Fault: an unknown score falls back to the bid's whole total.
WorthOfTotal(s, p) == IF p \in DOMAIN s.score THEN s.score[p] ELSE s.total

\* What the filter compares: the score where it is known, else the surplus.
Worth(s, p) == IF p \in DOMAIN s.score THEN s.score[p] ELSE s.surplus[p]

\* The comparison of one pair, PairComparison.fair.
FairOn(s, p, base) == Worth(s, p) >= base[p]

IsFair(s, base) ==
  \/ Cardinality(Traded(s)) = 1
  \/ \A p \in Traded(s) : FairOn(s, p, base)

\* Fault: the fallback is reported whenever it is used, whatever the verdict.
FilterUsedFallback(s, base) == \E p \in Traded(s) : p \notin DOMAIN s.score

\* The fallback decided at least one comparison, PairComparison.proxied.
FilterProxied(s, base) ==
  \E p \in Traded(s) : p \notin DOMAIN s.score /\ ~FairOn(s, p, base)

\* What the recomputation may say of a bid whatever it knows of its fees: a
\* score it states is the protocol's, and surplus is a lower bound for it.
SoundlyValued(s) ==
  /\ DOMAIN s.truth = Traded(s)
  /\ \A p \in Traded(s) : s.surplus[p] <= s.truth[p]
  /\ \A p \in Traded(s) \cap DOMAIN s.score : s.score[p] = s.truth[p]

\* compute_baseline_scores without its loop: no single-pair bid of b is worth
\* more than base on its pair, and base is attained or 0.
IsBaseline(b, base) ==
  \A p \in Pair :
    LET worth == {0} \cup {b[u].total : u \in {v \in DOMAIN b : SetsBaseline(b, v, p)}}
    IN  base[p] \in worth /\ \A x \in worth : x <= base[p]

\* The filter without its baselines: a bid on several pairs is fair if no bid
\* trading just one of them beats it there.
Beats(b, v, u, p) == SetsBaseline(b, v, p) /\ b[v].total > Worth(b[u], p)

Fair(b, u) ==
  \/ Cardinality(Traded(b[u])) = 1
  \/ \A p \in Traded(b[u]), v \in DOMAIN b : ~Beats(b, v, u, p)

FairBids(b) == {u \in DOMAIN b : b[u].total # 0 /\ Fair(b, u)}

\* The bids dropped on a guess, proxied_uids.
Guessed(b) ==
  {u \in DOMAIN b :
     /\ b[u].total # 0 /\ ~Fair(b, u)
     /\ \E p \in Traded(b[u]) \ DOMAIN b[u].score, v \in DOMAIN b : Beats(b, v, u, p)}

----------------------------------------------------------------------------
(* The greedy pick. *)

(***************************************************************************)
(* The order a list of bids is walked in: the bids of T first, each group   *)
(* by descending total with ties in uid order.  T = {} is the stable sort   *)
(* of arbitrate, T = the winners is the order of Ranking.ranked.            *)
(***************************************************************************)
Before(b, T, u, v) ==
  \/ u \in T /\ v \notin T
  \/ /\ u \in T <=> v \in T
     /\ \/ b[u].total > b[v].total
        \/ b[u].total = b[v].total /\ u < v

Disjoint(b, u, v) == b[u].claims \cap b[v].claims = {}

\* u still wins, given which of the bids walked before it are in W.
Free(b, T, W, u) ==
  LET earlier == {w \in W : Before(b, T, w, u)}
  IN  /\ Cardinality(earlier) < MaxWinners
      /\ \A w \in earlier : Disjoint(b, w, u)

\* pick_winners without its loop: W is the greedy pick among the bids C.
IsPick(b, T, C, W) ==
  /\ W \subseteq C
  /\ \A u \in C : u \in W <=> Free(b, T, W, u)
=============================================================================
