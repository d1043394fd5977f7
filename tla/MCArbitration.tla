--------------------------- MODULE MCArbitration ---------------------------
(***************************************************************************)
(* A small instance of Arbitration: every auction of NBids bids over the    *)
(* given solvers and pairs, each bid built by module Valuation out of a     *)
(* surplus, a fee and what is recorded of it.                               *)
(***************************************************************************)
EXTENDS Validation, Valuation, TLC

CONSTANTS
  NBids,       \* bids in an auction
  Core,        \* the pairs that bids on several pairs trade; the others are on
               \* their own, for a winner that no other winner can block
  MaxTotal,    \* a single-pair bid is worth 1..MaxTotal
  MaxFee,      \* fee on each pair of a bid on several pairs
  Modes        \* currencies an auction may be ranked in

MCUid == 1..NBids

\* A bid on the pairs P with surplus f and fees g, the policies of D unrecorded.
Valued(f, g, D, C) ==
  [surplus |-> f, fee |-> [p \in DOMAIN f \ D |-> g[p]], unknown |-> D,
   claims |-> C, truth |-> [p \in DOMAIN f |-> f[p] + g[p]]]

\* Bids on one pair; a bid whose other orders do not count claims their pair too.
Plain(q, n, C) == Valued([p \in {q} |-> n], [p \in {q} |-> 0], {}, {q} \cup C)

Singles ==
  {Plain(q, n, C) : q \in Core, n \in 1..MaxTotal,
                    C \in {D \in SUBSET Core : Cardinality(D) <= 1}}
  \cup {Plain(q, n, {}) : q \in Pair \ Core, n \in 1..MaxTotal}

\* Bids on several pairs, worth 1 to the user on each, and those whose recomputed fees
\* are so much too high that the parts exceed the recorded score.
Overcharged ==
  UNION {{[Valued([p \in P |-> 1], g, D, P) EXCEPT !.fee = [p \in P \ D |-> g[p] + MaxFee + 1]] :
            g \in [P -> 0..MaxFee], D \in SUBSET P \ {P}} :
           P \in {Q \in SUBSET Core : Cardinality(Q) > 1}}

Multiples ==
  UNION {{Valued([p \in P |-> 1], g, D, P) : g \in [P -> 0..MaxFee], D \in SUBSET P} :
           P \in {Q \in SUBSET Core : Cardinality(Q) > 1}}

\* A bid at its limit prices that pays no fee: recorded with a score of 0.
Worthless == {Valued([p \in {q} |-> 0], [p \in {q} |-> 0], {}, {q}) : q \in Core}

Recorded(v) == SumFunction(v.truth)

MCSolutions(mode) ==
  {BuildSolution(s, v, Recorded(v), IF mode = "surplus" THEN v.surplus ELSE v.truth, mode) :
     s \in Solver, v \in Singles \cup Multiples \cup Overcharged \cup Worthless}

ASSUME MCOverchargedFail == \A v \in Overcharged : AnchorFails(v, Recorded(v))

ASSUME MCSolutionsAreScored ==
  \A mode \in Modes : \A s \in MCSolutions(mode) :
    SoundlyValued(s) /\ s.total = SumFunction(s.truth)

MCAuctions == UNION {[MCUid -> MCSolutions(mode)] : mode \in Modes}

ASSUME MCCoreAssumption == Core \subseteq Pair

\* A permutation of the pairs that keeps the core what it is.
CorePermutations ==
  {f \in Permutations(Pair) : {f[p] : p \in Core} = Core}

Symmetries == Permutations(Solver) \cup CorePermutations
=============================================================================
