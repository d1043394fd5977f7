------------------------------ MODULE Valuation ------------------------------
(***************************************************************************)
(* How loo/valuation.py turns what is recorded about a bid into the         *)
(* Solution the arbitrator sees: pair_score_split anchors the recomputed    *)
(* fees on the recorded score, and build_solutions picks the currency.      *)
(*                                                                          *)
(* A valuation v is a record: v.surplus gives the user surplus of each pair *)
(* with contributing orders, v.fee the fee recomputed for the pairs whose   *)
(* orders' policies are all recorded, v.unknown the other pairs, v.claims   *)
(* the pairs of all its orders.                                             *)
(***************************************************************************)
EXTENDS Integers, FiniteSets, Functions

\* The surplus and the recomputed fees of the priced pairs.
Priced(v) == [p \in DOMAIN v.surplus \ v.unknown |-> v.surplus[p] + v.fee[p]]

DarkFloor(v) == SumFunctionOnSet(v.surplus, v.unknown)

SinglePair(v) == Cardinality(DOMAIN v.surplus) <= 1

\* The recomputation cannot be right: the parts do not make up the record.
AnchorFails(v, dbScore) ==
  \/ SinglePair(v) /\ \E p \in DOMAIN v.surplus : v.surplus[p] > dbScore
  \/ ~SinglePair(v) /\ v.unknown = {} /\ SumFunction(Priced(v)) # dbScore
  \/ ~SinglePair(v) /\ v.unknown # {} /\ SumFunction(Priced(v)) + DarkFloor(v) > dbScore

\* The score of each pair where it is known.
PairScoreSplit(v, dbScore) ==
  CASE AnchorFails(v, dbScore) -> <<>>
    [] ~AnchorFails(v, dbScore) /\ SinglePair(v) -> [p \in DOMAIN v.surplus |-> dbScore]
    [] OTHER ->
         [p \in DOMAIN Priced(v) \cup (IF Cardinality(v.unknown) = 1 THEN v.unknown ELSE {}) |->
            IF p \in v.unknown THEN dbScore - SumFunction(Priced(v)) ELSE Priced(v)[p]]

\* One entry of build_solutions, for a bid of `solver' recorded with dbScore;
\* `truth' is the protocol's own score per pair.
BuildSolution(solver, v, dbScore, truth, mode) ==
  [solver  |-> solver,
   total   |-> IF mode = "surplus" THEN SumFunction(v.surplus) ELSE dbScore,
   surplus |-> v.surplus,
   score   |-> IF mode = "surplus" THEN <<>> ELSE PairScoreSplit(v, dbScore),
   claims  |-> v.claims,
   truth   |-> truth]
=============================================================================
