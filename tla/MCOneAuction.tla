------------------------------ MODULE MCOneAuction ------------------------------
(***************************************************************************)
(* Windows of one auction between three batches, with any outcome of the    *)
(* recorded winners and possibly one of them missing from the record.       *)
(***************************************************************************)
EXTENDS MCCounterfactual

OneAuction ==
  {<<x>> : x \in Records({OnP(1), OnP(2), OnQ(1), WithJit(2), OnBoth(2, 1, 0), Dark(1, 1, 2)},
                        Results(Outcome, {0, 1}), {<<FALSE, FALSE, FALSE>>})}

OneScenario == {Removing({s1}, "inherited", TRUE)}

Symmetries == Permutations(Solver \ {s1})
=============================================================================
