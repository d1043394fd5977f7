------------------------------ MODULE MCTwoAuctions ------------------------------
(***************************************************************************)
(* Windows of a clean auction and of one with any gap in its record: nothing *)
(* settled and no caps, no rewards, a failed valuation or a suspect price.  *)
(***************************************************************************)
EXTENDS MCCounterfactual

Batches == {OnP(2), OnBoth(2, 1, 1), Dark(1, 1, 2)}

Complete == Records(Batches, Results({"in_time", "reverted"}, {0}), {<<FALSE, FALSE, FALSE>>})

Gappy ==
  Records(Batches, Results({"in_time"}, {0}),
          {<<TRUE, FALSE, FALSE>>, <<FALSE, TRUE, FALSE>>, <<FALSE, FALSE, TRUE>>})
  \cup Records(Batches, Results({}, {1}), {<<FALSE, FALSE, FALSE>>})

TwoAuctions == {<<x, y>> : x \in Complete, y \in Complete \cup Gappy}

FourScenarios ==
  {Removing({s1}, "inherited", TRUE), Removing({s1}, "assume-settled", TRUE),
   Removing({s1, s2}, "inherited", TRUE), Removing({s1}, "inherited", FALSE)}
=============================================================================
