----------------------------- MODULE RecordedWindow -----------------------------
(***************************************************************************)
(* What the databases hold of a window of auctions, as far as loo/run.py     *)
(* and the loader of loo/extract.py tell auctions apart, and what one auction *)
(* adds to the counters of one removal scenario.  What the removal does to    *)
(* an auction is `effect', a function of the removed bidders and the outcome  *)
(* rule; module Counterfactual says how it comes about.                      *)
(***************************************************************************)
EXTENDS Integers, Sequences

CONSTANTS
  Address,     \* submission addresses
  Name,        \* what a caller may call a solver
  Rate         \* conversion rates, COW per native wei

Rules == {"inherited", "assume-settled"}
Unknown == <<>>

\* load_conversion_rates: a period that is not synced has no rate, and one may be 0.
NoRate == -1

IsEffect(e) ==
  /\ e.rewards \in Int /\ e.capped \in Seq(Int) /\ Len(e.capped) <= 1 /\ e.changed \in BOOLEAN
  \* ChangedCarriesDeltas of module Counterfactual
  /\ ~e.changed => e.rewards = 0 /\ e.capped \in {Unknown, <<0>>}

IsAuctionRow(a) ==
  /\ a.bidders \subseteq Address
  /\ a.context \in BOOLEAN                       \* is it in competition_auctions?
  /\ a.prices \in {"array", "legacy", "lost"}    \* where its native prices are
  /\ a.ordersKnown \in BOOLEAN                   \* is every order in an order table?
  /\ a.suspect \in BOOLEAN /\ a.failed \in BOOLEAN
  /\ a.settled \in BOOLEAN                       \* has every recorded winner an outcome?
  /\ \A R \in SUBSET a.bidders, rule \in Rules : IsEffect(a.effect[R, rule])
  /\ \A R \in SUBSET Address : a.recharge[R] \in Int
  /\ a.rate \in Rate \cup {NoRate, 0}            \* of the period of its deadline

IsDatabase(d) ==
  /\ d.auctions \in Seq({d.auctions[i] : i \in DOMAIN d.auctions})
  /\ \A i \in DOMAIN d.auctions : IsAuctionRow(d.auctions[i])
  /\ d.live \in [Name -> SUBSET Address]         \* the addresses of a name that bid
  /\ d.legacyTable \in BOOLEAN /\ d.quoteData \in BOOLEAN

IsScenario(s) ==
  /\ s.removed \subseteq Address /\ s.quoted \subseteq Address
  /\ s.rule \in Rules /\ s.score \in BOOLEAN /\ s.excludeSuspects \in BOOLEAN

----------------------------------------------------------------------------
(* analyse_auction and Analysis.add, for one auction *)

\* recorded_executed_volume raises for a winner without an outcome.
Unsettled(a, s) == ~a.failed /\ ~a.settled /\ s.rule # "assume-settled"

NoAnalysis == [auctions |-> 0, skipped |-> 0, suspects |-> 0, present |-> 0, seen |-> {},
               rewards |-> 0, capped |-> 0, recharge |-> 0, changed |-> <<>>]

\* An auction of `changed', as the conversion of the rewards reads it.
Change(a, e) == [rewards |-> e.rewards, capped |-> e.capped, rate |-> a.rate]

\* A capped reward is <<n>>, or unknown and then 0 in a sum.
Known(x) == IF x = Unknown THEN 0 ELSE x[1]

\* What one auction leaves in the counters: a price suspect only its count, one that
\* could not be valued its count and a skip, one without the removed solvers nothing
\* but the fees their quotes move.
AddTo(n, a, s) ==
  LET R == a.bidders \cap s.removed
      e == a.effect[R, s.rule]
      counted == [n EXCEPT !.auctions = @ + 1, !.suspects = IF a.suspect THEN @ + 1 ELSE @]
      clean == [counted EXCEPT !.recharge = @ + a.recharge[s.quoted]]
  IN  CASE a.suspect /\ s.excludeSuspects -> counted
        [] ~(a.suspect /\ s.excludeSuspects) /\ a.failed -> [counted EXCEPT !.skipped = @ + 1]
        [] ~(a.suspect /\ s.excludeSuspects) /\ ~a.failed /\ R = {} -> clean
        [] OTHER ->
             [clean EXCEPT !.present = @ + 1, !.seen = @ \cup R,
                !.rewards = IF s.score THEN @ + e.rewards ELSE @,
                !.capped = IF s.score THEN @ + Known(e.capped) ELSE @,
                !.changed = IF e.changed THEN Append(@, Change(a, e)) ELSE @]
=============================================================================
