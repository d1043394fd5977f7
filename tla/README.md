# Specifications of the leave-one-out solver analysis

`loo` recomputes past CoW Protocol auctions, and the quotes orders were placed from, with
and without some solvers, and reports what users, the protocol and the other solvers
would have received. Its results are numbers nobody can observe, so an error in them has
no symptom. These TLA+ modules state what the recomputation is supposed to satisfy; TLC
checks it on small instances and TLAPS proves every safety invariant of those runs, and the
safety part of the three refinements, for instances of any size.

All line numbers below and in `PROJECT.json` refer to `src/`.

## 1. The system

| component | state it keeps | operations | talks to |
|---|---|---|---|
| winner selection, `loo/winner_selection.py` | a `Ranking` per call: kept, filtered, winners, baselines, guessed verdicts | `arbitrate`, `pick_winners`, `compute_reference_outcomes`, `filter_guess_could_matter` | called twice per auction and scenario by the counterfactual, once by validation |
| valuation, `loo/valuation.py` | none | `value_solution`, `pair_score_split`, `build_solutions` | turns a recorded bid into the `Solution` that is ranked; uses fees |
| protocol fees, `loo/fees.py` | none | `policy_fees`, `fee_split`, `_adjust_quote_to_order_limits` | called by valuation, again under the replacement quotes |
| counterfactual, `loo/counterfactual.py` | per auction: two sides of winners, orders, caps, rewards; the charges under replaced quotes; per window: the counters of `Analysis` | `analyse_auction`, `leave_one_out`, `un_filtered`, `side_outcomes`, `winner_caps`, `diff_outcomes`, `_quote_overlay`, `_limit_checks`, `Analysis.add` | uses all of the above and rewards |
| rewards, `loo/rewards.py` | none; counters in `RewardValidation` | `uncapped_rewards` | called for either side |
| window, `loo/run.py` | one `Analysis` per (group, outcome rule); period rates; the auctions left out | `analyse_window`, `moved_auctions`, `convert_delta_rewards` | one extraction pass feeds every run |
| quotes, `loo/quotes.py` | per request the ladder of answers; per order its match; the tallies of `PickValidation`, `LinkStats` and `QuoteAnalysis` | `pick`, `replay_stream`, `stream_replacement`, `match_orders`, `link_by_quote_id`, `_link_requotes`, `validate_picks`, `diff_quote` | hands replacement quotes to the counterfactual |
| extraction, `loo/extract.py`, `loo/db.py`, `loo/ch.py` | connections | `load_auctions`, `load_settlement_outcomes`, `resolve_solver` | the only source of auctions |
| validation, `loo/validate.py` | counters | `observed_pick`, `filter_bracket`, `filter_cause` | re-runs winner selection on the record |
| command line and reports, `loo/cli.py`, `loo/aggregate.py`, `scripts/` | files | parsing, tables, pages | reads the results of a window |

The program itself is sequential: one process, one auction at a time, no callbacks, no
persistent state that a crash could split. What it *reconstructs* is not: a quote
competition is solvers answering, a stream forwarding, a user who commits whenever they
like, a client that goes away and an order created seconds later, and the analysis sees
only the rows this left behind. What makes the code hard:

- **a concurrent past read from a partial record**: the commit has no timestamp, a
  dropped stream leaves answers out, an answer that was never sent has still set the
  bar, the backend quotes again on its own and the order carries the second answer; rows
  come duplicated and in any order;
- **long chains of dependent steps** (value, rank, filter, pick, re-pick, settle, cap,
  pay, diff, count), where each relies on something an earlier step establishes and
  only a comment says so: the early stop of the reference walk, the winners-first
  order, disjoint winners, the assertion that baselines only fall;
- **the same question answered along two paths** (the baseline side and the side
  without the solver; the record and the re-arbitration; recorded and replaced quotes),
  where the difference between the two is the result, so that an asymmetry is reported
  as an effect;
- **one pass for many runs**: the bundles of a window go through every (group, rule) pair
  in turn, from one generator, with one list of what was left out;
- **gaps in the record** (fees that are not recorded, missing settlements, orders, prices,
  caps and rates, suspect prices, failed valuations) with an early return or a fallback each;
- **boundaries**: the winner limit, ties, ties made by truncation, a reference score
  above the winning score, a replacement over several slots, fee policies charged net of
  one another.

The hazards are listed line by line in `PROJECT.json`, with the properties that cover
them. The properties that make each component correct:

- winner selection: winners clear uniformly; every winner has a reference score; the
  auction without a solver keeps the other winners; missing fees make the filter
  stricter and never looser; "no guess could matter" is a proof; the loops compute the
  mechanism; validation raises no false alarm;
- counterfactual of one auction: no internal assertion fires; winners and reference
  scores move only for a cause the report names; a revert in the record is never
  charged to the removed solver; caps are moved and not made; the sign of a reward;
- quotes: what a stream forwards is what would win if it ended there; whenever the user
  committed, the reconstruction brackets it; a replacement is what the user would have
  been shown, and never one ranked above the answer it replaces; every order is linked or
  counted once; the tallies count like with like;
- fees: each policy charges the trade as if the later ones had never been; the parts sum
  to the whole; a worse quote never lowers the charge; one unusable replacement does not
  void the others;
- window: the counters compared with each other count the same auctions; the retained
  auctions carry the whole delta; a share stays a share; each run is the run it would
  have been on its own; every delta is converted or reported as not converted.

## 2. Modules

```
WinnerSelection ──► Mechanism ◄── refines ── Arbitration ──► Validation
       │                                        │                 Valuation
       ├──► Outcomes ──► Counterfactual         └── MCArbitration ◄───┤
       │       │              │                                       │
       │       │              └── MCCounterfactual ◄──────────────────┘
       │       │                      ├── MCOneAuction, MCTwoAuctions
       │       └──► QuoteFees ◄── Fees
       │
       └── WinnerSelectionProofs ──► ArbitrationProofs, CounterfactualProofs

QuoteRanking ──► QuoteCompetition ◄── refines ── QuoteStream ──► QuoteStreamProofs
       │                                              ▲
       └──► QuoteDiff ────────────────────────────────┤
                └──► QuoteLink ──► QuoteWindow

RecordedWindow ──► RemovalRun ◄── refines ── AnalyseWindow

Sums ──► ArbitrationProofs, CounterfactualProofs, QuoteFeesProofs, QuoteWindowProofs,
         AnalyseWindowProofs
```

`EXTENDS` goes along `──►`; every specification that is checked has an `MC...` module, and
the theorems about a module `M` are in `MProofs`.

### Arbitration

**WinnerSelection** is the vocabulary: a bid (`Solution`), the order lists are walked in
(`Before`), the filter in the form the code has (`IsFair`, against a dict of baselines)
and without baselines (`Fair`), and `IsPick(b, T, C, W)`: *W is the greedy pick among the
candidates C, walked winners-of-T first*. A bid carries one field the program does not
have, `truth`, the protocol's own score per pair; only properties and `Validation` read it.

**Mechanism** is the abstract specification: an auction is awarded in one step and each
winning solver is then told, in any order, who wins without it.

**Arbitration** is `arbitrate`, `compute_reference_outcomes` and
`filter_guess_could_matter` with every loop iteration as a step.

| action | code in `winner_selection.py` |
|---|---|
| `ScoreBaseline` | one turn of `compute_baseline_scores`, 147-151 |
| `DropWorthless`, `Judge` | 327-329; one turn of the filter loop, 334-339 |
| `CallPick`, `Consider`, `StopPick` | `pick_winners`: entry, one turn, return at the limit; shared by three callers, `caller` is the return address |
| `StartRank`, `Rank` | `_rank`, 301-308 |
| `PassBy`, `LeaveOut`, `Reference` | the walk over `ranked`: `continue`, the pick without a solver, its result |
| `NoGuess`, `RestoreGuesses`, `Guess` | `filter_guess_could_matter`, 252-267 |

The code's lists are sets here and `FirstOf(S, T, u)` is the head of the list: `T = {}`
is the order of the stable sort by total over bids given in uid order, `T = winners` the
order of `Ranking.ranked`. `_rank` chooses by index and not by uid to survive colliding
uids; uids are unique in the model, as they are in an auction.

**Valuation** is `pair_score_split` and `build_solutions`: how recorded and recomputed
fees become the total and the partly known scores the filter sees. The MC modules
generate every bid through it, so no run checks a bid the valuation could not produce, and an
`ASSUME` checks that each is `SoundlyValued` and worth the sum of its true scores.

**Validation** is `check_auction` on top of `Arbitration`: the record is what the protocol
decided on `truth`, numbered from best to worst with ties in any order (`Records`); a filter
difference is excused only by the causes of `filter_cause`. `Unexplained` has the five verdicts
of `AuctionReport.unexplained` in their order: the pick and the reference scores are formed
along the uids (`ObservedOrder`), as `observed_ranking` does, and held against those of the
protocol's own ranking. Which bids could not be valued is a parameter, for that is arithmetic
on prices. The cause `model` cannot occur in score mode, and bids of total 0 are not in the
record.

### One auction with and without a solver

**Outcomes** is what winners deliver and are paid: `Executed` (the inherited-slot rule of
`side_outcomes`), `SideOrders`, `WinnerCap`, `DoubleInherited`, `Rewards`. A batch is
looked up by the pairs it claims (`Holder`), as `recorded_settlement_by_pair` and
`recorded_caps_by_pair` do with a dict.

**Counterfactual** is `analyse_auction` and `Analysis.add` over a window of auctions.

| action | code |
|---|---|
| `RaiseMissingSettlement` | `recorded_executed_volume` finds a recorded winner without an outcome, `counterfactual.py:253` |
| `Skip` | the early return, 1188-1203 |
| `Arbitrate` | both arbitrations, 1205-1225 |
| `UnFilter` | `un_filtered` with its `RelaxationError`, 133-153 |
| `Settle` | `side_outcomes` of both sides with its `AssertionError`, 1231-1255 |
| `Refer` | `compute_reference_outcomes` of both sides, 1301-1305 |
| `Reward` | caps and `uncapped_rewards` of both sides, 1307-1366 |
| `Add` | `Analysis.add` with each of its returns, 1696-1793 |

`analysis` is a function from counter names to integers; `Tally` is what one auction adds
to it, built in the order of the code (`Seen`, `Clean`, `WhoWon`, `WhatUsersGot`,
`WhatSolversGot`) so that each early return is a prefix. `changed` keeps of a retained
auction the deltas it carries. `Arbitrate` and `Refer` take winners that satisfy
`IsPick`; that the loops compute exactly those is what `Arbitration` establishes, and
`PickUnique` proves that there is only one such set.

**Fees** is `loo/fees.py` over bounded integers with the code's rounding (`ceil_div`, the
scaled factors, floors and ceilings by the side of the trade): the walk over an order's
policies from the last to the first as a recursive function, the three kinds of policy
with their caps and errors, the adjustment of a quote to the limits, the split between the
partners and the DAO. A factor is a fraction of `Scale` and `MulF64` is exact.

**QuoteFees** is the second half of `analyse_auction`, the pass with replaced quotes, over
a window of auctions: `Value` (every bid with the recorded quotes), `Substitute`,
`DropBroken`, `GiveUp` (`_quote_overlay`: try with the replacements, drop those that leave a
known charge unknown, try once more, else none), `Recharge` (the orders that execute on the
side without the solver are charged again), `Check` (`_limit_checks`,
`_shift_moves_winners`), `Add` (`_add_quote_checks`, `_add_quote_only`, and the fees that
`Analysis.add` and `_add_fees` sum of both sides). `sums` keeps those fees with the recorded
quotes apart from the recharges, as the code does, so that an effect of the removal and an
effect of the quote can be told from each other. That the second try
fails too is not reachable, because each order is charged on its own (`OverlayInv`, section
4): `GiveUp` is the way out when no replacement is left.

### Quotes

**QuoteRanking** has the two rankings (`effective-sell`, `autopilot`), the screen for
reasonable answers, `Pick`, and `Sent`/`Shown`: which answers of a set a stream would have
forwarded and which of them was on the user's screen after the h-th. An answer is named by
its position in the arrival-ordered ladder.

**QuoteCompetition** is the abstract specification: answers come in, and what is on the
screen is always what would win if the competition ended there.

**QuoteStream** is one request, from the first answer to the counterfactual quote of
its order, with the concurrency the analysis never sees.

| action | code in `quotes.py`, or whose step it is |
|---|---|
| `Answer` | one turn of `replay_stream` with `_sendable`, 362-403 |
| `Finish` | the pick, 312-338; of a one-shot request, its only answer |
| `Drop` | the client goes away; what had not arrived never will |
| `Commit`, `Create` | the user takes what is on the screen; the order is created, any time later |
| `Link` | `_stream_take`, 1562-1590: the reconstructed take and its horizon |
| `Diff` | `diff_quote`, `stream_replacement`, `counterfactual_quote` for any removal |

**QuoteDiff** holds the constant-level part of the last two, shared with the window:
`Replacement`, the leaves of `diff_quote`, `CounterfactualQuote`.

**QuoteLink** has the tables and how a competition is read out of them: ladders
(`_keep_earliest`, `_ladders`), `viable_requests`, the quote id, the re-quotes. A request may
name no winner, one (`complete`) that need not have a row (`winner` is then 0), or two. A
sorted
list is `Arranged(S, before)`, any list of S in which nothing comes after what it is not
before; that says what the library's `SetToSortSeq` computes, in a form that can be
reasoned about.
**QuoteWindow** is `load_quote_window` and `QuoteWindow.analyse`: `Populate` (which orders
count), `Fetch` (the rows in any order, some twice), `MatchHeuristic` (`match_orders`),
`MatchById`, `DeferToRequote` and then `LinkRequote` or `LeaveUnlinked`
(`link_by_quote_id`, `_link_requotes`), `Validate` (`validate_picks`), `Add`
(`QuoteAnalysis.add`), one order at a time. Two dicts of the code depend on the order of the
rows and not on their arrival, and the model follows them: `computed` keeps the last row of a
forwarded answer (`Readings`), and `arrived` the time of the first row fetched of an
estimator (`ArrivedAt`). The address of an estimator is the majority of `Votes`, by the id if
that says anything and by the heuristic otherwise; of addresses with equally many, any.

### The window

**RecordedWindow** is what the databases hold of a window as far as the loops tell
auctions apart. What a removal does to an auction is its `effect`, a function of the
removed bidders and the rule: module `Counterfactual` says how it comes about, and
`IsEffect` asks of it what that module establishes (`ChangedCarriesDeltas`).

**RemovalRun** is the abstract specification: one scenario goes through the window alone.
`missing` lists the auctions it had to leave out, each once and in the order of the window.

**AnalyseWindow** is `analyse_window` with the loader.

| action | code |
|---|---|
| `CheckRules`, `ResolveName`, `CloseGroup` | the checks on rules and groups, `run.py:203-260`; `resolve_solver`, `extract.py:1003-1030` |
| `StartRuns`, `AnalyseQuotes` | one run per group and rule, `run.py:262-294`; the quote side once per group, 296-326 |
| `LoadChunk`, `NextChunk` | a chunk with its prices, `extract.py:515-613` |
| `SkipEmpty`, `RaiseNoContext`, `DropUnknown`, `Yield` | what becomes of one auction, `extract.py:615-646` |
| `AnalyseRun`, `NextBundle` | the loop over the runs, `run.py:344-360` |
| `Finish`, `ConvertRuns` | `run.py:362-381` with `convert_delta_rewards`, 82-108 |

`watched` is auxiliary: it names the run whose report somebody reads, so that the refinement
is about each of the runs. The model starts with that choice and no action reads it.

Operators called "Fault" in a comment are never used by a specification. Each is a plausible
bug, kept beside the definition it would replace; `PROJECT.json` says which property
notices it.

## 3. What the runs check

A run that has returned or raised stutters explicitly (`Returned`, `Stopped`, `Rest`), so that TLC's
deadlock check would find a step that should be possible and is not.

| run | instance | states | shows |
|---|---|---|---|
| `arbitration` | every auction of 3 bids, 3 solvers, 3 pairs of which 2 can be traded together, at most 2 winners; totals 0..3; bids on two pairs with fees 0..1 on each and any part of them unrecorded, also ones whose recomputed fees exceed the recorded score; bids claiming a pair they earn nothing on | 736,117 | the loops implement `Mechanism`; `UniformClearing`, `EveryWinnerReferenced`, `ReferenceKeepsOthers`, `GuessIsProof`, `NeverLooserThanProtocol`, `NoFalseAlarm` |
| `one_auction` | every auction of 3 batches out of 6 kinds, 3 solvers, 2 pairs, 3 orders; any fair disjoint set recorded as won, each landed in time, late or reverted, one possibly missing | 71,674 | `AssertionsHold`, `WinnersMoveForCause`, `ReferencesMoveForCause`, `RewardSign`, `RevertedSlotsCancel`, `CapsConserved` |
| `two_auctions` | windows of a clean auction and one that may be unsettled, without caps, excluded from rewards, failed or suspect; 4 scenarios (two outcome rules, one or two solvers removed, suspects kept or left out) | 392,000 | `TypeOK`, `ChangedCarriesDeltas`, `CoverageIsAShare`, `WinCountsComparable` |
| `quote_stream` | ladders of up to four answers out of eight (good, tied after truncation, far off, unsendable, unpriced, and verified twins), sell and buy orders, both rankings, streams and one-shot requests, six removals; the client may leave, and the user commit and the order appear, after any answer | 189,324 | the stream implements `QuoteCompetition`; `HorizonCoversCommit`, `ReplacementIsShown`, `UnaffectedSawTheSame`, `NeverABetterQuote`, `NoQuoteIsSilence`, `CommitBracketed`, and that every order is linked |
| `quote_window` | windows of up to four orders on competitions of three estimators and two addresses, linked by id, by time and by re-quote, with late, missing and repeated rows, forwardings recorded twice, two named winners, a winner without a row | 31,621 | `LadderAsArrived`, `EveryOrderAccounted`, `LinkedWhereRecorded`, `TakenIsWhatTheOrderCarries`, `RuleAccusesNobody`, `SharesAreShares`, `ChargedOnce` |
| `quote_fees` | auctions of 3 bids, 3 solvers, 2 pairs and 2 orders under each kind of policy and under stacks of them, with replacements that are worse, better, unusable; windows of two | 95,154 | `PoliciesChargeTheRest`, `OnlyTheBrokenAreDropped`, `WorseQuoteNeverCheaper`, `QuoteEffectApart` |
| `window` | databases of up to three auctions in chunks of two, with every gap; 3 addresses, 4 names that overlap; up to two groups under both rules in either order | 105,616 | every run implements `RemovalRun`; `DeltasAreConverted` |

Five more runs show disagreements between the code and its documentation, section 5.

**Fairness.** `QuoteStream` assumes weak fairness of `Answer`, `Finish` and `Link` and of
nothing else: the autopilot asks every estimator and the competition ends when all have
answered or failed, unless the client went first, and the analysis' loop reaches every order
of its window. The user is never assumed to do anything, and the client may leave at any
time. On that rest `OrdersAreLinked` (an order once created gets its take) and the second
half of `StreamsTheStanding` (the competition ends). `AnalyseWindow` assumes weak fairness
of its next step, as a sequential program whose loops run over finite lists does; on that rests that
every requested run ends in a report or an error (`RemovalRun`'s `Ends`, part of
`RunsAreIndependent`). The other specifications assume no fairness, and their
properties are safety properties: nothing in that code waits.

**Bounds.** Three bids are the least in which a winner can be outscored by a loser that
another winner blocks, in which removing a solver un-filters a bid that then wins, and in
which a guess is blocked by a winner; two pairs the least for a batch that spans slots.
Two of the three pairs of `arbitration` (`Core`) are those that batches span and claims cross;
the third is traded on its own, so that three bids can be disjoint and `MaxWinners = 2` stops
a pick while a candidate could still win. Totals up to 3 allow ties, a batch
between two single-pair bids and a reference score above the winning score. Two auctions
are the least in which a counter can mix auctions that it should keep apart. The
arbitration runs in score mode (`Modes = {"score"}`): in surplus mode no pair score is known
and every bid is judged on its surplus, which the model covers (add `"surplus"` to
`Modes`) and the run leaves out because it multiplies its time by seven. `Counterfactual`
is a model of score mode only. The proofs of section 4 are about any bids, so they
cover both.

Four answers are the least with one taken, one that sets the bar unseen, one it hides and one
more after the commit. The sell amount of 10 atoms is worth 20 wei, which makes quotes tie that are not
equal and lets gas swallow an answer. In `quote_window` the windows in seconds are shrunk
(`PreCreation` 5, `PostCreation` 1, `RequoteBefore` 2, `RequoteAfter` 10, `SiblingSeconds`
2, `IdSpan` 5), and times lie on both sides of each; `CoverageStart` 50 and `LinkStart` 100
put orders before the coverage and before the quote ids. It ranks by `effective-sell`. `Scale` is
100 in `quote_fees`, enough for every rounding to go either way. Three auctions in chunks of
two leave one chunk full and one not; four runs (`MaxRuns`) are two groups under two rules, and names that
share an address make two groups overlap, resolve to the same removal, or contain a solver twice.

Windows record as won what a protocol that saw every score could have chosen
(`Winnable`); an order's policies are unrecorded only if every batch with it was
filtered out (`Plausible`), which is what the docstring of `fees_complete` says of the
data. Competitions whose rows come from the rule itself are marked `byRule`:
`ByRuleAssumption` says on the tables alone, with every row read (`AllLoaded`), that the
recorded winner of each is the pick, that what a stream forwarded is an initial part of its
replay and that arrivals have distinct numbers. `RuleAccusesNobody` is about those.
`TakenIsWhatTheOrderCarries` leaves out two kinds of match (`OneAnswerEach`). Two re-quotes of
the same order seconds apart cannot be told apart by span and time, and the code mixes them.
And of a request by the heuristic that names two winners, `recorded_winner` looks among those
of a value while `with_ladder` wants a single one marked: if only one of two has a value, the
order is corroborated by it and takes none.

## 4. What is proved

TLAPS checks eight modules, 13,557 obligations. Every safety invariant of every passing run
is a theorem, and so is the safety part of the three refinements, for every value of the
constants that satisfies the named assumptions. TLC evaluates each of those assumptions on
the runs:

| assumption | what it says | why the code justifies it |
|---|---|---|
| `WinnerSelectionAssumption` | uids are naturals; uids and pairs are finite; `MaxWinners` is a natural | an auction is a list of bids, the limit a parameter |
| `AuctionsAssumption` | an auction is a function from uids to solutions | uids are unique in an auction |
| `OutcomesAssumption` | orders are finite and each is on one pair | an order names its two tokens |
| `CounterfactualAssumption` | windows are finite lists of `IsRecorded` auctions: *recorded winners hold disjoint pairs*, *a batch claims the pairs of its orders* | the first is the protocol's rule on winners, the second is how `claims` is built |
| `FeesAssumption`, `QuoteFeesAssumption` | the scale is positive; trades stay within their limits (`OrderSurplus` is not negative), a valued buy order sells something, an order is of one side in every bid | `to_native` refuses the others, and a settlement cannot violate a limit |
| `QuoteStreamAssumption` | requests are finite ladders with integer amounts, and positive prices where the ranking divides by one | the rows' columns |
| `QuoteLinkAssumption`, `QuoteWindowAssumption` | the windows in seconds are naturals, the threshold is positive; tables are finite, one message of an estimator is one row, a quote id is drawn for one answer, a request has an id other than 0 (`IsTables`) | module constants, primary keys |
| `ByRuleAssumption` | in tables marked `byRule`, read in any way, every competition is one the rule decided (`RuleDecides`) | what the mark means; it restricts `RuleAccusesNobody` alone |
| `AnalyseWindowAssumption` | a database is a sequence of auction rows, names stand for sets of addresses, chunks are not empty, rates are finite | `IsDatabase`, `IsAsked` |

Two theorems have a hypothesis of their own besides: `FilterNeverLooser` that bids are
`SoundlyValued`, `NoAlarmIsFalse` that they are also worth the sum of their true scores
(`IsScored`). `SplitsAreSound` proves that `BuildSolution` makes only such bids, out of any
record whose fees were recomputed right, and `MCSolutionsAreScored` checks it of the bids of
the run.

**Sums.** Counters and caps are sums, sums are folds, and what a fold computes for every input
is an induction. The library's induction theorems take an operator as a parameter, which the
provers cannot instantiate. Here the induction is over *sets of sets*: strict inclusion on
the subsets of a finite set is well founded (`MinimalSubset`, from the library), so a family
of subsets that contains every T whose proper subsets it contains is the whole power set
(`SubsetInduction`). `SumExists` uses that to show that the recursive function inside the fold
exists; then `SumIsSum` unfolds it, and the rest is what one expects of sums: `SumWithout`
(one term less), `SumUnion`, `SumOfSums` (a sum over a partition), `SumMonotone`,
`SumAppended` (a sequence grows by one), `SumShifted`.

**WinnerSelectionProofs.** The order of a list is a strict total order and every set of
bids has a first (`FirstExists`). The greedy pick is unique (`PickUnique`), does not
change when losers leave (`PickIgnoresLosers`, `PickAgrees`), and its winners keep
winning when they are put first (`PickKeepsWinners`). The filter by baselines is the filter
without them (`FairByBaseline`). Baselines fall when solvers leave, hence
`FilterRelaxes`: whatever was fair still is.

**ArbitrationProofs.** No property is inductive by itself: that winners are disjoint, for
example, needs that the running pick is, which needs that `claimed` is the union of what
the chosen claim. `IInv` says of every loop what the part already walked has
established: `FilterInv` (the baselines are those of the bids visited; kept, discarded and
proxied are the verdicts of the bids judged), `PickInv` (the pick so far is the greedy
pick among the candidates walked), `RankInv`, `ReferenceInv`, `GuessInv`. One lemma per
loop shows its step; `Inductive` combines them; each property follows from `IInv` and the lemmas
about picks. `Implements` is the refinement of `Mechanism`. `NoAlarmIsFalse` is about
`Validation`: no verdict of `Unexplained` falls on a competition the protocol recorded and
whose bids could be valued. Every bid it kept trades; each filter difference has one of the
causes of `filter_cause`, because what the record leaves unknown of a bid brackets its true
score on every pair; the pick along the uids is the recorded one although the protocol picked
along its shuffle (`RecordedPickIsPick`); and so is each reference score, because the uids are
the order the protocol walked the ranking in (`RecordedOrderIsObserved`).

**CounterfactualProofs.** `IInv` is `StepInv`, what each step of an auction has established
(`ControlInv`, `PickInv`, `RelaxInv`, `OrderInv`, `ReferenceInv`, `RewardInv`: each side is
what the mechanism makes of its bids), and `CountInv`, what the counters owe each other.
`NoAssertionFires` follows from `FilterRelaxes` and from disjoint winners;
`WinnersMove` and `ReferencesMove` from the uniqueness of the pick and its indifference to losers
(`SidesAgree`); `RevertsCancel` from disjoint slots. `IInv` restates what was assigned and is
no result by itself; it is proved as a lemma and no run checks it. `RewardsHaveASign` is about
the uncapped reward of a winner all of whose batches landed in time, or none: it splits the
total of the winners into the solver's own and the others', who alone are no more than the
reference. `CapsAreConserved` bounds the known caps of a side on which `double_inherited` names
no winner by the recorded ones: it maps each inheriting winner to the recorded batches it
takes its cap from, which are disjoint then. `DeltasCarried`:
the list of retained auctions and the counters grow by the same amounts in the same step, and
an auction that is not retained adds nothing. `CoverageHolds` counts orders, not volumes: those
executed only with the solver are, as long as every auction's winners are the recorded ones, no
more than the executions of the record. `WinsCompare`: the two win counters grow by the same test.

**QuoteStreamProofs.** The key order on positions is total, so every finite set has a
first best; `Pick` *leads* the usable answers (`PickLeads`). `NextPick` says what one more
answer does to the pick, which is what `replay_stream` does with its bar; `ShownIsPick`
follows: if everything that sets a bar can be sent, the screen shows the pick of what has
arrived, from which a set of removed answers can be taken away. `IInv` ties the four kinds of
memory together: the bar is the key of the pick of what arrived (`BarInv`), what was forwarded
is `Sent` of that and in order (`StreamInv`), what the user took had been sent, and nothing
newer, at the commit (`OrderInv`), and the take was computed from exactly these (`TakeInv`).
From it: `HorizonIsRight` and `ReplacementIsRight` (the screen does not
change between the real commit and the reconstructed horizon, so `Shown` at one is `Shown` at
the other), `UnaffectedIsRight`, `RemovalNeverImproves` (a pick among fewer is never
better), `SilenceIsReal`, `TwoCommitsBound`, and `Implements`, the safety part of
the refinement of `QuoteCompetition`.

**QuoteWindowProofs.** One invariant per phase, each with a step lemma:
`PopulationInv` (who counts), `LinkInv` (`MatchInv`, `ReasonInv`, `TodoInv` and `CountInv`: the orders
linked by id, those counted under a reason and those still waiting make up the
population), `AnalysisInv` (the tallies are the sizes of sets of matches), `LoadedInv`
(a ladder holds, per estimator, the earliest of the rows fetched so far), `TakenInv`,
`CauseInv` (who is neither linked nor waiting has a cause in the tables),
`DecidedInv` and `ValidationInv`. From them:
`OrdersAreCounted`, `SharesStayShares`, `OrdersAreChargedOnce`, `LaddersAreAsArrived` (in
whatever order the rows come and however often), `MatchesCarryTheOrder`, `NoneIsLost` (an id
names one answer, at one position of its ladder: `IdNames`). `RuleIsNotAccused`
needs both ends: where every row has been read the ladder is the one `RuleDecides` speaks of
(`AllLoadedHolds`), and the prefix a stream had forwarded is an initial part of its replay
(`InitialPart`), so each counter of deviations stays at 0.

**QuoteFeesProofs.** `ValuedInv`, `OverlayInv` and `RechargeInv` say of which quotes each
table of charges was computed from. `EachPolicyChargesTheRest` goes through the recursive
function `PolicyFees` from the last policy to the first. `OverlayDropsOnlyTheBroken`: an order
is charged by its own quote alone, so a replacement that is dropped is broken by itself and
the second try succeeds. `WorseQuotesNeverCheaper`: a policy that reads the quote
charges at least as much under a worse one, and a policy charged net of it never gives back
more than that. `QuoteEffectKeptApart` (with `ApartInv`): what `Add` sums of an auction with the
recorded quotes, plus its recharges, is what the replaced quotes would have brought, and the
recorded side of the sums moves with executions alone. Proving `WorseQuotesNeverCheaper` showed that a replacement that costs nothing has to be left
out (`NoBetter`): `_effective_rate` rates it 0, the worst, and it is the best.

**AnalyseWindowProofs.** `IInv` says that a resolved group has the addresses its names
stand for (`ResolveInv`), that run k carries the group and the rule of its place in the
product (`RunsInv`), and that `left`, the chunk and what is gone partition the window in order, with
`missing` naming exactly what was dropped among the gone (`StreamInv`). `Implements` is the
safety part of `RunsAreIndependent`: each step is, for the watched run, `Analyse`, `Pass`,
`Report` or `Fail` of `RemovalRun`, or nothing. This holds for every chunk size, any number of groups and rules,
and any window. `EveryDeltaConverted` rests on `TotalsInv` (the list a run kept carries its
whole reward delta) and on splitting that sum by rate, those without one being what is
reported as not converted.

**Only model-checked:** liveness, which is out of the prover's reach: that an order once created
is linked (`OrdersAreLinked`), that a competition ends (the second half of
`StreamsTheStanding`), that every run reports or fails (`Ends` in `RunsAreIndependent`).
Model-checked too are the five disagreements of section 5, which are
counterexamples, and that the instances satisfy the assumptions.

## 5. Where the code and its documentation disagree

Each has a run that must end in a violation.

1. `guessed_verdicts`: `winner_selection.py:103` calls a marked verdict "a guess rather
   than a proof". `arbitrate` also marks a bid that one pair's *recorded* score already
   proves unfair, if another pair fails on surplus. The count of guesses
   overstates; `filter_guess_could_matter` stays safe.
2. `cap_inheritance`: `counterfactual.py:317-319` says an inherited cap is 0 exactly where
   the inherited settlement is a revert. A replacement over one settled and one reverted
   slot reverts, and inherits the settled slot's cap.
3. `rewards_moved`: `counterfactual.py:1512` counts "auctions where any solver's uncapped
   reward differs"; `Analysis.add` compares whole reward records, so auctions where only
   a score or a cap behind the reward moved are counted too.
4. `recorded_wins`: `counterfactual.py:1446` says recorded wins are counted "over every
   auction"; the price-suspect return comes first, as the comment at 1701 says.
5. `stream_shown`: `docs/quotes.md:465-467` and the comment at `quotes.py:2118-2123` say
   that removing anyone but the estimator whose answer was taken leaves the order
   unaffected, *exactly*. The docstring of `replay_stream` (376-378) says that a dropped answer
   sets the bar though nobody saw it: without it the user may have been shown another
   answer before committing. `UnaffectedSawTheSame` states, and section 4 proves, what
   holds instead.

## 6. What is not modelled

- **SQL and rows**: the queries of `extract.py` and `quotes.py`, the parsing of rows, the matching
  of a name against solver names, who is registered as an estimator. The models start from tables.
- **Amounts that no property tells apart**: volumes and partially fillable orders (executions are
  counted, not weighed), partner fees outside the quote pass, sums of negative rewards, the
  counts of how many multi-pair bids were judged exactly; the aggregation over the orders
  of a bid in `value_solution`.
- **Native prices**: an order's surplus and fee are integers of the counterfactual's model;
  `price_imbalanced` is a flag of an auction there, and modelled on the quote side.
- **Floats**: `mul_f64` and the quotients of the quote side are exact here.
- **Figures**: the shares of `LinkStats`, percentiles, the report's tables.
- **Comparisons with recorded tables** that keep no state beyond counters: `RewardValidation`,
  the table of `validate_window`.
- **Reports and I/O**: `aggregate.py`, `cli.py`, `db.py`, `ch.py`, scripts and notebook
  read files or sockets and lay out text; they decide nothing the other modules depend on.

The composition stops at two seams. `AnalyseWindow` takes the effect of a removal on an
auction as given, constrained by what `Counterfactual` establishes, and `QuoteFees` takes
the replaced quotes as given, any that `QuoteWindow` could hand over among them.

## 7. Plan

1. *done* `WinnerSelection`, `Mechanism`, `Arbitration` and their proofs; `Validation`.
2. *done* `Valuation`, `Outcomes`, `Counterfactual` and their proofs; `Sums`.
3. *done* `QuoteStream` over `QuoteCompetition`, with the proof of every safety property.
4. *done* `Fees`, and the quote pass `QuoteFees`, with its proofs.
5. *done* `QuoteLink` and `QuoteWindow`: links, validation of the pick, tallies, with their
   proofs.
6. *done* `AnalyseWindow` over `RemovalRun`, with the proof of the refinement.
7. What remains: the two seams of section 6, first that the deltas `Counterfactual` retains
   are an effect in the sense of `IsEffect`, then that the quotes `QuoteWindow` hands over
   are `IsQuote`; surplus mode in `Counterfactual`; and `aggregate.py`'s weighting of several
   windows into one report, which is arithmetic on finished counters.
