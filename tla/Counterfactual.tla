---------------------------- MODULE Counterfactual ----------------------------
(***************************************************************************)
(* A window of recorded auctions under one removal scenario: for each       *)
(* auction analyse_auction arbitrates twice, with and without the removed   *)
(* solvers, and diffs the outcomes; Analysis.add accumulates the diffs.     *)
(* Score mode, and runs without a quote pass.                               *)
(*                                                                         *)
(* The arbitrations are those module Arbitration shows the loops compute:   *)
(* the fair bids, their greedy pick, and the picks without each winner.     *)
(***************************************************************************)
EXTENDS Outcomes, Sequences

CONSTANTS
  Windows,     \* sequences of recorded auctions
  Scenarios    \* what is removed, the outcome rule, are price suspects left out?

ASSUME CounterfactualAssumption ==
  /\ \A w \in Windows : Len(w) \in Nat /\ \A i \in 1..Len(w) : IsRecorded(w[i])
  /\ \A c \in Scenarios :
       /\ c.removed \subseteq Solver
       /\ c.rule \in {"inherited", "assume-settled"}
       /\ c.excludeSuspects \in BOOLEAN

VARIABLES
  scenario, window,
  at,          \* the auction being analysed
  pc,          \* where in analyse_auction
  fair,        \* per side, the solutions that passed the filter
  winners,     \* per side, the winner_uids
  relaxed,     \* un_filtered_uids
  references,  \* per side and winning solver, the winners of the pick without it
  orders,      \* per side, what its orders did
  rewards,     \* per side, the reward of every winning solver
  analysis,    \* the counters of Analysis
  changed      \* Analysis.changed, each auction reduced to its deltas

counted == <<analysis, changed>>
compared == <<references, orders, rewards>>
arbitrated == <<fair, winners, relaxed>>
vars == <<scenario, window, at, pc, fair, winners, relaxed, references, orders, rewards,
          analysis, changed>>

Side == {"base", "loo"}
Both(x) == [side \in Side |-> x]
Removed == scenario.removed
Rule == scenario.rule
Auction == window[at]
Bid(u) == Auction.bids[u]

\* The solutions a side arbitrates: leave_one_out submits what is left.
Submitted(side) == IF side = "loo" THEN Without(Auction.bids, Removed) ELSE Auction.bids

RemovedPresent == Bidders(Auction.bids, DOMAIN Auction.bids) \cap Removed # {}
RemovedWonRecord == Bidders(Auction.bids, Auction.won) \cap Removed # {}

Counter ==
  {"auctions", "suspects", "skipped", "withSolver", "wonBaseline", "wonDb", "executions",
   "winnersChanged", "relaxed", "newlyKeptWon", "differs", "guess", "surplusBase", "surplusLoo",
   "feesCounted", "feesIncomplete", "feesBase", "feesLoo", "rewardsBase", "rewardsLoo",
   "removedReward", "rewardsMoved", "negativeBase", "negativeLoo", "capped", "cappedSkipped",
   "cappedBase", "cappedLoo", "doubleInherited", "capOrphans", "replacementsBase",
   "replacementsLoo", "revertsLoo", "orphansBase", "orphansLoo", "influence", "compared",
   "onlyWith", "onlyWithout", "unsettled", "late", "jitOnlyWith", "jitOnlyWithout"}

Init ==
  /\ scenario \in Scenarios /\ window \in Windows
  /\ at = 1 /\ pc = "value"
  /\ fair = Both({}) /\ winners = Both({}) /\ relaxed = {}
  /\ references = Both(<<>>) /\ orders = Both(<<>>) /\ rewards = Both(<<>>)
  /\ analysis = [c \in Counter |-> 0]
  /\ changed = <<>>

----------------------------------------------------------------------------
(* analyse_auction *)

InWindow == at <= Len(window)

RaiseMissingSettlement ==
  /\ pc = "value" /\ InWindow
  /\ ~Auction.failed /\ SettlementMissing(Auction, Rule)
  /\ pc' = "MissingSettlementError"
  /\ UNCHANGED <<scenario, window, at, arbitrated, compared, counted>>

\* The early return: a bid could not be valued, or the two sides are the same.
Skip ==
  /\ pc = "value" /\ InWindow
  /\ Auction.failed \/ (~SettlementMissing(Auction, Rule) /\ ~RemovedPresent)
  /\ pc' = "add"
  /\ UNCHANGED <<scenario, window, at, arbitrated, compared, counted>>

Arbitrate ==
  /\ pc = "value" /\ InWindow
  /\ ~Auction.failed /\ ~SettlementMissing(Auction, Rule) /\ RemovedPresent
  /\ fair' = [side \in Side |-> FairBids(Submitted(side))]
  /\ \E V \in SUBSET fair'["base"] :
       /\ IsPick(Submitted("base"), {}, fair'["base"], V)
       /\ \E W \in SUBSET fair'["loo"] :
            /\ IsPick(Submitted("loo"), {}, fair'["loo"], W)
            /\ winners' = [side \in Side |-> IF side = "base" THEN V ELSE W]
  /\ pc' = "relax"
  /\ UNCHANGED <<scenario, window, at, relaxed, compared, counted>>

\* Fault: the removed solvers' own solutions count as lost.
LostWithOwn == fair["base"] \ fair["loo"]

\* Kept in the baseline, somebody else's, and filtered out without the removed.
Lost == {u \in fair["base"] : Bid(u).solver \notin Removed} \ fair["loo"]

\* Faults: a difference the wrong way round; a guess is not an un-filtering.
NewlyKeptReversed == fair["base"] \ fair["loo"]
NewlyKeptProved == (fair["loo"] \ fair["base"]) \ Guessed(Auction.bids)

NewlyKept == fair["loo"] \ fair["base"]

\* un_filtered, which asserts that nothing kept is lost.
UnFilter ==
  /\ pc = "relax"
  /\ IF Lost = {}
     THEN relaxed' = NewlyKept /\ pc' = "settle"
     ELSE UNCHANGED relaxed /\ pc' = "RelaxationError"
  /\ UNCHANGED <<scenario, window, at, fair, winners, compared, counted>>

\* side_outcomes of both sides, which asserts that no order is claimed twice.
Settle ==
  /\ pc = "settle"
  /\ IF \A side \in Side : ~ClaimedTwice(Auction, winners[side])
     THEN /\ orders' = [side \in Side |-> SideOrders(Auction, Rule, winners[side])]
          /\ pc' = "refer"
     ELSE UNCHANGED orders /\ pc' = "AssertionError"
  /\ UNCHANGED <<scenario, window, at, arbitrated, references, rewards, counted>>

\* R holds the outcome of the auction without each winning solver of a side.
IsReference(side, R) ==
  \A s \in DOMAIN R :
    IsPick(Submitted(side), winners[side], {u \in fair[side] : Bid(u).solver # s}, R[s])

Refer ==
  /\ pc = "refer"
  /\ \E R \in [Bidders(Auction.bids, winners["base"]) -> SUBSET fair["base"]] :
       /\ IsReference("base", R)
       /\ \E S \in [Bidders(Auction.bids, winners["loo"]) -> SUBSET fair["loo"]] :
            /\ IsReference("loo", S)
            /\ references' = [side \in Side |-> IF side = "base" THEN R ELSE S]
  /\ pc' = "reward"
  /\ UNCHANGED <<scenario, window, at, arbitrated, orders, rewards, counted>>

ReferenceScores(side) ==
  [s \in DOMAIN references[side] |-> Totals(Auction.bids, references[side][s])]

Reward ==
  /\ pc = "reward"
  /\ rewards' = [side \in Side |->
                   Rewards(Auction, Rule, winners[side], ReferenceScores(side))]
  /\ pc' = "add"
  /\ UNCHANGED <<scenario, window, at, arbitrated, references, orders, counted>>

----------------------------------------------------------------------------
(* AuctionCounterfactual *)

Analysed == ~Auction.failed /\ RemovedPresent

\* Fault: an auction where only a reference score moved is not retained.
MovedWinners == winners["base"] # winners["loo"] \/ relaxed # {}

AnythingMoved ==
  \/ winners["base"] # winners["loo"]
  \/ relaxed # {}
  \/ ReferenceScores("base") # ReferenceScores("loo")

\* Fault: a solver sets a reference score only with a winning bid.
SettersAmongWinners(s) == Bidders(Auction.bids, references["base"][s] \cap winners["base"])

\* The solvers whose bids make up the baseline reference score of s.
Setters(s) == Bidders(Auction.bids, references["base"][s])

Unexecuted == [executed |-> FALSE, surplus |-> 0, fee |-> 0, feesKnown |-> TRUE,
               observed |-> FALSE, late |-> FALSE]
OrderOn(side, o) == IF o \in DOMAIN orders[side] THEN orders[side][o] ELSE Unexecuted

Diffed == DOMAIN orders["base"] \cup DOMAIN orders["loo"]
UserDiffed == Diffed \cap UserOrders

Surplus(side) == SumFunction([o \in UserDiffed |-> OrderOn(side, o).surplus])
Fees(side) == SumFunction([o \in UserDiffed |-> OrderOn(side, o).fee])
FeesComplete == \A o \in UserDiffed, side \in Side : OrderOn(side, o).feesKnown

Uncappeds(side) == [s \in DOMAIN rewards[side] |-> rewards[side][s].uncapped]
Negative(side) == {s \in DOMAIN rewards[side] : rewards[side][s].uncapped < 0}

\* The capped reward of a side is unknown as soon as one winner's is.
CappedKnown == \A side \in Side : \A s \in DOMAIN rewards[side] : rewards[side][s].capped # {}
CappedTotal(side) ==
  SumFunction([s \in DOMAIN rewards[side] |-> CHOOSE c \in rewards[side][s].capped : TRUE])

CapOrphans(side) == {u \in winners[side] : WinnerCap(Auction, u) = {}}

\* The set of guesses restored at once changes the winners of a side.
GuessCouldMatter(side) ==
  LET guessed == Guessed(Submitted(side))
  IN  guessed # {} /\ ~IsPick(Submitted(side), {}, fair[side] \cup guessed, winners[side])

GuessMatters == \E side \in Side : GuessCouldMatter(side)

OnlyOn(S, this, other) == {o \in S : OrderOn(this, o).executed /\ ~OrderOn(other, o).executed}

----------------------------------------------------------------------------
(* Analysis.add *)

One(condition) == IF condition THEN 1 ELSE 0

\* Every auction counts once, and is named if a price of it is suspect.
Seen == [c \in Counter |-> CASE c = "auctions" -> 1
                             [] c = "suspects" -> One(Auction.suspect)
                             [] OTHER -> 0]

\* A clean auction enters the denominators of the window.
Clean == [Seen EXCEPT !.wonDb = One(RemovedWonRecord),
                      !.executions = Cardinality(RecordedExecutions(Auction, Rule))]

WhoWon ==
  [Clean EXCEPT
     !.withSolver = 1,
     !.wonBaseline = One(Bidders(Auction.bids, winners["base"]) \cap Removed # {}),
     !.winnersChanged = One(winners["base"] # winners["loo"]),
     !.relaxed = One(relaxed # {}),
     !.newlyKeptWon = One(relaxed \cap winners["loo"] # {}),
     !.differs = One(winners["base"] # Auction.won),
     !.guess = One(GuessMatters),
     !.influence = Cardinality({s \in DOMAIN references["base"] : Setters(s) \cap Removed # {}})]

WhatUsersGot ==
  [WhoWon EXCEPT
     !.surplusBase = Surplus("base"), !.surplusLoo = Surplus("loo"),
     !.feesCounted = One(FeesComplete), !.feesIncomplete = One(~FeesComplete),
     !.feesBase = IF FeesComplete THEN Fees("base") ELSE 0,
     !.feesLoo = IF FeesComplete THEN Fees("loo") ELSE 0,
     !.compared = Cardinality(UserDiffed),
     !.onlyWith = Cardinality(OnlyOn(UserDiffed, "base", "loo")),
     !.onlyWithout = Cardinality(OnlyOn(UserDiffed, "loo", "base")),
     !.unsettled = Cardinality({o \in UserDiffed :
                       OrderOn("base", o).observed /\ ~OrderOn("base", o).executed}),
     !.late = Cardinality({o \in UserDiffed : OrderOn("base", o).late}),
     !.jitOnlyWith = Cardinality(OnlyOn(Diffed \ UserOrders, "base", "loo")),
     !.jitOnlyWithout = Cardinality(OnlyOn(Diffed \ UserOrders, "loo", "base")),
     !.replacementsBase = Cardinality(winners["base"] \ Auction.won),
     !.replacementsLoo = Cardinality(winners["loo"] \ Auction.won),
     !.revertsLoo = Cardinality(InheritedReverts(Auction, Rule, winners["loo"])),
     !.orphansBase = Cardinality(Orphans(Auction, Rule, winners["base"])),
     !.orphansLoo = Cardinality(Orphans(Auction, Rule, winners["loo"]))]

WhatSolversGot ==
  [WhatUsersGot EXCEPT
     !.rewardsBase = SumFunction(Uncappeds("base")),
     !.rewardsLoo = SumFunction(Uncappeds("loo")),
     !.removedReward = SumFunctionOnSet(Uncappeds("base"), DOMAIN rewards["base"] \cap Removed),
     !.rewardsMoved = One(rewards["base"] # rewards["loo"]),
     !.negativeBase = Cardinality(Negative("base")),
     !.negativeLoo = Cardinality(Negative("loo")),
     !.capped = One(CappedKnown), !.cappedSkipped = One(~CappedKnown),
     !.cappedBase = IF CappedKnown THEN CappedTotal("base") ELSE 0,
     !.cappedLoo = IF CappedKnown THEN CappedTotal("loo") ELSE 0,
     !.doubleInherited = Cardinality(DoubleInherited(Auction, winners["base"]))
                       + Cardinality(DoubleInherited(Auction, winners["loo"])),
     !.capOrphans = Cardinality(CapOrphans("loo"))]

Excluded == Auction.suspect /\ scenario.excludeSuspects

\* Fault: a recorded win counts before price suspects are left out.
TallyWinFirst ==
  CASE Excluded -> [Seen EXCEPT !.wonDb = One(RemovedWonRecord)]
    [] ~Excluded /\ Auction.failed -> [Seen EXCEPT !.skipped = 1, !.wonDb = One(RemovedWonRecord)]
    [] ~Excluded /\ ~Auction.failed /\ ~RemovedPresent -> Clean
    [] OTHER -> WhatSolversGot

\* What one auction adds to the counters.
Tally ==
  CASE Excluded -> Seen
    [] ~Excluded /\ Auction.failed -> [Seen EXCEPT !.skipped = 1, !.wonDb = One(RemovedWonRecord)]
    [] ~Excluded /\ ~Auction.failed /\ ~RemovedPresent -> Clean
    [] OTHER -> WhatSolversGot

\* The deltas a retained auction carries; unknown ones are 0 in a sum.
Deltas ==
  LET t == WhatSolversGot
  IN  [surplus |-> t.surplusLoo - t.surplusBase, fees |-> t.feesLoo - t.feesBase,
       rewards |-> t.rewardsLoo - t.rewardsBase, capped |-> t.cappedLoo - t.cappedBase]

Add ==
  /\ pc = "add"
  /\ analysis' = [c \in Counter |-> analysis[c] + Tally[c]]
  /\ changed' = IF Analysed /\ ~Excluded /\ AnythingMoved THEN Append(changed, Deltas) ELSE changed
  /\ pc' = "value" /\ at' = at + 1
  /\ fair' = Both({}) /\ winners' = Both({}) /\ relaxed' = {}
  /\ references' = Both(<<>>) /\ orders' = Both(<<>>) /\ rewards' = Both(<<>>)
  /\ UNCHANGED <<scenario, window>>

\* The window is analysed, or an error has ended the run.
Stopped ==
  /\ pc \in {"MissingSettlementError", "RelaxationError", "AssertionError"}
     \/ (pc = "value" /\ ~InWindow)
  /\ UNCHANGED vars

Next ==
  \/ RaiseMissingSettlement \/ Skip \/ Arbitrate
  \/ UnFilter \/ Settle \/ Refer \/ Reward
  \/ Add \/ Stopped

Spec == Init /\ [][Next]_vars

----------------------------------------------------------------------------
(* Properties *)

\* The variables hold what their comments say, and no counter of occurrences
\* exceeds the auctions or the solutions it counts.
TypeOK ==
  /\ at \in 1..Len(window) + 1
  /\ pc \in {"value", "relax", "settle", "refer", "reward", "add",
             "MissingSettlementError", "RelaxationError", "AssertionError"}
  /\ InWindow => \A side \in Side :
       /\ winners[side] \subseteq fair[side] /\ fair[side] \subseteq DOMAIN Submitted(side)
       /\ DOMAIN references[side] \subseteq Bidders(Auction.bids, winners[side])
       /\ DOMAIN orders[side] \subseteq Order
       /\ DOMAIN rewards[side] \subseteq DOMAIN references[side]
  /\ relaxed \subseteq fair["loo"]
  /\ analysis \in [Counter -> Int]
  /\ Len(changed) <= analysis["withSolver"]

\* The assertions of un_filtered and side_outcomes never fire: without some
\* solvers no baseline rises, so nothing kept is lost, and no order is executed
\* by two winners of a side.
AssertionsHold == pc \notin {"RelaxationError", "AssertionError"}

Compared == pc = "add" /\ InWindow /\ Analysed

\* The winners differ only where a removed solver won or an un-filtered solution
\* wins: everything else in the auction stands as it was (analyse_auction).
WinnersMoveForCause ==
  Compared /\ winners["base"] # winners["loo"] =>
    \/ Bidders(Auction.bids, winners["base"]) \cap Removed # {}
    \/ relaxed \cap winners["loo"] # {}

\* With the same winners, the reference score of a solver differs only where a
\* removed solver set it (solver_set_reference_for) or an un-filtered one does.
ReferencesMoveForCause ==
  Compared /\ winners["base"] = winners["loo"] =>
    \A s \in DOMAIN references["base"] :
      ReferenceScores("base")[s] # ReferenceScores("loo")[s] =>
        Setters(s) \cap Removed # {} \/ references["loo"][s] \cap relaxed # {}

\* On either side, a solver all of whose winning batches landed in time is not
\* charged for the auction, and one none of whose batches did is not paid for it:
\* the reference score is never below what the others won (uncapped_rewards).
RewardSign ==
  Compared => \A side \in Side : \A s \in DOMAIN rewards[side] :
    LET own == {u \in winners[side] : Bid(u).solver = s}
    IN  /\ (\A u \in own : Executed(Auction, Rule, u)) => rewards[side][s].uncapped >= 0
        /\ (\A u \in own : ~Executed(Auction, Rule, u)) => rewards[side][s].uncapped <= 0

\* Under `inherited' an order on a pair whose recorded holder did not land in time
\* is executed on neither side, so a revert is never charged to the removed solver.
RevertedSlotsCancel ==
  Compared /\ Rule = "inherited" =>
    \A side \in Side : \A o \in DOMAIN orders[side], u \in Auction.won :
      PairOf[o] \in Bid(u).claims /\ ~CountsAsExecuted(Auction.settled[u]) =>
        ~orders[side][o].executed

\* Unless double_inherited says so, a side hands out no more cap than the recorded
\* winners had: inheriting slots moves caps around and makes none (winner_caps).
CapsConserved ==
  Compared => \A side \in Side :
    LET capped == winners[side] \ CapOrphans(side)
        cap(u) == CHOOSE c \in WinnerCap(Auction, u) : TRUE
    IN  DoubleInherited(Auction, winners[side]) = {} =>
          SumFunction([u \in capped |-> cap(u)]) <= SumFunction(Auction.caps)

Retained(f) == SumFunction([i \in DOMAIN changed |-> changed[i][f]])

\* The auctions kept in `changed' carry the whole delta of the window: the
\* conversion of rewards reads nothing else (moved_auctions).
ChangedCarriesDeltas ==
  /\ Retained("surplus") = analysis["surplusLoo"] - analysis["surplusBase"]
  /\ Retained("fees") = analysis["feesLoo"] - analysis["feesBase"]
  /\ Retained("rewards") = analysis["rewardsLoo"] - analysis["rewardsBase"]
  /\ Retained("capped") = analysis["cappedLoo"] - analysis["cappedBase"]

\* The orders that executed only with the solver are a share of the executions the
\* record has, as long as the arbitration reproduces the recorded winners: the
\* two are counted along different paths (recorded_executed_volume).
CoverageIsAShare ==
  analysis["differs"] = 0 => analysis["onlyWith"] <= analysis["executions"]

\* The wins by our arbitration and by the record count the same auctions when
\* none was skipped and none is arbitrated differently (Analysis).
WinCountsComparable ==
  analysis["skipped"] = 0 /\ analysis["differs"] = 0 =>
    analysis["wonDb"] = analysis["wonBaseline"]

\* The doc of recorded_caps_by_pair: a reverted slot realised no fees, so its cap
\* is 0 exactly where its settlement is a revert.
CapFollowsSettlement ==
  Compared => \A u \in InheritedReverts(Auction, Rule, winners["loo"]) :
    (\A w \in DOMAIN Auction.settled : Auction.settled[w] # "late") =>
      WinnerCap(Auction, u) \subseteq {0}

\* The doc of auctions_rewards_moved: auctions where any solver's uncapped reward
\* differs between the sides.
RewardsMovedIsUncapped ==
  pc = "add" /\ InWindow /\ Tally["rewardsMoved"] = 1 => Uncappeds("base") # Uncappeds("loo")

\* The doc of auctions_solver_won_db: it is counted over every auction.
RecordedWinsOverEveryAuction ==
  analysis["wonDb"] =
    Cardinality({i \in 1..(at - 1) :
       Bidders(window[i].bids, window[i].won) \cap Removed # {}})

----------------------------------------------------------------------------
(* The inductive invariant: what each step of analyse_auction has established. *)

ControlInv ==
  /\ Len(window) \in Nat /\ \A i \in 1..Len(window) : IsRecorded(window[i])
  /\ at \in 1..Len(window) + 1
  /\ pc \in {"value", "relax", "settle", "refer", "reward", "add", "MissingSettlementError"}
  /\ pc \notin {"value", "MissingSettlementError"} => InWindow

Picked == pc \in {"relax", "settle", "refer", "reward"} \/ Compared

\* Both sides are the outcome of the mechanism, and the record covers the winners.
PickInv ==
  IF Picked
  THEN /\ Analysed /\ ~SettlementMissing(Auction, Rule)
       /\ \A side \in Side :
            /\ fair[side] = FairBids(Submitted(side))
            /\ IsPick(Submitted(side), {}, fair[side], winners[side])
  ELSE fair = Both({}) /\ winners = Both({})

RelaxInv ==
  relaxed = IF pc \in {"settle", "refer", "reward"} \/ Compared THEN NewlyKept ELSE {}

OrderInv ==
  orders = IF pc \in {"refer", "reward"} \/ Compared
           THEN [side \in Side |-> SideOrders(Auction, Rule, winners[side])]
           ELSE Both(<<>>)

ReferenceInv ==
  IF pc = "reward" \/ Compared
  THEN \A side \in Side :
         /\ DOMAIN references[side] = Bidders(Auction.bids, winners[side])
         /\ IsReference(side, references[side])
  ELSE references = Both(<<>>)

RewardInv ==
  rewards = IF Compared
            THEN [side \in Side |-> Rewards(Auction, Rule, winners[side], ReferenceScores(side))]
            ELSE Both(<<>>)

\* What the counters owe each other, whatever auctions they have counted.
CountsHold(counts) ==
  /\ counts \in [Counter -> Int]
  /\ {counts["skipped"], counts["differs"], counts["withSolver"],
      counts["onlyWith"], counts["executions"]} \subseteq Nat
  /\ counts["differs"] = 0 => counts["onlyWith"] <= counts["executions"]
  /\ counts["skipped"] = 0 /\ counts["differs"] = 0 => counts["wonDb"] = counts["wonBaseline"]

Delta == [surplus : Int, fees : Int, rewards : Int, capped : Int]

CountInv ==
  /\ CountsHold(analysis)
  /\ changed \in Seq(Delta) /\ Len(changed) <= analysis["withSolver"]
  /\ ChangedCarriesDeltas

\* Each side is what the mechanism makes of its bids, so the assertions on the way
\* cannot fire and the two sides can be compared bid by bid.
StepInv == ControlInv /\ PickInv /\ RelaxInv /\ OrderInv /\ ReferenceInv /\ RewardInv

\* And the counters owe each other what CountInv says, however many auctions were added.
IInv == StepInv /\ CountInv
=============================================================================
