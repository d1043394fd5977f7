------------------------------ MODULE Validation ------------------------------
(***************************************************************************)
(* check_auction of loo/validate.py: what the arbitration made of an auction *)
(* is held against the record, and every difference of the filter must have   *)
(* a cause that excuses it.  The record is what the protocol decided on its   *)
(* own score of every pair; it numbers the bids from the best to the worst,   *)
(* and of equal bids the one its shuffle put first.  Score mode.             *)
(***************************************************************************)
EXTENDS Arbitration, Functions

----------------------------------------------------------------------------
(* The record *)

\* The protocol does not record bids without any value.
AllRecorded == \A u \in DOMAIN bids : bids[u].total # 0

RecordedKept == {u \in DOMAIN bids : TrulyFair(u)}

\* A record: the winners, and where the protocol's shuffle put each bid.
Record ==
  [shuffle : Bijection(DOMAIN bids, 1..Cardinality(DOMAIN bids)), winners : SUBSET RecordedKept]

ShuffledBefore(shuffle, u, v) ==
  \/ bids[u].total > bids[v].total
  \/ bids[u].total = bids[v].total /\ shuffle[u] < shuffle[v]

\* The winners first, then the other bids that were kept, then the rest.
RankedBefore(record, u, v) ==
  \/ u \in record.winners /\ v \notin record.winners
  \/ u \in RecordedKept /\ v \notin RecordedKept
  \/ /\ u \in record.winners <=> v \in record.winners
     /\ u \in RecordedKept <=> v \in RecordedKept
     /\ ShuffledBefore(record.shuffle, u, v)

Couples == (DOMAIN bids) \X (DOMAIN bids)

\* The greedy picks among C of a walk in the given order: there is one if it is total.
PicksAlong(order, C) ==
  {W \in SUBSET C :
     \A u \in C : LET earlier == {w \in W : <<w, u>> \in order}
                  IN  u \in W <=> /\ Cardinality(earlier) < MaxWinners
                                  /\ \A w \in earlier : Disjoint(bids, w, u)}

\* Per winning solver, the worth of the pick without it: what the protocol records in
\* its own ranking and compute_reference_scores finds in another one.
ReferenceScores(order, W) ==
  [s \in Bidders(bids, W) |->
     SumFunctionOnSet([u \in DOMAIN bids |-> bids[u].total],
       CHOOSE V \in PicksAlong(order, {u \in RecordedKept : bids[u].solver # s}) : TRUE)]

ProtocolOrder(shuffle) == {e \in Couples : ShuffledBefore(shuffle, e[1], e[2])}
RecordedOrder(record) == {e \in Couples : RankedBefore(record, e[1], e[2])}

\* The records whose numbering the uids of this auction can be: the winners are the
\* protocol's pick, and the uids number the ranking.
Records ==
  {record \in Record :
     /\ record.winners \in PicksAlong(ProtocolOrder(record.shuffle), RecordedKept)
     /\ \A u, v \in DOMAIN bids : u < v => RankedBefore(record, u, v)}

----------------------------------------------------------------------------
(* SolutionCheck and AuctionReport *)

Greater(m, n) == IF m > n THEN m ELSE n

\* Fault: a split that just fits is ruled out.
FilterBracketAtPar(u) ==
  LET s == bids[u]
  IN  IF Cardinality(Traded(s)) <= 1 THEN "must_keep"
      ELSE IF SumFunction([p \in Traded(s) |-> Greater(baselines[p], s.surplus[p])]) >= s.total
           THEN "must_filter"
           ELSE IF \A p \in Traded(s) : s.surplus[p] >= baselines[p] THEN "must_keep"
                ELSE "undetermined"

\* What any valid split of the recorded score over the pairs can imply.
FilterBracket(u) ==
  LET s == bids[u]
  IN  IF Cardinality(Traded(s)) <= 1 THEN "must_keep"
      ELSE IF SumFunction([p \in Traded(s) |-> Greater(baselines[p], s.surplus[p])]) > s.total
           THEN "must_filter"
           ELSE IF \A p \in Traded(s) : s.surplus[p] >= baselines[p] THEN "must_keep"
                ELSE "undetermined"

\* Where the recorded filter and ours differ: the guess, the fallback, or a bug.
FilterCause(u) ==
  LET recorded == u \notin RecordedKept
      ours == u \in discarded
  IN  CASE recorded = ours -> "none"
        [] recorded # ours /\ u \notin proxied -> "bug"
        [] OTHER -> CASE FilterBracket(u) = "undetermined" -> "proxy"
                      [] FilterBracket(u) = "must_filter" /\ recorded /\ ~ours -> "model"
                      [] OTHER -> "bug"

\* observed_pick: the pick over what the record kept, ties in the order of the uids.
ObservedPick(record) == IsPick(bids, {}, RecordedKept, record.winners)

\* observed_ranking: what the record kept, in the order of the uids.
ObservedOrder == {e \in Couples : e[1] < e[2]}

\* AuctionReport.unexplained: the gate of a window is that no auction has a verdict.
Unexplained(failures, record) ==
  IF failures # {} THEN "valuation-failure"
  ELSE IF \E u \in RecordedKept : Traded(bids[u]) = {}
       THEN "solution-with-no-contributing-orders"
  ELSE IF \E u \in DOMAIN bids : FilterCause(u) = "bug"
       THEN "filter-decision-no-valid-split-explains"
  ELSE IF ~ObservedPick(record) THEN "pick-differs-on-observed-kept-set"
  ELSE IF ReferenceScores(ObservedOrder, record.winners)
            # ReferenceScores(RecordedOrder(record), record.winners)
       THEN "reference-scores-differ-on-observed-ranking"
  ELSE "none"

----------------------------------------------------------------------------
(* Property *)

\* A competition the protocol recorded, of which every bid could be valued, has none of
\* the verdicts of `unexplained', however the protocol broke its ties and whatever fees
\* are missing: each difference of the filter is one that some split of the score allows,
\* and from what the record kept the pick and the reference scores are the recorded ones.
NoFalseAlarm ==
  pc = "done" /\ AllRecorded => \A record \in Records : Unexplained({}, record) = "none"
=============================================================================
