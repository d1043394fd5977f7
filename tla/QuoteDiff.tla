------------------------------- MODULE QuoteDiff -------------------------------
(***************************************************************************)
(* One order and the competition that priced it, under one removal: who      *)
(* would have replaced the answer the order carries (stream_replacement,     *)
(* leave_one_out), and the leaf the comparison of the two quotes falls in    *)
(* (diff_quote).                                                            *)
(***************************************************************************)
EXTENDS QuoteRanking

NoQuote == 0           \* stream_replacement, leave_one_out: None
Unrecorded == -1       \* UnrecordedStreamError

(***************************************************************************)
(* A StreamTake: the position of the answer taken, how many answers may have *)
(* arrived by the commit, and whether the stream ran to its end.  Orders     *)
(* that were not placed from a stream have `streamed' FALSE, and the taken   *)
(* answer is the recorded winner, 0 if there is none.                       *)
(***************************************************************************)
IsTake(q, take) ==
  /\ take.streamed \in BOOLEAN /\ take.complete \in BOOLEAN
  /\ take.taken \in DOMAIN q.ladder
  /\ take.horizon \in take.taken .. Len(q.ladder)

Until(I, h) == {i \in I : i <= h}

\* The first remaining answer after h that the quoter would turn into a quote.
Waited(q, take, removed, h) ==
  LET later == {i \in Usable(q, Remaining(q, removed)) : i > h /\ Sendable(q, i)}
  IN  IF later # {} THEN Earliest(later)
      ELSE IF take.complete THEN NoQuote ELSE Unrecorded

\* Fault: a user who has nothing on the screen never waits.
CommittedAtOnce(q, take, removed, h) ==
  LET best == Pick(q, Until(Remaining(q, removed), h))
  IN  IF best # 0 \/ take.complete THEN best ELSE Unrecorded

\* What the user takes who commits when the answers up to h have arrived.
CommittedAt(q, take, removed, h) ==
  LET best == Pick(q, Until(Remaining(q, removed), h))
  IN  IF best # 0 THEN best ELSE Waited(q, take, removed, h)

\* The latest commit the record allows.
StreamReplacement(q, take, removed) == CommittedAt(q, take, removed, take.horizon)

\* Would the earliest one have shown a different answer? Unrecorded is a None here.
CommitMattered(q, take, removed) ==
  LET early == CommittedAt(q, take, removed, take.taken)
  IN  StreamReplacement(q, take, removed) # IF early = Unrecorded THEN NoQuote ELSE early

Replacement(q, take, removed) ==
  IF take.streamed THEN StreamReplacement(q, take, removed) ELSE Pick(q, Remaining(q, removed))

\* The answers the ranking has to value; UnpricedRequestError if it cannot.
Ranked(q, take, removed) ==
  Usable(q, IF take.streamed THEN Until(Remaining(q, removed), take.horizon)
            ELSE Remaining(q, removed))

----------------------------------------------------------------------------
(* diff_quote *)

Above(x, y) == x[1] * y[2] > y[1] * x[2]
Double(x) == <<2 * x[1], x[2]>>

\* IMPLAUSIBLE_QUOTE_FACTOR: off the recorded quote's rate in either direction.
Implausible(base, loo) == Above(loo, Double(base)) \/ Above(base, Double(loo))

\* The answer, if any, whose verified class the replacement is compared with.
ClassFlip(q, take, loo) ==
  /\ take.taken # 0 /\ Reasonable(q, take.taken)
  /\ q.ladder[take.taken].verified /\ ~q.ladder[loo].verified

PriceLeaf(q, take, quote, loo) ==
  LET base == RecordedEffective(q.sell, quote)
      effective == Effective(q, loo)
  IN  CASE base[1] <= 0 \/ effective[1] <= 0 -> "nonpositive"
        [] base[1] > 0 /\ effective[1] > 0 /\ Implausible(base, effective) -> "implausible"
        [] OTHER -> IF ClassFlip(q, take, loo) THEN "class_flip" ELSE "degraded"

\* Removing a loser cannot move the winner, nor an answer that never entered.
Untouched(q, take, removed) ==
  \/ take.taken # 0 /\ q.ladder[take.taken].who \notin removed
  \/ \A i \in Usable(q, DOMAIN q.ladder) : q.ladder[i].who \notin removed

(***************************************************************************)
(* The leaf.  Three of them keep a ratio from being formed where it means     *)
(* nothing, and all are reached only after the removal is known to have      *)
(* moved this quote.                                                        *)
(***************************************************************************)
Leaf(q, take, quote, suspect, removed) ==
  LET loo == Replacement(q, take, removed)
  IN  IF Untouched(q, take, removed) THEN "unaffected"
      ELSE IF suspect THEN "price_suspect"
      ELSE IF Unpriced(q) /\ Ranked(q, take, removed) # {} THEN "unpriced"
      ELSE IF loo = Unrecorded THEN "unrecorded"
      ELSE IF loo = NoQuote THEN "no_quote"
      ELSE PriceLeaf(q, take, quote, loo)

Leaves == {"unaffected", "price_suspect", "unpriced", "unrecorded", "no_quote",
           "nonpositive", "implausible", "class_flip", "degraded"}

\* The leaves that carry a replacement, and those whose quote the fee path gets.
Named == {"nonpositive", "implausible", "class_flip", "degraded"}
Charged == {"class_flip", "degraded"}

\* A QuoteDiff; a field that is not set is 0, FALSE or the empty quote.
DiffQuote(q, take, quote, suspect, removed) ==
  LET leaf == Leaf(q, take, quote, suspect, removed)
      loo == Replacement(q, take, removed)
  IN  [leaf |-> leaf,
       replacement |-> IF leaf \in Named THEN loo ELSE 0,
       dependent |-> /\ take.streamed /\ leaf \in Named \cup {"no_quote"}
                     /\ CommitMattered(q, take, removed),
       quote |-> IF leaf \in Charged THEN CounterfactualQuote(q, loo) ELSE <<>>]
=============================================================================
