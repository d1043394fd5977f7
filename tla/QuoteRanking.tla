----------------------------- MODULE QuoteRanking -----------------------------
(***************************************************************************)
(* How loo/quotes.py ranks the estimates of a quote request: the two keys,   *)
(* the pick, and what a stream of the same answers forwards.  Constant-level *)
(* definitions; an estimate is named by its position in the arrival-ordered  *)
(* ladder, and position 0 stands for Python's None.                         *)
(*                                                                         *)
(* Amounts are integers and prices are wei per atom, so `in * sellPrice' and *)
(* `gas * gasPrice' are both wei.  Quotients are exact where the code goes   *)
(* through a float, and truncated where the code truncates.                 *)
(***************************************************************************)
EXTENDS Integers, Sequences

CONSTANT Estimator

\* One estimator's answer, as fct_quote_estimates recorded it.
Estimate == [who : Estimator, out : Nat, gas : Nat, verified : BOOLEAN]

(***************************************************************************)
(* A request with its ladder and its Pricing.  `sell' is is_sell; a buy      *)
(* price of 0 is the None of a token that the window never priced.          *)
(***************************************************************************)
IsRequest(q) ==
  /\ {"sell", "in", "gasPrice", "sellPrice", "buyPrice", "ranking", "ladder"} \subseteq DOMAIN q
  /\ q.sell \in BOOLEAN
  /\ q.in \in Nat \ {0}
  /\ q.gasPrice \in Nat /\ q.sellPrice \in Nat \ {0} /\ q.buyPrice \in Nat
  /\ q.ranking \in {"effective-sell", "autopilot"}
  /\ q.ladder \in Seq(Estimate)
  /\ \A i, k \in DOMAIN q.ladder : q.ladder[i].who = q.ladder[k].who => i = k

\* A zero on either field: the estimate never entered the comparison.
Reasonable(q, i) == q.ladder[i].out > 0 /\ q.ladder[i].gas > 0

InWei(q) == q.in * q.sellPrice
GasWei(q, i) == q.ladder[i].gas * q.gasPrice

\* Does the quoter turn the answer into a quote at all? Buy orders are not checked.
Sendable(q, i) == q.sell => GasWei(q, i) < InWei(q)

----------------------------------------------------------------------------
(* rank_key: larger is better under both kinds and both rules. *)

\* The out amount net of gas in the sell token; under water it is worth 0.
EffectiveKey(q, i) ==
  LET e == q.ladder[i]
  IN  IF q.sell
      THEN IF GasWei(q, i) < InWei(q)
           THEN (e.out * (InWei(q) - GasWei(q, i))) \div InWei(q) ELSE 0
      ELSE -((e.out * q.sellPrice + GasWei(q, i)) \div q.sellPrice)

\* The out amount at the out token's native price, net of gas.
AutopilotKey(q, i) ==
  LET e == q.ladder[i]
  IN  IF q.sell
      THEN IF GasWei(q, i) < e.out * q.buyPrice THEN e.out * q.buyPrice - GasWei(q, i) ELSE 0
      ELSE -(e.out * q.sellPrice + GasWei(q, i))

Key(q, i) == IF q.ranking = "autopilot" THEN AutopilotKey(q, i) ELSE EffectiveKey(q, i)

\* UnpricedRequestError: the autopilot rule values a sell order's out token.
Unpriced(q) == q.ranking = "autopilot" /\ q.sell /\ q.buyPrice = 0

----------------------------------------------------------------------------
(* pick: the best of a set of positions. *)

Usable(q, I) == {i \in I : Reasonable(q, i)}

\* Verified beats unverified at any amount.
Preferred(q, I) ==
  LET usable == Usable(q, I)
      verified == {i \in usable : q.ladder[i].verified}
  IN  IF verified # {} THEN verified ELSE usable

\* The first of the best of P.
IsFirstBest(q, P, i) ==
  /\ i \in P
  /\ \A k \in P : Key(q, k) <= Key(q, i) /\ (Key(q, k) = Key(q, i) => i <= k)

\* Fault: of equal answers the last one wins.
LastPick(q, I) ==
  LET P == Preferred(q, I)
  IN  IF P = {} THEN 0
      ELSE CHOOSE i \in P : \A k \in P : /\ Key(q, k) <= Key(q, i)
                                         /\ Key(q, k) = Key(q, i) => k <= i

Pick(q, I) ==
  LET P == Preferred(q, I)
  IN  IF P = {} THEN 0 ELSE CHOOSE i \in P : IsFirstBest(q, P, i)

\* leave_one_out: the pick among the estimates of everybody else.
Remaining(q, removed) == {i \in DOMAIN q.ladder : q.ladder[i].who \notin removed}

----------------------------------------------------------------------------
(* replay_stream *)

\* Python's tuple comparison of (verified, rank_key), strict.
Beats(q, i, k) ==
  \/ q.ladder[i].verified /\ ~q.ladder[k].verified
  \/ q.ladder[i].verified = q.ladder[k].verified /\ Key(q, i) > Key(q, k)

(***************************************************************************)
(* What a stream that gets the answers I sends: each one that beats all the  *)
(* reasonable ones before it, unless the quoter drops it.                    *)
(***************************************************************************)
Sets(q, I, i) ==
  /\ i \in Usable(q, I)
  /\ \A k \in Usable(q, I) : k < i => Beats(q, i, k)

Sent(q, I) == {i \in I : Sets(q, I, i) /\ Sendable(q, i)}

Latest(S) == IF S = {} THEN 0 ELSE CHOOSE i \in S : \A k \in S : k <= i
Earliest(S) == IF S = {} THEN 0 ELSE CHOOSE i \in S : \A k \in S : i <= k

(***************************************************************************)
(* Whoever commits when the answers up to h have arrived takes what is on    *)
(* the screen or, if nothing is, waits for the next answer that is sent.     *)
(***************************************************************************)
Shown(q, I, h) ==
  LET seen == {i \in Sent(q, I) : i <= h}
  IN  IF seen # {} THEN Latest(seen) ELSE Earliest(Sent(q, I))

----------------------------------------------------------------------------
(* effective_sell_amount and counterfactual_quote *)

\* The effective amount on the out side, as <<numerator, denominator>>.
Effective(q, i) ==
  LET e == q.ladder[i]
  IN  IF q.sell THEN <<e.out * (InWei(q) - GasWei(q, i)), InWei(q)>>
      ELSE <<e.out * q.sellPrice + GasWei(q, i), q.sellPrice>>

\* Python's round: to the nearest integer, halves to the even one.
RoundHalfEven(n, d) ==
  LET low == n \div d
      rest == 2 * (n % d)
  IN  IF rest < d \/ (rest = d /\ low % 2 = 0) THEN low ELSE low + 1

\* The Quote the estimate would have put on the order; the kind says which side is fixed.
CounterfactualQuote(q, i) ==
  LET fee == RoundHalfEven(GasWei(q, i), q.sellPrice)
      out == q.ladder[i].out
  IN  IF q.sell THEN [sell |-> q.in, buy |-> out, fee |-> fee]
      ELSE [sell |-> out, buy |-> q.in, fee |-> fee]

\* _recorded_effective: the same netting, from the amounts stored on an order.
RecordedEffective(sell, quote) ==
  IF sell THEN IF quote.sell > 0 THEN <<(quote.sell - quote.fee) * quote.buy, quote.sell>>
               ELSE <<0, 1>>
  ELSE <<quote.sell + quote.fee, 1>>
=============================================================================
