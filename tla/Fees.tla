---------------------------------- MODULE Fees ----------------------------------
(***************************************************************************)
(* The protocol fees of one order's execution, from loo/fees.py: what one     *)
(* policy charges, the walk over an order's policies from the last to the     *)
(* first, and the split between the partners and the DAO; and the limit price *)
(* another quote would have given the order, from loo/quotes.py.             *)
(*                                                                         *)
(* An order t carries its limits and one execution.  A factor is a fraction   *)
(* <<n, d>>, <<>> if it is not recorded; `Scale' is the 1e18 that the code     *)
(* rounds factors to.  A fee that cannot be computed is Failed (FeeError).    *)
(***************************************************************************)
EXTENDS Integers, Sequences, Functions

CONSTANT Scale

ASSUME FeesAssumption == Scale \in Nat \ {0}

Failed == -1
NegativeSurplus == -2     \* the one FeeError that _price_improvement catches

IsTrade(t) ==
  /\ t.sell \in BOOLEAN
  /\ t.limitSell \in Nat /\ t.limitBuy \in Nat /\ t.soldFor \in Nat /\ t.boughtFor \in Nat

IsPolicy(p) ==
  /\ p.kind \in {"surplus", "volume", "priceimprovement"}
  /\ \A f \in {p.factor, p.cap} : f = <<>> \/ (f[1] \in Nat /\ f[2] \in Nat \ {0})

IsQuote(x) == x.sell \in Nat /\ x.buy \in Nat /\ x.fee \in Nat

----------------------------------------------------------------------------
(* Arithmetic *)

CeilDiv(n, d) == (n + d - 1) \div d

\* To the nearest integer, halves to the even one.
Rounded(n, d) ==
  LET low == n \div d
      rest == 2 * (n % d)
  IN  IF rest < d \/ (rest = d /\ low % 2 = 0) THEN low ELSE low + 1

\* mul_f64: the factor is rounded to Scale, and only then multiplied.
MulF64(amount, factor) ==
  IF factor[1] = factor[2] THEN amount
  ELSE (amount * Rounded(factor[1] * Scale, factor[2])) \div Scale

\* A failure of either stands; otherwise the lower one, the min of _policy_fee.
Cheaper(x, y) == IF x < 0 THEN x ELSE IF y < 0 THEN y ELSE IF x < y THEN x ELSE y

----------------------------------------------------------------------------
(* One policy *)

\* The price of the sell token is in units of the buy token, and the reverse.
BasePrices(t) == [sell |-> t.boughtFor, buy |-> t.soldFor]

SellAmount(t, prices) ==
  IF t.sell THEN t.soldFor
  ELSE IF prices.sell = 0 THEN Failed ELSE (t.boughtFor * prices.buy) \div prices.sell

BuyAmount(t, prices) ==
  IF ~t.sell THEN t.boughtFor
  ELSE IF prices.buy = 0 THEN Failed ELSE CeilDiv(t.soldFor * prices.sell, prices.buy)

\* _surplus_over, in the token of the surplus: a negative one is an error.
SurplusOver(t, prices, limits) ==
  LET against == IF t.sell THEN limits.sell ELSE limits.buy
      surplus == IF t.sell THEN BuyAmount(t, prices) - CeilDiv(t.soldFor * limits.buy, limits.sell)
                 ELSE (limits.sell * t.boughtFor) \div limits.buy - SellAmount(t, prices)
  IN  CASE against = 0 \/ (IF t.sell THEN prices.buy ELSE prices.sell) = 0 -> Failed
        [] OTHER -> IF surplus < 0 THEN NegativeSurplus ELSE surplus

Limits(t) == [sell |-> t.limitSell, buy |-> t.limitBuy]

\* The trade has the fee applied already: f / (1 - f) of what is left.
SurplusFee(surplus, f) ==
  IF surplus < 0 \/ f = <<>> THEN Failed
  ELSE IF f[1] >= f[2] THEN Failed ELSE MulF64(surplus, <<f[1], f[2] - f[1]>>)

VolumeFee(t, prices, f) ==
  LET volume == IF t.sell THEN BuyAmount(t, prices) ELSE SellAmount(t, prices)
  IN  IF volume < 0 \/ f = <<>> THEN Failed
      ELSE IF t.sell
           THEN IF f[1] >= f[2] THEN Failed ELSE MulF64(volume, <<f[1], f[2] - f[1]>>)
           ELSE MulF64(volume, <<f[1], f[2] + f[1]>>)

NoLimits == <<>>

\* Fault: the quote's network fee is left out of what it promised.
QuoteGross(t, quote) ==
  IF t.sell
  THEN LET scaled == (quote.buy * t.limitSell) \div quote.sell
       IN  IF quote.sell = 0 THEN NoLimits
           ELSE [sell |-> t.limitSell, buy |-> IF scaled > t.limitBuy THEN scaled ELSE t.limitBuy]
  ELSE LET scaled == (quote.sell * t.limitBuy) \div quote.buy
       IN  IF quote.buy = 0 THEN NoLimits
           ELSE [sell |-> IF scaled < t.limitSell THEN scaled ELSE t.limitSell, buy |-> t.limitBuy]

\* _adjust_quote_to_order_limits: never a baseline worse than the order's limit.
AdjustQuote(t, quote) ==
  IF t.sell
  THEN LET buy == quote.buy - (quote.fee * quote.buy) \div quote.sell
           scaled == (buy * t.limitSell) \div quote.sell
       IN  IF quote.sell = 0 \/ buy < 0 THEN NoLimits
           ELSE [sell |-> t.limitSell, buy |-> IF scaled > t.limitBuy THEN scaled ELSE t.limitBuy]
  ELSE LET scaled == ((quote.sell + quote.fee) * t.limitBuy) \div quote.buy
       IN  IF quote.buy = 0 THEN NoLimits
           ELSE [sell |-> IF scaled < t.limitSell THEN scaled ELSE t.limitSell, buy |-> t.limitBuy]

\* No improvement is 0, not an error.
PriceImprovement(t, prices, quote) ==
  LET limits == AdjustQuote(t, quote)
      surplus == SurplusOver(t, prices, limits)
  IN  IF limits = NoLimits THEN Failed ELSE IF surplus = NegativeSurplus THEN 0 ELSE surplus

\* _policy_fee; a quote that is not recorded is <<>>.
PolicyFee(t, policy, prices, quote) ==
  CASE policy.kind = "surplus" ->
         Cheaper(SurplusFee(SurplusOver(t, prices, Limits(t)), policy.factor),
                 VolumeFee(t, prices, policy.cap))
    [] policy.kind = "volume" -> VolumeFee(t, prices, policy.factor)
    [] policy.kind = "priceimprovement" ->
         IF quote = <<>> THEN Failed
         ELSE Cheaper(SurplusFee(PriceImprovement(t, prices, quote), policy.factor),
                      VolumeFee(t, prices, policy.cap))

----------------------------------------------------------------------------
(* An order's policies *)

NoPrices == [sell |-> Failed, buy |-> Failed]

\* The prices the trade would have had without the fees charged so far.
PricesExcluding(t, fee) ==
  IF t.sell THEN [sell |-> t.boughtFor + fee, buy |-> t.soldFor]
  ELSE IF t.soldFor < fee THEN NoPrices ELSE [sell |-> t.boughtFor, buy |-> t.soldFor - fee]

Total(fees) == SumFunction(fees)

\* Fault: each policy sees the prices net of the one charged before it only.
ChargeNetOfLast(t, policies, quote, later) ==
  LET policy == policies[Len(policies) - Len(later)]
      prices == PricesExcluding(t, IF later = <<>> THEN 0 ELSE Head(later))
  IN  IF Failed \in Range(later) \/ prices = NoPrices THEN <<Failed>> \o later
      ELSE <<PolicyFee(t, policy, prices, quote)>> \o later

\* One more policy is charged: the last but those whose fees are `later', on the prices
\* net of them all.  Without any, these are the base prices.
ChargeNext(t, policies, quote, later) ==
  LET policy == policies[Len(policies) - Len(later)]
      prices == PricesExcluding(t, Total(later))
  IN  IF Failed \in Range(later) \/ prices = NoPrices THEN <<Failed>> \o later
      ELSE <<PolicyFee(t, policy, prices, quote)>> \o later

\* policy_fees: from the last policy to the first; returned in application order.
PolicyFees(t, policies, quote) ==
  LET walk[n \in 0..Len(policies)] ==
        IF n = 0 THEN <<>> ELSE ChargeNext(t, policies, quote, walk[n - 1])
  IN  walk[Len(policies)]

Unknown == <<>>

\* fee_split: the last `partners' policies, but a single policy is always the DAO's.
FeeSplit(fees, partners) ==
  CASE Len(fees) <= 1 \/ partners = 0 -> [total |-> Total(fees), partner |-> 0]
    [] OTHER ->
         IF partners >= Len(fees) THEN Unknown
         ELSE [total |-> Total(fees),
               partner |-> Total(SubSeq(fees, Len(fees) - partners + 1, Len(fees)))]

\* order_fees, with a FeeError read as unknown: the order's context is whether its
\* policies are recorded, the policies, and how many partners its app data names.
OrderFees(t, context, quote) ==
  LET fees == PolicyFees(t, context.policies, quote)
  IN  IF ~context.known \/ \E i \in DOMAIN fees : fees[i] < 0 THEN Unknown
      ELSE FeeSplit(fees, context.partners)

----------------------------------------------------------------------------
(* In native currency *)

OrderSurplus(t) == SurplusOver(t, BasePrices(t), Limits(t))

\* to_native: a buy order's surplus goes through its own limit ratio.
ToNative(t, amount) ==
  LET bought == IF t.sell THEN amount ELSE (amount * t.limitBuy) \div t.limitSell
  IN  (bought * t.price) \div Scale

\* The shares of value_solution are differences of conversions.
NativeFee(t, split) ==
  LET gross == ToNative(t, OrderSurplus(t) + split.total) - ToNative(t, OrderSurplus(t))
      net == ToNative(t, OrderSurplus(t) + split.total - split.partner)
               - ToNative(t, OrderSurplus(t))
  IN  [total |-> gross, partner |-> gross - net]

----------------------------------------------------------------------------
(* The limit the order would have carried *)

\* _effective_rate: buy atoms per sell atom of what the user was shown.
EffectiveRate(t, quote) ==
  IF t.sell THEN IF quote.sell = 0 THEN <<0, 1>>
                 ELSE <<quote.buy * (quote.sell - quote.fee), quote.sell * quote.sell>>
  ELSE IF quote.sell + quote.fee = 0 THEN <<0, 1>> ELSE <<quote.buy, quote.sell + quote.fee>>

\* Python's int of a fraction, towards zero.
Truncated(n, d) == IF n < 0 THEN -((-n) \div d) ELSE n \div d

NoShift == <<>>

\* shifted_limit: the wedge between quote and limit, applied to the replacement.
ShiftedLimit(t, recorded, replacement) ==
  LET before == EffectiveRate(t, recorded)
      after == EffectiveRate(t, replacement)
      \* the replacement's rate over the recorded one's
      up == after[1] * before[2]
      down == after[2] * before[1]
      required == t.limitBuy * t.soldFor
      allowed == t.limitSell * t.boughtFor
  IN  IF before[1] <= 0 \/ after[1] <= 0 \/ 0 \in {t.soldFor, t.boughtFor, t.limitSell, t.limitBuy}
      THEN NoShift
      ELSE [clears |-> t.boughtFor * t.limitSell * down >= t.limitBuy * t.soldFor * up,
            shift |-> IF t.sell THEN Truncated(required * (down - up), t.limitSell * down)
                      ELSE Truncated(allowed * (down - up), t.limitBuy * up)]
=============================================================================
