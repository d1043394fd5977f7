---------------------------- MODULE QuoteFeesProofs ----------------------------
(***************************************************************************)
(* Theorems about module QuoteFees.                                        *)
(***************************************************************************)
EXTENDS QuoteFees, Sums

----------------------------------------------------------------------------
(* One policy *)

IsFactor(f) == f = <<>> \/ (f[1] \in Nat /\ f[2] \in Nat \ {0})

\* The volume, and the surplus, net of the fees x.
VolumeNet(t, x) == IF t.sell THEN t.boughtFor + x ELSE t.soldFor - x

\* A number that is multiplied and divided by the same one is that number.
LEMMA DivExact ==
  ASSUME NEW x \in Int, NEW d \in Nat \ {0}
  PROVE  (d * x) \div d = x /\ (x * d) \div d = x /\ CeilDiv(d * x, d) = x
BY DEF CeilDiv

\* Division keeps the order.
LEMMA DivMono ==
  ASSUME NEW x \in Int, NEW y \in Int, NEW d \in Nat \ {0}, x <= y
  PROVE  x \div d <= y \div d
OBVIOUS

LEMMA DivInt ==
  ASSUME NEW x \in Int, NEW d \in Nat \ {0}
  PROVE  /\ x \div d \in Int
         /\ x >= 0 => x \div d >= 0
         /\ CeilDiv(x, d) \in Int
BY DEF CeilDiv

\* mul_f64 of an amount is an amount.
LEMMA MulF64Nat ==
  ASSUME NEW x \in Nat, NEW n \in Nat, NEW d \in Nat \ {0}
  PROVE  MulF64(x, <<n, d>>) \in Nat
<1>. DEFINE r == Rounded(n * Scale, d)
<1>1. Scale \in Nat \ {0}
  BY FeesAssumption
<1>2. n * Scale \in Nat
  BY <1>1
<1>3. r \in Nat
  <2>. DEFINE m == n * Scale
  <2>. HIDE DEF m
  <2>1. m \in Nat
    BY <1>2 DEF m
  <2>2. m \div d \in Nat
    BY <2>1
  <2>3. Rounded(m, d) \in Nat
    BY <2>2 DEF Rounded
  <2>. QED  BY <2>3 DEF m
<1>. HIDE DEF r
<1>4. x * r \in Nat
  BY <1>3
<1>5. (x * r) \div Scale \in Nat
  <2>. DEFINE y == x * r
  <2>. HIDE DEF y
  <2>1. y \in Nat
    BY <1>4 DEF y
  <2>2. y \div Scale \in Nat
    BY <1>1, <2>1
  <2>. QED  BY <2>2 DEF y
<1>. QED  BY <1>5 DEF MulF64, r

\* What the user sent and received on the prices net of the fees x.
LEMMA AmountsNet ==
  ASSUME NEW t, IsTrade(t), NEW x \in Nat, PricesExcluding(t, x) # NoPrices
  PROVE  LET prices == PricesExcluding(t, x)
         IN  /\ prices.sell \in Nat /\ prices.buy \in Nat
             /\ t.sell => SellAmount(t, prices) = t.soldFor
             /\ t.sell => BuyAmount(t, prices) =
                            IF t.soldFor = 0 THEN Failed ELSE VolumeNet(t, x)
             /\ ~t.sell => BuyAmount(t, prices) = t.boughtFor
             /\ ~t.sell => SellAmount(t, prices) =
                             IF t.boughtFor = 0 THEN Failed ELSE VolumeNet(t, x)
             /\ VolumeNet(t, x) \in Nat
             /\ (IF t.sell THEN prices.buy ELSE prices.sell)
                  = IF t.sell THEN t.soldFor ELSE t.boughtFor
<1>1. CASE t.sell
  <2>1. PricesExcluding(t, x) = [sell |-> t.boughtFor + x, buy |-> t.soldFor]
    BY <1>1 DEF PricesExcluding
  <2>2. t.soldFor # 0 => CeilDiv(t.soldFor * (t.boughtFor + x), t.soldFor) = t.boughtFor + x
    <3>. DEFINE d == t.soldFor
                v == t.boughtFor + x
    <3>1. d \in Nat /\ v \in Int
      BY DEF IsTrade
    <3>. HIDE DEF d, v
    <3>2. d # 0 => CeilDiv(d * v, d) = v
      BY <3>1, DivExact
    <3>. QED  BY <3>2 DEF d, v
  <2>. QED  BY <1>1, <2>1, <2>2 DEF SellAmount, BuyAmount, VolumeNet, IsTrade
<1>2. CASE ~t.sell
  <2>1. PricesExcluding(t, x) = [sell |-> t.boughtFor, buy |-> t.soldFor - x] /\ x <= t.soldFor
    BY <1>2 DEF PricesExcluding, IsTrade
  <2>2. t.boughtFor # 0 => (t.boughtFor * (t.soldFor - x)) \div t.boughtFor = t.soldFor - x
    <3>. DEFINE d == t.boughtFor
                v == t.soldFor - x
    <3>1. d \in Nat /\ v \in Int
      BY DEF IsTrade
    <3>. HIDE DEF d, v
    <3>2. d # 0 => (d * v) \div d = v
      BY <3>1, DivExact
    <3>. QED  BY <3>2 DEF d, v
  <2>. QED  BY <1>2, <2>1, <2>2 DEF SellAmount, BuyAmount, VolumeNet, IsTrade
<1>. QED  BY <1>1, <1>2 DEF IsTrade

\* A cut of the volume is one of the volume net of the fees.
LEMMA VolumeFeeIs ==
  ASSUME NEW t, IsTrade(t), NEW x \in Nat, PricesExcluding(t, x) # NoPrices,
         NEW f, IsFactor(f)
  PROVE  LET fee == VolumeFee(t, PricesExcluding(t, x), f)
         IN  \/ fee = Failed
             \/ /\ fee \in Nat
                /\ fee = MulF64(VolumeNet(t, x),
                                <<f[1], IF t.sell THEN f[2] - f[1] ELSE f[2] + f[1]>>)
<1>. DEFINE prices == PricesExcluding(t, x)
<1>1. f # <<>> => f[1] \in Nat /\ f[2] \in Nat \ {0}
  BY DEF IsFactor
<1>2. VolumeNet(t, x) \in Nat
  BY AmountsNet
<1>3. ASSUME f # <<>>
      PROVE  /\ f[1] < f[2] => MulF64(VolumeNet(t, x), <<f[1], f[2] - f[1]>>) \in Nat
             /\ MulF64(VolumeNet(t, x), <<f[1], f[2] + f[1]>>) \in Nat
  <2>1. f[1] < f[2] => f[2] - f[1] \in Nat \ {0}
    BY <1>1, <1>3
  <2>2. f[2] + f[1] \in Nat \ {0}
    BY <1>1, <1>3
  <2>. QED  BY <1>1, <1>2, <1>3, <2>1, <2>2, MulF64Nat
<1>4. CASE t.sell
  <2>1. BuyAmount(t, prices) = IF t.soldFor = 0 THEN Failed ELSE VolumeNet(t, x)
    BY <1>4, AmountsNet
  <2>. HIDE DEF prices
  <2>. QED  BY <1>1, <1>2, <1>3, <1>4, <2>1 DEF VolumeFee, Failed, prices
<1>5. CASE ~t.sell
  <2>1. SellAmount(t, prices) = IF t.boughtFor = 0 THEN Failed ELSE VolumeNet(t, x)
    BY <1>5, AmountsNet
  <2>. HIDE DEF prices
  <2>. QED  BY <1>1, <1>2, <1>3, <1>5, <2>1 DEF VolumeFee, Failed, prices
<1>. QED  BY <1>4, <1>5

\* The surplus over some limits, net of the fees x, where it can be told.
SurplusNet(t, x, limits) ==
  IF t.sell THEN VolumeNet(t, x) - CeilDiv(t.soldFor * limits.buy, limits.sell)
  ELSE (limits.sell * t.boughtFor) \div limits.buy - VolumeNet(t, x)

\* What it cannot be told without: the limit it is measured against, the execution.
Measured(t, limits) ==
  IF t.sell THEN limits.sell # 0 /\ t.soldFor # 0 ELSE limits.buy # 0 /\ t.boughtFor # 0

LEMMA SurplusNetInt ==
  ASSUME NEW t, IsTrade(t), NEW x \in Nat, NEW limits, Measured(t, limits),
         limits.sell \in Nat, limits.buy \in Nat
  PROVE  SurplusNet(t, x, limits) \in Int
<1>1. CASE t.sell
  <2>. DEFINE d == limits.sell
              n == t.soldFor * limits.buy
  <2>1. d \in Nat \ {0} /\ n \in Int
    BY <1>1 DEF IsTrade, Measured
  <2>. HIDE DEF d, n
  <2>2. CeilDiv(n, d) \in Int
    BY <2>1, DivInt
  <2>. QED  BY <1>1, <2>2 DEF SurplusNet, VolumeNet, IsTrade, d, n
<1>2. CASE ~t.sell
  <2>. DEFINE d == limits.buy
              n == limits.sell * t.boughtFor
  <2>1. d \in Nat \ {0} /\ n \in Int
    BY <1>2 DEF IsTrade, Measured
  <2>. HIDE DEF d, n
  <2>2. n \div d \in Int
    BY <2>1, DivInt
  <2>. QED  BY <1>2, <2>2 DEF SurplusNet, VolumeNet, IsTrade, d, n
<1>. QED  BY <1>1, <1>2

\* _surplus_over, on the prices net of the fees x.
LEMMA SurplusOverIs ==
  ASSUME NEW t, IsTrade(t), NEW x \in Nat, PricesExcluding(t, x) # NoPrices, NEW limits,
         limits.sell \in Nat, limits.buy \in Nat
  PROVE  SurplusOver(t, PricesExcluding(t, x), limits) =
           IF ~Measured(t, limits) THEN Failed
           ELSE IF SurplusNet(t, x, limits) < 0 THEN NegativeSurplus
           ELSE SurplusNet(t, x, limits)
<1>. DEFINE prices == PricesExcluding(t, x)
<1>1. CASE t.sell
  <2>1. /\ prices.buy = t.soldFor
        /\ t.soldFor # 0 => BuyAmount(t, prices) = VolumeNet(t, x)
    BY <1>1, AmountsNet
  <2>. HIDE DEF prices
  <2>2. SurplusOver(t, prices, limits) =
          IF limits.sell = 0 \/ t.soldFor = 0 THEN Failed
          ELSE IF SurplusNet(t, x, limits) < 0 THEN NegativeSurplus
          ELSE SurplusNet(t, x, limits)
    BY <1>1, <2>1 DEF SurplusOver, SurplusNet
  <2>. QED  BY <1>1, <2>2 DEF Measured, prices
<1>2. CASE ~t.sell
  <2>1. /\ prices.sell = t.boughtFor
        /\ t.boughtFor # 0 => SellAmount(t, prices) = VolumeNet(t, x)
    BY <1>2, AmountsNet
  <2>. HIDE DEF prices
  <2>2. SurplusOver(t, prices, limits) =
          IF limits.buy = 0 \/ t.boughtFor = 0 THEN Failed
          ELSE IF SurplusNet(t, x, limits) < 0 THEN NegativeSurplus
          ELSE SurplusNet(t, x, limits)
    BY <1>2, <2>1 DEF SurplusOver, SurplusNet
  <2>. QED  BY <1>2, <2>2 DEF Measured, prices
<1>. QED  BY <1>1, <1>2

\* The base prices are those net of no fee.
LEMMA BaseIsNetOfNone ==
  ASSUME NEW t, IsTrade(t)
  PROVE  BasePrices(t) = PricesExcluding(t, 0) /\ PricesExcluding(t, 0) # NoPrices
<1>1. BasePrices(t) = PricesExcluding(t, 0)
  BY DEF BasePrices, PricesExcluding, IsTrade
<1>2. BasePrices(t).sell = t.boughtFor /\ NoPrices.sell = -1
  BY DEF BasePrices, NoPrices, Failed
<1>3. t.boughtFor # -1
  BY DEF IsTrade
<1>. QED  BY <1>1, <1>2, <1>3

\* A fee taken from a trade was surplus before: the surplus net of x is x above it.
LEMMA SurplusGrows ==
  ASSUME NEW t, IsTrade(t), OrderSurplus(t) >= 0, NEW x \in Nat, PricesExcluding(t, x) # NoPrices
  PROVE  /\ OrderSurplus(t) \in Nat
         /\ SurplusOver(t, PricesExcluding(t, x), Limits(t)) = OrderSurplus(t) + x
<1>. DEFINE limits == Limits(t)
<1>1. limits.sell \in Nat /\ limits.buy \in Nat
  BY DEF Limits, IsTrade
<1>. HIDE DEF limits
<1>2. OrderSurplus(t) =
        IF ~Measured(t, limits) THEN Failed
        ELSE IF SurplusNet(t, 0, limits) < 0 THEN NegativeSurplus ELSE SurplusNet(t, 0, limits)
  BY <1>1, BaseIsNetOfNone, SurplusOverIs DEF OrderSurplus, limits
<1>3. Measured(t, limits)
  BY <1>2 DEF Failed
<1>4. SurplusNet(t, 0, limits) \in Int
  BY <1>1, <1>3, SurplusNetInt
<1>5. OrderSurplus(t) = SurplusNet(t, 0, limits) /\ OrderSurplus(t) \in Nat
  BY <1>2, <1>3, <1>4 DEF NegativeSurplus
<1>6. SurplusNet(t, x, limits) = SurplusNet(t, 0, limits) + x
  <2>1. CASE t.sell
    <3>. DEFINE c == CeilDiv(t.soldFor * limits.buy, limits.sell)
    <3>1. SurplusNet(t, 0, limits) = (t.boughtFor + 0) - c /\ SurplusNet(t, x, limits) = (t.boughtFor + x) - c
      <4>1. /\ SurplusNet(t, 0, limits) = VolumeNet(t, 0) - c
            /\ SurplusNet(t, x, limits) = VolumeNet(t, x) - c
        BY <2>1 DEF SurplusNet
      <4>. HIDE DEF c
      <4>. QED  BY <2>1, <4>1 DEF VolumeNet
    <3>2. c \in Int
      <4>. DEFINE d == limits.sell
                  n == t.soldFor * limits.buy
      <4>1. d \in Nat \ {0} /\ n \in Int
        BY <1>1, <1>3, <2>1 DEF IsTrade, Measured
      <4>. HIDE DEF d, n
      <4>2. CeilDiv(n, d) \in Int
        BY <4>1, DivInt
      <4>. QED  BY <4>2 DEF d, n
    <3>. HIDE DEF c
    <3>. QED  BY <3>1, <3>2 DEF IsTrade
  <2>2. CASE ~t.sell
    <3>. DEFINE c == (limits.sell * t.boughtFor) \div limits.buy
    <3>1. SurplusNet(t, 0, limits) = c - (t.soldFor - 0) /\ SurplusNet(t, x, limits) = c - (t.soldFor - x)
      BY <2>2 DEF SurplusNet, VolumeNet
    <3>2. c \in Int
      <4>. DEFINE d == limits.buy
                  n == limits.sell * t.boughtFor
      <4>1. d \in Nat \ {0} /\ n \in Int
        BY <1>1, <1>3, <2>2 DEF IsTrade, Measured
      <4>. HIDE DEF d, n
      <4>2. n \div d \in Int
        BY <4>1, DivInt
      <4>. QED  BY <4>2 DEF d, n
    <3>. HIDE DEF c
    <3>. QED  BY <3>1, <3>2 DEF IsTrade
  <2>. QED  BY <2>1, <2>2
<1>7. SurplusOver(t, PricesExcluding(t, x), limits) =
        IF SurplusNet(t, x, limits) < 0 THEN NegativeSurplus ELSE SurplusNet(t, x, limits)
  BY <1>1, <1>3, SurplusOverIs
<1>. QED  BY <1>4, <1>5, <1>6, <1>7 DEF limits

\* The limits that a quote implies are amounts.
LEMMA AdjustedLimits ==
  ASSUME NEW t, IsTrade(t), NEW quote, IsQuote(quote)
  PROVE  \/ AdjustQuote(t, quote) = NoLimits
         \/ AdjustQuote(t, quote).sell \in Nat /\ AdjustQuote(t, quote).buy \in Nat
<1>1. CASE t.sell /\ quote.sell # 0
  <2>. DEFINE d == quote.sell
              buy == quote.buy - (quote.fee * quote.buy) \div d
              n == buy * t.limitSell
  <2>1. d \in Nat \ {0} /\ quote.fee * quote.buy \in Int /\ quote.buy \in Int
    BY <1>1 DEF IsQuote
  <2>2. buy \in Int
    <3>. DEFINE m == quote.fee * quote.buy
    <3>. HIDE DEF m
    <3>. QED  BY <2>1, DivInt DEF m
  <2>3. buy >= 0 => n \div d \in Nat
    <3>. HIDE DEF buy, d
    <3>1. buy >= 0 => n \in Nat
      BY <2>2 DEF IsTrade
    <3>. HIDE DEF n
    <3>. QED  BY <2>1, <3>1
  <2>4. AdjustQuote(t, quote) =
          IF buy < 0 THEN NoLimits
          ELSE [sell |-> t.limitSell, buy |-> IF n \div d > t.limitBuy THEN n \div d ELSE t.limitBuy]
    BY <1>1 DEF AdjustQuote
  <2>. HIDE DEF buy, d, n
  <2>. QED  BY <2>2, <2>3, <2>4 DEF IsTrade
<1>2. CASE ~t.sell /\ quote.buy # 0
  <2>. DEFINE d == quote.buy
              n == (quote.sell + quote.fee) * t.limitBuy
  <2>1. d \in Nat \ {0} /\ n \in Nat
    BY <1>2 DEF IsQuote, IsTrade
  <2>2. n \div d \in Nat
    <3>. HIDE DEF n, d
    <3>. QED  BY <2>1
  <2>3. AdjustQuote(t, quote) =
          [sell |-> IF n \div d < t.limitSell THEN n \div d ELSE t.limitSell, buy |-> t.limitBuy]
    BY <1>2 DEF AdjustQuote
  <2>. HIDE DEF d, n
  <2>. QED  BY <2>2, <2>3 DEF IsTrade
<1>3. CASE t.sell /\ quote.sell = 0
  BY <1>3 DEF AdjustQuote
<1>4. CASE ~t.sell /\ quote.buy = 0
  BY <1>4 DEF AdjustQuote
<1>. QED  BY <1>1, <1>2, <1>3, <1>4

\* A cut of a surplus that could be told.
LEMMA SurplusFeeIs ==
  ASSUME NEW s \in Int, NEW f, IsFactor(f)
  PROVE  \/ SurplusFee(s, f) = Failed
         \/ /\ s \in Nat /\ f # <<>> /\ f[1] < f[2]
            /\ SurplusFee(s, f) = MulF64(s, <<f[1], f[2] - f[1]>>)
            /\ SurplusFee(s, f) \in Nat
<1>. SUFFICES ASSUME s >= 0, f # <<>>, f[1] < f[2]
              PROVE  MulF64(s, <<f[1], f[2] - f[1]>>) \in Nat
  BY DEF SurplusFee, IsFactor
<1>1. f[1] \in Nat /\ f[2] - f[1] \in Nat \ {0}
  BY DEF IsFactor
<1>. QED  BY <1>1, MulF64Nat

\* The improvement over a quote is a number or a failure.
LEMMA ImprovementInt ==
  ASSUME NEW t, IsTrade(t), NEW x \in Nat, PricesExcluding(t, x) # NoPrices,
         NEW quote, IsQuote(quote)
  PROVE  PriceImprovement(t, PricesExcluding(t, x), quote) \in Int
<1>. DEFINE limits == AdjustQuote(t, quote)
            surplus == SurplusOver(t, PricesExcluding(t, x), limits)
<1>1. CASE limits = NoLimits
  BY <1>1 DEF PriceImprovement, Failed
<1>2. CASE limits # NoLimits
  <2>1. limits.sell \in Nat /\ limits.buy \in Nat
    BY <1>2, AdjustedLimits
  <2>2. surplus \in Int
    <3>. HIDE DEF limits
    <3>1. Measured(t, limits) => SurplusNet(t, x, limits) \in Int
      BY <2>1, SurplusNetInt
    <3>. QED  BY <2>1, <3>1, SurplusOverIs DEF Failed, NegativeSurplus
  <2>3. PriceImprovement(t, PricesExcluding(t, x), quote) =
          IF surplus = NegativeSurplus THEN 0 ELSE surplus
    BY <1>2 DEF PriceImprovement
  <2>. HIDE DEF surplus
  <2>. QED  BY <2>2, <2>3
<1>. QED  BY <1>1, <1>2

\* What a fee is: an amount, or that it cannot be computed.
Fee == Nat \cup {Failed}

LEMMA CheaperIs ==
  ASSUME NEW x \in Fee, NEW y \in Fee
  PROVE  /\ Cheaper(x, y) \in Fee
         /\ Cheaper(x, y) >= 0 => /\ x >= 0 /\ y >= 0 /\ Cheaper(x, y) = Lesser(x, y)
                                  /\ Cheaper(x, y) <= y
BY DEF Cheaper, Lesser, Fee, Failed

\* What one policy charges on prices net of the fees x.
ChargesNet(t, policy, x, fee) ==
  LET volumeFee(f) == MulF64(VolumeNet(t, x),
                             <<f[1], IF t.sell THEN f[2] - f[1] ELSE f[2] + f[1]>>)
  IN  CASE policy.kind = "volume" -> fee = volumeFee(policy.factor)
        [] policy.kind = "surplus" ->
             fee = Lesser(MulF64(OrderSurplus(t) + x,
                                 <<policy.factor[1], policy.factor[2] - policy.factor[1]>>),
                          volumeFee(policy.cap))
        [] OTHER -> fee <= volumeFee(policy.cap)

LEMMA PolicyFeeIs ==
  ASSUME NEW t, IsTrade(t), OrderSurplus(t) >= 0,
         NEW x \in Nat, PricesExcluding(t, x) # NoPrices,
         NEW policy, IsPolicy(policy), NEW quote, quote = <<>> \/ IsQuote(quote)
  PROVE  LET fee == PolicyFee(t, policy, PricesExcluding(t, x), quote)
         IN  fee \in Fee /\ (fee >= 0 => ChargesNet(t, policy, x, fee))
<1>. DEFINE prices == PricesExcluding(t, x)
            byVolume(f) == VolumeFee(t, prices, f)
            volumeFee(f) == MulF64(VolumeNet(t, x),
                                   <<f[1], IF t.sell THEN f[2] - f[1] ELSE f[2] + f[1]>>)
            surplus == SurplusOver(t, prices, Limits(t))
            bySurplus == SurplusFee(surplus, policy.factor)
            improvement == PriceImprovement(t, prices, quote)
            byQuote == SurplusFee(improvement, policy.factor)
            fee == PolicyFee(t, policy, prices, quote)
<1>1. /\ IsFactor(policy.factor) /\ IsFactor(policy.cap)
      /\ policy.kind \in {"surplus", "volume", "priceimprovement"}
  BY DEF IsPolicy, IsFactor
<1>2. ASSUME NEW f, IsFactor(f)
      PROVE  byVolume(f) \in Fee /\ (byVolume(f) >= 0 => byVolume(f) = volumeFee(f))
  <2>1. \/ byVolume(f) = Failed
        \/ byVolume(f) \in Nat /\ byVolume(f) = volumeFee(f)
    BY <1>2, VolumeFeeIs
  <2>. HIDE DEF byVolume, volumeFee
  <2>. QED  BY <2>1 DEF Failed, Fee
<1>3. surplus = OrderSurplus(t) + x /\ OrderSurplus(t) \in Nat
  BY SurplusGrows
<1>4. bySurplus \in Fee
      /\ (bySurplus >= 0 => bySurplus = MulF64(OrderSurplus(t) + x,
                               <<policy.factor[1], policy.factor[2] - policy.factor[1]>>))
  <2>. DEFINE s == OrderSurplus(t) + x
              f == policy.factor
  <2>1. s \in Nat /\ bySurplus = SurplusFee(s, f) /\ IsFactor(f)
    BY <1>1, <1>3
  <2>. HIDE DEF s, f, bySurplus
  <2>2. SurplusFee(s, f) = Failed
        \/ (SurplusFee(s, f) \in Nat /\ SurplusFee(s, f) = MulF64(s, <<f[1], f[2] - f[1]>>))
    BY <2>1, SurplusFeeIs
  <2>3. bySurplus \in Fee /\ (bySurplus >= 0 => bySurplus = MulF64(s, <<f[1], f[2] - f[1]>>))
    BY <2>1, <2>2 DEF Failed, Fee
  <2>. QED  BY <2>3 DEF s, f
<1>5. quote # <<>> => byQuote \in Fee
  <2>. SUFFICES ASSUME quote # <<>> PROVE byQuote \in Fee
    OBVIOUS
  <2>1. improvement \in Int
    BY ImprovementInt
  <2>. DEFINE f == policy.factor
  <2>2. byQuote = SurplusFee(improvement, f) /\ IsFactor(f)
    BY <1>1
  <2>. HIDE DEF improvement, byQuote, f
  <2>3. SurplusFee(improvement, f) = Failed \/ SurplusFee(improvement, f) \in Nat
    BY <2>1, <2>2, SurplusFeeIs
  <2>. QED  BY <2>2, <2>3 DEF Fee
<1>6. fee = CASE policy.kind = "surplus" -> Cheaper(bySurplus, byVolume(policy.cap))
              [] policy.kind = "volume" -> byVolume(policy.factor)
              [] policy.kind = "priceimprovement" ->
                   IF quote = <<>> THEN Failed ELSE Cheaper(byQuote, byVolume(policy.cap))
  BY DEF PolicyFee
<1>7. ChargesNet(t, policy, x, fee)
        = CASE policy.kind = "volume" -> fee = volumeFee(policy.factor)
            [] policy.kind = "surplus" ->
                 fee = Lesser(MulF64(OrderSurplus(t) + x,
                                     <<policy.factor[1], policy.factor[2] - policy.factor[1]>>),
                              volumeFee(policy.cap))
            [] OTHER -> fee <= volumeFee(policy.cap)
  <2>. HIDE DEF fee
  <2>. QED  BY DEF ChargesNet
<1>. HIDE DEF byVolume, volumeFee, bySurplus, byQuote, fee
<1>8. CASE policy.kind = "volume"
  BY <1>1, <1>2, <1>6, <1>7, <1>8 DEF fee
<1>9. CASE policy.kind = "surplus"
  <2>1. fee = Cheaper(bySurplus, byVolume(policy.cap))
    BY <1>6, <1>9
  <2>2. byVolume(policy.cap) \in Fee /\ bySurplus \in Fee
    BY <1>1, <1>2, <1>4
  <2>3. fee \in Fee /\ (fee >= 0 => /\ bySurplus >= 0 /\ byVolume(policy.cap) >= 0
                                    /\ fee = Lesser(bySurplus, byVolume(policy.cap)))
    BY <2>1, <2>2, CheaperIs
  <2>. QED  BY <1>1, <1>2, <1>4, <1>7, <1>9, <2>3 DEF fee
<1>10. CASE policy.kind = "priceimprovement" /\ quote # <<>>
  <2>1. fee = Cheaper(byQuote, byVolume(policy.cap))
    BY <1>6, <1>10
  <2>2. byVolume(policy.cap) \in Fee /\ byQuote \in Fee
    BY <1>1, <1>2, <1>5, <1>10
  <2>3. fee \in Fee /\ (fee >= 0 => byVolume(policy.cap) >= 0 /\ fee <= byVolume(policy.cap))
    BY <2>1, <2>2, CheaperIs
  <2>. QED  BY <1>1, <1>2, <1>7, <1>10, <2>3 DEF fee
<1>11. CASE policy.kind = "priceimprovement" /\ quote = <<>>
  BY <1>6, <1>11 DEF Failed, Fee, fee
<1>. QED  BY <1>1, <1>8, <1>9, <1>10, <1>11

----------------------------------------------------------------------------
(* An order's policies *)

\* The walk can be made: the trade made a surplus, and its policies are recorded.
Chargeable(t, policies, quote) ==
  /\ IsTrade(t) /\ OrderSurplus(t) >= 0
  /\ Len(policies) \in Nat /\ \A i \in 1..Len(policies) : IsPolicy(policies[i])
  /\ quote = <<>> \/ IsQuote(quote)

\* The total of a sequence of fees is that of their positions.
LEMMA TotalNat ==
  ASSUME NEW fees \in Seq(Nat)
  PROVE  Total(fees) = SumFunctionOnSet(fees, 1..Len(fees)) /\ Total(fees) \in Nat
<1>1. DOMAIN fees = 1..Len(fees) /\ IsFiniteSet(1..Len(fees))
  BY FS_Interval
<1>2. \A i \in 1..Len(fees) : fees[i] \in Nat
  OBVIOUS
<1>3. Total(fees) = SumFunctionOnSet(fees, 1..Len(fees))
  BY <1>1 DEF Total, SumFunction
<1>. DEFINE D == 1..Len(fees)
<1>. HIDE DEF D
<1>4. SumFunctionOnSet(fees, D) \in Nat
  BY <1>1, <1>2, SumNat DEF D
<1>. QED  BY <1>3, <1>4 DEF D

\* The fee is what the policy charges on the prices net of the fees x, if there are any.
Charges(t, policy, quote, x, fee) ==
  /\ PricesExcluding(t, x) # NoPrices
  /\ fee = PolicyFee(t, policy, PricesExcluding(t, x), quote)

\* One step of the walk puts one fee in front, computed from the total of the others.
LEMMA ChargeNextIs ==
  ASSUME NEW t, NEW policies, NEW quote, Chargeable(t, policies, quote),
         NEW later \in Seq(Fee), Len(later) < Len(policies)
  PROVE  \E e \in Fee :
           /\ ChargeNext(t, policies, quote, later) = <<e>> \o later
           /\ e # Failed => /\ later \in Seq(Nat)
                            /\ Charges(t, policies[Len(policies) - Len(later)], quote, Total(later), e)
<1>. DEFINE policy == policies[Len(policies) - Len(later)]
            prices == PricesExcluding(t, Total(later))
            e == PolicyFee(t, policy, prices, quote)
<1>1. CASE Failed \in Range(later) \/ prices = NoPrices
  <2>1. ChargeNext(t, policies, quote, later) = <<Failed>> \o later
    BY <1>1 DEF ChargeNext
  <2>. QED  BY <2>1 DEF Fee
<1>2. CASE Failed \notin Range(later) /\ prices # NoPrices
  <2>1. ChargeNext(t, policies, quote, later) = <<e>> \o later
    BY <1>2 DEF ChargeNext
  <2>2. \A i \in 1..Len(later) : later[i] \in Nat
    BY <1>2 DEF Range, Fee
  <2>3. later \in Seq(Nat)
    BY <2>2
  <2>4. Total(later) \in Nat
    BY <2>3, TotalNat
  <2>5. IsPolicy(policy)
    BY DEF Chargeable
  <2>6. e \in Fee
    <3>. DEFINE x == Total(later)
    <3>. HIDE DEF x, policy
    <3>. QED  BY <1>2, <2>4, <2>5, PolicyFeeIs DEF x, Chargeable
  <2>7. Charges(t, policy, quote, Total(later), e)
    BY <1>2 DEF Charges
  <2>. HIDE DEF e
  <2>. QED  BY <2>1, <2>3, <2>6, <2>7
<1>. QED  BY <1>1, <1>2

\* w is the walk over the last L policies.
IsWalk(w, t, policies, quote, L) ==
  w = [n \in 0..L |-> IF n = 0 THEN <<>> ELSE ChargeNext(t, policies, quote, w[n - 1])]

\* The recursion defines a function.
LEMMA WalkExists ==
  ASSUME NEW t, NEW policies, NEW quote, NEW L \in Nat
  PROVE  \E w : IsWalk(w, t, policies, quote, L)
<1>. DEFINE G == {n \in 0..L : \E w : IsWalk(w, t, policies, quote, n)}
            next(later) == ChargeNext(t, policies, quote, later)
<1>1. 0 \in G
  <2>. DEFINE w == [n \in 0..0 |-> <<>>]
              v == [n \in 0..0 |-> IF n = 0 THEN <<>> ELSE next(w[n - 1])]
  <2>1. w = v
    <3>1. \A n \in 0..0 : w[n] = v[n]
      OBVIOUS
    <3>2. w = [n \in 0..0 |-> w[n]] /\ v = [n \in 0..0 |-> v[n]]
      OBVIOUS
    <3>. HIDE DEF w, v
    <3>. QED  BY <3>1, <3>2
  <2>2. IsWalk(w, t, policies, quote, 0)
    BY <2>1 DEF IsWalk
  <2>. QED  BY <2>2
<1>2. ASSUME NEW n \in 0..L, n < L, n \in G
      PROVE  n + 1 \in G
  <2>1. PICK w : IsWalk(w, t, policies, quote, n)
    BY <1>2
  <2>. DEFINE u == [i \in 0..(n + 1) |-> IF i = n + 1 THEN next(w[n]) ELSE w[i]]
              v == [i \in 0..(n + 1) |-> IF i = 0 THEN <<>> ELSE next(u[i - 1])]
  <2>2. \A i \in 0..n : w[i] = IF i = 0 THEN <<>> ELSE next(w[i - 1])
    BY <2>1 DEF IsWalk
  <2>3. \A i \in 0..(n + 1) : u[i] = v[i]
    <3>. SUFFICES ASSUME NEW i \in 0..(n + 1) PROVE u[i] = v[i]
      OBVIOUS
    <3>1. \A k \in 0..n : u[k] = w[k]
      OBVIOUS
    <3>2. CASE i = n + 1
      <4>1. u[i] = next(w[n]) /\ v[i] = next(u[n]) /\ u[n] = w[n]
        BY <3>1, <3>2
      <4>. QED  BY <4>1
    <3>3. CASE i # n + 1
      <4>1. i \in 0..n /\ (i # 0 => i - 1 \in 0..n)
        BY <3>3
      <4>2. u[i] = w[i] /\ (i # 0 => u[i - 1] = w[i - 1])
        BY <3>1, <4>1
      <4>3. v[i] = IF i = 0 THEN <<>> ELSE next(u[i - 1])
        OBVIOUS
      <4>. HIDE DEF u, v, next
      <4>. QED  BY <2>2, <4>1, <4>2, <4>3
    <3>. QED  BY <3>2, <3>3
  <2>4. u = v
    <3>1. u = [i \in 0..(n + 1) |-> u[i]] /\ v = [i \in 0..(n + 1) |-> v[i]]
      OBVIOUS
    <3>. HIDE DEF u, v
    <3>. QED  BY <2>3, <3>1
  <2>5. IsWalk(u, t, policies, quote, n + 1)
    <3>. HIDE DEF u
    <3>. QED  BY <2>4 DEF IsWalk
  <2>. HIDE DEF u
  <2>. QED  BY <1>2, <2>5
<1>3. 0..L \subseteq G
  <2>. HIDE DEF G
  <2>. QED  BY <1>1, <1>2, UpTo
<1>. QED  BY <1>3

\* What every place of a walk holds, and that each continues the one before.
LEMMA WalkIs ==
  ASSUME NEW t, NEW policies, NEW quote, Chargeable(t, policies, quote),
         NEW w, IsWalk(w, t, policies, quote, Len(policies))
  PROVE  /\ \A n \in 0..Len(policies) : w[n] \in Seq(Fee) /\ Len(w[n]) = n
         /\ \A n \in 0..Len(policies) : n < Len(policies) =>
              \E e \in Fee :
                /\ w[n + 1] = <<e>> \o w[n]
                /\ e # Failed =>
                     /\ w[n] \in Seq(Nat)
                     /\ Charges(t, policies[Len(policies) - n], quote, Total(w[n]), e)
<1>. DEFINE L == Len(policies)
            G == {n \in 0..L : w[n] \in Seq(Fee) /\ Len(w[n]) = n}
<1>1. L \in Nat
  BY DEF Chargeable
<1>. HIDE DEF L
<1>2. w[0] = <<>> /\ \A n \in 0..L : n < L => w[n + 1] = ChargeNext(t, policies, quote, w[n])
  <2>1. \A n \in 0..L : w[n] = IF n = 0 THEN <<>> ELSE ChargeNext(t, policies, quote, w[n - 1])
    BY DEF IsWalk, L
  <2>2. w[0] = <<>>
    BY <1>1, <2>1
  <2>3. ASSUME NEW n \in 0..L, n < L PROVE w[n + 1] = ChargeNext(t, policies, quote, w[n])
    <3>. DEFINE m == n + 1
    <3>1. m \in 0..L /\ m # 0 /\ m - 1 = n
      BY <1>1, <2>3
    <3>. HIDE DEF m
    <3>2. w[m] = ChargeNext(t, policies, quote, w[n])
      BY <2>1, <3>1
    <3>. QED  BY <3>2 DEF m
  <2>. QED  BY <2>2, <2>3
<1>3. ASSUME NEW n \in 0..L, n < L, n \in G
      PROVE  \E e \in Fee :
               /\ w[n + 1] = <<e>> \o w[n]
               /\ e # Failed => /\ w[n] \in Seq(Nat)
                                /\ Charges(t, policies[L - n], quote, Total(w[n]), e)
  <2>1. w[n] \in Seq(Fee) /\ Len(w[n]) = n
    BY <1>3
  <2>. DEFINE later == w[n]
  <2>2. w[n + 1] = ChargeNext(t, policies, quote, later)
    BY <1>2, <1>3
  <2>. HIDE DEF later
  <2>3. later \in Seq(Fee) /\ Len(later) = n /\ Len(later) < Len(policies)
    BY <1>3, <2>1 DEF later, L
  <2>4. \E e \in Fee :
          /\ ChargeNext(t, policies, quote, later) = <<e>> \o later
          /\ e # Failed => /\ later \in Seq(Nat)
                           /\ Charges(t, policies[L - n], quote, Total(later), e)
    BY <2>3, ChargeNextIs DEF L
  <2>. QED  BY <2>2, <2>4 DEF later
<1>4. 0 \in G
  <2>1. <<>> \in Seq(Fee) /\ Len(<<>>) = 0 /\ 0 \in 0..L
    BY <1>1
  <2>. QED  BY <1>2, <2>1
<1>5. ASSUME NEW n \in 0..L, n < L, n \in G
      PROVE  n + 1 \in G
  <2>1. PICK e \in Fee : w[n + 1] = <<e>> \o w[n]
    BY <1>3, <1>5
  <2>. DEFINE later == w[n]
  <2>2. later \in Seq(Fee) /\ Len(later) = n
    BY <1>5
  <2>. HIDE DEF later
  <2>3. <<e>> \o later \in Seq(Fee)
    BY <2>2
  <2>4. Len(<<e>> \o later) = n + 1
    BY <1>1, <2>2
  <2>5. w[n + 1] \in Seq(Fee) /\ Len(w[n + 1]) = n + 1
    BY <2>1, <2>3, <2>4 DEF later
  <2>6. n + 1 \in 0..L
    BY <1>1, <1>5
  <2>. QED  BY <2>5, <2>6
<1>6. 0..L \subseteq G
  <2>. HIDE DEF G
  <2>. QED  BY <1>1, <1>4, <1>5, UpTo
<1>. QED  BY <1>3, <1>6 DEF L

\* An earlier place of the walk is the end of every later one.
LEMMA WalkContinues ==
  ASSUME NEW t, NEW policies, NEW quote, Chargeable(t, policies, quote),
         NEW w, IsWalk(w, t, policies, quote, Len(policies)),
         NEW n \in 0..Len(policies), NEW i \in 1..n
  PROVE  w[Len(policies)][Len(policies) - n + i] = w[n][i]
<1>. DEFINE L == Len(policies)
            G == {m \in 0..L : n <= m => w[m][m - n + i] = w[n][i]}
<1>1. L \in Nat /\ n \in 0..L
  BY DEF Chargeable
<1>2. /\ \A m \in 0..L : w[m] \in Seq(Fee) /\ Len(w[m]) = m
      /\ \A m \in 0..L : m < L => \E e \in Fee : w[m + 1] = <<e>> \o w[m]
  <2>1. \A m \in 0..L : w[m] \in Seq(Fee) /\ Len(w[m]) = m
    BY WalkIs
  <2>2. ASSUME NEW m \in 0..L, m < L PROVE \E e \in Fee : w[m + 1] = <<e>> \o w[m]
    <3>1. \E e \in Fee :
            /\ w[m + 1] = <<e>> \o w[m]
            /\ e # Failed =>
                 /\ w[m] \in Seq(Nat)
                 /\ Charges(t, policies[Len(policies) - m], quote, Total(w[m]), e)
      BY <2>2, WalkIs
    <3>. QED  BY <3>1
  <2>. QED  BY <2>1, <2>2
<1>. HIDE DEF L
<1>3. 0 \in G
  BY <1>1
<1>4. ASSUME NEW m \in 0..L, m < L, m \in G
      PROVE  m + 1 \in G
  <2>. SUFFICES ASSUME n <= m PROVE w[m + 1][m + 1 - n + i] = w[n][i]
    BY <1>1, <1>4
  <2>1. PICK e \in Fee : w[m + 1] = <<e>> \o w[m]
    BY <1>2, <1>4
  <2>. DEFINE later == w[m]
              k == m - n + i
  <2>2. later \in Seq(Fee) /\ Len(later) = m
    BY <1>2
  <2>3. k \in 1..m /\ m + 1 - n + i = k + 1
    BY <1>1, <1>4
  <2>4. w[n][i] = later[k]
    BY <1>4
  <2>. HIDE DEF later, k
  <2>5. (<<e>> \o later)[k + 1] = later[k]
    BY <1>4, <2>2, <2>3
  <2>. QED  BY <2>1, <2>3, <2>4, <2>5 DEF later
<1>5. 0..L \subseteq G
  <2>. HIDE DEF G
  <2>. QED  BY <1>1, <1>3, <1>4, UpTo
<1>6. L \in G
  BY <1>1, <1>5
<1>. QED  BY <1>1, <1>6 DEF L

\* The fees of an order that could be charged: each is what its policy charges net of
\* the later ones (policy_fees).
LEMMA PoliciesCharge ==
  ASSUME NEW t, NEW policies, NEW quote, Chargeable(t, policies, quote),
         NEW fees, fees = PolicyFees(t, policies, quote), \A i \in DOMAIN fees : ~(fees[i] < 0)
  PROVE  /\ fees \in Seq(Nat) /\ Len(fees) = Len(policies)
         /\ \A k \in 1..Len(fees) : Charges(t, policies[k], quote, Later(fees, k), fees[k])
<1>. DEFINE L == Len(policies)
            w == CHOOSE w : IsWalk(w, t, policies, quote, L)
<1>1. L \in Nat
  BY DEF Chargeable
<1>2. IsWalk(w, t, policies, quote, L)
  <2>. HIDE DEF L
  <2>. QED  BY <1>1, WalkExists
<1>3. fees = w[L]
  BY DEF PolicyFees, IsWalk
<1>. HIDE DEF w
<1>4. \A n \in 0..L : w[n] \in Seq(Fee) /\ Len(w[n]) = n
  BY <1>2, WalkIs
<1>. HIDE DEF L
<1>5. fees \in Seq(Fee) /\ Len(fees) = L
  BY <1>1, <1>3, <1>4
<1>6. \A i \in 1..L : fees[i] \in Nat
  <2>1. DOMAIN fees = 1..L
    BY <1>5
  <2>. QED  BY <1>5, <2>1 DEF Fee, Failed
<1>7. fees \in Seq(Nat)
  BY <1>1, <1>5, <1>6
<1>8. ASSUME NEW k \in 1..L
      PROVE  Charges(t, policies[k], quote, Later(fees, k), fees[k])
  <2>. DEFINE n == L - k
              later == w[n]
              m == n + 1
  <2>1. n \in 0..L /\ n < L /\ m \in 0..L /\ 1 \in 1..m /\ L - m + 1 = k
        /\ L - n = k
    BY <1>1, <1>8
  <2>2. later \in Seq(Fee) /\ Len(later) = n
    BY <1>4, <2>1
  <2>3. \A i \in 1..n : fees[k + i] = later[i]
    <3>1. \A i \in 1..n : w[L][L - n + i] = w[n][i]
      <4>. HIDE DEF n
      <4>. QED  BY <1>2, <2>1, WalkContinues DEF L
    <3>. HIDE DEF n
    <3>. QED  BY <1>3, <2>1, <3>1
  <2>4. fees[k] = w[m][1]
    <3>1. w[L][L - m + 1] = w[m][1]
      <4>. HIDE DEF m
      <4>. QED  BY <1>2, <2>1, WalkContinues DEF L
    <3>. QED  BY <1>3, <2>1, <3>1
  <2>5. \A e \in Fee : w[m] = <<e>> \o later => e = fees[k]
    <3>. SUFFICES ASSUME NEW e \in Fee, w[m] = <<e>> \o later PROVE e = fees[k]
      OBVIOUS
    <3>. HIDE DEF later, m
    <3>1. (<<e>> \o later)[1] = e
      BY <2>2
    <3>. QED  BY <2>4, <3>1
  <2>6. \E e \in Fee :
          /\ w[n + 1] = <<e>> \o w[n]
          /\ e # Failed =>
               /\ w[n] \in Seq(Nat)
               /\ Charges(t, policies[Len(policies) - n], quote, Total(w[n]), e)
    <3>. HIDE DEF n
    <3>. QED  BY <1>2, <2>1, WalkIs DEF L
  <2>7. fees[k] # Failed
    BY <1>6 DEF Failed
  <2>8. later \in Seq(Nat) /\ Charges(t, policies[L - n], quote, Total(later), fees[k])
    <3>. HIDE DEF n
    <3>. QED  BY <2>5, <2>6, <2>7 DEF L
  <2>9. later = SubSeq(fees, k + 1, L)
    <3>. DEFINE rest == SubSeq(fees, k + 1, L)
    <3>. HIDE DEF later, n
    <3>1. rest \in Seq(Nat) /\ Len(rest) = n /\ \A i \in 1..n : rest[i] = fees[k + i]
      BY <1>1, <1>5, <1>7, <2>1
    <3>. HIDE DEF rest
    <3>2. later \in Seq(Nat) /\ n \in Nat
      BY <2>1, <2>8
    <3>3. later = [i \in 1..n |-> later[i]] /\ rest = [i \in 1..n |-> rest[i]]
      BY <2>2, <3>1, <3>2
    <3>4. \A i \in 1..n : later[i] = rest[i]
      BY <2>3, <3>1
    <3>5. later = rest
      BY <3>3, <3>4
    <3>. QED  BY <3>5 DEF rest
  <2>10. Charges(t, policies[k], quote, Total(later), fees[k])
    BY <2>1, <2>8
  <2>11. Later(fees, k) = Total(later)
    BY <1>5, <2>9 DEF Later
  <2>. HIDE DEF later
  <2>. QED  BY <2>10, <2>11
<1>. QED  BY <1>5, <1>7, <1>8 DEF L

\* The fees after the m-th add up to the sum over their positions.
LEMMA LaterIs ==
  ASSUME NEW fees \in Seq(Nat), NEW m \in 0..Len(fees)
  PROVE  /\ Later(fees, m) = SumFunctionOnSet(fees, (m + 1)..Len(fees))
         /\ Later(fees, m) \in Nat
<1>. DEFINE l == Len(fees)
            k == l - m
            rest == SubSeq(fees, m + 1, l)
<1>1. l \in Nat /\ m \in Nat /\ l - m \in Nat
  OBVIOUS
<1>2. rest \in Seq(Nat) /\ Len(rest) = l - m /\ \A i \in 1..(l - m) : rest[i] = fees[m + i]
  BY <1>1
<1>3. Later(fees, m) = Total(rest)
  BY DEF Later
<1>. HIDE DEF rest
<1>4. Total(rest) = SumFunctionOnSet(rest, 1..k) /\ Total(rest) \in Nat
  BY <1>2, TotalNat
<1>5. \A i \in 1..k : rest[i] \in Int /\ rest[i] = fees[m + i]
  BY <1>2
<1>6. k \in Nat /\ m \in Nat
  BY <1>1
<1>7. m + k = l
  BY <1>1
<1>. HIDE DEF k, l
<1>8. SumFunctionOnSet(rest, 1..k) = SumFunctionOnSet(fees, (m + 1)..(m + k))
  BY <1>5, <1>6, SumShifted
<1>. QED  BY <1>3, <1>4, <1>7, <1>8 DEF l

\* A sum from m to l is the value at m and the sum from the place after it.
LEMMA SumFrom ==
  ASSUME NEW f, NEW l \in Nat, NEW m \in 1..l, \A i \in m..l : f[i] \in Int
  PROVE  SumFunctionOnSet(f, m..l) = f[m] + SumFunctionOnSet(f, (m + 1)..l)
<1>. DEFINE all == m..l
            rest == (m + 1)..l
<1>1. m \in all /\ rest = all \ {m}
  OBVIOUS
<1>2. IsFiniteSet(all)
  BY FS_Interval
<1>3. \A i \in all : f[i] \in Int
  OBVIOUS
<1>. HIDE DEF all, rest
<1>4. SumFunctionOnSet(f, all) = f[m] + SumFunctionOnSet(f, all \ {m})
  <2>1. \A x \in all : SumFunctionOnSet(f, all) = f[x] + SumFunctionOnSet(f, all \ {x})
    BY <1>2, <1>3, SumWithout, Zenon
  <2>. QED  BY <1>1, <2>1, Zenon
<1>5. SumFunctionOnSet(f, all) = f[m] + SumFunctionOnSet(f, rest)
  BY <1>1, <1>4, Zenon
<1>. QED  BY <1>5 DEF all, rest

\* They are all the fees if none is left out, none at the end, and one fee more at each
\* place before it.
LEMMA LaterUnfolds ==
  ASSUME NEW fees \in Seq(Nat)
  PROVE  /\ Later(fees, 0) = Total(fees)
         /\ Later(fees, Len(fees)) = 0
         /\ \A m \in 1..Len(fees) : Later(fees, m - 1) = fees[m] + Later(fees, m)
<1>. DEFINE l == Len(fees)
<1>1. l \in Nat /\ 0 \in 0..l /\ l \in 0..l
  OBVIOUS
<1>2. Later(fees, 0) = Total(fees)
  <2>1. Later(fees, 0) = SumFunctionOnSet(fees, (0 + 1)..l)
    BY <1>1, LaterIs
  <2>. QED  BY <2>1, TotalNat
<1>3. Later(fees, l) = 0
  <2>1. Later(fees, l) = SumFunctionOnSet(fees, (l + 1)..l)
    <3>. HIDE DEF l
    <3>. QED  BY <1>1, LaterIs DEF l
  <2>2. (l + 1)..l = {}
    BY <1>1
  <2>. QED  BY <2>1, <2>2, SumOfNone
<1>4. ASSUME NEW m \in 1..l
      PROVE  Later(fees, m - 1) = fees[m] + Later(fees, m)
  <2>. DEFINE all == m..l
              rest == (m + 1)..l
  <2>1. m - 1 \in 0..l /\ m \in 0..l /\ (m - 1) + 1 = m
    BY <1>1
  <2>2. Later(fees, m - 1) = SumFunctionOnSet(fees, all)
    <3>. DEFINE n == m - 1
    <3>1. n \in 0..l /\ n + 1 = m
      BY <2>1
    <3>. HIDE DEF n
    <3>2. Later(fees, n) = SumFunctionOnSet(fees, (n + 1)..l)
      BY <3>1, LaterIs
    <3>. QED  BY <3>1, <3>2 DEF n
  <2>3. Later(fees, m) = SumFunctionOnSet(fees, rest)
    BY <2>1, LaterIs
  <2>4. \A i \in all : fees[i] \in Int
    BY <1>1
  <2>5. l \in Nat /\ m \in 1..l
    BY <1>1
  <2>6. SumFunctionOnSet(fees, all) = fees[m] + SumFunctionOnSet(fees, rest)
    <3>. HIDE DEF l
    <3>. QED  BY <2>4, <2>5, SumFrom
  <2>. HIDE DEF all, rest
  <2>. QED  BY <2>2, <2>3, <2>6
<1>. QED  BY <1>2, <1>3, <1>4

\* The last fees add up to no more than all of them.
LEMMA LaterBounded ==
  ASSUME NEW fees \in Seq(Nat), NEW m \in 0..Len(fees)
  PROVE  Later(fees, m) \in 0..Total(fees)
<1>. DEFINE some == (m + 1)..Len(fees)
            all == 1..Len(fees)
<1>1. Later(fees, m) = SumFunctionOnSet(fees, some) /\ Later(fees, m) \in Nat
  BY LaterIs
<1>2. Total(fees) = SumFunctionOnSet(fees, all) /\ Total(fees) \in Nat
  BY TotalNat
<1>3. IsFiniteSet(all)
  BY FS_Interval
<1>4. some \subseteq all /\ \A i \in all : fees[i] \in Nat
  OBVIOUS
<1>5. SumFunctionOnSet(fees, some) <= SumFunctionOnSet(fees, all)
  <2>. HIDE DEF some, all
  <2>. QED  BY <1>3, <1>4, SumOfPart
<1>. HIDE DEF some, all
<1>. QED  BY <1>1, <1>2, <1>5

\* What the partners get is what the last of the fees add up to (fee_split).
LEMMA SplitIs ==
  ASSUME NEW fees \in Seq(Nat), NEW partners \in Nat, FeeSplit(fees, partners) # Unknown
  PROVE  LET split == FeeSplit(fees, partners)
         IN  /\ split.total = Total(fees) /\ split.total \in Nat
             /\ split.partner = IF Len(fees) <= 1 THEN 0 ELSE Later(fees, Len(fees) - partners)
             /\ split.partner \in 0..split.total
<1>. DEFINE l == Len(fees)
<1>1. Total(fees) \in Nat /\ l \in Nat
  BY TotalNat
<1>2. CASE l <= 1
  BY <1>1, <1>2 DEF FeeSplit
<1>3. CASE l > 1 /\ partners = 0
  <2>. DEFINE rest == SubSeq(fees, l + 1, l)
  <2>1. rest \in Seq(Nat) /\ Len(rest) = 0
    BY <1>1
  <2>. HIDE DEF rest
  <2>2. Total(rest) = SumFunctionOnSet(rest, 1..0)
    BY <2>1, TotalNat
  <2>3. 1..0 = {}
    OBVIOUS
  <2>4. Total(rest) = 0
    BY <2>2, <2>3, SumOfNone
  <2>5. l - partners = l
    BY <1>1, <1>3
  <2>6. Later(fees, l - partners) = 0
    BY <2>4, <2>5 DEF Later, rest
  <2>. QED  BY <1>1, <1>3, <2>6 DEF FeeSplit
<1>4. CASE l > 1 /\ partners # 0
  <2>. DEFINE m == l - partners
  <2>1. partners < l
    BY <1>1, <1>4 DEF FeeSplit
  <2>2. m \in 0..l /\ l - partners + 1 = m + 1
    BY <1>1, <1>4, <2>1
  <2>3. Later(fees, m) = Total(SubSeq(fees, l - partners + 1, l))
    BY <2>2 DEF Later
  <2>4. FeeSplit(fees, partners) = [total |-> Total(fees), partner |-> Later(fees, m)]
    <3>. HIDE DEF m
    <3>. QED  BY <1>1, <1>4, <2>1, <2>3 DEF FeeSplit
  <2>5. Later(fees, m) \in 0..Total(fees)
    <3>. HIDE DEF m
    <3>. QED  BY <2>2, LaterBounded
  <2>. QED  BY <1>1, <1>4, <2>4, <2>5
<1>. QED  BY <1>1, <1>2, <1>3, <1>4

----------------------------------------------------------------------------
(* In native currency *)

\* to_native of whole amounts is a whole amount, and keeps their order.
LEMMA NativeMono ==
  ASSUME NEW t, IsTrade(t), t.price \in Nat, t.sell \/ t.limitSell > 0,
         NEW x \in Int, NEW y \in Int, x <= y
  PROVE  ToNative(t, x) \in Int /\ ToNative(t, y) \in Int /\ ToNative(t, x) <= ToNative(t, y)
<1>. DEFINE bought(a) == IF t.sell THEN a ELSE (a * t.limitBuy) \div t.limitSell
<1>1. bought(x) \in Int /\ bought(y) \in Int /\ bought(x) <= bought(y)
  <2>1. CASE t.sell
    BY <2>1
  <2>2. CASE ~t.sell
    <3>. DEFINE a == x * t.limitBuy
                b == y * t.limitBuy
                d == t.limitSell
    <3>1. a \in Int /\ b \in Int /\ a <= b /\ d \in Nat \ {0}
      BY <2>2 DEF IsTrade
    <3>2. bought(x) = a \div d /\ bought(y) = b \div d
      BY <2>2
    <3>. HIDE DEF a, b, d, bought
    <3>3. a \div d <= b \div d /\ a \div d \in Int /\ b \div d \in Int
      BY <3>1, DivMono, DivInt
    <3>. QED  BY <3>2, <3>3
  <2>. QED  BY <2>1, <2>2
<1>. DEFINE a == bought(x) * t.price
            b == bought(y) * t.price
<1>2. a \in Int /\ b \in Int /\ a <= b
  <2>. DEFINE c == bought(x)
              e == bought(y)
  <2>1. c \in Int /\ e \in Int /\ c <= e
    BY <1>1
  <2>. HIDE DEF c, e, bought
  <2>2. c * t.price \in Int /\ e * t.price \in Int /\ c * t.price <= e * t.price
    BY <2>1
  <2>. QED  BY <2>2 DEF c, e
<1>3. ToNative(t, x) = a \div Scale /\ ToNative(t, y) = b \div Scale
  BY DEF ToNative
<1>. HIDE DEF a, b
<1>4. a \div Scale <= b \div Scale /\ a \div Scale \in Int /\ b \div Scale \in Int
  BY <1>2, FeesAssumption, DivMono, DivInt
<1>. QED  BY <1>3, <1>4

\* The shares of value_solution make up the difference that the whole fee makes.
LEMMA NativeShares ==
  ASSUME NEW t, IsTrade(t), t.price \in Nat, t.sell \/ t.limitSell > 0,
         OrderSurplus(t) \in Nat,
         NEW split, split.total \in Nat, split.partner \in 0..split.total
  PROVE  LET fee == NativeFee(t, split)
         IN  /\ fee.total \in Nat /\ fee.partner \in 0..fee.total
             /\ ToNative(t, OrderSurplus(t)) + fee.total = ToNative(t, OrderSurplus(t) + split.total)
<1>. DEFINE s == OrderSurplus(t)
            net == s + split.total - split.partner
            gross == s + split.total
<1>1. s \in Int /\ net \in Int /\ gross \in Int /\ s <= net /\ net <= gross
  OBVIOUS
<1>2. NativeFee(t, split) =
        [total |-> ToNative(t, gross) - ToNative(t, s),
         partner |-> (ToNative(t, gross) - ToNative(t, s)) - (ToNative(t, net) - ToNative(t, s))]
  BY DEF NativeFee
<1>. HIDE DEF s, net, gross
<1>3. /\ ToNative(t, s) \in Int /\ ToNative(t, net) \in Int /\ ToNative(t, gross) \in Int
      /\ ToNative(t, s) <= ToNative(t, net) /\ ToNative(t, net) <= ToNative(t, gross)
  BY <1>1, NativeMono
<1>. DEFINE a == ToNative(t, s)
            b == ToNative(t, net)
            c == ToNative(t, gross)
<1>4. a \in Int /\ b \in Int /\ c \in Int /\ a <= b /\ b <= c
  BY <1>3
<1>5. NativeFee(t, split) = [total |-> c - a, partner |-> (c - a) - (b - a)]
  BY <1>2
<1>. HIDE DEF a, b, c
<1>6. /\ c - a \in Nat /\ (c - a) - (b - a) \in 0..(c - a) /\ a + (c - a) = c
  BY <1>4
<1>. QED  BY <1>5, <1>6 DEF a, c, s, gross

----------------------------------------------------------------------------
(* A worse quote *)

\* The numbers that the roundings turn on, each over plain variables.
LEMMA RoundedWithin ==
  ASSUME NEW n \in Nat, NEW d \in Nat \ {0}
  PROVE  /\ Rounded(n, d) \in Nat
         /\ \A x \in Nat : n <= x * d => Rounded(n, d) <= x
<1>1. Rounded(n, d) \in Nat
  BY DEF Rounded
<1>2. ASSUME NEW x \in Nat, n <= x * d PROVE Rounded(n, d) <= x
  BY <1>2 DEF Rounded
<1>. QED  BY <1>1, <1>2

LEMMA ProductMono ==
  ASSUME NEW x \in Int, NEW y \in Int, NEW r \in Nat, x <= y
  PROVE  x * r <= y * r /\ r * x <= r * y
OBVIOUS

\* At a rate of at most 1, a rounded cut grows by no more than what it is taken from.
LEMMA CutLags ==
  ASSUME NEW x \in Nat, NEW y \in Nat, x <= y, NEW r \in Nat, NEW d \in Nat \ {0}, r <= d
  PROVE  (y * r) \div d - (x * r) \div d <= y - x
OBVIOUS

LEMMA Cancelled ==
  ASSUME NEW x \in Int, NEW y \in Int, NEW d \in Nat \ {0}, x * d <= y * d
  PROVE  x <= y
OBVIOUS

\* A fee in one token taken from an amount in the other, rounded down.
LEMMA RestMono ==
  ASSUME NEW d \in Nat \ {0}, NEW x \in Int, NEW y \in Int, NEW m \in Int, NEW n \in Int,
         y * d - n <= x * d - m
  PROVE  y - n \div d <= x - m \div d
OBVIOUS

LEMMA CeilMono ==
  ASSUME NEW x \in Int, NEW y \in Int, NEW d \in Nat \ {0}, x <= y
  PROVE  CeilDiv(x, d) <= CeilDiv(y, d) /\ CeilDiv(x, d) \in Int /\ CeilDiv(y, d) \in Int
BY DEF CeilDiv

\* mul_f64 keeps the order, and lags behind at a factor of at most 1.
LEMMA MulF64Mono ==
  ASSUME NEW x \in Nat, NEW y \in Nat, x <= y, NEW n \in Nat, NEW d \in Nat \ {0}
  PROVE  /\ MulF64(x, <<n, d>>) <= MulF64(y, <<n, d>>)
         /\ n <= d => MulF64(y, <<n, d>>) - MulF64(x, <<n, d>>) <= y - x
<1>. DEFINE r == Rounded(n * Scale, d)
<1>1. Scale \in Nat \ {0}
  BY FeesAssumption
<1>2. n * Scale \in Nat /\ (n <= d => n * Scale <= Scale * d)
  <2>1. n * Scale \in Nat
    BY <1>1
  <2>2. n <= d => n * Scale <= d * Scale
    BY <1>1, ProductMono
  <2>3. d * Scale = Scale * d
    BY <1>1
  <2>. QED  BY <2>1, <2>2, <2>3
<1>3. r \in Nat /\ (n <= d => r <= Scale)
  <2>. DEFINE m == n * Scale
  <2>1. m \in Nat /\ (n <= d => m <= Scale * d)
    BY <1>2
  <2>. HIDE DEF m
  <2>2. Rounded(m, d) \in Nat /\ \A b \in Nat : m <= b * d => Rounded(m, d) <= b
    BY <2>1, RoundedWithin
  <2>3. Rounded(m, d) \in Nat /\ (n <= d => Rounded(m, d) <= Scale)
    BY <1>1, <2>1, <2>2
  <2>. QED  BY <2>3 DEF m
<1>4. CASE n = d
  BY <1>4 DEF MulF64
<1>5. CASE n # d
  <2>1. MulF64(x, <<n, d>>) = (x * r) \div Scale /\ MulF64(y, <<n, d>>) = (y * r) \div Scale
    BY <1>5 DEF MulF64
  <2>. HIDE DEF r
  <2>2. (x * r) \div Scale <= (y * r) \div Scale
    <3>. DEFINE a == x * r
                b == y * r
    <3>1. a \in Int /\ b \in Int /\ a <= b
      BY <1>3, ProductMono
    <3>. HIDE DEF a, b
    <3>2. a \div Scale <= b \div Scale
      BY <1>1, <3>1, DivMono
    <3>. QED  BY <3>2 DEF a, b
  <2>3. n <= d => (y * r) \div Scale - (x * r) \div Scale <= y - x
    BY <1>1, <1>3, CutLags
  <2>. QED  BY <2>1, <2>2, <2>3
<1>. QED  BY <1>4, <1>5

\* A volume fee and what was charged before it grow with what was charged before it: for
\* a buy order the volume shrinks by that, and the fee by no more.
LEMMA VolumeFeeGrows ==
  ASSUME NEW t, IsTrade(t), NEW x \in Nat, NEW y \in Nat, x <= y,
         PricesExcluding(t, x) # NoPrices, PricesExcluding(t, y) # NoPrices,
         NEW f, IsFactor(f),
         VolumeFee(t, PricesExcluding(t, x), f) >= 0, VolumeFee(t, PricesExcluding(t, y), f) >= 0
  PROVE  VolumeFee(t, PricesExcluding(t, x), f) + x <= VolumeFee(t, PricesExcluding(t, y), f) + y
<1>. DEFINE a == VolumeNet(t, x)
            b == VolumeNet(t, y)
            g == <<f[1], IF t.sell THEN f[2] - f[1] ELSE f[2] + f[1]>>
            feeX == VolumeFee(t, PricesExcluding(t, x), f)
            feeY == VolumeFee(t, PricesExcluding(t, y), f)
<1>1. a \in Nat /\ b \in Nat
  BY AmountsNet
<1>2. feeX \in Nat /\ feeY \in Nat /\ feeX = MulF64(a, g) /\ feeY = MulF64(b, g)
  BY VolumeFeeIs DEF Failed
<1>3. f # <<>> /\ (t.sell => f[1] < f[2])
  <2>. DEFINE prices == PricesExcluding(t, x)
  <2>1. VolumeFee(t, prices, f) \in Nat
    BY <1>2
  <2>. HIDE DEF a, b, g, feeX, feeY, prices
  <2>2. VolumeFee(t, prices, f) # Failed
    BY <2>1 DEF Failed
  <2>3. f # <<>>
    BY <2>2 DEF VolumeFee
  <2>4. t.sell => f[1] < f[2]
    <3>1. f[1] \in Nat /\ f[2] \in Nat
      BY <2>3 DEF IsFactor
    <3>. QED  BY <2>2, <2>3, <3>1 DEF VolumeFee
  <2>. QED  BY <2>3, <2>4
<1>4. f[1] \in Nat /\ f[2] \in Nat \ {0}
  BY <1>3 DEF IsFactor
<1>. HIDE DEF feeX, feeY
<1>5. CASE t.sell
  <2>. DEFINE d == f[2] - f[1]
  <2>1. a <= b /\ d \in Nat \ {0} /\ g = <<f[1], d>>
    BY <1>3, <1>4, <1>5 DEF VolumeNet, IsTrade
  <2>. HIDE DEF a, b, d, g
  <2>2. MulF64(a, <<f[1], d>>) <= MulF64(b, <<f[1], d>>)
    BY <1>1, <1>4, <2>1, MulF64Mono
  <2>3. feeX <= feeY
    BY <1>2, <2>1, <2>2
  <2>4. feeX + x <= feeY + y
    BY <1>2, <2>3
  <2>. QED  BY <2>4 DEF feeX, feeY
<1>6. CASE ~t.sell
  <2>. DEFINE d == f[2] + f[1]
  <2>1. b <= a /\ a - b = y - x /\ d \in Nat \ {0} /\ f[1] <= d /\ g = <<f[1], d>>
    BY <1>4, <1>6 DEF VolumeNet, IsTrade
  <2>. HIDE DEF a, b, d, g
  <2>2. MulF64(a, <<f[1], d>>) - MulF64(b, <<f[1], d>>) <= a - b
    BY <1>1, <1>4, <2>1, MulF64Mono
  <2>3. feeX - feeY <= y - x
    BY <1>2, <2>1, <2>2
  <2>4. feeX + x <= feeY + y
    BY <1>2, <2>3
  <2>. QED  BY <2>4 DEF feeX, feeY
<1>. QED  BY <1>5, <1>6

\* A cut of a surplus grows with the surplus.
LEMMA SurplusFeeGrows ==
  ASSUME NEW x \in Int, NEW y \in Int, x <= y, NEW f, IsFactor(f),
         SurplusFee(x, f) >= 0, SurplusFee(y, f) >= 0
  PROVE  /\ SurplusFee(x, f) \in Nat /\ SurplusFee(y, f) \in Nat
         /\ SurplusFee(x, f) <= SurplusFee(y, f)
<1>. DEFINE d == f[2] - f[1]
<1>1. ASSUME NEW s \in Int, SurplusFee(s, f) >= 0
      PROVE  /\ s \in Nat /\ f # <<>> /\ f[1] < f[2] /\ SurplusFee(s, f) = MulF64(s, <<f[1], d>>)
             /\ SurplusFee(s, f) \in Nat
  <2>1. \/ SurplusFee(s, f) = Failed
        \/ /\ s \in Nat /\ f # <<>> /\ f[1] < f[2]
           /\ SurplusFee(s, f) = MulF64(s, <<f[1], f[2] - f[1]>>)
           /\ SurplusFee(s, f) \in Nat
    BY SurplusFeeIs
  <2>2. SurplusFee(s, f) # Failed
    BY <1>1 DEF Failed
  <2>. QED  BY <2>1, <2>2
<1>2. /\ x \in Nat /\ SurplusFee(x, f) = MulF64(x, <<f[1], d>>) /\ SurplusFee(x, f) \in Nat
      /\ y \in Nat /\ SurplusFee(y, f) = MulF64(y, <<f[1], d>>) /\ SurplusFee(y, f) \in Nat
      /\ f # <<>> /\ f[1] < f[2]
  BY <1>1
<1>3. f[1] \in Nat /\ d \in Nat \ {0}
  BY <1>2 DEF IsFactor
<1>. HIDE DEF d
<1>4. MulF64(x, <<f[1], d>>) <= MulF64(y, <<f[1], d>>)
  BY <1>2, <1>3, MulF64Mono
<1>. QED  BY <1>2, <1>4

\* Quote r is no better than quote q for the order t.
Worse(t, q, r) ==
  /\ IF t.sell THEN q.sell = r.sell ELSE q.buy = r.buy /\ r.sell + r.fee > 0
  /\ EffectiveRate(t, r)[1] * EffectiveRate(t, q)[2] <= EffectiveRate(t, q)[1] * EffectiveRate(t, r)[2]

\* Then the limits it implies are no tighter (_adjust_quote_to_order_limits).
LEMMA LimitsLoosen ==
  ASSUME NEW t, IsTrade(t), NEW q, IsQuote(q), NEW r, IsQuote(r), Worse(t, q, r),
         AdjustQuote(t, q) # NoLimits, AdjustQuote(t, r) # NoLimits
  PROVE  LET tight == AdjustQuote(t, q)
             loose == AdjustQuote(t, r)
         IN  IF t.sell THEN loose.sell = tight.sell /\ loose.buy <= tight.buy
             ELSE loose.buy = tight.buy /\ tight.sell <= loose.sell
<1>1. CASE t.sell
  <2>. DEFINE s == q.sell
              m == q.fee * q.buy
              n == r.fee * r.buy
              own == q.buy - m \div s
              other == r.buy - n \div s
              a == own * t.limitSell
              b == other * t.limitSell
  <2>1. s \in Nat \ {0} /\ r.sell = s /\ q.buy \in Nat /\ r.buy \in Nat /\ q.fee \in Nat
        /\ r.fee \in Nat /\ t.limitSell \in Nat /\ t.limitBuy \in Nat
    BY <1>1 DEF AdjustQuote, IsQuote, IsTrade, Worse
  <2>2. /\ AdjustQuote(t, q) = [sell |-> t.limitSell,
                                buy |-> IF a \div s > t.limitBuy THEN a \div s ELSE t.limitBuy]
        /\ AdjustQuote(t, r) = [sell |-> t.limitSell,
                                buy |-> IF b \div s > t.limitBuy THEN b \div s ELSE t.limitBuy]
    BY <1>1, <2>1 DEF AdjustQuote
  <2>3. r.buy * s - n <= q.buy * s - m
    <3>. DEFINE x == r.buy * (s - r.fee)
                y == q.buy * (s - q.fee)
    <3>1. EffectiveRate(t, q) = <<y, s * s>> /\ EffectiveRate(t, r) = <<x, s * s>>
      BY <1>1, <2>1 DEF EffectiveRate
    <3>2. s * s \in Nat \ {0} /\ x \in Int /\ y \in Int
      BY <2>1
    <3>3. x * (s * s) <= y * (s * s)
      <4>. HIDE DEF x, y, s
      <4>. QED  BY <3>1 DEF Worse
    <3>4. x <= y
      <4>. DEFINE d == s * s
      <4>. HIDE DEF x, y, d
      <4>. QED  BY <3>2, <3>3, Cancelled
    <3>5. x = r.buy * s - n /\ y = q.buy * s - m
      BY <2>1
    <3>. QED  BY <3>4, <3>5
  <2>4. m \in Int /\ n \in Int
    BY <2>1
  <2>5. other <= own /\ other \in Int /\ own \in Int
    <3>. HIDE DEF m, n, s
    <3>1. other <= own
      BY <2>1, <2>3, <2>4, RestMono
    <3>2. m \div s \in Int /\ n \div s \in Int
      BY <2>1, <2>4, DivInt
    <3>. QED  BY <2>1, <3>1, <3>2
  <2>. HIDE DEF other, own
  <2>6. a \in Int /\ b \in Int /\ b <= a
    BY <2>1, <2>5, ProductMono
  <2>. HIDE DEF a, b, s
  <2>7. b \div s <= a \div s /\ a \div s \in Int /\ b \div s \in Int
    BY <2>1, <2>6, DivMono, DivInt
  <2>. DEFINE x == a \div s
              y == b \div s
  <2>8. /\ AdjustQuote(t, q).sell = t.limitSell /\ AdjustQuote(t, r).sell = t.limitSell
        /\ AdjustQuote(t, q).buy = IF x > t.limitBuy THEN x ELSE t.limitBuy
        /\ AdjustQuote(t, r).buy = IF y > t.limitBuy THEN y ELSE t.limitBuy
    BY <2>2
  <2>9. x \in Int /\ y \in Int /\ y <= x
    BY <2>7
  <2>. HIDE DEF x, y
  <2>. QED  BY <1>1, <2>1, <2>8, <2>9
<1>2. CASE ~t.sell
  <2>. DEFINE s == q.buy
              own == q.sell + q.fee
              other == r.sell + r.fee
              a == own * t.limitBuy
              b == other * t.limitBuy
  <2>1. s \in Nat \ {0} /\ r.buy = s /\ own \in Nat /\ other \in Nat \ {0}
        /\ t.limitSell \in Nat /\ t.limitBuy \in Nat
    BY <1>2 DEF AdjustQuote, IsQuote, IsTrade, Worse
  <2>2. /\ AdjustQuote(t, q) = [sell |-> IF a \div s < t.limitSell THEN a \div s ELSE t.limitSell,
                                buy |-> t.limitBuy]
        /\ AdjustQuote(t, r) = [sell |-> IF b \div s < t.limitSell THEN b \div s ELSE t.limitSell,
                                buy |-> t.limitBuy]
    BY <1>2, <2>1 DEF AdjustQuote
  <2>3. own <= other
    <3>. SUFFICES ASSUME own # 0 PROVE own <= other
      BY <2>1
    <3>1. EffectiveRate(t, q) = <<s, own>> /\ EffectiveRate(t, r) = <<s, other>>
      BY <1>2, <2>1 DEF EffectiveRate
    <3>. HIDE DEF s, own, other
    <3>2. s * own <= s * other
      BY <3>1 DEF Worse
    <3>3. s * own = own * s /\ s * other = other * s
      BY <2>1
    <3>. QED  BY <2>1, <3>2, <3>3, Cancelled
  <2>. HIDE DEF other, own
  <2>4. a \in Int /\ b \in Int /\ a <= b
    BY <2>1, <2>3, ProductMono
  <2>. HIDE DEF a, b, s
  <2>5. a \div s <= b \div s /\ a \div s \in Int /\ b \div s \in Int
    BY <2>1, <2>4, DivMono, DivInt
  <2>. DEFINE x == a \div s
              y == b \div s
  <2>6. /\ AdjustQuote(t, q).buy = t.limitBuy /\ AdjustQuote(t, r).buy = t.limitBuy
        /\ AdjustQuote(t, q).sell = IF x < t.limitSell THEN x ELSE t.limitSell
        /\ AdjustQuote(t, r).sell = IF y < t.limitSell THEN y ELSE t.limitSell
    BY <2>2
  <2>7. x \in Int /\ y \in Int /\ x <= y
    BY <2>5
  <2>. HIDE DEF x, y
  <2>. QED  BY <1>2, <2>1, <2>6, <2>7
<1>. QED  BY <1>1, <1>2

\* Against looser limits, and net of higher fees, there is more surplus.
LEMMA SurplusNetGrows ==
  ASSUME NEW t, IsTrade(t), NEW x \in Nat, NEW y \in Nat, x <= y,
         NEW tight, tight.sell \in Nat, tight.buy \in Nat, Measured(t, tight),
         NEW loose, loose.sell \in Nat, loose.buy \in Nat, Measured(t, loose),
         IF t.sell THEN loose.sell = tight.sell /\ loose.buy <= tight.buy
         ELSE loose.buy = tight.buy /\ tight.sell <= loose.sell
  PROVE  SurplusNet(t, x, tight) <= SurplusNet(t, y, loose)
<1>1. CASE t.sell
  <2>. DEFINE d == tight.sell
              m == t.soldFor * tight.buy
              n == t.soldFor * loose.buy
  <2>1. d \in Nat \ {0} /\ m \in Int /\ n \in Int /\ n <= m
    BY <1>1, ProductMono DEF Measured, IsTrade
  <2>2. /\ SurplusNet(t, x, tight) = (t.boughtFor + x) - CeilDiv(m, d)
        /\ SurplusNet(t, y, loose) = (t.boughtFor + y) - CeilDiv(n, d)
    BY <1>1 DEF SurplusNet, VolumeNet
  <2>. HIDE DEF d, m, n
  <2>3. CeilDiv(n, d) <= CeilDiv(m, d) /\ CeilDiv(n, d) \in Int /\ CeilDiv(m, d) \in Int
    BY <2>1, CeilMono
  <2>. QED  BY <2>2, <2>3 DEF IsTrade
<1>2. CASE ~t.sell
  <2>. DEFINE d == tight.buy
              m == tight.sell * t.boughtFor
              n == loose.sell * t.boughtFor
  <2>1. d \in Nat \ {0} /\ m \in Int /\ n \in Int /\ m <= n
    BY <1>2, ProductMono DEF Measured, IsTrade
  <2>2. /\ SurplusNet(t, x, tight) = m \div d - (t.soldFor - x)
        /\ SurplusNet(t, y, loose) = n \div d - (t.soldFor - y)
    BY <1>2 DEF SurplusNet, VolumeNet
  <2>. HIDE DEF d, m, n
  <2>3. m \div d <= n \div d /\ m \div d \in Int /\ n \div d \in Int
    BY <2>1, DivMono, DivInt
  <2>. QED  BY <2>2, <2>3 DEF IsTrade
<1>. QED  BY <1>1, <1>2

\* An improvement that can be told is the surplus over the quote, or none.
LEMMA ImprovementIs ==
  ASSUME NEW t, IsTrade(t), NEW x \in Nat, PricesExcluding(t, x) # NoPrices,
         NEW q, IsQuote(q), PriceImprovement(t, PricesExcluding(t, x), q) >= 0
  PROVE  LET limits == AdjustQuote(t, q)
         IN  /\ limits # NoLimits /\ limits.sell \in Nat /\ limits.buy \in Nat
             /\ Measured(t, limits) /\ SurplusNet(t, x, limits) \in Int
             /\ PriceImprovement(t, PricesExcluding(t, x), q) =
                  IF SurplusNet(t, x, limits) < 0 THEN 0 ELSE SurplusNet(t, x, limits)
<1>. DEFINE limits == AdjustQuote(t, q)
            prices == PricesExcluding(t, x)
            surplus == SurplusOver(t, prices, limits)
            improvement == PriceImprovement(t, prices, q)
<1>1. improvement = IF limits = NoLimits THEN Failed
                    ELSE IF surplus = NegativeSurplus THEN 0 ELSE surplus
  BY DEF PriceImprovement
<1>2. improvement >= 0
  OBVIOUS
<1>. HIDE DEF surplus, improvement
<1>3. limits # NoLimits
  BY <1>1, <1>2 DEF Failed
<1>4. limits.sell \in Nat /\ limits.buy \in Nat
  BY <1>3, AdjustedLimits
<1>. HIDE DEF limits
<1>5. surplus = IF ~Measured(t, limits) THEN Failed
                ELSE IF SurplusNet(t, x, limits) < 0 THEN NegativeSurplus
                ELSE SurplusNet(t, x, limits)
  BY <1>4, SurplusOverIs DEF surplus
<1>6. Measured(t, limits)
  BY <1>1, <1>2, <1>3, <1>5 DEF Failed, NegativeSurplus
<1>7. SurplusNet(t, x, limits) \in Int
  BY <1>4, <1>6, SurplusNetInt
<1>8. improvement = IF SurplusNet(t, x, limits) < 0 THEN 0 ELSE SurplusNet(t, x, limits)
  BY <1>1, <1>3, <1>5, <1>6, <1>7 DEF NegativeSurplus
<1>. QED  BY <1>3, <1>4, <1>6, <1>7, <1>8 DEF limits, improvement

\* Over a worse quote, and net of higher fees, there is more improvement.
LEMMA ImprovementGrows ==
  ASSUME NEW t, IsTrade(t), NEW x \in Nat, NEW y \in Nat, x <= y,
         PricesExcluding(t, x) # NoPrices, PricesExcluding(t, y) # NoPrices,
         NEW q, IsQuote(q), NEW r, IsQuote(r), Worse(t, q, r),
         PriceImprovement(t, PricesExcluding(t, x), q) >= 0,
         PriceImprovement(t, PricesExcluding(t, y), r) >= 0
  PROVE  PriceImprovement(t, PricesExcluding(t, x), q)
           <= PriceImprovement(t, PricesExcluding(t, y), r)
<1>. DEFINE tight == AdjustQuote(t, q)
            loose == AdjustQuote(t, r)
<1>1. /\ tight # NoLimits /\ tight.sell \in Nat /\ tight.buy \in Nat
      /\ Measured(t, tight) /\ SurplusNet(t, x, tight) \in Int
      /\ PriceImprovement(t, PricesExcluding(t, x), q) =
           IF SurplusNet(t, x, tight) < 0 THEN 0 ELSE SurplusNet(t, x, tight)
  BY ImprovementIs
<1>2. /\ loose # NoLimits /\ loose.sell \in Nat /\ loose.buy \in Nat
      /\ Measured(t, loose) /\ SurplusNet(t, y, loose) \in Int
      /\ PriceImprovement(t, PricesExcluding(t, y), r) =
           IF SurplusNet(t, y, loose) < 0 THEN 0 ELSE SurplusNet(t, y, loose)
  BY ImprovementIs
<1>3. IF t.sell THEN loose.sell = tight.sell /\ loose.buy <= tight.buy
      ELSE loose.buy = tight.buy /\ tight.sell <= loose.sell
  BY <1>1, <1>2, LimitsLoosen
<1>. HIDE DEF tight, loose
<1>4. SurplusNet(t, x, tight) <= SurplusNet(t, y, loose)
  BY <1>1, <1>2, <1>3, SurplusNetGrows
<1>. QED  BY <1>1, <1>2, <1>4

\* The lower of two fees, and what was charged before it, grow if both do.
LEMMA CheaperGrows ==
  ASSUME NEW a \in Fee, NEW b \in Fee, NEW c \in Fee, NEW d \in Fee, NEW x \in Nat, NEW y \in Nat,
         x <= y, Cheaper(a, b) >= 0, Cheaper(c, d) >= 0,
         a >= 0 /\ c >= 0 => a <= c, b >= 0 /\ d >= 0 => b + x <= d + y
  PROVE  Cheaper(a, b) + x <= Cheaper(c, d) + y
<1>1. /\ a >= 0 /\ b >= 0 /\ Cheaper(a, b) = Lesser(a, b)
      /\ c >= 0 /\ d >= 0 /\ Cheaper(c, d) = Lesser(c, d)
  BY CheaperIs
<1>2. a \in Int /\ b \in Int /\ c \in Int /\ d \in Int
  BY DEF Fee, Failed
<1>. QED  BY <1>1, <1>2 DEF Lesser

\* So what a policy charges and what was charged before it grow with that, and with a
\* worse quote.
LEMMA PolicyGrows ==
  ASSUME NEW t, IsTrade(t), OrderSurplus(t) >= 0, NEW x \in Nat, NEW y \in Nat, x <= y,
         NEW q, IsQuote(q), NEW r, IsQuote(r), Worse(t, q, r),
         NEW policy, IsPolicy(policy), NEW e \in Nat, NEW f \in Nat,
         Charges(t, policy, q, x, e), Charges(t, policy, r, y, f)
  PROVE  e + x <= f + y
<1>. DEFINE low == PricesExcluding(t, x)
            high == PricesExcluding(t, y)
<1>1. /\ low # NoPrices /\ e = PolicyFee(t, policy, low, q)
      /\ high # NoPrices /\ f = PolicyFee(t, policy, high, r)
  BY DEF Charges
<1>2. /\ IsFactor(policy.factor) /\ IsFactor(policy.cap)
      /\ policy.kind \in {"surplus", "volume", "priceimprovement"}
  BY DEF IsPolicy, IsFactor
<1>3. ASSUME NEW g, IsFactor(g)
      PROVE  /\ VolumeFee(t, low, g) \in Fee /\ VolumeFee(t, high, g) \in Fee
             /\ VolumeFee(t, low, g) >= 0 /\ VolumeFee(t, high, g) >= 0 =>
                  VolumeFee(t, low, g) + x <= VolumeFee(t, high, g) + y
  <2>1. VolumeFee(t, low, g) \in Fee
    BY <1>1, <1>3, VolumeFeeIs DEF Fee
  <2>2. VolumeFee(t, high, g) \in Fee
    BY <1>1, <1>3, VolumeFeeIs DEF Fee
  <2>3. VolumeFee(t, low, g) >= 0 /\ VolumeFee(t, high, g) >= 0 =>
          VolumeFee(t, low, g) + x <= VolumeFee(t, high, g) + y
    BY <1>1, <1>3, VolumeFeeGrows
  <2>. QED  BY <2>1, <2>2, <2>3
<1>4. ASSUME NEW s \in Int
      PROVE  SurplusFee(s, policy.factor) \in Fee
  <2>. DEFINE g == policy.factor
  <2>. HIDE DEF g
  <2>1. SurplusFee(s, g) = Failed \/ SurplusFee(s, g) \in Nat
    BY <1>2, SurplusFeeIs DEF g
  <2>. QED  BY <2>1 DEF Fee, g
<1>5. CASE policy.kind = "volume"
  <2>1. e = VolumeFee(t, low, policy.factor) /\ f = VolumeFee(t, high, policy.factor)
    BY <1>1, <1>5 DEF PolicyFee
  <2>. HIDE DEF low, high
  <2>. QED  BY <1>2, <1>3, <2>1
<1>6. CASE policy.kind = "surplus"
  <2>. DEFINE a == SurplusFee(SurplusOver(t, low, Limits(t)), policy.factor)
              c == SurplusFee(SurplusOver(t, high, Limits(t)), policy.factor)
              b == VolumeFee(t, low, policy.cap)
              d == VolumeFee(t, high, policy.cap)
  <2>1. e = Cheaper(a, b) /\ f = Cheaper(c, d)
    BY <1>1, <1>6 DEF PolicyFee
  <2>2. b \in Fee /\ d \in Fee /\ (b >= 0 /\ d >= 0 => b + x <= d + y)
    BY <1>2, <1>3
  <2>3. a \in Fee /\ c \in Fee /\ (a >= 0 /\ c >= 0 => a <= c)
    <3>. DEFINE s == OrderSurplus(t) + x
                u == OrderSurplus(t) + y
                g == policy.factor
    <3>1. SurplusOver(t, low, Limits(t)) = s /\ OrderSurplus(t) \in Nat
      BY <1>1, SurplusGrows
    <3>2. SurplusOver(t, high, Limits(t)) = u
      BY <1>1, SurplusGrows
    <3>3. s \in Int /\ u \in Int /\ s <= u
      BY <3>1
    <3>4. a = SurplusFee(s, g) /\ c = SurplusFee(u, g) /\ IsFactor(g)
      BY <1>2, <3>1, <3>2
    <3>5. SurplusFee(s, g) \in Fee /\ SurplusFee(u, g) \in Fee
      BY <1>4, <3>3
    <3>. HIDE DEF a, c, s, u, g
    <3>6. SurplusFee(s, g) >= 0 /\ SurplusFee(u, g) >= 0 => SurplusFee(s, g) <= SurplusFee(u, g)
      BY <3>3, <3>4, SurplusFeeGrows
    <3>. QED  BY <3>4, <3>5, <3>6
  <2>. HIDE DEF a, b, c, d
  <2>4. Cheaper(a, b) >= 0 /\ Cheaper(c, d) >= 0
    BY <2>1
  <2>5. Cheaper(a, b) + x <= Cheaper(c, d) + y
    BY <2>2, <2>3, <2>4, CheaperGrows
  <2>. QED  BY <2>1, <2>5
<1>7. CASE policy.kind = "priceimprovement"
  <2>. DEFINE s == PriceImprovement(t, low, q)
              u == PriceImprovement(t, high, r)
              g == policy.factor
              a == SurplusFee(s, g)
              c == SurplusFee(u, g)
              b == VolumeFee(t, low, policy.cap)
              d == VolumeFee(t, high, policy.cap)
  <2>1. q # <<>> => e = Cheaper(a, b)
    BY <1>1, <1>7 DEF PolicyFee
  <2>2. r # <<>> => f = Cheaper(c, d)
    BY <1>1, <1>7 DEF PolicyFee
  <2>3. q # <<>> /\ r # <<>>
    <3>1. ASSUME q = <<>> PROVE FALSE
      <4>1. e = Failed
        BY <1>1, <1>7, <3>1 DEF PolicyFee
      <4>. QED  BY <4>1 DEF Failed
    <3>2. ASSUME r = <<>> PROVE FALSE
      <4>1. f = Failed
        BY <1>1, <1>7, <3>2 DEF PolicyFee
      <4>. QED  BY <4>1 DEF Failed
    <3>. QED  BY <3>1, <3>2
  <2>4. b \in Fee /\ d \in Fee /\ (b >= 0 /\ d >= 0 => b + x <= d + y)
    BY <1>2, <1>3
  <2>5. a \in Fee /\ c \in Fee /\ (a >= 0 /\ c >= 0 => a <= c)
    <3>1. s \in Int /\ u \in Int
      BY <1>1, ImprovementInt
    <3>2. a \in Fee /\ c \in Fee
      BY <1>4, <3>1
    <3>3. IsFactor(g)
      BY <1>2
    <3>4. ASSUME a >= 0, c >= 0 PROVE a <= c
      <4>1. s >= 0 /\ u >= 0
        <5>. HIDE DEF s, u, g
        <5>1. ASSUME NEW v \in Int, SurplusFee(v, g) >= 0 PROVE v >= 0
          <6>1. SurplusFee(v, g) = Failed \/ v \in Nat
            BY <3>3, SurplusFeeIs
          <6>. QED  BY <5>1, <6>1 DEF Failed
        <5>. QED  BY <3>1, <3>4, <5>1
      <4>2. s <= u
        BY <1>1, <4>1, ImprovementGrows
      <4>. HIDE DEF s, u, g
      <4>. QED  BY <3>1, <3>3, <3>4, <4>2, SurplusFeeGrows
    <3>. QED  BY <3>2, <3>4
  <2>. HIDE DEF a, b, c, d
  <2>6. Cheaper(a, b) >= 0 /\ Cheaper(c, d) >= 0
    BY <2>1, <2>2, <2>3
  <2>7. Cheaper(a, b) + x <= Cheaper(c, d) + y
    BY <2>4, <2>5, <2>6, CheaperGrows
  <2>. QED  BY <2>1, <2>2, <2>3, <2>7
<1>. QED  BY <1>2, <1>5, <1>6, <1>7

\* Charged along the whole walk against it, an order is charged no less.
LEMMA FeesGrow ==
  ASSUME NEW t, NEW policies, NEW q, IsQuote(q), NEW r, IsQuote(r), Worse(t, q, r),
         Chargeable(t, policies, q), Chargeable(t, policies, r),
         NEW few, few = PolicyFees(t, policies, q), \A i \in DOMAIN few : ~(few[i] < 0),
         NEW many, many = PolicyFees(t, policies, r), \A i \in DOMAIN many : ~(many[i] < 0)
  PROVE  Total(few) <= Total(many)
<1>. DEFINE L == Len(policies)
            G == {n \in 0..L : Later(few, L - n) <= Later(many, L - n)}
<1>1. /\ few \in Seq(Nat) /\ Len(few) = L
      /\ \A k \in 1..L : Charges(t, policies[k], q, Later(few, k), few[k])
  BY PoliciesCharge
<1>2. /\ many \in Seq(Nat) /\ Len(many) = L
      /\ \A k \in 1..L : Charges(t, policies[k], r, Later(many, k), many[k])
  BY PoliciesCharge
<1>3. IsTrade(t) /\ OrderSurplus(t) >= 0 /\ L \in Nat /\ \A k \in 1..L : IsPolicy(policies[k])
  BY DEF Chargeable
<1>4. /\ Later(few, 0) = Total(few) /\ Later(few, L) = 0
      /\ \A k \in 1..L : Later(few, k - 1) = few[k] + Later(few, k)
  BY <1>1, LaterUnfolds
<1>5. /\ Later(many, 0) = Total(many) /\ Later(many, L) = 0
      /\ \A k \in 1..L : Later(many, k - 1) = many[k] + Later(many, k)
  BY <1>2, LaterUnfolds
<1>. HIDE DEF L
<1>6. 0 \in G
  <2>1. L - 0 = L
    BY <1>3
  <2>. QED  BY <1>3, <1>4, <1>5, <2>1
<1>7. ASSUME NEW n \in 0..L, n < L, n \in G
      PROVE  n + 1 \in G
  <2>. DEFINE k == L - n
              x == Later(few, k)
              y == Later(many, k)
  <2>1. k \in 1..L /\ L - (n + 1) = k - 1 /\ n + 1 \in 0..L
    BY <1>3, <1>7
  <2>2. x <= y
    BY <1>7
  <2>. HIDE DEF k
  <2>3. x \in Nat /\ y \in Nat
    BY <1>1, <1>2, <2>1, LaterIs
  <2>4. few[k] \in Nat /\ many[k] \in Nat
    BY <1>1, <1>2, <2>1
  <2>5. Charges(t, policies[k], q, x, few[k]) /\ Charges(t, policies[k], r, y, many[k])
    BY <1>1, <1>2, <2>1
  <2>. HIDE DEF x, y
  <2>6. few[k] + x <= many[k] + y
    <3>. DEFINE policy == policies[k]
                e == few[k]
                f == many[k]
    <3>1. IsPolicy(policy) /\ e \in Nat /\ f \in Nat
      BY <1>3, <2>1, <2>4
    <3>2. Charges(t, policy, q, x, e) /\ Charges(t, policy, r, y, f)
      BY <2>5
    <3>. HIDE DEF policy, e, f
    <3>3. e + x <= f + y
      BY <1>3, <2>2, <2>3, <3>1, <3>2, PolicyGrows
    <3>. QED  BY <3>3 DEF e, f
  <2>7. Later(few, k - 1) <= Later(many, k - 1)
    BY <1>4, <1>5, <2>1, <2>6 DEF x, y
  <2>. QED  BY <2>1, <2>7
<1>8. L \in G
  <2>. HIDE DEF G
  <2>1. 0..L \subseteq G
    BY <1>3, <1>6, <1>7, UpTo
  <2>. QED  BY <1>3, <2>1
<1>9. L - L = 0
  BY <1>3
<1>. QED  BY <1>4, <1>5, <1>8, <1>9

\* An execution with a surplus is within the order's limits.
LEMMA WithinLimits ==
  ASSUME NEW t, IsTrade(t), OrderSurplus(t) >= 0
  PROVE  t.limitBuy * t.soldFor <= t.boughtFor * t.limitSell
<1>. DEFINE limits == Limits(t)
<1>1. limits.sell = t.limitSell /\ limits.buy = t.limitBuy
  BY DEF Limits
<1>. HIDE DEF limits
<1>2. OrderSurplus(t) =
        IF ~Measured(t, limits) THEN Failed
        ELSE IF SurplusNet(t, 0, limits) < 0 THEN NegativeSurplus ELSE SurplusNet(t, 0, limits)
  BY <1>1, BaseIsNetOfNone, SurplusOverIs DEF OrderSurplus, limits, IsTrade
<1>3. Measured(t, limits)
  BY <1>2 DEF Failed
<1>4. SurplusNet(t, 0, limits) \in Int
  BY <1>1, <1>3, SurplusNetInt DEF IsTrade
<1>5. SurplusNet(t, 0, limits) >= 0
  BY <1>2, <1>3, <1>4 DEF NegativeSurplus
<1>6. CASE t.sell
  <2>. DEFINE d == t.limitSell
              n == t.soldFor * t.limitBuy
              b == t.boughtFor
  <2>1. d \in Nat \ {0} /\ n \in Int /\ b \in Nat /\ n = t.limitBuy * t.soldFor
    BY <1>1, <1>3, <1>6 DEF IsTrade, Measured
  <2>2. SurplusNet(t, 0, limits) = (b + 0) - CeilDiv(n, d)
    <3>1. SurplusNet(t, 0, limits) = VolumeNet(t, 0) - CeilDiv(n, d)
      BY <1>1, <1>6 DEF SurplusNet
    <3>2. VolumeNet(t, 0) = b + 0
      BY <1>6 DEF VolumeNet
    <3>. QED  BY <3>1, <3>2
  <2>. HIDE DEF d, n, b
  <2>3. CeilDiv(n, d) \in Int
    BY <2>1, DivInt
  <2>4. CeilDiv(n, d) <= b
    BY <1>5, <2>1, <2>2, <2>3
  <2>5. n <= b * d
    BY <2>1, <2>4 DEF CeilDiv
  <2>. QED  BY <2>1, <2>5 DEF d, b
<1>7. CASE ~t.sell
  <2>. DEFINE d == t.limitBuy
              n == t.limitSell * t.boughtFor
              b == t.soldFor
  <2>1. d \in Nat \ {0} /\ n \in Int /\ b \in Nat /\ n = t.boughtFor * t.limitSell
    BY <1>1, <1>3, <1>7 DEF IsTrade, Measured
  <2>2. SurplusNet(t, 0, limits) = n \div d - (b - 0)
    <3>1. SurplusNet(t, 0, limits) = n \div d - VolumeNet(t, 0)
      BY <1>1, <1>7 DEF SurplusNet
    <3>2. VolumeNet(t, 0) = b - 0
      BY <1>7 DEF VolumeNet
    <3>. QED  BY <3>1, <3>2
  <2>. HIDE DEF d, n, b
  <2>3. n \div d \in Int
    BY <2>1, DivInt
  <2>4. b <= n \div d
    BY <1>5, <2>1, <2>2, <2>3
  <2>5. d * b <= n
    BY <2>1, <2>4
  <2>. QED  BY <2>1, <2>5 DEF d, b
<1>. QED  BY <1>6, <1>7

\* The execution clears the limit that no better a quote would have given the order.
LEMMA LimitClears ==
  ASSUME NEW t, IsTrade(t), OrderSurplus(t) >= 0, NEW q, IsQuote(q), NEW r, IsQuote(r),
         Worse(t, q, r), ShiftedLimit(t, q, r) # NoShift
  PROVE  ShiftedLimit(t, q, r).clears
<1>. DEFINE before == EffectiveRate(t, q)
            after == EffectiveRate(t, r)
            up == after[1] * before[2]
            down == after[2] * before[1]
            low == t.limitBuy * t.soldFor
            high == t.boughtFor * t.limitSell
<1>1. before[1] \in Int /\ before[2] \in Nat /\ after[1] \in Int /\ after[2] \in Nat
  BY DEF EffectiveRate, IsQuote
<1>2. before[1] > 0 /\ after[1] > 0
  BY <1>1 DEF ShiftedLimit
<1>3. ShiftedLimit(t, q, r).clears = (high * down >= low * up)
  BY DEF ShiftedLimit, NoShift
<1>4. up <= down
  <2>. HIDE DEF before, after
  <2>1. after[1] * before[2] <= before[1] * after[2]
    BY DEF Worse, before, after
  <2>. QED  BY <1>1, <2>1
<1>5. low \in Nat /\ high \in Nat /\ low <= high
  BY WithinLimits DEF IsTrade
<1>6. up \in Nat /\ down \in Nat
  <2>. HIDE DEF before, after
  <2>. QED  BY <1>1, <1>2
<1>. HIDE DEF up, down, low, high
<1>7. low * up <= high * down
  <2>1. low * up <= low * down
    BY <1>4, <1>5, <1>6, ProductMono
  <2>2. low * down <= high * down
    BY <1>5, <1>6, ProductMono
  <2>3. low * up \in Int /\ low * down \in Int /\ high * down \in Int
    BY <1>5, <1>6
  <2>. QED  BY <2>1, <2>2, <2>3
<1>8. high * down >= low * up
  <2>1. low * up \in Int /\ high * down \in Int
    BY <1>5, <1>6
  <2>. QED  BY <1>7, <2>1
<1>. QED  BY <1>3, <1>8

----------------------------------------------------------------------------
(* Every auction that is valued *)

\* The auction at hand is one of the window's, valued with the recorded quotes.
ValuedInv ==
  /\ window \in Auctions /\ replacement \in Replacements /\ at \in Nat \ {0}
  /\ pc # "value" => at <= Len(window) /\ valued = Valued({})

\* The quote an order is charged with, when those of O are replaced.
QuoteWith(O, o) == IF o \in O THEN replacement[o] ELSE Auction.quote[o]

\* An order that was charged, with the replacements for the orders O.
LEMMA ChargedIs ==
  ASSUME ValuedInv, pc # "value", NEW O \in SUBSET DOMAIN replacement,
         NEW u \in Bids, NEW o \in OrdersOf(u), Valued(O)[u][o] # Unknown
  PROVE  LET t == Trade(u, o)
             context == Auction.context[o]
             fees == PolicyFees(t, context.policies, QuoteWith(O, o))
             split == FeeSplit(fees, context.partners)
         IN  /\ Chargeable(t, context.policies, QuoteWith(O, o))
             /\ t.price \in Nat /\ (t.sell \/ t.limitSell > 0)
             /\ context.partners \in Nat
             /\ \A i \in DOMAIN fees : ~(fees[i] < 0)
             /\ split # Unknown
             /\ Valued(O)[u][o] = NativeFee(t, split)
<1>. DEFINE t == Trade(u, o)
            context == Auction.context[o]
            quote == QuoteWith(O, o)
            split == OrderFees(t, context, quote)
<1>1. IsQuoted(Auction)
  BY QuoteFeesAssumption DEF ValuedInv, Auction
<1>2. /\ o \in UserOrders /\ IsTrade(t) /\ t.price \in Nat /\ OrderSurplus(t) >= 0
      /\ t.sell \/ t.limitSell > 0
  BY <1>1 DEF IsQuoted, Bids, OrdersOf, Trade
<1>3. o \in Order
  BY <1>2, OutcomesAssumption
<1>4. /\ context.partners \in Nat /\ Len(context.policies) \in Nat
      /\ \A i \in 1..Len(context.policies) : IsPolicy(context.policies[i])
      /\ Auction.quote[o] = <<>> \/ IsQuote(Auction.quote[o])
  BY <1>1, <1>3 DEF IsQuoted
<1>5. quote = <<>> \/ IsQuote(quote)
  <2>1. o \in O => IsQuote(replacement[o])
    BY QuoteFeesAssumption DEF ValuedInv
  <2>. QED  BY <1>4, <2>1 DEF QuoteWith
<1>6. Valued(O)[u][o] = IF split = Unknown THEN Unknown ELSE NativeFee(t, split)
  BY DEF Valued, QuoteWith
<1>7. split # Unknown /\ Valued(O)[u][o] = NativeFee(t, split)
  BY <1>6
<1>8. /\ \A i \in DOMAIN PolicyFees(t, context.policies, quote) :
           ~(PolicyFees(t, context.policies, quote)[i] < 0)
      /\ split = FeeSplit(PolicyFees(t, context.policies, quote), context.partners)
  <2>. HIDE DEF t, context, quote
  <2>. QED  BY <1>7 DEF OrderFees
<1>. HIDE DEF t, context, quote, split
<1>. QED  BY <1>2, <1>4, <1>5, <1>7, <1>8 DEF Chargeable, t, context, quote

\* The same auction is valued in the same way.
LEMMA SameAuction ==
  ASSUME UNCHANGED <<window, replacement, at>>
  PROVE  /\ Bids' = Bids /\ Quoted' = Quoted
         /\ \A u : OrdersOf(u)' = OrdersOf(u)
         /\ \A O : Valued(O)' = Valued(O)
BY DEF Bids, Quoted, OrdersOf, Valued, Auction, Trade

LEMMA ValuedInit == Init => ValuedInv
BY DEF Init, ValuedInv

LEMMA ValuedStep ==
  ASSUME ValuedInv, [Next]_vars
  PROVE  ValuedInv'
<1>1. CASE Value
  <2>1. Valued({})' = Valued({})
    BY <1>1, SameAuction DEF Value
  <2>. QED  BY <1>1, <2>1 DEF Value, ValuedInv
<1>2. CASE Substitute \/ DropBroken \/ GiveUp \/ Recharge \/ Check
  <2>1. /\ UNCHANGED <<window, replacement, at, valued>> /\ pc # "value"
    BY <1>2 DEF Substitute, DropBroken, GiveUp, Recharge, Check
  <2>2. Valued({})' = Valued({})
    BY <2>1, SameAuction
  <2>. QED  BY <2>1, <2>2 DEF ValuedInv
<1>3. CASE Add
  <2>1. window' = window /\ replacement' = replacement /\ at' = at + 1 /\ pc' = "value"
    BY <1>3 DEF Add
  <2>. QED  BY <2>1 DEF ValuedInv
<1>4. CASE UNCHANGED vars
  <2>1. UNCHANGED <<window, replacement, at, valued, pc>>
    BY <1>4 DEF vars
  <2>2. Valued({})' = Valued({})
    BY <2>1, SameAuction
  <2>. QED  BY <2>1, <2>2 DEF ValuedInv
<1>. QED  BY <1>1, <1>2, <1>3, <1>4 DEF Next, Returned

\* Each policy charges the trade as if the later ones had never been, the partners are
\* charged first, and what the DAO and they get makes up the whole, rounding included
\* (policy_fees, fee_split, value_solution).
THEOREM EachPolicyChargesTheRest == Spec => []PoliciesChargeTheRest
<1>1. ASSUME ValuedInv PROVE PoliciesChargeTheRest
  <2>. SUFFICES ASSUME pc # "value", NEW u \in Bids, NEW o \in OrdersOf(u),
                       valued[u][o] # Unknown
                PROVE  LET t == Trade(u, o)
                           context == Auction.context[o]
                           fees == PolicyFees(t, context.policies, Auction.quote[o])
                           split == FeeSplit(fees, context.partners)
                           volume(k) == IF t.sell THEN t.boughtFor + Later(fees, k)
                                        ELSE t.soldFor - Later(fees, k)
                           volumeFee(k, f) ==
                             MulF64(volume(k), <<f[1], IF t.sell THEN f[2] - f[1] ELSE f[2] + f[1]>>)
                       IN  /\ \A k \in DOMAIN fees :
                                CASE context.policies[k].kind = "volume" ->
                                       fees[k] = volumeFee(k, context.policies[k].factor)
                                  [] context.policies[k].kind = "surplus" ->
                                       LET f == context.policies[k].factor
                                       IN  fees[k] = Lesser(MulF64(OrderSurplus(t) + Later(fees, k),
                                                                   <<f[1], f[2] - f[1]>>),
                                                            volumeFee(k, context.policies[k].cap))
                                  [] OTHER -> fees[k] <= volumeFee(k, context.policies[k].cap)
                           /\ split.partner = IF Len(fees) <= 1 THEN 0
                                              ELSE Later(fees, Len(fees) - context.partners)
                           /\ valued[u][o].partner \in 0..valued[u][o].total
                           /\ ToNative(t, OrderSurplus(t)) + valued[u][o].total
                                = ToNative(t, OrderSurplus(t) + split.total)
    BY DEF PoliciesChargeTheRest
  <2>. DEFINE t == Trade(u, o)
              context == Auction.context[o]
              policies == context.policies
              quote == Auction.quote[o]
              fees == PolicyFees(t, policies, quote)
              split == FeeSplit(fees, context.partners)
  <2>1. /\ Chargeable(t, policies, quote)
        /\ t.price \in Nat /\ (t.sell \/ t.limitSell > 0)
        /\ context.partners \in Nat
        /\ \A i \in DOMAIN fees : ~(fees[i] < 0)
        /\ split # Unknown
        /\ valued[u][o] = NativeFee(t, split)
    <3>1. valued = Valued({}) /\ QuoteWith({}, o) = quote
      BY <1>1 DEF ValuedInv, QuoteWith
    <3>2. valued[u][o] # Unknown => Valued({})[u][o] # Unknown
      BY <3>1
    <3>. HIDE DEF t, context, policies, fees, split
    <3>. QED  BY <1>1, <3>1, <3>2, ChargedIs DEF t, context, policies, fees, split
  <2>2. /\ fees \in Seq(Nat) /\ Len(fees) = Len(policies)
        /\ \A k \in 1..Len(fees) : Charges(t, policies[k], quote, Later(fees, k), fees[k])
    <3>. HIDE DEF t, policies, quote
    <3>. QED  BY <2>1, PoliciesCharge
  <2>. HIDE DEF t, context, quote, fees
  <2>3. /\ split.total = Total(fees) /\ split.total \in Nat
        /\ split.partner = IF Len(fees) <= 1 THEN 0 ELSE Later(fees, Len(fees) - context.partners)
        /\ split.partner \in 0..split.total
    BY <2>1, <2>2, SplitIs
  <2>4. OrderSurplus(t) \in Nat
    <3>1. IsTrade(t) /\ OrderSurplus(t) >= 0
      BY <2>1 DEF Chargeable
    <3>2. PricesExcluding(t, 0) # NoPrices
      BY <3>1, BaseIsNetOfNone
    <3>. QED  BY <3>1, <3>2, SurplusGrows
  <2>5. /\ valued[u][o].partner \in 0..valued[u][o].total
        /\ ToNative(t, OrderSurplus(t)) + valued[u][o].total = ToNative(t, OrderSurplus(t) + split.total)
    <3>. HIDE DEF split
    <3>. QED  BY <2>1, <2>3, <2>4, NativeShares DEF Chargeable
  <2>6. DOMAIN fees = 1..Len(fees)
    BY <2>2
  <2>7. ASSUME NEW k \in DOMAIN fees
        PROVE  LET volumeFee(f) == MulF64(IF t.sell THEN t.boughtFor + Later(fees, k)
                                          ELSE t.soldFor - Later(fees, k),
                                          <<f[1], IF t.sell THEN f[2] - f[1] ELSE f[2] + f[1]>>)
               IN  CASE policies[k].kind = "volume" -> fees[k] = volumeFee(policies[k].factor)
                     [] policies[k].kind = "surplus" ->
                          LET f == policies[k].factor
                          IN  fees[k] = Lesser(MulF64(OrderSurplus(t) + Later(fees, k),
                                                      <<f[1], f[2] - f[1]>>),
                                               volumeFee(policies[k].cap))
                     [] OTHER -> fees[k] <= volumeFee(policies[k].cap)
    <3>1. ChargesNet(t, policies[k], Later(fees, k), fees[k])
      <4>. DEFINE x == Later(fees, k)
                  policy == policies[k]
      <4>1. k \in 1..Len(fees) /\ x \in Nat
        BY <2>2, <2>6, LaterIs
      <4>2. Charges(t, policy, quote, x, fees[k]) /\ IsPolicy(policy) /\ fees[k] >= 0
        BY <2>1, <2>2, <4>1 DEF Chargeable
      <4>. HIDE DEF x, policy, policies
      <4>3. ChargesNet(t, policy, x, fees[k])
        BY <2>1, <4>1, <4>2, PolicyFeeIs DEF Charges, Chargeable
      <4>. QED  BY <4>3 DEF x, policy
    <3>. QED  BY <3>1 DEF ChargesNet, VolumeNet
  <2>8. split.partner = IF Len(fees) <= 1 THEN 0 ELSE Later(fees, Len(fees) - context.partners)
    BY <2>3
  <2>. HIDE DEF split, policies
  <2>. QED  BY <2>5, <2>7, <2>8 DEF t, context, quote, fees, split, policies
<1>. QED  BY <1>1, ValuedInit, ValuedStep, PTL DEF Spec

----------------------------------------------------------------------------
(* The overlay *)

\* Whether and how an order is charged depends on its own quote only.
LEMMA ChargedByItself ==
  ASSUME NEW O, NEW u \in Bids, NEW o \in OrdersOf(u)
  PROVE  /\ o \in O => Valued(O)[u][o] = Valued({o})[u][o]
         /\ o \notin O => Valued(O)[u][o] = Valued({})[u][o]
BY DEF Valued


\* What holds while replacements are tried, and once they are decided: what an order is
\* charged is as valued here; an order taken from the overlay cannot be charged against
\* its replacement; one that stays is, wherever it was known, from the second try on.
OverlayInv ==
  /\ pc = "overlay" =>
       /\ valued = Valued({}) /\ charged = valued /\ substituted = {}
       /\ overlay \subseteq Quoted /\ attempt \in {0, 1}
       /\ \A o \in Quoted \ overlay :
            \E u \in Bids : o \in OrdersOf(u) /\ Valued({o})[u][o] = Unknown
       /\ attempt = 1 => Broken(Valued(overlay)) = {}
  /\ pc = "recharge" =>
       /\ valued = Valued({}) /\ charged = Valued(substituted) /\ substituted \subseteq Quoted
       /\ \A o \in Quoted \ substituted :
            \E u \in Bids : o \in OrdersOf(u) /\ Valued({o})[u][o] = Unknown
       /\ \A o \in substituted \cap KnownInBaseline :
            \A u \in Bids : o \in OrdersOf(u) => charged[u][o] # Unknown

\* The pass starts before any replacement is tried.
LEMMA OverlayInit == Init => OverlayInv
BY DEF Init, OverlayInv

\* Every step keeps it; only the second attempt's needs more than its own definition.
LEMMA OverlayStep ==
  ASSUME OverlayInv, [Next]_vars
  PROVE  OverlayInv'
<1>1. CASE Value
  <2>1. pc' = "overlay" /\ valued' = Valued({}) /\ charged' = valued' /\ substituted' = {}
        /\ overlay' = Quoted /\ attempt' = 0
    BY <1>1 DEF Value
  <2>2. Bids' = Bids /\ Quoted' = Quoted /\ Valued({})' = Valued({})
    BY <1>1, SameAuction DEF Value
  <2>. QED  BY <2>1, <2>2 DEF OverlayInv
<1>2. CASE Substitute
  <2>1. /\ pc = "overlay" /\ pc' = "recharge" /\ valued' = valued
        /\ charged' = Valued(overlay) /\ substituted' = overlay
        /\ Broken(Valued(overlay)) = {}
    BY <1>2 DEF Substitute
  <2>2. /\ Bids' = Bids /\ Quoted' = Quoted
        /\ \A u : OrdersOf(u)' = OrdersOf(u)
        /\ \A O : Valued(O)' = Valued(O)
    BY <1>2, SameAuction DEF Substitute
  <2>3. KnownInBaseline' = KnownInBaseline
    BY <2>1, <2>2 DEF KnownInBaseline
  <2>4. \A o \in overlay \cap KnownInBaseline :
          \A u \in Bids : o \in OrdersOf(u) => Valued(overlay)[u][o] # Unknown
    BY <2>1 DEF Broken
  <2>. QED  BY <2>1, <2>2, <2>3, <2>4 DEF OverlayInv
<1>3. CASE DropBroken
  <2>. DEFINE gone == Broken(Valued(overlay))
              rest == overlay \ gone
  <2>1. /\ pc = "overlay" /\ pc' = "overlay" /\ gone # {}
        /\ overlay' = rest /\ attempt' = attempt + 1
        /\ valued' = valued /\ charged' = charged /\ substituted' = substituted
    BY <1>3 DEF DropBroken
  <2>2. /\ Bids' = Bids /\ Quoted' = Quoted
        /\ \A u : OrdersOf(u)' = OrdersOf(u)
        /\ \A O : Valued(O)' = Valued(O)
    BY <1>3, SameAuction DEF DropBroken
  <2>3. attempt' = 1
    BY <2>1 DEF OverlayInv
  <2>4. \A o \in gone : \E u \in Bids : o \in OrdersOf(u) /\ Valued({o})[u][o] = Unknown
    BY ChargedByItself DEF Broken
  <2>5. \A o \in Quoted \ rest :
          \E u \in Bids : o \in OrdersOf(u) /\ Valued({o})[u][o] = Unknown
    <3>. HIDE DEF gone
    <3>. QED  BY <2>1, <2>4 DEF OverlayInv
  <2>6. KnownInBaseline' = KnownInBaseline
    BY <2>1, <2>2 DEF KnownInBaseline
  <2>7. \A o \in rest \cap KnownInBaseline :
          \A u \in Bids : o \in OrdersOf(u) => Valued(rest)[u][o] # Unknown
    <3>. SUFFICES ASSUME NEW o \in rest, o \in KnownInBaseline, NEW u \in Bids, o \in OrdersOf(u)
                  PROVE  Valued(rest)[u][o] # Unknown
      OBVIOUS
    <3>1. Valued(overlay)[u][o] # Unknown
      BY DEF Broken
    <3>. HIDE DEF rest
    <3>2. Valued(rest)[u][o] = Valued({o})[u][o]
      BY ChargedByItself
    <3>3. o \in overlay
      BY DEF rest
    <3>4. Valued(overlay)[u][o] = Valued({o})[u][o]
      BY <3>3, ChargedByItself
    <3>. QED  BY <3>1, <3>2, <3>4
  <2>8. Broken(Valued(overlay))' = {}
    <3>. HIDE DEF rest
    <3>. QED  BY <2>1, <2>2, <2>6, <2>7 DEF Broken
  <2>9. overlay' \subseteq Quoted
    BY <2>1 DEF OverlayInv
  <2>. HIDE DEF gone, rest
  <2>. QED  BY <2>1, <2>2, <2>3, <2>5, <2>8, <2>9 DEF OverlayInv
<1>4. CASE GiveUp
  <2>1. /\ pc = "overlay" /\ pc' = "recharge" /\ valued' = valued /\ overlay = {}
        /\ charged' = charged /\ substituted' = substituted
    BY <1>4 DEF GiveUp, OverlayInv, tried
  <2>2. /\ Bids' = Bids /\ Quoted' = Quoted
        /\ \A u : OrdersOf(u)' = OrdersOf(u)
        /\ \A O : Valued(O)' = Valued(O)
    BY <1>4, SameAuction DEF GiveUp
  <2>. QED  BY <2>1, <2>2 DEF OverlayInv
<1>5. CASE Recharge
  BY <1>5 DEF Recharge, OverlayInv
<1>6. CASE Check
  BY <1>6 DEF Check, OverlayInv
<1>7. CASE Add
  BY <1>7 DEF Add, OverlayInv
<1>8. CASE UNCHANGED vars
  <2>1. /\ UNCHANGED <<pc, valued, charged, substituted, overlay, attempt>>
        /\ UNCHANGED <<window, replacement, at>>
    BY <1>8 DEF vars
  <2>2. /\ Bids' = Bids /\ Quoted' = Quoted
        /\ \A u : OrdersOf(u)' = OrdersOf(u)
        /\ \A O : Valued(O)' = Valued(O)
    BY <2>1, SameAuction
  <2>3. KnownInBaseline' = KnownInBaseline
    BY <2>1, <2>2 DEF KnownInBaseline
  <2>4. Broken(Valued(overlay))' = Broken(Valued(overlay))
    BY <2>1, <2>2, <2>3 DEF Broken
  <2>. QED  BY <2>1, <2>2, <2>3, <2>4 DEF OverlayInv
<1>. QED  BY <1>1, <1>2, <1>3, <1>4, <1>5, <1>6, <1>7, <1>8 DEF Next, Returned

\* Only orders whose replacement cannot be charged somewhere keep their recorded quote,
\* and no known fee becomes unknown; _quote_overlay never gives the others up after its
\* second try, for an order is charged by its own quote alone.
THEOREM OverlayDropsOnlyTheBroken == Spec => []OnlyTheBrokenAreDropped
<1>1. ASSUME OverlayInv PROVE OnlyTheBrokenAreDropped
  <2>. SUFFICES ASSUME pc = "recharge"
                PROVE  \A u \in Bids : \A o \in OrdersOf(u) :
                         o \in KnownInBaseline /\ valued[u][o] # Unknown => charged[u][o] # Unknown
    BY <1>1 DEF OverlayInv, OnlyTheBrokenAreDropped
  <2>. SUFFICES ASSUME NEW u \in Bids, NEW o \in OrdersOf(u), o \in KnownInBaseline,
                       valued[u][o] # Unknown
                PROVE  charged[u][o] # Unknown
    OBVIOUS
  <2>1. CASE o \in substituted
    BY <1>1, <2>1 DEF OverlayInv
  <2>2. CASE o \notin substituted
    <3>1. charged = Valued(substituted) /\ valued = Valued({})
      BY <1>1 DEF OverlayInv
    <3>. QED  BY <2>2, <3>1, ChargedByItself
  <2>. QED  BY <2>1, <2>2
<1>. QED  BY <1>1, OverlayInit, OverlayStep, PTL DEF Spec

----------------------------------------------------------------------------
(* The orders that are charged again *)

\* What the winners W change the fees by, and which of their orders would not have cleared.
Changes(W) ==
  [o \in {x \in Recharged(W) :
            \A u \in ExecutorOf(W, x) : Unknown \notin {valued[u][x], charged[u][x]}} |->
     RechargeOf(CHOOSE u \in ExecutorOf(W, o) : TRUE, o)]

Unclearable(W) ==
  {o \in Recharged(W) : \E u \in ExecutorOf(W, o) : LimitOf(u, o) # NoShift /\ ~LimitOf(u, o).clears}

\* Once the replacements are decided the fees stay what they are with them, and once the
\* winners are, the recharges what they are for those.
RechargeInv ==
  /\ pc \in {"recharge", "check", "add"} =>
       charged = Valued(substituted) /\ substituted \in SUBSET DOMAIN replacement
  /\ pc \in {"check", "add"} =>
       /\ winners.loo \in SUBSET Bids
       /\ recharges = Changes(winners.loo) /\ unclearable = Unclearable(winners.loo)

LEMMA RechargeInit == Init => RechargeInv
BY DEF Init, RechargeInv

\* The same fees change in the same way.
LEMMA SameChanges ==
  ASSUME UNCHANGED <<window, replacement, at, valued, charged, substituted>>
  PROVE  \A W : Changes(W)' = Changes(W) /\ Unclearable(W)' = Unclearable(W)
<1>1. \A W, o : ExecutorOf(W, o)' = ExecutorOf(W, o)
  BY DEF ExecutorOf, OrdersOf, Auction
<1>2. \A W : Recharged(W)' = Recharged(W)
  BY <1>1 DEF Recharged, Auction
<1>3. \A u, o : RechargeOf(u, o)' = RechargeOf(u, o) /\ LimitOf(u, o)' = LimitOf(u, o)
  BY DEF RechargeOf, LimitOf, Trade, Auction
<1>4. \A W : Changes(W)' = Changes(W)
  <2>. SUFFICES ASSUME NEW W PROVE Changes(W)' = Changes(W)
    OBVIOUS
  <2>. DEFINE Some == {x \in Recharged(W) :
                         \A u \in ExecutorOf(W, x) : Unknown \notin {valued[u][x], charged[u][x]}}
  <2>1. Some' = Some
    BY <1>1, <1>2
  <2>2. \A o : RechargeOf(CHOOSE u \in ExecutorOf(W, o) : TRUE, o)'
                = RechargeOf(CHOOSE u \in ExecutorOf(W, o) : TRUE, o)
    BY <1>1, <1>3
  <2>3. Changes(W) = [o \in Some |-> RechargeOf(CHOOSE u \in ExecutorOf(W, o) : TRUE, o)]
    BY DEF Changes
  <2>4. Changes(W)' = [o \in Some' |-> RechargeOf(CHOOSE u \in ExecutorOf(W, o) : TRUE, o)']
    BY DEF Changes
  <2>. HIDE DEF Some
  <2>. QED  BY <2>1, <2>2, <2>3, <2>4
<1>. QED  BY <1>1, <1>2, <1>3, <1>4 DEF Unclearable

LEMMA RechargeStep ==
  ASSUME OverlayInv, RechargeInv, [Next]_vars
  PROVE  RechargeInv'
<1>1. CASE Value
  BY <1>1 DEF Value, RechargeInv
<1>2. CASE Substitute
  <2>1. /\ pc = "overlay" /\ pc' = "recharge" /\ charged' = Valued(overlay) /\ substituted' = overlay
        /\ replacement' = replacement
    BY <1>2 DEF Substitute
  <2>2. \A O : Valued(O)' = Valued(O)
    BY <1>2, SameAuction DEF Substitute
  <2>3. overlay \in SUBSET DOMAIN replacement
    BY <2>1 DEF OverlayInv, Quoted
  <2>. QED  BY <2>1, <2>2, <2>3 DEF RechargeInv
<1>3. CASE DropBroken
  BY <1>3 DEF DropBroken, RechargeInv
<1>4. CASE GiveUp
  <2>1. /\ pc = "overlay" /\ pc' = "recharge" /\ charged' = charged /\ substituted' = substituted
    BY <1>4 DEF GiveUp, tried
  <2>2. charged = Valued({}) /\ substituted = {}
    BY <2>1 DEF OverlayInv
  <2>3. \A O : Valued(O)' = Valued(O)
    BY <1>4, SameAuction DEF GiveUp
  <2>. QED  BY <2>1, <2>2, <2>3 DEF RechargeInv
<1>5. CASE Recharge
  <2>1. /\ pc = "recharge" /\ pc' = "check"
        /\ UNCHANGED <<window, replacement, at, valued, charged, substituted>>
    BY <1>5 DEF Recharge, tried
  <2>2. \E W \in SUBSET FairBids(Submitted) :
          winners'.loo = W /\ recharges' = Changes(W) /\ unclearable' = Unclearable(W)
    BY <1>5 DEF Recharge, Changes, Unclearable
  <2>3. FairBids(Submitted) \subseteq Bids
    BY DEF FairBids, Submitted, Without, Bids
  <2>4. \A W : Changes(W)' = Changes(W) /\ Unclearable(W)' = Unclearable(W)
    BY <2>1, SameChanges
  <2>5. Bids' = Bids /\ \A O : Valued(O)' = Valued(O)
    BY <2>1, SameAuction
  <2>. QED  BY <2>1, <2>2, <2>3, <2>4, <2>5 DEF RechargeInv
<1>6. CASE Check
  <2>1. /\ pc = "check" /\ pc' = "add"
        /\ UNCHANGED <<window, replacement, at, valued, charged, substituted>>
        /\ UNCHANGED <<winners, recharges, unclearable>>
    BY <1>6 DEF Check, tried
  <2>2. \A W : Changes(W)' = Changes(W) /\ Unclearable(W)' = Unclearable(W)
    BY <2>1, SameChanges
  <2>3. Bids' = Bids /\ \A O : Valued(O)' = Valued(O)
    BY <2>1, SameAuction
  <2>. QED  BY <2>1, <2>2, <2>3 DEF RechargeInv
<1>7. CASE Add
  BY <1>7 DEF Add, RechargeInv
<1>8. CASE UNCHANGED vars
  <2>1. /\ UNCHANGED <<window, replacement, at, valued, charged, substituted>>
        /\ UNCHANGED <<pc, winners, recharges, unclearable>>
    BY <1>8 DEF vars, tried, found
  <2>2. \A W : Changes(W)' = Changes(W) /\ Unclearable(W)' = Unclearable(W)
    BY <2>1, SameChanges
  <2>3. Bids' = Bids /\ \A O : Valued(O)' = Valued(O)
    BY <2>1, SameAuction
  <2>. QED  BY <2>1, <2>2, <2>3 DEF RechargeInv
<1>. QED  BY <1>1, <1>2, <1>3, <1>4, <1>5, <1>6, <1>7, <1>8 DEF Next, Returned

\* Charged against a replacement that is no better, an order pays no less.
LEMMA RechargeGrows ==
  ASSUME ValuedInv, RechargeInv, pc \in {"check", "add"},
         NEW o \in substituted, NEW u \in Bids, o \in OrdersOf(u), NoBetter(u, o),
         valued[u][o] # Unknown, charged[u][o] # Unknown
  PROVE  RechargeOf(u, o).total >= 0
<1>. DEFINE t == Trade(u, o)
            policies == Auction.context[o].policies
            partners == Auction.context[o].partners
            q == Auction.quote[o]
            r == replacement[o]
            few == PolicyFees(t, policies, q)
            many == PolicyFees(t, policies, r)
            light == FeeSplit(few, partners)
            heavy == FeeSplit(many, partners)
<1>1. /\ valued = Valued({}) /\ charged = Valued(substituted)
      /\ substituted \in SUBSET DOMAIN replacement /\ {} \in SUBSET DOMAIN replacement
      /\ pc # "value"
  BY DEF ValuedInv, RechargeInv
<1>2. QuoteWith({}, o) = q /\ QuoteWith(substituted, o) = r
  BY DEF QuoteWith
<1>3. /\ Chargeable(t, policies, q) /\ t.price \in Nat /\ (t.sell \/ t.limitSell > 0)
      /\ partners \in Nat /\ (\A i \in DOMAIN few : ~(few[i] < 0)) /\ light # Unknown
      /\ valued[u][o] = NativeFee(t, light)
  <2>1. Valued({})[u][o] # Unknown
    BY <1>1
  <2>. QED  BY <1>1, <1>2, <2>1, ChargedIs
<1>4. /\ Chargeable(t, policies, r)
      /\ (\A i \in DOMAIN many : ~(many[i] < 0)) /\ heavy # Unknown
      /\ charged[u][o] = NativeFee(t, heavy)
  <2>1. Valued(substituted)[u][o] # Unknown
    BY <1>1
  <2>. QED  BY <1>1, <1>2, <2>1, ChargedIs
<1>5. IsQuote(r)
  BY <1>1, QuoteFeesAssumption DEF ValuedInv
<1>6. q # <<>> /\ Worse(t, q, r)
  BY DEF NoBetter, Worse
<1>7. IsQuote(q)
  BY <1>3, <1>6 DEF Chargeable
<1>. HIDE DEF t, policies, partners, q, r
<1>8. Total(few) <= Total(many)
  <2>. HIDE DEF few, many
  <2>. QED  BY <1>3, <1>4, <1>5, <1>6, <1>7, FeesGrow DEF few, many
<1>9. few \in Seq(Nat) /\ many \in Seq(Nat)
  <2>1. few \in Seq(Nat)
    BY <1>3, PoliciesCharge
  <2>2. many \in Seq(Nat)
    BY <1>4, PoliciesCharge
  <2>. QED  BY <2>1, <2>2
<1>10. light.total = Total(few) /\ heavy.total = Total(many) /\ Total(few) \in Nat /\ Total(many) \in Nat
  <2>. HIDE DEF few, many
  <2>. QED  BY <1>3, <1>4, <1>9, SplitIs
<1>11. IsTrade(t) /\ OrderSurplus(t) \in Nat
  <2>1. IsTrade(t) /\ OrderSurplus(t) >= 0
    BY <1>3 DEF Chargeable
  <2>2. PricesExcluding(t, 0) # NoPrices
    BY <2>1, BaseIsNetOfNone
  <2>. QED  BY <2>1, <2>2, SurplusGrows
<1>. DEFINE s == OrderSurplus(t)
            x == s + light.total
            y == s + heavy.total
<1>12. s \in Int /\ x \in Int /\ y \in Int /\ x <= y
  <2>. HIDE DEF few, many, light, heavy
  <2>. QED  BY <1>8, <1>10, <1>11
<1>13. /\ valued[u][o].total = ToNative(t, x) - ToNative(t, s)
       /\ charged[u][o].total = ToNative(t, y) - ToNative(t, s)
  <2>. HIDE DEF light, heavy
  <2>. QED  BY <1>3, <1>4 DEF NativeFee
<1>. HIDE DEF s, x, y
<1>14. ToNative(t, x) \in Int /\ ToNative(t, y) \in Int /\ ToNative(t, x) <= ToNative(t, y)
  BY <1>3, <1>11, <1>12, NativeMono
<1>15. ToNative(t, s) \in Int
  BY <1>3, <1>11, <1>12, NativeMono
<1>16. RechargeOf(u, o).total = charged[u][o].total - valued[u][o].total
  BY DEF RechargeOf
<1>. DEFINE a == ToNative(t, x)
            b == ToNative(t, y)
            c == ToNative(t, s)
<1>. HIDE DEF a, b, c
<1>17. (b - c) - (a - c) >= 0
  BY <1>14, <1>15 DEF a, b, c
<1>. QED  BY <1>13, <1>16, <1>17 DEF a, b, c

\* A worse quote never lowers what an order is charged, whatever policies stand before or
\* behind the one that reads it, and its limit clears: a removal that only worsens quotes
\* brings the protocol at least as much (AdjustQuote, shifted_limit).
THEOREM WorseQuotesNeverCheaper == Spec => []WorseQuoteNeverCheaper
<1>1. ASSUME ValuedInv, RechargeInv PROVE WorseQuoteNeverCheaper
  <2>. SUFFICES ASSUME pc \in {"check", "add"}, NEW o \in RechargedNow,
                       NEW u \in ExecutorOf(winners.loo, o), NoBetter(u, o)
                PROVE  /\ o \in DOMAIN recharges => recharges[o].total >= 0
                       /\ o \notin unclearable
    BY DEF WorseQuoteNeverCheaper
  <2>1. /\ winners.loo \in SUBSET Bids /\ o \in substituted
        /\ substituted \in SUBSET DOMAIN replacement
        /\ recharges = Changes(winners.loo) /\ unclearable = Unclearable(winners.loo)
    BY <1>1 DEF RechargeInv, RechargedNow, Recharged
  <2>2. ASSUME NEW v \in ExecutorOf(winners.loo, o)
        PROVE  v \in Bids /\ o \in OrdersOf(v) /\ NoBetter(v, o)
    <3>1. v \in Bids /\ u \in Bids /\ o \in OrdersOf(v) /\ o \in OrdersOf(u)
      BY <2>1 DEF ExecutorOf
    <3>2. Trade(v, o).sell = Trade(u, o).sell
      <4>1. IsQuoted(Auction)
        BY <1>1, QuoteFeesAssumption DEF ValuedInv, Auction
      <4>. QED  BY <3>1, <4>1 DEF IsQuoted, Bids, OrdersOf, Trade
    <3>3. NoBetter(v, o)
      BY <3>2 DEF NoBetter, EffectiveRate
    <3>. QED  BY <3>1, <3>3
  <2>3. ASSUME o \in DOMAIN recharges PROVE recharges[o].total >= 0
    <3>. DEFINE v == CHOOSE v \in ExecutorOf(winners.loo, o) : TRUE
    <3>1. v \in ExecutorOf(winners.loo, o)
      OBVIOUS
    <3>2. /\ recharges[o] = RechargeOf(v, o)
          /\ \A w \in ExecutorOf(winners.loo, o) : Unknown \notin {valued[w][o], charged[w][o]}
      BY <2>1, <2>3 DEF Changes
    <3>. HIDE DEF v
    <3>3. valued[v][o] # Unknown /\ charged[v][o] # Unknown
      BY <3>1, <3>2
    <3>. QED  BY <1>1, <2>1, <2>2, <3>1, <3>2, <3>3, RechargeGrows
  <2>4. ASSUME o \in unclearable PROVE FALSE
    <3>1. \E v \in ExecutorOf(winners.loo, o) : LimitOf(v, o) # NoShift /\ ~LimitOf(v, o).clears
      BY <2>1, <2>4 DEF Unclearable
    <3>2. ASSUME NEW v \in ExecutorOf(winners.loo, o), LimitOf(v, o) # NoShift
          PROVE  LimitOf(v, o).clears
      <4>. DEFINE t == Trade(v, o)
                  q == Auction.quote[o]
                  r == replacement[o]
      <4>1. v \in Bids /\ o \in OrdersOf(v) /\ NoBetter(v, o)
        BY <2>2
      <4>2. q # <<>> /\ LimitOf(v, o) = ShiftedLimit(t, q, r)
        BY <4>1 DEF LimitOf, NoBetter
      <4>3. Worse(t, q, r)
        BY <4>1 DEF NoBetter, Worse
      <4>4. IsTrade(t) /\ OrderSurplus(t) >= 0 /\ IsQuote(q)
        <5>1. IsQuoted(Auction)
          BY <1>1, QuoteFeesAssumption DEF ValuedInv, Auction
        <5>2. o \in UserOrders /\ IsTrade(t) /\ OrderSurplus(t) >= 0
          BY <4>1, <5>1 DEF IsQuoted, Bids, OrdersOf, Trade
        <5>. QED  BY <4>2, <5>1, <5>2, OutcomesAssumption DEF IsQuoted
      <4>5. IsQuote(r)
        BY <1>1, <2>1, QuoteFeesAssumption DEF ValuedInv
      <4>. HIDE DEF t, q, r
      <4>. QED  BY <3>2, <4>2, <4>3, <4>4, <4>5, LimitClears
    <3>. QED  BY <3>1, <3>2
  <2>. QED  BY <2>3, <2>4
<1>2. Init => ValuedInv /\ OverlayInv /\ RechargeInv
  BY ValuedInit, OverlayInit, RechargeInit
<1>3. ASSUME ValuedInv, OverlayInv, RechargeInv, [Next]_vars
      PROVE  ValuedInv' /\ OverlayInv' /\ RechargeInv'
  BY <1>3, ValuedStep, OverlayStep, RechargeStep
<1>. QED  BY <1>1, <1>2, <1>3, PTL DEF Spec

----------------------------------------------------------------------------
(* The quote's effect apart from the removal's *)

\* Policies of which none reads the quote charge the same whatever it is.
LEMMA QuoteUnread ==
  ASSUME NEW t, NEW policies, NEW q, NEW r,
         Chargeable(t, policies, q), Chargeable(t, policies, r),
         \A i \in 1..Len(policies) : policies[i].kind # "priceimprovement"
  PROVE  PolicyFees(t, policies, q) = PolicyFees(t, policies, r)
<1>. DEFINE L == Len(policies)
            v == CHOOSE w : IsWalk(w, t, policies, q, L)
            w == CHOOSE w : IsWalk(w, t, policies, r, L)
            G == {n \in 0..L : v[n] = w[n]}
<1>1. L \in Nat
  BY DEF Chargeable
<1>2. IsWalk(v, t, policies, q, L) /\ IsWalk(w, t, policies, r, L)
  <2>. HIDE DEF L
  <2>. QED  BY <1>1, WalkExists
<1>3. PolicyFees(t, policies, q) = v[L] /\ PolicyFees(t, policies, r) = w[L]
  BY DEF PolicyFees, IsWalk
<1>. HIDE DEF v, w
<1>4. \A n \in 0..L : v[n] \in Seq(Fee) /\ Len(v[n]) = n
  BY <1>2, WalkIs
<1>5. \A n \in 0..L : /\ v[n] = IF n = 0 THEN <<>> ELSE ChargeNext(t, policies, q, v[n - 1])
                      /\ w[n] = IF n = 0 THEN <<>> ELSE ChargeNext(t, policies, r, w[n - 1])
  BY <1>2 DEF IsWalk
<1>. HIDE DEF L
<1>6. 0 \in G
  BY <1>1, <1>5
<1>7. ASSUME NEW n \in 0..L, n < L, n \in G
      PROVE  n + 1 \in G
  <2>. DEFINE m == n + 1
              later == v[n]
              policy == policies[L - n]
  <2>1. m \in 0..L /\ m # 0 /\ m - 1 = n /\ L - n \in 1..L
    BY <1>1, <1>7
  <2>2. policy.kind # "priceimprovement" /\ Len(later) = n /\ w[n] = later
    BY <1>4, <1>7, <2>1 DEF L
  <2>3. \A prices : PolicyFee(t, policy, prices, q) = PolicyFee(t, policy, prices, r)
    <3>. HIDE DEF policy
    <3>1. IsPolicy(policy)
      BY <2>1 DEF Chargeable, L, policy
    <3>. QED  BY <2>2, <3>1 DEF PolicyFee, IsPolicy
  <2>. HIDE DEF later, m
  <2>4. ChargeNext(t, policies, q, later) = ChargeNext(t, policies, r, later)
    BY <2>2, <2>3 DEF ChargeNext, L
  <2>5. v[m] = ChargeNext(t, policies, q, later) /\ w[m] = ChargeNext(t, policies, r, later)
    BY <1>5, <2>1, <2>2 DEF later
  <2>. QED  BY <2>1, <2>4, <2>5 DEF m
<1>8. 0..L \subseteq G
  <2>. HIDE DEF G
  <2>. QED  BY <1>1, <1>6, <1>7, UpTo
<1>9. L \in 0..L
  BY <1>1
<1>. QED  BY <1>3, <1>8, <1>9

\* A known fee is a whole amount, and so is the partners' part of it.
LEMMA FeeIsInt ==
  ASSUME ValuedInv, pc # "value", NEW O \in SUBSET DOMAIN replacement,
         NEW u \in Bids, NEW o \in OrdersOf(u), Valued(O)[u][o] # Unknown
  PROVE  Valued(O)[u][o].total \in Int /\ Valued(O)[u][o].partner \in Int
<1>. DEFINE t == Trade(u, o)
            policies == Auction.context[o].policies
            partners == Auction.context[o].partners
            q == QuoteWith(O, o)
            fees == PolicyFees(t, policies, q)
            split == FeeSplit(fees, partners)
<1>1. /\ Chargeable(t, policies, q) /\ t.price \in Nat /\ (t.sell \/ t.limitSell > 0)
      /\ partners \in Nat /\ (\A i \in DOMAIN fees : ~(fees[i] < 0)) /\ split # Unknown
      /\ Valued(O)[u][o] = NativeFee(t, split)
  BY ChargedIs
<1>. HIDE DEF t, policies, partners, q
<1>2. fees \in Seq(Nat)
  BY <1>1, PoliciesCharge
<1>3. split.total \in Nat /\ split.partner \in 0..split.total
  <2>. HIDE DEF fees
  <2>. QED  BY <1>1, <1>2, SplitIs
<1>4. IsTrade(t) /\ OrderSurplus(t) \in Nat
  <2>1. IsTrade(t) /\ OrderSurplus(t) >= 0
    BY <1>1 DEF Chargeable
  <2>2. PricesExcluding(t, 0) # NoPrices
    BY <2>1, BaseIsNetOfNone
  <2>. QED  BY <2>1, <2>2, SurplusGrows
<1>. HIDE DEF split
<1>5. NativeFee(t, split).total \in Nat
      /\ NativeFee(t, split).partner \in 0..NativeFee(t, split).total
  BY <1>1, <1>3, <1>4, NativeShares
<1>. QED  BY <1>1, <1>5

\* A quote that no policy of an order reads does not change what it is charged.
LEMMA SameCharge ==
  ASSUME ValuedInv, pc # "value", NEW O \in SUBSET DOMAIN replacement,
         NEW u \in Bids, NEW o \in OrdersOf(u), Valued({})[u][o] # Unknown,
         ~ \E i \in DOMAIN Auction.context[o].policies :
             Auction.context[o].policies[i].kind = "priceimprovement"
  PROVE  Valued(O)[u][o] = Valued({})[u][o]
<1>. DEFINE t == Trade(u, o)
            context == Auction.context[o]
            q == QuoteWith({}, o)
            r == QuoteWith(O, o)
<1>1. Chargeable(t, context.policies, q) /\ {} \in SUBSET DOMAIN replacement
  BY ChargedIs
<1>2. r = <<>> \/ IsQuote(r)
  <2>1. o \in O => IsQuote(replacement[o])
    BY QuoteFeesAssumption DEF ValuedInv
  <2>2. q = <<>> \/ IsQuote(q)
    BY <1>1 DEF Chargeable
  <2>. QED  BY <2>1, <2>2 DEF QuoteWith
<1>3. Chargeable(t, context.policies, r)
  BY <1>1, <1>2 DEF Chargeable
<1>4. \A i \in 1..Len(context.policies) : context.policies[i].kind # "priceimprovement"
  <2>1. IsQuoted(Auction) /\ o \in Order
    <3>1. IsQuoted(Auction)
      BY QuoteFeesAssumption DEF ValuedInv, Auction
    <3>. QED  BY <3>1, OutcomesAssumption DEF IsQuoted, Bids, OrdersOf, Trade
  <2>2. DOMAIN context.policies = 1..Len(context.policies)
    BY <2>1 DEF IsQuoted
  <2>. QED  BY <2>2
<1>5. PolicyFees(t, context.policies, q) = PolicyFees(t, context.policies, r)
  <2>. HIDE DEF t, context, q, r
  <2>. QED  BY <1>1, <1>3, <1>4, QuoteUnread
<1>6. OrderFees(t, context, q) = OrderFees(t, context, r)
  BY <1>5 DEF OrderFees
<1>7. \A P : Valued(P)[u][o] = LET split == OrderFees(t, context, QuoteWith(P, o))
                               IN  IF split = Unknown THEN Unknown ELSE NativeFee(t, split)
  BY DEF Valued, QuoteWith
<1>. HIDE DEF t, context
<1>. QED  BY <1>6, <1>7
\* What a valuation collects from the winners W, if it knows every fee: an Int, and the
\* same from winners that execute the same.
Collecting(W) == {o \in Order : ExecutorOf(W, o) # {}}
By(W, o) == CHOOSE u \in ExecutorOf(W, o) : TRUE
FeesOf(fees, W) == [o \in Collecting(W) |-> fees[By(W, o)][o]]

LEMMA CollectedIs ==
  ASSUME ValuedInv, pc # "value", NEW O \in SUBSET DOMAIN replacement, NEW W \in SUBSET Bids,
         \A o \in Collecting(W) : Valued(O)[By(W, o)][o] # Unknown
  PROVE  /\ Collected(Valued(O), W) = SumFees(FeesOf(Valued(O), W))
         /\ IsFiniteSet(Collecting(W))
         /\ \A o \in Collecting(W) :
              /\ By(W, o) \in Bids /\ o \in OrdersOf(By(W, o)) /\ By(W, o) \in ExecutorOf(W, o)
              /\ FeesOf(Valued(O), W)[o].total \in Int /\ FeesOf(Valued(O), W)[o].partner \in Int
         /\ Collected(Valued(O), W).total \in Int /\ Collected(Valued(O), W).partner \in Int
<1>. DEFINE fees == Valued(O)
            E == Collecting(W)
            f == FeesOf(fees, W)
<1>1. {x \in Order : ExecutorOf(W, x) # {} /\ fees[By(W, x)][x] # Unknown} = E
  BY DEF Collecting
<1>2. Collected(fees, W)
        = SumFees([o \in {x \in Order : ExecutorOf(W, x) # {} /\ fees[By(W, x)][x] # Unknown} |->
                     fees[By(W, o)][o]])
  BY DEF Collected, By
<1>3. Collected(fees, W) = SumFees(f)
  <2>. HIDE DEF fees
  <2>. QED  BY <1>1, <1>2 DEF FeesOf
<1>4. IsFiniteSet(E)
  BY OutcomesAssumption, FS_Subset DEF Collecting
<1>5. ASSUME NEW o \in E
      PROVE  /\ By(W, o) \in Bids /\ o \in OrdersOf(By(W, o)) /\ By(W, o) \in ExecutorOf(W, o)
             /\ f[o].total \in Int /\ f[o].partner \in Int
  <2>1. By(W, o) \in ExecutorOf(W, o)
    BY DEF By, Collecting
  <2>2. By(W, o) \in Bids /\ o \in OrdersOf(By(W, o))
    BY <2>1 DEF ExecutorOf
  <2>3. Valued(O)[By(W, o)][o].total \in Int /\ Valued(O)[By(W, o)][o].partner \in Int
    BY <2>2, FeeIsInt
  <2>4. f[o] = Valued(O)[By(W, o)][o]
    <3>. HIDE DEF fees
    <3>. QED  BY DEF FeesOf, fees
  <2>. QED  BY <2>1, <2>2, <2>3, <2>4
<1>6. DOMAIN f = E
  BY DEF FeesOf
<1>. HIDE DEF f
<1>7. /\ SumFees(f).total = SumFunctionOnSet([o \in E |-> f[o].total], E)
      /\ SumFees(f).partner = SumFunctionOnSet([o \in E |-> f[o].partner], E)
  BY <1>6 DEF SumFees, SumFunction
<1>. HIDE DEF E
<1>8. /\ SumFunctionOnSet([o \in E |-> f[o].total], E) \in Int
      /\ SumFunctionOnSet([o \in E |-> f[o].partner], E) \in Int
  <2>1. /\ \A o \in E : [x \in E |-> f[x].total][o] \in Int
        /\ \A o \in E : [x \in E |-> f[x].partner][o] \in Int
    BY <1>5
  <2>. QED  BY <1>4, <2>1, SumInt
<1>. QED  BY <1>3, <1>4, <1>5, <1>7, <1>8 DEF E, f

\* The recharges are what the replaced quotes add to what the winners W are charged.
LEMMA RechargesAdd ==
  ASSUME ValuedInv, pc # "value", NEW W \in SUBSET Bids,
         substituted \in SUBSET DOMAIN replacement,
         valued = Valued({}), charged = Valued(substituted), recharges = Changes(W),
         \A o \in Collecting(W) : \A u \in ExecutorOf(W, o) : valued[u][o] # Unknown,
         \A o \in substituted \cap KnownInBaseline :
           \A u \in Bids : o \in OrdersOf(u) => charged[u][o] # Unknown
  PROVE  /\ Collected(charged, W) = PlusFees(Collected(valued, W), SumFees(recharges))
         /\ SumFees(recharges).total \in Int /\ SumFees(recharges).partner \in Int
<1>. DEFINE E == Collecting(W)
            R == Recharged(W)
            f == FeesOf(valued, W)
            h == FeesOf(charged, W)
<1>0. {} \in SUBSET DOMAIN replacement
  OBVIOUS
<1>1. ASSUME NEW o \in E, NEW u \in ExecutorOf(W, o)
      PROVE  /\ u \in Bids /\ o \in OrdersOf(u) /\ valued[u][o] # Unknown
             /\ o \notin R => charged[u][o] = valued[u][o]
             /\ charged[u][o] # Unknown
  <2>1. u \in Bids /\ o \in OrdersOf(u) /\ valued[u][o] # Unknown
    BY <1>1 DEF ExecutorOf
  <2>2. ASSUME o \notin R PROVE charged[u][o] = valued[u][o]
    <3>1. CASE o \in substituted
      <4>1. ~ \E i \in DOMAIN Auction.context[o].policies :
                Auction.context[o].policies[i].kind = "priceimprovement"
        BY <1>1, <2>2, <3>1 DEF Recharged
      <4>2. Valued({})[u][o] # Unknown
        BY <2>1
      <4>3. Valued(substituted)[u][o] = Valued({})[u][o]
        BY <2>1, <4>1, <4>2, SameCharge
      <4>. QED  BY <4>3
    <3>2. CASE o \notin substituted
      BY <2>1, <3>2, ChargedByItself
    <3>. QED  BY <3>1, <3>2
  <2>3. charged[u][o] # Unknown
    <3>1. CASE o \in R
      <4>1. o \in substituted
        BY <3>1 DEF Recharged
      <4>2. o \in Order
        BY DEF Collecting
      <4>3. o \in KnownInBaseline
        BY <2>1, <4>2 DEF KnownInBaseline
      <4>. QED  BY <2>1, <4>1, <4>3
    <3>2. CASE o \notin R
      BY <2>1, <2>2, <3>2
    <3>. QED  BY <3>1, <3>2
  <2>. QED  BY <2>1, <2>2, <2>3
<1>2. R \subseteq E
  <2>. SUFFICES ASSUME NEW o \in R PROVE o \in Order /\ ExecutorOf(W, o) # {}
    BY DEF Collecting
  <2>1. ExecutorOf(W, o) # {}
    BY DEF Recharged
  <2>2. PICK u \in ExecutorOf(W, o) : u \in Bids /\ o \in OrdersOf(u)
    BY <2>1 DEF ExecutorOf
  <2>3. o \in Order
    <3>1. IsQuoted(Auction)
      BY QuoteFeesAssumption DEF ValuedInv, Auction
    <3>. QED  BY <2>2, <3>1, OutcomesAssumption DEF IsQuoted, Bids, OrdersOf, Trade
  <2>. QED  BY <2>1, <2>3
<1>3. recharges = [o \in R |-> RechargeOf(By(W, o), o)]
  <2>1. {x \in Recharged(W) :
           \A u \in ExecutorOf(W, x) : Unknown \notin {valued[u][x], charged[u][x]}} = R
    BY <1>1, <1>2
  <2>2. recharges = [o \in {x \in Recharged(W) :
                             \A u \in ExecutorOf(W, x) :
                               Unknown \notin {valued[u][x], charged[u][x]}} |->
                       RechargeOf(By(W, o), o)]
    BY DEF Changes, By
  <2>. HIDE DEF R
  <2>. QED  BY <2>1, <2>2
<1>4. \A o \in E : By(W, o) \in ExecutorOf(W, o)
  BY DEF By, Collecting
<1>5. /\ Collected(valued, W) = SumFees(f) /\ Collected(charged, W) = SumFees(h)
      /\ IsFiniteSet(E)
      /\ \A o \in E : /\ f[o].total \in Int /\ f[o].partner \in Int
                      /\ h[o].total \in Int /\ h[o].partner \in Int
  <2>1. \A o \in E : Valued({})[By(W, o)][o] # Unknown /\ Valued(substituted)[By(W, o)][o] # Unknown
    BY <1>1, <1>4
  <2>2. /\ Collected(Valued({}), W) = SumFees(FeesOf(Valued({}), W)) /\ IsFiniteSet(E)
        /\ \A o \in E : /\ FeesOf(Valued({}), W)[o].total \in Int
                        /\ FeesOf(Valued({}), W)[o].partner \in Int
    BY <1>0, <2>1, CollectedIs
  <2>3. /\ Collected(Valued(substituted), W) = SumFees(FeesOf(Valued(substituted), W))
        /\ \A o \in E : /\ FeesOf(Valued(substituted), W)[o].total \in Int
                        /\ FeesOf(Valued(substituted), W)[o].partner \in Int
    BY <2>1, CollectedIs
  <2>. QED  BY <2>2, <2>3
<1>6. /\ \A o \in R : /\ recharges[o].total = h[o].total - f[o].total
                      /\ recharges[o].partner = h[o].partner - f[o].partner
      /\ \A o \in E \ R : h[o] = f[o]
  <2>1. \A o \in E : f[o] = valued[By(W, o)][o] /\ h[o] = charged[By(W, o)][o]
    BY DEF FeesOf
  <2>2. \A o \in R : recharges[o] = RechargeOf(By(W, o), o)
    BY <1>3
  <2>3. \A u, o : /\ RechargeOf(u, o).total = charged[u][o].total - valued[u][o].total
                  /\ RechargeOf(u, o).partner = charged[u][o].partner - valued[u][o].partner
    BY DEF RechargeOf
  <2>4. \A o \in E \ R : charged[By(W, o)][o] = valued[By(W, o)][o]
    <3>. HIDE DEF E, R
    <3>. QED  BY <1>1, <1>4
  <2>. HIDE DEF E, R, f, h
  <2>5. \A o \in E \ R : h[o] = f[o]
    BY <2>1, <2>4
  <2>6. \A o \in R : /\ recharges[o].total = h[o].total - f[o].total
                     /\ recharges[o].partner = h[o].partner - f[o].partner
    BY <1>2, <2>1, <2>2, <2>3
  <2>. QED  BY <2>5, <2>6
<1>7. DOMAIN f = E /\ DOMAIN h = E /\ DOMAIN recharges = R
  BY <1>3 DEF FeesOf
<1>. HIDE DEF E, R, f, h
<1>. DEFINE Part(x, k) == [o \in DOMAIN x |-> x[o][k]]
            Raised(k) == /\ SumFunctionOnSet(Part(h, k), E)
                              = SumFunctionOnSet(Part(f, k), E) + SumFunctionOnSet(Part(recharges, k), R)
                         /\ SumFunctionOnSet(Part(recharges, k), R) \in Int
<1>8. ASSUME NEW k,
             \A o \in E : f[o][k] \in Int /\ h[o][k] \in Int,
             \A o \in R : recharges[o][k] = h[o][k] - f[o][k]
      PROVE  Raised(k)
  <2>. DEFINE F == Part(f, k)
              H == Part(h, k)
              D == Part(recharges, k)
  <2>1. /\ \A o \in E : F[o] \in Int /\ H[o] \in Int
        /\ \A o \in R : D[o] \in Int /\ H[o] = F[o] + D[o]
        /\ \A o \in E \ R : H[o] = F[o]
    BY <1>2, <1>6, <1>7, <1>8
  <2>2. IsFiniteSet(R)
    BY <1>2, <1>5, FS_Subset
  <2>. HIDE DEF F, H, D
  <2>3. SumFunctionOnSet(H, E) = SumFunctionOnSet(F, E) + SumFunctionOnSet(D, R)
    BY <1>2, <1>5, <2>1, SumRaised
  <2>4. SumFunctionOnSet(D, R) \in Int
    BY <2>1, <2>2, SumInt
  <2>. QED  BY <2>3, <2>4 DEF F, H, D
<1>9. Raised("total") /\ Raised("partner")
  <2>1. Raised("total")
    <3>. HIDE DEF Raised
    <3>. QED  BY <1>5, <1>6, <1>8
  <2>2. Raised("partner")
    <3>. HIDE DEF Raised
    <3>. QED  BY <1>5, <1>6, <1>8
  <2>. QED  BY <2>1, <2>2
<1>10. \A x : SumFees(x) = [total |-> SumFunctionOnSet(Part(x, "total"), DOMAIN x),
                            partner |-> SumFunctionOnSet(Part(x, "partner"), DOMAIN x)]
  BY DEF SumFees, SumFunction
<1>11. /\ SumFees(h) = PlusFees(SumFees(f), SumFees(recharges))
       /\ SumFees(recharges).total \in Int /\ SumFees(recharges).partner \in Int
  <2>1. Raised("total") /\ Raised("partner")
    BY <1>9
  <2>2. /\ SumFees(h) = [total |-> SumFunctionOnSet(Part(h, "total"), E),
                         partner |-> SumFunctionOnSet(Part(h, "partner"), E)]
        /\ SumFees(f) = [total |-> SumFunctionOnSet(Part(f, "total"), E),
                         partner |-> SumFunctionOnSet(Part(f, "partner"), E)]
        /\ SumFees(recharges) = [total |-> SumFunctionOnSet(Part(recharges, "total"), R),
                                 partner |-> SumFunctionOnSet(Part(recharges, "partner"), R)]
    BY <1>7, <1>10
  <2>. HIDE DEF Part
  <2>. QED  BY <2>1, <2>2 DEF PlusFees
<1>. QED  BY <1>5, <1>11
\* Recharges are whole amounts, whether or not the auction's fees are all known.
LEMMA RechargesInt ==
  ASSUME ValuedInv, pc # "value", NEW W \in SUBSET Bids,
         substituted \in SUBSET DOMAIN replacement,
         valued = Valued({}), charged = Valued(substituted), recharges = Changes(W)
  PROVE  SumFees(recharges).total \in Int /\ SumFees(recharges).partner \in Int
<1>. DEFINE R == DOMAIN recharges
<1>1. R \subseteq Recharged(W)
      /\ \A o \in R : /\ recharges[o] = RechargeOf(By(W, o), o)
                      /\ \A u \in ExecutorOf(W, o) : valued[u][o] # Unknown /\ charged[u][o] # Unknown
  BY DEF Changes, By
<1>2. {} \in SUBSET DOMAIN replacement
  OBVIOUS
<1>3. ASSUME NEW o \in R
      PROVE  /\ o \in Order
             /\ recharges[o].total \in Int /\ recharges[o].partner \in Int
  <2>. DEFINE u == By(W, o)
  <2>1. u \in ExecutorOf(W, o)
    BY <1>1 DEF By, Recharged
  <2>2. u \in Bids /\ o \in OrdersOf(u)
    BY <2>1 DEF ExecutorOf
  <2>3. recharges[o] = RechargeOf(u, o) /\ valued[u][o] # Unknown /\ charged[u][o] # Unknown
    BY <1>1, <2>1
  <2>. HIDE DEF u
  <2>4. valued[u][o].total \in Int /\ valued[u][o].partner \in Int
    <3>1. Valued({})[u][o] # Unknown
      BY <2>3
    <3>2. Valued({})[u][o].total \in Int /\ Valued({})[u][o].partner \in Int
      BY <1>2, <2>2, <3>1, FeeIsInt
    <3>. QED  BY <3>2
  <2>5. charged[u][o].total \in Int /\ charged[u][o].partner \in Int
    <3>1. Valued(substituted)[u][o] # Unknown
      BY <2>3
    <3>2. Valued(substituted)[u][o].total \in Int /\ Valued(substituted)[u][o].partner \in Int
      BY <2>2, <3>1, FeeIsInt
    <3>. QED  BY <3>2
  <2>6. o \in Order
    <3>1. IsQuoted(Auction)
      BY QuoteFeesAssumption DEF ValuedInv, Auction
    <3>. QED  BY <2>2, <3>1, OutcomesAssumption DEF IsQuoted, Bids, OrdersOf, Trade
  <2>. QED  BY <2>3, <2>4, <2>5, <2>6 DEF RechargeOf
<1>4. IsFiniteSet(R)
  <2>1. R \subseteq Order
    BY <1>3
  <2>. QED  BY <2>1, OutcomesAssumption, FS_Subset
<1>. DEFINE T == [o \in R |-> recharges[o].total]
            P == [o \in R |-> recharges[o].partner]
<1>5. \A o \in R : T[o] \in Int /\ P[o] \in Int
  BY <1>3
<1>6. SumFees(recharges) = [total |-> SumFunctionOnSet(T, R), partner |-> SumFunctionOnSet(P, R)]
  BY DEF SumFees, SumFunction
<1>. HIDE DEF R, T, P
<1>. QED  BY <1>4, <1>5, <1>6, SumInt

\* The sums are whole amounts; the replacements and the winners are decided once, and no
\* known fee of a replaced order has become unknown.
NativeFees == [total : Int, partner : Int]

ApartInv ==
  /\ sums.counted \in Nat /\ sums.recharge \in NativeFees
  /\ sums.fees \in [base : NativeFees, loo : NativeFees]
  /\ pc \in {"recharge", "check", "add"} =>
       \A o \in substituted \cap KnownInBaseline :
         \A u \in Bids : o \in OrdersOf(u) => charged[u][o] # Unknown
  /\ pc \in {"check", "add"} => winners.base \in SUBSET Bids

LEMMA ApartInit == Init => ApartInv
BY DEF Init, ApartInv, NoFees, NativeFees

LEMMA PlusIs ==
  ASSUME NEW x \in NativeFees, NEW y, y.total \in Int, y.partner \in Int
  PROVE  PlusFees(x, y) \in NativeFees
BY DEF PlusFees, NativeFees

\* What Add does to the sums.
LEMMA AddIs ==
  ASSUME ValuedInv, RechargeInv, ApartInv, Add
  PROVE  /\ sums'.counted = sums.counted + One(Present /\ FeesComplete)
         /\ sums'.fees = IF Present /\ FeesComplete THEN AddFees(sums.fees) ELSE sums.fees
         /\ sums'.recharge = sums.recharge \/ sums'.recharge = PlusFees(sums.recharge, SumFees(recharges))
         /\ Present /\ FeesComplete => sums'.recharge = PlusFees(sums.recharge, SumFees(recharges))
         /\ SumFees(recharges).total \in Int /\ SumFees(recharges).partner \in Int
         /\ Present /\ FeesComplete =>
              /\ Collected(charged, winners.loo)
                   = PlusFees(Collected(valued, winners.loo), SumFees(recharges))
              /\ \A W \in {winners.base, winners.loo} :
                   Collected(valued, W).total \in Int /\ Collected(valued, W).partner \in Int
<1>1. /\ pc = "add" /\ pc # "value" /\ valued = Valued({}) /\ charged = Valued(substituted)
      /\ substituted \in SUBSET DOMAIN replacement /\ {} \in SUBSET DOMAIN replacement
      /\ winners.loo \in SUBSET Bids /\ winners.base \in SUBSET Bids
      /\ recharges = Changes(winners.loo)
  BY DEF Add, ValuedInv, RechargeInv, ApartInv
<1>2. /\ sums'.counted = sums.counted + One(Present /\ FeesComplete)
      /\ sums'.fees = IF Present /\ FeesComplete THEN AddFees(sums.fees) ELSE sums.fees
      /\ sums'.recharge = IF Seen /\ (Present \/ RechargedNow # {}) /\ FeesComplete
                          THEN PlusFees(sums.recharge, SumFees(recharges)) ELSE sums.recharge
  BY DEF Add
<1>3. SumFees(recharges).total \in Int /\ SumFees(recharges).partner \in Int
  BY <1>1, RechargesInt
<1>4. ASSUME Present, FeesComplete
      PROVE  /\ Collected(charged, winners.loo)
                  = PlusFees(Collected(valued, winners.loo), SumFees(recharges))
             /\ \A W \in {winners.base, winners.loo} :
                  Collected(valued, W).total \in Int /\ Collected(valued, W).partner \in Int
  <2>1. \A W \in {winners.base, winners.loo} :
          \A o \in Collecting(W) : \A u \in ExecutorOf(W, o) : valued[u][o] # Unknown
    BY <1>4 DEF FeesComplete, Collecting
  <2>2. \A o \in substituted \cap KnownInBaseline :
          \A u \in Bids : o \in OrdersOf(u) => charged[u][o] # Unknown
    BY <1>1 DEF ApartInv
  <2>3. Collected(charged, winners.loo)
          = PlusFees(Collected(valued, winners.loo), SumFees(recharges))
    <3>. DEFINE W == winners.loo
    <3>1. /\ W \in SUBSET Bids /\ recharges = Changes(W)
          /\ \A o \in Collecting(W) : \A u \in ExecutorOf(W, o) : valued[u][o] # Unknown
      BY <1>1, <2>1
    <3>. HIDE DEF W
    <3>2. Collected(charged, W) = PlusFees(Collected(valued, W), SumFees(recharges))
      BY <1>1, <2>2, <3>1, RechargesAdd
    <3>. QED  BY <3>2 DEF W
  <2>4. ASSUME NEW W \in {winners.base, winners.loo}
        PROVE  Collected(valued, W).total \in Int /\ Collected(valued, W).partner \in Int
    <3>1. W \in SUBSET Bids
      BY <1>1
    <3>2. \A o \in Collecting(W) : Valued({})[By(W, o)][o] # Unknown
      BY <1>1, <2>1 DEF By, Collecting
    <3>3. Collected(Valued({}), W).total \in Int /\ Collected(Valued({}), W).partner \in Int
      BY <1>1, <3>1, <3>2, CollectedIs
    <3>. QED  BY <1>1, <3>3
  <2>. QED  BY <2>3, <2>4
<1>5. Present /\ FeesComplete => sums'.recharge = PlusFees(sums.recharge, SumFees(recharges))
  BY <1>2 DEF Seen
<1>. QED  BY <1>2, <1>3, <1>4, <1>5

LEMMA ApartStep ==
  ASSUME ValuedInv, OverlayInv, RechargeInv, ApartInv, [Next]_vars
  PROVE  ApartInv'
<1>. DEFINE Kept == \A o \in substituted \cap KnownInBaseline :
                      \A u \in Bids : o \in OrdersOf(u) => charged[u][o] # Unknown
<1>1. ASSUME UNCHANGED <<window, replacement, at, valued, charged, substituted>>, Kept
      PROVE  Kept'
  <2>1. Bids' = Bids /\ \A u : OrdersOf(u)' = OrdersOf(u)
    BY <1>1, SameAuction
  <2>2. KnownInBaseline' = KnownInBaseline
    BY <1>1, <2>1 DEF KnownInBaseline
  <2>. QED  BY <1>1, <2>1, <2>2
<1>2. CASE Value
  BY <1>2 DEF Value, ApartInv
<1>3. CASE Substitute
  <2>1. pc' = "recharge" /\ sums' = sums
    BY <1>3 DEF Substitute
  <2>2. OverlayInv'
    BY OverlayStep
  <2>3. Kept'
    BY <2>1, <2>2 DEF OverlayInv
  <2>. QED  BY <2>1, <2>3 DEF ApartInv
<1>4. CASE DropBroken
  BY <1>4 DEF DropBroken, ApartInv
<1>5. CASE GiveUp
  <2>1. pc' = "recharge" /\ sums' = sums
    BY <1>5 DEF GiveUp
  <2>2. OverlayInv'
    BY OverlayStep
  <2>3. Kept'
    BY <2>1, <2>2 DEF OverlayInv
  <2>. QED  BY <2>1, <2>3 DEF ApartInv
<1>6. CASE Recharge
  <2>1. /\ pc = "recharge" /\ pc' = "check" /\ sums' = sums
        /\ UNCHANGED <<window, replacement, at, valued, charged, substituted>>
    BY <1>6 DEF Recharge, tried
  <2>2. winners'.base \in SUBSET FairBids(Auction.bids)
    BY <1>6 DEF Recharge
  <2>3. FairBids(Auction.bids) \subseteq Bids /\ Bids' = Bids
    BY <2>1, SameAuction DEF FairBids, Bids
  <2>4. Kept'
    BY <1>1, <2>1 DEF ApartInv
  <2>. QED  BY <2>1, <2>2, <2>3, <2>4 DEF ApartInv
<1>7. CASE Check
  <2>1. /\ pc = "check" /\ pc' = "add" /\ UNCHANGED <<sums, winners>>
        /\ UNCHANGED <<window, replacement, at, valued, charged, substituted>>
    BY <1>7 DEF Check, tried
  <2>2. Kept' /\ Bids' = Bids
    BY <1>1, <2>1, SameAuction DEF ApartInv
  <2>. QED  BY <2>1, <2>2 DEF ApartInv
<1>8. CASE Add
  <2>1. pc' = "value"
    BY <1>8 DEF Add
  <2>2. sums'.counted \in Nat
    BY <1>8, AddIs DEF ApartInv, One
  <2>3. sums'.recharge \in NativeFees
    <3>1. PlusFees(sums.recharge, SumFees(recharges)) \in NativeFees
      BY <1>8, AddIs, PlusIs DEF ApartInv
    <3>. QED  BY <1>8, <3>1, AddIs DEF ApartInv
  <2>4. sums'.fees \in [base : NativeFees, loo : NativeFees]
    <3>1. CASE Present /\ FeesComplete
      <4>1. sums.fees.base \in NativeFees /\ sums.fees.loo \in NativeFees
        BY DEF ApartInv
      <4>2. PlusFees(sums.fees.base, Collected(valued, winners.base)) \in NativeFees
            /\ PlusFees(sums.fees.loo, Collected(valued, winners.loo)) \in NativeFees
        BY <1>8, <3>1, <4>1, AddIs, PlusIs
      <4>3. sums'.fees = AddFees(sums.fees)
        BY <1>8, <3>1, AddIs
      <4>. QED  BY <4>2, <4>3 DEF AddFees
    <3>2. CASE ~(Present /\ FeesComplete)
      BY <1>8, <3>2, AddIs DEF ApartInv
    <3>. QED  BY <3>1, <3>2
  <2>. QED  BY <2>1, <2>2, <2>3, <2>4 DEF ApartInv
<1>9. CASE UNCHANGED vars
  <2>1. /\ UNCHANGED <<sums, winners, pc>>
        /\ UNCHANGED <<window, replacement, at, valued, charged, substituted>>
    BY <1>9 DEF vars
  <2>2. Bids' = Bids
    BY <2>1, SameAuction
  <2>. QED  BY <1>1, <2>1, <2>2 DEF ApartInv
<1>. QED  BY <1>2, <1>3, <1>4, <1>5, <1>6, <1>7, <1>8, <1>9 DEF Next, Returned

\* The fee deltas carry nothing about the quote, and the recharges are all that is missing
\* from the counterfactual fees to those of the replaced quotes (Analysis.add).
THEOREM QuoteEffectKeptApart == Spec => QuoteEffectApart
<1>. DEFINE Apart ==
       at' # at =>
         LET before == sums.fees
             after == sums'.fees
         IN  /\ ~Present => after = before
             /\ (\A o \in Order : ExecutorOf(winners.base, o) = ExecutorOf(winners.loo, o)) =>
                  \A f \in {"total", "partner"} :
                    after.loo[f] - after.base[f] = before.loo[f] - before.base[f]
             /\ sums'.counted # sums.counted =>
                  PlusFees(before.loo, PlusFees(sums.recharge, Collected(charged, winners.loo)))
                    = PlusFees(after.loo, sums'.recharge)
<1>1. ASSUME ValuedInv, RechargeInv, ApartInv, [Next]_vars
      PROVE  [Apart]_vars
  <2>. SUFFICES ASSUME at' # at PROVE Apart
    OBVIOUS
  <2>1. Add
    BY <1>1 DEF Next, vars, Value, Substitute, DropBroken, GiveUp, Recharge, Check, Returned
  <2>2. sums.fees.base \in NativeFees /\ sums.fees.loo \in NativeFees
        /\ sums.recharge \in NativeFees /\ sums.counted \in Nat
    BY <1>1 DEF ApartInv
  <2>3. ASSUME ~Present PROVE sums'.fees = sums.fees
    BY <1>1, <2>1, <2>3, AddIs
  <2>4. ASSUME \A o \in Order : ExecutorOf(winners.base, o) = ExecutorOf(winners.loo, o)
        PROVE  \A f \in {"total", "partner"} :
                 sums'.fees.loo[f] - sums'.fees.base[f] = sums.fees.loo[f] - sums.fees.base[f]
    <3>1. CASE Present /\ FeesComplete
      <4>. DEFINE x == Collected(valued, winners.base)
                  y == Collected(valued, winners.loo)
      <4>1. x = y
        <5>. DEFINE D(W) == {o \in Order : ExecutorOf(W, o) # {} /\ valued[By(W, o)][o] # Unknown}
                    g(W) == [o \in D(W) |-> valued[By(W, o)][o]]
        <5>1. \A o \in Order : By(winners.base, o) = By(winners.loo, o)
          BY <2>4 DEF By
        <5>2. D(winners.base) = D(winners.loo)
          BY <2>4, <5>1
        <5>3. \A o \in D(winners.base) : o \in Order
          OBVIOUS
        <5>4. x = SumFees(g(winners.base)) /\ y = SumFees(g(winners.loo))
          BY DEF Collected, By
        <5>. HIDE DEF D
        <5>5. g(winners.base) = g(winners.loo)
          BY <5>1, <5>2, <5>3
        <5>. QED  BY <5>4, <5>5
      <4>2. x.total \in Int /\ x.partner \in Int
        BY <1>1, <2>1, <3>1, AddIs
      <4>3. sums'.fees = [base |-> PlusFees(sums.fees.base, x), loo |-> PlusFees(sums.fees.loo, y)]
        BY <1>1, <2>1, <3>1, AddIs DEF AddFees
      <4>. HIDE DEF x, y
      <4>. QED  BY <2>2, <4>1, <4>2, <4>3 DEF PlusFees, NativeFees
    <3>2. CASE ~(Present /\ FeesComplete)
      BY <1>1, <2>1, <3>2, AddIs
    <3>. QED  BY <3>1, <3>2
  <2>5. ASSUME sums'.counted # sums.counted
        PROVE  PlusFees(sums.fees.loo, PlusFees(sums.recharge, Collected(charged, winners.loo)))
                 = PlusFees(sums'.fees.loo, sums'.recharge)
    <3>1. Present /\ FeesComplete
      BY <1>1, <2>1, <2>2, <2>5, AddIs DEF One
    <3>. DEFINE y == Collected(valued, winners.loo)
                r == SumFees(recharges)
    <3>2. /\ sums'.fees.loo = PlusFees(sums.fees.loo, y)
          /\ sums'.recharge = PlusFees(sums.recharge, r)
          /\ Collected(charged, winners.loo) = PlusFees(y, r)
          /\ y.total \in Int /\ y.partner \in Int /\ r.total \in Int /\ r.partner \in Int
      BY <1>1, <2>1, <3>1, AddIs DEF AddFees
    <3>. HIDE DEF y, r
    <3>. QED  BY <2>2, <3>2 DEF PlusFees, NativeFees
  <2>. HIDE DEF Collected
  <2>. QED  BY <2>3, <2>4, <2>5
<1>2. Init => ValuedInv /\ OverlayInv /\ RechargeInv /\ ApartInv
  BY ValuedInit, OverlayInit, RechargeInit, ApartInit
<1>3. ASSUME ValuedInv, OverlayInv, RechargeInv, ApartInv, [Next]_vars
      PROVE  ValuedInv' /\ OverlayInv' /\ RechargeInv' /\ ApartInv'
  BY <1>3, ValuedStep, OverlayStep, RechargeStep, ApartStep
<1>4. [][Apart]_vars <=> QuoteEffectApart
  BY DEF QuoteEffectApart
<1>. HIDE DEF Apart
<1>. QED  BY <1>1, <1>2, <1>3, <1>4, PTL DEF Spec
=============================================================================
