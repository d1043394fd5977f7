------------------------------- MODULE QuoteFees -------------------------------
(***************************************************************************)
(* How a replaced quote reaches the fees of the counterfactual: every bid of *)
(* an auction is valued with the recorded quotes, and once or twice more     *)
(* with the replacements (_quote_overlay); the orders that execute without   *)
(* the removed solvers are charged again, two checks license holding their   *)
(* executions fixed (_limit_checks, _shift_moves_winners), and the window    *)
(* adds it all up (_add_quote_checks, _add_quote_only).                      *)
(***************************************************************************)
EXTENDS Outcomes, Fees

CONSTANTS
  Auctions,       \* windows: sequences of auctions
  Replacements,   \* counterfactual_quotes: functions from orders to quotes
  Removals        \* sets of removed solvers

(***************************************************************************)
(* An auction as the quote pass sees it.  `trades' gives per bid the          *)
(* execution of each of its orders, `context' what is recorded of an order's  *)
(* policies, `quote' the recorded one or <<>>.  Of the bids, those that could *)
(* be valued: to_native refuses a buy order that sells nothing.               *)
(***************************************************************************)
IsQuoted(a) ==
  /\ IsAuction(a.bids) /\ a.won \subseteq DOMAIN a.bids
  /\ DOMAIN a.settled \subseteq a.won
  /\ DOMAIN a.trades = DOMAIN a.bids
  /\ \A u \in DOMAIN a.bids : \A o \in DOMAIN a.trades[u] :
       /\ o \in UserOrders /\ IsTrade(a.trades[u][o]) /\ a.trades[u][o].price \in Nat
       /\ OrderSurplus(a.trades[u][o]) >= 0
       /\ a.trades[u][o].sell \/ a.trades[u][o].limitSell > 0
       /\ \A v \in DOMAIN a.bids : o \in DOMAIN a.trades[v] =>
            a.trades[v][o].sell = a.trades[u][o].sell
  /\ \A o \in Order :
       /\ a.context[o].known \in BOOLEAN /\ a.context[o].partners \in Nat
       /\ Len(a.context[o].policies) \in Nat
       /\ \A i \in 1..Len(a.context[o].policies) : IsPolicy(a.context[o].policies[i])
       /\ a.quote[o] = <<>> \/ IsQuote(a.quote[o])

ASSUME QuoteFeesAssumption ==
  /\ \A w \in Auctions : Len(w) \in Nat /\ \A i \in 1..Len(w) : IsQuoted(w[i])
  /\ \A q \in Replacements : DOMAIN q \subseteq Order /\ \A o \in DOMAIN q : IsQuote(q[o])

VARIABLES
  window, replacement, removed,
  at, pc,
  valued,       \* per bid and order, the fees with the recorded quotes
  overlay,      \* the orders whose replacement is being tried
  attempt,
  charged,      \* per bid and order, the fees with the replacements
  substituted,  \* quote_carried_uids
  winners,      \* per side
  recharges,    \* per recharged order, what its fees change by, where both are known
  unclearable,  \* recharged orders that would not have cleared the other limit
  moves,        \* quote_shift_winner_set_changed
  sums          \* the fee sums and quote counters of the window

tried == <<overlay, attempt, charged, substituted>>
found == <<winners, recharges, unclearable, moves>>
vars == <<window, replacement, removed, at, pc, valued, overlay, attempt, charged, substituted,
          winners, recharges, unclearable, moves, sums>>

\* What is collected on each side, the partners' part of it apart.
NoFees == [base |-> [total |-> 0, partner |-> 0], loo |-> [total |-> 0, partner |-> 0]]

Init ==
  /\ window \in Auctions /\ replacement \in Replacements /\ removed \in Removals
  /\ at = 1 /\ pc = "value"
  /\ valued = <<>> /\ overlay = {} /\ attempt = 0 /\ charged = <<>> /\ substituted = {}
  /\ winners = [base |-> {}, loo |-> {}] /\ recharges = <<>> /\ unclearable = {} /\ moves = FALSE
  /\ sums = [checked |-> 0, orders |-> {}, auctions |-> 0, unclearable |-> {}, moves |-> 0,
             quoteOnly |-> 0, fees |-> NoFees, recharge |-> [total |-> 0, partner |-> 0],
             counted |-> 0, incomplete |-> 0]

Auction == window[at]
Bids == DOMAIN Auction.bids
OrdersOf(u) == DOMAIN Auction.trades[u]
Trade(u, o) == Auction.trades[u][o]
Present == Bidders(Auction.bids, Bids) \cap removed # {}
Quoted == DOMAIN replacement \cap UNION {OrdersOf(u) : u \in Bids}

----------------------------------------------------------------------------
(* _quote_overlay *)

\* value_solution of every bid, with the replacements for the orders O.
Valued(O) ==
  [u \in Bids |->
     [o \in OrdersOf(u) |->
        LET split == OrderFees(Trade(u, o), Auction.context[o],
                               IF o \in O THEN replacement[o] ELSE Auction.quote[o])
        IN  IF split = Unknown THEN Unknown ELSE NativeFee(Trade(u, o), split)]]

Value ==
  /\ pc = "value" /\ at <= Len(window)
  /\ valued' = Valued({})
  /\ overlay' = Quoted /\ attempt' = 0 /\ charged' = valued' /\ substituted' = {}
  /\ pc' = "overlay"
  /\ UNCHANGED <<window, replacement, removed, at, found, sums>>

KnownInBaseline == {o \in Order : \E u \in Bids : o \in OrdersOf(u) /\ valued[u][o] # Unknown}

\* Fault: one order that cannot be charged voids every other.
BrokenAll(fees) ==
  IF \E u \in Bids : \E o \in OrdersOf(u) : fees[u][o] = Unknown THEN overlay ELSE {}

\* The orders the fee path cannot charge against their replacement.
Broken(fees) ==
  {o \in overlay \cap KnownInBaseline :
     \E u \in Bids : o \in OrdersOf(u) /\ fees[u][o] = Unknown}

Substitute ==
  /\ pc = "overlay" /\ overlay # {} /\ attempt < 2
  /\ Broken(Valued(overlay)) = {}
  /\ charged' = Valued(overlay) /\ substituted' = overlay
  /\ pc' = "recharge"
  /\ UNCHANGED <<window, replacement, removed, at, valued, overlay, attempt, found, sums>>

\* They keep their recorded quote, and the others are valued once more.
DropBroken ==
  /\ pc = "overlay" /\ overlay # {} /\ attempt < 2
  /\ Broken(Valued(overlay)) # {}
  /\ overlay' = overlay \ Broken(Valued(overlay)) /\ attempt' = attempt + 1
  /\ UNCHANGED <<window, replacement, removed, at, pc, valued, charged, substituted, found, sums>>

GiveUp ==
  /\ pc = "overlay" /\ (overlay = {} \/ attempt = 2)
  /\ pc' = "recharge"
  /\ UNCHANGED <<window, replacement, removed, at, valued, tried, found, sums>>

----------------------------------------------------------------------------
(* analyse_auction, from the counterfactual winners on *)

Submitted == Without(Auction.bids, removed)

IsWinners(b, W) == IsPick(b, {}, FairBids(b), W)

\* The bid that executes an order for the winners W, if one does.
ExecutorOf(W, o) == {u \in W : o \in OrdersOf(u) /\ Executed(Auction, "inherited", u)}

Recharged(W) ==
  {o \in substituted : /\ ExecutorOf(W, o) # {}
                       /\ \E i \in DOMAIN Auction.context[o].policies :
                            Auction.context[o].policies[i].kind = "priceimprovement"}

\* What an executed order's fees change by; unknown fees have no change.
RechargeOf(u, o) ==
  [total |-> charged[u][o].total - valued[u][o].total,
   partner |-> charged[u][o].partner - valued[u][o].partner]

LimitOf(u, o) ==
  IF Auction.quote[o] = <<>> THEN NoShift
  ELSE ShiftedLimit(Trade(u, o), Auction.quote[o], replacement[o])

Recharge ==
  /\ pc = "recharge"
  /\ \E V \in SUBSET FairBids(Auction.bids), W \in SUBSET FairBids(Submitted) :
       /\ IsWinners(Auction.bids, V) /\ IsWinners(Submitted, W)
       /\ winners' = [base |-> V, loo |-> W]
       /\ recharges' =
            [o \in {x \in Recharged(W) :
                      \A u \in ExecutorOf(W, x) : Unknown \notin {valued[u][x], charged[u][x]}} |->
               RechargeOf(CHOOSE u \in ExecutorOf(W, o) : TRUE, o)]
       /\ unclearable' =
            {o \in Recharged(W) : \E u \in ExecutorOf(W, o) :
               LimitOf(u, o) # NoShift /\ ~LimitOf(u, o).clears}
  /\ pc' = "check"
  /\ UNCHANGED <<window, replacement, removed, at, valued, tried, moves, sums>>

\* The native change of measured surplus; a loss is converted as the gain it mirrors.
ShiftNative(u, o) ==
  LET shift == LimitOf(u, o).shift
      price == Trade(u, o).surplusPrice
  IN  IF shift >= 0 THEN (price * shift) \div Scale ELSE -((price * (-shift)) \div Scale)

ShiftOn(u, p) ==
  LET shifted == {o \in OrdersOf(u) \cap substituted : PairOf[o] = p /\ LimitOf(u, o) # NoShift}
  IN  SumFunctionOnSet([o \in shifted |-> ShiftNative(u, o)], shifted)

Plus(values, u) == [p \in DOMAIN values |-> values[p] + ShiftOn(u, p)]

\* Every score, by what the other limits would add to it.
Shifted ==
  [u \in DOMAIN Submitted |->
     LET s == Submitted[u]
     IN  [s EXCEPT !.total = @ + SumFunctionOnSet([p \in Traded(s) |-> ShiftOn(u, p)], Traded(s)),
                   !.surplus = Plus(@, u), !.score = Plus(@, u)]]

Check ==
  /\ pc = "check"
  /\ moves' = /\ \E u \in Bids : \E o \in OrdersOf(u) \cap substituted :
                   LimitOf(u, o) # NoShift /\ LimitOf(u, o).shift # 0
              /\ ~IsWinners(Shifted, winners.loo)
  /\ pc' = "add"
  /\ UNCHANGED <<window, replacement, removed, at, valued, tried, winners, recharges,
                 unclearable, sums>>

----------------------------------------------------------------------------
(* Analysis.add *)

RechargedNow == Recharged(winners.loo)

\* An auction is in the sums if the orders they are about have known fees.
FeesComplete ==
  \A o \in IF Present THEN Order ELSE RechargedNow :
    \A u \in ExecutorOf(winners.base, o) \cup ExecutorOf(winners.loo, o) :
      valued[u][o] # Unknown

One(condition) == IF condition THEN 1 ELSE 0

Seen == Present \/ substituted # {}
PlusFees(x, y) == [total |-> x.total + y.total, partner |-> x.partner + y.partner]

\* Native fees of a function from orders.
SumFees(f) ==
  [total |-> SumFunction([o \in DOMAIN f |-> f[o].total]),
   partner |-> SumFunction([o \in DOMAIN f |-> f[o].partner])]

\* The known fees, by one valuation, of the orders that execute for the winners W.
Collected(fees, W) ==
  LET by(o) == CHOOSE u \in ExecutorOf(W, o) : TRUE
  IN  SumFees([o \in {x \in Order : ExecutorOf(W, x) # {} /\ fees[by(x)][x] # Unknown} |->
                 fees[by(o)][o]])

\* Fault: the counterfactual winners are valued with the replaced quotes.
AddFeesReplaced(sides) ==
  [base |-> PlusFees(sides.base, Collected(valued, winners.base)),
   loo |-> PlusFees(sides.loo, Collected(charged, winners.loo))]

\* Both sides are valued with the recorded quotes.
AddFees(sides) ==
  [base |-> PlusFees(sides.base, Collected(valued, winners.base)),
   loo |-> PlusFees(sides.loo, Collected(valued, winners.loo))]

\* An auction without a removed solver only adds what the quotes change.
Add ==
  /\ pc = "add"
  /\ LET counts == Seen /\ (Present \/ RechargedNow # {})
     IN  sums' = [checked |-> sums.checked + One(substituted # {}),
                  orders |-> sums.orders \cup RechargedNow,
                  auctions |-> sums.auctions + One(RechargedNow # {}),
                  unclearable |-> sums.unclearable \cup unclearable,
                  moves |-> sums.moves + One(moves),
                  quoteOnly |-> sums.quoteOnly + One(Seen /\ ~Present),
                  fees |-> IF Present /\ FeesComplete THEN AddFees(sums.fees) ELSE sums.fees,
                  recharge |-> IF counts /\ FeesComplete
                               THEN PlusFees(sums.recharge, SumFees(recharges)) ELSE sums.recharge,
                  counted |-> sums.counted + One(Present /\ FeesComplete),
                  incomplete |-> sums.incomplete + One(counts /\ ~FeesComplete)]
  /\ at' = at + 1 /\ pc' = "value"
  /\ UNCHANGED <<window, replacement, removed, valued, tried, found>>

Returned ==
  /\ pc = "value" /\ at > Len(window)
  /\ UNCHANGED vars

Next ==
  \/ Value \/ Substitute \/ DropBroken \/ GiveUp
  \/ Recharge \/ Check \/ Add \/ Returned

Spec == Init /\ [][Next]_vars

----------------------------------------------------------------------------
(* Properties *)

\* What the policies after the k-th one took from the trade.
Later(fees, k) == Total(SubSeq(fees, k + 1, Len(fees)))

\* Each policy charges the trade as if the later ones had never been: on the user's
\* surplus and volume plus their fees, rounding included; the partners, who stand last,
\* are charged first, and what the DAO and they get makes up the whole (policy_fees,
\* fee_split, value_solution).
PoliciesChargeTheRest ==
  pc # "value" => \A u \in Bids : \A o \in OrdersOf(u) : valued[u][o] # Unknown =>
    LET t == Trade(u, o)
        context == Auction.context[o]
        fees == PolicyFees(t, context.policies, Auction.quote[o])
        split == FeeSplit(fees, context.partners)
        volume(k) == IF t.sell THEN t.boughtFor + Later(fees, k) ELSE t.soldFor - Later(fees, k)
        volumeFee(k, f) ==
          MulF64(volume(k), <<f[1], IF t.sell THEN f[2] - f[1] ELSE f[2] + f[1]>>)
    IN  /\ \A k \in DOMAIN fees :
             CASE context.policies[k].kind = "volume" ->
                    fees[k] = volumeFee(k, context.policies[k].factor)
               [] context.policies[k].kind = "surplus" ->
                    LET f == context.policies[k].factor
                    IN  fees[k] = Lesser(MulF64(OrderSurplus(t) + Later(fees, k),
                                                <<f[1], f[2] - f[1]>>),
                                         volumeFee(k, context.policies[k].cap))
               [] OTHER -> fees[k] <= volumeFee(k, context.policies[k].cap)
        /\ split.partner = IF Len(fees) <= 1 THEN 0 ELSE Later(fees, Len(fees) - context.partners)
        /\ valued[u][o].partner \in 0..valued[u][o].total
        /\ ToNative(t, OrderSurplus(t)) + valued[u][o].total
             = ToNative(t, OrderSurplus(t) + split.total)

\* Only orders whose replacement cannot be charged somewhere keep their recorded quote,
\* and nothing that was known becomes unknown: one unusable replacement does not void
\* the others (_quote_overlay).
OnlyTheBrokenAreDropped ==
  pc = "recharge" =>
    /\ \A o \in Quoted \ substituted :
         \E u \in Bids : o \in OrdersOf(u) /\ Valued({o})[u][o] = Unknown
    /\ \A u \in Bids : \A o \in OrdersOf(u) :
         o \in KnownInBaseline /\ valued[u][o] # Unknown => charged[u][o] # Unknown

\* The replacement's rate is no better than the recorded one's.  A quote that costs
\* nothing is no worse one, whatever its rate: _effective_rate makes it 0.
NoBetter(u, o) ==
  LET t == Trade(u, o)
      recorded == Auction.quote[o]
      before == EffectiveRate(t, recorded)
      after == EffectiveRate(t, replacement[o])
  IN  /\ recorded # <<>>
      /\ IF t.sell THEN recorded.sell = replacement[o].sell
         ELSE recorded.buy = replacement[o].buy /\ replacement[o].sell + replacement[o].fee > 0
      /\ after[1] * before[2] <= before[1] * after[2]

\* A worse quote never lowers what an order is charged, whatever policies stand before
\* or behind the one that reads it, and its limit clears: a removal that only worsens
\* quotes brings the protocol at least as much (AdjustQuote, shifted_limit).
WorseQuoteNeverCheaper ==
  pc \in {"check", "add"} => \A o \in RechargedNow : \A u \in ExecutorOf(winners.loo, o) :
    NoBetter(u, o) =>
      /\ o \in DOMAIN recharges => recharges[o].total >= 0
      /\ o \notin unclearable

\* The fee deltas carry what the removal does through who executes, and nothing about the
\* quote: an auction whose executions do not move, or that no removed solver bid in, adds
\* nothing to them whatever was replaced; and the recharges are exactly what is missing
\* from the counterfactual fees to those of the replaced quotes, no order counted twice or
\* left out (Analysis.add, quote_fee_recharge).
QuoteEffectApart ==
  [][at' # at =>
       LET before == sums.fees
           after == sums'.fees
       IN  /\ ~Present => after = before
           /\ (\A o \in Order : ExecutorOf(winners.base, o) = ExecutorOf(winners.loo, o)) =>
                \A f \in {"total", "partner"} :
                  after.loo[f] - after.base[f] = before.loo[f] - before.base[f]
           /\ sums'.counted # sums.counted =>
                PlusFees(before.loo, PlusFees(sums.recharge, Collected(charged, winners.loo)))
                  = PlusFees(after.loo, sums'.recharge)]_vars
=============================================================================
