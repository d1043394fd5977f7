------------------------------ MODULE MCQuoteFees ------------------------------
(***************************************************************************)
(* Auctions for module QuoteFees: a sell order o1 and a buy order o2, which   *)
(* solver s1 executes best, s2 less well and s3 the sell order only in part.  *)
(* A factor has two decimals, so that its rounding shows in amounts near 100. *)
(***************************************************************************)
EXTENDS QuoteFees, TLC

CONSTANTS s1, s2, s3, o1, o2, p1, p2

MCPairOf == o1 :> p1 @@ o2 :> p2

\* A price of 37 makes the division by Scale drop something.
Selling(soldFor, boughtFor) ==
  [sell |-> TRUE, limitSell |-> 20, limitBuy |-> 100, soldFor |-> soldFor,
   boughtFor |-> boughtFor, price |-> 37, surplusPrice |-> 37]
Buying(soldFor, boughtFor) ==
  [sell |-> FALSE, limitSell |-> 90, limitBuy |-> 40, soldFor |-> soldFor,
   boughtFor |-> boughtFor, price |-> 250, surplusPrice |-> 150]

Half == <<1, 2>>
Policy(kind, factor, cap) == [kind |-> kind, factor |-> factor, cap |-> cap]
Improvement == Policy("priceimprovement", Half, <<1, 10>>)
Surplus == Policy("surplus", <<1, 3>>, <<1, 8>>)
Volume == Policy("volume", <<1, 67>>, <<>>)

PolicyLists ==
  {<<>>, <<Improvement>>, <<Surplus, Volume>>, <<Improvement, Volume>>,
   <<Surplus, Improvement, Volume>>, <<Improvement, Surplus>>,
   <<Policy("priceimprovement", <<1, 1>>, <<1, 10>>)>>}

Context(policies, partners, known) ==
  [policies |-> policies, partners |-> partners, known |-> known]
SellContexts ==
  {Context(policies, partners, TRUE) : policies \in PolicyLists, partners \in 0..2}
  \cup {Context(<<>>, 0, FALSE)}
BuyContexts ==
  {Context(<<Improvement, Volume>>, 1, TRUE), Context(<<Surplus, Improvement>>, 0, TRUE)}

Quote(sell, buy, fee) == [sell |-> sell, buy |-> buy, fee |-> fee]

\* What a bid is worth, as it was recorded.
Bid(solver, total, pairs) ==
  [solver |-> solver, total |-> total, surplus |-> [p \in pairs |-> total \div Cardinality(pairs)],
   score |-> [p \in pairs |-> total \div Cardinality(pairs)],
   truth |-> [p \in pairs |-> total \div Cardinality(pairs)], claims |-> pairs]

MCAuction(sellContext, buyContext, quote, outcome) ==
  [bids |-> 1 :> Bid(s1, 10, {p1}) @@ 2 :> Bid(s2, 12, {p1, p2}) @@ 3 :> Bid(s3, 5, {p1}),
   trades |-> 1 :> (o1 :> Selling(20, 121))
              @@ 2 :> (o1 :> Selling(20, 113) @@ o2 :> Buying(79, 40))
              @@ 3 :> (o1 :> Selling(10, 57)),
   context |-> o1 :> sellContext @@ o2 :> buyContext,
   quote |-> o1 :> quote @@ o2 :> Quote(80, 40, 2),
   won |-> {2}, settled |-> 2 :> outcome]

Auctions1 ==
  {MCAuction(sellContext, buyContext, quote, outcome) :
     sellContext \in SellContexts, buyContext \in BuyContexts,
     quote \in {<<>>, Quote(20, 116, 2)}, outcome \in {"in_time", "reverted"}}

\* Solver s1 wins it, so that its removal moves the execution of o1.
Contested(a) == [a EXCEPT !.bids[1].total = 13, !.bids[2].total = 11, !.won = {1},
                          !.settled = 1 :> "in_time"]

MCAuctions ==
  {<<a>> : a \in Auctions1}
  \cup {<<Contested(a), a>> : a \in {x \in Auctions1 : x.settled[2] = "in_time" /\ x.quote[o1] # <<>>
                                      /\ x.context[o1].partners = 1}}

\* Worse although it promises more, for its fee; better; and without a rate.
SellQuotes == {Quote(20, 119, 3), Quote(20, 118, 1), Quote(0, 50, 0), Quote(20, 110, 30)}
\* A buy order that costs more, or less, has no rate, or costs nothing.
BuyQuotes == {Quote(84, 40, 3), Quote(70, 40, 1), Quote(80, 0, 0), Quote(0, 40, 0)}

MCReplacements ==
  {o1 :> x : x \in SellQuotes} \cup {o2 :> x : x \in BuyQuotes}
  \cup {o1 :> x @@ o2 :> y : x \in SellQuotes, y \in BuyQuotes} \cup {<<>>}

MCRemovals == {{s1}, {s2}, {}}
=============================================================================
