------------------------------- MODULE QuoteLink -------------------------------
(***************************************************************************)
(* The tables of a window on the quote side, and how loo/quotes.py reads an  *)
(* order's competition out of them: ladders (_keep_earliest, _ladders), the  *)
(* heuristic (viable_requests, match_orders), the quote id                   *)
(* (link_by_quote_id) and the backend's own re-quotes (_link_requotes).     *)
(* Constant-level definitions; module QuoteWindow walks the orders.         *)
(*                                                                         *)
(* Times are whole seconds.  A table is a set of rows, and a row may be in   *)
(* it twice, with another arrival number.                                   *)
(***************************************************************************)
EXTENDS QuoteDiff, SequencesExt

CONSTANTS
  Address,       \* settlement addresses
  Market,        \* what is traded: the two tokens and the kind
  SellMarket,    \* the markets of kind `sell'
  PreCreation, PostCreation,      \* PRE_/POST_CREATION_WINDOW_SECONDS
  RequoteBefore, RequoteAfter,    \* REQUOTE_AFTER_CREATION_SECONDS
  SiblingSeconds, IdSpan,         \* REQUOTE_SIBLING_SECONDS, REQUOTE_ID_SPAN
  ImbalanceThreshold              \* PRICE_IMBALANCE_THRESHOLD

ASSUME QuoteLinkAssumption ==
  /\ SellMarket \subseteq Market
  /\ {PreCreation, PostCreation, RequoteBefore, RequoteAfter, SiblingSeconds, IdSpan}
       \subseteq Nat
  /\ ImbalanceThreshold \in Nat \ {0}

(***************************************************************************)
(* An order with its recorded quote.  `in' and `out' are in_atoms and        *)
(* out_atoms; quote id 0 means there is none; `solver' is quote_solver.      *)
(* `median' and `outPrice' are the window's prices of its two tokens, 0 if   *)
(* never priced.                                                           *)
(***************************************************************************)
Order == [created : Nat, evaluable : BOOLEAN, trivial : BOOLEAN, market : Market, in : Nat, out : Nat,
          fee : Nat, qid : Nat, solver : Address, gasPrice : Nat, sellPrice : Nat, executed : Nat,
          median : Nat, outPrice : Nat, trades : Seq([sellPrice : Nat, buyPrice : Nat, sell : Nat, buy : Nat])]

IsSell(o) == o.market \in SellMarket
Volume(o) == o.executed * o.sellPrice
QuoteOf(o) == IF IsSell(o) THEN [sell |-> o.in, buy |-> o.out, fee |-> o.fee]
              ELSE [sell |-> o.out, buy |-> o.in, fee |-> o.fee]

(***************************************************************************)
(* A row of the estimates, in the gold layer or the raw one; `seq' orders    *)
(* arrivals within its layer.  Request id 0 is the null of a re-quote.      *)
(***************************************************************************)
Layer == {"gold", "raw"}
Row == [layer : Layer, rid : Nat, who : Estimator, solver : Address, qid : Nat, market : Market,
        in : Nat, out : Nat, gas : Nat, verified : BOOLEAN, seq : Nat, ts : Nat]

Slot(row) == <<row.layer, row.rid, row.who>>

(***************************************************************************)
(* The tables: orders, estimates, winning_price_estimates, quote_computed,   *)
(* and the requests, of which the gold tables hold some.  `byRule' is not    *)
(* recorded: the competitions were decided by the rule that we replay.  One  *)
(* estimator answers once at a time, and a quote id is drawn for one answer. *)
(***************************************************************************)
IsTables(w) ==
  /\ w.byRule \in BOOLEAN
  /\ w.orders \in Seq(Order)
  /\ w.rows \subseteq Row /\ IsFiniteSet(w.rows)
  /\ \A x, y \in w.rows : Slot(x) = Slot(y) /\ x.seq = y.seq => x = y
  /\ w.winning \subseteq [rid : Nat, who : Estimator, qid : Nat]
  /\ \A x, y \in w.rows : /\ x.layer = "raw" /\ y.layer = "raw" /\ x.rid # 0 /\ y.rid # 0
                           /\ x.qid = y.qid => x.rid = y.rid /\ x.who = y.who
  /\ w.computed \subseteq [rid : Nat, qid : Nat, seq : Nat] /\ IsFiniteSet(w.computed)
  /\ \A rid \in DOMAIN w.requests :
       /\ rid \in Nat \ {0}
       /\ w.requests[rid] \in [market : Market, in : Nat, at : Nat, gold : BOOLEAN]

----------------------------------------------------------------------------
(* Ladders *)

\* Fault: the last row fetched stands.
KeepLatest(loaded, row) ==
  [k \in DOMAIN loaded \cup {Slot(row)} |->
     IF k # Slot(row) THEN loaded[k]
     ELSE [row |-> row, nth |-> Cardinality(DOMAIN loaded) + 1]]

\* _keep_earliest: a dict of one row per estimator, which remembers insertions.
KeepEarliest(loaded, row) ==
  IF Slot(row) \notin DOMAIN loaded
  THEN [k \in DOMAIN loaded \cup {Slot(row)} |->
          IF k \in DOMAIN loaded THEN loaded[k]
          ELSE [row |-> row, nth |-> Cardinality(DOMAIN loaded) + 1]]
  ELSE IF row.seq < loaded[Slot(row)].row.seq
       THEN [loaded EXCEPT ![Slot(row)].row = row] ELSE loaded

\* The elements of S in a list in which none comes after one it is not `before'. (The
\* provers do not look into SetToSortSeq, which says the same.)
Arranged(S, before) ==
  CHOOSE list \in Bijection(1..Cardinality(S), S) :
    \A i, k \in DOMAIN list : i < k => <<list[k], list[i]>> \notin before

\* A stable sort by arrival.
Earlier(x, y) == x.row.seq < y.row.seq \/ (x.row.seq = y.row.seq /\ x.nth < y.nth)

Sorted(entries) ==
  LET inOrder == Arranged(entries, {pair \in entries \X entries : Earlier(pair[1], pair[2])})
  IN  [i \in DOMAIN inOrder |-> inOrder[i].row]

Rows(loaded, layer, rid) ==
  Sorted({loaded[k] : k \in {j \in DOMAIN loaded : j[1] = layer /\ j[2] = rid}})

Answer(row) == [who |-> row.who, out |-> row.out, gas |-> row.gas, verified |-> row.verified]

NamedWinners(w, rid) == {x.who : x \in {y \in w.winning : y.rid = rid}}
Marked(w, rows, rid) == {i \in DOMAIN rows : rows[i].who \in NamedWinners(w, rid)}

The(S) == IF Cardinality(S) = 1 THEN CHOOSE i \in S : TRUE ELSE 0

(***************************************************************************)
(* A request with its ladder.  `complete': it names one winner, which may    *)
(* have no row; `winner' is its position, 0 for none; `marked' are the       *)
(* positions of all that are named.                                        *)
(***************************************************************************)
Competition(w, loaded, layer, rid) ==
  LET rows == Rows(loaded, layer, rid)
      named == Cardinality(NamedWinners(w, rid)) = 1
  IN  [rid |-> rid, layer |-> layer, at |-> w.requests[rid].at, in |-> w.requests[rid].in,
       rows |-> rows, ladder |-> [i \in DOMAIN rows |-> Answer(rows[i])],
       winner |-> IF named THEN The(Marked(w, rows, rid)) ELSE 0,
       complete |-> named, marked |-> Marked(w, rows, rid)]

\* The request as the ranking sees it, with the order's own pricing.
Priced(o, competition, ranking) ==
  [sell |-> IsSell(o), in |-> competition.in, gasPrice |-> o.gasPrice,
   sellPrice |-> o.sellPrice, buyPrice |-> IF IsSell(o) THEN o.outPrice ELSE 0,
   ranking |-> ranking, ladder |-> competition.ladder]

\* The recorded winner that is_reasonable lets through.
RecordedWinner(competition) ==
  LET ladder == competition.ladder
  IN  The({i \in competition.marked : ladder[i].out > 0 /\ ladder[i].gas > 0})

----------------------------------------------------------------------------
(* The heuristic *)

\* Sell amounts match exactly, buy amounts within BUY_AMOUNT_TOLERANCE.
SameAmount(o, in) ==
  IF IsSell(o) THEN in = o.in ELSE 200 * in \in 199 * o.in .. 201 * o.in

InWindow(o, at) == at \in o.created - PreCreation .. o.created + PostCreation

\* The requests of a layer that could have created the order.
Viable(w, o, layer) ==
  {rid \in DOMAIN w.requests :
     /\ layer = "gold" => w.requests[rid].gold
     /\ w.requests[rid].market = o.market
     /\ o.in > 0 /\ SameAmount(o, w.requests[rid].in)
     /\ InWindow(o, w.requests[rid].at)}

\* The raw layer is only asked for what the gold tables leave unplaced.
Candidates(w, loaded, o) ==
  LET layer == IF Viable(w, o, "gold") # {} THEN "gold" ELSE "raw"
  IN  {Competition(w, loaded, layer, rid) : rid \in Viable(w, o, layer)}

\* Fault: any answer may reproduce the amount.
CorroboratedByAny(o, competition) ==
  \E i \in DOMAIN competition.ladder : competition.ladder[i].out = o.out

Corroborated(o, competition) ==
  LET winner == RecordedWinner(competition)
  IN  winner # 0 /\ competition.ladder[winner].out = o.out

\* The corroborated candidate wins, then the latest; the rest is bucket order.
Preferable(o, C) ==
  LET K == {c \in C : Corroborated(o, c)}
      best == IF K # {} THEN K ELSE C
  IN  {c \in best : \A d \in best : d.at <= c.at}

----------------------------------------------------------------------------
(* The quote id *)

Found(w, o) == {row \in w.rows : row.layer = "raw" /\ row.rid # 0 /\ o.qid # 0 /\ row.qid = o.qid}

PositionOf(competition, who) ==
  CHOOSE i \in DOMAIN competition.rows : competition.rows[i].who = who

\* ids_of
RowsNamed(w, rid, qid) == {row \in w.rows : row.layer = "raw" /\ row.rid = rid /\ row.qid = qid}

\* The forwarded answers of a request, by position and in the order of their rows.
Forwarded(w, competition) ==
  LET ids == {x \in w.computed : x.rid = competition.rid /\ RowsNamed(w, x.rid, x.qid) # {}}
      inOrder == Arranged(ids, {pair \in ids \X ids : pair[1].seq < pair[2].seq})
      whose(x) == (CHOOSE row \in RowsNamed(w, x.rid, x.qid) : TRUE).who
  IN  [i \in DOMAIN inOrder |-> PositionOf(competition, whose(inOrder[i]))]

\* arrived_at: when an answer came is what its row says that was fetched first.
ArrivedAt(arrived, row) ==
  IF Slot(row) \in DOMAIN arrived THEN arrived ELSE arrived @@ (Slot(row) :> row.ts)

\* The answers after `position' that arrived, one after the other, before the creation.
ArrivedBefore(arrived, competition, position, created) ==
  LET at(i) == arrived[Slot(competition.rows[i])]
  IN  CHOOSE h \in position..Len(competition.rows) :
        /\ \A i \in position + 1..h : at(i) < created
        /\ h < Len(competition.rows) => at(h + 1) >= created

\* _stream_take
StreamTake(arrived, o, competition, position, forwarded) ==
  LET after == {forwarded[i] : i \in DOMAIN forwarded} \cap position + 1..Len(competition.rows)
  IN  [streamed |-> TRUE, taken |-> position, complete |-> competition.complete,
       horizon |-> IF after # {} THEN Earliest(after) - 1
                   ELSE ArrivedBefore(arrived, competition, position, o.created)]

\* Not from a stream: the full ladder, and the winner that is marked in it (with_ladder).
OneShot(competition) ==
  [streamed |-> FALSE, taken |-> The(competition.marked), horizon |-> Len(competition.rows),
   complete |-> TRUE]

\* Why the id of an order does not link it.
Reason == {"no quote id", "id not in the competition record", "stored quote not reproduced",
           "not a forwarded answer of its stream"}

----------------------------------------------------------------------------
(* Re-quotes *)

Apart(x, y) == IF x < y THEN y - x ELSE x - y

SameMarket(w, o) ==
  {row \in w.rows : row.layer = "raw" /\ row.rid = 0 /\ row.market = o.market /\ row.in = o.in}

\* The winning answers of request-less competitions that reproduce the stored amount.
Anchors(w, o) ==
  {row \in SameMarket(w, o) :
     /\ row.out = o.out /\ o.in > 0 /\ o.out > 0
     /\ \E x \in w.winning : x.rid = 0 /\ x.qid = row.qid
     /\ row.ts >= o.created - RequoteBefore /\ row.ts <= o.created + RequoteAfter}

Nearest(o, A) == {row \in A : \A x \in A : Apart(row.ts, o.created) <= Apart(x.ts, o.created)}

Near(w, o, anchor) ==
  {row \in SameMarket(w, o) : /\ Apart(row.qid, anchor.qid) <= IdSpan
                             /\ Apart(row.ts, anchor.ts) <= SiblingSeconds}

\* The request-less answers around the anchor, the earliest of each estimator.
Siblings(w, o, anchor) ==
  {row \in Near(w, o, anchor) :
     \A x \in Near(w, o, anchor) : x.who = row.who => row.seq <= x.seq}

Requote(w, o, anchor) ==
  LET rows == Sorted({[row |-> row, nth |-> 0] : row \in Siblings(w, o, anchor)})
      won == {i \in DOMAIN rows : rows[i].who = anchor.who}
  IN  [rid |-> 0, layer |-> "raw", at |-> anchor.ts, in |-> o.in, anchor |-> anchor,
       rows |-> rows, ladder |-> [i \in DOMAIN rows |-> Answer(rows[i])],
       winner |-> The(won), complete |-> TRUE, marked |-> won]

----------------------------------------------------------------------------
(* The price checks *)

Sum(S, f(_)) == FoldLeft(LAMBDA total, x : total + f(x), 0, S)

\* traded_sell_prices: the sell token's price where the order traded, by sell amount.
TradedPrice(o) ==
  LET known == SelectSeq(o.trades, LAMBDA t : t.sellPrice # 0 /\ t.sell > 0)
  IN  <<Sum(known, LAMBDA t : t.sellPrice * t.sell), Sum(known, LAMBDA t : t.sell)>>

Apiece(x, y) == x[1] * y[2] > ImbalanceThreshold * y[1] * x[2]

\* price_suspect_orders: the auction's price where it traded, else the window's median.
PriceSuspect(o) ==
  LET traded == TradedPrice(o)
      auction == IF traded[1] # 0 THEN traded ELSE <<o.median, 1>>
      api == <<o.sellPrice, 1>>
  IN  /\ auction[1] # 0 /\ o.sellPrice > 0
      /\ Apiece(auction, api) \/ Apiece(api, auction)

\* imbalanced_orders: what the order sold against what it bought, trade by trade.
Imbalanced(o) ==
  LET known == SelectSeq(o.trades, LAMBDA t : t.sellPrice # 0 /\ t.buyPrice # 0)
      sold == Sum(known, LAMBDA t : t.sellPrice * t.sell)
      bought == Sum(known, LAMBDA t : t.buyPrice * t.buy)
  IN  /\ sold # 0 /\ bought # 0
      /\ sold > ImbalanceThreshold * bought \/ bought > ImbalanceThreshold * sold
=============================================================================
