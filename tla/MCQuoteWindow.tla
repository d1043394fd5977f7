----------------------------- MODULE MCQuoteWindow -----------------------------
(***************************************************************************)
(* Windows for module QuoteWindow.  The competitions are the rule's own: the *)
(* winner is the pick, the forwarded answers are what a stream sends until   *)
(* it ends or is dropped.  The sell amount is worth 20 wei; an order at      *)
(* second 40 precedes the coverage, one before 100 the quote ids.           *)
(***************************************************************************)
EXTENDS QuoteWindow

CONSTANTS e1, e2, e3, s1, s2

Name == <<e1, e2, e3>>
SolverOf(who) == IF who = e1 THEN s1 ELSE s2

MCMarket == {"sell A", "buy A"}
MCSellMarket == {"sell A"}

----------------------------------------------------------------------------
(* One competition *)

\* <<out amount, gas, verified>>: one that improves twice, once with a late answer,
\* one with a quote that is not sent, one with a verified quote first, one with a tie.
Ladders ==
  {<< <<8, 1, FALSE>>, <<12, 2, FALSE>>, <<9, 1, FALSE>> >>,
   << <<8, 1, FALSE>>, <<10, 2, FALSE>>, <<19, 2, FALSE>> >>,
   << <<4, 2, FALSE>>, <<20, 22, FALSE>>, <<10, 0, FALSE>> >>,
   << <<11, 1, TRUE>>, <<12, 2, FALSE>>, <<14, 1, TRUE>> >>,
   << <<10, 1, FALSE>>, <<8, 1, FALSE>>, <<10, 1, FALSE>> >>}

Priced10(ladder) ==
  [sell |-> TRUE, in |-> 10, gasPrice |-> 1, sellPrice |-> 2, buyPrice |-> 0,
   ranking |-> "effective-sell",
   ladder |-> [i \in DOMAIN ladder |-> [who |-> Name[i], out |-> ladder[i][1],
                                        gas |-> ladder[i][2], verified |-> ladder[i][3]]]]

\* Its first n answers, from second `at' on; ids are the request's hundred.
RowsOf(layer, rid, at, ladder, n) ==
  {[layer |-> layer, rid |-> rid, who |-> Name[i], solver |-> SolverOf(Name[i]),
    qid |-> 100 * rid + i, market |-> "sell A", in |-> 10, out |-> ladder[i][1],
    gas |-> ladder[i][2], verified |-> ladder[i][3], seq |-> 10 * at + i, ts |-> at + i] :
     i \in 1..n}

\* An estimator that answers a second time, later and from another address.
Revised(row) == [row EXCEPT !.seq = @ + 5, !.ts = @ + 2, !.out = @ + 2, !.solver = s2]

PickOf(ladder) == Pick(Priced10(ladder), DOMAIN ladder)

WinningOf(rid, ladder) ==
  IF PickOf(ladder) = 0 THEN {}
  ELSE {[rid |-> rid, who |-> Name[PickOf(ladder)], qid |-> 100 * rid + PickOf(ladder)]}

ComputedOf(rid, ladder, n) ==
  {[rid |-> rid, qid |-> 100 * rid + i, seq |-> 2 * i] :
     i \in {k \in Sent(Priced10(ladder), DOMAIN ladder) : k <= n}}

At(rid, at, gold) == rid :> [market |-> "sell A", in |-> 10, at |-> at, gold |-> gold]

\* A forwarded answer whose row is written again, before the next one.
Rewritten(c) == [c EXCEPT !.seq = @ + 1]

Ordered(created, qid, out) ==
  [created |-> created, evaluable |-> TRUE, trivial |-> FALSE, market |-> "sell A", in |-> 10,
   out |-> out, fee |-> 1, qid |-> qid, solver |-> s1, gasPrice |-> 1, sellPrice |-> 2, executed |-> 3,
   median |-> 2, outPrice |-> 2, trades |-> <<>>]

\* The order of the i-th answer of a request.
From(rid, ladder, created, i) ==
  [Ordered(created, 100 * rid + i, ladder[i][1]) EXCEPT !.solver = SolverOf(Name[i])]

----------------------------------------------------------------------------
(* Windows *)

\* Prices that are off by 100 where it never traded, all right where it did, and off
\* between what it sold and what it bought.
Trade(buyPrice, buy) == << [sellPrice |-> 2, buyPrice |-> buyPrice, sell |-> 10, buy |-> buy] >>
Variants(o) ==
  {[o EXCEPT !.median = 200], [o EXCEPT !.median = 200, !.trades = Trade(2, 10)],
   [o EXCEPT !.trades = Trade(1, 1)]}

\* Two orders from one stream that recorded n answers and forwarded those up to m; the
\* winner is recorded if it ran to its end.  `twice' are rows that were written again.
OneStream(ladder, n, m, over, twice) ==
  LET sent == {i \in Sent(Priced10(ladder), DOMAIN ladder) : i <= m}
      orders == {<<From(1, ladder, 104, i), variant>> :
                   i \in sent, variant \in Variants(From(1, ladder, 103, Latest(sent)))}
  IN  {[byRule |-> TRUE, orders |-> pair, rows |-> RowsOf("raw", 1, 101, ladder, n) \cup twice,
        winning |-> IF over THEN WinningOf(1, ladder) ELSE {},
        computed |-> ComputedOf(1, ladder, m)
                       \cup {Rewritten(c) : c \in {x \in ComputedOf(1, ladder, 1) : twice # {}}},
        requests |-> At(1, 101, FALSE)] : pair \in orders}

FirstAgain(ladder) == {Revised(row) : row \in RowsOf("raw", 1, 101, ladder, 1)}

StreamWindows ==
  UNION {OneStream(ladder, n, m, FALSE, {}) : ladder \in Ladders, n \in 2..3, m \in 1..2}
  \cup UNION {OneStream(ladder, n, 3, TRUE, {}) : ladder \in Ladders, n \in 2..3}
  \cup UNION {OneStream(ladder, 3, 3, TRUE, FirstAgain(ladder)) : ladder \in Ladders}

\* Before the quote ids: the gold tables hold one candidate, two of them, or none.
Slow == << <<8, 1, FALSE>>, <<12, 2, FALSE>> >>
Later == << <<8, 1, FALSE>>, <<11, 1, FALSE>> >>

HeuristicWindow(o, layer, requests) ==
  [byRule |-> TRUE, orders |-> <<o, [o EXCEPT !.created = 40], [o EXCEPT !.trivial = TRUE],
                [o EXCEPT !.evaluable = FALSE], Ordered(65, 0, 12)>>,
   rows |-> RowsOf(layer, 1, 61, Slow, 2) \cup RowsOf(layer, 2, 63, Later, 2),
   winning |-> WinningOf(1, Slow) \cup WinningOf(2, Later),
   computed |-> {}, requests |-> requests]

HeuristicWindows ==
  {HeuristicWindow(Ordered(64, 0, out), layer,
     At(1, 61, layer = "gold") @@ At(2, 63, layer = "gold")) :
       out \in {12, 11, 8, 25}, layer \in Layer}
  \cup {HeuristicWindow(o, "gold", At(1, 61, TRUE) @@ At(2, 63, TRUE)) :
           o \in {Ordered(90, 0, 12), [Ordered(64, 0, 11) EXCEPT !.fee = 10]}}

\* A request that names both of its answers, of which one may have no value.
BothNamed(gas) ==
  LET w == HeuristicWindow(Ordered(64, 0, 12), "raw", At(1, 61, FALSE) @@ At(2, 63, FALSE))
  IN  [w EXCEPT !.winning = @ \cup {[rid |-> 1, who |-> e1, qid |-> 101]},
                !.rows = {IF row.qid = 101 THEN [row EXCEPT !.gas = gas] ELSE row : row \in @}]

\* Re-quotes of two estimators, of which the first wins.
Requotes(id, out, seq, ts) ==
  {[layer |-> "raw", rid |-> 0, who |-> e1, solver |-> s1, qid |-> id, market |-> "sell A",
    in |-> 10, out |-> out, gas |-> 1, verified |-> FALSE, seq |-> seq, ts |-> ts],
   [layer |-> "raw", rid |-> 0, who |-> e3, solver |-> s2, qid |-> id + 1, market |-> "sell A",
    in |-> 10, out |-> out - 1, gas |-> 1, verified |-> FALSE, seq |-> seq + 1, ts |-> ts]}

\* Orders without an id, with an unknown one, with one of another amount, and one linked.
RequoteWindow(requotes) ==
  [byRule |-> TRUE,
   orders |-> <<Ordered(104, 0, 9), Ordered(105, 999, 9), Ordered(105, 101, 9),
                From(1, Slow, 105, 2)>>,
   rows |-> RowsOf("raw", 1, 101, Slow, 2) \cup requotes,
   winning |-> WinningOf(1, Slow) \cup {[rid |-> 0, who |-> e1, qid |-> id] : id \in {51, 53, 71}},
   computed |-> ComputedOf(1, Slow, 2), requests |-> At(1, 101, FALSE)]

\* One re-quote that reproduces the amount or not, one too late, two that are told apart by
\* their ids, and two that are not: the ladder is then a mixture of both.
RequoteWindows ==
  {RequoteWindow(requotes) : requotes \in
     {Requotes(51, 9, 2000, 106), Requotes(51, 13, 2000, 106), Requotes(51, 9, 2000, 130),
      Requotes(51, 9, 2000, 106) \cup Requotes(71, 9, 1990, 107),
      Requotes(51, 9, 2000, 106) \cup Requotes(53, 8, 1990, 105)}}

\* Other rules: a stream whose winner is not ours or not alone, one that sent more or less
\* than ours, or nothing that we know of.
OtherWinners(w, I) == [w EXCEPT !.winning = {[rid |-> 1, who |-> Name[i], qid |-> 100 + i] : i \in I}]
Sending(w, I) == [w EXCEPT !.computed = {[rid |-> 1, qid |-> 100 + i, seq |-> i] : i \in I}]
OtherWindows ==
  {BothNamed(gas) : gas \in 0..1}
  \cup {OtherWinners(w, I) : w \in OneStream(<< <<10, 2, FALSE>>, <<10, 2, FALSE>>, <<9, 2, FALSE>> >>,
                                       3, 3, TRUE, {}), I \in {{2}, {3}, {1, 2}}}
  \cup {Sending(w, I) : w \in OneStream(<< <<8, 1, FALSE>>, <<12, 2, FALSE>>, <<9, 1, FALSE>> >>,
                                        3, 3, TRUE, {}), I \in {{}, {2}, {3}, 1..3}}

MCWindows ==
  StreamWindows \cup HeuristicWindows \cup RequoteWindows
    \cup {[w EXCEPT !.byRule = FALSE] : w \in OtherWindows}
MCRemovals == {{s1}, {s2}, {s1, s2}, {}}
=============================================================================
