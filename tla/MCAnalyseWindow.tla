---------------------------- MODULE MCAnalyseWindow ----------------------------
(***************************************************************************)
(* Windows of up to three auctions for module AnalyseWindow, extracted two at *)
(* a time.  Solver `fractal' bid from one address, `sector' from two, `alias' *)
(* is another name for one of these, and `idle' never bid.                   *)
(***************************************************************************)
EXTENDS AnalyseWindow, TLC

CONSTANTS x1, x2, x3, fractal, sector, alias, idle

MCLive == fractal :> {x1} @@ sector :> {x2, x3} @@ alias :> {x3} @@ idle :> {}

\* What a removal does differs by who goes and by the rule, so that no mix-up cancels.
Weight(R) == (IF x1 \in R THEN 1 ELSE 0) + (IF x2 \in R THEN 3 ELSE 0) + (IF x3 \in R THEN 5 ELSE 0)
Effects(bidders, f(_, _)) == [R \in SUBSET bidders, rule \in Rules |-> f(R, rule)]

Effect(rewards, capped) ==
  [rewards |-> rewards, capped |-> capped,
   changed |-> rewards # 0 \/ (capped \notin {Unknown, <<0>>})]
Moving(R, rule) ==
  Effect(IF rule = "inherited" THEN -2 * Weight(R) ELSE 7 * Weight(R), <<-Weight(R)>>)
\* The caps bind on both sides, on neither, or are not known.
CappedOnly(R, rule) == Effect(0, IF rule = "inherited" THEN <<Weight(R)>> ELSE <<0>>)
UncappedOnly(R, rule) == Effect(Weight(R), IF R = {} THEN <<0>> ELSE Unknown)

RowOf(bidders, f(_, _), rate) ==
  [bidders |-> bidders, context |-> TRUE, prices |-> "array", ordersKnown |-> TRUE,
   suspect |-> FALSE, failed |-> FALSE, settled |-> TRUE,
   effect |-> Effects(bidders, f), recharge |-> [R \in SUBSET Address |-> Weight(R)],
   rate |-> rate]

All == RowOf({x1, x2, x3}, Moving, 10)
Rows ==
  {All, RowOf({x1}, CappedOnly, 20), RowOf({x1, x2}, UncappedOnly, NoRate),
   RowOf({x2, x3}, Moving, 0), RowOf({}, Moving, 10),
   [All EXCEPT !.ordersKnown = FALSE], [All EXCEPT !.suspect = TRUE],
   [All EXCEPT !.failed = TRUE, !.settled = FALSE], [All EXCEPT !.settled = FALSE],
   [All EXCEPT !.context = FALSE], [All EXCEPT !.prices = "legacy"],
   [All EXCEPT !.prices = "lost"], [RowOf({}, Moving, 20) EXCEPT !.prices = "lost"]}

Database(auctions, legacyTable, quoteData) ==
  [auctions |-> auctions, live |-> MCLive, legacyTable |-> legacyTable, quoteData |-> quoteData]

MCDatabases ==
  {Database(<<a, b>>, TRUE, TRUE) : a \in Rows, b \in Rows}
  \cup {Database(<<All, a, b>>, legacyTable, legacyTable) :
          a \in {r \in Rows : r.ordersKnown = FALSE \/ r.rate # 10}, b \in Rows,
          legacyTable \in BOOLEAN}
  \cup {Database(<<>>, TRUE, TRUE)}

Arguments(solvers, rules, limit, score, excludeSuspects, withQuotes) ==
  [solvers |-> solvers, rules |-> rules, limit |-> limit, score |-> score,
   excludeSuspects |-> excludeSuspects, withQuotes |-> withQuotes]

BothRules == <<"inherited", "assume-settled">>
Reversed == <<"assume-settled", "inherited">>
MCAsked ==
  {Arguments(<<<<fractal>>, <<fractal, sector>>>>, BothRules, 0, TRUE, TRUE, TRUE),
   Arguments(<<<<sector>>, <<alias>>>>, Reversed, 2, TRUE, FALSE, FALSE),
   Arguments(<<<<sector>>, <<fractal>>>>, <<"assume-settled">>, 1, TRUE, TRUE, TRUE),
   Arguments(<<<<sector>>>>, BothRules, 0, FALSE, TRUE, TRUE)}

\* Arguments that are refused, over one database.
Refused ==
  {Arguments(<<<<fractal, sector>>, <<sector, fractal>>>>, BothRules, 0, TRUE, TRUE, FALSE),
   Arguments(<<<<sector, alias>>>>, BothRules, 0, TRUE, TRUE, FALSE),
   Arguments(<<<<fractal>>, <<>>>>, BothRules, 0, TRUE, TRUE, FALSE),
   Arguments(<<<<fractal>>, <<idle>>>>, BothRules, 0, TRUE, TRUE, FALSE),
   Arguments(<<<<fractal>>>>, <<>>, 0, TRUE, TRUE, FALSE),
   Arguments(<<<<fractal>>>>, <<"inherited", "inherited">>, 0, TRUE, TRUE, FALSE)}

MCAskedAll == MCAsked \cup Refused
=============================================================================
