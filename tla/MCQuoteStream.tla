----------------------------- MODULE MCQuoteStream -----------------------------
(***************************************************************************)
(* Requests of up to four answers for module QuoteStream.  The sell amount  *)
(* is worth 20 wei, so the answers below are a good one, a tie with it after *)
(* truncation, one far off, one whose gas swallows the amount, one the       *)
(* comparison ignores, and their verified twins.                            *)
(***************************************************************************)
EXTENDS QuoteStream

CONSTANTS e1, e2, e3, e4

Name == <<e1, e2, e3, e4>>

\* <<out amount, gas, verified>>
SellAnswers ==
  {<<12, 2, FALSE>>, <<11, 1, FALSE>>, <<4, 2, FALSE>>, <<11, 1, TRUE>>, <<8, 1, TRUE>>,
   <<20, 22, FALSE>>, <<20, 22, TRUE>>, <<0, 1, TRUE>>}

FewAnswers == {<<12, 2, FALSE>>, <<4, 2, FALSE>>, <<8, 1, TRUE>>, <<20, 22, TRUE>>}

BuyAnswers == {<<10, 4, FALSE>>, <<11, 2, FALSE>>, <<14, 1, TRUE>>, <<30, 2, FALSE>>}

Ladders(S, n) ==
  {[i \in 1..n |-> [who |-> Name[i], out |-> f[i][1], gas |-> f[i][2], verified |-> f[i][3]]] :
     f \in [1..n -> S]}

Request(live, sell, ranking, ladder) ==
  [live |-> live, sell |-> sell, in |-> 10, gasPrice |-> 1, sellPrice |-> 2, buyPrice |-> 2,
   ranking |-> ranking, ladder |-> ladder]

MCRequests ==
  {Request(TRUE, TRUE, "effective-sell", ladder) :
     ladder \in Ladders(SellAnswers, 3) \cup Ladders(FewAnswers, 4) \cup {<<>>}}
  \cup {Request(live, TRUE, ranking, ladder) :
          live \in BOOLEAN, ranking \in {"effective-sell", "autopilot"},
          ladder \in Ladders(SellAnswers, 2)}
  \cup {Request(TRUE, FALSE, "effective-sell", ladder) : ladder \in Ladders(BuyAnswers, 3)}
  \cup {Request(live, FALSE, ranking, ladder) :
          live \in BOOLEAN, ranking \in {"effective-sell", "autopilot"},
          ladder \in Ladders(BuyAnswers, 2)}

MCRemovals == {{e1}, {e2}, {e3}, {e1, e2}, {e2, e4}, {e1, e2, e3}}
=============================================================================
