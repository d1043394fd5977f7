--------------------------- MODULE QuoteCompetition ---------------------------
(***************************************************************************)
(* What a streamed quote competition promises its user: whenever an answer   *)
(* arrives that would win the competition if it ended there, the user gets   *)
(* to see it, and the competition comes to an end.  QuoteStream, whose loop  *)
(* only remembers the best key so far, implements this specification.       *)
(***************************************************************************)
EXTENDS QuoteRanking

CONSTANT Requests

VARIABLES
  request,     \* `live' if its user watches, else the result is returned at the end
  arrived,     \* how many answers have come in
  screen,      \* the answer the user sees, 0 for none
  over         \* has the competition ended?

vars == <<request, arrived, screen, over>>

Init ==
  /\ request \in Requests
  /\ arrived = 0 /\ screen = 0 /\ over = FALSE

\* The answer that would win among the first n, if it gives a quote.
Wins(i, n) == Pick(request, 1..n) = i /\ i # 0 /\ Sendable(request, i)

Answer ==
  /\ ~over /\ arrived < Len(request.ladder)
  /\ arrived' = arrived + 1
  /\ screen' = IF request.live /\ Wins(arrived', arrived') THEN arrived' ELSE screen
  /\ UNCHANGED <<request, over>>

Finish ==
  /\ ~over /\ over' = TRUE
  /\ arrived = Len(request.ladder)
  /\ IF request.live THEN UNCHANGED screen
     ELSE \E i \in 0..arrived : screen' = i /\ (i # 0 => Wins(i, arrived))
                                /\ (i = 0 => ~ \E k \in 1..arrived : Wins(k, arrived))
  /\ UNCHANGED <<request, arrived>>

\* The client has seen enough.
Leave ==
  /\ ~over /\ over' = TRUE
  /\ request.live /\ screen # 0
  /\ UNCHANGED <<request, arrived, screen>>

Next == Answer \/ Finish \/ Leave

\* Nobody waits for ever.
Ends == <>over

Safe == Init /\ [][Next]_vars

Spec == Safe /\ Ends
=============================================================================
