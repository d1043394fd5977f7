------------------------------ MODULE QuoteStream ------------------------------
(***************************************************************************)
(* One quote request from its first answer to the counterfactual quote of    *)
(* the order placed from it.  Answers arrive one by one; a stream forwards   *)
(* those that beat the best so far (replay_stream) and its user commits      *)
(* whenever they like, while a one-shot request returns the pick.  Later     *)
(* link_by_quote_id reconstructs from the rows what the user took, and       *)
(* diff_quote asks what they would have taken without some solvers.         *)
(*                                                                         *)
(* The analysis never sees the time of the commit, the answers a dropped     *)
(* stream cancelled or, under the autopilot rule, a price no auction had.   *)
(***************************************************************************)
EXTENDS QuoteDiff

CONSTANTS
  Requests,    \* requests with the answers that would arrive, in order
  Removals     \* sets of removed estimators

ASSUME QuoteStreamAssumption ==
  /\ \A q \in Requests : IsRequest(q) /\ ~Unpriced(q) /\ q.live \in BOOLEAN
  /\ \A R \in Removals : R \subseteq Estimator

VARIABLES
  request,     \* `live' if its user watches the stream, else a one-shot request
  arrived,     \* how many answers have come in
  best,        \* the bar of the loop: <<verified, key>>, or <<>> for None
  forwarded,   \* the positions of the answers sent, in order
  stream,      \* "open", "finished" or "dropped"
  winner,      \* the recorded winner, 0 for none
  taken,       \* the answer the order carries, 0 before the commit
  commit,      \* how many answers had arrived by the commit; not recorded
  created,     \* how many by the creation of the order, 0 before it
  take,        \* the StreamTake the link reconstructs
  removed,     \* the removal analysed
  known,       \* the out token's native price as the analysis has it
  diff         \* its QuoteDiff

served == <<arrived, best, forwarded, stream, winner>>
ordered == <<taken, commit, created>>
analysed == <<take, removed, known, diff>>
vars == <<request, arrived, best, forwarded, stream, winner, taken, commit, created,
          take, removed, known, diff>>

Init ==
  /\ request \in Requests
  /\ arrived = 0 /\ best = <<>> /\ forwarded = <<>>
  /\ stream = "open" /\ winner = 0
  /\ taken = 0 /\ commit = 0 /\ created = 0
  /\ take = <<>> /\ removed = {} /\ known = 0 /\ diff = <<>>

----------------------------------------------------------------------------
(* The competition *)

KeyOf(i) == <<request.ladder[i].verified, Key(request, i)>>

\* Python's tuple comparison of the bar.
Exceeds(x, y) == (x[1] /\ ~y[1]) \/ (x[1] = y[1] /\ x[2] > y[2])

\* Faults: an equal answer is forwarded too; a dropped answer sets no bar.
ClearsBarOrTies(i) ==
  /\ Reasonable(request, i)
  /\ best = <<>> \/ Exceeds(KeyOf(i), best) \/ KeyOf(i) = best
ClearsBarIfSendable(i) ==
  /\ Reasonable(request, i) /\ Sendable(request, i)
  /\ best = <<>> \/ Exceeds(KeyOf(i), best)

ClearsBar(i) == Reasonable(request, i) /\ (best = <<>> \/ Exceeds(KeyOf(i), best))

\* Fault: an answer the comparison ignores is not taken off the stream.
AnswerIfReasonable ==
  /\ stream = "open" /\ arrived < Len(request.ladder)
  /\ Reasonable(request, arrived + 1)
  /\ arrived' = arrived + 1
  /\ best' = IF ClearsBar(arrived') THEN KeyOf(arrived') ELSE best
  /\ forwarded' = IF ClearsBar(arrived') /\ Sendable(request, arrived') /\ request.live
                  THEN Append(forwarded, arrived') ELSE forwarded
  /\ UNCHANGED <<request, stream, winner, ordered, analysed>>

\* One turn of the loop of replay_stream; a one-shot request forwards nothing yet.
Answer ==
  /\ stream = "open" /\ arrived < Len(request.ladder)
  /\ arrived' = arrived + 1
  /\ best' = IF ClearsBar(arrived') THEN KeyOf(arrived') ELSE best
  /\ forwarded' = IF ClearsBar(arrived') /\ Sendable(request, arrived') /\ request.live
                  THEN Append(forwarded, arrived') ELSE forwarded
  /\ UNCHANGED <<request, stream, winner, ordered, analysed>>

\* Fault: the final best is forwarded once more.
FinishTwice ==
  /\ stream = "open" /\ arrived = Len(request.ladder)
  /\ stream' = "finished"
  /\ winner' = Pick(request, 1..arrived)
  /\ forwarded' = IF winner' # 0 THEN Append(forwarded, winner') ELSE forwarded
  /\ UNCHANGED <<request, arrived, best, ordered, analysed>>

\* All answers are in: the best is recorded as the winner.
Finish ==
  /\ stream = "open" /\ arrived = Len(request.ladder)
  /\ stream' = "finished"
  /\ winner' = Pick(request, 1..arrived)
  /\ forwarded' = IF ~request.live /\ winner' # 0 /\ Sendable(request, winner')
                  THEN <<winner'>> ELSE forwarded
  /\ UNCHANGED <<request, arrived, best, ordered, analysed>>

\* The client goes away: the other answers are cancelled and never recorded.
Drop ==
  /\ stream = "open" /\ forwarded # <<>>
  /\ stream' = "dropped"
  /\ UNCHANGED <<request, arrived, best, forwarded, winner, ordered, analysed>>

\* The user signs what is on the screen.
Commit ==
  /\ taken = 0 /\ forwarded # <<>>
  /\ taken' = forwarded[Len(forwarded)] /\ commit' = arrived
  /\ UNCHANGED <<request, served, created, analysed>>

\* The order reaches the orderbook.
Create ==
  /\ taken # 0 /\ created = 0
  /\ created' = arrived
  /\ UNCHANGED <<request, served, taken, commit, analysed>>

----------------------------------------------------------------------------
(* The analysis *)

Forwarded == {forwarded[i] : i \in DOMAIN forwarded}

\* What the tables hold: the answers that arrived, and the prices of the window.
Recorded(price) ==
  [request EXCEPT !.ladder = SubSeq(@, 1, arrived), !.buyPrice = price]

\* Fault: the commit is placed at the creation of the order even if the user saw
\* a better answer before it.
HorizonAtCreation == created

\* Just before the next forwarded answer arrived or, after the last one, at creation.
Horizon ==
  LET after == {i \in Forwarded : i > taken}
  IN  IF after # {} THEN Earliest(after) - 1 ELSE created

\* Several rows, an answer that is not the winner, or no winner: it was a stream.
Streamed == Len(forwarded) >= 2 \/ winner # taken

\* link_by_quote_id and _stream_take, for the one order.
Link ==
  /\ created # 0 /\ stream # "open" /\ take = <<>>
  /\ take' = IF Streamed
             THEN [streamed |-> TRUE, taken |-> taken, horizon |-> Horizon,
                   complete |-> winner # 0]
             ELSE [streamed |-> FALSE, taken |-> taken, horizon |-> arrived,
                   complete |-> TRUE]
  /\ UNCHANGED <<request, served, ordered, removed, known, diff>>

\* The order stores the quote of the answer it took.
Quote == CounterfactualQuote(request, taken)

Diff ==
  /\ take # <<>> /\ diff = <<>>
  /\ removed' \in Removals
  /\ known' \in IF request.ranking = "autopilot" THEN {request.buyPrice, 0} ELSE {0}
  /\ \E suspect \in BOOLEAN :
       diff' = DiffQuote(Recorded(known'), take, Quote, suspect, removed')
  /\ UNCHANGED <<request, served, ordered, take>>

\* Nothing was ever shown, or the order is analysed.
Rest ==
  /\ (stream # "open" /\ forwarded = <<>>) \/ diff # <<>>
  /\ UNCHANGED vars

Next ==
  \/ Answer \/ Finish \/ Drop \/ Commit \/ Create
  \/ Link \/ Diff \/ Rest

\* The autopilot asks until every estimator has answered or the client is gone, and
\* the link goes through all orders; a user may never come back.
Fairness == WF_vars(Answer) /\ WF_vars(Finish) /\ WF_vars(Link)

Spec == Init /\ [][Next]_vars /\ Fairness

----------------------------------------------------------------------------
(* Properties *)

\* The variables hold what their comments say: what is recorded has arrived, in
\* order, and an order was placed from an answer that had been sent.
TypeOK ==
  /\ arrived \in 0..Len(request.ladder)
  /\ best = <<>> \/ best \in BOOLEAN \X Int
  /\ Forwarded \subseteq 1..arrived /\ winner \in 0..arrived
  /\ \A i, k \in DOMAIN forwarded : i < k => forwarded[i] < forwarded[k]
  /\ stream \in {"open", "finished", "dropped"}
  /\ taken \in Forwarded \cup {0} /\ commit \in taken..arrived /\ created \in 0..arrived
  /\ take # <<>> => IsTake(Recorded(known), take)
  /\ removed \subseteq Estimator /\ known \in Nat
  /\ diff # <<>> => diff.leaf \in Leaves /\ diff.replacement \in 0..arrived

\* The loop keeps a key and the abstract competition the whole ladder: what a stream
\* forwards is what would win if it ended there (replay_stream, pick), and it ends.
Competition ==
  INSTANCE QuoteCompetition WITH
    screen <- IF forwarded = <<>> THEN 0 ELSE forwarded[Len(forwarded)],
    over <- stream # "open"
StreamsTheStanding == Competition!Spec

Removing(R) == Remaining(request, R)
AllSendable(I) == \A i \in Usable(request, I) : Sendable(request, i)

\* Wherever the commit really was, the user of a stream saw the answer taken until
\* the reconstructed one: the horizon is the latest moment the record allows and
\* not later (_stream_take).
HorizonCoversCommit ==
  take # <<>> /\ take.streamed =>
    /\ commit <= take.horizon
    /\ \A h \in commit..take.horizon : Shown(request, DOMAIN request.ladder, h) = taken

Decided == diff # <<>> /\ diff.leaf \in Named \cup {"no_quote"}

\* Where the quoter would have sent every remaining answer, the replacement is what a
\* stream without the removed solvers would have had on the screen at the horizon, or
\* sent next; a one-shot request would have returned it (diff_quote).
ReplacementIsShown ==
  Decided /\ AllSendable(Removing(removed)) =>
    Replacement(Recorded(known), take, removed) =
      IF take.streamed THEN Shown(request, Removing(removed), take.horizon)
      ELSE Pick(request, Removing(removed))

\* A removal that does not reach the answer taken changes nothing the user of a stream
\* saw at the commit, if no removed answer was dropped by the quoter (diff_quote).
UnaffectedSawTheSame ==
  diff # <<>> /\ take.streamed /\ taken \in Removing(removed) =>
    /\ diff.leaf = "unaffected"
    /\ AllSendable(DOMAIN request.ladder \ Removing(removed)) =>
         Shown(request, Removing(removed), commit) = taken

\* A replacement is never ranked above the answer it replaces, unless the user had to
\* wait for it or the quoter drops it or a removed answer: a removal only takes
\* candidates away, so no improvement is an artefact of the ranking (delta_bps).
NeverABetterQuote ==
  Decided /\ diff.replacement # 0 /\ Beats(request, diff.replacement, taken) =>
    \/ take.streamed /\ diff.replacement > take.horizon
    \/ ~AllSendable({diff.replacement} \cup (1..arrived \ Removing(removed)))

\* `no_quote' is said only of an order whose user would have been sent nothing at
\* all: not by what is recorded, and not by what a dropped stream cancelled.
NoQuoteIsSilence ==
  diff # <<>> /\ diff.leaf = "no_quote" => Sent(request, Removing(removed)) = {}

\* If committing at the first and at the last moment gives the same replacement, so
\* does every moment between them: two commits bound the rest (commit_dependent).
CommitBracketed ==
  Decided /\ take.streamed /\ ~diff.dependent /\ AllSendable(Removing(removed)) =>
    \A h \in taken..take.horizon :
      Shown(request, Removing(removed), h) = Replacement(Recorded(known), take, removed)

\* Every order that was placed is linked in the end, whatever came in and in
\* whatever order: the loop skips no answer and waits for none.
OrdersAreLinked == created # 0 ~> take # <<>>

\* docs/quotes.md: removing anyone other than the estimator whose answer the order
\* took leaves it unaffected, exactly; what was not sent did not beat the one on screen.
UnaffectedExactly ==
  diff # <<>> /\ take.streamed /\ diff.leaf = "unaffected" =>
    Shown(request, Removing(removed), commit) = taken
=============================================================================
