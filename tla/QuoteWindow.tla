------------------------------ MODULE QuoteWindow ------------------------------
(***************************************************************************)
(* The quote side of one window, from load_quote_window to                   *)
(* QuoteWindow.analyse: the population of orders, the rows fetched in        *)
(* whatever order the database returns them, the two links and the re-quote  *)
(* pass behind the second, the price checks, the validation of the pick and  *)
(* of the stream rule, and the counters of one removal scenario.            *)
(***************************************************************************)
EXTENDS QuoteLink

CONSTANTS
  Windows,        \* the tables a window may hold
  CoverageStart,  \* the first recorded request
  LinkStart,      \* QUOTE_ID_LINK_START
  Ranking,
  Removals        \* sets of settlement addresses

\* A window as one run reads it: of the rows of a forwarded answer that is in
\* quote_computed twice, the last one fetched stands (computed, in link_by_quote_id).
LastFetched(rows) ==
  {kept \in SUBSET rows :
     /\ \A x, y \in kept : x.rid = y.rid /\ x.qid = y.qid => x = y
     /\ \A x \in rows : \E y \in kept : x.rid = y.rid /\ x.qid = y.qid}

Readings ==
  UNION {{[byRule |-> w.byRule, orders |-> w.orders, rows |-> w.rows, winning |-> w.winning,
           computed |-> kept, requests |-> w.requests] : kept \in LastFetched(w.computed)} :
           w \in Windows}

ASSUME QuoteWindowAssumption ==
  /\ \A w \in Windows : IsTables(w)
  /\ {CoverageStart, LinkStart} \subseteq Nat
  /\ Ranking \in {"effective-sell", "autopilot"}
  /\ \A R \in Removals : R \subseteq Address

VARIABLES
  window, pc,
  todo,         \* orders, or matches, the present loop has left, by position
  population,   \* the orders of the window
  left,         \* how many were dropped, how many precede the coverage
  unread,       \* the rows the database has not returned yet
  loaded,       \* the estimates fetched so far, one per request and estimator
  arrived,      \* when each of these came
  matches,      \* MatchedQuote: order, competition, take, tier and link
  requotable,   \* orders the id cannot place, each with its reason
  unlinked,     \* per reason, how many the quote-id link gave up
  validation, replayed,
  removed,      \* the estimators of the addresses removed
  analysis      \* the counters of QuoteAnalysis

read == <<unread, loaded, arrived>>
linked == <<matches, requotable, unlinked>>
checked == <<validation, replayed>>
analysed == <<removed, analysis>>
vars == <<window, pc, todo, population, left, unread, loaded, arrived, matches, requotable,
          unlinked, validation, replayed, removed, analysis>>

Tally == {"priceSuspect", "streams", "streamsReproduced", "requests", "withWinner", "mixed",
          "mixedCorrect", "unpriced", "tied", "reproduced", "tieMismatches", "disagreements"}

Counter == {"orders", "volume", "matched", "corroborated", "wins", "winsCorroborated",
            "streamWins", "dependent", "unrecorded", "unpriced", "nonpositive", "suspect",
            "implausible", "noQuoteAll", "noQuote", "flips", "degradedAll", "degradedVolumeAll",
            "degraded", "degradedVolume"}

Init ==
  /\ window \in Readings /\ pc = "populate"
  /\ todo = <<>> /\ population = {} /\ left = <<0, 0>>
  /\ unread = {} /\ loaded = <<>> /\ arrived = <<>>
  /\ matches = <<>> /\ requotable = <<>> /\ unlinked = [why \in Reason |-> 0]
  /\ validation = [t \in Tally |-> 0] /\ replayed = {}
  /\ removed = {} /\ analysis = [c \in Counter |-> 0]

----------------------------------------------------------------------------
(* The population, and the rows *)

All == DOMAIN window.orders
Order_(n) == window.orders[n]

Kept(n) == Order_(n).evaluable /\ Order_(n).created >= CoverageStart

Linkable == {n \in population : ~Order_(n).trivial}
ByHeuristic == {n \in Linkable : Order_(n).created < LinkStart}
ById == {n \in Linkable : Order_(n).created >= LinkStart}

\* load_recorded_quotes, and the orders that the quote data covers.
Populate ==
  /\ pc = "populate" /\ pc' = "fetch"
  /\ population' = {n \in All : Kept(n)}
  /\ left' = <<Cardinality({n \in All : ~Order_(n).evaluable}),
               Cardinality({n \in All : Order_(n).evaluable /\ ~Kept(n)})>>
  /\ unread' = {row \in window.rows : row.rid # 0}
  /\ UNCHANGED <<window, todo, loaded, arrived, linked, checked, analysed>>

\* load_ladders and link_by_quote_id take the rows as they come.
Fetch ==
  /\ pc = "fetch"
  /\ \E row \in unread : /\ unread' = unread \ {row}
                          /\ loaded' = KeepEarliest(loaded, row)
                          /\ arrived' = ArrivedAt(arrived, row)
  /\ UNCHANGED <<window, pc, todo, population, left, linked, checked, analysed>>

InOrder(S) == Arranged(S, {pair \in S \X S : pair[1] < pair[2]})

StartHeuristic ==
  /\ pc = "fetch" /\ unread = {}
  /\ pc' = "heuristic" /\ todo' = InOrder(ByHeuristic)
  /\ UNCHANGED <<window, population, left, read, linked, checked, analysed>>

----------------------------------------------------------------------------
(* The links *)

Current == Order_(Head(todo))

MatchedQuote(competition, take, tier, link) ==
  [order |-> Head(todo), competition |-> competition, take |-> take, tier |-> tier, link |-> link]

\* match_orders
MatchHeuristic ==
  /\ pc = "heuristic" /\ todo # <<>>
  /\ LET C == Candidates(window, loaded, Current)
     IN  IF C = {} THEN UNCHANGED matches
         ELSE \E c \in Preferable(Current, C) :
                matches' = Append(matches,
                  MatchedQuote(c, OneShot(c),
                    IF Corroborated(Current, c) THEN "corroborated" ELSE "heuristic",
                    "heuristic"))
  /\ todo' = Tail(todo)
  /\ UNCHANGED <<window, pc, population, left, read, requotable, unlinked, checked, analysed>>

StartById ==
  /\ pc = "heuristic" /\ todo = <<>>
  /\ pc' = "id" /\ todo' = InOrder(ById)
  /\ UNCHANGED <<window, population, left, read, linked, checked, analysed>>

IdRow == CHOOSE row \in Found(window, Current) : TRUE
IdCompetition == Competition(window, loaded, "raw", IdRow.rid)
IdPosition == PositionOf(IdCompetition, IdRow.who)
IdForwarded == Forwarded(window, IdCompetition)
IdReproduced == IdCompetition.ladder[IdPosition].out = Current.out

Streamed == Len(IdForwarded) >= 2 \/ IdCompetition.winner # IdPosition

\* Fault: what no row says was forwarded is given up.
NotKnownForwarded == Streamed /\ \A i \in DOMAIN IdForwarded : IdForwarded[i] # IdPosition

NotForwarded ==
  /\ Streamed /\ IdForwarded # <<>>
  /\ \A i \in DOMAIN IdForwarded : IdForwarded[i] # IdPosition

\* The id names an answer that reproduces the stored amount.
MatchById ==
  /\ pc = "id" /\ todo # <<>>
  /\ Found(window, Current) # {} /\ IdReproduced
  /\ IF NotForwarded
     THEN /\ unlinked' = [unlinked EXCEPT !["not a forwarded answer of its stream"] = @ + 1]
          /\ UNCHANGED matches
     ELSE /\ matches' = Append(matches,
               MatchedQuote(IdCompetition,
                 IF Streamed
                 THEN StreamTake(arrived, Current, IdCompetition, IdPosition, IdForwarded)
                 ELSE OneShot(IdCompetition), "corroborated", "quote-id"))
          /\ UNCHANGED unlinked
  /\ todo' = Tail(todo)
  /\ UNCHANGED <<window, pc, population, left, read, requotable, checked, analysed>>

\* It names none, or another amount: a re-quote may have priced the order.
DeferToRequote ==
  /\ pc = "id" /\ todo # <<>>
  /\ ~(Found(window, Current) # {} /\ IdReproduced)
  /\ requotable' = Append(requotable,
       <<Head(todo), CASE Current.qid = 0 -> "no quote id"
                       [] Current.qid # 0 /\ Found(window, Current) = {} ->
                            "id not in the competition record"
                       [] OTHER -> "stored quote not reproduced">>)
  /\ todo' = Tail(todo)
  /\ UNCHANGED <<window, pc, population, left, read, matches, unlinked, checked, analysed>>

StartRequotes ==
  /\ pc = "id" /\ todo = <<>>
  /\ pc' = "requote" /\ todo' = [i \in DOMAIN requotable |-> requotable[i][1]]
  /\ UNCHANGED <<window, population, left, read, linked, checked, analysed>>

\* Fault: a reason stands even if a re-quote placed the order.
LinkRequoteAndCount ==
  /\ pc = "requote" /\ todo # <<>>
  /\ \E anchor \in Nearest(Current, Anchors(window, Current)) :
       matches' = Append(matches, MatchedQuote(Requote(window, Current, anchor),
                          OneShot(Requote(window, Current, anchor)), "corroborated", "requote"))
  /\ unlinked' = [unlinked EXCEPT !["no quote id"] = @ + 1]
  /\ todo' = Tail(todo)
  /\ UNCHANGED <<window, pc, population, left, read, requotable, checked, analysed>>

\* _link_requotes: the nearest anchor, with its siblings as the ladder.
LinkRequote ==
  /\ pc = "requote" /\ todo # <<>>
  /\ \E anchor \in Nearest(Current, Anchors(window, Current)) :
       LET competition == Requote(window, Current, anchor)
       IN  matches' = Append(matches,
             MatchedQuote(competition, OneShot(competition), "corroborated", "requote"))
  /\ todo' = Tail(todo)
  /\ UNCHANGED <<window, pc, population, left, read, requotable, unlinked, checked, analysed>>

\* Nothing reproduces the amount: the reason stands.
LeaveUnlinked ==
  /\ pc = "requote" /\ todo # <<>>
  /\ Anchors(window, Current) = {}
  /\ LET why == (CHOOSE c \in ToSet(requotable) : c[1] = Head(todo))[2]
     IN  unlinked' = [unlinked EXCEPT ![why] = @ + 1]
  /\ todo' = Tail(todo)
  /\ UNCHANGED <<window, pc, population, left, read, matches, requotable, checked, analysed>>

----------------------------------------------------------------------------
(* The price checks and validate_picks *)

Suspects == {n \in population : PriceSuspect(Order_(n)) \/ Imbalanced(Order_(n))}

StartValidation ==
  /\ pc = "requote" /\ todo = <<>>
  /\ pc' = "validate" /\ todo' = [i \in DOMAIN matches |-> i]
  /\ UNCHANGED <<window, population, left, read, linked, checked, analysed>>

Match == matches[Head(todo)]
Request == Priced(Order_(Match.order), Match.competition, Ranking)
Winner == RecordedWinner(Match.competition)
Verified == {i \in Usable(Request, DOMAIN Request.ladder) : Request.ladder[i].verified}

ForwardedOf(match) == Forwarded(window, match.competition)

\* Fault: a dropped stream is compared with all that the replay forwards.
ReplayedInFull ==
  ForwardedOf(Match) = InOrder(Sent(Request, DOMAIN Request.ladder))

\* What a dropped stream forwarded is a prefix of the replay.
Replayed ==
  LET ours == InOrder(Sent(Request, DOMAIN Request.ladder))
      recorded == ForwardedOf(Match)
  IN  /\ IsPrefix(recorded, ours)
      /\ Match.take.complete => Len(ours) = Len(recorded)

ReplayDue ==
  /\ Ranking = "effective-sell" /\ Match.take.streamed
  /\ Len(ForwardedOf(Match)) >= 2 /\ Match.competition.rid \notin replayed

One(condition) == IF condition THEN 1 ELSE 0

Tied ==
  \E i \in IF Request.ladder[Winner].verified THEN Verified
           ELSE Usable(Request, DOMAIN Request.ladder) :
    i # Winner /\ Key(Request, i) = Key(Request, Winner)

\* Before the pick: the suspects, the replays, and the requests with a winner.
Counts ==
  IF Match.order \in Suspects THEN [t \in Tally |-> One(t = "priceSuspect")]
  ELSE [t \in Tally |->
          CASE t = "streams" -> One(ReplayDue)
            [] t = "streamsReproduced" -> One(ReplayDue /\ Replayed)
            [] t = "requests" -> 1
            [] t = "withWinner" -> One(Winner # 0)
            [] OTHER -> 0]

PickTally ==
  LET ours == Pick(Request, DOMAIN Request.ladder)
      usable == Usable(Request, DOMAIN Request.ladder)
      mixed == Verified # {} /\ Verified # usable
      equivalent == /\ Tied /\ Key(Request, ours) = Key(Request, Winner)
                    /\ Request.ladder[ours].verified = Request.ladder[Winner].verified
  IN  [Counts EXCEPT
         !["mixed"] = One(mixed),
         !["mixedCorrect"] = One(mixed /\ Winner \in Verified),
         !["unpriced"] = One(Unpriced(Request)),
         !["tied"] = One(~Unpriced(Request) /\ Tied),
         !["reproduced"] = One(~Unpriced(Request) /\ ours = Winner),
         !["tieMismatches"] = One(~Unpriced(Request) /\ ours # Winner /\ equivalent),
         !["disagreements"] = One(~Unpriced(Request) /\ ours # Winner /\ ~equivalent)]

Validate ==
  /\ pc = "validate" /\ todo # <<>>
  /\ LET tally == IF Match.order \in Suspects \/ Winner = 0 THEN Counts ELSE PickTally
     IN  validation' = [t \in Tally |-> validation[t] + tally[t]]
  /\ replayed' = IF Match.order \notin Suspects /\ ReplayDue
                 THEN replayed \cup {Match.competition.rid} ELSE replayed
  /\ todo' = Tail(todo)
  /\ UNCHANGED <<window, pc, population, left, read, linked, analysed>>

----------------------------------------------------------------------------
(* QuoteWindow.analyse *)

Clean == population \ Suspects

MatchesBy(links) == {i \in DOMAIN matches : matches[i].link \in links}

\* The address of an estimator by the heuristic: whom the orders name that it priced.
HeuristicVotes(who, a) ==
  Cardinality({i \in MatchesBy({"heuristic"}) :
    LET c == matches[i].competition
    IN  /\ matches[i].tier = "corroborated"
        /\ c.rows[RecordedWinner(c)].who = who /\ Order_(matches[i].order).solver = a})

\* By the id: the rows of the requests that an id names, and those around each anchor.
IdVotes(who, a) ==
  LET requests == {row.rid : row \in UNION {Found(window, Order_(n)) : n \in ById}}
      votes(rows) == Cardinality({row \in rows : row.who = who /\ row.solver = a})
      around(i) == Near(window, Order_(matches[i].order), matches[i].competition.anchor)
  IN  votes({row \in window.rows : row.layer = "raw" /\ row.rid \in requests})
        + SumFunction([i \in MatchesBy({"requote"}) |-> votes(around(i))])

\* What the id says of an estimator replaces what the heuristic does.
Votes(who, a) ==
  IF \E b \in Address : IdVotes(who, b) > 0 THEN IdVotes(who, a) ELSE HeuristicVotes(who, a)

\* The address with the most votes, of equal ones the first seen, which may be any.
Leading(who) ==
  {a \in Address : Votes(who, a) > 0 /\ \A b \in Address : Votes(who, b) <= Votes(who, a)}

EstimatorMaps ==
  LET mapped == {who \in Estimator : Leading(who) # {}}
  IN  {map \in [mapped -> Address] : \A who \in mapped : map[who] \in Leading(who)}

EstimatorsOf(map, addresses) == {who \in DOMAIN map : map[who] \in addresses}

\* A scenario that never won a quote we could attribute is not diffed.
StartAnalysis ==
  /\ pc = "validate" /\ todo = <<>>
  /\ \E map \in EstimatorMaps, addresses \in Removals : removed' = EstimatorsOf(map, addresses)
  /\ analysis' = [analysis EXCEPT !["orders"] = Cardinality(Clean),
                    !["volume"] = SumFunction([n \in Clean |-> Volume(Order_(n))])]
  /\ pc' = "analyse"
  /\ todo' = IF removed' = {} THEN <<>> ELSE [i \in DOMAIN matches |-> i]
  /\ UNCHANGED <<window, population, left, read, linked, checked>>

\* Fault: an order with a broken price is diffed like any other.
DiffOfAny(match) ==
  DiffQuote(Priced(Order_(match.order), match.competition, Ranking), match.take,
            QuoteOf(Order_(match.order)), FALSE, removed)

DiffOf(match) ==
  DiffQuote(Priced(Order_(match.order), match.competition, Ranking), match.take,
            QuoteOf(Order_(match.order)), match.order \in Suspects, removed)

\* QuoteAnalysis.add
Added(match, diff) ==
  LET leaf == diff.leaf
      sure == match.tier = "corroborated"
      win == leaf # "unaffected"
      volume == Volume(Order_(match.order))
  IN  [c \in Counter |->
         CASE c = "matched" -> 1
           [] c = "corroborated" -> One(sure)
           [] c = "wins" -> One(win)
           [] c = "winsCorroborated" -> One(win /\ sure)
           [] c = "streamWins" -> One(win /\ match.take.streamed)
           [] c = "dependent" -> One(win /\ diff.dependent)
           [] c = "unrecorded" -> One(leaf = "unrecorded")
           [] c = "unpriced" -> One(leaf = "unpriced")
           [] c = "nonpositive" -> One(leaf = "nonpositive")
           [] c = "suspect" -> One(leaf = "price_suspect")
           [] c = "implausible" -> One(leaf = "implausible")
           [] c = "noQuoteAll" -> One(leaf = "no_quote")
           [] c = "noQuote" -> One(leaf = "no_quote" /\ sure)
           [] c = "flips" -> One(leaf = "class_flip")
           [] c = "degradedAll" -> One(leaf = "degraded")
           [] c = "degradedVolumeAll" -> IF leaf = "degraded" THEN volume ELSE 0
           [] c = "degraded" -> One(leaf = "degraded" /\ sure)
           [] c = "degradedVolume" -> IF leaf = "degraded" /\ sure THEN volume ELSE 0
           [] OTHER -> 0]

Add ==
  /\ pc = "analyse" /\ todo # <<>>
  /\ LET added == Added(Match, DiffOf(Match))
     IN  analysis' = [c \in Counter |-> analysis[c] + added[c]]
  /\ todo' = Tail(todo)
  /\ UNCHANGED <<window, pc, population, left, read, linked, checked, removed>>

\* Fault: heuristic matches are charged too.
ChargedInAnyTier ==
  {<<m.order, DiffOf(m).quote>> : m \in {x \in ToSet(matches) : DiffOf(x).quote # <<>>}}

\* counterfactual_quotes: what the fee path charges instead.
CounterfactualQuotes ==
  {<<m.order, DiffOf(m).quote>> :
     m \in {x \in ToSet(matches) : DiffOf(x).quote # <<>> /\ x.tier = "corroborated"}}

Done == pc = "analyse" /\ todo = <<>>
Returned == Done /\ UNCHANGED vars

Next ==
  \/ Populate \/ Fetch
  \/ StartHeuristic \/ MatchHeuristic
  \/ StartById \/ MatchById \/ DeferToRequote
  \/ StartRequotes \/ LinkRequote \/ LeaveUnlinked
  \/ StartValidation \/ Validate
  \/ StartAnalysis \/ Add \/ Returned

Spec == Init /\ [][Next]_vars

----------------------------------------------------------------------------
(* Properties *)

Matched == {matches[i] : i \in DOMAIN matches}
FetchedAll == pc \notin {"populate", "fetch"}

\* Whatever order the database returns the rows in and however often, a ladder holds the
\* first answer of each estimator, in the order of arrival (_keep_earliest, _ladders).
LadderAsArrived ==
  FetchedAll => \A layer \in Layer, rid \in DOMAIN window.requests :
    LET rows == Rows(loaded, layer, rid)
        answers == {row \in window.rows : row.layer = layer /\ row.rid = rid}
    IN  /\ ToSet(rows) = {row \in answers :
                            \A x \in answers : x.who = row.who => row.seq <= x.seq}
        /\ \A i, k \in DOMAIN rows : i < k => rows[i].seq <= rows[k].seq

\* Every order of the period is dropped, before the coverage, trivial, or goes through
\* exactly one link, and one the quote-id link does not place has one reason: an order
\* counted twice, or in none, would move the shares (load_quote_window, LinkStats).
EveryOrderAccounted ==
  Done =>
    /\ Cardinality(All) = left[1] + left[2] + Cardinality(population)
    /\ \A i \in DOMAIN matches : matches[i].order \in Linkable
    /\ \A i, k \in DOMAIN matches : matches[i].order = matches[k].order => i = k
    /\ Cardinality(ById) = Cardinality(MatchesBy({"quote-id", "requote"}))
                             + SumFunction(unlinked)

\* The first raw answer of each estimator to each request.
FirstAnswers ==
  LET raw == {row \in window.rows : row.layer = "raw" /\ row.rid # 0}
  IN  {row \in raw : \A x \in raw : Slot(x) = Slot(row) => row.seq <= x.seq}

\* Those that the id of an order names and that reproduce its stored amount.
NamedAnswers(o) ==
  {x \in FirstAnswers : x.out = o.out /\ \E row \in Found(window, o) : Slot(row) = Slot(x)}

\* The estimators of which a request is recorded to have forwarded an answer.
Forwarders(rid) ==
  {row.who : row \in UNION {RowsNamed(window, rid, x.qid) :
                              x \in {y \in window.computed : y.rid = rid}}}

\* An order is left unlinked for a cause that is in the tables: the answer that its id
\* names is of another amount, and no re-quote won with this one; or the request forwarded
\* other answers and not this one.  A row written twice, a winner without a row or a
\* forwarding nobody recorded loses no order (link_by_quote_id).
LinkedWhereRecorded ==
  Done => \A n \in ById :
    \/ \E i \in DOMAIN matches : matches[i].order = n
    \/ NamedAnswers(Order_(n)) = {} /\ Anchors(window, Order_(n)) = {}
    \/ /\ NamedAnswers(Order_(n)) # {}
       /\ \A x \in NamedAnswers(Order_(n)) :
            Forwarders(x.rid) # {} /\ x.who \notin Forwarders(x.rid)

\* A request of the heuristic may name two winners of which one has a value, and the
\* re-quotes around an anchor are told from other ones by span and time only.
OneAnswerEach(match) ==
  /\ match.link = "heuristic" => \A i, k \in match.competition.marked : i = k
  /\ match.link = "requote" =>
       \A row \in SameMarket(window, Order_(match.order)) :
         \A x \in SameMarket(window, Order_(match.order)) : x.who = row.who => x = row

\* A corroborated match names the answer the order carries, and one its user can have
\* had: it reproduces the stored amount and was forwarded, or won (MatchedQuote.tier).
TakenIsWhatTheOrderCarries ==
  \A match \in Matched : match.tier = "corroborated" /\ OneAnswerEach(match) =>
    LET taken == match.take.taken
    IN  /\ taken # 0
        /\ match.competition.ladder[taken].out = Order_(match.order).out
        /\ \/ taken \in match.competition.marked
           \/ taken \in ToSet(ForwardedOf(match)) \/ ForwardedOf(match) = <<>>

(***************************************************************************)
(* What `byRule' says of a competition, with the prices of the order `o':    *)
(* a recorded winner is the pick, and a stream forwarded what it would send  *)
(* of the answers up to some m, which are all of them if it has a winner.    *)
(***************************************************************************)
Decided(w, o, competition) ==
  LET q == Priced(o, competition, Ranking)
      D == DOMAIN q.ladder
      forwarded == Forwarded(w, competition)
  IN  /\ IsRequest(q)
      /\ RecordedWinner(competition) # 0 =>
           ~Unpriced(q) /\ RecordedWinner(competition) = Pick(q, D)
      /\ Len(forwarded) >= 2 =>
           \E m \in 0..Len(q.ladder) :
             /\ forwarded = InOrder({i \in Sent(q, D) : i <= m})
             /\ competition.complete => m = Len(q.ladder)

\* Every row fetched: the first one of each request and estimator.
AllLoaded(w) ==
  LET first(k) == CHOOSE row \in w.rows :
                    Slot(row) = k /\ \A x \in w.rows : Slot(x) = k => row.seq <= x.seq
  IN  [k \in {Slot(row) : row \in {r \in w.rows : r.rid # 0}} |-> [row |-> first(k), nth |-> 0]]

\* The arrivals of a request are told apart, and whatever competition a link may give an
\* order that has no broken price was decided so.
RuleDecides(w) ==
  /\ \A x, y \in w.rows : x.rid # 0 /\ x.layer = y.layer /\ x.rid = y.rid /\ x.seq = y.seq => x = y
  /\ \A n \in DOMAIN w.orders :
       LET o == w.orders[n]
       IN  \/ PriceSuspect(o) \/ Imbalanced(o)
           \/ /\ \A c \in Candidates(w, AllLoaded(w), o) : Decided(w, o, c)
              /\ \A row \in Found(w, o) :
                   Decided(w, o, Competition(w, AllLoaded(w), "raw", row.rid))
              /\ \A anchor \in Anchors(w, o) : Decided(w, o, Requote(w, o, anchor))

ASSUME ByRuleAssumption == \A w \in Readings : w.byRule => RuleDecides(w)

\* Where the rule itself decided the competitions, the validation reports no deviation:
\* not for a stream that was dropped, a row that was written twice, an order with a
\* broken price, or an answer the user took before the winner came (validate_picks).
RuleAccusesNobody ==
  window.byRule =>
    /\ validation["disagreements"] = 0 /\ validation["tieMismatches"] = 0
    /\ validation["streamsReproduced"] = validation["streams"]
    /\ validation["mixedCorrect"] = validation["mixed"]

LeafCounters == {"unrecorded", "unpriced", "nonpositive", "suspect", "implausible",
                 "noQuoteAll", "flips", "degradedAll"}

\* The leaves partition the quote wins, and what a share counts is within what it is a
\* share of: an order with a broken price is on neither side (add, clean_orders).
SharesAreShares ==
  /\ analysis["wins"] = SumFunctionOnSet(analysis, LeafCounters)
  /\ analysis["noQuote"] + analysis["degraded"] <= analysis["winsCorroborated"]
  /\ analysis["noQuoteAll"] + analysis["flips"] + analysis["degradedAll"] <= analysis["orders"]
  /\ analysis["degradedVolumeAll"] <= analysis["volume"]

\* The fee path gets at most one quote per order, for clean and corroborated orders only:
\* exactly those of the headline and of the class flips (counterfactual_quotes).
ChargedOnce ==
  Done =>
    /\ \A x, y \in CounterfactualQuotes : x[1] = y[1] => x = y
    /\ {x[1] : x \in CounterfactualQuotes} \subseteq Clean
    /\ Cardinality(CounterfactualQuotes)
         \in analysis["degraded"] .. analysis["degraded"] + analysis["flips"]
=============================================================================
