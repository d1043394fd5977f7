--------------------------- MODULE ArbitrationProofs ---------------------------
(***************************************************************************)
(* Theorems about Arbitration for every set of auctions.  IInv is shown     *)
(* inductive part by part: its typing alone, then what the filter has       *)
(* judged, what the pick has chosen, the winners, the references, the guess. *)
(***************************************************************************)
EXTENDS Validation, Valuation, WinnerSelectionProofs, Sums

\* Types are right to begin with.
LEMMA TypeInit == Init => TypeInv
<1>. SUFFICES ASSUME Init PROVE TypeInv
  OBVIOUS
<1>1. IsAuction(bids) /\ DOMAIN bids \subseteq Uid
  BY AuctionsAssumption DEF Init, IsAuction
<1>2. DOMAIN references = {}
  BY DEF Init
<1>3. baselines \in [Pair -> Nat]
  BY DEF Init
<1>. QED  BY <1>1, <1>2, <1>3 DEF Init, TypeInv, TypeOK, Awarded

\* Types stay right in the loops of arbitrate.
LEMMA TypeStepRank ==
  ASSUME TypeInv, NEW u,
         ScoreBaseline(u) \/ DropWorthless \/ Judge(u) \/ StartRank \/ Rank
  PROVE  TypeInv'
<1>1. CASE ScoreBaseline(u)
  <2>1. u \in DOMAIN bids /\ bids[u].total \in Nat
    BY <1>1 DEF ScoreBaseline, TypeInv, TypeOK, IsAuction, IsSolution
  <2>2. baselines' \in [Pair -> Nat]
    BY <1>1, <2>1 DEF ScoreBaseline, TypeInv, TypeOK
  <2>. QED  BY <1>1, <2>2 DEF ScoreBaseline, TypeInv, TypeOK, Awarded, ranking, picking, results
<1>2. CASE DropWorthless
  BY <1>2 DEF DropWorthless, TypeInv, TypeOK, Awarded, ranking, picking, results
<1>3. CASE Judge(u)
  <2>1. u \in DOMAIN bids
    BY <1>3 DEF Judge, FirstOf, TypeInv, TypeOK
  <2>2. proxied' \subseteq discarded'
    BY <1>3 DEF Judge, IsFair, FilterProxied, TypeInv, TypeOK
  <2>3. kept' \subseteq DOMAIN bids /\ discarded' \subseteq DOMAIN bids /\ kept \subseteq kept'
    BY <1>3, <2>1 DEF Judge, TypeInv, TypeOK
  <2>. QED  BY <1>3, <2>2, <2>3 DEF Judge, TypeInv, TypeOK, Awarded, picking, results
<1>4. CASE StartRank
  <2>1. todo' = Candidates' /\ chosen' = {} /\ caller' = "rank"
    BY <1>4 DEF StartRank, CallPick, Candidates, ranking
  <2>. QED  BY <1>4, <2>1 DEF StartRank, CallPick, TypeInv, TypeOK, Awarded, ranking, results
<1>5. CASE Rank
  <2>1. chosen \subseteq kept
    BY <1>5 DEF Rank, Picked, Candidates, TypeInv
  <2>. QED  BY <1>5, <2>1 DEF Rank, Picked, TypeInv, TypeOK, Awarded, picking
<1>. QED  BY <1>1, <1>2, <1>3, <1>4, <1>5

\* Types stay right in the loop of pick_winners.
LEMMA TypeStepPick ==
  ASSUME TypeInv, NEW u, Consider(u) \/ StopPick
  PROVE  TypeInv'
<1>1. CASE Consider(u)
  <2>1. u \in todo /\ u \in DOMAIN bids /\ bids[u].claims \subseteq Pair
    BY <1>1 DEF Consider, FirstOf, TypeInv, TypeOK, IsAuction, IsSolution
  <2>2. /\ chosen' \subseteq (chosen \cup {u})
        /\ claimed' \subseteq Pair
        /\ todo' = todo \ {u}
    BY <1>1, <2>1 DEF Consider, TypeInv, TypeOK
  <2>3. Candidates' = Candidates
    BY <1>1 DEF Consider, Candidates, Restored, ranking, results
  <2>. QED  BY <1>1, <2>1, <2>2, <2>3 DEF Consider, TypeInv, TypeOK, Awarded, ranking, results
<1>2. CASE StopPick
  <2>1. Candidates' = Candidates
    BY <1>2 DEF StopPick, Candidates, Restored, ranking, results, picking
  <2>. QED  BY <1>2, <2>1 DEF StopPick, TypeInv, TypeOK, Awarded, ranking, results, picking
<1>. QED  BY <1>1, <1>2

\* Types stay right in the walk over `ranked'.
LEMMA TypeStepReference ==
  ASSUME TypeInv, NEW u, PassBy(u) \/ LeaveOut(u) \/ Reference
  PROVE  TypeInv'
<1>1. CASE PassBy(u)
  BY <1>1 DEF PassBy, TypeInv, TypeOK, Awarded, ranking, picking
<1>2. CASE LeaveOut(u)
  <2>1. u \in winners /\ u \in DOMAIN bids /\ bids[u].solver \in Solver
    BY <1>2 DEF LeaveOut, FirstOf, TypeInv, TypeOK, IsAuction, IsSolution
  <2>2. leaving' = {bids[u].solver} /\ leaving' \subseteq Bidders(bids, winners) \ DOMAIN references
    BY <1>2, <2>1 DEF LeaveOut, Bidders
  <2>3. todo' = Candidates' /\ chosen' = {} /\ caller' = "reference"
    BY <1>2 DEF LeaveOut, CallPick, Candidates, ranking
  <2>. QED  BY <1>2, <2>1, <2>2, <2>3 DEF LeaveOut, CallPick, TypeInv, TypeOK, Awarded, ranking
<1>3. CASE Reference
  <2>1. leaving # {} /\ leaving \subseteq Bidders(bids, winners) /\ chosen \subseteq kept
    BY <1>3 DEF Reference, Picked, Candidates, TypeInv
  <2>2. DOMAIN references' = DOMAIN references \cup leaving
    BY <1>3 DEF Reference
  <2>3. \A s \in DOMAIN references' : references'[s] \subseteq kept
    BY <1>3, <2>1, <2>2 DEF Reference, TypeInv, TypeOK
  <2>. QED  BY <1>3, <2>1, <2>2, <2>3 DEF Reference, Picked, TypeInv, TypeOK, Awarded, ranking, picking
<1>. QED  BY <1>1, <1>2, <1>3

\* Types stay right in filter_guess_could_matter.
LEMMA TypeStepGuess ==
  ASSUME TypeInv, NoGuess \/ RestoreGuesses \/ Guess
  PROVE  TypeInv'
<1>1. CASE NoGuess
  BY <1>1 DEF NoGuess, ReferencesDone, TypeInv, TypeOK, Awarded, ranking, picking
<1>2. CASE RestoreGuesses
  <2>1. todo' = Candidates' /\ chosen' = {} /\ caller' = "guess"
    BY <1>2 DEF RestoreGuesses, CallPick, Candidates, Restored, ranking
  <2>2. todo' \subseteq DOMAIN bids
    BY <1>2 DEF RestoreGuesses, CallPick, Restored, TypeInv, TypeOK
  <2>. QED  BY <1>2, <2>1, <2>2
            DEF RestoreGuesses, ReferencesDone, CallPick, TypeInv, TypeOK, Awarded, ranking, results
<1>3. CASE Guess
  BY <1>3 DEF Guess, Picked, TypeInv, TypeOK, Awarded, ranking, picking
<1>. QED  BY <1>1, <1>2, <1>3

LEMMA TypeStep == TypeInv /\ [Next]_vars => TypeInv'
<1>. SUFFICES ASSUME TypeInv, [Next]_vars PROVE TypeInv'
  OBVIOUS
<1>1. CASE UNCHANGED vars
  BY <1>1 DEF TypeInv, TypeOK, Awarded, Candidates, Restored, vars
<1>2. CASE Returned
  BY <1>1, <1>2 DEF Returned
<1>. QED  BY <1>1, <1>2, TypeStepRank, TypeStepPick, TypeStepReference, TypeStepGuess DEF Next

\* The state of the arbitration of any auction is of the declared type.
THEOREM TypeCorrect == Spec => []TypeOK
<1>1. Spec => []TypeInv
  BY TypeInit, TypeStep, PTL DEF Spec
<1>2. TypeInv => TypeOK
  BY DEF TypeInv
<1>. QED  BY <1>1, <1>2, PTL

----------------------------------------------------------------------------
(* The filter *)

LEMMA FilterInit == Init => FilterInv
<1>. SUFFICES ASSUME Init PROVE FilterInv
  OBVIOUS
<1>. DEFINE none == [u \in {} |-> bids[u]]
<1>1. \A p \in Pair : {none[u].total : u \in {v \in DOMAIN none : SetsBaseline(none, v, p)}} = {}
  OBVIOUS
<1>2. IsBaseline(none, baselines)
  BY <1>1 DEF Init, IsBaseline
<1>3. DOMAIN bids \ todo = {}
  BY DEF Init
<1>. QED  BY <1>2, <1>3 DEF Init, FilterInv

\* What the filter knows once it has judged everything is not touched again.
LEMMA FilterSettled ==
  ASSUME FilterInv, UNCHANGED ranking \/ UNCHANGED <<bids, baselines, kept, discarded, proxied>>,
         pc \notin {"baselines", "filter"}, pc' \notin {"baselines", "filter"}
  PROVE  FilterInv'
BY DEF FilterInv, ranking

\* One more bid is scored against the baseline of the pair it trades.
LEMMA BaselineStep ==
  ASSUME TypeInv, FilterInv, NEW u, ScoreBaseline(u)
  PROVE  FilterInv'
<1>. DEFINE visited == DOMAIN bids \ todo
            old == [v \in visited |-> bids[v]]
            new == [v \in visited \cup {u} |-> bids[v]]
            worth(c, p) == {0} \cup {c[v].total : v \in {w \in DOMAIN c : SetsBaseline(c, w, p)}}
<1>1. u \in DOMAIN bids /\ u \in todo /\ bids[u].total \in Nat /\ todo \subseteq DOMAIN bids
  BY DEF ScoreBaseline, TypeInv, TypeOK, IsAuction, IsSolution
<1>2. DOMAIN bids' \ todo' = visited \cup {u} /\ bids' = bids
  BY <1>1 DEF ScoreBaseline
<1>3. ASSUME NEW p \in Pair
      PROVE  baselines'[p] \in worth(new, p) /\ \A x \in worth(new, p) : x <= baselines'[p]
  <2>1. baselines[p] \in worth(old, p) /\ \A x \in worth(old, p) : x <= baselines[p]
    BY DEF FilterInv, ScoreBaseline, IsBaseline
  <2>2. worth(new, p) = worth(old, p) \cup (IF SetsBaseline(bids, u, p) THEN {bids[u].total} ELSE {})
    BY DEF SetsBaseline
  <2>3. baselines[p] \in Nat
    BY DEF TypeInv, TypeOK
  <2>4. worth(old, p) \subseteq Nat
    <3>1. \A v \in visited : bids[v].total \in Nat
      BY DEF TypeInv, TypeOK, IsAuction, IsSolution
    <3>2. DOMAIN old = visited /\ \A v \in visited : old[v] = bids[v]
      OBVIOUS
    <3>3. \A v \in DOMAIN old : old[v].total \in Nat
      BY <3>1, <3>2
    <3>. HIDE DEF old, visited
    <3>. QED  BY <3>3
  <2>5. baselines'[p] = IF SetsBaseline(bids, u, p) /\ bids[u].total > baselines[p]
                        THEN bids[u].total ELSE baselines[p]
    BY DEF ScoreBaseline
  <2>. HIDE DEF worth
  <2>. QED  BY <1>1, <2>1, <2>2, <2>3, <2>4, <2>5
<1>4. IsBaseline(new, baselines')
  BY <1>3 DEF IsBaseline
<1>. QED  BY <1>2, <1>4 DEF FilterInv, ScoreBaseline

\* The filter starts on the solutions of some value with the final baselines.
LEMMA DropStep ==
  ASSUME TypeInv, FilterInv, DropWorthless
  PROVE  FilterInv'
BY DEF DropWorthless, FilterInv, ranking

\* A bid is marked exactly if the fallback decided against it.
LEMMA MarkedAreDiscarded ==
  ASSUME NEW s, IsSolution(s), NEW base
  PROVE  Cardinality(Traded(s)) > 1 /\ FilterProxied(s, base)
           <=> ~IsFair(s, base) /\ FilterProxied(s, base)
<1>1. Cardinality(Traded(s)) > 1 /\ FilterProxied(s, base) => ~IsFair(s, base)
  BY DEF FilterProxied, IsFair
<1>2. ASSUME FilterProxied(s, base), ~IsFair(s, base)
      PROVE  Cardinality(Traded(s)) > 1
  <2>1. Traded(s) # {}
    BY <1>2 DEF FilterProxied
  <2>2. IsFiniteSet(Traded(s)) /\ Cardinality(Traded(s)) \in Nat
    BY WinnerSelectionAssumption, FS_Subset, FS_CardinalityType DEF Traded, IsSolution, IsPairValues
  <2>3. Cardinality(Traded(s)) # 0 /\ Cardinality(Traded(s)) # 1
    BY <1>2, <2>1, <2>2, FS_EmptySet DEF IsFair
  <2>. QED  BY <2>2, <2>3
<1>. QED  BY <1>1, <1>2

\* One more bid is judged.
LEMMA JudgeStep ==
  ASSUME TypeInv, FilterInv, NEW u, Judge(u)
  PROVE  FilterInv'
<1>. DEFINE valuable == {v \in DOMAIN bids : bids[v].total # 0}
            fair(v) == IsFair(bids[v], baselines)
            mark(v) == FilterProxied(bids[v], baselines)
<1>1. /\ pc = "filter" /\ pc' = "filter" /\ bids' = bids /\ baselines' = baselines
      /\ todo' = todo \ {u} /\ u \in todo
  BY DEF Judge, FirstOf
<1>2. /\ todo \subseteq valuable
      /\ kept = {v \in valuable \ todo : fair(v)}
      /\ discarded = (valuable \ todo) \ kept
      /\ proxied = {v \in discarded : mark(v)}
  BY <1>1 DEF FilterInv
<1>3. /\ kept' = IF fair(u) THEN kept \cup {u} ELSE kept
      /\ discarded' = IF fair(u) THEN discarded ELSE discarded \cup {u}
  BY DEF Judge
<1>4. proxied' = IF ~fair(u) /\ mark(u) THEN proxied \cup {u} ELSE proxied
  <2>1. IsSolution(bids[u])
    BY <1>1 DEF TypeInv, TypeOK, IsAuction
  <2>. QED  BY <2>1, MarkedAreDiscarded DEF Judge
<1>. HIDE DEF fair, mark
<1>5. valuable \ todo' = (valuable \ todo) \cup {u}
  BY <1>1, <1>2
<1>6. kept' = {v \in valuable \ todo' : fair(v)}
  BY <1>2, <1>3, <1>5
<1>7. discarded' = (valuable \ todo') \ kept'
  BY <1>1, <1>2, <1>3, <1>5
<1>8. proxied' = {v \in discarded' : mark(v)}
  BY <1>1, <1>2, <1>3, <1>4
<1>9. todo' \subseteq valuable
  BY <1>1, <1>2
<1>. QED  BY <1>1, <1>6, <1>7, <1>8, <1>9 DEF FilterInv, fair, mark

LEMMA FilterStep == TypeInv /\ FilterInv /\ [Next]_vars => FilterInv'
<1>. SUFFICES ASSUME TypeInv, FilterInv, [Next]_vars PROVE FilterInv'
  OBVIOUS
<1>1. CASE UNCHANGED vars \/ Returned
  BY <1>1 DEF Returned, FilterInv, vars
<1>2. CASE \E u \in Uid : Consider(u) \/ PassBy(u) \/ LeaveOut(u)
  BY <1>2, FilterSettled DEF Consider, PassBy, LeaveOut, CallPick
<1>3. CASE StopPick \/ Rank \/ Reference \/ NoGuess \/ RestoreGuesses \/ Guess
  BY <1>3, FilterSettled DEF StopPick, Rank, Reference, NoGuess, RestoreGuesses, Guess,
     CallPick, Picked, ReferencesDone
<1>4. CASE StartRank
  BY <1>4 DEF StartRank, CallPick, FilterInv, ranking
<1>. QED  BY <1>1, <1>2, <1>3, <1>4, BaselineStep, DropStep, JudgeStep DEF Next

----------------------------------------------------------------------------
(* The pick *)

\* A pick begins with nothing chosen and everything to walk.
LEMMA PickStarts ==
  ASSUME chosen' = {}, claimed' = {}, todo' = Candidates'
  PROVE  PickInv'
BY FS_EmptySet, WinnerSelectionAssumption DEF PickInv

\* A bid walked later has no say in whether a bid wins.
LEMMA LaterBidsDoNotMatter ==
  ASSUME NEW b, IsAuction(b), NEW T, NEW W, NEW u \in DOMAIN b, NEW v \in DOMAIN b,
         Before(b, T, u, v)
  PROVE  Free(b, T, W \cup {v}, u) <=> Free(b, T, W, u)
<1>1. ~Before(b, T, v, u)
  BY BeforeAsymmetric
<1>2. {w \in W \cup {v} : Before(b, T, w, u)} = {w \in W : Before(b, T, w, u)}
  BY <1>1
<1>. QED  BY <1>2 DEF Free

\* One turn of the loop decides one more bid as the greedy pick does.
LEMMA ConsiderStep ==
  ASSUME TypeInv, PickInv, NEW u, Consider(u)
  PROVE  PickInv'
<1>. DEFINE walked == Candidates \ todo
<1>1. /\ pc = "pick" /\ Candidates' = Candidates /\ Head' = Head /\ bids' = bids
      /\ todo' = todo \ {u} /\ u \in todo /\ u \in Candidates /\ u \notin chosen
      /\ \A v \in todo \ {u} : Before(bids, Head, u, v)
  BY DEF Consider, FirstOf, Candidates, Head, Restored, ranking, results, TypeInv
<1>2. /\ IsAuction(bids) /\ todo \subseteq DOMAIN bids /\ chosen \subseteq DOMAIN bids
      /\ Candidates \subseteq DOMAIN bids /\ chosen \subseteq walked
  BY <1>1 DEF TypeInv, TypeOK, Candidates, Restored
<1>3. /\ claimed = UNION {bids[v].claims : v \in chosen}
      /\ \A v \in walked, w \in todo : Before(bids, Head, v, w)
      /\ \A v \in walked : v \in chosen <=> Free(bids, Head, chosen, v)
  BY <1>1 DEF PickInv
<1>4. Candidates' \ todo' = walked \cup {u}
  BY <1>1
<1>5. IsFiniteSet(chosen) /\ Cardinality(chosen) \in Nat /\ Cardinality(chosen) < MaxWinners
  <2>1. chosen \subseteq Uid
    BY <1>2 DEF IsAuction
  <2>2. IsFiniteSet(chosen) /\ Cardinality(chosen) \in Nat /\ MaxWinners \in Nat
    BY <2>1, BidsFinite, WinnerSelectionAssumption
  <2>3. ~(Cardinality(chosen) >= MaxWinners)
    BY DEF Consider, Full
  <2>. QED  BY <2>2, <2>3
<1>6. bids[u].claims \cap claimed = {} <=> \A v \in chosen : Disjoint(bids, v, u)
  BY <1>3 DEF Disjoint
<1>7. chosen' = (IF bids[u].claims \cap claimed = {} THEN chosen \cup {u} ELSE chosen)
  BY DEF Consider
<1>8. Free(bids, Head, chosen, u) <=> bids[u].claims \cap claimed = {}
  <2>1. {w \in chosen : Before(bids, Head, w, u)} = chosen
    BY <1>1, <1>2, <1>3
  <2>. QED  BY <2>1, <1>5, <1>6 DEF Free
<1>9. Cardinality(chosen') <= MaxWinners
  <2>1. Cardinality(chosen \cup {u}) = Cardinality(chosen) + 1
    BY <1>1, <1>5, FS_AddElement
  <2>. QED  BY <1>5, <1>7, <2>1, WinnerSelectionAssumption
<1>10. claimed' = UNION {bids'[v].claims : v \in chosen'}
  BY <1>1, <1>3 DEF Consider
<1>11. \A v \in walked \cup {u}, w \in todo' : Before(bids, Head, v, w)
  BY <1>1, <1>3
<1>12. \A v \in walked \cup {u} : v \in chosen' <=> Free(bids, Head, chosen', v)
  <2>1. ASSUME NEW v \in walked
        PROVE  v \in chosen' <=> Free(bids, Head, chosen', v)
    <3>1. Before(bids, Head, v, u) /\ v # u
      BY <1>1, <1>3
    <3>2. Free(bids, Head, chosen', v) <=> Free(bids, Head, chosen, v)
      BY <1>1, <1>2, <1>7, <3>1, LaterBidsDoNotMatter
    <3>. QED  BY <1>3, <1>7, <3>1, <3>2
  <2>2. u \in chosen' <=> Free(bids, Head, chosen', u)
    <3>1. ~Before(bids, Head, u, u)
      BY <1>1, <1>2, BeforeAsymmetric
    <3>2. {w \in chosen' : Before(bids, Head, w, u)} = {w \in chosen : Before(bids, Head, w, u)}
      BY <1>7, <3>1
    <3>3. Free(bids, Head, chosen', u) <=> Free(bids, Head, chosen, u)
      BY <3>2 DEF Free
    <3>. QED  BY <1>1, <1>7, <1>8, <3>3
  <2>. QED  BY <2>1, <2>2
<1>. QED  BY <1>1, <1>4, <1>9, <1>10, <1>11, <1>12 DEF PickInv

\* The bids the loop never reaches once it is full would not win either.
LEMMA StopStep ==
  ASSUME TypeInv, PickInv, StopPick
  PROVE  PickInv'
<1>1. /\ pc = "pick" /\ Candidates' = Candidates /\ Head' = Head /\ bids' = bids
      /\ chosen' = chosen /\ claimed' = claimed /\ todo' = {}
  BY DEF StopPick, Candidates, Head, Restored, ranking, results, picking
<1>2. /\ todo \subseteq Candidates /\ chosen \subseteq Candidates \ todo
      /\ IsFiniteSet(chosen) /\ Cardinality(chosen) \in Nat
      /\ Cardinality(chosen) >= MaxWinners
  BY <1>1, BidsFinite DEF StopPick, Full, TypeInv, TypeOK, IsAuction
<1>3. ASSUME NEW u \in todo
      PROVE  u \notin chosen /\ ~Free(bids, Head, chosen, u)
  <2>1. {w \in chosen : Before(bids, Head, w, u)} = chosen
    BY <1>1, <1>2 DEF PickInv
  <2>. QED  BY <1>2, <2>1, WinnerSelectionAssumption DEF Free
<1>. QED  BY <1>1, <1>2, <1>3 DEF PickInv

LEMMA PickStep == TypeInv /\ PickInv /\ [Next]_vars => PickInv'
<1>. SUFFICES ASSUME TypeInv, PickInv, [Next]_vars PROVE PickInv'
  OBVIOUS
<1>1. CASE UNCHANGED vars \/ Returned
  BY <1>1 DEF Returned, PickInv, Candidates, Head, Restored, vars
<1>2. CASE StartRank
  <2>1. todo' = Candidates'
    BY <1>2 DEF StartRank, CallPick, Candidates, ranking
  <2>. QED  BY <1>2, <2>1, PickStarts DEF StartRank, CallPick
<1>3. CASE RestoreGuesses
  <2>1. todo' = Candidates'
    BY <1>3 DEF RestoreGuesses, CallPick, Candidates, Restored, ranking
  <2>. QED  BY <1>3, <2>1, PickStarts DEF RestoreGuesses, CallPick
<1>4. ASSUME NEW u, LeaveOut(u) PROVE PickInv'
  <2>1. todo' = Candidates'
    BY <1>4 DEF LeaveOut, CallPick, Candidates, ranking
  <2>. QED  BY <1>4, <2>1, PickStarts DEF LeaveOut, CallPick
<1>5. ASSUME NEW u, ScoreBaseline(u) \/ Judge(u) \/ PassBy(u) PROVE PickInv'
  BY <1>5 DEF ScoreBaseline, Judge, PassBy, PickInv
<1>6. CASE DropWorthless \/ Rank \/ Reference \/ NoGuess \/ Guess
  BY <1>6 DEF DropWorthless, Rank, Reference, NoGuess, Guess, PickInv
<1>. QED  BY <1>1, <1>2, <1>3, <1>4, <1>5, <1>6, ConsiderStep, StopStep DEF Next

\* A pick that has run to its end is the greedy pick among its candidates.
LEMMA PickDone ==
  ASSUME TypeInv, PickInv, pc = "pick", todo = {}
  PROVE  IsPick(bids, Head, Candidates, chosen)
BY DEF TypeInv, PickInv, IsPick

----------------------------------------------------------------------------
(* The winners *)

LEMMA RankStep == TypeInv /\ PickInv /\ RankInv /\ [Next]_vars => RankInv'
<1>. SUFFICES ASSUME TypeInv, PickInv, RankInv, [Next]_vars PROVE RankInv'
  OBVIOUS
<1>1. CASE UNCHANGED vars \/ Returned
  BY <1>1 DEF Returned, RankInv, Awarded, vars
<1>2. CASE Rank
  <2>1. IsPick(bids, {}, kept, chosen) /\ Cardinality(chosen) <= MaxWinners
    BY <1>2, PickDone DEF Rank, Picked, Candidates, Head, PickInv
  <2>. QED  BY <1>2, <2>1 DEF Rank, RankInv
<1>3. ASSUME NEW u, ScoreBaseline(u) \/ Judge(u) \/ Consider(u) \/ PassBy(u) \/ LeaveOut(u)
      PROVE  RankInv'
  BY <1>3 DEF ScoreBaseline, Judge, Consider, PassBy, LeaveOut, CallPick, RankInv, Awarded, ranking
<1>4. CASE StartRank \/ StopPick \/ DropWorthless \/ Reference
  BY <1>4 DEF StartRank, CallPick, StopPick, DropWorthless, Reference, Picked, RankInv, Awarded,
     ranking, picking
<1>5. CASE NoGuess \/ RestoreGuesses \/ Guess
  BY <1>5 DEF NoGuess, RestoreGuesses, Guess, CallPick, Picked, ReferencesDone, RankInv, Awarded,
     ranking
<1>. QED  BY <1>1, <1>2, <1>3, <1>4, <1>5 DEF Next

\* There are no more winning solvers than winning bids.
LEMMA FewBidders ==
  ASSUME NEW b, NEW W, IsFiniteSet(W)
  PROVE  /\ IsFiniteSet(Bidders(b, W))
         /\ Cardinality(Bidders(b, W)) <= Cardinality(W)
<1>. DEFINE f == [u \in W |-> b[u].solver]
<1>1. f \in Surjection(W, Bidders(b, W))
  BY DEF Surjection, Bidders
<1>. QED  BY <1>1, FS_Surjection

\* When the reference loop ends, by either of its two ways out, no winning
\* solver is left.
LEMMA NoneLeft ==
  ASSUME TypeInv, RankInv, ReferenceInv, ReferencesDone
  PROVE  DOMAIN references = Bidders(bids, winners)
<1>1. /\ DOMAIN references \subseteq Bidders(bids, winners)
      /\ IsFiniteSet(winners) /\ Cardinality(winners) \in Nat
      /\ pc = "reference" /\ Awarded /\ leaving = {}
  BY BidsFinite DEF TypeInv, TypeOK, ReferencesDone, IsAuction, Awarded
<1>2. CASE walk = {}
  BY <1>1, <1>2 DEF ReferenceInv, Bidders
<1>3. CASE Cardinality(DOMAIN references) >= MaxWinners
  <2>1. /\ IsFiniteSet(Bidders(bids, winners))
        /\ Cardinality(Bidders(bids, winners)) <= Cardinality(winners)
    BY <1>1, FewBidders
  <2>2. Cardinality(winners) <= MaxWinners
    BY <1>1 DEF RankInv
  <2>3. /\ Cardinality(DOMAIN references) <= Cardinality(Bidders(bids, winners))
        /\ Cardinality(Bidders(bids, winners)) = Cardinality(DOMAIN references)
             => Bidders(bids, winners) = DOMAIN references
    BY <1>1, <2>1, FS_Subset
  <2>4. Cardinality(DOMAIN references) \in Nat /\ Cardinality(Bidders(bids, winners)) \in Nat
    BY <1>1, <2>1, FS_Subset, FS_CardinalityType
  <2>. QED  BY <1>1, <1>3, <2>1, <2>2, <2>3, <2>4, WinnerSelectionAssumption
<1>. QED  BY <1>2, <1>3 DEF ReferencesDone

----------------------------------------------------------------------------
(* The reference outcomes *)

\* A reference pick that has run to its end is the outcome without the solver.
LEMMA ReferencePicked ==
  ASSUME TypeInv, PickInv, Picked("reference"), NEW s \in leaving
  PROVE  IsPick(bids, winners, {u \in kept : bids[u].solver # s}, chosen)
<1>1. leaving = {s}
  BY DEF TypeInv, TypeOK
<1>2. Candidates = {u \in kept : bids[u].solver # s} /\ Head = winners
  BY <1>1 DEF Picked, Candidates, Head
<1>. QED  BY <1>2, PickDone DEF Picked

LEMMA ReferenceTurn ==
  ASSUME TypeInv, PickInv, ReferenceInv, Reference
  PROVE  ReferenceInv'
<1>1. /\ DOMAIN references' = DOMAIN references \cup leaving
      /\ \A s \in DOMAIN references' :
           references'[s] = IF s \in leaving THEN chosen ELSE references[s]
      /\ bids' = bids /\ winners' = winners /\ kept' = kept /\ walk' = walk
      /\ pc' = "reference" /\ Awarded
  BY DEF Reference, Picked, ranking, Awarded
<1>2. \A s \in DOMAIN references' :
        IsPick(bids, winners, {u \in kept : bids[u].solver # s}, references'[s])
  BY <1>1, ReferencePicked DEF Reference, ReferenceInv
<1>3. \A u \in winners : bids[u].solver \in DOMAIN references' \/ u \in walk
  BY <1>1 DEF ReferenceInv
<1>. QED  BY <1>1, <1>2, <1>3 DEF ReferenceInv

LEMMA ReferenceStep ==
  TypeInv /\ PickInv /\ RankInv /\ ReferenceInv /\ [Next]_vars => ReferenceInv'
<1>. SUFFICES ASSUME TypeInv, PickInv, RankInv, ReferenceInv, [Next]_vars
              PROVE  ReferenceInv'
  OBVIOUS
<1>1. CASE UNCHANGED vars \/ Returned
  BY <1>1 DEF Returned, ReferenceInv, Awarded, vars
<1>2. ASSUME NEW u, ScoreBaseline(u) \/ Judge(u) \/ Consider(u)
      PROVE  ReferenceInv'
  BY <1>2 DEF ScoreBaseline, Judge, Consider, ReferenceInv, TypeInv, Awarded, ranking, results
<1>3. CASE DropWorthless \/ StartRank \/ StopPick
  BY <1>3 DEF DropWorthless, StartRank, CallPick, StopPick, ReferenceInv, TypeInv, Awarded,
     ranking, results, picking
<1>4. CASE Rank
  <2>1. DOMAIN references = {} /\ chosen \subseteq kept
    BY <1>4 DEF Rank, Picked, Candidates, TypeInv, Awarded
  <2>. QED  BY <1>4, <2>1 DEF Rank, ReferenceInv, picking
<1>5. ASSUME NEW u, PassBy(u) \/ LeaveOut(u)
      PROVE  ReferenceInv'
  BY <1>5 DEF PassBy, LeaveOut, CallPick, ReferenceInv, TypeInv, Awarded, ranking
<1>6. CASE NoGuess \/ RestoreGuesses
  BY <1>6, NoneLeft DEF NoGuess, RestoreGuesses, CallPick, ReferencesDone, ReferenceInv, TypeInv,
     Awarded, ranking, results
<1>7. CASE Guess
  BY <1>7 DEF Guess, Picked, ReferenceInv, TypeInv, Awarded, ranking
<1>. QED  BY <1>1, <1>2, <1>3, <1>4, <1>5, <1>6, <1>7, ReferenceTurn DEF Next

----------------------------------------------------------------------------
(* The guess *)

LEMMA GuessStep ==
  TypeInv /\ PickInv /\ RankInv /\ GuessInv /\ [Next]_vars => GuessInv'
<1>. SUFFICES ASSUME TypeInv, PickInv, RankInv, GuessInv, [Next]_vars
              PROVE  GuessInv'
  OBVIOUS
<1>1. CASE UNCHANGED vars \/ Returned
  BY <1>1 DEF Returned, GuessInv, Restored, vars
<1>2. CASE NoGuess
  <2>1. Restored' = kept /\ Awarded
    BY <1>2 DEF NoGuess, ReferencesDone, Restored, ranking, Awarded
  <2>. QED  BY <1>2, <2>1 DEF NoGuess, GuessInv, RankInv, ranking
<1>3. CASE Guess
  <2>1. IsPick(bids, {}, Restored, chosen)
    BY <1>3, PickDone DEF Guess, Picked, Candidates, Head
  <2>. QED  BY <1>3, <2>1 DEF Guess, GuessInv, Restored, ranking
<1>4. ASSUME NEW u, ScoreBaseline(u) \/ Judge(u) \/ Consider(u) \/ PassBy(u) \/ LeaveOut(u)
      PROVE  GuessInv'
  BY <1>4 DEF ScoreBaseline, Judge, Consider, PassBy, LeaveOut, CallPick, GuessInv
<1>5. CASE StartRank \/ StopPick \/ DropWorthless \/ Rank \/ Reference \/ RestoreGuesses
  BY <1>5 DEF StartRank, CallPick, StopPick, DropWorthless, Rank, Reference, RestoreGuesses,
     GuessInv
<1>. QED  BY <1>1, <1>2, <1>3, <1>4, <1>5 DEF Next

----------------------------------------------------------------------------
(* What follows *)

\* The loops of the arbitration keep, at every step, what they have promised.
THEOREM Inductive == Spec => []IInv
<1>1. Init => IInv
  <2>1. Init => PickInv /\ RankInv /\ ReferenceInv /\ GuessInv
    BY DEF Init, PickInv, RankInv, ReferenceInv, GuessInv, Awarded
  <2>. QED  BY <2>1, TypeInit, FilterInit DEF IInv
<1>2. IInv /\ [Next]_vars => IInv'
  BY TypeStep, FilterStep, PickStep, RankStep, ReferenceStep, GuessStep DEF IInv
<1>. QED  BY <1>1, <1>2, PTL DEF Spec

\* In every auction, at every step, a directed pair has one clearing price and
\* there are at most MAX_WINNERS winners.
THEOREM ClearsUniformly == Spec => []UniformClearing
<1>1. IInv => UniformClearing
  <2>. SUFFICES ASSUME IInv PROVE UniformClearing
    OBVIOUS
  <2>1. CASE Awarded
    <3>1. /\ IsAuction(bids) /\ kept \subseteq DOMAIN bids
          /\ IsPick(bids, {}, kept, winners) /\ Cardinality(winners) <= MaxWinners
      BY <2>1 DEF IInv, TypeInv, TypeOK, RankInv
    <3>. QED  BY <3>1, PickDisjoint DEF UniformClearing
  <2>2. CASE ~Awarded
    <3>1. winners = {}
      BY <2>2 DEF IInv, TypeInv
    <3>. QED  BY <3>1, FS_EmptySet, WinnerSelectionAssumption DEF UniformClearing
  <2>. QED  BY <2>1, <2>2
<1>. QED  BY <1>1, Inductive, PTL

\* compute_reference_outcomes leaves out no winning solver.
THEOREM EveryWinnerHasReference == Spec => []EveryWinnerReferenced
<1>1. IInv => EveryWinnerReferenced
  BY DEF IInv, ReferenceInv, EveryWinnerReferenced
<1>. QED  BY <1>1, Inductive, PTL

\* Without a solver all the other winners still win.
THEOREM OthersKeepWinning == Spec => []ReferenceKeepsOthers
<1>1. IInv => ReferenceKeepsOthers
  <2>. SUFFICES ASSUME IInv, NEW s \in DOMAIN references
                PROVE  {w \in winners : bids[w].solver # s} \subseteq references[s]
    BY DEF ReferenceKeepsOthers
  <2>. DEFINE own == {u \in kept : bids[u].solver = s}
  <2>1. Awarded
    BY DEF IInv, TypeInv
  <2>2. /\ IsAuction(bids) /\ kept \subseteq DOMAIN bids /\ winners \subseteq kept
        /\ IsPick(bids, {}, kept, winners)
        /\ IsPick(bids, winners, {u \in kept : bids[u].solver # s}, references[s])
    BY <2>1 DEF IInv, TypeInv, TypeOK, RankInv, ReferenceInv
  <2>3. {u \in kept : bids[u].solver # s} = kept \ own
    OBVIOUS
  <2>4. IsPick(bids, winners, kept \ own, references[s])
    BY <2>2, <2>3
  <2>5. winners \ own \subseteq references[s]
    <3>. HIDE DEF own
    <3>. QED  BY <2>2, <2>4, PickKeepsWinners
  <2>. QED  BY <2>2, <2>5
<1>. QED  BY <1>1, Inductive, PTL

\* "False is a proof, not a sample": no set of guessed verdicts could have
\* changed the winners when filter_guess_could_matter says so.
THEOREM NoGuessMatters == Spec => []GuessIsProof
<1>1. IInv => GuessIsProof
  <2>. SUFFICES ASSUME IInv, pc = "done", ~couldMatter, NEW G \in SUBSET proxied
                PROVE  IsPick(bids, {}, kept \cup G, winners)
    BY DEF GuessIsProof
  <2>1. IsPick(bids, {}, Restored, winners) /\ winners \subseteq kept /\ proxied \subseteq discarded
    BY DEF IInv, GuessInv, TypeInv, TypeOK
  <2>2. kept \cup G \subseteq Restored
    BY <2>1 DEF Restored
  <2>. QED  BY <2>1, <2>2, PickIgnoresLosers
<1>. QED  BY <1>1, Inductive, PTL

\* The bids are those the arbitration was given.
LEMMA SameBids == [Next]_vars => bids' = bids
BY DEF Next, vars, ranking, ScoreBaseline, DropWorthless, Judge, StartRank, Consider, StopPick,
   Rank, PassBy, LeaveOut, Reference, NoGuess, RestoreGuesses, Guess, Returned

\* Under such valuations the filter is never looser than the protocol's, and a
\* bid it wrongly drops is one it has marked.
THEOREM FilterNeverLooser ==
  ASSUME \A b \in Auctions : \A u \in DOMAIN b : SoundlyValued(b[u])
  PROVE  Spec => []NeverLooserThanProtocol
<1>. DEFINE Sound == \A u \in DOMAIN bids : SoundlyValued(bids[u])
<1>1. Spec => []Sound
  <2>1. Init => Sound
    BY DEF Init
  <2>2. Sound /\ [Next]_vars => Sound'
    BY SameBids
  <2>. QED  BY <2>1, <2>2, PTL DEF Spec
<1>2. IInv /\ Sound => NeverLooserThanProtocol
  <2>. SUFFICES ASSUME IInv, Sound, pc # "baselines"
                PROVE  /\ \A u \in kept : TrulyFair(u)
                       /\ \A u \in discarded \ proxied : ~TrulyFair(u)
    BY DEF NeverLooserThanProtocol
  <2>1. ASSUME NEW u \in DOMAIN bids, NEW p \in Traded(bids[u])
        PROVE  /\ Worth(bids[u], p) <= bids[u].truth[p]
               /\ p \in DOMAIN bids[u].score => Worth(bids[u], p) = bids[u].truth[p]
               /\ Worth(bids[u], p) \in Int /\ bids[u].truth[p] \in Int /\ baselines[p] \in Int
    <3>1. IsSolution(bids[u]) /\ SoundlyValued(bids[u]) /\ baselines \in [Pair -> Nat]
      BY DEF IInv, TypeInv, TypeOK, IsAuction
    <3>2. p \in Pair /\ bids[u].surplus[p] \in Int /\ bids[u].truth[p] \in Int
      BY <3>1 DEF IsSolution, IsPairValues, SoundlyValued, Traded
    <3>. QED  BY <3>1, <3>2 DEF Worth, SoundlyValued
  <2>2. ASSUME NEW u \in kept PROVE TrulyFair(u)
    <3>1. u \in DOMAIN bids /\ IsFair(bids[u], baselines)
      BY DEF IInv, FilterInv
    <3>. QED  BY <2>1, <3>1 DEF TrulyFair, IsFair, FairOn
  <2>3. ASSUME NEW u \in discarded \ proxied PROVE ~TrulyFair(u)
    <3>1. u \in DOMAIN bids /\ ~IsFair(bids[u], baselines) /\ ~FilterProxied(bids[u], baselines)
      BY DEF IInv, FilterInv
    <3>2. PICK p \in Traded(bids[u]) : ~FairOn(bids[u], p, baselines) /\ p \in DOMAIN bids[u].score
      BY <3>1 DEF IsFair, FilterProxied
    <3>. QED  BY <2>1, <3>1, <3>2 DEF TrulyFair, IsFair, FairOn
  <2>. QED  BY <2>2, <2>3
<1>. QED  BY <1>1, <1>2, Inductive, PTL

----------------------------------------------------------------------------
(* The validation against the record *)

\* What the protocol decided on: its score of a bid is made up of those of the pairs.
IsScored(s) == SoundlyValued(s) /\ s.total = SumFunction(s.truth)

\* Such are the bids that build_solutions makes of a record whose fees were recomputed
\* right wherever the policies of all orders are known: the splits it states are the
\* protocol's, the rest of the score on the one unpriced pair included, and where it
\* states none the surplus is below the score (pair_score_split, build_solutions).
THEOREM SplitsAreSound ==
  ASSUME NEW v, NEW truth, NEW solver, NEW mode \in {"score", "surplus"},
         IsFiniteSet(DOMAIN v.surplus), v.unknown \subseteq DOMAIN v.surplus,
         DOMAIN truth = DOMAIN v.surplus,
         \A p \in DOMAIN truth : v.surplus[p] \in Nat /\ truth[p] \in Nat,
         \A p \in DOMAIN truth : v.surplus[p] <= truth[p],
         mode = "surplus" => truth = v.surplus,
         mode = "score" =>
           \A p \in DOMAIN truth \ v.unknown : truth[p] = v.surplus[p] + v.fee[p]
  PROVE  IsScored(BuildSolution(solver, v, SumFunction(truth), truth, mode))
<1>. DEFINE D == DOMAIN truth
            known == D \ v.unknown
            priced == Priced(v)
            recorded == SumFunction(truth)
            sum(f, S) == SumFunctionOnSet(f, S)
            split == PairScoreSplit(v, recorded)
            s == BuildSolution(solver, v, recorded, truth, mode)
<1>1. IsFiniteSet(D) /\ IsFiniteSet(known) /\ IsFiniteSet(v.unknown) /\ D = known \cup v.unknown
      /\ known \cap v.unknown = {}
  BY FS_Subset
<1>2. recorded = sum(truth, D)
  BY DEF SumFunction, SumFunctionOnSet
<1>3. /\ s.truth = truth /\ s.surplus = v.surplus
      /\ s.total = IF mode = "surplus" THEN SumFunction(v.surplus) ELSE recorded
      /\ s.score = IF mode = "surplus" THEN <<>> ELSE split
  BY DEF BuildSolution
<1>4. s.total = SumFunction(s.truth)
  BY <1>3
<1>5. DOMAIN s.truth = Traded(s) /\ \A p \in Traded(s) : s.surplus[p] <= s.truth[p]
  BY <1>3 DEF Traded
<1>6. ASSUME mode = "score", NEW p \in D \cap DOMAIN split
      PROVE  split[p] = truth[p]
  <2>1. DOMAIN priced = known /\ \A q \in known : priced[q] = truth[q]
    BY <1>6 DEF Priced
  <2>2. SumFunction(priced) = sum(truth, known)
    <3>1. \A q \in known : truth[q] \in Int /\ truth[q] = priced[q]
      BY <2>1
    <3>. HIDE DEF priced
    <3>2. sum(truth, known) = sum(priced, known)
      BY <1>1, <3>1, SumEqual
    <3>. QED  BY <2>1, <3>2 DEF SumFunction, SumFunctionOnSet
  <2>3. sum(truth, D) = sum(truth, known) + sum(truth, v.unknown)
    <3>1. \A q \in known \cup v.unknown : truth[q] \in Int
      BY <1>1
    <3>. QED  BY <1>1, <3>1, SumUnion
  <2>4. \A q : sum(truth, {q}) = truth[q] + 0 \/ q \notin D
    <3>1. ASSUME NEW q \in D PROVE sum(truth, {q}) = truth[q] + 0
      <4>1. IsFiniteSet({q}) /\ {q} # {}
        BY FS_Singleton
      <4>2. sum(truth, {q}) = truth[q] + sum(truth, {q} \ {q})
        BY <4>1, SumTakes
      <4>3. sum(truth, {q} \ {q}) = 0
        BY SumOfNone
      <4>. QED  BY <4>2, <4>3
    <3>. QED  BY <3>1
  <2>5. sum(truth, known) \in Int /\ sum(truth, v.unknown) \in Int
    BY <1>1, SumInt
  <2>6. CASE AnchorFails(v, recorded)
    <3>1. split = <<>>
      BY <2>6 DEF PairScoreSplit
    <3>2. DOMAIN <<>> = {}
      OBVIOUS
    <3>. QED  BY <1>6, <3>1, <3>2
  <2>7. CASE ~AnchorFails(v, recorded) /\ SinglePair(v)
    <3>1. split = [q \in D |-> recorded]
      BY <2>7 DEF PairScoreSplit
    <3>2. D = {p}
      <4>1. Cardinality(D) \in Nat /\ Cardinality(D) <= 1 /\ Cardinality(D) # 0
        BY <1>1, <1>6, <2>7, FS_CardinalityType, FS_EmptySet DEF SinglePair
      <4>2. Cardinality(D) = 1
        BY <4>1
      <4>3. \E q : D = {q}
        BY <1>1, <4>2, FS_Singleton
      <4>. QED  BY <1>6, <4>3
    <3>3. recorded = truth[p]
      BY <1>2, <2>4, <3>2
    <3>. QED  BY <1>6, <3>1, <3>3
  <2>8. CASE ~AnchorFails(v, recorded) /\ ~SinglePair(v)
    <3>. DEFINE E == known \cup (IF Cardinality(v.unknown) = 1 THEN v.unknown ELSE {})
    <3>1. split = [q \in E |-> IF q \in v.unknown THEN recorded - SumFunction(priced) ELSE priced[q]]
      BY <2>1, <2>8 DEF PairScoreSplit
    <3>2. p \in E
      BY <1>6, <3>1
    <3>3. CASE p \notin v.unknown
      BY <1>6, <2>1, <3>1, <3>2, <3>3
    <3>4. CASE p \in v.unknown
      <4>1. \E q : v.unknown = {q}
        BY <1>1, <3>2, <3>4, FS_Singleton
      <4>2. v.unknown = {p}
        BY <3>4, <4>1
      <4>3. recorded - SumFunction(priced) = truth[p]
        <5>1. sum(truth, v.unknown) = truth[p]
          BY <1>6, <2>4, <4>2
        <5>. HIDE DEF recorded, priced, sum
        <5>. QED  BY <1>2, <2>2, <2>3, <2>5, <5>1
      <4>. QED  BY <3>1, <3>2, <3>4, <4>3
    <3>. QED  BY <3>3, <3>4
  <2>. QED  BY <2>6, <2>7, <2>8
<1>7. \A p \in Traded(s) \cap DOMAIN s.score : s.score[p] = s.truth[p]
  <2>1. DOMAIN <<>> = {}
    OBVIOUS
  <2>2. CASE mode = "surplus"
    BY <1>3, <2>1, <2>2
  <2>3. CASE mode = "score"
    <3>. HIDE DEF s, split
    <3>. QED  BY <1>3, <1>5, <1>6, <2>3
  <2>. QED  BY <2>2, <2>3
<1>. HIDE DEF s
<1>8. IsScored(s)
  BY <1>4, <1>5, <1>7 DEF IsScored, SoundlyValued
<1>. QED  BY <1>8 DEF s

\* Of two different bids a shuffle puts exactly one first.
LEMMA ShuffleOrders ==
  ASSUME IsAuction(bids), NEW shuffle \in Bijection(DOMAIN bids, 1..Cardinality(DOMAIN bids)),
         NEW u \in DOMAIN bids, NEW v \in DOMAIN bids, u # v
  PROVE  ShuffledBefore(shuffle, u, v) <=> ~ShuffledBefore(shuffle, v, u)
<1>1. bids[u].total \in Nat /\ bids[v].total \in Nat
  BY DEF IsAuction, IsSolution
<1>2. shuffle[u] # shuffle[v]
  BY DEF Bijection, Injection, IsInjective
<1>3. shuffle[u] \in Nat /\ shuffle[v] \in Nat
  <2>1. IsFiniteSet(DOMAIN bids) /\ Cardinality(DOMAIN bids) \in Nat
    BY BidsFinite DEF IsAuction
  <2>. QED  BY <2>1 DEF Bijection, Injection
<1>. QED  BY <1>1, <1>2, <1>3 DEF ShuffledBefore

\* The pick over what the record kept, with ties in the order of the uids, is the
\* recorded one, whatever the shuffle was.
LEMMA RecordedPickIsPick ==
  ASSUME IsAuction(bids), NEW record \in Records
  PROVE  ObservedPick(record)
<1>. DEFINE W == record.winners
            shuffle == record.shuffle
<1>1. W \subseteq RecordedKept /\ RecordedKept \subseteq DOMAIN bids
  BY DEF Records, Record, RecordedKept
<1>2. /\ shuffle \in Bijection(DOMAIN bids, 1..Cardinality(DOMAIN bids))
      /\ W \in PicksAlong(ProtocolOrder(shuffle), RecordedKept)
      /\ \A u, v \in DOMAIN bids : u < v => RankedBefore(record, u, v)
  BY DEF Records, Record
<1>3. \A u \in DOMAIN bids : u \in Nat /\ bids[u].total \in Nat
  BY WinnerSelectionAssumption DEF IsAuction, IsSolution
<1>4. ASSUME NEW u \in RecordedKept
      PROVE  u \in W <=> Free(bids, {}, W, u)
  <2>. DEFINE shuffled == {w \in W : ShuffledBefore(shuffle, w, u)}
              earlier == {w \in W : Before(bids, {}, w, u)}
  <2>1. u \in W <=> Cardinality(shuffled) < MaxWinners /\ \A w \in shuffled : Disjoint(bids, w, u)
    <3>1. shuffled = {w \in W : <<w, u>> \in ProtocolOrder(shuffle)}
      BY <1>1 DEF ProtocolOrder, Couples
    <3>. HIDE DEF shuffled, shuffle, W
    <3>. QED  BY <1>2, <3>1 DEF PicksAlong
  <2>2. IsFiniteSet(earlier) /\ IsFiniteSet(shuffled)
        /\ Cardinality(earlier) \in Nat /\ Cardinality(shuffled) \in Nat
    BY <1>1, BidsFinite DEF IsAuction
  <2>3. CASE u \in W
    <3>1. ASSUME NEW w \in W PROVE ShuffledBefore(shuffle, w, u) <=> Before(bids, {}, w, u)
      <4>1. u \in DOMAIN bids /\ w \in DOMAIN bids
        BY <1>1
      <4>2. CASE w = u
        <5>1. shuffle[w] \in Nat
          <6>1. IsFiniteSet(DOMAIN bids) /\ Cardinality(DOMAIN bids) \in Nat
            BY BidsFinite DEF IsAuction
          <6>. QED  BY <1>2, <4>1, <6>1 DEF Bijection, Injection
        <5>. QED  BY <1>3, <4>1, <4>2, <5>1 DEF ShuffledBefore, Before
      <4>3. CASE w < u
        <5>1. RankedBefore(record, w, u)
          BY <1>2, <4>1, <4>3
        <5>2. ShuffledBefore(shuffle, w, u)
          BY <1>1, <2>3, <5>1 DEF RankedBefore
        <5>. QED  BY <1>3, <4>1, <4>3, <5>2 DEF ShuffledBefore, Before
      <4>4. CASE u < w
        <5>1. RankedBefore(record, u, w)
          BY <1>2, <4>1, <4>4
        <5>2. ShuffledBefore(shuffle, u, w)
          BY <1>1, <2>3, <5>1 DEF RankedBefore
        <5>3. ~ShuffledBefore(shuffle, w, u)
          BY <1>2, <1>3, <4>1, <4>4, <5>2, ShuffleOrders
        <5>. QED  BY <1>3, <4>1, <4>4, <5>2, <5>3 DEF ShuffledBefore, Before
      <4>. QED  BY <1>3, <4>1, <4>2, <4>3, <4>4
    <3>2. earlier = shuffled
      BY <3>1
    <3>. QED  BY <2>1, <3>2 DEF Free
  <2>4. CASE u \notin W
    <3>1. ASSUME NEW w \in W, ShuffledBefore(shuffle, w, u) PROVE Before(bids, {}, w, u)
      <4>1. u \in DOMAIN bids /\ w \in DOMAIN bids /\ w # u
        BY <1>1, <2>4
      <4>2. ~(u < w)
        <5>1. ~RankedBefore(record, u, w)
          BY <1>1, <2>4 DEF RankedBefore
        <5>. QED  BY <1>2, <4>1, <5>1
      <4>. QED  BY <1>3, <3>1, <4>1, <4>2 DEF ShuffledBefore, Before
    <3>2. shuffled \subseteq earlier
      BY <3>1
    <3>3. Cardinality(shuffled) <= Cardinality(earlier)
      BY <2>2, <3>2, FS_Subset
    <3>4. MaxWinners \in Nat
      BY WinnerSelectionAssumption
    <3>. HIDE DEF shuffled, earlier
    <3>5. ~(Cardinality(earlier) < MaxWinners /\ \A w \in earlier : Disjoint(bids, w, u))
      BY <2>1, <2>2, <2>4, <3>2, <3>3, <3>4
    <3>. QED  BY <2>4, <3>5 DEF Free, earlier
  <2>. QED  BY <2>3, <2>4
<1>. QED  BY <1>1, <1>4 DEF ObservedPick, IsPick

\* The uids of a record number its ranking, so that both orders are one.
LEMMA RecordedOrderIsObserved ==
  ASSUME IsAuction(bids), NEW record \in Records
  PROVE  RecordedOrder(record) = ObservedOrder
<1>. DEFINE shuffle == record.shuffle
<1>1. /\ shuffle \in Bijection(DOMAIN bids, 1..Cardinality(DOMAIN bids))
      /\ record.winners \subseteq RecordedKept
      /\ \A u, v \in DOMAIN bids : u < v => RankedBefore(record, u, v)
  BY DEF Records, Record
<1>2. \A u \in DOMAIN bids : u \in Nat /\ bids[u].total \in Nat
  BY WinnerSelectionAssumption DEF IsAuction, IsSolution
<1>3. ASSUME NEW u \in DOMAIN bids, NEW v \in DOMAIN bids, RankedBefore(record, u, v)
      PROVE  u < v
  <2>1. u # v
    <3>1. ~(bids[u].total > bids[u].total)
      BY <1>2
    <3>2. shuffle[u] \in Nat
      <4>1. IsFiniteSet(DOMAIN bids) /\ Cardinality(DOMAIN bids) \in Nat
        BY BidsFinite DEF IsAuction
      <4>. QED  BY <1>1, <4>1 DEF Bijection, Injection
    <3>3. ~(shuffle[u] < shuffle[u])
      BY <3>2
    <3>. QED  BY <1>3, <3>1, <3>3 DEF RankedBefore, ShuffledBefore
  <2>2. ~RankedBefore(record, v, u)
    <3>1. ShuffledBefore(shuffle, u, v) <=> ~ShuffledBefore(shuffle, v, u)
      BY <1>1, <2>1, ShuffleOrders
    <3>. QED  BY <1>1, <1>3, <3>1 DEF RankedBefore
  <2>. QED  BY <1>1, <1>2, <2>1, <2>2
<1>. QED  BY <1>1, <1>3 DEF RecordedOrder, ObservedOrder, Couples

\* A bid of the record counts orders: one without any would have been worth nothing.
LEMMA RecordedBidsTrade ==
  ASSUME NEW u \in DOMAIN bids, bids[u].total # 0, IsScored(bids[u])
  PROVE  Traded(bids[u]) # {}
<1>. DEFINE s == bids[u]
<1>1. DOMAIN s.truth = Traded(s) /\ s.total = SumFunction(s.truth)
  BY DEF IsScored, SoundlyValued
<1>2. SUFFICES ASSUME Traded(s) = {} PROVE SumFunction(s.truth) = 0
  BY <1>1
<1>3. SumFunctionOnSet(s.truth, {}) = 0
  BY SumOfNone
<1>. QED  BY <1>1, <1>2, <1>3 DEF SumFunction, SumFunctionOnSet

\* A bid the protocol kept and the recomputation drops is dropped on a guess that some
\* split of its score contradicts and some split confirms.
LEMMA DifferenceIsExcused ==
  ASSUME IInv, pc = "done", AllRecorded, NEW u \in DOMAIN bids, IsScored(bids[u])
  PROVE  FilterCause(u) # "bug"
<1>. DEFINE s == bids[u]
            greater == [p \in Traded(s) |-> Greater(baselines[p], s.surplus[p])]
<1>1. IsSolution(s) /\ baselines \in [Pair -> Nat] /\ Traded(s) \subseteq Pair
      /\ IsFiniteSet(Traded(s))
  <2>1. IsSolution(s) /\ baselines \in [Pair -> Nat] /\ IsFiniteSet(Pair)
    BY WinnerSelectionAssumption DEF IInv, TypeInv, TypeOK, IsAuction
  <2>. QED  BY <2>1, FS_Subset DEF IsSolution, IsPairValues, Traded
<1>2. \A p \in Traded(s) :
        /\ baselines[p] \in Int /\ s.surplus[p] \in Int /\ s.truth[p] \in Int /\ s.truth[p] >= 0
        /\ s.surplus[p] <= s.truth[p]
        /\ p \in DOMAIN s.score => s.score[p] = s.truth[p]
  BY <1>1 DEF IsScored, SoundlyValued, IsSolution, IsPairValues, Traded
<1>3. /\ DOMAIN s.truth = Traded(s) /\ s.total = SumFunction(s.truth)
  BY DEF IsScored, SoundlyValued
<1>4. /\ u \in discarded <=> ~IsFair(s, baselines)
      /\ u \in proxied <=> u \in discarded /\ FilterProxied(s, baselines)
  <2>1. s.total # 0
    BY DEF AllRecorded
  <2>. QED  BY <2>1 DEF IInv, FilterInv
<1>5. u \notin RecordedKept => u \in discarded
  <2>. SUFFICES ASSUME ~TrulyFair(u) PROVE ~IsFair(s, baselines)
    BY <1>4 DEF RecordedKept
  <2>. QED  BY <1>2 DEF TrulyFair, IsFair, FairOn, Worth
<1>6. ASSUME u \in RecordedKept, u \in discarded
      PROVE  u \in proxied /\ FilterBracket(u) = "undetermined"
  <2>1. TrulyFair(u) /\ ~IsFair(s, baselines)
    BY <1>4, <1>6 DEF RecordedKept
  <2>2. Cardinality(Traded(s)) # 1 /\ \A p \in Traded(s) : s.truth[p] >= baselines[p]
    BY <2>1 DEF TrulyFair, IsFair
  <2>3. PICK p \in Traded(s) : ~FairOn(s, p, baselines)
    BY <2>1 DEF IsFair
  <2>4. p \notin DOMAIN s.score /\ ~(s.surplus[p] >= baselines[p])
    BY <1>2, <2>2, <2>3 DEF FairOn, Worth
  <2>5. u \in proxied
    BY <1>4, <1>6, <2>3, <2>4 DEF FilterProxied
  <2>6. ~(Cardinality(Traded(s)) <= 1)
    <3>1. Cardinality(Traded(s)) \in Nat /\ Cardinality(Traded(s)) # 0
      BY <1>1, <2>3, FS_CardinalityType, FS_EmptySet
    <3>. QED  BY <2>2, <3>1
  <2>7. ~(SumFunction(greater) > s.total)
    <3>. DEFINE T == Traded(s)
    <3>1. \A p1 \in T : greater[p1] \in Int /\ s.truth[p1] \in Int /\ greater[p1] <= s.truth[p1]
      BY <1>2, <2>2 DEF Greater
    <3>. HIDE DEF greater
    <3>2. SumFunctionOnSet(greater, T) <= SumFunctionOnSet(s.truth, T)
      BY <1>1, <3>1, SumMonotone
    <3>3. SumFunctionOnSet(greater, T) \in Int /\ SumFunctionOnSet(s.truth, T) \in Int
      BY <1>1, <3>1, SumInt
    <3>4. SumFunction(greater) = SumFunctionOnSet(greater, T)
      BY DEF SumFunction, SumFunctionOnSet, greater
    <3>5. s.total = SumFunctionOnSet(s.truth, T)
      BY <1>3 DEF SumFunction, SumFunctionOnSet
    <3>. QED  BY <3>2, <3>3, <3>4, <3>5
  <2>8. ~(\A q \in Traded(s) : s.surplus[q] >= baselines[q])
    BY <2>4
  <2>. QED  BY <2>5, <2>6, <2>7, <2>8 DEF FilterBracket
<1>. QED  BY <1>5, <1>6 DEF FilterCause

\* A competition the protocol recorded on its own score of every pair, and of which every
\* bid could be valued, has no verdict of `unexplained', however it broke its ties,
\* whatever fees are missing and however many bids, pairs and winners there are.
THEOREM NoAlarmIsFalse ==
  ASSUME \A b \in Auctions : \A u \in DOMAIN b : IsScored(b[u])
  PROVE  Spec => []NoFalseAlarm
<1>. DEFINE Scored == \A u \in DOMAIN bids : IsScored(bids[u])
<1>1. Spec => []Scored
  <2>1. Init => Scored
    BY DEF Init
  <2>2. Scored /\ [Next]_vars => Scored'
    BY SameBids
  <2>. QED  BY <2>1, <2>2, PTL DEF Spec
<1>2. IInv /\ Scored => NoFalseAlarm
  <2>. SUFFICES ASSUME IInv, Scored, pc = "done", AllRecorded, NEW record \in Records
                PROVE  Unexplained({}, record) = "none"
    BY DEF NoFalseAlarm
  <2>1. IsAuction(bids)
    BY DEF IInv, TypeInv, TypeOK
  <2>2. \A u \in RecordedKept : Traded(bids[u]) # {}
    BY RecordedBidsTrade DEF AllRecorded, RecordedKept
  <2>3. \A u \in DOMAIN bids : FilterCause(u) # "bug"
    BY DifferenceIsExcused
  <2>4. ObservedPick(record) /\ RecordedOrder(record) = ObservedOrder
    BY <2>1, RecordedPickIsPick, RecordedOrderIsObserved
  <2>. QED  BY <2>2, <2>3, <2>4 DEF Unexplained
<1>. QED  BY <1>1, <1>2, Inductive, PTL

----------------------------------------------------------------------------
(* The implementation of the mechanism *)

\* The mechanism and the loops share their vocabulary.
LEMMA SameCardinality == \A S : Promise!Cardinality(S) = Cardinality(S)
BY DEF Cardinality, Promise!Cardinality

LEMMA SameFilter ==
  ASSUME NEW b, NEW u, NEW p
  PROVE  /\ Promise!Traded(b[u]) = Traded(b[u])
         /\ Promise!SetsBaseline(b, u, p) <=> SetsBaseline(b, u, p)
         /\ Promise!Worth(b[u], p) = Worth(b[u], p)
BY DEF Promise!Traded, Traded, Promise!SetsBaseline, SetsBaseline, Promise!Worth, Worth

LEMMA SamePick ==
  ASSUME NEW b, NEW T, NEW C, NEW W
  PROVE  /\ Promise!IsPick(b, T, C, W) <=> IsPick(b, T, C, W)
         /\ Promise!Bidders(b, W) = Bidders(b, W)
<1>1. ASSUME NEW u, NEW v
      PROVE  /\ Promise!Before(b, T, u, v) <=> Before(b, T, u, v)
             /\ Promise!Disjoint(b, u, v) <=> Disjoint(b, u, v)
  BY DEF Promise!Before, Before, Promise!Disjoint, Disjoint
<1>2. ASSUME NEW u
      PROVE  Promise!Free(b, T, W, u) <=> Free(b, T, W, u)
  <2>1. {w \in W : Promise!Before(b, T, w, u)} = {w \in W : Before(b, T, w, u)}
    BY <1>1
  <2>. QED  BY <1>1, <2>1, SameCardinality DEF Promise!Free, Free
<1>. QED  BY <1>2 DEF Promise!IsPick, IsPick, Promise!Bidders, Bidders

\* The mechanism's fair bids are those of module WinnerSelection.
LEMMA SameFairBids ==
  ASSUME NEW b
  PROVE  Promise!FairBids(b) = FairBids(b)
<1>1. ASSUME NEW v, NEW u, NEW p
      PROVE  Promise!Beats(b, v, u, p) <=> Beats(b, v, u, p)
  BY SameFilter DEF Promise!Beats, Beats
<1>2. ASSUME NEW u
      PROVE  Promise!Fair(b, u) <=> Fair(b, u)
  <2>1. Promise!Traded(b[u]) = Traded(b[u])
    BY DEF Promise!Traded, Traded
  <2>. QED  BY <1>1, <2>1, SameCardinality DEF Promise!Fair, Fair
<1>. QED  BY <1>2 DEF Promise!FairBids, FairBids

\* The filter keeps the fair bids and marks the guessed ones.
LEMMA KeepsFairBids ==
  ASSUME IInv, pc \notin {"baselines", "filter"}
  PROVE  kept = FairBids(bids) /\ proxied = Guessed(bids)
<1>1. IsAuction(bids) /\ DOMAIN bids \ {} = DOMAIN bids
  BY DEF IInv, TypeInv, TypeOK
<1>. DEFINE valuable == {u \in DOMAIN bids : bids[u].total # 0}
<1>2. /\ IsBaseline([u \in DOMAIN bids |-> bids[u]], baselines)
      /\ kept = {u \in valuable : IsFair(bids[u], baselines)}
      /\ discarded = valuable \ kept
      /\ proxied = {u \in discarded : FilterProxied(bids[u], baselines)}
  BY <1>1 DEF IInv, FilterInv
<1>3. IsBaseline(bids, baselines)
  BY <1>2 DEF IsBaseline, SetsBaseline
<1>4. \A u \in DOMAIN bids : IsFair(bids[u], baselines) <=> Fair(bids, u)
  BY <1>1, <1>3, FairByBaseline
<1>5. \A u \in DOMAIN bids : FilterProxied(bids[u], baselines) <=>
        \E p \in Traded(bids[u]) \ DOMAIN bids[u].score, v \in DOMAIN bids : Beats(bids, v, u, p)
  BY <1>1, <1>3, ProxiedByBaseline
<1>6. kept = FairBids(bids)
  BY <1>2, <1>4 DEF FairBids
<1>7. proxied = Guessed(bids)
  BY <1>2, <1>4, <1>5 DEF Guessed
<1>. QED  BY <1>6, <1>7

\* Rank awards, the end of a reference pick refers, and nothing else is seen.
LEMMA StepImplements == IInv /\ [Next]_vars => [Promise!Next]_(Promise!vars)
<1>. SUFFICES ASSUME IInv, [Next]_vars PROVE [Promise!Next]_(Promise!vars)
  OBVIOUS
<1>1. CASE UNCHANGED vars \/ Returned
  BY <1>1 DEF Returned, Promise!vars, Awarded, vars
<1>2. CASE Rank
  <2>1. /\ ~Awarded /\ Awarded' /\ kept' = kept /\ bids' = bids /\ references' = references
        /\ winners' = chosen /\ kept = Promise!FairBids(bids)
    BY <1>2, KeepsFairBids, SameFairBids DEF Rank, Picked, Awarded
  <2>2. IsPick(bids, {}, kept, chosen)
    BY <1>2, PickDone DEF Rank, Picked, Candidates, Head, IInv
  <2>3. chosen \subseteq kept
    BY <2>2 DEF IsPick
  <2>4. Promise!IsPick(bids, {}, kept, chosen)
    BY <2>2, SamePick
  <2>5. Promise!Award
    BY <2>1, <2>3, <2>4 DEF Promise!Award
  <2>. QED  BY <2>5 DEF Promise!Next
<1>3. CASE Reference
  <2>1. PICK s \in Solver : leaving = {s}
    BY <1>3 DEF Reference, Picked, IInv, TypeInv, TypeOK
  <2>. DEFINE others == {u \in kept : bids[u].solver # s}
  <2>2. /\ Awarded /\ Awarded' /\ UNCHANGED <<bids, kept, winners>>
        /\ s \in Bidders(bids, winners) \ DOMAIN references
    BY <1>3, <2>1 DEF Reference, Picked, Awarded, ranking, IInv, TypeInv
  <2>3. IsPick(bids, winners, others, chosen)
    BY <1>3, <2>1, ReferencePicked DEF Reference, IInv
  <2>4. chosen \in SUBSET others
    BY <2>3 DEF IsPick
  <2>5. references' = [t \in DOMAIN references \cup {s} |-> IF t = s THEN chosen ELSE references[t]]
    BY <1>3, <2>1 DEF Reference
  <2>6. Promise!Refer(s)
    BY <2>2, <2>3, <2>4, <2>5, SamePick DEF Promise!Refer
  <2>. QED  BY <2>6 DEF Promise!Next
<1>4. ASSUME NEW u, ScoreBaseline(u) \/ Judge(u) \/ Consider(u) \/ PassBy(u) \/ LeaveOut(u)
      PROVE  UNCHANGED Promise!vars
  BY <1>4 DEF ScoreBaseline, Judge, Consider, PassBy, LeaveOut, CallPick, Promise!vars, Awarded,
     ranking, results
<1>5. CASE StartRank \/ StopPick \/ DropWorthless
  BY <1>5 DEF StartRank, CallPick, StopPick, DropWorthless, Promise!vars, Awarded, ranking, results,
     picking
<1>6. CASE NoGuess \/ RestoreGuesses \/ Guess
  BY <1>6 DEF NoGuess, RestoreGuesses, Guess, CallPick, Picked, ReferencesDone, Promise!vars, Awarded,
     ranking, results
<1>. QED  BY <1>1, <1>2, <1>3, <1>4, <1>5, <1>6 DEF Next

\* The loops of winner_selection.py implement the mechanism: fair bids, greedy
\* pick, and for every winning solver the outcome without it.
THEOREM Implements == Spec => ImplementsMechanism
<1>1. Init => Promise!Init
  BY DEF Init, Promise!Init, Awarded
<1>. QED  BY <1>1, StepImplements, Inductive, PTL DEF Spec, ImplementsMechanism, Promise!Spec
=============================================================================
