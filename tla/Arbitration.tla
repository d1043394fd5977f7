----------------------------- MODULE Arbitration -----------------------------
(***************************************************************************)
(* One auction through loo/winner_selection.py, loop by loop: arbitrate     *)
(* (baselines, drop, fairness filter, greedy pick, rank), then              *)
(* compute_reference_outcomes and filter_guess_could_matter over the        *)
(* Ranking it returned.  The three callers of pick_winners share its loop;  *)
(* `caller' is the return address.                                          *)
(***************************************************************************)
EXTENDS WinnerSelection

CONSTANT
  Auctions     \* the auctions considered: a set of bid functions

ASSUME AuctionsAssumption == \A b \in Auctions : IsAuction(b)

VARIABLES
  bids,        \* the input of arbitrate
  pc,          \* the loop being run
  todo,        \* what the current loop has not visited yet
  baselines,   \* Ranking.baselines, 0 where the dict has no entry
  kept,        \* solutions that passed the filter
  discarded,   \* Ranking.filtered_out
  proxied,     \* Ranking.proxied_uids
  winners,     \* Ranking.winner_uids
  caller,      \* who called pick_winners
  claimed,     \* pairs claimed so far by the pick
  chosen,      \* winners chosen so far by the pick
  walk,        \* what compute_reference_outcomes has not visited yet
  leaving,     \* the solver it is leaving out
  references,  \* per winning solver, the winners of the pick without it
  couldMatter  \* the answer of filter_guess_could_matter

ranking == <<bids, baselines, kept, discarded, proxied, winners>>
picking == <<caller, claimed, chosen>>
results == <<walk, leaving, references, couldMatter>>
vars == <<bids, pc, todo, baselines, kept, discarded, proxied, winners, caller,
          claimed, chosen, walk, leaving, references, couldMatter>>

Init ==
  /\ bids \in Auctions
  /\ pc = "baselines"
  /\ todo = DOMAIN bids
  /\ baselines = [p \in Pair |-> 0]
  /\ kept = {} /\ discarded = {} /\ proxied = {} /\ winners = {}
  /\ caller = "none" /\ claimed = {} /\ chosen = {}
  /\ walk = {} /\ leaving = {} /\ references = <<>> /\ couldMatter = FALSE

\* u comes first among S in the order of the list being walked.
FirstOf(S, T, u) == u \in S /\ \A v \in S \ {u} : Before(bids, T, u, v)

----------------------------------------------------------------------------
(* arbitrate *)

ScoreBaseline(u) ==
  /\ pc = "baselines"
  /\ u \in todo /\ \A v \in todo : u <= v
  /\ todo' = todo \ {u}
  /\ baselines' = [p \in Pair |->
       IF SetsBaseline(bids, u, p) /\ bids[u].total > baselines[p]
       THEN bids[u].total ELSE baselines[p]]
  /\ UNCHANGED <<bids, pc, kept, discarded, proxied, winners, picking, results>>

DropWorthless ==
  /\ pc = "baselines" /\ todo = {}
  /\ pc' = "filter"
  /\ todo' = {u \in DOMAIN bids : bids[u].total # 0}
  /\ UNCHANGED <<ranking, picking, results>>

Judge(u) ==
  /\ pc = "filter"
  /\ FirstOf(todo, {}, u)
  /\ todo' = todo \ {u}
  /\ IF IsFair(bids[u], baselines)
     THEN kept' = kept \cup {u} /\ UNCHANGED discarded
     ELSE discarded' = discarded \cup {u} /\ UNCHANGED kept
  /\ proxied' = IF Cardinality(Traded(bids[u])) > 1 /\ FilterProxied(bids[u], baselines)
                THEN proxied \cup {u} ELSE proxied
  /\ UNCHANGED <<bids, pc, baselines, winners, picking, results>>

----------------------------------------------------------------------------
(* pick_winners *)

CallPick(who, candidates) ==
  /\ pc' = "pick" /\ caller' = who
  /\ todo' = candidates
  /\ claimed' = {} /\ chosen' = {}

\* Fault: the reference pick walks the solutions by total alone.
HeadByTotal == {}

\* The list pick_winners was handed: `ranked' in the reference loop, and a
\* list sorted by (-total, uid) in the two other calls.
Head == IF caller = "reference" THEN winners ELSE {}

\* Fault: the limit is tested one winner too late.
FullLate == Cardinality(chosen) > MaxWinners

Full == Cardinality(chosen) >= MaxWinners

\* Fault: a winner claims only the pairs whose orders count towards its total.
ConsiderTraded(u) ==
  /\ pc = "pick" /\ ~Full
  /\ FirstOf(todo, Head, u)
  /\ todo' = todo \ {u}
  /\ IF Traded(bids[u]) \cap claimed = {}
     THEN chosen' = chosen \cup {u} /\ claimed' = claimed \cup Traded(bids[u])
     ELSE UNCHANGED <<chosen, claimed>>
  /\ UNCHANGED <<pc, caller, ranking, results>>

Consider(u) ==
  /\ pc = "pick" /\ ~Full
  /\ FirstOf(todo, Head, u)
  /\ todo' = todo \ {u}
  /\ IF bids[u].claims \cap claimed = {}
     THEN chosen' = chosen \cup {u} /\ claimed' = claimed \cup bids[u].claims
     ELSE UNCHANGED <<chosen, claimed>>
  /\ UNCHANGED <<pc, caller, ranking, results>>

StopPick ==
  /\ pc = "pick" /\ Full /\ todo # {}
  /\ todo' = {}
  /\ UNCHANGED <<pc, picking, ranking, results>>

Picked(who) == pc = "pick" /\ todo = {} /\ caller = who

StartRank ==
  /\ pc = "filter" /\ todo = {}
  /\ CallPick("rank", kept)
  /\ UNCHANGED <<ranking, results>>

Rank ==
  /\ Picked("rank")
  /\ winners' = chosen
  /\ pc' = "reference" /\ walk' = kept
  /\ UNCHANGED <<bids, todo, baselines, kept, discarded, proxied, picking, leaving,
                 references, couldMatter>>

----------------------------------------------------------------------------
(* compute_reference_outcomes *)

\* One turn of the walk over `ranked' that computes nothing.
PassBy(u) ==
  /\ pc = "reference" /\ Cardinality(DOMAIN references) < MaxWinners
  /\ FirstOf(walk, winners, u)
  /\ bids[u].solver \in DOMAIN references \/ u \notin winners
  /\ walk' = walk \ {u}
  /\ UNCHANGED <<pc, todo, picking, ranking, leaving, references, couldMatter>>

LeaveOut(u) ==
  /\ pc = "reference" /\ Cardinality(DOMAIN references) < MaxWinners
  /\ FirstOf(walk, winners, u)
  /\ bids[u].solver \notin DOMAIN references /\ u \in winners
  /\ walk' = walk \ {u}
  /\ leaving' = {bids[u].solver}
  /\ CallPick("reference", {v \in kept : bids[v].solver # bids[u].solver})
  /\ UNCHANGED <<ranking, references, couldMatter>>

Reference ==
  /\ Picked("reference")
  /\ pc' = "reference"
  /\ references' = [s \in DOMAIN references \cup leaving |->
                      IF s \in leaving THEN chosen ELSE references[s]]
  /\ leaving' = {}
  /\ UNCHANGED <<todo, walk, picking, ranking, couldMatter>>

\* Fault: the early stop is one solver too early.
ReferencesDoneEarly ==
  /\ pc = "reference"
  /\ walk = {} \/ Cardinality(DOMAIN references) + 1 >= MaxWinners

ReferencesDone ==
  /\ pc = "reference"
  /\ walk = {} \/ Cardinality(DOMAIN references) >= MaxWinners

----------------------------------------------------------------------------
(* filter_guess_could_matter *)

Restored == kept \cup (discarded \cap proxied)

NoGuess ==
  /\ ReferencesDone /\ proxied = {}
  /\ pc' = "done" /\ couldMatter' = FALSE
  /\ UNCHANGED <<todo, picking, ranking, walk, leaving, references>>

RestoreGuesses ==
  /\ ReferencesDone /\ proxied # {}
  /\ CallPick("guess", Restored)
  /\ UNCHANGED <<ranking, results>>

\* Fault: the two picks are told apart by their number of winners.
GuessCount ==
  /\ Picked("guess")
  /\ pc' = "done" /\ couldMatter' = (Cardinality(chosen) # Cardinality(winners))
  /\ UNCHANGED <<todo, picking, ranking, walk, leaving, references>>

Guess ==
  /\ Picked("guess")
  /\ pc' = "done" /\ couldMatter' = (chosen # winners)
  /\ UNCHANGED <<todo, picking, ranking, walk, leaving, references>>

\* The call has returned.
Returned == pc = "done" /\ UNCHANGED vars

Next ==
  \/ \E u \in Uid : ScoreBaseline(u) \/ Judge(u) \/ Consider(u) \/ PassBy(u) \/ LeaveOut(u)
  \/ DropWorthless \/ StartRank \/ StopPick \/ Rank \/ Reference
  \/ NoGuess \/ RestoreGuesses \/ Guess \/ Returned

Spec == Init /\ [][Next]_vars

----------------------------------------------------------------------------
(* Properties *)

\* The variables hold what their comments say.
TypeOK ==
  /\ IsAuction(bids)
  /\ pc \in {"baselines", "filter", "pick", "reference", "done"}
  /\ todo \subseteq DOMAIN bids
  /\ baselines \in [Pair -> Nat]
  /\ kept \subseteq DOMAIN bids /\ discarded \subseteq DOMAIN bids
  /\ proxied \subseteq discarded /\ winners \subseteq kept
  /\ caller \in {"none", "rank", "reference", "guess"}
  /\ claimed \subseteq Pair /\ chosen \subseteq DOMAIN bids
  /\ walk \subseteq kept
  /\ leaving \in {{}} \cup {{s} : s \in Solver}
  /\ DOMAIN references \subseteq Bidders(bids, winners)
  /\ \A s \in DOMAIN references : references[s] \subseteq kept
  /\ couldMatter \in BOOLEAN

Awarded == pc \in {"reference", "done"} \/ (pc = "pick" /\ caller # "rank")

\* The abstract mechanism, which sees the filter's result once it is ranked.
Promise == INSTANCE Mechanism WITH
  awarded <- Awarded,
  kept    <- IF Awarded THEN kept ELSE {}

\* The loops compute what the mechanism promises: the winners are the greedy
\* pick among exactly the fair bids, and each reference outcome is the greedy
\* pick over `ranked' without the solver.
ImplementsMechanism == Promise!Spec

\* Winners never claim a directed pair twice, so it clears at one price, and
\* there are never more than MAX_WINNERS of them (pick_winners).
UniformClearing ==
  /\ Cardinality(winners) <= MaxWinners
  /\ \A u, v \in winners : u # v => Disjoint(bids, u, v)

\* compute_reference_outcomes stops early once it has MAX_WINNERS entries, yet
\* covers every winning solver: uncapped_rewards never meets a missing one.
EveryWinnerReferenced ==
  pc = "done" => DOMAIN references = Bidders(bids, winners)

\* The auction without a solver is still won by all the other winners, even
\* those that a bid blocked by the solver outscores: an unsettled winner earns
\* no positive reward.  This is what the winners-first order of _rank is for.
ReferenceKeepsOthers ==
  \A s \in DOMAIN references :
    {w \in winners : bids[w].solver # s} \subseteq references[s]

\* filter_guess_could_matter answers False only if no set of guessed verdicts,
\* reversed together, changes the winners.
GuessIsProof ==
  pc = "done" /\ ~couldMatter =>
    \A G \in SUBSET proxied : IsPick(bids, {}, kept \cup G, winners)

\* The filter's verdict under the protocol's own score of every pair.
TrulyFair(u) ==
  \/ Cardinality(Traded(bids[u])) = 1
  \/ \A p \in Traded(bids[u]) : bids[u].truth[p] >= baselines[p]

\* Missing fees make the filter stricter than the protocol, never looser, and
\* every bid it wrongly drops is marked in proxied_uids.
NeverLooserThanProtocol ==
  pc # "baselines" =>
    /\ \A u \in kept : TrulyFair(u)
    /\ \A u \in discarded \ proxied : ~TrulyFair(u)

\* The doc of Ranking.proxied_uids: a marked solution was judged on the surplus
\* fallback, so its verdict is a guess rather than a proof.
GuessedVerdictsAreGuesses ==
  \A u \in proxied :
    \A p \in Traded(bids[u]) \cap DOMAIN bids[u].score : FairOn(bids[u], p, baselines)

----------------------------------------------------------------------------
(* The inductive invariant: what each loop has established so far. *)

\* The list the running pick was handed.
Candidates ==
  CASE caller = "rank" -> kept
    [] caller = "reference" -> {v \in kept : bids[v].solver \notin leaving}
    [] caller = "guess" -> Restored
    [] OTHER -> {}

TypeInv ==
  /\ TypeOK
  /\ pc = "pick" =>
       /\ caller # "none"
       /\ todo \subseteq Candidates /\ chosen \subseteq Candidates \ todo
       /\ caller = "reference" =>
            leaving # {} /\ leaving \subseteq Bidders(bids, winners) \ DOMAIN references
  /\ pc # "pick" \/ caller # "reference" => leaving = {}
  /\ ~Awarded => winners = {} /\ DOMAIN references = {}

\* The baselines of the bids visited so far, then the verdicts of those judged.
FilterInv ==
  LET visited  == DOMAIN bids \ (IF pc = "baselines" THEN todo ELSE {})
      valuable == {u \in DOMAIN bids : bids[u].total # 0}
      judged   == CASE pc = "baselines" -> {} [] pc = "filter" -> valuable \ todo
                    [] OTHER -> valuable
  IN  /\ IsBaseline([u \in visited |-> bids[u]], baselines)
      /\ pc = "filter" => todo \subseteq valuable
      /\ kept = {u \in judged : IsFair(bids[u], baselines)}
      /\ discarded = judged \ kept
      /\ proxied = {u \in discarded : FilterProxied(bids[u], baselines)}

\* The pick so far is the greedy pick among the candidates it has walked.
PickInv ==
  pc = "pick" =>
    /\ Cardinality(chosen) <= MaxWinners
    /\ claimed = UNION {bids[u].claims : u \in chosen}
    /\ \A u \in Candidates \ todo, v \in todo : Before(bids, Head, u, v)
    /\ \A u \in Candidates \ todo : u \in chosen <=> Free(bids, Head, chosen, u)

RankInv ==
  Awarded => IsPick(bids, {}, kept, winners) /\ Cardinality(winners) <= MaxWinners

ReferenceInv ==
  /\ \A s \in DOMAIN references :
       IsPick(bids, winners, {u \in kept : bids[u].solver # s}, references[s])
  /\ Awarded => \A u \in winners : bids[u].solver \in DOMAIN references \cup leaving \/ u \in walk
  /\ pc = "done" \/ (pc = "pick" /\ caller = "guess") =>
       DOMAIN references = Bidders(bids, winners)

GuessInv ==
  pc = "done" /\ ~couldMatter => IsPick(bids, {}, Restored, winners)

\* Every loop of the arbitration has done, of what it promises, the part it has
\* walked: from this the properties follow, for auctions of any size.
IInv ==
  /\ TypeInv
  /\ FilterInv
  /\ PickInv
  /\ RankInv
  /\ ReferenceInv
  /\ GuessInv
=============================================================================
