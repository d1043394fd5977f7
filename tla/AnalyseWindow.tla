----------------------------- MODULE AnalyseWindow -----------------------------
(***************************************************************************)
(* analyse_window of loo/run.py with the loader of loo/extract.py: the        *)
(* removal groups are resolved to addresses, a run is set up for every group  *)
(* under every outcome rule, and the auctions, extracted chunk by chunk, pass *)
(* through all runs one after the other.  In the end every run gets the list  *)
(* of auctions left out and has its reward deltas converted to COW.          *)
(***************************************************************************)
EXTENDS RecordedWindow, SequencesExt

CONSTANTS
  Databases,   \* what a database may hold
  Asked,       \* the arguments of analyse_window
  ChunkSize,   \* auctions per query, CHUNK_SIZE
  MaxRuns      \* as many runs as any of Asked asks for

IsAsked(q) ==
  /\ q.solvers \in Seq(Seq(Name)) /\ q.rules \in Seq(Rules)
  /\ q.limit \in Nat
  /\ q.score \in BOOLEAN /\ q.excludeSuspects \in BOOLEAN /\ q.withQuotes \in BOOLEAN

ASSUME AnalyseWindowAssumption ==
  /\ \A d \in Databases : IsDatabase(d)
  /\ \A q \in Asked : IsAsked(q)
  /\ IsFiniteSet(Rate)
  /\ ChunkSize \in Nat \ {0} /\ MaxRuns \in Nat
  /\ \A q \in Asked : Len(q.solvers) * Len(q.rules) <= MaxRuns

VARIABLES
  db, asked,
  watched,     \* auxiliary: the run whose report somebody reads
  pc,          \* where in analyse_window, or the error that ended it
  name,        \* the next name of the group being resolved
  group,       \* group_addresses
  resolved,    \* the groups resolved so far
  runs,        \* window.runs
  bySolver,    \* by_scenario: per label, the addresses whose quotes are replaced
  chunk,       \* positions of the auctions extracted and not yet passed on
  left,        \* positions still to be extracted
  next,        \* the next run to see the bundle at the head of the chunk
  missing      \* window.missing_data

given == <<db, asked, watched>>
resolving == <<name, group, resolved>>
streaming == <<chunk, left, next, missing>>
vars == <<db, asked, watched, pc, name, group, resolved, runs, bySolver, chunk, left, next,
          missing>>

Errors == {"ValueError", "SolverResolutionError", "NoQuoteDataError", "MissingPricesError",
           "MissingAuctionContextError", "MissingSettlementError"}

Init ==
  /\ db \in Databases /\ asked \in Asked /\ watched \in 1..MaxRuns
  /\ pc = "check"
  /\ name = 1 /\ group = {} /\ resolved = <<>>
  /\ runs = <<>> /\ bySolver = <<>>
  /\ chunk = <<>> /\ left = <<>> /\ next = 1 /\ missing = <<>>

Raise(error) ==
  /\ pc' = error
  /\ UNCHANGED <<given, resolving, runs, bySolver, streaming>>

----------------------------------------------------------------------------
(* The removal groups *)

Entry == asked.solvers[Len(resolved) + 1]
Unresolved == pc = "resolve" /\ Len(resolved) < Len(asked.solvers)

CheckRules ==
  /\ pc = "check"
  /\ IF asked.rules = <<>> \/ ~IsInjective(asked.rules) THEN Raise("ValueError")
     ELSE pc' = "resolve" /\ UNCHANGED <<given, resolving, runs, bySolver, streaming>>

\* resolve_solver, with the check that no competitor is in a group twice.
ResolveName ==
  /\ Unresolved /\ name <= Len(Entry)
  /\ LET live == db.live[Entry[name]]
     IN  IF live = {} \/ live \cap group # {} THEN Raise("SolverResolutionError")
         ELSE /\ group' = group \cup live /\ name' = name + 1
              /\ UNCHANGED <<given, pc, resolved, runs, bySolver, streaming>>

\* Fault: the addresses of one group stay in the next.
CloseGroupKeeping ==
  /\ Unresolved /\ name > Len(Entry)
  /\ IF Entry = <<>> \/ \E i \in DOMAIN resolved : resolved[i].addresses = group
     THEN Raise("SolverResolutionError")
     ELSE /\ resolved' = Append(resolved, [label |-> Entry, addresses |-> group])
          /\ name' = 1
          /\ UNCHANGED <<given, pc, group, runs, bySolver, streaming>>

\* Two groups may overlap, but not be the same removal.
CloseGroup ==
  /\ Unresolved /\ name > Len(Entry)
  /\ IF Entry = <<>> \/ \E i \in DOMAIN resolved : resolved[i].addresses = group
     THEN Raise("SolverResolutionError")
     ELSE /\ resolved' = Append(resolved, [label |-> Entry, addresses |-> group])
          /\ name' = 1 /\ group' = {}
          /\ UNCHANGED <<given, pc, runs, bySolver, streaming>>

NumRules == Len(asked.rules)
GroupOf(k) == ((k - 1) \div NumRules) + 1
RuleOf(k) == asked.rules[((k - 1) % NumRules) + 1]

\* One run per group and rule.
StartRuns ==
  /\ pc = "resolve" /\ Len(resolved) = Len(asked.solvers)
  /\ runs' = [k \in 1..(Len(resolved) * NumRules) |->
                [label |-> resolved[GroupOf(k)].label, removed |-> resolved[GroupOf(k)].addresses,
                 rule |-> RuleOf(k), quoted |-> {}, analysis |-> NoAnalysis,
                 missing |-> <<>>, cow |-> Unknown]]
  /\ left' = [i \in 1..(IF asked.limit = 0 \/ asked.limit > Len(db.auctions)
                        THEN Len(db.auctions) ELSE asked.limit) |-> i]
  /\ pc' = IF left' = <<>> THEN "done" ELSE IF asked.withQuotes THEN "quotes" ELSE "load"
  /\ UNCHANGED <<given, resolving, bySolver, chunk, next, missing>>

\* The quote side is analysed once per group and found again by its label.
AnalyseQuotes ==
  /\ pc = "quotes"
  /\ IF ~db.quoteData THEN Raise("NoQuoteDataError")
     ELSE /\ bySolver' = [l \in {resolved[i].label : i \in DOMAIN resolved} |->
                            LET i == Max({j \in DOMAIN resolved : resolved[j].label = l})
                            IN  resolved[i].addresses]
          /\ runs' = [k \in DOMAIN runs |-> [runs[k] EXCEPT !.quoted = bySolver'[runs[k].label]]]
          /\ pc' = "load"
          /\ UNCHANGED <<given, resolving, streaming>>

----------------------------------------------------------------------------
(* load_auctions *)

Row(i) == db.auctions[i]

\* The rows of a whole chunk are there before its first auction is passed on.
LoadChunk ==
  /\ pc = "load" /\ left # <<>>
  /\ LET n == IF Len(left) < ChunkSize THEN Len(left) ELSE ChunkSize
         rows == {Row(left[i]) : i \in 1..n}
         unpriced == {a \in rows : a.context /\ a.prices # "array"}
     IN  IF (unpriced # {} /\ ~db.legacyTable)
            \/ \E a \in unpriced : a.prices = "lost" /\ a.bidders # {}
         THEN Raise("MissingPricesError")
         ELSE /\ chunk' = SubSeq(left, 1, n) /\ left' = SubSeq(left, n + 1, Len(left))
              /\ pc' = "stream"
              /\ UNCHANGED <<given, resolving, runs, bySolver, next, missing>>

Streaming == pc = "stream" /\ chunk # <<>>
Bundle == Row(Head(chunk))

NextChunk ==
  /\ pc = "stream" /\ chunk = <<>>
  /\ pc' = "load"
  /\ UNCHANGED <<given, resolving, runs, bySolver, streaming>>

SkipEmpty ==
  /\ Streaming /\ Bundle.bidders = {}
  /\ chunk' = Tail(chunk)
  /\ UNCHANGED <<given, pc, resolving, runs, bySolver, left, next, missing>>

RaiseNoContext ==
  /\ Streaming /\ Bundle.bidders # {} /\ ~Bundle.context
  /\ Raise("MissingAuctionContextError")

\* MissingOrderError: the whole auction is left out, and named.
DropUnknown ==
  /\ Streaming /\ Bundle.bidders # {} /\ Bundle.context /\ ~Bundle.ordersKnown
  /\ missing' = Append(missing, Head(chunk)) /\ chunk' = Tail(chunk)
  /\ UNCHANGED <<given, pc, resolving, runs, bySolver, left, next>>

Yield ==
  /\ Streaming /\ Bundle.bidders # {} /\ Bundle.context /\ Bundle.ordersKnown
  /\ pc' = "runs" /\ next' = 1
  /\ UNCHANGED <<given, resolving, runs, bySolver, chunk, left, missing>>

----------------------------------------------------------------------------
(* The loop over the runs *)

Scenario(k) ==
  [removed |-> runs[k].removed, quoted |-> runs[k].quoted, rule |-> runs[k].rule,
   score |-> asked.score, excludeSuspects |-> asked.excludeSuspects]

\* A winner without an outcome ends every run, also those it does not matter to.
AnalyseRun ==
  /\ pc = "runs" /\ next <= Len(runs)
  /\ IF Unsettled(Bundle, Scenario(next)) THEN Raise("MissingSettlementError")
     ELSE /\ runs' = [runs EXCEPT ![next].analysis = AddTo(@, Bundle, Scenario(next))]
          /\ next' = next + 1
          /\ UNCHANGED <<given, pc, resolving, bySolver, chunk, left, missing>>

NextBundle ==
  /\ pc = "runs" /\ next > Len(runs)
  /\ chunk' = Tail(chunk) /\ pc' = "stream" /\ next' = 1
  /\ UNCHANGED <<given, resolving, runs, bySolver, left, missing>>

\* The auctions left out are a property of the window: every run reports them.
Finish ==
  /\ pc = "load" /\ left = <<>>
  /\ runs' = [k \in DOMAIN runs |-> [runs[k] EXCEPT !.missing = missing]]
  /\ pc' = IF asked.score THEN "convert" ELSE "done"
  /\ UNCHANGED <<given, resolving, bySolver, streaming>>

----------------------------------------------------------------------------
(* convert_delta_rewards *)

\* Fault: an auction where only a capped reward moved is not converted.
MovedUncapped(n) == {i \in DOMAIN n.changed : n.changed[i].rewards # 0}

\* moved_auctions, by their places in the list.
Moved(n) ==
  {i \in DOMAIN n.changed : n.changed[i].rewards # 0 \/ Known(n.changed[i].capped) # 0}

Uncapped(n) == [i \in DOMAIN n.changed |-> n.changed[i].rewards]
Capped(n) == [i \in DOMAIN n.changed |-> Known(n.changed[i].capped)]

\* A rate of 0 is no rate either.
HasRate(c) == c.rate \notin {NoRate, 0}

Rated(n) == {i \in Moved(n) : HasRate(n.changed[i])}
RatedAt(n, r) == {i \in Rated(n) : n.changed[i].rate = r}
Unrated(n) == Moved(n) \ Rated(n)

\* What is divided by each rate, and what is left unconverted.
Convert(n) ==
  [cow |-> [r \in Rate |-> SumFunctionOnSet(Uncapped(n), RatedAt(n, r))],
   cowCapped |-> [r \in Rate |-> SumFunctionOnSet(Capped(n), RatedAt(n, r))],
   converted |-> SumFunctionOnSet(Uncapped(n), Rated(n)),
   withoutRate |-> Cardinality(Unrated(n)),
   native |-> SumFunctionOnSet(Uncapped(n), Unrated(n)),
   nativeCapped |-> SumFunctionOnSet(Capped(n), Unrated(n))]

ConvertRuns ==
  /\ pc = "convert" /\ pc' = "done"
  /\ runs' = [k \in DOMAIN runs |-> [runs[k] EXCEPT !.cow = Convert(runs[k].analysis)]]
  /\ UNCHANGED <<given, resolving, bySolver, streaming>>

Returned == pc \in Errors \cup {"done"} /\ UNCHANGED vars

Next ==
  \/ CheckRules \/ ResolveName \/ CloseGroup \/ StartRuns \/ AnalyseQuotes
  \/ LoadChunk \/ NextChunk \/ SkipEmpty \/ RaiseNoContext \/ DropUnknown \/ Yield
  \/ AnalyseRun \/ NextBundle \/ Finish \/ ConvertRuns \/ Returned

\* A sequential program whose loops run over finite lists.
Spec == Init /\ [][Next]_vars /\ WF_vars(Next)

----------------------------------------------------------------------------
(* Properties *)

\* The addresses a group stands for, from the arguments and the database alone.
AddressesOf(i) == UNION {db.live[asked.solvers[i][j]] : j \in DOMAIN asked.solvers[i]}

Requested(k) == NumRules # 0 /\ k <= Len(asked.solvers) * NumRules

ScenarioOf(k) ==
  IF Requested(k)
  THEN [removed |-> AddressesOf(GroupOf(k)), rule |-> RuleOf(k),
        quoted |-> IF asked.withQuotes THEN AddressesOf(GroupOf(k)) ELSE {},
        score |-> asked.score, excludeSuspects |-> asked.excludeSuspects]
  ELSE [removed |-> {}, rule |-> "inherited", quoted |-> {}, score |-> FALSE,
        excludeSuspects |-> FALSE]

Ids == SubSeq(db.auctions, 1,
              IF asked.limit = 0 \/ asked.limit > Len(db.auctions)
              THEN Len(db.auctions) ELSE asked.limit)

Started(k) == k <= Len(runs)

\* The auctions behind run k: all that left the chunk, and the one it has just seen.
Behind(k) ==
  IF ~Started(k) THEN 0
  ELSE Len(Ids) - Len(left) - Len(chunk) + IF next > k THEN 1 ELSE 0

Alone ==
  INSTANCE RemovalRun WITH
    auctions <- Ids,
    scenario <- ScenarioOf(watched),
    status <- CASE ~Requested(watched) -> "absent"
                [] Requested(watched) /\ pc \in Errors -> "failed"
                [] Requested(watched) /\ pc \in {"convert", "done"} -> "reported"
                [] OTHER -> "running",
    at <- Behind(watched),
    analysis <- IF Started(watched) THEN runs[watched].analysis ELSE NoAnalysis,
    missing <- IF Started(watched) THEN runs[watched].missing ELSE <<>>

\* Every run is the run that its group under its rule would have been on its own,
\* whatever is analysed beside it: no address, quote, counter or skipped auction of one
\* run reaches another, each auction is counted once or named once as left out, and either
\* all runs are reported or none is (analyse_window).
RunsAreIndependent == Alone!Spec

\* Every reward delta of a run is converted at the rate of its auction or reported as
\* without a rate, the uncapped and the capped one alike: the conversion reads only the
\* auctions kept in `changed', and none of them twice (convert_delta_rewards).
DeltasAreConverted ==
  pc = "done" => \A k \in DOMAIN runs : runs[k].cow # Unknown =>
    LET n == runs[k].analysis
        cow == runs[k].cow
    IN  /\ SumFunction(cow.cow) = cow.converted
        /\ cow.converted + cow.native = n.rewards
        /\ SumFunction(cow.cowCapped) + cow.nativeCapped = n.capped
=============================================================================
