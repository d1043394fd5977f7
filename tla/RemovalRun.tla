------------------------------- MODULE RemovalRun -------------------------------
(***************************************************************************)
(* What analyse_window promises of each run: it is what the run would have   *)
(* been on its own.  One scenario under one outcome rule goes through the     *)
(* auctions of the window in order, each exactly once; those whose orders are *)
(* unknown are named in the report and enter nothing else; and in the end     *)
(* there is a report, or an error and none.  AnalyseWindow, which passes one  *)
(* stream of auctions through all runs, implements this for each of them.     *)
(***************************************************************************)
EXTENDS RecordedWindow, FiniteSets

VARIABLES
  auctions,    \* the window
  scenario,    \* of this run
  status,      \* "absent" if not asked for, "running", "reported" or "failed"
  at,          \* how many auctions are behind
  analysis,    \* the counters
  missing      \* missing_data_auctions of the report

vars == <<auctions, scenario, status, at, analysis, missing>>

Init ==
  /\ \A i \in DOMAIN auctions : IsAuctionRow(auctions[i])
  /\ IsScenario(scenario)
  /\ status \in {"absent", "running"}
  /\ at = 0 /\ analysis = NoAnalysis /\ missing = <<>>

Auction == auctions[at + 1]

Analyse ==
  /\ status = "running" /\ at < Len(auctions)
  /\ Auction.bidders # {} /\ Auction.ordersKnown
  /\ ~Unsettled(Auction, scenario)
  /\ at' = at + 1
  /\ analysis' = AddTo(analysis, Auction, scenario)
  /\ UNCHANGED <<auctions, scenario, status, missing>>

Pass ==
  /\ status = "running" /\ at < Len(auctions)
  /\ Auction.bidders = {} \/ ~Auction.ordersKnown
  /\ at' = at + 1
  /\ UNCHANGED <<auctions, scenario, status, analysis, missing>>

\* The auctions that could not be read, each once and in the order of the window.
IsLeftOut(ids) ==
  /\ {ids[i] : i \in DOMAIN ids}
       = {i \in DOMAIN auctions : auctions[i].bidders # {} /\ ~auctions[i].ordersKnown}
  /\ \A i, j \in DOMAIN ids : i < j => ids[i] < ids[j]

Report ==
  /\ status = "running" /\ at = Len(auctions)
  /\ status' = "reported"
  /\ IsLeftOut(missing')
  /\ UNCHANGED <<auctions, scenario, at, analysis>>

\* Its own error, or that of another run: no report is written.
Fail ==
  /\ status = "running"
  /\ status' = "failed"
  /\ UNCHANGED <<auctions, scenario, at, analysis, missing>>

Next == Analyse \/ Pass \/ Report \/ Fail

Safe == Init /\ [][Next]_vars

Ends == <>(status # "running")

Spec == Safe /\ Ends
=============================================================================
