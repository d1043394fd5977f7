------------------------------ MODULE Mechanism ------------------------------
(***************************************************************************)
(* What the auction mechanism promises, without the loops that compute it:  *)
(* in one step the fair bids are awarded greedily, and then every winning   *)
(* solver is told the outcome of the auction without it.  Arbitration       *)
(* implements this specification.                                           *)
(***************************************************************************)
EXTENDS WinnerSelection

CONSTANT Auctions

VARIABLES
  bids,        \* the auction
  awarded,     \* has it been decided?
  kept,        \* the bids that passed the fairness filter
  winners,     \* the bids that won
  references   \* per winning solver, the bids that win without it

vars == <<bids, awarded, kept, winners, references>>

Init ==
  /\ bids \in Auctions
  /\ awarded = FALSE
  /\ kept = {} /\ winners = {} /\ references = <<>>

Award ==
  /\ ~awarded /\ awarded' = TRUE
  /\ kept' = FairBids(bids)
  /\ winners' \in SUBSET kept'
  /\ IsPick(bids, {}, kept', winners')
  /\ UNCHANGED <<bids, references>>

\* The auction without s is decided among the bids that were fair with it.
Refer(s) ==
  /\ awarded
  /\ s \in Bidders(bids, winners) \ DOMAIN references
  /\ LET others == {u \in kept : bids[u].solver # s}
     IN  \E W \in SUBSET others :
           /\ IsPick(bids, winners, others, W)
           /\ references' = [t \in DOMAIN references \cup {s} |->
                               IF t = s THEN W ELSE references[t]]
  /\ UNCHANGED <<bids, awarded, kept, winners>>

Next == Award \/ \E s \in Solver : Refer(s)

Spec == Init /\ [][Next]_vars
=============================================================================
