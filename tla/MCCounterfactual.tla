--------------------------- MODULE MCCounterfactual ---------------------------
(***************************************************************************)
(* Small instances of Counterfactual.  Orders a on pair p and b on pair q   *)
(* are users', order j on pair q is not.  The windows are those of modules   *)
(* MCOneAuction and MCTwoAuctions.                                          *)
(***************************************************************************)
EXTENDS Counterfactual, Valuation, TLC

CONSTANTS
  NBids,          \* bids in an auction
  p, q,           \* the two pairs
  s1, s2,         \* the solvers that are removed
  a, b, j         \* the orders

MCUid == 1..NBids
MCPair == {p, q}
MCOrder == {a, b, j}
MCUserOrders == {a, b}
MCPairOf == (a :> p) @@ (b :> q) @@ (j :> q)

\* A batch: the surplus and the fee of its user orders, whether their policies
\* are unrecorded, and its other orders.
Batch(gain, fee, dark, others) == [gain |-> gain, fee |-> fee, dark |-> dark, others |-> others]

OnP(n) == Batch(a :> n, a :> 0, FALSE, {})
OnQ(n) == Batch(b :> n, b :> 0, FALSE, {})
WithJit(n) == Batch(a :> n, a :> 0, FALSE, {j})
OnBoth(m, n, f) == Batch((a :> m) @@ (b :> n), (a :> 0) @@ (b :> f), FALSE, {})
Dark(m, n, f) == Batch((a :> m) @@ (b :> n), (a :> 0) @@ (b :> f), TRUE, {})

Submission(s, x) ==
  LET os    == DOMAIN x.gain
      D     == IF x.dark THEN os ELSE {}
      value(f, O) == [r \in {MCPairOf[o] : o \in O} |->
                        SumFunctionOnSet(f, {o \in O : MCPairOf[o] = r})]
      truth == value([o \in os |-> x.gain[o] + x.fee[o]], os)
      v     == [surplus |-> value(x.gain, os), fee |-> value(x.fee, os \ D),
                unknown |-> {MCPairOf[o] : o \in D},
                claims |-> {MCPairOf[o] : o \in os \cup x.others}]
  IN  BuildSolution(s, v, SumFunction(truth), truth, "score")
        @@ [orders |-> os \cup x.others, gain |-> x.gain, dark |-> D,
            fee |-> [o \in os \ D |-> x.fee[o]]]

\* Bids are numbered best to worst.
Competitions(batches) ==
  {f \in [MCUid -> {Submission(s, x) : s \in Solver, x \in batches}] :
     \A u, v \in MCUid : u < v => f[u].total >= f[v].total}

\* The protocol's own filter, which saw every score.
TrulyFair(f, u) ==
  \/ Cardinality(Traded(f[u])) = 1
  \/ \A r \in Traded(f[u]), v \in DOMAIN f : SetsBaseline(f, v, r) => f[u].truth[r] >= f[v].total

\* What may be recorded as won: fair batches on disjoint pairs.  The policies of an
\* order are recorded unless every batch with it was filtered out.
Winnable(f, W) ==
  /\ \A u \in W : TrulyFair(f, u)
  /\ \A u, v \in W : u # v => Disjoint(f, u, v)

Plausible(f) == \A u \in DOMAIN f : f[u].dark # {} => ~TrulyFair(f, u)

\* A batch that reverted realised no fees; the others have their score for a cap.
Record(f, W, t, excluded, failed, suspect) ==
  [bids |-> f, won |-> W, settled |-> t,
   caps |-> [u \in DOMAIN t |-> IF t[u] = "reverted" THEN 0 ELSE f[u].total],
   lower |-> -1, excluded |-> excluded, failed |-> failed, suspect |-> suspect]

\* The winners of an auction and the outcomes recorded of them: of all but
\* `missing' of them.
Results(outcomes, missing) ==
  {<<W, t>> \in (SUBSET MCUid) \X (UNION {[C -> outcomes] : C \in SUBSET MCUid}) :
     /\ W # {} /\ Cardinality(W) <= MaxWinners
     /\ DOMAIN t \subseteq W /\ Cardinality(W \ DOMAIN t) \in missing}

\* The records of competitions between the batches.
Records(batches, results, flags) ==
  {Record(x[1], x[2][1], x[2][2], x[3][1], x[3][2], x[3][3]) :
     x \in {y \in {f \in Competitions(batches) : Plausible(f)} \X results \X flags :
              Winnable(y[1], y[2][1])}}

Removing(R, rule, excludeSuspects) ==
  [removed |-> R, rule |-> rule, excludeSuspects |-> excludeSuspects]

ASSUME SoundBids == \A w \in Windows : \A i \in DOMAIN w :
  \A u \in DOMAIN w[i].bids : SoundlyValued(w[i].bids[u])
=============================================================================
