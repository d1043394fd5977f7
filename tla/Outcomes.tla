------------------------------- MODULE Outcomes -------------------------------
(***************************************************************************)
(* What the winners of one side of the counterfactual deliver, and what they *)
(* are paid: the inherited-slot rule and the caps of loo/counterfactual.py,  *)
(* and the reward formula of loo/rewards.py.                                *)
(*                                                                         *)
(* A recorded auction is a record: its `bids'; which of them `won' for real; *)
(* `settled', the on-chain outcome of a recorded winner; `caps', the upper   *)
(* cap of a recorded winner; the auction's `lower' cap and whether it is     *)
(* `excluded' from rewards; whether its valuation `failed' and whether a bid *)
(* makes it `suspect' of a wrong price.  `settled' and `caps' may lack       *)
(* entries.                                                                *)
(***************************************************************************)
EXTENDS WinnerSelection, Functions

CONSTANTS
  Order,       \* order uids
  UserOrders,  \* the orders whose surplus is a user's; the others are JIT
  PairOf       \* an order fixes its directed pair

ASSUME OutcomesAssumption ==
  IsFiniteSet(Order) /\ UserOrders \subseteq Order /\ PairOf \in [Order -> Pair]

PairsOf(orders) == {PairOf[o] : o \in orders}

(***************************************************************************)
(* A bid with its orders: the surplus (`gain') of each of its user orders,  *)
(* the fee of each of those whose policies are recorded, the others being   *)
(* `dark'.  It claims the pair of every order and trades the pairs of its    *)
(* user orders.                                                             *)
(***************************************************************************)
IsBid(s) ==
  /\ IsSolution(s)
  /\ s.orders \subseteq Order /\ s.orders # {}
  /\ s.gain \in [s.orders \cap UserOrders -> Nat]
  /\ s.dark \subseteq DOMAIN s.gain
  /\ s.fee \in [DOMAIN s.gain \ s.dark -> Nat]
  /\ s.claims = PairsOf(s.orders)
  /\ Traded(s) = PairsOf(DOMAIN s.gain)

Outcome == {"in_time", "late", "reverted"}

IsRecorded(a) ==
  /\ IsAuction(a.bids) /\ \A u \in DOMAIN a.bids : IsBid(a.bids[u])
  /\ a.won \subseteq DOMAIN a.bids
  /\ \A u, v \in a.won : u # v => Disjoint(a.bids, u, v)
  /\ DOMAIN a.settled \subseteq a.won /\ \A u \in DOMAIN a.settled : a.settled[u] \in Outcome
  /\ DOMAIN a.caps \subseteq a.won /\ \A u \in DOMAIN a.caps : a.caps[u] \in Nat
  /\ a.lower \in Int /\ {a.excluded, a.failed, a.suspect} \subseteq BOOLEAN

Totals(b, W) == SumFunctionOnSet([u \in W |-> b[u].total], W)

----------------------------------------------------------------------------
(* Settlement *)

\* A late batch filled its orders and counts as a failure all the same.
CountsAsExecuted(outcome) == outcome = "in_time"

\* Some recorded winner has no outcome, which the `inherited' rule refuses.
SettlementMissing(a, rule) == rule = "inherited" /\ a.won \ DOMAIN a.settled # {}

\* The recorded winner holding each pair: winners claim disjoint pairs.
Slots(a, W) == UNION {a.bids[u].claims : u \in W}
Holder(a, W, p) == CHOOSE u \in W : p \in a.bids[u].claims

\* The recorded winners whose pairs u claims.
Displaced(a, W, u) == {Holder(a, W, p) : p \in a.bids[u].claims \cap Slots(a, W)}

\* Fault: a replacement delivers if any of the slots it takes delivered.
ExecutedIfAny(a, rule, u) ==
  CASE rule = "assume-settled" -> TRUE
    [] rule = "inherited" /\ u \in a.won -> CountsAsExecuted(a.settled[u])
    [] OTHER -> Displaced(a, a.won, u) = {} \/
                \E w \in Displaced(a, a.won, u) : CountsAsExecuted(a.settled[w])

\* The settlement decision of one winner of one side: its own record, and for
\* a replacement what really happened to every slot it takes.
Executed(a, rule, u) ==
  CASE rule = "assume-settled" -> TRUE
    [] rule = "inherited" /\ u \in a.won -> CountsAsExecuted(a.settled[u])
    [] OTHER -> \A w \in Displaced(a, a.won, u) : CountsAsExecuted(a.settled[w])

Orphans(a, rule, W) ==
  {u \in W \ a.won : rule = "inherited" /\ Displaced(a, a.won, u) = {}}

InheritedReverts(a, rule, W) == {u \in W \ a.won : rule = "inherited" /\ ~Executed(a, rule, u)}

\* The AssertionError of side_outcomes: one order in two winners' executions.
ClaimedTwice(a, W) ==
  \E u, v \in W : u # v /\ a.bids[u].orders \cap a.bids[v].orders # {}

\* What side_outcomes says of every order the winners W execute or fail to.
SideOrders(a, rule, W) ==
  [o \in UNION {a.bids[u].orders : u \in W} |->
     LET u == CHOOSE v \in W : o \in a.bids[v].orders
         executed == Executed(a, rule, u)
     IN  [executed  |-> executed,
          surplus   |-> IF executed /\ o \in UserOrders THEN a.bids[u].gain[o] ELSE 0,
          fee       |-> IF executed /\ o \in DOMAIN a.bids[u].fee THEN a.bids[u].fee[o] ELSE 0,
          feesKnown |-> ~executed \/ o \notin a.bids[u].dark,
          observed  |-> rule = "inherited" /\ u \in a.won,
          late      |-> rule = "inherited" /\ u \in a.won /\ a.settled[u] = "late"]]

\* Fault: the denominator reads the record whatever the rule.
RecordedExecutionsOfRecord(a, rule) ==
  UNION {DOMAIN a.bids[u].gain :
           u \in {w \in a.won \cap DOMAIN a.settled : CountsAsExecuted(a.settled[w])}}

\* The orders of users the recorded winners executed, the denominator of the
\* window: recorded_executed_volume.
RecordedExecutions(a, rule) ==
  UNION {DOMAIN a.bids[u].gain : u \in {w \in a.won : Executed(a, rule, w)}}

----------------------------------------------------------------------------
(* Caps and rewards.  An unknown amount is {}, a known one {n}. *)

CapHolders(a) == DOMAIN a.caps

\* Fault: a displaced cap is inherited once per pair it is displaced on.
WinnerCapPerPair(a, u) ==
  LET pairs == a.bids[u].claims \cap Slots(a, CapHolders(a))
  IN  CASE u \in CapHolders(a) -> {a.caps[u]}
        [] u \notin CapHolders(a) /\ pairs = {} -> {}
        [] OTHER -> {SumFunctionOnSet([p \in pairs |-> a.caps[Holder(a, CapHolders(a), p)]], pairs)}

\* The contribution of one winner to its solver's upper cap, winner_caps.
WinnerCap(a, u) ==
  LET displaced == Displaced(a, CapHolders(a), u)
  IN  CASE u \in CapHolders(a) -> {a.caps[u]}
        [] u \notin CapHolders(a) /\ displaced = {} -> {}
        [] OTHER -> {SumFunctionOnSet(a.caps, displaced)}

CapInheritors(a, W) == {u \in W \ CapHolders(a) : Displaced(a, CapHolders(a), u) # {}}

\* The recorded winners whose cap more than one of W inherits.
DoubleInherited(a, W) ==
  {w \in CapHolders(a) :
     \E u, v \in CapInheritors(a, W) :
       u # v /\ w \in Displaced(a, CapHolders(a), u) /\ w \in Displaced(a, CapHolders(a), v)}

Lesser(x, y) == IF x < y THEN x ELSE y
Greater(x, y) == IF x > y THEN x ELSE y

\* Fault: a reference score above the winning score is not clamped.
UncappedUnclamped(winning, competition, observed, reference) ==
  winning - competition + observed - reference

Uncapped(winning, competition, observed, reference) ==
  winning - competition + observed - Lesser(winning, reference)

\* uncapped_rewards for the winners W of a side, given the reference scores.
Rewards(a, rule, W, reference) ==
  [s \in Bidders(a.bids, W) |->
     LET own         == {u \in W : a.bids[u].solver = s}
         competition == Totals(a.bids, own)
         observed    == Totals(a.bids, {u \in own : Executed(a, rule, u)})
         uncapped    == Uncapped(Totals(a.bids, W), competition, observed, reference[s])
         upper       == IF CapHolders(a) = {} \/ \E u \in own : WinnerCap(a, u) = {} THEN {}
                        ELSE {SumFunctionOnSet([u \in own |-> CHOOSE c \in WinnerCap(a, u) : TRUE], own)}
     IN  [competition |-> competition, observed |-> observed, reference |-> reference[s],
          uncapped |-> uncapped, upper |-> upper, inherited |-> own \cap CapInheritors(a, W) # {},
          capped |-> {IF a.excluded THEN 0 ELSE Lesser(Greater(uncapped, a.lower), c) : c \in upper}]]
=============================================================================
