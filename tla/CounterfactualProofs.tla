------------------------- MODULE CounterfactualProofs -------------------------
(***************************************************************************)
(* What module Counterfactual shows of its steps, for windows, scenarios and *)
(* auctions of any size.                                                    *)
(***************************************************************************)
EXTENDS Counterfactual, WinnerSelectionProofs, Sums

\* The auction being analysed is a recorded one.
LEMMA AuctionRecorded ==
  ASSUME ControlInv, InWindow
  PROVE  IsRecorded(Auction)
BY DEF ControlInv, InWindow, Auction

\* Both sides arbitrate an auction, made of recorded bids.
LEMMA SubmittedAuction ==
  ASSUME IsRecorded(Auction), NEW side
  PROVE  /\ IsAuction(Submitted(side))
         /\ DOMAIN Submitted(side) \subseteq DOMAIN Auction.bids
         /\ \A u \in DOMAIN Submitted(side) : Submitted(side)[u] = Auction.bids[u]
BY WithoutAuction DEF IsRecorded, Submitted

\* Two winners of a pick claim disjoint pairs, so they share no order.
LEMMA NoneClaimedTwice ==
  ASSUME IsRecorded(Auction), NEW side, NEW C, C \subseteq DOMAIN Submitted(side), NEW T, NEW W,
         IsPick(Submitted(side), T, C, W)
  PROVE  ~ClaimedTwice(Auction, W)
<1>. SUFFICES ASSUME NEW u \in W, NEW v \in W, u # v,
                     NEW o \in Auction.bids[u].orders \cap Auction.bids[v].orders
              PROVE  FALSE
  BY DEF ClaimedTwice
<1>1. u \in DOMAIN Submitted(side) /\ v \in DOMAIN Submitted(side)
  BY DEF IsPick
<1>2. Disjoint(Submitted(side), u, v)
  BY SubmittedAuction, PickDisjoint
<1>3. Auction.bids[u].claims \cap Auction.bids[v].claims = {}
  BY <1>1, <1>2, SubmittedAuction DEF Disjoint
<1>4. IsBid(Auction.bids[u]) /\ IsBid(Auction.bids[v])
  BY <1>1, SubmittedAuction DEF IsRecorded
<1>5. PairOf[o] \in Auction.bids[u].claims /\ PairOf[o] \in Auction.bids[v].claims
  BY <1>4 DEF IsBid, PairsOf
<1>. QED  BY <1>3, <1>5

\* The filter loses nothing of the others when the removed solvers leave.
LEMMA NoneLost ==
  ASSUME IsRecorded(Auction), \A side \in Side : fair[side] = FairBids(Submitted(side))
  PROVE  Lost = {}
<1>1. fair["base"] = FairBids(Auction.bids) /\ fair["loo"] = FairBids(Without(Auction.bids, Removed))
  BY DEF Side, Submitted
<1>. SUFFICES ASSUME NEW u \in fair["base"], Bid(u).solver \notin Removed
              PROVE  u \in fair["loo"]
  BY DEF Lost
<1>. QED  BY <1>1, FairStaysFair DEF Bid

----------------------------------------------------------------------------
(* The inductive invariant *)

LEMMA StepInit == Init => StepInv
<1>. SUFFICES ASSUME Init PROVE StepInv
  OBVIOUS
<1>1. ControlInv
  BY CounterfactualAssumption DEF Init, ControlInv
<1>2. ~Compared /\ ~Picked
  BY DEF Init, Compared, Picked
<1>. QED  BY <1>1, <1>2 DEF Init, StepInv, PickInv, RelaxInv, OrderInv, ReferenceInv, RewardInv

\* The steps that leave the auction being analysed as it is.
LEMMA SameAuction ==
  ASSUME UNCHANGED <<scenario, window, at>>
  PROVE  /\ Auction' = Auction /\ Removed' = Removed /\ Rule' = Rule
         /\ InWindow' = InWindow /\ (Analysed' <=> Analysed)
         /\ \A side : Submitted(side)' = Submitted(side)
BY DEF Auction, Removed, Rule, InWindow, Analysed, Submitted, RemovedPresent

\* What is computed of the auction stays as long as what it is computed from does.
LEMMA SameSides ==
  ASSUME UNCHANGED <<scenario, window, at, fair, winners>>
  PROVE  /\ NewlyKept' = NewlyKept
         /\ [side \in Side |-> SideOrders(Auction, Rule, winners[side])]'
              = [side \in Side |-> SideOrders(Auction, Rule, winners[side])]
         /\ \A side, R : IsReference(side, R)' <=> IsReference(side, R)
BY SameAuction DEF NewlyKept, IsReference, Bid

\* One step per action: each adds what it computes to what is known.
LEMMA StepStep == StepInv /\ [Next]_vars => StepInv'
<1>. SUFFICES ASSUME ControlInv, PickInv, RelaxInv, OrderInv, ReferenceInv, RewardInv, [Next]_vars
              PROVE  StepInv'
  BY DEF StepInv
<1>. USE DEF StepInv
<1>1. CASE RaiseMissingSettlement \/ Skip
  <2>1. UNCHANGED <<scenario, window, at, arbitrated, compared>> /\ pc = "value" /\ InWindow
    BY <1>1 DEF RaiseMissingSettlement, Skip
  <2>2. pc' = "MissingSettlementError" \/ (pc' = "add" /\ ~Analysed)
    BY <1>1 DEF RaiseMissingSettlement, Skip, Analysed
  <2>3. ~Compared /\ ~Picked /\ ~Compared' /\ ~Picked'
    BY <2>1, <2>2, SameAuction DEF Compared, Picked
  <2>4. ControlInv'
    BY <2>1, <2>2, SameAuction DEF ControlInv
  <2>. QED  BY <2>1, <2>2, <2>3, <2>4
            DEF PickInv, RelaxInv, OrderInv, ReferenceInv, RewardInv, Both, arbitrated, compared
<1>2. CASE Arbitrate
  <2>1. /\ UNCHANGED <<scenario, window, at, relaxed, compared>> /\ pc = "value" /\ pc' = "relax"
        /\ InWindow /\ Analysed /\ ~SettlementMissing(Auction, Rule)
    BY <1>2 DEF Arbitrate, Analysed
  <2>2. /\ fair' = [side \in Side |-> FairBids(Submitted(side))]
        /\ \E V \in SUBSET fair'["base"], W \in SUBSET fair'["loo"] :
             /\ IsPick(Submitted("base"), {}, fair'["base"], V)
             /\ IsPick(Submitted("loo"), {}, fair'["loo"], W)
             /\ winners' = [side \in Side |-> IF side = "base" THEN V ELSE W]
    BY <1>2, Zenon DEF Arbitrate
  <2>3. \A side \in Side :
          /\ fair'[side] = FairBids(Submitted(side))
          /\ IsPick(Submitted(side), {}, fair'[side], winners'[side])
    BY <2>2 DEF Side
  <2>4. ~Compared /\ ~Compared' /\ Picked'
    BY <2>1 DEF Compared, Picked
  <2>5. ControlInv'
    BY <2>1, SameAuction DEF ControlInv
  <2>6. PickInv'
    BY <2>1, <2>3, <2>4, SameAuction DEF PickInv
  <2>. QED  BY <2>1, <2>4, <2>5, <2>6 DEF RelaxInv, OrderInv, ReferenceInv, RewardInv, Both, compared
<1>3. CASE UnFilter
  <2>1. UNCHANGED <<scenario, window, at, fair, winners, compared>> /\ pc = "relax" /\ InWindow
    BY <1>3 DEF UnFilter, ControlInv
  <2>2. IsRecorded(Auction)
    BY <2>1, AuctionRecorded
  <2>3. Lost = {}
    BY <2>1, <2>2, NoneLost DEF PickInv, Picked
  <2>4. pc' = "settle" /\ relaxed' = NewlyKept
    BY <1>3, <2>3 DEF UnFilter
  <2>5. ~Compared /\ ~Compared' /\ Picked /\ Picked'
    BY <2>1, <2>4 DEF Compared, Picked
  <2>6. ControlInv' /\ PickInv' /\ RelaxInv'
    BY <2>1, <2>4, <2>5, SameAuction, SameSides DEF ControlInv, PickInv, RelaxInv
  <2>. QED  BY <2>1, <2>4, <2>5, <2>6 DEF OrderInv, ReferenceInv, RewardInv, Both, compared
<1>4. CASE Settle
  <2>1. /\ UNCHANGED <<scenario, window, at, fair, winners, relaxed, references, rewards>>
        /\ pc = "settle" /\ InWindow
    BY <1>4 DEF Settle, arbitrated, ControlInv
  <2>2. IsRecorded(Auction)
    BY <2>1, AuctionRecorded
  <2>3. \A side \in Side : ~ClaimedTwice(Auction, winners[side])
    <3>. SUFFICES ASSUME NEW side \in Side PROVE ~ClaimedTwice(Auction, winners[side])
      OBVIOUS
    <3>1. fair[side] \subseteq DOMAIN Submitted(side)
      BY <2>1 DEF PickInv, Picked, FairBids
    <3>2. IsPick(Submitted(side), {}, fair[side], winners[side])
      BY <2>1 DEF PickInv, Picked
    <3>. QED  BY <2>2, <3>1, <3>2, NoneClaimedTwice
  <2>4. pc' = "refer" /\ orders' = [side \in Side |-> SideOrders(Auction, Rule, winners[side])]
    BY <1>4, <2>3 DEF Settle
  <2>5. ~Compared /\ ~Compared' /\ Picked /\ Picked'
    BY <2>1, <2>4 DEF Compared, Picked
  <2>6. ControlInv' /\ PickInv' /\ RelaxInv'
    BY <2>1, <2>4, <2>5, SameAuction, SameSides DEF ControlInv, PickInv, RelaxInv
  <2>7. OrderInv'
    BY <2>1, <2>4, SameSides DEF OrderInv
  <2>. QED  BY <2>1, <2>4, <2>5, <2>6, <2>7 DEF ReferenceInv, RewardInv, Both
<1>5. CASE Refer
  <2>1. /\ UNCHANGED <<scenario, window, at, fair, winners, relaxed, orders, rewards>>
        /\ pc = "refer" /\ pc' = "reward" /\ InWindow
    BY <1>5 DEF Refer, arbitrated, ControlInv
  <2>2. \E R \in [Bidders(Auction.bids, winners["base"]) -> SUBSET fair["base"]],
           S \in [Bidders(Auction.bids, winners["loo"]) -> SUBSET fair["loo"]] :
          /\ IsReference("base", R) /\ IsReference("loo", S)
          /\ references' = [side \in Side |-> IF side = "base" THEN R ELSE S]
    BY <1>5 DEF Refer
  <2>3. \A side \in Side :
          /\ DOMAIN references'[side] = Bidders(Auction.bids, winners[side])
          /\ IsReference(side, references'[side])
    BY <2>2 DEF Side
  <2>4. ~Compared /\ ~Compared' /\ Picked /\ Picked'
    BY <2>1 DEF Compared, Picked
  <2>5. ControlInv' /\ PickInv' /\ RelaxInv'
    BY <2>1, <2>4, SameAuction, SameSides DEF ControlInv, PickInv, RelaxInv
  <2>6. ReferenceInv'
    BY <2>1, <2>3, SameAuction DEF ReferenceInv, IsReference, Bid
  <2>7. OrderInv'
    BY <2>1, SameSides DEF OrderInv
  <2>. QED  BY <2>1, <2>4, <2>5, <2>6, <2>7 DEF RewardInv, Both
<1>6. CASE Reward
  <2>1. /\ UNCHANGED <<scenario, window, at, fair, winners, relaxed, orders, references>>
        /\ pc = "reward" /\ pc' = "add" /\ InWindow
    BY <1>6 DEF Reward, arbitrated, ControlInv
  <2>2. Analysed /\ Compared' /\ Picked /\ Picked'
    BY <2>1, SameAuction DEF Compared, Picked, PickInv
  <2>3. ControlInv' /\ PickInv' /\ RelaxInv'
    BY <2>1, <2>2, SameAuction, SameSides DEF ControlInv, PickInv, RelaxInv
  <2>4. OrderInv' /\ ReferenceInv'
    BY <2>1, <2>2, SameAuction, SameSides DEF OrderInv, ReferenceInv, IsReference, Bid
  <2>5. rewards' = [side \in Side |-> Rewards(Auction, Rule, winners[side], ReferenceScores(side))]
    BY <1>6 DEF Reward
  <2>6. RewardInv'
    BY <2>1, <2>2, <2>5, SameAuction DEF RewardInv, ReferenceScores
  <2>. QED  BY <2>3, <2>4, <2>6
<1>7. CASE Add
  <2>1. pc = "add" /\ pc' = "value" /\ window' = window /\ at' = at + 1 /\ InWindow
    BY <1>7 DEF Add, ControlInv
  <2>2. ~Compared' /\ ~Picked'
    BY <2>1 DEF Compared, Picked
  <2>3. ControlInv'
    BY <2>1 DEF ControlInv, InWindow
  <2>. QED  BY <1>7, <2>1, <2>2, <2>3
            DEF Add, PickInv, RelaxInv, OrderInv, ReferenceInv, RewardInv, Both
<1>8. CASE UNCHANGED vars
  <2>1. /\ UNCHANGED <<scenario, window, at>>
        /\ UNCHANGED <<pc, fair, winners, relaxed, orders, references, rewards>>
    BY <1>8 DEF vars
  <2>2. (Compared' <=> Compared) /\ (Picked' <=> Picked)
    BY <2>1, SameAuction DEF Compared, Picked
  <2>3. ControlInv' /\ PickInv' /\ RelaxInv'
    BY <2>1, <2>2, SameAuction, SameSides DEF ControlInv, PickInv, RelaxInv, Both
  <2>4. OrderInv' /\ ReferenceInv'
    BY <2>1, <2>2, SameAuction, SameSides DEF OrderInv, ReferenceInv, IsReference, Bid, Both
  <2>5. RewardInv'
    BY <2>1, <2>2, SameAuction DEF RewardInv, ReferenceScores, Both
  <2>. QED  BY <2>3, <2>4, <2>5
<1>. QED  BY <1>1, <1>2, <1>3, <1>4, <1>5, <1>6, <1>7, <1>8 DEF Next, Stopped

\* Every step of analyse_auction has established what StepInv says of it.
LEMMA StepInductive == Spec => []StepInv
BY StepInit, StepStep, PTL DEF Spec

\* Neither RelaxationError nor the AssertionError of side_outcomes is ever raised.
THEOREM NoAssertionFires == Spec => []AssertionsHold
<1>1. StepInv => AssertionsHold
  BY DEF StepInv, ControlInv, AssertionsHold
<1>. QED  BY <1>1, StepInductive, PTL

----------------------------------------------------------------------------
(* What moves, moves for a cause *)

\* Two picks, one per side and over the same list order, that choose none of the
\* removed and none of the un-filtered bids are the same pick.
LEMMA SidesAgree ==
  ASSUME StepInv, Compared, NEW T, NEW X,
         NEW V, IsPick(Submitted("base"), T, fair["base"] \ X, V),
         NEW W, IsPick(Submitted("loo"), T, fair["loo"] \ X, W),
         \A u \in V : Bid(u).solver \notin Removed,
         relaxed \cap W = {}
  PROVE  V = W
<1>. DEFINE C == (fair["base"] \cap fair["loo"]) \ X
<1>1. InWindow /\ IsRecorded(Auction)
  BY AuctionRecorded DEF Compared, StepInv
<1>2. /\ \A side \in Side : fair[side] = FairBids(Submitted(side))
      /\ relaxed = NewlyKept
  BY DEF StepInv, PickInv, Picked, RelaxInv
<1>3. Lost = {}
  BY <1>1, <1>2, NoneLost
<1>4. V \subseteq C
  BY <1>3 DEF IsPick, Lost
<1>5. W \subseteq C
  BY <1>2 DEF IsPick, NewlyKept
<1>6. IsPick(Submitted("base"), T, C, V)
  <2>. HIDE DEF C
  <2>1. C \subseteq fair["base"] \ X
    BY DEF C
  <2>. QED  BY <1>4, <2>1, PickIgnoresLosers
<1>7. IsPick(Submitted("loo"), T, C, W)
  <2>. HIDE DEF C
  <2>1. C \subseteq fair["loo"] \ X
    BY DEF C
  <2>. QED  BY <1>5, <2>1, PickIgnoresLosers
<1>8. C \subseteq DOMAIN Submitted("base") /\ C \subseteq DOMAIN Submitted("loo")
  BY <1>2 DEF FairBids, Side
<1>9. \A u \in C : Submitted("loo")[u] = Submitted("base")[u]
  BY <1>1, <1>8, SubmittedAuction
<1>. HIDE DEF C
<1>10. IsPick(Submitted("base"), T, C, W)
  BY <1>7, <1>9, PickAgrees
<1>. QED  BY <1>1, <1>6, <1>8, <1>10, SubmittedAuction, PickUnique

\* The winners change only if a removed solver won or an un-filtered bid wins.
THEOREM WinnersMove == Spec => []WinnersMoveForCause
<1>1. ASSUME StepInv PROVE WinnersMoveForCause
  <2>. SUFFICES ASSUME Compared,
                       Bidders(Auction.bids, winners["base"]) \cap Removed = {},
                       relaxed \cap winners["loo"] = {}
                PROVE  winners["base"] = winners["loo"]
    BY DEF WinnersMoveForCause
  <2>1. \A side \in Side : IsPick(Submitted(side), {}, fair[side] \ {}, winners[side])
    <3>1. \A side \in Side : fair[side] \ {} = fair[side]
      OBVIOUS
    <3>. QED  BY <1>1, <3>1 DEF StepInv, PickInv, Picked
  <2>2. \A u \in winners["base"] : Bid(u).solver \notin Removed
    BY DEF Bidders, Bid
  <2>. QED  BY <1>1, <2>1, <2>2, SidesAgree DEF Side
<1>. QED  BY <1>1, StepInductive, PTL

\* With the same winners, a reference score changes only if a removed solver set it
\* or an un-filtered bid now does.
THEOREM ReferencesMove == Spec => []ReferencesMoveForCause
<1>1. ASSUME StepInv PROVE ReferencesMoveForCause
  <2>. SUFFICES ASSUME Compared, winners["base"] = winners["loo"],
                       NEW s \in DOMAIN references["base"],
                       Setters(s) \cap Removed = {},
                       references["loo"][s] \cap relaxed = {}
                PROVE  ReferenceScores("base")[s] = ReferenceScores("loo")[s]
    BY DEF ReferencesMoveForCause
  <2>1. \A side \in Side :
          /\ DOMAIN references[side] = Bidders(Auction.bids, winners[side])
          /\ IsReference(side, references[side])
    BY <1>1 DEF StepInv, ReferenceInv
  <2>2. s \in DOMAIN references["loo"]
    BY <2>1 DEF Side
  <2>. DEFINE X == {u \in fair["base"] \cup fair["loo"] : Bid(u).solver = s}
  <2>3. /\ {u \in fair["base"] : Bid(u).solver # s} = fair["base"] \ X
        /\ {u \in fair["loo"] : Bid(u).solver # s} = fair["loo"] \ X
    OBVIOUS
  <2>4. /\ IsPick(Submitted("base"), winners["base"], fair["base"] \ X, references["base"][s])
        /\ IsPick(Submitted("loo"), winners["base"], fair["loo"] \ X, references["loo"][s])
    BY <2>1, <2>2, <2>3 DEF IsReference, Side
  <2>5. \A u \in references["base"][s] : Bid(u).solver \notin Removed
    BY DEF Setters, Bidders, Bid
  <2>6. relaxed \cap references["loo"][s] = {}
    OBVIOUS
  <2>7. references["base"][s] = references["loo"][s]
    <3>. DEFINE T == winners["base"]
                V == references["base"][s]
                W == references["loo"][s]
    <3>1. /\ IsPick(Submitted("base"), T, fair["base"] \ X, V)
          /\ IsPick(Submitted("loo"), T, fair["loo"] \ X, W)
          /\ \A u \in V : Bid(u).solver \notin Removed
          /\ relaxed \cap W = {}
      BY <2>4, <2>5, <2>6
    <3>. HIDE DEF X, T, V, W
    <3>2. V = W
      BY <1>1, <3>1, SidesAgree
    <3>. QED  BY <3>2 DEF V, W
  <2>. QED  BY <2>2, <2>7 DEF ReferenceScores
<1>. QED  BY <1>1, StepInductive, PTL

----------------------------------------------------------------------------
(* Reverted slots *)

\* A pair one of the recorded winners claims is held by that winner.
LEMMA HolderOf ==
  ASSUME NEW a, IsRecorded(a), NEW w \in a.won, NEW p \in a.bids[w].claims
  PROVE  Holder(a, a.won, p) = w /\ p \in Slots(a, a.won)
<1>1. \A u \in a.won : p \in a.bids[u].claims => u = w
  BY DEF IsRecorded, Disjoint
<1>. QED  BY <1>1 DEF Holder, Slots

\* An order is executed as the winner claiming it is.
LEMMA ExecutedBy ==
  ASSUME NEW a, NEW rule, NEW W, NEW o \in UNION {a.bids[u].orders : u \in W}
  PROVE  SideOrders(a, rule, W)[o].executed
           = Executed(a, rule, CHOOSE v \in W : o \in a.bids[v].orders)
<1>. DEFINE f(x, e) == [executed  |-> e,
                        surplus   |-> IF e /\ o \in UserOrders THEN a.bids[x].gain[o] ELSE 0,
                        fee       |-> IF e /\ o \in DOMAIN a.bids[x].fee THEN a.bids[x].fee[o] ELSE 0,
                        feesKnown |-> ~e \/ o \notin a.bids[x].dark,
                        observed  |-> rule = "inherited" /\ x \in a.won,
                        late      |-> rule = "inherited" /\ x \in a.won /\ a.settled[x] = "late"]
            v == CHOOSE u \in W : o \in a.bids[u].orders
<1>1. SideOrders(a, rule, W)[o] = f(v, Executed(a, rule, v))
  BY DEF SideOrders
<1>. HIDE DEF v
<1>2. f(v, Executed(a, rule, v)).executed = Executed(a, rule, v)
  OBVIOUS
<1>. QED  BY <1>1, <1>2 DEF v

\* No order executes on a pair whose recorded holder did not land in time.
THEOREM RevertsCancel == Spec => []RevertedSlotsCancel
<1>1. ASSUME StepInv PROVE RevertedSlotsCancel
  <2>. SUFFICES ASSUME Compared, Rule = "inherited", NEW side \in Side,
                       NEW o \in DOMAIN orders[side], NEW w \in Auction.won,
                       PairOf[o] \in Auction.bids[w].claims,
                       ~CountsAsExecuted(Auction.settled[w])
                PROVE  ~orders[side][o].executed
    BY DEF RevertedSlotsCancel, Bid
  <2>1. InWindow /\ IsRecorded(Auction)
    BY <1>1, AuctionRecorded DEF Compared, StepInv
  <2>. DEFINE W == winners[side]
              v == CHOOSE u \in W : o \in Auction.bids[u].orders
  <2>2. orders[side] = SideOrders(Auction, Rule, W)
    BY <1>1 DEF StepInv, OrderInv
  <2>3. o \in UNION {Auction.bids[u].orders : u \in W}
    BY <2>2 DEF SideOrders
  <2>4. orders[side][o].executed = Executed(Auction, Rule, v)
    BY <2>2, <2>3, ExecutedBy
  <2>5. v \in W /\ o \in Auction.bids[v].orders
    BY <2>3
  <2>6. v \in DOMAIN Auction.bids
    <3>1. W \subseteq DOMAIN Submitted(side)
      BY <1>1 DEF StepInv, PickInv, Picked, IsPick, FairBids
    <3>. QED  BY <2>1, <2>5, <3>1, SubmittedAuction
  <2>. HIDE DEF v
  <2>7. PairOf[o] \in Auction.bids[v].claims
    BY <2>1, <2>5, <2>6 DEF IsRecorded, IsBid, PairsOf
  <2>8. ~Executed(Auction, "inherited", v)
    <3>1. CASE v \in Auction.won
      <4>1. v = w
        BY <2>1, <2>7, <3>1 DEF IsRecorded, Disjoint
      <4>. QED  BY <3>1, <4>1 DEF Executed
    <3>2. CASE v \notin Auction.won
      <4>1. w \in Displaced(Auction, Auction.won, v)
        BY <2>1, <2>7, HolderOf DEF Displaced
      <4>. QED  BY <3>2, <4>1 DEF Executed
    <3>. QED  BY <3>1, <3>2
  <2>. QED  BY <2>4, <2>8
<1>. QED  BY <1>1, StepInductive, PTL

----------------------------------------------------------------------------
(* Rewards *)

\* A total is a sum over a function of the whole auction.
LEMMA TotalsSum ==
  ASSUME NEW b, IsAuction(b), NEW W, W \subseteq DOMAIN b
  PROVE  /\ Totals(b, W) = SumFunctionOnSet([u \in DOMAIN b |-> b[u].total], W)
         /\ Totals(b, W) \in Nat
<1>1. IsFiniteSet(W)
  BY BidsFinite DEF IsAuction
<1>2. \A u \in W : b[u].total \in Nat
  BY DEF IsAuction, IsSolution
<1>3. Totals(b, W) \in Nat
  BY <1>1, <1>2, SumNat DEF Totals
<1>4. Totals(b, W) = SumFunctionOnSet([u \in DOMAIN b |-> b[u].total], W)
  <2>. DEFINE f == [u \in W |-> b[u].total]
              g == [u \in DOMAIN b |-> b[u].total]
  <2>1. \A u \in W : f[u] \in Int /\ f[u] = g[u]
    BY <1>2
  <2>2. Totals(b, W) = SumFunctionOnSet(f, W)
    BY DEF Totals
  <2>. HIDE DEF f, g
  <2>3. SumFunctionOnSet(f, W) = SumFunctionOnSet(g, W)
    BY <1>1, <2>1, SumEqual
  <2>. QED  BY <2>2, <2>3 DEF g
<1>. QED  BY <1>3, <1>4

\* The total of some bids is that of a part of them and of the rest.
LEMMA TotalsSplit ==
  ASSUME NEW b, IsAuction(b), NEW W, W \subseteq DOMAIN b, NEW V \in SUBSET W
  PROVE  Totals(b, W) = Totals(b, V) + Totals(b, W \ V)
<1>. DEFINE f == [u \in DOMAIN b |-> b[u].total]
<1>1. IsFiniteSet(V) /\ IsFiniteSet(W \ V)
  BY BidsFinite DEF IsAuction
<1>2. \A u \in W : f[u] \in Int
  BY DEF IsAuction, IsSolution
<1>3. /\ Totals(b, W) = SumFunctionOnSet(f, W)
      /\ Totals(b, V) = SumFunctionOnSet(f, V)
      /\ Totals(b, W \ V) = SumFunctionOnSet(f, W \ V)
  BY TotalsSum
<1>4. W = V \cup (W \ V) /\ V \cap (W \ V) = {}
  OBVIOUS
<1>. HIDE DEF f
<1>5. SumFunctionOnSet(f, V \cup (W \ V)) = SumFunctionOnSet(f, V) + SumFunctionOnSet(f, W \ V)
  BY <1>1, <1>2, SumUnion
<1>. QED  BY <1>3, <1>4, <1>5

\* The total of a part of some bids is not above theirs.
LEMMA TotalsOfPart ==
  ASSUME NEW b, IsAuction(b), NEW W, W \subseteq DOMAIN b, NEW V \in SUBSET W
  PROVE  Totals(b, V) <= Totals(b, W)
<1>1. Totals(b, V) \in Nat /\ Totals(b, W \ V) \in Nat
  BY TotalsSum
<1>. QED  BY <1>1, TotalsSplit

\* The bids of either side are recorded ones.
LEMMA SideBids ==
  ASSUME StepInv, Compared, NEW side \in Side
  PROVE  /\ IsRecorded(Auction) /\ IsAuction(Auction.bids)
         /\ winners[side] \subseteq fair[side]
         /\ fair[side] \subseteq DOMAIN Submitted(side)
         /\ fair[side] \subseteq DOMAIN Auction.bids
         /\ DOMAIN Auction.bids \subseteq Uid
         /\ IsFiniteSet(winners[side])
<1>1. IsRecorded(Auction)
  BY AuctionRecorded DEF Compared, StepInv
<1>2. winners[side] \subseteq fair[side] /\ fair[side] \subseteq DOMAIN Submitted(side)
  BY DEF StepInv, PickInv, Picked, IsPick, FairBids
<1>3. DOMAIN Submitted(side) \subseteq DOMAIN Auction.bids
  BY <1>1, SubmittedAuction
<1>4. IsAuction(Auction.bids) /\ DOMAIN Auction.bids \subseteq Uid
  BY <1>1 DEF IsRecorded, IsAuction
<1>. QED  BY <1>1, <1>2, <1>3, <1>4, BidsFinite

\* In the auction without one of them, all the other winners win.
LEMMA OthersWinReference ==
  ASSUME StepInv, Compared, NEW side \in Side, NEW s \in DOMAIN references[side]
  PROVE  /\ {u \in winners[side] : Bid(u).solver # s} \subseteq references[side][s]
         /\ references[side][s] \subseteq fair[side]
<1>1. /\ IsPick(Submitted(side), {}, fair[side], winners[side])
      /\ IsPick(Submitted(side), winners[side], {u \in fair[side] : Bid(u).solver # s},
                references[side][s])
  BY DEF StepInv, PickInv, Picked, ReferenceInv, IsReference
<1>. DEFINE X == {u \in fair[side] : Bid(u).solver = s}
<1>2. {u \in fair[side] : Bid(u).solver # s} = fair[side] \ X
  OBVIOUS
<1>3. IsAuction(Submitted(side))
  BY SideBids, SubmittedAuction
<1>4. winners[side] \ X \subseteq references[side][s]
  <2>. HIDE DEF X
  <2>. QED  BY <1>1, <1>2, <1>3, SideBids, PickKeepsWinners
<1>. QED  BY <1>1, <1>4, SideBids DEF IsPick

\* A solver whose batches all landed is never charged, and one none of whose
\* batches did is never paid.
THEOREM RewardsHaveASign == Spec => []RewardSign
<1>1. ASSUME StepInv PROVE RewardSign
  <2>. SUFFICES ASSUME Compared, NEW side \in Side, NEW s \in DOMAIN rewards[side]
                PROVE  LET own == {u \in winners[side] : Bid(u).solver = s}
                       IN  /\ (\A u \in own : Executed(Auction, Rule, u))
                                => rewards[side][s].uncapped >= 0
                           /\ (\A u \in own : ~Executed(Auction, Rule, u))
                                => rewards[side][s].uncapped <= 0
    BY DEF RewardSign
  <2>. DEFINE W == winners[side]
              own == {u \in W : Bid(u).solver = s}
              landed == {u \in own : Executed(Auction, Rule, u)}
              total == Totals(Auction.bids, W)
              reference == Totals(Auction.bids, references[side][s])
  <2>1. /\ rewards[side] = Rewards(Auction, Rule, W, ReferenceScores(side))
        /\ DOMAIN references[side] = Bidders(Auction.bids, W)
    BY <1>1 DEF StepInv, RewardInv, ReferenceInv
  <2>2. s \in DOMAIN references[side]
    BY <2>1 DEF Rewards
  <2>3. rewards[side][s].uncapped
          = Uncapped(total, Totals(Auction.bids, own), Totals(Auction.bids, landed), reference)
    BY <2>1, <2>2 DEF Rewards, ReferenceScores, Bid
  <2>4. /\ IsAuction(Auction.bids) /\ W \subseteq DOMAIN Auction.bids
        /\ references[side][s] \subseteq DOMAIN Auction.bids
        /\ W \ own \subseteq references[side][s]
    <3>1. W \ own = {u \in W : Bid(u).solver # s}
      OBVIOUS
    <3>. QED  BY <1>1, <2>2, <3>1, SideBids, OthersWinReference
  <2>. HIDE DEF W, own, landed
  <2>5. own \subseteq W /\ landed \subseteq own
    BY DEF own, landed
  <2>6. /\ total = Totals(Auction.bids, own) + Totals(Auction.bids, W \ own)
        /\ Totals(Auction.bids, W \ own) <= reference
    BY <2>4, <2>5, TotalsSplit, TotalsOfPart
  <2>7. /\ total \in Nat /\ reference \in Nat /\ Totals(Auction.bids, own) \in Nat
        /\ Totals(Auction.bids, W \ own) \in Nat
    BY <2>4, <2>5, TotalsSum
  <2>. HIDE DEF total, reference
  <2>8. ASSUME \A u \in own : Executed(Auction, Rule, u)
        PROVE  rewards[side][s].uncapped >= 0
    <3>1. landed = own
      BY <2>8 DEF landed
    <3>. QED  BY <2>3, <2>7, <3>1 DEF Uncapped, Lesser
  <2>9. ASSUME \A u \in own : ~Executed(Auction, Rule, u)
        PROVE  rewards[side][s].uncapped <= 0
    <3>1. landed = {}
      BY <2>9 DEF landed
    <3>2. Totals(Auction.bids, {}) = 0
      BY SumOfNone DEF Totals
    <3>. QED  BY <2>3, <2>6, <2>7, <3>1, <3>2 DEF Uncapped, Lesser
  <2>. QED  BY <2>8, <2>9 DEF own, W
<1>. QED  BY <1>1, StepInductive, PTL

\* The recorded winner holding a pair some of them claim is one that claims it.
LEMMA HolderClaims ==
  ASSUME NEW a, NEW W, NEW p \in Slots(a, W)
  PROVE  Holder(a, W, p) \in W /\ p \in a.bids[Holder(a, W, p)].claims
BY DEF Slots, Holder

\* The recorded winners whose caps a winner is given.
CapSources(a, u) == IF u \in CapHolders(a) THEN {u} ELSE Displaced(a, CapHolders(a), u)

\* Its cap is the sum of theirs.
LEMMA CapOfSources ==
  ASSUME NEW a, IsRecorded(a), NEW u, WinnerCap(a, u) # {}
  PROVE  /\ (CHOOSE c \in WinnerCap(a, u) : TRUE) = SumFunctionOnSet(a.caps, CapSources(a, u))
         /\ CapSources(a, u) \subseteq DOMAIN a.caps
         /\ IsFiniteSet(CapSources(a, u))
<1>1. CapSources(a, u) \subseteq DOMAIN a.caps
  BY HolderClaims DEF CapSources, Displaced, CapHolders
<1>2. DOMAIN a.caps \subseteq Uid
  BY DEF IsRecorded, IsAuction
<1>3. WinnerCap(a, u) = {SumFunctionOnSet(a.caps, CapSources(a, u))}
  <2>1. CASE u \in CapHolders(a)
    <3>1. WinnerCap(a, u) = {a.caps[u]} /\ CapSources(a, u) = {u}
      BY <2>1 DEF WinnerCap, CapSources
    <3>2. a.caps[u] \in Int
      BY <2>1 DEF IsRecorded, CapHolders
    <3>3. SumFunctionOnSet(a.caps, {u}) = a.caps[u] + SumFunctionOnSet(a.caps, {u} \ {u})
      BY <3>2, FS_Singleton, SumWithout
    <3>4. SumFunctionOnSet(a.caps, {u} \ {u}) = 0
      <4>1. {u} \ {u} = {}
        OBVIOUS
      <4>. QED  BY <4>1, SumOfNone
    <3>. QED  BY <3>1, <3>2, <3>3, <3>4
  <2>2. CASE u \notin CapHolders(a)
    BY <2>2 DEF WinnerCap, CapSources
  <2>. QED  BY <2>1, <2>2
<1>. QED  BY <1>1, <1>2, <1>3, BidsFinite

\* Unless one is inherited twice, two winners are given different caps.
LEMMA SourcesDisjoint ==
  ASSUME NEW a, IsRecorded(a), NEW W, \A u, v \in W : u # v => Disjoint(a.bids, u, v),
         DoubleInherited(a, W) = {},
         NEW u \in W, NEW v \in W, u # v
  PROVE  CapSources(a, u) \cap CapSources(a, v) = {}
<1>. SUFFICES ASSUME NEW w \in CapSources(a, u), w \in CapSources(a, v)
              PROVE  FALSE
  OBVIOUS
<1>1. ASSUME NEW x \in W, w \in Displaced(a, CapHolders(a), x)
      PROVE  w \in CapHolders(a) /\ a.bids[w].claims \cap a.bids[x].claims # {}
  BY <1>1, HolderClaims DEF Displaced
<1>2. CASE u \in CapHolders(a) /\ v \in CapHolders(a)
  BY <1>2 DEF CapSources
<1>3. CASE u \in CapHolders(a) /\ v \notin CapHolders(a)
  BY <1>1, <1>3 DEF CapSources, Disjoint
<1>4. CASE u \notin CapHolders(a) /\ v \in CapHolders(a)
  BY <1>1, <1>4 DEF CapSources, Disjoint
<1>5. CASE u \notin CapHolders(a) /\ v \notin CapHolders(a)
  <2>1. w \in Displaced(a, CapHolders(a), u) /\ w \in Displaced(a, CapHolders(a), v)
    BY <1>5 DEF CapSources
  <2>2. u \in CapInheritors(a, W) /\ v \in CapInheritors(a, W) /\ w \in CapHolders(a)
    BY <1>1, <1>5, <2>1 DEF CapInheritors
  <2>. QED  BY <2>1, <2>2 DEF DoubleInherited
<1>. QED  BY <1>2, <1>3, <1>4, <1>5

\* Unless a cap is inherited twice, the winners of a side have no more of it than
\* the recorded winners had.
THEOREM CapsAreConserved == Spec => []CapsConserved
<1>1. ASSUME StepInv PROVE CapsConserved
  <2>. SUFFICES ASSUME Compared, NEW side \in Side, DoubleInherited(Auction, winners[side]) = {}
                PROVE  LET capped == winners[side] \ CapOrphans(side)
                           cap(u) == CHOOSE c \in WinnerCap(Auction, u) : TRUE
                       IN  SumFunction([u \in capped |-> cap(u)]) <= SumFunction(Auction.caps)
    BY DEF CapsConserved
  <2>. DEFINE capped == winners[side] \ CapOrphans(side)
              cap(u) == CHOOSE c \in WinnerCap(Auction, u) : TRUE
              part == [u \in capped |-> CapSources(Auction, u)]
              given == [u \in capped |-> SumFunctionOnSet(Auction.caps, part[u])]
  <2>1. /\ IsRecorded(Auction) /\ capped \subseteq winners[side] /\ IsFiniteSet(capped)
    BY <1>1, SideBids, FS_Subset
  <2>2. \A u, v \in winners[side] : u # v => Disjoint(Auction.bids, u, v)
    <3>1. \A u, v \in winners[side] : u # v => Disjoint(Submitted(side), u, v)
      <4>1. IsPick(Submitted(side), {}, fair[side], winners[side])
        BY <1>1 DEF StepInv, PickInv, Picked
      <4>. QED  BY <1>1, <4>1, SideBids, SubmittedAuction, PickDisjoint
    <3>. QED  BY <1>1, <3>1, SideBids, SubmittedAuction DEF Disjoint
  <2>3. \A u \in capped : /\ cap(u) = SumFunctionOnSet(Auction.caps, part[u])
                          /\ part[u] \subseteq DOMAIN Auction.caps /\ IsFiniteSet(part[u])
    BY <2>1, CapOfSources DEF CapOrphans
  <2>4. \A u, v \in capped : u # v => part[u] \cap part[v] = {}
    BY <2>1, <2>2, SourcesDisjoint
  <2>5. /\ \A w \in DOMAIN Auction.caps : Auction.caps[w] \in Nat
        /\ IsFiniteSet(DOMAIN Auction.caps)
    BY <2>1, BidsFinite DEF IsRecorded, IsAuction
  <2>6. [u \in capped |-> cap(u)] = given
    BY <2>3
  <2>7. SumFunction([u \in capped |-> cap(u)]) = SumFunctionOnSet(given, capped)
    BY <2>6 DEF SumFunction
  <2>8. SumFunctionOnSet(given, capped)
          = SumFunctionOnSet(Auction.caps, UNION {part[u] : u \in capped})
    <3>1. \A u \in capped : IsFiniteSet(part[u]) /\ \A w \in part[u] : Auction.caps[w] \in Int
      BY <2>3, <2>5
    <3>. HIDE DEF capped, part
    <3>. QED  BY <2>1, <2>4, <3>1, SumOfSums
  <2>9. UNION {part[u] : u \in capped} \subseteq DOMAIN Auction.caps
    BY <2>3
  <2>10. SumFunctionOnSet(Auction.caps, UNION {part[u] : u \in capped}) <= SumFunction(Auction.caps)
    <3>. HIDE DEF capped, part
    <3>. QED  BY <2>5, <2>9, SumOfPart DEF SumFunction
  <2>. HIDE DEF given, part
  <2>. QED  BY <2>7, <2>8, <2>10
<1>. QED  BY <1>1, StepInductive, PTL

----------------------------------------------------------------------------
(* The counters of the window *)

\* A side says something of every order of its winners.
LEMMA OrdersOfSide ==
  ASSUME NEW a, NEW rule, NEW W
  PROVE  \A o \in DOMAIN SideOrders(a, rule, W) : \E u \in W : o \in a.bids[u].orders
BY DEF SideOrders

\* What an order did is counted in integers.
LEMMA OrderAmounts ==
  ASSUME NEW a, IsRecorded(a), NEW rule, NEW W, W \subseteq DOMAIN a.bids,
         NEW o \in DOMAIN SideOrders(a, rule, W)
  PROVE  SideOrders(a, rule, W)[o].surplus \in Int /\ SideOrders(a, rule, W)[o].fee \in Int
<1>. DEFINE f(x, e) == [executed  |-> e,
                        surplus   |-> IF e /\ o \in UserOrders THEN a.bids[x].gain[o] ELSE 0,
                        fee       |-> IF e /\ o \in DOMAIN a.bids[x].fee THEN a.bids[x].fee[o] ELSE 0,
                        feesKnown |-> ~e \/ o \notin a.bids[x].dark,
                        observed  |-> rule = "inherited" /\ x \in a.won,
                        late      |-> rule = "inherited" /\ x \in a.won /\ a.settled[x] = "late"]
            v == CHOOSE u \in W : o \in a.bids[u].orders
            e == Executed(a, rule, v)
<1>1. o \in UNION {a.bids[u].orders : u \in W}
  BY DEF SideOrders
<1>2. v \in W /\ o \in a.bids[v].orders
  BY <1>1
<1>3. SideOrders(a, rule, W)[o] = f(v, e)
  BY <1>1 DEF SideOrders
<1>. HIDE DEF v, e
<1>4. /\ o \in UserOrders => a.bids[v].gain[o] \in Nat
      /\ o \in DOMAIN a.bids[v].fee => a.bids[v].fee[o] \in Nat
  BY <1>2 DEF IsRecorded, IsBid
<1>5. /\ f(v, e).surplus = IF e /\ o \in UserOrders THEN a.bids[v].gain[o] ELSE 0
      /\ f(v, e).fee = IF e /\ o \in DOMAIN a.bids[v].fee THEN a.bids[v].fee[o] ELSE 0
  OBVIOUS
<1>. QED  BY <1>3, <1>4, <1>5

\* What a solver is paid is counted in integers.
LEMMA RewardAmounts ==
  ASSUME NEW a, IsRecorded(a), NEW rule, NEW W, W \subseteq DOMAIN a.bids,
         NEW reference, NEW s \in Bidders(a.bids, W), reference[s] \in Int
  PROVE  /\ Rewards(a, rule, W, reference)[s].uncapped \in Int
         /\ Rewards(a, rule, W, reference)[s].capped \subseteq Int
<1>. DEFINE own == {u \in W : a.bids[u].solver = s}
            landed == {u \in own : Executed(a, rule, u)}
            uncapped == Uncapped(Totals(a.bids, W), Totals(a.bids, own), Totals(a.bids, landed),
                                 reference[s])
            cap == [u \in own |-> CHOOSE c \in WinnerCap(a, u) : TRUE]
            upper == IF CapHolders(a) = {} \/ \E u \in own : WinnerCap(a, u) = {} THEN {}
                     ELSE {SumFunctionOnSet(cap, own)}
<1>1. /\ Rewards(a, rule, W, reference)[s].uncapped = uncapped
      /\ Rewards(a, rule, W, reference)[s].capped
           = {IF a.excluded THEN 0 ELSE Lesser(Greater(uncapped, a.lower), c) : c \in upper}
  BY DEF Rewards
<1>2. uncapped \in Int
  <2>1. IsAuction(a.bids) /\ own \subseteq DOMAIN a.bids /\ landed \subseteq DOMAIN a.bids
    BY DEF IsRecorded
  <2>2. /\ Totals(a.bids, W) \in Nat /\ Totals(a.bids, own) \in Nat
        /\ Totals(a.bids, landed) \in Nat
    <3>. HIDE DEF own, landed
    <3>. QED  BY <2>1, TotalsSum
  <2>. QED  BY <2>2 DEF Uncapped, Lesser
<1>3. upper \subseteq Int
  <2>. SUFFICES ASSUME \A u \in own : WinnerCap(a, u) # {}
                PROVE  SumFunctionOnSet(cap, own) \in Int
    OBVIOUS
  <2>1. IsFiniteSet(own)
    BY BidsFinite DEF IsRecorded, IsAuction
  <2>2. \A u \in own : cap[u] \in Int
    <3>. SUFFICES ASSUME NEW u \in own PROVE cap[u] \in Int
      OBVIOUS
    <3>1. /\ cap[u] = SumFunctionOnSet(a.caps, CapSources(a, u))
          /\ CapSources(a, u) \subseteq DOMAIN a.caps /\ IsFiniteSet(CapSources(a, u))
      BY CapOfSources
    <3>2. \A w \in CapSources(a, u) : a.caps[w] \in Int
      BY <3>1 DEF IsRecorded
    <3>. QED  BY <3>1, <3>2, SumInt
  <2>. HIDE DEF cap, own
  <2>. QED  BY <2>1, <2>2, SumInt
<1>4. a.lower \in Int
  BY DEF IsRecorded
<1>. HIDE DEF uncapped, upper
<1>5. \A c \in upper : Lesser(Greater(uncapped, a.lower), c) \in Int
  BY <1>2, <1>3, <1>4 DEF Lesser, Greater
<1>. QED  BY <1>1, <1>2, <1>5

\* What a compared auction adds is counted in integers.
LEMMA SurplusInt ==
  ASSUME StepInv, Compared, NEW side \in Side
  PROVE  /\ IsFiniteSet(Diffed) /\ IsFiniteSet(UserDiffed) /\ Diffed \subseteq Order
         /\ Surplus(side) \in Int /\ Fees(side) \in Int
<1>1. \A x \in Side : orders[x] = SideOrders(Auction, Rule, winners[x])
  BY DEF StepInv, OrderInv
<1>2. \A x \in Side : winners[x] \subseteq DOMAIN Auction.bids /\ IsRecorded(Auction)
  BY SideBids
<1>3. Diffed \subseteq Order /\ UserDiffed \subseteq Diffed
  <2>1. \A x \in Side : DOMAIN orders[x] \subseteq Order
    <3>. SUFFICES ASSUME NEW x \in Side, NEW o \in DOMAIN orders[x] PROVE o \in Order
      OBVIOUS
    <3>1. o \in DOMAIN SideOrders(Auction, Rule, winners[x])
      BY <1>1
    <3>2. PICK u \in winners[x] : o \in Auction.bids[u].orders
      BY <3>1, OrdersOfSide
    <3>. QED  BY <1>2, <3>2 DEF IsRecorded, IsBid
  <2>. QED  BY <2>1 DEF Diffed, UserDiffed, Side
<1>4. IsFiniteSet(Diffed) /\ IsFiniteSet(UserDiffed)
  BY <1>3, OutcomesAssumption, FS_Subset
<1>5. ASSUME NEW o
      PROVE  OrderOn(side, o).surplus \in Int /\ OrderOn(side, o).fee \in Int
  <2>1. CASE o \in DOMAIN orders[side]
    <3>1. OrderOn(side, o) = SideOrders(Auction, Rule, winners[side])[o]
      BY <1>1, <2>1 DEF OrderOn
    <3>2. o \in DOMAIN SideOrders(Auction, Rule, winners[side])
      BY <1>1, <2>1
    <3>. QED  BY <1>2, <3>1, <3>2, OrderAmounts
  <2>2. CASE o \notin DOMAIN orders[side]
    BY <2>2 DEF OrderOn, Unexecuted
  <2>. QED  BY <2>1, <2>2
<1>. QED  BY <1>3, <1>4, <1>5, SumInt DEF Surplus, Fees, SumFunction

LEMMA RewardsInt ==
  ASSUME StepInv, Compared, NEW side \in Side
  PROVE  /\ IsFiniteSet(DOMAIN rewards[side])
         /\ SumFunction(Uncappeds(side)) \in Int
         /\ SumFunctionOnSet(Uncappeds(side), DOMAIN rewards[side] \cap Removed) \in Int
         /\ CappedKnown => CappedTotal(side) \in Int
<1>1. /\ rewards[side] = Rewards(Auction, Rule, winners[side], ReferenceScores(side))
      /\ DOMAIN references[side] = Bidders(Auction.bids, winners[side])
  BY DEF StepInv, RewardInv, ReferenceInv
<1>2. DOMAIN rewards[side] = Bidders(Auction.bids, winners[side])
  BY <1>1 DEF Rewards
<1>3. IsFiniteSet(DOMAIN rewards[side])
  <2>. DEFINE solver == [u \in winners[side] |-> Auction.bids[u].solver]
  <2>1. DOMAIN rewards[side] = {solver[u] : u \in winners[side]}
    BY <1>2 DEF Bidders
  <2>. HIDE DEF solver
  <2>. QED  BY <2>1, SideBids, FiniteValues
<1>4. ASSUME NEW s \in DOMAIN rewards[side]
      PROVE  rewards[side][s].uncapped \in Int /\ rewards[side][s].capped \subseteq Int
  <2>1. references[side][s] \subseteq DOMAIN Auction.bids
    BY <1>1, <1>2, <1>4, SideBids, OthersWinReference
  <2>2. ReferenceScores(side)[s] \in Int
    <3>1. ReferenceScores(side)[s] = Totals(Auction.bids, references[side][s])
      BY <1>1, <1>2, <1>4 DEF ReferenceScores
    <3>2. Totals(Auction.bids, references[side][s]) \in Nat
      BY <2>1, SideBids, TotalsSum
    <3>. QED  BY <3>1, <3>2
  <2>. QED  BY <1>1, <1>2, <1>4, <2>2, SideBids, RewardAmounts
<1>5. SumFunction(Uncappeds(side)) \in Int
  BY <1>3, <1>4, SumInt DEF SumFunction, Uncappeds
<1>6. SumFunctionOnSet(Uncappeds(side), DOMAIN rewards[side] \cap Removed) \in Int
  <2>1. IsFiniteSet(DOMAIN rewards[side] \cap Removed)
    BY <1>3, FS_Subset
  <2>. QED  BY <1>4, <2>1, SumInt DEF Uncappeds
<1>7. ASSUME CappedKnown PROVE CappedTotal(side) \in Int
  <2>1. \A s \in DOMAIN rewards[side] : rewards[side][s].capped # {}
    BY <1>7 DEF CappedKnown
  <2>2. \A s \in DOMAIN rewards[side] : (CHOOSE c \in rewards[side][s].capped : TRUE) \in Int
    BY <1>4, <2>1
  <2>. QED  BY <1>3, <2>2, SumInt DEF CappedTotal, SumFunction
<1>. QED  BY <1>3, <1>5, <1>6, <1>7

\* Every counter of a clean auction is an integer.
LEMMA CleanInt ==
  ASSUME IsRecorded(Auction)
  PROVE  /\ Seen \in [Counter -> Int] /\ Clean \in [Counter -> Int]
         /\ IsFiniteSet(RecordedExecutions(Auction, Rule))
<1>1. \A condition : One(condition) \in Int
  BY DEF One
<1>2. Seen \in [Counter -> Int]
  BY <1>1 DEF Seen
<1>3. RecordedExecutions(Auction, Rule) \subseteq Order
  BY DEF RecordedExecutions, IsRecorded, IsBid
<1>4. IsFiniteSet(RecordedExecutions(Auction, Rule))
  BY <1>3, OutcomesAssumption, FS_Subset
<1>5. Cardinality(RecordedExecutions(Auction, Rule)) \in Int
  BY <1>4, FS_CardinalityType
<1>. QED  BY <1>1, <1>2, <1>4, <1>5 DEF Clean

\* So is every counter of a compared one: who won,
LEMMA WhoWonInt ==
  ASSUME StepInv, Compared
  PROVE  WhoWon \in [Counter -> Int]
<1>1. /\ One(Bidders(Auction.bids, winners["base"]) \cap Removed # {}) \in Int
      /\ One(winners["base"] # winners["loo"]) \in Int
      /\ One(relaxed # {}) \in Int /\ One(relaxed \cap winners["loo"] # {}) \in Int
      /\ One(winners["base"] # Auction.won) \in Int
      /\ One(GuessMatters) \in Int /\ 1 \in Int
  BY DEF One
<1>2. "base" \in Side
  BY DEF Side
<1>3. Clean \in [Counter -> Int]
  BY <1>2, SideBids, CleanInt
<1>4. IsFiniteSet(DOMAIN references["base"])
  <2>1. DOMAIN references["base"] = DOMAIN rewards["base"]
    BY <1>2 DEF StepInv, ReferenceInv, RewardInv, Rewards
  <2>. QED  BY <1>2, <2>1, RewardsInt
<1>5. Cardinality({s \in DOMAIN references["base"] : Setters(s) \cap Removed # {}}) \in Int
  <2>1. \A S \in SUBSET DOMAIN references["base"] : Cardinality(S) \in Int
    BY <1>4, FS_Subset, FS_CardinalityType
  <2>. QED  BY <2>1
<1>. QED  BY <1>1, <1>3, <1>5, Zenon DEF WhoWon

\* what the users got,
LEMMA WhatUsersGotInt ==
  ASSUME StepInv, Compared
  PROVE  WhatUsersGot \in [Counter -> Int]
<1>1. "base" \in Side /\ "loo" \in Side
  BY DEF Side
<1>2. /\ Surplus("base") \in Int /\ Surplus("loo") \in Int
      /\ Fees("base") \in Int /\ Fees("loo") \in Int
      /\ IsFiniteSet(UserDiffed) /\ IsFiniteSet(Diffed)
  BY <1>1, SurplusInt
<1>3. /\ One(FeesComplete) \in Int /\ One(~FeesComplete) \in Int
      /\ (IF FeesComplete THEN Fees("base") ELSE 0) \in Int
      /\ (IF FeesComplete THEN Fees("loo") ELSE 0) \in Int
  BY <1>2 DEF One
<1>4. /\ Cardinality(UserDiffed) \in Int
      /\ Cardinality(OnlyOn(UserDiffed, "base", "loo")) \in Int
      /\ Cardinality(OnlyOn(UserDiffed, "loo", "base")) \in Int
      /\ Cardinality({o \in UserDiffed :
             OrderOn("base", o).observed /\ ~OrderOn("base", o).executed}) \in Int
      /\ Cardinality({o \in UserDiffed : OrderOn("base", o).late}) \in Int
      /\ Cardinality(OnlyOn(Diffed \ UserOrders, "base", "loo")) \in Int
      /\ Cardinality(OnlyOn(Diffed \ UserOrders, "loo", "base")) \in Int
  <2>1. /\ \A S \in SUBSET UserDiffed : Cardinality(S) \in Int
        /\ \A S \in SUBSET Diffed : Cardinality(S) \in Int
    BY <1>2, FS_Subset, FS_CardinalityType
  <2>. QED  BY <2>1 DEF OnlyOn
<1>5. /\ Cardinality(winners["base"] \ Auction.won) \in Int
      /\ Cardinality(winners["loo"] \ Auction.won) \in Int
      /\ Cardinality(InheritedReverts(Auction, Rule, winners["loo"])) \in Int
      /\ Cardinality(Orphans(Auction, Rule, winners["base"])) \in Int
      /\ Cardinality(Orphans(Auction, Rule, winners["loo"])) \in Int
  <2>1. \A side \in Side : \A S \in SUBSET winners[side] : Cardinality(S) \in Int
    BY SideBids, FS_Subset, FS_CardinalityType
  <2>. QED  BY <1>1, <2>1 DEF InheritedReverts, Orphans
<1>. QED  BY <1>2, <1>3, <1>4, <1>5, WhoWonInt DEF WhatUsersGot

\* and what the solvers got.
LEMMA WhatSolversGotInt ==
  ASSUME StepInv, Compared
  PROVE  WhatSolversGot \in [Counter -> Int]
<1>1. "base" \in Side /\ "loo" \in Side
  BY DEF Side
<1>2. /\ SumFunction(Uncappeds("base")) \in Int /\ SumFunction(Uncappeds("loo")) \in Int
      /\ SumFunctionOnSet(Uncappeds("base"), DOMAIN rewards["base"] \cap Removed) \in Int
  BY <1>1, RewardsInt
<1>3. /\ One(rewards["base"] # rewards["loo"]) \in Int
      /\ One(CappedKnown) \in Int /\ One(~CappedKnown) \in Int
      /\ (IF CappedKnown THEN CappedTotal("base") ELSE 0) \in Int
      /\ (IF CappedKnown THEN CappedTotal("loo") ELSE 0) \in Int
  <2>1. CappedKnown => CappedTotal("base") \in Int /\ CappedTotal("loo") \in Int
    BY <1>1, RewardsInt
  <2>. QED  BY <2>1 DEF One
<1>4. Cardinality(Negative("base")) \in Int /\ Cardinality(Negative("loo")) \in Int
  <2>1. ASSUME NEW side \in Side, NEW S \in SUBSET DOMAIN rewards[side]
        PROVE  Cardinality(S) \in Int
    <3>1. IsFiniteSet(DOMAIN rewards[side])
      BY RewardsInt
    <3>. QED  BY <3>1, FS_Subset, FS_CardinalityType
  <2>. QED  BY <1>1, <2>1 DEF Negative
<1>5. Cardinality(CapOrphans("loo")) \in Int
  <2>1. IsFiniteSet(CapOrphans("loo"))
    BY <1>1, SideBids, FS_Subset DEF CapOrphans
  <2>. QED  BY <2>1, FS_CardinalityType
<1>6. Cardinality(DoubleInherited(Auction, winners["base"]))
        + Cardinality(DoubleInherited(Auction, winners["loo"])) \in Int
  <2>1. \A W : DoubleInherited(Auction, W) \subseteq Uid
    BY <1>1, SideBids DEF DoubleInherited, CapHolders, IsRecorded
  <2>2. \A W : Cardinality(DoubleInherited(Auction, W)) \in Int
    BY <2>1, BidsFinite
  <2>. QED  BY <2>2
<1>. QED  BY <1>2, <1>3, <1>4, <1>5, <1>6, WhatUsersGotInt DEF WhatSolversGot

\* An order that executed with the removed solvers only, in an arbitration that
\* reproduces the record, was executed for real.
LEMMA ExecutionsCovered ==
  ASSUME StepInv, Compared, winners["base"] = Auction.won
  PROVE  Cardinality(OnlyOn(UserDiffed, "base", "loo"))
           <= Cardinality(RecordedExecutions(Auction, Rule))
<1>. DEFINE won == Auction.won
<1>1. "base" \in Side /\ IsRecorded(Auction)
  BY SideBids DEF Side
<1>2. orders["base"] = SideOrders(Auction, Rule, won)
  BY <1>1 DEF StepInv, OrderInv
<1>. HIDE DEF won
<1>3. ASSUME NEW o \in OnlyOn(UserDiffed, "base", "loo")
      PROVE  o \in RecordedExecutions(Auction, Rule)
  <2>1. o \in UserOrders /\ OrderOn("base", o).executed
    BY <1>3 DEF OnlyOn, UserDiffed
  <2>2. o \in DOMAIN SideOrders(Auction, Rule, won)
    BY <1>2, <2>1 DEF OrderOn, Unexecuted
  <2>. DEFINE u == CHOOSE v \in won : o \in Auction.bids[v].orders
  <2>3. o \in UNION {Auction.bids[v].orders : v \in won}
    BY <2>2, OrdersOfSide
  <2>4. u \in won /\ o \in Auction.bids[u].orders
    BY <2>3
  <2>5. Executed(Auction, Rule, u)
    <3>1. OrderOn("base", o) = SideOrders(Auction, Rule, won)[o]
      BY <1>2, <2>2 DEF OrderOn
    <3>2. SideOrders(Auction, Rule, won)[o].executed = Executed(Auction, Rule, u)
      BY <2>3, ExecutedBy
    <3>. QED  BY <2>1, <3>1, <3>2
  <2>. HIDE DEF u
  <2>6. o \in DOMAIN Auction.bids[u].gain
    BY <1>1, <2>1, <2>4 DEF IsRecorded, IsBid, won
  <2>. QED  BY <2>4, <2>5, <2>6 DEF RecordedExecutions, won
<1>4. OnlyOn(UserDiffed, "base", "loo") \subseteq RecordedExecutions(Auction, Rule)
  BY <1>3
<1>. QED  BY <1>1, <1>4, CleanInt, FS_Subset

\* The counters that are set before and are kept by what is counted later.
Early == {"skipped", "differs", "withSolver", "executions", "wonDb", "wonBaseline"}

\* What a clean and a compared auction add to the counters that are compared.
LEMMA CountersOf ==
  /\ \A c \in Counter \ {"auctions", "suspects"} : Seen[c] = 0
  /\ Clean["executions"] = Cardinality(RecordedExecutions(Auction, Rule))
  /\ Clean["wonDb"] = One(RemovedWonRecord)
  /\ \A c \in Counter \ {"auctions", "suspects", "executions", "wonDb"} : Clean[c] = 0
  /\ WhatSolversGot["skipped"] = 0 /\ WhatSolversGot["withSolver"] = 1
  /\ WhatSolversGot["differs"] = One(winners["base"] # Auction.won)
  /\ WhatSolversGot["wonDb"] = One(RemovedWonRecord)
  /\ WhatSolversGot["wonBaseline"] = One(Bidders(Auction.bids, winners["base"]) \cap Removed # {})
  /\ WhatSolversGot["executions"] = Cardinality(RecordedExecutions(Auction, Rule))
  /\ WhatSolversGot["onlyWith"] = Cardinality(OnlyOn(UserDiffed, "base", "loo"))
<1>1. Early \cup {"onlyWith"} \subseteq Counter
  BY DEF Counter, Early
<1>2. \A c \in Counter \ {"auctions", "suspects"} : Seen[c] = 0
  BY DEF Seen
<1>3. DOMAIN Seen = Counter /\ DOMAIN Clean = Counter /\ DOMAIN WhoWon = Counter
      /\ DOMAIN WhatUsersGot = Counter
  BY DEF Seen, Clean, WhoWon, WhatUsersGot
<1>4. /\ Clean["executions"] = Cardinality(RecordedExecutions(Auction, Rule))
      /\ Clean["wonDb"] = One(RemovedWonRecord)
      /\ \A c \in Counter \ {"executions", "wonDb"} : Clean[c] = Seen[c]
  BY <1>1, <1>3 DEF Clean, Early
<1>5. /\ WhoWon["withSolver"] = 1
      /\ WhoWon["differs"] = One(winners["base"] # Auction.won)
      /\ WhoWon["wonBaseline"] = One(Bidders(Auction.bids, winners["base"]) \cap Removed # {})
      /\ \A c \in {"skipped", "wonDb", "executions"} : WhoWon[c] = Clean[c]
  BY <1>1, <1>3 DEF WhoWon, Early
<1>6. /\ \A c \in Early : WhatUsersGot[c] = WhoWon[c]
      /\ WhatUsersGot["onlyWith"] = Cardinality(OnlyOn(UserDiffed, "base", "loo"))
  BY <1>1, <1>3 DEF WhatUsersGot, Early
<1>7. \A c \in Early \cup {"onlyWith"} : WhatSolversGot[c] = WhatUsersGot[c]
  BY <1>1, <1>3 DEF WhatSolversGot, Early
<1>8. "skipped" \in Counter \ {"auctions", "suspects", "executions", "wonDb"}
  BY <1>1 DEF Early
<1>. QED  BY <1>2, <1>4, <1>5, <1>6, <1>7, <1>8 DEF Early

\* What one auction adds to the counters keeps what they owe each other.
LEMMA TallyHolds ==
  ASSUME StepInv, pc = "add"
  PROVE  CountsHold(Tally)
<1>1. InWindow /\ IsRecorded(Auction)
  BY AuctionRecorded DEF StepInv, ControlInv
<1>2. Early \cup {"onlyWith"} \subseteq Counter \ {"auctions", "suspects"}
  BY DEF Counter, Early
<1>3. \A condition : One(condition) \in {0, 1}
  BY DEF One
<1>4. Cardinality(RecordedExecutions(Auction, Rule)) \in Nat
  BY <1>1, CleanInt, FS_CardinalityType
<1>5. CountsHold(Seen)
  <2>1. Seen \in [Counter -> Int]
    BY <1>1, CleanInt
  <2>. QED  BY <1>2, <2>1, CountersOf DEF CountsHold, Early
<1>6. CountsHold([Seen EXCEPT !.skipped = 1, !.wonDb = One(RemovedWonRecord)])
  <2>. DEFINE t == [Seen EXCEPT !.skipped = 1, !.wonDb = One(RemovedWonRecord)]
  <2>1. Seen \in [Counter -> Int] /\ One(RemovedWonRecord) \in Int
    BY <1>1, <1>3, CleanInt
  <2>2. t \in [Counter -> Int]
    <3>1. 1 \in Int
      OBVIOUS
    <3>. QED  BY <2>1, <3>1, Zenon
  <2>3. t["skipped"] = 1 /\ \A c \in {"differs", "withSolver", "onlyWith", "executions"} : t[c] = Seen[c]
    BY <1>2, <2>1 DEF Early
  <2>4. \A c \in {"differs", "withSolver", "onlyWith", "executions"} : t[c] = 0
    BY <1>2, <2>3, CountersOf DEF Early
  <2>. HIDE DEF t
  <2>5. /\ t["skipped"] = 1 /\ t["differs"] = 0 /\ t["withSolver"] = 0
        /\ t["onlyWith"] = 0 /\ t["executions"] = 0
    BY <2>3, <2>4
  <2>6. {t["skipped"], t["differs"], t["withSolver"], t["onlyWith"], t["executions"]} \subseteq Nat
    BY <2>5
  <2>7. t["onlyWith"] <= t["executions"] /\ t["skipped"] # 0
    BY <2>5
  <2>8. CountsHold(t)
    BY <2>2, <2>6, <2>7 DEF CountsHold
  <2>. QED  BY <2>8 DEF t
<1>7. ASSUME ~RemovedPresent PROVE CountsHold(Clean)
  <2>1. ~RemovedWonRecord
    BY <1>1, <1>7 DEF RemovedPresent, RemovedWonRecord, Bidders, IsRecorded
  <2>2. Clean["wonDb"] = 0
    BY <2>1, CountersOf DEF One
  <2>3. \A c \in {"skipped", "differs", "withSolver", "onlyWith", "wonBaseline"} : Clean[c] = 0
    BY <1>2, CountersOf DEF Early
  <2>. QED  BY <1>1, <1>4, <2>2, <2>3, CleanInt, CountersOf DEF CountsHold
<1>8. ASSUME Compared PROVE CountsHold(WhatSolversGot)
  <2>1. WhatSolversGot \in [Counter -> Int]
    BY <1>8, WhatSolversGotInt
  <2>2. Cardinality(OnlyOn(UserDiffed, "base", "loo")) \in Nat
    <3>1. "base" \in Side
      BY DEF Side
    <3>2. IsFiniteSet(OnlyOn(UserDiffed, "base", "loo"))
      BY <1>8, <3>1, SurplusInt, FS_Subset DEF OnlyOn
    <3>. QED  BY <3>2, FS_CardinalityType
  <2>3. {WhatSolversGot["skipped"], WhatSolversGot["differs"], WhatSolversGot["withSolver"],
         WhatSolversGot["onlyWith"], WhatSolversGot["executions"]} \subseteq Nat
    <3>1. One(winners["base"] # Auction.won) \in Nat
      BY DEF One
    <3>. QED  BY <1>4, <2>2, <3>1, CountersOf
  <2>4. ASSUME WhatSolversGot["differs"] = 0
        PROVE  /\ WhatSolversGot["onlyWith"] <= WhatSolversGot["executions"]
               /\ WhatSolversGot["wonDb"] = WhatSolversGot["wonBaseline"]
    <3>1. winners["base"] = Auction.won
      BY <2>4, CountersOf DEF One
    <3>. QED  BY <1>8, <3>1, ExecutionsCovered, CountersOf DEF RemovedWonRecord
  <2>. QED  BY <2>1, <2>3, <2>4 DEF CountsHold
<1>9. CASE Excluded
  BY <1>5, <1>9 DEF Tally
<1>10. CASE ~Excluded /\ Auction.failed
  BY <1>6, <1>10 DEF Tally
<1>11. CASE ~Excluded /\ ~Auction.failed /\ ~RemovedPresent
  BY <1>7, <1>11 DEF Tally
<1>12. CASE ~Excluded /\ ~Auction.failed /\ RemovedPresent
  <2>1. Compared
    BY <1>1, <1>12 DEF Compared, Analysed
  <2>. QED  BY <1>8, <1>12, <2>1 DEF Tally
<1>. QED  BY <1>9, <1>10, <1>11, <1>12

\* What a side has over the other in the counters of one auction.
DeltaOf(t) ==
  [surplus |-> t["surplusLoo"] - t["surplusBase"], fees |-> t["feesLoo"] - t["feesBase"],
   rewards |-> t["rewardsLoo"] - t["rewardsBase"], capped |-> t["cappedLoo"] - t["cappedBase"]]

Nothing == [surplus |-> 0, fees |-> 0, rewards |-> 0, capped |-> 0]

\* The counters a delta is made of.
Compensated == {"surplusBase", "surplusLoo", "feesBase", "feesLoo",
                "rewardsBase", "rewardsLoo", "cappedBase", "cappedLoo"}

\* An auction that is not retained has no delta: its two sides are the same.
LEMMA UnmovedAddsNothing ==
  ASSUME StepInv, pc = "add", ~(Analysed /\ ~Excluded /\ AnythingMoved)
  PROVE  DeltaOf(Tally) = Nothing
<1>1. Compensated \subseteq Counter \ {"auctions", "suspects", "executions", "wonDb", "skipped"}
  BY DEF Counter, Compensated
<1>2. \A c \in Compensated : Seen[c] = 0 /\ Clean[c] = 0
  BY <1>1, CountersOf
<1>3. ASSUME NEW t, \A c \in Compensated : t[c] = 0
      PROVE  DeltaOf(t) = Nothing
  BY <1>3 DEF DeltaOf, Nothing, Compensated
<1>4. CASE Excluded
  BY <1>2, <1>3, <1>4 DEF Tally
<1>5. CASE ~Excluded /\ Auction.failed
  <2>. DEFINE t == [Seen EXCEPT !.skipped = 1, !.wonDb = One(RemovedWonRecord)]
  <2>1. \A c \in Compensated : t[c] = 0
    BY <1>1, <1>2 DEF Seen, Compensated
  <2>2. Tally = t
    BY <1>5 DEF Tally
  <2>. HIDE DEF t
  <2>. QED  BY <1>3, <2>1, <2>2
<1>6. CASE ~Excluded /\ ~Auction.failed /\ ~RemovedPresent
  BY <1>2, <1>3, <1>6 DEF Tally
<1>7. CASE ~Excluded /\ Analysed /\ ~AnythingMoved
  <2>1. InWindow /\ Compared
    BY <1>7 DEF Compared, StepInv, ControlInv
  <2>2. /\ winners["base"] = winners["loo"]
        /\ ReferenceScores("base") = ReferenceScores("loo")
    BY <1>7 DEF AnythingMoved
  <2>3. orders["base"] = orders["loo"] /\ rewards["base"] = rewards["loo"]
    BY <2>1, <2>2 DEF StepInv, OrderInv, RewardInv, Side
  <2>4. /\ Surplus("base") = Surplus("loo") /\ Fees("base") = Fees("loo")
        /\ Uncappeds("base") = Uncappeds("loo") /\ CappedTotal("base") = CappedTotal("loo")
    <3>1. \A o : OrderOn("base", o) = OrderOn("loo", o)
      BY <2>3 DEF OrderOn
    <3>. QED  BY <2>3, <3>1 DEF Surplus, Fees, Uncappeds, CappedTotal
  <2>. DEFINE t == WhatSolversGot
  <2>5. /\ t["surplusBase"] = t["surplusLoo"] /\ t["feesBase"] = t["feesLoo"]
        /\ t["rewardsBase"] = t["rewardsLoo"] /\ t["cappedBase"] = t["cappedLoo"]
    <3>1. /\ WhatUsersGot["surplusBase"] = WhatUsersGot["surplusLoo"]
          /\ WhatUsersGot["feesBase"] = WhatUsersGot["feesLoo"]
      BY <1>1, <2>4 DEF WhatUsersGot, WhoWon, Clean, Seen, Compensated
    <3>2. DOMAIN WhatUsersGot = Counter
      BY DEF WhatUsersGot, WhoWon, Clean, Seen
    <3>. QED  BY <1>1, <2>4, <3>1, <3>2 DEF WhatSolversGot, Compensated
  <2>6. t \in [Counter -> Int]
    BY <2>1, WhatSolversGotInt
  <2>7. \A c \in Compensated : t[c] \in Int
    BY <1>1, <2>6
  <2>8. Tally = t
    BY <1>7 DEF Tally, Analysed
  <2>. HIDE DEF t
  <2>. QED  BY <2>5, <2>7, <2>8 DEF DeltaOf, Nothing, Compensated
<1>. QED  BY <1>4, <1>5, <1>6, <1>7 DEF Analysed

\* One that is retained carries its delta.
LEMMA MovedCarriesDelta ==
  ASSUME StepInv, pc = "add", Analysed, ~Excluded
  PROVE  Deltas = DeltaOf(Tally) /\ Deltas \in Delta /\ Tally["withSolver"] = 1
<1>1. Compared
  BY DEF Compared, StepInv, ControlInv
<1>2. Tally = WhatSolversGot
  BY DEF Tally, Analysed
<1>3. WhatSolversGot \in [Counter -> Int]
  BY <1>1, WhatSolversGotInt
<1>4. Compensated \subseteq Counter
  BY DEF Compensated, Counter
<1>5. Deltas = DeltaOf(WhatSolversGot)
  BY DEF Deltas, DeltaOf
<1>6. \A c \in Compensated : WhatSolversGot[c] \in Int
  BY <1>3, <1>4
<1>7. DeltaOf(WhatSolversGot) \in Delta
  BY <1>6 DEF DeltaOf, Delta, Compensated
<1>. QED  BY <1>2, <1>5, <1>7, CountersOf

\* A step that counts nothing.
LEMMA SameCounts == ASSUME UNCHANGED counted PROVE CountInv' <=> CountInv
BY DEF counted, CountInv, ChangedCarriesDeltas, Retained

\* What the window retains grows by the delta appended to it.
LEMMA RetainedGrows ==
  ASSUME changed \in Seq(Delta), NEW d \in Delta, changed' = Append(changed, d),
         NEW f \in {"surplus", "fees", "rewards", "capped"}
  PROVE  Retained(f)' = Retained(f) + d[f]
<1>. DEFINE n == Len(changed)
            old == [i \in DOMAIN changed |-> changed[i][f]]
            new == [i \in DOMAIN changed' |-> changed'[i][f]]
<1>1. n \in Nat /\ DOMAIN changed = 1..n /\ DOMAIN changed' = 1..(n + 1)
  OBVIOUS
<1>2. \A i \in 1..n : changed'[i] = changed[i] /\ changed[i] \in Delta
  OBVIOUS
<1>3. changed'[n + 1] = d
  OBVIOUS
<1>4. \A e \in Delta : e[f] \in Int
  BY DEF Delta
<1>5. /\ \A i \in 1..n : old[i] \in Int /\ old[i] = new[i]
      /\ new[n + 1] = d[f] /\ new[n + 1] \in Int
  BY <1>1, <1>2, <1>3, <1>4
<1>6. Retained(f) = SumFunctionOnSet(old, 1..n) /\ Retained(f)' = SumFunctionOnSet(new, 1..(n + 1))
  BY <1>1 DEF Retained, SumFunction
<1>. HIDE DEF n, old, new
<1>7. SumFunctionOnSet(new, 1..(n + 1)) = SumFunctionOnSet(old, 1..n) + new[n + 1]
  BY <1>1, <1>5, SumAppended
<1>. QED  BY <1>5, <1>6, <1>7

LEMMA CountInit == Init => CountInv
<1>. SUFFICES ASSUME Init PROVE CountInv
  OBVIOUS
<1>1. /\ analysis \in [Counter -> Int] /\ \A c \in Counter : analysis[c] = 0
      /\ changed = <<>>
  BY DEF Init
<1>2. Early \cup Compensated \cup {"onlyWith"} \subseteq Counter
  BY DEF Early, Compensated, Counter
<1>3. CountsHold(analysis)
  BY <1>1, <1>2 DEF CountsHold, Early
<1>4. \A f : Retained(f) = 0
  <2>. SUFFICES ASSUME NEW f PROVE Retained(f) = 0
    OBVIOUS
  <2>1. DOMAIN [i \in DOMAIN changed |-> changed[i][f]] = {}
    BY <1>1
  <2>. QED  BY <2>1, SumOfNone DEF Retained, SumFunction
<1>5. ChangedCarriesDeltas
  BY <1>1, <1>2, <1>4 DEF ChangedCarriesDeltas, Compensated
<1>6. changed \in Seq(Delta) /\ Len(changed) <= analysis["withSolver"]
  BY <1>1, <1>2 DEF Early
<1>. QED  BY <1>3, <1>5, <1>6 DEF CountInv

LEMMA CountStep == StepInv /\ CountInv /\ [Next]_vars => CountInv'
<1>. SUFFICES ASSUME StepInv, CountInv, [Next]_vars PROVE CountInv'
  OBVIOUS
<1>1. CASE Add
  <2>1. /\ pc = "add" /\ analysis' = [c \in Counter |-> analysis[c] + Tally[c]]
        /\ changed' = IF Analysed /\ ~Excluded /\ AnythingMoved THEN Append(changed, Deltas)
                      ELSE changed
    BY <1>1 DEF Add
  <2>2. CountsHold(analysis) /\ CountsHold(Tally)
    BY <2>1, TallyHolds DEF CountInv
  <2>3. \A c \in Counter : analysis'[c] = analysis[c] + Tally[c] /\ analysis[c] \in Int /\ Tally[c] \in Int
    BY <2>1, <2>2 DEF CountsHold
  <2>4. Early \cup Compensated \cup {"onlyWith"} \subseteq Counter
    BY DEF Early, Compensated, Counter
  <2>5. CountsHold(analysis')
    <3>1. analysis' \in [Counter -> Int]
      BY <2>1, <2>3
    <3>. QED  BY <2>2, <2>3, <2>4, <3>1 DEF CountsHold, Early
  <2>6. /\ changed \in Seq(Delta) /\ Len(changed) <= analysis["withSolver"]
        /\ ChangedCarriesDeltas
    BY DEF CountInv
  <2>7. /\ analysis["withSolver"] \in Nat /\ Tally["withSolver"] \in Nat
        /\ analysis'["withSolver"] = analysis["withSolver"] + Tally["withSolver"]
    BY <2>2, <2>3, <2>4 DEF CountsHold, Early
  <2>8. DeltaOf(analysis') =
          [f \in {"surplus", "fees", "rewards", "capped"} |-> DeltaOf(analysis)[f] + DeltaOf(Tally)[f]]
    <3>1. \A c \in Compensated :
            analysis'[c] = analysis[c] + Tally[c] /\ analysis[c] \in Int /\ Tally[c] \in Int
      BY <2>3, <2>4
    <3>. QED  BY <3>1 DEF DeltaOf, Compensated
  <2>9. \A f \in {"surplus", "fees", "rewards", "capped"} :
          Retained(f) = DeltaOf(analysis)[f] /\ DeltaOf(analysis)[f] \in Int
    <3>1. \A c \in Compensated : analysis[c] \in Int
      BY <2>3, <2>4
    <3>. QED  BY <2>6, <3>1 DEF ChangedCarriesDeltas, DeltaOf, Compensated
  <2>10. CASE Analysed /\ ~Excluded /\ AnythingMoved
    <3>1. Deltas = DeltaOf(Tally) /\ Deltas \in Delta /\ Tally["withSolver"] = 1
      BY <2>1, <2>10, MovedCarriesDelta
    <3>2. changed' = Append(changed, Deltas)
      BY <2>1, <2>10
    <3>3. \A f \in {"surplus", "fees", "rewards", "capped"} : Retained(f)' = Retained(f) + Deltas[f]
      BY <2>6, <3>1, <3>2, RetainedGrows
    <3>4. \A f \in {"surplus", "fees", "rewards", "capped"} : Retained(f)' = DeltaOf(analysis')[f]
      BY <2>8, <2>9, <3>1, <3>3
    <3>5. ChangedCarriesDeltas'
      BY <3>4 DEF ChangedCarriesDeltas, DeltaOf
    <3>6. changed' \in Seq(Delta) /\ Len(changed') = Len(changed) + 1 /\ Len(changed) \in Nat
      BY <2>6, <3>1, <3>2
    <3>. QED  BY <2>5, <2>6, <2>7, <3>1, <3>5, <3>6 DEF CountInv
  <2>11. CASE ~(Analysed /\ ~Excluded /\ AnythingMoved)
    <3>1. DeltaOf(Tally) = Nothing /\ changed' = changed
      BY <2>1, <2>11, UnmovedAddsNothing
    <3>2. \A f \in {"surplus", "fees", "rewards", "capped"} : Retained(f)' = DeltaOf(analysis')[f]
      BY <2>8, <2>9, <3>1 DEF Retained, Nothing
    <3>3. ChangedCarriesDeltas'
      BY <3>2 DEF ChangedCarriesDeltas, DeltaOf
    <3>4. Len(changed) \in Nat
      BY <2>6
    <3>. QED  BY <2>5, <2>6, <2>7, <3>1, <3>3, <3>4 DEF CountInv
  <2>. QED  BY <2>10, <2>11
<1>2. RaiseMissingSettlement \/ Skip \/ Arbitrate \/ UnFilter \/ Settle \/ Refer \/ Reward
        \/ Stopped \/ UNCHANGED vars => UNCHANGED counted
  BY DEF RaiseMissingSettlement, Skip, Arbitrate, UnFilter, Settle, Refer, Reward, Stopped,
         vars, counted
<1>. QED  BY <1>1, <1>2, SameCounts DEF Next

\* The invariant the theorems below rest on: what the steps taken so far of the auction at
\* hand have assigned, and the relations among the counters of the auctions before.
LEMMA Inductive == Spec => []IInv
<1>1. Init => IInv
  BY StepInit, CountInit DEF IInv
<1>2. IInv /\ [Next]_vars => IInv'
  BY StepStep, CountStep DEF IInv
<1>. QED  BY <1>1, <1>2, PTL DEF Spec

\* The variables are of their types, and no more auctions are retained than had the
\* removed solvers in them.
THEOREM TypeCorrect == Spec => []TypeOK
<1>1. ASSUME IInv PROVE TypeOK
  <2>1. StepInv /\ CountInv
    BY <1>1 DEF IInv
  <2>2. /\ at \in 1..Len(window) + 1
        /\ pc \in {"value", "relax", "settle", "refer", "reward", "add",
                   "MissingSettlementError", "RelaxationError", "AssertionError"}
    BY <2>1 DEF StepInv, ControlInv
  <2>3. relaxed \subseteq fair["loo"]
    BY <2>1 DEF StepInv, RelaxInv, NewlyKept
  <2>4. analysis \in [Counter -> Int] /\ Len(changed) <= analysis["withSolver"]
    BY <2>1 DEF CountInv, CountsHold
  <2>5. ASSUME InWindow, NEW side \in Side
        PROVE  /\ winners[side] \subseteq fair[side] /\ fair[side] \subseteq DOMAIN Submitted(side)
               /\ DOMAIN references[side] \subseteq Bidders(Auction.bids, winners[side])
               /\ DOMAIN orders[side] \subseteq Order
               /\ DOMAIN rewards[side] \subseteq DOMAIN references[side]
    <3>1. IsRecorded(Auction)
      BY <2>1, <2>5, AuctionRecorded DEF StepInv
    <3>2. winners[side] \subseteq fair[side] /\ fair[side] \subseteq DOMAIN Submitted(side)
      BY <2>1 DEF StepInv, PickInv, IsPick, FairBids, Both
    <3>3. DOMAIN references[side] \subseteq Bidders(Auction.bids, winners[side])
      BY <2>1 DEF StepInv, ReferenceInv, Both
    <3>4. DOMAIN rewards[side] \subseteq DOMAIN references[side]
      <4>1. CASE Compared
        BY <2>1, <4>1 DEF StepInv, RewardInv, ReferenceInv, Rewards
      <4>2. CASE ~Compared
        BY <2>1, <4>2 DEF StepInv, RewardInv, Both
      <4>. QED  BY <4>1, <4>2
    <3>5. DOMAIN orders[side] \subseteq Order
      <4>1. CASE orders[side] = <<>>
        BY <4>1
      <4>2. CASE orders[side] = SideOrders(Auction, Rule, winners[side])
        <5>. SUFFICES ASSUME NEW o \in DOMAIN orders[side] PROVE o \in Order
          OBVIOUS
        <5>1. PICK u \in winners[side] : o \in Auction.bids[u].orders
          BY <4>2, OrdersOfSide
        <5>2. u \in DOMAIN Auction.bids
          BY <3>1, <3>2, <5>1, SubmittedAuction
        <5>. QED  BY <3>1, <5>1, <5>2 DEF IsRecorded, IsBid
      <4>3. orders[side] = <<>> \/ orders[side] = SideOrders(Auction, Rule, winners[side])
        BY <2>1 DEF StepInv, OrderInv, Both
      <4>. QED  BY <4>1, <4>2, <4>3
    <3>. QED  BY <3>2, <3>3, <3>4, <3>5
  <2>. QED  BY <2>2, <2>3, <2>4, <2>5 DEF TypeOK
<1>. QED  BY <1>1, Inductive, PTL

\* The retained auctions carry the whole delta of the window.
THEOREM DeltasCarried == Spec => []ChangedCarriesDeltas
<1>1. IInv => ChangedCarriesDeltas
  BY DEF IInv, CountInv
<1>. QED  BY <1>1, Inductive, PTL

\* The orders that executed only with the removed solvers are no more than the executions
\* of the record, as long as no auction of the window is arbitrated differently.
THEOREM CoverageHolds == Spec => []CoverageIsAShare
<1>1. IInv => CoverageIsAShare
  BY DEF IInv, CountInv, CountsHold, CoverageIsAShare
<1>. QED  BY <1>1, Inductive, PTL

\* The wins by the arbitration and by the record count the same auctions, unless one
\* was skipped or is arbitrated differently.
THEOREM WinsCompare == Spec => []WinCountsComparable
<1>1. IInv => WinCountsComparable
  BY DEF IInv, CountInv, CountsHold, WinCountsComparable
<1>. QED  BY <1>1, Inductive, PTL
=============================================================================
