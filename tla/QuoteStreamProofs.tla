--------------------------- MODULE QuoteStreamProofs ---------------------------
(***************************************************************************)
(* Theorems about QuoteStream for every set of requests: what was sent, what *)
(* the link reconstructs of it, and what the counterfactual makes of that.   *)
(* Before them, facts about the pick of a quote competition and about what   *)
(* its stream sends, for ladders of any length and any prices.              *)
(***************************************************************************)
EXTENDS QuoteStream, FiniteSetTheorems, WellFoundedInduction, TLAPS

(***************************************************************************)
(* b leads the answers I: it beats the reasonable ones before it and none    *)
(* after it beats it.  The pick is the answer that leads, see PickLeads.     *)
(***************************************************************************)
Leads(q, I, b) ==
  /\ b \in Usable(q, I)
  /\ \A k \in Usable(q, I) : /\ k < b => Beats(q, b, k)
                             /\ k > b => ~Beats(q, k, b)

\* Positions are positive and every answer has a class and an integer key.
LEMMA Keys ==
  ASSUME NEW q, IsRequest(q)
  PROVE  /\ Len(q.ladder) \in Nat /\ DOMAIN q.ladder = 1..Len(q.ladder)
         /\ \A i \in DOMAIN q.ladder : Key(q, i) \in Int /\ q.ladder[i].verified \in BOOLEAN
<1>1. Len(q.ladder) \in Nat /\ DOMAIN q.ladder = 1..Len(q.ladder)
  BY DEF IsRequest
<1>2. ASSUME NEW i \in DOMAIN q.ladder
      PROVE  Key(q, i) \in Int /\ q.ladder[i].verified \in BOOLEAN
  <2>1. q.ladder[i] \in Estimate
    BY DEF IsRequest
  <2>2. /\ q.ladder[i].out \in Nat /\ q.ladder[i].gas \in Nat
        /\ q.ladder[i].verified \in BOOLEAN
    BY <2>1 DEF Estimate
  <2>3. /\ q.in \in Nat \ {0} /\ q.gasPrice \in Nat
        /\ q.sellPrice \in Nat \ {0} /\ q.buyPrice \in Nat
    BY DEF IsRequest
  <2>4. GasWei(q, i) \in Nat /\ InWei(q) \in Nat /\ InWei(q) > 0
    BY <2>2, <2>3 DEF GasWei, InWei
  <2>5. AutopilotKey(q, i) \in Int
    <3>1. q.ladder[i].out * q.buyPrice \in Nat /\ q.ladder[i].out * q.sellPrice \in Nat
      BY <2>2, <2>3
    <3>. QED  BY <2>4, <3>1 DEF AutopilotKey
  <2>6. EffectiveKey(q, i) \in Int
    <3>1. \A x \in Int, d \in Nat \ {0} : x \div d \in Int
      OBVIOUS
    <3>2. /\ q.ladder[i].out * (InWei(q) - GasWei(q, i)) \in Int
          /\ q.ladder[i].out * q.sellPrice + GasWei(q, i) \in Int
      BY <2>2, <2>3, <2>4
    <3>3. /\ (q.ladder[i].out * (InWei(q) - GasWei(q, i))) \div InWei(q) \in Int
          /\ (q.ladder[i].out * q.sellPrice + GasWei(q, i)) \div q.sellPrice \in Int
      BY <2>3, <2>4, <3>1, <3>2
    <3>. QED  BY <3>3 DEF EffectiveKey
  <2>. QED  BY <2>2, <2>5, <2>6 DEF Key
<1>. QED  BY <1>1, <1>2

\* To beat is a strict order, and what does not beat passes that on.
LEMMA BeatsOrder ==
  ASSUME NEW q, IsRequest(q)
  PROVE  /\ \A i \in DOMAIN q.ladder : ~Beats(q, i, i)
         /\ \A i, j, k \in DOMAIN q.ladder :
              /\ Beats(q, i, j) /\ Beats(q, j, k) => Beats(q, i, k)
              /\ Beats(q, i, j) /\ ~Beats(q, k, j) => Beats(q, i, k)
              /\ ~Beats(q, j, i) /\ Beats(q, j, k) => Beats(q, i, k)
BY Keys DEF Beats

LEMMA LeastNatural ==
  ASSUME NEW N, N \subseteq Nat, N # {}
  PROVE  \E n \in N : \A m \in N : n <= m
<1>. DEFINE R == OpToRel(<, Nat)
<1>1. IsWellFoundedOn(R, Nat)
  BY NatLessThanWellFounded
<1>2. PICK n \in N : \A m \in N : <<m, n>> \notin R
  <2>. HIDE DEF R
  <2>. QED  BY <1>1, WFMin
<1>3. \A m \in N : ~(m < n)
  BY <1>2 DEF OpToRel
<1>. QED  BY <1>3

\* The earliest position of a set is in it and before all others.
LEMMA EarliestIs ==
  ASSUME NEW q, IsRequest(q), NEW S, S \subseteq DOMAIN q.ladder
  PROVE  /\ S = {} => Earliest(S) = 0
         /\ S # {} => Earliest(S) \in S /\ \A k \in S : Earliest(S) <= k
         /\ \A i \in S : (\A k \in S : i <= k) => Earliest(S) = i
<1>1. S \subseteq Nat
  BY Keys
<1>2. S # {} => Earliest(S) \in S /\ \A k \in S : Earliest(S) <= k
  BY <1>1, LeastNatural DEF Earliest
<1>. QED  BY <1>1, <1>2 DEF Earliest

\* The latest position of a set, where there is one.
LEMMA LatestIs ==
  ASSUME NEW q, IsRequest(q), NEW S, S \subseteq DOMAIN q.ladder
  PROVE  /\ S = {} => Latest(S) = 0
         /\ \A i \in S : (\A k \in S : k <= i) => Latest(S) = i
<1>1. S \subseteq Nat
  BY Keys
<1>2. ASSUME NEW i \in S, \A k \in S : k <= i
      PROVE  Latest(S) = i
  <2>1. \E j \in S : \A k \in S : k <= j
    BY <1>2
  <2>2. Latest(S) \in S /\ \A k \in S : k <= Latest(S)
    BY <2>1 DEF Latest
  <2>. QED  BY <1>1, <1>2, <2>2
<1>. QED  BY <1>2 DEF Latest

\* A set of positions has a first best: the one with the fewest better ones.
LEMMA FirstBestExists ==
  ASSUME NEW q, IsRequest(q), NEW P, P \subseteq DOMAIN q.ladder, P # {}
  PROVE  \E i \in P : IsFirstBest(q, P, i)
<1>. DEFINE better(k, i) == Key(q, k) > Key(q, i) \/ (Key(q, k) = Key(q, i) /\ k < i)
            ahead(i) == {k \in P : better(k, i)}
            ranks == {Cardinality(ahead(i)) : i \in P}
<1>0. P \subseteq Nat /\ \A i \in P : Key(q, i) \in Int
  BY Keys
<1>1. \A i \in P : IsFiniteSet(ahead(i)) /\ Cardinality(ahead(i)) \in Nat
  <2>1. IsFiniteSet(1..Len(q.ladder))
    BY Keys, FS_Interval
  <2>2. \A i \in P : ahead(i) \subseteq 1..Len(q.ladder)
    BY Keys
  <2>. QED  BY <2>1, <2>2, FS_Subset, FS_CardinalityType
<1>2. ranks \subseteq Nat /\ ranks # {}
  BY <1>1
<1>3. PICK n \in ranks : \A m \in ranks : n <= m
  <2>. HIDE DEF ranks
  <2>. QED  BY <1>2, LeastNatural
<1>4. PICK i \in P : n = Cardinality(ahead(i))
  BY <1>3
<1>5. ASSUME NEW k \in P, better(k, i)
      PROVE  FALSE
  <2>1. ahead(k) \subseteq ahead(i)
    BY <1>0, <1>5
  <2>2. k \in ahead(i) \ ahead(k)
    BY <1>0, <1>5
  <2>3. Cardinality(ahead(k)) < Cardinality(ahead(i))
    <3>. HIDE DEF ahead
    <3>. QED  BY <1>1, <2>1, <2>2, FS_Subset
  <2>4. n <= Cardinality(ahead(k))
    BY <1>3
  <2>. HIDE DEF ahead, better, ranks
  <2>5. Cardinality(ahead(k)) \in Nat /\ Cardinality(ahead(i)) \in Nat
    BY <1>1
  <2>. QED  BY <1>4, <2>3, <2>4, <2>5
<1>6. \A k \in P : ~better(k, i)
  BY <1>5
<1>. QED  BY <1>0, <1>6 DEF IsFirstBest

\* What is preferred is usable, and there is some if anything is usable.
LEMMA PreferredIs ==
  ASSUME NEW q, NEW I
  PROVE  /\ Preferred(q, I) \subseteq Usable(q, I) /\ Usable(q, I) \subseteq I
         /\ Usable(q, I) # {} => Preferred(q, I) # {}
BY DEF Preferred, Usable

\* The pick leads, and nothing else does.
THEOREM PickLeads ==
  ASSUME NEW q, IsRequest(q), NEW I, I \subseteq DOMAIN q.ladder
  PROVE  /\ Usable(q, I) = {} => Pick(q, I) = 0
         /\ Usable(q, I) # {} => Leads(q, I, Pick(q, I))
         /\ \A b : Leads(q, I, b) => Pick(q, I) = b
<1>. DEFINE P == Preferred(q, I)
<1>1. P \subseteq DOMAIN q.ladder /\ P \subseteq Nat
  BY PreferredIs, Keys
<1>2. Usable(q, I) = {} => Pick(q, I) = 0
  BY PreferredIs DEF Pick
<1>3. P # {} => IsFirstBest(q, P, Pick(q, I))
  <2>. HIDE DEF P
  <2>1. P # {} => \E i \in P : IsFirstBest(q, P, i)
    BY <1>1, FirstBestExists
  <2>. QED  BY <2>1 DEF Pick, P
<1>4. ASSUME NEW b, IsFirstBest(q, P, b)
      PROVE  Leads(q, I, b)
  <2>1. b \in P /\ b \in Usable(q, I)
    BY <1>4, PreferredIs DEF IsFirstBest
  <2>2. ASSUME NEW k \in Usable(q, I)
        PROVE  (k < b => Beats(q, b, k)) /\ (k > b => ~Beats(q, k, b))
    <3>0. b \in DOMAIN q.ladder /\ k \in DOMAIN q.ladder
      BY <1>1, <2>1, PreferredIs
    <3>1. CASE k \in P
      <4>1. q.ladder[k].verified = q.ladder[b].verified
        BY <2>1, <3>0, <3>1, Keys DEF Preferred
      <4>2. Key(q, k) <= Key(q, b) /\ (Key(q, k) = Key(q, b) => b <= k)
        BY <1>4, <3>1 DEF IsFirstBest
      <4>. QED  BY <3>0, <4>1, <4>2, Keys DEF Beats
    <3>2. CASE k \notin P
      <4>1. q.ladder[b].verified /\ ~q.ladder[k].verified
        BY <2>1, <2>2, <3>2 DEF Preferred
      <4>. QED  BY <4>1 DEF Beats
    <3>. QED  BY <3>1, <3>2
  <2>. QED  BY <2>1, <2>2 DEF Leads
<1>5. ASSUME NEW b, NEW c, Leads(q, I, b), Leads(q, I, c)
      PROVE  b = c
  <2>1. b \in DOMAIN q.ladder /\ c \in DOMAIN q.ladder /\ b \in Nat /\ c \in Nat
    BY <1>5, PreferredIs, Keys DEF Leads
  <2>2. CASE b < c
    BY <1>5, <2>1, <2>2 DEF Leads
  <2>3. CASE c < b
    BY <1>5, <2>1, <2>3 DEF Leads
  <2>. QED  BY <2>1, <2>2, <2>3
<1>6. Usable(q, I) # {} => Leads(q, I, Pick(q, I))
  BY <1>3, <1>4, PreferredIs
<1>7. ASSUME NEW b, Leads(q, I, b)
      PROVE  Pick(q, I) = b
  <2>1. Usable(q, I) # {}
    BY <1>7 DEF Leads
  <2>. QED  BY <1>5, <1>6, <1>7, <2>1
<1>. QED  BY <1>2, <1>6, <1>7

\* An answer that leads goes on to lead when others leave.
LEMMA LeadsAmongFewer ==
  ASSUME NEW q, NEW I, NEW J, J \subseteq I, NEW b \in J, Leads(q, I, b)
  PROVE  Leads(q, J, b)
BY DEF Leads, Usable

\* The next answer sets the bar exactly if it beats the pick so far, and is then the pick.
LEMMA NextPick ==
  ASSUME NEW q, IsRequest(q), NEW n \in Nat, n + 1 <= Len(q.ladder)
  PROVE  /\ Sets(q, 1..(n + 1), n + 1) <=>
              /\ Reasonable(q, n + 1)
              /\ Usable(q, 1..n) = {} \/ Beats(q, n + 1, Pick(q, 1..n))
         /\ Pick(q, 1..(n + 1)) =
              IF Sets(q, 1..(n + 1), n + 1) THEN n + 1 ELSE Pick(q, 1..n)
<1>. DEFINE A == 1..n
            B == 1..(n + 1)
            p == Pick(q, A)
<1>1. /\ A \subseteq DOMAIN q.ladder /\ B \subseteq DOMAIN q.ladder /\ n + 1 \in DOMAIN q.ladder
      /\ n + 1 \in B /\ B = A \cup {n + 1} /\ n + 1 \notin A
      /\ \A k \in A : k \in Nat /\ k < n + 1
  BY Keys
<1>2. Usable(q, B) = Usable(q, A) \cup (IF Reasonable(q, n + 1) THEN {n + 1} ELSE {})
  BY <1>1 DEF Usable
<1>3. /\ Usable(q, A) = {} => p = 0
      /\ Usable(q, A) # {} => Leads(q, A, p) /\ p \in Usable(q, A) /\ p \in A
  BY <1>1, PickLeads, PreferredIs DEF Leads
<1>. HIDE DEF A, B, p
<1>4. \A k \in Usable(q, A) : k \in A /\ k \in DOMAIN q.ladder /\ k < n + 1
  BY <1>1, PreferredIs
<1>5. ASSUME Reasonable(q, n + 1), Usable(q, A) # {}, Beats(q, n + 1, p)
      PROVE  \A k \in Usable(q, A) : Beats(q, n + 1, k)
  <2>. SUFFICES ASSUME NEW k \in Usable(q, A) PROVE Beats(q, n + 1, k)
    OBVIOUS
  <2>1. k = p \/ Beats(q, p, k) \/ ~Beats(q, k, p)
    BY <1>1, <1>3, <1>4, <1>5 DEF Leads
  <2>. QED  BY <1>1, <1>3, <1>4, <1>5, <2>1, BeatsOrder
<1>6. Sets(q, B, n + 1) <=> /\ Reasonable(q, n + 1)
                            /\ \A k \in Usable(q, A) : Beats(q, n + 1, k)
  <2>1. \A k \in Usable(q, B) : k < n + 1 <=> k \in Usable(q, A)
    BY <1>1, <1>2, <1>4
  <2>2. n + 1 \in Usable(q, B) <=> Reasonable(q, n + 1)
    BY <1>1 DEF Usable
  <2>3. Usable(q, A) \subseteq Usable(q, B)
    BY <1>2
  <2>. QED  BY <2>1, <2>2, <2>3 DEF Sets
<1>7. Sets(q, B, n + 1) <=>
        /\ Reasonable(q, n + 1) /\ (Usable(q, A) = {} \/ Beats(q, n + 1, p))
  BY <1>3, <1>5, <1>6
<1>8. CASE Sets(q, B, n + 1)
  <2>1. n + 1 \in Usable(q, B) /\ \A k \in Usable(q, B) : k = n + 1 \/ k < n + 1
    BY <1>2, <1>4, <1>8 DEF Sets
  <2>2. Leads(q, B, n + 1)
    <3>. SUFFICES ASSUME NEW k \in Usable(q, B)
                  PROVE  (k < n + 1 => Beats(q, n + 1, k)) /\ ~(k > n + 1)
      BY <2>1 DEF Leads
    <3>1. k \in Nat
      BY <1>1, PreferredIs, Keys
    <3>. QED  BY <1>8, <2>1, <3>1 DEF Sets
  <2>3. Pick(q, B) = n + 1
    BY <1>1, <2>2, PickLeads
  <2>. QED  BY <1>7, <1>8, <2>3 DEF A, B, p
<1>9. CASE ~Sets(q, B, n + 1) /\ Usable(q, A) = {}
  <2>1. Usable(q, B) = {}
    BY <1>2, <1>7, <1>9
  <2>. QED  BY <1>1, <1>3, <1>7, <1>9, <2>1, PickLeads DEF A, B, p
<1>10. CASE ~Sets(q, B, n + 1) /\ Usable(q, A) # {}
  <2>1. Reasonable(q, n + 1) => ~Beats(q, n + 1, p)
    BY <1>7, <1>10
  <2>2. \A k \in Usable(q, B) : k \in Usable(q, A) \/ (k = n + 1 /\ ~Beats(q, k, p))
    BY <1>2, <2>1
  <2>3. p < n + 1 /\ p \in Usable(q, B)
    BY <1>2, <1>3, <1>4, <1>10
  <2>4. Leads(q, B, p)
    <3>. SUFFICES ASSUME NEW k \in Usable(q, B)
                  PROVE  (k < p => Beats(q, p, k)) /\ (k > p => ~Beats(q, k, p))
      BY <2>3 DEF Leads
    <3>1. CASE k \in Usable(q, A)
      BY <1>3, <1>10, <3>1 DEF Leads
    <3>2. CASE k = n + 1 /\ ~Beats(q, k, p)
      <4>1. ~(k < p)
        BY <1>1, <1>3, <1>10, <2>3, <3>2
      <4>. QED  BY <3>2, <4>1
    <3>. QED  BY <2>2, <3>1, <3>2
  <2>5. Pick(q, B) = p
    BY <1>1, <2>4, PickLeads
  <2>. QED  BY <1>7, <1>10, <2>5 DEF A, B, p
<1>. QED  BY <1>8, <1>9, <1>10

\* The pick of the first h positions is the last answer up to h that sets the bar.
LEMMA PickIsLatestSetter ==
  ASSUME NEW q, IsRequest(q), NEW I, I \subseteq DOMAIN q.ladder, NEW h \in Int,
         NEW H, H = {i \in I : i <= h}, Usable(q, H) # {}
  PROVE  /\ Pick(q, H) \in H /\ Sets(q, I, Pick(q, H))
         /\ \A s \in H : Sets(q, I, s) => s <= Pick(q, H)
<1>. DEFINE p == Pick(q, H)
<1>0. H \subseteq DOMAIN q.ladder /\ \A k \in DOMAIN q.ladder : k \in Nat
  BY Keys
<1>1. Leads(q, H, p) /\ p \in Usable(q, H) /\ p \in H
  BY <1>0, PickLeads, PreferredIs DEF Leads
<1>. HIDE DEF p
<1>2. Sets(q, I, p)
  <2>1. \A k \in Usable(q, I) : k < p => k \in Usable(q, H)
    BY <1>0, <1>1 DEF Usable
  <2>2. p \in Usable(q, I)
    BY <1>1 DEF Usable
  <2>. QED  BY <1>1, <2>1, <2>2 DEF Sets, Leads
<1>3. ASSUME NEW s \in H, Sets(q, I, s)
      PROVE  s <= p
  <2>1. s \in Usable(q, H) /\ p \in Usable(q, I)
    BY <1>1, <1>3 DEF Usable, Sets
  <2>2. CASE s > p
    <3>1. Beats(q, s, p)
      BY <1>0, <1>3, <2>1, <2>2, <1>1 DEF Sets
    <3>. QED  BY <1>1, <2>1, <2>2, <3>1 DEF Leads
  <2>. QED  BY <1>0, <1>1, <2>2
<1>. QED  BY <1>1, <1>2, <1>3 DEF p

\* Where the quoter sends every answer, the screen shows the pick of what has arrived
\* or, while that is nothing, the first answer that the competition does not ignore.
THEOREM ShownIsPick ==
  ASSUME NEW q, IsRequest(q), NEW I, I \subseteq DOMAIN q.ladder, NEW h \in Int,
         \A i \in Usable(q, I) : Sendable(q, i),
         NEW H, H = {i \in I : i <= h}
  PROVE  Shown(q, I, h) = IF Usable(q, H) # {} THEN Pick(q, H) ELSE Earliest(Usable(q, I))
<1>. DEFINE S == Sent(q, I)
            seen == {i \in S : i <= h}
<1>1. /\ S \subseteq Usable(q, I) /\ S = {i \in I : Sets(q, I, i)}
      /\ Usable(q, I) \subseteq DOMAIN q.ladder /\ S \subseteq DOMAIN q.ladder
  BY PreferredIs DEF Sent, Sets
<1>2. CASE Usable(q, H) # {}
  <2>. DEFINE p == Pick(q, H)
  <2>1. p \in H /\ Sets(q, I, p) /\ \A s \in H : Sets(q, I, s) => s <= p
    BY <1>2, PickIsLatestSetter
  <2>2. p \in seen /\ \A s \in seen : s <= p
    BY <1>1, <2>1
  <2>3. Latest(seen) = p
    <3>. HIDE DEF p, S
    <3>. QED  BY <1>1, <2>2, LatestIs
  <2>. QED  BY <1>2, <2>2, <2>3 DEF Shown
<1>3. CASE Usable(q, H) = {}
  <2>1. seen = {}
    BY <1>1, <1>3 DEF Usable
  <2>2. Earliest(S) = Earliest(Usable(q, I))
    <3>1. CASE Usable(q, I) = {}
      BY <1>1, <3>1
    <3>2. CASE Usable(q, I) # {}
      <4>. DEFINE e == Earliest(Usable(q, I))
      <4>1. e \in Usable(q, I) /\ \A k \in Usable(q, I) : e <= k
        BY <1>1, <3>2, EarliestIs
      <4>. HIDE DEF e
      <4>2. Sets(q, I, e)
        <5>1. \A k \in Usable(q, I) : k \in Nat
          BY <1>1, Keys
        <5>. QED  BY <4>1, <5>1 DEF Sets
      <4>3. e \in S /\ \A k \in S : e <= k
        BY <1>1, <4>1, <4>2, PreferredIs
      <4>. QED  BY <1>1, <4>3, EarliestIs DEF e
    <3>. QED  BY <3>1, <3>2
  <2>. QED  BY <1>3, <2>1, <2>2 DEF Shown
<1>. QED  BY <1>2, <1>3

\* What a stream has sent up to h does not depend on what arrives later.
LEMMA SentUpTo ==
  ASSUME NEW q, IsRequest(q), NEW I, I \subseteq DOMAIN q.ladder, NEW h \in Int,
         NEW H, H = {i \in I : i <= h}
  PROVE  Sent(q, H) = {i \in Sent(q, I) : i <= h}
<1>1. \A i \in I : i \in Nat
  BY Keys
<1>2. ASSUME NEW i \in H
      PROVE  Sets(q, H, i) <=> Sets(q, I, i)
  <2>1. \A k : k \in Usable(q, I) /\ k < i <=> k \in Usable(q, H) /\ k < i
    BY <1>1 DEF Usable
  <2>2. i \in Usable(q, I) <=> i \in Usable(q, H)
    BY DEF Usable
  <2>. QED  BY <2>1, <2>2 DEF Sets
<1>. QED  BY <1>2 DEF Sent

----------------------------------------------------------------------------
(* The stream *)

(***************************************************************************)
(* The inductive invariant.  The bar is the key of the pick so far; a live   *)
(* stream has forwarded exactly what Sent says of the answers that arrived;  *)
(* an order carries what was last sent before its commit; the take is what   *)
(* Link makes of the final rows, and the diff what diff_quote makes of it.   *)
(***************************************************************************)
Increasing(s) == \A i, k \in DOMAIN s : i < k => s[i] < s[k]
Positions(s) == {s[i] : i \in DOMAIN s}

BarInv ==
  /\ request \in Requests /\ arrived \in 0..Len(request.ladder)
  /\ best = IF Usable(request, 1..arrived) = {} THEN <<>>
            ELSE KeyOf(Pick(request, 1..arrived))

StreamInv ==
  /\ stream \in {"open", "finished", "dropped"}
  /\ winner = IF stream = "finished" THEN Pick(request, 1..arrived) ELSE 0
  /\ stream = "finished" => arrived = Len(request.ladder)
  /\ forwarded \in Seq(1..arrived)
  /\ Increasing(forwarded)
  /\ request.live => Forwarded = Sent(request, 1..arrived)
  /\ ~request.live =>
       /\ stream # "dropped"
       /\ forwarded = IF winner # 0 /\ Sendable(request, winner) THEN <<winner>> ELSE <<>>

OrderInv ==
  /\ taken = 0 => commit = 0 /\ created = 0
  /\ taken # 0 => /\ taken \in Forwarded /\ commit \in taken..arrived
                  /\ \A i \in Forwarded : i <= commit => i <= taken
  /\ created # 0 => taken # 0 /\ created \in commit..arrived

TakeInv ==
  /\ take # <<>> =>
       /\ created # 0 /\ stream # "open"
       /\ take = IF Streamed
                 THEN [streamed |-> TRUE, taken |-> taken, horizon |-> Horizon,
                       complete |-> winner # 0]
                 ELSE [streamed |-> FALSE, taken |-> taken, horizon |-> arrived,
                       complete |-> TRUE]
  /\ removed \subseteq Estimator /\ known \in Nat
  /\ diff # <<>> =>
       /\ take # <<>>
       /\ known \in IF request.ranking = "autopilot" THEN {request.buyPrice, 0} ELSE {0}
       /\ \E suspect \in BOOLEAN :
            diff = DiffQuote(Recorded(known), take, Quote, suspect, removed)

IInv == BarInv /\ StreamInv /\ OrderInv /\ TakeInv

----------------------------------------------------------------------------
(* The competition *)

\* A request is one, and what has arrived are positions of its ladder.
LEMMA RequestIs ==
  ASSUME BarInv
  PROVE  /\ IsRequest(request) /\ ~Unpriced(request) /\ request.live \in BOOLEAN
         /\ arrived \in Nat /\ Len(request.ladder) \in Nat
         /\ DOMAIN request.ladder = 1..Len(request.ladder)
         /\ 1..arrived \subseteq DOMAIN request.ladder
BY QuoteStreamAssumption, Keys DEF BarInv

\* A set bar is not the empty one.
LEMMA PairIsNotEmpty ==
  ASSUME NEW x, NEW y
  PROVE  <<x, y>> # <<>>
OBVIOUS

LEMMA InitInv == Init => IInv
<1>. SUFFICES ASSUME Init PROVE IInv
  OBVIOUS
<1>1. IsRequest(request) /\ Len(request.ladder) \in Nat
  BY QuoteStreamAssumption, Keys DEF Init
<1>2. 1..arrived = {} /\ Usable(request, 1..arrived) = {} /\ Sent(request, 1..arrived) = {}
  BY PreferredIs DEF Init, Sent, Usable
<1>3. BarInv
  BY <1>1, <1>2 DEF Init, BarInv
<1>4. StreamInv
  BY <1>2 DEF Init, StreamInv, Forwarded, Increasing
<1>5. OrderInv /\ TakeInv
  BY DEF Init, OrderInv, TakeInv
<1>. QED  BY <1>3, <1>4, <1>5 DEF IInv

\* The bar, which is all the loop remembers, decides as the whole ladder would.
LEMMA BarDecides ==
  ASSUME BarInv, arrived < Len(request.ladder)
  PROVE  ClearsBar(arrived + 1) <=> Sets(request, 1..(arrived + 1), arrived + 1)
<1>. DEFINE p == Pick(request, 1..arrived)
<1>1. /\ IsRequest(request) /\ arrived \in Nat /\ arrived + 1 <= Len(request.ladder)
      /\ 1..arrived \subseteq DOMAIN request.ladder
      /\ arrived + 1 \in DOMAIN request.ladder
  BY RequestIs
<1>2. Sets(request, 1..(arrived + 1), arrived + 1) <=>
        /\ Reasonable(request, arrived + 1)
        /\ Usable(request, 1..arrived) = {} \/ Beats(request, arrived + 1, p)
  BY <1>1, NextPick
<1>3. CASE Usable(request, 1..arrived) = {}
  BY <1>2, <1>3 DEF ClearsBar, BarInv
<1>4. CASE Usable(request, 1..arrived) # {}
  <2>1. best = KeyOf(p) /\ best # <<>>
    BY <1>4, PairIsNotEmpty DEF BarInv, KeyOf
  <2>2. Exceeds(KeyOf(arrived + 1), KeyOf(p)) <=> Beats(request, arrived + 1, p)
    BY <1>1, Keys, PickLeads, <1>4, PreferredIs DEF Exceeds, KeyOf, Beats, Leads
  <2>. QED  BY <1>2, <1>4, <2>1, <2>2 DEF ClearsBar
<1>. QED  BY <1>3, <1>4

\* Sequences of positions, and what appending the next position does.
LEMMA PositionSeq ==
  ASSUME NEW n \in Nat, NEW s \in Seq(1..n)
  PROVE  /\ Len(s) \in Nat /\ DOMAIN s = 1..Len(s) /\ (s = <<>> <=> Len(s) = 0)
         /\ \A i \in DOMAIN s : s[i] \in 1..n
         /\ \A m \in Nat : n <= m => s \in Seq(1..m)
<1>1. Len(s) \in Nat /\ DOMAIN s = 1..Len(s) /\ (s = <<>> <=> Len(s) = 0)
  OBVIOUS
<1>2. ASSUME NEW i \in DOMAIN s
      PROVE  s[i] \in 1..n
  <2>. QED  OBVIOUS
<1>3. ASSUME NEW m \in Nat, n <= m
      PROVE  s \in Seq(1..m)
  <2>1. 1..n \subseteq 1..m
    BY <1>3
  <2>2. \A i \in DOMAIN s : s[i] \in 1..m
    BY <1>2, <2>1
  <2>. QED  BY <1>1, <2>2
<1>. QED  BY <1>1, <1>2, <1>3

LEMMA AppendPosition ==
  ASSUME NEW n \in Nat, NEW s \in Seq(1..n), Increasing(s)
  PROVE  /\ Append(s, n + 1) \in Seq(1..(n + 1)) /\ Append(s, n + 1) # <<>>
         /\ Increasing(Append(s, n + 1))
         /\ Positions(Append(s, n + 1)) = Positions(s) \cup {n + 1}
<1>. DEFINE t == Append(s, n + 1)
<1>1. s \in Seq(1..(n + 1)) /\ n + 1 \in 1..(n + 1)
  BY PositionSeq
<1>2. /\ Len(s) \in Nat /\ DOMAIN s = 1..Len(s)
      /\ \A i \in DOMAIN s : s[i] \in 1..n
  BY PositionSeq
<1>3. t \in Seq(1..(n + 1)) /\ t # <<>>
  <2>1. t \in Seq(1..(n + 1)) /\ Len(t) = Len(s) + 1
    BY <1>1
  <2>. HIDE DEF t
  <2>. QED  BY <1>2, <2>1, PositionSeq
<1>4. /\ DOMAIN t = 1..(Len(s) + 1)
      /\ \A i \in 1..Len(s) : t[i] = s[i]
      /\ t[Len(s) + 1] = n + 1
  BY <1>1
<1>. HIDE DEF t
<1>5. Increasing(t)
  <2>. SUFFICES ASSUME NEW i \in DOMAIN t, NEW k \in DOMAIN t, i < k PROVE t[i] < t[k]
    BY DEF Increasing
  <2>1. i \in DOMAIN s /\ t[i] = s[i] /\ s[i] \in 1..n
    BY <1>2, <1>4
  <2>2. (k \in DOMAIN s /\ t[k] = s[k]) \/ t[k] = n + 1
    BY <1>2, <1>4
  <2>. QED  BY <2>1, <2>2 DEF Increasing
<1>6. Positions(t) = Positions(s) \cup {n + 1}
  BY <1>2, <1>4 DEF Positions
<1>. QED  BY <1>3, <1>5, <1>6 DEF t

\* One more answer.
LEMMA AnswerStep ==
  ASSUME IInv, Answer
  PROVE  IInv'
<1>. DEFINE n == arrived + 1
            sets == Sets(request, 1..n, n)
<1>1. /\ BarInv /\ IsRequest(request) /\ arrived \in Nat /\ n <= Len(request.ladder)
      /\ 1..arrived \subseteq DOMAIN request.ladder /\ 1..n \subseteq DOMAIN request.ladder
      /\ n \in DOMAIN request.ladder /\ arrived' = n /\ request' = request
      /\ stream = "open" /\ stream' = "open" /\ UNCHANGED <<winner, ordered, analysed>>
  BY RequestIs DEF IInv, Answer
<1>2. ClearsBar(n) <=> sets
  BY <1>1, BarDecides DEF Answer
<1>3. BarInv'
  <2>1. Pick(request, 1..n) = IF sets THEN n ELSE Pick(request, 1..arrived)
    BY <1>1, NextPick
  <2>2. CASE sets
    <3>1. Usable(request, 1..n) # {}
      BY <2>2 DEF Sets
    <3>2. best' = KeyOf(n)
      BY <1>1, <1>2, <2>2 DEF Answer
    <3>. QED  BY <1>1, <2>1, <2>2, <3>1, <3>2 DEF BarInv, KeyOf
  <2>3. CASE ~sets
    <3>1. Usable(request, 1..n) = {} <=> Usable(request, 1..arrived) = {}
      <4>1. Usable(request, 1..arrived) \subseteq Usable(request, 1..n)
        BY <1>1 DEF Usable
      <4>2. Usable(request, 1..arrived) = {} => ~Reasonable(request, n)
        BY <1>1, <2>3, NextPick
      <4>. QED  BY <1>1, <4>1, <4>2 DEF Usable
    <3>2. best' = best
      BY <1>1, <1>2, <2>3 DEF Answer
    <3>. QED  BY <1>1, <2>1, <2>3, <3>1, <3>2 DEF BarInv, KeyOf
  <2>. QED  BY <2>2, <2>3
<1>4. /\ forwarded \in Seq(1..arrived) /\ forwarded \in Seq(1..n)
      /\ \A i \in DOMAIN forwarded : forwarded[i] \in 1..arrived
      /\ \A i \in Forwarded : i \in 1..arrived
  <2>1. forwarded \in Seq(1..arrived)
    BY DEF IInv, StreamInv
  <2>. QED  BY <1>1, <2>1, PositionSeq DEF Forwarded
<1>5. /\ forwarded' \in Seq(1..n)
      /\ Increasing(forwarded')
      /\ Forwarded' = Forwarded \cup (IF request.live /\ sets /\ Sendable(request, n) THEN {n} ELSE {})
  <2>1. Increasing(forwarded)
    BY DEF IInv, StreamInv
  <2>2. CASE request.live /\ sets /\ Sendable(request, n)
    <3>1. forwarded' = Append(forwarded, n)
      BY <1>1, <1>2, <2>2 DEF Answer
    <3>2. /\ forwarded' \in Seq(1..n) /\ Increasing(forwarded')
          /\ Positions(forwarded') = Positions(forwarded) \cup {n}
      BY <1>1, <1>4, <2>1, <3>1, AppendPosition
    <3>. QED  BY <2>2, <3>2 DEF Forwarded, Positions
  <2>3. CASE ~(request.live /\ sets /\ Sendable(request, n))
    <3>1. forwarded' = forwarded
      BY <1>1, <1>2, <2>3 DEF Answer
    <3>. QED  BY <1>4, <2>1, <2>3, <3>1 DEF Forwarded
  <2>. QED  BY <2>2, <2>3
<1>6. request.live => Forwarded' = Sent(request, 1..n)
  <2>1. 1..arrived = {i \in 1..n : i <= arrived}
    BY <1>1
  <2>2. Sent(request, 1..arrived) = {i \in Sent(request, 1..n) : i <= arrived}
    <3>1. n \in Nat /\ 1..n \subseteq DOMAIN request.ladder /\ arrived \in 0..n
      BY <1>1
    <3>. HIDE DEF n, sets
    <3>. QED  BY <1>1, <2>1, <3>1, SentUpTo
  <2>3. \A i \in Sent(request, 1..n) : i <= arrived \/ i = n
    BY <1>1 DEF Sent
  <2>4. n \in Sent(request, 1..n) <=> sets /\ Sendable(request, n)
    BY <1>1 DEF Sent
  <2>5. Sent(request, 1..n) =
          Sent(request, 1..arrived) \cup (IF sets /\ Sendable(request, n) THEN {n} ELSE {})
    <3>. HIDE DEF sets, n
    <3>. QED  BY <2>2, <2>3, <2>4
  <2>. QED  BY <1>5, <2>5 DEF IInv, StreamInv
<1>7. StreamInv'
  <2>1. ~request.live => forwarded' = forwarded /\ winner = 0 /\ forwarded = <<>>
    BY <1>1 DEF IInv, StreamInv, Answer
  <2>2. winner = 0
    BY <1>1 DEF IInv, StreamInv
  <2>3. (request.live => Forwarded = Sent(request, 1..arrived))'
    BY <1>1, <1>6
  <2>. QED  BY <1>1, <1>5, <2>1, <2>2, <2>3 DEF StreamInv
<1>8. OrderInv'
  <2>. HIDE DEF n
  <2>1. \A i \in Forwarded' : i \in Forwarded \/ i = n
    BY <1>5
  <2>2. Forwarded \subseteq Forwarded' /\ n = arrived + 1
    BY <1>5 DEF n
  <2>3. UNCHANGED <<taken, commit, created>>
    BY <1>1 DEF ordered
  <2>. QED  BY <1>1, <1>4, <2>1, <2>2, <2>3 DEF IInv, OrderInv
<1>9. TakeInv'
  BY <1>1 DEF IInv, TakeInv, analysed
<1>. QED  BY <1>3, <1>7, <1>8, <1>9 DEF IInv

\* The stream ends, or a one-shot request returns.
LEMMA FinishStep ==
  ASSUME IInv, Finish
  PROVE  IInv'
<1>1. /\ BarInv /\ IsRequest(request) /\ arrived \in Nat
      /\ 1..arrived \subseteq DOMAIN request.ladder
      /\ arrived = Len(request.ladder) /\ stream = "open" /\ stream' = "finished"
      /\ winner' = Pick(request, 1..arrived)
      /\ UNCHANGED <<request, arrived, best, ordered, analysed>>
  BY RequestIs DEF IInv, Finish
<1>2. BarInv'
  BY <1>1 DEF BarInv, KeyOf
<1>3. winner' \in 0..arrived
  <2>1. winner' = 0 \/ winner' \in 1..arrived
    BY <1>1, PickLeads, PreferredIs DEF Leads
  <2>. QED  BY <1>1, <2>1
<1>4. StreamInv'
  <2>1. CASE request.live
    <3>1. forwarded' = forwarded
      BY <2>1 DEF Finish
    <3>. QED  BY <1>1, <2>1, <3>1 DEF IInv, StreamInv, Forwarded
  <2>2. CASE ~request.live
    <3>1. CASE winner' # 0 /\ Sendable(request, winner')
      <4>1. forwarded' = <<winner'>>
        BY <2>2, <3>1 DEF Finish
      <4>2. winner' \in 1..arrived
        BY <1>1, <1>3, <3>1
      <4>3. <<winner'>> \in Seq(1..arrived) /\ Increasing(<<winner'>>)
        BY <4>2 DEF Increasing
      <4>. QED  BY <1>1, <2>2, <3>1, <4>1, <4>3 DEF StreamInv
    <3>2. CASE ~(winner' # 0 /\ Sendable(request, winner'))
      <4>1. forwarded' = forwarded /\ forwarded = <<>>
        BY <1>1, <2>2, <3>2 DEF IInv, StreamInv, Finish
      <4>. QED  BY <1>1, <2>2, <3>2, <4>1 DEF IInv, StreamInv, Increasing
    <3>. QED  BY <3>1, <3>2
  <2>. QED  BY <2>1, <2>2
<1>5. OrderInv'
  <2>1. CASE request.live
    <3>1. forwarded' = forwarded
      BY <2>1 DEF Finish
    <3>. QED  BY <1>1, <3>1 DEF IInv, OrderInv, Forwarded, ordered
  <2>2. CASE ~request.live
    <3>1. Forwarded = {}
      BY <1>1, <2>2 DEF IInv, StreamInv, Forwarded
    <3>. QED  BY <1>1, <3>1 DEF IInv, OrderInv, ordered
  <2>. QED  BY <2>1, <2>2
<1>6. TakeInv'
  BY <1>1 DEF IInv, TakeInv, analysed
<1>. QED  BY <1>2, <1>4, <1>5, <1>6 DEF IInv

\* The user goes away, signs, and the order is placed.
LEMMA UserStep ==
  ASSUME IInv, Drop \/ Commit \/ Create
  PROVE  IInv'
<1>0. BarInv /\ arrived \in Nat /\ UNCHANGED <<request, arrived, best, forwarded, winner, analysed>>
  BY RequestIs DEF IInv, Drop, Commit, Create, served
<1>1. BarInv'
  BY <1>0 DEF BarInv, KeyOf
<1>2. CASE Drop
  <2>1. request.live
    BY <1>2 DEF IInv, StreamInv, Drop
  <2>2. StreamInv'
    BY <1>0, <1>2, <2>1 DEF IInv, StreamInv, Drop, Forwarded
  <2>3. OrderInv' /\ TakeInv'
    BY <1>0, <1>2 DEF IInv, OrderInv, TakeInv, Drop, Forwarded, ordered, analysed
  <2>. QED  BY <1>1, <2>2, <2>3 DEF IInv
<1>3. CASE Commit
  <2>1. forwarded \in Seq(1..arrived) /\ forwarded # <<>> /\ Increasing(forwarded)
    BY <1>3 DEF IInv, StreamInv, Commit
  <2>2. /\ Len(forwarded) \in Nat /\ DOMAIN forwarded = 1..Len(forwarded) /\ Len(forwarded) # 0
        /\ \A i \in DOMAIN forwarded : forwarded[i] \in 1..arrived
    BY <1>0, <2>1, PositionSeq
  <2>3. Len(forwarded) \in DOMAIN forwarded /\ taken' \in Forwarded /\ taken' \in 1..arrived
    BY <1>3, <2>2 DEF Commit, Forwarded
  <2>4. \A i \in Forwarded : i <= taken'
    <3>1. \A k \in DOMAIN forwarded : k = Len(forwarded) \/ k < Len(forwarded)
      BY <2>2
    <3>. QED  BY <1>3, <2>1, <2>2, <2>3, <3>1 DEF Commit, Forwarded, Increasing
  <2>5. StreamInv'
    BY <1>0, <1>3 DEF IInv, StreamInv, Commit, Forwarded, served
  <2>6. OrderInv'
    BY <1>0, <1>3, <2>3, <2>4 DEF IInv, OrderInv, Commit, Forwarded
  <2>7. TakeInv'
    BY <1>0, <1>3 DEF IInv, OrderInv, TakeInv, Commit, analysed
  <2>. QED  BY <1>1, <2>5, <2>6, <2>7 DEF IInv
<1>4. CASE Create
  <2>1. StreamInv'
    BY <1>0, <1>4 DEF IInv, StreamInv, Create, Forwarded, served
  <2>2. OrderInv'
    <3>1. taken # 0 /\ commit \in taken..arrived /\ taken \in Nat
      <4>1. taken # 0 /\ taken \in Forwarded /\ commit \in taken..arrived
        BY <1>4 DEF IInv, OrderInv, Create
      <4>2. taken \in 1..arrived
        BY <1>0, <4>1, PositionSeq DEF IInv, StreamInv, Forwarded
      <4>. QED  BY <1>0, <4>1, <4>2
    <3>. QED  BY <1>0, <1>4, <3>1 DEF IInv, OrderInv, Create, Forwarded
  <2>3. TakeInv'
    BY <1>0, <1>4 DEF IInv, TakeInv, Create, analysed
  <2>. QED  BY <1>1, <2>1, <2>2, <2>3 DEF IInv
<1>. QED  BY <1>2, <1>3, <1>4

\* The analysis reads what the competition and the order have left.
LEMMA AnalysisStep ==
  ASSUME IInv, Link \/ Diff
  PROVE  IInv'
<1>1. UNCHANGED <<request, arrived, best, forwarded, stream, winner, taken, commit, created>>
  BY DEF Link, Diff, served, ordered
<1>2. BarInv' /\ StreamInv' /\ OrderInv'
  BY <1>1 DEF IInv, BarInv, StreamInv, OrderInv, KeyOf, Forwarded
<1>3. CASE Link
  <2>1. diff = <<>> /\ diff' = diff /\ UNCHANGED <<removed, known>>
    BY <1>3 DEF IInv, TakeInv, Link
  <2>2. TakeInv'
    BY <1>1, <1>3, <2>1 DEF IInv, TakeInv, Link, Streamed, Horizon, Forwarded
  <2>. QED  BY <1>2, <2>2 DEF IInv
<1>4. CASE Diff
  <2>1. take # <<>> /\ take' = take
    BY <1>4 DEF Diff
  <2>2. removed' \subseteq Estimator
    BY <1>4, QuoteStreamAssumption DEF Diff
  <2>3. /\ known' \in IF request.ranking = "autopilot" THEN {request.buyPrice, 0} ELSE {0}
        /\ known' \in Nat
    BY <1>4, RequestIs DEF IInv, Diff, IsRequest
  <2>4. \E suspect \in BOOLEAN :
          diff' = DiffQuote(Recorded(known'), take, Quote, suspect, removed')
    BY <1>4 DEF Diff
  <2>5. (\E suspect \in BOOLEAN :
          diff = DiffQuote(Recorded(known), take, Quote, suspect, removed))'
    BY <1>1, <2>1, <2>4 DEF Recorded, Quote
  <2>6. TakeInv'
    BY <1>1, <2>1, <2>2, <2>3, <2>5 DEF IInv, TakeInv, Streamed, Horizon, Forwarded
  <2>. QED  BY <1>2, <2>6 DEF IInv
<1>. QED  BY <1>3, <1>4

\* A step that changes nothing.
LEMMA StutterStep ==
  ASSUME IInv, UNCHANGED vars
  PROVE  IInv'
BY DEF IInv, vars, BarInv, StreamInv, OrderInv, TakeInv, KeyOf, Forwarded, Streamed, Horizon,
       Recorded, Quote

\* What has been sent, reconstructed and compared, whatever comes in and whenever the
\* user signs: the invariant all the results below rest on.
THEOREM Inductive == Spec => []IInv
<1>1. IInv /\ [Next]_vars => IInv'
  <2>. SUFFICES ASSUME IInv, [Next]_vars PROVE IInv'
    OBVIOUS
  <2>1. CASE Answer
    BY <2>1, AnswerStep
  <2>2. CASE Finish
    BY <2>2, FinishStep
  <2>3. CASE Drop \/ Commit \/ Create
    BY <2>3, UserStep
  <2>4. CASE Link \/ Diff
    BY <2>4, AnalysisStep
  <2>5. CASE Rest \/ UNCHANGED vars
    BY <2>5, StutterStep DEF Rest
  <2>. QED  BY <2>1, <2>2, <2>3, <2>4, <2>5 DEF Next
<1>. QED  BY InitInv, <1>1, PTL DEF Spec

----------------------------------------------------------------------------
(* The refinement *)

\* The abstract competition ranks by the definitions of this one.
LEMMA SameKey ==
  ASSUME NEW q, NEW i
  PROVE  /\ Competition!Key(q, i) = Key(q, i)
         /\ Competition!Sendable(q, i) <=> Sendable(q, i)
         /\ Competition!Reasonable(q, i) <=> Reasonable(q, i)
<1>1. Competition!GasWei(q, i) = GasWei(q, i) /\ Competition!InWei(q) = InWei(q)
  BY DEF Competition!GasWei, GasWei, Competition!InWei, InWei
<1>2. /\ Competition!EffectiveKey(q, i) = EffectiveKey(q, i)
      /\ Competition!AutopilotKey(q, i) = AutopilotKey(q, i)
  BY <1>1 DEF Competition!EffectiveKey, EffectiveKey, Competition!AutopilotKey, AutopilotKey
<1>. QED  BY <1>1, <1>2 DEF Competition!Key, Key, Competition!Sendable, Sendable,
                        Competition!Reasonable, Reasonable

LEMMA SamePick ==
  ASSUME NEW q, NEW I
  PROVE  Competition!Pick(q, I) = Pick(q, I)
<1>1. Competition!Usable(q, I) = Usable(q, I)
  BY SameKey DEF Competition!Usable, Usable
<1>2. Competition!Preferred(q, I) = Preferred(q, I)
  BY <1>1 DEF Competition!Preferred, Preferred
<1>3. ASSUME NEW P, NEW i
      PROVE  Competition!IsFirstBest(q, P, i) <=> IsFirstBest(q, P, i)
  BY SameKey DEF Competition!IsFirstBest, IsFirstBest
<1>. DEFINE P == Preferred(q, I)
<1>5. Competition!Pick(q, I) =
        IF P = {} THEN 0 ELSE CHOOSE i \in P : Competition!IsFirstBest(q, P, i)
  BY <1>2 DEF Competition!Pick
<1>6. Pick(q, I) = IF P = {} THEN 0 ELSE CHOOSE i \in P : IsFirstBest(q, P, i)
  BY DEF Pick
<1>. HIDE DEF P
<1>7. (CHOOSE i \in P : Competition!IsFirstBest(q, P, i)) = CHOOSE i \in P : IsFirstBest(q, P, i)
  BY <1>3
<1>8. CASE P = {}
  BY <1>5, <1>6, <1>8
<1>9. CASE P # {}
  <2>1. Competition!Pick(q, I) = CHOOSE i \in P : Competition!IsFirstBest(q, P, i)
    BY <1>5, <1>9, Zenon
  <2>2. Pick(q, I) = CHOOSE i \in P : IsFirstBest(q, P, i)
    BY <1>6, <1>9, Zenon
  <2>. QED  BY <1>7, <2>1, <2>2, Zenon
<1>. QED  BY <1>8, <1>9

\* A step of the loop is a step of the abstract competition, or none.
LEMMA StepImplements ==
  ASSUME IInv, [Next]_vars
  PROVE  [Competition!Next]_(Competition!vars)
<1>. DEFINE screen == IF forwarded = <<>> THEN 0 ELSE forwarded[Len(forwarded)]
            over == stream # "open"
<1>0. BarInv /\ IsRequest(request) /\ arrived \in Nat /\ 1..arrived \subseteq DOMAIN request.ladder
  BY RequestIs DEF IInv
<1>1. CASE Answer
  <2>. DEFINE n == arrived + 1
              sets == Sets(request, 1..n, n)
  <2>1. /\ arrived' = n /\ arrived < Len(request.ladder) /\ request' = request
        /\ stream = "open" /\ stream' = "open" /\ Len(request.ladder) \in Nat
    BY <1>1, RequestIs DEF Answer, IInv
  <2>2. ClearsBar(n) <=> sets
    BY <1>0, <2>1, BarDecides
  <2>3. Pick(request, 1..n) = n <=> sets
    <3>1. Pick(request, 1..n) = IF sets THEN n ELSE Pick(request, 1..arrived)
      BY <1>0, <2>1, NextPick
    <3>2. Pick(request, 1..arrived) = 0 \/ Pick(request, 1..arrived) \in 1..arrived
      BY <1>0, PickLeads, PreferredIs DEF Leads
    <3>. QED  BY <1>0, <3>1, <3>2
  <2>4. Competition!Wins(n, n) <=> sets /\ Sendable(request, n)
    BY <1>0, <2>3, SamePick, SameKey DEF Competition!Wins
  <2>5. screen' = IF request.live /\ Competition!Wins(n, n) THEN n ELSE screen
    <3>1. CASE request.live /\ sets /\ Sendable(request, n)
      <4>1. forwarded' = Append(forwarded, n)
        BY <1>1, <2>1, <2>2, <3>1 DEF Answer
      <4>2. forwarded \in Seq(1..arrived) /\ Increasing(forwarded)
        BY DEF IInv, StreamInv
      <4>3. forwarded' # <<>>
        BY <1>0, <4>1, <4>2, AppendPosition
      <4>4. forwarded'[Len(forwarded')] = n
        BY <4>1, <4>2
      <4>. QED  BY <2>4, <3>1, <4>3, <4>4
    <3>2. CASE ~(request.live /\ sets /\ Sendable(request, n))
      BY <1>1, <2>1, <2>2, <2>4, <3>2 DEF Answer
    <3>. QED  BY <3>1, <3>2
  <2>. QED  BY <2>1, <2>5 DEF Competition!Next, Competition!Answer
<1>2. CASE Finish
  <2>1. /\ UNCHANGED <<request, arrived>> /\ arrived = Len(request.ladder)
        /\ stream = "open" /\ stream' # "open" /\ winner' = Pick(request, 1..arrived)
    BY <1>2 DEF Finish
  <2>2. CASE request.live
    BY <1>2, <2>1, <2>2 DEF Finish, Competition!Next, Competition!Finish
  <2>3. CASE ~request.live
    <3>1. forwarded = <<>>
      BY <2>1, <2>3 DEF IInv, StreamInv
    <3>2. forwarded' = IF winner' # 0 /\ Sendable(request, winner') THEN <<winner'>> ELSE <<>>
      BY <1>2, <2>3, <3>1 DEF Finish
    <3>3. screen' = IF winner' # 0 /\ Sendable(request, winner') THEN winner' ELSE 0
      <4>1. Len(<<winner'>>) = 1 /\ <<winner'>>[1] = winner' /\ <<winner'>> # <<>>
        OBVIOUS
      <4>. QED  BY <3>2, <4>1
    <3>4. winner' = 0 \/ winner' \in 1..arrived
      BY <1>0, <2>1, PickLeads, PreferredIs DEF Leads
    <3>5. \E i \in 0..arrived :
            /\ screen' = i
            /\ i # 0 => Competition!Wins(i, arrived)
            /\ i = 0 => ~ \E k \in 1..arrived : Competition!Wins(k, arrived)
      <4>1. screen' \in 0..arrived
        BY <1>0, <3>3, <3>4
      <4>. QED  BY <2>1, <3>3, <4>1, SamePick, SameKey DEF Competition!Wins
    <3>. QED  BY <2>1, <2>3, <3>5 DEF Competition!Next, Competition!Finish
  <2>. QED  BY <2>2, <2>3
<1>3. CASE Drop
  <2>1. /\ stream = "open" /\ stream' # "open" /\ forwarded # <<>>
        /\ UNCHANGED <<request, arrived, forwarded>>
    BY <1>3 DEF Drop
  <2>2. request.live
    BY <2>1 DEF IInv, StreamInv
  <2>3. screen \in 1..arrived
    BY <1>0, <2>1, PositionSeq DEF IInv, StreamInv
  <2>. QED  BY <1>0, <2>1, <2>2, <2>3 DEF Competition!Next, Competition!Leave
<1>4. CASE Commit \/ Create \/ Link \/ Diff \/ Rest \/ UNCHANGED vars
  <2>1. UNCHANGED <<request, arrived, forwarded, stream>>
    BY <1>4 DEF Commit, Create, Link, Diff, Rest, vars, served
  <2>. QED  BY <2>1 DEF Competition!vars
<1>. QED  BY <1>1, <1>2, <1>3, <1>4 DEF Next

\* What a stream forwards is what would win if the competition ended there, and it goes
\* through the answers once: the safety part of StreamsTheStanding (replay_stream, pick).
THEOREM Implements == Spec => Competition!Safe
<1>1. Init => Competition!Init
  BY DEF Init, Competition!Init
<1>. QED  BY <1>1, StepImplements, Inductive, PTL DEF Spec, Competition!Safe

----------------------------------------------------------------------------
(* What the link reconstructs *)

\* What a take says of the competition and the order it stands for.
LEMMA TakeFacts ==
  ASSUME IInv, take # <<>>
  PROVE  /\ taken \in 1..arrived /\ commit \in taken..arrived /\ created \in commit..arrived
         /\ take.taken = taken /\ take.streamed \in BOOLEAN /\ take.complete \in BOOLEAN
         /\ take.complete => arrived = Len(request.ladder)
         /\ take.streamed =>
              /\ request.live /\ take.horizon \in commit..arrived
              /\ taken \in Forwarded /\ \A i \in Forwarded : i <= take.horizon => i <= taken
         /\ ~take.streamed =>
              /\ arrived = Len(request.ladder) /\ taken = Pick(request, 1..arrived)
              /\ take.horizon = arrived
<1>1. BarInv /\ IsRequest(request) /\ arrived \in Nat
  BY RequestIs DEF IInv
<1>2. /\ created # 0 /\ stream # "open"
      /\ take = IF Streamed
                THEN [streamed |-> TRUE, taken |-> taken, horizon |-> Horizon,
                      complete |-> winner # 0]
                ELSE [streamed |-> FALSE, taken |-> taken, horizon |-> arrived,
                      complete |-> TRUE]
  BY DEF IInv, TakeInv
<1>3. /\ taken # 0 /\ taken \in Forwarded /\ commit \in taken..arrived
      /\ created \in commit..arrived /\ \A i \in Forwarded : i <= commit => i <= taken
  BY <1>2 DEF IInv, OrderInv
<1>4. Forwarded \subseteq 1..arrived
  BY <1>1, PositionSeq DEF IInv, StreamInv, Forwarded
<1>5. taken \in Nat /\ commit \in Nat /\ created \in Nat
  BY <1>1, <1>3, <1>4
<1>6. winner # 0 => arrived = Len(request.ladder) /\ winner = Pick(request, 1..arrived)
  BY DEF IInv, StreamInv
<1>7. CASE Streamed
  <2>1. take.streamed = TRUE /\ take.taken = taken /\ take.horizon = Horizon
        /\ take.complete = (winner # 0)
    BY <1>2, <1>7
  <2>2. request.live
    <3>1. CASE ~request.live
      <4>1. forwarded = <<winner>>
        BY <1>3, <3>1 DEF IInv, StreamInv, Forwarded
      <4>2. Len(<<winner>>) = 1 /\ DOMAIN <<winner>> = {1} /\ <<winner>>[1] = winner
        OBVIOUS
      <4>3. taken = winner /\ Len(forwarded) = 1
        BY <1>3, <4>1, <4>2 DEF Forwarded
      <4>. QED  BY <1>7, <4>3 DEF Streamed
    <3>. QED  BY <3>1, <1>1, RequestIs
  <2>. DEFINE after == {i \in Forwarded : i > taken}
  <2>3. after \subseteq DOMAIN request.ladder /\ after \subseteq 1..arrived
    BY <1>1, <1>4, RequestIs
  <2>4. Horizon \in commit..arrived /\ \A i \in Forwarded : i <= Horizon => i <= taken
    <3>1. CASE after = {}
      <4>1. Horizon = created
        BY <3>1 DEF Horizon
      <4>. QED  BY <1>1, <1>3, <1>4, <1>5, <3>1, <4>1
    <3>2. CASE after # {}
      <4>. DEFINE e == Earliest(after)
      <4>1. Horizon = e - 1
        BY <3>2 DEF Horizon
      <4>2. e \in after /\ \A k \in after : e <= k
        <5>. HIDE DEF after
        <5>. QED  BY <1>1, <2>3, <3>2, EarliestIs
      <4>. HIDE DEF e
      <4>3. e \in 1..arrived /\ e > commit
        BY <1>3, <1>4, <1>5, <4>2
      <4>4. \A i \in Forwarded : i <= e - 1 => i <= taken
        BY <1>4, <1>5, <4>2, <4>3
      <4>. QED  BY <1>1, <1>5, <4>1, <4>3, <4>4
    <3>. QED  BY <3>1, <3>2
  <2>. QED  BY <1>3, <1>4, <1>6, <2>1, <2>2, <2>4
<1>8. CASE ~Streamed
  <2>1. take.streamed = FALSE /\ take.taken = taken /\ take.horizon = arrived
        /\ take.complete = TRUE
    BY <1>2, <1>8
  <2>2. winner = taken
    BY <1>8 DEF Streamed
  <2>. QED  BY <1>3, <1>4, <1>6, <2>1, <2>2
<1>. QED  BY <1>7, <1>8

\* The user of a stream saw the answer taken from the commit to the horizon.
LEMMA TakenWasShown ==
  ASSUME IInv, take # <<>>, take.streamed, NEW h \in taken..take.horizon
  PROVE  /\ Shown(request, DOMAIN request.ladder, h) = taken
         /\ taken \in Sent(request, DOMAIN request.ladder)
         /\ \A i \in Sent(request, DOMAIN request.ladder) : i <= h => i <= taken
<1>. DEFINE D == DOMAIN request.ladder
            seen == {i \in Sent(request, D) : i <= h}
<1>1. /\ IsRequest(request) /\ arrived \in Nat /\ 1..arrived = {i \in D : i <= arrived}
      /\ D = 1..Len(request.ladder) /\ Len(request.ladder) \in Nat
      /\ arrived <= Len(request.ladder)
  BY RequestIs DEF IInv, BarInv
<1>2. Sent(request, 1..arrived) = {i \in Sent(request, D) : i <= arrived}
  BY <1>1, SentUpTo
<1>3. /\ request.live /\ taken \in 1..arrived /\ take.horizon \in taken..arrived
      /\ taken \in Forwarded /\ \A i \in Forwarded : i <= take.horizon => i <= taken
  BY TakeFacts, <1>1
<1>4. Forwarded = {i \in Sent(request, D) : i <= arrived}
  BY <1>2, <1>3 DEF IInv, StreamInv
<1>5. h \in Nat /\ taken <= h /\ h <= take.horizon /\ take.horizon <= arrived
  BY <1>1, <1>3
<1>6. Sent(request, D) \subseteq D
  BY DEF Sent
<1>7. taken \in seen /\ \A i \in seen : i <= taken
  <2>1. \A i \in seen : i \in Nat /\ i <= take.horizon /\ i \in Forwarded
    BY <1>1, <1>3, <1>4, <1>5, <1>6
  <2>. QED  BY <1>3, <1>4, <1>5, <2>1
<1>8. Latest(seen) = taken
  <2>1. seen \subseteq D
    BY <1>6
  <2>. HIDE DEF seen
  <2>. QED  BY <1>1, <1>7, <2>1, LatestIs
<1>. QED  BY <1>7, <1>8 DEF Shown

\* The horizon is the latest commit the record allows, and never before the real one.
THEOREM HorizonIsRight == Spec => []HorizonCoversCommit
<1>1. ASSUME IInv PROVE HorizonCoversCommit
  <2>. SUFFICES ASSUME take # <<>>, take.streamed
                PROVE  /\ commit <= take.horizon
                       /\ \A h \in commit..take.horizon :
                            Shown(request, DOMAIN request.ladder, h) = taken
    BY DEF HorizonCoversCommit
  <2>1. /\ arrived \in Nat /\ taken \in 1..arrived /\ commit \in taken..arrived
        /\ take.horizon \in commit..arrived
    BY <1>1, TakeFacts, RequestIs DEF IInv
  <2>2. \A h \in commit..take.horizon : h \in taken..take.horizon
    BY <2>1
  <2>. QED  BY <1>1, <2>1, <2>2, TakenWasShown
<1>. QED  BY <1>1, Inductive, PTL

----------------------------------------------------------------------------
(* What the record says of the request *)

\* The recorded request is the request as far as its answers arrived.
LEMMA RecordedIs ==
  ASSUME BarInv, NEW price \in Nat,
         NEW rq, rq = Recorded(price)
  PROVE  /\ IsRequest(rq) /\ Len(rq.ladder) = arrived /\ DOMAIN rq.ladder = 1..arrived
         /\ rq.sell = request.sell /\ rq.in = request.in /\ rq.gasPrice = request.gasPrice
         /\ rq.sellPrice = request.sellPrice /\ rq.ranking = request.ranking
         /\ rq.buyPrice = price
         /\ \A i \in 1..arrived : rq.ladder[i] = request.ladder[i]
<1>1. /\ IsRequest(request) /\ arrived \in Nat /\ arrived <= Len(request.ladder)
      /\ Len(request.ladder) \in Nat /\ request.ladder \in Seq(Estimate)
  BY RequestIs DEF BarInv, IsRequest
<1>2. {"sell", "in", "gasPrice", "sellPrice", "buyPrice", "ranking", "ladder"} \subseteq DOMAIN request
  BY <1>1 DEF IsRequest
<1>. DEFINE l == SubSeq(request.ladder, 1, arrived)
<1>3. /\ rq.ladder = l /\ rq.buyPrice = price /\ DOMAIN rq = DOMAIN request
      /\ rq.sell = request.sell /\ rq.in = request.in /\ rq.gasPrice = request.gasPrice
      /\ rq.sellPrice = request.sellPrice /\ rq.ranking = request.ranking
  BY <1>2 DEF Recorded
<1>4. /\ l \in Seq(Estimate) /\ Len(l) = arrived /\ DOMAIN l = 1..arrived
      /\ \A i \in 1..arrived : l[i] = request.ladder[i]
  BY <1>1
<1>. HIDE DEF l
<1>5. \A i, k \in 1..arrived : l[i].who = l[k].who => i = k
  <2>1. 1..arrived \subseteq DOMAIN request.ladder
    BY <1>1
  <2>2. \A i, k \in DOMAIN request.ladder :
          request.ladder[i].who = request.ladder[k].who => i = k
    BY <1>1 DEF IsRequest
  <2>. QED  BY <1>4, <2>1, <2>2
<1>6. IsRequest(rq)
  <2>1. /\ rq.sell \in BOOLEAN /\ rq.in \in Nat \ {0} /\ rq.gasPrice \in Nat
        /\ rq.sellPrice \in Nat \ {0} /\ rq.ranking \in {"effective-sell", "autopilot"}
    BY <1>1, <1>3 DEF IsRequest
  <2>. QED  BY <1>2, <1>3, <1>4, <1>5, <2>1 DEF IsRequest
<1>. QED  BY <1>3, <1>4, <1>6

\* It is ranked as the request is, unless the price it needs is missing.
LEMMA RecordedRanks ==
  ASSUME BarInv, NEW price \in Nat,
         price \in IF request.ranking = "autopilot" THEN {request.buyPrice, 0} ELSE {0},
         NEW rq, rq = Recorded(price)
  PROVE  /\ \A i \in 1..arrived : Reasonable(rq, i) <=> Reasonable(request, i)
         /\ \A i \in 1..arrived : Sendable(rq, i) <=> Sendable(request, i)
         /\ \A I \in SUBSET (1..arrived) : Usable(rq, I) = Usable(request, I)
         /\ \A R : Remaining(rq, R) = {i \in Remaining(request, R) : i <= arrived}
         /\ \A I \in SUBSET (1..arrived) :
              ~Unpriced(rq) \/ Usable(request, I) = {} => Pick(rq, I) = Pick(request, I)
<1>1. /\ IsRequest(rq) /\ IsRequest(request) /\ DOMAIN rq.ladder = 1..arrived
      /\ rq.sell = request.sell /\ rq.in = request.in /\ rq.gasPrice = request.gasPrice
      /\ rq.sellPrice = request.sellPrice /\ rq.ranking = request.ranking
      /\ rq.buyPrice = price
      /\ \A i \in 1..arrived : rq.ladder[i] = request.ladder[i]
  BY RecordedIs, RequestIs
<1>2. /\ arrived \in Nat /\ DOMAIN request.ladder = 1..Len(request.ladder)
      /\ arrived <= Len(request.ladder) /\ 1..arrived \subseteq DOMAIN request.ladder
  BY RequestIs DEF BarInv
<1>3. /\ \A i \in 1..arrived : Reasonable(rq, i) <=> Reasonable(request, i)
      /\ \A i \in 1..arrived : GasWei(rq, i) = GasWei(request, i)
      /\ InWei(rq) = InWei(request)
      /\ \A i \in 1..arrived : Sendable(rq, i) <=> Sendable(request, i)
  BY <1>1 DEF Reasonable, GasWei, InWei, Sendable
<1>4. ASSUME NEW I \in SUBSET (1..arrived)
      PROVE  Usable(rq, I) = Usable(request, I)
  <2>1. \A i \in I : i \in 1..arrived
    OBVIOUS
  <2>2. \A i \in I : Reasonable(rq, i) <=> Reasonable(request, i)
    BY <1>3, <2>1, Zenon
  <2>. QED  BY <2>2 DEF Usable
<1>5. ASSUME NEW R
      PROVE  Remaining(rq, R) = {i \in Remaining(request, R) : i <= arrived}
  <2>1. 1..arrived = {i \in DOMAIN request.ladder : i <= arrived}
    BY <1>2
  <2>. QED  BY <1>1, <2>1 DEF Remaining
<1>6. ASSUME ~Unpriced(rq), NEW i \in 1..arrived
      PROVE  Key(rq, i) = Key(request, i)
  <2>0. /\ rq.ladder[i] = request.ladder[i] /\ GasWei(rq, i) = GasWei(request, i)
        /\ InWei(rq) = InWei(request) /\ rq.sell = request.sell
        /\ rq.sellPrice = request.sellPrice
    BY <1>1, <1>3, Zenon
  <2>1. EffectiveKey(rq, i) = EffectiveKey(request, i)
    BY <2>0, Zenon DEF EffectiveKey
  <2>2. request.ranking = "autopilot" => AutopilotKey(rq, i) = AutopilotKey(request, i)
    <3>1. request.ranking = "autopilot" /\ request.sell => rq.buyPrice = request.buyPrice
      BY <1>1, <1>6 DEF Unpriced
    <3>2. CASE request.sell
      BY <2>0, <3>1, <3>2, Zenon DEF AutopilotKey
    <3>3. CASE ~request.sell
      BY <2>0, <3>3, Zenon DEF AutopilotKey
    <3>. QED  BY <3>2, <3>3
  <2>. QED  BY <1>1, <2>1, <2>2 DEF Key
<1>7. ASSUME NEW I \in SUBSET (1..arrived), ~Unpriced(rq), Usable(request, I) # {}
      PROVE  Pick(rq, I) = Pick(request, I)
  <2>1. Leads(request, I, Pick(request, I)) /\ Pick(request, I) \in I
    BY <1>1, <1>2, <1>7, PickLeads, PreferredIs DEF Leads
  <2>2. \A i, k \in 1..arrived : Beats(rq, i, k) <=> Beats(request, i, k)
    BY <1>1, <1>6, <1>7 DEF Beats
  <2>3. Usable(rq, I) = Usable(request, I) /\ Usable(rq, I) \subseteq 1..arrived
    BY <1>4, PreferredIs
  <2>4. Leads(rq, I, Pick(request, I))
    BY <2>1, <2>2, <2>3 DEF Leads
  <2>. QED  BY <1>1, <2>4, PickLeads
<1>8. ASSUME NEW I \in SUBSET (1..arrived), Usable(request, I) = {}
      PROVE  Pick(rq, I) = Pick(request, I)
  BY <1>1, <1>2, <1>4, <1>8, PickLeads
<1>9. \A I \in SUBSET (1..arrived) :
        ~Unpriced(rq) \/ Usable(request, I) = {} => Pick(rq, I) = Pick(request, I)
  BY <1>7, <1>8
<1>. QED  BY <1>3, <1>4, <1>5, <1>9, Zenon

\* What each leaf means.
LEMMA DiffFacts ==
  ASSUME IInv, diff # <<>>, NEW rq, rq = Recorded(known)
  PROVE  /\ take # <<>> /\ known \in Nat
         /\ known \in IF request.ranking = "autopilot" THEN {request.buyPrice, 0} ELSE {0}
         /\ diff.leaf \in Leaves
         /\ Untouched(rq, take, removed) => diff.leaf = "unaffected"
         /\ Decided =>
              /\ ~Unpriced(rq) \/ Ranked(rq, take, removed) = {}
              /\ Replacement(rq, take, removed) # Unrecorded
              /\ diff.leaf = "no_quote" <=> Replacement(rq, take, removed) = NoQuote
              /\ take.streamed /\ ~diff.dependent => ~CommitMattered(rq, take, removed)
         /\ diff.replacement = IF diff.leaf \in Named THEN Replacement(rq, take, removed) ELSE 0
<1>1. /\ take # <<>> /\ known \in Nat
      /\ known \in IF request.ranking = "autopilot" THEN {request.buyPrice, 0} ELSE {0}
  BY DEF IInv, TakeInv
<1>2. PICK suspect \in BOOLEAN : diff = DiffQuote(rq, take, Quote, suspect, removed)
  BY DEF IInv, TakeInv
<1>. DEFINE loo == Replacement(rq, take, removed)
            leaf == Leaf(rq, take, Quote, suspect, removed)
<1>3. /\ diff.leaf = leaf
      /\ diff.replacement = IF leaf \in Named THEN loo ELSE 0
      /\ diff.dependent = /\ take.streamed /\ leaf \in Named \cup {"no_quote"}
                          /\ CommitMattered(rq, take, removed)
  BY <1>2 DEF DiffQuote
<1>4. PriceLeaf(rq, take, Quote, loo) \in Named
  BY DEF PriceLeaf, Named
<1>5. leaf \in Leaves /\ (Untouched(rq, take, removed) => leaf = "unaffected")
  BY <1>4 DEF Leaf, Leaves, Named
<1>6. leaf \in Named \cup {"no_quote"} =>
        /\ ~Unpriced(rq) \/ Ranked(rq, take, removed) = {}
        /\ loo # Unrecorded
        /\ leaf = "no_quote" <=> loo = NoQuote
  <2>. DEFINE price == PriceLeaf(rq, take, Quote, loo)
  <2>1. price # "no_quote"
    BY <1>4 DEF Named
  <2>. HIDE DEF price, loo
  <2>. QED  BY <2>1 DEF Leaf, Named, price, loo
<1>. HIDE DEF loo, leaf
<1>. QED  BY <1>1, <1>3, <1>5, <1>6 DEF Decided, loo

\* The remaining answers up to h, and those after it that would have been sent.
Left(h) == {i \in Removing(removed) : i <= h}
LeftLater(h) ==
  {i \in Usable(request, Removing(removed)) : i <= arrived /\ i > h /\ Sendable(request, i)}

\* What the reconstruction makes of a commit at h, in terms of the request itself.
LEMMA CommittedIs ==
  ASSUME IInv, Decided, take.streamed, NEW rq, rq = Recorded(known),
         NEW h \in taken..take.horizon
  PROVE  /\ CommittedAt(rq, take, removed, h) =
              IF Usable(request, Left(h)) # {} THEN Pick(request, Left(h))
              ELSE IF LeftLater(h) # {} THEN Earliest(LeftLater(h))
              ELSE IF take.complete THEN NoQuote ELSE Unrecorded
         /\ Usable(request, Left(h)) # {} =>
              Leads(request, Left(h), Pick(request, Left(h))) /\ Pick(request, Left(h)) \in Left(h)
         /\ LeftLater(h) # {} =>
              /\ Earliest(LeftLater(h)) \in LeftLater(h)
              /\ \A k \in LeftLater(h) : Earliest(LeftLater(h)) <= k
         /\ Removing(removed) \subseteq DOMAIN request.ladder
         /\ Left(h) \subseteq 1..arrived /\ h \in Nat
<1>. SUFFICES ASSUME NEW J, J = Removing(removed), NEW H, H = Left(h),
                     NEW later, later = LeftLater(h)
              PROVE  /\ CommittedAt(rq, take, removed, h) =
                          IF Usable(request, H) # {} THEN Pick(request, H)
                          ELSE IF later # {} THEN Earliest(later)
                          ELSE IF take.complete THEN NoQuote ELSE Unrecorded
                     /\ Usable(request, H) # {} =>
                          Leads(request, H, Pick(request, H)) /\ Pick(request, H) \in H
                     /\ later # {} =>
                          Earliest(later) \in later /\ \A k \in later : Earliest(later) <= k
                     /\ J \subseteq DOMAIN request.ladder /\ H \subseteq 1..arrived /\ h \in Nat
  OBVIOUS
<1>0. /\ H = {i \in J : i <= h}
      /\ later = {i \in Usable(request, J) : i <= arrived /\ i > h /\ Sendable(request, i)}
  BY DEF Left, LeftLater
<1>1. /\ BarInv /\ IsRequest(request) /\ arrived \in Nat
      /\ DOMAIN request.ladder = 1..Len(request.ladder) /\ Len(request.ladder) \in Nat
  BY RequestIs DEF IInv
<1>2. /\ diff # <<>> /\ take # <<>> /\ known \in Nat
      /\ known \in IF request.ranking = "autopilot" THEN {request.buyPrice, 0} ELSE {0}
      /\ ~Unpriced(rq) \/ Ranked(rq, take, removed) = {}
  BY DiffFacts DEF Decided
<1>3. take.horizon \in commit..arrived /\ commit \in taken..arrived /\ taken \in 1..arrived
  BY <1>2, TakeFacts DEF IInv
<1>4. h \in Nat /\ h <= take.horizon /\ h <= arrived
  BY <1>1, <1>3
<1>5. /\ J \subseteq DOMAIN request.ladder /\ H \subseteq J
      /\ \A i \in J : i \in Nat /\ i >= 1
      /\ H \subseteq 1..arrived
  <2>1. J \subseteq DOMAIN request.ladder
    BY DEF Removing, Remaining
  <2>. QED  BY <1>0, <1>1, <1>4, <2>1
<1>. DEFINE K == {i \in J : i <= arrived}
<1>6. /\ Remaining(rq, removed) = K /\ K \subseteq 1..arrived
      /\ Until(Remaining(rq, removed), h) = H
  <2>1. Remaining(rq, removed) = {i \in Remaining(request, removed) : i <= arrived}
    BY <1>1, <1>2, RecordedRanks
  <2>. QED  BY <1>0, <1>1, <1>4, <1>5, <2>1 DEF Removing, Until
<1>7. Pick(rq, H) = Pick(request, H)
  <2>1. \A I \in SUBSET (1..arrived) : Usable(rq, I) = Usable(request, I)
    BY <1>1, <1>2, RecordedRanks
  <2>2. \A I \in SUBSET (1..arrived) :
          ~Unpriced(rq) \/ Usable(request, I) = {} => Pick(rq, I) = Pick(request, I)
    BY <1>1, <1>2, RecordedRanks
  <2>3. ASSUME Ranked(rq, take, removed) = {}
        PROVE  Usable(rq, H) = {}
    <3>1. Until(Remaining(rq, removed), h) \subseteq Until(Remaining(rq, removed), take.horizon)
      BY <1>1, <1>3, <1>4, <1>6 DEF Until
    <3>. QED  BY <1>6, <2>3, <3>1 DEF Ranked, Usable
  <2>. QED  BY <1>2, <1>5, <2>1, <2>2, <2>3
<1>8. /\ Usable(request, H) # {} => Leads(request, H, Pick(request, H)) /\ Pick(request, H) \in H
      /\ Pick(request, H) # 0 <=> Usable(request, H) # {}
  <2>1. H \subseteq DOMAIN request.ladder
    BY <1>5
  <2>2. /\ Usable(request, H) # {} => Leads(request, H, Pick(request, H))
        /\ Usable(request, H) = {} => Pick(request, H) = 0
    BY <1>1, <2>1, PickLeads
  <2>3. Usable(request, H) # {} => Pick(request, H) \in H
    BY <2>2, PreferredIs DEF Leads
  <2>. QED  BY <1>5, <2>2, <2>3
<1>9. later = {i \in Usable(rq, Remaining(rq, removed)) : i > h /\ Sendable(rq, i)}
  <2>1. Usable(rq, K) = Usable(request, K)
    BY <1>1, <1>2, <1>6, RecordedRanks
  <2>2. \A i \in K : Sendable(rq, i) <=> Sendable(request, i)
    BY <1>1, <1>2, <1>6, RecordedRanks
  <2>3. Usable(request, K) = {i \in Usable(request, J) : i <= arrived}
    BY DEF Usable
  <2>4. Usable(request, K) \subseteq K
    BY PreferredIs
  <2>. HIDE DEF K
  <2>. QED  BY <1>0, <1>6, <2>1, <2>2, <2>3, <2>4
<1>10. later # {} => Earliest(later) \in later /\ \A k \in later : Earliest(later) <= k
  <2>1. later \subseteq DOMAIN request.ladder
    BY <1>0, <1>5, PreferredIs
  <2>. QED  BY <1>1, <2>1, EarliestIs
<1>11. CommittedAt(rq, take, removed, h) =
         IF Pick(request, H) # 0 THEN Pick(request, H)
         ELSE IF later # {} THEN Earliest(later)
         ELSE IF take.complete THEN NoQuote ELSE Unrecorded
  BY <1>6, <1>7, <1>9 DEF CommittedAt, Waited
<1>. QED  BY <1>4, <1>5, <1>8, <1>10, <1>11

\* A one-shot request is recorded whole and replaced by the pick of the others.
LEMMA OneShotIs ==
  ASSUME IInv, Decided, ~take.streamed, NEW rq, rq = Recorded(known)
  PROVE  Replacement(rq, take, removed) = Pick(request, Removing(removed))
<1>1. /\ BarInv /\ IsRequest(request) /\ arrived \in Nat
      /\ DOMAIN request.ladder = 1..Len(request.ladder)
  BY RequestIs DEF IInv
<1>2. /\ diff # <<>> /\ take # <<>> /\ known \in Nat
      /\ known \in IF request.ranking = "autopilot" THEN {request.buyPrice, 0} ELSE {0}
      /\ ~Unpriced(rq) \/ Ranked(rq, take, removed) = {}
  BY DiffFacts DEF Decided
<1>3. arrived = Len(request.ladder)
  BY <1>2, TakeFacts
<1>4. Removing(removed) \subseteq 1..arrived
  BY <1>1, <1>3 DEF Removing, Remaining
<1>5. Remaining(rq, removed) = Removing(removed)
  <2>1. Remaining(rq, removed) = {i \in Removing(removed) : i <= arrived}
    BY <1>1, <1>2, RecordedRanks DEF Removing
  <2>. QED  BY <1>1, <1>4, <2>1
<1>6. Usable(rq, Removing(removed)) = Usable(request, Removing(removed))
  BY <1>1, <1>2, <1>4, RecordedRanks
<1>7. ~Unpriced(rq) \/ Usable(request, Removing(removed)) = {}
  BY <1>2, <1>5, <1>6 DEF Ranked
<1>8. Pick(rq, Removing(removed)) = Pick(request, Removing(removed))
  BY <1>1, <1>2, <1>4, <1>7, RecordedRanks
<1>. QED  BY <1>5, <1>8 DEF Replacement

\* Where the quoter would have sent every remaining answer, the reconstruction of a
\* commit at h is what the stream without the removed solvers would have shown there.
LEMMA CommittedIsShown ==
  ASSUME IInv, Decided, take.streamed, NEW h \in taken..take.horizon,
         AllSendable(Removing(removed)),
         CommittedAt(Recorded(known), take, removed, h) # Unrecorded
  PROVE  CommittedAt(Recorded(known), take, removed, h) = Shown(request, Removing(removed), h)
<1>. DEFINE J == Removing(removed)
            H == Left(h)
            later == LeftLater(h)
            rq == Recorded(known)
<1>1. /\ IsRequest(request) /\ arrived \in Nat /\ arrived <= Len(request.ladder)
      /\ DOMAIN request.ladder = 1..Len(request.ladder) /\ Len(request.ladder) \in Nat
  BY RequestIs DEF IInv, BarInv
<1>2. /\ CommittedAt(rq, take, removed, h) =
              IF Usable(request, H) # {} THEN Pick(request, H)
              ELSE IF later # {} THEN Earliest(later)
              ELSE IF take.complete THEN NoQuote ELSE Unrecorded
      /\ later # {} => Earliest(later) \in later /\ \A k \in later : Earliest(later) <= k
      /\ J \subseteq DOMAIN request.ladder /\ h \in Nat
  BY CommittedIs
<1>. SUFFICES ASSUME CommittedAt(rq, take, removed, h) # Unrecorded
              PROVE  CommittedAt(rq, take, removed, h) = Shown(request, J, h)
  OBVIOUS
<1>. HIDE DEF J, H, later, rq
<1>0. /\ J = Removing(removed) /\ H = {i \in J : i <= h}
      /\ later = {i \in Usable(request, J) : i <= arrived /\ i > h /\ Sendable(request, i)}
  BY DEF J, H, later, Left, LeftLater
<1>3. Shown(request, J, h) =
        IF Usable(request, H) # {} THEN Pick(request, H) ELSE Earliest(Usable(request, J))
  <2>1. \A i \in Usable(request, J) : Sendable(request, i)
    BY <1>0 DEF AllSendable
  <2>2. J \subseteq DOMAIN request.ladder /\ h \in Int /\ IsRequest(request) /\ H = {i \in J : i <= h}
    BY <1>0, <1>1, <1>2
  <2>. QED  BY <2>1, <2>2, ShownIsPick, Zenon
<1>4. ASSUME Usable(request, H) = {}, NEW i \in Usable(request, J)
      PROVE  i > h /\ i \in DOMAIN request.ladder /\ i \in Nat /\ Sendable(request, i)
  <2>1. i \in J /\ Reasonable(request, i) /\ Sendable(request, i)
    BY <1>0 DEF Usable, AllSendable
  <2>2. i \in Nat /\ i \in DOMAIN request.ladder
    BY <1>1, <1>2, <2>1
  <2>. QED  BY <1>0, <1>2, <1>4, <2>1, <2>2 DEF Usable
<1>5. CASE Usable(request, H) = {} /\ later # {}
  <2>1. Earliest(later) \in Usable(request, J)
    BY <1>0, <1>2, <1>5
  <2>2. \A k \in Usable(request, J) : Earliest(later) <= k
    <3>1. ASSUME NEW k \in Usable(request, J)
          PROVE  Earliest(later) <= k
      <4>1. CASE k <= arrived
        BY <1>0, <1>2, <1>4, <1>5, <4>1
      <4>2. CASE ~(k <= arrived)
        <5>1. Earliest(later) \in Nat /\ Earliest(later) <= arrived
          BY <1>0, <1>2, <1>4, <1>5
        <5>. QED  BY <1>1, <1>4, <1>5, <4>2, <5>1
      <4>. QED  BY <4>1, <4>2
    <3>. QED  BY <3>1
  <2>3. Earliest(Usable(request, J)) = Earliest(later)
    <3>1. Usable(request, J) \subseteq DOMAIN request.ladder
      BY <1>2, PreferredIs
    <3>. QED  BY <1>1, <2>1, <2>2, <3>1, EarliestIs
  <2>. QED  BY <1>2, <1>3, <1>5, <2>3
<1>6. CASE Usable(request, H) = {} /\ later = {}
  <2>1. take.complete
    BY <1>2, <1>6
  <2>2. arrived = Len(request.ladder)
    BY <2>1, TakeFacts DEF Decided, IInv, TakeInv
  <2>3. Usable(request, J) = {}
    BY <1>0, <1>1, <1>4, <1>6, <2>2
  <2>. QED  BY <1>2, <1>3, <1>6, <2>1, <2>3 DEF Earliest, NoQuote
<1>7. CASE Usable(request, H) # {}
  BY <1>2, <1>3, <1>7
<1>. QED  BY <1>5, <1>6, <1>7

----------------------------------------------------------------------------
(* What the counterfactual says *)

\* Where the quoter would have sent every remaining answer, the replacement is the
\* answer on the screen at the horizon, or the one a one-shot request returns.
THEOREM ReplacementIsRight == Spec => []ReplacementIsShown
<1>1. ASSUME IInv PROVE ReplacementIsShown
  <2>. DEFINE rq == Recorded(known)
              J == Removing(removed)
  <2>. SUFFICES ASSUME Decided, AllSendable(J)
                PROVE  Replacement(rq, take, removed) =
                         IF take.streamed THEN Shown(request, J, take.horizon)
                         ELSE Pick(request, J)
    BY DEF ReplacementIsShown
  <2>1. take # <<>> /\ Replacement(rq, take, removed) # Unrecorded
    BY <1>1, DiffFacts DEF Decided
  <2>2. CASE take.streamed
    <3>1. take.horizon \in taken..take.horizon
      BY <1>1, <2>1, <2>2, TakeFacts, RequestIs DEF IInv
    <3>2. Replacement(rq, take, removed) = CommittedAt(rq, take, removed, take.horizon)
      BY <2>2 DEF Replacement, StreamReplacement
    <3>. HIDE DEF J
    <3>3. AllSendable(Removing(removed))
      BY DEF J
    <3>4. CommittedAt(rq, take, removed, take.horizon) = Shown(request, Removing(removed), take.horizon)
      BY <1>1, <2>1, <2>2, <3>1, <3>2, <3>3, CommittedIsShown
    <3>. QED  BY <2>2, <3>2, <3>4 DEF J
  <2>3. CASE ~take.streamed
    BY <1>1, <2>3, OneShotIs
  <2>. QED  BY <2>2, <2>3
<1>. QED  BY <1>1, Inductive, PTL

\* An order is said to have no quote only if its user would have been sent nothing.
THEOREM SilenceIsReal == Spec => []NoQuoteIsSilence
<1>1. ASSUME IInv PROVE NoQuoteIsSilence
  <2>. DEFINE rq == Recorded(known)
              J == Removing(removed)
  <2>. SUFFICES ASSUME diff # <<>>, diff.leaf = "no_quote"
                PROVE  Sent(request, J) = {}
    BY DEF NoQuoteIsSilence
  <2>0. Decided
    BY DEF Decided
  <2>1. take # <<>> /\ Replacement(rq, take, removed) = NoQuote
    BY <1>1, <2>0, DiffFacts
  <2>2. Sent(request, J) \subseteq Usable(request, J) /\ J \subseteq DOMAIN request.ladder
    BY DEF Sent, Sets, Removing, Remaining
  <2>3. /\ IsRequest(request) /\ arrived \in Nat
        /\ DOMAIN request.ladder = 1..Len(request.ladder) /\ Len(request.ladder) \in Nat
    BY <1>1, RequestIs DEF IInv
  <2>4. CASE take.streamed
    <3>. DEFINE h == take.horizon
    <3>1. h \in taken..h /\ taken \in Nat /\ h \in Nat
      BY <1>1, <2>1, <2>3, <2>4, TakeFacts, RequestIs DEF IInv
    <3>2. CommittedAt(rq, take, removed, h) = 0
      BY <2>1, <2>4 DEF Replacement, StreamReplacement, NoQuote
    <3>3. /\ CommittedAt(rq, take, removed, h) =
                IF Usable(request, Left(h)) # {} THEN Pick(request, Left(h))
                ELSE IF LeftLater(h) # {} THEN Earliest(LeftLater(h))
                ELSE IF take.complete THEN NoQuote ELSE Unrecorded
          /\ Usable(request, Left(h)) # {} => Pick(request, Left(h)) \in Left(h)
          /\ LeftLater(h) # {} => Earliest(LeftLater(h)) \in LeftLater(h)
          /\ Left(h) \subseteq 1..arrived
      BY <1>1, <2>0, <2>4, <3>1, CommittedIs
    <3>4. Usable(request, Left(h)) = {}
      BY <2>3, <3>2, <3>3
    <3>5. LeftLater(h) \subseteq DOMAIN request.ladder
      BY <2>2, PreferredIs DEF LeftLater
    <3>6. LeftLater(h) = {}
      BY <2>3, <3>2, <3>3, <3>4, <3>5
    <3>7. take.complete
      BY <3>2, <3>3, <3>4, <3>6 DEF Unrecorded
    <3>8. arrived = Len(request.ladder)
      BY <1>1, <2>1, <3>7, TakeFacts
    <3>9. ASSUME NEW i \in Sent(request, J)
          PROVE  FALSE
      <4>1. /\ i \in Usable(request, J) /\ Sendable(request, i) /\ i \in J /\ i \in DOMAIN request.ladder
            /\ Reasonable(request, i)
        BY <2>2 DEF Sent, Usable
      <4>2. i \in Nat /\ i <= arrived
        BY <2>3, <3>8, <4>1
      <4>3. ~(i <= h)
        BY <3>4, <4>1 DEF Left, Usable
      <4>. QED  BY <3>1, <3>6, <4>1, <4>2, <4>3 DEF LeftLater
    <3>. QED  BY <3>9
  <2>5. CASE ~take.streamed
    <3>1. Pick(request, J) = 0
      BY <1>1, <2>0, <2>1, <2>5, OneShotIs DEF NoQuote
    <3>2. Usable(request, J) # {} => Pick(request, J) \in J
      BY <2>2, <2>3, PickLeads, PreferredIs DEF Leads
    <3>. QED  BY <2>2, <2>3, <3>1, <3>2
  <2>. QED  BY <2>4, <2>5
<1>. QED  BY <1>1, Inductive, PTL

\* No replacement outranks the answer it replaces, but for the exceptions named.
THEOREM RemovalNeverImproves == Spec => []NeverABetterQuote
<1>1. ASSUME IInv PROVE NeverABetterQuote
  <2>. DEFINE rq == Recorded(known)
              r == diff.replacement
  <2>. SUFFICES ASSUME Decided, r # 0, Beats(request, r, taken),
                       ~(take.streamed /\ r > take.horizon),
                       AllSendable({r} \cup (1..arrived \ Removing(removed)))
                PROVE  FALSE
    BY DEF NeverABetterQuote
  <2>. DEFINE J == Removing(removed)
              D == DOMAIN request.ladder
  <2>1. /\ take # <<>> /\ r = Replacement(rq, take, removed) /\ r # Unrecorded
    BY <1>1, DiffFacts DEF Decided
  <2>2. /\ IsRequest(request) /\ arrived \in Nat /\ arrived <= Len(request.ladder)
        /\ D = 1..Len(request.ladder) /\ Len(request.ladder) \in Nat
        /\ J \subseteq D /\ 1..arrived \subseteq D
    BY <1>1, RequestIs DEF IInv, BarInv, Removing, Remaining
  <2>3. taken \in 1..arrived /\ taken \in D
    BY <1>1, <2>1, <2>2, TakeFacts
  <2>. HIDE DEF r, J, D
  <2>4. ASSUME NEW I, I \subseteq D, r \in Usable(request, I), Leads(request, I, taken)
        PROVE  FALSE
    <3>1. r \in D /\ D = DOMAIN request.ladder
      BY <2>4, PreferredIs DEF D
    <3>2. ~Beats(request, r, r) /\ (Beats(request, r, taken) /\ Beats(request, taken, r) => Beats(request, r, r))
      BY <2>2, <2>3, <3>1, BeatsOrder
    <3>3. r # taken
      BY <3>2
    <3>4. r < taken \/ r > taken
      BY <2>2, <2>3, <3>1, <3>3
    <3>. QED  BY <2>4, <3>2, <3>4 DEF Leads
  <2>5. CASE take.streamed
    <3>. DEFINE h == take.horizon
                A == {i \in D : i <= h}
                p == Pick(request, A)
    <3>1. h \in taken..h /\ taken \in Nat /\ h \in Nat /\ h <= arrived /\ taken <= h
      BY <1>1, <2>1, <2>2, <2>5, TakeFacts
    <3>2. /\ CommittedAt(rq, take, removed, h) =
                IF Usable(request, Left(h)) # {} THEN Pick(request, Left(h))
                ELSE IF LeftLater(h) # {} THEN Earliest(LeftLater(h))
                ELSE IF take.complete THEN NoQuote ELSE Unrecorded
          /\ Usable(request, Left(h)) # {} =>
               Leads(request, Left(h), Pick(request, Left(h))) /\ Pick(request, Left(h)) \in Left(h)
          /\ LeftLater(h) # {} => Earliest(LeftLater(h)) \in LeftLater(h)
      BY <1>1, <2>5, <3>1, CommittedIs
    <3>3. r = CommittedAt(rq, take, removed, h)
      BY <2>1, <2>5 DEF Replacement, StreamReplacement
    <3>. HIDE DEF rq
    <3>4. Usable(request, Left(h)) # {}
      <4>. SUFFICES ASSUME Usable(request, Left(h)) = {} PROVE FALSE
        OBVIOUS
      <4>1. LeftLater(h) # {} /\ r \in LeftLater(h)
        BY <2>1, <3>2, <3>3 DEF NoQuote, r
      <4>. QED  BY <2>5, <4>1 DEF LeftLater, r
    <3>5. r = Pick(request, Left(h)) /\ Leads(request, Left(h), r) /\ r \in Left(h)
      BY <3>2, <3>3, <3>4
    <3>6. /\ r \in J /\ r <= h /\ Reasonable(request, r) /\ r \in D /\ r \in A
          /\ r \in Usable(request, A)
      BY <2>2, <3>5 DEF Left, Leads, Usable, J
    <3>7. Sendable(request, r)
      BY <3>6 DEF AllSendable, Usable, r
    <3>8. /\ taken \in Sent(request, D) /\ \A i \in Sent(request, D) : i <= h => i <= taken
      BY <1>1, <2>1, <2>5, <3>1, TakenWasShown DEF D
    <3>9. /\ p \in A /\ Sets(request, D, p)
          /\ \A s \in A : Sets(request, D, s) => s <= p
      <4>1. A = {i \in D : i <= h} /\ D \subseteq DOMAIN request.ladder
        BY DEF D
      <4>. HIDE DEF A, h
      <4>2. Usable(request, A) # {} /\ h \in Int
        BY <3>1, <3>6
      <4>. QED  BY <2>2, <4>1, <4>2, PickIsLatestSetter, Zenon
    <3>10. Leads(request, A, p) /\ A \subseteq D
      BY <2>2, <3>6, PickLeads DEF D
    <3>11. taken <= p
      BY <2>3, <3>1, <3>8, <3>9 DEF Sent
    <3>12. p \in Nat /\ p <= h /\ p \in 1..arrived
      <4>1. p \in 1..Len(request.ladder) /\ p <= h
        BY <2>2, <3>9
      <4>. HIDE DEF p, h, A, D
      <4>. QED  BY <2>2, <3>1, <4>1
    <3>. HIDE DEF p
    <3>13. CASE Sendable(request, p)
      <4>1. p <= taken
        BY <3>8, <3>9, <3>12, <3>13 DEF Sent
      <4>2. p = taken
        BY <3>1, <3>11, <3>12, <4>1
      <4>. HIDE DEF A
      <4>. QED  BY <2>4, <3>6, <3>10, <4>2
    <3>14. CASE ~Sendable(request, p)
      <4>1. p \in J
        <5>1. Reasonable(request, p)
          BY <3>10 DEF Leads, Usable
        <5>. QED  BY <3>12, <3>14, <5>1 DEF AllSendable, Usable, J
      <4>2. p \in Left(h) /\ Left(h) \subseteq A
        BY <2>2, <3>12, <4>1 DEF Left, J
      <4>3. Leads(request, Left(h), p)
        BY <3>10, <4>2, LeadsAmongFewer
      <4>4. Left(h) \subseteq DOMAIN request.ladder
        BY <3>10, <4>2 DEF D
      <4>5. p = r
        BY <2>2, <3>5, <4>3, <4>4, PickLeads
      <4>. QED  BY <3>7, <3>14, <4>5
    <3>. QED  BY <3>13, <3>14
  <2>6. CASE ~take.streamed
    <3>1. r = Pick(request, J)
      BY <1>1, <2>1, <2>6, OneShotIs DEF J
    <3>2. arrived = Len(request.ladder) /\ taken = Pick(request, D)
      BY <1>1, <2>1, <2>2, <2>6, TakeFacts
    <3>3. r \in Usable(request, J)
      BY <2>2, <3>1, PickLeads DEF Leads, D, r
    <3>4. r \in Usable(request, D)
      BY <2>2, <3>3 DEF Usable
    <3>5. Leads(request, D, taken)
      BY <2>2, <3>2, <3>4, PickLeads DEF D
    <3>. QED  BY <2>4, <3>4, <3>5
  <2>. QED  BY <2>5, <2>6
<1>. QED  BY <1>1, Inductive, PTL

\* Two commits that agree bound every one between them.
LEMMA BetweenCommits ==
  ASSUME IInv, Decided, take.streamed, AllSendable(Removing(removed)),
         NEW rq, rq = Recorded(known),
         NEW b, b # Unrecorded,
         CommittedAt(rq, take, removed, taken) = b,
         CommittedAt(rq, take, removed, take.horizon) = b,
         NEW h \in taken..take.horizon
  PROVE  CommittedAt(rq, take, removed, h) = b
<1>. DEFINE g == take.horizon
            J == Removing(removed)
            L(x) == Left(x)
            W(x) == LeftLater(x)
<1>1. /\ IsRequest(request) /\ arrived \in Nat /\ take # <<>>
      /\ DOMAIN request.ladder = 1..Len(request.ladder) /\ Len(request.ladder) \in Nat
  BY RequestIs, DiffFacts DEF IInv, Decided
<1>2. /\ taken \in Nat /\ h \in Nat /\ g \in Nat /\ taken <= h /\ h <= g /\ g <= arrived
      /\ taken \in taken..g /\ g \in taken..g
  BY <1>1, TakeFacts
<1>3. ASSUME NEW x \in taken..g
      PROVE  /\ CommittedAt(rq, take, removed, x) =
                   IF Usable(request, L(x)) # {} THEN Pick(request, L(x))
                   ELSE IF W(x) # {} THEN Earliest(W(x))
                   ELSE IF take.complete THEN NoQuote ELSE Unrecorded
             /\ Usable(request, L(x)) # {} =>
                  Leads(request, L(x), Pick(request, L(x))) /\ Pick(request, L(x)) \in L(x)
             /\ W(x) # {} => Earliest(W(x)) \in W(x) /\ \A k \in W(x) : Earliest(W(x)) <= k
             /\ J \subseteq DOMAIN request.ladder
  BY CommittedIs
<1>4. J \subseteq DOMAIN request.ladder /\ \A i \in J : i \in Nat /\ i # 0
  BY <1>1, <1>2, <1>3
<1>5. \A x, i : /\ i \in L(x) <=> i \in J /\ i <= x
                /\ i \in Usable(request, L(x)) <=> i \in J /\ i <= x /\ Reasonable(request, i)
                /\ i \in W(x) <=> /\ i \in J /\ Reasonable(request, i)
                                  /\ i <= arrived /\ i > x /\ Sendable(request, i)
  BY DEF Left, LeftLater, Usable
<1>6. \A i \in J : Reasonable(request, i) => Sendable(request, i)
  BY DEF AllSendable, Usable
<1>. HIDE DEF J, L, W
<1>7. CASE Usable(request, L(h)) = {} /\ b = NoQuote
  <2>1. Usable(request, L(taken)) = {}
    BY <1>2, <1>4, <1>5, <1>7
  <2>2. W(taken) = {}
    BY <1>2, <1>3, <1>4, <1>5, <1>7, <2>1 DEF NoQuote
  <2>3. W(h) = {}
    BY <1>2, <1>4, <1>5, <2>2
  <2>4. take.complete
    BY <1>2, <1>3, <2>1, <2>2
  <2>. QED  BY <1>3, <1>7, <2>3, <2>4
<1>8. CASE Usable(request, L(h)) = {} /\ b # NoQuote
  <2>1. Usable(request, L(taken)) = {}
    BY <1>2, <1>4, <1>5, <1>8
  <2>2. W(taken) # {} /\ b \in W(taken) /\ \A k \in W(taken) : b <= k
    BY <1>2, <1>3, <1>8, <2>1
  <2>3. b \in W(h)
    BY <1>2, <1>4, <1>5, <1>8, <2>2
  <2>4. \A k \in W(h) : b <= k
    BY <1>2, <1>4, <1>5, <2>2
  <2>5. W(h) \subseteq DOMAIN request.ladder
    BY <1>4, <1>5
  <2>6. Earliest(W(h)) = b
    BY <1>1, <2>3, <2>4, <2>5, EarliestIs
  <2>. QED  BY <1>3, <1>8, <2>3, <2>6
<1>9. CASE Usable(request, L(h)) # {}
  <2>1. Usable(request, L(g)) # {}
    BY <1>2, <1>4, <1>5, <1>9
  <2>2. b = Pick(request, L(g)) /\ Leads(request, L(g), b) /\ b \in L(g)
    BY <1>2, <1>3, <2>1
  <2>3. b \in J /\ b \in Nat /\ b # 0
    BY <1>4, <1>5, <2>2
  <2>4. b <= h
    <3>1. CASE Usable(request, L(taken)) # {}
      <4>1. b \in L(taken)
        BY <1>2, <1>3, <3>1
      <4>. QED  BY <1>2, <1>5, <2>3, <4>1
    <3>2. CASE Usable(request, L(taken)) = {}
      <4>1. PICK u : u \in J /\ u <= h /\ Reasonable(request, u)
        BY <1>5, <1>9
      <4>2. u \in Nat /\ ~(u <= taken)
        BY <1>4, <1>5, <3>2, <4>1
      <4>3. u \in W(taken)
        BY <1>1, <1>2, <1>5, <1>6, <4>1, <4>2
      <4>4. b <= u
        BY <1>2, <1>3, <3>2, <4>3
      <4>. QED  BY <1>2, <2>3, <4>1, <4>2, <4>4
    <3>. QED  BY <3>1, <3>2
  <2>5. b \in L(h) /\ L(h) \subseteq L(g)
    BY <1>2, <1>4, <1>5, <2>3, <2>4
  <2>6. Leads(request, L(h), b)
    BY <2>2, <2>5, LeadsAmongFewer
  <2>7. L(h) \subseteq DOMAIN request.ladder
    BY <1>4, <1>5
  <2>8. Pick(request, L(h)) = b
    BY <1>1, <2>6, <2>7, PickLeads
  <2>. QED  BY <1>3, <1>9, <2>8
<1>. QED  BY <1>7, <1>8, <1>9

\* If the first and the last commit give the same replacement, so does each between.
THEOREM TwoCommitsBound == Spec => []CommitBracketed
<1>1. ASSUME IInv PROVE CommitBracketed
  <2>. DEFINE rq == Recorded(known)
              J == Removing(removed)
              early == CommittedAt(rq, take, removed, taken)
              late == CommittedAt(rq, take, removed, take.horizon)
  <2>. SUFFICES ASSUME Decided, take.streamed, ~diff.dependent, AllSendable(J),
                       NEW h \in taken..take.horizon
                PROVE  Shown(request, J, h) = Replacement(rq, take, removed)
    BY DEF CommitBracketed
  <2>1. /\ take # <<>> /\ Replacement(rq, take, removed) # Unrecorded
        /\ ~CommitMattered(rq, take, removed)
    BY <1>1, DiffFacts DEF Decided
  <2>2. take.taken = taken /\ taken \in taken..take.horizon /\ take.horizon \in taken..take.horizon
    BY <1>1, <2>1, TakeFacts, RequestIs DEF IInv
  <2>3. Replacement(rq, take, removed) = late
    BY DEF Replacement, StreamReplacement
  <2>4. late = IF early = Unrecorded THEN NoQuote ELSE early
    BY <2>1, <2>2 DEF CommitMattered, StreamReplacement
  <2>5. early # Unrecorded
    <3>. SUFFICES ASSUME early = Unrecorded PROVE FALSE
      OBVIOUS
    <3>1. late = NoQuote
      BY <2>4
    <3>. DEFINE C(x) == IF Usable(request, Left(x)) # {} THEN Pick(request, Left(x))
                        ELSE IF LeftLater(x) # {} THEN Earliest(LeftLater(x))
                        ELSE IF take.complete THEN NoQuote ELSE Unrecorded
    <3>2. /\ early = C(taken) /\ late = C(take.horizon)
          /\ \A x \in taken..take.horizon :
               /\ Usable(request, Left(x)) # {} => Pick(request, Left(x)) \in Left(x)
               /\ LeftLater(x) # {} => Earliest(LeftLater(x)) \in LeftLater(x)
               /\ Left(x) \subseteq 1..arrived
      BY <1>1, <2>2, CommittedIs
    <3>3. Removing(removed) \subseteq DOMAIN request.ladder /\ DOMAIN request.ladder = 1..Len(request.ladder)
          /\ Len(request.ladder) \in Nat /\ arrived \in Nat
      BY <1>1, RequestIs DEF IInv, Removing, Remaining
    <3>4. \A x : LeftLater(x) \subseteq DOMAIN request.ladder
      BY <3>3, PreferredIs DEF LeftLater
    <3>5. ~take.complete
      <4>1. \A i \in 1..arrived : i # Unrecorded
        BY <3>3 DEF Unrecorded
      <4>2. \A i \in DOMAIN request.ladder : i # Unrecorded
        BY <3>3 DEF Unrecorded
      <4>3. Usable(request, Left(taken)) # {} => Pick(request, Left(taken)) \in 1..arrived
        BY <2>2, <3>2
      <4>4. LeftLater(taken) # {} => Earliest(LeftLater(taken)) \in DOMAIN request.ladder
        BY <2>2, <3>2, <3>4
      <4>5. NoQuote # Unrecorded
        BY DEF NoQuote, Unrecorded
      <4>. HIDE DEF early, late
      <4>. QED  BY <3>2, <4>1, <4>2, <4>3, <4>4, <4>5
    <3>6. take.complete
      <4>1. \A i \in 1..arrived : i # NoQuote
        BY <3>3 DEF NoQuote
      <4>2. \A i \in DOMAIN request.ladder : i # NoQuote
        BY <3>3 DEF NoQuote
      <4>. DEFINE t == take.horizon
      <4>3. Usable(request, Left(t)) # {} => Pick(request, Left(t)) \in 1..arrived
        BY <2>2, <3>2
      <4>4. LeftLater(t) # {} => Earliest(LeftLater(t)) \in DOMAIN request.ladder
        BY <2>2, <3>2, <3>4
      <4>5. NoQuote # Unrecorded
        BY DEF NoQuote, Unrecorded
      <4>. HIDE DEF early, late
      <4>. QED  BY <3>1, <3>2, <4>1, <4>2, <4>3, <4>4, <4>5
    <3>. QED  BY <3>5, <3>6
  <2>6. early = late /\ late # Unrecorded
    BY <2>1, <2>3, <2>4, <2>5
  <2>. HIDE DEF J
  <2>7. AllSendable(Removing(removed))
    BY DEF J
  <2>8. CommittedAt(rq, take, removed, h) = late
    BY <1>1, <2>6, <2>7, BetweenCommits
  <2>9. CommittedAt(rq, take, removed, h) = Shown(request, Removing(removed), h)
    BY <1>1, <2>6, <2>7, <2>8, CommittedIsShown
  <2>. QED  BY <2>3, <2>8, <2>9 DEF J
<1>. QED  BY <1>1, Inductive, PTL

\* A removal that leaves the answer taken leaves what the user saw at the commit, if
\* the quoter dropped no removed answer.
THEOREM UnaffectedIsRight == Spec => []UnaffectedSawTheSame
<1>1. ASSUME IInv PROVE UnaffectedSawTheSame
  <2>. DEFINE rq == Recorded(known)
              J == Removing(removed)
              D == DOMAIN request.ladder
  <2>. SUFFICES ASSUME diff # <<>>, take.streamed, taken \in J
                PROVE  /\ diff.leaf = "unaffected"
                       /\ AllSendable(D \ J) => Shown(request, J, commit) = taken
    BY DEF UnaffectedSawTheSame
  <2>1. /\ take # <<>> /\ known \in Nat
        /\ Untouched(rq, take, removed) => diff.leaf = "unaffected"
    BY <1>1, DiffFacts
  <2>2. /\ taken \in 1..arrived /\ commit \in taken..arrived /\ take.taken = taken
        /\ take.horizon \in commit..arrived
    BY <1>1, <2>1, TakeFacts
  <2>3. /\ BarInv /\ IsRequest(request) /\ arrived \in Nat
        /\ D = 1..Len(request.ladder) /\ Len(request.ladder) \in Nat /\ J \subseteq D
    BY <1>1, RequestIs DEF IInv, Removing, Remaining
  <2>4. diff.leaf = "unaffected"
    <3>1. request.ladder[taken].who \notin removed
      BY DEF Removing, Remaining
    <3>2. rq.ladder[taken] = request.ladder[taken]
      BY <2>1, <2>2, <2>3, RecordedIs
    <3>3. taken # 0
      BY <2>2, <2>3
    <3>. QED  BY <2>1, <2>2, <3>1, <3>2, <3>3 DEF Untouched
  <2>5. commit \in taken..take.horizon /\ commit \in Nat /\ taken \in Nat /\ commit \in Int /\ taken <= commit
    BY <2>2, <2>3
  <2>6. /\ taken \in Sent(request, D)
        /\ \A i \in Sent(request, D) : i <= commit => i <= taken
    BY <1>1, <2>1, <2>5, TakenWasShown
  <2>7. ASSUME AllSendable(D \ J)
        PROVE  Shown(request, J, commit) = taken
    <3>. DEFINE seen == {i \in Sent(request, J) : i <= commit}
    <3>. HIDE DEF J
    <3>0. \A i \in J : i \in D /\ i \in Nat
      BY <2>3
    <3>1. taken \in Sent(request, J)
      BY <2>3, <2>6 DEF Sent, Sets, Usable
    <3>2. ASSUME NEW i \in Sent(request, J), i <= commit, i > taken
          PROVE  FALSE
      <4>. DEFINE A == {k \in D : k <= i - 1}
                  p == Pick(request, A)
      <4>1. i \in D /\ i \in Nat /\ Sets(request, J, i) /\ Sendable(request, i) /\ Reasonable(request, i)
        BY <3>0 DEF Sent, Sets, Usable
      <4>2. ~Sets(request, D, i)
        BY <2>5, <2>6, <3>2, <4>1 DEF Sent
      <4>3. /\ A \subseteq D /\ \A k : k \in A <=> k \in D /\ k < i
        BY <2>3, <4>1
      <4>4. taken \in A /\ Sets(request, D, taken) /\ taken \in Usable(request, A)
        BY <2>6, <3>2, <4>3 DEF Sent, Sets, Usable
      <4>. HIDE DEF D
      <4>5. Leads(request, A, p)
        BY <2>3, <4>3, <4>4, PickLeads DEF D
      <4>6. /\ p \in A /\ Sets(request, D, p)
            /\ \A s \in A : Sets(request, D, s) => s <= p
        <5>1. A = {k \in D : k <= i - 1} /\ i - 1 \in Int
          BY <4>1
        <5>. HIDE DEF A
        <5>2. Usable(request, A) # {} /\ D \subseteq DOMAIN request.ladder
          BY <4>4 DEF D
        <5>. QED  BY <2>3, <5>1, <5>2, PickIsLatestSetter, Zenon
      <4>. HIDE DEF A, p
      <4>7. p \in D /\ p \in Nat /\ p < i /\ Reasonable(request, p)
        BY <2>3, <4>3, <4>5, <4>6 DEF Leads, Usable
      <4>8. ~Beats(request, i, p)
        <5>. SUFFICES ASSUME Beats(request, i, p) PROVE FALSE
          OBVIOUS
        <5>1. ASSUME NEW k \in Usable(request, D), k < i
              PROVE  Beats(request, i, k)
          <6>1. k \in D /\ k \in Nat /\ k \in Usable(request, A)
            BY <2>3, <4>3, <5>1 DEF Usable
          <6>2. CASE k = p
            BY <6>2
          <6>3. CASE k < p
            <7>1. Beats(request, p, k)
              BY <4>5, <6>1, <6>3 DEF Leads
            <7>. QED  BY <2>3, <4>1, <4>7, <6>1, <7>1, BeatsOrder DEF D
          <6>4. CASE k > p
            <7>1. ~Beats(request, k, p)
              BY <4>5, <6>1, <6>4 DEF Leads
            <7>. QED  BY <2>3, <4>1, <4>7, <6>1, <7>1, BeatsOrder DEF D
          <6>. QED  BY <4>7, <6>1, <6>2, <6>3, <6>4
        <5>. QED  BY <4>1, <4>2, <5>1 DEF Sets, Usable
      <4>9. p \notin J
        BY <4>1, <4>7, <4>8 DEF Sets, Usable
      <4>10. Sendable(request, p)
        BY <2>7, <4>7, <4>9 DEF AllSendable, Usable
      <4>11. p \in Sent(request, D)
        BY <4>6, <4>7, <4>10 DEF Sent
      <4>12. p <= taken /\ taken <= p
        BY <2>5, <2>6, <3>2, <4>1, <4>4, <4>6, <4>7, <4>11
      <4>. QED  BY <2>5, <4>7, <4>9, <4>12
    <3>3. taken \in seen /\ seen \subseteq DOMAIN request.ladder
      BY <2>5, <3>0, <3>1 DEF Sent
    <3>4. \A k \in seen : k <= taken
      <4>1. \A k \in seen : k \in Nat
        BY <3>0 DEF Sent
      <4>. QED  BY <2>5, <3>2, <4>1
    <3>5. Latest(seen) = taken
      <4>. HIDE DEF seen
      <4>. QED  BY <2>3, <3>3, <3>4, LatestIs
    <3>. QED  BY <3>3, <3>5 DEF Shown
  <2>. QED  BY <2>4, <2>7
<1>. QED  BY <1>1, Inductive, PTL

\* A replacement is an answer that arrived.
LEMMA ReplacementArrived ==
  ASSUME IInv, diff # <<>>
  PROVE  diff.replacement \in 0..arrived
<1>. DEFINE rq == Recorded(known)
<1>1. /\ IsRequest(request) /\ arrived \in Nat
      /\ DOMAIN request.ladder = 1..Len(request.ladder) /\ Len(request.ladder) \in Nat
      /\ Removing(removed) \subseteq DOMAIN request.ladder
  BY RequestIs DEF IInv, Removing, Remaining
<1>2. /\ take # <<>>
      /\ diff.replacement = IF diff.leaf \in Named THEN Replacement(rq, take, removed) ELSE 0
  BY DiffFacts
<1>3. CASE diff.leaf \notin Named
  BY <1>1, <1>2, <1>3
<1>4. CASE diff.leaf \in Named
  <2>1. Decided /\ Replacement(rq, take, removed) # Unrecorded
    BY <1>4, DiffFacts DEF Decided
  <2>2. CASE take.streamed
    <3>. DEFINE h == take.horizon
    <3>1. h \in taken..h
      BY <1>1, <1>2, <2>2, TakeFacts
    <3>2. /\ CommittedAt(rq, take, removed, h) =
                IF Usable(request, Left(h)) # {} THEN Pick(request, Left(h))
                ELSE IF LeftLater(h) # {} THEN Earliest(LeftLater(h))
                ELSE IF take.complete THEN NoQuote ELSE Unrecorded
          /\ Usable(request, Left(h)) # {} => Pick(request, Left(h)) \in Left(h)
          /\ LeftLater(h) # {} => Earliest(LeftLater(h)) \in LeftLater(h)
          /\ Left(h) \subseteq 1..arrived
      BY <2>1, <2>2, <3>1, CommittedIs
    <3>3. Replacement(rq, take, removed) = CommittedAt(rq, take, removed, h)
      BY <2>2 DEF Replacement, StreamReplacement
    <3>4. LeftLater(h) \subseteq 1..arrived
      <4>1. \A i \in LeftLater(h) : i \in DOMAIN request.ladder /\ i <= arrived
        BY <1>1, PreferredIs DEF LeftLater
      <4>. QED  BY <1>1, <4>1
    <3>5. 0 \in 0..arrived /\ \A i \in 1..arrived : i \in 0..arrived
      BY <1>1
    <3>. QED  BY <1>2, <1>4, <2>1, <3>2, <3>3, <3>4, <3>5 DEF NoQuote
  <2>3. CASE ~take.streamed
    <3>1. Replacement(rq, take, removed) = Pick(request, Removing(removed))
      BY <2>1, <2>3, OneShotIs
    <3>2. arrived = Len(request.ladder)
      BY <1>2, <2>3, TakeFacts
    <3>3. \/ Pick(request, Removing(removed)) = 0
          \/ Pick(request, Removing(removed)) \in Removing(removed)
      BY <1>1, PickLeads, PreferredIs DEF Leads
    <3>. QED  BY <1>1, <1>2, <1>4, <3>1, <3>2, <3>3
  <2>. QED  BY <2>2, <2>3
<1>. QED  BY <1>3, <1>4

\* The variables hold what their comments say.
THEOREM TypeCorrect == Spec => []TypeOK
<1>1. ASSUME IInv PROVE TypeOK
  <2>1. /\ BarInv /\ IsRequest(request) /\ arrived \in Nat /\ arrived \in 0..Len(request.ladder)
        /\ DOMAIN request.ladder = 1..Len(request.ladder) /\ Len(request.ladder) \in Nat
        /\ 1..arrived \subseteq DOMAIN request.ladder
    BY <1>1, RequestIs DEF IInv, BarInv
  <2>2. best = <<>> \/ best \in BOOLEAN \X Int
    <3>1. CASE Usable(request, 1..arrived) # {}
      <4>1. best = KeyOf(Pick(request, 1..arrived))
        BY <2>1, <3>1 DEF BarInv
      <4>2. Pick(request, 1..arrived) \in DOMAIN request.ladder
        BY <2>1, <3>1, PickLeads, PreferredIs DEF Leads
      <4>. QED  BY <2>1, <4>1, <4>2, Keys DEF KeyOf
    <3>. QED  BY <2>1, <3>1 DEF BarInv
  <2>3. Forwarded \subseteq 1..arrived
    BY <1>1, <2>1, PositionSeq DEF IInv, StreamInv, Forwarded
  <2>4. winner \in 0..arrived
    <3>1. Pick(request, 1..arrived) = 0 \/ Pick(request, 1..arrived) \in 1..arrived
      BY <2>1, PickLeads, PreferredIs DEF Leads
    <3>. QED  BY <1>1, <2>1, <3>1 DEF IInv, StreamInv
  <2>5. /\ \A i, k \in DOMAIN forwarded : i < k => forwarded[i] < forwarded[k]
        /\ stream \in {"open", "finished", "dropped"}
    BY <1>1 DEF IInv, StreamInv, Increasing
  <2>6. taken \in Forwarded \cup {0} /\ commit \in taken..arrived /\ created \in 0..arrived
    <3>1. CASE taken = 0
      BY <1>1, <2>1, <3>1 DEF IInv, OrderInv
    <3>2. CASE taken # 0
      <4>1. taken \in Forwarded /\ commit \in taken..arrived /\ taken \in 1..arrived
        BY <1>1, <2>3, <3>2 DEF IInv, OrderInv
      <4>2. created = 0 \/ created \in commit..arrived
        BY <1>1 DEF IInv, OrderInv
      <4>. QED  BY <2>1, <4>1, <4>2
    <3>. QED  BY <3>1, <3>2
  <2>7. removed \subseteq Estimator /\ known \in Nat
    BY <1>1 DEF IInv, TakeInv
  <2>8. ASSUME take # <<>>
        PROVE  IsTake(Recorded(known), take)
    <3>. DEFINE rq == Recorded(known)
    <3>1. DOMAIN rq.ladder = 1..arrived /\ Len(rq.ladder) = arrived
      BY <2>1, <2>7, RecordedIs
    <3>2. /\ taken \in 1..arrived /\ take.taken = taken /\ commit \in taken..arrived
          /\ take.streamed \in BOOLEAN /\ take.complete \in BOOLEAN
          /\ take.horizon \in commit..arrived \/ take.horizon = arrived
      BY <1>1, <2>8, TakeFacts
    <3>3. take.horizon \in taken..arrived
      BY <2>1, <3>2
    <3>. HIDE DEF rq
    <3>. QED  BY <3>1, <3>2, <3>3 DEF IsTake, rq
  <2>9. diff # <<>> => diff.leaf \in Leaves /\ diff.replacement \in 0..arrived
    BY <1>1, DiffFacts, ReplacementArrived
  <2>. QED  BY <2>1, <2>2, <2>3, <2>4, <2>5, <2>6, <2>7, <2>8, <2>9 DEF TypeOK
<1>. QED  BY <1>1, Inductive, PTL
=============================================================================
