-------------------------- MODULE AnalyseWindowProofs --------------------------
(***************************************************************************)
(* Every run of analyse_window is the run it would have been on its own, for *)
(* every window, every list of groups and rules and every chunk size: the    *)
(* safety part of RunsAreIndependent.                                       *)
(***************************************************************************)
EXTENDS AnalyseWindow, Sums

\* As many auctions as the window has, those that have left the chunk, and the runs.
N == Len(Ids)
Gone == N - Len(left) - Len(chunk)
NumRuns == Len(asked.solvers) * NumRules

Middle == {"load", "stream", "runs"}
Before == {"check", "resolve"}
After == {"convert", "done"}

RunFields == {"label", "removed", "rule", "quoted", "analysis", "missing", "cow"}

(***************************************************************************)
(* The inductive invariant.  A resolved group has the addresses its names    *)
(* stand for, a run what its place in the product of groups and rules says;  *)
(* the chunk and what is left are the positions behind those that are gone,  *)
(* and what is missing is exactly what was dropped among those.              *)
(***************************************************************************)
InputInv ==
  /\ db \in Databases /\ asked \in Asked /\ watched \in 1..MaxRuns
  /\ pc \in Before \cup {"quotes"} \cup Middle \cup After \cup Errors
  /\ pc \notin Errors \cup {"check"} => asked.rules # <<>>

Groups(n) ==
  /\ resolved \in Seq([label : Seq(Name), addresses : SUBSET Address])
  /\ Len(resolved) = n
  /\ \A i \in 1..n : /\ resolved[i].label = asked.solvers[i]
                     /\ resolved[i].addresses = AddressesOf(i)

ResolveInv ==
  /\ pc \in Before =>
       /\ runs = <<>> /\ left = <<>> /\ chunk = <<>> /\ missing = <<>> /\ next = 1
       /\ \E n \in 0..Len(asked.solvers) : Groups(n)
       /\ name \in Nat \ {0}
       /\ Len(resolved) < Len(asked.solvers) =>
            /\ name <= Len(Entry) + 1
            /\ group = UNION {db.live[Entry[j]] : j \in 1..(name - 1)}
  /\ pc = "check" => resolved = <<>> /\ name = 1 /\ group = {}
  /\ pc = "quotes" => Groups(Len(asked.solvers)) /\ asked.withQuotes

RunsInv ==
  pc \in {"quotes"} \cup Middle \cup After =>
    /\ DOMAIN runs = 1..NumRuns /\ Len(runs) = NumRuns
    /\ \A k \in 1..NumRuns :
         /\ DOMAIN runs[k] = RunFields
         /\ pc \notin After =>
              /\ runs[k].label = asked.solvers[GroupOf(k)]
              /\ runs[k].removed = AddressesOf(GroupOf(k))
              /\ runs[k].rule = RuleOf(k) /\ runs[k].missing = <<>>
         /\ pc \in Middle =>
              runs[k].quoted = IF asked.withQuotes THEN AddressesOf(GroupOf(k)) ELSE {}

StreamInv ==
  /\ pc \in {"quotes"} \cup Middle =>
       /\ left \in Seq(Nat) /\ chunk \in Seq(Nat) /\ missing \in Seq(Nat)
       /\ Gone \in Nat
       /\ \A i \in 1..Len(left) : left[i] = N - Len(left) + i
       /\ \A i \in 1..Len(chunk) : chunk[i] = Gone + i
       /\ ToSet(missing) = {i \in 1..Gone : Ids[i].bidders # {} /\ ~Ids[i].ordersKnown}
       /\ \A i, j \in 1..Len(missing) : i < j => missing[i] < missing[j]
  /\ pc \in {"quotes", "load"} \cup After => chunk = <<>>
  /\ pc \in After => left = <<>>
  /\ pc \in {"quotes", "load", "stream"} \cup After => next = 1
  /\ pc = "runs" =>
       /\ chunk # <<>> /\ Bundle.bidders # {} /\ Bundle.ordersKnown
       /\ next \in 1..(NumRuns + 1)

IInv == InputInv /\ ResolveInv /\ RunsInv /\ StreamInv

----------------------------------------------------------------------------
(* The inputs *)

LEMMA InputIs ==
  ASSUME InputInv
  PROVE  /\ IsDatabase(db) /\ IsAsked(asked) /\ watched \in Nat \ {0}
         /\ Len(asked.solvers) \in Nat /\ DOMAIN asked.solvers = 1..Len(asked.solvers)
         /\ \A i \in 1..Len(asked.solvers) :
              /\ asked.solvers[i] \in Seq(Name) /\ Len(asked.solvers[i]) \in Nat
              /\ DOMAIN asked.solvers[i] = 1..Len(asked.solvers[i])
         /\ NumRules \in Nat /\ (asked.rules # <<>> => NumRules # 0)
         /\ NumRuns \in Nat
         /\ ChunkSize \in Nat \ {0}
<1>1. /\ IsDatabase(db) /\ IsAsked(asked) /\ watched \in Nat \ {0} /\ ChunkSize \in Nat \ {0}
  BY AnalyseWindowAssumption DEF InputInv
<1>2. asked.solvers \in Seq(Seq(Name)) /\ asked.rules \in Seq(Rules)
  BY <1>1 DEF IsAsked
<1>3. /\ Len(asked.solvers) \in Nat /\ DOMAIN asked.solvers = 1..Len(asked.solvers)
      /\ \A i \in 1..Len(asked.solvers) : asked.solvers[i] \in Seq(Name)
  BY <1>2
<1>4. \A s \in Seq(Name) : Len(s) \in Nat /\ DOMAIN s = 1..Len(s)
  OBVIOUS
<1>5. NumRules \in Nat /\ (asked.rules # <<>> => NumRules # 0)
  BY <1>2 DEF NumRules
<1>6. NumRuns \in Nat
  BY <1>3, <1>5 DEF NumRuns
<1>. QED  BY <1>1, <1>3, <1>4, <1>5, <1>6

\* The window is the beginning of the auctions of the database.
LEMMA IdsAre ==
  ASSUME InputInv
  PROVE  /\ N \in Nat /\ DOMAIN Ids = 1..N
         /\ N = IF asked.limit = 0 \/ asked.limit > Len(db.auctions)
                THEN Len(db.auctions) ELSE asked.limit
         /\ \A i \in 1..N : Ids[i] = Row(i) /\ IsAuctionRow(Ids[i])
<1>1. IsDatabase(db) /\ IsAsked(asked)
  BY InputIs
<1>. DEFINE S == {db.auctions[i] : i \in DOMAIN db.auctions}
            n == IF asked.limit = 0 \/ asked.limit > Len(db.auctions)
                 THEN Len(db.auctions) ELSE asked.limit
<1>2. db.auctions \in Seq(S) /\ asked.limit \in Nat
      /\ \A i \in DOMAIN db.auctions : IsAuctionRow(db.auctions[i])
  BY <1>1 DEF IsDatabase, IsAsked
<1>3. n \in Nat /\ n <= Len(db.auctions) /\ DOMAIN db.auctions = 1..Len(db.auctions)
      /\ Len(db.auctions) \in Nat
  <2>. HIDE DEF S
  <2>. QED  BY <1>2
<1>4. Ids = SubSeq(db.auctions, 1, n)
  BY DEF Ids
<1>. HIDE DEF S, n
<1>5. Len(Ids) = n /\ DOMAIN Ids = 1..n /\ \A i \in 1..n : Ids[i] = db.auctions[i]
  BY <1>2, <1>3, <1>4
<1>. QED  BY <1>2, <1>3, <1>5 DEF N, n, Row

\* Runs are laid out group by group, the rules of each in turn.
LEMMA Layout ==
  ASSUME NEW m \in Nat, NEW n \in Nat \ {0}, NEW k \in 1..(m * n)
  PROVE  ((k - 1) \div n) + 1 \in 1..m /\ ((k - 1) % n) + 1 \in 1..n
<1>. DEFINE q == (k - 1) \div n
            r == (k - 1) % n
<1>1. m * n \in Nat /\ k \in Nat /\ k >= 1 /\ k <= m * n
  OBVIOUS
<1>2. q \in Int /\ r \in Int /\ k - 1 = n * q + r /\ 0 <= r /\ r < n
  BY <1>1
<1>. HIDE DEF q, r
<1>3. q >= 0
  <2>1. ASSUME q <= -1 PROVE FALSE
    <3>1. n * q <= n * (-1)
      BY <1>2, <2>1
    <3>. QED  BY <1>1, <1>2, <3>1
  <2>. QED  BY <1>2, <2>1
<1>4. q < m
  <2>1. ASSUME q >= m PROVE FALSE
    <3>1. n * q >= n * m
      BY <1>2, <2>1
    <3>2. n * m = m * n
      OBVIOUS
    <3>. QED  BY <1>1, <1>2, <3>1, <3>2
  <2>. QED  BY <1>2, <2>1
<1>. QED  BY <1>2, <1>3, <1>4 DEF q, r

LEMMA PlaceOf ==
  ASSUME InputInv, asked.rules # <<>>, NEW k \in 1..NumRuns
  PROVE  /\ GroupOf(k) \in 1..Len(asked.solvers) /\ RuleOf(k) \in Rules
         /\ AddressesOf(GroupOf(k)) \subseteq Address
<1>1. GroupOf(k) \in 1..Len(asked.solvers) /\ ((k - 1) % NumRules) + 1 \in 1..NumRules
  BY InputIs, Layout DEF GroupOf, NumRuns
<1>2. asked.rules \in Seq(Rules) /\ db.live \in [Name -> SUBSET Address]
  BY InputIs DEF IsAsked, IsDatabase
<1>3. RuleOf(k) \in Rules
  BY <1>1, <1>2 DEF RuleOf, NumRules
<1>4. \A i \in 1..Len(asked.solvers) : AddressesOf(i) \subseteq Address
  <2>. SUFFICES ASSUME NEW i \in 1..Len(asked.solvers), NEW j \in DOMAIN asked.solvers[i]
                PROVE  db.live[asked.solvers[i][j]] \subseteq Address
    BY DEF AddressesOf
  <2>1. asked.solvers[i] \in Seq(Name)
    BY InputIs
  <2>2. asked.solvers[i][j] \in Name
    BY <2>1
  <2>. QED  BY <1>2, <2>2
<1>. QED  BY <1>1, <1>3, <1>4

\* A set of positions has a last one.
LEMMA MaxIs ==
  ASSUME NEW n \in Nat, NEW S, S \subseteq 1..n, S # {}
  PROVE  Max(S) \in S
<1>. DEFINE R == OpToRel(<, Nat)
            T == {n - i : i \in S}
<1>1. T \subseteq Nat /\ T # {}
  OBVIOUS
<1>2. IsWellFoundedOn(R, Nat)
  BY NatLessThanWellFounded
<1>3. PICK t \in T : \A u \in T : <<u, t>> \notin R
  <2>. HIDE DEF R, T
  <2>. QED  BY <1>1, <1>2, WFMin
<1>4. \A u \in T : ~(u < t)
  BY <1>1, <1>3 DEF OpToRel
<1>5. PICK i \in S : t = n - i
  BY <1>3
<1>6. \A k \in S : i >= k
  <2>. SUFFICES ASSUME NEW k \in S PROVE i >= k
    OBVIOUS
  <2>1. n - k \in T
    OBVIOUS
  <2>2. ~(n - k < n - i)
    BY <1>4, <1>5, <2>1
  <2>3. k \in Nat /\ i \in Nat
    OBVIOUS
  <2>. QED  BY <2>2, <2>3
<1>7. \E x \in S : \A y \in S : x >= y
  BY <1>6
<1>. QED  BY <1>7 DEF Max

----------------------------------------------------------------------------
(* The steps *)

LEMMA InitInv == Init => IInv
<1>. SUFFICES ASSUME Init PROVE IInv
  OBVIOUS
<1>1. InputInv
  BY DEF Init, InputInv, Before
<1>2. Groups(0)
  BY DEF Init, Groups
<1>3. ResolveInv
  <2>1. 0 \in 0..Len(asked.solvers)
    BY <1>1, InputIs
  <2>2. Len(resolved) = 0 /\ name = 1 /\ group = {}
    BY DEF Init
  <2>3. Len(resolved) < Len(asked.solvers) => Len(Entry) \in Nat
    BY <1>1, <2>2, InputIs DEF Entry
  <2>4. 1..(name - 1) = {}
    BY <2>2
  <2>. QED  BY <1>2, <2>1, <2>2, <2>3, <2>4 DEF Init, ResolveInv, Before
<1>4. RunsInv /\ StreamInv
  BY DEF Init, RunsInv, StreamInv, Middle, After
<1>. QED  BY <1>1, <1>3, <1>4 DEF IInv

\* What is asked of what does not change.
LEMMA SameInput ==
  ASSUME UNCHANGED given
  PROVE  /\ N' = N /\ Ids' = Ids /\ NumRules' = NumRules /\ NumRuns' = NumRuns
         /\ \A k : /\ GroupOf(k)' = GroupOf(k) /\ RuleOf(k)' = RuleOf(k)
                   /\ AddressesOf(k)' = AddressesOf(k) /\ ScenarioOf(k)' = ScenarioOf(k)
                   /\ Requested(k)' = Requested(k) /\ Row(k)' = Row(k)
BY DEF given, N, Ids, NumRules, NumRuns, GroupOf, RuleOf, AddressesOf, ScenarioOf, Requested, Row

LEMMA ErrorStep ==
  ASSUME IInv, NEW e \in Errors, Raise(e)
  PROVE  IInv'
<1>1. UNCHANGED given /\ pc' \in Errors
  BY DEF Raise
<1>2. Errors \cap (Before \cup {"quotes"} \cup Middle \cup After) = {}
  BY DEF Errors, Before, Middle, After
<1>3. "check" \notin Errors
  BY DEF Errors
<1>4. InputInv'
  BY <1>1 DEF IInv, InputInv, given
<1>. HIDE DEF Errors
<1>5. pc' \notin Before /\ pc' # "quotes" /\ pc' \notin Middle /\ pc' \notin After
  BY <1>1, <1>2
<1>6. pc' # "check" /\ pc' # "load" /\ pc' # "stream" /\ pc' # "runs"
  BY <1>5 DEF Before, Middle
<1>. QED  BY <1>4, <1>5, <1>6 DEF IInv, ResolveInv, RunsInv, StreamInv

\* The groups are resolved one name after the other.
LEMMA ResolveStep ==
  ASSUME IInv, CheckRules \/ ResolveName \/ CloseGroup
  PROVE  IInv'
<1>1. CASE \E e \in Errors : Raise(e)
  BY <1>1, ErrorStep
<1>. SUFFICES ASSUME ~ \E e \in Errors : Raise(e) PROVE IInv'
  BY <1>1
<1>2. "ValueError" \in Errors /\ "SolverResolutionError" \in Errors
  BY DEF Errors
<1>3. /\ UNCHANGED given /\ UNCHANGED <<runs, bySolver, streaming>>
      /\ pc \in Before /\ pc' = "resolve" /\ asked.rules # <<>>
  BY <1>2 DEF CheckRules, ResolveName, CloseGroup, Unresolved, Before, IInv, InputInv, Errors
<1>4. InputInv' /\ RunsInv' /\ StreamInv'
  BY <1>3 DEF IInv, InputInv, RunsInv, StreamInv, given, Before, Middle, After
<1>5. UNCHANGED <<runs, left, chunk, missing, next>>
  BY <1>3 DEF streaming
<1>6. PICK n \in 0..Len(asked.solvers) : Groups(n)
  BY <1>3 DEF IInv, ResolveInv
<1>7. /\ Len(asked.solvers) \in Nat /\ n \in Nat /\ Len(resolved) = n
      /\ name \in Nat \ {0}
      /\ n < Len(asked.solvers) => /\ name <= Len(Entry) + 1
                                   /\ group = UNION {db.live[Entry[j]] : j \in 1..(name - 1)}
      /\ runs = <<>> /\ left = <<>> /\ chunk = <<>> /\ missing = <<>> /\ next = 1
  BY <1>3, <1>6, InputIs DEF IInv, ResolveInv, Groups
<1>8. \A i : AddressesOf(i)' = AddressesOf(i)
  BY <1>3, SameInput
<1>9. CASE CheckRules
  <2>1. UNCHANGED <<name, group, resolved, asked, db>>
    BY <1>2, <1>9 DEF CheckRules, resolving, given
  <2>2. Groups(n)'
    BY <1>6, <1>8, <2>1 DEF Groups
  <2>. QED  BY <1>3, <1>4, <1>5, <1>7, <2>1, <2>2 DEF IInv, ResolveInv, Entry
<1>10. CASE ResolveName
  <2>1. /\ n < Len(asked.solvers) /\ name <= Len(Entry)
        /\ group' = group \cup db.live[Entry[name]] /\ name' = name + 1
        /\ UNCHANGED <<resolved, asked, db>>
    BY <1>2, <1>7, <1>10 DEF ResolveName, Unresolved, given
  <2>2. Groups(n)'
    BY <1>6, <1>8, <2>1 DEF Groups
  <2>3. Entry' = Entry
    BY <2>1 DEF Entry
  <2>4. 1..(name' - 1) = 1..(name - 1) \cup {name}
    BY <1>7, <2>1
  <2>5. group' = UNION {db.live[Entry[j]] : j \in 1..(name' - 1)}
    BY <1>7, <2>1, <2>4
  <2>6. name' <= Len(Entry) + 1 /\ name' \in Nat \ {0}
    <3>1. Len(Entry) \in Nat
      BY <1>7, <2>1, InputIs DEF Entry, IInv
    <3>. QED  BY <1>7, <2>1, <3>1
  <2>. QED  BY <1>3, <1>4, <1>5, <1>7, <2>1, <2>2, <2>3, <2>5, <2>6 DEF IInv, ResolveInv
<1>11. CASE CloseGroup
  <2>1. /\ n < Len(asked.solvers) /\ name > Len(Entry)
        /\ resolved' = Append(resolved, [label |-> Entry, addresses |-> group])
        /\ name' = 1 /\ group' = {} /\ UNCHANGED <<asked, db>>
    BY <1>2, <1>7, <1>11 DEF CloseGroup, Unresolved, given
  <2>2. /\ Entry = asked.solvers[n + 1] /\ n + 1 \in 1..Len(asked.solvers)
        /\ Entry \in Seq(Name) /\ Len(Entry) \in Nat /\ DOMAIN Entry = 1..Len(Entry)
    BY <1>7, <2>1, InputIs DEF Entry, IInv
  <2>3. group = AddressesOf(n + 1)
    <3>1. name = Len(Entry) + 1
      BY <1>7, <2>1, <2>2
    <3>2. name - 1 = Len(Entry)
      BY <2>2, <3>1
    <3>. QED  BY <1>7, <2>1, <2>2, <3>2 DEF AddressesOf
  <2>4. group \subseteq Address
    <3>1. db.live \in [Name -> SUBSET Address]
      BY InputIs DEF IInv, IsDatabase
    <3>2. \A j \in DOMAIN Entry : Entry[j] \in Name
      BY <2>2
    <3>. QED  BY <2>2, <2>3, <3>1, <3>2 DEF AddressesOf
  <2>5. Groups(n + 1)'
    <3>. DEFINE g == [label |-> Entry, addresses |-> group]
                G == [label : Seq(Name), addresses : SUBSET Address]
    <3>1. g \in G /\ resolved \in Seq(G) /\ Len(resolved) = n
          /\ \A i \in 1..n : /\ resolved[i].label = asked.solvers[i]
                             /\ resolved[i].addresses = AddressesOf(i)
      BY <1>6, <2>2, <2>4 DEF Groups
    <3>2. g.label = asked.solvers[n + 1] /\ g.addresses = AddressesOf(n + 1)
      BY <2>2, <2>3
    <3>. HIDE DEF g, G
    <3>3. /\ Append(resolved, g) \in Seq(G) /\ Len(Append(resolved, g)) = n + 1
          /\ \A i \in 1..n : Append(resolved, g)[i] = resolved[i]
          /\ Append(resolved, g)[n + 1] = g
      BY <1>7, <3>1
    <3>4. \A i \in 1..(n + 1) : i \in 1..n \/ i = n + 1
      BY <1>7
    <3>5. resolved' = Append(resolved, g)
      BY <2>1 DEF g
    <3>6. \A i \in 1..(n + 1) : /\ resolved'[i].label = asked.solvers[i]
                               /\ resolved'[i].addresses = AddressesOf(i)
      BY <3>1, <3>2, <3>3, <3>4, <3>5
    <3>. QED  BY <1>8, <2>1, <3>3, <3>5, <3>6 DEF Groups, G
  <2>6. Len(resolved') = n + 1 /\ n + 1 \in 0..Len(asked.solvers)
    BY <1>7, <2>2, <2>5 DEF Groups
  <2>7. Len(resolved') < Len(asked.solvers) => Len(Entry') \in Nat
    BY <1>7, <2>1, <2>6, InputIs DEF Entry, IInv
  <2>8. group' = UNION {db'.live[(Entry')[j]] : j \in 1..(name' - 1)}
    BY <2>1
  <2>. QED  BY <1>3, <1>4, <1>5, <1>7, <2>1, <2>5, <2>6, <2>7, <2>8 DEF IInv, ResolveInv
<1>. QED  BY <1>9, <1>10, <1>11

\* StartRuns gives every run its place; AnalyseQuotes finds its addresses by the label.
LEMMA StartStep ==
  ASSUME IInv, StartRuns
  PROVE  /\ IInv' /\ Len(runs') = NumRuns /\ DOMAIN runs' = 1..NumRuns
         /\ \A k \in 1..NumRuns : runs'[k].analysis = NoAnalysis /\ runs'[k].missing = <<>>
         /\ Len(left') = N
<1>1. /\ UNCHANGED given /\ UNCHANGED <<name, group, resolved, bySolver, chunk, next, missing>>
      /\ pc = "resolve" /\ Len(resolved) = Len(asked.solvers)
      /\ pc' = IF left' = <<>> THEN "done" ELSE IF asked.withQuotes THEN "quotes" ELSE "load"
  BY DEF StartRuns, resolving
<1>2. /\ asked.rules # <<>> /\ NumRules # 0 /\ chunk = <<>> /\ missing = <<>> /\ next = 1
      /\ InputInv
  BY <1>1, InputIs DEF IInv, InputInv, ResolveInv, Before, Middle, After, Errors
<1>3. Groups(Len(asked.solvers))
  BY <1>1 DEF IInv, ResolveInv, Before, Groups
<1>4. N \in Nat /\ NumRuns \in Nat
  BY <1>2, IdsAre, InputIs
<1>. DEFINE run(k) == [label |-> resolved[GroupOf(k)].label,
                       removed |-> resolved[GroupOf(k)].addresses,
                       rule |-> RuleOf(k), quoted |-> {}, analysis |-> NoAnalysis,
                       missing |-> <<>>, cow |-> Unknown]
<1>5. runs' = [k \in 1..NumRuns |-> run(k)] /\ left' = [i \in 1..N |-> i]
  BY <1>1, <1>2, IdsAre DEF StartRuns, NumRuns
<1>6. /\ DOMAIN runs' = 1..NumRuns /\ Len(runs') = NumRuns
      /\ \A k \in 1..NumRuns : runs'[k] = run(k)
  <2>. HIDE DEF run
  <2>. QED  BY <1>4, <1>5
<1>7. left' \in Seq(Nat) /\ Len(left') = N /\ \A i \in 1..N : left'[i] = i
  BY <1>4, <1>5
<1>8. InputInv'
  BY <1>1, <1>2 DEF InputInv, given, Before, Middle, After, Errors
<1>9. \A k : /\ GroupOf(k)' = GroupOf(k) /\ RuleOf(k)' = RuleOf(k)
            /\ AddressesOf(k)' = AddressesOf(k)
  BY <1>1, SameInput
<1>10. NumRuns' = NumRuns /\ N' = N /\ Ids' = Ids
  BY <1>1, SameInput
<1>11. ResolveInv'
  <2>1. Groups(Len(asked.solvers))'
    BY <1>1, <1>3, <1>9 DEF Groups, given
  <2>2. pc' = "quotes" => asked'.withQuotes
    BY <1>1 DEF given
  <2>. QED  BY <1>1, <2>1, <2>2 DEF ResolveInv, Before
<1>12. RunsInv'
  <2>1. \A k \in 1..NumRuns : /\ DOMAIN runs'[k] = RunFields
                             /\ runs'[k].label = asked.solvers[GroupOf(k)]
                             /\ runs'[k].removed = AddressesOf(GroupOf(k))
                             /\ runs'[k].rule = RuleOf(k) /\ runs'[k].missing = <<>>
                             /\ runs'[k].quoted = {} /\ runs'[k].analysis = NoAnalysis
    <3>. SUFFICES ASSUME NEW k \in 1..NumRuns
                  PROVE  /\ DOMAIN runs'[k] = RunFields
                         /\ runs'[k].label = asked.solvers[GroupOf(k)]
                         /\ runs'[k].removed = AddressesOf(GroupOf(k))
                         /\ runs'[k].rule = RuleOf(k) /\ runs'[k].missing = <<>>
                         /\ runs'[k].quoted = {} /\ runs'[k].analysis = NoAnalysis
      OBVIOUS
    <3>1. GroupOf(k) \in 1..Len(asked.solvers)
      BY <1>2, PlaceOf
    <3>2. /\ resolved[GroupOf(k)].label = asked.solvers[GroupOf(k)]
          /\ resolved[GroupOf(k)].addresses = AddressesOf(GroupOf(k))
      BY <1>3, <3>1 DEF Groups
    <3>. QED  BY <1>6, <3>2 DEF RunFields
  <2>2. pc' \in Middle => ~asked.withQuotes
    BY <1>1 DEF Middle
  <2>. QED  BY <1>1, <1>6, <1>9, <1>10, <2>1, <2>2 DEF RunsInv, given
<1>13. StreamInv'
  <2>0. Len(chunk') = 0
    BY <1>1, <1>2
  <2>1. Gone' = 0
    BY <2>0, <1>4, <1>7, <1>10 DEF Gone
  <2>2. chunk' = <<>> /\ missing' = <<>> /\ next' = 1
    BY <1>1, <1>2
  <2>3. ToSet(missing') = {} /\ 1..Gone' = {} /\ 1..Len(chunk') = {}
    BY <2>1, <2>2 DEF ToSet
  <2>4. pc' \in After => left' = <<>>
    BY <1>1 DEF After
  <2>5. pc' # "runs" /\ pc' # "stream"
    BY <1>1
  <2>6. chunk' \in Seq(Nat) /\ missing' \in Seq(Nat) /\ 1..Len(missing') = {}
    BY <2>2
  <2>7. \A i \in 1..Len(left') : left'[i] = N' - Len(left') + i
    BY <1>4, <1>7, <1>10
  <2>. QED  BY <1>7, <2>1, <2>2, <2>3, <2>4, <2>5, <2>6, <2>7 DEF StreamInv
<1>. QED  BY <1>6, <1>7, <1>8, <1>11, <1>12, <1>13 DEF IInv

LEMMA QuotesStep ==
  ASSUME IInv, AnalyseQuotes, db.quoteData
  PROVE  /\ IInv' /\ UNCHANGED <<left, chunk, next, missing>> /\ UNCHANGED given
         /\ pc = "quotes" /\ pc' = "load"
         /\ Len(runs') = NumRuns /\ DOMAIN runs' = 1..NumRuns
         /\ \A k \in 1..NumRuns : /\ runs'[k].analysis = runs[k].analysis
                                  /\ runs'[k].missing = runs[k].missing
<1>1. /\ UNCHANGED given /\ UNCHANGED <<name, group, resolved, left, chunk, next, missing>>
      /\ pc = "quotes" /\ pc' = "load"
      /\ bySolver' = [l \in {resolved[i].label : i \in DOMAIN resolved} |->
                        LET i == Max({j \in DOMAIN resolved : resolved[j].label = l})
                        IN  resolved[i].addresses]
      /\ runs' = [k \in DOMAIN runs |-> [runs[k] EXCEPT !.quoted = bySolver'[runs[k].label]]]
  BY DEF AnalyseQuotes, resolving, streaming
<1>2. /\ InputInv /\ asked.rules # <<>> /\ Groups(Len(asked.solvers)) /\ asked.withQuotes
      /\ Len(asked.solvers) \in Nat
  BY <1>1, InputIs DEF IInv, InputInv, ResolveInv, Errors
<1>3. /\ DOMAIN runs = 1..NumRuns /\ Len(runs) = NumRuns /\ NumRuns \in Nat
      /\ \A k \in 1..NumRuns : /\ DOMAIN runs[k] = RunFields
                               /\ runs[k].label = asked.solvers[GroupOf(k)]
                               /\ runs[k].removed = AddressesOf(GroupOf(k))
                               /\ runs[k].rule = RuleOf(k) /\ runs[k].missing = <<>>
  BY <1>1, <1>2, InputIs DEF IInv, RunsInv, After
<1>4. ASSUME NEW k \in 1..NumRuns
      PROVE  bySolver'[runs[k].label] = AddressesOf(GroupOf(k))
  <2>. DEFINE g == GroupOf(k)
              l == runs[k].label
              S == {j \in DOMAIN resolved : resolved[j].label = l}
              i == Max(S)
  <2>1. g \in 1..Len(asked.solvers) /\ DOMAIN resolved = 1..Len(asked.solvers)
    BY <1>2, PlaceOf DEF Groups
  <2>2. resolved[g].label = l
    BY <1>2, <1>3, <2>1 DEF Groups
  <2>3. g \in S /\ S \subseteq 1..Len(asked.solvers)
    BY <2>1, <2>2
  <2>4. i \in S
    <3>. HIDE DEF S
    <3>. QED  BY <1>2, <2>3, MaxIs
  <2>. HIDE DEF i
  <2>5. resolved[i].label = l /\ i \in 1..Len(asked.solvers)
    BY <2>3, <2>4
  <2>6. asked.solvers[i] = l /\ asked.solvers[g] = l
    BY <1>2, <1>3, <2>1, <2>5 DEF Groups
  <2>7. AddressesOf(i) = AddressesOf(g)
    BY <2>6 DEF AddressesOf
  <2>8. resolved[i].addresses = AddressesOf(g)
    BY <1>2, <2>5, <2>7 DEF Groups
  <2>9. l \in {resolved[j].label : j \in DOMAIN resolved}
    BY <2>1, <2>2
  <2>. QED  BY <1>1, <2>8, <2>9 DEF i
<1>5. /\ DOMAIN runs' = 1..NumRuns /\ Len(runs') = NumRuns
      /\ \A k \in 1..NumRuns : runs'[k] = [runs[k] EXCEPT !.quoted = bySolver'[runs[k].label]]
  <2>. DEFINE f == [k \in 1..NumRuns |-> [runs[k] EXCEPT !.quoted = bySolver'[runs[k].label]]]
  <2>1. runs' = f
    BY <1>1, <1>3
  <2>. QED  BY <1>3, <2>1
<1>6. \A k \in 1..NumRuns : /\ DOMAIN runs'[k] = RunFields
                           /\ runs'[k].label = runs[k].label /\ runs'[k].removed = runs[k].removed
                           /\ runs'[k].rule = runs[k].rule /\ runs'[k].missing = runs[k].missing
                           /\ runs'[k].analysis = runs[k].analysis
                           /\ runs'[k].quoted = AddressesOf(GroupOf(k))
  <2>. SUFFICES ASSUME NEW k \in 1..NumRuns
                PROVE  /\ DOMAIN runs'[k] = RunFields
                       /\ runs'[k].label = runs[k].label /\ runs'[k].removed = runs[k].removed
                       /\ runs'[k].rule = runs[k].rule /\ runs'[k].missing = runs[k].missing
                       /\ runs'[k].analysis = runs[k].analysis
                       /\ runs'[k].quoted = AddressesOf(GroupOf(k))
    OBVIOUS
  <2>1. DOMAIN runs[k] = RunFields /\ runs'[k] = [runs[k] EXCEPT !.quoted = AddressesOf(GroupOf(k))]
    BY <1>3, <1>4, <1>5
  <2>. QED  BY <2>1 DEF RunFields
<1>7. \A k : /\ GroupOf(k)' = GroupOf(k) /\ RuleOf(k)' = RuleOf(k)
            /\ AddressesOf(k)' = AddressesOf(k)
  BY <1>1, SameInput
<1>8. NumRuns' = NumRuns /\ N' = N /\ Ids' = Ids /\ Gone' = Gone
  BY <1>1, SameInput DEF Gone
<1>9. InputInv' /\ ResolveInv'
  BY <1>1, <1>2 DEF InputInv, ResolveInv, given, Before, Middle
<1>10. RunsInv'
  <2>1. asked' = asked /\ pc' \notin After /\ pc' \in Middle
    BY <1>1 DEF given, After, Middle
  <2>2. \A k \in 1..NumRuns :
           /\ DOMAIN runs'[k] = RunFields
           /\ runs'[k].label = asked.solvers[GroupOf(k)]
           /\ runs'[k].removed = AddressesOf(GroupOf(k))
           /\ runs'[k].rule = RuleOf(k) /\ runs'[k].missing = <<>>
           /\ runs'[k].quoted = IF asked.withQuotes THEN AddressesOf(GroupOf(k)) ELSE {}
    BY <1>2, <1>3, <1>6
  <2>. QED  BY <1>5, <1>7, <1>8, <2>1, <2>2 DEF RunsInv
<1>11. StreamInv'
  BY <1>1, <1>8 DEF IInv, StreamInv, Middle, After
<1>. QED  BY <1>1, <1>5, <1>6, <1>9, <1>10, <1>11 DEF IInv

\* The steps in the middle of the loop that touch no run.
LEMMA KeepRuns ==
  ASSUME IInv, UNCHANGED given, UNCHANGED runs, pc \in Middle, pc' \in Middle
  PROVE  /\ InputInv' /\ ResolveInv' /\ RunsInv'
         /\ N' = N /\ Ids' = Ids /\ NumRuns' = NumRuns
         /\ \A i : Row(i)' = Row(i)
<1>1. /\ N' = N /\ Ids' = Ids /\ NumRuns' = NumRuns /\ asked' = asked
      /\ \A k : /\ GroupOf(k)' = GroupOf(k) /\ RuleOf(k)' = RuleOf(k)
                /\ AddressesOf(k)' = AddressesOf(k) /\ Row(k)' = Row(k)
  BY SameInput DEF given
<1>2. \A c \in Middle : c \notin Before /\ c \notin After /\ c # "quotes" /\ c # "check" /\ c \notin Errors
  BY DEF Middle, Before, After, Errors
<1>3. InputInv'
  BY <1>2 DEF IInv, InputInv, given
<1>4. ResolveInv'
  BY <1>2 DEF ResolveInv
<1>5. RunsInv'
  BY <1>1, <1>2 DEF IInv, RunsInv
<1>. QED  BY <1>1, <1>3, <1>4, <1>5

\* The bundle at the head of the chunk is the next auction of the window.
LEMMA HeadIs ==
  ASSUME IInv, pc \in Middle, chunk # <<>>
  PROVE  /\ Gone \in Nat /\ Gone + 1 \in 1..N /\ Head(chunk) = Gone + 1 /\ Bundle = Ids[Gone + 1]
         /\ Tail(chunk) \in Seq(Nat) /\ Len(Tail(chunk)) = Len(chunk) - 1
         /\ \A i \in 1..Len(Tail(chunk)) : Tail(chunk)[i] = Gone + 1 + i
         /\ Len(chunk) \in Nat /\ Len(left) \in Nat /\ N \in Nat
<1>1. /\ left \in Seq(Nat) /\ chunk \in Seq(Nat) /\ Gone \in Nat
      /\ \A i \in 1..Len(chunk) : chunk[i] = Gone + i
  BY DEF IInv, StreamInv
<1>2. N \in Nat /\ \A i \in 1..N : Ids[i] = Row(i)
  BY IdsAre DEF IInv
<1>3. Len(chunk) \in Nat /\ Len(chunk) >= 1 /\ Len(left) \in Nat /\ Head(chunk) = chunk[1]
  BY <1>1
<1>4. Gone + 1 \in 1..N
  BY <1>1, <1>2, <1>3 DEF Gone
<1>5. Head(chunk) = Gone + 1
  BY <1>1, <1>3
<1>6. Bundle = Ids[Gone + 1]
  BY <1>2, <1>4, <1>5 DEF Bundle
<1>. HIDE DEF Gone
<1>7. /\ Tail(chunk) \in Seq(Nat) /\ Len(Tail(chunk)) = Len(chunk) - 1
      /\ \A i \in 1..Len(Tail(chunk)) : Tail(chunk)[i] = chunk[i + 1]
  BY <1>1, <1>3
<1>8. ASSUME NEW i \in 1..Len(Tail(chunk))
      PROVE  Tail(chunk)[i] = Gone + 1 + i
  <2>1. i + 1 \in 1..Len(chunk)
    BY <1>3, <1>7
  <2>2. chunk[i + 1] = Gone + (i + 1)
    BY <1>1, <2>1
  <2>. QED  BY <1>1, <1>7, <2>2
<1>. QED  BY <1>1, <1>2, <1>3, <1>4, <1>5, <1>6, <1>7, <1>8

\* An auction leaves the chunk, and is named if it was dropped.
LEMMA TailStep ==
  ASSUME IInv, pc \in {"stream", "runs"}, chunk # <<>>, UNCHANGED given, UNCHANGED <<runs, left>>,
         pc' = "stream", next' = 1, chunk' = Tail(chunk),
         missing' = IF Bundle.bidders # {} /\ ~Bundle.ordersKnown
                    THEN Append(missing, Head(chunk)) ELSE missing
  PROVE  IInv' /\ Gone' = Gone + 1
<1>1. pc \in Middle /\ pc' \in Middle
  BY DEF Middle
<1>2. /\ InputInv' /\ ResolveInv' /\ RunsInv' /\ N' = N /\ Ids' = Ids
  BY <1>1, KeepRuns
<1>3. /\ Gone \in Nat /\ Head(chunk) = Gone + 1 /\ Bundle = Ids[Gone + 1]
      /\ Tail(chunk) \in Seq(Nat) /\ Len(Tail(chunk)) = Len(chunk) - 1
      /\ \A i \in 1..Len(Tail(chunk)) : Tail(chunk)[i] = Gone + 1 + i
      /\ Len(chunk) \in Nat /\ Len(left) \in Nat /\ N \in Nat
  BY <1>1, HeadIs
<1>4. Gone' = Gone + 1
  BY <1>2, <1>3 DEF Gone
<1>. HIDE DEF Gone
<1>5. /\ missing \in Seq(Nat) /\ left \in Seq(Nat)
      /\ \A i \in 1..Len(left) : left[i] = N - Len(left) + i
      /\ ToSet(missing) = {i \in 1..Gone : Ids[i].bidders # {} /\ ~Ids[i].ordersKnown}
  BY <1>1 DEF IInv, StreamInv
<1>6. missing' \in Seq(Nat)
  BY <1>3, <1>5
<1>7. ToSet(missing') = ToSet(missing) \cup
        (IF Bundle.bidders # {} /\ ~Bundle.ordersKnown THEN {Gone + 1} ELSE {})
  <2>1. CASE Bundle.bidders # {} /\ ~Bundle.ordersKnown
    <3>. DEFINE m == Append(missing, Gone + 1)
    <3>1. /\ DOMAIN m = 1..(Len(missing) + 1) /\ Len(missing) \in Nat
          /\ DOMAIN missing = 1..Len(missing)
          /\ m[Len(missing) + 1] = Gone + 1 /\ \A i \in 1..Len(missing) : m[i] = missing[i]
      BY <1>3, <1>5
    <3>2. missing' = m
      BY <1>3, <2>1
    <3>. HIDE DEF m
    <3>3. \A i \in 1..(Len(missing) + 1) : i \in 1..Len(missing) \/ i = Len(missing) + 1
      BY <3>1
    <3>4. 1..Len(missing) \subseteq 1..(Len(missing) + 1) /\ Len(missing) + 1 \in 1..(Len(missing) + 1)
      BY <3>1
    <3>. QED  BY <2>1, <3>1, <3>2, <3>3, <3>4 DEF ToSet
  <2>2. CASE ~(Bundle.bidders # {} /\ ~Bundle.ordersKnown)
    BY <2>2
  <2>. QED  BY <2>1, <2>2
<1>8. 1..(Gone + 1) = 1..Gone \cup {Gone + 1}
  BY <1>3
<1>9. ToSet(missing') = {i \in 1..(Gone + 1) : Ids[i].bidders # {} /\ ~Ids[i].ordersKnown}
  BY <1>3, <1>5, <1>7, <1>8
<1>10. \A i, j \in 1..Len(missing') : i < j => missing'[i] < missing'[j]
  <2>0. \A i, j \in 1..Len(missing) : i < j => missing[i] < missing[j]
    BY <1>1 DEF IInv, StreamInv
  <2>1. CASE Bundle.bidders # {} /\ ~Bundle.ordersKnown
    <3>. DEFINE L == Len(missing)
                m == Append(missing, Gone + 1)
    <3>1. missing' = m /\ L \in Nat
      BY <1>3, <1>5, <2>1
    <3>2. /\ Len(m) = L + 1 /\ m[L + 1] = Gone + 1
          /\ \A i \in 1..L : m[i] = missing[i]
      BY <1>3, <1>5
    <3>3. \A i \in 1..L : missing[i] \in Nat /\ missing[i] <= Gone
      <4>1. \A i \in 1..L : missing[i] \in ToSet(missing)
        BY <1>5 DEF ToSet
      <4>2. ToSet(missing) \subseteq 1..Gone
        BY <1>5
      <4>. QED  BY <1>3, <4>1, <4>2
    <3>. SUFFICES ASSUME NEW i \in 1..(L + 1), NEW j \in 1..(L + 1), i < j
                  PROVE  m[i] < m[j]
      BY <3>1, <3>2
    <3>. HIDE DEF m, L
    <3>4. i \in 1..L /\ (j \in 1..L \/ j = L + 1)
      BY <3>1
    <3>5. CASE j = L + 1
      BY <1>3, <3>2, <3>3, <3>4, <3>5
    <3>6. CASE j \in 1..L
      BY <2>0, <3>2, <3>4, <3>6 DEF L
    <3>. QED  BY <3>4, <3>5, <3>6
  <2>2. CASE ~(Bundle.bidders # {} /\ ~Bundle.ordersKnown)
    BY <2>0, <2>2
  <2>. QED  BY <2>1, <2>2
<1>11. StreamInv'
  <2>1. left' = left /\ chunk' = Tail(chunk) /\ Gone + 1 \in Nat
    BY <1>3
  <2>. QED  BY <1>2, <1>3, <1>4, <1>5, <1>6, <1>9, <1>10, <2>1 DEF StreamInv, After
<1>. QED  BY <1>2, <1>4, <1>11 DEF IInv

\* A sequence of positions cut in two.
LEMMA CutIs ==
  ASSUME NEW s \in Seq(Nat), NEW n \in 1..Len(s)
  PROVE  /\ SubSeq(s, 1, n) \in Seq(Nat) /\ Len(SubSeq(s, 1, n)) = n
         /\ \A i \in 1..n : SubSeq(s, 1, n)[i] = s[i]
         /\ SubSeq(s, n + 1, Len(s)) \in Seq(Nat) /\ Len(SubSeq(s, n + 1, Len(s))) = Len(s) - n
         /\ \A i \in 1..(Len(s) - n) : SubSeq(s, n + 1, Len(s))[i] = s[n + i]
<1>1. Len(s) \in Nat /\ n \in Nat /\ n >= 1 /\ n <= Len(s)
  OBVIOUS
<1>2. SubSeq(s, 1, n) \in Seq(Nat) /\ Len(SubSeq(s, 1, n)) = n
      /\ \A i \in 1..n : SubSeq(s, 1, n)[i] = s[i]
  BY <1>1
<1>3. \A i \in Nat : i >= 1 /\ i <= Len(s) => s[i] \in Nat
  OBVIOUS
<1>. DEFINE m == Len(s) - n
            t == [i \in 1..m |-> s[n + i]]
<1>4. m \in Nat /\ \A i \in 1..m : n + i \in Nat /\ n + i >= 1 /\ n + i <= Len(s)
  BY <1>1
<1>5. t \in Seq(Nat) /\ Len(t) = m
  <2>1. \A i \in 1..m : s[n + i] \in Nat
    BY <1>3, <1>4
  <2>. HIDE DEF m
  <2>. QED  BY <1>4, <2>1
<1>6. SubSeq(s, n + 1, Len(s)) = t
  <2>1. SubSeq(s, n + 1, Len(s)) = [i \in 1..(1 + Len(s) - (n + 1)) |-> s[i + (n + 1) - 1]]
    OBVIOUS
  <2>2. 1 + Len(s) - (n + 1) = m
    BY <1>1
  <2>3. \A i \in 1..m : i + (n + 1) - 1 = n + i
    BY <1>1
  <2>. HIDE DEF m
  <2>. QED  BY <2>1, <2>2, <2>3
<1>7. \A i \in 1..m : t[i] = s[n + i]
  OBVIOUS
<1>. HIDE DEF t
<1>. QED  BY <1>2, <1>5, <1>6, <1>7

\* A chunk is the beginning of what is left.
LEMMA LoadStep ==
  ASSUME IInv, pc = "load", left # <<>>, UNCHANGED given, UNCHANGED <<runs, next, missing>>,
         NEW n, n = IF Len(left) < ChunkSize THEN Len(left) ELSE ChunkSize,
         chunk' = SubSeq(left, 1, n), left' = SubSeq(left, n + 1, Len(left)), pc' = "stream"
  PROVE  IInv' /\ Gone' = Gone
<1>1. pc \in Middle /\ pc' \in Middle
  BY DEF Middle
<1>2. /\ InputInv' /\ ResolveInv' /\ RunsInv' /\ N' = N /\ Ids' = Ids
  BY <1>1, KeepRuns
<1>3. /\ left \in Seq(Nat) /\ Gone \in Nat /\ chunk = <<>> /\ missing \in Seq(Nat)
      /\ \A i \in 1..Len(left) : left[i] = N - Len(left) + i
      /\ ToSet(missing) = {i \in 1..Gone : Ids[i].bidders # {} /\ ~Ids[i].ordersKnown}
      /\ \A i, j \in 1..Len(missing) : i < j => missing[i] < missing[j]
      /\ next = 1
  BY <1>1 DEF IInv, StreamInv
<1>4. N \in Nat /\ ChunkSize \in Nat \ {0}
  BY IdsAre, InputIs DEF IInv
<1>. DEFINE L == Len(left)
<1>5. L \in Nat /\ n \in Nat /\ n \in 1..L
  BY <1>3, <1>4
<1>6. Gone = N - L
  BY <1>3, <1>4, <1>5 DEF Gone
<1>7. /\ chunk' \in Seq(Nat) /\ Len(chunk') = n /\ \A i \in 1..n : chunk'[i] = left[i]
      /\ left' \in Seq(Nat) /\ Len(left') = L - n /\ \A i \in 1..(L - n) : left'[i] = left[n + i]
  BY <1>3, <1>5, CutIs
<1>8. Gone' = N - (L - n) - n
  BY <1>2, <1>7 DEF Gone
<1>9. Gone' = Gone
  BY <1>4, <1>5, <1>6, <1>8
<1>10. \A i \in 1..n : i \in 1..L /\ N - L + i = Gone + i
  BY <1>5, <1>6
<1>11. \A i \in 1..(L - n) : n + i \in 1..L /\ N - L + (n + i) = N - (L - n) + i
  BY <1>4, <1>5
<1>12. next' = 1 /\ missing' = missing
  BY <1>3
<1>. HIDE DEF Gone, L
<1>13. \A i \in 1..Len(left) : left[i] = N - L + i
  BY <1>3 DEF L
<1>14. (\A i \in 1..L : left[i] = N - L + i) /\ pc' = "stream"
  BY <1>13 DEF L
<1>15. /\ \A i \in 1..Len(chunk') : chunk'[i] = Gone' + i
       /\ \A i \in 1..Len(left') : left'[i] = N' - Len(left') + i
  <2>1. \A i \in 1..n : chunk'[i] = Gone' + i
    BY <1>7, <1>9, <1>10, <1>14
  <2>2. \A i \in 1..(L - n) : left'[i] = N' - (L - n) + i
    BY <1>2, <1>7, <1>11, <1>14
  <2>. QED  BY <1>7, <2>1, <2>2
<1>16. StreamInv'
  BY <1>2, <1>3, <1>7, <1>9, <1>12, <1>14, <1>15 DEF StreamInv, After
<1>. QED  BY <1>2, <1>9, <1>16 DEF IInv

\* The chunk is used up, or its next auction goes to the runs.
LEMMA YieldStep ==
  ASSUME IInv, NextChunk \/ Yield
  PROVE  IInv' /\ Gone' = Gone /\ next' = next /\ pc = "stream" /\ pc' \in Middle
         /\ UNCHANGED given /\ UNCHANGED runs
<1>1. /\ UNCHANGED given /\ UNCHANGED <<runs, left, chunk, missing>>
      /\ pc = "stream" /\ pc' \in {"load", "runs"}
  BY DEF NextChunk, Yield, Streaming, streaming
<1>2. pc \in Middle /\ pc' \in Middle /\ pc \notin After /\ pc' \notin After
  BY <1>1 DEF Middle, After
<1>3. /\ InputInv' /\ ResolveInv' /\ RunsInv' /\ N' = N /\ Ids' = Ids /\ NumRuns' = NumRuns
      /\ \A i : Row(i)' = Row(i)
  BY <1>1, <1>2, KeepRuns
<1>4. next = 1 /\ next' = 1
  BY <1>1 DEF IInv, StreamInv, NextChunk, Yield, streaming
<1>5. Gone' = Gone
  BY <1>1, <1>3 DEF Gone
<1>6. pc' = "load" => chunk = <<>>
  BY DEF NextChunk, Yield
<1>7. pc' = "runs" => chunk # <<>> /\ Bundle.bidders # {} /\ Bundle.ordersKnown
  BY DEF NextChunk, Yield, Streaming
<1>8. Bundle' = Bundle
  BY <1>1, <1>3 DEF Bundle
<1>9. NumRuns \in Nat
  BY InputIs DEF IInv
<1>. HIDE DEF Gone
<1>10. StreamInv'
  BY <1>1, <1>2, <1>3, <1>4, <1>5, <1>6, <1>7, <1>8, <1>9 DEF IInv, StreamInv
<1>. QED  BY <1>1, <1>2, <1>3, <1>4, <1>5, <1>10 DEF IInv

\* The scenario of a run is the one its place asks for.
LEMMA ScenarioIs ==
  ASSUME IInv, pc \in Middle, NEW k \in 1..NumRuns
  PROVE  Scenario(k) = ScenarioOf(k)
<1>1. pc \notin After /\ pc \notin Errors /\ pc # "check"
  BY DEF Middle, After, Errors
<1>2. NumRules # 0 /\ NumRules \in Nat /\ NumRuns \in Nat
  BY <1>1, InputIs DEF IInv, InputInv
<1>3. Requested(k)
  BY <1>2 DEF Requested, NumRuns
<1>4. /\ runs[k].removed = AddressesOf(GroupOf(k)) /\ runs[k].rule = RuleOf(k)
      /\ runs[k].quoted = IF asked.withQuotes THEN AddressesOf(GroupOf(k)) ELSE {}
  BY <1>1 DEF IInv, RunsInv
<1>. QED  BY <1>3, <1>4 DEF Scenario, ScenarioOf

\* One run sees the bundle, and no other run does.
LEMMA AnalyseStep ==
  ASSUME IInv, AnalyseRun, ~Unsettled(Bundle, Scenario(next))
  PROVE  /\ IInv' /\ Gone' = Gone /\ next' = next + 1 /\ pc = "runs" /\ pc' = "runs"
         /\ next \in 1..NumRuns /\ UNCHANGED given
         /\ \A k \in 1..NumRuns :
              /\ runs'[k].missing = runs[k].missing
              /\ runs'[k].analysis = IF k = next THEN AddTo(runs[k].analysis, Bundle, ScenarioOf(k))
                                     ELSE runs[k].analysis
<1>1. /\ UNCHANGED given /\ UNCHANGED <<resolved, left, chunk, missing>>
      /\ pc = "runs" /\ pc' = "runs" /\ next' = next + 1 /\ next <= Len(runs)
      /\ runs' = [runs EXCEPT ![next].analysis = AddTo(@, Bundle, Scenario(next))]
  BY DEF AnalyseRun, resolving, Raise
<1>2. pc \in Middle /\ pc \notin After /\ pc \notin Before /\ pc \notin Errors
  BY <1>1 DEF Middle, After, Before, Errors
<1>3. /\ N' = N /\ Ids' = Ids /\ NumRuns' = NumRuns /\ asked' = asked
      /\ \A k : /\ GroupOf(k)' = GroupOf(k) /\ RuleOf(k)' = RuleOf(k)
                /\ AddressesOf(k)' = AddressesOf(k) /\ Row(k)' = Row(k)
  BY <1>1, SameInput DEF given
<1>4. /\ DOMAIN runs = 1..NumRuns /\ Len(runs) = NumRuns /\ NumRuns \in Nat
      /\ \A k \in 1..NumRuns :
           /\ DOMAIN runs[k] = RunFields
           /\ runs[k].label = asked.solvers[GroupOf(k)]
           /\ runs[k].removed = AddressesOf(GroupOf(k))
           /\ runs[k].rule = RuleOf(k) /\ runs[k].missing = <<>>
           /\ runs[k].quoted = IF asked.withQuotes THEN AddressesOf(GroupOf(k)) ELSE {}
  BY <1>2, InputIs DEF IInv, RunsInv
<1>5. next \in 1..NumRuns
  BY <1>1, <1>4 DEF IInv, StreamInv
<1>. DEFINE added == AddTo(runs[next].analysis, Bundle, Scenario(next))
<1>6. /\ DOMAIN runs' = 1..NumRuns /\ Len(runs') = NumRuns
      /\ \A k \in 1..NumRuns :
           runs'[k] = IF k = next THEN [runs[k] EXCEPT !.analysis = added] ELSE runs[k]
  <2>1. runs' = [runs EXCEPT ![next] = [runs[next] EXCEPT !.analysis = added]]
    BY <1>1
  <2>. DEFINE changed == [runs[next] EXCEPT !.analysis = added]
  <2>. HIDE DEF changed
  <2>2. runs' = [runs EXCEPT ![next] = changed]
    BY <2>1 DEF changed
  <2>3. DOMAIN runs' = 1..NumRuns /\ \A k \in 1..NumRuns : runs'[k] = IF k = next THEN changed ELSE runs[k]
    BY <1>4, <1>5, <2>2
  <2>4. Len(runs') = NumRuns
    <3>1. runs' = [k \in 1..NumRuns |-> IF k = next THEN changed ELSE runs[k]]
      BY <1>4, <1>5, <2>2
    <3>. QED  BY <1>4, <3>1
  <2>. QED  BY <2>3, <2>4 DEF changed
<1>. HIDE DEF added
<1>7. \A k \in 1..NumRuns :
        /\ DOMAIN runs'[k] = RunFields
        /\ runs'[k].label = runs[k].label /\ runs'[k].removed = runs[k].removed
        /\ runs'[k].rule = runs[k].rule /\ runs'[k].missing = runs[k].missing
        /\ runs'[k].quoted = runs[k].quoted
        /\ runs'[k].analysis = IF k = next THEN added ELSE runs[k].analysis
  <2>. SUFFICES ASSUME NEW k \in 1..NumRuns
                PROVE  /\ DOMAIN runs'[k] = RunFields
                       /\ runs'[k].label = runs[k].label /\ runs'[k].removed = runs[k].removed
                       /\ runs'[k].rule = runs[k].rule /\ runs'[k].missing = runs[k].missing
                       /\ runs'[k].quoted = runs[k].quoted
                       /\ runs'[k].analysis = IF k = next THEN added ELSE runs[k].analysis
    OBVIOUS
  <2>1. DOMAIN runs[k] = RunFields
    BY <1>4
  <2>2. CASE k = next
    <3>1. runs'[k] = [runs[k] EXCEPT !.analysis = added]
      BY <1>6, <2>2
    <3>. QED  BY <2>1, <2>2, <3>1 DEF RunFields
  <2>3. CASE k # next
    BY <1>6, <2>1, <2>3
  <2>. QED  BY <2>2, <2>3
<1>8. InputInv' /\ ResolveInv'
  BY <1>1, <1>2 DEF IInv, InputInv, ResolveInv, given, Before
<1>9. RunsInv'
  BY <1>1, <1>2, <1>3, <1>4, <1>6, <1>7 DEF RunsInv
<1>10. Gone' = Gone /\ Bundle' = Bundle
  BY <1>1, <1>3 DEF Gone, Bundle
<1>11. next' \in 1..(NumRuns + 1)
  BY <1>1, <1>4, <1>5
<1>. HIDE DEF Gone
<1>12. StreamInv'
  BY <1>1, <1>2, <1>3, <1>10, <1>11 DEF IInv, StreamInv
<1>13. added = AddTo(runs[next].analysis, Bundle, ScenarioOf(next))
  BY <1>2, <1>5, ScenarioIs DEF added
<1>. QED  BY <1>1, <1>5, <1>7, <1>8, <1>9, <1>10, <1>12, <1>13 DEF IInv

\* In the end every run gets the auctions left out, and is converted.
LEMMA EndStep ==
  ASSUME IInv, Finish \/ ConvertRuns
  PROVE  /\ IInv' /\ Gone' = Gone /\ next' = next /\ pc' \in After
         /\ Gone = N /\ UNCHANGED given
         /\ \A k \in 1..NumRuns :
              /\ runs'[k].analysis = runs[k].analysis
              /\ runs'[k].missing = IF pc = "load" THEN missing ELSE runs[k].missing
<1>1. /\ UNCHANGED given /\ UNCHANGED <<resolved, left, chunk, missing, next>>
      /\ pc \in {"load", "convert"} /\ pc' \in After
  BY DEF Finish, ConvertRuns, resolving, streaming, After
<1>2. pc # "check" /\ pc \notin Errors /\ pc \notin Before
      /\ \A c \in After : c \notin Errors /\ c # "check" /\ c \notin Before /\ c # "quotes"
                          /\ c \notin Middle /\ c # "load" /\ c # "stream" /\ c # "runs"
  BY <1>1 DEF Errors, Before, After, Middle
<1>3. left = <<>> /\ chunk = <<>> /\ next = 1
  BY <1>1 DEF Finish, ConvertRuns, IInv, StreamInv, After
<1>4. N' = N /\ Ids' = Ids /\ NumRuns' = NumRuns
  BY <1>1, SameInput
<1>5. Gone' = Gone /\ Gone = N
  <2>1. Len(left) = 0 /\ Len(chunk) = 0
    BY <1>3
  <2>2. N \in Nat
    BY IdsAre DEF IInv
  <2>. QED  BY <1>1, <1>4, <2>1, <2>2 DEF Gone
<1>6. DOMAIN runs = 1..NumRuns /\ Len(runs) = NumRuns /\ NumRuns \in Nat
      /\ \A k \in 1..NumRuns : DOMAIN runs[k] = RunFields
  BY <1>1, InputIs DEF IInv, RunsInv, Middle, After
<1>7. PICK run : /\ runs' = [k \in DOMAIN runs |-> run[k]]
                 /\ \A k \in 1..NumRuns :
                      /\ DOMAIN run[k] = RunFields
                      /\ run[k].analysis = runs[k].analysis
                      /\ run[k].missing = IF pc = "load" THEN missing ELSE runs[k].missing
  <2>1. CASE pc = "load"
    <3>. DEFINE f == [k \in DOMAIN runs |-> [runs[k] EXCEPT !.missing = missing]]
    <3>1. runs' = f
      BY <2>1 DEF Finish, ConvertRuns
    <3>2. ASSUME NEW k \in 1..NumRuns
          PROVE  /\ DOMAIN f[k] = RunFields /\ f[k].analysis = runs[k].analysis
                 /\ f[k].missing = missing
      <4>1. f[k] = [runs[k] EXCEPT !.missing = missing] /\ DOMAIN runs[k] = RunFields
        BY <1>6
      <4>. HIDE DEF f
      <4>. QED  BY <4>1 DEF RunFields
    <3>3. f = [k \in DOMAIN runs |-> f[k]]
      OBVIOUS
    <3>. HIDE DEF f
    <3>. QED  BY <2>1, <3>1, <3>2, <3>3
  <2>2. CASE pc # "load"
    <3>. DEFINE f == [k \in DOMAIN runs |->
                        [runs[k] EXCEPT !.cow = Convert(runs[k].analysis)]]
    <3>1. runs' = f
      BY <2>2 DEF Finish, ConvertRuns
    <3>2. ASSUME NEW k \in 1..NumRuns
          PROVE  /\ DOMAIN f[k] = RunFields /\ f[k].analysis = runs[k].analysis
                 /\ f[k].missing = runs[k].missing
      <4>1. /\ f[k] = [runs[k] EXCEPT !.cow = Convert(runs[k].analysis)]
            /\ DOMAIN runs[k] = RunFields
        BY <1>6
      <4>. HIDE DEF f
      <4>. QED  BY <4>1 DEF RunFields
    <3>3. f = [k \in DOMAIN runs |-> f[k]]
      OBVIOUS
    <3>. HIDE DEF f
    <3>. QED  BY <2>2, <3>1, <3>2, <3>3
  <2>. QED  BY <2>1, <2>2
<1>8. /\ DOMAIN runs' = 1..NumRuns /\ Len(runs') = NumRuns
      /\ \A k \in 1..NumRuns : runs'[k] = run[k]
  BY <1>6, <1>7
<1>9. InputInv' /\ ResolveInv'
  BY <1>1, <1>2 DEF IInv, InputInv, ResolveInv, given
<1>10. RunsInv'
  BY <1>1, <1>2, <1>4, <1>7, <1>8 DEF RunsInv
<1>11. StreamInv'
  BY <1>1, <1>2, <1>3 DEF StreamInv
<1>. QED  BY <1>1, <1>3, <1>5, <1>7, <1>8, <1>9, <1>10, <1>11 DEF IInv

\* An error that a step of the loop raises.
Raises == \E e \in Errors : Raise(e)

LEMMA RaiseSteps ==
  ASSUME IInv, Raises
  PROVE  IInv' /\ pc' \in Errors /\ UNCHANGED given /\ UNCHANGED <<runs, left, chunk, next>>
BY ErrorStep DEF Raises, Raise, streaming

\* A chunk is read whole, or the program ends.
LEMMA ChunkStep ==
  ASSUME IInv, LoadChunk, ~Raises
  PROVE  /\ IInv' /\ Gone' = Gone /\ next' = next /\ pc = "load" /\ pc' = "stream"
         /\ UNCHANGED given /\ UNCHANGED runs
<1>1. "MissingPricesError" \in Errors
  BY DEF Errors
<1>2. ~Raise("MissingPricesError")
  BY <1>1 DEF Raises
<1>. DEFINE n == IF Len(left) < ChunkSize THEN Len(left) ELSE ChunkSize
<1>3. /\ pc = "load" /\ left # <<>> /\ pc' = "stream"
      /\ chunk' = SubSeq(left, 1, n) /\ left' = SubSeq(left, n + 1, Len(left))
      /\ UNCHANGED given /\ UNCHANGED <<runs, next, missing>>
  BY <1>2 DEF LoadChunk
<1>. HIDE DEF n
<1>4. IInv' /\ Gone' = Gone
  BY <1>3, LoadStep DEF n
<1>. QED  BY <1>3, <1>4

\* An auction is passed over, or behind all runs.
LEMMA LeaveStep ==
  ASSUME IInv, SkipEmpty \/ DropUnknown \/ NextBundle
  PROVE  /\ IInv' /\ Gone' = Gone + 1 /\ next' = 1 /\ pc \in {"stream", "runs"} /\ pc' = "stream"
         /\ UNCHANGED given /\ UNCHANGED runs /\ chunk # <<>>
         /\ pc = "stream" => next = 1 /\ (Bundle.bidders = {} \/ ~Bundle.ordersKnown)
         /\ pc = "runs" => next = NumRuns + 1
<1>1. /\ UNCHANGED given /\ UNCHANGED <<runs, left>>
      /\ pc \in {"stream", "runs"} /\ pc' = "stream" /\ chunk' = Tail(chunk)
  BY DEF SkipEmpty, DropUnknown, NextBundle, Streaming
<1>2. /\ pc = "runs" => /\ chunk # <<>> /\ Bundle.bidders # {} /\ Bundle.ordersKnown
                       /\ next = NumRuns + 1
      /\ pc = "stream" => next = 1
  <2>1. pc = "runs" => Len(runs) = NumRuns /\ NumRuns \in Nat
    BY InputIs DEF IInv, RunsInv, Middle
  <2>2. pc = "runs" => next > Len(runs)
    BY DEF SkipEmpty, DropUnknown, NextBundle, Streaming
  <2>. QED  BY <2>1, <2>2 DEF IInv, StreamInv
<1>3. chunk # <<>> /\ next' = 1
  BY <1>2 DEF SkipEmpty, DropUnknown, NextBundle, Streaming
<1>4. missing' = IF Bundle.bidders # {} /\ ~Bundle.ordersKnown
                 THEN Append(missing, Head(chunk)) ELSE missing
  BY <1>2 DEF SkipEmpty, DropUnknown, NextBundle, Streaming
<1>5. pc = "stream" => Bundle.bidders = {} \/ ~Bundle.ordersKnown
  BY DEF SkipEmpty, DropUnknown, NextBundle, Streaming
<1>6. IInv' /\ Gone' = Gone + 1
  BY <1>1, <1>3, <1>4, TailStep
<1>. QED  BY <1>1, <1>2, <1>3, <1>5, <1>6

\* Every step is one of these.
LEMMA Steps ==
  ASSUME Next
  PROVE  \/ Raises
         \/ CheckRules \/ ResolveName \/ CloseGroup \/ StartRuns
         \/ AnalyseQuotes /\ db.quoteData
         \/ LoadChunk \/ NextChunk \/ Yield
         \/ SkipEmpty \/ DropUnknown \/ NextBundle
         \/ AnalyseRun /\ ~Unsettled(Bundle, Scenario(next))
         \/ Finish \/ ConvertRuns \/ UNCHANGED vars
<1>1. /\ "NoQuoteDataError" \in Errors /\ "MissingAuctionContextError" \in Errors
      /\ "MissingSettlementError" \in Errors
  BY DEF Errors
<1>2. AnalyseQuotes => db.quoteData \/ Raises
  BY <1>1 DEF AnalyseQuotes, Raises
<1>3. RaiseNoContext => Raises
  BY <1>1 DEF RaiseNoContext, Raises
<1>4. AnalyseRun => ~Unsettled(Bundle, Scenario(next)) \/ Raises
  BY <1>1 DEF AnalyseRun, Raises
<1>. QED  BY <1>2, <1>3, <1>4 DEF Next, Returned

LEMMA StayStep ==
  ASSUME IInv, UNCHANGED vars
  PROVE  IInv'
<1>1. /\ UNCHANGED given
      /\ UNCHANGED <<db, asked, watched, pc, name, group, resolved, runs, chunk, left, next, missing>>
  BY DEF vars, given
<1>2. /\ N' = N /\ Ids' = Ids /\ NumRuns' = NumRuns /\ Gone' = Gone
      /\ \A k : /\ GroupOf(k)' = GroupOf(k) /\ RuleOf(k)' = RuleOf(k)
                /\ AddressesOf(k)' = AddressesOf(k)
  BY <1>1, SameInput DEF Gone
<1>3. Bundle' = Bundle /\ Entry' = Entry /\ \A n : Groups(n)' = Groups(n)
  BY <1>1, <1>2 DEF Bundle, Row, Entry, Groups
<1>4. InputInv'
  BY <1>1 DEF IInv, InputInv
<1>5. ResolveInv'
  BY <1>1, <1>3 DEF IInv, ResolveInv
<1>6. RunsInv'
  BY <1>1, <1>2 DEF IInv, RunsInv
<1>7. StreamInv'
  BY <1>1, <1>2, <1>3 DEF IInv, StreamInv
<1>. QED  BY <1>4, <1>5, <1>6, <1>7 DEF IInv

\* The invariant is inductive.
THEOREM Inductive == Spec => []IInv
<1>1. ASSUME IInv, [Next]_vars PROVE IInv'
  <2>1. CASE UNCHANGED vars
    BY <1>1, <2>1, StayStep
  <2>2. CASE Next
    BY <1>1, <2>2, Steps, RaiseSteps, ResolveStep, StartStep, QuotesStep, ChunkStep, YieldStep,
       LeaveStep, AnalyseStep, EndStep, StayStep
  <2>. QED  BY <1>1, <2>1, <2>2
<1>. QED  BY <1>1, InitInv, PTL DEF Spec

----------------------------------------------------------------------------
(* What somebody sees who reads the report of one run only *)

Status ==
  CASE ~Requested(watched) -> "absent"
    [] Requested(watched) /\ pc \in Errors -> "failed"
    [] Requested(watched) /\ pc \in {"convert", "done"} -> "reported"
    [] OTHER -> "running"
Analysis == IF Started(watched) THEN runs[watched].analysis ELSE NoAnalysis
Missing == IF Started(watched) THEN runs[watched].missing ELSE <<>>
Seen == <<Ids, ScenarioOf(watched), Status, Behind(watched), Analysis, Missing>>

LEMMA SeenIs == Alone!vars = Seen
BY DEF Alone!vars, Seen, Status, Analysis, Missing

LEMMA SeenAfter == (Alone!vars = Seen)'
BY SeenIs, PTL

StatusInv ==
  /\ ~Requested(watched) => Status = "absent"
  /\ Requested(watched) /\ pc \in Errors => Status = "failed"
  /\ Requested(watched) /\ pc \in After => Status = "reported"
  /\ Requested(watched) /\ pc \notin Errors /\ pc \notin After => Status = "running"

LEMMA StatusIs == StatusInv
<1>1. \A c \in Errors : c \notin After
  BY DEF Errors, After
<1>. HIDE DEF Errors
<1>. QED  BY <1>1 DEF StatusInv, Status, After

\* A run that was asked for has its place among the runs, another has none.
WatchedInv ==
  /\ watched \in Nat \ {0}
  /\ Requested(watched) <=> NumRules # 0 /\ watched \in 1..NumRuns
  /\ pc \in Before => ~Started(watched) /\ Behind(watched) = 0 /\ Analysis = NoAnalysis
                      /\ Missing = <<>>
  /\ pc \in {"quotes"} \cup Middle \cup After /\ ~Requested(watched) =>
       ~Started(watched) /\ Behind(watched) = 0 /\ Analysis = NoAnalysis /\ Missing = <<>>
  /\ pc \in {"quotes"} \cup Middle \cup After /\ Requested(watched) =>
       /\ Started(watched) /\ Analysis = runs[watched].analysis
       /\ Missing = runs[watched].missing
       /\ Behind(watched) = Gone + (IF next > watched THEN 1 ELSE 0)

LEMMA WatchedIs ==
  ASSUME IInv
  PROVE  WatchedInv
<1>1. watched \in Nat \ {0} /\ NumRuns \in Nat /\ NumRules \in Nat
  BY InputIs DEF IInv
<1>2. Requested(watched) <=> NumRules # 0 /\ watched \in 1..NumRuns
  BY <1>1 DEF Requested, NumRuns
<1>3. pc \in Before => ~Started(watched)
  <2>1. Len(<<>>) = 0
    OBVIOUS
  <2>. QED  BY <1>1, <2>1 DEF IInv, ResolveInv, Started
<1>4. pc \in {"quotes"} \cup Middle \cup After => (Started(watched) <=> watched \in 1..NumRuns)
  BY <1>1 DEF IInv, RunsInv, Started
<1>5. pc \in {"quotes"} \cup Middle \cup After => NumRules # 0
  <2>1. \A c \in {"quotes"} \cup Middle \cup After : c \notin Errors /\ c # "check"
    BY DEF Middle, After, Errors
  <2>. QED  BY <2>1, InputIs DEF IInv, InputInv
<1>6. ~Started(watched) => Behind(watched) = 0 /\ Analysis = NoAnalysis /\ Missing = <<>>
  BY DEF Behind, Analysis, Missing
<1>7. Started(watched) => /\ Analysis = runs[watched].analysis
                          /\ Missing = runs[watched].missing
                          /\ Behind(watched) = Gone + (IF next > watched THEN 1 ELSE 0)
  BY DEF Behind, Analysis, Missing, Gone, N
<1>. QED  BY <1>1, <1>2, <1>3, <1>4, <1>5, <1>6, <1>7 DEF WatchedInv

LEMMA WatchedAfter == (IInv => WatchedInv)'
<1>1. IInv => WatchedInv
  BY WatchedIs
<1>. QED  BY <1>1, PTL

LEMMA StatusAfter == StatusInv'
BY StatusIs, PTL

LEMMA SameAddTo ==
  /\ \A n, a, s : Alone!AddTo(n, a, s) = AddTo(n, a, s)
  /\ \A a, s : Alone!Unsettled(a, s) <=> Unsettled(a, s)
  /\ \A a : Alone!IsAuctionRow(a) <=> IsAuctionRow(a)
  /\ \A s : Alone!IsScenario(s) <=> IsScenario(s)
  /\ Alone!NoAnalysis = NoAnalysis
BY DEF Alone!AddTo, AddTo, Alone!Unsettled, Unsettled, Alone!IsAuctionRow, IsAuctionRow,
       Alone!IsScenario, IsScenario, Alone!NoAnalysis, NoAnalysis, Alone!Change, Change,
       Alone!Known, Known, Alone!IsEffect, IsEffect, Alone!Rules, Rules, Alone!Unknown, Unknown,
       Alone!NoRate, NoRate

\* The run begins with nothing counted.
LEMMA InitImplements == Init => Alone!Init
<1>. SUFFICES ASSUME Init PROVE Alone!Init
  OBVIOUS
<1>1. IInv /\ pc = "check" /\ pc \in Before /\ pc \notin Errors /\ pc \notin After
  BY InitInv DEF Init, Before, Errors, After
<1>2. \A i \in DOMAIN Ids : IsAuctionRow(Ids[i])
  BY <1>1, IdsAre DEF IInv
<1>3. IsScenario(ScenarioOf(watched))
  <2>0. IsAsked(asked) /\ NumRuns \in Nat
    BY <1>1, InputIs DEF IInv
  <2>1. CASE Requested(watched)
    <3>1. NumRules # 0 /\ watched \in 1..NumRuns
      BY <1>1, <2>1, WatchedIs DEF WatchedInv
    <3>2. asked.rules # <<>>
      BY <3>1 DEF NumRules
    <3>3. AddressesOf(GroupOf(watched)) \subseteq Address /\ RuleOf(watched) \in Rules
      BY <1>1, <3>1, <3>2, PlaceOf DEF IInv
    <3>. QED  BY <2>0, <2>1, <3>3 DEF ScenarioOf, IsScenario, IsAsked
  <2>2. CASE ~Requested(watched)
    BY <2>2 DEF ScenarioOf, IsScenario, Rules
  <2>. QED  BY <2>1, <2>2
<1>4. Status \in {"absent", "running"}
  BY <1>1, StatusIs DEF StatusInv
<1>5. Behind(watched) = 0 /\ Analysis = NoAnalysis /\ Missing = <<>>
  BY <1>1, WatchedIs DEF WatchedInv
<1>. QED  BY <1>2, <1>3, <1>4, <1>5, SameAddTo DEF Alone!Init, Status, Analysis, Missing

Running == {"quotes"} \cup Middle \cup After

\* Where the program is after a step, and what the step does to the run it leaves alone.
LEMMA Phases ==
  /\ \A c \in Before \cup {"quotes"} \cup Middle : c \notin Errors /\ c \notin After
  /\ \A c \in After : c \notin Errors
BY DEF Before, Middle, After, Errors

LEMMA GivenStays ==
  ASSUME Next
  PROVE  UNCHANGED given
BY DEF Next, CheckRules, ResolveName, CloseGroup, StartRuns, AnalyseQuotes, LoadChunk, NextChunk,
       SkipEmpty, RaiseNoContext, DropUnknown, Yield, AnalyseRun, NextBundle, Finish, ConvertRuns,
       Returned, Raise, vars, given

\* Nobody reads a report that was not asked for.
LEMMA AbsentStep ==
  ASSUME IInv, IInv', Next, ~Requested(watched)
  PROVE  Seen' = Seen
<1>1. UNCHANGED given
  BY GivenStays
<1>2. /\ Ids' = Ids /\ watched' = watched /\ ~Requested(watched)'
      /\ ScenarioOf(watched)' = ScenarioOf(watched)
  BY <1>1, SameInput DEF given
<1>3. Status = "absent" /\ Status' = "absent"
  BY <1>2, StatusIs, StatusAfter DEF StatusInv
<1>4. CASE UNCHANGED <<runs, left, chunk, next>>
  BY <1>1, <1>2, <1>3, <1>4 DEF Seen, Behind, Started, Analysis, Missing
<1>5. CASE pc \in Before \cup Running /\ pc' \in Before \cup Running
  BY <1>2, <1>3, <1>5, WatchedIs, WatchedAfter DEF Seen, WatchedInv, Running
<1>6. \/ UNCHANGED <<runs, left, chunk, next>>
      \/ pc \in Before \cup Running /\ pc' \in Before \cup Running
  <2>1. CASE CheckRules \/ ResolveName \/ CloseGroup
    BY <2>1 DEF CheckRules, ResolveName, CloseGroup, Raise, streaming
  <2>2. CASE StartRuns
    BY <2>2 DEF StartRuns, Before, Running, Middle, After
  <2>3. CASE Raises \/ UNCHANGED vars
    BY <2>3, RaiseSteps DEF vars
  <2>4. CASE AnalyseQuotes /\ db.quoteData
    BY <2>4, QuotesStep DEF Running, Middle
  <2>5. CASE LoadChunk /\ ~Raises
    BY <2>5, ChunkStep DEF Running, Middle
  <2>6. CASE NextChunk \/ Yield
    BY <2>6, YieldStep DEF Running, Middle
  <2>7. CASE SkipEmpty \/ DropUnknown \/ NextBundle
    BY <2>7, LeaveStep DEF Running, Middle
  <2>8. CASE AnalyseRun /\ ~Unsettled(Bundle, Scenario(next))
    BY <2>8, AnalyseStep DEF Running, Middle
  <2>9. CASE Finish \/ ConvertRuns
    BY <2>9, EndStep DEF Running, Middle, After, Finish, ConvertRuns
  <2>. QED  BY <2>1, <2>2, <2>3, <2>4, <2>5, <2>6, <2>7, <2>8, <2>9, Steps
<1>. QED  BY <1>4, <1>5, <1>6

\* Setting up takes nothing from the window.
LEMMA SetUpImplements ==
  ASSUME IInv, IInv', Requested(watched), ~Raises, CheckRules \/ ResolveName \/ CloseGroup
  PROVE  Seen' = Seen
<1>1. "ValueError" \in Errors /\ "SolverResolutionError" \in Errors
  BY DEF Errors
<1>2. UNCHANGED given /\ pc \in Before /\ pc' \in Before
  BY <1>1 DEF CheckRules, ResolveName, CloseGroup, Unresolved, Before, Raises
<1>3. /\ Ids' = Ids /\ watched' = watched /\ Requested(watched)'
      /\ ScenarioOf(watched)' = ScenarioOf(watched)
  BY <1>2, SameInput DEF given
<1>4. Status' = Status
  BY <1>2, <1>3, StatusIs, StatusAfter, Phases DEF StatusInv
<1>. QED  BY <1>2, <1>3, <1>4, WatchedIs, WatchedAfter DEF Seen, WatchedInv

LEMMA RaiseImplements ==
  ASSUME IInv, IInv', Requested(watched), Next, Raises
  PROVE  [Alone!Next]_Seen
<1>1. pc' \in Errors /\ UNCHANGED given /\ UNCHANGED <<runs, left, chunk, next>>
  BY RaiseSteps
<1>2. /\ Ids' = Ids /\ watched' = watched /\ Requested(watched)'
      /\ ScenarioOf(watched)' = ScenarioOf(watched)
  BY <1>1, SameInput DEF given
<1>3. UNCHANGED <<Behind(watched), Analysis, Missing>>
  BY <1>1, <1>2 DEF Behind, Started, Analysis, Missing
<1>4. Status' = "failed"
  BY <1>1, <1>2, StatusAfter DEF StatusInv
<1>5. CASE Status = "running"
  BY <1>2, <1>3, <1>4, <1>5 DEF Alone!Next, Alone!Fail, Status, Analysis, Missing
<1>6. CASE Status # "running"
  <2>1. pc \in Errors \cup After
    BY <1>6, StatusIs DEF StatusInv
  <2>2. UNCHANGED pc
    <3>1. pc = "done" \/ pc \in Errors \/ pc = "convert"
      BY <2>1 DEF After
    <3>2. pc \notin {"check", "resolve", "quotes", "load", "stream", "runs"}
      BY <2>1, Phases DEF Before, Middle, After
    <3>. HIDE DEF Errors
    <3>3. pc' # "done"
      BY <1>1, Phases DEF After
    <3>. QED  BY <1>1, <3>1, <3>2, <3>3
         DEF Next, CheckRules, ResolveName, CloseGroup, Unresolved, StartRuns, AnalyseQuotes,
             LoadChunk, NextChunk, SkipEmpty, RaiseNoContext, DropUnknown, Yield, Streaming,
             AnalyseRun, NextBundle, Finish, ConvertRuns, Returned, vars
  <2>3. Status' = Status
    BY <1>2, <2>2 DEF Status
  <2>. QED  BY <1>2, <1>3, <2>3 DEF Seen
<1>. QED  BY <1>5, <1>6

\* The steps that leave the run where it is.
LEMMA StillImplements ==
  ASSUME IInv, IInv', Requested(watched), UNCHANGED given,
         pc \in {"quotes"} \cup Middle, pc' \in {"quotes"} \cup Middle,
         Gone' + (IF next' > watched THEN 1 ELSE 0) = Gone + (IF next > watched THEN 1 ELSE 0),
         runs'[watched].analysis = runs[watched].analysis,
         runs'[watched].missing = runs[watched].missing
  PROVE  Seen' = Seen
<1>1. /\ Ids' = Ids /\ watched' = watched /\ Requested(watched)'
      /\ ScenarioOf(watched)' = ScenarioOf(watched)
  BY SameInput DEF given
<1>2. Status = "running" /\ Status' = "running"
  BY <1>1, Phases, StatusIs, StatusAfter DEF StatusInv
<1>3. Missing' = Missing
  <2>1. Missing = runs[watched].missing
    BY WatchedIs DEF WatchedInv
  <2>2. Missing' = runs'[watched].missing
    BY <1>1, WatchedAfter DEF WatchedInv
  <2>. QED  BY <2>1, <2>2
<1>4. UNCHANGED <<Behind(watched), Analysis>>
  BY <1>1, WatchedIs, WatchedAfter DEF WatchedInv
<1>. QED  BY <1>1, <1>2, <1>3, <1>4 DEF Seen

LEMMA StartImplements ==
  ASSUME IInv, IInv', Requested(watched), StartRuns
  PROVE  [Alone!Next]_Seen
<1>1. /\ UNCHANGED given /\ pc \in Before /\ pc' \in {"quotes", "load", "done"}
      /\ pc' = "done" => left' = <<>>
  BY DEF StartRuns, Before
<1>2. /\ Ids' = Ids /\ watched' = watched /\ Requested(watched)'
      /\ ScenarioOf(watched)' = ScenarioOf(watched)
  BY <1>1, SameInput DEF given
<1>3. NumRules # 0 /\ watched \in 1..NumRuns /\ watched \in Nat \ {0} /\ N \in Nat
  BY WatchedIs, IdsAre DEF WatchedInv, IInv
<1>4. runs'[watched].analysis = NoAnalysis /\ runs'[watched].missing = <<>> /\ Len(left') = N
  BY <1>3, StartStep
<1>5. Behind(watched)' = 0
  <2>1. next' = 1 /\ Len(chunk') = 0
    <3>1. chunk = <<>> /\ next = 1
      BY <1>1 DEF IInv, ResolveInv
    <3>. QED  BY <3>1 DEF StartRuns
  <2>2. Gone' = 0
    <3>1. N' = N
      BY <1>1, SameInput
    <3>. QED  BY <1>3, <1>4, <2>1, <3>1 DEF Gone
  <2>3. Behind(watched)' = Gone' + (IF next' > watched' THEN 1 ELSE 0)
    BY <1>1, <1>2, WatchedAfter DEF WatchedInv, Middle, After
  <2>. QED  BY <1>2, <1>3, <2>1, <2>2, <2>3
<1>6. Analysis' = NoAnalysis /\ Missing' = <<>>
  <2>1. pc' \in {"quotes"} \cup Middle \cup After
    BY <1>1 DEF Middle, After
  <2>2. Analysis' = runs'[watched].analysis /\ Missing' = runs'[watched].missing
    BY <1>2, <2>1, WatchedAfter DEF WatchedInv
  <2>. QED  BY <1>4, <2>2
<1>7. Behind(watched) = 0 /\ Analysis = NoAnalysis /\ Missing = <<>> /\ Status = "running"
  BY <1>1, WatchedIs, StatusIs, Phases DEF WatchedInv, StatusInv
<1>8. CASE pc' # "done"
  <2>1. Status' = "running"
    BY <1>1, <1>2, <1>8, StatusAfter, Phases DEF StatusInv, Middle
  <2>. QED  BY <1>2, <1>5, <1>6, <1>7, <2>1 DEF Seen
<1>9. CASE pc' = "done"
  <2>1. Status' = "reported"
    BY <1>2, <1>9, StatusAfter, Phases DEF StatusInv, After
  <2>2. N = 0 /\ DOMAIN Ids = {} /\ Len(Ids) = 0
    <3>1. Len(left') = 0
      BY <1>1, <1>9
    <3>. QED  BY <1>4, <3>1, IdsAre DEF IInv, N
  <2>3. Alone!IsLeftOut(Missing')
    BY <1>2, <1>6, <2>2 DEF Alone!IsLeftOut
  <2>. QED  BY <1>2, <1>5, <1>6, <1>7, <2>1, <2>2, <2>3
       DEF Alone!Next, Alone!Report, Status, Analysis, Missing
<1>. QED  BY <1>8, <1>9

\* The auction behind the runs is the next one of the window.
LEMMA NextAuction ==
  ASSUME IInv, Requested(watched), pc \in Middle, chunk # <<>>, Behind(watched) = Gone
  PROVE  /\ Behind(watched) < Len(Ids) /\ Ids[Behind(watched) + 1] = Bundle
         /\ Status = "running"
<1>1. Gone \in Nat /\ Gone + 1 \in 1..N /\ Bundle = Ids[Gone + 1] /\ N \in Nat
  BY HeadIs
<1>2. Status = "running"
  BY StatusIs, Phases DEF StatusInv
<1>. QED  BY <1>1, <1>2 DEF N

LEMMA LeaveImplements ==
  ASSUME IInv, IInv', Requested(watched), SkipEmpty \/ DropUnknown \/ NextBundle
  PROVE  [Alone!Next]_Seen
<1>1. /\ Gone' = Gone + 1 /\ next' = 1 /\ pc \in {"stream", "runs"} /\ pc' = "stream"
      /\ UNCHANGED given /\ UNCHANGED runs /\ chunk # <<>>
      /\ pc = "stream" => next = 1 /\ (Bundle.bidders = {} \/ ~Bundle.ordersKnown)
      /\ pc = "runs" => next = NumRuns + 1
  BY LeaveStep
<1>2. watched \in 1..NumRuns /\ watched \in Nat \ {0} /\ NumRuns \in Nat
  BY WatchedIs, InputIs DEF WatchedInv, IInv
<1>3. pc \in Middle /\ pc' \in Middle
  BY <1>1 DEF Middle
<1>4. Gone \in Nat
  BY <1>3 DEF IInv, StreamInv
<1>5. CASE pc = "runs"
  <2>1. Gone' + (IF next' > watched THEN 1 ELSE 0) = Gone + (IF next > watched THEN 1 ELSE 0)
    BY <1>1, <1>2, <1>4, <1>5
  <2>. QED  BY <1>1, <1>3, <2>1, StillImplements
<1>6. CASE pc = "stream"
  <2>1. /\ Ids' = Ids /\ watched' = watched /\ Requested(watched)'
        /\ ScenarioOf(watched)' = ScenarioOf(watched)
    BY <1>1, SameInput DEF given
  <2>2. Behind(watched) = Gone /\ Behind(watched)' = Gone + 1
    <3>1. Behind(watched) = Gone + (IF next > watched THEN 1 ELSE 0)
      BY <1>3, WatchedIs DEF WatchedInv
    <3>2. Behind(watched)' = Gone' + (IF next' > watched' THEN 1 ELSE 0)
      BY <1>3, <2>1, WatchedAfter DEF WatchedInv
    <3>3. ~(1 > watched)
      BY <1>2
    <3>. QED  BY <1>1, <1>4, <1>6, <2>1, <3>1, <3>2, <3>3
  <2>3. UNCHANGED <<Analysis, Missing>>
    BY <1>1, <1>3, <2>1, WatchedIs, WatchedAfter DEF WatchedInv
  <2>4. Status = "running" /\ Status' = "running"
    BY <1>3, <2>1, StatusIs, StatusAfter, Phases DEF StatusInv
  <2>5. Behind(watched) < Len(Ids) /\ Ids[Behind(watched) + 1] = Bundle
    BY <1>1, <1>3, <2>2, NextAuction
  <2>. QED  BY <1>1, <1>6, <2>1, <2>2, <2>3, <2>4, <2>5
       DEF Alone!Next, Alone!Pass, Alone!Auction, Status, Analysis, Missing
<1>. QED  BY <1>1, <1>5, <1>6

LEMMA AnalyseImplements ==
  ASSUME IInv, IInv', Requested(watched), AnalyseRun, ~Unsettled(Bundle, Scenario(next))
  PROVE  [Alone!Next]_Seen
<1>1. /\ Gone' = Gone /\ next' = next + 1 /\ pc = "runs" /\ pc' = "runs" /\ next \in 1..NumRuns
      /\ UNCHANGED given
      /\ \A k \in 1..NumRuns :
           /\ runs'[k].missing = runs[k].missing
           /\ runs'[k].analysis = IF k = next THEN AddTo(runs[k].analysis, Bundle, ScenarioOf(k))
                                  ELSE runs[k].analysis
  BY AnalyseStep
<1>2. watched \in 1..NumRuns /\ watched \in Nat \ {0} /\ NumRuns \in Nat
  BY WatchedIs, InputIs DEF WatchedInv, IInv
<1>3. pc \in Middle /\ pc' \in Middle
  BY <1>1 DEF Middle
<1>4. Gone \in Nat /\ chunk # <<>> /\ Bundle.bidders # {} /\ Bundle.ordersKnown
  BY <1>1, <1>3 DEF IInv, StreamInv
<1>5. CASE watched # next
  <2>1. Gone' + (IF next' > watched THEN 1 ELSE 0) = Gone + (IF next > watched THEN 1 ELSE 0)
    BY <1>1, <1>2, <1>4, <1>5
  <2>. QED  BY <1>1, <1>2, <1>3, <1>5, <2>1, StillImplements
<1>6. CASE watched = next
  <2>1. /\ Ids' = Ids /\ watched' = watched /\ Requested(watched)'
        /\ ScenarioOf(watched)' = ScenarioOf(watched)
    BY <1>1, SameInput DEF given
  <2>2. Behind(watched) = Gone /\ Behind(watched)' = Gone + 1
    <3>1. Behind(watched) = Gone + (IF next > watched THEN 1 ELSE 0)
      BY <1>3, WatchedIs DEF WatchedInv
    <3>2. Behind(watched)' = Gone' + (IF next' > watched' THEN 1 ELSE 0)
      BY <1>3, <2>1, WatchedAfter DEF WatchedInv
    <3>. QED  BY <1>1, <1>2, <1>4, <1>6, <2>1, <3>1, <3>2
  <2>3. Analysis = runs[watched].analysis /\ Analysis' = runs'[watched].analysis
    BY <1>3, <2>1, WatchedIs, WatchedAfter DEF WatchedInv
  <2>4. Analysis' = AddTo(Analysis, Bundle, ScenarioOf(watched))
    BY <1>1, <1>2, <1>6, <2>3
  <2>5. Missing' = Missing
    BY <1>1, <1>2, <1>3, <2>1, WatchedIs, WatchedAfter DEF WatchedInv
  <2>6. Status = "running" /\ Status' = "running"
    BY <1>3, <2>1, StatusIs, StatusAfter, Phases DEF StatusInv
  <2>7. Behind(watched) < Len(Ids) /\ Ids[Behind(watched) + 1] = Bundle
    BY <1>3, <1>4, <2>2, NextAuction
  <2>8. ~Alone!Unsettled(Bundle, ScenarioOf(watched))
    BY <1>2, <1>3, <1>6, ScenarioIs, SameAddTo
  <2>9. Analysis' = Alone!AddTo(Analysis, Bundle, ScenarioOf(watched))
    BY <2>4, SameAddTo
  <2>. QED  BY <1>4, <2>1, <2>2, <2>5, <2>6, <2>7, <2>8, <2>9
       DEF Alone!Next, Alone!Analyse, Alone!Auction, Status, Analysis, Missing
<1>. QED  BY <1>5, <1>6

LEMMA EndImplements ==
  ASSUME IInv, IInv', Requested(watched), Finish \/ ConvertRuns
  PROVE  [Alone!Next]_Seen
<1>1. /\ Gone' = Gone /\ next' = next /\ pc' \in After /\ Gone = N /\ UNCHANGED given
      /\ \A k \in 1..NumRuns :
           /\ runs'[k].analysis = runs[k].analysis
           /\ runs'[k].missing = IF pc = "load" THEN missing ELSE runs[k].missing
  BY EndStep
<1>2. watched \in 1..NumRuns
  BY WatchedIs DEF WatchedInv
<1>3. /\ Ids' = Ids /\ watched' = watched /\ Requested(watched)'
      /\ ScenarioOf(watched)' = ScenarioOf(watched)
  BY <1>1, SameInput DEF given
<1>4. pc \in {"load", "convert"} /\ pc \in {"quotes"} \cup Middle \cup After
  BY DEF Finish, ConvertRuns, Middle, After
<1>5. Status' = "reported"
  BY <1>1, <1>3, StatusAfter DEF StatusInv
<1>6. UNCHANGED <<Behind(watched), Analysis>>
  BY <1>1, <1>2, <1>3, <1>4, WatchedIs, WatchedAfter DEF WatchedInv
<1>7. Missing' = IF pc = "load" THEN missing ELSE runs[watched].missing
  BY <1>1, <1>2, <1>3, WatchedAfter DEF WatchedInv
<1>8. CASE pc = "load"
  <2>1. Status = "running"
    BY <1>8, StatusIs, Phases DEF StatusInv, Middle
  <2>2. next = 1 /\ watched \in Nat \ {0} /\ N \in Nat
    BY <1>8, WatchedIs, IdsAre DEF WatchedInv, IInv, StreamInv
  <2>3. Behind(watched) = N
    <3>1. Behind(watched) = Gone + (IF next > watched THEN 1 ELSE 0)
      BY <1>4, WatchedIs DEF WatchedInv
    <3>. QED  BY <1>1, <2>2, <3>1
  <2>4. Alone!IsLeftOut(Missing')
    <3>1. /\ missing \in Seq(Nat)
          /\ ToSet(missing) = {i \in 1..Gone : Ids[i].bidders # {} /\ ~Ids[i].ordersKnown}
          /\ \A i, j \in 1..Len(missing) : i < j => missing[i] < missing[j]
      BY <1>8 DEF IInv, StreamInv, Middle
    <3>2. DOMAIN missing = 1..Len(missing) /\ DOMAIN Ids = 1..Gone /\ Missing' = missing
      BY <1>1, <1>7, <1>8, <3>1, IdsAre DEF IInv
    <3>. QED  BY <3>1, <3>2 DEF Alone!IsLeftOut, ToSet
  <2>. QED  BY <1>3, <1>5, <1>6, <2>1, <2>3, <2>4
       DEF Alone!Next, Alone!Report, Status, Analysis, Missing, N
<1>9. CASE pc = "convert"
  <2>1. Status = "reported"
    BY <1>9, StatusIs DEF StatusInv, After
  <2>2. Missing = runs[watched].missing
    BY <1>4, WatchedIs DEF WatchedInv
  <2>. QED  BY <1>3, <1>5, <1>6, <1>7, <1>9, <2>1, <2>2 DEF Seen
<1>. QED  BY <1>4, <1>8, <1>9

\* Every run of analyse_window is the run that its group under its rule would have been
\* on its own: the safety part of RunsAreIndependent (analyse_window).
THEOREM Implements == Spec => Alone!Safe
<1>1. ASSUME IInv, IInv', [Next]_vars
      PROVE  [Alone!Next]_(Alone!vars)
  <2>1. CASE UNCHANGED vars
    <3>1. UNCHANGED given /\ UNCHANGED <<pc, runs, left, chunk, next>>
      BY <2>1 DEF vars, given
    <3>2. /\ Ids' = Ids /\ watched' = watched /\ ScenarioOf(watched)' = ScenarioOf(watched)
          /\ Requested(watched)' = Requested(watched)
      BY <3>1, SameInput DEF given
    <3>. QED  BY <3>1, <3>2, SeenIs, SeenAfter DEF Seen, Status, Behind, Started, Analysis, Missing
  <2>2. CASE Next /\ ~Requested(watched)
    BY <1>1, <2>2, AbsentStep, SeenIs, SeenAfter
  <2>3. CASE Next /\ Requested(watched) /\ Raises
    BY <1>1, <2>3, RaiseImplements, SeenIs, SeenAfter
  <2>4. CASE Next /\ Requested(watched) /\ ~Raises /\ ~UNCHANGED vars
    <3>. USE <1>1, <2>4, SeenIs, SeenAfter
    <3>1. CASE CheckRules \/ ResolveName \/ CloseGroup
      BY <3>1, SetUpImplements
    <3>2. CASE StartRuns
      BY <3>2, StartImplements
    <3>3. watched \in 1..NumRuns
      BY WatchedIs DEF WatchedInv
    <3>4. CASE AnalyseQuotes /\ db.quoteData
      <4>1. Gone' = Gone
        BY <3>4, QuotesStep, SameInput DEF Gone
      <4>. QED  BY <3>3, <3>4, <4>1, QuotesStep, StillImplements DEF Middle
    <3>5. CASE LoadChunk
      BY <3>3, <3>5, ChunkStep, StillImplements DEF Middle
    <3>6. CASE NextChunk \/ Yield
      BY <3>3, <3>6, YieldStep, StillImplements DEF Middle
    <3>7. CASE SkipEmpty \/ DropUnknown \/ NextBundle
      BY <3>7, LeaveImplements
    <3>8. CASE AnalyseRun /\ ~Unsettled(Bundle, Scenario(next))
      BY <3>8, AnalyseImplements
    <3>9. CASE Finish \/ ConvertRuns
      BY <3>9, EndImplements
    <3>. QED  BY <3>1, <3>2, <3>4, <3>5, <3>6, <3>7, <3>8, <3>9, Steps
  <2>. QED  BY <1>1, <2>1, <2>2, <2>3, <2>4
<1>2. Init => Alone!Init
  BY InitImplements
<1>. QED  BY <1>1, <1>2, Inductive, PTL DEF Spec, Alone!Safe

----------------------------------------------------------------------------
(* The conversion *)

Changes == [rewards : Int, capped : {Unknown} \cup {<<x>> : x \in Int}, rate : Rate \cup {NoRate, 0}]

(***************************************************************************)
(* The counters of a run are what the auctions in its list add up to, and a  *)
(* run is converted at the very end, from that list.                         *)
(***************************************************************************)
Totalled(n) ==
  /\ DOMAIN n = DOMAIN NoAnalysis
  /\ n.changed \in Seq(Changes)
  /\ asked.score => /\ n.rewards = SumFunctionOnSet(Uncapped(n), DOMAIN n.changed)
                    /\ n.capped = SumFunctionOnSet(Capped(n), DOMAIN n.changed)

TotalsInv ==
  /\ pc = "convert" => asked.score
  /\ \A k \in DOMAIN runs :
       /\ Totalled(runs[k].analysis)
       /\ runs[k].cow # Unknown =>
            pc = "done" /\ asked.score /\ runs[k].cow = Convert(runs[k].analysis)

\* The values of an auction in the list.
LEMMA ChangeIs ==
  ASSUME NEW c \in Changes
  PROVE  c.rewards \in Int /\ Known(c.capped) \in Int /\ c.rate \in Rate \cup {NoRate, 0}
BY DEF Changes, Known, Unknown

\* What is kept of the auctions that moved, split by rate, is the whole of it.
LEMMA SplitByRate ==
  ASSUME NEW n, n.changed \in Seq(Changes), NEW f,
         \A i \in DOMAIN n.changed : f[i] \in Int,
         \A i \in DOMAIN n.changed \ Moved(n) : f[i] = 0
  PROVE  /\ SumFunction([r \in Rate |-> SumFunctionOnSet(f, RatedAt(n, r))])
              = SumFunctionOnSet(f, Rated(n))
         /\ SumFunctionOnSet(f, Rated(n)) + SumFunctionOnSet(f, Unrated(n))
              = SumFunctionOnSet(f, DOMAIN n.changed)
<1>. DEFINE all == DOMAIN n.changed
            moved == Moved(n)
            rated == Rated(n)
            unrated == Unrated(n)
            at == [r \in Rate |-> RatedAt(n, r)]
            sum(S) == SumFunctionOnSet(f, S)
<1>1. all = 1..Len(n.changed) /\ Len(n.changed) \in Nat /\ \A i \in all : n.changed[i] \in Changes
  OBVIOUS
<1>2. moved \subseteq all /\ rated \subseteq moved /\ unrated = moved \ rated
  BY DEF Moved, Rated, Unrated
<1>3. IsFiniteSet(all)
  BY <1>1, FS_Interval
<1>4. \A S \in SUBSET all : IsFiniteSet(S) /\ sum(S) \in Int
  <2>. SUFFICES ASSUME NEW S \in SUBSET all PROVE IsFiniteSet(S) /\ sum(S) \in Int
    OBVIOUS
  <2>1. IsFiniteSet(S) /\ \A i \in S : f[i] \in Int
    BY <1>3, FS_Subset
  <2>. QED  BY <2>1, SumInt
<1>5. \A r \in Rate : at[r] \subseteq rated
  BY DEF RatedAt
<1>6. \A r, q \in Rate : r # q => at[r] \cap at[q] = {}
  BY DEF RatedAt
<1>7. UNION {at[r] : r \in Rate} = rated
  <2>1. ASSUME NEW i \in rated PROVE \E r \in Rate : i \in at[r]
    <3>1. n.changed[i].rate \in Rate /\ i \in RatedAt(n, n.changed[i].rate)
      BY <1>1, <1>2, <2>1, ChangeIs DEF Rated, RatedAt, HasRate
    <3>. QED  BY <3>1
  <2>. HIDE DEF at, rated
  <2>. QED  BY <1>5, <2>1
<1>. HIDE DEF all, moved, rated, unrated, at
<1>8. /\ IsFiniteSet(Rate)
      /\ \A r \in Rate : IsFiniteSet(at[r]) /\ \A i \in at[r] : f[i] \in Int
  BY <1>2, <1>4, <1>5, AnalyseWindowAssumption DEF all
<1>9. SumFunctionOnSet([r \in Rate |-> SumFunctionOnSet(f, at[r])], Rate) = sum(rated)
  BY <1>6, <1>7, <1>8, SumOfSums
<1>10. SumFunction([r \in Rate |-> SumFunctionOnSet(f, RatedAt(n, r))]) = sum(rated)
  <2>1. SumFunction([r \in Rate |-> SumFunctionOnSet(f, at[r])]) = sum(rated)
    BY <1>9 DEF SumFunction, SumFunctionOnSet
  <2>. QED  BY <2>1 DEF at
<1>11. sum(moved) = sum(rated) + sum(unrated)
  <2>1. moved = rated \cup unrated /\ rated \cap unrated = {} /\ IsFiniteSet(rated)
        /\ IsFiniteSet(unrated) /\ \A i \in rated \cup unrated : f[i] \in Int
    BY <1>2, <1>4 DEF all
  <2>. QED  BY <2>1, SumUnion
<1>12. sum(all) = sum(moved) + sum(all \ moved)
  <2>1. all = moved \cup (all \ moved) /\ moved \cap (all \ moved) = {} /\ IsFiniteSet(moved)
        /\ IsFiniteSet(all \ moved) /\ \A i \in moved \cup (all \ moved) : f[i] \in Int
    BY <1>2, <1>4 DEF all
  <2>. QED  BY <2>1, SumUnion
<1>13. sum(all \ moved) = 0
  <2>1. IsFiniteSet(all \ moved) /\ \A i \in all \ moved : f[i] = 0
    BY <1>4 DEF all, moved
  <2>. QED  BY <2>1, SumOfZeros
<1>14. sum(rated) \in Int /\ sum(unrated) \in Int /\ sum(all) = sum(rated) + sum(unrated)
  BY <1>2, <1>4, <1>11, <1>12, <1>13
<1>. HIDE DEF sum
<1>15. SumFunction([r \in Rate |-> SumFunctionOnSet(f, RatedAt(n, r))]) = SumFunctionOnSet(f, Rated(n))
  BY <1>10 DEF rated, sum
<1>16. SumFunctionOnSet(f, Rated(n)) + SumFunctionOnSet(f, Unrated(n))
         = SumFunctionOnSet(f, DOMAIN n.changed)
  BY <1>14 DEF rated, unrated, all, sum
<1>. QED  BY <1>15, <1>16

\* The conversion of a run whose counters add up.
LEMMA ConversionAddsUp ==
  ASSUME NEW n, Totalled(n), asked.score
  PROVE  LET cow == Convert(n)
         IN  /\ SumFunction(cow.cow) = cow.converted
             /\ cow.converted + cow.native = n.rewards
             /\ SumFunction(cow.cowCapped) + cow.nativeCapped = n.capped
<1>. DEFINE u == Uncapped(n)
            c == Capped(n)
<1>1. n.changed \in Seq(Changes) /\ \A i \in DOMAIN n.changed : n.changed[i] \in Changes
  BY DEF Totalled
<1>2. \A i \in DOMAIN n.changed : u[i] \in Int /\ c[i] \in Int
  BY <1>1, ChangeIs DEF Uncapped, Capped
<1>3. \A i \in DOMAIN n.changed \ Moved(n) : u[i] = 0 /\ c[i] = 0
  BY DEF Uncapped, Capped, Moved
<1>. HIDE DEF u, c
<1>4. /\ SumFunction([r \in Rate |-> SumFunctionOnSet(u, RatedAt(n, r))])
           = SumFunctionOnSet(u, Rated(n))
      /\ SumFunctionOnSet(u, Rated(n)) + SumFunctionOnSet(u, Unrated(n))
           = SumFunctionOnSet(u, DOMAIN n.changed)
  BY <1>1, <1>2, <1>3, SplitByRate
<1>5. /\ SumFunction([r \in Rate |-> SumFunctionOnSet(c, RatedAt(n, r))])
           = SumFunctionOnSet(c, Rated(n))
      /\ SumFunctionOnSet(c, Rated(n)) + SumFunctionOnSet(c, Unrated(n))
           = SumFunctionOnSet(c, DOMAIN n.changed)
  BY <1>1, <1>2, <1>3, SplitByRate
<1>6. /\ Convert(n).cow = [r \in Rate |-> SumFunctionOnSet(u, RatedAt(n, r))]
      /\ Convert(n).cowCapped = [r \in Rate |-> SumFunctionOnSet(c, RatedAt(n, r))]
      /\ Convert(n).converted = SumFunctionOnSet(u, Rated(n))
      /\ Convert(n).native = SumFunctionOnSet(u, Unrated(n))
      /\ Convert(n).nativeCapped = SumFunctionOnSet(c, Unrated(n))
  BY DEF Convert, u, c
<1>7. /\ n.rewards = SumFunctionOnSet(u, DOMAIN n.changed)
      /\ n.capped = SumFunctionOnSet(c, DOMAIN n.changed)
  BY DEF Totalled, u, c
<1>. QED  BY <1>4, <1>5, <1>6, <1>7

\* An auction adds to the list what it adds to the counters.
LEMMA AddToTotals ==
  ASSUME NEW n, Totalled(n), NEW a, IsAuctionRow(a),
         NEW s, s.rule \in Rules, s.score = asked.score
  PROVE  Totalled(AddTo(n, a, s))
<1>. DEFINE R == a.bidders \cap s.removed
            e == a.effect[R, s.rule]
            c == Change(a, e)
            m == AddTo(n, a, s)
            F == DOMAIN NoAnalysis
<1>1. DOMAIN n = F /\ n.changed \in Seq(Changes) /\ Len(n.changed) \in Nat
  BY DEF Totalled
<1>2. IsEffect(e) /\ a.rate \in Rate \cup {NoRate, 0}
  BY DEF IsAuctionRow
<1>3. c \in Changes /\ c.rewards = e.rewards /\ Known(c.capped) = Known(e.capped)
  <2>1. e.rewards \in Int /\ e.capped \in Seq(Int) /\ Len(e.capped) <= 1
    BY <1>2 DEF IsEffect
  <2>2. e.capped \in {Unknown} \cup {<<x>> : x \in Int}
    <3>. HIDE DEF e
    <3>1. CASE Len(e.capped) = 0
      BY <2>1, <3>1 DEF Unknown
    <3>2. CASE Len(e.capped) # 0
      <4>1. Len(e.capped) = 1
        <5>1. Len(e.capped) \in Nat
          BY <2>1
        <5>. DEFINE l == Len(e.capped)
        <5>2. l \in Nat /\ l <= 1 /\ l # 0
          BY <2>1, <3>2, <5>1
        <5>. HIDE DEF l
        <5>3. l = 1
          BY <5>2
        <5>. QED  BY <5>3 DEF l
      <4>2. e.capped[1] \in Int /\ e.capped = <<e.capped[1]>>
        BY <2>1, <4>1
      <4>. QED  BY <4>2
    <3>. QED  BY <3>1, <3>2
  <2>. HIDE DEF e
  <2>. QED  BY <1>2, <2>1, <2>2 DEF Changes, Change
<1>4. /\ e.rewards \in Int /\ Known(e.capped) \in Int
      /\ ~e.changed => e.rewards = 0 /\ Known(e.capped) = 0
  <2>1. \A x : x = <<0>> => Known(x) = 0
    <3>1. <<0>> # <<>> /\ <<0>>[1] = 0
      OBVIOUS
    <3>. QED  BY <3>1 DEF Known, Unknown
  <2>2. e.capped = Unknown => Known(e.capped) = 0
    BY DEF Known
  <2>. HIDE DEF e
  <2>3. c \in Changes => c.rewards \in Int /\ Known(c.capped) \in Int
    BY ChangeIs
  <2>. QED  BY <1>2, <1>3, <2>1, <2>2, <2>3 DEF IsEffect
<1>5. ASSUME m.rewards = n.rewards, m.capped = n.capped, m.changed = n.changed, DOMAIN m = F
      PROVE  Totalled(m)
  <2>. HIDE DEF m
  <2>. QED  BY <1>5 DEF Totalled, Uncapped, Capped
<1>6. ASSUME DOMAIN m = F,
             m.rewards = IF asked.score THEN n.rewards + e.rewards ELSE n.rewards,
             m.capped = IF asked.score THEN n.capped + Known(e.capped) ELSE n.capped,
             m.changed = IF e.changed THEN Append(n.changed, c) ELSE n.changed
      PROVE  Totalled(m)
  <2>. HIDE DEF m, e, c
  <2>1. m.changed \in Seq(Changes)
    BY <1>1, <1>3, <1>6
  <2>2. ASSUME asked.score
        PROVE  /\ m.rewards = SumFunctionOnSet(Uncapped(m), DOMAIN m.changed)
               /\ m.capped = SumFunctionOnSet(Capped(m), DOMAIN m.changed)
    <3>1. /\ n.rewards = SumFunctionOnSet(Uncapped(n), DOMAIN n.changed)
          /\ n.capped = SumFunctionOnSet(Capped(n), DOMAIN n.changed)
      BY <2>2 DEF Totalled
    <3>2. /\ IsFiniteSet(DOMAIN n.changed)
          /\ \A i \in DOMAIN n.changed : Uncapped(n)[i] \in Int /\ Capped(n)[i] \in Int
      <4>1. DOMAIN n.changed = 1..Len(n.changed) /\ IsFiniteSet(1..Len(n.changed))
        BY <1>1, FS_Interval
      <4>. QED  BY <1>1, <4>1, ChangeIs DEF Uncapped, Capped
    <3>3. n.rewards \in Int /\ n.capped \in Int
      BY <3>1, <3>2, SumInt
    <3>4. CASE ~e.changed
      <4>1. m.rewards = n.rewards /\ m.capped = n.capped /\ m.changed = n.changed
        BY <1>4, <1>6, <2>2, <3>3, <3>4
      <4>. QED  BY <3>1, <4>1 DEF Uncapped, Capped
    <3>5. CASE e.changed
      <4>. DEFINE k == Len(n.changed)
      <4>1. m.changed = Append(n.changed, c)
        BY <1>6, <3>5
      <4>2. /\ k \in Nat /\ DOMAIN n.changed = 1..k /\ DOMAIN m.changed = 1..(k + 1)
            /\ m.changed[k + 1] = c /\ \A i \in 1..k : m.changed[i] = n.changed[i]
        BY <1>1, <1>3, <4>1
      <4>. HIDE DEF k
      <4>3. /\ Uncapped(m)[k + 1] = e.rewards /\ Capped(m)[k + 1] = Known(e.capped)
            /\ \A i \in 1..k : /\ Uncapped(n)[i] = Uncapped(m)[i]
                               /\ Capped(n)[i] = Capped(m)[i]
        BY <1>3, <4>2 DEF Uncapped, Capped
      <4>4. SumFunctionOnSet(Uncapped(m), 1..(k + 1))
              = SumFunctionOnSet(Uncapped(n), 1..k) + Uncapped(m)[k + 1]
        BY <1>4, <3>2, <4>2, <4>3, SumAppended
      <4>5. SumFunctionOnSet(Capped(m), 1..(k + 1))
              = SumFunctionOnSet(Capped(n), 1..k) + Capped(m)[k + 1]
        BY <1>4, <3>2, <4>2, <4>3, SumAppended
      <4>. QED  BY <1>6, <2>2, <3>1, <4>2, <4>3, <4>4, <4>5
    <3>. QED  BY <3>4, <3>5
  <2>. QED  BY <1>6, <2>1, <2>2 DEF Totalled
<1>. HIDE DEF e, c
<1>. DEFINE counted == [n EXCEPT !.auctions = @ + 1,
                                 !.suspects = IF a.suspect THEN @ + 1 ELSE @]
            clean == [counted EXCEPT !.recharge = @ + a.recharge[s.quoted]]
            last == [clean EXCEPT !.present = @ + 1, !.seen = @ \cup R,
                       !.rewards = IF s.score THEN @ + e.rewards ELSE @,
                       !.capped = IF s.score THEN @ + Known(e.capped) ELSE @,
                       !.changed = IF e.changed THEN Append(@, c) ELSE @]
<1>7. F = {"auctions", "skipped", "suspects", "present", "seen", "rewards", "capped", "recharge",
           "changed"}
  BY DEF NoAnalysis
<1>. HIDE DEF F
<1>8. /\ DOMAIN counted = F /\ counted.rewards = n.rewards /\ counted.capped = n.capped
      /\ counted.changed = n.changed
  BY <1>1, <1>7
<1>. HIDE DEF counted
<1>9. /\ DOMAIN clean = F /\ clean.rewards = n.rewards /\ clean.capped = n.capped
      /\ clean.changed = n.changed
  BY <1>7, <1>8
<1>. HIDE DEF clean
<1>10. /\ DOMAIN last = F
       /\ last.rewards = IF asked.score THEN n.rewards + e.rewards ELSE n.rewards
       /\ last.capped = IF asked.score THEN n.capped + Known(e.capped) ELSE n.capped
       /\ last.changed = IF e.changed THEN Append(n.changed, c) ELSE n.changed
  BY <1>7, <1>9
<1>. HIDE DEF last
<1>11. \/ m = counted \/ m = [counted EXCEPT !.skipped = @ + 1] \/ m = clean \/ m = last
  BY DEF AddTo, counted, clean, last, e, c
<1>. DEFINE skip == [counted EXCEPT !.skipped = @ + 1]
<1>12. /\ DOMAIN skip = F /\ skip.rewards = n.rewards /\ skip.capped = n.capped
       /\ skip.changed = n.changed
  BY <1>7, <1>8
<1>. HIDE DEF skip
<1>13. m = counted \/ m = skip \/ m = clean \/ m = last
  BY <1>11 DEF skip
<1>. HIDE DEF m
<1>14. Totalled(m)
  BY <1>5, <1>6, <1>8, <1>9, <1>10, <1>12, <1>13
<1>. QED  BY <1>14 DEF m

LEMMA NothingTotalled == Totalled(NoAnalysis)
<1>1. /\ NoAnalysis.changed = <<>> /\ NoAnalysis.rewards = 0 /\ NoAnalysis.capped = 0
      /\ DOMAIN <<>> = {} /\ <<>> \in Seq(Changes)
  BY DEF NoAnalysis
<1>. QED  BY <1>1, SumOfNone DEF Totalled

\* The steps that touch no run.
LEMMA TotalsKept ==
  ASSUME TotalsInv, UNCHANGED given, UNCHANGED runs, pc # "done", pc' # "convert"
  PROVE  TotalsInv'
<1>1. asked' = asked
  BY DEF given
<1>. QED  BY <1>1 DEF TotalsInv, Totalled

\* The loop adds an auction to one run.
LEMMA TotalsAdded ==
  ASSUME IInv, TotalsInv, AnalyseRun, ~Unsettled(Bundle, Scenario(next))
  PROVE  TotalsInv'
<1>1. /\ asked' = asked /\ pc = "runs" /\ pc' = "runs" /\ next <= Len(runs)
      /\ runs' = [runs EXCEPT ![next].analysis = AddTo(@, Bundle, Scenario(next))]
  BY DEF AnalyseRun, given, Raise
<1>2. /\ DOMAIN runs = 1..NumRuns /\ Len(runs) = NumRuns /\ next \in 1..NumRuns
      /\ \A k \in 1..NumRuns : DOMAIN runs[k] = RunFields
  BY <1>1, AnalyseStep DEF IInv, RunsInv, Middle
<1>3. \A k \in 1..NumRuns : Totalled(runs[k].analysis) /\ runs[k].cow = Unknown
  BY <1>1, <1>2 DEF TotalsInv
<1>. DEFINE added == AddTo(runs[next].analysis, Bundle, Scenario(next))
            changed == [runs[next] EXCEPT !.analysis = added]
<1>4. Totalled(added)
  <2>1. IsAuctionRow(Bundle)
    <3>1. Gone + 1 \in 1..N /\ Bundle = Ids[Gone + 1]
      BY <1>1, HeadIs DEF IInv, StreamInv, Middle
    <3>. QED  BY <3>1, IdsAre DEF IInv
  <2>2. Scenario(next).score = asked.score
    BY DEF Scenario
  <2>3. Scenario(next).rule \in Rules
    <3>1. NumRules # 0 /\ NumRules \in Nat /\ asked.rules \in Seq(Rules)
      BY <1>1, InputIs DEF IInv, InputInv, IsAsked, Errors
    <3>2. ((next - 1) % NumRules) + 1 \in 1..NumRules
      BY <1>2, <3>1, InputIs, Layout DEF IInv, NumRuns
    <3>3. RuleOf(next) \in Rules
      BY <3>1, <3>2 DEF RuleOf, NumRules
    <3>4. Scenario(next) = ScenarioOf(next)
      BY <1>1, <1>2, ScenarioIs DEF Middle
    <3>5. runs[next].rule = RuleOf(next)
      BY <1>1, <1>2 DEF IInv, RunsInv, Middle, After
    <3>. QED  BY <3>3, <3>5 DEF Scenario
  <2>. QED  BY <1>2, <1>3, <2>1, <2>2, <2>3, AddToTotals
<1>. HIDE DEF added
<1>5. changed.analysis = added /\ changed.cow = runs[next].cow
  BY <1>2 DEF RunFields
<1>6. runs' = [runs EXCEPT ![next] = changed]
  BY <1>1 DEF added
<1>. HIDE DEF changed
<1>7. /\ DOMAIN runs' = 1..NumRuns
      /\ \A k \in 1..NumRuns : runs'[k] = IF k = next THEN changed ELSE runs[k]
  BY <1>2, <1>6
<1>8. \A k \in 1..NumRuns : Totalled(runs'[k].analysis) /\ runs'[k].cow = Unknown
  BY <1>2, <1>3, <1>4, <1>5, <1>7
<1>. QED  BY <1>1, <1>7, <1>8 DEF TotalsInv, Totalled

\* The steps that rewrite every run.
LEMMA TotalsRewritten ==
  ASSUME IInv, TotalsInv, (AnalyseQuotes /\ db.quoteData) \/ Finish
  PROVE  TotalsInv'
<1>1. /\ asked' = asked /\ pc \in {"quotes", "load"}
      /\ pc' = "convert" => asked.score
  BY DEF AnalyseQuotes, Finish, given
<1>2. DOMAIN runs = 1..NumRuns /\ \A k \in 1..NumRuns : DOMAIN runs[k] = RunFields
  BY <1>1 DEF IInv, RunsInv, Middle
<1>3. /\ DOMAIN runs' = DOMAIN runs
      /\ \A k \in DOMAIN runs : /\ runs'[k].analysis = runs[k].analysis
                                /\ runs'[k].cow = runs[k].cow
  <2>1. CASE AnalyseQuotes /\ db.quoteData
    <3>. DEFINE v(k) == bySolver'[runs[k].label]
    <3>1. runs' = [k \in DOMAIN runs |-> [runs[k] EXCEPT !.quoted = v(k)]]
      BY <2>1 DEF AnalyseQuotes
    <3>. HIDE DEF v
    <3>2. ASSUME NEW k \in DOMAIN runs
          PROVE  runs'[k].analysis = runs[k].analysis /\ runs'[k].cow = runs[k].cow
      <4>1. runs'[k] = [runs[k] EXCEPT !.quoted = v(k)] /\ DOMAIN runs[k] = RunFields
        BY <1>2, <3>1
      <4>. QED  BY <4>1 DEF RunFields
    <3>. QED  BY <3>1, <3>2
  <2>2. CASE Finish
    <3>1. runs' = [k \in DOMAIN runs |-> [runs[k] EXCEPT !.missing = missing]]
      BY <2>2 DEF Finish
    <3>2. ASSUME NEW k \in DOMAIN runs
          PROVE  runs'[k].analysis = runs[k].analysis /\ runs'[k].cow = runs[k].cow
      <4>1. runs'[k] = [runs[k] EXCEPT !.missing = missing] /\ DOMAIN runs[k] = RunFields
        BY <1>2, <3>1
      <4>. QED  BY <4>1 DEF RunFields
    <3>. QED  BY <3>1, <3>2
  <2>. QED  BY <2>1, <2>2
<1>4. \A k \in DOMAIN runs : Totalled(runs[k].analysis) /\ runs[k].cow = Unknown
  BY <1>1 DEF TotalsInv
<1>5. \A k \in DOMAIN runs' : Totalled(runs'[k].analysis) /\ runs'[k].cow = Unknown
  BY <1>3, <1>4
<1>. QED  BY <1>1, <1>5 DEF TotalsInv, Totalled

\* In the end every run is converted, from its own list.
LEMMA TotalsConverted ==
  ASSUME IInv, TotalsInv, ConvertRuns
  PROVE  TotalsInv'
<1>1. /\ asked' = asked /\ pc = "convert" /\ pc' = "done"
  BY DEF ConvertRuns, given
<1>2. asked.score
  BY <1>1 DEF TotalsInv
<1>. DEFINE f == [k \in DOMAIN runs |-> [runs[k] EXCEPT !.cow = Convert(runs[k].analysis)]]
<1>3. runs' = f /\ DOMAIN runs' = DOMAIN runs
  BY DEF ConvertRuns
<1>4. DOMAIN runs = 1..NumRuns /\ \A k \in 1..NumRuns : DOMAIN runs[k] = RunFields
  BY <1>1 DEF IInv, RunsInv, After
<1>5. \A k \in DOMAIN runs : f[k].analysis = runs[k].analysis
                             /\ f[k].cow = Convert(runs[k].analysis)
  <2>. SUFFICES ASSUME NEW k \in DOMAIN runs
                PROVE  f[k].analysis = runs[k].analysis /\ f[k].cow = Convert(runs[k].analysis)
    OBVIOUS
  <2>1. f[k] = [runs[k] EXCEPT !.cow = Convert(runs[k].analysis)] /\ DOMAIN runs[k] = RunFields
    BY <1>4
  <2>. HIDE DEF f
  <2>. QED  BY <2>1 DEF RunFields
<1>. HIDE DEF f
<1>6. \A k \in DOMAIN runs : Totalled(runs[k].analysis)
  BY DEF TotalsInv
<1>7. \A n : Totalled(n) => Totalled(n)' /\ Convert(n)' = Convert(n)
  BY <1>1 DEF Totalled
<1>8. \A k \in DOMAIN runs' : /\ Totalled(runs'[k].analysis)
                              /\ runs'[k].cow = Convert(runs'[k].analysis)
  BY <1>3, <1>5, <1>6
<1>. QED  BY <1>1, <1>2, <1>8 DEF TotalsInv, Totalled

LEMMA TotalsStep ==
  ASSUME IInv, TotalsInv, [Next]_vars
  PROVE  TotalsInv'
<1>1. CASE UNCHANGED vars
  <2>1. asked' = asked /\ runs' = runs /\ pc' = pc
    BY <1>1 DEF vars
  <2>. QED  BY <2>1 DEF TotalsInv, Totalled
<1>0. pc = "done" => UNCHANGED vars
  BY DEF Next, CheckRules, ResolveName, CloseGroup, StartRuns, AnalyseQuotes, LoadChunk, NextChunk,
     SkipEmpty, RaiseNoContext, DropUnknown, Yield, AnalyseRun, NextBundle, Finish, ConvertRuns,
     Returned, Unresolved, Streaming
<1>2. CASE Raises
  <2>1. UNCHANGED given /\ UNCHANGED runs /\ pc' \in Errors
    BY <1>2 DEF Raises, Raise
  <2>2. pc' # "convert"
    BY <2>1 DEF Errors
  <2>. QED  BY <1>0, <1>1, <2>1, <2>2, TotalsKept
<1>3. CASE \/ CheckRules \/ ResolveName \/ CloseGroup \/ LoadChunk \/ NextChunk \/ Yield
           \/ SkipEmpty \/ DropUnknown \/ NextBundle
  <2>1. /\ UNCHANGED given /\ UNCHANGED runs /\ pc # "done" /\ pc' # "convert"
    BY <1>3 DEF CheckRules, ResolveName, CloseGroup, LoadChunk, NextChunk, Yield, SkipEmpty,
       DropUnknown, NextBundle, Raise, Unresolved, Streaming
  <2>. QED  BY <2>1, TotalsKept
<1>4. CASE StartRuns
  <2>. DEFINE run(k) == [label |-> resolved[GroupOf(k)].label,
                         removed |-> resolved[GroupOf(k)].addresses,
                         rule |-> RuleOf(k), quoted |-> {}, analysis |-> NoAnalysis,
                         missing |-> <<>>, cow |-> Unknown]
              all == 1..(Len(resolved) * NumRules)
  <2>1. asked' = asked /\ pc' # "convert" /\ runs' = [k \in all |-> run(k)]
    BY <1>4 DEF StartRuns, given
  <2>2. \A k \in all : run(k).analysis = NoAnalysis /\ run(k).cow = Unknown
    OBVIOUS
  <2>. HIDE DEF run, all
  <2>3. \A k \in DOMAIN runs' : runs'[k].analysis = NoAnalysis /\ runs'[k].cow = Unknown
    BY <2>1, <2>2
  <2>. QED  BY <2>1, <2>3, NothingTotalled DEF TotalsInv, Totalled
<1>. QED  BY <1>1, <1>2, <1>3, <1>4, Steps, TotalsAdded, TotalsRewritten, TotalsConverted

\* Every reward delta of a run is converted at the rate of its auction or reported as
\* without a rate, over windows of any length and whatever the rates are: the list the
\* conversion reads carries the whole delta, and no auction of it twice
\* (convert_delta_rewards).
THEOREM EveryDeltaConverted == Spec => []DeltasAreConverted
<1>1. Init => TotalsInv
  BY DEF Init, TotalsInv
<1>2. TotalsInv => DeltasAreConverted
  <2>. SUFFICES ASSUME TotalsInv, NEW k \in DOMAIN runs, pc = "done", runs[k].cow # Unknown
                PROVE  LET n == runs[k].analysis
                           cow == runs[k].cow
                       IN  /\ SumFunction(cow.cow) = cow.converted
                           /\ cow.converted + cow.native = n.rewards
                           /\ SumFunction(cow.cowCapped) + cow.nativeCapped = n.capped
    BY DEF DeltasAreConverted
  <2>1. asked.score /\ Totalled(runs[k].analysis) /\ runs[k].cow = Convert(runs[k].analysis)
    BY DEF TotalsInv
  <2>. QED  BY <2>1, ConversionAddsUp
<1>. QED  BY <1>1, <1>2, Inductive, TotalsStep, PTL DEF Spec
=============================================================================
