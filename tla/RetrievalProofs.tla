--------------------------- MODULE RetrievalProofs ---------------------------
(* Theorems about keyword search and the walk along replies, for every graph *)
(* of turns, every depth and limit, and whatever others store meanwhile.     *)
EXTENDS Retrieval, SequenceTheorems, FiniteSetTheorems, WellFoundedInduction, TLAPS

(* Induction.  The least number of a set that an induction would refute.    *)

LEMMA LeastNumber ==
  ASSUME NEW T \in SUBSET Nat, T # {}
  PROVE  \E n \in T : \A m \in T : n <= m
<1> DEFINE R == {ss \in Nat \X Nat : ss[1] < ss[2]}
<1>1. IsWellFoundedOn(R, Nat)
  BY NatLessThanWellFounded DEF OpToRel
<1> HIDE DEF R
<1>2. PICK n \in T : \A m \in T : <<m, n>> \notin R
  BY <1>1, WFMin
<1>3. \A m, k \in Nat : <<m, k>> \notin R => k <= m
  BY DEF R
<1> QED
  BY <1>2, <1>3

\* What holds of zero, and of the next number with each number, holds of all.
LEMMA Reaches ==
  ASSUME NEW T \in SUBSET Nat, NEW bound \in Nat, 0 \in T,
         \A n \in T : n < bound => n + 1 \in T
  PROVE  0 .. bound \subseteq T
<1> DEFINE U == (0 .. bound) \ T
<1>1. CASE U # {}
  <2> HIDE DEF U
  <2>1. PICK n \in U : \A m \in U : n <= m
    BY <1>1, LeastNumber, U \in SUBSET Nat DEF U
  <2> USE DEF U
  <2>2. n # 0 /\ n \in Nat /\ n - 1 \in 0 .. bound /\ n - 1 < n
    BY <2>1
  <2>3. n - 1 \in T
    BY <2>1, <2>2
  <2> QED
    BY <2>1, <2>2, <2>3
<1> QED
  BY <1>1

-----------------------------------------------------------------------------
(* Ascending lists a finite set of numbers: the rank of a number, how many   *)
(* are smaller, is a bijection.                                             *)

LEMMA AscendingProperties ==
  ASSUME NEW S \in SUBSET Nat, IsFiniteSet(S)
  PROVE  /\ Ascending(S) \in Seq(S) /\ Len(Ascending(S)) = Cardinality(S)
         /\ \A i, j \in 1 .. Cardinality(S) : i < j => Ascending(S)[i] < Ascending(S)[j]
         /\ \A n \in S : \E i \in 1 .. Cardinality(S) : Ascending(S)[i] = n
         /\ \A i \in 1 .. Cardinality(S) : Cardinality({m \in S : m < Ascending(S)[i]}) = i - 1
<1> DEFINE below(n) == {m \in S : m < n}
           rank == [n \in S |-> Cardinality(below(n))]
           count == Cardinality(S)
<1>1. count \in Nat
  BY FS_CardinalityType
<1>2. ASSUME NEW n \in S
      PROVE  /\ IsFiniteSet(below(n)) /\ rank[n] \in Nat
             /\ rank[n] <= count - 1
  <2>1. below(n) \in SUBSET S /\ below(n) # S
    BY <1>2
  <2>2. IsFiniteSet(below(n)) /\ Cardinality(below(n)) <= count /\ Cardinality(below(n)) # count
    BY <2>1, FS_Subset
  <2>3. Cardinality(below(n)) \in Nat
    BY <2>2, FS_CardinalityType
  <2> QED
    BY <1>1, <2>2, <2>3
<1>3. ASSUME NEW n \in S, NEW p \in S, n < p
      PROVE  rank[n] < rank[p]
  <2>1. /\ \A m \in S : m < n => m < p
        /\ n \in Nat /\ ~ (n < n)
    BY <1>3
  <2>2. below(n) \in SUBSET below(p) /\ n \in below(p) /\ n \notin below(n)
    BY <1>3, <2>1
  <2>3. Cardinality(below(n)) <= Cardinality(below(p)) /\ Cardinality(below(n)) # Cardinality(below(p))
    BY <1>2, <2>2, FS_Subset
  <2> QED
    BY <1>2, <2>3
<1> HIDE DEF rank
<1>4. rank \in [S -> 0 .. count - 1]
  BY <1>1, <1>2 DEF rank
<1>5. rank \in Injection(S, 0 .. count - 1)
  <2>1. \A n, p \in S : rank[n] = rank[p] => n = p
    <3>1. \A n, p \in S : n = p \/ n < p \/ p < n
      OBVIOUS
    <3>2. \A n \in S : rank[n] \in Nat
      BY <1>2
    <3> QED
      BY <1>3, <3>1, <3>2
  <2> QED
    BY <1>4, <2>1 DEF Injection, IsInjective
<1>6. IsFiniteSet(0 .. count - 1) /\ Cardinality(0 .. count - 1) = count
  BY <1>1, FS_Interval, 0 \in Int, count - 1 \in Int
<1>7. rank \in Surjection(S, 0 .. count - 1)
  BY <1>5, <1>6, FS_Injection
<1>8. \A r \in 0 .. count - 1 : \E n \in S : rank[n] = r
  BY <1>7 DEF Surjection
<1>9. ASSUME NEW i \in 1 .. count
      PROVE  Ascending(S)[i] \in S /\ rank[Ascending(S)[i]] = i - 1
  <2>1. \E n \in S : Cardinality(below(n)) = i - 1
    BY <1>1, <1>8 DEF rank
  <2>2. Ascending(S)[i] = CHOOSE n \in S : Cardinality(below(n)) = i - 1
    BY DEF Ascending
  <2> QED
    BY <2>1, <2>2 DEF rank
<1>10. Ascending(S) \in [1 .. count -> S]
  BY <1>9 DEF Ascending
<1>11. Ascending(S) \in Seq(S) /\ Len(Ascending(S)) = count
  BY <1>1, <1>10, SeqDef
<1>12. ASSUME NEW i \in 1 .. count, NEW j \in 1 .. count, i < j
       PROVE  Ascending(S)[i] < Ascending(S)[j]
  <2> DEFINE a == Ascending(S)[i]
             b == Ascending(S)[j]
  <2>1. a \in S /\ b \in S /\ rank[a] = i - 1 /\ rank[b] = j - 1
    BY <1>9
  <2> HIDE DEF a, b
  <2>2. rank[a] < rank[b] /\ rank[a] \in Nat /\ rank[b] \in Nat
    BY <1>1, <1>12, <2>1
  <2>3. b < a => rank[b] < rank[a]
    BY <1>3, <2>1
  <2>4. a \in Nat /\ b \in Nat /\ a # b
    BY <2>1, <2>2
  <2>5. a < b
    BY <2>2, <2>3, <2>4
  <2> QED
    BY <2>5 DEF a, b
<1>13. ASSUME NEW n \in S
       PROVE  \E i \in 1 .. count : Ascending(S)[i] = n
  <2>1. rank[n] \in 0 .. count - 1
    BY <1>4
  <2>2. rank[n] + 1 \in 1 .. count /\ (rank[n] + 1) - 1 = rank[n]
    BY <1>1, <2>1
  <2>3. Ascending(S)[rank[n] + 1] \in S /\ rank[Ascending(S)[rank[n] + 1]] = rank[n]
    BY <1>9, <2>2
  <2> QED
    BY <1>5, <2>2, <2>3 DEF Injection, IsInjective
<1>14. \A i \in 1 .. count : Cardinality({m \in S : m < Ascending(S)[i]}) = i - 1
  BY <1>9 DEF rank
<1> QED
  BY <1>11, <1>12, <1>13, <1>14

-----------------------------------------------------------------------------
(* Within, the reference of the walk: the recursive function exists, grows   *)
(* with its argument and with the tables, and stops where a level adds none. *)

Levels(c, replies, granted, n, reach) ==
  reach = [k \in 0 .. n |-> IF k = 0 THEN {c.start} ELSE Expand(c, replies, granted, reach[k - 1])]

LEMMA LevelsExist ==
  ASSUME NEW c, NEW replies, NEW granted, NEW bound \in Nat
  PROVE  \E reach : Levels(c, replies, granted, bound, reach)
<1> DEFINE grown(S) == Expand(c, replies, granted, S)
           T == {n \in Nat : \E reach : Levels(c, replies, granted, n, reach)}
<1>1. 0 \in T
  <2> DEFINE reach == [k \in 0 .. 0 |-> {c.start}]
  <2>1. reach = [k \in 0 .. 0 |-> IF k = 0 THEN {c.start} ELSE grown(reach[k - 1])]
    OBVIOUS
  <2> QED
    BY <2>1 DEF Levels
<1>2. ASSUME NEW n \in T
      PROVE  n + 1 \in T
  <2>1. PICK reach : reach = [k \in 0 .. n |-> IF k = 0 THEN {c.start} ELSE grown(reach[k - 1])]
    BY <1>2 DEF Levels
  <2> DEFINE longer == [k \in 0 .. n + 1 |-> IF k = n + 1 THEN grown(reach[n]) ELSE reach[k]]
  <2> HIDE DEF grown
  <2>2. ASSUME NEW k \in 0 .. n + 1
        PROVE  longer[k] = IF k = 0 THEN {c.start} ELSE grown(longer[k - 1])
    <3>1. CASE k = n + 1
      <4>1. k # 0 /\ k - 1 = n /\ n \in 0 .. n + 1 /\ n # n + 1
        BY <3>1
      <4> QED
        BY <3>1, <4>1
    <3>2. CASE k # n + 1
      <4>1. k \in 0 .. n
        BY <3>2
      <4>2. k # 0 => k - 1 \in 0 .. n /\ k - 1 # n + 1 /\ k - 1 \in 0 .. n + 1
        BY <4>1
      <4>3. longer[k] = reach[k] /\ (k # 0 => longer[k - 1] = reach[k - 1])
        BY <3>2, <4>1, <4>2
      <4>4. reach[k] = IF k = 0 THEN {c.start} ELSE grown(reach[k - 1])
        BY <2>1, <4>1
      <4> QED
        BY <4>3, <4>4
    <3> QED
      BY <3>1, <3>2
  <2>3. longer = [k \in 0 .. n + 1 |-> IF k = 0 THEN {c.start} ELSE grown(longer[k - 1])]
    <3> HIDE DEF longer
    <3>1. longer = [k \in 0 .. n + 1 |-> longer[k]]
      BY DEF longer
    <3> QED
      BY <2>2, <3>1
  <2> HIDE DEF longer
  <2>4. Levels(c, replies, granted, n + 1, longer)
    BY <2>3, Zenon DEF Levels, grown
  <2>5. n + 1 \in Nat
    OBVIOUS
  <2> QED
    BY <2>4, <2>5
<1>3. 0 .. bound \subseteq T
  <2> HIDE DEF T
  <2> QED
    BY <1>1, <1>2, Reaches, T \in SUBSET Nat DEF T
<1> QED
  BY <1>3

LEMMA WithinLevels ==
  ASSUME NEW c, NEW replies, NEW granted
  PROVE  Levels(c, replies, granted, MaxDepth, Within(c, replies, granted))
<1>1. MaxDepth \in Nat
  BY RetrievalAssumption
<1> DEFINE W == Within(c, replies, granted)
<1>2. W = CHOOSE reach : Levels(c, replies, granted, MaxDepth, reach)
  BY Zenon DEF Within, Levels
<1>3. \E reach : Levels(c, replies, granted, MaxDepth, reach)
  BY <1>1, LevelsExist
<1> QED
  BY <1>2, <1>3, Zenon
LEMMA WithinUnfolds ==
  ASSUME NEW c, NEW replies, NEW granted, c.start \in Node
  PROVE  LET W == Within(c, replies, granted) IN
         /\ W \in [0 .. MaxDepth -> SUBSET Node]
         /\ W[0] = {c.start}
         /\ \A k \in Nat : k < MaxDepth => W[k + 1] = Expand(c, replies, granted, W[k])
<1> DEFINE W == Within(c, replies, granted)
           T == {k \in Nat : k <= MaxDepth => W[k] \subseteq Node}
<1> HIDE DEF W
<1>1. W = [k \in 0 .. MaxDepth |-> IF k = 0 THEN {c.start} ELSE Expand(c, replies, granted, W[k - 1])]
  BY WithinLevels DEF Levels, W
<1>2. MaxDepth \in Nat
  BY RetrievalAssumption
<1>3. W[0] = {c.start}
  BY <1>1, <1>2
<1>4. ASSUME NEW k \in Nat, k < MaxDepth
      PROVE  W[k + 1] = Expand(c, replies, granted, W[k])
  <2>1. k + 1 \in 0 .. MaxDepth /\ k + 1 # 0 /\ (k + 1) - 1 = k
    BY <1>2, <1>4
  <2> QED
    BY <1>1, <2>1
<1>5. 0 .. MaxDepth \subseteq T
  <2>1. 0 \in T
    BY <1>3
  <2>2. ASSUME NEW k \in T, k < MaxDepth
        PROVE  k + 1 \in T
    <3>1. k \in Nat /\ W[k] \subseteq Node
      BY <1>2, <2>2
    <3>2. W[k + 1] \subseteq Node
      BY <1>4, <2>2, <3>1 DEF Expand
    <3> QED
      BY <3>1, <3>2
  <2>3. T \in SUBSET Nat
    OBVIOUS
  <2> HIDE DEF T
  <2> QED
    BY <1>2, <2>1, <2>2, <2>3, Reaches
<1>6. \A k \in 0 .. MaxDepth : W[k] \subseteq Node
  BY <1>2, <1>5
<1>7. W \in [0 .. MaxDepth -> SUBSET Node]
  BY <1>1, <1>6
<1> QED
  BY <1>3, <1>4, <1>7 DEF W

\* A set that holds level d and the neighbours of its members holds every later
\* level.
LEMMA WithinClosed ==
  ASSUME NEW c, NEW replies, NEW granted, c.start \in Node, NEW S, NEW d \in 0 .. MaxDepth,
         Within(c, replies, granted)[d] \subseteq S,
         \A n \in S \cap Node, m \in Node : Neighbour(c, replies, granted, n, m) => m \in S
  PROVE  \A k \in d .. MaxDepth : Within(c, replies, granted)[k] \subseteq S
<1> DEFINE W == Within(c, replies, granted)
           T == {k \in Nat : k >= d /\ k <= MaxDepth => W[k] \subseteq S}
<1> HIDE DEF W
<1>1. MaxDepth \in Nat /\ d \in Nat
  BY RetrievalAssumption
<1>2. W[d] \subseteq S
  BY DEF W
<1>3. /\ \A k \in Nat : k < MaxDepth => W[k + 1] = Expand(c, replies, granted, W[k])
      /\ W \in [0 .. MaxDepth -> SUBSET Node]
  BY WithinUnfolds DEF W
<1>4. ASSUME NEW k \in T, k < MaxDepth
      PROVE  k + 1 \in T
  <2>1. CASE k + 1 <= d
    BY <1>1, <1>2, <2>1, k + 1 = d \/ k + 1 < d
  <2>2. CASE k >= d
    <3>1. k \in Nat /\ k \in 0 .. MaxDepth /\ W[k] \subseteq S /\ W[k] \subseteq Node
      BY <1>1, <1>3, <1>4, <2>2
    <3>2. W[k + 1] \subseteq S
      BY <1>3, <1>4, <3>1 DEF Expand
    <3> QED
      BY <3>1, <3>2
  <2> QED
    BY <1>1, <2>1, <2>2
<1>5. 0 \in T
  BY <1>1, <1>2
<1>6. 0 .. MaxDepth \subseteq T
  <2>1. T \in SUBSET Nat
    OBVIOUS
  <2> HIDE DEF T
  <2> QED
    BY <1>1, <1>4, <1>5, <2>1, Reaches
<1>7. \A k \in d .. MaxDepth : W[k] \subseteq S
  BY <1>1, <1>6
<1> QED
  BY <1>7 DEF W

\* Later levels hold the earlier ones.
LEMMA WithinGrows ==
  ASSUME NEW c, NEW replies, NEW granted, c.start \in Node,
         NEW d \in 0 .. MaxDepth, NEW k \in d .. MaxDepth
  PROVE  Within(c, replies, granted)[d] \subseteq Within(c, replies, granted)[k]
<1> DEFINE W == Within(c, replies, granted)
           T == {l \in Nat : l >= d /\ l <= MaxDepth => W[d] \subseteq W[l]}
<1> HIDE DEF W
<1>1. MaxDepth \in Nat /\ d \in Nat /\ k \in 0 .. MaxDepth
  BY RetrievalAssumption
<1>2. \A l \in Nat : l < MaxDepth => W[l] \subseteq W[l + 1]
  BY WithinUnfolds DEF W, Expand
<1>3. ASSUME NEW l \in T, l < MaxDepth
      PROVE  l + 1 \in T
  <2>1. l \in Nat /\ (l + 1 = d \/ l + 1 < d \/ l >= d)
    BY <1>1
  <2>2. CASE l >= d
    <3>1. W[d] \subseteq W[l] /\ W[l] \subseteq W[l + 1]
      BY <1>1, <1>2, <1>3, <2>1, <2>2
    <3> QED
      BY <2>1, <3>1
  <2> QED
    BY <1>1, <2>1, <2>2
<1>4. 0 \in T
  BY <1>1
<1>5. 0 .. MaxDepth \subseteq T
  <2>1. T \in SUBSET Nat
    OBVIOUS
  <2> HIDE DEF T
  <2> QED
    BY <1>1, <1>3, <1>4, <2>1, Reaches
<1>6. W[d] \subseteq W[k]
  BY <1>1, <1>5
<1> QED
  BY <1>6 DEF W

\* More replies and more access leave nothing out.
LEMMA WithinMonotone ==
  ASSUME NEW c, c.start \in Node, NEW replies, NEW granted, NEW more, NEW wider,
         replies \subseteq more, granted \subseteq wider, NEW k \in 0 .. MaxDepth
  PROVE  Within(c, replies, granted)[k] \subseteq Within(c, more, wider)[k]
<1> DEFINE V == Within(c, replies, granted)
           W == Within(c, more, wider)
           T == {l \in Nat : l <= MaxDepth => V[l] \subseteq W[l]}
<1> HIDE DEF V, W
<1>1. MaxDepth \in Nat
  BY RetrievalAssumption
<1>2. /\ V[0] = {c.start} /\ W[0] = {c.start}
      /\ \A l \in Nat : l < MaxDepth => /\ V[l + 1] = Expand(c, replies, granted, V[l])
                                      /\ W[l + 1] = Expand(c, more, wider, W[l])
  BY WithinUnfolds DEF V, W
<1>3. \A n, m : Neighbour(c, replies, granted, n, m) => Neighbour(c, more, wider, n, m)
  BY DEF Neighbour, CanRead
<1>4. ASSUME NEW l \in T, l < MaxDepth
      PROVE  l + 1 \in T
  <2>1. l \in Nat /\ V[l] \subseteq W[l]
    BY <1>1, <1>4
  <2>2. V[l + 1] \subseteq W[l + 1]
    BY <1>2, <1>3, <1>4, <2>1 DEF Expand
  <2> QED
    BY <2>1, <2>2
<1>5. 0 \in T
  BY <1>2
<1>6. 0 .. MaxDepth \subseteq T
  <2>1. T \in SUBSET Nat
    OBVIOUS
  <2> HIDE DEF T
  <2> QED
    BY <1>1, <1>4, <1>5, <2>1, Reaches
<1>7. V[k] \subseteq W[k]
  BY <1>1, <1>6
<1> QED
  BY <1>7 DEF V, W

\* The reference and the walk agree on where a reply leads.
LEMMA NeighbourByReply ==
  ASSUME NEW c \in WalkCall, NEW replies \in SUBSET ReplyEdge, NEW granted,
         NEW n \in Node, NEW m \in Node
  PROVE  Neighbour(c, replies, granted, n, m) <=>
           CanRead(c, granted, m) /\ \E e \in replies : NextNode(c, n, e) = m
<1>1. c.direction \in {"parent", "replies", "both"}
  BY DEF WalkCall
<1>2. \A e \in ReplyEdge : e.from # e.to /\ e.from \in Node /\ e.to \in Node
  BY RetrievalAssumption
<1>3. NULL \notin Node
  BY RetrievalAssumption
<1>4. ASSUME NEW e \in ReplyEdge
      PROVE  NextNode(c, n, e) = m <=>
               \/ c.direction # "replies" /\ e.from = n /\ e.to = m
               \/ c.direction # "parent" /\ e.to = n /\ e.from = m
  BY <1>1, <1>2, <1>3 DEF NextNode
<1> QED
  BY <1>4 DEF Neighbour

-----------------------------------------------------------------------------
(* ByNode lists entries of different turns, each once.                      *)

Item == [node : Node, text : SUBSET Side, path : Seq(ReplyEdge)]
NodesOf(items) == {x.node : x \in items}
OnePerNode(items) == \A x, y \in items : x.node = y.node => x = y

LEMMA ByNodeProperties ==
  ASSUME NEW S \in SUBSET Item, OnePerNode(S)
  PROVE  /\ ByNode(S) \in Seq(S) /\ Range(ByNode(S)) = S
         /\ \A i, j \in DOMAIN ByNode(S) : ByNode(S)[i].node = ByNode(S)[j].node => i = j
<1> DEFINE N == NodesOf(S)
           order == Ascending(N)
           count == Cardinality(N)
<1>1. N \in SUBSET Node /\ N \in SUBSET Nat /\ IsFiniteSet(N)
  <2>1. N \in SUBSET Node
    BY DEF Item, NodesOf
  <2> QED
    BY <2>1, RetrievalAssumption, FS_Subset
<1>2. count \in Nat
  BY <1>1, FS_CardinalityType
<1>3. /\ order \in Seq(N) /\ Len(order) = count
      /\ \A i, j \in 1 .. count : i < j => order[i] < order[j]
      /\ \A n \in N : \E i \in 1 .. count : order[i] = n
  BY <1>1, AscendingProperties
<1>4. DOMAIN order = 1 .. count /\ \A i \in 1 .. count : order[i] \in N /\ order[i] \in Nat
  BY <1>1, <1>3, LenProperties, ElementOfSeq
<1>5. ByNode(S) = [i \in 1 .. count |-> CHOOSE x \in S : x.node = order[i]]
  BY <1>4 DEF ByNode, NodesOf
<1> HIDE DEF order, count
<1>6. ASSUME NEW i \in 1 .. count
      PROVE  ByNode(S)[i] \in S /\ ByNode(S)[i].node = order[i]
  <2>1. \E x \in S : x.node = order[i]
    BY <1>4 DEF NodesOf
  <2> QED
    BY <1>5, <2>1
<1>7. ByNode(S) \in [1 .. count -> S]
  BY <1>5, <1>6
<1>8. ByNode(S) \in Seq(S) /\ DOMAIN ByNode(S) = 1 .. count
  BY <1>2, <1>7, SeqDef
<1>9. ASSUME NEW x \in S
      PROVE  x \in Range(ByNode(S))
  <2>1. PICK i \in 1 .. count : order[i] = x.node
    BY <1>3 DEF NodesOf
  <2>2. ByNode(S)[i] = x
    BY <1>6, <2>1 DEF OnePerNode
  <2> QED
    BY <1>8, <2>2 DEF Range
<1>10. Range(ByNode(S)) = S
  BY <1>6, <1>8, <1>9 DEF Range
<1>11. ASSUME NEW i \in DOMAIN ByNode(S), NEW j \in DOMAIN ByNode(S),
              ByNode(S)[i].node = ByNode(S)[j].node
       PROVE  i = j
  <2>1. order[i] = order[j] /\ i \in 1 .. count /\ j \in 1 .. count
    BY <1>6, <1>8, <1>11
  <2>2. i < j \/ j < i \/ i = j
    BY <1>2, <2>1
  <2> QED
    BY <1>3, <1>4, <2>1, <2>2
<1> QED
  BY <1>8, <1>10, <1>11

-----------------------------------------------------------------------------
(* The shapes of the state, and what is stored stays stored.                *)

Shapes ==
  /\ text \in [Node -> SUBSET Side] /\ edges \in SUBSET ReplyEdge /\ access \in SUBSET Conversation
  /\ status \in {"idle", "search", "fetch", "walk", "done"}
  /\ status # "idle" => call \in SearchCall \cup WalkCall
  /\ status \in {"search", "fetch"} => call \in SearchCall
  /\ status = "walk" => call \in WalkCall
  /\ found \in Seq(Item) /\ frontier \in Seq(Item) /\ next \in SUBSET Item
  /\ fts \in SUBSET Row /\ shrunk \in BOOLEAN
  /\ page \in Seq(Row) /\ pageSize \in Nat /\ offset \in Nat /\ depth \in Nat
  /\ left \in SUBSET ReplyEdge /\ visited \in SUBSET Node
  /\ left # {} => current \in Item
  /\ atStart \in [0 .. MaxDepth -> SUBSET Node]

EdgesStand == \A e \in edges : e.fromSide \in text[e.from] /\ e.toSide \in text[e.to]

\* The triggers keep a row of every stored turn.
Indexed == \A n \in Node : text[n] # {} => OwnRow(n) \in fts

\* What a step of anybody does to the tables.
TablesGrow ==
  /\ \A n \in Node : text[n] \subseteq text'[n]
  /\ edges \subseteq edges' /\ access \subseteq access'

\* The walk finds entries of different turns, and every one that waits to be
\* expanded is one of them, or the start.
Entries == Range(found) \cup next
Pending == Range(frontier) \cup (IF left = {} THEN {} ELSE {current})

Levelled ==
  /\ depth \in 1 .. call.depth
  /\ visited = {call.start} \cup NodesOf(Range(found))
  /\ call.start \notin NodesOf(Range(found)) /\ NodesOf(next) \cap visited = {}
  /\ \A i, j \in DOMAIN found : found[i].node = found[j].node => i = j
  /\ OnePerNode(next)
  /\ \A x \in Pending : x \in Range(found) \/ (x.node = call.start /\ x.path = <<>>)
  /\ \A e \in left : e \in edges /\ NextNode(call, current.node, e) # NULL
  /\ status = "done" => next = {} /\ left = {}

\* Stored replies lead from the start to every entry.
Shown(n, side) == \A x \in Entries : x.node = n => side \in x.text

Leads(on, path) ==
  /\ on[0] = call.start
  /\ \A k, l \in 0 .. Len(path) : on[k] = on[l] => k = l
  /\ \A k \in 1 .. Len(path) :
       /\ on[k] = NextNode(call, on[k - 1], path[k]) /\ CanRead(call, access, on[k])
       /\ on[k - 1] \in visited /\ path[k] \in edges
       /\ Shown(path[k].from, path[k].fromSide) /\ Shown(path[k].to, path[k].toSide)

Paths ==
  \A x \in Entries :
    /\ Len(x.path) > 0
    /\ \E on \in [0 .. Len(x.path) -> Node] : Leads(on, x.path) /\ on[Len(x.path)] = x.node

\* What the walk found is within its level now.
Upper ==
  /\ status = "walk" => visited \subseteq WithinNow[depth - 1] /\ NodesOf(next) \subseteq WithinNow[depth]
  /\ status = "done" => visited \subseteq WithinNow[depth]

\* What was within its level when it began it has found: the neighbours of a
\* turn are known once its edges have been looked at.
Began(replies, granted) ==
  /\ atStart = Within(call, replies, granted)
  /\ \A e \in replies, x \in Entries \cup Pending :
       /\ x.node = e.from => e.fromSide \in x.text
       /\ x.node = e.to => e.toSide \in x.text
  /\ \A n \in visited \ NodesOf(Range(frontier)), m \in Node :
       Neighbour(call, replies, granted, n, m) =>
         \/ m \in Known
         \/ \E e \in left \cap replies : n = current.node /\ NextNode(call, n, e) = m

Lower ==
  /\ status = "walk" => atStart[depth - 1] \subseteq visited
  /\ status = "done" => atStart[call.depth] \subseteq visited
  /\ \E replies \in SUBSET edges, granted \in SUBSET access : Began(replies, granted)

Idle ==
  /\ found = <<>> /\ frontier = <<>> /\ next = {} /\ left = {} /\ visited = {}

WalkInv ==
  /\ status = "idle" => Idle
  /\ status = "walk" => visited # {}
  /\ status = "done" /\ call \in WalkCall /\ visited = {} => found = <<>>
  /\ status \in {"walk", "done"} /\ call \in WalkCall /\ visited # {} =>
       Levelled /\ Paths /\ Upper /\ Lower

\* Rows of M: how many stand before one, and whether a turn has one that stands
\* at or after an offset.
Before(M, r) == {s \in M : s < r}
Ahead(M, m, from) == \E r \in M : NodeOf[r] = m /\ Cardinality(Before(M, r)) >= from

Allowed(n) ==
  IF call.scope = "current_conversation" THEN ConversationOf[n] = Own
  ELSE CanRead(call, access, n)

Searching == status \in {"search", "fetch"} \/ (status = "done" /\ call \in SearchCall)

\* What a search has found are different turns, and all of them match.
Found ==
  /\ \A i, j \in DOMAIN found : found[i].node = found[j].node => i = j
  /\ Nodes(found) \subseteq Matches(call)

\* The rows of a page stand in order and may be read.
Paged ==
  /\ \A i \in DOMAIN page : NodeOf[page[i]] \in Matches(call) /\ Allowed(NodeOf[page[i]])
  /\ \A i, j \in DOMAIN page : i < j => page[i] < page[j]

\* A match of the beginning that was not found comes after all that were, and it
\* has a row on the page, or behind the page if that was full, or the search
\* has found more than it may show.
ToCome(m) ==
  /\ status = "search" => Ahead(MatchingRows(call), m, offset)
  /\ status = "fetch" =>
       \/ \E i \in DOMAIN page : NodeOf[page[i]] = m
       \/ /\ ~Exhausted /\ Ahead(MatchingRows(call), m, offset + pageSize)
          /\ \A i \in DOMAIN page : NodeOf[page[i]] <= m
  /\ status = "done" => Len(found) > call.limit

Missing == atStart[0] \ Nodes(found)

Complete ==
  /\ \A i, k \in DOMAIN found :
       i < k /\ found[k].node \in atStart[0] => found[i].node < found[k].node
  /\ \A m \in Missing : ToCome(m) /\ \A n \in Nodes(found) : n < m

SearchInv ==
  /\ status = "idle" => page = <<>>
  /\ status \in {"search", "fetch"} => call.agent \/ call.scope = "current_conversation"
  /\ Searching => Found
  /\ status = "search" => page = <<>> /\ (offset = 0 => found = <<>>)
  /\ status = "fetch" => Paged
  /\ Searching /\ ~shrunk /\ ~(status = "search" /\ offset = 0) => Complete

RInv == Shapes /\ EdgesStand /\ Indexed /\ SearchInv /\ WalkInv

LEMMA CallShapes ==
  /\ \A c \in SearchCall : c.tool = "keyword" /\ c.limit \in Nat \ {0} /\ c \notin WalkCall
  /\ \A c \in WalkCall : c.tool = "graph" /\ c.limit \in Nat \ {0} /\ c.start \in Node
                         /\ c.depth \in 1 .. MaxDepth /\ c \notin SearchCall
  /\ MaxDepth \in Nat
BY RetrievalAssumption DEF SearchCall, WalkCall

LEMMA ItemProperties ==
  ASSUME NEW S \in SUBSET Item
  PROVE  \A x \in S : x.node \in Node /\ x.text \in SUBSET Side /\ x.path \in Seq(ReplyEdge)
BY DEF Item

LEMMA RangeProperties ==
  ASSUME NEW S, NEW s \in Seq(S)
  PROVE  /\ Len(s) \in Nat /\ DOMAIN s = 1 .. Len(s)
         /\ Range(s) \subseteq S
         /\ \A x : x \in Range(s) <=> \E i \in 1 .. Len(s) : s[i] = x
BY LenProperties DEF Range
-----------------------------------------------------------------------------
(* Every step keeps the shapes and takes nothing from the tables.           *)

\* Rows are numbered like their turns, and every turn has one.
LEMMA RowFacts ==
  /\ Row \in SUBSET Nat /\ IsFiniteSet(Row) /\ \A r \in Row : NodeOf[r] \in Node
  /\ \A n \in Node : OwnRow(n) \in Row /\ NodeOf[OwnRow(n)] = n
  /\ \A r, s \in Row : r < s => NodeOf[r] <= NodeOf[s]
  /\ \A n \in Node : n \in Nat
<1>1. \A n \in Node : \E r \in Row : NodeOf[r] = n
  BY RetrievalAssumption
<1> QED
  BY <1>1, RetrievalAssumption DEF OwnRow

LEMMA WriterTables ==
  ASSUME Shapes, EdgesStand, WriterStep
  PROVE  /\ TablesGrow /\ EdgesStand'
         /\ text' \in [Node -> SUBSET Side] /\ edges' \in SUBSET ReplyEdge /\ access' \in SUBSET Conversation
         /\ fts' \in SUBSET Row /\ shrunk' \in BOOLEAN
<1> USE DEF Shapes, EdgesStand, TablesGrow
<1>1. \A e \in ReplyEdge : e.from \in Node /\ e.to \in Node
  BY RetrievalAssumption
<1>2. ASSUME NEW n \in Node, NEW side \in Side, InsertTurn(n, side)
      PROVE  TablesGrow /\ text' \in [Node -> SUBSET Side] /\ UNCHANGED <<edges, access>>
  BY <1>2 DEF InsertTurn, Stored
<1>3. ASSUME NEW n \in Node, AttachAnswer(n)
      PROVE  TablesGrow /\ text' \in [Node -> SUBSET Side] /\ UNCHANGED <<edges, access>>
  BY <1>3 DEF AttachAnswer
<1>7. ASSUME NEW r \in Row, CopyRow(r)
      PROVE  TablesGrow /\ UNCHANGED <<text, edges, access>>
  BY <1>7 DEF CopyRow
<1>8. fts' \in SUBSET Row /\ shrunk' \in BOOLEAN
  <2>1. ASSUME NEW n \in Node, AttachAnswer(n) PROVE fts' \in SUBSET Row /\ shrunk' \in BOOLEAN
    BY <2>1, RowFacts DEF AttachAnswer
  <2>2. ASSUME NEW n \in Node, NEW side \in Side, InsertTurn(n, side)
        PROVE  fts' \in SUBSET Row /\ shrunk' \in BOOLEAN
    BY <2>2, RowFacts DEF InsertTurn
  <2>3. ASSUME NEW r \in Row, CopyRow(r) PROVE fts' \in SUBSET Row /\ shrunk' \in BOOLEAN
    BY <2>3 DEF CopyRow
  <2>4. ASSUME NEW e \in ReplyEdge, RecordReply(e) PROVE fts' \in SUBSET Row /\ shrunk' \in BOOLEAN
    BY <2>4 DEF RecordReply
  <2>5. ASSUME NEW c \in Conversation, GrantAccess(c) PROVE fts' \in SUBSET Row /\ shrunk' \in BOOLEAN
    BY <2>5 DEF GrantAccess
  <2> QED
    BY <2>1, <2>2, <2>3, <2>4, <2>5 DEF WriterStep
<1>4. ASSUME TablesGrow, text' \in [Node -> SUBSET Side], UNCHANGED <<edges, access>>
      PROVE  EdgesStand'
  BY <1>1, <1>4
<1>5. ASSUME NEW e \in ReplyEdge, RecordReply(e)
      PROVE  /\ TablesGrow /\ EdgesStand' /\ edges' \in SUBSET ReplyEdge
             /\ UNCHANGED <<text, access>>
  BY <1>5 DEF RecordReply
<1>6. ASSUME NEW c \in Conversation, GrantAccess(c)
      PROVE  /\ TablesGrow /\ access' \in SUBSET Conversation /\ UNCHANGED <<text, edges>>
  BY <1>6 DEF GrantAccess
<1> QED
  BY <1>2, <1>3, <1>4, <1>5, <1>6, <1>7, <1>8 DEF WriterStep

LEMMA GrantTables ==
  ASSUME Shapes, NEW c, GrantOwn(c)
  PROVE  TablesGrow /\ access' \in SUBSET Conversation /\ UNCHANGED <<text, fts, edges>>
BY RetrievalAssumption DEF Shapes, TablesGrow, GrantOwn

\* A call leaves the tables alone after it has begun.
LEMMA WorkTables ==
  ASSUME Work
  PROVE  UNCHANGED <<text, fts, edges, access, call>>
BY DEF Work, ReadPage, Fetch, EndPage, ListEdges, Examine, EndLevel, tables

LEMMA NextTables ==
  ASSUME Shapes, EdgesStand, [Next]_vars
  PROVE  TablesGrow /\ EdgesStand'
<1>1. ASSUME UNCHANGED <<text, edges, access>>
      PROVE  TablesGrow /\ EdgesStand'
  BY <1>1 DEF TablesGrow, EdgesStand
<1>2. ASSUME NEW c, GrantOwn(c)
      PROVE  TablesGrow /\ EdgesStand'
  BY <1>2, GrantTables DEF EdgesStand
<1>3. CASE WriterStep
  BY <1>3, WriterTables
<1>4. CASE \E c \in SearchCall : BeginSearch(c)
  BY <1>2, <1>4 DEF BeginSearch
<1>5. CASE \E c \in WalkCall : BeginWalk(c)
  BY <1>2, <1>5 DEF BeginWalk
<1>6. CASE Work
  BY <1>1, <1>6, WorkTables
<1>7. CASE UNCHANGED vars
  BY <1>1, <1>7 DEF vars, tables
<1> QED
  BY <1>3, <1>4, <1>5, <1>6, <1>7 DEF Next

LEMMA IndexStep ==
  ASSUME Shapes, Indexed, [Next]_vars
  PROVE  Indexed'
<1>1. ASSUME UNCHANGED <<text, fts>>
      PROVE  Indexed'
  BY <1>1 DEF Indexed
<1>2. CASE WriterStep
  <2>1. ASSUME NEW n \in Node, NEW side \in Side, InsertTurn(n, side)
        PROVE  Indexed'
    BY <2>1 DEF InsertTurn, Indexed, Shapes
  <2>2. ASSUME NEW n \in Node, AttachAnswer(n)
        PROVE  Indexed'
    <3>1. \A m \in Node : m # n => text'[m] = text[m]
      BY <2>2 DEF AttachAnswer, Shapes
    <3>2. \A m \in Node : m # n => OwnRow(m) \notin RowsOf(n)
      BY RowFacts DEF RowsOf
    <3> QED
      BY <2>2, <3>1, <3>2 DEF AttachAnswer, Indexed
  <2>3. ASSUME NEW r \in Row, CopyRow(r)
        PROVE  Indexed'
    BY <2>3 DEF CopyRow, Indexed
  <2> QED
    BY <1>1, <1>2, <2>1, <2>2, <2>3 DEF WriterStep, RecordReply, GrantAccess
<1>3. CASE \E c \in SearchCall : BeginSearch(c)
  BY <1>1, <1>3, GrantTables DEF BeginSearch
<1>4. CASE \E c \in WalkCall : BeginWalk(c)
  BY <1>1, <1>4, GrantTables DEF BeginWalk
<1>5. CASE Work
  BY <1>1, <1>5, WorkTables
<1>6. CASE UNCHANGED vars
  BY <1>1, <1>6 DEF vars, tables
<1> QED
  BY <1>2, <1>3, <1>4, <1>5, <1>6 DEF Next

LEMMA EntryShape ==
  ASSUME Shapes, NEW n \in Node, NEW path \in Seq(ReplyEdge)
  PROVE  /\ Entry(n, path) \in Item
         /\ Entry(n, path).node = n /\ Entry(n, path).text = text[n] /\ Entry(n, path).path = path
BY DEF Shapes, Entry, Item

\* Where a reply leads is a turn, and not the one it starts at.
LEMMA NextNodeShape ==
  ASSUME NEW c, NEW n \in Node, NEW e \in ReplyEdge, NextNode(c, n, e) # NULL
  PROVE  /\ NextNode(c, n, e) \in Node
         /\ \/ e.from = n /\ e.to = NextNode(c, n, e)
            \/ e.to = n /\ e.from = NextNode(c, n, e)
BY RetrievalAssumption DEF NextNode

LEMMA FetchShape ==
  ASSUME Shapes, Fetch
  PROVE  found' \in Seq(Item) /\ page' \in Seq(Row)
<1>1. page \in Seq(Row) /\ page # <<>> /\ page' = Tail(page)
  BY DEF Shapes, Fetch
<1>2. Head(page) \in Row /\ page' \in Seq(Row)
  BY <1>1, HeadTailProperties
<1> DEFINE n == NodeOf[Head(page)]
           item == [node |-> n, text |-> text[n], path |-> <<>>]
<1>3. item \in Item
  <2>1. n \in Node
    BY <1>2, RowFacts
  <2>2. text[n] \in SUBSET Side /\ <<>> \in Seq(ReplyEdge)
    BY <2>1, EmptySeq DEF Shapes
  <2> QED
    BY <2>1, <2>2 DEF Item
<1>4. found' = found \/ found' = Append(found, item)
  BY DEF Fetch
<1> HIDE DEF item
<1>5. found \in Seq(Item)
  BY DEF Shapes
<1>6. found' \in Seq(Item)
  BY <1>3, <1>4, <1>5, AppendProperties
<1> QED
  BY <1>2, <1>6

\* The page a search reads: rows of Ascending from the offset on, limit + 1 of
\* them or all that are left.
LEMMA PageRead ==
  ASSUME Shapes, ReadPage, NEW M, M = MatchingRows(call), NEW all, all = Ascending(M)
  PROVE  /\ M \in SUBSET Row /\ M \in SUBSET Nat /\ IsFiniteSet(M)
         /\ all \in Seq(M) /\ Len(all) = Cardinality(M) /\ Len(all) \in Nat
         /\ call.limit \in Nat \ {0} /\ offset \in Nat
         /\ page' \in Seq(M) /\ pageSize' = Len(page') /\ pageSize' \in Nat
         /\ DOMAIN page' = 1 .. pageSize'
         /\ \A i \in 1 .. pageSize' : offset + i \in 1 .. Len(all) /\ page'[i] = all[offset + i]
         /\ pageSize' < call.limit + 1 => offset + pageSize' >= Len(all)
<1> DEFINE last == IF offset + call.limit + 1 < Len(all) THEN offset + call.limit + 1 ELSE Len(all)
<1>1. M \in SUBSET Row /\ M \in SUBSET Nat /\ IsFiniteSet(M)
  BY RowFacts, FS_Subset DEF MatchingRows, Shapes
<1>2. all \in Seq(M) /\ Len(all) = Cardinality(M) /\ Len(all) \in Nat
  BY <1>1, AscendingProperties, LenProperties
<1>3. offset \in Nat /\ call.limit \in Nat \ {0}
  BY CallShapes DEF Shapes, ReadPage
<1>4. page' = SubSeq(all, offset + 1, last) /\ pageSize' = Len(page')
  BY DEF ReadPage
<1>5. /\ last \in Int /\ offset + 1 \in Int /\ last <= Len(all)
      /\ last = Len(all) \/ (last = offset + call.limit + 1 /\ last < Len(all))
      /\ \A i \in (offset + 1) .. last : i \in 1 .. Len(all)
  BY <1>2, <1>3
<1> HIDE DEF last
<1>6. \A i \in (offset + 1) .. last : all[i] \in M
  BY <1>2, <1>5, ElementOfSeq
<1>7. /\ page' \in Seq(M)
      /\ Len(page') = IF offset + 1 <= last THEN last - (offset + 1) + 1 ELSE 0
      /\ \A i \in 1 .. last - (offset + 1) + 1 : page'[i] = all[(offset + 1) + i - 1]
  BY <1>4, <1>5, <1>6, SubSeqProperties
<1>8. pageSize' \in Nat /\ DOMAIN page' = 1 .. pageSize'
  BY <1>4, <1>7, LenProperties
<1>9. ASSUME NEW i \in 1 .. pageSize'
      PROVE  offset + i \in 1 .. Len(all) /\ page'[i] = all[offset + i]
  <2>1. offset + 1 <= last /\ pageSize' = last - offset
    BY <1>3, <1>4, <1>5, <1>7, <1>8
  <2>2. i \in 1 .. last - (offset + 1) + 1 /\ (offset + 1) + i - 1 = offset + i
    BY <1>3, <1>5, <1>8, <2>1
  <2>3. offset + i \in (offset + 1) .. last
    BY <1>3, <1>5, <1>8, <2>1
  <2> QED
    BY <1>5, <1>7, <2>2, <2>3
<1>10. pageSize' < call.limit + 1 => offset + pageSize' >= Len(all)
  BY <1>2, <1>3, <1>4, <1>5, <1>7
<1> QED
  BY <1>1, <1>2, <1>3, <1>4, <1>7, <1>8, <1>9, <1>10

LEMMA ReadPageShape ==
  ASSUME Shapes, ReadPage
  PROVE  /\ page' \in Seq(Row) /\ pageSize' \in Nat
         /\ atStart' \in [0 .. MaxDepth -> SUBSET Node]
<1>1. /\ MatchingRows(call) \in SUBSET Row /\ page' \in Seq(MatchingRows(call))
      /\ pageSize' \in Nat
  BY PageRead
<1>2. Matches(call) \in SUBSET Node
  BY DEF Matches
<1>3. atStart' \in [0 .. MaxDepth -> SUBSET Node]
  BY <1>2 DEF ReadPage, Shapes
<1> QED
  BY <1>1, <1>3, SeqMonotonic

LEMMA ListEdgesShape ==
  ASSUME Shapes, ListEdges
  PROVE  /\ frontier' \in Seq(Item) /\ left' \in SUBSET ReplyEdge /\ current' \in Item
         /\ Head(frontier) \in Item /\ Range(frontier) = {Head(frontier)} \cup Range(frontier')
<1>1. frontier \in Seq(Item) /\ frontier # <<>> /\ current' = Head(frontier) /\ frontier' = Tail(frontier)
  BY DEF Shapes, ListEdges
<1>2. /\ Head(frontier) \in Item /\ frontier' \in Seq(Item) /\ Len(frontier') = Len(frontier) - 1
      /\ \A i \in 1 .. Len(frontier') : frontier'[i] = frontier[i + 1]
      /\ Len(frontier) \in Nat \ {0} /\ Head(frontier) = frontier[1]
  BY <1>1, HeadTailProperties, EmptySeq
<1>3. \A x \in Range(frontier) : x \in {Head(frontier)} \cup Range(frontier')
  <2> SUFFICES ASSUME NEW i \in 1 .. Len(frontier)
               PROVE  frontier[i] \in {Head(frontier)} \cup Range(frontier')
    BY <1>1, RangeProperties
  <2>1. CASE i = 1
    BY <1>2, <2>1
  <2>2. CASE i # 1
    <3>1. i - 1 \in 1 .. Len(frontier') /\ (i - 1) + 1 = i
      BY <1>2, <2>2
    <3>2. frontier'[i - 1] = frontier[i]
      BY <1>2, <3>1
    <3>3. frontier[i] \in Range(frontier')
      BY <1>2, <3>1, <3>2, RangeProperties
    <3> QED
      BY <3>3
  <2> QED
    BY <2>1, <2>2
<1>4. \A x \in Range(frontier') : x \in Range(frontier)
  <2> SUFFICES ASSUME NEW i \in 1 .. Len(frontier')
               PROVE  frontier'[i] \in Range(frontier)
    BY <1>2, RangeProperties
  <2>1. i + 1 \in 1 .. Len(frontier)
    BY <1>2
  <2>2. frontier[i + 1] \in Range(frontier)
    BY <1>1, <2>1, RangeProperties
  <2> QED
    BY <1>2, <2>2
<1>5. Head(frontier) \in Range(frontier)
  BY <1>1, <1>2, RangeProperties, 1 \in 1 .. Len(frontier)
<1> QED
  BY <1>1, <1>2, <1>3, <1>4, <1>5 DEF ListEdges, Shapes
LEMMA ExamineShape ==
  ASSUME Shapes, NEW e \in left, Examine(e)
  PROVE  /\ next' \in SUBSET Item /\ left' \in SUBSET ReplyEdge /\ current \in Item
         /\ NextNode(call, current.node, e) # NULL =>
              \/ next' = next
              \/ /\ NextNode(call, current.node, e) \in Node
                 /\ Append(current.path, e) \in Seq(ReplyEdge)
                 /\ next' = next \cup {Entry(NextNode(call, current.node, e), Append(current.path, e))}
<1> DEFINE target == NextNode(call, current.node, e)
           path == Append(current.path, e)
<1>1. current \in Item /\ e \in ReplyEdge /\ left' \in SUBSET ReplyEdge /\ next \in SUBSET Item
  BY DEF Shapes, Examine
<1>2. current.node \in Node /\ current.path \in Seq(ReplyEdge)
  BY <1>1, ItemProperties
<1>3. path \in Seq(ReplyEdge)
  BY <1>1, <1>2, AppendProperties
<1>4. target \notin Stored \/ target \in Node
  BY DEF Stored
<1>5. next' = next \/ (target \in Stored /\ next' = next \cup {Entry(target, path)})
  BY DEF Examine
<1> HIDE DEF path
<1>6. target \in Node => Entry(target, path) \in Item
  BY <1>3, EntryShape
<1>7. next' \in SUBSET Item
  BY <1>1, <1>4, <1>5, <1>6
<1> QED
  BY <1>1, <1>3, <1>4, <1>5, <1>7 DEF path

LEMMA EndLevelShape ==
  ASSUME Shapes, OnePerNode(next), EndLevel
  PROVE  /\ frontier' = ByNode(next) /\ frontier' \in Seq(Item) /\ Range(frontier') = next
         /\ found' \in Seq(Item) /\ Range(found') = Range(found) \cup next
         /\ \A i, j \in DOMAIN frontier' : frontier'[i].node = frontier'[j].node => i = j
         /\ visited' = visited \cup NodesOf(next) /\ visited' \in SUBSET Node
<1> DEFINE level == ByNode(next)
<1>1. next \in SUBSET Item /\ found \in Seq(Item)
  BY DEF Shapes
<1>2. /\ level \in Seq(next) /\ Range(level) = next
      /\ \A i, j \in DOMAIN level : level[i].node = level[j].node => i = j
  BY <1>1, ByNodeProperties
<1>3. level \in Seq(Item)
  BY <1>1, <1>2, SeqMonotonic
<1>4. frontier' = level /\ found' = found \o level /\ visited' = visited \cup Nodes(level)
  BY DEF EndLevel
<1> HIDE DEF level
<1>5. found' \in Seq(Item) /\ Range(found') = Range(found) \cup Range(level)
  BY <1>1, <1>3, <1>4, ConcatProperties, RangeConcatenation
<1>6. Nodes(level) = NodesOf(next)
  BY <1>2 DEF Nodes, NodesOf, Range
<1>7. visited' \in SUBSET Node
  BY <1>1, <1>4, <1>6, ItemProperties DEF Shapes, NodesOf
<1> QED
  BY <1>2, <1>3, <1>4, <1>5, <1>6, <1>7 DEF level

LEMMA ShapesStep ==
  ASSUME Shapes, EdgesStand, [Next]_vars,
         status = "walk" => OnePerNode(next)
  PROVE  Shapes'
<1>1. CASE UNCHANGED vars
  BY <1>1 DEF Shapes, vars, tables, searchVars, walkVars
<1>2. CASE WriterStep
  BY <1>2, WriterTables DEF WriterStep, Shapes, searchVars, walkVars
<1>3. ASSUME NEW c \in SearchCall, BeginSearch(c)
      PROVE  Shapes'
  BY <1>3, GrantTables, CallShapes DEF BeginSearch, Shapes, walkVars
<1>4. ASSUME NEW c \in WalkCall, BeginWalk(c)
      PROVE  Shapes'
  <2>1. c.start \in Node /\ Within(c, edges, access) \in [0 .. MaxDepth -> SUBSET Node]
    BY CallShapes, WithinUnfolds
  <2>2. Entry(c.start, <<>>) \in Item
    BY <2>1, EntryShape, EmptySeq
  <2>3. visited' \in SUBSET Node /\ frontier' \in Seq(Item)
    <3>1. CASE status' = "walk"
      <4>1. visited' = {c.start} /\ frontier' = <<Entry(c.start, <<>>)>>
        BY <1>4, <3>1 DEF BeginWalk
      <4>2. \A x \in Item : <<x>> \in Seq(Item)
        OBVIOUS
      <4> QED
        BY <2>1, <2>2, <4>1, <4>2
    <3>2. CASE status' # "walk"
      BY <1>4, <3>2 DEF BeginWalk, Shapes
    <3> QED
      BY <3>1, <3>2
  <2>4. atStart' \in [0 .. MaxDepth -> SUBSET Node]
    <3>1. CASE status' = "walk"
      BY <1>4, <2>1, <3>1 DEF BeginWalk
    <3>2. CASE status' # "walk"
      BY <1>4, <3>2 DEF BeginWalk
    <3> QED
      BY <3>1, <3>2
  <2>5. /\ status' \in {"walk", "done"} /\ call' = c /\ depth' = 1
        /\ UNCHANGED <<found, searchVars, current, left, next>>
    BY <1>4 DEF BeginWalk
  <2>6. access' \in SUBSET Conversation /\ UNCHANGED <<text, fts, edges>>
    BY <1>4, GrantTables DEF BeginWalk
  <2> QED
    BY <2>3, <2>4, <2>5, <2>6 DEF Shapes, searchVars
<1>5. CASE ReadPage
  BY <1>5, ReadPageShape DEF ReadPage, Shapes, tables, walkVars
<1>6. CASE Fetch
  BY <1>6, FetchShape DEF Fetch, Shapes, tables, walkVars
<1>7. CASE EndPage
  <2>1. status' \in {"search", "done"} /\ offset' = offset + pageSize
    BY <1>7 DEF EndPage
  <2> QED
    BY <1>7, <2>1 DEF EndPage, Shapes, tables, walkVars
<1>8. CASE ListEdges
  BY <1>8, ListEdgesShape DEF ListEdges, Shapes, tables, searchVars
<1>9. ASSUME NEW e \in left, Examine(e)
      PROVE  Shapes'
  <2>1. next' \in SUBSET Item /\ left' \in SUBSET ReplyEdge /\ current \in Item
    BY <1>9, ExamineShape
  <2> QED
    BY <1>9, <2>1 DEF Examine, Shapes, tables, searchVars
<1>10. CASE EndLevel
  <2>1. frontier' \in Seq(Item) /\ found' \in Seq(Item) /\ visited' \in SUBSET Node
    BY <1>10, EndLevelShape DEF EndLevel
  <2>2. status' \in {"walk", "done"} /\ depth' \in Nat /\ next' = {} /\ status = "walk"
    BY <1>10 DEF EndLevel, Shapes
  <2> QED
    BY <1>10, <2>1, <2>2 DEF EndLevel, Shapes, tables, searchVars
<1> QED
  BY <1>1, <1>2, <1>3, <1>4, <1>5, <1>6, <1>7, <1>8, <1>9, <1>10 DEF Next, Work
-----------------------------------------------------------------------------
(* Keyword search: rows that are added move no row to before the offset.     *)

LEMMA AheadGrows ==
  ASSUME NEW M \in SUBSET Row, NEW N \in SUBSET Row, M \subseteq N, NEW m, NEW from \in Nat,
         Ahead(M, m, from)
  PROVE  Ahead(N, m, from)
<1>1. PICK r \in M : NodeOf[r] = m /\ Cardinality(Before(M, r)) >= from
  BY DEF Ahead
<1>2. /\ IsFiniteSet(Before(N, r)) /\ IsFiniteSet(Before(M, r))
      /\ Before(M, r) \in SUBSET Before(N, r)
  BY RowFacts, FS_Subset DEF Before
<1>3. Cardinality(Before(M, r)) <= Cardinality(Before(N, r))
  BY <1>2, FS_Subset
<1>4. Cardinality(Before(M, r)) \in Nat /\ Cardinality(Before(N, r)) \in Nat
  BY <1>2, FS_CardinalityType
<1>5. r \in N /\ Cardinality(Before(N, r)) >= from
  BY <1>1, <1>3, <1>4
<1> QED
  BY <1>1, <1>5 DEF Ahead

LEMMA MatchesGrow ==
  ASSUME Shapes, TablesGrow, UNCHANGED call
  PROVE  Matches(call) \subseteq Matches(call)' /\ \A n : Allowed(n) => Allowed(n)'
<1>1. \A n \in Node : InScope(call, n) => InScope(call, n)'
  BY DEF InScope, TablesGrow
<1>2. \A n \in Node : text[n] \subseteq text'[n]
  BY DEF TablesGrow
<1>3. Matches(call) \subseteq Matches(call)'
  BY <1>1, <1>2 DEF Matches
<1> QED
  BY <1>3 DEF Allowed, CanRead, TablesGrow

\* A step of another runtime takes rows away only with a mark.
LEMMA RowsGrow ==
  ASSUME Shapes, EdgesStand, WriterStep, status \in {"search", "fetch"}, ~shrunk'
  PROVE  ~shrunk /\ MatchingRows(call) \subseteq MatchingRows(call)'
<1>1. UNCHANGED call /\ TablesGrow
  BY WriterTables DEF WriterStep
<1>2. Matches(call) \subseteq Matches(call)'
  BY <1>1, MatchesGrow
<1>3. ~shrunk /\ fts \subseteq fts'
  <2>1. ASSUME NEW n \in Node, AttachAnswer(n)
        PROVE  ~shrunk /\ fts \subseteq fts'
    <3>1. shrunk' = (shrunk \/ (status \in {"search", "fetch"} /\ RowsOf(n) # {OwnRow(n)}))
      BY <2>1 DEF AttachAnswer
    <3>2. ~shrunk /\ RowsOf(n) = {OwnRow(n)}
      BY <3>1
    <3> QED
      BY <2>1, <3>2 DEF AttachAnswer
  <2> QED
    BY <2>1 DEF WriterStep, InsertTurn, CopyRow, RecordReply, GrantAccess
<1> QED
  BY <1>1, <1>2, <1>3 DEF MatchingRows

LEMMA FoundShape ==
  ASSUME Shapes
  PROVE  /\ Len(found) \in Nat /\ DOMAIN found = 1 .. Len(found)
         /\ \A i \in DOMAIN found : found[i].node \in Node /\ found[i].node \in Nat
         /\ \A n \in Nodes(found) : n \in Nat
<1>1. found \in Seq(Item)
  BY DEF Shapes
<1>2. Len(found) \in Nat /\ DOMAIN found = 1 .. Len(found) /\ \A i \in DOMAIN found : found[i] \in Item
  BY <1>1, LenProperties, ElementOfSeq
<1> QED
  BY <1>2, RowFacts DEF Item, Nodes

LEMMA BehindThePage ==
  ASSUME NEW i \in Nat, NEW start \in Nat, NEW size \in Nat, i - 1 >= start, i - start \notin 1 .. size
  PROVE  /\ i > start + size /\ i - 1 >= start + size
         /\ \A count \in Nat : start + size >= count => ~ (i <= count)
         /\ \A j \in 1 .. size : start + j < i
  OBVIOUS

LEMMA ReadPageSearch ==
  ASSUME RInv, Shapes', ReadPage
  PROVE  SearchInv'
<1> DEFINE M == MatchingRows(call)
           all == Ascending(M)
<1>1. /\ status = "search" /\ status' = "fetch" /\ Searching /\ Found /\ Shapes /\ Indexed
      /\ call.agent \/ call.scope = "current_conversation"
      /\ call \in SearchCall /\ UNCHANGED <<text, fts, edges, access, call, found, offset, shrunk>>
      /\ offset = 0 => found = <<>>
      /\ MaxDepth \in Nat
  BY CallShapes DEF RInv, Shapes, SearchInv, ReadPage, tables, Searching
<1>2. /\ M \in SUBSET Row /\ M \in SUBSET Nat /\ IsFiniteSet(M)
      /\ all \in Seq(M) /\ Len(all) = Cardinality(M) /\ Len(all) \in Nat
      /\ call.limit \in Nat \ {0} /\ offset \in Nat
      /\ pageSize' \in Nat /\ DOMAIN page' = 1 .. pageSize'
      /\ \A i \in 1 .. pageSize' : offset + i \in 1 .. Len(all) /\ page'[i] = all[offset + i]
      /\ pageSize' < call.limit + 1 => offset + pageSize' >= Len(all)
  BY <1>1, PageRead
<1>3. /\ \A i, j \in 1 .. Len(all) : i < j => all[i] < all[j]
      /\ \A r \in M : \E i \in 1 .. Len(all) : all[i] = r
      /\ \A i \in 1 .. Len(all) : Cardinality(Before(M, all[i])) = i - 1
      /\ \A i \in 1 .. Len(all) : all[i] \in M
  <2>1. /\ \A i, j \in 1 .. Cardinality(M) : i < j => all[i] < all[j]
        /\ \A r \in M : \E i \in 1 .. Cardinality(M) : all[i] = r
        /\ \A i \in 1 .. Cardinality(M) : Cardinality({s \in M : s < all[i]}) = i - 1
    BY <1>2, AscendingProperties
  <2>2. \A i \in 1 .. Len(all) : all[i] \in M
    BY <1>2, ElementOfSeq
  <2> QED
    BY <1>2, <2>1, <2>2 DEF Before
<1>4. M' = M /\ Matches(call)' = Matches(call)
  BY <1>1 DEF MatchingRows, Matches, InScope
<1>5. \A r \in M : NodeOf[r] \in Matches(call) /\ NodeOf[r] \in Node /\ r \in Row /\ r \in Nat
  BY <1>2, RowFacts DEF MatchingRows
<1>6. \A n \in Matches(call) : Allowed(n)
  BY <1>1 DEF Matches, InScope, Allowed, CanRead, SearchCall
<1>7. atStart' = (IF offset = 0 THEN [k \in 0 .. MaxDepth |-> Matches(call)] ELSE atStart)
  BY DEF ReadPage
<1> HIDE DEF M, all
<1>8. Paged'
  <2>1. ASSUME NEW i \in DOMAIN page'
        PROVE  (NodeOf[page[i]] \in Matches(call) /\ Allowed(NodeOf[page[i]]))'
    <3>1. page'[i] \in M
      BY <1>2, <1>3
    <3>2. NodeOf[page'[i]] \in Matches(call)
      BY <1>5, <3>1
    <3>3. Allowed(NodeOf[page'[i]])
      BY <1>6, <3>2
    <3> QED
      BY <1>1, <1>4, <3>2, <3>3 DEF Allowed, CanRead
  <2>2. ASSUME NEW i \in DOMAIN page', NEW j \in DOMAIN page', i < j
        PROVE  page'[i] < page'[j]
    <3>1. offset + i < offset + j
      BY <1>2, <2>2
    <3> QED
      BY <1>2, <1>3, <3>1
  <2> QED
    BY <2>1, <2>2 DEF Paged
<1>9. Found'
  BY <1>1, <1>4 DEF Found, Nodes
<1>10. ASSUME ~shrunk' PROVE Complete'
  <2>1. ASSUME NEW m \in Missing'
        PROVE  Ahead(M, m, offset) /\ \A n \in Nodes(found) : n < m
    <3>1. CASE offset = 0
      <4>1. m \in Matches(call) /\ found = <<>>
        BY <1>1, <1>7, <2>1, <3>1 DEF Missing
      <4>2. OwnRow(m) \in M /\ NodeOf[OwnRow(m)] = m
        BY <1>1, <4>1, RowFacts DEF M, MatchingRows, Matches, Indexed
      <4>3. Cardinality(Before(M, OwnRow(m))) >= offset
        <5>1. IsFiniteSet(Before(M, OwnRow(m)))
          BY <1>2, FS_Subset DEF Before
        <5> QED
          BY <3>1, <5>1, FS_CardinalityType
      <4> QED
        BY <4>1, <4>2, <4>3, EmptySeq DEF Ahead, Nodes
    <3>2. CASE offset # 0
      <4>1. Complete /\ m \in Missing
        BY <1>1, <1>7, <1>10, <2>1, <3>2 DEF RInv, SearchInv, Missing, Nodes
      <4> QED
        BY <1>1, <4>1 DEF Complete, ToCome, M
    <3> QED
      BY <3>1, <3>2
  <2>2. ASSUME NEW m \in Missing'
        PROVE  ToCome(m)'
    <3>1. PICK r \in M : NodeOf[r] = m /\ Cardinality(Before(M, r)) >= offset
      BY <2>1, <2>2 DEF Ahead
    <3>2. PICK i \in 1 .. Len(all) : all[i] = r
      BY <1>3, <3>1
    <3>3. i - 1 >= offset
      BY <1>3, <3>1, <3>2
    <3>4. CASE i - offset \in 1 .. pageSize'
      <4>1. page'[i - offset] = all[offset + (i - offset)] /\ offset + (i - offset) = i
        BY <1>2, <3>4
      <4>2. i - offset \in DOMAIN page' /\ NodeOf[page'[i - offset]] = m
        BY <1>2, <3>1, <3>2, <3>4, <4>1
      <4> QED
        BY <1>1, <4>2 DEF ToCome
    <3>5. CASE i - offset \notin 1 .. pageSize'
      <4>5. i \in Nat /\ offset \in Nat /\ pageSize' \in Nat
        BY <1>2, <3>2
      <4>1. /\ i > offset + pageSize' /\ i - 1 >= offset + pageSize'
            /\ \A count \in Nat : offset + pageSize' >= count => ~ (i <= count)
            /\ \A j \in 1 .. pageSize' : offset + j < i
        BY <3>3, <3>5, <4>5, BehindThePage
      <4>2. ~(pageSize' < call.limit + 1)
        <5>1. i \in Nat /\ i <= Len(all)
          BY <1>2, <3>2
        <5>2. Len(all) \in Nat /\ (pageSize' < call.limit + 1 => offset + pageSize' >= Len(all))
          BY <1>2
        <5> QED
          BY <4>1, <5>1, <5>2
      <4>3. Ahead(M, m, offset + pageSize')
        <5>1. Cardinality(Before(M, r)) = i - 1
          BY <1>3, <3>2
        <5>2. Cardinality(Before(M, r)) >= offset + pageSize'
          BY <4>1, <5>1
        <5> QED
          BY <3>1, <5>2 DEF Ahead
      <4>4. ASSUME NEW j \in DOMAIN page'
            PROVE  NodeOf[page'[j]] <= m
        <5>1. offset + j < i /\ offset + j \in 1 .. Len(all) /\ page'[j] = all[offset + j]
          <6>1. j \in 1 .. pageSize'
            BY <1>2, <4>4
          <6>2. offset + j \in 1 .. Len(all) /\ page'[j] = all[offset + j]
            BY <1>2, <6>1
          <6> QED
            BY <4>1, <6>1, <6>2
        <5>2. all[offset + j] < all[i] /\ all[offset + j] \in Row /\ all[i] \in Row
          BY <1>3, <1>5, <5>1
        <5> QED
          BY <3>1, <3>2, <5>1, <5>2, RowFacts
      <4> QED
        BY <1>1, <1>4, <4>2, <4>3, <4>4 DEF ToCome, Exhausted, M
    <3> QED
      BY <3>4, <3>5
  <2>3. \A i, k \in DOMAIN found' :
          i < k /\ found'[k].node \in atStart'[0] => found'[i].node < found'[k].node
    <3>1. CASE offset = 0
      BY <1>1, <3>1, EmptySeq
    <3>2. CASE offset # 0
      <4>1. Complete
        BY <1>1, <1>10, <3>2 DEF RInv, SearchInv
      <4> QED
        BY <1>1, <1>7, <3>2, <4>1 DEF Complete
    <3> QED
      BY <3>1, <3>2
  <2>4. Nodes(found)' = Nodes(found)
    BY <1>1 DEF Nodes
  <2> QED
    BY <2>1, <2>2, <2>3, <2>4 DEF Complete
<1> QED
  BY <1>1, <1>8, <1>9, <1>10 DEF SearchInv

LEMMA FetchSearch ==
  ASSUME RInv, Shapes', Fetch
  PROVE  SearchInv'
<1> DEFINE n == NodeOf[Head(page)]
           item == [node |-> n, text |-> text[n], path |-> <<>>]
<1>1. /\ status = "fetch" /\ status' = "fetch" /\ page # <<>> /\ page' = Tail(page)
      /\ UNCHANGED <<text, fts, edges, access, call, pageSize, offset, shrunk, atStart>>
      /\ Shapes /\ found \in Seq(Item) /\ page \in Seq(Row) /\ call \in SearchCall
      /\ Searching /\ Found /\ Paged
      /\ call.agent \/ call.scope = "current_conversation"
  BY DEF Fetch, tables, RInv, Shapes, SearchInv, Searching
<1>2. /\ Len(page) \in Nat \ {0} /\ DOMAIN page = 1 .. Len(page) /\ Head(page) = page[1]
      /\ DOMAIN page' = 1 .. Len(page) - 1 /\ \A i \in DOMAIN page' : page'[i] = page[i + 1]
      /\ \A i \in DOMAIN page : page[i] \in Row /\ page[i] \in Nat
  <2>1. /\ Len(page) \in Nat \ {0} /\ DOMAIN page = 1 .. Len(page) /\ Head(page) = page[1]
        /\ page' \in Seq(Row) /\ Len(page') = Len(page) - 1
        /\ \A i \in 1 .. Len(page) - 1 : page'[i] = page[i + 1]
    BY <1>1, HeadTailProperties, EmptySeq, LenProperties
  <2>2. DOMAIN page' = 1 .. Len(page) - 1
    BY <2>1, LenProperties
  <2>3. \A i \in DOMAIN page : page[i] \in Row /\ page[i] \in Nat
    BY <1>1, <2>1, ElementOfSeq, RowFacts
  <2> QED
    BY <2>1, <2>2, <2>3
<1>3. n \in Node /\ n \in Nat /\ n \in Matches(call) /\ Allowed(n)
  BY <1>1, <1>2, RowFacts DEF Paged
<1>4. /\ Len(found) \in Nat /\ DOMAIN found = 1 .. Len(found)
      /\ \A k \in Nodes(found) : k \in Nat
  BY <1>1, FoundShape
<1>5. item \in Item /\ item.node = n
  <2>1. text[n] \in SUBSET Side /\ <<>> \in Seq(ReplyEdge)
    BY <1>1, <1>3, EmptySeq DEF Shapes
  <2> QED
    BY <1>3, <2>1 DEF Item
<1>6. found' = IF n \notin Nodes(found) THEN Append(found, item) ELSE found
  BY <1>1, <1>3 DEF Fetch, Allowed
<1> HIDE DEF item, n
<1>7. n \notin Nodes(found) =>
        /\ DOMAIN found' = DOMAIN found \cup {Len(found) + 1} /\ Len(found) + 1 \notin DOMAIN found
        /\ found'[Len(found) + 1] = item /\ \A i \in DOMAIN found : found'[i] = found[i]
  <2> SUFFICES ASSUME n \notin Nodes(found)
               PROVE  /\ DOMAIN found' = DOMAIN found \cup {Len(found) + 1} /\ Len(found) + 1 \notin DOMAIN found
                      /\ found'[Len(found) + 1] = item /\ \A i \in DOMAIN found : found'[i] = found[i]
    OBVIOUS
  <2>1. found' = Append(found, item)
    BY <1>6
  <2>2. /\ Append(found, item) \in Seq(Item) /\ Len(Append(found, item)) = Len(found) + 1
        /\ Append(found, item)[Len(found) + 1] = item
        /\ \A i \in 1 .. Len(found) : Append(found, item)[i] = found[i]
    BY <1>1, <1>5, AppendProperties
  <2>3. DOMAIN found' = 1 .. Len(found) + 1
    BY <2>1, <2>2, LenProperties
  <2> QED
    BY <1>4, <2>1, <2>2, <2>3
<1>8. Nodes(found)' = Nodes(found) \cup {n}
  <2>1. CASE n \in Nodes(found)
    BY <1>6, <2>1 DEF Nodes
  <2>2. CASE n \notin Nodes(found)
    BY <1>5, <1>7, <2>2 DEF Nodes
  <2> QED
    BY <2>1, <2>2
<1>9. Matches(call)' = Matches(call) /\ MatchingRows(call)' = MatchingRows(call) /\ \A k : Allowed(k)' = Allowed(k)
  BY <1>1 DEF Matches, InScope, MatchingRows, Allowed, CanRead
<1>10. Found'
  <2>1. \A i, j \in DOMAIN found' : found'[i].node = found'[j].node => i = j
    <3>1. CASE n \in Nodes(found)
      BY <1>1, <1>6, <3>1 DEF Found
    <3>2. CASE n \notin Nodes(found)
      <4>1. \A i \in DOMAIN found : found[i].node # n
        BY <3>2 DEF Nodes
      <4> QED
        BY <1>1, <1>5, <1>7, <3>2, <4>1 DEF Found
    <3> QED
      BY <3>1, <3>2
  <2> QED
    BY <1>1, <1>3, <1>8, <1>9, <2>1 DEF Found
<1>11. \A i \in DOMAIN page' : i + 1 \in DOMAIN page /\ page'[i] = page[i + 1]
  BY <1>2
<1>12. Paged'
  BY <1>1, <1>2, <1>9, <1>11 DEF Paged
<1>13. ASSUME ~shrunk' PROVE Complete'
  <2>1. Complete
    BY <1>1, <1>13 DEF RInv, SearchInv
  <2>2. ASSUME NEW i \in DOMAIN found', NEW k \in DOMAIN found', i < k, found'[k].node \in atStart'[0]
        PROVE  found'[i].node < found'[k].node
    <3>1. CASE k \in DOMAIN found
      <4>1. i \in DOMAIN found /\ found'[i] = found[i] /\ found'[k] = found[k]
        BY <1>4, <1>6, <1>7, <2>2, <3>1
      <4> QED
        BY <1>1, <2>1, <2>2, <3>1, <4>1 DEF Complete
    <3>2. CASE k \notin DOMAIN found
      <4>1. n \notin Nodes(found) /\ k = Len(found) + 1 /\ found'[k].node = n
        BY <1>5, <1>6, <1>7, <2>2, <3>2
      <4>2. i \in DOMAIN found /\ found'[i] = found[i] /\ found[i].node \in Nodes(found)
        BY <1>7, <2>2, <4>1 DEF Nodes
      <4>3. n \in Missing
        BY <1>1, <2>2, <4>1 DEF Missing
      <4> QED
        BY <2>1, <4>1, <4>2, <4>3 DEF Complete
    <3> QED
      BY <3>1, <3>2
  <2>3. ASSUME NEW m \in Missing'
        PROVE  ToCome(m)' /\ \A k \in Nodes(found)' : k < m
    <3>1. m \in Missing /\ m # n /\ m \in Nat
      BY <1>1, <1>8, <2>3, RowFacts, CallShapes DEF Missing, Shapes
    <3>2. /\ \A k \in Nodes(found) : k < m
          /\ \/ \E i \in DOMAIN page : NodeOf[page[i]] = m
             \/ /\ ~Exhausted /\ Ahead(MatchingRows(call), m, offset + pageSize)
                /\ \A i \in DOMAIN page : NodeOf[page[i]] <= m
      BY <1>1, <2>1, <3>1 DEF Complete, ToCome
    <3>3. CASE \E i \in DOMAIN page : NodeOf[page[i]] = m
      <4>1. PICK i \in DOMAIN page : NodeOf[page[i]] = m
        BY <3>3
      <4>2. i # 1 /\ 1 \in DOMAIN page /\ i - 1 \in DOMAIN page' /\ (i - 1) + 1 = i /\ 1 < i
        BY <1>2, <3>1, <4>1 DEF n
      <4>3. page[1] < page[i] /\ page[1] \in Row /\ page[i] \in Row
        BY <1>1, <1>2, <4>2 DEF Paged
      <4>4. n <= m
        BY <1>2, <4>1, <4>3, RowFacts DEF n
      <4>5. NodeOf[page'[i - 1]] = m
        BY <1>2, <4>1, <4>2
      <4>6. ToCome(m)'
        BY <1>1, <4>2, <4>5 DEF ToCome
      <4> QED
        BY <1>3, <1>8, <3>1, <3>2, <4>4, <4>6
    <3>4. CASE /\ ~Exhausted /\ Ahead(MatchingRows(call), m, offset + pageSize)
               /\ \A i \in DOMAIN page : NodeOf[page[i]] <= m
      <4>1. n <= m
        BY <1>2, <3>4 DEF n
      <4>2. \A i \in DOMAIN page' : NodeOf[page'[i]] <= m
        BY <1>11, <3>4
      <4>3. Exhausted' = Exhausted
        BY <1>1 DEF Exhausted
      <4>4. ToCome(m)'
        BY <1>1, <1>9, <3>4, <4>2, <4>3 DEF ToCome
      <4> QED
        BY <1>3, <1>8, <3>1, <3>2, <4>1, <4>4
    <3> QED
      BY <3>2, <3>3, <3>4
  <2> QED
    BY <2>2, <2>3 DEF Complete
<1> QED
  BY <1>1, <1>10, <1>12, <1>13 DEF SearchInv

LEMMA EndPageSearch ==
  ASSUME RInv, EndPage
  PROVE  SearchInv'
<1>1. /\ status = "fetch" /\ page = <<>> /\ offset' = offset + pageSize
      /\ UNCHANGED <<text, fts, edges, access, call, found, page, pageSize, shrunk, atStart>>
      /\ status' = IF ReadsOn THEN "search" ELSE "done"
  BY DEF EndPage, tables
<1>2. /\ Shapes /\ call \in SearchCall /\ Searching /\ Found
      /\ call.agent \/ call.scope = "current_conversation"
  BY <1>1 DEF RInv, SearchInv, Shapes, Searching
<1>3. /\ call.limit \in Nat \ {0} /\ pageSize \in Nat /\ offset \in Nat /\ Len(found) \in Nat
      /\ DOMAIN page = {}
  BY <1>1, <1>2, CallShapes, FoundShape, EmptySeq DEF Shapes
<1>4. /\ Matches(call)' = Matches(call) /\ MatchingRows(call)' = MatchingRows(call)
      /\ Nodes(found)' = Nodes(found)
  BY <1>1 DEF Matches, InScope, MatchingRows, Nodes
<1>5. Found'
  BY <1>1, <1>2, <1>4 DEF Found
<1>6. ASSUME ~shrunk' PROVE Complete'
  <2>1. Complete
    BY <1>1, <1>2, <1>6 DEF RInv, SearchInv
  <2>2. ASSUME NEW m \in Missing'
        PROVE  ToCome(m)' /\ \A k \in Nodes(found)' : k < m
    <3>1. m \in Missing
      BY <1>1, <1>4, <2>2 DEF Missing
    <3>2. /\ ~Exhausted /\ Ahead(MatchingRows(call), m, offset + pageSize)
          /\ \A k \in Nodes(found) : k < m
      BY <1>1, <1>3, <2>1, <3>1 DEF Complete, ToCome
    <3>3. ToCome(m)'
      BY <1>1, <1>3, <1>4, <3>2 DEF ToCome, ReadsOn
    <3> QED
      BY <1>4, <3>2, <3>3
  <2> QED
    BY <1>1, <2>1, <2>2 DEF Complete
<1>7. status' = "search" => offset' # 0
  BY <1>1, <1>3 DEF ReadsOn, Exhausted
<1> QED
  BY <1>1, <1>2, <1>5, <1>6, <1>7 DEF SearchInv

\* Of the other steps none but the beginning of a call is about a search.
LEMMA SearchStep ==
  ASSUME RInv, Shapes', [Next]_vars
  PROVE  SearchInv'
<1>1. TablesGrow
  BY NextTables DEF RInv
<1>2. ASSUME UNCHANGED <<call, status, found, page, pageSize, offset, atStart>>,
             status \in {"search", "fetch"} /\ ~shrunk' =>
               ~shrunk /\ MatchingRows(call) \subseteq MatchingRows(call)',
             ~shrunk' => ~shrunk
      PROVE  SearchInv'
  <2>1. Shapes /\ SearchInv
    BY DEF RInv
  <2>2. Matches(call) \subseteq Matches(call)' /\ \A n : Allowed(n) => Allowed(n)'
    BY <1>1, <1>2, <2>1, MatchesGrow
  <2>3. Nodes(found)' = Nodes(found) /\ Searching' = Searching /\ Missing' = Missing
    BY <1>2 DEF Nodes, Searching, Missing
  <2>4. Found => Found'
    BY <1>2, <2>2, <2>3 DEF Found
  <2>5. Paged => Paged'
    BY <1>2, <2>2 DEF Paged
  <2>6. ASSUME ~shrunk', Searching, Complete
        PROVE  Complete'
    <3>1. ASSUME NEW m \in Missing, ToCome(m)
          PROVE  ToCome(m)'
      <4>1. ASSUME status \in {"search", "fetch"}, NEW from \in Nat, Ahead(MatchingRows(call), m, from)
            PROVE  Ahead(MatchingRows(call)', m, from)
        <5>1. MatchingRows(call) \in SUBSET Row /\ MatchingRows(call)' \in SUBSET Row
          BY <2>1 DEF MatchingRows, Shapes
        <5>2. MatchingRows(call) \subseteq MatchingRows(call)'
          BY <1>2, <2>6, <4>1
        <5> QED
          BY <4>1, <5>1, <5>2, AheadGrows
      <4>2. offset \in Nat /\ offset + pageSize \in Nat
        BY <2>1 DEF Shapes
      <4>3. Exhausted' = Exhausted
        BY <1>2 DEF Exhausted
      <4>4. status = "search" => Ahead(MatchingRows(call)', m, offset)
        BY <3>1, <4>1, <4>2 DEF ToCome
      <4>5. status = "fetch" =>
              \/ \E i \in DOMAIN page : NodeOf[page[i]] = m
              \/ /\ ~Exhausted /\ Ahead(MatchingRows(call)', m, offset + pageSize)
                 /\ \A i \in DOMAIN page : NodeOf[page[i]] <= m
        BY <3>1, <4>1, <4>2 DEF ToCome
      <4> QED
        BY <1>2, <3>1, <4>3, <4>4, <4>5 DEF ToCome
    <3> QED
      BY <1>2, <2>3, <2>6, <3>1 DEF Complete
  <2> QED
    BY <1>2, <2>1, <2>3, <2>4, <2>5, <2>6 DEF SearchInv
<1>3. CASE UNCHANGED vars
  <2>1. MatchingRows(call)' = MatchingRows(call)
    BY <1>3 DEF vars, tables, MatchingRows, Matches, InScope
  <2> QED
    BY <1>2, <1>3, <2>1 DEF vars, searchVars
<1>4. CASE WriterStep
  <2>1. ~shrunk' => ~shrunk
    BY <1>4 DEF WriterStep, InsertTurn, AttachAnswer, CopyRow, RecordReply, GrantAccess
  <2>2. UNCHANGED <<call, status, found, page, pageSize, offset, atStart>>
    BY <1>4 DEF WriterStep
  <2>3. status \in {"search", "fetch"} /\ ~shrunk' =>
          ~shrunk /\ MatchingRows(call) \subseteq MatchingRows(call)'
    BY <1>4, RowsGrow DEF RInv
  <2> QED
    BY <1>2, <2>1, <2>2, <2>3
<1>5. ASSUME NEW c \in SearchCall, BeginSearch(c)
      PROVE  SearchInv'
  <2>1. /\ status = "idle" /\ status' = "search" /\ offset' = 0 /\ call' = c
        /\ UNCHANGED <<found, page, shrunk>>
        /\ (c.agent \/ c.scope = "current_conversation")
        /\ found = <<>> /\ page = <<>>
    <3>1. /\ status = "idle" /\ status' = "search" /\ offset' = 0 /\ call' = c
          /\ UNCHANGED <<found, page, shrunk>>
          /\ (c.agent \/ c.scope = "current_conversation")
      BY <1>5 DEF BeginSearch
    <3> QED
      BY <3>1 DEF RInv, WalkInv, Idle, SearchInv
  <2>2. DOMAIN found' = {} /\ Nodes(found)' = {}
    BY <2>1, EmptySeq DEF Nodes
  <2>3. Found'
    BY <2>2 DEF Found
  <2> QED
    BY <2>1, <2>3 DEF SearchInv
<1>6. ASSUME NEW c \in WalkCall, BeginWalk(c)
      PROVE  SearchInv'
  BY <1>6, CallShapes DEF BeginWalk, SearchInv, Searching
<1>7. ASSUME status = "walk", call \in WalkCall, UNCHANGED call, status' \in {"walk", "done"}
      PROVE  SearchInv'
  BY <1>7, CallShapes DEF SearchInv, Searching
<1>8. status = "walk" => call \in WalkCall
  BY DEF RInv, Shapes
<1>9. CASE ListEdges
  BY <1>7, <1>8, <1>9 DEF ListEdges
<1>10. ASSUME NEW e \in left, Examine(e)
       PROVE  SearchInv'
  BY <1>7, <1>8, <1>10 DEF Examine
<1>11. CASE EndLevel
  BY <1>7, <1>8, <1>11 DEF EndLevel
<1> QED
  BY <1>3, <1>4, <1>5, <1>6, <1>9, <1>10, <1>11, ReadPageSearch, FetchSearch, EndPageSearch DEF Next, Work
-----------------------------------------------------------------------------
(* The walk, while others store: what was within reach stays within reach.  *)

LEMMA WithinNowGrows ==
  ASSUME TablesGrow, call \in WalkCall, UNCHANGED call, NEW k \in 0 .. MaxDepth
  PROVE  WithinNow[k] \subseteq WithinNow'[k]
BY WithinMonotone, CallShapes DEF TablesGrow, WithinNow

LEMMA WalkFacts ==
  ASSUME RInv, status \in {"walk", "done"}, call \in WalkCall, status = "walk" \/ visited # {}
  PROVE  /\ visited # {} /\ Levelled /\ Paths /\ Upper /\ Lower /\ Shapes /\ EdgesStand
         /\ call.start \in Node /\ call.depth \in 1 .. MaxDepth /\ MaxDepth \in Nat
         /\ depth \in 1 .. call.depth /\ depth \in 1 .. MaxDepth /\ depth - 1 \in 0 .. MaxDepth
<1>1. visited # {} /\ Levelled /\ Paths /\ Upper /\ Lower /\ Shapes /\ EdgesStand
  BY DEF RInv, WalkInv
<1>2. call.start \in Node /\ call.depth \in 1 .. MaxDepth /\ MaxDepth \in Nat
  BY CallShapes
<1>3. depth \in 1 .. call.depth
  BY <1>1 DEF Levelled
<1> QED
  BY <1>1, <1>2, <1>3

LEMMA WalkKeeps ==
  ASSUME RInv, TablesGrow, UNCHANGED <<call, status, found, walkVars, atStart>>
  PROVE  WalkInv'
<1>1. UNCHANGED <<depth, frontier, current, left, next, visited>>
  BY DEF walkVars
<1>2. ASSUME status \in {"walk", "done"}, call \in WalkCall, visited # {}
      PROVE  (Levelled /\ Paths /\ Upper /\ Lower)'
  <2>1. Levelled /\ Paths /\ Upper /\ Lower /\ depth \in 0 .. MaxDepth /\ depth - 1 \in 0 .. MaxDepth
    BY <1>2, WalkFacts
  <2>2. Entries' = Entries /\ Pending' = Pending /\ Known' = Known
    BY <1>1 DEF Entries, Pending, Known
  <2>3. Levelled'
    BY <1>1, <2>1, <2>2 DEF Levelled, TablesGrow, NextNode
  <2>4. ASSUME NEW on, NEW path, Leads(on, path)
        PROVE  Leads(on, path)'
    <3>1. \A n, side : Shown(n, side) => Shown(n, side)'
      BY <2>2 DEF Shown
    <3>2. \A n : CanRead(call, access, n) => CanRead(call', access', n)
      BY DEF TablesGrow, CanRead
    <3> QED
      BY <1>1, <2>4, <3>1, <3>2 DEF Leads, TablesGrow
  <2>5. Paths'
    BY <2>1, <2>2, <2>4 DEF Paths
  <2>6. /\ WithinNow[depth - 1] \subseteq WithinNow'[depth - 1]
        /\ WithinNow[depth] \subseteq WithinNow'[depth]
    BY <1>2, <2>1, WithinNowGrows
  <2>7. Upper'
    BY <1>1, <2>1, <2>6 DEF Upper
  <2>8. ASSUME NEW replies, NEW granted, Began(replies, granted)
        PROVE  Began(replies, granted)'
    BY <1>1, <2>2, <2>8 DEF Began
  <2>9. PICK replies \in SUBSET edges, granted \in SUBSET access : Began(replies, granted)
    BY <2>1 DEF Lower
  <2>10. replies \in SUBSET edges' /\ granted \in SUBSET access' /\ Began(replies, granted)'
    BY <2>8, <2>9 DEF TablesGrow
  <2>11. Lower'
    BY <1>1, <2>1, <2>10 DEF Lower
  <2> QED
    BY <2>3, <2>5, <2>7, <2>11
<1>3. Idle' = Idle
  BY <1>1 DEF Idle
<1> QED
  BY <1>1, <1>2, <1>3 DEF RInv, WalkInv

-----------------------------------------------------------------------------
(* The walk begins.                                                         *)

LEMMA BeginWalkWalk ==
  ASSUME RInv, Shapes', NEW c \in WalkCall, BeginWalk(c)
  PROVE  WalkInv'
<1>1. /\ status = "idle" /\ Idle /\ Shapes /\ EdgesStand /\ call' = c
      /\ UNCHANGED <<found, left, next>> /\ status' \in {"walk", "done"}
  BY DEF RInv, WalkInv, BeginWalk
<1>2. found' = <<>> /\ next' = {} /\ left' = {}
  BY <1>1 DEF Idle
<1>3. CASE status' = "done"
  <2>1. visited' = {}
    BY <1>1, <1>3 DEF BeginWalk, Idle
  <2> QED
    BY <1>2, <1>3, <2>1 DEF WalkInv
<1>4. CASE status' = "walk"
  <2> DEFINE root == Entry(c.start, <<>>)
  <2>1. /\ frontier' = <<root>> /\ visited' = {c.start} /\ depth' = 1
        /\ atStart' = Within(c, edges, access) /\ GrantOwn(c)
    BY <1>4 DEF BeginWalk
  <2>2. c.start \in Node /\ c.depth \in 1 .. MaxDepth /\ MaxDepth \in Nat
    BY CallShapes
  <2>3. root.node = c.start /\ root.text = text[c.start] /\ root.path = <<>>
    BY DEF Entry
  <2>4. UNCHANGED <<text, edges>> /\ access \subseteq access'
    BY <1>1, <2>1, GrantTables DEF TablesGrow
  <2> HIDE DEF root
  <2>5. Range(<<root>>) = {root} /\ Range(<<>>) = {}
    BY DEF Range
  <2>6. Entries' = {} /\ Pending' = {root} /\ NodesOf({}) = {} /\ NodesOf({root}) = {c.start}
    BY <1>2, <2>1, <2>3, <2>5 DEF Entries, Pending, NodesOf
  <2>7. DOMAIN found' = {}
    BY <1>2
  <2>8. 1 \in 1 .. c.depth
    BY <2>2
  <2>9. Range(found') = {} /\ NodesOf(Range(found')) = {} /\ NodesOf(next') = {}
    BY <1>2, <2>5, <2>6
  <2>10. OnePerNode(next')
    BY <1>2 DEF OnePerNode
  <2>11. \A x \in Pending' : x.node = call'.start /\ x.path = <<>>
    BY <1>1, <2>3, <2>6
  <2>12. Levelled'
    BY <1>1, <1>2, <1>4, <2>1, <2>7, <2>8, <2>9, <2>10, <2>11 DEF Levelled
  <2>13. Paths'
    BY <2>6 DEF Paths
  <2>14. WithinNow'[0] = {c.start} /\ atStart'[0] = {c.start}
    BY <1>1, <2>1, <2>2, WithinUnfolds DEF WithinNow
  <2>15. depth' - 1 = 0
    BY <2>1
  <2>16. Upper'
    BY <1>4, <2>1, <2>9, <2>14, <2>15 DEF Upper
  <2>17. ASSUME NEW replies, NEW granted, replies = edges, granted = access
         PROVE  Began(replies, granted)'
    <3>1. \A e \in replies, x \in {root} : (x.node = e.from => e.fromSide \in x.text)
                                           /\ (x.node = e.to => e.toSide \in x.text)
      BY <1>1, <2>3, <2>17 DEF EdgesStand
    <3>2. visited' \ NodesOf(Range(frontier')) = {}
      BY <2>1, <2>5, <2>6
    <3>3. atStart' = Within(call', replies, granted)
      BY <1>1, <2>1, <2>17
    <3> QED
      BY <2>6, <3>1, <3>2, <3>3 DEF Began
  <2>18. \E replies \in SUBSET edges', granted \in SUBSET access' : Began(replies, granted)'
    BY <2>4, <2>17
  <2>19. Lower'
    BY <1>4, <2>1, <2>14, <2>15, <2>18 DEF Lower
  <2> QED
    BY <1>4, <2>1, <2>12, <2>13, <2>16, <2>19 DEF WalkInv
<1> QED
  BY <1>1, <1>3, <1>4

-----------------------------------------------------------------------------
(* The walk turns to the next entry of the level.                           *)

LEMMA ListEdgesWalk ==
  ASSUME RInv, ListEdges
  PROVE  WalkInv'
<1> DEFINE head == Head(frontier)
<1>1. /\ status = "walk" /\ left = {} /\ current' = head
      /\ left' = {e \in edges : NextNode(call, head.node, e) # NULL}
      /\ UNCHANGED <<text, edges, access, call, status, found, depth, next, visited, atStart>>
  BY DEF ListEdges, tables
<1>2. /\ call \in WalkCall /\ Levelled /\ Paths /\ Upper /\ Lower /\ Shapes /\ visited # {}
  BY <1>1, WalkFacts DEF RInv, Shapes
<1>3. head \in Item /\ frontier' \in Seq(Item) /\ Range(frontier) = {head} \cup Range(frontier')
  BY <1>2, ListEdgesShape
<1> HIDE DEF head
<1>4. Entries' = Entries /\ Known' = Known
  BY <1>1 DEF Entries, Known
<1>5. Pending' \subseteq Pending /\ head \in Pending
  BY <1>1, <1>3 DEF Pending
<1>6. \A x \in Pending' : x \in Range(found') \/ (x.node = call'.start /\ x.path = <<>>)
  BY <1>1, <1>2, <1>5 DEF Levelled
<1>7. \A e \in left' : e \in edges' /\ NextNode(call', current'.node, e) # NULL
  BY <1>1
<1>8. Levelled'
  BY <1>1, <1>2, <1>6, <1>7 DEF Levelled, OnePerNode
<1>9. ASSUME NEW on, NEW path, Leads(on, path)
      PROVE  Leads(on, path)'
  <2>1. \A n, side : Shown(n, side) => Shown(n, side)'
    BY <1>4 DEF Shown
  <2> QED
    BY <1>1, <1>9, <2>1 DEF Leads
<1>10. Paths'
  BY <1>2, <1>4, <1>9 DEF Paths
<1>11. Upper'
  BY <1>1, <1>2 DEF Upper, WithinNow
<1>12. PICK replies \in SUBSET edges, granted \in SUBSET access : Began(replies, granted)
  BY <1>2 DEF Lower
<1>13. ASSUME NEW n \in visited \ NodesOf(Range(frontier')), NEW m \in Node,
              Neighbour(call, replies, granted, n, m)
       PROVE  m \in Known \/ \E e \in left' \cap replies : n = head.node /\ NextNode(call, n, e) = m
  <2>1. CASE n = head.node
    <3>1. n \in Node /\ replies \in SUBSET ReplyEdge
      BY <1>2, <1>12, <1>13 DEF Shapes
    <3>2. PICK e \in replies : NextNode(call, n, e) = m
      BY <1>2, <1>13, <3>1, NeighbourByReply
    <3>3. m # NULL
      BY RetrievalAssumption
    <3> QED
      BY <1>1, <1>12, <2>1, <3>2, <3>3
  <2>2. CASE n # head.node
    <3>1. n \in visited \ NodesOf(Range(frontier))
      BY <1>3, <1>13, <2>2 DEF NodesOf
    <3> QED
      BY <1>1, <1>12, <1>13, <3>1 DEF Began
  <2> QED
    BY <2>1, <2>2
<1>14. Began(replies, granted)'
  BY <1>1, <1>4, <1>5, <1>12, <1>13 DEF Began
<1>15. Lower'
  BY <1>1, <1>2, <1>12, <1>14 DEF Lower
<1> QED
  BY <1>1, <1>2, <1>8, <1>10, <1>11, <1>15 DEF WalkInv
-----------------------------------------------------------------------------
(* The walk looks at an edge.                                               *)

\* What an edge adds to the level to come.
Adds(e) ==
  LET target == NextNode(call, current.node, e) IN
  /\ target \notin Known /\ target \in Stored
  /\ CanRead(call, access, target) /\ Valid(current, e)

LEMMA ExamineFacts ==
  ASSUME RInv, NEW e \in left, Examine(e), NEW target, target = NextNode(call, current.node, e)
  PROVE  /\ status = "walk" /\ call \in WalkCall /\ left' = left \ {e}
         /\ UNCHANGED <<text, edges, access, call, status, found, depth, frontier, current, visited, atStart>>
         /\ current \in Item /\ current.node \in visited /\ current \in Pending /\ e \in edges
         /\ current \in Range(found) \/ (current.node = call.start /\ current.path = <<>>)
         /\ target \in Node
         /\ \/ e.from = current.node /\ e.to = target
            \/ e.to = current.node /\ e.from = target
         /\ next' = IF Adds(e) THEN next \cup {Entry(target, Append(current.path, e))} ELSE next
<1>1. /\ status = "walk" /\ left' = left \ {e}
      /\ UNCHANGED <<text, edges, access, call, status, found, depth, frontier, current, visited, atStart>>
      /\ next' = IF Adds(e) THEN next \cup {Entry(target, Append(current.path, e))} ELSE next
  BY DEF Examine, Adds, tables
<1>2. /\ call \in WalkCall /\ Levelled /\ Shapes
  BY <1>1, WalkFacts DEF RInv, Shapes
<1>3. current \in Item /\ current.node \in Node /\ current \in Pending /\ e \in ReplyEdge /\ e \in edges
      /\ target # NULL
  BY <1>2, ItemProperties DEF Shapes, Pending, Levelled
<1>4. current \in Range(found) \/ (current.node = call.start /\ current.path = <<>>)
  BY <1>2, <1>3 DEF Levelled
<1>5. current.node \in visited
  BY <1>2, <1>4 DEF Levelled, NodesOf
<1> QED
  BY <1>1, <1>2, <1>3, <1>4, <1>5, NextNodeShape

\* The entry that carries the text of the current turn is the current one.
LEMMA CurrentShown ==
  ASSUME RInv, NEW e \in left, Examine(e), NEW x \in Entries, x.node = current.node
  PROVE  x = current
<1>1. status = "walk" /\ call \in WalkCall
  BY ExamineFacts
<1>2. Levelled /\ Shapes
  BY <1>1, WalkFacts
<1>3. current.node \in visited /\ (current \in Range(found) \/ current.node = call.start)
  BY ExamineFacts
<1>4. x \in Range(found)
  BY <1>2, <1>3 DEF Levelled, NodesOf, Entries
<1>5. current \in Range(found)
  BY <1>2, <1>3, <1>4 DEF Levelled, NodesOf
<1>6. PICK i \in DOMAIN found, j \in DOMAIN found : found[i] = x /\ found[j] = current
  BY <1>4, <1>5 DEF Range
<1> QED
  BY <1>2, <1>6 DEF Levelled

LEMMA ExamineLevelled ==
  ASSUME RInv, NEW e \in left, Examine(e)
  PROVE  Levelled'
<1> DEFINE target == NextNode(call, current.node, e)
           new == Entry(target, Append(current.path, e))
<1>1. /\ status = "walk" /\ call \in WalkCall /\ left' = left \ {e}
      /\ UNCHANGED <<text, edges, access, call, status, found, depth, frontier, current, visited, atStart>>
      /\ next' = IF Adds(e) THEN next \cup {new} ELSE next
  BY ExamineFacts
<1>2. Levelled
  BY <1>1, WalkFacts
<1>3. new.node = target /\ (Adds(e) => target \notin Known)
  BY DEF Entry, Adds
<1> HIDE DEF new, target
<1>4. Pending' \subseteq Pending
  BY <1>1 DEF Pending
<1>5. NodesOf(next') \cap visited = {}
  <2>1. NodesOf(next) \cap visited = {}
    BY <1>2 DEF Levelled
  <2>2. \A x \in next' : x.node \in NodesOf(next) \/ x.node \notin visited
    BY <1>1, <1>3 DEF NodesOf, Known
  <2>3. \A x \in next' : x.node \notin visited
    BY <2>1, <2>2
  <2> QED
    BY <2>3 DEF NodesOf
<1>6. OnePerNode(next')
  BY <1>1, <1>2, <1>3 DEF Levelled, OnePerNode, Known
<1>7. \A x \in Pending' : x \in Range(found') \/ (x.node = call'.start /\ x.path = <<>>)
  BY <1>1, <1>2, <1>4 DEF Levelled
<1>8. \A d \in left' : d \in edges' /\ NextNode(call', current'.node, d) # NULL
  BY <1>1, <1>2 DEF Levelled
<1> QED
  BY <1>1, <1>2, <1>5, <1>6, <1>7, <1>8 DEF Levelled

\* A path that leads somewhere still does when an entry of another turn is
\* added.
LEMMA LeadsOn ==
  ASSUME RInv, NEW e \in left, Examine(e), NEW on, NEW path \in Seq(ReplyEdge),
         on \in [0 .. Len(path) -> Node], Leads(on, path), on[Len(path)] \in Known
  PROVE  Leads(on, path)'
<1> DEFINE target == NextNode(call, current.node, e)
           new == Entry(target, Append(current.path, e))
<1>1. /\ UNCHANGED <<edges, access, call, found, visited>>
      /\ next' = IF Adds(e) THEN next \cup {new} ELSE next
  BY ExamineFacts
<1>2. new.node = target /\ (Adds(e) => target \notin Known)
  BY DEF Entry, Adds
<1>3. Len(path) \in Nat /\ \A k \in 1 .. Len(path) : path[k] \in ReplyEdge
  BY LenProperties, ElementOfSeq
<1>4. \A k \in 0 .. Len(path) : on[k] \in Known
  <2> TAKE k \in 0 .. Len(path)
  <2>1. CASE k = Len(path)
    BY <2>1
  <2>2. CASE k # Len(path)
    <3>1. k + 1 \in 1 .. Len(path) /\ (k + 1) - 1 = k
      BY <1>3, <2>2
    <3> QED
      BY <3>1 DEF Leads, Known
  <2> QED
    BY <2>1, <2>2
<1> HIDE DEF new, target
<1>5. \A n \in Known : \A side : Shown(n, side) => Shown(n, side)'
  BY <1>1, <1>2 DEF Shown, Entries
<1>6. ASSUME NEW k \in 1 .. Len(path)
      PROVE  path[k].from \in Known /\ path[k].to \in Known
  <2>1. k - 1 \in 0 .. Len(path) /\ k \in 0 .. Len(path)
    BY <1>3
  <2>2. on[k - 1] \in Node /\ on[k] \in Node /\ on[k] = NextNode(call, on[k - 1], path[k])
        /\ on[k - 1] \in Known /\ on[k] \in Known /\ on[k] # NULL
    BY <1>4, <2>1, RetrievalAssumption DEF Leads
  <2> QED
    BY <1>3, <2>2, NextNodeShape
<1> QED
  BY <1>1, <1>5, <1>6 DEF Leads
\* The path of an entry that is added: that of the current one, and the edge.
LEMMA NewPath ==
  ASSUME RInv, NEW e \in left, Examine(e), Adds(e),
         NEW target, target = NextNode(call, current.node, e),
         NEW path, path = Append(current.path, e)
  PROVE  /\ Len(path) > 0
         /\ \E on \in [0 .. Len(path) -> Node] : Leads(on, path)' /\ on[Len(path)] = target
<1> DEFINE new == Entry(target, path)
<1>0. PICK at, trail : at = current.node /\ trail = current.path
  OBVIOUS
<1> DEFINE size == Len(trail)
<1>1. /\ status = "walk" /\ call \in WalkCall
      /\ UNCHANGED <<text, edges, access, call, found, current, visited>>
      /\ current \in Item /\ at \in visited /\ e \in edges
      /\ current \in Range(found) \/ (at = call.start /\ trail = <<>>)
      /\ target \in Node
      /\ \/ e.from = at /\ e.to = target
         \/ e.to = at /\ e.from = target
      /\ next' = next \cup {new}
  BY <1>0, ExamineFacts
<1>2. Levelled /\ Paths /\ Shapes /\ call.start \in Node
  BY <1>1, WalkFacts
<1>3. /\ target \notin Known /\ CanRead(call, access, target)
      /\ Valid(current, e) /\ new.node = target /\ new.text = text[target]
  BY <1>0 DEF Adds, Entry
<1>4. at \in Node /\ at \in Known /\ trail \in Seq(ReplyEdge) /\ e \in ReplyEdge
  BY <1>0, <1>1, <1>2, ItemProperties DEF Known, Shapes
<1>5. PICK on \in [0 .. size -> Node] : Leads(on, trail) /\ on[size] = at
  <2>1. CASE current \in Range(found)
    BY <1>0, <1>2, <2>1 DEF Paths, Entries
  <2>2. CASE at = call.start /\ trail = <<>>
    <3> DEFINE here == [k \in 0 .. 0 |-> call.start]
    <3>1. size = 0
      BY <2>2
    <3>2. here \in [0 .. size -> Node] /\ here[0] = call.start /\ here[size] = at
      BY <1>2, <2>2, <3>1
    <3>3. 1 .. Len(trail) = {} /\ \A k, l \in 0 .. Len(trail) : k = l
      BY <3>1
    <3>4. Leads(here, trail)
      BY <3>2, <3>3 DEF Leads
    <3> QED
      BY <3>2, <3>4
  <2> QED
    BY <1>1, <2>1, <2>2
<1>6. size \in Nat
  BY <1>4, LenProperties
<1>7. Leads(on, trail)'
  BY <1>4, <1>5, LeadsOn
<1>8. /\ path \in Seq(ReplyEdge) /\ Len(path) = size + 1 /\ path[size + 1] = e
      /\ \A k \in 1 .. size : path[k] = trail[k]
  BY <1>0, <1>4, AppendProperties
<1> DEFINE longer == [k \in 0 .. size + 1 |-> IF k = size + 1 THEN target ELSE on[k]]
<1>9. /\ longer \in [0 .. Len(path) -> Node] /\ longer[size + 1] = target
      /\ \A k \in 0 .. size : longer[k] = on[k]
  <2>1. \A k \in 0 .. size + 1 : k = size + 1 \/ k \in 0 .. size
    BY <1>6
  <2>2. longer \in [0 .. size + 1 -> Node]
    BY <1>1, <1>5, <2>1
  <2>3. size + 1 \in 0 .. size + 1 /\ \A k \in 0 .. size : k \in 0 .. size + 1 /\ k # size + 1
    BY <1>6
  <2> QED
    BY <1>8, <2>2, <2>3
<1>10. \A k \in 0 .. size : on[k] \in Known
  <2> TAKE k \in 0 .. size
  <2>1. CASE k = size
    BY <1>4, <1>5, <2>1
  <2>2. CASE k # size
    <3>1. k + 1 \in 1 .. size /\ (k + 1) - 1 = k
      BY <1>6, <2>2
    <3> QED
      BY <1>5, <3>1 DEF Leads, Known
  <2> QED
    BY <2>1, <2>2
<1> HIDE DEF longer, size, new
<1>11. ASSUME NEW k \in 0 .. size + 1, NEW l \in 0 .. size + 1, longer[k] = longer[l]
       PROVE  k = l
  <2>1. (k = size + 1 \/ k \in 0 .. size) /\ (l = size + 1 \/ l \in 0 .. size)
    BY <1>6
  <2>2. \A j \in 0 .. size : longer[j] # target
    BY <1>3, <1>9, <1>10
  <2>3. \A i, j \in 0 .. size : on[i] = on[j] => i = j
    BY <1>5 DEF Leads, size
  <2> QED
    BY <1>9, <1>11, <2>1, <2>2, <2>3
<1>12. /\ \A side : side \in text[target] => Shown(target, side)'
       /\ \A side : side \in current.text => Shown(at, side)'
  <2>1. \A x \in Entries' : x = new \/ x \in Entries
    BY <1>1 DEF Entries
  <2>2. \A x \in Entries : x.node \in Known
    BY <1>2 DEF Entries, Known, NodesOf, Levelled
  <2>3. \A x \in Entries' : x.node = target => x = new
    BY <1>3, <2>1, <2>2
  <2>4. \A x \in Entries' : x.node = at => x = current
    BY <1>0, <1>3, <1>4, <2>1, CurrentShown
  <2> QED
    BY <1>3, <2>3, <2>4 DEF Shown
<1>13. Shown(e.from, e.fromSide)' /\ Shown(e.to, e.toSide)'
  <2>1. target # at
    BY <1>3, <1>4
  <2> QED
    BY <1>0, <1>1, <1>3, <1>12, <2>1 DEF Valid
<1>14. ASSUME NEW k \in 1 .. size + 1
       PROVE  /\ longer[k] = NextNode(call', longer[k - 1], path[k]) /\ CanRead(call', access', longer[k])
              /\ longer[k - 1] \in visited' /\ path[k] \in edges'
              /\ Shown(path[k].from, path[k].fromSide)' /\ Shown(path[k].to, path[k].toSide)'
  <2>1. CASE k = size + 1
    <3>1. k - 1 = size /\ size \in 0 .. size
      BY <1>6, <2>1
    <3>2. longer[k] = target /\ longer[k - 1] = at /\ path[k] = e
      BY <1>5, <1>8, <1>9, <2>1, <3>1 DEF size
    <3> QED
      BY <1>0, <1>1, <1>3, <1>13, <3>2
  <2>2. CASE k # size + 1
    <3>1. k \in 1 .. size /\ k \in 0 .. size /\ k - 1 \in 0 .. size
      BY <1>6, <2>2
    <3>2. longer[k] = on[k] /\ longer[k - 1] = on[k - 1] /\ path[k] = trail[k]
      BY <1>8, <1>9, <3>1
    <3> QED
      BY <1>7, <3>1, <3>2 DEF Leads, size
  <2> QED
    BY <2>1, <2>2
<1>15. longer[0] = call'.start
  <2>1. 0 \in 0 .. size
    BY <1>6
  <2> QED
    BY <1>1, <1>5, <1>9, <2>1 DEF Leads
<1>16. Leads(longer, path)'
  BY <1>8, <1>11, <1>14, <1>15 DEF Leads
<1>17. Len(path) > 0
  BY <1>6, <1>8
<1> QED
  BY <1>8, <1>9, <1>16, <1>17

LEMMA ExaminePaths ==
  ASSUME RInv, NEW e \in left, Examine(e)
  PROVE  Paths'
<1> DEFINE target == NextNode(call, current.node, e)
           new == Entry(target, Append(current.path, e))
<1>1. /\ status = "walk" /\ call \in WalkCall /\ UNCHANGED found
      /\ next' = IF Adds(e) THEN next \cup {new} ELSE next
  BY ExamineFacts
<1>2. Levelled /\ Paths /\ Shapes
  BY <1>1, WalkFacts
<1>3. ASSUME NEW x \in Entries
      PROVE  /\ Len(x.path) > 0
             /\ \E on \in [0 .. Len(x.path) -> Node] : Leads(on, x.path)' /\ on[Len(x.path)] = x.node
  <2>1. x \in Item
    BY <1>2, RangeProperties DEF Entries, Shapes
  <2>2. x.path \in Seq(ReplyEdge) /\ x.node \in Known
    BY <1>2, <2>1, ItemProperties DEF Entries, Known, NodesOf, Levelled
  <2>3. PICK on \in [0 .. Len(x.path) -> Node] : Leads(on, x.path) /\ on[Len(x.path)] = x.node
    BY <1>2 DEF Paths
  <2>4. Leads(on, x.path)'
    BY <2>2, <2>3, LeadsOn
  <2> QED
    BY <1>2, <2>3, <2>4 DEF Paths
<1>4. ASSUME Adds(e), NEW x, x = new
      PROVE  /\ Len(x.path) > 0
             /\ \E on \in [0 .. Len(x.path) -> Node] : Leads(on, x.path)' /\ on[Len(x.path)] = x.node
  <2>1. x.node = target /\ x.path = Append(current.path, e)
    BY <1>4 DEF Entry
  <2> QED
    BY <1>4, <2>1, NewPath
<1>5. \A x \in Entries' : x \in Entries \/ (Adds(e) /\ x = new)
  BY <1>1 DEF Entries
<1> QED
  BY <1>3, <1>4, <1>5 DEF Paths
LEMMA ExamineUpper ==
  ASSUME RInv, NEW e \in left, Examine(e)
  PROVE  Upper'
<1> DEFINE target == NextNode(call, current.node, e)
           new == Entry(target, Append(current.path, e))
<1>1. /\ status = "walk" /\ call \in WalkCall /\ target \in Node /\ current.node \in visited /\ e \in edges
      /\ UNCHANGED <<edges, access, call, status, depth, visited>>
      /\ next' = IF Adds(e) THEN next \cup {new} ELSE next
  BY ExamineFacts
<1>2. Upper /\ Shapes /\ depth \in 1 .. MaxDepth /\ MaxDepth \in Nat /\ call.start \in Node
  BY <1>1, WalkFacts
<1>3. new.node = target
  BY DEF Entry
<1>4. Adds(e) => target \in WithinNow[depth]
  <2>1. depth - 1 \in Nat /\ depth - 1 < MaxDepth /\ (depth - 1) + 1 = depth
    BY <1>2
  <2>2. WithinNow[depth] = Expand(call, edges, access, WithinNow[depth - 1])
    BY <1>2, <2>1, WithinUnfolds DEF WithinNow
  <2>3. Adds(e) => Neighbour(call, edges, access, current.node, target)
    BY <1>1, <1>2, NeighbourByReply DEF Adds, Shapes
  <2>4. current.node \in WithinNow[depth - 1]
    BY <1>1, <1>2 DEF Upper
  <2> QED
    BY <1>1, <2>2, <2>3, <2>4 DEF Expand
<1> HIDE DEF new, target
<1>5. NodesOf(next') \subseteq WithinNow[depth]
  BY <1>1, <1>2, <1>3, <1>4 DEF Upper, NodesOf
<1>6. WithinNow' = WithinNow
  BY <1>1 DEF WithinNow
<1> QED
  BY <1>1, <1>2, <1>5, <1>6 DEF Upper

LEMMA ExamineLower ==
  ASSUME RInv, NEW e \in left, Examine(e)
  PROVE  Lower'
<1> DEFINE target == NextNode(call, current.node, e)
           new == Entry(target, Append(current.path, e))
<1>1. /\ status = "walk" /\ call \in WalkCall /\ left' = left \ {e} /\ target \in Node
      /\ UNCHANGED <<text, edges, access, call, status, found, depth, frontier, current, visited, atStart>>
      /\ current \in Pending /\ current.node \in visited
      /\ \/ e.from = current.node /\ e.to = target
         \/ e.to = current.node /\ e.from = target
      /\ next' = IF Adds(e) THEN next \cup {new} ELSE next
  BY ExamineFacts
<1>2. Lower /\ Shapes /\ EdgesStand
  BY <1>1, WalkFacts
<1>3. PICK replies \in SUBSET edges, granted \in SUBSET access : Began(replies, granted)
  BY <1>2 DEF Lower
<1>4. new.node = target /\ new.text = text[target]
  BY DEF Entry
<1>5. Known \subseteq Known' /\ (Adds(e) => target \in Known')
  BY <1>1, <1>4 DEF Known
<1> HIDE DEF new
<1>6. Entries' \cup Pending' \subseteq Entries \cup Pending \cup {new}
  BY <1>1 DEF Entries, Pending
<1>7. \A d \in replies, x \in Entries' \cup Pending' :
        /\ x.node = d.from => d.fromSide \in x.text
        /\ x.node = d.to => d.toSide \in x.text
  <2>1. \A d \in replies : /\ target = d.from => d.fromSide \in new.text
                           /\ target = d.to => d.toSide \in new.text
    BY <1>2, <1>3, <1>4 DEF EdgesStand
  <2> HIDE DEF target
  <2> QED
    BY <1>3, <1>4, <1>6, <2>1 DEF Began
<1>8. ASSUME e \in replies, CanRead(call, granted, target)
      PROVE  target \in Known'
  <2>1. e \in edges /\ e.fromSide \in text[e.from] /\ e.toSide \in text[e.to]
    BY <1>2, <1>3, <1>8 DEF EdgesStand
  <2>2. target \in Stored
    BY <1>1, <2>1 DEF Stored
  <2>3. CanRead(call, access, target)
    BY <1>3, <1>8 DEF CanRead
  <2>4. /\ current.node = e.from => e.fromSide \in current.text
        /\ current.node = e.to => e.toSide \in current.text
    BY <1>1, <1>3, <1>8 DEF Began
  <2>5. Valid(current, e)
    BY <2>1, <2>4 DEF Valid
  <2> QED
    BY <1>5, <2>2, <2>3, <2>5 DEF Adds
<1>9. ASSUME NEW n \in visited \ NodesOf(Range(frontier)), NEW m \in Node,
             Neighbour(call, replies, granted, n, m)
      PROVE  m \in Known' \/ \E d \in left' \cap replies : n = current.node /\ NextNode(call, n, d) = m
  <2>1. CASE m \in Known
    BY <1>5, <2>1
  <2>2. CASE \E d \in left \cap replies : n = current.node /\ NextNode(call, n, d) = m
    <3>1. PICK d \in left \cap replies : n = current.node /\ NextNode(call, n, d) = m
      BY <2>2
    <3>2. CASE d = e
      <4>1. m = target /\ CanRead(call, granted, target) /\ e \in replies
        BY <1>9, <3>1, <3>2 DEF Neighbour
      <4> QED
        BY <1>8, <4>1
    <3>3. CASE d # e
      BY <1>1, <3>1, <3>3
    <3> QED
      BY <3>2, <3>3
  <2> QED
    BY <1>3, <1>9, <2>1, <2>2 DEF Began
<1>10. Began(replies, granted)'
  BY <1>1, <1>3, <1>7, <1>9 DEF Began
<1> QED
  BY <1>1, <1>2, <1>3, <1>10 DEF Lower

LEMMA ExamineWalk ==
  ASSUME RInv, NEW e \in left, Examine(e)
  PROVE  WalkInv'
<1>1. status' = "walk" /\ UNCHANGED visited /\ status = "walk"
  BY DEF Examine
<1>2. visited # {}
  BY <1>1 DEF RInv, WalkInv
<1> QED
  BY <1>1, <1>2, ExamineLevelled, ExaminePaths, ExamineUpper, ExamineLower DEF WalkInv

-----------------------------------------------------------------------------
(* A level ends.                                                            *)

LEMMA EndLevelFacts ==
  ASSUME RInv, EndLevel
  PROVE  /\ status = "walk" /\ call \in WalkCall /\ left = {} /\ frontier = <<>> /\ left' = {} /\ next' = {}
         /\ UNCHANGED <<text, edges, access, call, current, left, atStart>>
         /\ Range(frontier') = next /\ Range(found') = Range(found) \cup next
         /\ visited' = visited \cup NodesOf(next) /\ visited' = Known
         /\ found' = found \o ByNode(next)
         /\ \A i, j \in DOMAIN ByNode(next) : ByNode(next)[i].node = ByNode(next)[j].node => i = j
         /\ \/ status' = "done" /\ depth' = depth /\ (depth = call.depth \/ next = {})
            \/ status' = "walk" /\ depth' = depth + 1 /\ depth # call.depth
<1>1. /\ status = "walk" /\ left = {} /\ frontier = <<>> /\ left' = {} /\ next' = {}
      /\ UNCHANGED <<text, edges, access, call, current, left, atStart>>
      /\ found' = found \o ByNode(next) /\ frontier' = ByNode(next)
      /\ IF depth = call.depth \/ ByNode(next) = <<>> THEN status' = "done" /\ UNCHANGED depth
         ELSE status' = "walk" /\ depth' = depth + 1
  BY DEF EndLevel, tables
<1>2. call \in WalkCall /\ Shapes
  BY <1>1 DEF RInv, Shapes
<1>3. OnePerNode(next)
  BY <1>1, <1>2, WalkFacts DEF Levelled
<1>4. /\ Range(frontier') = next /\ Range(found') = Range(found) \cup next
      /\ visited' = visited \cup NodesOf(next)
      /\ \A i, j \in DOMAIN frontier' : frontier'[i].node = frontier'[j].node => i = j
  BY <1>2, <1>3, EndLevelShape
<1>5. ByNode(next) = <<>> => next = {}
  BY <1>1, <1>4 DEF Range
<1>6. visited' = Known
  BY <1>4 DEF Known, NodesOf
<1> QED
  BY <1>1, <1>2, <1>4, <1>5, <1>6

LEMMA EndLevelLevelled ==
  ASSUME RInv, EndLevel
  PROVE  Levelled'
<1> DEFINE level == ByNode(next)
<1>1. status = "walk" /\ call \in WalkCall /\ UNCHANGED call
  BY EndLevelFacts
<1>2. Levelled /\ Shapes /\ call.depth \in 1 .. MaxDepth /\ MaxDepth \in Nat
  BY <1>1, WalkFacts
<1>3. level \in Seq(Item) /\ Range(level) = next
  <2>1. level \in Seq(next) /\ Range(level) = next /\ next \in SUBSET Item
    BY <1>2, ByNodeProperties DEF Levelled, Shapes
  <2> QED
    BY <2>1, SeqMonotonic
<1>4. depth' \in 1 .. call'.depth
  BY <1>1, <1>2, EndLevelFacts DEF Levelled
<1>5. NodesOf(Range(found')) = NodesOf(Range(found)) \cup NodesOf(next)
  BY EndLevelFacts DEF NodesOf
<1>6. visited' = {call'.start} \cup NodesOf(Range(found')) /\ call'.start \notin NodesOf(Range(found'))
  BY <1>1, <1>2, <1>5, EndLevelFacts DEF Levelled
<1>7. ASSUME NEW i \in DOMAIN found', NEW j \in DOMAIN found', found'[i].node = found'[j].node
      PROVE  i = j
  <2> DEFINE size == Len(found)
  <2>1. /\ size \in Nat /\ Len(level) \in Nat /\ Len(found') = size + Len(level)
        /\ DOMAIN found = 1 .. size /\ DOMAIN level = 1 .. Len(level)
        /\ found' \in Seq(Item)
        /\ \A k \in 1 .. size + Len(level) : found'[k] = IF k <= size THEN found[k] ELSE level[k - size]
    <3>1. found \in Seq(Item) /\ found' = found \o level
      BY <1>2, EndLevelFacts DEF Shapes
    <3> HIDE DEF level
    <3> QED
      BY <1>3, <3>1, ConcatProperties, LenProperties
  <2>2. DOMAIN found' = 1 .. size + Len(level)
    BY <2>1, LenProperties
  <2> HIDE DEF level, size
  <2>3. ASSUME NEW k \in 1 .. size + Len(level)
        PROVE  \/ k \in 1 .. size /\ found'[k] = found[k] /\ found[k].node \in visited
               \/ /\ k - size \in 1 .. Len(level) /\ k > size /\ found'[k] = level[k - size]
                  /\ level[k - size].node \notin visited
    <3>1. CASE k <= size
      <4>1. k \in DOMAIN found /\ found'[k] = found[k]
        BY <2>1, <3>1
      <4> QED
        BY <1>2, <2>1, <4>1 DEF Levelled, NodesOf, Range
    <3>2. CASE k > size
      <4>1. k - size \in DOMAIN level /\ found'[k] = level[k - size]
        BY <2>1, <3>2
      <4>2. level[k - size] \in next
        BY <1>3, <4>1 DEF Range
      <4> QED
        BY <1>2, <2>1, <3>2, <4>1, <4>2 DEF Levelled, NodesOf
    <3> QED
      BY <2>1, <3>1, <3>2
  <2>4. CASE found'[i].node \in visited
    <3>1. i \in DOMAIN found /\ j \in DOMAIN found /\ found[i].node = found[j].node
      BY <1>7, <2>1, <2>2, <2>3, <2>4
    <3> QED
      BY <1>2, <3>1 DEF Levelled
  <2>5. CASE found'[i].node \notin visited
    <3>1. /\ i - size \in DOMAIN level /\ j - size \in DOMAIN level
          /\ level[i - size].node = level[j - size].node
      BY <1>7, <2>1, <2>2, <2>3, <2>5
    <3>2. i - size = j - size /\ i \in Nat /\ j \in Nat
      BY <2>2, <3>1, EndLevelFacts, <2>1 DEF level
    <3> QED
      BY <2>1, <3>2
  <2> QED
    BY <2>4, <2>5
<1>8. NodesOf(next') \cap visited' = {} /\ OnePerNode(next')
  BY EndLevelFacts DEF NodesOf, OnePerNode
<1>9. \A x \in Pending' : x \in Range(found')
  BY EndLevelFacts DEF Pending
<1>10. \A e \in left' : e \in edges' /\ NextNode(call', current'.node, e) # NULL
  BY EndLevelFacts
<1>11. next' = {} /\ left' = {}
  BY EndLevelFacts
<1> QED
  BY <1>4, <1>6, <1>7, <1>8, <1>9, <1>10, <1>11 DEF Levelled

LEMMA EndLevelLower ==
  ASSUME RInv, EndLevel
  PROVE  Lower'
<1>1. /\ status = "walk" /\ call \in WalkCall /\ left = {} /\ frontier = <<>> /\ left' = {} /\ next' = {}
      /\ UNCHANGED <<text, edges, access, call, atStart>>
      /\ Range(frontier') = next /\ Range(found') = Range(found) \cup next
      /\ visited' = visited \cup NodesOf(next) /\ visited' = Known
      /\ \/ status' = "done" /\ depth' = depth /\ (depth = call.depth \/ next = {})
         \/ status' = "walk" /\ depth' = depth + 1 /\ depth # call.depth
  BY EndLevelFacts
<1>2. /\ Levelled /\ Lower /\ Shapes /\ call.start \in Node /\ call.depth \in 1 .. MaxDepth /\ MaxDepth \in Nat
      /\ depth \in 1 .. call.depth /\ depth \in 1 .. MaxDepth /\ depth - 1 \in 0 .. MaxDepth
  BY <1>1, WalkFacts
<1>3. PICK replies \in SUBSET edges, granted \in SUBSET access : Began(replies, granted)
  BY <1>2 DEF Lower
<1>4. ASSUME NEW n \in visited, NEW m \in Node, Neighbour(call, replies, granted, n, m)
      PROVE  m \in visited'
  <2>1. n \in visited \ NodesOf(Range(frontier))
    BY <1>1 DEF NodesOf, Range
  <2> QED
    BY <1>1, <1>3, <1>4, <2>1 DEF Began
<1>5. atStart = Within(call, replies, granted) /\ atStart[depth - 1] \subseteq visited
  BY <1>1, <1>2, <1>3 DEF Began, Lower
<1>6. atStart[depth] \subseteq visited'
  <2>1. depth - 1 \in Nat /\ depth - 1 < MaxDepth /\ (depth - 1) + 1 = depth
    BY <1>2
  <2>2. atStart[depth] = Expand(call, replies, granted, atStart[depth - 1])
    BY <1>2, <1>5, <2>1, WithinUnfolds
  <2> QED
    BY <1>1, <1>4, <1>5, <2>2 DEF Expand
<1>7. next = {} => atStart[call.depth] \subseteq visited'
  <2> SUFFICES ASSUME next = {}
               PROVE  atStart[call.depth] \subseteq visited'
    OBVIOUS
  <2>1. visited' = visited
    BY <1>1 DEF NodesOf
  <2>2. \A n \in visited' \cap Node, m \in Node : Neighbour(call, replies, granted, n, m) => m \in visited'
    BY <1>4, <2>1
  <2>3. \A k \in depth .. MaxDepth : Within(call, replies, granted)[k] \subseteq visited'
    BY <1>2, <1>5, <1>6, <2>2, WithinClosed
  <2> QED
    BY <1>2, <1>5, <2>3
<1>8. \A e \in replies, x \in Entries' \cup Pending' :
        /\ x.node = e.from => e.fromSide \in x.text
        /\ x.node = e.to => e.toSide \in x.text
  <2>1. Entries' \cup Pending' \subseteq Entries \cup Pending
    BY <1>1 DEF Entries, Pending
  <2> QED
    BY <1>3, <2>1 DEF Began
<1>9. \A n \in visited' \ NodesOf(Range(frontier')) : n \in visited
  BY <1>1
<1>10. visited' \subseteq Known'
  BY DEF Known
<1>11. Began(replies, granted)'
  BY <1>1, <1>4, <1>5, <1>8, <1>9, <1>10 DEF Began
<1>12. status' = "walk" => depth' - 1 = depth
  BY <1>1, <1>2
<1> QED
  BY <1>1, <1>3, <1>6, <1>7, <1>11, <1>12 DEF Lower

LEMMA EndLevelWalk ==
  ASSUME RInv, EndLevel
  PROVE  WalkInv'
<1>1. /\ status = "walk" /\ call \in WalkCall /\ next' = {}
      /\ UNCHANGED <<text, edges, access, call>>
      /\ Range(found') = Range(found) \cup next
      /\ visited' = visited \cup NodesOf(next)
      /\ \/ status' = "done" /\ depth' = depth
         \/ status' = "walk" /\ depth' = depth + 1
  BY EndLevelFacts
<1>2. /\ visited # {} /\ Paths /\ Upper /\ Shapes /\ call.start \in Node
      /\ depth \in 1 .. MaxDepth /\ MaxDepth \in Nat
  BY <1>1, WalkFacts
<1>3. Entries' = Entries /\ visited \subseteq visited'
  BY <1>1 DEF Entries
<1>4. ASSUME NEW on, NEW path, Leads(on, path)
      PROVE  Leads(on, path)'
  <2>1. \A n, side : Shown(n, side) => Shown(n, side)'
    BY <1>3 DEF Shown
  <2> QED
    BY <1>1, <1>3, <1>4, <2>1 DEF Leads
<1>5. Paths'
  BY <1>2, <1>3, <1>4 DEF Paths
<1>6. WithinNow' = WithinNow
  BY <1>1 DEF WithinNow
<1>7. visited' \subseteq WithinNow[depth]
  <2>1. WithinNow[depth - 1] \subseteq WithinNow[depth]
    BY <1>2, WithinGrows DEF WithinNow
  <2> QED
    BY <1>1, <1>2, <2>1 DEF Upper
<1>8. Upper'
  <2>1. NodesOf(next') = {} /\ (status' = "walk" => depth' - 1 = depth)
    BY <1>1, <1>2 DEF NodesOf
  <2> QED
    BY <1>1, <1>6, <1>7, <2>1 DEF Upper
<1>9. visited' # {} /\ status' # "idle"
  BY <1>1, <1>2
<1> QED
  BY <1>1, <1>5, <1>8, <1>9, EndLevelLevelled, EndLevelLower DEF WalkInv
-----------------------------------------------------------------------------
(* Every step keeps the invariant.                                          *)

LEMMA WalkStep ==
  ASSUME RInv, Shapes', [Next]_vars
  PROVE  WalkInv'
<1>1. TablesGrow
  BY NextTables DEF RInv
<1>2. CASE UNCHANGED vars
  BY <1>1, <1>2, WalkKeeps DEF vars
<1>3. CASE WriterStep
  BY <1>1, <1>3, WalkKeeps DEF WriterStep
<1>4. ASSUME call' \in SearchCall, status' \in {"search", "fetch", "done"}
      PROVE  WalkInv'
  BY <1>4, CallShapes DEF WalkInv
<1>5. ASSUME NEW c \in SearchCall, BeginSearch(c)
      PROVE  WalkInv'
  BY <1>4, <1>5 DEF BeginSearch
<1>6. CASE ReadPage \/ Fetch
  BY <1>4, <1>6 DEF ReadPage, Fetch, RInv, Shapes
<1>7. CASE EndPage
  BY <1>4, <1>7 DEF EndPage, RInv, Shapes
<1> QED
  BY <1>2, <1>3, <1>5, <1>6, <1>7, BeginWalkWalk, ListEdgesWalk, ExamineWalk, EndLevelWalk DEF Next, Work

LEMMA InitRInv ==
  ASSUME Init
  PROVE  RInv
<1>1. Shapes
  BY EmptySeq, CallShapes DEF Init, Shapes
<1>2. SearchInv
  BY DEF Init, SearchInv, Searching
<1> QED
  BY <1>1, <1>2 DEF Init, RInv, EdgesStand, Indexed, WalkInv, Idle

LEMMA NextRInv ==
  ASSUME RInv, [Next]_vars
  PROVE  RInv'
<1>1. status = "walk" => OnePerNode(next)
  BY WalkFacts DEF Levelled, RInv, Shapes
<1>2. Shapes'
  BY <1>1, ShapesStep DEF RInv
<1> QED
  BY <1>2, NextTables, IndexStep, SearchStep, WalkStep DEF RInv

\* Whatever others store while a call runs, its state has the shapes of its
\* variables, the pages of a search leave no match behind, and a walk knows what
\* was within its level when it began and nothing else.
THEOREM RetrievalInvariant == Spec => []RInv
<1>1. Init => RInv
  BY InitRInv
<1>2. RInv /\ [Next]_vars => RInv'
  BY NextRInv
<1> QED
  BY <1>1, <1>2, PTL DEF Spec

-----------------------------------------------------------------------------
(* What a caller may rely on.                                               *)

LEMMA ItemsProperties ==
  ASSUME Shapes, status = "done"
  PROVE  /\ call.limit \in Nat \ {0} /\ Len(found) \in Nat /\ DOMAIN found = 1 .. Len(found)
         /\ Len(Items) = IF Len(found) < call.limit THEN Len(found) ELSE call.limit
         /\ DOMAIN Items = 1 .. Len(Items)
         /\ \A i \in DOMAIN Items : i \in 1 .. Len(found) /\ Items[i] = found[i]
<1> DEFINE shown == IF Len(found) < call.limit THEN Len(found) ELSE call.limit
<1>1. call.limit \in Nat \ {0} /\ found \in Seq(Item)
  BY CallShapes DEF Shapes
<1>2. Len(found) \in Nat /\ DOMAIN found = 1 .. Len(found)
  BY <1>1, LenProperties
<1>3. shown \in Nat /\ shown <= Len(found) /\ Items = SubSeq(found, 1, shown)
  BY <1>1, <1>2 DEF Items
<1> HIDE DEF shown
<1>4. \A i \in 1 .. shown : found[i] \in Item
  <2>1. \A i \in 1 .. shown : i \in 1 .. Len(found)
    BY <1>2, <1>3
  <2> QED
    BY <1>1, <2>1, ElementOfSeq
<1>5. /\ Items \in Seq(Item) /\ Len(Items) = IF 1 <= shown THEN shown - 1 + 1 ELSE 0
      /\ \A i \in 1 .. shown - 1 + 1 : Items[i] = found[1 + i - 1]
  BY <1>3, <1>4, SubSeqProperties
<1>6. Len(Items) = shown /\ DOMAIN Items = 1 .. shown
  BY <1>3, <1>5, LenProperties
<1>7. ASSUME NEW i \in 1 .. shown
      PROVE  i \in 1 .. Len(found) /\ Items[i] = found[i]
  <2>1. i \in 1 .. shown - 1 + 1 /\ 1 + i - 1 = i /\ i \in 1 .. Len(found)
    BY <1>2, <1>3
  <2> QED
    BY <1>5, <2>1
<1> QED
  BY <1>1, <1>2, <1>6, <1>7 DEF shown

\* Different turns of a finite set are no more than its members.
LEMMA CountFound ==
  ASSUME Shapes, NEW S, IsFiniteSet(S), Nodes(found) \subseteq S,
         \A i, j \in DOMAIN found : found[i].node = found[j].node => i = j
  PROVE  Len(found) <= Cardinality(S) /\ Cardinality(S) \in Nat
<1> DEFINE at == [i \in 1 .. Len(found) |-> found[i].node]
<1>1. Len(found) \in Nat /\ DOMAIN found = 1 .. Len(found)
  BY FoundShape
<1>2. at \in [1 .. Len(found) -> S]
  BY <1>1 DEF Nodes
<1>3. \A i, j \in 1 .. Len(found) : at[i] = at[j] => i = j
  BY <1>1
<1> HIDE DEF at
<1>4. at \in Injection(1 .. Len(found), S)
  BY <1>2, <1>3 DEF Injection, IsInjective
<1>5. Cardinality(1 .. Len(found)) = IF 1 > Len(found) THEN 0 ELSE Len(found) - 1 + 1
  BY <1>1, FS_Interval, 1 \in Int, Len(found) \in Int
<1>6. Cardinality(1 .. Len(found)) <= Cardinality(S) /\ Cardinality(S) \in Nat
  BY <1>4, FS_Injection, FS_CardinalityType
<1> QED
  BY <1>1, <1>5, <1>6

LEMMA MissingState ==
  ASSUME RInv
  PROVE  PagesMissNothing
<1> SUFFICES ASSUME status = "done", call.tool = "keyword"
             PROVE  /\ Truncated => Cardinality(Matches(call)) > call.limit
                    /\ shrunk \/ \A m \in atStart[0] \ Nodes(Items) :
                                   Truncated /\ \A n \in Nodes(Items) : n < m
  BY DEF PagesMissNothing
<1>1. call \in SearchCall /\ Shapes /\ Searching /\ SearchInv
  BY CallShapes DEF RInv, Shapes, Searching
<1>2. Found /\ (~shrunk => Complete)
  BY <1>1 DEF SearchInv
<1>3. /\ call.limit \in Nat \ {0} /\ Len(found) \in Nat /\ DOMAIN found = 1 .. Len(found)
      /\ Len(Items) = IF Len(found) < call.limit THEN Len(found) ELSE call.limit
      /\ DOMAIN Items = 1 .. Len(Items)
      /\ \A i \in DOMAIN Items : i \in 1 .. Len(found) /\ Items[i] = found[i]
  BY <1>1, ItemsProperties
<1>4. Truncated => Cardinality(Matches(call)) > call.limit
  <2>1. IsFiniteSet(Matches(call))
    BY RetrievalAssumption, FS_Subset DEF Matches
  <2>2. Len(found) <= Cardinality(Matches(call)) /\ Cardinality(Matches(call)) \in Nat
    BY <1>1, <1>2, <2>1, CountFound DEF Found
  <2> QED
    BY <1>3, <2>2 DEF Truncated
<1>5. ASSUME ~shrunk, NEW m \in atStart[0] \ Nodes(Items)
      PROVE  Truncated /\ \A n \in Nodes(Items) : n < m
  <2>1. Complete
    BY <1>2, <1>5
  <2>2. CASE m \in Nodes(found)
    <3>1. PICK k \in DOMAIN found : found[k].node = m
      BY <2>2 DEF Nodes
    <3>2. k \notin DOMAIN Items
      BY <1>3, <1>5, <3>1 DEF Nodes
    <3>3. Truncated /\ \A i \in DOMAIN Items : i < k
      BY <1>3, <3>1, <3>2 DEF Truncated
    <3>4. \A i \in DOMAIN Items : found[i].node < m
      BY <1>3, <1>5, <2>1, <3>1, <3>3 DEF Complete
    <3> QED
      BY <1>3, <3>3, <3>4 DEF Nodes
  <2>3. CASE m \notin Nodes(found)
    <3>1. m \in Missing
      BY <1>5, <2>3 DEF Missing
    <3>2. Truncated /\ \A n \in Nodes(found) : n < m
      BY <2>1, <3>1 DEF Complete, ToCome, Truncated
    <3>3. Nodes(Items) \subseteq Nodes(found)
      BY <1>3 DEF Nodes
    <3> QED
      BY <3>2, <3>3
  <2> QED
    BY <2>2, <2>3
<1> QED
  BY <1>4, <1>5

LEMMA FoundLevels ==
  ASSUME RInv, status \in {"walk", "done"}, call.tool = "graph", visited # {}
  PROVE  LET level == IF status = "done" THEN call.depth ELSE depth - 1
         IN atStart[level] \subseteq visited /\ visited \subseteq WithinNow[level]
<1>1. call \in WalkCall
  BY CallShapes DEF RInv, Shapes
<1>2. /\ Upper /\ Lower /\ call.start \in Node /\ call.depth \in 1 .. MaxDepth /\ MaxDepth \in Nat
      /\ depth \in 1 .. call.depth
  BY <1>1, WalkFacts
<1>3. CASE status = "walk"
  BY <1>2, <1>3 DEF Upper, Lower
<1>4. CASE status = "done"
  <2>1. depth \in 0 .. MaxDepth /\ call.depth \in depth .. MaxDepth
    BY <1>2
  <2>2. WithinNow[depth] \subseteq WithinNow[call.depth]
    BY <1>2, <2>1, WithinGrows DEF WithinNow
  <2> QED
    BY <1>2, <1>4, <2>2 DEF Upper, Lower
<1> QED
  BY <1>3, <1>4

LEMMA BoundedState ==
  ASSUME RInv
  PROVE  WalkIsBounded
BY FoundLevels DEF WalkIsBounded

LEMMA HonestState ==
  ASSUME RInv
  PROVE  TruncationIsHonest
<1> DEFINE reached == WithinNow[call.depth] \ {call.start}
<1> SUFFICES ASSUME status = "done", call.tool = "graph", visited # {}
             PROVE  IF Truncated THEN Cardinality(reached) > call.limit
                    ELSE atStart[call.depth] \ {call.start} \subseteq Nodes(Items)
  BY DEF TruncationIsHonest
<1>1. call \in WalkCall
  BY CallShapes DEF RInv, Shapes
<1>2. Levelled /\ Shapes /\ call.start \in Node /\ call.depth \in 1 .. MaxDepth /\ MaxDepth \in Nat
  BY <1>1, WalkFacts
<1>3. atStart[call.depth] \subseteq visited /\ visited \subseteq WithinNow[call.depth]
  BY FoundLevels
<1>4. /\ call.limit \in Nat \ {0} /\ Len(found) \in Nat /\ DOMAIN found = 1 .. Len(found)
      /\ Len(Items) = IF Len(found) < call.limit THEN Len(found) ELSE call.limit
      /\ DOMAIN Items = 1 .. Len(Items)
      /\ \A i \in DOMAIN Items : i \in 1 .. Len(found) /\ Items[i] = found[i]
  BY <1>2, ItemsProperties
<1>5. \A i \in 1 .. Len(found) : found[i].node \in visited \ {call.start}
  BY <1>2, <1>4 DEF Levelled, NodesOf, Range
<1>6. CASE Truncated
  <2> DEFINE at == [i \in 1 .. Len(found) |-> found[i].node]
  <2>1. at \in [1 .. Len(found) -> reached]
    BY <1>3, <1>5
  <2>2. \A i, j \in 1 .. Len(found) : at[i] = at[j] => i = j
    BY <1>2, <1>4 DEF Levelled
  <2> HIDE DEF at, reached
  <2>3. at \in Injection(1 .. Len(found), reached)
    BY <2>1, <2>2 DEF Injection, IsInjective
  <2>4. IsFiniteSet(reached)
    <3>1. call.depth \in 0 .. MaxDepth
      BY <1>2
    <3>2. WithinNow[call.depth] \subseteq Node
      BY <1>2, <3>1, WithinUnfolds DEF WithinNow
    <3> QED
      BY <3>2, RetrievalAssumption, FS_Subset DEF reached
  <2>5. Cardinality(1 .. Len(found)) = Len(found)
    <3>1. Cardinality(1 .. Len(found)) = IF 1 > Len(found) THEN 0 ELSE Len(found) - 1 + 1
      BY <1>4, FS_Interval, 1 \in Int, Len(found) \in Int
    <3> QED
      BY <1>4, <3>1
  <2>6. Cardinality(1 .. Len(found)) <= Cardinality(reached) /\ Cardinality(reached) \in Nat
    BY <2>3, <2>4, FS_Injection, FS_CardinalityType
  <2> QED
    BY <1>4, <1>6, <2>5, <2>6 DEF Truncated
<1>7. CASE ~Truncated
  <2>1. Len(Items) = Len(found)
    BY <1>4, <1>7 DEF Truncated
  <2>2. NodesOf(Range(found)) \subseteq Nodes(Items)
    BY <1>4, <2>1 DEF NodesOf, Range, Nodes
  <2>3. visited \ {call.start} \subseteq NodesOf(Range(found))
    BY <1>2 DEF Levelled
  <2> QED
    BY <1>3, <1>7, <2>2, <2>3
<1> QED
  BY <1>6, <1>7

LEMMA RealState ==
  ASSUME RInv
  PROVE  PathsAreReal
<1> SUFFICES ASSUME NEW i \in DOMAIN found, call.tool = "graph"
             PROVE  LET path == found[i].path
                        ShownHere(n, side) == \A j \in DOMAIN found : found[j].node = n => side \in found[j].text
                    IN /\ Len(path) > 0
                       /\ \A j \in DOMAIN found : found[j].node = found[i].node => j = i
                       /\ \E on \in [0 .. Len(path) -> Node] :
                            /\ on[0] = call.start /\ on[Len(path)] = found[i].node
                            /\ \A k, l \in 0 .. Len(path) : on[k] = on[l] => k = l
                            /\ \A k \in 1 .. Len(path) :
                                 /\ on[k] = NextNode(call, on[k - 1], path[k]) /\ CanRead(call, access, on[k])
                                 /\ path[k] \in edges
                                 /\ ShownHere(path[k].from, path[k].fromSide)
                                 /\ ShownHere(path[k].to, path[k].toSide)
  BY DEF PathsAreReal
<1>1. status \in {"walk", "done"} /\ call \in WalkCall /\ visited # {}
  <2>1. found # <<>>
    BY DEF RInv
  <2>2. status # "idle"
    BY <2>1 DEF RInv, WalkInv, Idle
  <2>3. call \in WalkCall
    BY <2>2, CallShapes DEF RInv, Shapes
  <2>4. status \in {"walk", "done"}
    BY <2>2, <2>3, CallShapes DEF RInv, Shapes
  <2> QED
    BY <2>1, <2>3, <2>4 DEF RInv, WalkInv
<1>2. Levelled /\ Paths
  BY <1>1, WalkFacts
<1>3. PICK on \in [0 .. Len(found[i].path) -> Node] :
        Leads(on, found[i].path) /\ on[Len(found[i].path)] = found[i].node
  BY <1>2 DEF Paths, Entries, Range
<1>4. Len(found[i].path) > 0
  BY <1>2 DEF Paths, Entries, Range
<1>5. \A n, side : Shown(n, side) => \A j \in DOMAIN found : found[j].node = n => side \in found[j].text
  BY DEF Shown, Entries, Range
<1> QED
  BY <1>2, <1>3, <1>4, <1>5 DEF Levelled, Leads

\* A keyword search misses no match of the moment it began, however many rows a
\* turn has, pages it takes and rows are added between them, unless an answer
\* takes rows away meanwhile (search).
THEOREM SearchesMissNothing == Spec => []PagesMissNothing
BY RetrievalInvariant, MissingState, PTL

\* A walk finds what was within its depth when it began and nothing that is not
\* within it now, for every graph, depth and writer (traverse).
THEOREM WalksAreBounded == Spec => []WalkIsBounded
BY RetrievalInvariant, BoundedState, PTL

\* truncated is true only if more than limit turns are within reach, and false
\* only if all that was there is in the items (traverse).
THEOREM TruncationsAreHonest == Spec => []TruncationIsHonest
BY RetrievalInvariant, HonestState, PTL

\* Every item of a walk comes once, with stored replies that lead to it through
\* turns the caller may read, and with the texts they name (traverse).
THEOREM PathsOfItemsAreReal == Spec => []PathsAreReal
BY RetrievalInvariant, RealState, PTL
=============================================================================
