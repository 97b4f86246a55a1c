-------------------------- MODULE VectorIndexProofs --------------------------
(* Theorems about vector search, for every number of runtimes, turns,      *)
(* endpoints and vector lengths.                                           *)
EXTENDS VectorIndex, FiniteSetTheorems, TLAPS

\* What a search ranks is right only while the rows it reads are, and only
\* because nothing is ranked or awaited before the query's length is known.
VInv == TypeOK /\ RowsAreHonest /\ RankedAsRead

-----------------------------------------------------------------------------
(* The writers.                                                            *)

LEMMA WritersStep ==
  ASSUME VInv, NEW n \in Node,
         InsertTurnNode(n, "question") \/ InsertTurnNode(n, "answer") \/ AttachAnswer(n)
  PROVE  VInv'
<1>1. UNCHANGED searchVars
  BY DEF InsertTurnNode, AttachAnswer
<1>2. text' \in [Node -> Text \cup {NULL}]
  BY DEF VInv, TypeOK, InsertTurnNode, AttachAnswer, Text
<1>3. /\ node_vectors' \in [Node -> Row \cup {NULL}]
      /\ \A k \in Node : node_vectors'[k] \in {node_vectors[k], NULL}
  <2>1. node_vectors' \in {node_vectors, [node_vectors EXCEPT ![n] = NULL]}
    BY DEF InsertTurnNode, AttachAnswer
  <2> QED
    BY <2>1 DEF VInv, TypeOK
<1>4. TypeOK'
  BY <1>1, <1>2, <1>3 DEF VInv, TypeOK, searchVars, Done
<1>5. RowsAreHonest'
  BY <1>3 DEF VInv, RowsAreHonest
<1>6. RankedAsRead'
  BY <1>1 DEF VInv, RankedAsRead, searchVars
<1> QED
  BY <1>4, <1>5, <1>6 DEF VInv

-----------------------------------------------------------------------------
(* A search.                                                               *)

\* A runtime that has no search, or still awaits its query's vector, has
\* ranked nothing.
LEMMA NothingRanked ==
  ASSUME TypeOK, NEW r \in Runtime, Idle(r) \/ dims[r] = NULL
  PROVE  ranked[r] = {} /\ Done(r) = {}
<1>1. CASE Idle(r)
  <2>1. Done(r) = {}
    BY <1>1 DEF TypeOK, Idle
  <2> QED
    BY <2>1 DEF Done
<1>2. CASE dims[r] = NULL
  BY <1>2 DEF TypeOK, Done
<1> QED
  BY <1>1, <1>2

LEMMA SearchStep ==
  ASSUME VInv, NEW r \in Runtime, NEW nodes \in SUBSET Node, Search(r, nodes)
  PROVE  VInv'
<1> USE DEF VInv, TypeOK
<1>1. /\ scope' = [scope EXCEPT ![r] = nodes]
      /\ read' = [read EXCEPT ![r] = [n \in Node |-> IF n \in nodes THEN text[n] ELSE NULL]]
      /\ UNCHANGED <<text, node_vectors, dims, awaited, ranked>>
      /\ Idle(r) /\ \A n \in nodes : text[n] # NULL
  BY DEF Search
<1>2. scope' \in [Runtime -> SUBSET Node] /\ read' \in [Runtime -> [Node -> Text \cup {NULL}]]
  BY <1>1
<1>3. ASSUME NEW s \in Runtime, NEW n \in Node
      PROVE  n \in scope'[s] <=> read'[s][n] # NULL
  BY <1>1
<1>4. ranked[r] = {} /\ Done(r) = {}
  BY <1>1, NothingRanked
<1>5. awaited[r] = NULL
  BY <1>1 DEF Idle
<1>6. ASSUME NEW s \in Runtime
      PROVE  Done(s)' \cup ({awaited'[s]} \ {NULL}) \subseteq scope'[s]
  <2>1. Done(s)' = Done(s) /\ awaited'[s] = awaited[s]
    BY <1>1 DEF Done
  <2> QED
    BY <1>1, <1>4, <1>5, <2>1
<1>7. TypeOK'
  BY <1>1, <1>2, <1>3, <1>6
<1>8. RowsAreHonest'
  BY <1>1 DEF RowsAreHonest
<1>9. RankedAsRead'
  BY <1>1, <1>4 DEF RankedAsRead
<1> QED
  BY <1>7, <1>8, <1>9

LEMMA QueryEmbeddedStep ==
  ASSUME VInv, NEW r \in Runtime, NEW d \in Dimension, QueryEmbedded(r, d)
  PROVE  VInv'
<1>1. /\ dims' = [dims EXCEPT ![r] = d] /\ dims[r] = NULL
      /\ UNCHANGED <<text, node_vectors, scope, read, awaited, ranked>>
  BY DEF QueryEmbedded
<1>2. ranked[r] = {}
  BY <1>1, NothingRanked DEF VInv
<1>3. TypeOK'
  BY <1>1, NullAssumption DEF VInv, TypeOK, Done
<1>4. RowsAreHonest'
  BY <1>1 DEF VInv, RowsAreHonest
<1>5. RankedAsRead'
  BY <1>1, <1>2 DEF VInv, TypeOK, RankedAsRead
<1> QED
  BY <1>3, <1>4, <1>5 DEF VInv

\* Ranking a turn of the scope with the vector of the text that was read keeps
\* what the searches know in order.
LEMMA RankStep ==
  ASSUME TypeOK, RankedAsRead, NEW r \in Runtime, NEW n \in scope[r], dims[r] # NULL,
         Rank(r, n, [model |-> ModelOf[r], text |-> read[r][n], dims |-> dims[r]]),
         UNCHANGED <<scope, read, dims>>
  PROVE  /\ ranked' \in [Runtime -> SUBSET (Node \X Vector)]
         /\ \A s \in Runtime : Done(s)' \subseteq scope[s]
         /\ \A s \in Runtime : dims[s] = NULL => ranked'[s] = {}
         /\ RankedAsRead'
<1> DEFINE vector == [model |-> ModelOf[r], text |-> read[r][n], dims |-> dims[r]]
<1>1. ranked' = [ranked EXCEPT ![r] = @ \cup {<<n, vector>>}]
  BY DEF Rank
<1>2. n \in Node /\ read[r][n] \in Text /\ dims[r] \in Dimension /\ ModelOf[r] \in Model
  BY IndexAssumption DEF TypeOK
<1>3. vector \in Vector
  BY <1>2 DEF Vector
<1>4. ranked' \in [Runtime -> SUBSET (Node \X Vector)]
  BY <1>1, <1>2, <1>3 DEF TypeOK
<1>5. /\ ranked'[r] = ranked[r] \cup {<<n, vector>>}
      /\ \A s \in Runtime \ {r} : ranked'[s] = ranked[s]
  BY <1>1 DEF TypeOK
<1>6. ASSUME NEW s \in Runtime
      PROVE  Done(s)' \subseteq scope[s]
  <2>1. Done(s) \subseteq scope[s]
    BY DEF TypeOK
  <2>2. CASE s # r
    BY <1>5, <2>1, <2>2 DEF Done
  <2>3. CASE s = r
    <3>1. Done(s)' \subseteq Done(s) \cup {n}
      BY <1>5, <2>3 DEF Done
    <3> QED
      BY <2>1, <2>3, <3>1
  <2> QED
    BY <2>2, <2>3
<1>7. \A s \in Runtime : dims[s] = NULL => ranked'[s] = {}
  BY <1>5 DEF TypeOK
<1>8. RankedAsRead'
  <2> SUFFICES ASSUME NEW s \in Runtime, NEW entry \in ranked'[s]
               PROVE  entry[2] = [model |-> ModelOf[s], text |-> read[s][entry[1]],
                                  dims |-> dims[s]]
    BY DEF RankedAsRead
  <2>1. CASE entry \in ranked[s]
    BY <2>1 DEF RankedAsRead
  <2>2. CASE s = r /\ entry = <<n, vector>>
    BY <2>2
  <2> QED
    BY <1>5, <2>1, <2>2
<1> QED
  BY <1>4, <1>6, <1>7, <1>8

LEMMA ResolveStep ==
  ASSUME VInv, NEW r \in Runtime, NEW n \in Node, Resolve(r, n)
  PROVE  VInv'
<1> DEFINE vector == [model |-> ModelOf[r], text |-> read[r][n], dims |-> dims[r]]
<1>1. /\ TypeOK /\ RowsAreHonest /\ RankedAsRead
      /\ n \in scope[r] /\ dims[r] # NULL
      /\ UNCHANGED <<text, node_vectors, scope, read, dims>>
  BY DEF VInv, Resolve, Ready, NextTurn
<1>2. CASE Usable(r, n)
  <2>1. node_vectors[n].vector = vector
    BY <1>1, <1>2 DEF Usable, RowsAreHonest
  <2>2. Rank(r, n, vector) /\ UNCHANGED awaited
    BY <1>2, <2>1 DEF Resolve
  <2>3. /\ ranked' \in [Runtime -> SUBSET (Node \X Vector)]
        /\ \A s \in Runtime : Done(s)' \subseteq scope[s]
        /\ \A s \in Runtime : dims[s] = NULL => ranked'[s] = {}
        /\ RankedAsRead'
    BY <1>1, <2>2, RankStep
  <2>4. TypeOK'
    BY <1>1, <2>2, <2>3 DEF TypeOK
  <2>5. RowsAreHonest'
    BY <1>1 DEF RowsAreHonest
  <2> QED
    BY <2>3, <2>4, <2>5 DEF VInv
<1>3. CASE ~Usable(r, n)
  <2>1. awaited' = [awaited EXCEPT ![r] = n] /\ UNCHANGED ranked
    BY <1>3 DEF Resolve
  <2>2. \A s \in Runtime : Done(s)' = Done(s)
    BY <2>1 DEF Done
  <2>3. TypeOK'
    BY <1>1, <2>1, <2>2 DEF TypeOK
  <2>4. RowsAreHonest' /\ RankedAsRead'
    BY <1>1, <2>1 DEF RowsAreHonest, RankedAsRead
  <2> QED
    BY <2>3, <2>4 DEF VInv
<1> QED
  BY <1>2, <1>3

LEMMA NodeEmbeddedStep ==
  ASSUME VInv, NEW r \in Runtime, NodeEmbedded(r)
  PROVE  VInv'
<1> DEFINE n == awaited[r]
           vector == [model |-> ModelOf[r], text |-> read[r][n], dims |-> dims[r]]
<1>1. /\ TypeOK /\ RowsAreHonest /\ RankedAsRead
      /\ node_vectors' = [node_vectors EXCEPT ![n] = RowOf(r, n, vector)]
      /\ Rank(r, n, vector)
      /\ awaited' = [awaited EXCEPT ![r] = NULL]
      /\ n # NULL
      /\ UNCHANGED <<text, scope, read, dims>>
  BY DEF VInv, NodeEmbedded
<1>2. n \in scope[r] /\ n \in Node /\ dims[r] # NULL
  BY <1>1 DEF TypeOK
<1>3. read[r][n] \in Text /\ dims[r] \in Dimension /\ ModelOf[r] \in Model
  <2>1. ModelOf[r] \in Model
    BY IndexAssumption
  <2>2. dims[r] \in Dimension
    BY <1>1, <1>2 DEF TypeOK
  <2>3. read[r] \in [Node -> Text \cup {NULL}] /\ read[r][n] # NULL
    BY <1>1, <1>2 DEF TypeOK
  <2> HIDE DEF n
  <2>4. read[r][n] \in Text
    BY <1>2, <2>3
  <2> QED
    BY <2>1, <2>2, <2>4
<1>4. RowOf(r, n, vector) \in Row
  BY <1>3 DEF RowOf, Row, Vector
<1>5. node_vectors' \in [Node -> Row \cup {NULL}]
  BY <1>1, <1>4 DEF TypeOK
<1>6. /\ ranked' \in [Runtime -> SUBSET (Node \X Vector)]
      /\ \A s \in Runtime : Done(s)' \subseteq scope[s]
      /\ \A s \in Runtime : dims[s] = NULL => ranked'[s] = {}
      /\ RankedAsRead'
  BY <1>1, <1>2, RankStep
<1>7. /\ awaited' \in [Runtime -> Node \cup {NULL}]
      /\ \A s \in Runtime : awaited'[s] \in {awaited[s], NULL}
  BY <1>1 DEF TypeOK
<1>8. TypeOK'
  BY <1>1, <1>5, <1>6, <1>7 DEF TypeOK
<1>9. RowsAreHonest'
  <2> SUFFICES ASSUME NEW k \in Node, node_vectors'[k] # NULL
               PROVE  node_vectors'[k].vector =
                        [model |-> node_vectors'[k].model, text |-> node_vectors'[k].sha,
                         dims |-> node_vectors'[k].dims]
    BY DEF RowsAreHonest
  <2>1. CASE k = n
    BY <1>1, <1>2, <2>1 DEF TypeOK, RowOf
  <2>2. CASE k # n
    BY <1>1, <2>2 DEF TypeOK, RowsAreHonest
  <2> QED
    BY <2>1, <2>2
<1> QED
  BY <1>6, <1>8, <1>9 DEF VInv

LEMMA ForgetStep ==
  ASSUME VInv, NEW r \in Runtime, Forget(r)
  PROVE  VInv'
<1> USE DEF VInv, TypeOK
<1>1. /\ scope' = [scope EXCEPT ![r] = {}]
      /\ read' = [read EXCEPT ![r] = [n \in Node |-> NULL]]
      /\ dims' = [dims EXCEPT ![r] = NULL]
      /\ awaited' = [awaited EXCEPT ![r] = NULL]
      /\ ranked' = [ranked EXCEPT ![r] = {}]
      /\ UNCHANGED <<text, node_vectors>>
  BY DEF Forget
<1>2. ASSUME NEW s \in Runtime
      PROVE  /\ \A n \in Node : n \in scope'[s] <=> read'[s][n] # NULL
             /\ Done(s)' \cup ({awaited'[s]} \ {NULL}) \subseteq scope'[s]
             /\ dims'[s] = NULL => awaited'[s] = NULL /\ ranked'[s] = {}
  <2>1. CASE s = r
    BY <1>1, <2>1 DEF Done
  <2>2. CASE s # r
    BY <1>1, <2>2 DEF Done
  <2> QED
    BY <2>1, <2>2
<1>3. TypeOK'
  BY <1>1, <1>2
<1>4. RowsAreHonest'
  BY <1>1 DEF RowsAreHonest
<1>5. RankedAsRead'
  BY <1>1 DEF RankedAsRead
<1> QED
  BY <1>3, <1>4, <1>5

-----------------------------------------------------------------------------
\* The tables, the searches and the vectors they compare agree in every
\* reachable state.
THEOREM IndexInvariant == Spec => []VInv
<1>1. Init => VInv
  BY DEF Init, VInv, TypeOK, Done, RowsAreHonest, RankedAsRead
<1>2. VInv /\ [Next]_vars => VInv'
  <2> SUFFICES ASSUME VInv, [Next]_vars
               PROVE  VInv'
    OBVIOUS
  <2>1. ASSUME NEW r \in Runtime, Proceed(r)
        PROVE  VInv'
    <3>1. CASE \E d \in Dimension : QueryEmbedded(r, d)
      BY <3>1, QueryEmbeddedStep
    <3>2. CASE \E n \in Node : Resolve(r, n)
      BY <3>2, ResolveStep
    <3>3. CASE NodeEmbedded(r)
      BY <3>3, NodeEmbeddedStep
    <3>4. CASE Return(r) \/ Fail(r)
      BY <3>4, ForgetStep DEF Return, Fail
    <3> QED
      BY <2>1, <3>1, <3>2, <3>3, <3>4 DEF Proceed
  <2>2. CASE UNCHANGED vars
    BY <2>2 DEF vars, VInv, TypeOK, Done, RowsAreHonest, RankedAsRead
  <2> QED
    BY <2>1, <2>2, WritersStep, SearchStep DEF Next
<1> QED
  BY <1>1, <1>2, PTL DEF Spec

\* The tables and the searches keep their shape.
THEOREM VectorTypeCorrect == Spec => []TypeOK
<1>1. VInv => TypeOK
  BY DEF VInv
<1> QED
  BY <1>1, IndexInvariant, PTL

\* A stored row names the model, text and length its vector has, whoever
\* wrote it and however late.
THEOREM IndexIsHonest == Spec => []RowsAreHonest
<1>1. VInv => RowsAreHonest
  BY DEF VInv
<1> QED
  BY <1>1, IndexInvariant, PTL

\* No search compares its query with a vector of another model or length, or
\* of a text other than the one it read.
THEOREM SearchesRankWhatTheyRead == Spec => []RankedAsRead
<1>1. VInv => RankedAsRead
  BY DEF VInv
<1> QED
  BY <1>1, IndexInvariant, PTL

-----------------------------------------------------------------------------
(* The half of SearchesEnd that needs no fairness: a search that goes on   *)
(* gets on, and has only so far to go.                                     *)

\* A turn is requested only before it is ranked.
AwaitedOnce == \A r \in Runtime : awaited[r] \notin Done(r)

Given(x) == IF x = NULL THEN 0 ELSE 1

\* How far a search has come: a turn that is ranked counts twice, as it may
\* have been requested first.
Taken(r) == 2 * Cardinality(Done(r)) + Given(dims[r]) + Given(awaited[r])

\* What a step does to the turns a runtime has ranked.
LEMMA RankAddsTurn ==
  ASSUME TypeOK, NEW r \in Runtime, NEW n \in scope[r], NEW vector, Rank(r, n, vector)
  PROVE  /\ Done(r)' = Done(r) \cup {n}
         /\ \A s \in Runtime \ {r} : Done(s)' = Done(s)
<1>1. /\ ranked'[r] = ranked[r] \cup {<<n, vector>>}
      /\ \A s \in Runtime \ {r} : ranked'[s] = ranked[s]
  BY DEF Rank, TypeOK
<1>2. n \in Done(r)'
  <2>1. <<n, vector>> \in ranked'[r] /\ <<n, vector>>[1] = n
    BY <1>1
  <2> QED
    BY <2>1 DEF Done
<1>3. Done(r) \subseteq Done(r)' /\ Done(r)' \subseteq Done(r) \cup {n}
  BY <1>1 DEF Done
<1>4. \A s \in Runtime \ {r} : Done(s)' = Done(s)
  BY <1>1 DEF Done
<1> QED
  BY <1>2, <1>3, <1>4

\* A step of one search leaves the others where they are.
LEMMA OthersUntouched ==
  ASSUME TypeOK, NEW r \in Runtime, Proceed(r), NEW s \in Runtime, s # r
  PROVE  Done(s)' = Done(s) /\ dims'[s] = dims[s] /\ awaited'[s] = awaited[s]
<1>1. CASE \E d \in Dimension : QueryEmbedded(r, d)
  BY <1>1 DEF QueryEmbedded, TypeOK, Done
<1>2. CASE \E n \in Node : Resolve(r, n)
  <2>1. PICK n \in Node : Resolve(r, n)
    BY <1>2
  <2>2. n \in scope[r]
    BY <2>1 DEF Resolve, NextTurn
  <2>3. CASE Usable(r, n)
    BY <2>1, <2>2, <2>3, RankAddsTurn DEF Resolve
  <2>4. CASE ~Usable(r, n)
    BY <2>1, <2>4 DEF Resolve, TypeOK, Done
  <2> QED
    BY <2>3, <2>4
<1>3. CASE NodeEmbedded(r)
  <2>1. awaited[r] \in scope[r]
    BY <1>3 DEF NodeEmbedded, TypeOK
  <2>2. PICK vector : Rank(r, awaited[r], vector)
    BY <1>3 DEF NodeEmbedded
  <2>3. Done(s)' = Done(s)
    BY <2>1, <2>2, RankAddsTurn
  <2> QED
    BY <1>3, <2>3 DEF NodeEmbedded, TypeOK
<1>4. CASE Return(r) \/ Fail(r)
  BY <1>4 DEF Return, Fail, Forget, TypeOK, Done
<1> QED
  BY <1>1, <1>2, <1>3, <1>4 DEF Proceed

\* The turns a search has ranked or awaits are among those it read.
LEMMA TakenBounded ==
  ASSUME TypeOK, AwaitedOnce, NEW r \in Runtime
  PROVE  /\ IsFiniteSet(Done(r)) /\ Cardinality(Done(r)) \in Nat
         /\ Taken(r) \in 0 .. 2 * Cardinality(scope[r]) + 1
<1>1. /\ scope[r] \subseteq Node /\ Done(r) \subseteq scope[r]
      /\ awaited[r] # NULL => awaited[r] \in scope[r] \ Done(r)
  BY DEF TypeOK, AwaitedOnce
<1>2. IsFiniteSet(scope[r])
  BY <1>1, FS_Subset, IndexAssumption
<1>3. /\ IsFiniteSet(Done(r))
      /\ Cardinality(Done(r)) \in Nat /\ Cardinality(scope[r]) \in Nat
      /\ Cardinality(Done(r)) <= Cardinality(scope[r])
  BY <1>1, <1>2, FS_Subset, FS_CardinalityType
<1>4. CASE awaited[r] = NULL
  BY <1>3, <1>4 DEF Taken, Given
<1>5. CASE awaited[r] # NULL
  <2>1. Done(r) \cup {awaited[r]} \subseteq scope[r] /\ awaited[r] \notin Done(r)
    BY <1>1, <1>5
  <2>2. Cardinality(Done(r) \cup {awaited[r]}) = Cardinality(Done(r)) + 1
    BY <1>3, <2>1, FS_AddElement
  <2>3. Cardinality(Done(r) \cup {awaited[r]}) <= Cardinality(scope[r])
    BY <1>2, <2>1, FS_Subset
  <2> QED
    BY <1>3, <1>5, <2>2, <2>3 DEF Taken, Given
<1> QED
  BY <1>3, <1>4, <1>5

\* The search that takes a step gets further, or is over.
LEMMA ProceedAdvances ==
  ASSUME TypeOK, AwaitedOnce, NEW r \in Runtime, Proceed(r)
  PROVE  /\ awaited'[r] \notin Done(r)'
         /\ scope'[r] # {} => Taken(r) < Taken(r)' /\ Taken(r) <= Taken(r)'
<1>1. IsFiniteSet(Done(r)) /\ Cardinality(Done(r)) \in Nat
  BY TakenBounded
<1>2. CASE \E d \in Dimension : QueryEmbedded(r, d)
  <2>1. /\ dims[r] = NULL /\ dims'[r] # NULL
        /\ Done(r)' = Done(r) /\ awaited'[r] = awaited[r]
    BY <1>2, NullAssumption DEF QueryEmbedded, TypeOK, Done
  <2> QED
    BY <1>1, <2>1 DEF Taken, Given, AwaitedOnce
<1>3. CASE \E n \in Node : Resolve(r, n)
  <2>1. PICK n \in Node : Resolve(r, n)
    BY <1>3
  <2>2. /\ n \in scope[r] /\ n \notin Done(r) /\ n # NULL
        /\ awaited[r] = NULL /\ dims'[r] = dims[r]
    BY <2>1, IndexAssumption DEF Resolve, Ready, NextTurn
  <2>3. CASE Usable(r, n)
    <3>1. Done(r)' = Done(r) \cup {n} /\ awaited'[r] = NULL
      BY <2>1, <2>2, <2>3, RankAddsTurn DEF Resolve
    <3>2. Cardinality(Done(r)') = Cardinality(Done(r)) + 1
      BY <1>1, <2>2, <3>1, FS_AddElement
    <3>3. NULL \notin Done(r)'
      BY <2>2, <3>1, IndexAssumption DEF TypeOK
    <3> QED
      BY <1>1, <2>2, <3>1, <3>2, <3>3 DEF Taken, Given
  <2>4. CASE ~Usable(r, n)
    <3>1. Done(r)' = Done(r) /\ awaited'[r] = n
      BY <2>1, <2>4 DEF Resolve, TypeOK, Done
    <3> QED
      BY <1>1, <2>2, <3>1 DEF Taken, Given
  <2> QED
    BY <2>3, <2>4
<1>4. CASE NodeEmbedded(r)
  <2>1. /\ awaited[r] \in scope[r] /\ awaited[r] # NULL /\ awaited[r] \notin Done(r)
        /\ awaited'[r] = NULL /\ dims'[r] = dims[r]
    BY <1>4 DEF NodeEmbedded, TypeOK, AwaitedOnce
  <2>2. PICK vector : Rank(r, awaited[r], vector)
    BY <1>4 DEF NodeEmbedded
  <2>3. Done(r)' = Done(r) \cup {awaited[r]}
    BY <2>1, <2>2, RankAddsTurn
  <2>4. Cardinality(Done(r)') = Cardinality(Done(r)) + 1
    BY <1>1, <2>1, <2>3, FS_AddElement
  <2>5. NULL \notin Done(r)'
    BY <2>1, <2>3, IndexAssumption DEF TypeOK
  <2> QED
    BY <1>1, <2>1, <2>4, <2>5 DEF Taken, Given
<1>5. CASE Return(r) \/ Fail(r)
  <2>1. scope'[r] = {} /\ Done(r)' = {}
    BY <1>5 DEF Return, Fail, Forget, TypeOK, Done
  <2> QED
    BY <2>1
<1> QED
  BY <1>2, <1>3, <1>4, <1>5 DEF Proceed

\* Whatever is not a step of a search leaves every search where it was.
LEMMA NoStepNoChange ==
  ASSUME [Next]_vars, ~\E r \in Runtime : Proceed(r), NEW r \in Runtime
  PROVE  Done(r)' = Done(r) /\ dims'[r] = dims[r] /\ awaited'[r] = awaited[r]
<1>1. UNCHANGED <<dims, awaited, ranked>>
  BY DEF Next, InsertTurnNode, AttachAnswer, Search, vars, searchVars
<1> QED
  BY <1>1 DEF Done

\* Every step of a search brings it further, along a way as long as the turns
\* it read, and no other runtime's step takes it back, whatever rows they
\* overwrite or delete: a search waits for nobody but its endpoint.
THEOREM SearchesAdvance ==
  Spec => [][\A r \in Runtime :
               /\ Taken(r) \in 0 .. 2 * Cardinality(scope[r]) + 1
               /\ scope'[r] # {} => /\ Taken(r) <= Taken(r)'
                                    /\ Proceed(r) => Taken(r) < Taken(r)']_vars
<1>1. Init => AwaitedOnce
  BY DEF Init, AwaitedOnce, Done
<1>2. TypeOK /\ AwaitedOnce /\ [Next]_vars => AwaitedOnce'
  <2> SUFFICES ASSUME TypeOK, AwaitedOnce, [Next]_vars, NEW s \in Runtime
               PROVE  awaited'[s] \notin Done(s)'
    BY DEF AwaitedOnce
  <2>1. CASE \E r \in Runtime : Proceed(r)
    BY <2>1, OthersUntouched, ProceedAdvances DEF AwaitedOnce
  <2>2. CASE ~\E r \in Runtime : Proceed(r)
    BY <2>2, NoStepNoChange DEF AwaitedOnce
  <2> QED
    BY <2>1, <2>2
<1>3. ASSUME TypeOK, AwaitedOnce, [Next]_vars
      PROVE  [\A r \in Runtime :
                /\ Taken(r) \in 0 .. 2 * Cardinality(scope[r]) + 1
                /\ scope'[r] # {} => /\ Taken(r) <= Taken(r)'
                                     /\ Proceed(r) => Taken(r) < Taken(r)']_vars
  <2> SUFFICES ASSUME NEW s \in Runtime
               PROVE  /\ Taken(s) \in 0 .. 2 * Cardinality(scope[s]) + 1
                      /\ scope'[s] # {} => /\ Taken(s) <= Taken(s)'
                                           /\ Proceed(s) => Taken(s) < Taken(s)'
    OBVIOUS
  <2>1. Taken(s) \in 0 .. 2 * Cardinality(scope[s]) + 1 /\ Taken(s) \in Int
    <3>1. Cardinality(Done(s)) \in Nat
      BY <1>3, TakenBounded
    <3> QED
      BY <1>3, <3>1, TakenBounded DEF Taken, Given
  <2>2. CASE Proceed(s)
    BY <1>3, <2>1, <2>2, ProceedAdvances
  <2>3. CASE ~Proceed(s)
    <3>1. Done(s)' = Done(s) /\ dims'[s] = dims[s] /\ awaited'[s] = awaited[s]
      <4>1. CASE \E r \in Runtime : Proceed(r)
        BY <1>3, <2>3, <4>1, OthersUntouched
      <4>2. CASE ~\E r \in Runtime : Proceed(r)
        BY <1>3, <4>2, NoStepNoChange
      <4> QED
        BY <4>1, <4>2
    <3>2. Taken(s)' = Taken(s)
      BY <3>1 DEF Taken
    <3> QED
      BY <2>1, <2>3, <3>2
  <2> QED
    BY <2>2, <2>3
<1> QED
  BY <1>1, <1>2, <1>3, VectorTypeCorrect, PTL DEF Spec
=============================================================================
