----------------------------- MODULE VectorIndex -----------------------------
(***************************************************************************)
(* Vector search (retrieval/vector-search-service.ts) over the shared      *)
(* table node_vectors.  Several runtime processes have the database open.  *)
(* Each serves one command at a time, but a search awaits the embedding    *)
(* endpoint once for its query and once for every turn without a usable    *)
(* row, and between two awaits the other runtimes write: they insert       *)
(* turns, attach answers and store rows of their own.                      *)
(*                                                                         *)
(* A vector is represented by what it was computed from; the hash of a     *)
(* text is the text, of which a turn has two versions: as inserted, and    *)
(* with the answer attached to its question.  Distances, Float32 checks    *)
(* and the order of the result are left out.                               *)
(***************************************************************************)
EXTENDS Naturals, FiniteSets

CONSTANTS
  Node,        \* turns, ordered by node id: natural numbers
  Runtime,     \* runtime processes on one database
  Model,       \* provider_id and model of an endpoint
  ModelOf,     \* the endpoint a runtime is configured with
  Dimension,   \* lengths an endpoint may return for a model
  NULL

ASSUME IndexAssumption ==
  /\ Node \subseteq Nat /\ IsFiniteSet(Node)
  /\ ModelOf \in [Runtime -> Model]
  /\ NULL \notin Node

Text == {"question", "question and answer", "answer"}

Vector == [model : Model, text : Text, dims : Dimension]
Row == [model : Model, sha : Text, dims : Dimension, vector : Vector]

ASSUME NullAssumption == NULL \notin Row /\ NULL \notin Dimension

VARIABLES
  text,           \* node -> its embedding text now, NULL before it is inserted
  node_vectors,   \* node -> its row, or NULL
  scope,          \* runtime -> the turns its search has read, {} when it has none
  read,           \* runtime -> node -> the text it read for that turn
  dims,           \* runtime -> length of its query vector, NULL while awaited
  awaited,        \* runtime -> the turn whose embedding it awaits, or NULL
  ranked          \* runtime -> turns already ranked, with the vector used

vars == <<text, node_vectors, scope, read, dims, awaited, ranked>>
searchVars == <<scope, read, dims, awaited, ranked>>

-----------------------------------------------------------------------------
(* Writers: the statements of partner-mem-store.ts and their triggers.     *)

Idle(r) == scope[r] = {}

\* insertTurnNode: a turn begins with a question or with an answer.
InsertTurnNode(n, as) ==
  /\ \E r \in Runtime : Idle(r)
  /\ text[n] = NULL
  /\ text' = [text EXCEPT ![n] = as]
  /\ UNCHANGED <<node_vectors, searchVars>>

\* attachAnswer, with the trigger turn_nodes_vector_invalidate.
AttachAnswer(n) ==
  /\ \E r \in Runtime : Idle(r)
  /\ text[n] = "question"
  /\ text' = [text EXCEPT ![n] = "question and answer"]
  /\ node_vectors' = [node_vectors EXCEPT ![n] = NULL]
  /\ UNCHANGED searchVars

-----------------------------------------------------------------------------
(* search, between its awaits.                                             *)

Done(r) == {entry[1] : entry \in ranked[r]}

\* The turns of a search are resolved in the order they were listed.
NextTurn(r, n) ==
  LET left == scope[r] \ Done(r) IN
  n \in left /\ \A m \in left : n <= m

\* The turns in scope are read once, before the query is embedded.
Search(r, nodes) ==
  /\ Idle(r)
  /\ nodes # {} /\ \A n \in nodes : text[n] # NULL
  /\ scope' = [scope EXCEPT ![r] = nodes]
  /\ read' = [read EXCEPT ![r] = [n \in Node |-> IF n \in nodes THEN text[n] ELSE NULL]]
  /\ UNCHANGED <<text, node_vectors, dims, awaited, ranked>>

QueryEmbedded(r, d) ==
  /\ ~Idle(r) /\ dims[r] = NULL
  /\ dims' = [dims EXCEPT ![r] = d]
  /\ UNCHANGED <<text, node_vectors, scope, read, awaited, ranked>>

Ready(r) == scope[r] # {} /\ dims[r] # NULL /\ awaited[r] = NULL

Rank(r, n, vector) == ranked' = [ranked EXCEPT ![r] = @ \cup {<<n, vector>>}]

\* Mutants of Usable: the hash, the model or the length is not compared.
UsableWithoutHash(r, n) ==
  /\ node_vectors[n] # NULL
  /\ node_vectors[n].model = ModelOf[r] /\ node_vectors[n].dims = dims[r]

UsableWithoutModel(r, n) ==
  /\ node_vectors[n] # NULL
  /\ node_vectors[n].sha = read[r][n] /\ node_vectors[n].dims = dims[r]

\* The four comparisons of resolveNodeVector.
Usable(r, n) ==
  /\ node_vectors[n] # NULL
  /\ node_vectors[n].model = ModelOf[r]
  /\ node_vectors[n].sha = read[r][n]
  /\ node_vectors[n].dims = dims[r]

\* resolveNodeVector up to its await: a usable row, or a request.
Resolve(r, n) ==
  /\ Ready(r) /\ NextTurn(r, n)
  /\ IF Usable(r, n)
     THEN Rank(r, n, node_vectors[n].vector) /\ UNCHANGED awaited
     ELSE awaited' = [awaited EXCEPT ![r] = n] /\ UNCHANGED ranked
  /\ UNCHANGED <<text, node_vectors, scope, read, dims>>

\* Mutant of RowOf: the hash is taken when the row is written, not when the
\* text was read.
RowOfCurrentText(r, n, vector) ==
  [model |-> ModelOf[r], sha |-> text[n], dims |-> dims[r], vector |-> vector]

\* What upsertNodeVector is given.
RowOf(r, n, vector) ==
  [model |-> ModelOf[r], sha |-> read[r][n], dims |-> dims[r], vector |-> vector]

\* resolveNodeVector after its await: ON CONFLICT(node_id) DO UPDATE, whatever
\* row another runtime has stored or deleted meanwhile.
NodeEmbedded(r) ==
  LET n == awaited[r]
      vector == [model |-> ModelOf[r], text |-> read[r][n], dims |-> dims[r]] IN
  /\ n # NULL
  /\ node_vectors' = [node_vectors EXCEPT ![n] = RowOf(r, n, vector)]
  /\ Rank(r, n, vector)
  /\ awaited' = [awaited EXCEPT ![r] = NULL]
  /\ UNCHANGED <<text, scope, read, dims>>

Forget(r) ==
  /\ scope' = [scope EXCEPT ![r] = {}]
  /\ read' = [read EXCEPT ![r] = [n \in Node |-> NULL]]
  /\ dims' = [dims EXCEPT ![r] = NULL]
  /\ awaited' = [awaited EXCEPT ![r] = NULL]
  /\ ranked' = [ranked EXCEPT ![r] = {}]
  /\ UNCHANGED <<text, node_vectors>>

\* Every turn is ranked: the result is sent.
Return(r) == scope[r] # {} /\ Done(r) = scope[r] /\ Forget(r)

\* The endpoint failed, took more than its 10 s or returned an invalid vector or
\* one of another length; a stored vector is invalid; or the process ended.
Fail(r) == scope[r] # {} /\ Forget(r)

-----------------------------------------------------------------------------
Init ==
  /\ text = [n \in Node |-> NULL]
  /\ node_vectors = [n \in Node |-> NULL]
  /\ scope = [r \in Runtime |-> {}]
  /\ read = [r \in Runtime |-> [n \in Node |-> NULL]]
  /\ dims = [r \in Runtime |-> NULL]
  /\ awaited = [r \in Runtime |-> NULL]
  /\ ranked = [r \in Runtime |-> {}]

\* Mutant of Proceed: a failed embedding leaves the search waiting for it.
ProceedWithoutFail(r) ==
  \/ \E d \in Dimension : QueryEmbedded(r, d)
  \/ \E n \in Node : Resolve(r, n)
  \/ Return(r)

\* The steps a search takes once it has begun.
Proceed(r) ==
  \/ \E d \in Dimension : QueryEmbedded(r, d)
  \/ \E n \in Node : Resolve(r, n)
  \/ NodeEmbedded(r)
  \/ Return(r)
  \/ Fail(r)

Next ==
  \/ \E n \in Node : InsertTurnNode(n, "question") \/ InsertTurnNode(n, "answer") \/ AttachAnswer(n)
  \/ \E r \in Runtime, nodes \in SUBSET Node : Search(r, nodes)
  \/ \E r \in Runtime : Proceed(r)

\* The endpoint answers or its 10 s timeout aborts the request.
Spec == Init /\ [][Next]_vars /\ \A r \in Runtime : WF_vars(Proceed(r))

-----------------------------------------------------------------------------
(* Properties.                                                             *)

\* Shape of the tables and of the searches in progress.
TypeOK ==
  /\ text \in [Node -> Text \cup {NULL}]
  /\ node_vectors \in [Node -> Row \cup {NULL}]
  /\ scope \in [Runtime -> SUBSET Node]
  /\ read \in [Runtime -> [Node -> Text \cup {NULL}]]
  /\ \A r \in Runtime, n \in Node : n \in scope[r] <=> read[r][n] # NULL
  /\ dims \in [Runtime -> Dimension \cup {NULL}]
  /\ awaited \in [Runtime -> Node \cup {NULL}]
  /\ ranked \in [Runtime -> SUBSET (Node \X Vector)]
  /\ \A r \in Runtime : Done(r) \cup ({awaited[r]} \ {NULL}) \subseteq scope[r]
  /\ \A r \in Runtime : dims[r] = NULL => awaited[r] = NULL /\ ranked[r] = {}

\* A row tells the truth about its own vector, in whatever order runtimes
\* with different models, attached answers and late embeddings wrote it: a
\* row that is stale says so.
RowsAreHonest ==
  \A n \in Node : node_vectors[n] # NULL =>
    LET row == node_vectors[n] IN
    row.vector = [model |-> row.model, text |-> row.sha, dims |-> row.dims]

\* A search compares its query only with vectors of the text it read, of its
\* own model and of the query's length, though other runtimes replace or
\* delete the rows between its awaits.
RankedAsRead ==
  \A r \in Runtime : \A entry \in ranked[r] :
    entry[2] = [model |-> ModelOf[r], text |-> read[r][entry[1]], dims |-> dims[r]]

\* Every search ends, even while runtimes with different models overwrite
\* each other's rows of the same turns.
SearchesEnd == \A r \in Runtime : scope[r] # {} ~> scope[r] = {}
=============================================================================
