----------------------------- MODULE TurnIngest -----------------------------
(***************************************************************************)
(* The ingest core of Partner-Mem: the SQLite tables a write command       *)
(* changes and the commands of TurnIngestService and PartnerMemRuntime     *)
(* that change them.  Every command runs inside one BEGIN IMMEDIATE        *)
(* transaction (partner-mem-store.ts, transaction), so a command is one    *)
(* step, and a command that throws is rolled back with the identity        *)
(* mappings it had already inserted: it is not a step at all.              *)
(*                                                                         *)
(* A formal id is a fresh randomUUID that is bound for ever to the         *)
(* (harness, kind, source id) triple it was allocated for; it is           *)
(* represented by that triple.  The author, role, visible_at and           *)
(* display_order of a side of a turn are one value of Meta, whose author   *)
(* and agent are AuthorOf and AgentOf.                                     *)
(***************************************************************************)
EXTENDS Naturals, Sequences, FiniteSets

CONSTANTS
  Harness,       \* values register_harness may return
  Conversation, Thread, Message, Author, Agent,   \* source ids of each kind
  Text,          \* saved message bodies
  Meta,          \* host metadata of one message: role, author, agent, time, order
  AuthorOf,      \* the source author a Meta names, or NULL
  AgentOf,       \* the source agent a Meta names (answers only), or NULL
  NodeId,        \* bound: the node ids randomUUID may return
  NULL           \* SQL NULL, an absent field of a request

Optional(S) == S \cup {NULL}

Kind == {"conversation", "thread", "message", "author", "agent"}
Source == Conversation \cup Thread \cup Message \cup Author \cup Agent
FormalId == Harness \X Kind \X Source

Side == [text : Optional(Text), message : Optional(FormalId), meta : Optional(Meta)]
NoSide == [text |-> NULL, message |-> NULL, meta |-> NULL]

TurnRow == [harness : Harness, conversation : FormalId, thread : Optional(FormalId),
            question : Side, answer : Side]

HasText(node) == node.question.text # NULL \/ node.answer.text # NULL

TurnNode == {node \in TurnRow : HasText(node)}

QuestionMeta == {m \in Meta : AgentOf[m] = NULL}

QuestionRequest ==
  [harness : Harness, conversation : Conversation, thread : Optional(Thread),
   message : Optional(Message), text : Text, meta : Optional(QuestionMeta),
   access : Optional(Agent)]

\* An answer that names its turn by node id or by the question's message.
AnchoredAnswerRequest ==
  [harness : Harness, conversation : Conversation, thread : Optional(Thread),
   message : Optional(Message), text : Optional(Text), meta : Optional(Meta),
   access : Optional(Agent), node : Optional(NodeId), question : Optional(Message),
   absent : {FALSE}, questionMeta : {NULL}]

\* An answer whose question the host says it never had (question_was_absent).
AbsentAnswerRequest ==
  [harness : Harness, conversation : Conversation, thread : Optional(Thread),
   message : Optional(Message), text : Optional(Text), meta : Optional(Meta),
   access : Optional(Agent), node : {NULL}, question : Optional(Message),
   absent : {TRUE}, questionMeta : Optional(QuestionMeta)]

AnswerRequest == AnchoredAnswerRequest \cup AbsentAnswerRequest

ReplyRequest == [harness : Harness, from : Message, to : Message]

ToolRequest == [harness : Harness, conversation : Conversation, access : Optional(Agent)]

Edge == [harness : Harness, from_node : NodeId, from_message : FormalId,
         to_node : NodeId, to_message : FormalId]

ASSUME NullAssumption ==
  /\ NULL \notin Text /\ NULL \notin Meta /\ NULL \notin NodeId
  /\ NULL \notin Source /\ NULL \notin FormalId /\ NULL \notin TurnNode

ASSUME MetaAssumption ==
  /\ AuthorOf \in [Meta -> Optional(Author)]
  /\ AgentOf \in [Meta -> Optional(Agent)]

VARIABLES
  harness_instances,          \* registered harnesses
  source_object_mappings,     \* formal ids that have a mapping row
  turn_nodes,                 \* node id -> stored turn, NULL where there is none
  explicit_reply_edges,
  agent_conversation_access,  \* <<harness, agent id, conversation id>> rows
  turn_fts                    \* <<node id, search text>> rows of the full text index

vars == <<harness_instances, source_object_mappings, turn_nodes,
          explicit_reply_edges, agent_conversation_access, turn_fts>>

-----------------------------------------------------------------------------
(* Identity mappings.                                                      *)

\* resolveSourceObject: the formal id of a source id, NULL for an absent one.
Formal(h, kind, source) == IF source = NULL THEN NULL ELSE <<h, kind, source>>

MetaIds(h, meta) ==
  IF meta = NULL THEN {}
  ELSE {Formal(h, "author", AuthorOf[meta]), Formal(h, "agent", AgentOf[meta])}

\* Every formal id a request resolves, and so inserts when it is new.
QuestionIds(r) ==
  ({Formal(r.harness, "conversation", r.conversation), Formal(r.harness, "thread", r.thread),
    Formal(r.harness, "message", r.message), Formal(r.harness, "agent", r.access)}
   \cup MetaIds(r.harness, r.meta)) \ {NULL}

AnswerIds(r) ==
  ({Formal(r.harness, "conversation", r.conversation), Formal(r.harness, "thread", r.thread),
    Formal(r.harness, "message", r.message), Formal(r.harness, "agent", r.access)}
   \cup MetaIds(r.harness, r.meta) \cup MetaIds(r.harness, r.questionMeta)
   \cup (IF r.absent THEN {Formal(r.harness, "message", r.question)} ELSE {})) \ {NULL}

Persist(ids) == source_object_mappings' = source_object_mappings \cup ids

\* grantConversationAccess: ON CONFLICT DO NOTHING.
Grant(r) ==
  agent_conversation_access' = agent_conversation_access \cup
    (IF r.access = NULL THEN {}
     ELSE {<<r.harness, Formal(r.harness, "agent", r.access),
             Formal(r.harness, "conversation", r.conversation)>>})

-----------------------------------------------------------------------------
(* Turn nodes.                                                             *)

Stored == {n \in NodeId : turn_nodes[n] # NULL}

MessagesOf(node) == {node.question.message, node.answer.message} \ {NULL}

\* findTurnNodeByMessageId: the rows its query can return the first of.
Owner(h, m) == {n \in Stored : turn_nodes[n].harness = h /\ m \in MessagesOf(turn_nodes[n])}

\* The search_text of the FTS triggers: question, newline, answer; or the one present.
SearchText(node) ==
  IF node.question.text = NULL THEN <<node.answer.text>>
  ELSE IF node.answer.text = NULL THEN <<node.question.text>>
  ELSE <<node.question.text, node.answer.text>>

\* Mutant of MessagesFree: the triggers are missing, only the CHECK is left.
MessagesFreeWithinRow(n, node) ==
  node.question.message = NULL \/ node.question.message # node.answer.message

\* The message-id triggers and the CHECK of turn_nodes: no side of the new row
\* version uses a message of another row, and its sides use different ones.
MessagesFree(n, node) ==
  /\ \A other \in Stored \ {n} : MessagesOf(turn_nodes[other]) \cap MessagesOf(node) = {}
  /\ node.question.message = NULL \/ node.question.message # node.answer.message

\* insertTurnNode with the AFTER INSERT trigger of the full text index.
InsertTurnNode(n, node) ==
  /\ turn_nodes[n] = NULL
  /\ HasText(node)
  /\ MessagesFree(n, node)
  /\ turn_nodes' = [turn_nodes EXCEPT ![n] = node]
  /\ turn_fts' = turn_fts \cup {<<n, SearchText(node)>>}

\* Mutant of FtsAfterUpdate: the trigger inserts the new row and keeps the old one.
FtsAfterUpdateKeepsOld(n, node) ==
  IF node.answer.text = turn_nodes[n].answer.text THEN turn_fts
  ELSE turn_fts \cup {<<n, SearchText(node)>>}

\* turn_nodes_fts_answer_update: the node's rows are replaced, and only when
\* the update changes answer_text.
FtsAfterUpdate(n, node) ==
  IF node.answer.text = turn_nodes[n].answer.text THEN turn_fts
  ELSE {row \in turn_fts : row[1] # n} \cup {<<n, SearchText(node)>>}

-----------------------------------------------------------------------------
(* record_question.                                                        *)

QuestionSide(r) ==
  [text |-> r.text, message |-> Formal(r.harness, "message", r.message), meta |-> r.meta]

QuestionMatches(node, r) ==
  /\ node.conversation = Formal(r.harness, "conversation", r.conversation)
  /\ node.thread = Formal(r.harness, "thread", r.thread)
  /\ node.question = QuestionSide(r)

QuestionOwner(r) ==
  IF r.message = NULL THEN {} ELSE Owner(r.harness, Formal(r.harness, "message", r.message))

RepeatQuestion(r, n) ==
  /\ r.harness \in harness_instances
  /\ n \in QuestionOwner(r)
  /\ QuestionMatches(turn_nodes[n], r)
  /\ Persist(QuestionIds(r))
  /\ Grant(r)
  /\ UNCHANGED <<harness_instances, turn_nodes, explicit_reply_edges, turn_fts>>

NewQuestion(r, n) ==
  /\ r.harness \in harness_instances
  /\ QuestionOwner(r) = {}
  /\ InsertTurnNode(n, [harness |-> r.harness,
                        conversation |-> Formal(r.harness, "conversation", r.conversation),
                        thread |-> Formal(r.harness, "thread", r.thread),
                        question |-> QuestionSide(r), answer |-> NoSide])
  /\ Persist(QuestionIds(r))
  /\ Grant(r)
  /\ UNCHANGED <<harness_instances, explicit_reply_edges>>

-----------------------------------------------------------------------------
(* record_answer.                                                          *)

AnswerSide(r) ==
  [text |-> r.text, message |-> Formal(r.harness, "message", r.message), meta |-> r.meta]

AbsentQuestionSide(r) ==
  [text |-> NULL, message |-> Formal(r.harness, "message", r.question),
   meta |-> r.questionMeta]

\* The node that holds the message the request names as the question.
NamedTurn(r) ==
  IF r.question = NULL THEN {} ELSE Owner(r.harness, Formal(r.harness, "message", r.question))

\* The node that already holds the message of the answer.
ExistingAnswer(r) ==
  IF r.message = NULL THEN {} ELSE Owner(r.harness, Formal(r.harness, "message", r.message))

\* The checks made on the anchors before a target is chosen.
AnchorsValid(r) ==
  LET named == Formal(r.harness, "message", r.question) IN
  /\ r.node # NULL => r.node \in Stored
  /\ ~r.absent /\ r.question # NULL =>
       /\ named \in source_object_mappings \cup AnswerIds(r)
       /\ NamedTurn(r) # {}
       /\ \A n \in NamedTurn(r) : turn_nodes[n].question.message = named
  /\ r.absent => \A n \in NamedTurn(r) : turn_nodes[n].question.text = NULL
  /\ r.node # NULL => NamedTurn(r) \subseteq {r.node}

Target(r) ==
  IF r.node # NULL THEN {r.node}
  ELSE IF NamedTurn(r) # {} THEN NamedTurn(r)
  ELSE {n \in ExistingAnswer(r) :
          turn_nodes[n].answer.message = Formal(r.harness, "message", r.message)}

\* Mutant of InBoundary: an exact node id is trusted without its boundary.
InBoundaryByThread(node, r) ==
  node.thread = NULL \/ r.thread = NULL \/ node.thread = Formal(r.harness, "thread", r.thread)

\* assertTurnBoundary.
InBoundary(node, r) ==
  /\ node.harness = r.harness
  /\ node.conversation = Formal(r.harness, "conversation", r.conversation)
  /\ node.thread = NULL \/ r.thread = NULL \/ node.thread = Formal(r.harness, "thread", r.thread)

\* The target's own checks, shared by a first answer and a repeated one.
TargetAccepts(n, r) ==
  /\ n \in Target(r)
  /\ InBoundary(turn_nodes[n], r)
  /\ r.absent => turn_nodes[n].question = AbsentQuestionSide(r)
  /\ ExistingAnswer(r) \subseteq {n}

\* Mutant of HasAnswerSide: an answer side without text does not count.
HasAnswerSideText(node) == node.answer.text # NULL

HasAnswerSide(node) == node.answer # NoSide

\* Mutants of AnswerMatches: the thread must be equal; a missing thread on
\* either side is tolerated.
AnswerMatchesStrictly(node, r) ==
  /\ node.thread = Formal(r.harness, "thread", r.thread)
  /\ node.answer = AnswerSide(r)

AnswerMatchesLoosely(node, r) ==
  /\ node.thread \in {NULL, Formal(r.harness, "thread", r.thread)} \/ r.thread = NULL
  /\ node.answer = AnswerSide(r)

AnswerMatches(node, r) ==
  /\ node.thread = Formal(r.harness, "thread", r.thread) \/ r.thread = NULL
  /\ node.answer = AnswerSide(r)

AnswerWithoutQuestion(r, n) ==
  /\ r.harness \in harness_instances
  /\ AnchorsValid(r)
  /\ Target(r) = {}
  /\ r.absent
  /\ r.text # NULL
  /\ InsertTurnNode(n, [harness |-> r.harness,
                        conversation |-> Formal(r.harness, "conversation", r.conversation),
                        thread |-> Formal(r.harness, "thread", r.thread),
                        question |-> AbsentQuestionSide(r), answer |-> AnswerSide(r)])
  /\ Persist(AnswerIds(r))
  /\ Grant(r)
  /\ UNCHANGED <<harness_instances, explicit_reply_edges>>

RepeatAnswer(r, n) ==
  /\ r.harness \in harness_instances
  /\ AnchorsValid(r)
  /\ TargetAccepts(n, r)
  /\ HasAnswerSide(turn_nodes[n])
  /\ AnswerMatches(turn_nodes[n], r)
  /\ Persist(AnswerIds(r))
  /\ Grant(r)
  /\ UNCHANGED <<harness_instances, turn_nodes, explicit_reply_edges, turn_fts>>

\* Mutants of Answered: the thread is overwritten instead of filled; the source
\* thread is stored in place of its formal id.
AnsweredOverwritingThread(node, r) ==
  [node EXCEPT !.thread = Formal(r.harness, "thread", r.thread), !.answer = AnswerSide(r)]

AnsweredWithSourceThread(node, r) ==
  [node EXCEPT !.thread = IF @ = NULL THEN r.thread ELSE @, !.answer = AnswerSide(r)]

\* attachAnswer's UPDATE: thread_id = COALESCE(thread_id, ?) and the answer side.
Answered(node, r) ==
  [node EXCEPT !.thread = IF @ = NULL THEN Formal(r.harness, "thread", r.thread) ELSE @,
               !.answer = AnswerSide(r)]

AttachAnswer(r, n) ==
  LET node == Answered(turn_nodes[n], r) IN
  /\ r.harness \in harness_instances
  /\ AnchorsValid(r)
  /\ TargetAccepts(n, r)
  /\ ~HasAnswerSide(turn_nodes[n])
  /\ AnswerSide(r) # NoSide
  /\ MessagesFree(n, node)
  /\ turn_nodes' = [turn_nodes EXCEPT ![n] = node]
  /\ turn_fts' = FtsAfterUpdate(n, node)
  /\ Persist(AnswerIds(r))
  /\ Grant(r)
  /\ UNCHANGED <<harness_instances, explicit_reply_edges>>

-----------------------------------------------------------------------------
(* record_reply, register_harness and the identity part of invoke_tool.    *)

\* Mutant of ContainsStoredText: an answer side without text is an endpoint too.
ContainsMessage(node, m) ==
  \/ node.question.message = m /\ node.question.text # NULL
  \/ node.answer.message = m

\* nodeContainsStoredText, and the endpoint trigger of explicit_reply_edges.
ContainsStoredText(node, m) ==
  \/ node.question.message = m /\ node.question.text # NULL
  \/ node.answer.message = m /\ node.answer.text # NULL

\* A message that is already the source of the same edge returns it: no step.
RecordReply(r, from, to) ==
  LET fromId == Formal(r.harness, "message", r.from)
      toId == Formal(r.harness, "message", r.to) IN
  /\ r.harness \in harness_instances
  /\ {fromId, toId} \subseteq source_object_mappings
  /\ from \in Owner(r.harness, fromId) /\ ContainsStoredText(turn_nodes[from], fromId)
  /\ to \in Owner(r.harness, toId) /\ ContainsStoredText(turn_nodes[to], toId)
  /\ \A e \in explicit_reply_edges : e.from_message # fromId \/ e.to_message # toId
  /\ from # to /\ fromId # toId
  /\ explicit_reply_edges' = explicit_reply_edges \cup
       {[harness |-> r.harness, from_node |-> from, from_message |-> fromId,
         to_node |-> to, to_message |-> toId]}
  /\ UNCHANGED <<harness_instances, source_object_mappings, turn_nodes,
                 agent_conversation_access, turn_fts>>

RegisterHarness(h) ==
  /\ h \notin harness_instances
  /\ harness_instances' = harness_instances \cup {h}
  /\ UNCHANGED <<source_object_mappings, turn_nodes, explicit_reply_edges,
                 agent_conversation_access, turn_fts>>

\* The identity is committed before the tool runs, whatever the tool returns.
ResolveToolIdentity(r) ==
  /\ r.harness \in harness_instances
  /\ Persist({Formal(r.harness, "conversation", r.conversation),
              Formal(r.harness, "agent", r.access)} \ {NULL})
  /\ Grant(r)
  /\ UNCHANGED <<harness_instances, turn_nodes, explicit_reply_edges, turn_fts>>

-----------------------------------------------------------------------------
Init ==
  /\ harness_instances = {}
  /\ source_object_mappings = {}
  /\ turn_nodes = [n \in NodeId |-> NULL]
  /\ explicit_reply_edges = {}
  /\ agent_conversation_access = {}
  /\ turn_fts = {}

Next ==
  \/ \E h \in Harness : RegisterHarness(h)
  \/ \E r \in QuestionRequest, n \in NodeId : RepeatQuestion(r, n) \/ NewQuestion(r, n)
  \/ \E r \in AnswerRequest, n \in NodeId :
       AnswerWithoutQuestion(r, n) \/ RepeatAnswer(r, n) \/ AttachAnswer(r, n)
  \/ \E r \in ReplyRequest, from, to \in NodeId : RecordReply(r, from, to)
  \/ \E r \in ToolRequest : ResolveToolIdentity(r)

Spec == Init /\ [][Next]_vars

-----------------------------------------------------------------------------
(* Properties.                                                             *)

\* Every table holds rows of its declared shape.
TypeOK ==
  /\ harness_instances \in SUBSET Harness
  /\ source_object_mappings \in SUBSET FormalId
  /\ turn_nodes \in [NodeId -> Optional(TurnNode)]
  /\ explicit_reply_edges \in SUBSET Edge
  /\ agent_conversation_access \in SUBSET (Harness \X FormalId \X FormalId)
  /\ turn_fts \in SUBSET (NodeId \X Seq(Text))

\* Every formal id a stored turn carries.
IdsOf(node) ==
  ({node.conversation, node.thread} \cup MessagesOf(node)
   \cup MetaIds(node.harness, node.question.meta)
   \cup MetaIds(node.harness, node.answer.meta)) \ {NULL}

\* A message belongs to one side of one turn for ever: findTurnNodeByMessageId
\* takes the first row it meets, so a second owner would make every anchor,
\* every replay and every reply endpoint depend on row order.
MessageOwnership ==
  \A a, b \in Stored :
    /\ a # b => MessagesOf(turn_nodes[a]) \cap MessagesOf(turn_nodes[b]) = {}
    /\ turn_nodes[a].question.message # NULL =>
         turn_nodes[a].question.message # turn_nodes[a].answer.message

\* What turns and mappings say of each other: every id a turn carries has a
\* mapping, and a thread, message or author has a mapping only because a turn
\* carries it.  An accepted command never commits an identity it then dropped
\* (an anchor it only looked up, a thread it refused to fill).
MappingsInUse ==
  LET used == UNION {IdsOf(turn_nodes[n]) : n \in Stored} IN
  /\ used \subseteq source_object_mappings
  /\ \A id \in source_object_mappings :
       id[2] \in {"thread", "message", "author"} => id \in used

\* No row crosses a harness, though node ids are looked up without one: the
\* ids of a turn, the two ends of an edge and an access row all belong to the
\* registered harness the row names.
HarnessIsolation ==
  /\ \A n \in Stored : /\ turn_nodes[n].harness \in harness_instances
                       /\ \A id \in IdsOf(turn_nodes[n]) : id[1] = turn_nodes[n].harness
  /\ \A e \in explicit_reply_edges :
       {turn_nodes[e.from_node].harness, turn_nodes[e.to_node].harness} = {e.harness}
  /\ \A row \in agent_conversation_access :
       row[2][1] = row[1] /\ row[3][1] = row[1] /\ {row[2], row[3]} \subseteq source_object_mappings

SpokenIn(node, m) == \E side \in {node.question, node.answer} : side.message = m /\ side.text # NULL

\* An explicit reply edge keeps pointing from stored text to stored text of
\* another turn, and a pair of messages has at most one edge.
EdgeEndpoints ==
  \A e \in explicit_reply_edges :
    /\ {e.from_node, e.to_node} \subseteq Stored
    /\ e.from_node # e.to_node
    /\ SpokenIn(turn_nodes[e.from_node], e.from_message)
    /\ SpokenIn(turn_nodes[e.to_node], e.to_message)
    /\ \A f \in explicit_reply_edges :
         e.from_message = f.from_message /\ e.to_message = f.to_message => e = f

\* The full text index holds exactly one row per turn, and that row is the
\* turn's current text: no turn is missing from a search and none is found by
\* text it had before its answer arrived.
FtsMirrorsTurns == turn_fts = {<<n, SearchText(turn_nodes[n])>> : n \in Stored}

\* What was saved stays as it was saved: a turn keeps its harness,
\* conversation and question, an answer side or a thread is filled once, and
\* no mapping, edge or access row is ever lost.
Preserved(n) ==
  LET old == turn_nodes[n]
      new == turn_nodes'[n] IN
  /\ new # NULL
  /\ <<new.harness, new.conversation, new.question>> = <<old.harness, old.conversation, old.question>>
  /\ old.answer # NoSide => new.answer = old.answer
  /\ old.thread # NULL => new.thread = old.thread

WriteOnce ==
  [][/\ \A n \in Stored : Preserved(n)
     /\ source_object_mappings \subseteq source_object_mappings'
     /\ explicit_reply_edges \subseteq explicit_reply_edges'
     /\ agent_conversation_access \subseteq agent_conversation_access']_vars

=============================================================================
