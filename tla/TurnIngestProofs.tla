-------------------------- MODULE TurnIngestProofs --------------------------
(* Theorems about the ingest core, for every set of harnesses, source ids, *)
(* texts, metadata and node ids.                                           *)
EXTENDS TurnIngestLedger, TurnReplay, TLAPS

-----------------------------------------------------------------------------
(* What the requests contribute is well typed.                             *)

LEMMA FormalType ==
  ASSUME NEW h \in Harness, NEW kind \in Kind, NEW s \in Optional(Source)
  PROVE  /\ Formal(h, kind, s) \in Optional(FormalId)
         /\ s # NULL => Formal(h, kind, s) \in FormalId
  BY DEF Formal, Optional, FormalId

LEMMA MetaIdsType ==
  ASSUME NEW h \in Harness, NEW meta \in Optional(Meta)
  PROVE  MetaIds(h, meta) \subseteq Optional(FormalId)
<1>1. CASE meta = NULL
  BY <1>1 DEF MetaIds
<1>2. CASE meta # NULL
  <2>1. meta \in Meta
    BY <1>2 DEF Optional
  <2>2. AuthorOf[meta] \in Optional(Source) /\ AgentOf[meta] \in Optional(Source)
    BY <2>1, MetaAssumption DEF Optional, Source
  <2>3. /\ Formal(h, "author", AuthorOf[meta]) \in Optional(FormalId)
        /\ Formal(h, "agent", AgentOf[meta]) \in Optional(FormalId)
    BY <2>2, FormalType DEF Kind
  <2> QED
    BY <1>2, <2>3 DEF MetaIds
<1> QED
  BY <1>1, <1>2

LEMMA QuestionTypes ==
  ASSUME NEW r \in QuestionRequest
  PROVE  /\ r.harness \in Harness
         /\ Formal(r.harness, "conversation", r.conversation) \in FormalId
         /\ Formal(r.harness, "thread", r.thread) \in Optional(FormalId)
         /\ r.access # NULL => Formal(r.harness, "agent", r.access) \in FormalId
         /\ QuestionSide(r) \in Side
         /\ QuestionIds(r) \subseteq FormalId
<1>1. /\ r.harness \in Harness
      /\ r.conversation \in Source /\ r.conversation # NULL
      /\ r.thread \in Optional(Source) /\ r.message \in Optional(Source)
      /\ r.access \in Optional(Source)
      /\ r.text \in Optional(Text) /\ r.meta \in Optional(Meta)
  BY NullAssumption DEF QuestionRequest, Optional, Source, QuestionMeta
<1>2. /\ Formal(r.harness, "conversation", r.conversation) \in FormalId
      /\ Formal(r.harness, "thread", r.thread) \in Optional(FormalId)
      /\ Formal(r.harness, "message", r.message) \in Optional(FormalId)
      /\ Formal(r.harness, "agent", r.access) \in Optional(FormalId)
      /\ r.access # NULL => Formal(r.harness, "agent", r.access) \in FormalId
  BY <1>1, FormalType DEF Kind, Optional
<1>3. MetaIds(r.harness, r.meta) \subseteq Optional(FormalId)
  BY <1>1, MetaIdsType
<1>4. QuestionSide(r) \in Side
  BY <1>1, <1>2 DEF QuestionSide, Side
<1>5. QuestionIds(r) \subseteq FormalId
  BY <1>2, <1>3 DEF QuestionIds, Optional
<1> QED
  BY <1>1, <1>2, <1>4, <1>5

LEMMA AnswerTypes ==
  ASSUME NEW r \in AnswerRequest
  PROVE  /\ r.harness \in Harness
         /\ Formal(r.harness, "conversation", r.conversation) \in FormalId
         /\ Formal(r.harness, "thread", r.thread) \in Optional(FormalId)
         /\ r.access # NULL => Formal(r.harness, "agent", r.access) \in FormalId
         /\ AnswerSide(r) \in Side
         /\ AbsentQuestionSide(r) \in Side
         /\ AnswerIds(r) \subseteq FormalId
<1>1. /\ r.harness \in Harness
      /\ r.conversation \in Source /\ r.conversation # NULL
      /\ r.thread \in Optional(Source) /\ r.message \in Optional(Source)
      /\ r.access \in Optional(Source) /\ r.question \in Optional(Source)
      /\ r.text \in Optional(Text) /\ r.meta \in Optional(Meta)
      /\ r.questionMeta \in Optional(Meta)
  <2>1. CASE r \in AnchoredAnswerRequest
    BY <2>1, NullAssumption DEF AnchoredAnswerRequest, Optional, Source
  <2>2. CASE r \in AbsentAnswerRequest
    BY <2>2, NullAssumption DEF AbsentAnswerRequest, Optional, Source, QuestionMeta
  <2> QED
    BY <2>1, <2>2 DEF AnswerRequest
<1>2. /\ Formal(r.harness, "conversation", r.conversation) \in FormalId
      /\ Formal(r.harness, "thread", r.thread) \in Optional(FormalId)
      /\ Formal(r.harness, "message", r.message) \in Optional(FormalId)
      /\ Formal(r.harness, "message", r.question) \in Optional(FormalId)
      /\ Formal(r.harness, "agent", r.access) \in Optional(FormalId)
      /\ r.access # NULL => Formal(r.harness, "agent", r.access) \in FormalId
  BY <1>1, FormalType DEF Kind, Optional
<1>3. /\ MetaIds(r.harness, r.meta) \subseteq Optional(FormalId)
      /\ MetaIds(r.harness, r.questionMeta) \subseteq Optional(FormalId)
  BY <1>1, MetaIdsType
<1>4. AnswerSide(r) \in Side
  BY <1>1, <1>2 DEF AnswerSide, Side
<1>5. AbsentQuestionSide(r) \in Side
  BY <1>1, <1>2 DEF AbsentQuestionSide, Side, Optional
<1>6. AnswerIds(r) \subseteq FormalId
  BY <1>2, <1>3 DEF AnswerIds, Optional
<1> QED
  BY <1>1, <1>2, <1>4, <1>5, <1>6

-----------------------------------------------------------------------------
(* Every command leaves the turns and their index alone, inserts one turn, *)
(* or completes one.  The properties of turns are proved from this alone.  *)

CompleteTurnNode(n, node) ==
  LET old == turn_nodes[n] IN
  /\ old # NULL
  /\ MessagesFree(n, node)
  /\ <<node.harness, node.conversation, node.question>>
       = <<old.harness, old.conversation, old.question>>
  /\ old.answer = NoSide /\ node.answer # NoSide
  /\ old.thread # NULL => node.thread = old.thread
  /\ turn_nodes' = [turn_nodes EXCEPT ![n] = node]
  /\ turn_fts' = FtsAfterUpdate(n, node)

TurnsStep ==
  \/ UNCHANGED <<turn_nodes, turn_fts>>
  \/ \E n \in NodeId, node \in TurnNode : InsertTurnNode(n, node) \/ CompleteTurnNode(n, node)

LEMMA NoSideType == NoSide \in Side
  BY DEF NoSide, Side, Optional

LEMMA StoredType ==
  ASSUME TypeOK, NEW n \in Stored
  PROVE  n \in NodeId /\ turn_nodes[n] \in TurnNode
  BY DEF TypeOK, Stored, Optional

LEMMA TargetStored ==
  ASSUME NEW r \in AnswerRequest, AnchorsValid(r), NEW n \in Target(r)
  PROVE  n \in Stored
<1>1. NamedTurn(r) \subseteq Stored /\ ExistingAnswer(r) \subseteq Stored
  BY DEF NamedTurn, ExistingAnswer, Owner
<1>2. r.node # NULL => r.node \in Stored
  BY DEF AnchorsValid
<1> QED
  BY <1>1, <1>2 DEF Target

LEMMA AttachStep ==
  ASSUME TypeOK, NEW r \in AnswerRequest, NEW n \in NodeId, AttachAnswer(r, n)
  PROVE  TurnsStep
<1> DEFINE old == turn_nodes[n]
           node == Answered(old, r)
<1>1. AnchorsValid(r) /\ n \in Target(r)
  BY DEF AttachAnswer, TargetAccepts
<1>2. n \in Stored /\ old \in TurnNode /\ old # NULL
  BY <1>1, TargetStored, StoredType DEF Stored
<1>3. node \in TurnRow
  BY <1>2, AnswerTypes DEF Answered, TurnNode, TurnRow
<1>4. /\ <<node.harness, node.conversation, node.question>>
           = <<old.harness, old.conversation, old.question>>
      /\ node.answer = AnswerSide(r)
      /\ old.thread # NULL => node.thread = old.thread
  BY <1>2 DEF Answered, TurnNode, TurnRow
<1>5. old.answer = NoSide /\ AnswerSide(r) # NoSide
  BY DEF AttachAnswer, HasAnswerSide
<1>6. /\ MessagesFree(n, node)
      /\ turn_nodes' = [turn_nodes EXCEPT ![n] = node]
      /\ turn_fts' = FtsAfterUpdate(n, node)
  BY DEF AttachAnswer
<1>7. CompleteTurnNode(n, node)
  BY <1>2, <1>4, <1>5, <1>6 DEF CompleteTurnNode
<1>8. node \in TurnNode
  BY <1>2, <1>3, <1>4, <1>5 DEF TurnNode, HasText, NoSide
<1> QED
  BY <1>7, <1>8 DEF TurnsStep

LEMMA NewQuestionStep ==
  ASSUME NEW r \in QuestionRequest, NEW n \in NodeId, NewQuestion(r, n)
  PROVE  TurnsStep
<1> DEFINE node == [harness |-> r.harness,
                    conversation |-> Formal(r.harness, "conversation", r.conversation),
                    thread |-> Formal(r.harness, "thread", r.thread),
                    question |-> QuestionSide(r), answer |-> NoSide]
<1>1. node \in TurnRow
  BY QuestionTypes, NoSideType DEF TurnRow
<1>2. InsertTurnNode(n, node)
  BY DEF NewQuestion
<1>3. node \in TurnNode
  BY <1>1, <1>2 DEF TurnNode, InsertTurnNode
<1> QED
  BY <1>2, <1>3 DEF TurnsStep

LEMMA AnswerWithoutQuestionStep ==
  ASSUME NEW r \in AnswerRequest, NEW n \in NodeId, AnswerWithoutQuestion(r, n)
  PROVE  TurnsStep
<1> DEFINE node == [harness |-> r.harness,
                    conversation |-> Formal(r.harness, "conversation", r.conversation),
                    thread |-> Formal(r.harness, "thread", r.thread),
                    question |-> AbsentQuestionSide(r), answer |-> AnswerSide(r)]
<1>1. node \in TurnRow
  BY AnswerTypes DEF TurnRow
<1>2. InsertTurnNode(n, node)
  BY DEF AnswerWithoutQuestion
<1>3. node \in TurnNode
  BY <1>1, <1>2 DEF TurnNode, InsertTurnNode
<1> QED
  BY <1>2, <1>3 DEF TurnsStep

LEMMA StepOnTurns ==
  ASSUME TypeOK, [Next]_vars
  PROVE  TurnsStep
<1>1. ASSUME NEW r \in QuestionRequest, NEW n \in NodeId, RepeatQuestion(r, n)
      PROVE  TurnsStep
  BY <1>1 DEF RepeatQuestion, TurnsStep
<1>2. ASSUME NEW r \in AnswerRequest, NEW n \in NodeId, RepeatAnswer(r, n)
      PROVE  TurnsStep
  BY <1>2 DEF RepeatAnswer, TurnsStep
<1>3. ASSUME NEW h \in Harness, RegisterHarness(h)
      PROVE  TurnsStep
  BY <1>3 DEF RegisterHarness, TurnsStep
<1>4. ASSUME NEW r \in ReplyRequest, NEW from \in NodeId, NEW to \in NodeId,
             RecordReply(r, from, to)
      PROVE  TurnsStep
  BY <1>4 DEF RecordReply, TurnsStep
<1>5. ASSUME NEW r \in ToolRequest, ResolveToolIdentity(r)
      PROVE  TurnsStep
  BY <1>5 DEF ResolveToolIdentity, TurnsStep
<1>6. CASE UNCHANGED vars
  BY <1>6 DEF vars, TurnsStep
<1> QED
  BY <1>1, <1>2, <1>3, <1>4, <1>5, <1>6, NewQuestionStep, AnswerWithoutQuestionStep,
     AttachStep DEF Next

-----------------------------------------------------------------------------
(* Types.                                                                  *)

LEMMA SearchTextType ==
  ASSUME NEW node \in TurnNode
  PROVE  SearchText(node) \in Seq(Text)
<1>1. /\ node.question.text \in Optional(Text) /\ node.answer.text \in Optional(Text)
      /\ node.question.text # NULL \/ node.answer.text # NULL
  BY DEF TurnNode, TurnRow, Side, HasText
<1> QED
  BY <1>1 DEF SearchText, Optional

LEMMA TurnsStepType ==
  ASSUME TypeOK, TurnsStep
  PROVE  /\ turn_nodes' \in [NodeId -> Optional(TurnNode)]
         /\ turn_fts' \in SUBSET (NodeId \X Seq(Text))
<1>1. CASE UNCHANGED <<turn_nodes, turn_fts>>
  BY <1>1 DEF TypeOK
<1>2. ASSUME NEW n \in NodeId, NEW node \in TurnNode,
             InsertTurnNode(n, node) \/ CompleteTurnNode(n, node)
      PROVE  /\ turn_nodes' \in [NodeId -> Optional(TurnNode)]
             /\ turn_fts' \in SUBSET (NodeId \X Seq(Text))
  <2>1. turn_nodes' = [turn_nodes EXCEPT ![n] = node]
    BY <1>2 DEF InsertTurnNode, CompleteTurnNode
  <2>2. turn_fts' \subseteq turn_fts \cup {<<n, SearchText(node)>>}
    BY <1>2 DEF InsertTurnNode, CompleteTurnNode, FtsAfterUpdate
  <2> QED
    BY <2>1, <2>2, SearchTextType DEF TypeOK, Optional
<1> QED
  BY <1>1, <1>2 DEF TurnsStep

LEMMA IdentityStep ==
  ASSUME TypeOK, [Next]_vars
  PROVE  /\ harness_instances' \in SUBSET Harness
         /\ source_object_mappings' \in SUBSET FormalId
         /\ agent_conversation_access' \in SUBSET (Harness \X FormalId \X FormalId)
<1> USE DEF TypeOK, Persist, Grant
<1>1. ASSUME NEW r \in QuestionRequest, NEW n \in NodeId,
             RepeatQuestion(r, n) \/ NewQuestion(r, n)
      PROVE  /\ harness_instances' \in SUBSET Harness
             /\ source_object_mappings' \in SUBSET FormalId
             /\ agent_conversation_access' \in SUBSET (Harness \X FormalId \X FormalId)
  BY <1>1, QuestionTypes DEF RepeatQuestion, NewQuestion
<1>2. ASSUME NEW r \in AnswerRequest, NEW n \in NodeId,
             AnswerWithoutQuestion(r, n) \/ RepeatAnswer(r, n) \/ AttachAnswer(r, n)
      PROVE  /\ harness_instances' \in SUBSET Harness
             /\ source_object_mappings' \in SUBSET FormalId
             /\ agent_conversation_access' \in SUBSET (Harness \X FormalId \X FormalId)
  BY <1>2, AnswerTypes DEF AnswerWithoutQuestion, RepeatAnswer, AttachAnswer
<1>3. ASSUME NEW h \in Harness, RegisterHarness(h)
      PROVE  /\ harness_instances' \in SUBSET Harness
             /\ source_object_mappings' \in SUBSET FormalId
             /\ agent_conversation_access' \in SUBSET (Harness \X FormalId \X FormalId)
  BY <1>3 DEF RegisterHarness
<1>4. ASSUME NEW r \in ReplyRequest, NEW from \in NodeId, NEW to \in NodeId,
             RecordReply(r, from, to)
      PROVE  /\ harness_instances' \in SUBSET Harness
             /\ source_object_mappings' \in SUBSET FormalId
             /\ agent_conversation_access' \in SUBSET (Harness \X FormalId \X FormalId)
  BY <1>4 DEF RecordReply
<1>5. ASSUME NEW r \in ToolRequest, ResolveToolIdentity(r)
      PROVE  /\ harness_instances' \in SUBSET Harness
             /\ source_object_mappings' \in SUBSET FormalId
             /\ agent_conversation_access' \in SUBSET (Harness \X FormalId \X FormalId)
  <2>1. /\ r.harness \in Harness
        /\ r.conversation \in Source /\ r.conversation # NULL
        /\ r.access \in Optional(Source)
    BY NullAssumption DEF ToolRequest, Optional, Source
  <2>2. /\ Formal(r.harness, "conversation", r.conversation) \in FormalId
        /\ Formal(r.harness, "agent", r.access) \in Optional(FormalId)
        /\ r.access # NULL => Formal(r.harness, "agent", r.access) \in FormalId
    BY <2>1, FormalType DEF Kind, Optional
  <2> QED
    BY <1>5, <2>1, <2>2 DEF ResolveToolIdentity, Optional
<1>6. CASE UNCHANGED vars
  BY <1>6 DEF vars
<1> QED
  BY <1>1, <1>2, <1>3, <1>4, <1>5, <1>6 DEF Next

\* Only record_reply adds an edge, between stored turns that speak the messages.
EdgesStep ==
  \/ UNCHANGED explicit_reply_edges
  \/ \E r \in ReplyRequest, from, to \in NodeId : RecordReply(r, from, to)

LEMMA StepOnEdges ==
  ASSUME [Next]_vars
  PROVE  EdgesStep
  BY DEF Next, vars, EdgesStep, RepeatQuestion, NewQuestion, AnswerWithoutQuestion,
         RepeatAnswer, AttachAnswer, RegisterHarness, ResolveToolIdentity

LEMMA EdgesType ==
  ASSUME TypeOK, EdgesStep
  PROVE  explicit_reply_edges' \in SUBSET Edge
<1>1. CASE UNCHANGED explicit_reply_edges
  BY <1>1 DEF TypeOK
<1>2. ASSUME NEW r \in ReplyRequest, NEW from \in NodeId, NEW to \in NodeId,
             RecordReply(r, from, to)
      PROVE  explicit_reply_edges' \in SUBSET Edge
  <2>1. r.harness \in Harness /\ r.from \in Source /\ r.to \in Source
    BY DEF ReplyRequest, Source
  <2>2. /\ Formal(r.harness, "message", r.from) \in FormalId
        /\ Formal(r.harness, "message", r.to) \in FormalId
    BY <2>1, NullAssumption, FormalType DEF Kind, Optional
  <2> QED
    BY <1>2, <2>1, <2>2 DEF RecordReply, Edge, TypeOK
<1> QED
  BY <1>1, <1>2 DEF EdgesStep

\* Every reachable state has well typed tables: a row only ever carries formal
\* ids of the harness's objects, and every turn has a saved text.
THEOREM TypeCorrect == Spec => []TypeOK
<1>1. Init => TypeOK
  BY DEF Init, TypeOK, Optional
<1>2. TypeOK /\ [Next]_vars => TypeOK'
  <2> SUFFICES ASSUME TypeOK, [Next]_vars
               PROVE  TypeOK'
    OBVIOUS
  <2>1. TurnsStep /\ EdgesStep
    BY StepOnTurns, StepOnEdges
  <2> QED
    BY <2>1, TurnsStepType, IdentityStep, EdgesType DEF TypeOK
<1> QED
  BY <1>1, <1>2, PTL DEF Spec

-----------------------------------------------------------------------------
(* Safety.  IInv is inductive: the ownership of messages, the index and    *)
(* the edges are each preserved by the shape of a step on turns, and the   *)
(* edges need that a side with text is never touched again.                *)

LEMMA StoredAfterPut ==
  ASSUME TypeOK, NEW n \in NodeId, NEW node \in TurnNode,
         turn_nodes' = [turn_nodes EXCEPT ![n] = node]
  PROVE  /\ Stored' = Stored \cup {n}
         /\ turn_nodes'[n] = node
         /\ \A other \in Stored \ {n} : turn_nodes'[other] = turn_nodes[other]
  BY NullAssumption DEF TypeOK, Stored

LEMMA OwnershipStep ==
  ASSUME TypeOK, MessageOwnership, TurnsStep
  PROVE  MessageOwnership'
<1>1. CASE UNCHANGED <<turn_nodes, turn_fts>>
  BY <1>1 DEF MessageOwnership, Stored
<1>2. ASSUME NEW n \in NodeId, NEW node \in TurnNode,
             InsertTurnNode(n, node) \/ CompleteTurnNode(n, node)
      PROVE  MessageOwnership'
  <2>1. turn_nodes' = [turn_nodes EXCEPT ![n] = node] /\ MessagesFree(n, node)
    BY <1>2 DEF InsertTurnNode, CompleteTurnNode
  <2>2. /\ Stored' = Stored \cup {n}
        /\ turn_nodes'[n] = node
        /\ \A other \in Stored \ {n} : turn_nodes'[other] = turn_nodes[other]
    BY <2>1, StoredAfterPut
  <2>3. /\ \A other \in Stored \ {n} : MessagesOf(turn_nodes[other]) \cap MessagesOf(node) = {}
        /\ node.question.message = NULL \/ node.question.message # node.answer.message
    BY <2>1 DEF MessagesFree
  <2>4. ASSUME NEW a \in Stored', NEW b \in Stored', a # b
        PROVE  MessagesOf(turn_nodes'[a]) \cap MessagesOf(turn_nodes'[b]) = {}
    <3>1. CASE a = n
      BY <3>1, <2>2, <2>3, <2>4
    <3>2. CASE b = n
      BY <3>2, <2>2, <2>3, <2>4
    <3>3. CASE a # n /\ b # n
      BY <3>3, <2>2, <2>4 DEF MessageOwnership
    <3> QED
      BY <3>1, <3>2, <3>3
  <2>5. ASSUME NEW a \in Stored', turn_nodes'[a].question.message # NULL
        PROVE  turn_nodes'[a].question.message # turn_nodes'[a].answer.message
    BY <2>2, <2>3, <2>5 DEF MessageOwnership
  <2> QED
    BY <2>4, <2>5 DEF MessageOwnership
<1> QED
  BY <1>1, <1>2 DEF TurnsStep

LEMMA FtsStep ==
  ASSUME TypeOK, FtsMirrorsTurns, TurnsStep
  PROVE  FtsMirrorsTurns'
<1>1. CASE UNCHANGED <<turn_nodes, turn_fts>>
  BY <1>1 DEF FtsMirrorsTurns, Stored
<1>2. ASSUME NEW n \in NodeId, NEW node \in TurnNode, InsertTurnNode(n, node)
      PROVE  FtsMirrorsTurns'
  <2>1. /\ turn_nodes' = [turn_nodes EXCEPT ![n] = node]
        /\ turn_fts' = turn_fts \cup {<<n, SearchText(node)>>}
        /\ n \notin Stored
    BY <1>2 DEF InsertTurnNode, Stored
  <2>2. /\ Stored' = Stored \cup {n}
        /\ turn_nodes'[n] = node
        /\ \A other \in Stored \ {n} : turn_nodes'[other] = turn_nodes[other]
    BY <2>1, StoredAfterPut
  <2>3. {<<k, SearchText(turn_nodes'[k])>> : k \in Stored'}
          = {<<k, SearchText(turn_nodes[k])>> : k \in Stored} \cup {<<n, SearchText(node)>>}
    BY <2>1, <2>2
  <2> QED
    BY <2>1, <2>3 DEF FtsMirrorsTurns
<1>3. ASSUME NEW n \in NodeId, NEW node \in TurnNode, CompleteTurnNode(n, node)
      PROVE  FtsMirrorsTurns'
  <2>1. /\ turn_nodes' = [turn_nodes EXCEPT ![n] = node]
        /\ turn_fts' = FtsAfterUpdate(n, node)
        /\ n \in Stored
        /\ node.question = turn_nodes[n].question
    BY <1>3 DEF CompleteTurnNode, Stored
  <2>2. /\ Stored' = Stored
        /\ turn_nodes'[n] = node
        /\ \A other \in Stored \ {n} : turn_nodes'[other] = turn_nodes[other]
    <3>1. Stored' = Stored \cup {n}
      BY <2>1, StoredAfterPut
    <3>2. /\ turn_nodes'[n] = node
          /\ \A other \in Stored \ {n} : turn_nodes'[other] = turn_nodes[other]
      BY <2>1, StoredAfterPut
    <3> QED
      BY <2>1, <3>1, <3>2
  <2>3. CASE node.answer.text = turn_nodes[n].answer.text
    <3>1. SearchText(node) = SearchText(turn_nodes[n])
      BY <2>1, <2>3 DEF SearchText
    <3>2. \A k \in Stored : SearchText(turn_nodes'[k]) = SearchText(turn_nodes[k])
      BY <3>1, <2>2
    <3>3. turn_fts' = turn_fts
      BY <2>1, <2>3 DEF FtsAfterUpdate
    <3> QED
      BY <3>2, <3>3, <2>2 DEF FtsMirrorsTurns
  <2>4. CASE node.answer.text # turn_nodes[n].answer.text
    <3>1. turn_fts' = {row \in turn_fts : row[1] # n} \cup {<<n, SearchText(node)>>}
      BY <2>1, <2>4 DEF FtsAfterUpdate
    <3>2. {row \in turn_fts : row[1] # n}
            = {<<k, SearchText(turn_nodes[k])>> : k \in Stored \ {n}}
      BY DEF FtsMirrorsTurns
    <3>3. {<<k, SearchText(turn_nodes'[k])>> : k \in Stored'}
            = {<<k, SearchText(turn_nodes[k])>> : k \in Stored \ {n}} \cup {<<n, SearchText(node)>>}
      BY <2>1, <2>2
    <3> QED
      BY <3>1, <3>2, <3>3 DEF FtsMirrorsTurns
  <2> QED
    BY <2>3, <2>4
<1> QED
  BY <1>1, <1>2, <1>3 DEF TurnsStep

\* A stored turn keeps its identity and question, its answer side and thread
\* once filled, whatever the step does to turns.
LEMMA PreservedStep ==
  ASSUME TypeOK, TurnsStep, NEW k \in Stored
  PROVE  Preserved(k)
<1>1. CASE UNCHANGED <<turn_nodes, turn_fts>>
  BY <1>1 DEF Preserved, Stored
<1>2. ASSUME NEW n \in NodeId, NEW node \in TurnNode, InsertTurnNode(n, node)
      PROVE  Preserved(k)
  <2>1. n # k /\ turn_nodes' = [turn_nodes EXCEPT ![n] = node]
    BY <1>2 DEF InsertTurnNode, Stored
  <2>2. turn_nodes'[k] = turn_nodes[k] /\ turn_nodes[k] # NULL
    BY <2>1 DEF TypeOK, Stored
  <2> QED
    BY <2>2 DEF Preserved
<1>3. ASSUME NEW n \in NodeId, NEW node \in TurnNode, CompleteTurnNode(n, node)
      PROVE  Preserved(k)
  <2>1. turn_nodes' = [turn_nodes EXCEPT ![n] = node]
    BY <1>3 DEF CompleteTurnNode
  <2>2. CASE k = n
    BY <1>3, <2>1, <2>2, StoredAfterPut, NullAssumption DEF CompleteTurnNode, Preserved
  <2>3. CASE k # n
    BY <2>1, <2>3 DEF TypeOK, Stored, Preserved
  <2> QED
    BY <2>2, <2>3
<1> QED
  BY <1>1, <1>2, <1>3 DEF TurnsStep

LEMMA SpokenForever ==
  ASSUME TypeOK, TurnsStep, NEW k \in Stored, NEW m, SpokenIn(turn_nodes[k], m)
  PROVE  k \in Stored' /\ SpokenIn(turn_nodes'[k], m)
<1>1. Preserved(k)
  BY PreservedStep
<1>2. /\ turn_nodes'[k] # NULL
      /\ turn_nodes'[k].question = turn_nodes[k].question
      /\ turn_nodes[k].answer # NoSide => turn_nodes'[k].answer = turn_nodes[k].answer
  BY <1>1 DEF Preserved
<1>3. PICK side \in {turn_nodes[k].question, turn_nodes[k].answer} :
        side.message = m /\ side.text # NULL
  BY DEF SpokenIn
<1>4. side # NoSide
  BY <1>3 DEF NoSide
<1>5. side \in {turn_nodes'[k].question, turn_nodes'[k].answer}
  BY <1>2, <1>3, <1>4
<1> QED
  BY <1>2, <1>3, <1>5 DEF SpokenIn, Stored

LEMMA EdgeEndpointsStep ==
  ASSUME TypeOK, EdgeEndpoints, TurnsStep, EdgesStep
  PROVE  EdgeEndpoints'
<1>1. ASSUME NEW e \in explicit_reply_edges
      PROVE  /\ {e.from_node, e.to_node} \subseteq Stored'
             /\ e.from_node # e.to_node
             /\ SpokenIn(turn_nodes'[e.from_node], e.from_message)
             /\ SpokenIn(turn_nodes'[e.to_node], e.to_message)
  BY SpokenForever DEF EdgeEndpoints
<1>2. CASE UNCHANGED explicit_reply_edges
  BY <1>1, <1>2 DEF EdgeEndpoints
<1>3. ASSUME NEW r \in ReplyRequest, NEW from \in NodeId, NEW to \in NodeId,
             RecordReply(r, from, to)
      PROVE  EdgeEndpoints'
  <2> DEFINE fromId == Formal(r.harness, "message", r.from)
             toId == Formal(r.harness, "message", r.to)
             new == [harness |-> r.harness, from_node |-> from, from_message |-> fromId,
                     to_node |-> to, to_message |-> toId]
  <2>1. /\ from \in Stored /\ ContainsStoredText(turn_nodes[from], fromId)
        /\ to \in Stored /\ ContainsStoredText(turn_nodes[to], toId)
        /\ from # to
        /\ \A e \in explicit_reply_edges : e.from_message # fromId \/ e.to_message # toId
        /\ explicit_reply_edges' = explicit_reply_edges \cup {new}
    BY <1>3 DEF RecordReply, Owner
  <2>2. SpokenIn(turn_nodes[from], fromId) /\ SpokenIn(turn_nodes[to], toId)
    BY <2>1 DEF ContainsStoredText, SpokenIn
  <2>3. /\ {from, to} \subseteq Stored'
        /\ SpokenIn(turn_nodes'[from], fromId) /\ SpokenIn(turn_nodes'[to], toId)
    BY <2>1, <2>2, SpokenForever
  <2>4. ASSUME NEW e \in explicit_reply_edges', NEW f \in explicit_reply_edges',
               e.from_message = f.from_message, e.to_message = f.to_message
        PROVE  e = f
    BY <2>1, <2>4 DEF EdgeEndpoints
  <2> QED
    BY <1>1, <2>1, <2>3, <2>4 DEF EdgeEndpoints
<1> QED
  BY <1>2, <1>3 DEF EdgesStep

IInv == TypeOK /\ MessageOwnership /\ FtsMirrorsTurns /\ EdgeEndpoints

\* Turns, messages, index and edges agree after every command.
THEOREM InductiveInvariant == Spec => []IInv
<1>1. Init => IInv
  BY DEF Init, IInv, TypeOK, Optional, MessageOwnership, FtsMirrorsTurns, EdgeEndpoints, Stored
<1>2. TypeOK /\ IInv /\ [Next]_vars => IInv'
  <2> SUFFICES ASSUME TypeOK, IInv, [Next]_vars, TypeOK'
               PROVE  IInv'
    <3>1. TypeOK /\ [Next]_vars => TypeOK'
      BY StepOnTurns, StepOnEdges, TurnsStepType, IdentityStep, EdgesType DEF TypeOK
    <3> QED
      BY <3>1 DEF IInv
  <2>1. TurnsStep /\ EdgesStep
    BY StepOnTurns, StepOnEdges
  <2> QED
    BY <2>1, OwnershipStep, FtsStep, EdgeEndpointsStep DEF IInv
<1> QED
  BY <1>1, <1>2, TypeCorrect, PTL DEF Spec

\* A source message is the question or the answer of at most one turn.
THEOREM MessagesOwnedOnce == Spec => []MessageOwnership
<1>1. IInv => MessageOwnership
  BY DEF IInv
<1> QED
  BY <1>1, InductiveInvariant, PTL

\* The full text index always holds exactly the current text of every turn.
THEOREM IndexIsCurrent == Spec => []FtsMirrorsTurns
<1>1. IInv => FtsMirrorsTurns
  BY DEF IInv
<1> QED
  BY <1>1, InductiveInvariant, PTL

\* Reply edges join stored texts of two different turns, one edge per pair.
THEOREM EdgesAreGrounded == Spec => []EdgeEndpoints
<1>1. IInv => EdgeEndpoints
  BY DEF IInv
<1> QED
  BY <1>1, InductiveInvariant, PTL

\* Nothing that was saved is ever changed or lost.
THEOREM SavedForever == Spec => WriteOnce
<1>1. TypeOK /\ [Next]_vars =>
        [/\ \A n \in Stored : Preserved(n)
         /\ source_object_mappings \subseteq source_object_mappings'
         /\ explicit_reply_edges \subseteq explicit_reply_edges'
         /\ agent_conversation_access \subseteq agent_conversation_access']_vars
  <2> SUFFICES ASSUME TypeOK, Next
               PROVE  /\ \A n \in Stored : Preserved(n)
                      /\ source_object_mappings \subseteq source_object_mappings'
                      /\ explicit_reply_edges \subseteq explicit_reply_edges'
                      /\ agent_conversation_access \subseteq agent_conversation_access'
    OBVIOUS
  <2>1. \A n \in Stored : Preserved(n)
    BY StepOnTurns, PreservedStep
  <2>2. /\ source_object_mappings \subseteq source_object_mappings'
        /\ explicit_reply_edges \subseteq explicit_reply_edges'
        /\ agent_conversation_access \subseteq agent_conversation_access'
    BY DEF Next, Persist, Grant, RepeatQuestion, NewQuestion, AnswerWithoutQuestion,
           RepeatAnswer, AttachAnswer, RecordReply, RegisterHarness, ResolveToolIdentity
  <2> QED
    BY <2>1, <2>2
<1> QED
  BY <1>1, TypeCorrect, PTL DEF Spec, WriteOnce
-----------------------------------------------------------------------------
(* Identities.  Every command that resolves source ids commits ids of one  *)
(* harness, and each of them is carried by a turn or is a conversation or  *)
(* an agent.                                                               *)

OfTurn == {"thread", "message", "author"}

LEMMA FormalShape ==
  ASSUME NEW h, NEW kind, NEW s, Formal(h, kind, s) # NULL
  PROVE  Formal(h, kind, s)[1] = h /\ Formal(h, kind, s)[2] = kind
  BY DEF Formal

LEMMA MetaShape ==
  ASSUME NEW h, NEW meta, NEW id \in MetaIds(h, meta) \ {NULL}
  PROVE  id[1] = h
<1>1. id \in {Formal(h, "author", AuthorOf[meta]), Formal(h, "agent", AgentOf[meta])} /\ id # NULL
  BY DEF MetaIds
<1> QED
  BY <1>1, FormalShape

\* What a command with the ids it resolved does to mappings, access and turns.
IdentityEffect(h, ids) ==
  /\ h \in harness_instances /\ UNCHANGED harness_instances
  /\ \A id \in ids : id # NULL /\ id[1] = h
  /\ Persist(ids)
  /\ \A row \in agent_conversation_access' \ agent_conversation_access :
       row[1] = h /\ row[2] \in ids /\ row[3] \in ids
  /\ \A n \in Stored' :
       \/ n \in Stored /\ turn_nodes'[n] = turn_nodes[n]
       \/ /\ turn_nodes'[n].harness = h
          /\ IdsOf(turn_nodes'[n]) \subseteq
               ids \cup (IF n \in Stored THEN IdsOf(turn_nodes[n]) ELSE {})
  /\ \A id \in ids : id[2] \in OfTurn => \E n \in Stored' : id \in IdsOf(turn_nodes'[n])

LEMMA GrantEffect ==
  ASSUME NEW r, Grant(r), NEW ids, Formal(r.harness, "conversation", r.conversation) \in ids,
         r.access # NULL => Formal(r.harness, "agent", r.access) \in ids
  PROVE  \A row \in agent_conversation_access' \ agent_conversation_access :
           row[1] = r.harness /\ row[2] \in ids /\ row[3] \in ids
  BY DEF Grant

LEMMA QuestionEffect ==
  ASSUME TypeOK, NEW r \in QuestionRequest, NEW n \in NodeId, RepeatQuestion(r, n) \/ NewQuestion(r, n)
  PROVE  IdentityEffect(r.harness, QuestionIds(r))
<1> DEFINE h == r.harness
           ids == QuestionIds(r)
           node == turn_nodes'[n]
<1>1. h \in harness_instances /\ UNCHANGED harness_instances /\ Persist(ids) /\ Grant(r)
  BY DEF RepeatQuestion, NewQuestion
<1>2. \A id \in ids : id # NULL /\ id[1] = h
  BY FormalShape, MetaShape DEF QuestionIds
<1>3. /\ Formal(h, "conversation", r.conversation) \in ids
      /\ r.access # NULL => Formal(h, "agent", r.access) \in ids
  BY QuestionTypes, NullAssumption DEF QuestionIds
<1>4. /\ n \in Stored' /\ node.harness = h
      /\ node.conversation = Formal(h, "conversation", r.conversation)
      /\ node.thread = Formal(h, "thread", r.thread) /\ node.question = QuestionSide(r)
      /\ n \in Stored => turn_nodes'[n] = turn_nodes[n]
      /\ n \notin Stored => node.answer = NoSide
      /\ \A k \in Stored' \ {n} : k \in Stored /\ turn_nodes'[k] = turn_nodes[k]
  <2>1. CASE RepeatQuestion(r, n)
    BY <2>1 DEF RepeatQuestion, QuestionOwner, Owner, QuestionMatches, Stored
  <2>2. CASE NewQuestion(r, n)
    <3> DEFINE new == [harness |-> h,
                       conversation |-> Formal(h, "conversation", r.conversation),
                       thread |-> Formal(h, "thread", r.thread),
                       question |-> QuestionSide(r), answer |-> NoSide]
    <3>1. InsertTurnNode(n, new)
      BY <2>2 DEF NewQuestion
    <3>2. new \in TurnNode
      BY <3>1, QuestionTypes, NoSideType DEF TurnNode, TurnRow, InsertTurnNode
    <3>3. n \notin Stored /\ turn_nodes' = [turn_nodes EXCEPT ![n] = new]
      BY <3>1 DEF InsertTurnNode, Stored
    <3> HIDE DEF new
    <3>4. /\ Stored' = Stored \cup {n} /\ turn_nodes'[n] = new
          /\ \A k \in Stored \ {n} : turn_nodes'[k] = turn_nodes[k]
      BY <3>2, <3>3, StoredAfterPut
    <3> QED
      BY <3>3, <3>4 DEF new
  <2> QED
    BY <2>1, <2>2
<1>5. \A id \in ids : id[2] \in OfTurn => id \in IdsOf(node)
  <2>1. ASSUME NEW id \in ids, id[2] \in OfTurn
        PROVE  id # Formal(h, "agent", r.access)
    BY <1>2, <2>1, FormalShape DEF OfTurn
  <2> QED
    BY <1>4, <2>1 DEF QuestionIds, IdsOf, MessagesOf, QuestionSide
<1>6. n \notin Stored => IdsOf(node) \subseteq ids
  BY <1>4 DEF QuestionIds, IdsOf, MessagesOf, MetaIds, QuestionSide, NoSide
<1> QED
  BY <1>1, <1>2, <1>3, <1>4, <1>5, <1>6, GrantEffect DEF IdentityEffect

LEMMA AnswerEffect ==
  ASSUME TypeOK, NEW r \in AnswerRequest, NEW n \in NodeId,
         AnswerWithoutQuestion(r, n) \/ RepeatAnswer(r, n) \/ AttachAnswer(r, n)
  PROVE  IdentityEffect(r.harness, AnswerIds(r))
<1> DEFINE h == r.harness
           ids == AnswerIds(r)
           node == turn_nodes'[n]
<1>1. h \in harness_instances /\ UNCHANGED harness_instances /\ Persist(ids) /\ Grant(r)
  BY DEF AnswerWithoutQuestion, RepeatAnswer, AttachAnswer
<1>2. \A id \in ids : id # NULL /\ id[1] = h
  BY FormalShape, MetaShape DEF AnswerIds
<1>3. /\ Formal(h, "conversation", r.conversation) \in ids
      /\ r.access # NULL => Formal(h, "agent", r.access) \in ids
  BY AnswerTypes, NullAssumption DEF AnswerIds
<1>4. /\ n \in Stored' /\ node.harness = h
      /\ node.conversation = Formal(h, "conversation", r.conversation)
      /\ r.thread = NULL \/ node.thread = Formal(h, "thread", r.thread)
      /\ node.answer = AnswerSide(r)
      /\ r.absent => node.question = AbsentQuestionSide(r)
      /\ n \in Stored => /\ node.question = turn_nodes[n].question
                         /\ turn_nodes[n].harness = h
                         /\ node.thread \in {turn_nodes[n].thread, Formal(h, "thread", r.thread)}
      /\ n \notin Stored => r.absent /\ node.thread = Formal(h, "thread", r.thread)
      /\ \A k \in Stored' \ {n} : k \in Stored /\ turn_nodes'[k] = turn_nodes[k]
  <2>1. CASE RepeatAnswer(r, n)
    <3>1. n \in Stored
      BY <2>1, TargetStored DEF RepeatAnswer, TargetAccepts
    <3> QED
      BY <2>1, <3>1 DEF RepeatAnswer, TargetAccepts, InBoundary, AnswerMatches, Stored
  <2>2. CASE AnswerWithoutQuestion(r, n)
    <3> DEFINE new == [harness |-> h,
                       conversation |-> Formal(h, "conversation", r.conversation),
                       thread |-> Formal(h, "thread", r.thread),
                       question |-> AbsentQuestionSide(r), answer |-> AnswerSide(r)]
    <3>1. InsertTurnNode(n, new) /\ r.absent
      BY <2>2 DEF AnswerWithoutQuestion
    <3>2. new \in TurnNode
      BY <3>1, AnswerTypes DEF TurnNode, TurnRow, InsertTurnNode
    <3>3. n \notin Stored /\ turn_nodes' = [turn_nodes EXCEPT ![n] = new]
      BY <3>1 DEF InsertTurnNode, Stored
    <3> HIDE DEF new
    <3>4. /\ Stored' = Stored \cup {n} /\ turn_nodes'[n] = new
          /\ \A k \in Stored \ {n} : turn_nodes'[k] = turn_nodes[k]
      BY <3>2, <3>3, StoredAfterPut
    <3> QED
      BY <3>1, <3>3, <3>4 DEF new
  <2>3. CASE AttachAnswer(r, n)
    <3> DEFINE old == turn_nodes[n]
               new == Answered(old, r)
    <3>1. n \in Stored /\ old \in TurnNode
      BY <2>3, TargetStored, StoredType DEF AttachAnswer, TargetAccepts
    <3>2. /\ turn_nodes' = [turn_nodes EXCEPT ![n] = new]
          /\ InBoundary(old, r) /\ (r.absent => old.question = AbsentQuestionSide(r))
      BY <2>3 DEF AttachAnswer, TargetAccepts
    <3>3. /\ new.harness = old.harness /\ new.conversation = old.conversation
          /\ new.question = old.question /\ new.answer = AnswerSide(r)
          /\ new.thread = IF old.thread = NULL THEN Formal(h, "thread", r.thread) ELSE old.thread
      BY <3>1 DEF Answered, TurnNode, TurnRow
    <3>5. turn_nodes'[n] # NULL
      BY <2>3, <3>1, AttachStep, PreservedStep DEF Preserved
    <3> HIDE DEF new
    <3>4. /\ turn_nodes'[n] = new /\ Stored' = Stored
          /\ \A k \in NodeId \ {n} : turn_nodes'[k] = turn_nodes[k]
      BY <3>1, <3>2, <3>5 DEF TypeOK, Stored
    <3> QED
      BY <3>1, <3>2, <3>3, <3>4 DEF InBoundary, Stored
  <2> QED
    BY <2>1, <2>2, <2>3
<1>5. \A id \in ids : id[2] \in OfTurn => id \in IdsOf(node)
  <2>1. ASSUME NEW id \in ids, id[2] \in OfTurn
        PROVE  id # Formal(h, "agent", r.access)
    BY <1>2, <2>1, FormalShape DEF OfTurn
  <2>2. ~r.absent => MetaIds(h, r.questionMeta) = {}
    BY DEF AnswerRequest, AnchoredAnswerRequest, AbsentAnswerRequest, MetaIds
  <2>3. r.thread = NULL => Formal(h, "thread", r.thread) = NULL
    BY DEF Formal
  <2> QED
    BY <1>4, <2>1, <2>2, <2>3 DEF AnswerIds, IdsOf, MessagesOf, AnswerSide, AbsentQuestionSide
<1>6. IdsOf(node) \subseteq ids \cup (IF n \in Stored THEN IdsOf(turn_nodes[n]) ELSE {})
  <2>1. CASE n \in Stored
    BY <1>4, <2>1 DEF AnswerIds, IdsOf, MessagesOf, AnswerSide
  <2>2. CASE n \notin Stored
    BY <1>4, <2>2 DEF AnswerIds, IdsOf, MessagesOf, AnswerSide, AbsentQuestionSide
  <2> QED
    BY <2>1, <2>2
<1> QED
  BY <1>1, <1>2, <1>3, <1>4, <1>5, <1>6, GrantEffect DEF IdentityEffect

LEMMA ToolEffect ==
  ASSUME NEW r \in ToolRequest, ResolveToolIdentity(r)
  PROVE  IdentityEffect(r.harness, {Formal(r.harness, "conversation", r.conversation),
                                    Formal(r.harness, "agent", r.access)} \ {NULL})
<1> DEFINE ids == {Formal(r.harness, "conversation", r.conversation),
                   Formal(r.harness, "agent", r.access)} \ {NULL}
<1>1. \A id \in ids : id # NULL /\ id[1] = r.harness /\ id[2] \notin OfTurn
  BY FormalShape DEF OfTurn
<1>2. /\ Formal(r.harness, "conversation", r.conversation) # NULL
      /\ r.access # NULL => Formal(r.harness, "agent", r.access) # NULL
  <2>1. /\ r.harness \in Harness
        /\ r.conversation \in Source /\ r.conversation # NULL
        /\ r.access \in Optional(Source)
    BY NullAssumption DEF ToolRequest, Optional, Source
  <2> QED
    BY <2>1, FormalType, NullAssumption DEF Kind, Optional
<1>3. \A n \in Stored' : n \in Stored /\ turn_nodes'[n] = turn_nodes[n]
  BY DEF ResolveToolIdentity, Stored
<1>4. r.harness \in harness_instances /\ UNCHANGED harness_instances /\ Persist(ids) /\ Grant(r)
  BY DEF ResolveToolIdentity
<1> HIDE DEF ids
<1>5. \A row \in agent_conversation_access' \ agent_conversation_access :
        row[1] = r.harness /\ row[2] \in ids /\ row[3] \in ids
  BY <1>2, <1>4, GrantEffect DEF ids
<1> QED
  BY <1>1, <1>3, <1>4, <1>5 DEF IdentityEffect, ids

\* No turn ever loses an id it carried.
LEMMA IdsKept ==
  ASSUME TypeOK, TurnsStep, NEW n \in Stored
  PROVE  /\ n \in Stored' /\ IdsOf(turn_nodes[n]) \subseteq IdsOf(turn_nodes'[n])
         /\ turn_nodes'[n].harness = turn_nodes[n].harness
<1> DEFINE old == turn_nodes[n]
           new == turn_nodes'[n]
<1>1. /\ new # NULL /\ new.harness = old.harness /\ new.conversation = old.conversation
      /\ new.question = old.question
      /\ old.answer # NoSide => new.answer = old.answer
      /\ old.thread # NULL => new.thread = old.thread
  BY PreservedStep DEF Preserved
<1>2. old.answer = NoSide => old.answer.message = NULL /\ MetaIds(old.harness, old.answer.meta) = {}
  BY DEF NoSide, MetaIds
<1>3. n \in Stored'
  BY <1>1 DEF Stored
<1>4. IdsOf(old) \subseteq IdsOf(new)
  BY <1>1, <1>2 DEF IdsOf, MessagesOf
<1> QED
  BY <1>1, <1>3, <1>4

\* The step lemmas of both invariants: what a command commits, a turn carries.
LEMMA MappingsStep ==
  ASSUME TypeOK, MappingsInUse, TurnsStep, NEW h, NEW ids, IdentityEffect(h, ids)
  PROVE  MappingsInUse'
<1>1. source_object_mappings' = source_object_mappings \cup ids /\ \A id \in ids : id # NULL
  BY DEF IdentityEffect, Persist
<1>2. \A n \in Stored' : IdsOf(turn_nodes'[n]) \subseteq source_object_mappings'
  BY <1>1 DEF IdentityEffect, MappingsInUse
<1>3. ASSUME NEW id \in source_object_mappings', id[2] \in OfTurn
      PROVE  \E n \in Stored' : id \in IdsOf(turn_nodes'[n])
  <2>1. CASE id \in ids
    BY <1>3, <2>1 DEF IdentityEffect
  <2>2. CASE id \in source_object_mappings
    <3>1. PICK n \in Stored : id \in IdsOf(turn_nodes[n])
      BY <1>3, <2>2 DEF MappingsInUse, OfTurn
    <3> QED
      BY <3>1, IdsKept
  <2> QED
    BY <1>1, <2>1, <2>2
<1> QED
  BY <1>2, <1>3 DEF MappingsInUse, OfTurn

LEMMA IsolationStep ==
  ASSUME TypeOK, EdgeEndpoints, HarnessIsolation, TurnsStep, UNCHANGED explicit_reply_edges,
         NEW h, NEW ids, IdentityEffect(h, ids)
  PROVE  HarnessIsolation'
<1>1. ASSUME NEW n \in Stored'
      PROVE  /\ turn_nodes'[n].harness \in harness_instances'
             /\ \A id \in IdsOf(turn_nodes'[n]) : id[1] = turn_nodes'[n].harness
  <2>1. CASE n \in Stored /\ turn_nodes'[n] = turn_nodes[n]
    BY <2>1 DEF IdentityEffect, HarnessIsolation
  <2>2. CASE /\ turn_nodes'[n].harness = h
             /\ IdsOf(turn_nodes'[n]) \subseteq
                  ids \cup (IF n \in Stored THEN IdsOf(turn_nodes[n]) ELSE {})
    BY <2>2, IdsKept DEF IdentityEffect, HarnessIsolation
  <2> QED
    BY <2>1, <2>2 DEF IdentityEffect
<1>2. ASSUME NEW e \in explicit_reply_edges'
      PROVE  {turn_nodes'[e.from_node].harness, turn_nodes'[e.to_node].harness} = {e.harness}
  <2>1. e.from_node \in Stored /\ e.to_node \in Stored
    BY <1>2 DEF EdgeEndpoints
  <2>2. {turn_nodes[e.from_node].harness, turn_nodes[e.to_node].harness} = {e.harness}
    BY <1>2 DEF HarnessIsolation
  <2>3. /\ turn_nodes'[e.from_node].harness = turn_nodes[e.from_node].harness
        /\ turn_nodes'[e.to_node].harness = turn_nodes[e.to_node].harness
    BY <2>1, IdsKept
  <2> QED
    BY <2>2, <2>3
<1>3. ASSUME NEW row \in agent_conversation_access'
      PROVE  /\ row[2][1] = row[1] /\ row[3][1] = row[1]
             /\ {row[2], row[3]} \subseteq source_object_mappings'
  BY <1>3 DEF IdentityEffect, Persist, HarnessIsolation
<1> QED
  BY <1>1, <1>2, <1>3 DEF HarnessIsolation

LEMMA IdentityInvariantStep ==
  ASSUME IInv, MappingsInUse, HarnessIsolation, [Next]_vars
  PROVE  MappingsInUse' /\ HarnessIsolation'
<1> USE DEF IInv
<1>1. TurnsStep
  BY StepOnTurns
<1>2. CASE UNCHANGED vars
  BY <1>2 DEF vars, MappingsInUse, HarnessIsolation, Stored
<1>3. ASSUME NEW h \in Harness, RegisterHarness(h)
      PROVE  MappingsInUse' /\ HarnessIsolation'
  BY <1>3 DEF RegisterHarness, MappingsInUse, HarnessIsolation, Stored
<1>4. ASSUME NEW r \in ReplyRequest, NEW from \in NodeId, NEW to \in NodeId,
             RecordReply(r, from, to)
      PROVE  MappingsInUse' /\ HarnessIsolation'
  <2>1. turn_nodes[from].harness = r.harness /\ turn_nodes[to].harness = r.harness
    BY <1>4 DEF RecordReply, Owner
  <2>2. MappingsInUse'
    BY <1>4 DEF RecordReply, MappingsInUse, Stored
  <2> QED
    BY <1>4, <2>1, <2>2 DEF RecordReply, HarnessIsolation, Stored
<1>5. ASSUME NEW h, NEW ids, IdentityEffect(h, ids), UNCHANGED explicit_reply_edges
      PROVE  MappingsInUse' /\ HarnessIsolation'
  BY <1>1, <1>5, MappingsStep, IsolationStep
<1>6. ASSUME NEW r \in QuestionRequest, NEW n \in NodeId, RepeatQuestion(r, n) \/ NewQuestion(r, n)
      PROVE  MappingsInUse' /\ HarnessIsolation'
  BY <1>5, <1>6, QuestionEffect DEF RepeatQuestion, NewQuestion
<1>7. ASSUME NEW r \in AnswerRequest, NEW n \in NodeId,
             AnswerWithoutQuestion(r, n) \/ RepeatAnswer(r, n) \/ AttachAnswer(r, n)
      PROVE  MappingsInUse' /\ HarnessIsolation'
  BY <1>5, <1>7, AnswerEffect DEF AnswerWithoutQuestion, RepeatAnswer, AttachAnswer
<1>8. ASSUME NEW r \in ToolRequest, ResolveToolIdentity(r)
      PROVE  MappingsInUse' /\ HarnessIsolation'
  BY <1>5, <1>8, ToolEffect DEF ResolveToolIdentity
<1> QED
  BY <1>2, <1>3, <1>4, <1>6, <1>7, <1>8 DEF Next

LEMMA IdentityInvariant == Spec => [](MappingsInUse /\ HarnessIsolation)
<1>1. Init => MappingsInUse /\ HarnessIsolation
  BY DEF Init, MappingsInUse, HarnessIsolation, Stored
<1>2. IInv /\ MappingsInUse /\ HarnessIsolation /\ [Next]_vars => MappingsInUse' /\ HarnessIsolation'
  BY IdentityInvariantStep
<1> QED
  BY <1>1, <1>2, InductiveInvariant, PTL DEF Spec

\* No committed command leaves an identity behind that no turn carries, and no
\* turn carries one without a mapping.
THEOREM MappingsAlwaysInUse == Spec => []MappingsInUse
BY IdentityInvariant, PTL

\* No row of any table ever crosses a harness.
THEOREM HarnessesStayApart == Spec => []HarnessIsolation
BY IdentityInvariant, PTL

-----------------------------------------------------------------------------
(* The ingest core implements TurnLedger.                                  *)

LEMMA EnteredAfterPut ==
  ASSUME TypeOK, NEW n \in NodeId, NEW node \in TurnNode,
         turn_nodes' = [turn_nodes EXCEPT ![n] = node]
  PROVE  /\ Entered'[n] = [question |-> node.question, answer |-> node.answer]
         /\ Ledger!OthersUnchanged(n)
<1>1. turn_nodes'[n] = node /\ node # NULL
  BY NullAssumption DEF TypeOK
<1>2. \A k \in NodeId \ {n} : turn_nodes'[k] = turn_nodes[k]
  BY DEF TypeOK
<1>3. Entered'[n] = [question |-> node.question, answer |-> node.answer]
  BY <1>1 DEF Entered
<1>4. \A k \in NodeId \ {n} : Entered'[k] = Entered[k]
  BY <1>2 DEF Entered
<1>5. DOMAIN Entered' = NodeId
  BY DEF Entered
<1> QED
  BY <1>3, <1>4, <1>5 DEF Ledger!OthersUnchanged

LEMMA EnterStep ==
  ASSUME TypeOK, NEW n \in NodeId, NEW node \in TurnNode,
         turn_nodes' = [turn_nodes EXCEPT ![n] = node], MessagesFree(n, node)
  PROVE  Ledger!Enter(n)
<1>1. /\ Entered'[n] = [question |-> node.question, answer |-> node.answer]
      /\ Ledger!OthersUnchanged(n)
  BY EnteredAfterPut
<1>2. Entered'[n] \in Ledger!Entry
  BY <1>1 DEF Ledger!Entry, TurnNode, TurnRow
<1>3. Ledger!Messages(Entered'[n]) = MessagesOf(node)
  BY <1>1 DEF Ledger!Messages, MessagesOf
<1>4. ASSUME NEW k \in NodeId \ {n}
      PROVE  Ledger!Messages(Entered[k]) \cap MessagesOf(node) = {}
  <2>1. CASE turn_nodes[k] = NULL
    <3>1. Ledger!Messages(Entered[k]) = {}
      BY <2>1 DEF Entered, Ledger!Messages, NoSide
    <3> QED
      BY <3>1
  <2>2. CASE turn_nodes[k] # NULL
    <3>1. Ledger!Messages(Entered[k]) = MessagesOf(turn_nodes[k])
      BY <2>2 DEF Entered, Ledger!Messages, MessagesOf
    <3>2. k \in Stored \ {n}
      BY <2>2 DEF Stored
    <3> QED
      BY <3>1, <3>2 DEF MessagesFree
  <2> QED
    BY <2>1, <2>2
<1>5. Ledger!NewElsewhere(n, Entered'[n])
  BY <1>3, <1>4 DEF Ledger!NewElsewhere
<1>6. Entered'[n].question.message # NULL =>
        Entered'[n].question.message # Entered'[n].answer.message
  BY <1>1 DEF MessagesFree
<1> QED
  BY <1>1, <1>2, <1>5, <1>6 DEF Ledger!Enter

LEMMA LedgerStep ==
  ASSUME TypeOK, TurnsStep
  PROVE  [Ledger!Next]_Entered
<1>1. CASE UNCHANGED <<turn_nodes, turn_fts>>
  BY <1>1 DEF Entered
<1>2. ASSUME NEW n \in NodeId, NEW node \in TurnNode, InsertTurnNode(n, node)
      PROVE  Ledger!Open(n)
  <2>1. /\ turn_nodes[n] = NULL /\ HasText(node) /\ MessagesFree(n, node)
        /\ turn_nodes' = [turn_nodes EXCEPT ![n] = node]
    BY <1>2 DEF InsertTurnNode
  <2>2. Entered[n] = Ledger!Blank
    BY <2>1 DEF Entered, Ledger!Blank
  <2>3. Entered'[n] = [question |-> node.question, answer |-> node.answer]
    BY <2>1, EnteredAfterPut
  <2>4. Entered'[n].question.text # NULL \/ Entered'[n].answer.text # NULL
    BY <2>1, <2>3 DEF HasText
  <2>5. Ledger!Enter(n)
    BY <2>1, EnterStep
  <2> QED
    BY <2>2, <2>4, <2>5 DEF Ledger!Open
<1>3. ASSUME NEW n \in NodeId, NEW node \in TurnNode, CompleteTurnNode(n, node)
      PROVE  Ledger!Complete(n)
  <2>1. /\ turn_nodes[n] # NULL /\ MessagesFree(n, node)
        /\ node.question = turn_nodes[n].question
        /\ turn_nodes[n].answer = NoSide /\ node.answer # NoSide
        /\ turn_nodes' = [turn_nodes EXCEPT ![n] = node]
    BY <1>3 DEF CompleteTurnNode
  <2>2. Entered[n] = [question |-> turn_nodes[n].question, answer |-> NoSide]
    BY <2>1 DEF Entered
  <2>3. turn_nodes[n] \in TurnNode
    BY <2>1 DEF TypeOK, Optional
  <2>4. turn_nodes[n].question.text # NULL
    BY <2>1, <2>3 DEF TurnNode, HasText, NoSide
  <2>5. Entered[n] # Ledger!Blank
    BY <2>2, <2>4 DEF Ledger!Blank, NoSide
  <2>6. Entered'[n] = [question |-> node.question, answer |-> node.answer]
    BY <2>1, EnteredAfterPut
  <2>7. /\ Entered[n].answer = NoSide
        /\ Entered'[n].question = Entered[n].question
        /\ Entered'[n].answer # NoSide
    BY <2>1, <2>2, <2>6
  <2>8. Ledger!Enter(n)
    BY <2>1, EnterStep
  <2> QED
    BY <2>5, <2>7, <2>8 DEF Ledger!Complete
<1> QED
  BY <1>1, <1>2, <1>3 DEF TurnsStep, Ledger!Next

\* Whatever commands arrive, in whatever order and however often, the stored
\* turns change only as the ledger allows.
THEOREM ImplementsLedger == Spec => LedgerSpec
<1>1. Init => Ledger!Init
  BY DEF Init, Ledger!Init, Ledger!Blank, Entered
<1>2. TypeOK /\ [Next]_vars => [Ledger!Next]_Entered
  BY StepOnTurns, LedgerStep
<1> QED
  BY <1>1, <1>2, TypeCorrect, PTL DEF Spec, LedgerSpec, Ledger!Spec

-----------------------------------------------------------------------------
(* Replays.  Recorded says in one state what recognising an answer takes    *)
(* five look-ups to find; it is preserved because each of its parts is.     *)

Recorded(r, n) ==
  /\ n \in Stored
  /\ turn_nodes[n].harness = r.harness
  /\ turn_nodes[n].conversation = Formal(r.harness, "conversation", r.conversation)
  /\ turn_nodes[n].thread = Formal(r.harness, "thread", r.thread) \/ r.thread = NULL
  /\ turn_nodes[n].answer = AnswerSide(r) /\ turn_nodes[n].answer # NoSide
  /\ r.node # NULL => r.node = n
  /\ r.absent => turn_nodes[n].question = AbsentQuestionSide(r)
  /\ ~r.absent /\ r.question # NULL =>
       /\ turn_nodes[n].question.message = Formal(r.harness, "message", r.question)
       /\ Formal(r.harness, "message", r.question) \in source_object_mappings \cup AnswerIds(r)
  /\ r.message # NULL \/ r.node # NULL \/ r.question # NULL

LEMMA AnswerAnchors ==
  ASSUME NEW r \in AnswerRequest
  PROVE  /\ r.message # NULL => Formal(r.harness, "message", r.message) # NULL
         /\ r.question # NULL => Formal(r.harness, "message", r.question) # NULL
         /\ r.thread # NULL => Formal(r.harness, "thread", r.thread) # NULL
         /\ r.absent => r.node = NULL /\ r.absent = TRUE
<1>1. /\ r.harness \in Harness /\ r.message \in Optional(Source) /\ r.question \in Optional(Source)
      /\ r.thread \in Optional(Source)
      /\ r.absent => r.node = NULL /\ r.absent = TRUE
  <2>1. CASE r \in AnchoredAnswerRequest
    BY <2>1 DEF AnchoredAnswerRequest, Optional, Source
  <2>2. CASE r \in AbsentAnswerRequest
    BY <2>2 DEF AbsentAnswerRequest, Optional, Source
  <2> QED
    BY <2>1, <2>2 DEF AnswerRequest
<1> QED
  BY <1>1, FormalType, NullAssumption DEF Kind

\* A message has one owner at most.
LEMMA OneOwner ==
  ASSUME MessageOwnership, NEW h, NEW m, NEW n \in Stored,
         turn_nodes[n].harness = h, m \in MessagesOf(turn_nodes[n])
  PROVE  Owner(h, m) = {n}
  BY DEF MessageOwnership, Owner

LEMMA RecordedIsRecognised ==
  ASSUME MessageOwnership, NEW r \in AnswerRequest, NEW n \in NodeId, Recorded(r, n)
  PROVE  AnswerRecognised(r, n)
<1>1. r.question # NULL => NamedTurn(r) = {n}
  <2>1. r.question # NULL => turn_nodes[n].question.message = Formal(r.harness, "message", r.question)
    BY DEF Recorded, AbsentQuestionSide
  <2> QED
    <3>1. r.question # NULL => Formal(r.harness, "message", r.question) \in MessagesOf(turn_nodes[n])
      BY <2>1, AnswerAnchors DEF MessagesOf
    <3>2. n \in Stored /\ turn_nodes[n].harness = r.harness
      BY DEF Recorded
    <3> QED
      BY <3>1, <3>2, OneOwner DEF NamedTurn
<1>2. r.question = NULL => NamedTurn(r) = {}
  BY DEF NamedTurn
<1>3. r.message # NULL => ExistingAnswer(r) = {n}
  <2>1. r.message # NULL => Formal(r.harness, "message", r.message) \in MessagesOf(turn_nodes[n])
    <3>1. turn_nodes[n].answer.message = Formal(r.harness, "message", r.message)
      BY DEF Recorded, AnswerSide
    <3> QED
      BY <3>1, AnswerAnchors DEF MessagesOf
  <2>2. n \in Stored /\ turn_nodes[n].harness = r.harness
    BY DEF Recorded
  <2> QED
    BY <2>1, <2>2, OneOwner DEF ExistingAnswer
<1>4. r.message = NULL => ExistingAnswer(r) = {}
  BY DEF ExistingAnswer
<1>5. turn_nodes[n].answer.message = Formal(r.harness, "message", r.message)
  BY DEF Recorded, AnswerSide
<1>6. AnchorsValid(r)
  BY <1>1, <1>2 DEF Recorded, AnchorsValid, AbsentQuestionSide
<1>7. Target(r) = {n}
  BY <1>1, <1>2, <1>3, <1>4, <1>5 DEF Recorded, Target
<1>8. InBoundary(turn_nodes[n], r)
  BY DEF Recorded, InBoundary
<1> QED
  BY <1>3, <1>4, <1>6, <1>7, <1>8
  DEF Recorded, AnswerRecognised, HasAnswerSide, AnswerMatches, TargetAccepts

LEMMA RecognisedNext ==
  ASSUME NEW r \in AnswerRequest, NEW n \in NodeId
  PROVE  MessageOwnership' /\ Recorded(r, n)' => AnswerRecognised(r, n)'
<1>1. MessageOwnership /\ Recorded(r, n) => AnswerRecognised(r, n)
  BY RecordedIsRecognised
<1> QED
  BY <1>1, PTL

LEMMA RecognisedIsRecorded ==
  ASSUME NEW r \in AnswerRequest, NEW n \in Stored, AnswerRecognised(r, n)
  PROVE  Recorded(r, n)
<1>1. AnchorsValid(r) /\ Target(r) = {n} /\ InBoundary(turn_nodes[n], r)
  BY DEF AnswerRecognised, TargetAccepts
<1>2. r.node # NULL => r.node = n
  BY <1>1 DEF Target
<1>3. ~r.absent /\ r.question # NULL => n \in NamedTurn(r)
  BY <1>1, <1>2 DEF AnchorsValid, Target
<1>4. r.message # NULL \/ r.node # NULL \/ r.question # NULL
  BY <1>1 DEF Target, NamedTurn, ExistingAnswer
<1> QED
  BY <1>1, <1>2, <1>3, <1>4
  DEF Recorded, AnswerRecognised, AnchorsValid, TargetAccepts, InBoundary, AnswerMatches, HasAnswerSide

LEMMA RecordedForever ==
  ASSUME TypeOK, [Next]_vars, NEW r \in AnswerRequest, NEW n \in NodeId, Recorded(r, n)
  PROVE  Recorded(r, n)'
<1>1. Preserved(n) /\ n \in Stored
  BY StepOnTurns, PreservedStep DEF Recorded
<1>2. source_object_mappings \subseteq source_object_mappings'
  BY DEF Next, vars, Persist, RepeatQuestion, NewQuestion, AnswerWithoutQuestion,
         RepeatAnswer, AttachAnswer, RecordReply, RegisterHarness, ResolveToolIdentity
<1>3. r.thread # NULL => turn_nodes'[n].thread = turn_nodes[n].thread
  BY <1>1, AnswerAnchors DEF Recorded, Preserved
<1> QED
  BY <1>1, <1>2, <1>3 DEF Recorded, Preserved, Stored

LEMMA StoredIsRecorded ==
  ASSUME TypeOK, TypeOK', NEW r \in AnswerRequest, NEW n \in NodeId, AnswerStored(r, n)
  PROVE  Recorded(r, n)'
<1>1. r.message # NULL \/ r.node # NULL \/ r.question # NULL
  BY DEF AnswerStored
<1>2. CASE AnswerWithoutQuestion(r, n)
  <2> DEFINE new == [harness |-> r.harness,
                     conversation |-> Formal(r.harness, "conversation", r.conversation),
                     thread |-> Formal(r.harness, "thread", r.thread),
                     question |-> AbsentQuestionSide(r), answer |-> AnswerSide(r)]
  <2>1. InsertTurnNode(n, new) /\ r.absent /\ r.text # NULL
    BY <1>2 DEF AnswerWithoutQuestion
  <2>2. new \in TurnNode
    BY <2>1, AnswerTypes DEF TurnNode, TurnRow, InsertTurnNode
  <2>3. turn_nodes' = [turn_nodes EXCEPT ![n] = new]
    BY <2>1 DEF InsertTurnNode
  <2>4. AnswerSide(r) # NoSide
    BY <2>1 DEF AnswerSide, NoSide
  <2> HIDE DEF new
  <2>5. turn_nodes'[n] = new /\ n \in Stored'
    BY <2>2, <2>3, StoredAfterPut
  <2> QED
    <3>1. /\ new.harness = r.harness
          /\ new.conversation = Formal(r.harness, "conversation", r.conversation)
          /\ new.thread = Formal(r.harness, "thread", r.thread)
          /\ new.question = AbsentQuestionSide(r) /\ new.answer = AnswerSide(r)
      BY DEF new
    <3>2. r.node = NULL /\ r.absent
      BY <2>1, AnswerAnchors
    <3> QED
      BY <1>1, <2>4, <2>5, <3>1, <3>2 DEF Recorded
<1>3. CASE AttachAnswer(r, n)
  <2> DEFINE old == turn_nodes[n]
             node == Answered(old, r)
  <2>1. /\ n \in Stored /\ old \in TurnNode /\ old.answer = NoSide
        /\ AnchorsValid(r) /\ n \in Target(r)
    BY <1>3, TargetStored, StoredType DEF AttachAnswer, TargetAccepts, HasAnswerSide
  <2>2. /\ InBoundary(old, r) /\ (r.absent => old.question = AbsentQuestionSide(r))
        /\ AnswerSide(r) # NoSide /\ turn_nodes' = [turn_nodes EXCEPT ![n] = node]
        /\ source_object_mappings \subseteq source_object_mappings'
    BY <1>3 DEF AttachAnswer, TargetAccepts, Persist
  <2>3. /\ node.harness = old.harness /\ node.conversation = old.conversation
        /\ node.question = old.question /\ node.answer = AnswerSide(r)
        /\ node.thread = IF old.thread = NULL THEN Formal(r.harness, "thread", r.thread) ELSE old.thread
    BY <2>1 DEF Answered, TurnNode, TurnRow
  <2>4. turn_nodes'[n] = node
    BY <2>2 DEF TypeOK
  <2>5. n \in Stored'
    <3>1. Preserved(n)
      BY <1>3, <2>1, AttachStep, PreservedStep
    <3> QED
      BY <3>1 DEF Preserved, Stored
  <2>6. n \notin {k \in ExistingAnswer(r) :
                    turn_nodes[k].answer.message = Formal(r.harness, "message", r.message)}
    <3> SUFFICES ASSUME n \in ExistingAnswer(r),
                        old.answer.message = Formal(r.harness, "message", r.message)
                 PROVE  FALSE
      OBVIOUS
    <3>1. r.message # NULL
      BY DEF ExistingAnswer
    <3>2. old.answer.message = NULL
      BY <2>1 DEF NoSide
    <3> QED
      BY <3>1, <3>2, AnswerAnchors
  <2>7. r.node # NULL => r.node = n
    BY <2>1 DEF Target
  <2>8. ~r.absent /\ r.question # NULL =>
          /\ n \in NamedTurn(r)
          /\ Formal(r.harness, "message", r.question) \in source_object_mappings \cup AnswerIds(r)
    BY <2>1, <2>6, <2>7 DEF AnchorsValid, Target
  <2>9. ~r.absent /\ r.question # NULL =>
          /\ old.question.message = Formal(r.harness, "message", r.question)
          /\ Formal(r.harness, "message", r.question) \in source_object_mappings' \cup AnswerIds(r)
    BY <2>1, <2>2, <2>8 DEF AnchorsValid
  <2> QED
    BY <1>1, <2>2, <2>3, <2>4, <2>5, <2>7, <2>9 DEF Recorded, InBoundary
<1> QED
  BY <1>2, <1>3 DEF AnswerStored

\* A record_answer that was accepted is recognised at any later time, for every
\* request and whatever was committed in between.
THEOREM AnswersStayRecognised == Spec => AnswerReplayStable
<1>1. IInv /\ IInv' /\ [Next]_vars =>
        [UNCHANGED read \/ \A r \in AnswerRequest, n \in NodeId :
           AnswerStored(r, n) \/ (n \in Stored /\ AnswerRecognised(r, n)) =>
             AnswerRecognised(r, n)']_vars
  <2> SUFFICES ASSUME IInv, IInv', [Next]_vars, NEW r \in AnswerRequest, NEW n \in NodeId,
                      AnswerStored(r, n) \/ (n \in Stored /\ AnswerRecognised(r, n))
               PROVE  AnswerRecognised(r, n)'
    OBVIOUS
  <2>1. Recorded(r, n)'
    BY StoredIsRecorded, RecognisedIsRecorded, RecordedForever DEF IInv
  <2>2. MessageOwnership'
    BY DEF IInv
  <2> QED
    BY <2>1, <2>2, RecognisedNext
<1> QED
  BY <1>1, InductiveInvariant, PTL DEF Spec, AnswerReplayStable

(* The same for questions.  A repeated question compares the thread, which  *)
(* the answer may have filled: Held allows for that and for nothing else.   *)

Held(r, n) ==
  /\ r.message # NULL
  /\ n \in Stored
  /\ turn_nodes[n].harness = r.harness
  /\ turn_nodes[n].conversation = Formal(r.harness, "conversation", r.conversation)
  /\ turn_nodes[n].question = QuestionSide(r)
  /\ \/ turn_nodes[n].thread = Formal(r.harness, "thread", r.thread)
     \/ r.thread = NULL /\ turn_nodes[n].answer # NoSide

LEMMA QuestionAnchors ==
  ASSUME NEW r \in QuestionRequest
  PROVE  /\ r.message # NULL => Formal(r.harness, "message", r.message) # NULL
         /\ r.thread # NULL => Formal(r.harness, "thread", r.thread) # NULL
         /\ r.thread = NULL => Formal(r.harness, "thread", r.thread) = NULL
<1>1. r.harness \in Harness /\ r.message \in Optional(Source) /\ r.thread \in Optional(Source)
  BY DEF QuestionRequest, Optional, Source
<1>2. r.thread = NULL => Formal(r.harness, "thread", r.thread) = NULL
  BY DEF Formal
<1> QED
  BY <1>1, <1>2, FormalType, NullAssumption DEF Kind

LEMMA HeldIsRecognised ==
  ASSUME TypeOK, MessageOwnership, NEW r \in QuestionRequest, NEW n \in NodeId, Held(r, n)
  PROVE  QuestionRecognised(r, n) \/ ThreadFilled(r, n)
<1> DEFINE node == turn_nodes[n]
<1>1. n \in Stored /\ node \in TurnNode
  BY StoredType DEF Held
<1>2. node.question.message = Formal(r.harness, "message", r.message) /\ r.message # NULL
  BY DEF Held, QuestionSide
<1>3. QuestionOwner(r) = {n}
  <2>1. Formal(r.harness, "message", r.message) \in MessagesOf(node)
    BY <1>2, QuestionAnchors DEF MessagesOf
  <2>2. node.harness = r.harness
    BY DEF Held
  <2>3. Owner(r.harness, Formal(r.harness, "message", r.message)) = {n}
    BY <1>1, <2>1, <2>2, OneOwner
  <2> QED
    BY <1>2, <2>3 DEF QuestionOwner
<1>4. CASE node.thread = Formal(r.harness, "thread", r.thread)
  BY <1>3, <1>4 DEF Held, QuestionRecognised, QuestionMatches
<1>5. CASE node.thread # Formal(r.harness, "thread", r.thread)
  <2>1. r.thread = NULL /\ node.answer # NoSide
    BY <1>5 DEF Held
  <2>2. node.thread # NULL /\ Formal(r.harness, "thread", r.thread) = NULL
    BY <1>5, <2>1, QuestionAnchors
  <2> DEFINE unfilled == [node EXCEPT !.thread = NULL]
  <2>3. unfilled.thread = NULL /\ unfilled.conversation = node.conversation /\ unfilled.question = node.question
    BY <1>1 DEF TurnNode, TurnRow
  <2> HIDE DEF unfilled
  <2>4. QuestionMatches(unfilled, r)
    BY <2>2, <2>3 DEF Held, QuestionMatches
  <2> QED
    BY <1>3, <2>1, <2>2, <2>4 DEF ThreadFilled, HasAnswerSide, unfilled
<1> QED
  BY <1>4, <1>5

LEMMA HeldNext ==
  ASSUME NEW r \in QuestionRequest, NEW n \in NodeId
  PROVE  TypeOK' /\ MessageOwnership' /\ Held(r, n)' => (QuestionRecognised(r, n) \/ ThreadFilled(r, n))'
<1>1. TypeOK /\ MessageOwnership /\ Held(r, n) => QuestionRecognised(r, n) \/ ThreadFilled(r, n)
  BY HeldIsRecognised
<1> QED
  BY <1>1, PTL

LEMMA RecognisedIsHeld ==
  ASSUME TypeOK, NEW r \in QuestionRequest, NEW n \in Stored,
         QuestionRecognised(r, n) \/ ThreadFilled(r, n)
  PROVE  Held(r, n)
<1> DEFINE node == turn_nodes[n]
<1>1. node \in TurnNode
  BY StoredType
<1>2. QuestionOwner(r) = {n}
  BY DEF QuestionRecognised, ThreadFilled
<1>3. r.message # NULL /\ node.harness = r.harness
  BY <1>2 DEF QuestionOwner, Owner
<1>4. CASE QuestionMatches(node, r)
  BY <1>3, <1>4 DEF Held, QuestionMatches
<1>5. CASE ThreadFilled(r, n)
  <2> DEFINE unfilled == [node EXCEPT !.thread = NULL]
  <2>1. unfilled.thread = NULL /\ unfilled.conversation = node.conversation /\ unfilled.question = node.question
    BY <1>1 DEF TurnNode, TurnRow
  <2>2. QuestionMatches(unfilled, r) /\ node.answer # NoSide
    BY <1>5 DEF ThreadFilled, HasAnswerSide
  <2> HIDE DEF unfilled
  <2>3. r.thread = NULL
    BY <2>1, <2>2, QuestionAnchors DEF QuestionMatches
  <2> QED
    BY <1>3, <2>1, <2>2, <2>3 DEF Held, QuestionMatches
<1> QED
  BY <1>4, <1>5 DEF QuestionRecognised

\* Only the command that completes a turn fills its thread.
LEMMA ThreadFilledByAnswer ==
  ASSUME TypeOK, TurnsStep, NEW k \in Stored, turn_nodes'[k].thread # turn_nodes[k].thread
  PROVE  turn_nodes'[k].answer # NoSide
<1>1. ASSUME NEW n \in NodeId, NEW node \in TurnNode, InsertTurnNode(n, node)
      PROVE  turn_nodes'[k] = turn_nodes[k]
  BY <1>1 DEF InsertTurnNode, Stored, TypeOK
<1>2. ASSUME NEW n \in NodeId, NEW node \in TurnNode, CompleteTurnNode(n, node)
      PROVE  turn_nodes'[k] = turn_nodes[k] \/ turn_nodes'[k].answer # NoSide
  <2>1. turn_nodes' = [turn_nodes EXCEPT ![n] = node] /\ node.answer # NoSide
    BY <1>2 DEF CompleteTurnNode
  <2> QED
    BY <2>1 DEF Stored, TypeOK
<1> QED
  BY <1>1, <1>2 DEF TurnsStep

LEMMA HeldForever ==
  ASSUME TypeOK, [Next]_vars, NEW r \in QuestionRequest, NEW n \in NodeId, Held(r, n)
  PROVE  Held(r, n)'
<1>1. TurnsStep /\ n \in Stored
  BY StepOnTurns DEF Held
<1>2. Preserved(n)
  BY <1>1, PreservedStep
<1>3. turn_nodes'[n].thread # turn_nodes[n].thread => turn_nodes'[n].answer # NoSide
  BY <1>1, ThreadFilledByAnswer
<1>4. turn_nodes'[n].thread # turn_nodes[n].thread => turn_nodes[n].thread = NULL
  BY <1>2 DEF Preserved
<1>5. turn_nodes[n].answer # NoSide => turn_nodes'[n].answer # NoSide
  BY <1>2 DEF Preserved
<1> QED
  BY <1>2, <1>3, <1>4, <1>5, QuestionAnchors DEF Held, Preserved, Stored

LEMMA StoredIsHeld ==
  ASSUME TypeOK, NEW r \in QuestionRequest, NEW n \in NodeId, QuestionStored(r, n)
  PROVE  Held(r, n)'
<1> DEFINE new == [harness |-> r.harness,
                   conversation |-> Formal(r.harness, "conversation", r.conversation),
                   thread |-> Formal(r.harness, "thread", r.thread),
                   question |-> QuestionSide(r), answer |-> NoSide]
<1>1. r.message # NULL /\ InsertTurnNode(n, new)
  BY DEF QuestionStored, NewQuestion
<1>2. new \in TurnNode
  BY <1>1, QuestionTypes, NoSideType DEF TurnNode, TurnRow, InsertTurnNode
<1>3. turn_nodes' = [turn_nodes EXCEPT ![n] = new]
  BY <1>1 DEF InsertTurnNode
<1>4. /\ new.harness = r.harness
      /\ new.conversation = Formal(r.harness, "conversation", r.conversation)
      /\ new.thread = Formal(r.harness, "thread", r.thread)
      /\ new.question = QuestionSide(r)
  OBVIOUS
<1> HIDE DEF new
<1>5. turn_nodes'[n] = new /\ n \in Stored'
  BY <1>2, <1>3, StoredAfterPut
<1> QED
  BY <1>1, <1>4, <1>5 DEF Held

\* A record_question that was accepted is recognised at any later time, or it
\* named no thread and the answer has named one since.
THEOREM QuestionsStayRecognised == Spec => QuestionReplayUntilThreadFilled
<1>1. IInv /\ IInv' /\ [Next]_vars =>
        [UNCHANGED read \/ \A r \in QuestionRequest, n \in NodeId :
           \/ QuestionStored(r, n)
           \/ n \in Stored /\ (QuestionRecognised(r, n) \/ ThreadFilled(r, n))
           => QuestionRecognised(r, n)' \/ ThreadFilled(r, n)']_vars
  <2> SUFFICES ASSUME IInv, IInv', [Next]_vars, NEW r \in QuestionRequest, NEW n \in NodeId,
                      \/ QuestionStored(r, n)
                      \/ n \in Stored /\ (QuestionRecognised(r, n) \/ ThreadFilled(r, n))
               PROVE  QuestionRecognised(r, n)' \/ ThreadFilled(r, n)'
    OBVIOUS
  <2>1. Held(r, n)'
    BY StoredIsHeld, RecognisedIsHeld, HeldForever DEF IInv
  <2>2. TypeOK' /\ MessageOwnership'
    BY DEF IInv
  <2> QED
    BY <2>1, <2>2, HeldNext
<1> QED
  BY <1>1, InductiveInvariant, PTL DEF Spec, QuestionReplayUntilThreadFilled

=============================================================================
