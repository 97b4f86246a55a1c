----------------------------- MODULE TurnReplay -----------------------------
(***************************************************************************)
(* Replays of accepted commands.  A host that lost the answer to a         *)
(* command sends it again, at once or much later, so the core must         *)
(* recognise a command it has already applied: return the turn it returned *)
(* the first time and change no turn.  Recognised is a state of the        *)
(* tables, so the properties say that accepting a command reaches it and   *)
(* that no later step leaves it.                                           *)
(***************************************************************************)
EXTENDS TurnIngest

\* What recognising a command reads of the tables.
read == <<turn_nodes, source_object_mappings>>

\* record_answer with r returns the stored turn n and writes no turn.
AnswerRecognised(r, n) ==
  /\ HasAnswerSide(turn_nodes[n]) /\ AnswerMatches(turn_nodes[n], r)
  /\ AnchorsValid(r)
  /\ Target(r) = {n}
  /\ TargetAccepts(n, r)

\* record_question with r returns the stored turn n.
QuestionRecognised(r, n) == QuestionOwner(r) = {n} /\ QuestionMatches(turn_nodes[n], r)

\* The commands that store a turn or an answer side and can be recognised
\* again: they identify a message or a turn.  (The first conjunct only spares
\* TLC the requests that cannot have been the one that was sent.)
AnswerStored(r, n) ==
  /\ turn_nodes'[n] # turn_nodes[n] /\ turn_nodes'[n].answer.text = r.text
  /\ r.message # NULL \/ r.node # NULL \/ r.question # NULL
  /\ AnswerWithoutQuestion(r, n) \/ AttachAnswer(r, n)

QuestionStored(r, n) == r.message # NULL /\ NewQuestion(r, n)

-----------------------------------------------------------------------------
\* The same record_answer, sent again at any later time, returns the turn it
\* returned the first time: what was stored in between (replies, other turns,
\* a thread the first one filled) never turns it into a conflict, a second
\* turn or an answer to another turn.
AnswerReplayStable ==
  [][UNCHANGED read \/ \A r \in AnswerRequest, n \in NodeId :
       AnswerStored(r, n) \/ (n \in Stored /\ AnswerRecognised(r, n)) =>
         AnswerRecognised(r, n)']_vars

\* The same record_question, sent again at any later time, returns the turn
\* it returned the first time: "treats byte-identical source submissions as
\* idempotent" (test/ingest/turn-ingest-service.test.ts).
QuestionReplayStable ==
  [][\A r \in QuestionRequest, n \in NodeId :
       QuestionStored(r, n) \/ (n \in Stored /\ QuestionRecognised(r, n)) =>
         QuestionRecognised(r, n)']_vars

\* The one way a repeated question stops being recognised: it named no thread
\* and the answer attached since then named one.
ThreadFilled(r, n) ==
  /\ QuestionOwner(r) = {n} /\ QuestionMatches([turn_nodes[n] EXCEPT !.thread = NULL], r)
  /\ turn_nodes[n].thread # NULL /\ HasAnswerSide(turn_nodes[n])

QuestionReplayUntilThreadFilled ==
  [][UNCHANGED read \/ \A r \in QuestionRequest, n \in NodeId :
       \/ QuestionStored(r, n)
       \/ n \in Stored /\ (QuestionRecognised(r, n) \/ ThreadFilled(r, n))
       => QuestionRecognised(r, n)' \/ ThreadFilled(r, n)']_vars
=============================================================================
