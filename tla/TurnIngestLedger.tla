-------------------------- MODULE TurnIngestLedger --------------------------
(* The ingest core implements the ledger of turns: forget harness,         *)
(* conversation, thread, mappings, edges, access and index, and every      *)
(* command is one entry in the ledger or leaves it as it is.               *)
EXTENDS TurnIngest

Entered ==
  [n \in NodeId |->
     IF turn_nodes[n] = NULL THEN [question |-> NoSide, answer |-> NoSide]
     ELSE [question |-> turn_nodes[n].question, answer |-> turn_nodes[n].answer]]

Ledger == INSTANCE TurnLedger WITH ledger <- Entered

\* Whatever commands are sent, in whatever order and however often, what is
\* stored changes as a ledger of turns changes: an entry is opened once, its
\* answer side is added at most once, and no message is entered twice.
LedgerSpec == Ledger!Spec
=============================================================================
