----------------------------- MODULE TurnLedger -----------------------------
(***************************************************************************)
(* What the ingest core promises its callers, without tables, mappings,    *)
(* anchors or replays: a ledger of turns.  A turn is opened once with its  *)
(* question side, its answer side or both, and completed at most once; no  *)
(* message is entered twice and nothing entered is ever changed.           *)
(***************************************************************************)
CONSTANTS NodeId, Side, NoSide, NULL

VARIABLE ledger    \* node id -> its two sides

Entry == [question : Side, answer : Side]
Blank == [question |-> NoSide, answer |-> NoSide]

Messages(entry) == {entry.question.message, entry.answer.message} \ {NULL}

Init == ledger = [n \in NodeId |-> Blank]

\* No message of entry is in the ledger at a turn other than n.
NewElsewhere(n, entry) ==
  \A other \in NodeId \ {n} : Messages(ledger[other]) \cap Messages(entry) = {}

OthersUnchanged(n) ==
  /\ DOMAIN ledger' = NodeId
  /\ \A other \in NodeId \ {n} : ledger'[other] = ledger[other]

Enter(n) ==
  /\ ledger'[n] \in Entry
  /\ NewElsewhere(n, ledger'[n])
  /\ ledger'[n].question.message # NULL =>
       ledger'[n].question.message # ledger'[n].answer.message
  /\ OthersUnchanged(n)

\* A turn begins with a saved text on at least one side.
Open(n) ==
  /\ ledger[n] = Blank
  /\ ledger'[n].question.text # NULL \/ ledger'[n].answer.text # NULL
  /\ Enter(n)

\* A turn that has only a question receives its answer side.
Complete(n) ==
  /\ ledger[n] # Blank
  /\ ledger[n].answer = NoSide
  /\ ledger'[n].question = ledger[n].question
  /\ ledger'[n].answer # NoSide
  /\ Enter(n)

Next == \E n \in NodeId : Open(n) \/ Complete(n)

Spec == Init /\ [][Next]_ledger
=============================================================================
