---------------------------- MODULE MCTurnIngest ----------------------------
(* Instances of TurnIngest for TLC.                                        *)
EXTENDS TurnIngestLedger, TurnReplay, TLC

\* No metadata: authors and agents are left to the theorems.
MCAuthorOf == [m \in Meta |-> NULL]
MCAgentOf == [m \in Meta |-> NULL]

NodeSymmetry == Permutations(NodeId) \cup Permutations(Text) \cup Permutations(Message) \cup Permutations(Thread) \cup Permutations(Harness) \cup Permutations(Conversation)
=============================================================================
