----------------------------- MODULE MCRetrieval -----------------------------
(* Instances of Retrieval for TLC: three turns in a ring of replies, two of *)
(* them joined twice, the middle one in a conversation that may be given.   *)
(* The rows of a turn are numbered from ten times its id.                   *)
EXTENDS Retrieval

CONSTANTS own, other

MCNodeOf == [r \in Row |-> r \div 10]

MCConversationOf == <<own, other, own>>

Reply(n, side, m, toSide) == [from |-> n, fromSide |-> side, to |-> m, toSide |-> toSide]

MCReplyEdge ==
  {Reply(2, "question", 1, "question"), Reply(3, "question", 2, "question"),
   Reply(3, "question", 2, "answer"), Reply(1, "answer", 3, "question")}

MCHit == {<<1, "question">>, <<2, "question">>, <<3, "answer">>}
=============================================================================
