SPECIFICATION Spec
CONSTANTS
  Harness = {h1}
  Conversation = {c1}
  Thread = {t1}
  Message = {m1, m2}
  Author = {}
  Agent = {}
  Text = {x1}
  Meta = {}
  AuthorOf <- MCAuthorOf
  AgentOf <- MCAgentOf
  NodeId = {n1, n2}
  NULL = NULL
PROPERTY QuestionReplayStable
CHECK_DEADLOCK FALSE
