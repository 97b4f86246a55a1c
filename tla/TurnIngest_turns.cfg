SPECIFICATION Spec
CONSTANTS
  Harness = {h1, h2}
  Conversation = {c1}
  Thread = {t1, t2}
  Message = {m1, m2}
  Author = {}
  Agent = {}
  Text = {x1, x2}
  Meta = {}
  AuthorOf <- MCAuthorOf
  AgentOf <- MCAgentOf
  NodeId = {n1, n2}
  NULL = NULL
SYMMETRY NodeSymmetry
INVARIANTS TypeOK MessageOwnership EdgeEndpoints FtsMirrorsTurns HarnessIsolation MappingsInUse
PROPERTIES WriteOnce LedgerSpec AnswerReplayStable QuestionReplayUntilThreadFilled
CHECK_DEADLOCK FALSE
