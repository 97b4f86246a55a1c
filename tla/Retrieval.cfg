SPECIFICATION Spec
CONSTANTS
  Node = {1, 2, 3}
  Row = {10, 11, 12, 20, 30}
  NodeOf <- MCNodeOf
  Conversation = {own, other}
  Own = own
  own = own
  other = other
  ConversationOf <- MCConversationOf
  ReplyEdge <- MCReplyEdge
  Hit <- MCHit
  MaxDepth = 2
  MaxLimit = 2
  NULL = NULL
INVARIANTS PagesMissNothing WalkIsBounded TruncationIsHonest PathsAreReal
PROPERTY CallsEnd
CHECK_DEADLOCK FALSE
