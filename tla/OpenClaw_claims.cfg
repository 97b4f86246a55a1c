SPECIFICATION Spec
CONSTANTS
  Message = {m1, m2}
  Identified = {m1}
  Run = {user, cron}
  CauseOf <- MCCauseOf
  TextOf <- SameText
  RunIdGiven = {TRUE, FALSE}
  ReplyToGiven = {TRUE, FALSE}
  PayloadsPerRun = 1
  MaxReceived = 4
  Capacity = 2
  Proactive = Proactive
  NULL = NULL
  m1 = m1
  m2 = m2
  cron = cron
INVARIANTS SessionOrder AnswerAfterQuestion OneAnswerPerQuestion ShownTextOnly AnswersItsOwnQuestion
PROPERTIES QueueDrains
CHECK_DEADLOCK FALSE
