SPECIFICATION Spec
CONSTANTS
  Message = {m1}
  Identified = {m1}
  Run = {cron}
  CauseOf <- MCCauseOf
  TextOf <- DistinctTexts
  RunIdGiven = {TRUE}
  ReplyToGiven = {FALSE}
  PayloadsPerRun = 2
  MaxReceived = 1
  Capacity = 2
  Proactive = Proactive
  NULL = NULL
  m1 = m1
  m2 = m2
  cron = cron
INVARIANT ProactiveNeverAnswersUser
CHECK_DEADLOCK FALSE
