SPECIFICATION Spec
CONSTANTS
  Session = {s1, s2}
  Tool = {t1}
  MaxTurns = 2
  NULL = NULL
INVARIANTS TurnOrder SavedWhereSpoken OwnAnswers HalfTurnsAreLast
PROPERTIES TurnsSettle ThreadsComeBack
CHECK_DEADLOCK FALSE
