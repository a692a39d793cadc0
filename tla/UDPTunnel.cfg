SPECIFICATION FairSpec
CONSTANTS
  Apps = {a1, a2}
  MaxDatagrams = 3
  MaxConns = 2
  MaxStops = 1
INVARIANTS
  TypeOK
  AnswersGoHome
PROPERTIES
  AnswersComeBack
CHECK_DEADLOCK FALSE
