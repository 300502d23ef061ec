CONSTANTS
  Place <- MCPlace
  DataPlace = {}
  Transition <- MCTransition
  MaxInt = 30
  Nets <- MCNets
  Unlimited = 1000
  Games <- MCGames
  Plans <- MCPlans
  Declared <- MCDeclared
  Guess <- MCGuess
  MaxValues = 4
  SettleLimit = 2
  ClockEvery = 3
  MaxCalls = 2
  MaxLosses = 1
SPECIFICATION Spec
INVARIANTS ValueExact ChoiceBest TableSound WalksExact
PROPERTIES AnswersNarrow
CHECK_DEADLOCK FALSE
