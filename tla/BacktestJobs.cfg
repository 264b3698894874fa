\* From a Thursday evening over a daily break to the weekly close, in hours.
SPECIFICATION FairSpec
CONSTANTS
  Day = 24
  WeeklyOpen = 166
  WeeklyClose = 117
  BreakEnabled = TRUE
  BreakStart = 21
  BreakEnd = 22
  NoKey = NoKey
  Instants = {92, 93, 117}
  Backtests = {93}
  WalkForwards = {}
  Posts = 1
  Named = {}
  Workers = 2
  Folds = 1
  Finds = {1}
  Quiet = {117}
  None = None
  MaxMishaps = 1
INVARIANTS
  OneThreadPerClosure
  
  TradesAreItsOwn
PROPERTIES
  ClosureIsAnswered
CHECK_DEADLOCK FALSE
