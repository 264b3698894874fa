SPECIFICATION Spec
CONSTANTS
  Signals = {s1}
  Market = {}
  Runs = {r1}
  Posters = {}
  Posts = {}
  Shapes <- AllShapes
  Life = 2
  NoSignal = NoSignal
  MaxCandles = 4
  MaxChanges = 1
  MaxPosts = 0
  MaxFaults = 1
INVARIANTS
  SavedOnce
  FinalRowExists
  OutcomeIsFirstPassage
PROPERTIES
