SPECIFICATION FairSpec
CONSTANTS
  Signals = {s1}
  Market = {s1}
  Runs = {r1, r2}
  Posters = {p1}
  Posts = {"WIN", "OPEN"}
  Shapes <- FewShapes
  Life = 1
  NoSignal = NoSignal
  MaxCandles = 3
  MaxChanges = 0
  MaxPosts = 1
  MaxFaults = 1
INVARIANTS
  CountedFromRow
PROPERTIES
  FinalStays
  Settles
