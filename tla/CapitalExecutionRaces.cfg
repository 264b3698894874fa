SPECIFICATION Spec
CONSTANTS
  Signals = {s1, s2}
  Planned = {s2}
  Manual = {m1, m2}
  Background = {}
  Tickers = {k1}
  Levels = {"near", "away"}
  NoSignal = NoSignal
  NoThread = NoThread
  MaxOpen = 1
  MaxDeals = 2
  MaxCancels = 0
  MaxCrashes = 0
SYMMETRY Symmetry
INVARIANTS
  LockProtectsMarketEntries
  OvershootBounded
