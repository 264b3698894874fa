SPECIFICATION OrdersSpec
CONSTANTS
  Signals = {s1}
  Planned = {s1}
  Manual = {}
  Background = {a1}
  Tickers = {k1}
  Readers = {h1}
  Levels = {"near", "away"}
  NoSignal = NoSignal
  NoThread = NoThread
  MaxOpen = 1
  MaxDeals = 1
  MaxCancels = 1
  MaxCrashes = 1
  MaxMishaps = 1
PROPERTIES
  FirstHitStands
  OutcomeGoesWithItsAttempt
