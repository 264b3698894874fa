SPECIFICATION FairSpec
CONSTANTS
  Signals = {s1}
  Planned = {s1}
  Manual = {m1}
  Background = {a1}
  Tickers = {k1}
  Levels = {"near", "away"}
  NoSignal = NoSignal
  NoThread = NoThread
  MaxOpen = 1
  MaxDeals = 1
  MaxCancels = 1
  MaxCrashes = 0
PROPERTIES
  RequestsAnswered
  ReadyResolves
