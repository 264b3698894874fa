SPECIFICATION Spec
CONSTANTS
  Signals = {s1}
  Planned = {s1}
  Manual = {m1}
  Background = {a1}
  Tickers = {k1}
  Levels = {"near", "away", "none"}
  NoSignal = NoSignal
  NoThread = NoThread
  MaxOpen = 1
  MaxDeals = 2
  MaxCancels = 1
  MaxCrashes = 1
INVARIANTS
  ResubmittedOnlyIfExcused
  ConfirmedMeansOpened
  EveryDealAudited
PROPERTIES
  ClaimsAreKept
