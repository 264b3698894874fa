\* One cycle over ten charts and every combination of the judges around it.
SPECIFICATION Spec
CONSTANTS
  MinConfidence = 55
  RecommendedScore = 75
  WeakScore = 60
  MinRR = 15
  MaxSpread = 4
  BlockBefore = 30
  BlockAfter = 15
  MaxMissing = 1000
  MaxOutliers = 1000
  MaxAge = 3
  MinQuality = 70
  Feeds <- MCFeeds
  Charts <- MCCharts
  Contexts <- MCContexts
  Calendars <- MCCalendars
  Ballots <- MCBallots
  Outlooks <- MCOutlooks
  NewsStates <- MCNewsStates
  Controls <- MCControls
  Permissions <- MCPermissions
INVARIANTS
  ActionableOnlyIfClear
  PlanIsOrdered
  NoSellIsExecutable
\* A cycle ends, with or without an order.
CHECK_DEADLOCK FALSE
