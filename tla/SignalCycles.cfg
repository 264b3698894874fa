\* Three of: two requests (one of the background runner), a validation, a backtest, a reader.
SPECIFICATION Spec
CONSTANTS
  None = None
  Requests = {r1, r2}
  Background = {r2}
  Validations = {v1}
  Jobs = {j1}
  Readers = {g1}
  MaxAttempts = 2
  MaxBegun = 3
  MaxFaults = 1
  MaxCrashes = 1
INVARIANTS
  LockIsHeldWhileWorking
  SnapshotIsOfItsRow
  AloneIsAttributed
  OneRecommendationPerRequest
CHECK_DEADLOCK FALSE
