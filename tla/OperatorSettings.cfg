\* One cycle beside the requests, one field of the limits.
SPECIFICATION SettingsSpec
CONSTANTS
  MaxProfiles = 3
  MaxMade = 4
  MaxStack = 2
  MaxFaults = 1
  Cycles = {c1}
  Limits = {l1}
  MaxPosts = 2
  MaxLapses = 2
  MaxCalls = 4
INVARIANTS
  ThresholdsFollow
  WeightsAreConfigured
  SettingsSurvive
PROPERTIES
  ProfilesPreserved
  UndoHistory
