SPECIFICATION Spec
CONSTANTS
  Handlers = {h1, h2}
  Feed <- MCFeed
  Collectors <- MCCollectors
  Events <- MCEvents
  ProviderAnswers <- MCProviderAnswers
  NewsValidity = 2
  MacroValidity = 1
  MinToAnalyse = "MEDIUM"
  Limit = 2
  MinConfidence = 65
  MaxNow = 3
  MaxAnalyses = 3
  MaxFaults = 1
SYMMETRY Interchangeable
INVARIANTS
  ServedIsAlive
PROPERTIES
  AnswerHeedsTheNews
  CollectedIsAnalysed
