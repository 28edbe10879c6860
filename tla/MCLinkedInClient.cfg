SPECIFICATION FairSpec
CONSTANTS
  SectionPaths <- ThreeSections
  Parallel = 2
  MaxRequests = 5
  MaxRetries = 2
  Answers = {"match", "other", "null", "denied", "missing", "limited", "fault"}
INVARIANTS BudgetKept OnlyFaultsRetried NoWorkerOutlivesCall PrimaryIsTheProfile SectionsAccounted ErrorExplained
PROPERTIES CallReturns KeepsPromise
