CONSTANTS
  Contracts <- MCContracts
  Events <- MCEvents
  Batches <- MCBatches
  Args <- MCArgs
  Deps <- MCDeps
  EarlyHooks = {"b"}
  Calls <- MCCalls
  MaxStops = 2
SPECIFICATION MCSpec
CHECK_DEADLOCK FALSE
INVARIANTS
  TypeOK
  DependenciesReady
  EarlierBatchesStored
  CompleteUnlessOverlapped
  RecordedUnlessDisturbed
PROPERTIES
  EndsUnlessHookFails
