SPECIFICATION Spec
CONSTANTS
  Bindings <- MCBindings
  Events <- MCEvents
  Order <- MCOrder
  Args <- MCArgs
  Deps <- MCDeps
  AfterDeploy <- MCAfterDeploy
  ModuleHooks <- MCModuleHooks
  Script <- MCScript
  OnFail = TRUE
  MaxStops = 2
  MaxChanges = 1
INVARIANTS
  TypeOK
  MemoryIsFile
  AddressInv
  SuccessIsComplete
PROPERTIES
  NothingRolledBack
  RecordedCallNotResent
  SummaryFailsOnlyAfterLoss
  Completes
