SPECIFICATION Spec
CONSTANTS
  Bindings <- MCBindings
  Events <- MCEvents
  Order <- MCOrder
  Args <- MCArgs
  Deps <- MCDeps
  AfterDeploy <- MCAfterDeploy
  ModuleHooks <- MCModuleHooks
  Script <- MCScript
  OnFail = FALSE
  MaxStops = 1
  MaxChanges = 0
INVARIANT ExecutedMeansSent
