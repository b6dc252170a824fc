CONSTANTS
  Contracts <- MCContracts
  Templates = {"A", "C"}
  Aliases = {"X"}
  EventNames = {"e", "on start distribute ethers to all accounts"}
  Inputs <- MCInputs
  Links <- MCLinks
  SubModules = {"sub", "usage"}
  UsageModules = {"usage"}
  HookTypes = {"beforeDeploy", "afterDeploy", "onChange"}
  Budgets <- MCBudgets
  MaxRefs = 2
SPECIFICATION BuildSpec
INVARIANTS
  TypeOK
  OrderRespectsDependencies
  NothingDropped
  AcceptedNumbersFit
  BatchesAreComplete
  BatchesRespectDependencies
  NoDiffMeansDeployed
