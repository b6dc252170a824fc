SPECIFICATION Spec
CONSTANTS
  Modules = {"base", "pair"}
  Contracts = {"a", "b", "c"}
  Own <- MCOwn
  Uses <- MCUses
  Args <- MCArgs
  Exports <- MCExports
  Networks = {"1", "dev", "bare"}
  Accounts = {"1", "dev"}
  Elsewhere <- MCElsewhere
  TruffleBuilds <- MCTruffleBuilds
  HardhatBuilds <- MCHardhatBuilds
  MaxProcesses = 3
  MaxTasks = 3
  MaxFaults = 2
INVARIANT TaskMeansDeployed
PROPERTY CreatedOnce
CHECK_DEADLOCK FALSE
