SPECIFICATION Spec
CHECK_DEADLOCK FALSE
CONSTANTS
  Accounts = {root, other}
  Root = root
  Deployers = {other}
  Hooks = {h1, h2}
  Creator = creator
  NamedNonces = {0, 2}
  MaxRetries = 1
  MaxRequests = 3
  MaxDeploys = 2
  MaxFaults = 1
INVARIANT DeployerSigns
