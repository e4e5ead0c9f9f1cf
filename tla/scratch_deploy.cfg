SPECIFICATION Spec
CONSTANTS
  Holders <- FourHolders
  AgentPlaceholder <- Placeholder
  UnvestedTokensAmount = 1
  MAX_HOLDERS_IN_ONE_TX = 3
  DaemonConfigParams = 2
  Environments <- DocumentedEnvironments
  MAX_ATTEMPTS = 2
INVARIANTS
  FileIsTheDeployment
  FinishedDeploymentIsWhole
  DeployerKeepsNoneOfTheProtocol
PROPERTIES
  ImplementsHandover
  DeploymentCompletes
CHECK_DEADLOCK FALSE
