SPECIFICATION Operated
CONSTANTS
  Order <- MCOrder
  Identity = "identity"
  Placeholder = "placeholder"
  Owner = "owner"
  None = "none"
  Raced <- MCRaced
  MaxCrashes = 1
  MaxStray = 1
INVARIANTS InitialisedWhenUpgraded DeployedWhenSaid UpgradedUnlessReverted ConfirmedIsUpgraded
PROPERTY UpgradesComplete
CHECK_DEADLOCK FALSE
