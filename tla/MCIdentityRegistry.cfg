SPECIFICATION RegistrySpec
CONSTANTS
  MaxAgents = 2
  Spenders = {"alice", "bob", "worldId"}
  MaxOperators = 2
  Users = {"alice", "bob"}
  Contracts = {"bob"}
  Services = {"worldId"}
  Zero = "zero"
  URIs = {"none"}
  EmptyURI = "none"
  Tags = {"none", "tag"}
  NoTag = "none"
  Consents <- MCConsents
  MaxTime = 3
  MaxDelay = 1
INVARIANTS WalletConsented
PROPERTY ExpiredConsentIsDead
CHECK_DEADLOCK FALSE
