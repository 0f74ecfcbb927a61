SPECIFICATION WizardSpec
CONSTANTS
  MaxAgents = 2
  Spenders = {"worldId"}
  MaxOperators = 0
  Users = {"alice", "bob"}
  Contracts = {}
  Services = {"worldId"}
  Zero = "zero"
  URIs = {"none"}
  EmptyURI = "none"
  Tags = {"none", "world"}
  NoTag = "none"
  Consents = {}
  MaxTime = 0
  MaxDelay = 0
  Humans = {"h1", "h2"}
  Proofs <- MCProofs
  WorldId = "worldId"
  ValidatorTag = "world"
INVARIANT WidgetMatchesContract
CHECK_DEADLOCK FALSE
