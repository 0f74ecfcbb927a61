SPECIFICATION DeploymentSpec
CONSTANTS
  Agents = {1}
  Accounts = {"alice", "zero"}
  Tiers = {0, 1, 2, 3, 4, 5}
  HumanTier = 2
  KycTier = 3
  CreditTier = 4
  MinCreditScore = 50
  CreditScores = {0, 50}
  MAX_POLICIES = 2
  Forwarders = {"forwarder"}
  Callers = {"forwarder", "alice"}
  SampleAgent = 1
  SampleOwner = "alice"
  ZERO_ADDRESS = "zero"
  MaxCrashes = 1
  MaxPending = 3
INVARIANTS  NoGrantBeforeWired EvaluationMatchesPolicy
PROPERTIES ImplementsPromise WiredEventually
CHECK_DEADLOCK FALSE
