SPECIFICATION ManagedSpec
CONSTANTS
  Agents = {0}
  Accounts = {"alice"}
  Tiers = {1, 2, 3, 4, 5}
  HumanTier = 2
  KycTier = 3
  CreditTier = 4
  MinCreditScore = 50
  CreditScores = {0, 49, 50}
  MAX_POLICIES = 3
  Forwarders = {"forwarder"}
  Callers = {"forwarder", "alice"}
INVARIANTS TieredFirstSuffices FailClosed ChainIsTiered PolicyListSound
CHECK_DEADLOCK FALSE
