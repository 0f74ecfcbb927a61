SPECIFICATION StatusSpec
CONSTANTS
  Agents = {0}
  Accounts = {"alice"}
  Tiers = {1, 2, 3, 4}
  HumanTier = 2
  KycTier = 3
  CreditTier = 4
  MinCreditScore = 50
  CreditScores = {0, 50}
  Clients = {"ts", "go"}
  MaxMoves = 2
INVARIANTS StatusWithinCall QuietStatusIsLevel
CHECK_DEADLOCK FALSE
