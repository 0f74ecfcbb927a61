SPECIFICATION KycSpec
CONSTANTS
  MaxAgents = 2
  Spenders = {}
  MaxOperators = 0
  Users = {"alice", "bob"}
  Contracts = {}
  Services = {"kyc"}
  Zero = "zero"
  URIs = {"none"}
  EmptyURI = "none"
  Tags = {"none"}
  NoTag = "none"
  Consents = {}
  MaxTime = 0
  MaxDelay = 0
  Hashes = {"h1", "h2"}
  RequestURIs = {"s1", "s2", "plaid"}
  Validators = {"kyc", "alice"}
  Responses = {100}
  ResponseTags = {"", "KYC"}
  NoResponseTag = ""
  Kyc = "kyc"
  StripeURIs = {"s1", "s2"}
  KYC_VERIFIED = "KYC"
  KycForwarders = {"forwarder1", "forwarder2"}
  NoSession = "nosession"
INVARIANTS KycBacked KycAnswersAreReports KycReportsDeliverable
CHECK_DEADLOCK FALSE
