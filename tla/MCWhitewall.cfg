SPECIFICATION Spec
CONSTANTS
  MaxAgents = 1
  Spenders = {"worldId"}
  MaxOperators = 0
  Users = {"alice", "bob"}
  Contracts = {}
  Services = {"worldId", "kyc", "credit"}
  Zero = "zero"
  URIs = {"none"}
  EmptyURI = "none"
  Tags = {"none", "world"}
  NoTag = "none"
  Consents = {}
  MaxTime = 0
  MaxDelay = 0
  Humans = {"h"}
  Proofs <- MCProofs
  WorldId = "worldId"
  ValidatorTag = "world"
  Hashes = {h1, h2}
  RequestURIs = {"stripe", "plaid"}
  Validators = {"kyc", "credit"}
  Responses = {}
  ResponseTags = {"", "KYC", "CREDIT"}
  NoResponseTag = ""
  Kyc = "kyc"
  StripeURIs = {"stripe"}
  KYC_VERIFIED = "KYC"
  KycForwarders = {"forwarder"}
  NoSession = "nosession"
  Credit = "credit"
  PlaidURIs = {"plaid"}
  CREDIT_SCORE = "CREDIT"
  CreditForwarders = {"forwarder"}
  Scores = {40, 50}
  Enclaves = {"enclave"}
  Quotes = {}
  Attested = {}
  Tiers = {1, 2, 3, 4}
  MinCreditScore = 50
  ConsumerForwarders = {"forwarder"}
INVARIANTS TypeOK GrantsAreBacked
PROPERTY ImplementsEngine
SYMMETRY HashSymmetry
CHECK_DEADLOCK FALSE
