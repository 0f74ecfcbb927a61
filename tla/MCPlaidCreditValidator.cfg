SPECIFICATION CreditSpec
CONSTANTS
  MaxAgents = 2
  Spenders = {}
  MaxOperators = 0
  Users = {"alice", "bob"}
  Contracts = {}
  Services = {"credit"}
  Zero = "zero"
  URIs = {"none"}
  EmptyURI = "none"
  Tags = {"none"}
  NoTag = "none"
  Consents = {}
  MaxTime = 0
  MaxDelay = 0
  Hashes = {"h1", "h2"}
  RequestURIs = {"plaid", "other"}
  Validators = {"credit", "alice"}
  Responses = {100}
  ResponseTags = {"", "CREDIT"}
  NoResponseTag = ""
  Credit = "credit"
  PlaidURIs = {"plaid"}
  CREDIT_SCORE = "CREDIT"
  CreditForwarders = {"forwarder1", "forwarder2"}
  Scores = {40, 81, 101}
  Enclaves = {"old", "new"}
  Quotes <- MCQuotes
  Attested <- MCAttested
INVARIANTS CreditBacked ListsIndexRequests LogMatchesRequests SummaryIsAverage
PROPERTIES ScoreAttested AnswersStand
CHECK_DEADLOCK FALSE
