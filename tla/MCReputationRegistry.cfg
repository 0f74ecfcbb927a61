SPECIFICATION ReputationSpec
CONSTANTS
  MaxAgents = 1
  Spenders = {"bob"}
  MaxOperators = 0
  Users = {"alice", "bob"}
  Contracts = {}
  Services = {}
  Zero = "zero"
  URIs = {"none"}
  EmptyURI = "none"
  Tags = {"none"}
  NoTag = "none"
  Consents = {}
  MaxTime = 0
  MaxDelay = 0
  Opinions <- MCOpinions
  EmptyTag = ""
  MaxDecimals = 2
  MAX_ABS_VALUE = 30
  IntLimit = 64
  MaxFeedback = 2
  MaxAppended = 3
INVARIANTS SummaryIsAverage ArraysIndexMappings ViewsComplete
PROPERTY FeedbackStands
CHECK_DEADLOCK FALSE
