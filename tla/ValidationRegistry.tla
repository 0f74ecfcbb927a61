------------------------- MODULE ValidationRegistry -------------------------
(***************************************************************************)
(* Validation requests about agents and the responses of the validators    *)
(* they name. A request is authorised by the identity registry when it is  *)
(* made; its validator may answer it, and answer it again, whoever owns    *)
(* the agent by then. Requests are also emitted as events (requestLog),    *)
(* which is how the off-chain workflows learn of them.                     *)
(***************************************************************************)
EXTENDS IdentityRegistry, Sequences, SequencesExt

CONSTANTS
  Hashes,         \* request hashes
  RequestURIs,    \* request URIs, "stripe:<session>" and "plaid:<agentId>" among them
  Validators,     \* bound: addresses that requests name as validator
  Responses,      \* response values that callers pass, any uint8
  ResponseTags,   \* response tags
  NoResponseTag   \* the empty tag

MaxResponse == 100

ASSUME ValidationConstants ==
  /\ IsFiniteSet(Hashes)
  /\ Validators \subseteq Addresses
  /\ Responses \subseteq 0 .. 255
  /\ NoResponseTag \in ResponseTags

VARIABLES
  validations,       \* ValidationStatus per request hash
  agentValidations,  \* request hashes per agent, in request order
  validatorRequests, \* request hashes per validator, in request order
  requestLog         \* ValidationRequest events

validationVars ==
  <<validations, agentValidations, validatorRequests, requestLog>>

ValidationStatus ==
  [validatorAddress : Addresses \cup {Zero}, agentId : AgentIds \cup {0},
   response : 0 .. MaxResponse, tag : ResponseTags, hasResponse : BOOLEAN]

ValidationRequests ==
  [validatorAddress : Addresses, agentId : AgentIds, requestURI : RequestURIs,
   requestHash : Hashes]

ValidationTypeOK ==
  /\ validations \in [Hashes -> ValidationStatus]
  /\ agentValidations \in [AgentIds -> Seq(Hashes)]
  /\ validatorRequests \in [Addresses -> Seq(Hashes)]
  /\ requestLog \subseteq ValidationRequests

ValidationInit ==
  /\ validations = [h \in Hashes |->
       [validatorAddress |-> Zero, agentId |-> 0, response |-> 0,
        tag |-> NoResponseTag, hasResponse |-> FALSE]]
  /\ agentValidations = [a \in AgentIds |-> <<>>]
  /\ validatorRequests = [v \in Addresses |-> <<>>]
  /\ requestLog = {}

-----------------------------------------------------------------------------
Requested(h) == validations[h].validatorAddress # Zero

\* Faulty variant: a request may reuse a hash until it is answered.
RequestAgainUntilAnswered(sender, v, a, u, h) ==
  /\ v # Zero
  /\ ~validations[h].hasResponse
  /\ IsAuthorized(sender, a)
  /\ validations' = [validations EXCEPT ![h].validatorAddress = v, ![h].agentId = a]
  /\ agentValidations' = [agentValidations EXCEPT ![a] = Append(@, h)]
  /\ validatorRequests' = [validatorRequests EXCEPT ![v] = Append(@, h)]
  /\ requestLog' = requestLog \cup
       {[validatorAddress |-> v, agentId |-> a, requestURI |-> u, requestHash |-> h]}
  /\ UNCHANGED registryVars

\* Faulty variant: a request may reuse any hash; the lists keep the first entry.
RequestAgain(sender, v, a, u, h) ==
  /\ v # Zero
  /\ IsAuthorized(sender, a)
  /\ validations' = [validations EXCEPT ![h] =
       [validatorAddress |-> v, agentId |-> a, response |-> 0,
        tag |-> NoResponseTag, hasResponse |-> FALSE]]
  /\ requestLog' = requestLog \cup
       {[validatorAddress |-> v, agentId |-> a, requestURI |-> u, requestHash |-> h]}
  /\ UNCHANGED <<agentValidations, validatorRequests>>
  /\ UNCHANGED registryVars

ValidationRequest(sender, v, a, u, h) ==
  /\ v # Zero
  /\ ~Requested(h)
  /\ IsAuthorized(sender, a)
  /\ validations' = [validations EXCEPT ![h] =
       [validatorAddress |-> v, agentId |-> a, response |-> 0,
        tag |-> NoResponseTag, hasResponse |-> FALSE]]
  /\ agentValidations' = [agentValidations EXCEPT ![a] = Append(@, h)]
  /\ validatorRequests' = [validatorRequests EXCEPT ![v] = Append(@, h)]
  /\ requestLog' = requestLog \cup
       {[validatorAddress |-> v, agentId |-> a, requestURI |-> u, requestHash |-> h]}
  /\ UNCHANGED registryVars

\* Faulty variant: anyone may answer.
AnyoneResponds(sender, h, response, tag) ==
  /\ Requested(h)
  /\ response <= MaxResponse
  /\ validations' = [validations EXCEPT
       ![h].response = response, ![h].tag = tag, ![h].hasResponse = TRUE]
  /\ UNCHANGED <<agentValidations, validatorRequests, requestLog>>
  /\ UNCHANGED registryVars

ValidationResponse(sender, h, response, tag) ==
  /\ Requested(h)
  /\ sender = validations[h].validatorAddress
  /\ response <= MaxResponse
  /\ validations' = [validations EXCEPT
       ![h].response = response, ![h].tag = tag, ![h].hasResponse = TRUE]
  /\ UNCHANGED <<agentValidations, validatorRequests, requestLog>>
  /\ UNCHANGED registryVars

\* Faulty variant: requests without an answer count as zero.
CountedUnanswered(a, validators, tag) ==
  {i \in DOMAIN agentValidations[a] :
     LET s == validations[agentValidations[a][i]] IN
     /\ validators = {} \/ s.validatorAddress \in validators
     /\ tag = NoResponseTag \/ s.tag = tag}

\* The places in the agent's list whose answers getSummary takes in. No
\* validators and no tag mean no filter.
Counted(a, validators, tag) ==
  {i \in DOMAIN agentValidations[a] :
     LET s == validations[agentValidations[a][i]] IN
     /\ validators = {} \/ s.validatorAddress \in validators
     /\ tag = NoResponseTag \/ s.tag = tag
     /\ s.hasResponse}

GetSummary(a, validators, tag) ==
  LET counted == Counted(a, validators, tag)
      count == Cardinality(counted)
      totalResponse == SumFunctionOnSet(
        [i \in DOMAIN agentValidations[a] |-> validations[agentValidations[a][i]].response],
        counted)
  IN [count |-> count, avgResponse |-> IF count > 0 THEN totalResponse \div count ELSE 0]

-----------------------------------------------------------------------------
RequestCall(sender) ==
  \E v \in Validators, a \in AgentIds, u \in RequestURIs, h \in Hashes :
    ValidationRequest(sender, v, a, u, h)

ResponseCall(sender) ==
  \E h \in Hashes, r \in Responses, t \in ResponseTags :
    ValidationResponse(sender, h, r, t)

ValidationNext ==
  \/ \E sender \in Users : MayCall(sender) /\ RequestCall(sender)
  \/ \E sender \in Addresses :
       (sender \in Users => MayCall(sender)) /\ ResponseCall(sender)
  \/ RegistryNext /\ UNCHANGED validationVars

ValidationSystemInit == ValidationInit /\ RegistryInit

ValidationSpec ==
  ValidationSystemInit /\ [][ValidationNext]_<<registryVars, validationVars>>

-----------------------------------------------------------------------------
(* Properties.                                                             *)

\* The two lookup lists index the requests exactly: a request is once in the
\* list of its agent and once in the list of its validator, and nowhere else.
ListsIndexRequests ==
  \A h \in Hashes :
    /\ \A a \in AgentIds :
         Cardinality({i \in DOMAIN agentValidations[a] : agentValidations[a][i] = h})
           = IF Requested(h) /\ validations[h].agentId = a THEN 1 ELSE 0
    /\ \A v \in Addresses :
         Cardinality({i \in DOMAIN validatorRequests[v] : validatorRequests[v][i] = h})
           = IF validations[h].validatorAddress = v THEN 1 ELSE 0

\* An event that the workflows act on states what the registry still holds: a
\* hash never changes validator or agent, so a late answer meets the request it
\* was computed for.
LogMatchesRequests ==
  /\ \A e \in requestLog :
       /\ validations[e.requestHash].validatorAddress = e.validatorAddress
       /\ validations[e.requestHash].agentId = e.agentId
  /\ \A h \in Hashes : Requested(h) => \E e \in requestLog : e.requestHash = h

\* getSummary through the agent's list is the average over all answered
\* requests about the agent, however requests and repeated answers interleaved.
SummaryIsAverage ==
  \A a \in AgentIds, tag \in ResponseTags, validators \in SUBSET Addresses :
    LET answered == {h \in Hashes :
          /\ validations[h].hasResponse
          /\ validations[h].agentId = a
          /\ validators = {} \/ validations[h].validatorAddress \in validators
          /\ tag \in {NoResponseTag, validations[h].tag}}
        n == Cardinality(answered)
        total == Cardinality({p \in answered \X (1 .. MaxResponse) :
                           p[2] <= validations[p[1]].response})
        summary == GetSummary(a, validators, tag)
    IN /\ summary.count = n
       /\ n = 0 => summary.avgResponse = 0
       /\ n > 0 => /\ summary.avgResponse * n <= total
                   /\ total < (summary.avgResponse + 1) * n

\* A response, once given, changes only by another response of the same
\* validator: no step takes an answered request back to unanswered or blank.
AnswersStand ==
  [][\A h \in Hashes :
       validations[h].hasResponse =>
         /\ validations'[h].hasResponse
         /\ validations'[h].validatorAddress = validations[h].validatorAddress
         /\ validations'[h].agentId = validations[h].agentId
    ]_<<registryVars, validationVars>>
=============================================================================
