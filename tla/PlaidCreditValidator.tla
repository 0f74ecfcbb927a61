------------------------ MODULE PlaidCreditValidator ------------------------
(***************************************************************************)
(* Credit scores: the off-chain credit-workflow asks a service in an SGX   *)
(* enclave for a score and a quote, and the contract checks the quote (if  *)
(* there is one and a verifier is set), records the score and answers the  *)
(* request in one transaction. Deliveries are neither ordered nor counted. *)
(***************************************************************************)
EXTENDS ValidationRegistry

CONSTANTS
  Credit,            \* the address of this contract
  PlaidURIs,         \* the request URIs that start with "plaid:"
  CREDIT_SCORE,      \* the tag of its responses
  CreditForwarders,  \* addresses this contract's owner appoints as forwarder
  Scores,            \* scores the service computes, uint8
  Enclaves,          \* MRENCLAVE measurements
  Quotes,            \* SGX quotes: measurement, and the data reported with it
  Attested           \* the quotes that genuine enclaves made

MaxScore == 100

ASSUME CreditConstants ==
  /\ Credit \in Services \ Users
  /\ PlaidURIs \subseteq RequestURIs
  /\ CREDIT_SCORE \in ResponseTags
  /\ Scores \subseteq 0 .. 255
  /\ Quotes \subseteq [mrEnclave : Enclaves, agentId : AgentIds,
                       requestHash : Hashes, score : Scores]
  /\ Attested \subseteq Quotes

VARIABLES
  creditForwarder,     \* forwarderAddress
  creditScores,        \* creditScores
  creditVerifications, \* verifications: CreditVerification per agent
  sgxDcapVerifier,     \* whether a DCAP verifier is set
  expectedMrEnclave    \* the trusted measurement

creditVars ==
  <<creditForwarder, creditScores, creditVerifications, sgxDcapVerifier,
    expectedMrEnclave>>

\* A report without a quote is a V1 report, or a V2 report whose quote is empty.
\* Its dataHash commits to the service's response, of which the model keeps the
\* quote: it is the report's.
CreditReports ==
  [agentId : AgentIds, score : Scores, requestHash : Hashes,
   sgxQuote : Optional(Quotes)]

CreditVerification ==
  [score : 0 .. MaxScore, dataHash : Optional(Quotes), hasScore : BOOLEAN]

CreditTypeOK ==
  /\ creditForwarder \in CreditForwarders
  /\ creditScores \in [AgentIds -> 0 .. MaxScore]
  /\ creditVerifications \in [AgentIds -> CreditVerification]
  /\ sgxDcapVerifier \in BOOLEAN
  /\ expectedMrEnclave \in Enclaves

CreditInit ==
  /\ creditForwarder \in CreditForwarders
  /\ creditScores = [a \in AgentIds |-> 0]
  /\ creditVerifications =
       [a \in AgentIds |-> [score |-> 0, dataHash |-> {}, hasScore |-> FALSE]]
  /\ sgxDcapVerifier = FALSE
  /\ expectedMrEnclave \in Enclaves

-----------------------------------------------------------------------------
\* credit-workflow: onLogTrigger. What the DON may have signed by now: for an
\* event of this validator with a Plaid URI, whatever the service answered, a
\* score and a quote that need not belong together. The workflow keeps no state
\* and events are never retracted, so this set only grows; a report may be
\* delivered at any later time, in any order, never or again.
SignedCreditReports ==
  {r \in CreditReports :
     \E e \in requestLog :
       /\ e.validatorAddress = Credit
       /\ e.requestURI \in PlaidURIs
       /\ r.agentId = e.agentId
       /\ r.requestHash = e.requestHash}

\* Faulty variant: a quote serves any request.
QuoteOfAnyRequest(r) ==
  \A q \in r.sgxQuote :
    /\ q \in Attested
    /\ q.mrEnclave = expectedMrEnclave
    /\ q.agentId = r.agentId
    /\ q.score = r.score

\* The quote is genuine, of the trusted enclave, over this agent, request and
\* score.
QuoteVerifies(r) ==
  \A q \in r.sgxQuote :
    /\ q \in Attested
    /\ q.mrEnclave = expectedMrEnclave
    /\ q.agentId = r.agentId
    /\ q.requestHash = r.requestHash
    /\ q.score = r.score

\* Faulty variant: every report is answered like a passed KYC check.
CreditOnReportAnswering100(sender, r) ==
  /\ sender = creditForwarder
  /\ r.score <= MaxScore
  /\ Exists(r.agentId)
  /\ sgxDcapVerifier => QuoteVerifies(r)
  /\ creditScores' = [creditScores EXCEPT ![r.agentId] = r.score]
  /\ creditVerifications' = [creditVerifications EXCEPT ![r.agentId] =
       [score |-> r.score, dataHash |-> r.sgxQuote, hasScore |-> TRUE]]
  /\ ValidationResponse(Credit, r.requestHash, 100, CREDIT_SCORE)
  /\ UNCHANGED <<creditForwarder, sgxDcapVerifier, expectedMrEnclave>>

\* PlaidCreditValidator.onReport.
CreditOnReport(sender, r) ==
  /\ sender = creditForwarder
  /\ r.score <= MaxScore
  /\ Exists(r.agentId)
  /\ sgxDcapVerifier => QuoteVerifies(r)
  /\ creditScores' = [creditScores EXCEPT ![r.agentId] = r.score]
  /\ creditVerifications' = [creditVerifications EXCEPT ![r.agentId] =
       [score |-> r.score, dataHash |-> r.sgxQuote, hasScore |-> TRUE]]
  /\ ValidationResponse(Credit, r.requestHash, r.score, CREDIT_SCORE)
  /\ UNCHANGED <<creditForwarder, sgxDcapVerifier, expectedMrEnclave>>

SetCreditForwarder(f) ==
  /\ creditForwarder' = f
  /\ UNCHANGED <<creditScores, creditVerifications,
                 sgxDcapVerifier, expectedMrEnclave>>
  /\ UNCHANGED validationVars /\ UNCHANGED registryVars

SetSgxDcapVerifier(on) ==
  /\ sgxDcapVerifier' = on
  /\ UNCHANGED <<creditForwarder, creditScores,
                 creditVerifications, expectedMrEnclave>>
  /\ UNCHANGED validationVars /\ UNCHANGED registryVars

SetExpectedMrEnclave(m) ==
  /\ expectedMrEnclave' = m
  /\ UNCHANGED <<creditForwarder, creditScores,
                 creditVerifications, sgxDcapVerifier>>
  /\ UNCHANGED validationVars /\ UNCHANGED registryVars

\* Forwarders deliver only what the DON signed; other accounts submit anything.
CanSubmitCredit(sender, r) == sender \in CreditForwarders => r \in SignedCreditReports

CreditNext ==
  \/ \E sender \in CreditForwarders \cup Users, r \in CreditReports :
       CanSubmitCredit(sender, r) /\ CreditOnReport(sender, r)
  \/ \E f \in CreditForwarders : SetCreditForwarder(f)
  \/ \E on \in BOOLEAN : SetSgxDcapVerifier(on)
  \/ \E m \in Enclaves : SetExpectedMrEnclave(m)

CreditSystemNext ==
  \/ CreditNext
  \/ \E sender \in Users :
       /\ MayCall(sender)
       /\ RequestCall(sender) \/ ResponseCall(sender)
       /\ UNCHANGED creditVars
  \/ RegistryNext /\ UNCHANGED validationVars /\ UNCHANGED creditVars

creditSystemVars == <<registryVars, validationVars, creditVars>>

CreditSystemInit == ValidationSystemInit /\ CreditInit

CreditSpec ==
  /\ CreditSystemInit
  /\ [][CreditSystemNext]_creditSystemVars

-----------------------------------------------------------------------------
(* Properties.                                                             *)

\* An agent's score is the answer the ValidationRegistry holds to a credit
\* request about that agent, however reports were delayed, repeated or
\* reordered; an agent without a score reads as zero.
CreditBacked ==
  \A a \in AgentIds :
    /\ creditVerifications[a].score = creditScores[a]
    /\ ~creditVerifications[a].hasScore => creditScores[a] = 0
    /\ creditVerifications[a].hasScore =>
         \E e \in requestLog :
           /\ e.agentId = a
           /\ e.validatorAddress = Credit
           /\ validations[e.requestHash].hasResponse
           /\ validations[e.requestHash].response = creditScores[a]
           /\ validations[e.requestHash].tag = CREDIT_SCORE

\* Request h, to this contract and about agent a, holds a's new score as its answer.
AnsweredNow(a, h) ==
  /\ validations[h].agentId = a
  /\ validations[h].validatorAddress = Credit
  /\ validations'[h].hasResponse
  /\ validations'[h].response = creditScores'[a]

\* What is recorded of an agent's score changes only as a request about this agent
\* is answered with it. While a verifier is set, no quote serves another agent,
\* request, score or enclave: if the score came with a quote, it was attested by the
\* enclave trusted at that moment, for a request about this agent that it answers.
\* Of a score without a quote the contract asks nothing more.
ScoreAttested ==
  [][\A a \in AgentIds :
       creditVerifications'[a] # creditVerifications[a] =>
         /\ \E e \in requestLog : AnsweredNow(a, e.requestHash)
         /\ sgxDcapVerifier =>
              \A q \in creditVerifications'[a].dataHash :
                /\ q \in Attested
                /\ q.mrEnclave = expectedMrEnclave
                /\ AnsweredNow(a, q.requestHash)
    ]_creditSystemVars
=============================================================================
