------------------------- MODULE StripeKYCValidator -------------------------
(***************************************************************************)
(* KYC by Stripe Identity: the off-chain kyc-workflow turns a              *)
(* ValidationRequest event into a report on the session the request names, *)
(* and the contract records the report and answers the request in one      *)
(* transaction. Nothing orders or counts deliveries: a signed report may   *)
(* arrive late, never, or again, and the workflow may run again.           *)
(***************************************************************************)
EXTENDS ValidationRegistry

CONSTANTS
  Kyc,             \* the address of this contract
  StripeURIs,      \* the request URIs "stripe:<session>", one per session
  KYC_VERIFIED,    \* the tag of its responses
  KycForwarders,   \* addresses this contract's owner appoints as forwarder
  NoSession        \* bytes32(0)

ASSUME KycConstants ==
  /\ Kyc \in Services \ Users
  /\ StripeURIs \subseteq RequestURIs
  /\ KYC_VERIFIED \in ResponseTags
  /\ NoSession \notin StripeURIs

VARIABLES
  sessionVerified,  \* external: sessions whose Stripe status is "verified"
  kycReports,       \* reports the DON has signed
  kycForwarder,     \* forwarderAddress
  kycVerified,      \* kycVerified
  kycVerifications  \* verifications: KYCVerification per agent

kycVars ==
  <<sessionVerified, kycReports, kycForwarder, kycVerified, kycVerifications>>

KycReports ==
  [agentId : AgentIds, verified : BOOLEAN, requestHash : Hashes,
   sessionHash : StripeURIs]

KYCVerification == [verified : BOOLEAN, sessionHash : StripeURIs \cup {NoSession}]

KycTypeOK ==
  /\ sessionVerified \subseteq StripeURIs
  /\ kycReports \subseteq KycReports
  /\ kycForwarder \in KycForwarders
  /\ kycVerified \in [AgentIds -> BOOLEAN]
  /\ kycVerifications \in [AgentIds -> KYCVerification]

KycInit ==
  /\ sessionVerified = {}
  /\ kycReports = {}
  /\ kycForwarder \in KycForwarders
  /\ kycVerified = [a \in AgentIds |-> FALSE]
  /\ kycVerifications =
       [a \in AgentIds |-> [verified |-> FALSE, sessionHash |-> NoSession]]

-----------------------------------------------------------------------------
\* A person completes a session; Stripe keeps it verified.
StripeVerifies(s) ==
  /\ sessionVerified' = sessionVerified \cup {s}
  /\ UNCHANGED <<kycReports, kycForwarder, kycVerified, kycVerifications>>
  /\ UNCHANGED validationVars /\ UNCHANGED registryVars

\* kyc-workflow: onLogTrigger. Events for other validators are skipped, other
\* URIs throw; the status is read once, at any time after the request. A failed
\* answer of Stripe has no status and counts as not verified. A run that throws
\* signs nothing, and its one write may fail: reports are never promised.
KycWorkflow(e) ==
  /\ e \in requestLog
  /\ e.validatorAddress = Kyc
  /\ e.requestURI \in StripeURIs
  /\ \E verified \in BOOLEAN :
       /\ verified => e.requestURI \in sessionVerified
       /\ kycReports' = kycReports \cup
            {[agentId |-> e.agentId, verified |-> verified,
              requestHash |-> e.requestHash, sessionHash |-> e.requestURI]}
  /\ UNCHANGED <<sessionVerified, kycForwarder, kycVerified, kycVerifications>>
  /\ UNCHANGED validationVars /\ UNCHANGED registryVars

\* Faulty variant: anyone may deliver a report.
KycOnReportFromAnyone(sender, r) ==
  /\ Exists(r.agentId)
  /\ kycVerified' = [kycVerified EXCEPT ![r.agentId] = r.verified]
  /\ kycVerifications' = [kycVerifications EXCEPT ![r.agentId] =
       [verified |-> r.verified, sessionHash |-> r.sessionHash]]
  /\ ValidationResponse(Kyc, r.requestHash, IF r.verified THEN 100 ELSE 0, KYC_VERIFIED)
  /\ UNCHANGED <<sessionVerified, kycReports, kycForwarder>>

\* Faulty variant: requestHash is stored in place of the session.
KycOnReportStoringRequest(sender, r) ==
  /\ sender = kycForwarder
  /\ Exists(r.agentId)
  /\ kycVerified' = [kycVerified EXCEPT ![r.agentId] = r.verified]
  /\ kycVerifications' = [kycVerifications EXCEPT ![r.agentId] =
       [verified |-> r.verified, sessionHash |-> r.requestHash]]
  /\ ValidationResponse(Kyc, r.requestHash, IF r.verified THEN 100 ELSE 0, KYC_VERIFIED)
  /\ UNCHANGED <<sessionVerified, kycReports, kycForwarder>>

\* StripeKYCValidator.onReport.
KycOnReport(sender, r) ==
  /\ sender = kycForwarder
  /\ Exists(r.agentId)
  /\ kycVerified' = [kycVerified EXCEPT ![r.agentId] = r.verified]
  /\ kycVerifications' = [kycVerifications EXCEPT ![r.agentId] =
       [verified |-> r.verified, sessionHash |-> r.sessionHash]]
  /\ ValidationResponse(Kyc, r.requestHash, IF r.verified THEN 100 ELSE 0, KYC_VERIFIED)
  /\ UNCHANGED <<sessionVerified, kycReports, kycForwarder>>

SetKycForwarder(f) ==
  /\ kycForwarder' = f
  /\ UNCHANGED <<sessionVerified, kycReports, kycVerified, kycVerifications>>
  /\ UNCHANGED validationVars /\ UNCHANGED registryVars

\* Forwarders deliver only what the DON signed; other accounts submit anything.
CanSubmitKyc(sender, r) == sender \in KycForwarders => r \in kycReports

KycNext ==
  \/ \E s \in StripeURIs : StripeVerifies(s)
  \/ \E e \in requestLog : KycWorkflow(e)
  \/ \E sender \in KycForwarders \cup Users, r \in KycReports :
       CanSubmitKyc(sender, r) /\ KycOnReport(sender, r)
  \/ \E f \in KycForwarders : SetKycForwarder(f)

KycSystemNext ==
  \/ KycNext
  \/ \E sender \in Users :
       /\ MayCall(sender)
       /\ RequestCall(sender) \/ ResponseCall(sender)
       /\ UNCHANGED kycVars
  \/ RegistryNext /\ UNCHANGED validationVars /\ UNCHANGED kycVars

kycSystemVars == <<registryVars, validationVars, kycVars>>

KycSystemInit == ValidationSystemInit /\ KycInit

KycSpec == KycSystemInit /\ [][KycSystemNext]_kycSystemVars

-----------------------------------------------------------------------------
(* Properties.                                                             *)

\* An agent counts as KYC-verified only while the ValidationRegistry holds an
\* affirmative answer of this validator to a request about that agent, made on
\* a session a person completed: whatever order reports arrive in, however
\* often, and whoever owns the agent by then.
KycBacked ==
  \A a \in AgentIds :
    /\ kycVerifications[a].verified = kycVerified[a]
    /\ kycVerified[a] =>
         /\ kycVerifications[a].sessionHash \in sessionVerified
         /\ \E e \in requestLog :
              /\ e.agentId = a
              /\ e.validatorAddress = Kyc
              /\ e.requestURI = kycVerifications[a].sessionHash
              /\ validations[e.requestHash].response = 100
              /\ validations[e.requestHash].tag = KYC_VERIFIED

\* Only this contract answers requests addressed to it: an answer is 0 or 100
\* under its tag, and 100 only on a completed session.
KycAnswersAreReports ==
  \A e \in requestLog :
    e.validatorAddress = Kyc /\ validations[e.requestHash].hasResponse =>
      /\ e.requestURI \in StripeURIs
      /\ validations[e.requestHash].tag = KYC_VERIFIED
      /\ validations[e.requestHash].response \in {0, 100}
      /\ validations[e.requestHash].response = 100 => e.requestURI \in sessionVerified

\* A signed report never dies in flight. However long it is delayed and whoever
\* owns the agent and makes requests meanwhile, its agent exists and its hash still
\* names a request about this agent to this validator, so that all that onReport
\* and validationResponse ask for holds, but the forwarder; and it says verified
\* only of a session that was completed, and that the request named.
KycReportsDeliverable ==
  \A r \in kycReports :
    /\ Exists(r.agentId)
    /\ validations[r.requestHash].validatorAddress = Kyc
    /\ validations[r.requestHash].agentId = r.agentId
    /\ \E e \in requestLog : e.requestHash = r.requestHash /\ e.requestURI = r.sessionHash
    /\ r.verified => r.sessionHash \in sessionVerified
=============================================================================
