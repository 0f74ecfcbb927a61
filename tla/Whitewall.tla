------------------------------ MODULE Whitewall ------------------------------
(***************************************************************************)
(* The deployed system: the registries, the three validators, the policy   *)
(* engine wired with TieredPolicy and the consumer. Transactions of all    *)
(* contracts interleave; the engine reads the others' state as it stands   *)
(* when an access report is delivered.                                     *)
(***************************************************************************)
EXTENDS WorldIDValidator, StripeKYCValidator, PlaidCreditValidator

CONSTANTS
  Tiers,              \* tiers that access reports claim
  MinCreditScore,     \* minCreditScore of TieredPolicy (50 as deployed)
  ConsumerForwarders  \* addresses the consumer's owner appoints as forwarder

ASSUME SystemConstants ==
  /\ Kyc # Credit
  /\ Tiers \subseteq 0 .. 255
  /\ MinCreditScore \in 0 .. 255

VARIABLES policies, extractorSet, defaultPolicyAllow, targetDefault, forwarder, event

\* What the policies read, where they read it.
FactsOf(a) ==
  [registered    |-> Exists(a),
   humanMetadata |-> metadata[a].humanVerified # NoTag,
   humanVerified |-> verifications[a].isVerified,
   kycVerified   |-> kycVerified[a],
   hasScore      |-> creditVerifications[a].hasScore,
   creditScore   |-> creditScores[a]]

Engine == INSTANCE PolicyEngine WITH
  Agents       <- AgentIds,
  Accounts     <- Users,
  HumanTier    <- 2,
  KycTier      <- 3,
  CreditTier   <- 4,
  CreditScores <- {0} \cup (Scores \cap (0 .. MaxScore)),
  MAX_POLICIES <- 8,
  Forwarders   <- ConsumerForwarders,
  Callers      <- ConsumerForwarders \cup Users,
  facts        <- [a \in AgentIds |-> FactsOf(a)]

chainVars == <<registryVars, worldIdVars, validationVars, kycVars, creditVars>>
engineVars == <<policies, extractorSet, defaultPolicyAllow, targetDefault, forwarder, event>>
vars == <<chainVars, engineVars>>

-----------------------------------------------------------------------------
(* The steps of each contract, all the others' state unchanged.            *)

UserStep ==
  \E sender \in Users :
    /\ MayCall(sender)
    /\ \/ /\ WorldIdCall(sender)
          /\ UNCHANGED <<validationVars, kycVars, creditVars>>
       \/ /\ RequestCall(sender) \/ ResponseCall(sender)
          /\ UNCHANGED <<worldIdVars, kycVars, creditVars>>

ValidatorStep ==
  \/ KycNext /\ UNCHANGED <<worldIdVars, creditVars>>
  \/ CreditNext /\ UNCHANGED <<worldIdVars, kycVars>>

RegistryStep ==
  RegistryNext /\ UNCHANGED <<worldIdVars, validationVars, kycVars, creditVars>>

\* No contract but the consumer emits access events.
ChainStep ==
  /\ UserStep \/ ValidatorStep \/ RegistryStep
  /\ event' = Engine!NoEvent
  /\ UNCHANGED <<policies, extractorSet, defaultPolicyAllow, targetDefault, forwarder>>

\* Faulty variant: a consumer that grants whatever its forwarder approves.
ConsumerStepUnprotected ==
  /\ \E r \in Engine!AccessReports :
       /\ r.approved
       /\ event' = [name |-> "AccessGranted", agentId |-> r.agentId,
                    tier |-> r.tier, accountableHuman |-> r.accountableHuman]
  /\ UNCHANGED <<policies, extractorSet, defaultPolicyAllow, targetDefault, forwarder>>
  /\ UNCHANGED chainVars

ConsumerStep ==
  /\ \/ \E sender \in ConsumerForwarders \cup Users, r \in Engine!AccessReports :
          Engine!OnReport(sender, r)
     \/ \E f \in ConsumerForwarders : Engine!SetForwarder(f)
  /\ UNCHANGED chainVars

Init ==
  /\ RegistryInit /\ WorldIdInit /\ ValidationInit /\ KycInit /\ CreditInit
  /\ Engine!DeployedInit

Next == ChainStep \/ ConsumerStep

Spec == Init /\ [][Next]_vars

-----------------------------------------------------------------------------
(* Properties.                                                             *)

TypeOK ==
  /\ RegistryTypeOK /\ WorldIdTypeOK /\ ValidationTypeOK /\ KycTypeOK /\ CreditTypeOK
  /\ Engine!EngineTypeOK

\* A granted agent holds a World ID nullifier spent on it alone, and at KYC and
\* credit tiers the ValidationRegistry holds its validators' affirmative answers
\* to requests about this agent, the former on a completed Stripe session.
GrantsAreBacked ==
  event.name = "AccessGranted" =>
    LET a == event.agentId IN
    /\ \E n \in nullifierUsed :
         verifications[a].nullifierHash = {n} /\ nullifierToAgent[n] = a
    /\ event.tier >= 3 =>
         \E e \in requestLog :
           /\ e.agentId = a
           /\ e.validatorAddress = Kyc
           /\ e.requestURI \in sessionVerified
           /\ validations[e.requestHash].response = 100
    /\ event.tier >= 4 =>
         \E e \in requestLog :
           /\ e.agentId = a
           /\ e.validatorAddress = Credit
           /\ validations[e.requestHash].hasResponse
           /\ validations[e.requestHash].response >= MinCreditScore

\* The contracts together implement the engine with its environment: every
\* transaction of the other contracts moves the facts of at most one agent and
\* grants nothing, so what holds of the deployed engine holds of the system.
ImplementsEngine == Engine!DeployedSpec
=============================================================================
