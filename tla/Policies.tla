------------------------------ MODULE Policies ------------------------------
(***************************************************************************)
(* The on-chain policies that a report must pass before the consumer acts  *)
(* on it, as functions of the report and of the facts that the policy      *)
(* reads about the report's agent when it runs.                            *)
(***************************************************************************)
EXTENDS Integers

CONSTANTS
  Agents,          \* agent ids that reports name
  Accounts,        \* accounts that reports name as accountable human
  Tiers,           \* tiers that reports claim, uint8
  HumanTier,       \* requiredTier of HumanVerifiedPolicy (2 as deployed)
  KycTier,         \* requiredTier of KYCPolicy (3)
  CreditTier,      \* requiredTier of CreditPolicy (4)
  MinCreditScore,  \* minCreditScore of CreditPolicy and TieredPolicy
  CreditScores     \* scores an agent can have

ASSUME PolicyConstants ==
  /\ Tiers \subseteq 0 .. 255
  /\ CreditScores \subseteq 0 .. 100 /\ 0 \in CreditScores
  /\ {HumanTier, KycTier, CreditTier, MinCreditScore} \subseteq 0 .. 255

\* What WhitewallExtractor decodes; the reason is only copied to an event.
AccessReports ==
  [agentId : Agents, approved : BOOLEAN, tier : Tiers, accountableHuman : Accounts]

\* What the policies read: ownerOf, getMetadata("humanVerified"),
\* isHumanVerified, isKYCVerified, hasCreditScore and getCreditScore.
Facts ==
  [registered : BOOLEAN, humanMetadata : BOOLEAN, humanVerified : BOOLEAN,
   kycVerified : BOOLEAN, hasScore : BOOLEAN, creditScore : CreditScores]

NoFacts ==
  [registered |-> FALSE, humanMetadata |-> FALSE, humanVerified |-> FALSE,
   kycVerified |-> FALSE, hasScore |-> FALSE, creditScore |-> 0]

-----------------------------------------------------------------------------
\* Faulty variant: the validator's record alone counts.
HumanByRecord(f) == f.registered /\ f.humanVerified

\* Checks 3 to 5 of every policy.
HumanConfirmed(f) == f.registered /\ f.humanMetadata /\ f.humanVerified

CreditConfirmed(f) == f.hasScore /\ f.creditScore >= MinCreditScore

Verdict(allowed) == IF allowed THEN "Allowed" ELSE "Rejected"

HumanVerifiedPolicy(r, f) ==
  Verdict(r.approved /\ r.tier >= HumanTier /\ HumanConfirmed(f))

KYCPolicy(r, f) ==
  IF r.approved /\ r.tier < KycTier THEN "Continue"
  ELSE Verdict(r.approved /\ HumanConfirmed(f) /\ f.kycVerified)

\* Faulty variant: reports of the policy's own tier are passed on too.
CreditPolicyOffByOne(r, f) ==
  IF r.approved /\ r.tier <= CreditTier THEN "Continue"
  ELSE Verdict(r.approved /\ HumanConfirmed(f) /\ f.kycVerified /\ CreditConfirmed(f))

CreditPolicy(r, f) ==
  IF r.approved /\ r.tier < CreditTier THEN "Continue"
  ELSE Verdict(r.approved /\ HumanConfirmed(f) /\ f.kycVerified /\ CreditConfirmed(f))

\* Faulty variant: each check starts one tier late.
TieredPolicyOffByOne(r, f) ==
  Verdict(/\ r.approved
          /\ r.tier >= 2
          /\ HumanConfirmed(f)
          /\ r.tier > 3 => f.kycVerified
          /\ r.tier > 4 => CreditConfirmed(f))

TieredPolicy(r, f) ==
  Verdict(/\ r.approved
          /\ r.tier >= 2
          /\ HumanConfirmed(f)
          /\ r.tier >= 3 => f.kycVerified
          /\ r.tier >= 4 => CreditConfirmed(f))

PolicyNames == {"human", "kyc", "credit", "tiered"}

PolicyResult(p, r, f) ==
  CASE p = "human"  -> HumanVerifiedPolicy(r, f)
    [] p = "kyc"    -> KYCPolicy(r, f)
    [] p = "credit" -> CreditPolicy(r, f)
    [] p = "tiered" -> TieredPolicy(r, f)

-----------------------------------------------------------------------------
\* The level an agent has earned by the facts: 0 unregistered, 1 registered, 2 a
\* confirmed human, by metadata and record both, 3 with KYC, 4 with sufficient
\* credit. It shares nothing with the policies' own checks.
Level(f) ==
  IF ~f.registered THEN 0
  ELSE IF ~(f.humanMetadata /\ f.humanVerified) THEN 1
  ELSE IF ~f.kycVerified THEN 2
  ELSE IF ~(f.hasScore /\ f.creditScore >= MinCreditScore) THEN 3
  ELSE 4

\* The level a tier asks for: tiers above 4 ask for no more than 4.
Required(t) == IF t > 4 THEN 4 ELSE t
=============================================================================
