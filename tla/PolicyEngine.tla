---------------------------- MODULE PolicyEngine ----------------------------
(***************************************************************************)
(* The ACE policy engine and the consumer it protects: one target, one     *)
(* selector. The engine's owner installs, orders and removes policies. A   *)
(* report runs through them in order; the first that does not pass it on   *)
(* decides, and if none does the default decides. Reports are arbitrary:   *)
(* the contracts rely on no workflow for what a report claims.             *)
(***************************************************************************)
EXTENDS Policies, Sequences, SequencesExt

CONSTANTS
  MAX_POLICIES,       \* the engine's limit, 8 in the source
  Forwarders,         \* addresses the consumer's owner appoints as forwarder
  Callers             \* accounts that call onReport, forwarders among them

ASSUME EngineConstants ==
  /\ MAX_POLICIES \in Nat \ {0}
  /\ Forwarders \subseteq Callers

VARIABLES
  policies,           \* targetPolicies[consumer][onReport]
  extractorSet,       \* extractorBySelector[onReport] is set
  defaultPolicyAllow, \* defaultPolicyAllow
  targetDefault,      \* {targetDefaultPolicyAllow}, {} if not targetHasDefault
  forwarder,          \* the consumer's forwarderAddress
  event,              \* the consumer's event of the last transaction
  facts               \* what the registry and validators say of each agent

configVars == <<policies, extractorSet, defaultPolicyAllow, targetDefault>>
engineVars == <<configVars, forwarder, event>>

NoEvent == [name |-> "none"]
AccessEvents ==
  {NoEvent}
    \cup [name : {"AccessGranted"}, agentId : Agents, tier : Tiers,
          accountableHuman : Accounts]
    \cup [name : {"AccessDenied"}, agentId : Agents]

EngineTypeOK ==
  /\ policies \in Seq(PolicyNames)
  /\ extractorSet \in BOOLEAN
  /\ defaultPolicyAllow \in BOOLEAN
  /\ targetDefault \in {{}, {TRUE}, {FALSE}}
  /\ forwarder \in Forwarders
  /\ event \in AccessEvents
  /\ facts \in [Agents -> Facts]

\* The engine before anything is wired.
EngineInit ==
  /\ policies = <<>>
  /\ extractorSet = FALSE
  /\ defaultPolicyAllow \in BOOLEAN
  /\ targetDefault = {}
  /\ forwarder \in Forwarders
  /\ event = NoEvent

\* The engine as the scripts deploy it: TieredPolicy alone, reject by default.
DeployedInit ==
  /\ policies = <<"tiered">>
  /\ extractorSet = TRUE
  /\ defaultPolicyAllow = FALSE
  /\ targetDefault = {}
  /\ forwarder \in Forwarders
  /\ event = NoEvent

-----------------------------------------------------------------------------
(* Running a report.                                                       *)

Installed(p) == \E i \in DOMAIN policies : policies[i] = p

DefaultAllows == IF targetDefault = {} THEN defaultPolicyAllow ELSE TRUE \in targetDefault

\* Positions whose policy does not pass the report on.
Deciding(r) ==
  {i \in DOMAIN policies : PolicyResult(policies[i], r, facts[r.agentId]) # "Continue"}

\* run() returns instead of reverting. Policies are installed with parameter
\* names, so without an extractor their parameters are missing: a revert.
Run(r) ==
  IF policies = <<>> THEN DefaultAllows
  ELSE /\ extractorSet
       /\ IF Deciding(r) = {} THEN DefaultAllows
          ELSE \E i \in Deciding(r) :
                 /\ \A j \in Deciding(r) : i <= j
                 /\ PolicyResult(policies[i], r, facts[r.agentId]) = "Allowed"

\* Faulty variant: onReport without its runPolicy modifier.
OnReportUnprotected(sender, r) ==
  /\ sender = forwarder
  /\ event' = IF r.approved
              THEN [name |-> "AccessGranted", agentId |-> r.agentId,
                    tier |-> r.tier, accountableHuman |-> r.accountableHuman]
              ELSE [name |-> "AccessDenied", agentId |-> r.agentId]
  /\ UNCHANGED <<configVars, forwarder>>

\* WhitewallConsumer.onReport: runPolicy comes first, and what it rejects
\* reverts before the forwarder check.
OnReport(sender, r) ==
  /\ Run(r)
  /\ sender = forwarder
  /\ event' = IF r.approved
              THEN [name |-> "AccessGranted", agentId |-> r.agentId,
                    tier |-> r.tier, accountableHuman |-> r.accountableHuman]
              ELSE [name |-> "AccessDenied", agentId |-> r.agentId]
  /\ UNCHANGED <<configVars, forwarder>>

SetForwarder(f) ==
  /\ forwarder' = f
  /\ event' = NoEvent
  /\ UNCHANGED configVars

-----------------------------------------------------------------------------
(* The engine owner's calls.                                               *)

\* Faulty variant: without the search for a duplicate.
CanInstallTwice(p) == Len(policies) < MAX_POLICIES

CanInstall(p) == Len(policies) < MAX_POLICIES /\ ~Installed(p)

AddPolicy(p) ==
  /\ CanInstall(p)
  /\ policies' = Append(policies, p)
  /\ UNCHANGED <<extractorSet, defaultPolicyAllow, targetDefault>>

\* position counts from 0.
AddPolicyAt(p, position) ==
  /\ position <= Len(policies)
  /\ CanInstall(p)
  /\ policies' = InsertAt(policies, position + 1, p)
  /\ UNCHANGED <<extractorSet, defaultPolicyAllow, targetDefault>>

RemovePolicy(p) ==
  /\ policies' = RemoveFirst(policies, p)
  /\ UNCHANGED <<extractorSet, defaultPolicyAllow, targetDefault>>

SetExtractor(set) ==
  /\ extractorSet' = set
  /\ UNCHANGED <<policies, defaultPolicyAllow, targetDefault>>

SetDefaultPolicyAllow(allow) ==
  /\ defaultPolicyAllow' = allow
  /\ UNCHANGED <<policies, extractorSet, targetDefault>>

SetTargetDefaultPolicyAllow(allow) ==
  /\ targetDefault' = {allow}
  /\ UNCHANGED <<policies, extractorSet, defaultPolicyAllow>>

EngineAdmin ==
  /\ \/ \E p \in PolicyNames :
          \/ AddPolicy(p)
          \/ \E position \in 0 .. MAX_POLICIES : AddPolicyAt(p, position)
          \/ RemovePolicy(p)
     \/ \E on \in BOOLEAN :
          \/ SetExtractor(on)
          \/ SetDefaultPolicyAllow(on)
          \/ SetTargetDefaultPolicyAllow(on)
  /\ event' = NoEvent
  /\ UNCHANGED forwarder

-----------------------------------------------------------------------------
\* Any transaction of another contract: one agent's facts move, to anything.
FactsMove(a) ==
  /\ event' = NoEvent
  /\ UNCHANGED <<configVars, forwarder>>
  /\ facts' \in {[facts EXCEPT ![a] = f] : f \in Facts}

DeployedNext ==
  \/ \E a \in Agents : FactsMove(a)
  \/ \E sender \in Callers, r \in AccessReports : OnReport(sender, r) /\ UNCHANGED facts
  \/ \E f \in Forwarders : SetForwarder(f) /\ UNCHANGED facts

ManagedNext ==
  \/ DeployedNext
  \/ EngineAdmin /\ UNCHANGED facts

FactsInit == facts = [a \in Agents |-> NoFacts]

DeployedStart == DeployedInit /\ FactsInit
ManagedStart == EngineInit /\ FactsInit

\* As deployed, the engine's owner leaves it alone; managed, it is rewired at
\* any time.
DeployedSpec == DeployedStart /\ [][DeployedNext]_<<engineVars, facts>>
ManagedSpec == ManagedStart /\ [][ManagedNext]_<<engineVars, facts>>

-----------------------------------------------------------------------------
(* Properties.                                                             *)

\* "Double protection" (TieredPolicy): whatever reports claim, access is granted
\* only at a tier the agent has earned on-chain at that moment.
GrantsAreEarned ==
  event.name = "AccessGranted" =>
    event.tier >= 2 /\ Level(facts[event.agentId]) >= Required(event.tier)

\* The same for every wiring in which TieredPolicy runs first, whatever follows
\* it and whatever the defaults are.
TieredFirstSuffices ==
  policies # <<>> /\ policies[1] = "tiered" => GrantsAreEarned

\* However the owner has wired the engine, while it rejects by default a grant
\* needs a registered agent that its metadata and the validator's record both call
\* human.
FailClosed ==
  event.name = "AccessGranted" /\ ~DefaultAllows =>
    LET f == facts[event.agentId] IN f.registered /\ f.humanMetadata /\ f.humanVerified

\* The chain CreditPolicy, KYCPolicy, HumanVerifiedPolicy (strictest first)
\* lets through exactly the reports that TieredPolicy lets through.
ChainIsTiered ==
  extractorSet /\ policies = <<"credit", "kyc", "human">> =>
    \A r \in AccessReports :
      Run(r) <=> TieredPolicy(r, facts[r.agentId]) = "Allowed"

\* The list of policies never holds one twice nor exceeds the engine's limit,
\* so the order in which they are consulted is well defined.
PolicyListSound ==
  /\ Len(policies) <= MAX_POLICIES
  /\ \A i, j \in DOMAIN policies : policies[i] = policies[j] => i = j

Granted ==
  IF event.name = "AccessGranted" THEN {[agent |-> event.agentId, tier |-> event.tier]}
  ELSE {}

Promise == INSTANCE AccessControl
  WITH level <- [a \in Agents |-> Level(facts[a])], granted <- Granted

\* The deployed engine implements the abstract access control: each grant is one
\* the promise allows, and every other transaction only moves levels.
ImplementsPromise == Promise!Spec
=============================================================================
