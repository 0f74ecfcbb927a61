--------------------------- MODULE AccessWorkflow ---------------------------
(***************************************************************************)
(* The access-workflow in front of the deployed engine: an HTTP request    *)
(* names an agent and a resource; the workflow gets the agent's state,     *)
(* evaluates the request and has a signed report delivered to the          *)
(* consumer, while other transactions go on.                               *)
(***************************************************************************)
EXTENDS PolicyEngine

CONSTANTS
  SampleAgent,  \* agent 1, which readAgentState knows
  SampleOwner,  \* the owner that it gives for it
  ZERO_ADDRESS

ASSUME WorkflowConstants == {SampleOwner, ZERO_ADDRESS} \subseteq Accounts

VARIABLE job    \* the request in hand: the report about it

Resources == {"image", "video", "premium"}
RESOURCE_TIER == [image |-> 2, video |-> 3, premium |-> 4]

NoJob == [phase |-> "idle"]
Jobs ==
  {NoJob}
    \cup [phase : {"writing"}, report : AccessReports]

WorkflowTypeOK == EngineTypeOK /\ job \in Jobs

-----------------------------------------------------------------------------
\* readAgentState: nothing is read. One agent is known as registered and not
\* verified, all others as not registered.
ReadAgentState(a) ==
  [registered    |-> a = SampleAgent,
   owner         |-> IF a = SampleAgent THEN SampleOwner ELSE ZERO_ADDRESS,
   humanVerified |-> FALSE,
   kycVerified   |-> FALSE,
   creditScore   |-> 0]

\* Faulty variant: the threshold itself does not suffice.
GateAboveThreshold(state) ==
  IF ~state.registered THEN 0
  ELSE IF ~state.humanVerified THEN 1
  ELSE IF ~state.kycVerified THEN 2
  ELSE IF state.creditScore <= 50 THEN 3
  ELSE 4

\* The last gate that a state passes.
Gate(state) ==
  IF ~state.registered THEN 0
  ELSE IF ~state.humanVerified THEN 1
  ELSE IF ~state.kycVerified THEN 2
  ELSE IF state.creditScore < 50 THEN 3
  ELSE 4

\* evaluateAccess: gate after gate until one refuses or the requested tier, which
\* is 2, 3 or 4, is reached. The reason is only copied to an event.
EvaluateAccess(state, requestedTier) ==
  [approved         |-> Gate(state) >= requestedTier,
   effectiveTier    |-> IF Gate(state) >= requestedTier THEN requestedTier ELSE Gate(state),
   accountableHuman |-> IF state.registered THEN state.owner ELSE ZERO_ADDRESS]

ReportOf(a, result) ==
  [agentId |-> a, approved |-> result.approved, tier |-> result.effectiveTier,
   accountableHuman |-> result.accountableHuman]

\* The handler up to the signed report.
OnHTTPTrigger(a, resource) ==
  /\ job = NoJob
  /\ LET result == EvaluateAccess(ReadAgentState(a), RESOURCE_TIER[resource])
     IN job' = [phase |-> "writing", report |-> ReportOf(a, result)]
  /\ event' = NoEvent
  /\ UNCHANGED <<configVars, forwarder, facts>>

\* The rest: the forwarder delivers the report or its transaction fails (a policy
\* refuses, gas runs out). The HTTP response is the same in both cases.
WriteAccessReport ==
  /\ job # NoJob
  /\ \/ OnReport(forwarder, job.report)
     \/ event' = NoEvent /\ UNCHANGED <<configVars, forwarder>>
  /\ job' = NoJob
  /\ UNCHANGED facts

WorkflowNext ==
  \/ \E a \in Agents, resource \in Resources : OnHTTPTrigger(a, resource)
  \/ WriteAccessReport
  \/ DeployedNext /\ UNCHANGED job

WorkflowStart == DeployedStart /\ job = NoJob

WorkflowSpec == WorkflowStart /\ [][WorkflowNext]_<<engineVars, facts, job>>

-----------------------------------------------------------------------------
(* Properties.                                                             *)

\* The state that reading the contracts would give.
StateOf(f) ==
  [registered |-> f.registered, owner |-> SampleOwner, humanVerified |-> f.humanVerified,
   kycVerified |-> f.kycVerified, creditScore |-> f.creditScore]

\* "Double protection": given the facts the contracts hold, evaluateAccess would
\* come to the verdict of TieredPolicy on the requested tier and report the level
\* earned, up to the tier requested. Only for facts that agree with themselves:
\* it asks for neither the humanVerified metadata nor hasCreditScore.
EvaluationMatchesPolicy ==
  \A a \in Agents, resource \in Resources :
    LET f == facts[a]
        tier == RESOURCE_TIER[resource]
        result == EvaluateAccess(StateOf(f), tier)
        wanted == [approved |-> TRUE, tier |-> tier]
    IN f.humanMetadata = f.humanVerified /\ (f.hasScore \/ f.creditScore = 0) =>
         /\ result.approved <=> TieredPolicy(wanted, f) = "Allowed"
         /\ result.effectiveTier <= Level(f)
         /\ result.effectiveTier < Level(f) => result.effectiveTier = tier
=============================================================================
