----------------------------- MODULE Deployment -----------------------------
(***************************************************************************)
(* How the system comes to be wired: the deployment scripts create its     *)
(* contracts one by one, send the calls that connect them without waiting  *)
(* for their receipts, and look at the result; they throw or are killed    *)
(* on the way, and another script wires what is there. Transactions of one *)
(* deployer are mined in the order they were sent. All the while facts     *)
(* move, the workflow works and reports reach what exists of the consumer. *)
(***************************************************************************)
EXTENDS AccessWorkflow

CONSTANTS
  MaxCrashes,   \* bound: times a script is killed or an RPC call fails
  MaxPending    \* bound: transactions of the deployer that are not mined

ASSUME DeploymentConstants == MaxCrashes \in Nat /\ MaxPending \in Nat

VARIABLES
  created,  \* contracts that exist, a proxy with its implementation
  applied,  \* the calls that took effect, of those that are not the engine's
  queue,    \* the deployer's transactions, in nonce order
  deploy,   \* deploy-full-fresh or deploy-all
  wire,     \* wire-fresh or wire-and-verify
  said,     \* what the scripts have printed
  crashes

scriptVars == <<deploy, wire, said, crashes>>
allVars == <<engineVars, facts, job, created, applied, queue, scriptVars>>

Creates == {"worldId", "engine", "extractor", "kyc", "credit", "tiered", "consumer"}
Settings == {"initializeV2", "setSgxDcapVerifier", "setExpectedMrEnclave"}
Writes == Settings \cup {"setExtractor", "addPolicy"}

\* What deploy-full-fresh does in order. deploy-all keeps the World ID validator
\* that is there, and passes an argument to attach(), which takes none.
FullFresh ==
  <<"worldId", "initializeV2", "engine", "extractor", "kyc", "credit", "tiered", "consumer",
    "setExtractor", "addPolicy", "setSgxDcapVerifier", "setExpectedMrEnclave", "check">>
DeployAll ==
  <<"engine", "extractor", "kyc", "credit", "tiered", "consumer",
    "attach", "setExtractor", "addPolicy", "complete">>
Plans == {FullFresh, DeployAll}

\* Faulty variant: the extractor is taken to be set.
WireCallsWithoutExtractor == <<"addPolicy">>

WireCalls == <<"setExtractor", "addPolicy">>

Wired == policies = <<"tiered">> /\ extractorSet
WiringChecked == Wired /\ "consumer" \in created

DeploymentTypeOK ==
  /\ WorkflowTypeOK
  /\ created \subseteq Creates
  /\ applied \subseteq Settings
  /\ queue \in Seq(Creates \cup Writes)
  /\ deploy \in [plan : Plans, pc : {"idle", "send", "wait"}, k : 1 .. Len(FullFresh)]
  /\ wire \in [pc : {"idle", "send", "check"}, k : 1 .. Len(WireCalls)]
  /\ said \subseteq {"deployed", "checked", "wired"}
  /\ crashes \in 0 .. MaxCrashes

WireIdle == [pc |-> "idle", k |-> 1]

DeploymentInit ==
  /\ policies = <<>> /\ extractorSet = FALSE
  /\ defaultPolicyAllow = FALSE /\ targetDefault = {}
  /\ forwarder \in Forwarders /\ event = NoEvent
  /\ FactsInit /\ job = NoJob
  /\ queue = <<>> /\ applied = {} /\ said = {} /\ crashes = 0 /\ wire = WireIdle
  /\ \E plan \in Plans : deploy = [plan |-> plan, pc |-> "send", k |-> 1]
  /\ created = IF deploy.plan = DeployAll THEN {"worldId"} ELSE {}

-----------------------------------------------------------------------------
(* The chain. A transaction of the deployer changes the engine or a setting. *)

\* Faulty variant: the engine is initialised to allow by default.
EngineDefaultAllow == TRUE

\* The engine's initialize(false, deployer).
EngineDefault == FALSE

\* A call that would revert is not sent: estimating its gas throws. The same
\* wiring sent twice may still revert when it is mined.
WouldRevert(w) ==
  CASE w = "attach" -> TRUE
    [] w = "addPolicy" -> ~CanInstall("tiered")
    [] w = "initializeV2" -> w \in applied
    [] OTHER -> FALSE

Apply(w) ==
  \/ w = "setExtractor" /\ SetExtractor(TRUE) /\ UNCHANGED applied
  \/ w = "addPolicy" /\ AddPolicy("tiered") /\ UNCHANGED applied
  \/ w \in Settings /\ applied' = applied \cup {w} /\ UNCHANGED configVars

\* The consumer's initialize attaches it to the engine.
MineCreation(c) ==
  /\ created' = created \cup {c}
  /\ defaultPolicyAllow' = IF c = "engine" THEN EngineDefault ELSE defaultPolicyAllow
  /\ UNCHANGED <<policies, extractorSet, targetDefault, applied>>

MineDeployerTx ==
  /\ queue # <<>>
  /\ queue' = Tail(queue)
  /\ LET tx == Head(queue) IN
     IF tx \in Creates THEN MineCreation(tx)
     ELSE /\ IF WouldRevert(tx) THEN UNCHANGED <<configVars, applied>> ELSE Apply(tx)
          /\ UNCHANGED created
  /\ event' = NoEvent
  /\ UNCHANGED <<forwarder, facts, job, scriptVars>>

\* Facts are kept by contracts that exist; no score reads as zero.
Possible(f) ==
  /\ f.humanVerified => "worldId" \in created
  /\ f.kycVerified => "kyc" \in created
  /\ f.hasScore => "credit" \in created
  /\ ~f.hasScore => f.creditScore = 0

OthersMove ==
  /\ \/ \E a \in Agents : FactsMove(a) /\ Possible(facts'[a]) /\ UNCHANGED job
     \/ /\ "consumer" \in created
        /\ \/ \E sender \in Callers, r \in AccessReports : OnReport(sender, r)
           \/ \E f \in Forwarders : SetForwarder(f)
        /\ UNCHANGED <<facts, job>>
     \/ /\ "consumer" \in created
        /\ \/ \E a \in Agents, resource \in Resources : OnHTTPTrigger(a, resource)
           \/ WriteAccessReport
  /\ UNCHANGED <<created, applied, queue, scriptVars>>

-----------------------------------------------------------------------------
(* The deployment scripts: deployContract waits for its receipt and throws if *)
(* there is none; write only sends, and sleeps.                               *)

chainVars == <<created, applied, configVars, forwarder, facts, job>>

Step == deploy.plan[deploy.k]
GoOn == deploy' = [deploy EXCEPT !.pc = "send", !.k = @ + 1]
End == deploy' = [deploy EXCEPT !.pc = "idle"]

Send(w) == Len(queue) < MaxPending /\ queue' = Append(queue, w)

DeployCreate ==
  /\ deploy.pc = "send" /\ Step \in Creates
  /\ Send(Step)
  /\ deploy' = [deploy EXCEPT !.pc = "wait"]
  /\ event' = NoEvent
  /\ UNCHANGED <<chainVars, wire, said, crashes>>

DeployWait ==
  /\ deploy.pc = "wait" /\ Step \in created
  /\ GoOn
  /\ event' = NoEvent
  /\ UNCHANGED <<chainVars, queue, wire, said, crashes>>

DeployWrite ==
  /\ deploy.pc = "send" /\ Step \in Writes \cup {"attach"}
  /\ IF WouldRevert(Step) THEN End /\ UNCHANGED queue ELSE Send(Step) /\ GoOn
  /\ event' = NoEvent
  /\ UNCHANGED <<chainVars, wire, said, crashes>>

\* Faulty variant: the SGX configuration is not looked at.
ChecksOfWiring == Wired

\* The verification of deploy-full-fresh: policies[0], the extractor and the SGX
\* configuration; owners, forwarders and references are those of the creations.
\* getVersion is a constant of the implementation, so initializeV2 is not seen.
Checks ==
  /\ Wired
  /\ {"setSgxDcapVerifier", "setExpectedMrEnclave"} \subseteq applied

DeployFinish ==
  /\ deploy.pc = "send" /\ Step \in {"check", "complete"}
  /\ End
  /\ said' = said \cup {"deployed"} \cup (IF Step = "check" /\ Checks THEN {"checked"} ELSE {})
  /\ event' = NoEvent
  /\ UNCHANGED <<chainVars, queue, wire, crashes>>

\* It names the contracts of a deployment, so there has to be one, and is run
\* when the script that made it no longer runs.
RunWire ==
  /\ wire.pc = "idle" /\ deploy.pc = "idle"
  /\ "consumer" \in created /\ "wired" \notin said
  /\ wire' = [pc |-> "send", k |-> 1]
  /\ event' = NoEvent
  /\ UNCHANGED <<chainVars, queue, deploy, said, crashes>>

\* Each call is in a try: one that fails is only printed.
WireSend ==
  /\ wire.pc = "send"
  /\ IF WouldRevert(WireCalls[wire.k]) THEN UNCHANGED queue ELSE Send(WireCalls[wire.k])
  /\ wire' = IF wire.k < Len(WireCalls) THEN [wire EXCEPT !.k = @ + 1]
             ELSE [wire EXCEPT !.pc = "check"]
  /\ event' = NoEvent
  /\ UNCHANGED <<chainVars, deploy, said, crashes>>

WireCheck ==
  /\ wire.pc = "check"
  /\ wire' = WireIdle
  /\ said' = IF Wired THEN said \cup {"wired"} ELSE said
  /\ event' = NoEvent
  /\ UNCHANGED <<chainVars, queue, deploy, crashes>>

\* A script is killed, or an RPC call of it fails.
Crash ==
  /\ crashes < MaxCrashes
  /\ crashes' = crashes + 1
  /\ \/ deploy.pc # "idle" /\ End /\ UNCHANGED wire
     \/ wire.pc # "idle" /\ wire' = WireIdle /\ UNCHANGED deploy
  /\ event' = NoEvent
  /\ UNCHANGED <<chainVars, queue, said>>

DeployStep == DeployCreate \/ DeployWait \/ DeployWrite \/ DeployFinish
WireStep == WireSend \/ WireCheck

DeploymentNext ==
  \/ MineDeployerTx \/ OthersMove
  \/ DeployStep
  \/ RunWire \/ WireStep
  \/ Crash

\* The deployer's transactions are mined, a script that runs goes on, and an
\* operator runs wire-fresh until it prints that all is wired.
DeploymentSpec ==
  /\ DeploymentInit /\ [][DeploymentNext]_allVars
  /\ WF_allVars(MineDeployerTx)
  /\ WF_allVars(DeployStep)
  /\ WF_allVars(WireStep)
  /\ WF_allVars(RunWire)

-----------------------------------------------------------------------------
(* Properties.                                                             *)

\* "ALL CHECKS PASSED": everything exists and every call took effect, also
\* initializeV2, which no check sees, though no receipt of a call was waited for.
CheckedIsComplete ==
  "checked" \in said =>
    Wired /\ created = Creates /\ applied = Settings /\ ~defaultPolicyAllow

\* While the system is half wired, or the same call of two scripts is under way,
\* nobody is granted anything: a grant goes through TieredPolicy and it alone.
NoGrantBeforeWired ==
  event.name = "AccessGranted" => WiringChecked

\* Once there is a consumer the engine gets its extractor and its policy, whatever
\* script dies where, and however often the calls are repeated.
WiredEventually == "consumer" \in created ~> Wired
=============================================================================
