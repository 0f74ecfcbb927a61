# Whitewall: a TLA+ model of the contracts and their workflows

This directory models the access-control system of this repository: agents are
ERC-721 tokens, people and services verify facts about them on-chain, and a
consumer contract grants access at a tier only if a policy engine agrees. The
modules are translated from the code under `src/`; `PROJECT.json` maps every
definition to the lines it stands for.

## 1. The system

Everything on-chain is sequential inside a transaction and arbitrarily
interleaved between transactions; contracts call each other synchronously. The
off-chain workflows run on a decentralised oracle network (DON): they see events
or HTTP requests, read outside services, and have a signed report delivered to a
contract through a forwarder, some time later.

| Component | State it keeps | Operations | Interacts with |
|---|---|---|---|
| IdentityRegistry (`IdentityRegistryUpgradeable.sol`) | next id, ERC-721 ownership and approvals, metadata, URIs | three `register`s, `setMetadata`, `setAgentURI`, `setAgentWallet` by EIP-712 signature, `unsetAgentWallet`, ERC-721 | read by all others; `_safeMint` calls a contract owner back in the middle of `register` |
| WorldIDValidator | spent nullifiers, nullifier to agent, verification data | `verifyAndSetHumanTag`, `revokeVerification`, `initializeV2`, `setWorldIdRouter` | asks the World ID router, writes the registry's `humanVerified` metadata, for which the owner must have approved it |
| ValidationRegistry | a record per request hash, lists per agent and per validator | `validationRequest`, `validationResponse`, `getSummary` | asks the IdentityRegistry who may request; its events trigger the workflows |
| StripeKYCValidator | KYC flag and record per agent, forwarder | `onReport`, `setForwarder` | answers requests in the ValidationRegistry |
| kyc-workflow | none | `onLogTrigger` | event, Stripe session, signed report |
| PlaidCreditValidator | score and record per agent, forwarder, SGX verifier and measurement | `onReport` (two formats), owner's setters | answers requests in the ValidationRegistry; asks the DCAP verifier |
| credit-workflow | none | `onLogTrigger` | event, scoring service in an enclave, signed report |
| ACE policies (`HumanVerifiedPolicy`, `KYCPolicy`, `CreditPolicy`, `TieredPolicy`) and extractor | thresholds | `run` | read registry and validators when a report is delivered |
| PolicyEngine | policies per target and selector, extractor, defaults | `run`, `addPolicy`, `addPolicyAt`, `removePolicy`, setters | runs the policies |
| WhitewallConsumer, PolicyProtected | engine, forwarder | `onReport` behind `runPolicy`, `setForwarder` | emits `AccessGranted` or `AccessDenied` |
| ReputationRegistry | feedback per agent, client and index | `giveFeedback`, `revokeFeedback`, `appendResponse`, summaries | reads the IdentityRegistry |
| access-workflow | none | HTTP trigger | evaluates a request and has a report delivered to the consumer |
| World ID front end (`worldid-proof/src/app/page.tsx`) | step, account and agent of one page | connect, register, use an existing agent, approve, verify | asks the wallet and the World ID widget, reads and calls the registry and the validator |
| Deployment scripts (`deploy-full-fresh.ts`, `deploy-all.ts`, `wire-fresh.ts`, `wire-and-verify.ts`) | a place in a list of calls | create the contracts, connect them, look at the result | one deployer's transactions, sent without waiting |
| Vanity deployment (`deploy-create2-factory.ts`, `deploy-vanity.ts`, `generate-triple-presigned-upgrade.ts`, `upgrade-vanity.ts`, `upgrade-vanity-presigned.ts`, `verify-vanity.ts`, `fund-local-owner.ts`) and `HardhatMinimalUUPS.sol` | proxies: implementation, initialiser version, owner, reference; a file of signed transactions | create proxies and implementations at CREATE2 addresses, upgrade the proxies | the deployer's and the owner's nonces, other senders |
| SDKs (TypeScript, Go), MCP server | none | reads | several RPC calls per answer |
| OS guard, SGX validator, salt mining, drivers | none, or not deployed | | see 5 |

### What is hard here

* A contract that registers an agent is called back before `register` has written
  the URI and the metadata, and can call anything from there.
* Agents change owners at any moment: signatures, proofs, requests, reports and
  approvals made under one owner meet the agent under another.
* Reports carry no nonce and no sequence number. A signed one may be delivered
  late, never, out of order or again, also after the forwarder was replaced or
  another enclave became the trusted one.
* Two contracts record the same fact (the KYC flag and the answer in the
  ValidationRegistry; `humanVerified` metadata and the validator's record), and
  one of the two can be written by other parties.
* The first policy that allows ends the run, so the order of policies, and what
  happens when none decides, matters for every grant, and the owner changes both
  call by call.
* Access reports are computed off-chain from state that has moved when they arrive.
* World ID proofs change scope when `initializeV2` runs: nullifiers spent before
  it and after it are different numbers for one human.
* The scripts send transactions without waiting for them, look at no receipt's
  status or at all of them, decide by what has code, and are killed and run again
  beside each other, while the same keys and other senders go on.
* The page awaits the wallet, the widget, reads and receipts one by one. Between
  two awaits the wallet changes its account, the page is reloaded, or the agent
  changes hands; a transaction that nobody waits for any more is still mined.

`PROJECT.json` lists these hazards one by one, with the line and the properties
that would notice each going wrong.

## 2. Modules

```
IdentityRegistry            Policies            AccessControl (abstract)
   |        \                   |                     ^
WorldIDValidator  ValidationRegistry   PolicyEngine --+ refines
   |  |             /       \             ^
   |  |StripeKYCValidator  PlaidCreditValidator
   \__|_____________|________________/    |
      |      Whitewall  ------------------+ refines (DeployedSpec)
      |                                   |
 ProofWizard extends it            AccessWorkflow extends it
 (and refines it)                         |
                                     Deployment extends it and refines AccessControl

ReputationRegistry extends IdentityRegistry; StatusReads extends Policies;
VanityDeployment stands alone.
Theorems, each module about those it names or extends:
  IdentityAndWorldIDProofs (registry, World ID validator)
    <- ProofWizardProofs (page)
    <- WhitewallProofs (ValidationRegistry, both report validators, Whitewall)
  EngineAndDeploymentProofs (engine, AccessWorkflow, Deployment)
  ReputationRegistryProofs   StatusReadsProofs   VanityDeploymentProofs
  ListsAndSums (what they all need to know of lists and sums of numbers)
    <- WhitewallProofs, ReputationRegistryProofs
```

* **IdentityRegistry.** One action per contract function. A step is one call;
  only `register` by a contract is two (`Register`, then `FinishRegister` when the
  callback returns), with a set `minting` of the calls on the stack. While it is
  not empty only contracts act: they are the only ones inside the transaction.
  Nested registrations return innermost first. A URI or a metadata entry that is
  absent is the empty set. The metadata are the two keys the system gives meaning
  to: `agentWallet` (reserved) and `humanVerified`. A signature is the message
  that was signed (`Consents`): agent, wallet, owner and deadline. Time is a
  counter. The ERC-721 part is OpenZeppelin's, modelled from the registry's
  override of `_update` and its calls.
* **WorldIDValidator.** A nullifier is the pair of a human and the external
  nullifier's scope (an agent, or the application), which is what the circuit
  computes. A proof is who made it, for which scope and which signal. Verifying
  and revoking include the write to the registry (`SetMetadata` with this contract
  as sender), so its permission check is in the guard.
* **ValidationRegistry.** Requests, answers and both lists, plus the events as the
  set `requestLog`. `GetSummary` is the contract's loop as a sum over
  the places in the list that it counts.
* **StripeKYCValidator / PlaidCreditValidator.** The contract, its workflow and the
  outside service. For KYC, a person completes a session at some moment, the
  workflow reads it at another, and the report is delivered at a third; an answer
  that failed reads as not verified, whatever the session is. A run that throws
  signs nothing and is not repeated by anything the model assumes. For
  credit, the workflow is the set of reports that it may have signed by now
  (`SignedCreditReports`), with any score and any quote. A signed report may be
  delivered at any later time, again, or never. Only forwarders can deliver, and
  they deliver only signed reports; other accounts may try with anything. `onReport` contains the answer in the ValidationRegistry: if that call
  reverts, so does the whole.
* **Policies.** Each policy's `run` as a function of the report and of the facts
  it reads, with results *Allowed*, *Continue* and *Rejected* (a revert).
  `Level` and `Required` restate, sharing nothing with the policies' own checks,
  what an agent has earned and what a tier asks for.
* **PolicyEngine.** One target with one selector, `onReport`. `DeployedSpec` is
  the wiring of `scripts/deploy-all.ts` (TieredPolicy alone, reject by default);
  `ManagedSpec` lets the owner rewire the engine at any time, starting from
  nothing. Reports and facts are arbitrary: nothing is assumed of a workflow.
* **AccessControl.** The promise in two variables: levels move, and access at a
  tier is granted only to an agent that stands at that level.
* **Whitewall.** All contracts together. The facts are no longer arbitrary but
  read from the contracts' state, and the composition is shown to implement
  `PolicyEngine!DeployedSpec`, which implements AccessControl.

* **ReputationRegistry.** Indexes count from 1 per agent and client, so a client's
  feedback is a sequence and `_lastIndex` its length. An array and its flags
  (`_clients` with `_clientExists`, `_responders` with `_responderExists`) are one
  sequence to which `PushNew` adds. The views are operators on pairs of a place in
  the list of clients and an index, so that a client listed twice counts twice:
  `GetSummary` with the two truncating divisions of the source and its unchecked
  conversion to int128 (`ToInt128`), `ReadAllFeedback` as the pairs it lists,
  `GetResponseCount` for an absent client (the sum over both arrays).
* **AccessWorkflow.** The deployed engine with the workflow as one more source of
  reports. A request is two steps, as in between other transactions happen:
  evaluation, up to the signed report, and the write, which is delivered or
  fails. `ReadAgentState` returns built-in states, because the code does. The
  reports of `DeployedNext` stay: they stand for anyone else's.
* **StatusReads.** One call of `getFullStatus` per SDK. A read is a step, in the
  order in which the client makes it (`Round`: a `Promise.all` has its reads in
  flight together, the Go client waits for each). An RPC error is swallowed or
  ends the call, read by read as in the code. The chain is the environment: it
  moves by the transactions that change facts (`ChainMoves`).
* **ProofWizard.** The page in front of the registry and the validator. A handler
  is a record: its account, the agent and the proof it is about, and the await it
  is at; each action takes it from one await to the next. `loading` keeps the
  buttons from a second handler, so there is one at a time. The wallet gives an
  account anew to each handler. A receipt may never be seen (`CallFails`), the page may
  be reloaded (`Reload`), and what was sent then is mined at any later time, as
  one of the transactions that `Elsewhere` makes: those of any account that uses
  the contracts directly. viem's `waitForTransactionReceipt` also returns the
  receipt of a transaction that took the nonce of the one awaited, as when the
  user cancels or replaces it in the wallet (`Displaced`), and the page looks at
  its status alone. `displaced` is a history variable, which no guard reads: the
  page has announced a verification on such a receipt. The widget's proofs are those of its one action for the
  account shown.
* **Deployment.** AccessWorkflow's system while it is being made. `deploy` runs
  the plan of one of the two deployment scripts, creating a contract and waiting
  for it, or sending a call and going on; `wire` is the script that repeats the
  wiring. The deployer's transactions are mined in nonce order (`MineDeployerTx`).
  A step whose call would revert throws, as estimating its gas does; `Crash` ends
  a script anywhere. Before the consumer exists nobody can report to it.
* **VanityDeployment.** The chain is the code at the addresses that matter, the
  storage of each proxy, and two queues: the deployer's creations and the owner's
  transactions. Reading the pending nonce, estimating and sending are three steps,
  so two senders with one key may choose the same nonce; the node then keeps either
  (`Accepts`, `Refuses`). Any other use of the owner's key takes a new nonce or one that
  is pending (`OwnerTransacts`), and a script takes the receipt of whatever took its
  nonce. `displaced` is a history variable, which no guard reads: such a use has taken
  the place of an upgrade. Each script is a program counter with its place in the list. The proxies and the factory are
  external code, modelled from how the scripts and `HardhatMinimalUUPS.sol` use
  them.

In every module definitions called "Faulty variant" are not part of the system;
each is a plausible slip in the definition below it, and `PROJECT.json` pairs it
with the property that notices.

## 3. Properties and runs

| Run (`PROJECT.json`) | Configuration | What it shows |
|---|---|---|
| registry | `MCIdentityRegistry.cfg` | wallets are consented to by their holder under the present owner; an expired signature is dead. Two agents, so that a callback can register and transfer a second one, a service as approved spender, and signatures that are too far ahead, used, used again and expired |
| kyc | `MCStripeKYCValidator.cfg` | KYC flag, record and answer agree through every order of reports; only completed sessions count; a signed report stays good for its request, so only the forwarder can stand in its way |
| credit | `MCPlaidCreditValidator.cfg` | scores agree with the registry's answers, and change only as a request about the agent is answered with them; a score that comes with a quote while a verifier is set was attested by the enclave then trusted, for such a request. The same run checks the ValidationRegistry below it: lists index the requests exactly, events state what is stored, `getSummary` is the truncated average over the answered requests, answers never disappear |
| engine | `MCPolicyEngine.cfg` | for every order and set of policies and every rewiring: TieredPolicy first suffices, rejecting by default fails closed, the chain of three policies equals TieredPolicy, and the list stays sound |
| whitewall | `MCWhitewall.cfg` | a grant rests on a spent nullifier, a completed session and answered requests; the composition implements the deployed engine |
| reputation | `MCReputationRegistry.cfg` | `getSummary` is the average of the live feedback, truncated once toward zero, though the code divides twice, at the precision used most, if it is an int128; feedback keeps its index and content, revocation is final; the arrays of clients and responders index the mappings exactly, so the enumerating views miss nothing |
| status | `MCStatusReads.cfg` | a status counts only facts that held during its call, errors included, and without errors all that held throughout; when nothing moves it is the agent's level |
| deployment | `MCDeployment.cfg` | while contracts are created, connected, and connected again, nothing is granted; what `deploy-full-fresh` announces as checked is complete; the whole implements AccessControl, the workflow evaluates as TieredPolicy does on facts that agree with themselves; and the wiring completes although scripts die |
| vanity | `MCVanityDeployment.cfg` | no implementation ever runs uninitialised; what the scripts announce is true, under the conditions that the properties state and 6 explains; running `upgrade-vanity` again completes every upgrade |
| wizard | `MCProofWizard.cfg` | below the page: each nullifier is spent once, for one agent and for ever, verifications rest on a proof made for the caller, one human is never behind two agents before the V2 migration. On the page, unless the user has cancelled or replaced its transaction: "Human Verified!" names a verified agent, and a verification that the page reports spent the nullifier of the human at the page on the agent shown |
| wizard_scope | `MCWizardScope.cfg` | **violated**: see 6 |
| summary_scale | `MCSummaryScale.cfg` | **violated**: see 6 |

A status may still mix facts that never held together: an agent whose human
verification is revoked and whose KYC then arrives may be shown at tier 3, which
it never had. `StatusWithinCall` says how far the mixture can go.

### Bounds, and why they are enough

* *Agents*: two where the property relates agents (nullifiers, lists, nested
  registration), one in the composition. No contract loops over agents.
* *Accounts*: two that pass agents to each other. One is a contract in the
  registry's runs (`Contracts`), which is what re-entrance takes; in the other
  runs nobody re-enters, as they are about other contracts.
* *Operators, spenders* (`MaxOperators`, `Spenders`): two approvals at a time in
  the registry's runs. Elsewhere only the owner and the approved address act;
  operators may do nothing an owner may not.
* *Time*: up to four instants with a maximal delay of one, so that a deadline is
  too far away, near, and past.
* *Requests*: two hashes, so that reports of two requests about one agent, or
  about two, can be reordered.
* *Values*: responses and scores on both sides of each limit (0, 75, 100, 101; 40,
  50, 80, 101), tiers 1 to 5, scores 49 and 50 around the threshold.
* *Feedback* (`MaxFeedback`, `MaxAppended`): two pieces of feedback about an agent,
  drawn from four valid opinions, and three responses; a summary over a list that
  names a client twice averages up to three or four entries. `MaxDecimals` is 2 where the
  source has 18 and `MAX_ABS_VALUE` 30 where it has 10^38: the arithmetic is the
  same, and both limits are overstepped by one of the opinions (`MCOpinions`).
  Within the source's limits its int256 sums cannot overflow: 10^38 * 10^18 leaves
  room for more than 10^20 entries. An int128 can: `IntLimit` is 64 where the source
  has 2^127, above `MAX_ABS_VALUE` as there and below what a change of precision
  makes of it. `MCSummaryScale` has three pieces of feedback and no responses.
* *Calls of the SDKs*: one of each at a time, two transactions (`MaxMoves`)
  from every combination of facts that the contracts can hold together.
* *Page*: two agents, because the page takes agent 0 for none; two accounts to
  switch between; one human who proves application-wide for either and one who
  proves for bob about agent 1, so that proofs meet the wrong signal and the wrong
  scope. Transactions that outlive their handler need no bound, as any number of
  them may be among those of `Elsewhere`.
* *Deployment*: one agent, scores on both sides of the threshold and all tiers; a
  script is killed once (`MaxCrashes`), and three transactions may be pending
  (`MaxPending`), which lets the same call of two scripts be under way together.
* *Vanity*: the three registries; one proxy that somebody else may create first
  (`Raced`), one kill or wait that takes too long (`MaxCrashes`), and other uses of
  the owner's key at the first nonce (`MaxStray`), once or again, before an upgrade or
  in its place; one file of signed upgrades is made. Nobody replaces what the deployer
  has sent, here and in *Deployment*: its key belongs to the script that runs, and
  `DeployedWhenSaid` and `CheckedIsComplete` hold under that assumption only.
* *Engine*: a limit of three policies out of four, so that the limit is met; the
  theorems hold for any limit, 8 included.
* *Composition*: tiers 1 to 4, one forwarder, one human and two interchangeable
  request hashes (the symmetry set); the users answer no request themselves
  (`Responses` is empty: only the two validators' reports answer).

Deadlock is not checked: nobody has to call a contract, and the bounds stop time
and the supply of ids and hashes.

### Fairness

Two specifications assume some; all other properties need none. None is assumed of
the workflows: a run may throw, and its report is written once
(`kyc-workflow/main.ts:182`), so no request is promised an answer.

* `DeploymentSpec`: transactions are mined, a script that runs goes on (it never
  waits for anything but its own transaction), and an operator runs `wire-fresh`
  until it prints that all is wired. The scripts' own text asks for the last. No
  fairness is assumed of reports, facts, the workflow or crashes.
* `Operated` (vanity): transactions are mined, the factory is deployed, someone
  funds the owner, scripts that run go on, and an operator runs `deploy-vanity`
  until it says it is complete and `upgrade-vanity` from then on. The scripts are
  made to be run again: each looks at what is there and does the rest. Nothing
  makes anyone sign upgrades beforehand or broadcast them.

## 4. What is proved

The theorems hold for every value of the constants that satisfies the named
assumptions of the modules (`RegistryConstants`, `WorldIdConstants`,
`ValidationConstants`, `KycConstants`, `CreditConstants`, `SystemConstants`,
`ReputationConstants`, `WizardConstants`, `PolicyConstants`, `EngineConstants`,
`WorkflowConstants`, `DeploymentConstants`, `StatusConstants`, `VanityConstants`).
These give the constants their types and say, for instance, that the zero address
is no user, that the two report validators are different contracts and no user's
accounts, and that the limit of policies is positive. Three theorems assume more,
and say so: `EvaluationIsThePolicys` that the minimal score is 50, which the
workflow has built in; `ChainMatchesTiered` that the three policies stand for the
tiers 2, 3 and 4, which TieredPolicy has built in; `QuietStatusIsTheLevel` that the
minimal score is not 0, at which the SDKs differ from the level (see 6).

### The contracts

* **IdentityAndWorldIDProofs.** `RegistryInv` is the type invariant with
  `OwnedBelowLastId` and `WalletConsented`. `WalletConsented` is preserved by
  itself where wallets and owners move (a transfer clears the wallet, a signature
  names the present owner), but the other two conjuncts are needed for the
  functions to have the domains on which an `EXCEPT` acts, and for a new id to
  be one that nobody owns. There is one lemma per action that touches owners or
  wallets, and `PropertiesReadWallets` for the others. `ExpiredConsentStaysDead`
  is the action property, from the same invariant. `WorldIdInv` is the type
  invariant with `NullifierLedger`, `VerifiedByProof` and `AppWideUntilV2`. A
  verification demands an unspent nullifier, so by the ledger it cannot take
  another record's nullifier from its agent; revocation touches the flag alone.
  The last conjunct is what `OneAgentPerHumanV1` needs besides: until the migration
  every spent nullifier is the application's, so two of one human are the same one,
  and the ledger gives it one agent.
* **WhitewallProofs**, from the inside out. The invariant of each contract is
  shown for the calls of that contract and for what others do to the contracts it
  reads, so that the same lemmas serve its own specification and the composition.
  - `ValidationInv`: lists index the requests (`ListsIndexRequests`: the new hash
    is appended once to two lists, and `Once` is counted through the set of its
    places), events match what is stored, an answered hash was requested, and a hash
    is announced once, without which `LogMatchesRequests` would not be inductive.
    It gives `RequestsAreIndexed`, `EventsStayTrue` and `AnswersAreKept`. From the
    lists follows `SummariesAreAverages` as well: the places that `getSummary`
    counts and the answered requests correspond one to one (`CountedAreAnswered`),
    and a sum of responses counts their units (`SumCountsUnits`).
  - `KycInv` adds `KycReportsSigned`: what the workflow has signed is about a
    request to this validator and no better than its session. That is how `KycBacked`
    survives a report that is delivered late, again, or after a newer one. With
    `RequestedExist` (requests are about agents that exist, and agents stay:
    `AgentsStay`) it gives `KycReportsStayDeliverable`. No
    other contract can answer for Kyc (`OthersThanKyc`): `ValidationResponse` asks
    who the sender is, and `AnswersAreKept` shows that answers remain.
  - `CreditInv` adds that a score is 0 or one that the service computed
    (`ScoresComputed`). `ScoresAreAttested` is the action property: a recorded score
    moves only in `onReport`, which answers the request of its report with it, and
    checks a quote, if there is one and a verifier is set, against agent, request,
    score and enclave.
  - `SystemInv` joins them with the engine's wiring (`ConsumerInv`) and
    `GrantsAreBacked`. `ChainSteps` sorts the steps of the chain by the contract they
    are about; each keeps the five invariants, and what once stood behind a grant
    still does, as nullifiers stay spent, sessions stay completed and answers stay
    (`AccessIsBacked`).
  - `SystemImplementsEngine` is the refinement: the facts that the engine reads are a
    function of the contracts' state, and whatever any account or service does
    moves those of one agent or none. `SystemKeepsPromise` maps each step
    on to AccessControl: access at a tier is granted only to an agent that stands
    at that level at that moment, by the whole system and not only by the engine.
* **ReputationRegistryProofs.** `ReputationInv` has four parts. The views iterate
  over arrays, so `ArraysIndexMappings` must hold: each action adds to at most one
  array, by `PushNew`, and `PushNewCounts` counts its occurrences through the places
  in a sequence. `ViewsComplete` needs two more: no client has more feedback than
  the bound (`WithinBounds`, without which responses could lie outside of what
  `Appended` sums), and responses exist only for feedback that was given
  (`ResponsesHaveFeedback`), as the view looks nowhere else. Then `ReadsEverything`
  and `CountsEverything` map places in the arrays one to one to what the mappings
  hold. `SummaryOfList` is about any list of clients: the precision is the first of
  the greatest frequency (`ModeIsMostUsed`), two truncating divisions are one by the
  product (`TruncatesOnce`), and the conversion keeps what is an int128
  (`ConversionKeeps`). `FeedbackIsKept` is the action property.
* **ListsAndSums.** What these proofs need to know of occurrences in lists, sums and
  numbers. The library's sum is a fold that takes elements out in an order which
  nobody knows. `SumTakesOut` and `SumReindexes` show that the order is irrelevant and
  that a sum can be taken over other names of the same terms. No induction
  theorem with an operator parameter is needed: a finite set of counterexamples has
  a least one (`LeastSubset`, `LeastNumber`). Powers of ten are shown to exist and
  to be positive in the same way. `QuotientTwice` is the arithmetic of two divisions.

### The engine and the deployment

* **EngineAndDeploymentProofs.** `EngineInv` is the type invariant with
  `PolicyListSound`; it is inductive under any management (`EngineInvNext`). The
  work is in the two list lemmas: `InsertAtSound` and `RemoveFirstSound` show that
  inserting a new element anywhere, or removing the first occurrence of one,
  keeps a list free of duplicates. `OnlyReportsGrant` says that every step but a
  delivered report clears the event, so the properties of a grant have to be shown
  only where it is made: `TieredDecides` (a TieredPolicy in front is always the
  one that decides), `TieredAllowsEarned` (what it allows was earned) and
  `PolicyDecides` with `PolicyPasses` (whatever the list, some policy confirmed
  the human unless the default passed the report). From these follow
  `TieredFirstIsEnough`, `EngineFailsClosed`, `GrantsEarned` and, by mapping each
  step to a step of the promise, `EngineImplementsPromise`. `ChainMatchesTiered`
  goes through the run of the three policies, position by position (`ChainDecides`).
  - The workflow: `EvaluationIsThePolicys` makes two comparisons with `Level`:
    `GateIsLevel` for the workflow's gates, `PolicyIsLevel` for the policy. The
    invariant it needs is only that facts keep their type.
  - The scripts: `WiringInv` says that the engine has no policy or TieredPolicy
    alone, and rejects by default; queued calls are among those the scripts send.
    `PassedMeansWired` concludes that a report passes only a finished engine, and
    `WorkflowRefuses` that the workflow's built-in state never leads to an approval.
    This gives `NothingBeforeWired` and `DeploymentKeepsPromise`, the refinement.
    `CheckedMeansComplete` is about order: `initializeV2` is neither waited for nor
    looked at, but it is sent before the engine's creation, which is waited for.
    `PlanInv` carries this: until it has taken effect, initializeV2 stands in the
    queue before any creation of the engine (`V2Pending`), and mining moves it
    forward (`MinedKeepsPlan`).
* **VanityDeploymentProofs.** `ProxyInv`: each proxy is absent, a placeholder as
  its constructor leaves it, or upgraded and initialised; only `CodeSteps` touch
  it. `DeployInv` is why a receipt's status need not be looked at: a creation that
  was possible when it was sent can only fail because somebody made it
  (`Assured`), and while the script waits its creation is the last one queued.
  `OwnerInv` is about the owner's account, which two scripts and other uses of the
  key share, each of which may replace what another sent. The waiting nonces are
  those that come next, each once (`NonceInv`): whatever the node accepts is next or
  takes the place of one with its nonce, and lemmas `PoolGrows`, `PoolReplaces` and
  `PoolMines` say what becomes of the queue. Both scripts go through the list in
  order, so nobody sends place i's upgrade with a nonce below i - 1, and by the time
  place i is upgraded, i transactions were mined (`PlaceInv`). From that come the two
  invariants of the scripts, for runs in which no other use of the key displaced an
  upgrade:
  - `Broadcast(i)`, for the signed transactions. Nonce i - 1 is pending, with an
    upgrade of place i or of an earlier one; or it is mined, and place i is upgraded
    or some transaction at or before it reverted. `upgrade-vanity` may have replaced
    the signed one by that of an earlier place, but then the signed one for that place
    comes first and the replacement reverts (`RepeatReverts`). This gives
    `ConfirmedIsReallyUpgraded`.
  - `Awaited`, for `upgrade-vanity`. While it waits and nothing has reverted, its proxy
    is upgraded, or an upgrade of it or of an earlier place is pending at its nonce or
    before. A signed transaction that takes that nonce is for the same place, or for a
    later one, in which case the one for this place was sent under a smaller nonce.
    This is `AwaitedStays`, and `UpgradedUnlessAReverted` rests on it.

  That both are lost when an upgrade is displaced is the code's, not the proof's: see 6.

### The page and the SDKs

* **ProofWizardProofs.** `WizardStepIsAStep` maps every step of the page to a step
  of the validator's system or to none, which gives `WizardImplementsValidator`;
  the ledger's invariant is therefore reused as it stands. `PageInv` says what is
  true at each await: what a handler has sent before it was mined, and what its
  receipt has brought about. `LedgerRemembers` carries that over what others do
  between the receipt and the page's own update. A handler whose transaction was
  displaced goes on as after its own, with nothing known of the ledger
  (`DisplacedFits`). Hence `DoneIsVerified` needs `~displaced`, and
  `PageBondsItsHuman` is about the receipt of the page's own transaction.
* **StatusReadsProofs.** `StatusInv` says where each answer of a call comes from:
  a fact that held at some moment of the call (`seen`), or the default after an
  error. The tier grows with each answer, so it lies between the tiers of the
  least and the greatest answers of the window (`StatusStaysWithinCall`). In a
  window with one state there is one answer (`QuietStatusIsTheLevel`).

### Only model-checked

Liveness (`WiredEventually`, `UpgradesComplete`) and ENABLED are outside of the
proof system's reach. Every other property that a passing run checks is stated by
a theorem.

## 5. What is not modelled, and why

* *The SDKs' other calls* are one read each, and their event subscriptions are the
  RPC node's. The owner and wallet that a status shows are read but not compared.
* *The access-workflow's HTTP response*: it says `reportDelivered: true` whether
  the write succeeded or not (`main.ts:344`). The gateway that reads it is not in
  this repository.
* *Later upgrades of the proxies*, after the one to the registries: the owner may
  install any code, so nothing remains to be said of it here.
* *Replacing a dependency* (`setWorldIdRouter`, `attachPolicyEngine`): the new
  contract could be anything, so nothing remains to be said of it here.
* *PolicyEngine's mappers, `detach`, context*: unused in the deployed wiring.
* *Cryptography*: signatures, World ID proofs and quotes are the statement they
  prove. Hashes are names; that two different requests do not share one is
  the ValidationRegistry's own check.
* *WhitewallOSGuard, SgxVerifiedCreditValidator*: a stateless wrapper around one
  read, and a contract that no script deploys. *MCP server*: it formats what the
  SDK returns. *Salt mining*: a search for numbers. *Tests and end-to-end drivers*
  exercise what is modelled.
* *`.cre_build_tmp.js`*: two thirds of the repository's lines are this bundle,
  generated from the access-workflow and its libraries. What it does is
  `main.ts`, which is modelled; the rest is library code.
* *In the scripts*: block explorer verification, printing, and reading addresses
  from files. *On the page*: rendering, error texts and the choice of the chain,
  of which only success or failure is kept.

## 6. Where the code and its descriptions disagree

* **wizard_scope.** The page asks its widget for the one action `verify-owner`
  (`page.tsx:27`), while the comment at `WorldIDValidator.sol:176` says that the
  per-agent scope of `initializeV2` matches the front end's
  `verify-owner-{agentId}`. `deploy-full-fresh.ts:118` calls `initializeV2`. TLC
  finds the state at once: after it no proof that the page can get is in the scope
  that the validator asks for, so the page verifies nobody.
* **summary_scale.** `ReputationRegistryUpgradeable.sol:261` announces the average
  "in WAD", scaled "to mode precision". The next lines convert it to an int128
  without a check, which keeps the low bits. Values are bounded by 10^38 at their own
  precision; one such value without decimals and two small ones with 18 decimals
  have an average of about 3 * 10^55 at the precision used most, far above 2^127, and
  the summary is then a number unrelated to it, perhaps a negative one. Where the
  average is an int128, `SummaryIsAverage` says that the summary is the average, and
  is proved.

Others were found on the way and have no run of their own.

* `deploy-all.ts:232` calls `attach` with an argument that `PolicyEngine.attach()`
  does not take, and the consumer is attached since its initialisation. The call
  throws before anything is sent, so a run never reaches `setExtractor` and
  `addPolicy`, which its header (`deploy-all.ts:21`) lists. `wire-fresh` does the
  rest.
* `WorldIDValidator.sol:167` says that the nullifier check keeps the same person
  from verifying the same agent again. The nullifier's scope changes when
  `initializeV2` runs, so a person who verified an agent and revoked before it can
  verify that agent once more after it, with another nullifier.
* `DEPLOYMENT.md:196` and the comment at `access-workflow/main.ts:13` expect
  `AccessDenied` when a refused report is delivered. Every policy reverts on
  `approved == false`, before the consumer's body runs, so under the deployed
  wiring a refusal leaves no event.
* `verify-vanity` passes while the identity proxy may still be the placeholder: it
  asks for a version, an owner and some implementation, which the placeholder has
  too. The other two proxies are asked for a reference, which it has not.
* `page.tsx` takes agent 0 for no agent (`!agentId`), so its owner gets no further
  than "approve". A verification whose receipt timed out leaves an error on the
  page although it may succeed, and the retry shows "done" only after its reads see
  it. "Bonded to your human identity" is also shown for an agent that an earlier
  owner's human verified (`BondsThisHuman` speaks of the page's own
  verifications).

* The receipt that viem's `waitForTransactionReceipt` returns may be that of a
  transaction that took the awaited one's nonce. The callers look at its status at
  most, so a transaction that the user cancelled or replaced counts as done:
  - `page.tsx:376-381` shows "Human Verified!" for an agent that nobody verified.
  - `upgrade-vanity.ts:235` announces the upgrades although one was displaced. It
    also does so although one reverted, because line 161 does not look at the status.
  - In `upgrade-vanity-presigned.ts` every receipt may be a success (line 310) and the
    last check (line 337) still throws.

  `DoneWasVerified`, `UpgradedUnlessReverted` and `ConfirmedIsUpgraded` therefore have
  the condition that nothing was displaced, `UpgradedUnlessReverted` also that nothing
  reverted, and `BondsThisHuman` is about a receipt of the page's own transaction. The
  models contain these behaviours; the conditions say how far the announcements can be
  believed.
* The KYC workflow throws on a URI that names no session (`kyc-workflow/main.ts:97`)
  or when the call to Stripe fails (`:109-124`), counts an answer that is an error as
  "not verified" (`:125`), and writes its report once (`:182`). A write that fails, as after
  `setForwarder`, is not repeated, so a request may stay unanswered for ever unless
  somebody runs the workflow again. No liveness is claimed of it;
  `KycReportsDeliverable` says that a signed report at least stays good for its
  request.

Three more disagreements are between the descriptions and the workflow or the SDKs.
`ReadAgentState` is built in, as in `access-workflow/main.ts:98`, where no agent
is verified, so the workflow as it stands refuses every request, while
`README.md:195` has it read the registries. Neither SDK reads the `humanVerified`
metadata, so with the metadata overwritten by the owner they show a tier that
the policy refuses, while `sdk-go/client.go:27` says that it mirrors TieredPolicy
(`QuietStatusIsLevel` names this condition). And `MinScore` differs between the
SDKs at a minimum of 0, which Go replaces by 50, while `sdk-go/client.go:346` says
that it mirrors the TypeScript client.

## 7. Plan

1. *Done*: every component of 1 that keeps state; their composition; three
   refinements as runs (Whitewall to the deployed engine, the engine and the
   deployment to AccessControl), all of them and the page's proved; theorems for
   every safety and action property of a passing run.
2. *Proofs*: the bound on responses, which makes the whole of `ReputationTypeOK`
   inductive; the safety half of the liveness properties, step by step.
3. *Breadth*: a composition with re-entrant owners and two agents; an abstract
   ledger of feedback that the ReputationRegistry implements.
