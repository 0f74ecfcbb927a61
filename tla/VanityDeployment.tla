-------------------------- MODULE VanityDeployment --------------------------
(***************************************************************************)
(* How the registries come to their vanity addresses: scripts that deploy  *)
(* placeholder proxies and implementations through a CREATE2 factory, and  *)
(* then have the owner upgrade the proxies, with the key at hand or with   *)
(* transactions signed beforehand. Scripts are killed and run again, run   *)
(* beside each other, and share the chain with other senders.              *)
(*                                                                         *)
(* A script is a program counter and the place in its list. One that       *)
(* throws, is killed or returns is "idle"; what it printed stays in `said`.*)
(* Facts it reads in a row only ever become true, so a row is one step.    *)
(***************************************************************************)
EXTENDS Integers, FiniteSets, Sequences

CONSTANTS
  Order,       \* the registries, in the order of the scripts
  Identity,    \* the one that the others refer to
  Placeholder, \* MinimalUUPS
  Owner,       \* the owner's address written in MinimalUUPS
  None,        \* no address: of an implementation, owner or registry
  Raced,       \* bound: creations that someone else may send first
  MaxCrashes,  \* bound: times scripts are killed
  MaxStray     \* bound: the nonce up to which the owner's key sends transactions
               \* that cannot upgrade, fresh or in the place of others

Registries == {Order[i] : i \in DOMAIN Order}

ASSUME VanityConstants ==
  /\ Order \in Seq(STRING)
  /\ \A i, j \in DOMAIN Order : Order[i] = Order[j] => i = j
  /\ Identity \in Registries
  /\ {Placeholder, None} \cap Registries = {}
  /\ Placeholder # None /\ Owner # None
  /\ MaxCrashes \in Nat /\ MaxStray \in Nat

VARIABLES
  factory,   \* the CREATE2 factory has code
  impls,     \* implementations that have code
  proxy,     \* per registry, the storage of its proxy
  queue,     \* creations that the deployer has sent, in nonce order
  mempool,   \* transactions of the owner that are not mined
  nonce,     \* the owner's transactions that are mined
  reverted,  \* the nonces of those that reverted
  displaced, \* history, which no guard reads: some other use of the owner's key
             \* has cancelled or replaced an upgrade
  funded,    \* the owner can pay for transactions
  package,   \* gas limits in the file of signed upgrades, <<>> without a file
  deploy, generate, upgrade, presigned,   \* the scripts
  said,      \* the claims that scripts have printed
  crashes    \* times scripts were killed

codeVars == <<factory, impls, proxy>>
ownerVars == <<mempool, nonce, reverted, displaced, funded>>
chainVars == <<codeVars, queue, ownerVars>>
scriptVars == <<package, deploy, generate, upgrade, presigned, said, crashes>>
vars == <<chainVars, scriptVars>>

\* A proxy without code reads as empty storage.
NoProxy == [impl |-> None, version |-> 0, owner |-> None, identity |-> None]
Proxies ==
  [impl : {None, Placeholder} \cup Registries, version : 0 .. 2, owner : {None, Owner},
   identity : {None, Identity}]

HasCode(r) == proxy[r] # NoProxy
AllUpgraded == \A r \in Registries : proxy[r].impl = r
AllDeployed == \A r \in Registries : HasCode(r) /\ r \in impls

\* What deploy-vanity creates, in its order.
Creations ==
  <<[kind |-> "impl", name |-> Placeholder]>>
    \o [i \in DOMAIN Order |-> [kind |-> "proxy", name |-> Order[i]]]
    \o [i \in DOMAIN Order |-> [kind |-> "impl", name |-> Order[i]]]
Targets == {Creations[i] : i \in DOMAIN Creations}
Deployed(t) == IF t.kind = "impl" THEN t.name \in impls ELSE HasCode(t.name)

\* Gas estimated at an address without code does not pay for an upgrade there.
GasLimits == {"bare", "full"}
GasFor(r) == IF HasCode(r) THEN "full" ELSE "bare"

\* Transactions of the owner; to = None: one that is about something else.
OwnerTxs == [nonce : Nat, to : Registries \cup {None}, gas : GasLimits]

\* Claims that rest on no check at the end: "DEPLOYMENT COMPLETE", and "All 3
\* proxies upgraded successfully!" of a run that began when all was deployed.
Claims == {"deployed", "upgraded"}

VanityTypeOK ==
  /\ factory \in BOOLEAN
  /\ impls \subseteq Registries \cup {Placeholder}
  /\ proxy \in [Registries -> Proxies]
  /\ queue \in Seq(Targets)
  /\ mempool \subseteq OwnerTxs
  /\ nonce \in Nat /\ reverted \subseteq Nat /\ displaced \in BOOLEAN
  /\ funded \in BOOLEAN
  /\ package \in Seq(GasLimits)
  /\ deploy \in [pc : {"idle", "check", "send", "wait"}, k : 0 .. Len(Creations)]
  /\ generate \in [pc : {"idle", "estimate"}, gas : Seq(GasLimits)]
  /\ upgrade \in [pc : {"idle", "check", "nonce", "estimate", "send", "wait"}, k : 0 .. Len(Order),
                  nonce : Nat, gas : GasLimits, late : BOOLEAN]
  /\ presigned \in [pc : {"idle", "fund", "nonce", "send", "confirm", "verify"},
                    k : 0 .. Len(Order), gas : Seq(GasLimits)]
  /\ said \subseteq Claims
  /\ crashes \in 0 .. MaxCrashes

DeployIdle == [pc |-> "idle", k |-> 0]
GenerateIdle == [pc |-> "idle", gas |-> <<>>]
UpgradeIdle == [pc |-> "idle", k |-> 0, nonce |-> 0, gas |-> "bare", late |-> FALSE]
PresignedIdle == [pc |-> "idle", k |-> 0, gas |-> <<>>]

Init ==
  /\ factory = FALSE /\ impls = {} /\ proxy = [r \in Registries |-> NoProxy]
  /\ queue = <<>> /\ mempool = {} /\ nonce = 0 /\ reverted = {}
  /\ displaced = FALSE /\ funded \in BOOLEAN
  /\ package = <<>> /\ deploy = DeployIdle /\ generate = GenerateIdle
  /\ upgrade = UpgradeIdle /\ presigned = PresignedIdle /\ said = {} /\ crashes = 0

-----------------------------------------------------------------------------
(* The chain.                                                              *)

\* CREATE2 fails on an address with code; the constructor of a proxy fails when
\* the placeholder has none.
CanCreate(t) ==
  factory /\ ~Deployed(t) /\ (t.kind = "proxy" => Placeholder \in impls)

\* MinimalUUPS.initialize, run by the proxy's constructor.
Initialised(r) ==
  [impl |-> Placeholder, version |-> 1, owner |-> Owner,
   identity |-> IF r = Identity THEN None ELSE Identity]

Create(t) ==
  /\ impls' = IF t.kind = "impl" THEN impls \cup {t.name} ELSE impls
  /\ proxy' = IF t.kind = "proxy" THEN [proxy EXCEPT ![t.name] = Initialised(t.name)] ELSE proxy
  /\ UNCHANGED factory

\* The deployer's next transaction; one that fails changes nothing.
MineCreation ==
  /\ queue # <<>>
  /\ queue' = Tail(queue)
  /\ IF CanCreate(Head(queue)) THEN Create(Head(queue)) ELSE UNCHANGED codeVars
  /\ UNCHANGED <<ownerVars, scriptVars>>

\* Someone else sends one of the creations: the addresses do not depend on who.
OtherCreates(t) ==
  /\ t \in Raced
  /\ CanCreate(t)
  /\ Create(t)
  /\ UNCHANGED <<queue, ownerVars, scriptVars>>

\* deploy-create2-factory, which is run once; on public networks it is there.
DeployFactory ==
  /\ ~factory
  /\ factory' = TRUE
  /\ UNCHANGED <<impls, proxy, queue, ownerVars, scriptVars>>

\* upgradeToAndCall by the owner with the call to initialize: onlyOwner, an
\* implementation with code, and reinitializer(2).
CanUpgrade(r) == proxy[r].owner = Owner /\ r \in impls /\ proxy[r].version < 2

\* Faulty variant: an upgrade without the call, as the comment in upgrade-vanity has it.
UpgradedWithoutCall(r) == [proxy[r] EXCEPT !.impl = r]

\* initialize: Identity takes no argument, the others take its address.
Upgraded(r) ==
  [impl |-> r, version |-> 2, owner |-> proxy[r].owner,
   identity |-> IF r = Identity THEN proxy[r].identity ELSE Identity]

\* A call to an address without code succeeds and does nothing.
Reverts(tx) ==
  tx.to # None /\ HasCode(tx.to) /\ ~(CanUpgrade(tx.to) /\ tx.gas = "full")

MineOwnerTx(tx) ==
  /\ tx.nonce = nonce
  /\ nonce' = nonce + 1
  /\ mempool' = mempool \ {tx}
  /\ IF Reverts(tx)
     THEN reverted' = reverted \cup {nonce} /\ UNCHANGED proxy
     ELSE /\ proxy' = IF tx.to # None /\ HasCode(tx.to)
                      THEN [proxy EXCEPT ![tx.to] = Upgraded(tx.to)] ELSE proxy
          /\ UNCHANGED reverted
  /\ UNCHANGED <<factory, impls, queue, displaced, funded, scriptVars>>

PendingNonce == nonce + Cardinality(mempool)

\* A node takes a transaction whose nonce is not used. If one with that nonce is
\* pending, the new one replaces it or the node refuses: fees decide.
SameNonce(tx) == {t \in mempool : t.nonce = tx.nonce}
Accepts(tx) == nonce <= tx.nonce /\ mempool' = (mempool \ SameNonce(tx)) \cup {tx}
Refuses(tx) == (nonce > tx.nonce \/ SameNonce(tx) # {}) /\ UNCHANGED mempool

\* The owner's key is used for something else: with the next nonce, or to cancel
\* or replace what is pending, an upgrade of a script included.
OwnerTransacts ==
  /\ funded
  /\ \E n \in nonce .. PendingNonce :
       LET tx == [nonce |-> n, to |-> None, gas |-> "full"] IN
       /\ n < MaxStray
       /\ Accepts(tx)
       /\ displaced' = (displaced \/ \E t \in SameNonce(tx) : t.to # None)
  /\ UNCHANGED <<codeVars, queue, nonce, reverted, funded, scriptVars>>

\* fund-local-owner, or a transfer from anyone.
FundOwner ==
  /\ ~funded
  /\ funded' = TRUE
  /\ UNCHANGED <<codeVars, queue, mempool, nonce, reverted, displaced, scriptVars>>

-----------------------------------------------------------------------------
(* deploy-vanity: for each creation, look for code, send, wait for a receipt *)
(* whose status is not looked at.                                            *)

\* It throws at once without the factory, and has nothing to do once it has
\* completed.
RunDeploy ==
  /\ deploy.pc = "idle" /\ factory /\ "deployed" \notin said
  /\ deploy' = [pc |-> "check", k |-> 1]
  /\ UNCHANGED <<chainVars, package, generate, upgrade, presigned, said, crashes>>

DeployNext ==
  IF deploy.k < Len(Creations)
  THEN deploy' = [pc |-> "check", k |-> deploy.k + 1] /\ UNCHANGED said
  ELSE deploy' = DeployIdle /\ said' = said \cup {"deployed"}

DeployCheck ==
  /\ deploy.pc = "check"
  /\ IF Deployed(Creations[deploy.k]) THEN DeployNext
     ELSE deploy' = [deploy EXCEPT !.pc = "send"] /\ UNCHANGED said
  /\ UNCHANGED <<chainVars, package, generate, upgrade, presigned, crashes>>

\* Estimating the gas of a creation that would fail throws.
DeploySend ==
  /\ deploy.pc = "send"
  /\ IF CanCreate(Creations[deploy.k])
     THEN /\ queue' = Append(queue, Creations[deploy.k])
          /\ deploy' = [deploy EXCEPT !.pc = "wait"]
     ELSE deploy' = DeployIdle /\ UNCHANGED queue
  /\ UNCHANGED <<codeVars, ownerVars, package, generate, upgrade, presigned, said, crashes>>

\* Faulty variant: the receipt is not waited for.
DeployWithoutWait ==
  /\ deploy.pc = "wait"
  /\ DeployNext
  /\ UNCHANGED <<chainVars, package, generate, upgrade, presigned, crashes>>

\* The last transaction in the queue is the script's own: nobody replaces what
\* the deployer has sent.
DeployWait ==
  /\ deploy.pc = "wait" /\ queue = <<>>
  /\ DeployNext
  /\ UNCHANGED <<chainVars, package, generate, upgrade, presigned, crashes>>

-----------------------------------------------------------------------------
(* upgrade-vanity: for each registry, skip it if its proxy is upgraded, else *)
(* send the upgrade, which takes a nonce, a gas estimate and the submission, *)
(* and wait for a receipt whose status is not looked at.                     *)

RunUpgrade ==
  /\ upgrade.pc = "idle"
  /\ upgrade' = [UpgradeIdle EXCEPT !.pc = "check", !.k = 1, !.late = AllDeployed]
  /\ UNCHANGED <<chainVars, package, deploy, generate, presigned, said, crashes>>

UpgradeNext ==
  IF upgrade.k < Len(Order)
  THEN upgrade' = [upgrade EXCEPT !.pc = "check", !.k = @ + 1] /\ UNCHANGED said
  ELSE /\ upgrade' = UpgradeIdle
       /\ said' = IF upgrade.late THEN said \cup {"upgraded"} ELSE said

\* Faulty variant: proxies that are upgraded are not skipped.
UpgradeWithoutSkip ==
  /\ upgrade.pc = "check"
  /\ upgrade' = [upgrade EXCEPT !.pc = "nonce"]
  /\ UNCHANGED <<chainVars, package, deploy, generate, presigned, said, crashes>>

UpgradeCheck ==
  /\ upgrade.pc = "check"
  /\ IF proxy[Order[upgrade.k]].impl = Order[upgrade.k] THEN UpgradeNext
     ELSE upgrade' = [upgrade EXCEPT !.pc = "nonce"] /\ UNCHANGED said
  /\ UNCHANGED <<chainVars, package, deploy, generate, presigned, crashes>>

\* The count of the owner's transactions, the pending ones included.
UpgradeNonce ==
  /\ upgrade.pc = "nonce"
  /\ HasCode(Order[upgrade.k]) \/ PendingNonce < MaxStray
  /\ upgrade' = [upgrade EXCEPT !.pc = "estimate", !.nonce = PendingNonce]
  /\ UNCHANGED <<chainVars, package, deploy, generate, presigned, said, crashes>>

\* It throws if the owner cannot pay or the upgrade would revert now.
UpgradeEstimate ==
  /\ upgrade.pc = "estimate"
  /\ LET r == Order[upgrade.k] IN
     upgrade' = IF funded /\ (HasCode(r) => CanUpgrade(r))
                THEN [upgrade EXCEPT !.pc = "send", !.gas = GasFor(r)]
                ELSE UpgradeIdle
  /\ UNCHANGED <<chainVars, package, deploy, generate, presigned, said, crashes>>

\* Since the nonce was read, another sender with the key may have taken it.
UpgradeSend ==
  /\ upgrade.pc = "send"
  /\ LET tx == [nonce |-> upgrade.nonce, to |-> Order[upgrade.k], gas |-> upgrade.gas] IN
     \/ Accepts(tx) /\ upgrade' = [upgrade EXCEPT !.pc = "wait"]
     \/ Refuses(tx) /\ upgrade' = UpgradeIdle
  /\ UNCHANGED <<codeVars, queue, nonce, reverted, displaced, funded, package, deploy, generate,
                 presigned, said, crashes>>

\* Faulty variant: the receipt is not waited for.
UpgradeWithoutWait ==
  /\ upgrade.pc = "wait"
  /\ UpgradeNext
  /\ UNCHANGED <<chainVars, package, deploy, generate, presigned, crashes>>

\* The receipt may be that of another transaction with the script's nonce.
UpgradeWait ==
  /\ upgrade.pc = "wait" /\ nonce > upgrade.nonce
  /\ UpgradeNext
  /\ UNCHANGED <<chainVars, package, deploy, generate, presigned, crashes>>

-----------------------------------------------------------------------------
(* generate-triple-presigned-upgrade: one estimate per registry, then the    *)
(* file; the nonces are always 0, 1 and 2.                                   *)

\* Bound: one file is made.
RunGenerate ==
  /\ generate.pc = "idle" /\ package = <<>>
  /\ generate' = [pc |-> "estimate", gas |-> <<>>]
  /\ UNCHANGED <<chainVars, package, deploy, upgrade, presigned, said, crashes>>

GenerateEstimate ==
  /\ generate.pc = "estimate"
  /\ LET r == Order[Len(generate.gas) + 1]
         gas == Append(generate.gas, GasFor(r))
     IN IF HasCode(r) /\ ~CanUpgrade(r)
        THEN generate' = GenerateIdle /\ UNCHANGED package
        ELSE IF Len(gas) < Len(Order)
        THEN generate' = [generate EXCEPT !.gas = gas] /\ UNCHANGED package
        ELSE generate' = GenerateIdle /\ package' = gas
  /\ UNCHANGED <<chainVars, deploy, upgrade, presigned, said, crashes>>

-----------------------------------------------------------------------------
(* upgrade-vanity-presigned: look at what is there, fund the owner, broadcast*)
(* the file, look at the receipts' status and at the proxies.                *)

\* It throws if something is not deployed or there is no file, and returns if
\* all is upgraded.
RunPresigned ==
  /\ presigned.pc = "idle"
  /\ AllDeployed /\ ~AllUpgraded /\ package # <<>>
  /\ presigned' = [pc |-> "fund", k |-> 1, gas |-> package]
  /\ UNCHANGED <<chainVars, package, deploy, generate, upgrade, said, crashes>>

PresignedFund ==
  /\ presigned.pc = "fund"
  /\ funded' = TRUE
  /\ presigned' = [presigned EXCEPT !.pc = "nonce"]
  /\ UNCHANGED <<codeVars, queue, mempool, nonce, reverted, displaced, package, deploy, generate,
                 upgrade, said, crashes>>

PresignedNonce ==
  /\ presigned.pc = "nonce"
  /\ presigned' = IF nonce = 0 THEN [presigned EXCEPT !.pc = "send"] ELSE PresignedIdle
  /\ UNCHANGED <<chainVars, package, deploy, generate, upgrade, said, crashes>>

\* It throws if the node refuses.
PresignedSend ==
  /\ presigned.pc = "send"
  /\ LET tx == [nonce |-> presigned.k - 1, to |-> Order[presigned.k],
                gas |-> presigned.gas[presigned.k]]
     IN \/ /\ Accepts(tx)
           /\ presigned' = IF presigned.k < Len(Order)
                           THEN [presigned EXCEPT !.k = @ + 1]
                           ELSE [presigned EXCEPT !.pc = "confirm", !.k = 1]
        \/ Refuses(tx) /\ presigned' = PresignedIdle
  /\ UNCHANGED <<codeVars, queue, nonce, reverted, displaced, funded, package, deploy, generate,
                 upgrade, said, crashes>>

\* Faulty variant: any receipt will do, as in upgrade-vanity.
PresignedConfirmAny ==
  /\ presigned.pc = "confirm" /\ nonce >= presigned.k
  /\ presigned' = IF presigned.k < Len(Order) THEN [presigned EXCEPT !.k = @ + 1]
                  ELSE [presigned EXCEPT !.pc = "verify"]
  /\ UNCHANGED <<chainVars, package, deploy, generate, upgrade, said, crashes>>

\* Again the receipt is that of whichever transaction has the nonce.
PresignedConfirm ==
  /\ presigned.pc = "confirm" /\ nonce >= presigned.k
  /\ presigned' = IF presigned.k - 1 \in reverted THEN PresignedIdle
                  ELSE IF presigned.k < Len(Order) THEN [presigned EXCEPT !.k = @ + 1]
                  ELSE [presigned EXCEPT !.pc = "verify"]
  /\ UNCHANGED <<chainVars, package, deploy, generate, upgrade, said, crashes>>

\* Its last check throws if a proxy is not upgraded; the message is all that
\* depends on it.
PresignedVerify ==
  /\ presigned.pc = "verify"
  /\ presigned' = PresignedIdle
  /\ UNCHANGED <<chainVars, package, deploy, generate, upgrade, said, crashes>>

-----------------------------------------------------------------------------
\* verify-vanity passes: code, a version, the owner and some implementation
\* everywhere, and a reference, which the placeholder cannot be asked for.
VerifyPasses ==
  /\ \A r \in Registries :
       HasCode(r) /\ proxy[r].owner = Owner /\ proxy[r].impl # None
  /\ \A r \in Registries \ {Identity} :
       proxy[r].impl = r /\ proxy[r].identity = Identity

\* A running script is killed, or waits too long for a receipt.
Crash ==
  /\ crashes < MaxCrashes
  /\ crashes' = crashes + 1
  /\ \/ /\ deploy.pc # "idle" /\ deploy' = DeployIdle
        /\ UNCHANGED <<generate, upgrade, presigned>>
     \/ /\ generate.pc # "idle" /\ generate' = GenerateIdle
        /\ UNCHANGED <<deploy, upgrade, presigned>>
     \/ /\ upgrade.pc # "idle" /\ upgrade' = UpgradeIdle
        /\ UNCHANGED <<deploy, generate, presigned>>
     \/ /\ presigned.pc # "idle" /\ presigned' = PresignedIdle
        /\ UNCHANGED <<deploy, generate, upgrade>>
  /\ UNCHANGED <<chainVars, package, said>>

DeployStep == DeployCheck \/ DeploySend \/ DeployWait
UpgradeStep == UpgradeCheck \/ UpgradeNonce \/ UpgradeEstimate \/ UpgradeSend \/ UpgradeWait
PresignedStep ==
  PresignedFund \/ PresignedNonce \/ PresignedSend \/ PresignedConfirm \/ PresignedVerify
MineOwner == \E tx \in mempool : MineOwnerTx(tx)

Next ==
  \/ MineCreation \/ MineOwner
  \/ \E t \in Targets : OtherCreates(t)
  \/ DeployFactory \/ OwnerTransacts \/ FundOwner
  \/ RunDeploy \/ DeployStep
  \/ RunUpgrade \/ UpgradeStep
  \/ RunGenerate \/ GenerateEstimate
  \/ RunPresigned \/ PresignedStep
  \/ Crash

Spec == Init /\ [][Next]_vars

\* Transactions are mined, scripts that run go on, and an operator runs
\* deploy-vanity until it says it is complete and then upgrade-vanity again and
\* again. Nothing makes anyone run the other scripts.
Operated ==
  /\ Spec
  /\ WF_vars(MineCreation) /\ WF_vars(MineOwner)
  /\ WF_vars(DeployFactory) /\ WF_vars(FundOwner)
  /\ WF_vars(DeployStep) /\ WF_vars(UpgradeStep)
  /\ WF_vars(RunDeploy)
  /\ WF_vars(RunUpgrade /\ "deployed" \in said)

-----------------------------------------------------------------------------
(* Properties.                                                             *)

\* An implementation never runs behind a proxy without its initializer having
\* run, whatever transactions fail or repeat: the upgrade makes both or neither,
\* and each proxy keeps the owner and the reference it was given.
InitialisedWhenUpgraded ==
  \A r \in Registries :
    /\ proxy[r].impl = r <=> proxy[r].version = 2
    /\ HasCode(r) =>
         proxy[r].owner = Owner /\ (r # Identity => proxy[r].identity = Identity)

\* "DEPLOYMENT COMPLETE" is true although deploy-vanity looks at no receipt's
\* status, is killed and run again, and races others for the same addresses.
DeployedWhenSaid == "deployed" \in said => AllDeployed

\* "All 3 proxies upgraded successfully!" is true of a run that began when all
\* was deployed, whatever of the scripts' transactions replaced or repeated each
\* other: only a revert, or another use of the owner's key in the place of an
\* upgrade, makes it false, and the script looks for neither.
UpgradedUnlessReverted ==
  "upgraded" \in said => AllUpgraded \/ reverted # {} \/ displaced

\* The statuses that upgrade-vanity-presigned looks at suffice, also if its
\* transactions replaced those of upgrade-vanity or were replaced by them: its
\* last check can only fail after another use of the owner's key in the place of
\* an upgrade.
ConfirmedIsUpgraded == presigned.pc = "verify" => AllUpgraded \/ displaced

\* Whatever was killed, broadcast in part or signed too early, running
\* upgrade-vanity again ends with all proxies upgraded and verify-vanity content.
UpgradesComplete == <>(AllUpgraded /\ VerifyPasses)
=============================================================================
