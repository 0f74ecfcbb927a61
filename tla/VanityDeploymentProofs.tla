------------------------ MODULE VanityDeploymentProofs ------------------------
(***************************************************************************)
(* For any list of registries and any scripts that are killed, repeated    *)
(* and raced: a proxy is only ever absent, a placeholder, or upgraded and  *)
(* initialised; a deployment that is announced is there; and what the two  *)
(* upgrade scripts say of the proxies is true, whichever of their          *)
(* transactions replace each other, as long as no other use of the owner's *)
(* key takes the place of one.                                             *)
(***************************************************************************)
EXTENDS VanityDeployment, SequenceTheorems, FiniteSetTheorems, TLAPS

-----------------------------------------------------------------------------
(* The proxies.                                                            *)

\* A proxy after its upgrade: reinitialised, with the owner and the reference
\* that the placeholder gave it.
Reinitialised(r) ==
  [impl |-> r, version |-> 2, owner |-> Owner,
   identity |-> IF r = Identity THEN None ELSE Identity]

ProxyInv ==
  /\ proxy = [r \in Registries |-> proxy[r]]
  /\ \A r \in Registries : proxy[r] \in {NoProxy, Initialised(r), Reinitialised(r)}

\* The three shapes of a proxy are told apart by their implementation.
LEMMA Shapes ==
  ASSUME NEW r \in Registries
  PROVE  /\ NoProxy.impl = None /\ Initialised(r).impl = Placeholder /\ Reinitialised(r).impl = r
         /\ None # Placeholder /\ None # r /\ Placeholder # r
BY VanityConstants DEF NoProxy, Initialised, Reinitialised

\* A transaction that the contracts accept makes an upgraded proxy of a placeholder.
LEMMA UpgradeReinitialises ==
  ASSUME NEW r \in Registries, CanUpgrade(r), proxy[r] \in {NoProxy, Initialised(r), Reinitialised(r)}
  PROVE  Upgraded(r) = Reinitialised(r)
<1>1. proxy[r] # NoProxy
  BY VanityConstants DEF CanUpgrade, NoProxy
<1>2. proxy[r] # Reinitialised(r)
  BY DEF CanUpgrade, Reinitialised
<1>3. proxy[r] = Initialised(r)
  BY <1>1, <1>2
<1> QED
  BY <1>3 DEF Upgraded, Initialised, Reinitialised

\* The steps that touch the code on the chain.
LEMMA CodeSteps ==
  ASSUME [Next]_vars
  PROVE  \/ UNCHANGED codeVars
         \/ \E t : CanCreate(t) /\ Create(t)
         \/ MineOwner /\ UNCHANGED <<factory, impls>>
         \/ DeployFactory
<1>1. CASE MineCreation
  BY <1>1 DEF MineCreation
<1>2. CASE MineOwner
  BY <1>2 DEF MineOwner, MineOwnerTx
<1>3. CASE \E t \in Targets : OtherCreates(t)
  BY <1>3 DEF OtherCreates
<1>4. CASE OwnerTransacts \/ FundOwner
  BY <1>4 DEF OwnerTransacts, FundOwner
<1>5. CASE RunDeploy \/ DeployStep
  BY <1>5 DEF RunDeploy, DeployStep, DeployCheck, DeploySend, DeployWait, chainVars
<1>6. CASE RunUpgrade \/ UpgradeStep
  BY <1>6 DEF RunUpgrade, UpgradeStep, UpgradeCheck, UpgradeNonce, UpgradeEstimate,
              UpgradeSend, UpgradeWait, chainVars
<1>7. CASE RunGenerate \/ GenerateEstimate
  BY <1>7 DEF RunGenerate, GenerateEstimate, chainVars
<1>8. CASE RunPresigned \/ PresignedStep
  BY <1>8 DEF RunPresigned, PresignedStep, PresignedFund, PresignedNonce, PresignedSend,
              PresignedConfirm, PresignedVerify, chainVars
<1>9. CASE Crash \/ UNCHANGED vars
  BY <1>9 DEF Crash, vars, chainVars
<1> QED
  BY <1>1, <1>2, <1>3, <1>4, <1>5, <1>6, <1>7, <1>8, <1>9 DEF Next

\* The owner's transaction leaves every proxy alone but one that it may upgrade.
LEMMA OwnerTxUpgrades ==
  ASSUME ProxyInv, MineOwner
  PROVE  ProxyInv' /\ \A r \in Registries : HasCode(r) => HasCode(r)'
<1>1. PICK tx \in mempool : MineOwnerTx(tx)
  BY DEF MineOwner
<1>2. CASE UNCHANGED proxy
  BY <1>2 DEF ProxyInv, HasCode
<1>3. CASE ~UNCHANGED proxy
  <2> DEFINE r == tx.to
  <2>1. /\ ~Reverts(tx) /\ r # None /\ HasCode(r)
        /\ proxy' = [proxy EXCEPT ![r] = Upgraded(r)]
    BY <1>1, <1>3 DEF MineOwnerTx
  <2>2. CanUpgrade(r)
    BY <2>1 DEF Reverts
  <2> HIDE DEF r
  <2>3. r \in Registries
    BY <1>3, <2>1 DEF ProxyInv
  <2>4. Upgraded(r) = Reinitialised(r)
    BY <2>2, <2>3, UpgradeReinitialises DEF ProxyInv
  <2>5. /\ proxy' = [q \in Registries |-> proxy'[q]]
        /\ \A q \in Registries : proxy'[q] = IF q = r THEN Reinitialised(r) ELSE proxy[q]
    BY <2>1, <2>3, <2>4 DEF ProxyInv
  <2>6. Reinitialised(r) # NoProxy
    BY <2>3, Shapes
  <2> QED
    BY <2>5, <2>6 DEF ProxyInv, HasCode
<1> QED
  BY <1>2, <1>3

\* A creation makes a placeholder where there was nothing.
LEMMA CreationInitialises ==
  ASSUME ProxyInv, NEW t, CanCreate(t), Create(t)
  PROVE  ProxyInv' /\ (\A r \in Registries : HasCode(r) => HasCode(r)') /\ impls \subseteq impls'
<1>1. impls \subseteq impls'
  BY DEF Create
<1>2. CASE UNCHANGED proxy
  BY <1>1, <1>2 DEF ProxyInv, HasCode
<1>3. CASE ~UNCHANGED proxy
  <2> DEFINE q == t.name
  <2>1. proxy' = [proxy EXCEPT ![q] = Initialised(q)]
    BY <1>3 DEF Create
  <2> HIDE DEF q
  <2>2. \A r \in Registries : r = q => Initialised(q) # NoProxy
    BY Shapes
  <2>3. /\ proxy' = [r \in Registries |-> proxy'[r]]
        /\ \A r \in Registries : proxy'[r] = IF r = q THEN Initialised(r) ELSE proxy[r]
    BY <2>1 DEF ProxyInv
  <2> QED
    BY <1>1, <2>2, <2>3 DEF ProxyInv, HasCode
<1> QED
  BY <1>2, <1>3

\* Code stays where it is, and proxies keep one of their shapes.
LEMMA CodeStays ==
  ASSUME ProxyInv, [Next]_vars
  PROVE  /\ ProxyInv'
         /\ \A r \in Registries : HasCode(r) => HasCode(r)'
         /\ impls \subseteq impls'
         /\ factory => factory'
<1>1. CASE UNCHANGED codeVars
  BY <1>1 DEF codeVars, ProxyInv, HasCode
<1>2. CASE \E t : CanCreate(t) /\ Create(t)
  BY <1>2, CreationInitialises DEF Create
<1>3. CASE MineOwner /\ UNCHANGED <<factory, impls>>
  BY <1>3, OwnerTxUpgrades
<1>4. CASE DeployFactory
  BY <1>4 DEF DeployFactory, ProxyInv, HasCode
<1> QED
  BY <1>1, <1>2, <1>3, <1>4, CodeSteps

\* At the start there is no proxy.
LEMMA ProxiesAtStart ==
  ASSUME Init
  PROVE  ProxyInv
BY DEF Init, ProxyInv

\* Every proxy is absent, the placeholder as its constructor leaves it, or the
\* registry with the initializer run.
THEOREM ProxyInvariant ==
  Spec => []ProxyInv
BY ProxiesAtStart, CodeStays, PTL DEF Spec

\* No implementation ever runs uninitialised, and owner and reference are kept.
THEOREM UpgradedMeansInitialised ==
  Spec => []InitialisedWhenUpgraded
<1>1. ProxyInv => InitialisedWhenUpgraded
  <2> SUFFICES ASSUME ProxyInv, NEW r \in Registries
               PROVE  /\ proxy[r].impl = r <=> proxy[r].version = 2
                      /\ HasCode(r) => /\ proxy[r].owner = Owner
                                       /\ r # Identity => proxy[r].identity = Identity
    BY DEF InitialisedWhenUpgraded
  <2>1. proxy[r] \in {NoProxy, Initialised(r), Reinitialised(r)}
    BY DEF ProxyInv
  <2>2. CASE proxy[r] = NoProxy
    BY <2>2, Shapes DEF NoProxy, HasCode
  <2>3. CASE proxy[r] = Initialised(r)
    BY <2>3, Shapes DEF Initialised
  <2>4. CASE proxy[r] = Reinitialised(r)
    BY <2>4 DEF Reinitialised
  <2> QED
    BY <2>1, <2>2, <2>3, <2>4
<1> QED
  BY <1>1, ProxyInvariant, PTL

-----------------------------------------------------------------------------
(* deploy-vanity.                                                          *)

LastCreation == Len(Creations)
CreatedBefore(k) == \A i \in 1 .. LastCreation : i < k => Deployed(Creations[i])

\* A creation that can still be made, or that someone has made.
Assured(t) == Deployed(t) \/ CanCreate(t)

\* While the script waits its creation is the last in the queue or is mined; a
\* creation that was possible when it was sent can only fail because it was made.
DeployInv ==
  /\ queue \in Seq(Targets)
  /\ deploy.pc # "idle" => deploy.k \in 1 .. LastCreation /\ CreatedBefore(deploy.k)
  /\ deploy.pc = "wait" =>
       /\ Assured(Creations[deploy.k])
       /\ IF queue = <<>> THEN Deployed(Creations[deploy.k])
          ELSE queue[Len(queue)] = Creations[deploy.k]
  /\ DeployedWhenSaid

VanityInv == ProxyInv /\ DeployInv

\* The list of creations leaves nothing out.
LEMMA CreationsCover ==
  /\ LastCreation \in Nat \ {0}
  /\ DOMAIN Creations = 1 .. LastCreation
  /\ \A k \in 1 .. LastCreation :
       /\ Creations[k] \in Targets
       /\ Creations[k].kind \in {"impl", "proxy"}
       /\ Creations[k].kind = "proxy" => Creations[k].name \in Registries
  /\ \A r \in Registries :
       /\ \E k \in 1 .. LastCreation : Creations[k] = [kind |-> "proxy", name |-> r]
       /\ \E k \in 1 .. LastCreation : Creations[k] = [kind |-> "impl", name |-> r]
<1> DEFINE T == [kind : {"impl"}, name : Registries \cup {Placeholder}]
                  \cup [kind : {"proxy"}, name : Registries]
           first == <<[kind |-> "impl", name |-> Placeholder]>>
           proxies == [i \in DOMAIN Order |-> [kind |-> "proxy", name |-> Order[i]]]
           others == [i \in DOMAIN Order |-> [kind |-> "impl", name |-> Order[i]]]
           n == Len(Order)
<1>1. /\ n \in Nat /\ DOMAIN Order = 1 .. n
      /\ \A r \in Registries : \E i \in 1 .. n : Order[i] = r
      /\ \A i \in 1 .. n : Order[i] \in Registries
  BY VanityConstants DEF Registries
<1>2. first \in Seq(T) /\ Len(first) = 1 /\ first[1] = [kind |-> "impl", name |-> Placeholder]
  OBVIOUS
<1>3. proxies \in Seq(T) /\ Len(proxies) = n
  BY <1>1
<1>4. others \in Seq(T) /\ Len(others) = n
  BY <1>1
<1>5. /\ \A i \in 1 .. n : proxies[i] = [kind |-> "proxy", name |-> Order[i]]
      /\ \A i \in 1 .. n : others[i] = [kind |-> "impl", name |-> Order[i]]
  BY <1>1
<1> HIDE DEF T, n, first, proxies, others
<1>6. first \in Seq(T) /\ proxies \in Seq(T) /\ others \in Seq(T)
  BY <1>2, <1>3, <1>4
<1> DEFINE head == first \o proxies
<1>7. /\ head \in Seq(T) /\ Len(head) = n + 1
      /\ \A i \in 1 .. n : head[i + 1] = proxies[i]
  <2>1. /\ head \in Seq(T) /\ Len(head) = Len(first) + Len(proxies)
        /\ \A i \in 1 .. Len(first) + Len(proxies) :
             head[i] = IF i <= Len(first) THEN first[i] ELSE proxies[i - Len(first)]
    BY <1>6, ConcatProperties, Zenon
  <2> HIDE DEF head
  <2> QED
    BY <1>1, <1>2, <1>3, <2>1
<1> DEFINE all == head \o others
<1>8. /\ all \in Seq(T) /\ Len(all) = n + 1 + n
      /\ \A i \in 1 .. n : all[i + 1] = proxies[i]
      /\ \A i \in 1 .. n : all[n + 1 + i] = others[i]
  <2> HIDE DEF head
  <2>1. head \in Seq(T)
    BY <1>7
  <2>2. /\ all \in Seq(T) /\ Len(all) = Len(head) + Len(others)
        /\ \A i \in 1 .. Len(head) + Len(others) :
             all[i] = IF i <= Len(head) THEN head[i] ELSE others[i - Len(head)]
    BY <1>6, <2>1, ConcatProperties, Zenon
  <2> HIDE DEF all
  <2>3. ASSUME NEW i \in 1 .. n
        PROVE  all[i + 1] = proxies[i] /\ all[n + 1 + i] = others[i]
    <3>1. all[i + 1] = head[i + 1]
      BY <1>1, <1>4, <1>7, <2>2
    <3>2. all[n + 1 + i] = others[i]
      BY <1>1, <1>4, <1>7, <2>2
    <3> QED
      BY <1>7, <3>1, <3>2
  <2> QED
    BY <1>1, <1>4, <1>7, <2>2, <2>3
<1>9. Creations = all
  BY Zenon DEF Creations, all, head, first, proxies, others
<1> HIDE DEF head, all
<1>10. /\ Creations \in Seq(T) /\ LastCreation = n + 1 + n
       /\ \A i \in 1 .. n : Creations[i + 1] = proxies[i]
       /\ \A i \in 1 .. n : Creations[n + 1 + i] = others[i]
  BY <1>8, <1>9, Zenon DEF LastCreation
<1>11. DOMAIN Creations = 1 .. LastCreation /\ LastCreation \in Nat \ {0}
  BY <1>1, <1>10 DEF LastCreation
<1>12. ASSUME NEW r \in Registries
       PROVE  /\ \E k \in 1 .. LastCreation : Creations[k] = [kind |-> "proxy", name |-> r]
              /\ \E k \in 1 .. LastCreation : Creations[k] = [kind |-> "impl", name |-> r]
  <2>1. PICK i \in 1 .. n : Order[i] = r
    BY <1>1
  <2>2. i + 1 \in 1 .. LastCreation /\ n + 1 + i \in 1 .. LastCreation
    BY <1>1, <1>10
  <2> QED
    BY <1>5, <1>10, <2>1, <2>2, Zenon
<1>13. ASSUME NEW k \in 1 .. LastCreation
       PROVE  /\ Creations[k] \in Targets
              /\ Creations[k].kind \in {"impl", "proxy"}
              /\ Creations[k].kind = "proxy" => Creations[k].name \in Registries
  <2>1. Creations[k] \in T
    BY <1>10, <1>11 DEF LastCreation
  <2>2. Creations[k] \in Targets
    BY <1>11 DEF Targets
  <2> QED
    BY <2>1, <2>2 DEF T
<1> QED
  BY <1>11, <1>12, <1>13

\* When every creation has code all is deployed.
LEMMA CreatedIsDeployed ==
  ASSUME \A i \in 1 .. LastCreation : Deployed(Creations[i])
  PROVE  AllDeployed
<1> SUFFICES ASSUME NEW r \in Registries
             PROVE  HasCode(r) /\ r \in impls
  BY DEF AllDeployed
<1>1. PICK i \in 1 .. LastCreation : Creations[i] = [kind |-> "proxy", name |-> r]
  BY CreationsCover
<1>2. PICK j \in 1 .. LastCreation : Creations[j] = [kind |-> "impl", name |-> r]
  BY CreationsCover
<1>3. Deployed([kind |-> "proxy", name |-> r]) /\ Deployed([kind |-> "impl", name |-> r])
  BY <1>1, <1>2
<1> QED
  BY <1>3 DEF Deployed

\* What has code keeps it, and what can be created stays possible until it is made.
LEMMA AssuredStays ==
  ASSUME ProxyInv, [Next]_vars, NEW k \in 1 .. LastCreation
  PROVE  /\ Deployed(Creations[k]) => Deployed(Creations[k])'
         /\ Assured(Creations[k]) => Assured(Creations[k])'
<1> DEFINE t == Creations[k]
<1>1. /\ t.kind \in {"impl", "proxy"}
      /\ t.kind = "proxy" => t.name \in Registries
  BY CreationsCover
<1> HIDE DEF t
<1>2. ASSUME Deployed(t)
      PROVE  Deployed(t)'
  <2>1. CASE t.kind = "impl"
    BY <1>2, <2>1, CodeStays DEF Deployed, t
  <2>2. CASE t.kind = "proxy"
    <3>1. HasCode(t.name) /\ t.name \in Registries
      BY <1>1, <1>2, <2>2 DEF Deployed
    <3>2. HasCode(t.name)'
      BY <3>1, CodeStays DEF t
    <3> QED
      BY <2>2, <3>2 DEF Deployed, t
  <2> QED
    BY <1>1, <2>1, <2>2
<1>3. ASSUME CanCreate(t)
      PROVE  Deployed(t)' \/ CanCreate(t)'
  BY <1>3, CodeStays DEF CanCreate
<1> QED
  BY <1>2, <1>3 DEF Assured, t

\* A creation that is mined is there, if it was assured.
LEMMA MinedIsDeployed ==
  ASSUME ProxyInv, MineCreation, NEW k \in 1 .. LastCreation,
         Head(queue) = Creations[k], Assured(Creations[k])
  PROVE  Deployed(Creations[k])'
<1> DEFINE t == Creations[k]
<1>1. CASE Deployed(t)
  <2>1. [Next]_vars
    BY DEF Next
  <2> QED
    BY <1>1, <2>1, AssuredStays
<1>2. CASE CanCreate(t)
  <2>1. Create(t)
    BY <1>2 DEF MineCreation
  <2>2. CASE t.kind = "impl"
    BY <2>1, <2>2 DEF Create, Deployed
  <2>3. CASE t.kind = "proxy"
    <3>1. t.name \in Registries
      BY <2>3, CreationsCover
    <3>2. proxy'[t.name] = Initialised(t.name)
      BY <2>1, <2>3, <3>1 DEF Create, ProxyInv
    <3>3. HasCode(t.name)'
      BY <3>1, <3>2, Shapes DEF HasCode
    <3> QED
      BY <2>3, <3>3 DEF Deployed
  <2> QED
    BY <2>2, <2>3, CreationsCover
<1> QED
  BY <1>1, <1>2 DEF Assured

\* The steps that do not concern deploy-vanity.
LEMMA BesideDeploy ==
  ASSUME [Next]_vars, ~MineCreation, ~DeployStep, ~RunDeploy
  PROVE  /\ UNCHANGED queue
         /\ UNCHANGED deploy \/ deploy' = DeployIdle
         /\ said' \subseteq said \cup {"upgraded"}
<1>1. CASE MineOwner
  BY <1>1 DEF MineOwner, MineOwnerTx, scriptVars
<1>2. CASE \E t \in Targets : OtherCreates(t)
  BY <1>2 DEF OtherCreates, scriptVars
<1>3. CASE DeployFactory \/ OwnerTransacts \/ FundOwner
  BY <1>3 DEF DeployFactory, OwnerTransacts, FundOwner, scriptVars
<1>4. CASE RunUpgrade \/ UpgradeStep
  BY <1>4 DEF RunUpgrade, UpgradeStep, UpgradeCheck, UpgradeNonce, UpgradeEstimate,
              UpgradeSend, UpgradeWait, UpgradeNext, chainVars
<1>5. CASE RunGenerate \/ GenerateEstimate
  BY <1>5 DEF RunGenerate, GenerateEstimate, chainVars
<1>6. CASE RunPresigned \/ PresignedStep
  BY <1>6 DEF RunPresigned, PresignedStep, PresignedFund, PresignedNonce, PresignedSend,
              PresignedConfirm, PresignedVerify, chainVars
<1>7. CASE Crash
  BY <1>7 DEF Crash, chainVars
<1>8. CASE UNCHANGED vars
  BY <1>8 DEF vars, chainVars, scriptVars
<1> QED
  BY <1>1, <1>2, <1>3, <1>4, <1>5, <1>6, <1>7, <1>8 DEF Next

\* The script goes on to a creation only when all before it are there.
LEMMA NextKeepsDeploy ==
  ASSUME VanityInv, deploy.pc # "idle", Deployed(Creations[deploy.k]), DeployNext,
         UNCHANGED <<codeVars, queue>>
  PROVE  DeployInv'
<1> DEFINE n == LastCreation
<1>1. PICK k \in 1 .. n : k = deploy.k /\ CreatedBefore(k) /\ Deployed(Creations[k])
  BY DEF VanityInv, DeployInv
<1>2. n \in Nat \ {0}
  BY CreationsCover
<1>3. \A t : Deployed(t) <=> Deployed(t)'
  BY DEF Deployed, HasCode, codeVars
<1>4. \A i \in 1 .. n : i < k + 1 => Deployed(Creations[i])
  BY <1>1, <1>2 DEF CreatedBefore
<1>5. AllDeployed => AllDeployed'
  BY DEF AllDeployed, HasCode, codeVars
<1>6. CASE k < n
  <2>1. deploy' = [pc |-> "check", k |-> k + 1] /\ UNCHANGED said
    BY <1>1, <1>6 DEF DeployNext, LastCreation
  <2>2. k + 1 \in 1 .. n
    BY <1>1, <1>2, <1>6
  <2>3. CreatedBefore(k + 1)'
    BY <1>3, <1>4 DEF CreatedBefore
  <2> QED
    BY <1>5, <2>1, <2>2, <2>3 DEF VanityInv, DeployInv, DeployedWhenSaid
<1>7. CASE ~ (k < n)
  <2>1. deploy' = DeployIdle
    BY <1>1, <1>7 DEF DeployNext, LastCreation
  <2>2. \A i \in 1 .. n : i < k + 1
    BY <1>1, <1>2, <1>7
  <2>3. AllDeployed
    BY <1>4, <2>2, CreatedIsDeployed
  <2> QED
    BY <1>5, <2>1, <2>3 DEF VanityInv, DeployInv, DeployedWhenSaid, DeployIdle
<1> QED
  BY <1>6, <1>7

\* Every step keeps the proxies' shapes and the script's list.
LEMMA VanityInductive ==
  ASSUME VanityInv, [Next]_vars
  PROVE  VanityInv'
<1> USE CreationsCover
<1>1. ProxyInv /\ ProxyInv' /\ DeployInv
  BY CodeStays DEF VanityInv
<1>2. AllDeployed => AllDeployed'
  BY <1>1, CodeStays DEF AllDeployed
<1>3. \A k \in 1 .. LastCreation :
        /\ Deployed(Creations[k]) => Deployed(Creations[k])'
        /\ Assured(Creations[k]) => Assured(Creations[k])'
        /\ CreatedBefore(k) => CreatedBefore(k)'
  BY <1>1, AssuredStays DEF CreatedBefore
<1>4. CASE MineCreation
  <2>1. /\ UNCHANGED <<deploy, said>>
        /\ queue # <<>> /\ queue' = Tail(queue)
    BY <1>4 DEF MineCreation, scriptVars
  <2>2. /\ queue \in Seq(Targets) /\ queue' \in Seq(Targets)
        /\ Len(queue) \in Nat \ {0} /\ Len(queue') = Len(queue) - 1
        /\ \A i \in 1 .. Len(queue') : queue'[i] = queue[i + 1]
        /\ Head(queue) = queue[1]
    BY <1>1, <2>1 DEF DeployInv
  <2>3. ASSUME deploy.pc = "wait"
        PROVE  \E k \in 1 .. LastCreation :
                 /\ k = deploy.k
                 /\ Assured(Creations[k])'
                 /\ IF queue' = <<>> THEN Deployed(Creations[k])'
                    ELSE queue'[Len(queue')] = Creations[k]
    <3>1. PICK k \in 1 .. LastCreation :
            k = deploy.k /\ Assured(Creations[k]) /\ queue[Len(queue)] = Creations[k]
      BY <1>1, <2>1, <2>3 DEF DeployInv
    <3>2. Assured(Creations[k])'
      BY <1>3, <3>1
    <3>3. CASE queue' = <<>>
      <4>1. Len(queue) = 1
        BY <2>2, <3>3
      <4>2. Head(queue) = Creations[k]
        BY <2>2, <3>1, <4>1
      <4>3. Deployed(Creations[k])'
        BY <1>1, <1>4, <3>1, <4>2, MinedIsDeployed
      <4> QED
        BY <3>1, <3>2, <3>3, <4>3
    <3>4. CASE queue' # <<>>
      <4>1. Len(queue') \in 1 .. Len(queue') /\ Len(queue') + 1 = Len(queue)
        BY <2>2, <3>4
      <4> QED
        BY <2>2, <3>1, <3>2, <3>4, <4>1
    <3> QED
      BY <3>3, <3>4
  <2>4. ASSUME deploy.pc # "idle"
        PROVE  \E k \in 1 .. LastCreation : k = deploy.k /\ CreatedBefore(k)'
    BY <1>1, <1>3, <2>4 DEF DeployInv
  <2> QED
    BY <1>1, <1>2, <2>1, <2>2, <2>3, <2>4 DEF VanityInv, DeployInv, DeployedWhenSaid
<1>5. CASE RunDeploy
  <2>1. deploy' = [pc |-> "check", k |-> 1] /\ UNCHANGED <<queue, said>>
    BY <1>5 DEF RunDeploy, chainVars
  <2>2. 1 \in 1 .. LastCreation /\ CreatedBefore(1)'
    BY DEF CreatedBefore
  <2> QED
    BY <1>1, <1>2, <2>1, <2>2 DEF VanityInv, DeployInv, DeployedWhenSaid
<1>6. CASE DeployCheck
  <2>1. UNCHANGED <<codeVars, queue>> /\ deploy.pc = "check"
    BY <1>6 DEF DeployCheck, chainVars
  <2>2. CASE Deployed(Creations[deploy.k])
    BY <1>1, <1>6, <2>1, <2>2, NextKeepsDeploy DEF DeployCheck, VanityInv
  <2>3. CASE ~Deployed(Creations[deploy.k])
    <3>1. deploy' = [deploy EXCEPT !.pc = "send"] /\ UNCHANGED said
      BY <1>6, <2>3 DEF DeployCheck
    <3>2. PICK k \in 1 .. LastCreation : k = deploy.k /\ CreatedBefore(k)
      BY <1>1, <2>1 DEF DeployInv
    <3>3. deploy'.k = k /\ CreatedBefore(k)'
      BY <1>3, <3>1, <3>2
    <3> QED
      BY <1>1, <1>2, <2>1, <3>1, <3>3 DEF VanityInv, DeployInv, DeployedWhenSaid
  <2> QED
    BY <2>2, <2>3
<1>7. CASE DeploySend
  <2>1. PICK k \in 1 .. LastCreation : k = deploy.k /\ CreatedBefore(k)
    BY <1>1, <1>7 DEF DeploySend, DeployInv
  <2>2. UNCHANGED said /\ CreatedBefore(k)'
    BY <1>3, <1>7, <2>1 DEF DeploySend
  <2>3. CASE CanCreate(Creations[k])
    <3>1. queue' = Append(queue, Creations[k]) /\ deploy' = [deploy EXCEPT !.pc = "wait"]
      BY <1>7, <2>1, <2>3 DEF DeploySend
    <3>2. queue' \in Seq(Targets) /\ queue' # <<>> /\ queue'[Len(queue')] = Creations[k]
      BY <1>1, <3>1 DEF DeployInv
    <3>3. Assured(Creations[k])'
      BY <1>3, <2>3 DEF Assured
    <3>4. deploy'.k = k
      BY <2>1, <3>1
    <3> QED
      BY <1>1, <1>2, <2>2, <3>2, <3>3, <3>4 DEF VanityInv, DeployInv, DeployedWhenSaid
  <2>4. CASE ~CanCreate(Creations[k])
    <3>1. deploy' = DeployIdle /\ UNCHANGED queue
      BY <1>7, <2>1, <2>4 DEF DeploySend
    <3> QED
      BY <1>1, <1>2, <2>2, <3>1 DEF VanityInv, DeployInv, DeployedWhenSaid, DeployIdle
  <2> QED
    BY <2>3, <2>4
<1>8. CASE DeployWait
  <2>1. UNCHANGED <<codeVars, queue>> /\ deploy.pc = "wait" /\ queue = <<>> /\ DeployNext
    BY <1>8 DEF DeployWait, chainVars
  <2>2. Deployed(Creations[deploy.k])
    BY <1>1, <2>1 DEF DeployInv
  <2> QED
    BY <1>1, <2>1, <2>2, NextKeepsDeploy DEF VanityInv
<1>9. CASE ~MineCreation /\ ~DeployStep /\ ~RunDeploy
  <2>1. /\ UNCHANGED queue
        /\ UNCHANGED deploy \/ deploy' = DeployIdle
        /\ "deployed" \in said' => "deployed" \in said
    BY <1>9, BesideDeploy
  <2>2. CASE deploy' = DeployIdle
    BY <1>1, <1>2, <2>1, <2>2 DEF VanityInv, DeployInv, DeployedWhenSaid, DeployIdle
  <2>3. CASE UNCHANGED deploy
    BY <1>1, <1>2, <1>3, <2>1, <2>3 DEF VanityInv, DeployInv, DeployedWhenSaid
  <2> QED
    BY <2>1, <2>2, <2>3
<1> QED
  BY <1>4, <1>5, <1>6, <1>7, <1>8, <1>9 DEF DeployStep

\* At the start nothing is announced.
LEMMA VanityAtStart ==
  ASSUME Init
  PROVE  VanityInv
<1>1. queue = <<>> /\ deploy.pc = "idle" /\ "deployed" \notin said
  BY DEF Init, DeployIdle
<1>2. DeployInv
  BY <1>1 DEF DeployInv, DeployedWhenSaid
<1> QED
  BY <1>2, ProxiesAtStart DEF VanityInv

\* "DEPLOYMENT COMPLETE" is true of any list of registries, whoever else creates
\* what the script was about to, and however often it was killed.
THEOREM AnnouncedIsDeployed ==
  Spec => []DeployedWhenSaid
<1>1. VanityInv => DeployedWhenSaid
  BY DEF VanityInv, DeployInv
<1> QED
  BY <1>1, VanityAtStart, VanityInductive, PTL DEF Spec
-----------------------------------------------------------------------------
(* The owner's transactions.                                               *)

IsUpgraded(r) == proxy[r].impl = r
Places == 1 .. Len(Order)

\* No transaction reverted, and none that upgrades was displaced by another use of
\* the owner's key.
Clean == reverted = {} /\ ~displaced

\* The nonces of the transactions that wait are those that are next, each once.
NonceInv ==
  /\ IsFiniteSet(mempool) /\ nonce \in Nat
  /\ \A t \in mempool : t.nonce \in Nat /\ nonce <= t.nonce /\ t.nonce < PendingNonce
  /\ \A s, t \in mempool : s.nonce = t.nonce => s = t
  /\ \A n \in Nat : nonce <= n /\ n < PendingNonce => \E t \in mempool : t.nonce = n

\* Both scripts come to place i with nonce i - 1 or later.
PlaceInv ==
  /\ \A t \in mempool : \A i \in Places : t.to = Order[i] => i <= t.nonce + 1
  /\ \A i \in Places : IsUpgraded(Order[i]) => i <= nonce

\* The transaction with place i's nonce waits, or was mined and upgraded the
\* proxy, or it or one before it reverted. It may be that of an earlier place, of
\* upgrade-vanity: then it comes after the signed one of that place.
Broadcast(i) ==
  IF nonce < i THEN \E t \in mempool : \E j \in Places :
                      t.nonce = i - 1 /\ j <= i /\ t.to = Order[j]
  ELSE IsUpgraded(Order[i]) \/ \E j \in Places : j <= i /\ j - 1 \in reverted

PresignedInv ==
  /\ presigned = [pc |-> presigned.pc, k |-> presigned.k, gas |-> presigned.gas]
  /\ presigned.pc # "idle" => presigned.k \in Places /\ AllDeployed
  /\ presigned.pc \in {"fund", "nonce"} => presigned.k = 1
  /\ presigned.pc = "send" =>
       /\ presigned.k <= PendingNonce + 1
       /\ ~displaced => \A i \in Places : i < presigned.k => Broadcast(i)
  /\ presigned.pc = "confirm" =>
       /\ \A i \in Places : i < presigned.k => i <= nonce /\ i - 1 \notin reverted
       /\ ~displaced => \A i \in Places : Broadcast(i)
  /\ ConfirmedIsUpgraded

\* The upgrade that the script waits for is made, or by the time the script goes
\* on, one of its proxy is mined, or one of an earlier proxy, which would revert.
Awaited ==
  \/ IsUpgraded(Order[upgrade.k])
  \/ \E t \in mempool : \E j \in Places :
       t.nonce <= upgrade.nonce /\ j <= upgrade.k /\ t.to = Order[j]

UpgradeInv ==
  /\ upgrade = [pc |-> upgrade.pc, k |-> upgrade.k, nonce |-> upgrade.nonce,
                gas |-> upgrade.gas, late |-> upgrade.late]
  /\ upgrade.nonce \in Nat
  /\ upgrade.pc # "idle" => upgrade.k \in Places /\ upgrade.k <= nonce + 1
  /\ upgrade.pc \in {"estimate", "send"} => upgrade.nonce <= PendingNonce
  /\ upgrade.pc \in {"estimate", "send", "wait"} => upgrade.k <= upgrade.nonce + 1
  /\ upgrade.pc # "idle" /\ upgrade.late =>
       /\ AllDeployed
       /\ Clean => \A i \in Places : i < upgrade.k => IsUpgraded(Order[i])
  /\ upgrade.pc = "wait" /\ upgrade.late /\ Clean => Awaited

OwnerInv ==
  /\ ProxyInv /\ NonceInv /\ PlaceInv
  /\ PresignedInv /\ UpgradeInv
  /\ UpgradedUnlessReverted

\* The places of the list, each with a registry of its own.
LEMMA PlacesList ==
  /\ Len(Order) \in Nat \ {0}
  /\ \A i \in Places : Order[i] \in Registries
  /\ \A r \in Registries : \E i \in Places : Order[i] = r
  /\ \A i, j \in Places : Order[i] = Order[j] => i = j
<1>1. Len(Order) \in Nat /\ DOMAIN Order = 1 .. Len(Order)
  BY VanityConstants
<1>2. \E i \in DOMAIN Order : Order[i] = Identity
  BY VanityConstants DEF Registries
<1> QED
  BY <1>1, <1>2, VanityConstants DEF Places, Registries

\* Upgraded proxies stay upgraded, and only the owner's transactions upgrade.
LEMMA UpgradesStay ==
  ASSUME ProxyInv, [Next]_vars
  PROVE  /\ \A r \in Registries : IsUpgraded(r) => IsUpgraded(r)'
         /\ ~MineOwner => \A r \in Registries : IsUpgraded(r)' => IsUpgraded(r)
<1>1. CASE UNCHANGED codeVars
  BY <1>1 DEF codeVars, IsUpgraded
<1>2. CASE \E t : CanCreate(t) /\ Create(t)
  <2>1. PICK t : CanCreate(t) /\ Create(t)
    BY <1>2
  <2>2. CASE UNCHANGED proxy
    BY <2>2 DEF IsUpgraded
  <2>3. CASE ~UNCHANGED proxy
    <3> DEFINE q == t.name
    <3>1. proxy' = [proxy EXCEPT ![q] = Initialised(q)] /\ ~HasCode(q)
      BY <2>1, <2>3 DEF Create, CanCreate, Deployed
    <3> HIDE DEF q
    <3>2. \A r \in Registries : proxy'[r] = IF r = q THEN Initialised(r) ELSE proxy[r]
      BY <3>1 DEF ProxyInv
    <3>3. \A r \in Registries : r = q => ~IsUpgraded(r) /\ ~IsUpgraded(r)'
      BY <3>1, <3>2, Shapes DEF HasCode, IsUpgraded
    <3>4. \A r \in Registries : r # q => (IsUpgraded(r)' <=> IsUpgraded(r))
      BY <3>2 DEF IsUpgraded
    <3> QED
      BY <3>3, <3>4
  <2> QED
    BY <2>2, <2>3
<1>3. CASE MineOwner
  <2>1. PICK tx \in mempool : MineOwnerTx(tx)
    BY <1>3 DEF MineOwner
  <2>2. CASE UNCHANGED proxy
    BY <1>3, <2>2 DEF IsUpgraded
  <2>3. CASE ~UNCHANGED proxy
    <3> DEFINE q == tx.to
    <3>1. proxy' = [proxy EXCEPT ![q] = Upgraded(q)]
      BY <2>1, <2>3 DEF MineOwnerTx
    <3> HIDE DEF q
    <3>2. \A r \in Registries : proxy'[r] = IF r = q THEN Upgraded(r) ELSE proxy[r]
      BY <3>1 DEF ProxyInv
    <3>3. \A r : Upgraded(r).impl = r
      BY DEF Upgraded
    <3>4. \A r \in Registries : IsUpgraded(r) => IsUpgraded(r)'
      BY <3>2, <3>3 DEF IsUpgraded
    <3> QED
      BY <1>3, <3>4
  <2> QED
    BY <2>2, <2>3
<1>4. CASE DeployFactory
  BY <1>4 DEF DeployFactory, IsUpgraded
<1> QED
  BY <1>1, <1>2, <1>3, <1>4, CodeSteps

\* The steps that touch the owner's account.
LEMMA OwnerSteps ==
  ASSUME [Next]_vars
  PROVE  \/ UNCHANGED <<mempool, nonce, reverted, displaced>>
         \/ MineOwner
         \/ OwnerTransacts
         \/ UpgradeSend
         \/ PresignedSend
<1>1. CASE MineCreation
  BY <1>1 DEF MineCreation, ownerVars
<1>2. CASE \E t \in Targets : OtherCreates(t)
  BY <1>2 DEF OtherCreates, ownerVars
<1>3. CASE DeployFactory \/ FundOwner
  BY <1>3 DEF DeployFactory, FundOwner, ownerVars
<1>4. CASE RunDeploy \/ DeployStep
  BY <1>4 DEF RunDeploy, DeployStep, DeployCheck, DeploySend, DeployWait, chainVars, ownerVars
<1>5. CASE RunUpgrade \/ UpgradeCheck \/ UpgradeNonce \/ UpgradeEstimate \/ UpgradeWait
  BY <1>5 DEF RunUpgrade, UpgradeCheck, UpgradeNonce, UpgradeEstimate, UpgradeWait, chainVars,
              ownerVars
<1>6. CASE RunGenerate \/ GenerateEstimate
  BY <1>6 DEF RunGenerate, GenerateEstimate, chainVars, ownerVars
<1>7. CASE RunPresigned \/ PresignedFund \/ PresignedNonce \/ PresignedConfirm \/ PresignedVerify
  BY <1>7 DEF RunPresigned, PresignedFund, PresignedNonce, PresignedConfirm, PresignedVerify,
              chainVars, ownerVars
<1>8. CASE Crash \/ UNCHANGED vars
  BY <1>8 DEF Crash, vars, chainVars, ownerVars
<1> QED
  BY <1>1, <1>2, <1>3, <1>4, <1>5, <1>6, <1>7, <1>8 DEF Next, UpgradeStep, PresignedStep

\* What the three senders hand to the node.
LEMMA OwnerTransactsEffect ==
  ASSUME OwnerTransacts
  PROVE  /\ UNCHANGED <<proxy, nonce, reverted, upgrade, presigned, said>>
         /\ ~displaced' => ~displaced
         /\ \E tx : /\ tx.nonce \in nonce .. PendingNonce /\ tx.to = None /\ Accepts(tx)
                    /\ ~displaced' => \A t \in mempool : t.nonce = tx.nonce => t.to = None
<1>1. UNCHANGED <<proxy, nonce, reverted, upgrade, presigned, said>>
  BY DEF OwnerTransacts, codeVars, scriptVars
<1>2. PICK n \in nonce .. PendingNonce :
        LET tx == [nonce |-> n, to |-> None, gas |-> "full"] IN
        /\ Accepts(tx)
        /\ displaced' = (displaced \/ \E t \in SameNonce(tx) : t.to # None)
  BY DEF OwnerTransacts
<1> DEFINE tx == [nonce |-> n, to |-> None, gas |-> "full"]
<1>3. /\ Accepts(tx) /\ tx.nonce = n /\ tx.to = None
      /\ displaced' = (displaced \/ \E t \in SameNonce(tx) : t.to # None)
  BY <1>2
<1> HIDE DEF tx
<1> QED
  BY <1>1, <1>3 DEF SameNonce

LEMMA UpgradeSendEffect ==
  ASSUME UpgradeSend
  PROVE  /\ upgrade.pc = "send"
         /\ UNCHANGED <<proxy, impls, nonce, reverted, displaced, presigned, said>>
         /\ \/ UNCHANGED mempool /\ upgrade' = UpgradeIdle
            \/ /\ upgrade' = [upgrade EXCEPT !.pc = "wait"]
               /\ \E tx : tx.nonce = upgrade.nonce /\ tx.to = Order[upgrade.k] /\ Accepts(tx)
<1> DEFINE tx == [nonce |-> upgrade.nonce, to |-> Order[upgrade.k], gas |-> upgrade.gas]
<1>1. /\ upgrade.pc = "send"
      /\ UNCHANGED <<proxy, impls, nonce, reverted, displaced, presigned, said>>
  BY DEF UpgradeSend, codeVars
<1>2. \/ Accepts(tx) /\ upgrade' = [upgrade EXCEPT !.pc = "wait"]
      \/ Refuses(tx) /\ upgrade' = UpgradeIdle
  BY DEF UpgradeSend
<1>3. tx.nonce = upgrade.nonce /\ tx.to = Order[upgrade.k]
  OBVIOUS
<1> HIDE DEF tx
<1> QED
  BY <1>1, <1>2, <1>3 DEF Refuses

\* Place k's signed transaction has the nonce k - 1.
LEMMA PresignedSendEffect ==
  ASSUME PresignedSend
  PROVE  /\ presigned.pc = "send"
         /\ UNCHANGED <<proxy, impls, nonce, reverted, displaced, upgrade, said>>
         /\ \/ UNCHANGED mempool /\ presigned' = PresignedIdle
            \/ /\ presigned' = IF presigned.k < Len(Order)
                               THEN [presigned EXCEPT !.k = @ + 1]
                               ELSE [presigned EXCEPT !.pc = "confirm", !.k = 1]
               /\ \E tx : tx.nonce = presigned.k - 1 /\ tx.to = Order[presigned.k] /\ Accepts(tx)
<1> DEFINE tx == [nonce |-> presigned.k - 1, to |-> Order[presigned.k],
                  gas |-> presigned.gas[presigned.k]]
<1>1. /\ presigned.pc = "send"
      /\ UNCHANGED <<proxy, impls, nonce, reverted, displaced, upgrade, said>>
  BY DEF PresignedSend, codeVars
<1>2. \/ /\ Accepts(tx)
         /\ presigned' = IF presigned.k < Len(Order)
                         THEN [presigned EXCEPT !.k = @ + 1]
                         ELSE [presigned EXCEPT !.pc = "confirm", !.k = 1]
      \/ Refuses(tx) /\ presigned' = PresignedIdle
  BY DEF PresignedSend
<1>3. tx.nonce = presigned.k - 1 /\ tx.to = Order[presigned.k]
  OBVIOUS
<1> HIDE DEF tx
<1> QED
  BY <1>1, <1>2, <1>3 DEF Refuses

\* A transaction with the next free nonce.
LEMMA PoolGrows ==
  ASSUME NonceInv, NEW tx, tx.nonce = PendingNonce,
         mempool' = mempool \cup {tx}, UNCHANGED nonce
  PROVE  NonceInv' /\ PendingNonce' = PendingNonce + 1
<1>1. Cardinality(mempool) \in Nat
  BY FS_CardinalityType DEF NonceInv
<1>2. PendingNonce \in Nat
  BY <1>1 DEF NonceInv, PendingNonce
<1>3. tx \notin mempool
  BY <1>2 DEF NonceInv
<1>4. IsFiniteSet(mempool') /\ Cardinality(mempool') = Cardinality(mempool) + 1
  BY <1>3, FS_AddElement DEF NonceInv
<1>5. PendingNonce' = PendingNonce + 1
  BY <1>1, <1>4 DEF PendingNonce, NonceInv
<1>6. \A t \in mempool' : t.nonce \in Nat /\ nonce' <= t.nonce /\ t.nonce < PendingNonce'
  BY <1>1, <1>2, <1>5 DEF NonceInv, PendingNonce
<1>7. \A s, t \in mempool' : s.nonce = t.nonce => s = t
  BY <1>2 DEF NonceInv
<1>8. \A n \in Nat : nonce' <= n /\ n < PendingNonce' => \E t \in mempool' : t.nonce = n
  <2> SUFFICES ASSUME NEW n \in Nat, nonce <= n, n < PendingNonce + 1
               PROVE  \E t \in mempool' : t.nonce = n
    BY <1>5
  <2>1. CASE n = PendingNonce
    BY <2>1
  <2>2. CASE n < PendingNonce
    BY <2>2 DEF NonceInv
  <2> QED
    BY <1>2, <2>1, <2>2
<1> QED
  BY <1>4, <1>5, <1>6, <1>7, <1>8 DEF NonceInv

\* A transaction that replaces one with the same nonce.
LEMMA PoolReplaces ==
  ASSUME NonceInv, NEW tx, tx \notin mempool, NEW w \in mempool, w.nonce = tx.nonce,
         mempool' = (mempool \ {w}) \cup {tx}, UNCHANGED nonce
  PROVE  NonceInv' /\ PendingNonce' = PendingNonce
<1>1. Cardinality(mempool) \in Nat /\ IsFiniteSet(mempool)
  BY FS_CardinalityType DEF NonceInv
<1>2. IsFiniteSet(mempool \ {w}) /\ Cardinality(mempool \ {w}) = Cardinality(mempool) - 1
  BY <1>1, FS_RemoveElement
<1>3. tx \notin mempool \ {w}
  OBVIOUS
<1>4. IsFiniteSet(mempool') /\ Cardinality(mempool') = Cardinality(mempool \ {w}) + 1
  BY <1>2, <1>3, FS_AddElement
<1>5. PendingNonce' = PendingNonce
  BY <1>1, <1>2, <1>4 DEF PendingNonce
<1>6. \A t \in mempool' : t.nonce \in Nat /\ nonce' <= t.nonce /\ t.nonce < PendingNonce'
  BY <1>5 DEF NonceInv
<1>7. \A s, t \in mempool' : s.nonce = t.nonce => s = t
  BY DEF NonceInv
<1>8. \A n \in Nat : nonce' <= n /\ n < PendingNonce' => \E t \in mempool' : t.nonce = n
  BY <1>5 DEF NonceInv
<1> QED
  BY <1>4, <1>5, <1>6, <1>7, <1>8 DEF NonceInv

\* The next transaction is mined.
LEMMA PoolMines ==
  ASSUME NonceInv, NEW tx \in mempool, MineOwnerTx(tx)
  PROVE  NonceInv' /\ PendingNonce' = PendingNonce
<1>1. Cardinality(mempool) \in Nat /\ IsFiniteSet(mempool)
  BY FS_CardinalityType DEF NonceInv
<1>2. tx.nonce = nonce /\ nonce' = nonce + 1 /\ mempool' = mempool \ {tx} /\ nonce \in Nat
  BY DEF MineOwnerTx, NonceInv
<1>3. IsFiniteSet(mempool') /\ Cardinality(mempool') = Cardinality(mempool) - 1
  BY <1>1, <1>2, FS_RemoveElement
<1>4. PendingNonce' = PendingNonce
  BY <1>1, <1>2, <1>3 DEF PendingNonce
<1>5. \A t \in mempool' : t.nonce \in Nat /\ nonce' <= t.nonce /\ t.nonce < PendingNonce'
  <2> SUFFICES ASSUME NEW t \in mempool, t # tx
               PROVE  t.nonce \in Nat /\ nonce + 1 <= t.nonce /\ t.nonce < PendingNonce
    BY <1>2, <1>4
  <2>1. t.nonce \in Nat /\ nonce <= t.nonce /\ t.nonce < PendingNonce /\ t.nonce # nonce
    BY <1>2 DEF NonceInv
  <2> QED
    BY <1>2, <2>1
<1>6. \A s, t \in mempool' : s.nonce = t.nonce => s = t
  BY <1>2 DEF NonceInv
<1>7. \A n \in Nat : nonce' <= n /\ n < PendingNonce' => \E t \in mempool' : t.nonce = n
  <2> SUFFICES ASSUME NEW n \in Nat, nonce + 1 <= n, n < PendingNonce
               PROVE  \E t \in mempool' : t.nonce = n
    BY <1>2, <1>4
  <2>1. nonce <= n /\ n # nonce
    BY <1>2
  <2>2. PICK t \in mempool : t.nonce = n
    BY <2>1 DEF NonceInv
  <2> QED
    BY <1>2, <2>1, <2>2
<1> QED
  BY <1>2, <1>3, <1>4, <1>5, <1>6, <1>7 DEF NonceInv

\* What is mined of a proxy with code reverts or upgrades it.
LEMMA MinedEffect ==
  ASSUME ProxyInv, NEW tx \in mempool, MineOwnerTx(tx)
  PROVE  /\ reverted \subseteq reverted'
         /\ \A r \in Registries :
              /\ tx.to = r /\ HasCode(r) => nonce \in reverted' \/ IsUpgraded(r)'
              /\ tx.to # r => (IsUpgraded(r)' <=> IsUpgraded(r))
<1>1. CASE Reverts(tx)
  BY <1>1 DEF MineOwnerTx, IsUpgraded
<1>2. CASE ~Reverts(tx)
  <2>1. reverted' = reverted
    BY <1>2 DEF MineOwnerTx
  <2>2. CASE ~(tx.to # None /\ HasCode(tx.to))
    <3>1. UNCHANGED proxy
      BY <1>2, <2>2 DEF MineOwnerTx
    <3> QED
      BY <2>1, <2>2, <3>1, Shapes DEF IsUpgraded
  <2>3. CASE tx.to # None /\ HasCode(tx.to)
    <3> DEFINE q == tx.to
    <3>1. proxy' = [proxy EXCEPT ![q] = Upgraded(q)]
      BY <1>2, <2>3 DEF MineOwnerTx
    <3> HIDE DEF q
    <3>2. \A r \in Registries : proxy'[r] = IF r = q THEN Upgraded(r) ELSE proxy[r]
      BY <3>1 DEF ProxyInv
    <3>3. \A r : Upgraded(r).impl = r
      BY DEF Upgraded
    <3> QED
      BY <2>1, <3>2, <3>3 DEF IsUpgraded, q
  <2> QED
    BY <2>2, <2>3
<1> QED
  BY <1>1, <1>2

\* An upgrade of what is upgraded reverts.
LEMMA RepeatReverts ==
  ASSUME ProxyInv, NEW tx \in mempool, MineOwnerTx(tx), NEW r \in Registries, tx.to = r,
         IsUpgraded(r)
  PROVE  nonce \in reverted'
<1>1. proxy[r] = Reinitialised(r)
  BY Shapes DEF ProxyInv, IsUpgraded
<1>2. HasCode(r) /\ ~CanUpgrade(r)
  BY <1>1, Shapes DEF HasCode, CanUpgrade, Reinitialised
<1>3. Reverts(tx)
  BY <1>2, Shapes DEF Reverts
<1> QED
  BY <1>3 DEF MineOwnerTx

\* A transaction that the node accepts is the next, or replaces the one that has
\* its nonce.
LEMMA PoolAccepts ==
  ASSUME NonceInv, NEW tx, tx.nonce \in Nat, tx.nonce <= PendingNonce, Accepts(tx),
         UNCHANGED nonce
  PROVE  /\ NonceInv' /\ PendingNonce \in Nat /\ PendingNonce' \in Nat
         /\ PendingNonce <= PendingNonce' /\ tx.nonce < PendingNonce'
<1>1. Cardinality(mempool) \in Nat
  BY FS_CardinalityType DEF NonceInv
<1>2. PendingNonce \in Nat
  BY <1>1 DEF NonceInv, PendingNonce
<1>3. nonce <= tx.nonce /\ mempool' = (mempool \ SameNonce(tx)) \cup {tx}
  BY DEF Accepts
<1>4. CASE SameNonce(tx) = {}
  <2>1. ~(tx.nonce < PendingNonce)
    BY <1>3, <1>4 DEF NonceInv, SameNonce
  <2>2. tx.nonce = PendingNonce /\ mempool' = mempool \cup {tx}
    BY <1>2, <1>3, <1>4, <2>1
  <2>3. NonceInv' /\ PendingNonce' = PendingNonce + 1
    BY <2>2, PoolGrows
  <2> QED
    BY <1>2, <2>2, <2>3
<1>5. CASE SameNonce(tx) # {}
  <2>1. PICK w \in mempool : w.nonce = tx.nonce
    BY <1>5 DEF SameNonce
  <2>2. SameNonce(tx) = {w} /\ tx.nonce < PendingNonce
    BY <2>1 DEF NonceInv, SameNonce
  <2>3. CASE tx = w
    <3>1. mempool' = mempool
      BY <1>3, <2>2, <2>3
    <3>2. NonceInv' /\ PendingNonce' = PendingNonce
      BY <3>1 DEF NonceInv, PendingNonce
    <3> QED
      BY <1>2, <2>2, <3>2
  <2>4. CASE tx # w
    <3>1. tx \notin mempool /\ mempool' = (mempool \ {w}) \cup {tx}
      BY <1>3, <2>1, <2>2, <2>4 DEF NonceInv
    <3>2. NonceInv' /\ PendingNonce' = PendingNonce
      BY <2>1, <3>1, PoolReplaces
    <3> QED
      BY <1>2, <2>2, <3>2
  <2> QED
    BY <2>3, <2>4
<1> QED
  BY <1>4, <1>5

\* The pool stays in order, and the counts of transactions only grow.
LEMMA NoncesStay ==
  ASSUME OwnerInv, [Next]_vars
  PROVE  /\ NonceInv' /\ PendingNonce \in Nat /\ PendingNonce' \in Nat
         /\ nonce <= nonce' /\ PendingNonce <= PendingNonce'
<1>1. NonceInv /\ PresignedInv /\ UpgradeInv /\ nonce \in Nat
  BY DEF OwnerInv, NonceInv
<1>2. PendingNonce \in Nat
  BY <1>1, FS_CardinalityType DEF NonceInv, PendingNonce
<1>3. CASE UNCHANGED <<mempool, nonce>>
  <2>1. NonceInv' /\ PendingNonce' = PendingNonce /\ nonce' = nonce
    BY <1>1, <1>3 DEF NonceInv, PendingNonce
  <2> QED
    BY <1>1, <1>2, <2>1
<1>4. CASE MineOwner
  <2>1. PICK tx \in mempool : MineOwnerTx(tx)
    BY <1>4 DEF MineOwner
  <2>2. NonceInv' /\ PendingNonce' = PendingNonce /\ nonce' = nonce + 1
    BY <1>1, <2>1, PoolMines DEF MineOwnerTx
  <2> QED
    BY <1>1, <1>2, <2>2
<1>5. ASSUME NEW tx, tx.nonce \in Nat, tx.nonce <= PendingNonce, Accepts(tx), UNCHANGED nonce
      PROVE  /\ NonceInv' /\ PendingNonce \in Nat /\ PendingNonce' \in Nat
             /\ nonce <= nonce' /\ PendingNonce <= PendingNonce'
  BY <1>1, <1>5, PoolAccepts
<1>6. CASE OwnerTransacts
  <2>1. PICK tx : tx.nonce \in nonce .. PendingNonce /\ Accepts(tx) /\ UNCHANGED nonce
    BY <1>6, OwnerTransactsEffect
  <2> QED
    BY <1>1, <1>2, <1>5, <2>1
<1>7. CASE UpgradeSend /\ ~UNCHANGED mempool
  <2>1. PICK tx : tx.nonce = upgrade.nonce /\ Accepts(tx) /\ UNCHANGED nonce
    BY <1>7, UpgradeSendEffect
  <2>2. tx.nonce \in Nat /\ tx.nonce <= PendingNonce
    BY <1>1, <1>7, <2>1, UpgradeSendEffect DEF UpgradeInv
  <2> QED
    BY <1>5, <2>1, <2>2
<1>8. CASE PresignedSend /\ ~UNCHANGED mempool
  <2>1. PICK tx : tx.nonce = presigned.k - 1 /\ Accepts(tx) /\ UNCHANGED nonce
    BY <1>8, PresignedSendEffect
  <2>2. presigned.k \in Nat \ {0} /\ presigned.k <= PendingNonce + 1
    BY <1>1, <1>8, PresignedSendEffect, PlacesList DEF PresignedInv, Places
  <2>3. tx.nonce \in Nat /\ tx.nonce <= PendingNonce
    BY <1>2, <2>1, <2>2
  <2> QED
    BY <1>5, <2>1, <2>3
<1> QED
  BY <1>3, <1>4, <1>6, <1>7, <1>8, OwnerSteps, UpgradeSendEffect, PresignedSendEffect

\* Nobody sends the upgrade of a place too early, and each costs a transaction.
LEMMA PlacesStay ==
  ASSUME OwnerInv, [Next]_vars
  PROVE  PlaceInv'
<1>1. ProxyInv /\ NonceInv /\ PlaceInv /\ PresignedInv /\ UpgradeInv
  BY DEF OwnerInv
<1>2. nonce \in Nat /\ nonce' \in Nat /\ nonce <= nonce'
  <2>1. NonceInv /\ NonceInv' /\ nonce <= nonce'
    BY <1>1, NoncesStay
  <2> QED
    BY <2>1 DEF NonceInv
<1>3. \A i \in Places : i \in Nat /\ Order[i] \in Registries /\ Order[i] # None
  BY PlacesList, Shapes DEF Places
<1>4. ASSUME NEW i \in Places, IsUpgraded(Order[i])'
      PROVE  i <= nonce'
  <2>1. CASE IsUpgraded(Order[i])
    BY <1>1, <1>2, <1>3, <2>1 DEF PlaceInv
  <2>2. CASE ~IsUpgraded(Order[i])
    <3>1. PICK tx \in mempool : MineOwnerTx(tx)
      BY <1>1, <1>3, <1>4, <2>2, UpgradesStay DEF MineOwner
    <3>2. tx.to = Order[i] /\ tx.nonce = nonce /\ nonce' = nonce + 1
      BY <1>1, <1>3, <1>4, <2>2, <3>1, MinedEffect DEF MineOwnerTx
    <3> QED
      BY <1>1, <3>2 DEF PlaceInv
  <2> QED
    BY <2>1, <2>2
<1>5. ASSUME NEW t \in mempool', NEW i \in Places, t.to = Order[i]
      PROVE  i <= t.nonce + 1
  <2>1. CASE t \in mempool
    BY <1>1, <1>5, <2>1 DEF PlaceInv
  <2>2. CASE t \notin mempool /\ OwnerTransacts
    BY <1>3, <1>5, <2>2, OwnerTransactsEffect DEF Accepts
  <2>3. CASE t \notin mempool /\ UpgradeSend
    <3>1. t.nonce = upgrade.nonce /\ t.to = Order[upgrade.k] /\ upgrade.pc = "send"
      BY <2>3, UpgradeSendEffect DEF Accepts
    <3>2. upgrade.k \in Places /\ upgrade.k <= upgrade.nonce + 1
      BY <1>1, <3>1 DEF UpgradeInv
    <3> QED
      BY <1>5, <3>1, <3>2, PlacesList
  <2>4. CASE t \notin mempool /\ PresignedSend
    <3>1. t.nonce = presigned.k - 1 /\ t.to = Order[presigned.k] /\ presigned.pc = "send"
      BY <2>4, PresignedSendEffect DEF Accepts
    <3>2. presigned.k \in Places
      BY <1>1, <3>1 DEF PresignedInv
    <3>3. i = presigned.k
      BY <1>5, <3>1, <3>2, PlacesList
    <3> QED
      BY <1>3, <3>1, <3>3
  <2>5. CASE MineOwner
    BY <1>5, <2>1, <2>5 DEF MineOwner, MineOwnerTx
  <2> QED
    BY <1>5, <2>1, <2>2, <2>3, <2>4, <2>5, OwnerSteps
<1> QED
  BY <1>4, <1>5 DEF PlaceInv

\* What reverted, or was displaced, stays so.
LEMMA HistoryStays ==
  ASSUME ProxyInv, [Next]_vars
  PROVE  /\ reverted \subseteq reverted' /\ (~displaced' => ~displaced)
         /\ Clean' => Clean
<1>1. CASE UNCHANGED <<reverted, displaced>>
  BY <1>1 DEF Clean
<1>2. CASE MineOwner
  <2>1. UNCHANGED displaced
    BY <1>2 DEF MineOwner, MineOwnerTx
  <2>2. reverted \subseteq reverted'
    BY <1>2, MinedEffect DEF MineOwner
  <2> QED
    BY <2>1, <2>2 DEF Clean
<1>3. CASE OwnerTransacts
  BY <1>3, OwnerTransactsEffect DEF Clean
<1> QED
  BY <1>1, <1>2, <1>3, OwnerSteps, UpgradeSendEffect, PresignedSendEffect

\* A revert is of the transaction that is mined.
LEMMA NewReverts ==
  ASSUME [Next]_vars, NEW n, n \in reverted', n \notin reverted
  PROVE  n = nonce
<1>1. CASE MineOwner
  BY <1>1 DEF MineOwner, MineOwnerTx
<1> QED
  BY <1>1, OwnerSteps, OwnerTransactsEffect, UpgradeSendEffect, PresignedSendEffect

-----------------------------------------------------------------------------
(* upgrade-vanity-presigned.                                               *)

\* A transaction that was broadcast is not lost to those of upgrade-vanity: what
\* takes its place is the upgrade of its proxy or of an earlier one.
LEMMA BroadcastStays ==
  ASSUME OwnerInv, [Next]_vars, ~displaced', AllDeployed, NEW i \in Places,
         \A j \in Places : j <= i => Broadcast(j),
         PresignedSend => i < presigned.k
  PROVE  Broadcast(i)'
<1>1. /\ i \in Nat \ {0} /\ nonce \in Nat /\ Order[i] \in Registries
      /\ ProxyInv /\ NonceInv /\ PresignedInv /\ UpgradeInv
      /\ \A j \in Places : j \in Nat \ {0} /\ Order[j] \in Registries /\ Order[j] # None
  BY PlacesList, Shapes DEF OwnerInv, NonceInv, Places
<1>2. /\ IsUpgraded(Order[i]) => IsUpgraded(Order[i])'
      /\ reverted \subseteq reverted' /\ Broadcast(i)
  BY <1>1, UpgradesStay, HistoryStays
<1>3. CASE UNCHANGED <<mempool, nonce, reverted>>
  BY <1>2, <1>3 DEF Broadcast
<1>4. CASE MineOwner
  <2>1. PICK tx \in mempool : MineOwnerTx(tx)
    BY <1>4 DEF MineOwner
  <2>2. nonce' = nonce + 1 /\ tx.nonce = nonce /\ mempool' = mempool \ {tx}
    BY <2>1 DEF MineOwnerTx
  <2>3. CASE nonce < i - 1
    <3>1. PICK t \in mempool, j \in Places : t.nonce = i - 1 /\ j <= i /\ t.to = Order[j]
      BY <1>1, <1>2, <2>3 DEF Broadcast
    <3>2. t \in mempool' /\ nonce' < i
      BY <1>1, <2>2, <2>3, <3>1
    <3> QED
      BY <3>1, <3>2 DEF Broadcast
  <2>4. CASE nonce = i - 1
    <3>1. PICK t \in mempool, j \in Places : t.nonce = i - 1 /\ j <= i /\ t.to = Order[j]
      BY <1>1, <1>2, <2>4 DEF Broadcast
    <3>2. t = tx /\ ~(nonce' < i)
      BY <1>1, <2>2, <2>4, <3>1 DEF NonceInv
    <3>3. CASE j = i
      <4>1. nonce \in reverted' \/ IsUpgraded(Order[i])'
        BY <1>1, <2>1, <3>1, <3>2, <3>3, MinedEffect DEF AllDeployed
      <4> QED
        BY <1>1, <2>4, <3>2, <4>1 DEF Broadcast
    <3>4. CASE j # i
      <4>1. j < i /\ ~(nonce < j) /\ Broadcast(j)
        <5>1. j \in Nat /\ i \in Nat /\ j <= i /\ nonce = i - 1
          BY <1>1, <2>4, <3>1
        <5>2. Broadcast(j)
          BY <3>1
        <5> QED
          BY <3>4, <5>1, <5>2
      <4>2. CASE IsUpgraded(Order[j])
        <5>1. nonce \in reverted'
          BY <1>1, <2>1, <3>1, <3>2, <4>2, RepeatReverts
        <5> QED
          BY <1>1, <2>4, <3>2, <5>1 DEF Broadcast
      <4>3. CASE \E m \in Places : m <= j /\ m - 1 \in reverted
        <5>1. \E m \in Places : m <= i /\ m - 1 \in reverted'
          BY <1>1, <1>2, <4>1, <4>3
        <5> QED
          BY <3>2, <5>1 DEF Broadcast
      <4> QED
        BY <4>1, <4>2, <4>3 DEF Broadcast
    <3> QED
      BY <3>3, <3>4
  <2>5. CASE ~(nonce < i)
    <3>1. ~(nonce' < i)
      BY <1>1, <2>2, <2>5
    <3> QED
      BY <1>2, <2>5, <3>1 DEF Broadcast
  <2> QED
    BY <1>1, <2>3, <2>4, <2>5
<1>5. ASSUME NEW tx, Accepts(tx), UNCHANGED <<nonce, reverted>>,
             \/ \A t \in mempool : t.nonce = tx.nonce => t.to = None
             \/ tx.nonce # i - 1
             \/ \E j \in Places : j <= i /\ tx.to = Order[j]
      PROVE  Broadcast(i)'
  <2>1. CASE ~(nonce < i)
    BY <1>2, <1>5, <2>1 DEF Broadcast
  <2>2. CASE nonce < i
    <3>1. PICK t \in mempool, j \in Places : t.nonce = i - 1 /\ j <= i /\ t.to = Order[j]
      BY <1>2, <2>2 DEF Broadcast
    <3>2. t \in mempool' \/ (tx.nonce = i - 1 /\ tx \in mempool')
      BY <1>5, <3>1 DEF Accepts, SameNonce
    <3>3. t.to # None
      BY <1>1, <3>1
    <3>4. t \in mempool' \/ \E m \in Places : m <= i /\ tx.to = Order[m]
      BY <1>5, <3>1, <3>3 DEF Accepts, SameNonce
    <3> QED
      BY <1>5, <2>2, <3>1, <3>2, <3>4 DEF Broadcast
  <2> QED
    BY <2>1, <2>2
<1>6. CASE OwnerTransacts
  BY <1>5, <1>6, OwnerTransactsEffect
<1>7. CASE UpgradeSend
  <2>1. CASE UNCHANGED mempool
    BY <1>3, <1>7, <2>1, UpgradeSendEffect
  <2>2. CASE ~UNCHANGED mempool
    <3>1. PICK tx : /\ tx.nonce = upgrade.nonce /\ tx.to = Order[upgrade.k] /\ Accepts(tx)
                    /\ upgrade.pc = "send" /\ UNCHANGED <<nonce, reverted>>
      BY <1>7, <2>2, UpgradeSendEffect
    <3>2. upgrade.k \in Places /\ upgrade.k <= upgrade.nonce + 1 /\ upgrade.nonce \in Nat
      BY <1>1, <3>1 DEF UpgradeInv
    <3>3. tx.nonce # i - 1 \/ upgrade.k <= i
      BY <1>1, <3>1, <3>2
    <3> QED
      BY <1>5, <3>1, <3>2, <3>3
  <2> QED
    BY <2>1, <2>2
<1>8. CASE PresignedSend
  <2>1. presigned.k \in Places /\ i < presigned.k
    BY <1>1, <1>8, PresignedSendEffect DEF PresignedInv
  <2>2. presigned.k - 1 # i - 1
    BY <2>1, PlacesList DEF Places
  <2> QED
    BY <1>3, <1>5, <1>8, <2>2, PresignedSendEffect
<1> QED
  BY <1>3, <1>4, <1>6, <1>7, <1>8, OwnerSteps

\* The steps that do not concern the script.
LEMMA BesidePresigned ==
  ASSUME [Next]_vars, ~RunPresigned, ~PresignedStep
  PROVE  UNCHANGED presigned \/ presigned' = PresignedIdle
<1>1. CASE MineCreation
  BY <1>1 DEF MineCreation, scriptVars
<1>2. CASE MineOwner
  BY <1>2 DEF MineOwner, MineOwnerTx, scriptVars
<1>3. CASE \E t \in Targets : OtherCreates(t)
  BY <1>3 DEF OtherCreates, scriptVars
<1>4. CASE DeployFactory \/ OwnerTransacts \/ FundOwner
  BY <1>4 DEF DeployFactory, OwnerTransacts, FundOwner, scriptVars
<1>5. CASE RunDeploy \/ DeployStep
  BY <1>5 DEF RunDeploy, DeployStep, DeployCheck, DeploySend, DeployWait
<1>6. CASE RunUpgrade \/ UpgradeStep
  BY <1>6 DEF RunUpgrade, UpgradeStep, UpgradeCheck, UpgradeNonce, UpgradeEstimate, UpgradeSend,
              UpgradeWait
<1>7. CASE RunGenerate \/ GenerateEstimate
  BY <1>7 DEF RunGenerate, GenerateEstimate
<1>8. CASE Crash
  BY <1>8 DEF Crash
<1>9. CASE UNCHANGED vars
  BY <1>9 DEF vars, scriptVars
<1> QED
  BY <1>1, <1>2, <1>3, <1>4, <1>5, <1>6, <1>7, <1>8, <1>9 DEF Next

\* All that is deployed stays deployed, all that is upgraded upgraded.
LEMMA AllStays ==
  ASSUME ProxyInv, [Next]_vars
  PROVE  (AllDeployed => AllDeployed') /\ (AllUpgraded => AllUpgraded')
BY CodeStays, UpgradesStay DEF AllDeployed, AllUpgraded, IsUpgraded

\* The script goes on with what it has broadcast, and past each good receipt.
LEMMA PresignedStays ==
  ASSUME OwnerInv, [Next]_vars
  PROVE  PresignedInv'
<1>1. /\ ProxyInv /\ PresignedInv /\ NonceInv /\ NonceInv'
      /\ PendingNonce \in Nat /\ PendingNonce' \in Nat
      /\ nonce <= nonce' /\ PendingNonce <= PendingNonce'
  BY NoncesStay DEF OwnerInv
<1>2. /\ AllDeployed => AllDeployed'
      /\ AllUpgraded => AllUpgraded'
      /\ ~displaced' => ~displaced
  BY <1>1, AllStays, HistoryStays
<1>3. nonce \in Nat /\ nonce' \in Nat /\ Len(Order) \in Nat
  BY <1>1, PlacesList DEF NonceInv
<1>4. ASSUME presigned.pc = "confirm", NEW i \in Places, i < presigned.k
      PROVE  i <= nonce' /\ i - 1 \notin reverted'
  <2>1. i \in Nat /\ i <= nonce /\ i - 1 \notin reverted
    BY <1>1, <1>4, PlacesList DEF PresignedInv, Places
  <2>2. i <= nonce' /\ i - 1 # nonce
    BY <1>1, <1>3, <2>1
  <2> QED
    BY <2>1, <2>2, NewReverts
<1>5. CASE presigned' = PresignedIdle
  BY <1>5 DEF PresignedInv, PresignedIdle, ConfirmedIsUpgraded
<1>6. CASE UNCHANGED presigned /\ ~PresignedSend
  <2>1. ASSUME presigned.pc = "send"
        PROVE  /\ presigned.k <= PendingNonce' + 1
               /\ ~displaced' => \A i \in Places : i < presigned.k => Broadcast(i)'
    <3>1. /\ presigned.k \in Places /\ AllDeployed /\ presigned.k <= PendingNonce + 1
          /\ ~displaced => \A i \in Places : i < presigned.k => Broadcast(i)
      BY <1>1, <2>1 DEF PresignedInv
    <3>2. presigned.k \in Nat /\ presigned.k <= PendingNonce' + 1
      BY <1>1, <3>1, PlacesList DEF Places
    <3>3. ASSUME ~displaced', NEW i \in Places, i < presigned.k
          PROVE  Broadcast(i)'
      <4>1. \A j \in Places : j <= i => j < presigned.k
        BY <3>2, <3>3, PlacesList DEF Places
      <4>2. \A j \in Places : j <= i => Broadcast(j)
        BY <1>2, <3>1, <3>3, <4>1
      <4> QED
        BY <1>6, <3>1, <3>3, <4>2, BroadcastStays
    <3> QED
      BY <3>2, <3>3
  <2>2. ASSUME presigned.pc = "confirm", ~displaced'
        PROVE  \A i \in Places : Broadcast(i)'
    BY <1>1, <1>2, <1>6, <2>2, BroadcastStays DEF PresignedInv
  <2>3. ConfirmedIsUpgraded'
    BY <1>1, <1>2, <1>6 DEF PresignedInv, ConfirmedIsUpgraded
  <2> QED
    BY <1>1, <1>2, <1>4, <1>6, <2>1, <2>2, <2>3 DEF PresignedInv, Places
<1>7. CASE RunPresigned
  <2>1. presigned' = [pc |-> "fund", k |-> 1, gas |-> package] /\ AllDeployed
    BY <1>7 DEF RunPresigned
  <2> QED
    BY <1>2, <2>1, PlacesList DEF PresignedInv, Places, ConfirmedIsUpgraded
<1>8. CASE PresignedFund
  <2>1. presigned' = [presigned EXCEPT !.pc = "nonce"] /\ presigned.pc = "fund"
    BY <1>8 DEF PresignedFund
  <2>2. presigned' = [pc |-> "nonce", k |-> 1, gas |-> presigned.gas] /\ AllDeployed
    BY <1>1, <2>1 DEF PresignedInv
  <2> QED
    BY <1>2, <2>2, PlacesList DEF PresignedInv, Places, ConfirmedIsUpgraded
<1>9. CASE PresignedNonce /\ presigned' # PresignedIdle
  <2>1. presigned' = [presigned EXCEPT !.pc = "send"] /\ presigned.pc = "nonce"
    BY <1>9 DEF PresignedNonce
  <2>2. presigned' = [pc |-> "send", k |-> 1, gas |-> presigned.gas] /\ AllDeployed
    BY <1>1, <2>1 DEF PresignedInv
  <2>3. 1 \in Places /\ \A i \in Places : ~(i < 1)
    BY PlacesList DEF Places
  <2>4. 1 <= PendingNonce' + 1
    <3>1. \A n \in Nat : 1 <= n + 1
      OBVIOUS
    <3> QED
      BY <1>1, <3>1
  <2> QED
    BY <1>2, <2>2, <2>3, <2>4 DEF PresignedInv, Places, ConfirmedIsUpgraded
<1>10. CASE PresignedSend /\ presigned' # PresignedIdle
  <2>1. PICK k \in Places : k = presigned.k
    BY <1>1, <1>10, PresignedSendEffect DEF PresignedInv
  <2>2. PICK tx : /\ tx.nonce = k - 1 /\ tx.to = Order[k] /\ Accepts(tx) /\ UNCHANGED nonce
                  /\ presigned' = IF k < Len(Order) THEN [presigned EXCEPT !.k = @ + 1]
                                  ELSE [presigned EXCEPT !.pc = "confirm", !.k = 1]
    BY <1>10, <2>1, PresignedSendEffect
  <2>3. /\ presigned.pc = "send" /\ AllDeployed /\ k <= PendingNonce + 1
        /\ ~displaced => \A i \in Places : i < k => Broadcast(i)
    BY <1>1, <1>10, <2>1, PresignedSendEffect DEF PresignedInv
  <2>4. k \in Nat \ {0} /\ k <= Len(Order) /\ \A i \in Places : i \in Nat
    BY <1>3, PlacesList DEF Places
  <2>5. tx.nonce \in Nat /\ tx.nonce <= PendingNonce /\ tx.nonce < PendingNonce'
    <3>1. tx.nonce \in Nat /\ tx.nonce <= PendingNonce
      BY <1>1, <2>2, <2>3, <2>4
    <3> QED
      BY <1>1, <2>2, <3>1, PoolAccepts
  <2>6. ASSUME ~displaced', NEW i \in Places, i < k
        PROVE  Broadcast(i)'
    <3>1. \A j \in Places : j <= i => j < k
      BY <2>4, <2>6
    <3>2. \A j \in Places : j <= i => Broadcast(j)
      BY <1>2, <2>3, <2>6, <3>1
    <3> QED
      BY <2>1, <2>3, <2>6, <3>2, BroadcastStays
  <2>7. Broadcast(k)'
    <3>1. nonce' < k /\ tx \in mempool' /\ tx.nonce = k - 1 /\ k <= k
      BY <1>3, <2>2, <2>4 DEF Accepts
    <3> QED
      BY <2>2, <3>1 DEF Broadcast
  <2>8. CASE k < Len(Order)
    <3>1. presigned' = [pc |-> "send", k |-> k + 1, gas |-> presigned.gas]
      BY <1>1, <2>1, <2>2, <2>3, <2>8 DEF PresignedInv
    <3>2. k + 1 \in Places /\ \A i \in Places : i < k + 1 => i < k \/ i = k
      BY <1>3, <2>4, <2>8 DEF Places
    <3>3. k + 1 <= PendingNonce' + 1
      BY <1>1, <2>2, <2>4, <2>5
    <3>4. ~displaced' => \A i \in Places : i < k + 1 => Broadcast(i)'
      BY <2>6, <2>7, <3>2
    <3> QED
      BY <1>2, <2>3, <3>1, <3>2, <3>3, <3>4 DEF PresignedInv, Places, ConfirmedIsUpgraded
  <2>9. CASE ~(k < Len(Order))
    <3>1. presigned' = [pc |-> "confirm", k |-> 1, gas |-> presigned.gas]
      BY <1>1, <2>1, <2>2, <2>3, <2>9 DEF PresignedInv
    <3>2. 1 \in Places /\ \A i \in Places : ~(i < 1) /\ (i < k \/ i = k)
      BY <1>3, <2>4, <2>9 DEF Places
    <3>3. ~displaced' => \A i \in Places : Broadcast(i)'
      BY <2>6, <2>7, <3>2
    <3> QED
      BY <1>2, <2>3, <3>1, <3>2, <3>3 DEF PresignedInv, Places, ConfirmedIsUpgraded
  <2> QED
    BY <2>8, <2>9
<1>11. CASE PresignedConfirm /\ presigned' # PresignedIdle
  <2>1. PICK k \in Places : k = presigned.k
    BY <1>1, <1>11 DEF PresignedConfirm, PresignedInv
  <2>2. /\ presigned.pc = "confirm" /\ nonce >= k /\ k - 1 \notin reverted
        /\ presigned' = IF k < Len(Order) THEN [presigned EXCEPT !.k = @ + 1]
                        ELSE [presigned EXCEPT !.pc = "verify"]
        /\ UNCHANGED <<nonce, reverted, displaced>>
    BY <1>11, <2>1 DEF PresignedConfirm, chainVars, ownerVars
  <2>3. /\ AllDeployed
        /\ ~displaced => \A i \in Places : Broadcast(i)
        /\ \A i \in Places : i < k => i <= nonce /\ i - 1 \notin reverted
    BY <1>1, <2>1, <2>2 DEF PresignedInv
  <2>4. k \in Nat \ {0} /\ k <= Len(Order) /\ \A i \in Places : i \in Nat
    BY <1>3, PlacesList DEF Places
  <2>5. \A i \in Places : i <= k => i <= nonce /\ i - 1 \notin reverted
    <3>1. \A i \in Places : i <= k => i < k \/ i = k
      BY <2>4
    <3>2. k <= nonce
      BY <1>3, <2>2, <2>4
    <3> QED
      BY <2>2, <2>3, <3>1, <3>2
  <2>6. CASE k < Len(Order)
    <3>1. presigned' = [pc |-> "confirm", k |-> k + 1, gas |-> presigned.gas]
      BY <1>1, <2>1, <2>2, <2>6 DEF PresignedInv
    <3>2. k + 1 \in Places /\ \A i \in Places : i < k + 1 => i <= k
      BY <1>3, <2>4, <2>6 DEF Places
    <3>3. \A i \in Places : i < k + 1 => i <= nonce' /\ i - 1 \notin reverted'
      BY <2>2, <2>5, <3>2
    <3>4. ~PresignedSend
      BY <2>2 DEF PresignedSend
    <3>5. ~displaced' => \A i \in Places : Broadcast(i)'
      BY <1>2, <2>3, <3>4, BroadcastStays
    <3> QED
      BY <1>2, <2>3, <3>1, <3>2, <3>3, <3>5 DEF PresignedInv, Places, ConfirmedIsUpgraded
  <2>7. CASE ~(k < Len(Order))
    <3>1. presigned' = [pc |-> "verify", k |-> k, gas |-> presigned.gas]
      BY <1>1, <2>1, <2>2, <2>7 DEF PresignedInv
    <3>2. \A i, j \in Places : j <= i => j <= k
      BY <1>3, <2>4, <2>7 DEF Places
    <3>3. ASSUME ~displaced, NEW i \in Places
          PROVE  IsUpgraded(Order[i])
      <4>1. Broadcast(i) /\ i <= i /\ ~(nonce < i)
        BY <1>3, <2>3, <2>4, <2>5, <3>2, <3>3
      <4>2. \A j \in Places : j <= i => j - 1 \notin reverted
        BY <2>5, <3>2
      <4> QED
        BY <4>1, <4>2 DEF Broadcast
    <3>4. ~displaced => AllUpgraded
      BY <3>3, PlacesList DEF AllUpgraded, IsUpgraded
    <3> QED
      BY <1>2, <2>1, <2>3, <3>1, <3>4 DEF PresignedInv, Places, ConfirmedIsUpgraded
  <2> QED
    BY <2>6, <2>7
<1>12. CASE PresignedVerify
  BY <1>5, <1>12 DEF PresignedVerify
<1>13. ~PresignedSend \/ PresignedStep
  BY DEF PresignedStep
<1> QED
  BY <1>5, <1>6, <1>7, <1>8, <1>9, <1>10, <1>11, <1>12, <1>13, BesidePresigned DEF PresignedStep

-----------------------------------------------------------------------------
(* upgrade-vanity.                                                         *)

\* The steps that do not concern the script.
LEMMA BesideUpgrade ==
  ASSUME [Next]_vars, ~RunUpgrade, ~UpgradeStep
  PROVE  /\ UNCHANGED upgrade \/ upgrade' = UpgradeIdle
         /\ "upgraded" \in said' => "upgraded" \in said
<1>1. CASE MineCreation
  BY <1>1 DEF MineCreation, scriptVars
<1>2. CASE MineOwner
  BY <1>2 DEF MineOwner, MineOwnerTx, scriptVars
<1>3. CASE \E t \in Targets : OtherCreates(t)
  BY <1>3 DEF OtherCreates, scriptVars
<1>4. CASE DeployFactory \/ OwnerTransacts \/ FundOwner
  BY <1>4 DEF DeployFactory, OwnerTransacts, FundOwner, scriptVars
<1>5. CASE RunDeploy \/ DeployStep
  <2>1. UNCHANGED said \/ said' = said \cup {"deployed"}
    BY <1>5 DEF RunDeploy, DeployStep, DeployCheck, DeploySend, DeployWait, DeployNext
  <2>2. UNCHANGED upgrade
    BY <1>5 DEF RunDeploy, DeployStep, DeployCheck, DeploySend, DeployWait
  <2> QED
    BY <2>1, <2>2
<1>6. CASE RunGenerate \/ GenerateEstimate
  BY <1>6 DEF RunGenerate, GenerateEstimate
<1>7. CASE RunPresigned \/ PresignedStep
  BY <1>7 DEF RunPresigned, PresignedStep, PresignedFund, PresignedNonce, PresignedSend,
              PresignedConfirm, PresignedVerify
<1>8. CASE Crash
  BY <1>8 DEF Crash
<1>9. CASE UNCHANGED vars
  BY <1>9 DEF vars, scriptVars
<1> QED
  BY <1>1, <1>2, <1>3, <1>4, <1>5, <1>6, <1>7, <1>8, <1>9 DEF Next

\* While the log is clean, the transaction that the script waits for is mined, or
\* replaced by a signed one of the same place or an earlier one; a signed one of a
\* later place comes after the one that was signed for this place.
LEMMA AwaitedStays ==
  ASSUME OwnerInv, [Next]_vars, UNCHANGED upgrade, Clean',
         upgrade.pc = "wait", upgrade.late, Awaited
  PROVE  Awaited'
<1>1. ProxyInv /\ NonceInv /\ PresignedInv /\ UpgradeInv /\ Clean /\ ~displaced'
  BY HistoryStays DEF OwnerInv, Clean
<1>2. PICK k \in Places : k = upgrade.k
  BY <1>1 DEF UpgradeInv
<1>3. /\ AllDeployed /\ upgrade.nonce \in Nat
      /\ \A i \in Places : i < k => IsUpgraded(Order[i])
      /\ reverted = {} /\ reverted' = {}
  BY <1>1, <1>2 DEF UpgradeInv, Clean
<1>4. /\ k \in Nat \ {0} /\ nonce \in Nat
      /\ \A j \in Places : j \in Nat \ {0} /\ Order[j] \in Registries /\ Order[j] # None
  BY <1>1, PlacesList, Shapes DEF Places, NonceInv
<1>5. upgrade'.k = k /\ upgrade'.nonce = upgrade.nonce
  BY <1>2
<1>6. CASE IsUpgraded(Order[k])
  <2>1. IsUpgraded(Order[k])'
    BY <1>1, <1>4, <1>6, UpgradesStay
  <2> QED
    BY <1>5, <2>1 DEF Awaited
<1>7. CASE ~IsUpgraded(Order[k])
  <2>1. PICK t \in mempool, j \in Places : t.nonce <= upgrade.nonce /\ j <= k /\ t.to = Order[j]
    BY <1>2, <1>7 DEF Awaited
  <2>2. CASE t \in mempool'
    BY <1>5, <2>1, <2>2 DEF Awaited
  <2>3. CASE MineOwner /\ t \notin mempool'
    <3>1. MineOwnerTx(t)
      BY <2>1, <2>3 DEF MineOwner, MineOwnerTx
    <3>2. CASE j < k
      <4>1. nonce \in reverted'
        BY <1>1, <1>3, <1>4, <2>1, <3>1, <3>2, RepeatReverts
      <4> QED
        BY <1>3, <4>1
    <3>3. CASE j = k
      <4>1. IsUpgraded(Order[k])'
        BY <1>1, <1>3, <1>4, <2>1, <3>1, <3>3, MinedEffect DEF AllDeployed
      <4> QED
        BY <1>5, <4>1 DEF Awaited
    <3> QED
      BY <1>4, <2>1, <3>2, <3>3
  <2>4. CASE PresignedSend /\ t \notin mempool'
    <3>1. PICK tx : tx.nonce = presigned.k - 1 /\ tx.to = Order[presigned.k] /\ Accepts(tx)
      BY <2>1, <2>4, PresignedSendEffect
    <3>2. PICK p \in Places : p = presigned.k /\ presigned.pc = "send"
      BY <1>1, <2>4, PresignedSendEffect DEF PresignedInv
    <3>3. /\ t.nonce = p - 1 /\ tx.nonce = p - 1 /\ tx.to = Order[p] /\ nonce <= p - 1
          /\ tx \in mempool' /\ \A s \in mempool : s.nonce # p - 1 => s \in mempool'
      BY <2>1, <2>4, <3>1, <3>2 DEF Accepts, SameNonce
    <3>4. p \in Nat \ {0}
      BY <1>4, <3>2
    <3>5. CASE p <= k
      BY <1>5, <2>1, <3>2, <3>3, <3>5 DEF Awaited
    <3>6. CASE k < p
      <4>1. Broadcast(k)
        BY <1>1, <3>2, <3>6 DEF PresignedInv, Clean
      <4>2. nonce < k
        BY <1>3, <1>7, <4>1 DEF Broadcast
      <4>3. PICK s \in mempool, m \in Places : s.nonce = k - 1 /\ m <= k /\ s.to = Order[m]
        BY <4>1, <4>2 DEF Broadcast
      <4>4. s \in mempool' /\ s.nonce <= upgrade.nonce
        BY <1>3, <1>4, <2>1, <3>3, <3>4, <3>6, <4>3
      <4> QED
        BY <1>5, <4>3, <4>4 DEF Awaited
    <3> QED
      BY <1>4, <3>4, <3>5, <3>6
  <2>5. CASE OwnerTransacts
    <3>1. t.to # None
      BY <1>4, <2>1
    <3>2. t \in mempool'
      BY <1>1, <2>5, <3>1, OwnerTransactsEffect DEF Accepts, SameNonce
    <3> QED
      BY <2>2, <3>2
  <2>6. CASE UNCHANGED mempool
    BY <2>1, <2>2, <2>6
  <2>7. ~UpgradeSend
    BY UpgradeSendEffect
  <2> QED
    BY <2>2, <2>3, <2>4, <2>5, <2>6, <2>7, OwnerSteps
<1> QED
  BY <1>6, <1>7

\* The script goes on from a proxy that is upgraded, or from a place whose nonce
\* is used.
LEMMA NextKeepsUpgrade ==
  ASSUME OwnerInv, UNCHANGED chainVars, upgrade.pc # "idle", upgrade.k <= nonce,
         upgrade.late /\ Clean => IsUpgraded(Order[upgrade.k]),
         UpgradeNext
  PROVE  UpgradeInv' /\ UpgradedUnlessReverted'
<1>1. UNCHANGED <<proxy, impls, nonce, reverted, displaced>> /\ UpgradeInv /\ nonce \in Nat
  BY DEF chainVars, codeVars, ownerVars, OwnerInv, NonceInv
<1>2. PICK k \in Places : k = upgrade.k
  BY <1>1 DEF UpgradeInv
<1>3. k \in Nat \ {0} /\ k <= Len(Order) /\ Len(Order) \in Nat
  BY PlacesList DEF Places
<1>4. upgrade.late =>
        /\ AllDeployed'
        /\ Clean' => \A i \in Places : i < k \/ i = k => IsUpgraded(Order[i])'
  BY <1>1, <1>2 DEF UpgradeInv, AllDeployed, HasCode, IsUpgraded, Clean
<1>5. UpgradedUnlessReverted
  BY DEF OwnerInv
<1>6. CASE k < Len(Order)
  <2>1. upgrade' = [upgrade EXCEPT !.pc = "check", !.k = @ + 1] /\ UNCHANGED said
    BY <1>2, <1>6 DEF UpgradeNext
  <2>2. upgrade' = [pc |-> "check", k |-> k + 1, nonce |-> upgrade.nonce,
                    gas |-> upgrade.gas, late |-> upgrade.late]
    BY <1>1, <1>2, <2>1 DEF UpgradeInv
  <2>3. k + 1 \in Places /\ \A i \in Places : i < k + 1 => i < k \/ i = k
    BY <1>3, <1>6 DEF Places
  <2>4. upgrade.nonce \in Nat /\ k + 1 <= nonce' + 1
    BY <1>1, <1>2, <1>3 DEF UpgradeInv
  <2>5. UpgradeInv'
    BY <1>4, <2>2, <2>3, <2>4 DEF UpgradeInv, Places
  <2>6. UpgradedUnlessReverted'
    BY <1>1, <1>5, <2>1 DEF UpgradedUnlessReverted, AllUpgraded
  <2> QED
    BY <2>5, <2>6
<1>7. CASE ~(k < Len(Order))
  <2>1. /\ upgrade' = UpgradeIdle
        /\ said' = IF upgrade.late THEN said \cup {"upgraded"} ELSE said
    BY <1>2, <1>7 DEF UpgradeNext
  <2>2. \A i \in Places : i < k \/ i = k
    BY <1>3, <1>7 DEF Places
  <2>3. upgrade.late /\ Clean' => AllUpgraded'
    BY <1>4, <2>2, PlacesList DEF AllUpgraded, IsUpgraded
  <2>4. UpgradedUnlessReverted'
    BY <1>1, <1>5, <2>1, <2>3 DEF UpgradedUnlessReverted, AllUpgraded, Clean
  <2>5. UpgradeInv'
    BY <2>1 DEF UpgradeInv, UpgradeIdle
  <2> QED
    BY <2>4, <2>5
<1> QED
  BY <1>6, <1>7

\* What the script prints rests on what it has waited for.
LEMMA UpgradeStays ==
  ASSUME OwnerInv, [Next]_vars
  PROVE  UpgradeInv' /\ UpgradedUnlessReverted'
<1>1. ProxyInv /\ UpgradeInv /\ NonceInv /\ PlaceInv /\ UpgradedUnlessReverted
  BY DEF OwnerInv
<1>2. /\ AllDeployed => AllDeployed'
      /\ AllUpgraded => AllUpgraded'
      /\ \A i \in Places : IsUpgraded(Order[i]) => IsUpgraded(Order[i])'
      /\ reverted \subseteq reverted' /\ (~displaced' => ~displaced)
      /\ Clean' => Clean
  BY <1>1, AllStays, UpgradesStay, PlacesList, HistoryStays
<1>3. ("upgraded" \in said' => "upgraded" \in said) => UpgradedUnlessReverted'
  BY <1>1, <1>2 DEF UpgradedUnlessReverted
<1>4. upgrade' = UpgradeIdle => UpgradeInv'
  BY DEF UpgradeInv, UpgradeIdle
<1>5. /\ nonce \in Nat /\ nonce' \in Nat /\ nonce <= nonce'
      /\ PendingNonce \in Nat /\ PendingNonce' \in Nat /\ PendingNonce <= PendingNonce'
  <2>1. /\ NonceInv
        /\ NonceInv'
        /\ nonce <= nonce'
        /\ PendingNonce \in Nat /\ PendingNonce' \in Nat /\ PendingNonce <= PendingNonce'
    BY <1>1, NoncesStay
  <2> QED
    BY <2>1 DEF NonceInv
<1>6. upgrade.pc # "idle" => upgrade.k \in Places /\ upgrade.k \in Nat /\ upgrade.k <= nonce' + 1
  <2>1. upgrade.pc # "idle" => upgrade.k \in Places /\ upgrade.k <= nonce + 1
    BY <1>1 DEF UpgradeInv
  <2> QED
    BY <1>5, <2>1, PlacesList DEF Places
<1>7. upgrade.pc # "idle" /\ upgrade.late =>
        /\ AllDeployed'
        /\ Clean' => \A i \in Places : i < upgrade.k => IsUpgraded(Order[i])'
  BY <1>1, <1>2 DEF UpgradeInv
<1>8. CASE ~RunUpgrade /\ ~UpgradeStep
  <2>1. /\ UNCHANGED upgrade \/ upgrade' = UpgradeIdle
        /\ UpgradedUnlessReverted'
    BY <1>3, <1>8, BesideUpgrade
  <2>2. CASE UNCHANGED upgrade
    <3>1. upgrade.pc = "wait" /\ upgrade.late /\ Clean' => Awaited'
      BY <1>1, <1>2, <2>2, AwaitedStays DEF UpgradeInv
    <3>2. upgrade.pc \in {"estimate", "send"} => upgrade.nonce <= PendingNonce'
      <4>1. upgrade.nonce \in Nat
            /\ (upgrade.pc \in {"estimate", "send"} => upgrade.nonce <= PendingNonce)
        BY <1>1 DEF UpgradeInv
      <4> QED
        BY <1>5, <4>1
    <3> QED
      BY <1>1, <1>6, <1>7, <2>1, <2>2, <3>1, <3>2 DEF UpgradeInv, Places
  <2> QED
    BY <1>4, <2>1, <2>2
<1>9. CASE RunUpgrade
  <2>1. upgrade' = [UpgradeIdle EXCEPT !.pc = "check", !.k = 1, !.late = AllDeployed]
    BY <1>9 DEF RunUpgrade
  <2>2. upgrade' = [pc |-> "check", k |-> 1, nonce |-> 0, gas |-> "bare", late |-> AllDeployed]
    BY <2>1 DEF UpgradeIdle
  <2>3. 1 \in Places /\ \A i \in Places : ~(i < 1)
    BY PlacesList DEF Places
  <2>4. 1 <= nonce' + 1 /\ UNCHANGED said
    BY <1>5, <1>9 DEF RunUpgrade
  <2> QED
    BY <1>2, <1>3, <2>2, <2>3, <2>4 DEF UpgradeInv, Places
<1>10. CASE UpgradeCheck
  <2>1. UNCHANGED chainVars /\ upgrade.pc = "check"
    BY <1>10 DEF UpgradeCheck
  <2>2. CASE IsUpgraded(Order[upgrade.k])
    <3>1. upgrade.k <= nonce
      BY <1>1, <1>6, <2>1, <2>2 DEF PlaceInv
    <3> QED
      BY <1>10, <2>1, <2>2, <3>1, NextKeepsUpgrade DEF UpgradeCheck, IsUpgraded
  <2>3. CASE ~IsUpgraded(Order[upgrade.k])
    <3>1. upgrade' = [upgrade EXCEPT !.pc = "nonce"] /\ UNCHANGED said
      BY <1>10, <2>3 DEF UpgradeCheck, IsUpgraded
    <3>2. /\ upgrade' = [pc |-> "nonce", k |-> upgrade.k, nonce |-> upgrade.nonce,
                         gas |-> upgrade.gas, late |-> upgrade.late]
          /\ upgrade.nonce \in Nat
      BY <1>1, <3>1 DEF UpgradeInv
    <3> QED
      BY <1>3, <1>6, <1>7, <2>1, <3>1, <3>2 DEF UpgradeInv, Places
  <2> QED
    BY <2>2, <2>3
<1>11. CASE UpgradeNonce
  <2>1. /\ upgrade.pc = "nonce" /\ UNCHANGED chainVars /\ UNCHANGED said
        /\ upgrade' = [upgrade EXCEPT !.pc = "estimate", !.nonce = PendingNonce]
    BY <1>11 DEF UpgradeNonce
  <2>2. upgrade' = [pc |-> "estimate", k |-> upgrade.k, nonce |-> PendingNonce,
                    gas |-> upgrade.gas, late |-> upgrade.late]
    BY <1>1, <2>1 DEF UpgradeInv
  <2>3. upgrade.k <= PendingNonce + 1
    <3>1. Cardinality(mempool) \in Nat
      BY <1>1, FS_CardinalityType DEF NonceInv
    <3>2. nonce <= PendingNonce
      BY <1>5, <3>1 DEF PendingNonce
    <3>3. upgrade.k \in Nat /\ upgrade.k <= nonce + 1
      BY <1>1, <1>6, <2>1 DEF UpgradeInv
    <3> QED
      BY <1>5, <3>2, <3>3
  <2> QED
    BY <1>3, <1>5, <1>6, <1>7, <2>1, <2>2, <2>3 DEF UpgradeInv, Places
<1>12. CASE UpgradeEstimate
  <2>1. /\ upgrade.pc = "estimate" /\ UNCHANGED chainVars /\ UNCHANGED said
        /\ \/ upgrade' = UpgradeIdle
           \/ upgrade' = [upgrade EXCEPT !.pc = "send", !.gas = GasFor(Order[upgrade.k])]
    BY <1>12 DEF UpgradeEstimate
  <2>2. CASE upgrade' = UpgradeIdle
    BY <1>3, <1>4, <2>1, <2>2
  <2>3. CASE upgrade' # UpgradeIdle
    <3>1. upgrade' = [pc |-> "send", k |-> upgrade.k, nonce |-> upgrade.nonce,
                      gas |-> GasFor(Order[upgrade.k]), late |-> upgrade.late]
      BY <1>1, <2>1, <2>3 DEF UpgradeInv
    <3>2. /\ upgrade.nonce \in Nat /\ upgrade.nonce <= PendingNonce'
          /\ upgrade.k <= upgrade.nonce + 1
      <4>1. /\ upgrade.nonce \in Nat /\ upgrade.nonce <= PendingNonce
            /\ upgrade.k <= upgrade.nonce + 1
        BY <1>1, <2>1 DEF UpgradeInv
      <4> QED
        BY <1>5, <4>1
    <3> QED
      BY <1>3, <1>6, <1>7, <2>1, <3>1, <3>2 DEF UpgradeInv, Places
  <2> QED
    BY <2>2, <2>3
<1>13. CASE UpgradeSend
  <2>1. CASE upgrade' = UpgradeIdle
    BY <1>3, <1>4, <1>13, <2>1, UpgradeSendEffect
  <2>2. CASE upgrade' # UpgradeIdle
    <3>1. PICK tx : /\ tx.nonce = upgrade.nonce /\ tx.to = Order[upgrade.k] /\ Accepts(tx)
                    /\ upgrade.pc = "send" /\ UNCHANGED said
                    /\ upgrade' = [upgrade EXCEPT !.pc = "wait"]
      BY <1>13, <2>2, UpgradeSendEffect
    <3>2. upgrade' = [pc |-> "wait", k |-> upgrade.k, nonce |-> upgrade.nonce,
                      gas |-> upgrade.gas, late |-> upgrade.late]
      BY <1>1, <3>1 DEF UpgradeInv
    <3>3. /\ upgrade.nonce \in Nat /\ upgrade.k <= upgrade.nonce + 1
          /\ upgrade.k \in Places /\ upgrade.k \in Nat
      BY <1>1, <1>6, <3>1 DEF UpgradeInv
    <3>4. Awaited'
      <4>1. /\ tx \in mempool' /\ tx.nonce <= upgrade'.nonce /\ upgrade.k <= upgrade'.k
            /\ tx.to = Order[upgrade.k]
        BY <3>1, <3>2, <3>3 DEF Accepts
      <4> QED
        BY <3>3, <4>1 DEF Awaited, Places
    <3> QED
      BY <1>3, <1>6, <1>7, <3>1, <3>2, <3>3, <3>4 DEF UpgradeInv, Places
  <2> QED
    BY <2>1, <2>2
<1>14. CASE UpgradeWait
  <2>1. UNCHANGED chainVars /\ upgrade.pc = "wait" /\ nonce > upgrade.nonce /\ UpgradeNext
    BY <1>14 DEF UpgradeWait
  <2>2. upgrade.nonce \in Nat /\ upgrade.k <= upgrade.nonce + 1
    BY <1>1, <2>1 DEF UpgradeInv
  <2>3. upgrade.k <= nonce
    BY <1>5, <1>6, <2>1, <2>2
  <2>4. ASSUME upgrade.late, Clean
        PROVE  IsUpgraded(Order[upgrade.k])
    <3>1. Awaited
      BY <1>1, <2>1, <2>4 DEF UpgradeInv
    <3>2. \A t \in mempool : ~(t.nonce <= upgrade.nonce)
      BY <1>1, <2>1, <2>2 DEF NonceInv
    <3> QED
      BY <3>1, <3>2 DEF Awaited
  <2> QED
    BY <2>1, <2>3, <2>4, NextKeepsUpgrade
<1> QED
  BY <1>8, <1>9, <1>10, <1>11, <1>12, <1>13, <1>14 DEF UpgradeStep

-----------------------------------------------------------------------------
(* The invariant.                                                          *)

LEMMA OwnerAtStart ==
  ASSUME Init
  PROVE  OwnerInv
<1>1. NonceInv
  <2>1. mempool = {} /\ nonce = 0
    BY DEF Init
  <2>2. IsFiniteSet(mempool) /\ Cardinality(mempool) = 0
    BY <2>1, FS_EmptySet
  <2>3. PendingNonce = 0
    BY <2>1, <2>2 DEF PendingNonce
  <2> QED
    BY <2>1, <2>2, <2>3 DEF NonceInv
<1>2. PlaceInv
  <2>1. mempool = {} /\ \A r \in Registries : proxy[r] = NoProxy
    BY DEF Init
  <2> QED
    BY <2>1, PlacesList, Shapes DEF PlaceInv, IsUpgraded
<1>3. PresignedInv /\ UpgradeInv /\ UpgradedUnlessReverted
  BY DEF Init, PresignedInv, PresignedIdle, UpgradeInv, UpgradeIdle, UpgradedUnlessReverted,
         ConfirmedIsUpgraded
<1> QED
  BY <1>1, <1>2, <1>3, ProxiesAtStart DEF OwnerInv

LEMMA OwnerInductive ==
  ASSUME OwnerInv, [Next]_vars
  PROVE  OwnerInv'
<1>1. ProxyInv'
  BY CodeStays DEF OwnerInv
<1> QED
  BY <1>1, NoncesStay, PlacesStay, PresignedStays, UpgradeStays DEF OwnerInv

\* "All 3 proxies upgraded successfully!", said by upgrade-vanity although it
\* looks at no receipt's status, of a run that began when all was deployed, is
\* true unless a transaction of the owner reverted or another use of the owner's
\* key displaced an upgrade: whichever of the two scripts' transactions replace
\* each other, and whatever else the key sends.
THEOREM UpgradedUnlessAReverted ==
  Spec => []UpgradedUnlessReverted
<1>1. OwnerInv => UpgradedUnlessReverted
  BY DEF OwnerInv
<1> QED
  BY <1>1, OwnerAtStart, OwnerInductive, PTL DEF Spec

\* When upgrade-vanity-presigned has seen a good status for each of the nonces
\* it sent with, all proxies are upgraded, although a receipt may be that of a
\* transaction of upgrade-vanity that replaced a signed one, unless another use of
\* the owner's key displaced an upgrade: then its last check may throw.
THEOREM ConfirmedIsReallyUpgraded ==
  Spec => []ConfirmedIsUpgraded
<1>1. OwnerInv => ConfirmedIsUpgraded
  BY DEF OwnerInv, PresignedInv
<1> QED
  BY <1>1, OwnerAtStart, OwnerInductive, PTL DEF Spec
=============================================================================
