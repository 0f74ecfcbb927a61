---------------------- MODULE EngineAndDeploymentProofs ----------------------
(***************************************************************************)
(* The policy engine for any agents, tiers, facts, policies and thresholds *)
(* that a deployment may have; the workflow, whose evaluation comes to the *)
(* verdict of TieredPolicy for any agents and facts whenever the policy's  *)
(* minimal score is the 50 that the workflow has built in; and the         *)
(* deployment: while scripts deploy and wire the system, are killed and    *)
(* run again, and their calls are still pending, nothing is granted that   *)
(* the finished system would not grant.                                    *)
(***************************************************************************)
EXTENDS Deployment, SequenceTheorems, TLAPS

(* The engine.                                                             *)

vars == <<engineVars, facts>>

-----------------------------------------------------------------------------
(* The list of policies.                                                   *)

DuplicateFree(s) == \A i, j \in DOMAIN s : s[i] = s[j] => i = j

\* InsertAt keeps a list without the new element duplicate-free and adds one.
LEMMA InsertAtSound ==
  ASSUME NEW S, NEW s \in Seq(S), NEW e \in S, NEW k \in 1 .. Len(s) + 1,
         DuplicateFree(s), \A i \in DOMAIN s : s[i] # e
  PROVE  /\ InsertAt(s, k, e) \in Seq(S)
         /\ Len(InsertAt(s, k, e)) = Len(s) + 1
         /\ DuplicateFree(InsertAt(s, k, e))
<1> DEFINE left == SubSeq(s, 1, k - 1)
           right == SubSeq(s, k, Len(s))
           t == (left \o <<e>>) \o right
<1>1. /\ Len(s) \in Nat
      /\ DOMAIN s = 1 .. Len(s)
      /\ \A i \in 1 .. Len(s) : s[i] \in S
  BY LenProperties, ElementOfSeq
<1>2. /\ left \in Seq(S)
      /\ Len(left) = k - 1
      /\ \A i \in 1 .. k - 1 : left[i] = s[i]
  <2>1. \A i \in 1 .. k - 1 : s[i] \in S
    BY <1>1
  <2> QED
    BY <1>1, <2>1, SubSeqProperties, Zenon, SMT
<1>3. /\ right \in Seq(S)
      /\ Len(right) = Len(s) - k + 1
      /\ \A i \in 1 .. Len(s) - k + 1 : right[i] = s[k + i - 1]
  <2>1. \A i \in k .. Len(s) : s[i] \in S
    BY <1>1
  <2> QED
    BY <1>1, <2>1, SubSeqProperties, SMT
<1>4. /\ <<e>> \in Seq(S)
      /\ Len(<<e>>) = 1
      /\ <<e>>[1] = e
  OBVIOUS
<1>5. /\ left \o <<e>> \in Seq(S)
      /\ Len(left \o <<e>>) = k
      /\ \A i \in 1 .. k : (left \o <<e>>)[i] = IF i <= k - 1 THEN s[i] ELSE e
  <2> HIDE DEF left
  <2> QED
    BY <1>1, <1>2, <1>4, ConcatProperties, SMT
<1>6. /\ t \in Seq(S)
      /\ Len(t) = Len(s) + 1
      /\ \A i \in 1 .. k - 1 : t[i] = s[i]
      /\ t[k] = e
      /\ \A i \in k + 1 .. Len(s) + 1 : t[i] = s[i - 1]
  <2> DEFINE head == left \o <<e>>
  <2> HIDE DEF left, right, head
  <2>1. /\ head \o right \in Seq(S)
        /\ Len(head \o right) = k + (Len(s) - k + 1)
        /\ \A i \in 1 .. k + (Len(s) - k + 1) :
             (head \o right)[i] = IF i <= k THEN head[i] ELSE right[i - k]
    <3>1. head \in Seq(S) /\ Len(head) = k
      BY <1>5 DEF head
    <3> QED
      BY <1>3, <3>1, ConcatProperties
  <2>2. \A i \in 1 .. k : head[i] = IF i <= k - 1 THEN s[i] ELSE e
    BY <1>5 DEF head
  <2>3. t = head \o right
    BY DEF head
  <2>4. /\ t \in Seq(S)
        /\ Len(t) = Len(s) + 1
    <3>1. k + (Len(s) - k + 1) = Len(s) + 1
      BY <1>1
    <3> HIDE DEF t
    <3> QED
      BY <2>1, <2>3, <3>1
  <2>5. ASSUME NEW i \in 1 .. k
        PROVE  t[i] = IF i <= k - 1 THEN s[i] ELSE e
    <3>1. i \in 1 .. k + (Len(s) - k + 1) /\ i <= k
      BY <1>1
    <3> HIDE DEF t
    <3> QED
      BY <2>1, <2>2, <2>3, <3>1
  <2>6. ASSUME NEW i \in k + 1 .. Len(s) + 1
        PROVE  t[i] = s[i - 1]
    <3>1. i - k \in 1 .. Len(s) - k + 1 /\ k + (i - k) - 1 = i - 1
      BY <1>1
    <3>2. right[i - k] = s[k + (i - k) - 1]
      BY <1>3, <3>1
    <3>3. t[i] = right[i - k]
      BY <1>1, <2>1, <2>3
    <3> QED
      BY <3>1, <3>2, <3>3
  <2> QED
    BY <1>1, <2>4, <2>5, <2>6
<1>7. DuplicateFree(t)
  <2> HIDE DEF t
  <2>1. DOMAIN t = 1 .. Len(s) + 1
    BY <1>6, LenProperties
  <2>2. SUFFICES ASSUME NEW i \in 1 .. Len(s) + 1, NEW j \in 1 .. Len(s) + 1,
                        t[i] = t[j], i < j
                 PROVE  FALSE
    BY <1>1, <2>1 DEF DuplicateFree
  <2>3. CASE j < k
    BY <1>1, <1>6, <2>2, <2>3 DEF DuplicateFree
  <2>4. CASE j = k
    BY <1>1, <1>6, <2>2, <2>4 DEF DuplicateFree
  <2>5. CASE j > k /\ i = k
    BY <1>1, <1>6, <2>2, <2>5 DEF DuplicateFree
  <2>6. CASE j > k /\ i < k
    <3>1. j - 1 \in DOMAIN s /\ i \in DOMAIN s /\ j - 1 # i
      BY <1>1, <2>2, <2>6
    <3>2. s[j - 1] = s[i]
      BY <1>6, <2>2, <2>6
    <3> QED
      BY <3>1, <3>2 DEF DuplicateFree
  <2>7. CASE i > k
    <3>1. j - 1 \in DOMAIN s /\ i - 1 \in DOMAIN s /\ j - 1 # i - 1
      BY <1>1, <2>2, <2>7
    <3>2. s[j - 1] = s[i - 1]
      BY <1>6, <2>2, <2>7
    <3> QED
      BY <3>1, <3>2 DEF DuplicateFree
  <2> QED
    BY <1>1, <2>3, <2>4, <2>5, <2>6, <2>7
<1> QED
  BY <1>6, <1>7 DEF InsertAt

\* RemoveFirst keeps a list duplicate-free and does not lengthen it.
LEMMA RemoveFirstSound ==
  ASSUME NEW S, NEW s \in Seq(S), NEW e, DuplicateFree(s)
  PROVE  /\ RemoveFirst(s, e) \in Seq(S)
         /\ Len(RemoveFirst(s, e)) <= Len(s)
         /\ DuplicateFree(RemoveFirst(s, e))
<1>1. /\ Len(s) \in Nat
      /\ DOMAIN s = 1 .. Len(s)
      /\ \A i \in 1 .. Len(s) : s[i] \in S
  BY LenProperties, ElementOfSeq
<1>2. CASE ~ \E i \in 1 .. Len(s) : s[i] = e
  BY <1>1, <1>2 DEF RemoveFirst
<1>3. CASE \E i \in 1 .. Len(s) : s[i] = e
  <2>1. PICK k \in 1 .. Len(s) : s[k] = e
    BY <1>3
  <2>2. SelectInSeq(s, LAMBDA v : v = e) = k
    <3>1. {i \in 1 .. Len(s) : s[i] = e} = {k}
      BY <1>1, <2>1 DEF DuplicateFree
    <3>2. \A x : x \in {k} /\ (\A y \in {k} : x <= y) <=> x = k
      BY <2>1
    <3> QED
      BY <3>1, <3>2 DEF SelectInSeq, Min
  <2> DEFINE left == SubSeq(s, 1, k - 1)
             right == SubSeq(s, k + 1, Len(s))
             t == left \o right
  <2>3. RemoveFirst(s, e) = t
    BY <1>3, <2>2 DEF RemoveFirst, RemoveAt
  <2>4. /\ left \in Seq(S)
        /\ Len(left) = k - 1
        /\ \A i \in 1 .. k - 1 : left[i] = s[i]
    <3>1. \A i \in 1 .. k - 1 : s[i] \in S
      BY <1>1
    <3> QED
      BY <1>1, <3>1, SubSeqProperties, SMT
  <2>5. /\ right \in Seq(S)
        /\ Len(right) = Len(s) - k
        /\ \A i \in 1 .. Len(s) - k : right[i] = s[k + i]
    <3>1. \A i \in k + 1 .. Len(s) : s[i] \in S
      BY <1>1
    <3>2. right \in Seq(S)
      BY <1>1, <3>1, SubSeqProperties
    <3>3. ASSUME NEW i \in 1 .. Len(s) - k
          PROVE  right[i] = s[k + i]
      <4>1. i \in 1 .. Len(s) - (k + 1) + 1 /\ (k + 1) + i - 1 = k + i
        BY <1>1
      <4>2. right[i] = s[(k + 1) + i - 1]
        BY <1>1, <3>1, <4>1, SubSeqProperties
      <4> HIDE DEF right
      <4> QED
        BY <4>1, <4>2
    <3>4. Len(right) = Len(s) - k
      <4> DEFINE n == Len(s)
      <4>1. n \in Nat /\ k \in 1 .. n
        BY <1>1
      <4>2. CASE k + 1 <= n
        BY <1>1, <3>1, <4>2, SubSeqProperties
      <4>3. CASE ~ (k + 1 <= n)
        <5>1. n - k = 0 /\ n < k + 1
          <6> HIDE DEF n
          <6> QED
            BY <4>1, <4>3
        <5>2. right = <<>>
          BY <1>1, <5>1, SubSeqEmpty
        <5>3. Len(<<>>) = 0
          OBVIOUS
        <5> QED
          BY <5>1, <5>2, <5>3, Zenon
      <4> QED
        BY <4>2, <4>3, Zenon
    <3> HIDE DEF right
    <3> QED
      BY <3>2, <3>3, <3>4
  <2>6. /\ t \in Seq(S)
        /\ Len(t) = Len(s) - 1
        /\ \A i \in 1 .. k - 1 : t[i] = s[i]
        /\ \A i \in k .. Len(s) - 1 : t[i] = s[i + 1]
    <3> HIDE DEF left, right
    <3>1. /\ t \in Seq(S)
          /\ Len(t) = (k - 1) + (Len(s) - k)
          /\ \A i \in 1 .. (k - 1) + (Len(s) - k) :
               t[i] = IF i <= k - 1 THEN left[i] ELSE right[i - (k - 1)]
      <4>1. /\ left \o right \in Seq(S)
            /\ Len(left \o right) = Len(left) + Len(right)
            /\ \A i \in 1 .. Len(left) + Len(right) :
                 (left \o right)[i] =
                   IF i <= Len(left) THEN left[i] ELSE right[i - Len(left)]
        BY <2>4, <2>5, ConcatProperties
      <4> QED
        BY <2>4, <2>5, <4>1
    <3>2. ASSUME NEW i \in 1 .. k - 1
          PROVE  t[i] = s[i]
      BY <1>1, <2>4, <3>1
    <3>3. ASSUME NEW i \in k .. Len(s) - 1
          PROVE  t[i] = s[i + 1]
      <4>1. i - (k - 1) \in 1 .. Len(s) - k /\ k + (i - (k - 1)) = i + 1
        BY <1>1
      <4>2. right[i - (k - 1)] = s[k + (i - (k - 1))]
        BY <2>5, <4>1
      <4>3. i \in 1 .. (k - 1) + (Len(s) - k) /\ ~(i <= k - 1)
        BY <1>1
      <4>4. t[i] = right[i - (k - 1)]
        <5> HIDE DEF t
        <5> QED
          BY <3>1, <4>3
      <4> QED
        BY <4>1, <4>2, <4>4
    <3>4. Len(t) = Len(s) - 1
      BY <1>1, <3>1
    <3> QED
      BY <3>1, <3>2, <3>3, <3>4
  <2>7. DuplicateFree(t)
    <3> HIDE DEF t
    <3>1. DOMAIN t = 1 .. Len(s) - 1
      BY <2>6, LenProperties
    <3>2. SUFFICES ASSUME NEW i \in 1 .. Len(s) - 1, NEW j \in 1 .. Len(s) - 1,
                          t[i] = t[j], i < j
                   PROVE  FALSE
      BY <1>1, <3>1 DEF DuplicateFree
    <3>3. CASE j < k
      <4>1. i \in DOMAIN s /\ j \in DOMAIN s /\ i # j
        BY <1>1, <3>2, <3>3
      <4>2. s[i] = s[j]
        BY <2>6, <3>2, <3>3
      <4> QED
        BY <4>1, <4>2 DEF DuplicateFree
    <3>4. CASE i < k /\ j >= k
      <4>1. i \in DOMAIN s /\ j + 1 \in DOMAIN s /\ i # j + 1
        BY <1>1, <3>2, <3>4
      <4>2. s[i] = s[j + 1]
        BY <2>6, <3>2, <3>4
      <4> QED
        BY <4>1, <4>2 DEF DuplicateFree
    <3>5. CASE i >= k
      <4>1. i + 1 \in DOMAIN s /\ j + 1 \in DOMAIN s /\ i + 1 # j + 1
        BY <1>1, <3>2, <3>5
      <4>2. s[i + 1] = s[j + 1]
        BY <2>6, <3>2, <3>5
      <4> QED
        BY <4>1, <4>2 DEF DuplicateFree
    <3> QED
      BY <1>1, <3>2, <3>3, <3>4, <3>5
  <2> HIDE DEF t
  <2> QED
    BY <1>1, <2>3, <2>6, <2>7
<1> QED
  BY <1>2, <1>3
-----------------------------------------------------------------------------
(* The type invariant and the list of policies, under any management.      *)

\* The facts of an agent can only be replaced by facts.
LEMMA FactsStayFacts ==
  ASSUME facts \in [Agents -> Facts], NEW a \in Agents, FactsMove(a)
  PROVE  facts' \in [Agents -> Facts]
  BY DEF FactsMove

\* A delivered report is announced as one of the two access events.
LEMMA OnReportEvent ==
  ASSUME NEW sender, NEW r \in AccessReports, OnReport(sender, r)
  PROVE  event' \in AccessEvents
<1>1. CASE r.approved
  <2>1. event' = [name |-> "AccessGranted", agentId |-> r.agentId,
                  tier |-> r.tier, accountableHuman |-> r.accountableHuman]
    BY <1>1 DEF OnReport
  <2>2. r.agentId \in Agents /\ r.tier \in Tiers /\ r.accountableHuman \in Accounts
    BY DEF AccessReports
  <2> QED
    BY <2>1, <2>2 DEF AccessEvents
<1>2. CASE ~r.approved
  <2>1. event' = [name |-> "AccessDenied", agentId |-> r.agentId]
    BY <1>2 DEF OnReport
  <2>2. r.agentId \in Agents
    BY DEF AccessReports
  <2> QED
    BY <2>1, <2>2 DEF AccessEvents
<1> QED
  BY <1>1, <1>2

EngineInv == EngineTypeOK /\ PolicyListSound

\* The facts start as facts.
LEMMA FactsBeginAsFacts == FactsInit => facts \in [Agents -> Facts]
BY PolicyConstants DEF FactsInit, NoFacts, Facts

LEMMA EngineInvInit == EngineInit /\ FactsInit => EngineInv
<1> SUFFICES ASSUME EngineInit, FactsInit
             PROVE  EngineInv
  OBVIOUS
<1>1. facts \in [Agents -> Facts]
  BY FactsBeginAsFacts
<1>2. policies \in Seq(PolicyNames) /\ PolicyListSound
  BY EngineConstants DEF EngineInit, PolicyListSound
<1>3. event \in AccessEvents
  BY DEF EngineInit, AccessEvents
<1> QED
  BY <1>1, <1>2, <1>3 DEF EngineInv, EngineTypeOK, EngineInit

LEMMA EngineInvNext == EngineInv /\ [ManagedNext]_vars => EngineInv'
<1> USE EngineConstants
<1> SUFFICES ASSUME EngineInv, [ManagedNext]_vars
             PROVE  EngineInv'
  OBVIOUS
<1> USE DEF EngineInv
<1>1. ASSUME NEW a \in Agents, FactsMove(a)
      PROVE  EngineInv'
  <2>1. facts' \in [Agents -> Facts]
    BY <1>1, FactsStayFacts DEF EngineTypeOK
  <2>2. event' \in AccessEvents
    BY <1>1 DEF FactsMove, AccessEvents
  <2> QED
    BY <1>1, <2>1, <2>2 DEF FactsMove, EngineTypeOK, PolicyListSound, configVars
<1>2. ASSUME NEW sender \in Callers, NEW r \in AccessReports,
             OnReport(sender, r), UNCHANGED facts
      PROVE  EngineInv'
  <2>1. event' \in AccessEvents
    BY <1>2, OnReportEvent
  <2> QED
    BY <1>2, <2>1 DEF OnReport, EngineTypeOK, PolicyListSound, configVars
<1>3. ASSUME NEW f \in Forwarders, SetForwarder(f), UNCHANGED facts
      PROVE  EngineInv'
  <2>1. event' \in AccessEvents
    BY <1>3 DEF SetForwarder, AccessEvents
  <2> QED
    BY <1>3, <2>1 DEF SetForwarder, EngineTypeOK, PolicyListSound, configVars
<1>4. ASSUME EngineAdmin, UNCHANGED facts
      PROVE  EngineInv'
  <2>0. /\ event' \in AccessEvents
        /\ forwarder' = forwarder
    BY <1>4 DEF EngineAdmin, AccessEvents
  <2>1. ASSUME NEW p \in PolicyNames, AddPolicy(p)
        PROVE  EngineInv'
    <3>1. /\ policies' = Append(policies, p)
          /\ Len(policies) < MAX_POLICIES
          /\ \A i \in DOMAIN policies : policies[i] # p
      BY <2>1 DEF AddPolicy, CanInstall, Installed
    <3>2. /\ policies' \in Seq(PolicyNames)
          /\ Len(policies') <= MAX_POLICIES
      BY <3>1 DEF EngineTypeOK
    <3>3. \A i, j \in DOMAIN policies' : policies'[i] = policies'[j] => i = j
      BY <3>1 DEF EngineTypeOK, PolicyListSound
    <3> QED
      BY <1>4, <2>0, <2>1, <3>2, <3>3 DEF AddPolicy, EngineTypeOK, PolicyListSound
  <2>2. ASSUME NEW p \in PolicyNames, NEW position \in 0 .. MAX_POLICIES,
               AddPolicyAt(p, position)
        PROVE  EngineInv'
    <3>1. /\ policies' = InsertAt(policies, position + 1, p)
          /\ position + 1 \in 1 .. Len(policies) + 1
          /\ Len(policies) < MAX_POLICIES
          /\ \A i \in DOMAIN policies : policies[i] # p
      BY <2>2 DEF AddPolicyAt, CanInstall, Installed, EngineTypeOK
    <3>2. policies \in Seq(PolicyNames) /\ DuplicateFree(policies)
      BY DEF EngineTypeOK, PolicyListSound, DuplicateFree
    <3>3. /\ policies' \in Seq(PolicyNames)
          /\ Len(policies') = Len(policies) + 1
          /\ DuplicateFree(policies')
      BY <3>1, <3>2, InsertAtSound
    <3>4. PolicyListSound'
      BY <3>1, <3>2, <3>3 DEF PolicyListSound, DuplicateFree
    <3> QED
      BY <1>4, <2>0, <2>2, <3>3, <3>4 DEF AddPolicyAt, EngineTypeOK
  <2>3. ASSUME NEW p \in PolicyNames, RemovePolicy(p)
        PROVE  EngineInv'
    <3>1. policies \in Seq(PolicyNames) /\ DuplicateFree(policies)
      BY DEF EngineTypeOK, PolicyListSound, DuplicateFree
    <3>2. /\ policies' \in Seq(PolicyNames)
          /\ Len(policies') <= Len(policies)
          /\ DuplicateFree(policies')
      BY <2>3, <3>1, RemoveFirstSound DEF RemovePolicy
    <3>3. PolicyListSound'
      BY <3>1, <3>2 DEF PolicyListSound, DuplicateFree
    <3> QED
      BY <1>4, <2>0, <2>3, <3>2, <3>3 DEF RemovePolicy, EngineTypeOK
  <2>4. ASSUME NEW on \in BOOLEAN,
               SetExtractor(on) \/ SetDefaultPolicyAllow(on) \/ SetTargetDefaultPolicyAllow(on)
        PROVE  EngineInv'
    <3>1. /\ policies' = policies
          /\ extractorSet' \in BOOLEAN
          /\ defaultPolicyAllow' \in BOOLEAN
          /\ targetDefault' \in {{}, {TRUE}, {FALSE}}
      BY <2>4, Zenon
      DEF SetExtractor, SetDefaultPolicyAllow, SetTargetDefaultPolicyAllow, EngineTypeOK
    <3> QED
      BY <1>4, <2>0, <3>1 DEF EngineTypeOK, PolicyListSound
  <2> QED
    BY <1>4, <2>1, <2>2, <2>3, <2>4 DEF EngineAdmin
<1>5. CASE UNCHANGED vars
  BY <1>5 DEF vars, engineVars, configVars, EngineTypeOK, PolicyListSound
<1> QED
  BY <1>1, <1>2, <1>3, <1>4, <1>5 DEF ManagedNext, DeployedNext

\* However the engine is managed, its state has its types.
THEOREM EngineTypeCorrect == ManagedSpec => []EngineTypeOK
<1>1. EngineInv => EngineTypeOK
  BY DEF EngineInv
<1> QED
  BY EngineInvInit, EngineInvNext, <1>1, PTL DEF ManagedSpec, ManagedStart, vars

\* However policies are added, inserted and removed, the list holds none twice
\* and no more than the limit.
THEOREM PolicyListIsSound == ManagedSpec => []PolicyListSound
<1>1. EngineInv => PolicyListSound
  BY DEF EngineInv
<1> QED
  BY EngineInvInit, EngineInvNext, <1>1, PTL DEF ManagedSpec, ManagedStart, vars

-----------------------------------------------------------------------------
(* What a run that does not revert shows.                                  *)

LEMMA PolicyPasses ==
  ASSUME NEW p \in PolicyNames, NEW r, NEW f, PolicyResult(p, r, f) = "Allowed"
  PROVE  HumanConfirmed(f)
<1>1. CASE p = "human"
  BY <1>1 DEF PolicyResult, HumanVerifiedPolicy, Verdict
<1>2. CASE p = "kyc"
  BY <1>2 DEF PolicyResult, KYCPolicy, Verdict
<1>3. CASE p = "credit"
  BY <1>3 DEF PolicyResult, CreditPolicy, Verdict
<1>4. CASE p = "tiered"
  BY <1>4 DEF PolicyResult, TieredPolicy, Verdict
<1> QED
  BY <1>1, <1>2, <1>3, <1>4 DEF PolicyNames

\* What reports claim are integers.
LEMMA TiersAreIntegers == \A t \in Tiers : t \in Int
BY PolicyConstants

\* TieredPolicy allows only what the agent's facts have earned.
LEMMA TieredAllowsEarned ==
  ASSUME NEW r \in AccessReports, NEW f \in Facts, TieredPolicy(r, f) = "Allowed"
  PROVE  r.tier >= 2 /\ Level(f) >= Required(r.tier)
<1>1. r.tier \in Int
  <2>1. r.tier \in Tiers
    BY DEF AccessReports
  <2> QED
    BY <2>1, TiersAreIntegers, Zenon
<1>2. /\ r.tier >= 2
      /\ HumanConfirmed(f)
      /\ r.tier >= 3 => f.kycVerified
      /\ r.tier >= 4 => CreditConfirmed(f)
  BY DEF TieredPolicy, Verdict
<1>3. f.registered
  BY <1>2 DEF HumanConfirmed
<1> QED
  BY <1>1, <1>2, <1>3 DEF Level, Required, HumanConfirmed, CreditConfirmed

\* With TieredPolicy first, a report that passes was allowed by it: it never
\* passes a report on.
LEMMA TieredDecides ==
  ASSUME EngineTypeOK, policies # <<>>, policies[1] = "tiered",
         NEW r \in AccessReports, Run(r)
  PROVE  TieredPolicy(r, facts[r.agentId]) = "Allowed"
<1>1. 1 \in DOMAIN policies /\ \A i \in DOMAIN policies : i \in Int /\ 1 <= i
  BY DEF EngineTypeOK
<1>2. 1 \in Deciding(r)
  BY <1>1 DEF Deciding, PolicyResult, TieredPolicy, Verdict
<1>3. PICK i \in Deciding(r) :
        /\ \A j \in Deciding(r) : i <= j
        /\ PolicyResult(policies[i], r, facts[r.agentId]) = "Allowed"
  BY <1>2 DEF Run
<1>4. i = 1
  <2>1. i \in DOMAIN policies
    BY DEF Deciding
  <2> QED
    BY <1>1, <1>2, <1>3, <2>1
<1> QED
  BY <1>3, <1>4 DEF PolicyResult

\* A report that the engine does not pass by default was allowed by a policy.
LEMMA PolicyDecides ==
  ASSUME EngineTypeOK, ~DefaultAllows, NEW r \in AccessReports, Run(r)
  PROVE  HumanConfirmed(facts[r.agentId])
<1>1. PICK i \in Deciding(r) : PolicyResult(policies[i], r, facts[r.agentId]) = "Allowed"
  BY DEF Run
<1>2. policies[i] \in PolicyNames
  BY DEF Deciding, EngineTypeOK
<1> QED
  BY <1>1, <1>2, PolicyPasses

-----------------------------------------------------------------------------
(* What a grant shows.                                                     *)

\* Only a report grants access, and every other step clears the event.
LEMMA OnlyReportsGrant ==
  ASSUME [ManagedNext]_vars, event'.name = "AccessGranted", ~UNCHANGED vars
  PROVE  \E sender \in Callers, r \in AccessReports :
           /\ OnReport(sender, r)
           /\ UNCHANGED facts
<1>1. ASSUME event' = NoEvent
      PROVE  FALSE
  BY <1>1 DEF NoEvent
<1> QED
  BY <1>1 DEF ManagedNext, DeployedNext, FactsMove, SetForwarder, EngineAdmin

TieredInv == EngineInv /\ TieredFirstSuffices

LEMMA TieredNext == TieredInv /\ [ManagedNext]_vars => TieredInv'
<1> SUFFICES ASSUME TieredInv, [ManagedNext]_vars
             PROVE  TieredFirstSuffices'
  BY EngineInvNext DEF TieredInv
<1>1. CASE UNCHANGED vars
  BY <1>1 DEF TieredInv, TieredFirstSuffices, GrantsAreEarned, vars, engineVars, configVars
<1>2. CASE ~UNCHANGED vars
  <2>1. SUFFICES ASSUME policies' # <<>>, policies'[1] = "tiered",
                        event'.name = "AccessGranted"
                 PROVE  /\ event'.tier >= 2
                        /\ Level(facts'[event'.agentId]) >= Required(event'.tier)
    BY DEF TieredFirstSuffices, GrantsAreEarned
  <2>2. PICK sender \in Callers, r \in AccessReports :
          /\ OnReport(sender, r)
          /\ UNCHANGED facts
    BY <1>2, <2>1, OnlyReportsGrant
  <2>3. policies' = policies /\ Run(r)
    BY <2>2 DEF OnReport, configVars
  <2>4. event'.tier = r.tier /\ event'.agentId = r.agentId
    BY <2>1, <2>2 DEF OnReport
  <2>5. r.agentId \in Agents /\ facts[r.agentId] \in Facts
    BY DEF AccessReports, TieredInv, EngineInv, EngineTypeOK
  <2>6. TieredPolicy(r, facts[r.agentId]) = "Allowed"
    BY <2>1, <2>3, TieredDecides DEF TieredInv, EngineInv
  <2>7. r.tier >= 2 /\ Level(facts[r.agentId]) >= Required(r.tier)
    BY <2>5, <2>6, TieredAllowsEarned
  <2> QED
    BY <2>2, <2>4, <2>7
<1> QED
  BY <1>1, <1>2

\* However the engine is managed, while TieredPolicy is the first policy every
\* grant is at a tier that the agent has earned on-chain.
THEOREM TieredFirstIsEnough == ManagedSpec => []TieredFirstSuffices
<1>1. EngineInit /\ FactsInit => TieredInv
  BY EngineInvInit DEF TieredInv, EngineInit, TieredFirstSuffices
<1>2. TieredInv => TieredFirstSuffices
  BY DEF TieredInv
<1> QED
  BY <1>1, <1>2, TieredNext, PTL DEF ManagedSpec, ManagedStart, vars

FailClosedInv == EngineInv /\ FailClosed

LEMMA FailClosedNext == FailClosedInv /\ [ManagedNext]_vars => FailClosedInv'
<1> SUFFICES ASSUME FailClosedInv, [ManagedNext]_vars
             PROVE  FailClosed'
  BY EngineInvNext DEF FailClosedInv
<1>1. CASE UNCHANGED vars
  BY <1>1 DEF FailClosedInv, FailClosed, DefaultAllows, vars, engineVars, configVars
<1>2. CASE ~UNCHANGED vars
  <2>1. SUFFICES ASSUME event'.name = "AccessGranted", ~DefaultAllows'
                 PROVE  HumanConfirmed(facts'[event'.agentId])
    BY DEF FailClosed, HumanConfirmed
  <2>2. PICK sender \in Callers, r \in AccessReports :
          /\ OnReport(sender, r)
          /\ UNCHANGED facts
    BY <1>2, <2>1, OnlyReportsGrant
  <2>3. ~DefaultAllows /\ Run(r)
    BY <2>1, <2>2 DEF OnReport, configVars, DefaultAllows
  <2>4. HumanConfirmed(facts[r.agentId])
    BY <2>3, PolicyDecides DEF FailClosedInv, EngineInv
  <2>5. event'.agentId = r.agentId
    BY <2>1, <2>2 DEF OnReport
  <2> QED
    BY <2>2, <2>4, <2>5
<1> QED
  BY <1>1, <1>2

\* However the engine is managed, while it rejects by default no agent is
\* granted access that a policy has not confirmed as human.
THEOREM EngineFailsClosed == ManagedSpec => []FailClosed
<1>1. EngineInit /\ FactsInit => FailClosedInv
  BY EngineInvInit DEF FailClosedInv, EngineInit, FailClosed, NoEvent
<1>2. FailClosedInv => FailClosed
  BY DEF FailClosedInv
<1> QED
  BY <1>1, <1>2, FailClosedNext, PTL DEF ManagedSpec, ManagedStart, vars

-----------------------------------------------------------------------------
(* The chain of three policies, strictest first.                           *)

\* One of the three decides on every report, as TieredPolicy would: a policy that
\* does not decide asks more than the report claims.
LEMMA ChainDecides ==
  ASSUME HumanTier = 2, KycTier = 3, CreditTier = 4,
         extractorSet, policies = <<"credit", "kyc", "human">>,
         facts \in [Agents -> Facts], NEW r \in AccessReports
  PROVE  Run(r) <=> TieredPolicy(r, facts[r.agentId]) = "Allowed"
<1> DEFINE f == facts[r.agentId]
           result(i) == PolicyResult(policies[i], r, f)
<1>1. r.tier \in Int /\ r.approved \in BOOLEAN /\ f \in Facts
  <2>1. r.tier \in Tiers /\ r.approved \in BOOLEAN /\ r.agentId \in Agents
    BY DEF AccessReports
  <2> QED
    BY <2>1, TiersAreIntegers, Zenon
<1>2. /\ result(1) = CreditPolicy(r, f)
      /\ result(2) = KYCPolicy(r, f)
      /\ result(3) = HumanVerifiedPolicy(r, f)
  BY DEF PolicyResult
<1>3. DOMAIN policies = 1 .. 3 /\ policies # <<>>
  OBVIOUS
<1>4. Deciding(r) = {i \in 1 .. 3 : result(i) # "Continue"}
  BY <1>3 DEF Deciding
<1>5. result(3) # "Continue"
  BY <1>2 DEF HumanVerifiedPolicy, Verdict
<1>6. Run(r) <=> \E i \in Deciding(r) : /\ \A j \in Deciding(r) : i <= j
                                        /\ result(i) = "Allowed"
  BY <1>3, <1>4, <1>5 DEF Run
<1> HIDE DEF result, f
<1>7. CASE ~r.approved \/ r.tier >= 4
  <2>1. result(1) # "Continue"
    BY <1>1, <1>2, <1>7 DEF CreditPolicy, Verdict
  <2>2. Run(r) <=> result(1) = "Allowed"
    BY <1>4, <1>6, <2>1
  <2> QED
    BY <1>1, <1>2, <1>7, <2>2 DEF CreditPolicy, TieredPolicy, Verdict, f
<1>8. CASE r.approved /\ r.tier = 3
  <2>1. result(1) = "Continue" /\ result(2) # "Continue"
    BY <1>1, <1>2, <1>8 DEF CreditPolicy, KYCPolicy, Verdict
  <2>2. Run(r) <=> result(2) = "Allowed"
    BY <1>4, <1>6, <2>1
  <2> QED
    BY <1>1, <1>2, <1>8, <2>2 DEF KYCPolicy, TieredPolicy, Verdict, f
<1>9. CASE r.approved /\ r.tier < 3
  <2>1. result(1) = "Continue" /\ result(2) = "Continue"
    BY <1>1, <1>2, <1>9 DEF CreditPolicy, KYCPolicy, Verdict
  <2>2. Run(r) <=> result(3) = "Allowed"
    BY <1>4, <1>5, <1>6, <2>1
  <2> QED
    BY <1>1, <1>2, <1>9, <2>2 DEF HumanVerifiedPolicy, TieredPolicy, Verdict, f
<1> QED
  BY <1>1, <1>7, <1>8, <1>9

\* ChainIsTiered for every value of the constants but the three tiers, which
\* TieredPolicy has built in.
THEOREM ChainMatchesTiered ==
  ASSUME HumanTier = 2, KycTier = 3, CreditTier = 4
  PROVE  ManagedSpec => []ChainIsTiered
<1>1. EngineInv => ChainIsTiered
  BY ChainDecides DEF EngineInv, EngineTypeOK, ChainIsTiered
<1> QED
  BY <1>1, EngineInvInit, EngineInvNext, PTL DEF ManagedSpec, ManagedStart, vars

-----------------------------------------------------------------------------
(* The engine as deployed.                                                 *)

DeployedInv == EngineInv /\ policies = <<"tiered">> /\ GrantsAreEarned

LEMMA DeployedInvInit == DeployedInit /\ FactsInit => DeployedInv
<1> SUFFICES ASSUME DeployedInit, FactsInit
             PROVE  DeployedInv
  OBVIOUS
<1>1. policies \in Seq(PolicyNames) /\ Len(policies) = 1
  BY DEF DeployedInit, PolicyNames
<1>2. EngineTypeOK
  <2>1. facts \in [Agents -> Facts]
    BY FactsBeginAsFacts
  <2> QED
    BY <1>1, <2>1 DEF DeployedInit, EngineTypeOK, AccessEvents
<1>3. PolicyListSound
  <2>1. 1 <= MAX_POLICIES
    BY EngineConstants
  <2>2. \A i \in DOMAIN policies : i = 1
    BY <1>1
  <2> QED
    BY <1>1, <2>1, <2>2 DEF PolicyListSound
<1>4. GrantsAreEarned
  BY DEF DeployedInit, GrantsAreEarned, NoEvent
<1> QED
  BY <1>2, <1>3, <1>4 DEF DeployedInv, EngineInv, DeployedInit

LEMMA DeployedInvNext == DeployedInv /\ [DeployedNext]_vars => DeployedInv'
<1> SUFFICES ASSUME DeployedInv, [DeployedNext]_vars
             PROVE  DeployedInv'
  OBVIOUS
<1>1. [ManagedNext]_vars
  BY DEF ManagedNext
<1>2. policies' = policies
  BY DEF DeployedNext, FactsMove, OnReport, SetForwarder, vars, engineVars, configVars
<1>3. policies # <<>> /\ policies[1] = "tiered"
  BY DEF DeployedInv
<1>4. EngineInv' /\ TieredFirstSuffices'
  BY <1>1, <1>3, TieredNext DEF DeployedInv, TieredInv, TieredFirstSuffices
<1>5. policies' # <<>> /\ policies'[1] = "tiered"
  BY <1>2, <1>3
<1> QED
  BY <1>2, <1>4, <1>5 DEF DeployedInv, TieredFirstSuffices

\* As deployed, whatever reports claim and however facts move, access is granted
\* only at a tier that the agent has earned on-chain.
THEOREM GrantsEarned == DeployedSpec => []GrantsAreEarned
<1>1. DeployedInv => GrantsAreEarned
  BY DEF DeployedInv
<1> QED
  BY DeployedInvInit, DeployedInvNext, <1>1, PTL DEF DeployedSpec, DeployedStart, vars

-----------------------------------------------------------------------------
(* The deployed engine implements the abstract access control.             *)

LEMMA LevelInRange == ASSUME NEW f PROVE Level(f) \in 0 .. 4
BY DEF Level

LEMMA PromiseInit == DeployedInit /\ FactsInit => Promise!Init
<1> SUFFICES ASSUME DeployedInit, FactsInit
             PROVE  Promise!Init
  OBVIOUS
<1>1. \A a \in Agents : Level(facts[a]) = 0
  BY DEF FactsInit, NoFacts, Level
<1>2. Granted = {}
  BY DEF DeployedInit, Granted, NoEvent
<1> QED
  BY <1>1, <1>2 DEF Promise!Init

\* A step without a grant that leaves the facts alone is the promise's Quiet.
LEMMA PromiseQuiet ==
  ASSUME event'.name # "AccessGranted", facts' = facts
  PROVE  Promise!Quiet
BY DEF Promise!Quiet, Granted

LEMMA PromiseNext ==
  ASSUME DeployedInv, [DeployedNext]_vars
  PROVE  [Promise!Next]_Promise!vars
<1>1. ASSUME NEW a \in Agents, FactsMove(a)
      PROVE  Promise!Next
  <2>1. Granted' = {}
    BY <1>1 DEF FactsMove, Granted, NoEvent
  <2>2. PICK f \in Facts : facts' = [facts EXCEPT ![a] = f]
    BY <1>1 DEF FactsMove
  <2>3. \A b \in Agents : facts'[b] = IF b = a THEN f ELSE facts[b]
    BY <2>2 DEF DeployedInv, EngineInv, EngineTypeOK
  <2> DEFINE before == [b \in Agents |-> Level(facts[b])]
             after == [b \in Agents |-> Level(facts'[b])]
  <2>4. after = [before EXCEPT ![a] = Level(f)]
    BY <2>3
  <2> QED
    BY <2>1, <2>4, LevelInRange DEF Promise!Next, Promise!Move
<1>2. ASSUME NEW sender \in Callers, NEW r \in AccessReports,
             OnReport(sender, r), facts' = facts
      PROVE  Promise!Next
  <2>1. CASE ~r.approved
    <3>1. event'.name # "AccessGranted"
      BY <1>2, <2>1 DEF OnReport
    <3> QED
      BY <1>2, <3>1, PromiseQuiet DEF Promise!Next
  <2>2. CASE r.approved
    <3>1. Granted' = {[agent |-> r.agentId, tier |-> r.tier]}
      BY <1>2, <2>2 DEF OnReport, Granted
    <3>2. r.agentId \in Agents /\ r.tier \in Tiers /\ facts[r.agentId] \in Facts
      BY DEF AccessReports, DeployedInv, EngineInv, EngineTypeOK
    <3>3. TieredPolicy(r, facts[r.agentId]) = "Allowed"
      BY <1>2, TieredDecides DEF OnReport, DeployedInv, EngineInv
    <3>4. r.tier >= 2 /\ Level(facts[r.agentId]) >= Required(r.tier)
      BY <3>2, <3>3, TieredAllowsEarned
    <3>5. Promise!Grant(r.agentId, r.tier)
      BY <1>2, <3>1, <3>2, <3>4 DEF Promise!Grant, Promise!Required, Required
    <3> QED
      BY <3>2, <3>5 DEF Promise!Next
  <2> QED
    BY <2>1, <2>2
<1>3. ASSUME NEW f \in Forwarders, SetForwarder(f), facts' = facts
      PROVE  Promise!Next
  <2>1. event'.name # "AccessGranted"
    BY <1>3 DEF SetForwarder, NoEvent
  <2> QED
    BY <1>3, <2>1, PromiseQuiet DEF Promise!Next
<1>4. CASE UNCHANGED vars
  BY <1>4 DEF vars, engineVars, Granted, Promise!vars
<1> QED
  BY <1>1, <1>2, <1>3, <1>4 DEF DeployedNext

\* The deployed engine implements the abstract access control: every grant is
\* one the promise allows, every other step moves levels or nothing.
THEOREM EngineImplementsPromise == DeployedSpec => ImplementsPromise
BY DeployedInvInit, DeployedInvNext, PromiseInit, PromiseNext, PTL
DEF DeployedSpec, DeployedStart, vars, ImplementsPromise, Promise!Spec

-----------------------------------------------------------------------------
(* The workflow.                                                           *)

workflowState == <<engineVars, facts, job>>

FactsTyped == facts \in [Agents -> Facts]

\* The facts keep their type in every step: only FactsMove changes them, and it
\* replaces one agent's record by another.
LEMMA FactsStayTyped ==
  WorkflowSpec => []FactsTyped
<1>1. WorkflowStart => FactsTyped
  BY PolicyConstants DEF PolicyConstants, WorkflowStart, DeployedStart, FactsInit, FactsTyped,
                            NoFacts, Facts
<1>2. FactsTyped /\ [WorkflowNext]_workflowState => FactsTyped'
  <2> SUFFICES ASSUME FactsTyped, [WorkflowNext]_workflowState
               PROVE  FactsTyped'
    OBVIOUS
  <2>1. CASE \E a \in Agents : FactsMove(a)
    BY <2>1 DEF FactsMove, FactsTyped
  <2>2. CASE UNCHANGED facts
    BY <2>2 DEF FactsTyped
  <2> QED
    BY <2>1, <2>2 DEF WorkflowNext, OnHTTPTrigger, WriteAccessReport, DeployedNext, workflowState
<1> QED
  BY <1>1, <1>2, PTL DEF WorkflowSpec, workflowState

\* Scores are numbers, at most 100.
LEMMA ScoreIsNumber ==
  ASSUME NEW f \in Facts
  PROVE  f.creditScore \in 0 .. 100
<1>1. f.creditScore \in CreditScores
  BY DEF Facts
<1>2. CreditScores \subseteq 0 .. 100
  BY PolicyConstants, Zenon DEF PolicyConstants
<1> QED
  BY <1>1, <1>2, Zenon

\* The workflow's gates, on the facts as they are read, are the policy's levels if
\* the facts agree with themselves.
LEMMA GateIsLevel ==
  ASSUME MinCreditScore = 50, NEW f \in Facts,
         f.humanMetadata = f.humanVerified,
         f.hasScore \/ f.creditScore = 0
  PROVE  Gate(StateOf(f)) = Level(f)
<1>1. f.creditScore \in 0 .. 100
  BY ScoreIsNumber
<1>2. f.hasScore \in BOOLEAN /\ f.humanMetadata \in BOOLEAN /\ f.humanVerified \in BOOLEAN
  BY DEF Facts
<1>3. f.creditScore < 50 <=> ~CreditConfirmed(f)
  BY <1>1, <1>2 DEF CreditConfirmed
<1>4. f.humanVerified /\ f.registered <=> HumanConfirmed(f)
  BY <1>2 DEF HumanConfirmed
<1> QED
  BY <1>2, <1>3, <1>4 DEF Gate, StateOf, Level, HumanConfirmed, CreditConfirmed

\* TieredPolicy lets a tier of 2 to 4 pass for the agents at its level or above.
LEMMA PolicyIsLevel ==
  ASSUME NEW f \in Facts, NEW tier \in {2, 3, 4}
  PROVE  /\ Level(f) \in 0 .. 4
         /\ Level(f) >= tier <=>
              TieredPolicy([approved |-> TRUE, tier |-> tier], f) = "Allowed"
<1>1. Level(f) \in 0 .. 4
  BY DEF Level
<1>2. CASE tier = 2
  BY <1>1, <1>2 DEF TieredPolicy, Verdict, Level, HumanConfirmed, CreditConfirmed
<1>3. CASE tier = 3
  BY <1>1, <1>3 DEF TieredPolicy, Verdict, Level, HumanConfirmed, CreditConfirmed
<1>4. CASE tier = 4
  BY <1>1, <1>4 DEF TieredPolicy, Verdict, Level, HumanConfirmed, CreditConfirmed
<1> QED
  BY <1>1, <1>2, <1>3, <1>4

\* EvaluationMatchesPolicy for every value of the constants (evaluateAccess
\* against TieredPolicy.run), under the threshold that both have as deployed.
THEOREM EvaluationIsThePolicys ==
  ASSUME MinCreditScore = 50
  PROVE  WorkflowSpec => []EvaluationMatchesPolicy
<1>1. FactsTyped => EvaluationMatchesPolicy
  <2> SUFFICES ASSUME FactsTyped, NEW a \in Agents, NEW resource \in Resources,
                      facts[a].humanMetadata = facts[a].humanVerified,
                      facts[a].hasScore \/ facts[a].creditScore = 0
               PROVE  LET f == facts[a]
                          tier == RESOURCE_TIER[resource]
                          result == EvaluateAccess(StateOf(f), tier)
                          wanted == [approved |-> TRUE, tier |-> tier]
                      IN /\ result.approved <=> TieredPolicy(wanted, f) = "Allowed"
                         /\ result.effectiveTier <= Level(f)
                         /\ result.effectiveTier < Level(f) => result.effectiveTier = tier
    BY DEF EvaluationMatchesPolicy
  <2> DEFINE f == facts[a]
             tier == RESOURCE_TIER[resource]
             wanted == [approved |-> TRUE, tier |-> tier]
             result == EvaluateAccess(StateOf(f), tier)
  <2>1. f \in Facts /\ f.humanMetadata = f.humanVerified /\ (f.hasScore \/ f.creditScore = 0)
    BY DEF FactsTyped
  <2>2. tier \in {2, 3, 4}
    BY DEF Resources, RESOURCE_TIER
  <2> HIDE DEF f, tier
  <2>3. Gate(StateOf(f)) = Level(f)
    BY <2>1, GateIsLevel
  <2>4. /\ Level(f) \in 0 .. 4
        /\ Level(f) >= tier <=> TieredPolicy(wanted, f) = "Allowed"
    BY <2>1, <2>2, PolicyIsLevel
  <2>5. /\ result.approved <=> Level(f) >= tier
        /\ result.effectiveTier = IF Level(f) >= tier THEN tier ELSE Level(f)
    BY <2>3 DEF EvaluateAccess
  <2> HIDE DEF result, wanted
  <2>6. /\ result.approved <=> TieredPolicy(wanted, f) = "Allowed"
        /\ result.effectiveTier <= Level(f)
        /\ result.effectiveTier < Level(f) => result.effectiveTier = tier
    BY <2>2, <2>4, <2>5
  <2> QED
    BY <2>6 DEF result, wanted, f, tier
<1> QED
  BY <1>1, FactsStayTyped, PTL

-----------------------------------------------------------------------------
(* The deployment.                                                         *)

\* What the scripts may have made of the engine by now: nothing but TieredPolicy
\* is ever installed, and nothing allows by default.
WiringInv ==
  /\ policies \in {<<>>, <<"tiered">>}
  /\ defaultPolicyAllow = FALSE
  /\ targetDefault = {}
  /\ queue \in Seq(Creates \cup Writes)
  /\ wire.k \in 1 .. 2 /\ wire = [pc |-> wire.pc, k |-> wire.k]

\* The workflow as it stands refuses every request.
RefusedInv == job = NoJob \/ ~job.report.approved

DeploymentInv ==
  /\ WiringInv
  /\ RefusedInv
  /\ facts \in [Agents -> Facts]
  /\ NoGrantBeforeWired

-----------------------------------------------------------------------------
(* The deployer's transactions.                                            *)

\* Sending appends a call that the chain knows.
LEMMA SendTyped ==
  ASSUME queue \in Seq(Creates \cup Writes), NEW w \in Creates \cup Writes, Send(w)
  PROVE  queue' \in Seq(Creates \cup Writes)
BY DEF Send

\* A transaction that is mined leaves the engine empty or wired, and rejecting.
LEMMA MinedKeepsWiring ==
  ASSUME WiringInv, MineDeployerTx
  PROVE  WiringInv'
<1> DEFINE tx == Head(queue)
<1>1. tx \in Creates \cup Writes /\ queue' \in Seq(Creates \cup Writes)
  BY DEF MineDeployerTx, WiringInv
<1>2. wire' = wire
  BY DEF MineDeployerTx, scriptVars
<1>3. CASE tx \in Creates
  <2>1. /\ UNCHANGED <<policies, targetDefault>>
        /\ defaultPolicyAllow' \in {FALSE, defaultPolicyAllow}
    BY <1>3 DEF MineDeployerTx, MineCreation, EngineDefault
  <2> QED
    BY <1>1, <1>2, <2>1 DEF WiringInv
<1>4. CASE tx \notin Creates /\ UNCHANGED configVars
  BY <1>1, <1>2, <1>4 DEF WiringInv, configVars
<1>5. CASE tx \notin Creates /\ ~UNCHANGED configVars
  <2>1. ~WouldRevert(tx) /\ Apply(tx)
    BY <1>5 DEF MineDeployerTx
  <2>2. tx \in Writes /\ tx \notin Settings
    BY <1>1, <1>5, <2>1 DEF Apply, Writes, Settings
  <2>3. CASE tx = "setExtractor"
    <3>1. UNCHANGED <<policies, defaultPolicyAllow, targetDefault>>
      BY <2>1, <2>3 DEF Apply, SetExtractor, Settings
    <3> QED
      BY <1>1, <1>2, <3>1 DEF WiringInv
  <2>4. CASE tx = "addPolicy"
    <3>1. AddPolicy("tiered")
      BY <2>1, <2>4 DEF Apply, Settings
    <3>2. policies = <<>>
      <4>1. policies # <<"tiered">>
        BY <3>1 DEF AddPolicy, CanInstall, Installed
      <4> QED
        BY <4>1 DEF WiringInv
    <3>3. policies' = <<"tiered">> /\ UNCHANGED <<defaultPolicyAllow, targetDefault>>
      BY <3>1, <3>2 DEF AddPolicy
    <3> QED
      BY <1>1, <1>2, <3>3 DEF WiringInv
  <2> QED
    BY <2>2, <2>3, <2>4 DEF Writes
<1> QED
  BY <1>3, <1>4, <1>5

\* The scripts touch the chain only by what they send.
LEMMA ScriptsKeepWiring ==
  ASSUME WiringInv, DeployStep \/ RunWire \/ WireStep \/ Crash
  PROVE  WiringInv'
<1>1. /\ UNCHANGED <<policies, defaultPolicyAllow, targetDefault>>
  BY DEF DeployStep, DeployCreate, DeployWait, DeployWrite, DeployFinish, RunWire, WireStep,
         WireSend, WireCheck, Crash, chainVars, configVars
<1>2. queue' \in Seq(Creates \cup Writes)
  <2>1. CASE DeployCreate
    BY <2>1, SendTyped DEF DeployCreate, WiringInv
  <2>2. CASE DeployWrite
    <3>1. CASE WouldRevert(Step)
      BY <2>2, <3>1 DEF DeployWrite, WiringInv
    <3>2. CASE ~WouldRevert(Step)
      <4>1. Step \in Writes
        BY <2>2, <3>2 DEF DeployWrite, WouldRevert
      <4> QED
        BY <2>2, <3>2, <4>1, SendTyped DEF DeployWrite, WiringInv
    <3> QED
      BY <3>1, <3>2
  <2>3. CASE WireSend
    <3>1. WireCalls[wire.k] \in Writes
      BY DEF WiringInv, WireCalls, Writes
    <3> QED
      BY <2>3, <3>1, SendTyped DEF WireSend, WiringInv
  <2>4. CASE UNCHANGED queue
    BY <2>4 DEF WiringInv
  <2> QED
    BY <2>1, <2>2, <2>3, <2>4
       DEF DeployStep, DeployWait, DeployFinish, RunWire, WireStep, WireCheck, Crash
<1>3. wire'.k \in 1 .. 2 /\ wire' = [pc |-> wire'.pc, k |-> wire'.k]
  <2>1. CASE UNCHANGED wire
    BY <2>1 DEF WiringInv
  <2>2. CASE wire' = WireIdle \/ wire' = [pc |-> "send", k |-> 1]
    BY <2>2 DEF WireIdle
  <2>3. CASE WireSend
    <3>1. Len(WireCalls) = 2
      BY DEF WireCalls
    <3>2. \/ wire.k < 2 /\ wire' = [wire EXCEPT !.k = @ + 1]
          \/ wire' = [wire EXCEPT !.pc = "check"]
      BY <2>3, <3>1 DEF WireSend
    <3> QED
      BY <3>2 DEF WiringInv
  <2> QED
    BY <2>1, <2>2, <2>3
       DEF DeployStep, DeployCreate, DeployWait, DeployWrite, DeployFinish, RunWire, WireStep,
           WireCheck, Crash
<1> QED
  BY <1>1, <1>2, <1>3 DEF WiringInv

-----------------------------------------------------------------------------
(* Reports.                                                                *)

\* A report passes only an engine that is wired, and TieredPolicy with it.
LEMMA PassedMeansWired ==
  ASSUME WiringInv, NEW r, Run(r)
  PROVE  Wired /\ TieredPolicy(r, facts[r.agentId]) = "Allowed"
<1>1. ~DefaultAllows
  BY DEF WiringInv, DefaultAllows
<1>2. policies = <<"tiered">> /\ extractorSet
  BY <1>1 DEF Run, WiringInv
<1>3. PICK i \in Deciding(r) : PolicyResult(policies[i], r, facts[r.agentId]) = "Allowed"
  BY <1>1, <1>2 DEF Run
<1>4. policies[i] = "tiered"
  BY <1>2 DEF Deciding
<1> QED
  BY <1>2, <1>3, <1>4 DEF Wired, PolicyResult

\* The state that the workflow has built in never leads to an approval.
LEMMA WorkflowRefuses ==
  ASSUME NEW a, NEW resource \in Resources
  PROVE  ~ReportOf(a, EvaluateAccess(ReadAgentState(a), RESOURCE_TIER[resource])).approved
<1> DEFINE tier == RESOURCE_TIER[resource]
           gate == Gate(ReadAgentState(a))
           result == EvaluateAccess(ReadAgentState(a), tier)
<1>1. tier \in {2, 3, 4}
  BY DEF Resources, RESOURCE_TIER
<1>2. gate \in {0, 1}
  BY DEF Gate, ReadAgentState
<1>3. result.approved = (gate >= tier)
  BY DEF EvaluateAccess
<1>4. ReportOf(a, result).approved = result.approved
  BY DEF ReportOf
<1> HIDE DEF tier, gate
<1>5. ~ (gate >= tier)
  BY <1>1, <1>2
<1> HIDE DEF result
<1>6. ~ReportOf(a, result).approved
  BY <1>3, <1>4, <1>5
<1> QED
  BY <1>6 DEF result, tier

\* TieredPolicy rejects what is not approved.
LEMMA RefusalsDoNotPass ==
  ASSUME WiringInv, NEW r, ~r.approved
  PROVE  ~Run(r)
BY PassedMeansWired DEF TieredPolicy, Verdict

\* A grant is a report of someone that passed the engine, and everything else
\* that others do clears the event or leaves no grant in it.
LEMMA OthersGrant ==
  ASSUME WiringInv, RefusedInv, OthersMove, event'.name = "AccessGranted"
  PROVE  /\ "consumer" \in created
         /\ UNCHANGED facts
         /\ \E sender \in Callers, r \in AccessReports : OnReport(sender, r)
<1>1. event' # NoEvent
  BY DEF NoEvent
<1>2. ~WriteAccessReport
  <2> SUFFICES ASSUME WriteAccessReport
               PROVE  FALSE
    OBVIOUS
  <2>1. ~job.report.approved
    BY DEF WriteAccessReport, RefusedInv
  <2> QED
    BY <1>1, <2>1, RefusalsDoNotPass DEF WriteAccessReport, OnReport
<1> QED
  BY <1>1, <1>2 DEF OthersMove, FactsMove, SetForwarder, OnHTTPTrigger

\* What others do leaves the wiring to the scripts.
LEMMA OthersKeepWiring ==
  ASSUME OthersMove
  PROVE  UNCHANGED <<configVars, created, queue, wire>>
BY DEF OthersMove, FactsMove, OnReport, SetForwarder, OnHTTPTrigger, WriteAccessReport, scriptVars

\* Nor do others make the workflow approve anything.
LEMMA OthersKeepRefusals ==
  ASSUME RefusedInv, OthersMove
  PROVE  RefusedInv' /\ (facts \in [Agents -> Facts] => facts' \in [Agents -> Facts])
<1>1. CASE \E a \in Agents : FactsMove(a) /\ UNCHANGED job
  BY <1>1, FactsStayFacts DEF RefusedInv
<1>2. CASE UNCHANGED <<facts, job>>
  BY <1>2 DEF RefusedInv
<1>3. CASE \E a \in Agents, resource \in Resources : OnHTTPTrigger(a, resource)
  BY <1>3, WorkflowRefuses DEF OnHTTPTrigger, RefusedInv
<1>4. CASE WriteAccessReport
  BY <1>4 DEF WriteAccessReport, RefusedInv
<1> QED
  BY <1>1, <1>2, <1>3, <1>4 DEF OthersMove

-----------------------------------------------------------------------------
(* The invariant.                                                          *)

\* A deployment starts with an engine that is not there, and rejects.
LEMMA DeploymentAtStart ==
  ASSUME DeploymentInit
  PROVE  DeploymentInv
<1>1. WiringInv
  BY DEF DeploymentInit, WiringInv, WireIdle
<1> QED
  BY <1>1, FactsBeginAsFacts
     DEF DeploymentInit, DeploymentInv, RefusedInv, NoGrantBeforeWired, NoEvent

\* Every step of the deployer or a script clears the event.
LEMMA ScriptsGrantNothing ==
  ASSUME MineDeployerTx \/ DeployStep \/ RunWire \/ WireStep \/ Crash
  PROVE  event' = NoEvent /\ UNCHANGED <<facts, job>>
BY DEF MineDeployerTx, DeployStep, DeployCreate, DeployWait, DeployWrite, DeployFinish, RunWire,
       WireStep, WireSend, WireCheck, Crash, chainVars

\* Every step of scripts, chain and others keeps the invariant.
LEMMA DeploymentInductive ==
  ASSUME DeploymentInv, [DeploymentNext]_allVars
  PROVE  DeploymentInv'
<1>1. CASE UNCHANGED allVars
  BY <1>1
     DEF DeploymentInv, WiringInv, RefusedInv, NoGrantBeforeWired, WiringChecked, Wired, allVars,
         engineVars, configVars, scriptVars
<1>2. CASE MineDeployerTx \/ DeployStep \/ RunWire \/ WireStep \/ Crash
  <2>1. WiringInv'
    BY <1>2, MinedKeepsWiring, ScriptsKeepWiring DEF DeploymentInv
  <2>2. event' = NoEvent /\ UNCHANGED <<facts, job>>
    BY <1>2, ScriptsGrantNothing
  <2> QED
    BY <2>1, <2>2 DEF DeploymentInv, RefusedInv, NoGrantBeforeWired, NoEvent
<1>3. CASE OthersMove
  <2>1. UNCHANGED <<configVars, created, queue, wire>>
    BY <1>3, OthersKeepWiring
  <2>2. WiringInv'
    BY <2>1 DEF DeploymentInv, WiringInv, configVars
  <2>3. RefusedInv' /\ facts' \in [Agents -> Facts]
    BY <1>3, OthersKeepRefusals DEF DeploymentInv
  <2>4. ASSUME event'.name = "AccessGranted"
        PROVE  WiringChecked'
    <3>1. "consumer" \in created /\ Wired
      BY <1>3, <2>4, OthersGrant, PassedMeansWired DEF DeploymentInv, OnReport
    <3> QED
      BY <2>1, <3>1 DEF WiringChecked, Wired, configVars
  <2> QED
    BY <2>2, <2>3, <2>4 DEF DeploymentInv, NoGrantBeforeWired
<1> QED
  BY <1>1, <1>2, <1>3 DEF DeploymentNext

\* Through every deployment the engine is empty or wired with TieredPolicy alone.
THEOREM DeploymentInvariant ==
  DeploymentSpec => []DeploymentInv
BY DeploymentAtStart, DeploymentInductive, PTL DEF DeploymentSpec

\* While the system is half wired nobody is granted anything.
THEOREM NothingBeforeWired ==
  DeploymentSpec => []NoGrantBeforeWired
<1>1. DeploymentInv => NoGrantBeforeWired
  BY DEF DeploymentInv
<1> QED
  BY <1>1, DeploymentInvariant, PTL

-----------------------------------------------------------------------------
(* "ALL CHECKS PASSED".                                                    *)

\* What the plan of deploy-full-fresh looks like.
LEMMA FullFreshShape ==
  /\ Len(FullFresh) = 13
  /\ DOMAIN FullFresh = 1 .. 13
  /\ \A k \in 1 .. 13 :
       /\ FullFresh[k] = "initializeV2" <=> k = 2
       /\ FullFresh[k] = "engine" <=> k = 3
       /\ FullFresh[k] = "check" <=> k = 13
       /\ FullFresh[k] # "complete"
  /\ \A c \in Creates : \E k \in 1 .. 12 : FullFresh[k] = c
BY DEF FullFresh, Creates

\* The plans differ, and only deploy-full-fresh checks.
LEMMA DeployAllShape ==
  /\ Len(DeployAll) = 10
  /\ DOMAIN DeployAll = 1 .. 10
  /\ \A k \in 1 .. 10 : DeployAll[k] # "check" /\ (DeployAll[k] = "complete" <=> k = 10)
  /\ DeployAll # FullFresh
BY DEF DeployAll, FullFresh

\* initializeV2 waits in the queue, and the engine comes after it.
V2Pending ==
  /\ "engine" \notin created
  /\ \E i \in DOMAIN queue :
       queue[i] = "initializeV2" /\ \A j \in 1 .. i : queue[j] # "engine"

EngineUnknown ==
  "engine" \notin created /\ \A i \in DOMAIN queue : queue[i] # "engine"

\* What deploy-full-fresh has brought about when it comes to its step k. No
\* check sees initializeV2, but the engine, sent after it, was waited for.
PlanInv ==
  /\ \A i \in 1 .. 13 :
       i < deploy.k /\ FullFresh[i] \in Creates => FullFresh[i] \in created
  /\ deploy.k <= 2 => EngineUnknown
  /\ deploy.k > 2 => "initializeV2" \in applied \/ V2Pending

DeployTyped ==
  /\ deploy = [plan |-> deploy.plan, pc |-> deploy.pc, k |-> deploy.k]
  /\ deploy.plan \in Plans
  /\ deploy.k \in DOMAIN deploy.plan

CheckedInv ==
  /\ DeploymentInv
  /\ created \subseteq Creates /\ applied \subseteq Settings
  /\ DeployTyped
  /\ deploy.plan = FullFresh => PlanInv
  /\ CheckedIsComplete

\* Mining moves initializeV2 forward until it takes effect.
LEMMA MinedKeepsPlan ==
  ASSUME WiringInv, MineDeployerTx, PlanInv
  PROVE  PlanInv'
<1> DEFINE tx == Head(queue)
<1>1. /\ queue \in Seq(Creates \cup Writes) /\ queue # <<>>
      /\ queue' = Tail(queue)
      /\ deploy' = deploy
  BY DEF MineDeployerTx, WiringInv, scriptVars
<1>2. /\ Len(queue) \in Nat \ {0} /\ Len(queue') = Len(queue) - 1
      /\ DOMAIN queue = 1 .. Len(queue) /\ DOMAIN queue' = 1 .. Len(queue')
      /\ \A i \in 1 .. Len(queue') : queue'[i] = queue[i + 1]
      /\ tx = queue[1]
  BY <1>1
<1>3. /\ created' = IF tx \in Creates THEN created \cup {tx} ELSE created
      /\ applied \subseteq applied'
      /\ tx = "initializeV2" => "initializeV2" \in applied'
  <2>1. CASE tx \in Creates
    BY <2>1 DEF MineDeployerTx, MineCreation, Creates
  <2>2. CASE tx \notin Creates /\ WouldRevert(tx)
    BY <2>2 DEF MineDeployerTx, WouldRevert
  <2>3. CASE tx \notin Creates /\ ~WouldRevert(tx)
    BY <2>3 DEF MineDeployerTx, Apply, Settings
  <2> QED
    BY <2>1, <2>2, <2>3
<1> HIDE DEF tx
<1>4. ASSUME EngineUnknown
      PROVE  EngineUnknown'
  BY <1>2, <1>3, <1>4 DEF EngineUnknown
<1>5. ASSUME V2Pending
      PROVE  "initializeV2" \in applied' \/ V2Pending'
  <2>1. PICK i \in 1 .. Len(queue) :
          queue[i] = "initializeV2" /\ \A j \in 1 .. i : queue[j] # "engine"
    BY <1>2, <1>5 DEF V2Pending
  <2>2. CASE i = 1
    BY <1>2, <1>3, <2>1, <2>2
  <2>3. CASE i # 1
    <3>1. i - 1 \in 1 .. Len(queue') /\ queue'[i - 1] = "initializeV2"
      BY <1>2, <2>1, <2>3
    <3>2. \A j \in 1 .. i - 1 : queue'[j] # "engine"
      BY <1>2, <2>1, <2>3
    <3>3. "engine" \notin created'
      BY <1>2, <1>3, <1>5, <2>1 DEF V2Pending
    <3> QED
      BY <1>2, <3>1, <3>2, <3>3 DEF V2Pending
  <2> QED
    BY <2>2, <2>3
<1> QED
  BY <1>1, <1>3, <1>4, <1>5 DEF PlanInv

\* A call that is sent goes to the end of the queue.
LEMMA SentKeepsPending ==
  ASSUME queue \in Seq(Creates \cup Writes), NEW w \in Creates \cup Writes, Send(w),
         UNCHANGED created
  PROVE  /\ V2Pending => V2Pending'
         /\ EngineUnknown /\ w # "engine" => EngineUnknown'
         /\ EngineUnknown /\ w = "initializeV2" => V2Pending'
<1>1. /\ Len(queue) \in Nat /\ Len(queue') = Len(queue) + 1
      /\ DOMAIN queue = 1 .. Len(queue) /\ DOMAIN queue' = 1 .. Len(queue) + 1
      /\ \A i \in 1 .. Len(queue) : queue'[i] = queue[i]
      /\ queue'[Len(queue) + 1] = w
  BY DEF Send
<1>2. ASSUME V2Pending
      PROVE  V2Pending'
  <2>1. PICK i \in 1 .. Len(queue) :
          queue[i] = "initializeV2" /\ \A j \in 1 .. i : queue[j] # "engine"
    BY <1>1, <1>2 DEF V2Pending
  <2>2. i \in DOMAIN queue' /\ queue'[i] = "initializeV2"
    BY <1>1, <2>1
  <2>3. \A j \in 1 .. i : queue'[j] # "engine"
    BY <1>1, <2>1
  <2> QED
    BY <1>2, <2>2, <2>3 DEF V2Pending
<1>3. ASSUME EngineUnknown, w # "engine"
      PROVE  EngineUnknown'
  BY <1>1, <1>3 DEF EngineUnknown
<1>4. ASSUME EngineUnknown, w = "initializeV2"
      PROVE  V2Pending'
  <2>1. \A j \in 1 .. Len(queue) + 1 : queue'[j] # "engine"
    BY <1>1, <1>4 DEF EngineUnknown
  <2>2. Len(queue) + 1 \in DOMAIN queue'
    BY <1>1
  <2> QED
    BY <1>1, <1>4, <2>1, <2>2 DEF V2Pending, EngineUnknown
<1> QED
  BY <1>2, <1>3, <1>4

\* The script's own steps, under deploy-full-fresh.
LEMMA DeployKeepsPlan ==
  ASSUME CheckedInv, deploy.plan = FullFresh, DeployStep
  PROVE  PlanInv' /\ DeployTyped' /\ deploy'.plan = FullFresh
<1> USE FullFreshShape
<1>1. /\ UNCHANGED <<created, applied>>
      /\ queue \in Seq(Creates \cup Writes)
      /\ deploy.k \in 1 .. 13 /\ Step = FullFresh[deploy.k]
      /\ deploy = [plan |-> FullFresh, pc |-> deploy.pc, k |-> deploy.k]
      /\ PlanInv
  BY DEF DeployStep, DeployCreate, DeployWait, DeployWrite, DeployFinish, chainVars, CheckedInv,
         DeploymentInv, WiringInv, DeployTyped, Step
<1>2. CASE UNCHANGED queue /\ deploy'.k = deploy.k /\ DeployTyped' /\ deploy'.plan = FullFresh
  BY <1>1, <1>2 DEF PlanInv, EngineUnknown, V2Pending
<1>3. CASE DeployCreate
  <2>1. Step \in Creates /\ Send(Step) /\ deploy' = [deploy EXCEPT !.pc = "wait"]
    BY <1>3 DEF DeployCreate
  <2>2. deploy'.k = deploy.k /\ DeployTyped' /\ deploy'.plan = FullFresh
    BY <1>1, <2>1 DEF DeployTyped, Plans
  <2>3. V2Pending => V2Pending'
    BY <1>1, <2>1, SentKeepsPending
  <2>4. deploy.k <= 2 => EngineUnknown'
    BY <1>1, <2>1, SentKeepsPending DEF PlanInv
  <2> QED
    BY <1>1, <2>2, <2>3, <2>4 DEF PlanInv
<1>4. CASE DeployWait
  <2>1. Step \in created /\ deploy' = [deploy EXCEPT !.pc = "send", !.k = @ + 1] /\ UNCHANGED queue
    BY <1>4 DEF DeployWait, GoOn
  <2>2. deploy.k # 13 /\ deploy.k # 2
    <3>1. "check" \notin Creates /\ "initializeV2" \notin Creates
      BY DEF Creates
    <3> QED
      BY <1>1, <2>1, <3>1 DEF CheckedInv
  <2>3. deploy'.k = deploy.k + 1 /\ DeployTyped' /\ deploy'.plan = FullFresh
    <3>1. deploy' = [plan |-> FullFresh, pc |-> "send", k |-> deploy.k + 1]
      BY <1>1, <2>1
    <3>2. deploy.k + 1 \in DOMAIN FullFresh
      BY <1>1, <2>2
    <3> QED
      BY <3>1, <3>2 DEF DeployTyped, Plans
  <2>4. \A i \in 1 .. 13 :
          i < deploy.k + 1 /\ FullFresh[i] \in Creates => FullFresh[i] \in created
    BY <1>1, <2>1 DEF PlanInv
  <2>5. deploy.k + 1 <= 2 => EngineUnknown
    BY <1>1 DEF PlanInv
  <2>6. deploy.k + 1 > 2 => "initializeV2" \in applied \/ V2Pending
    BY <1>1, <2>2 DEF PlanInv
  <2> QED
    BY <1>1, <2>1, <2>3, <2>4, <2>5, <2>6 DEF PlanInv, EngineUnknown, V2Pending
<1>5. CASE DeployWrite
  <2>1. CASE WouldRevert(Step)
    <3>1. UNCHANGED queue /\ deploy' = [deploy EXCEPT !.pc = "idle"]
      BY <1>5, <2>1 DEF DeployWrite, End
    <3>2. deploy'.k = deploy.k /\ DeployTyped' /\ deploy'.plan = FullFresh
      BY <1>1, <3>1 DEF DeployTyped, Plans
    <3> QED
      BY <1>2, <3>1, <3>2
  <2>2. CASE ~WouldRevert(Step)
    <3>1. Step \in Writes /\ Send(Step) /\ deploy' = [deploy EXCEPT !.pc = "send", !.k = @ + 1]
      BY <1>5, <2>2 DEF DeployWrite, GoOn, WouldRevert
    <3>2. Step \notin Creates /\ deploy.k # 13 /\ Step # "engine"
      <4>1. "check" \notin Writes /\ "engine" \notin Writes /\ Writes \cap Creates = {}
        BY DEF Writes, Settings, Creates
      <4> QED
        BY <1>1, <3>1, <4>1
    <3>3. deploy'.k = deploy.k + 1 /\ DeployTyped' /\ deploy'.plan = FullFresh
      <4>1. deploy' = [plan |-> FullFresh, pc |-> "send", k |-> deploy.k + 1]
        BY <1>1, <3>1
      <4>2. deploy.k + 1 \in DOMAIN FullFresh
        BY <1>1, <3>2
      <4> QED
        BY <4>1, <4>2 DEF DeployTyped, Plans
    <3>4. \A i \in 1 .. 13 :
            i < deploy.k + 1 /\ FullFresh[i] \in Creates => FullFresh[i] \in created
      BY <1>1, <3>2 DEF PlanInv
    <3>5. /\ V2Pending => V2Pending'
          /\ EngineUnknown => EngineUnknown'
          /\ EngineUnknown /\ Step = "initializeV2" => V2Pending'
      BY <1>1, <3>1, <3>2, SentKeepsPending
    <3>6. deploy.k + 1 <= 2 => EngineUnknown'
      BY <1>1, <3>5 DEF PlanInv
    <3>7. deploy.k + 1 > 2 => "initializeV2" \in applied \/ V2Pending'
      <4>1. CASE deploy.k = 2
        BY <1>1, <3>5, <4>1 DEF PlanInv
      <4>2. CASE deploy.k # 2
        BY <1>1, <3>5, <4>2 DEF PlanInv
      <4> QED
        BY <4>1, <4>2
    <3> QED
      BY <1>1, <3>3, <3>4, <3>6, <3>7 DEF PlanInv
  <2> QED
    BY <2>1, <2>2
<1>6. CASE DeployFinish
  <2>1. UNCHANGED queue /\ deploy' = [deploy EXCEPT !.pc = "idle"]
    BY <1>6 DEF DeployFinish, End
  <2>2. deploy'.k = deploy.k /\ DeployTyped' /\ deploy'.plan = FullFresh
    BY <1>1, <2>1 DEF DeployTyped, Plans
  <2> QED
    BY <1>2, <2>1, <2>2
<1> QED
  BY <1>3, <1>4, <1>5, <1>6 DEF DeployStep

\* Under deploy-all the script's steps keep to its plan.
LEMMA DeployAllKeepsType ==
  ASSUME DeployTyped, created \subseteq Creates, deploy.plan = DeployAll, DeployStep
  PROVE  DeployTyped' /\ deploy'.plan = DeployAll
<1> USE DeployAllShape
<1>1. /\ deploy.k \in 1 .. 10 /\ Step = DeployAll[deploy.k]
      /\ deploy = [plan |-> DeployAll, pc |-> deploy.pc, k |-> deploy.k]
  BY DEF DeployTyped, Step
<1>2. CASE \E pc \in {"wait", "idle"} : deploy' = [deploy EXCEPT !.pc = pc]
  BY <1>1, <1>2 DEF DeployTyped, Plans
<1>3. CASE GoOn /\ Step \in Creates \cup Writes \cup {"attach"}
  <2>1. "complete" \notin Creates \cup Writes \cup {"attach"}
    BY DEF Creates, Writes, Settings
  <2>2. deploy.k # 10
    BY <1>1, <1>3, <2>1
  <2>3. deploy' = [plan |-> DeployAll, pc |-> "send", k |-> deploy.k + 1]
    BY <1>1, <1>3 DEF GoOn
  <2>4. deploy.k + 1 \in DOMAIN DeployAll
    BY <1>1, <2>2
  <2> QED
    BY <2>3, <2>4 DEF DeployTyped, Plans
<1>4. CASE DeployCreate
  BY <1>2, <1>4 DEF DeployCreate
<1>5. CASE DeployWait
  BY <1>3, <1>5 DEF DeployWait
<1>6. CASE DeployWrite
  BY <1>2, <1>3, <1>6 DEF DeployWrite, End
<1>7. CASE DeployFinish
  BY <1>2, <1>7 DEF DeployFinish, End
<1> QED
  BY <1>4, <1>5, <1>6, <1>7 DEF DeployStep

\* What has been created, set and wired is never undone.
LEMMA WiringStays ==
  ASSUME DeploymentInv, [DeploymentNext]_allVars
  PROVE  /\ created \subseteq created' /\ applied \subseteq applied'
         /\ created \subseteq Creates => created' \subseteq Creates
         /\ applied \subseteq Settings => applied' \subseteq Settings
         /\ Wired => Wired'
<1>1. CASE MineDeployerTx
  <2> DEFINE tx == Head(queue)
  <2>1. CASE tx \in Creates
    BY <1>1, <2>1 DEF MineDeployerTx, MineCreation, Wired
  <2>2. CASE tx \notin Creates /\ WouldRevert(tx)
    BY <1>1, <2>2 DEF MineDeployerTx, Wired, configVars
  <2>3. CASE tx \notin Creates /\ ~WouldRevert(tx)
    <3>1. Apply(tx) /\ UNCHANGED created
      BY <1>1, <2>3 DEF MineDeployerTx
    <3>2. CASE tx = "setExtractor" /\ SetExtractor(TRUE) /\ UNCHANGED applied
      BY <3>1, <3>2 DEF SetExtractor, Wired
    <3>3. CASE tx = "addPolicy" /\ AddPolicy("tiered") /\ UNCHANGED applied
      BY <3>1, <3>3 DEF AddPolicy, CanInstall, Installed, Wired
    <3>4. CASE tx \in Settings /\ applied' = applied \cup {tx} /\ UNCHANGED configVars
      BY <3>1, <3>4 DEF Wired, configVars
    <3> QED
      BY <3>1, <3>2, <3>3, <3>4 DEF Apply
  <2> QED
    BY <2>1, <2>2, <2>3
<1>2. CASE OthersMove
  BY <1>2 DEF OthersMove, FactsMove, OnReport, SetForwarder, OnHTTPTrigger, WriteAccessReport,
              Wired, configVars
<1>3. CASE UNCHANGED <<created, applied, configVars>>
  BY <1>3 DEF Wired, configVars
<1> QED
  BY <1>1, <1>2, <1>3
     DEF DeploymentNext, DeployStep, DeployCreate, DeployWait, DeployWrite, DeployFinish, RunWire,
         WireStep, WireSend, WireCheck, Crash, chainVars, allVars, engineVars

\* When deploy-full-fresh finds the wiring in place, all is.
LEMMA ChecksSuffice ==
  ASSUME CheckedInv, DeployFinish, Checks, Step = "check"
  PROVE  Wired /\ created = Creates /\ applied = Settings /\ ~defaultPolicyAllow
<1>1. deploy.plan = FullFresh /\ deploy.k = 13
  <2>1. deploy.plan # DeployAll
    BY DeployAllShape DEF CheckedInv, DeployTyped, Step
  <2> QED
    BY <2>1, FullFreshShape DEF CheckedInv, DeployTyped, Plans, Step
<1>2. PlanInv
  BY <1>1 DEF CheckedInv
<1>3. Creates \subseteq created
  <2> SUFFICES ASSUME NEW c \in Creates
               PROVE  c \in created
    OBVIOUS
  <2>1. PICK k \in 1 .. 12 : FullFresh[k] = c
    BY FullFreshShape
  <2>2. k \in 1 .. 13 /\ k < deploy.k
    BY <1>1
  <2> QED
    BY <1>2, <2>1, <2>2 DEF PlanInv
<1>4. "initializeV2" \in applied
  <2>1. "engine" \in created
    BY <1>3 DEF Creates
  <2> QED
    BY <1>1, <1>2, <2>1 DEF PlanInv, V2Pending
<1> QED
  BY <1>3, <1>4 DEF Checks, Settings, CheckedInv, DeploymentInv, WiringInv

\* Every step keeps what the check relies on.
LEMMA CheckedInductive ==
  ASSUME CheckedInv, [DeploymentNext]_allVars
  PROVE  CheckedInv'
<1>1. DeploymentInv /\ DeploymentInv'
  BY DeploymentInductive DEF CheckedInv
<1>2. /\ created \subseteq created' /\ applied \subseteq applied'
      /\ created' \subseteq Creates /\ applied' \subseteq Settings
      /\ Wired => Wired'
  BY <1>1, WiringStays DEF CheckedInv
<1>3. DeployTyped' /\ deploy'.plan = deploy.plan
  <2>1. CASE UNCHANGED deploy
    BY <2>1 DEF CheckedInv, DeployTyped
  <2>2. CASE DeployStep
    BY <2>2, DeployKeepsPlan, DeployAllKeepsType DEF CheckedInv, DeployTyped, Plans
  <2>3. CASE End
    BY <2>3 DEF End, CheckedInv, DeployTyped
  <2> QED
    BY <2>1, <2>2, <2>3
       DEF DeploymentNext, MineDeployerTx, OthersMove, RunWire, WireStep, WireSend, WireCheck,
           Crash, allVars, scriptVars
<1>4. ASSUME deploy'.plan = FullFresh
      PROVE  PlanInv'
  <2>1. PlanInv /\ deploy.plan = FullFresh /\ deploy.k \in 1 .. 13
    BY <1>3, <1>4, FullFreshShape DEF CheckedInv, DeployTyped
  <2>2. CASE MineDeployerTx
    BY <2>1, <2>2, MinedKeepsPlan DEF CheckedInv, DeploymentInv
  <2>3. CASE DeployStep
    BY <2>1, <2>3, DeployKeepsPlan
  <2>4. CASE WireSend
    <3>1. WireCalls[wire.k] \in Writes /\ WireCalls[wire.k] # "engine"
      BY <1>1 DEF DeploymentInv, WiringInv, WireCalls, Writes
    <3>2. UNCHANGED <<created, applied, deploy>>
      BY <2>4 DEF WireSend, chainVars
    <3>3. CASE UNCHANGED queue
      BY <2>1, <3>2, <3>3 DEF PlanInv, EngineUnknown, V2Pending
    <3>4. CASE Send(WireCalls[wire.k])
      <4>1. (V2Pending => V2Pending') /\ (EngineUnknown => EngineUnknown')
        BY <1>1, <3>1, <3>2, <3>4, SentKeepsPending DEF DeploymentInv, WiringInv
      <4> QED
        BY <2>1, <3>2, <4>1 DEF PlanInv
    <3> QED
      BY <2>4, <3>3, <3>4 DEF WireSend
  <2>5. CASE UNCHANGED <<created, applied, queue>> /\ deploy'.k = deploy.k
    BY <2>1, <2>5 DEF PlanInv, EngineUnknown, V2Pending
  <2>6. Crash => deploy'.k = deploy.k
    <3> SUFFICES ASSUME Crash
                 PROVE  deploy'.k = deploy.k
      OBVIOUS
    <3>1. UNCHANGED deploy \/ deploy' = [deploy EXCEPT !.pc = "idle"]
      BY DEF Crash, End
    <3> QED
      BY <3>1 DEF CheckedInv, DeployTyped
  <2> QED
    BY <2>2, <2>3, <2>4, <2>5, <2>6
       DEF DeploymentNext, OthersMove, RunWire, WireStep, WireCheck, Crash, chainVars, allVars,
           scriptVars
<1>5. ASSUME "checked" \in said'
      PROVE  Wired' /\ created' = Creates /\ applied' = Settings /\ ~defaultPolicyAllow'
  <2>1. ~defaultPolicyAllow'
    BY <1>1 DEF DeploymentInv, WiringInv
  <2>2. Wired /\ created = Creates /\ applied = Settings
    <3>1. CASE "checked" \in said
      BY <3>1 DEF CheckedInv, CheckedIsComplete
    <3>2. CASE "checked" \notin said
      <4>1. DeployFinish /\ Checks /\ Step = "check"
        BY <1>5, <3>2
           DEF DeploymentNext, MineDeployerTx, OthersMove, DeployStep, DeployCreate, DeployWait,
               DeployWrite, DeployFinish, RunWire, WireStep, WireSend, WireCheck, Crash, allVars,
               scriptVars
      <4> QED
        BY <4>1, ChecksSuffice
    <3> QED
      BY <3>1, <3>2
  <2> QED
    BY <1>2, <2>1, <2>2
<1> QED
  BY <1>1, <1>2, <1>3, <1>4, <1>5 DEF CheckedInv, CheckedIsComplete

\* Nothing is announced at the start.
LEMMA CheckedAtStart ==
  ASSUME DeploymentInit
  PROVE  CheckedInv
<1>1. /\ deploy.plan \in Plans /\ deploy.k = 1
      /\ deploy = [plan |-> deploy.plan, pc |-> deploy.pc, k |-> deploy.k]
      /\ created = IF deploy.plan = DeployAll THEN {"worldId"} ELSE {}
      /\ queue = <<>> /\ applied = {} /\ said = {}
  BY DEF DeploymentInit
<1>2. DeployTyped
  BY <1>1, FullFreshShape, DeployAllShape DEF DeployTyped, Plans
<1>3. deploy.plan = FullFresh => PlanInv
  BY <1>1, DeployAllShape DEF PlanInv, EngineUnknown
<1> QED
  BY <1>1, <1>2, <1>3, DeploymentAtStart DEF CheckedInv, CheckedIsComplete, Creates

\* "ALL CHECKS PASSED" is printed only of a system that is complete, although no
\* call was waited for and one is not looked at: it was sent before others that were.
THEOREM CheckedMeansComplete ==
  DeploymentSpec => []CheckedIsComplete
<1>1. CheckedInv => CheckedIsComplete
  BY DEF CheckedInv
<1> QED
  BY <1>1, CheckedAtStart, CheckedInductive, PTL DEF DeploymentSpec

-----------------------------------------------------------------------------
(* The abstract access control.                                            *)

\* At the start every agent is at level 0 and nothing is granted.
LEMMA PromiseAtStart ==
  ASSUME DeploymentInit
  PROVE  Promise!Init
<1>1. \A a \in Agents : Level(facts[a]) = 0
  BY DEF DeploymentInit, FactsInit, NoFacts, Level
<1>2. Granted = {}
  BY DEF DeploymentInit, Granted, NoEvent
<1> QED
  BY <1>1, <1>2 DEF Promise!Init

\* The facts of one agent move.
LEMMA FactsMovePromised ==
  ASSUME facts \in [Agents -> Facts], NEW a \in Agents, FactsMove(a)
  PROVE  Promise!Next
<1>1. Granted' = {}
  BY DEF FactsMove, Granted, NoEvent
<1>2. PICK f \in Facts : facts' = [facts EXCEPT ![a] = f]
  BY DEF FactsMove
<1>3. \A b \in Agents : facts'[b] = IF b = a THEN f ELSE facts[b]
  BY <1>2
<1> DEFINE before == [b \in Agents |-> Level(facts[b])]
           after == [b \in Agents |-> Level(facts'[b])]
<1>4. after = [before EXCEPT ![a] = Level(f)]
  BY <1>3
<1> QED
  BY <1>1, <1>4, LevelInRange DEF Promise!Next, Promise!Move

\* Every step grants what the promise allows, moves levels or does nothing.
LEMMA DeploymentStepPromised ==
  ASSUME DeploymentInv, [DeploymentNext]_allVars
  PROVE  [Promise!Next]_Promise!vars
<1>1. CASE UNCHANGED allVars
  BY <1>1 DEF allVars, engineVars, Granted, Promise!vars
<1>2. CASE ~UNCHANGED allVars /\ event'.name # "AccessGranted" /\ UNCHANGED facts
  BY <1>2, PromiseQuiet DEF Promise!Next
<1>3. CASE \E a \in Agents : FactsMove(a)
  BY <1>3, FactsMovePromised DEF DeploymentInv
<1>4. CASE OthersMove /\ event'.name = "AccessGranted"
  <2>1. PICK sender \in Callers, r \in AccessReports : OnReport(sender, r) /\ UNCHANGED facts
    BY <1>4, OthersGrant DEF DeploymentInv
  <2>2. Granted' = {[agent |-> r.agentId, tier |-> r.tier]}
    BY <1>4, <2>1 DEF OnReport, Granted
  <2>3. r.agentId \in Agents /\ r.tier \in Tiers /\ facts[r.agentId] \in Facts
    BY DEF AccessReports, DeploymentInv
  <2>4. TieredPolicy(r, facts[r.agentId]) = "Allowed"
    BY <2>1, PassedMeansWired DEF OnReport, DeploymentInv
  <2>5. r.tier >= 2 /\ Level(facts[r.agentId]) >= Required(r.tier)
    BY <2>3, <2>4, TieredAllowsEarned
  <2>6. Promise!Grant(r.agentId, r.tier)
    BY <2>1, <2>2, <2>3, <2>5 DEF Promise!Grant, Promise!Required, Required
  <2> QED
    BY <2>3, <2>6 DEF Promise!Next
<1>5. CASE MineDeployerTx \/ DeployStep \/ RunWire \/ WireStep \/ Crash
  <2>1. event'.name # "AccessGranted" /\ UNCHANGED facts
    BY <1>5, ScriptsGrantNothing DEF NoEvent
  <2> QED
    BY <2>1, PromiseQuiet DEF Promise!Next
<1>6. OthersMove => UNCHANGED facts \/ \E a \in Agents : FactsMove(a)
  BY DEF OthersMove, OnHTTPTrigger, WriteAccessReport
<1> QED
  BY <1>1, <1>2, <1>3, <1>4, <1>5, <1>6 DEF DeploymentNext

\* From the first transaction of a deployment on, the system implements the
\* abstract access control: what is half wired only refuses.
THEOREM DeploymentKeepsPromise ==
  DeploymentSpec => ImplementsPromise
BY PromiseAtStart, DeploymentInvariant, DeploymentStepPromised, PTL
   DEF DeploymentSpec, ImplementsPromise, Promise!Spec
=============================================================================
