-------------------------- MODULE WorldIDValidator --------------------------
(***************************************************************************)
(* Binds World ID proofs of personhood to agents. Verification and         *)
(* revocation are each one transaction that also writes the registry's     *)
(* "humanVerified" metadata, for which the owner must have approved this   *)
(* contract on the token.                                                  *)
(*                                                                         *)
(* A nullifier stands for what the World ID circuit computes: one value    *)
(* per human and external nullifier. Before initializeV2 the external      *)
(* nullifier is the application's (AppWide); afterwards it is the agent's. *)
(***************************************************************************)
EXTENDS IdentityRegistry

CONSTANTS
  Humans,        \* people enrolled in World ID
  Proofs,        \* proofs people produce: who, for which scope, which signal
  WorldId,       \* the address of this contract
  ValidatorTag   \* the metadata value it writes, abi.encode(true, this, ...)

AppWide == -1
Scopes == AgentIds \cup {AppWide}
Nullifiers == [human : Humans, scope : Scopes]

ASSUME WorldIdConstants ==
  /\ Proofs \subseteq [human : Humans, scope : Scopes, signal : Users]
  /\ WorldId \in Services
  /\ ValidatorTag \in Tags \ {NoTag}

VARIABLES
  nullifierUsed,     \* set of spent nullifiers
  nullifierToAgent,  \* agent a nullifier was spent on (0 by default)
  verifications,     \* VerificationData per agent
  perAgent           \* appIdHash # 0: initializeV2 has run

worldIdVars == <<nullifierUsed, nullifierToAgent, verifications, perAgent>>

\* The default of a never verified agent has no nullifier: the empty set.
VerificationData ==
  [isVerified : BOOLEAN, nullifierHash : Optional(Nullifiers),
   verifiedBy : Users \cup {Zero}]

WorldIdTypeOK ==
  /\ nullifierUsed \subseteq Nullifiers
  /\ nullifierToAgent \in [Nullifiers -> AgentIds \cup {0}]
  /\ verifications \in [AgentIds -> VerificationData]
  /\ perAgent \in BOOLEAN

WorldIdInit ==
  /\ nullifierUsed = {}
  /\ nullifierToAgent = [n \in Nullifiers |-> 0]
  /\ verifications =
       [a \in AgentIds |->
          [isVerified |-> FALSE, nullifierHash |-> {}, verifiedBy |-> Zero]]
  /\ perAgent = FALSE

-----------------------------------------------------------------------------
\* Faulty variant: the signal is not bound to the owner.
VerifyProofAnySignal(p, signal, nullifier, extNullifier) ==
  /\ p.scope = extNullifier
  /\ nullifier = [human |-> p.human, scope |-> p.scope]

\* The World ID router accepts a proof for exactly the signal, nullifier and
\* external nullifier it was made with.
VerifyProof(p, signal, nullifier, extNullifier) ==
  /\ p.signal = signal
  /\ p.scope = extNullifier
  /\ nullifier = [human |-> p.human, scope |-> p.scope]

ExternalNullifier(a) == IF perAgent THEN a ELSE AppWide

\* Faulty variant: without the check that the nullifier is unspent.
CanVerifyAgain(sender, a, nullifier, p) ==
  /\ Exists(a)
  /\ approved[a] = WorldId
  /\ sender = owner[a]
  /\ ~verifications[a].isVerified
  /\ VerifyProof(p, owner[a], nullifier, ExternalNullifier(a))

\* What verifyAndSetHumanTag asks for; it reverts otherwise.
CanVerify(sender, a, nullifier, p) ==
  /\ Exists(a)
  /\ approved[a] = WorldId
  /\ sender = owner[a]
  /\ ~verifications[a].isVerified
  /\ nullifier \notin nullifierUsed
  /\ VerifyProof(p, owner[a], nullifier, ExternalNullifier(a))

VerifyAndSetHumanTag(sender, a, nullifier, p) ==
  /\ CanVerify(sender, a, nullifier, p)
  /\ nullifierUsed' = nullifierUsed \cup {nullifier}
  /\ nullifierToAgent' = [nullifierToAgent EXCEPT ![nullifier] = a]
  /\ verifications' = [verifications EXCEPT
       ![a] = [isVerified |-> TRUE, nullifierHash |-> {nullifier},
               verifiedBy |-> sender]]
  /\ SetMetadata(WorldId, a, "humanVerified", ValidatorTag)
  /\ UNCHANGED perAgent

\* Faulty variant: the lines that revocation has commented out, which free the
\* nullifier.
RevokeFreeingNullifier(sender, a) ==
  /\ Exists(a)
  /\ sender = owner[a]
  /\ verifications[a].isVerified
  /\ approved[a] = WorldId
  /\ nullifierUsed' = nullifierUsed \ verifications[a].nullifierHash
  /\ verifications' = [verifications EXCEPT ![a].isVerified = FALSE]
  /\ SetMetadata(WorldId, a, "humanVerified", NoTag)
  /\ UNCHANGED <<nullifierToAgent, perAgent>>

\* The nullifier stays spent; its record stays in verifications.
RevokeVerification(sender, a) ==
  /\ Exists(a)
  /\ sender = owner[a]
  /\ verifications[a].isVerified
  /\ approved[a] = WorldId
  /\ verifications' = [verifications EXCEPT ![a].isVerified = FALSE]
  /\ SetMetadata(WorldId, a, "humanVerified", NoTag)
  /\ UNCHANGED <<nullifierUsed, nullifierToAgent, perAgent>>

\* reinitializer(2): once, by anyone.
InitializeV2 ==
  /\ ~perAgent
  /\ perAgent' = TRUE
  /\ UNCHANGED <<nullifierUsed, nullifierToAgent, verifications>>
  /\ UNCHANGED registryVars

WorldIdCall(sender) ==
  \/ \E a \in AgentIds, n \in Nullifiers, p \in Proofs :
       VerifyAndSetHumanTag(sender, a, n, p)
  \/ \E a \in AgentIds : RevokeVerification(sender, a)
  \/ InitializeV2

WorldIdNext ==
  \/ \E sender \in Users : MayCall(sender) /\ WorldIdCall(sender)
  \/ RegistryNext /\ UNCHANGED worldIdVars

WorldIdSystemInit == WorldIdInit /\ RegistryInit

WorldIdSpec ==
  WorldIdSystemInit /\ [][WorldIdNext]_<<registryVars, worldIdVars>>

-----------------------------------------------------------------------------
(* Properties.                                                             *)

\* Every agent that is or was verified holds a nullifier that is spent, and
\* spent on that agent: no two agents share one, through any sequence of
\* revocation, transfer and migration to V2.
NullifierLedger ==
  \A a \in AgentIds :
    /\ verifications[a].isVerified => verifications[a].nullifierHash # {}
    /\ \A n \in verifications[a].nullifierHash :
         n \in nullifierUsed /\ nullifierToAgent[n] = a

\* A verification rests on a proof a human made for the account that asked for
\* it, in the scope of this agent or of the whole application.
VerifiedByProof ==
  \A a \in AgentIds :
    \A n \in verifications[a].nullifierHash :
      \E p \in Proofs :
        /\ p.human = n.human
        /\ p.scope = n.scope
        /\ p.signal = verifications[a].verifiedBy
        /\ n.scope \in {a, AppWide}

\* Until the V2 migration no human has ever been behind two agents, whatever was
\* revoked or transferred in between.
OneAgentPerHumanV1 ==
  ~perAgent =>
    \A a, b \in AgentIds :
      \A m \in verifications[a].nullifierHash, n \in verifications[b].nullifierHash :
        m.human = n.human => a = b

\* A spent nullifier stays spent and stays bound to its agent: revocation never
\* frees it for the same or another agent.
NullifierNeverFreed ==
  [][\A n \in nullifierUsed :
       n \in nullifierUsed' /\ nullifierToAgent'[n] = nullifierToAgent[n]
    ]_<<registryVars, worldIdVars>>
=============================================================================
