---------------------- MODULE IdentityAndWorldIDProofs ----------------------
(***************************************************************************)
(* The agent registry for every set of accounts, contracts, consents and   *)
(* metadata values, and every number of agents; and the ledger of          *)
(* nullifiers, for any number of humans and proofs. One inductive          *)
(* invariant carries all of the ledger: a verification names a nullifier   *)
(* that is spent on its agent and comes from a proof, and before the V2    *)
(* migration only nullifiers of the application are spent. Registry calls  *)
(* leave the ledger alone, whatever they are.                              *)
(***************************************************************************)
EXTENDS WorldIDValidator, TLAPS

(* The registry.                                                           *)

\* The inductive invariant.
RegistryInv == RegistryTypeOK /\ OwnedBelowLastId /\ WalletConsented

-----------------------------------------------------------------------------
(* Facts that every step uses.                                             *)

\* A given option is one of the values it was taken from.
LEMMA GivenIsValue ==
  ASSUME NEW S, NEW d \in S, NEW o \in Optional(S)
  PROVE  Given(o, d) \in S
<1>1. CASE o = {}
  BY <1>1 DEF Given
<1>2. ASSUME NEW x \in S, o = {x}
      PROVE  Given(o, d) \in S
  BY <1>2 DEF Given
<1> QED
  BY <1>1, <1>2 DEF Optional

\* The zero address is no account and no service.
LEMMA ZeroIsNobody == /\ Contracts \subseteq Users
                      /\ \A u \in Users : u # Zero
                      /\ MaxAgents \in Nat
BY RegistryConstants

\* The properties read three variables: a step that leaves the owners, the
\* number of agents, the wallets and the approvals alone preserves them.
LEMMA PropertiesReadWallets ==
  ASSUME OwnedBelowLastId, WalletConsented,
         owner' = owner, lastId' = lastId, approved' = approved,
         \A a \in AgentIds : AgentWallet(a)' = AgentWallet(a)
  PROVE  OwnedBelowLastId' /\ WalletConsented'
BY DEF OwnedBelowLastId, WalletConsented, Exists

-----------------------------------------------------------------------------
LEMMA RegistryInvInit == RegistryInit => RegistryInv
<1> SUFFICES ASSUME RegistryInit
             PROVE  RegistryInv
  OBVIOUS
<1>1. Blank \in Metadata
  BY RegistryConstants DEF Blank, Metadata
<1>2. RegistryTypeOK
  <2>1. lastId \in 0 .. MaxAgents /\ now \in 0 .. MaxTime
    BY RegistryConstants DEF RegistryInit
  <2>2. /\ owner \in [AgentIds -> Users \cup {Zero}]
        /\ approved \in [AgentIds -> Addresses \cup {Zero}]
        /\ metadata \in [AgentIds -> Metadata]
    BY <1>1 DEF RegistryInit
  <2>3. uri \in [AgentIds -> URIs]
    BY RegistryConstants DEF RegistryInit
  <2>4. operators \subseteq Users \X Addresses /\ minting \subseteq Frames
    BY DEF RegistryInit
  <2> QED
    BY <2>1, <2>2, <2>3, <2>4 DEF RegistryTypeOK
<1>3. \A a \in AgentIds : ~Exists(a) /\ AgentWallet(a) = Zero /\ approved[a] = Zero
  BY DEF RegistryInit, Exists, AgentWallet, Blank
<1>4. \A a \in AgentIds : ~(a < lastId)
  BY DEF RegistryInit, AgentIds
<1> QED
  BY <1>2, <1>3, <1>4 DEF RegistryInv, OwnedBelowLastId, WalletConsented

\* A registration: the new agent belongs to its caller, who is its wallet.
LEMMA RegisterKeepsInv ==
  ASSUME RegistryInv, NEW sender \in Users,
         NEW u \in Optional(URIs), NEW t \in Optional(Tags), Register(sender, u, t)
  PROVE  RegistryInv'
<1> DEFINE born == [Blank EXCEPT !.agentWallet = sender]
<1>1. lastId \in AgentIds /\ lastId' \in 0 .. MaxAgents /\ lastId' = lastId + 1
  BY ZeroIsNobody DEF RegistryInv, RegistryTypeOK, Register, AgentIds
<1>2. owner' = [owner EXCEPT ![lastId] = sender] /\ approved' = approved
  BY DEF Register
<1>3. born \in Metadata /\ born.agentWallet = sender
  BY RegistryConstants DEF Blank, Metadata
<1>4. [born EXCEPT !.humanVerified = Given(t, NoTag)] \in Metadata
  BY <1>3, RegistryConstants, GivenIsValue DEF Metadata
<1>5. PICK m \in Metadata :
        /\ metadata' = [metadata EXCEPT ![lastId] = m]
        /\ m.agentWallet = sender
  <2>1. [born EXCEPT !.humanVerified = Given(t, NoTag)].agentWallet = sender
    BY DEF Blank
  <2>2. CASE sender \in Contracts
    BY <1>3, <2>2 DEF Register
  <2>3. CASE sender \notin Contracts
    BY <1>4, <2>1, <2>3 DEF Register
  <2> QED
    BY <2>2, <2>3
<1>6. RegistryTypeOK'
  <2>1. owner' \in [AgentIds -> Users \cup {Zero}] /\ approved' \in [AgentIds -> Addresses \cup {Zero}]
    BY <1>2 DEF RegistryInv, RegistryTypeOK
  <2>2. metadata' \in [AgentIds -> Metadata]
    BY <1>5 DEF RegistryInv, RegistryTypeOK
  <2>3. minting' \subseteq Frames
    BY <1>1 DEF RegistryInv, RegistryTypeOK, Register, Frames
  <2>4. uri' \in [AgentIds -> URIs]
    <3>1. Given(u, EmptyURI) \in URIs
      BY RegistryConstants, GivenIsValue
    <3> QED
      BY <3>1 DEF RegistryInv, RegistryTypeOK, Register
  <2>5. operators' = operators /\ now' = now
    BY DEF Register
  <2> QED
    BY <1>1, <2>1, <2>2, <2>3, <2>4, <2>5 DEF RegistryInv, RegistryTypeOK
<1>7. \A a \in AgentIds :
        IF a = lastId THEN owner'[a] = sender /\ AgentWallet(a)' = sender
        ELSE owner'[a] = owner[a] /\ AgentWallet(a)' = AgentWallet(a)
  BY <1>2, <1>5 DEF RegistryInv, RegistryTypeOK, AgentWallet
<1>8. OwnedBelowLastId'
  <2>1. \A a \in AgentIds : a < lastId' <=> a = lastId \/ a < lastId
    BY <1>1 DEF AgentIds
  <2> QED
    BY <1>2, <1>7, <2>1, ZeroIsNobody DEF RegistryInv, OwnedBelowLastId, Exists
<1>9. WalletConsented'
  BY <1>7 DEF RegistryInv, WalletConsented
<1> QED
  BY <1>6, <1>8, <1>9 DEF RegistryInv

\* The rest of register() after the callback writes the URI and the tag only.
LEMMA FinishKeepsInv ==
  ASSUME RegistryInv, NEW f \in minting, FinishRegister(f)
  PROVE  RegistryInv'
<1>1. f.agent \in AgentIds /\ f.uri \in Optional(URIs) /\ f.tag \in Optional(Tags)
  BY DEF RegistryInv, RegistryTypeOK, Frames
<1>2. /\ uri[f.agent] \in URIs
      /\ metadata[f.agent] \in Metadata
      /\ metadata[f.agent].humanVerified \in Tags
  BY <1>1 DEF RegistryInv, RegistryTypeOK, Metadata
<1>3. Given(f.uri, uri[f.agent]) \in URIs
  BY <1>1, <1>2, GivenIsValue
<1>4. Given(f.tag, metadata[f.agent].humanVerified) \in Tags
  BY <1>1, <1>2, GivenIsValue
<1> DEFINE m == [metadata[f.agent] EXCEPT
                   !.humanVerified = Given(f.tag, metadata[f.agent].humanVerified)]
<1>5. m \in Metadata /\ m.agentWallet = metadata[f.agent].agentWallet
  BY <1>2, <1>4 DEF Metadata
<1>6. metadata' = [metadata EXCEPT ![f.agent] = m]
  BY DEF FinishRegister
<1>7. RegistryTypeOK'
  <2>1. uri' \in [AgentIds -> URIs]
    BY <1>3 DEF RegistryInv, RegistryTypeOK, FinishRegister
  <2>2. metadata' \in [AgentIds -> Metadata]
    BY <1>5, <1>6 DEF RegistryInv, RegistryTypeOK
  <2> QED
    BY <2>1, <2>2 DEF RegistryInv, RegistryTypeOK, FinishRegister
<1>8. \A a \in AgentIds : AgentWallet(a)' = AgentWallet(a)
  BY <1>5, <1>6 DEF RegistryInv, RegistryTypeOK, AgentWallet
<1> QED
  BY <1>7, <1>8, PropertiesReadWallets DEF RegistryInv, FinishRegister

\* A transfer clears what the former owner had arranged.
LEMMA TransferKeepsInv ==
  ASSUME RegistryInv, NEW sender \in Users, NEW a \in AgentIds, NEW to \in Users,
         TransferFrom(sender, a, to)
  PROVE  RegistryInv'
<1>1. /\ owner' = [owner EXCEPT ![a] = to]
      /\ approved' = [approved EXCEPT ![a] = Zero]
      /\ lastId' = lastId
      /\ Exists(a)
  BY DEF TransferFrom, Update, IsAuthorized
<1> DEFINE m == [metadata[a] EXCEPT !.agentWallet = Zero]
<1>2. m \in Metadata /\ m.agentWallet = Zero
  BY DEF RegistryInv, RegistryTypeOK, Metadata
<1>3. metadata' = [metadata EXCEPT ![a] = m]
  BY DEF TransferFrom, Update
<1>4. RegistryTypeOK'
  <2>1. metadata' \in [AgentIds -> Metadata]
    BY <1>2, <1>3 DEF RegistryInv, RegistryTypeOK
  <2>2. /\ owner' \in [AgentIds -> Users \cup {Zero}]
        /\ approved' \in [AgentIds -> Addresses \cup {Zero}]
    BY <1>1 DEF RegistryInv, RegistryTypeOK
  <2> QED
    BY <2>1, <2>2 DEF RegistryInv, RegistryTypeOK, TransferFrom
<1>5. \A b \in AgentIds :
        IF b = a THEN owner'[b] = to /\ AgentWallet(b)' = Zero
        ELSE /\ owner'[b] = owner[b]
             /\ AgentWallet(b)' = AgentWallet(b)
             /\ approved'[b] = approved[b]
  BY <1>1, <1>2, <1>3 DEF RegistryInv, RegistryTypeOK, AgentWallet
<1>6. OwnedBelowLastId'
  BY <1>1, <1>5, ZeroIsNobody DEF RegistryInv, OwnedBelowLastId, Exists
<1>7. WalletConsented'
  BY <1>5 DEF RegistryInv, WalletConsented
<1> QED
  BY <1>4, <1>6, <1>7 DEF RegistryInv

\* Setting a wallet takes a consent for the present owner; unsetting takes none.
LEMMA WalletKeepsInv ==
  ASSUME RegistryInv, NEW sender \in Users, NEW a \in AgentIds,
         NEW w \in Users \cup {Zero},
         \/ UnsetAgentWallet(sender, a) /\ w = Zero
         \/ \E c \in Consents : SetAgentWallet(sender, a, w, c)
  PROVE  RegistryInv'
<1>1. /\ Exists(a)
      /\ metadata' = [metadata EXCEPT ![a].agentWallet = w]
      /\ UNCHANGED <<lastId, owner, approved, operators, uri, minting, now>>
  BY DEF UnsetAgentWallet, SetAgentWallet, IsAuthorized
<1> DEFINE m == [metadata[a] EXCEPT !.agentWallet = w]
<1>2. m \in Metadata /\ m.agentWallet = w
  BY DEF RegistryInv, RegistryTypeOK, Metadata
<1>3. metadata' = [metadata EXCEPT ![a] = m]
  BY <1>1
<1>4. RegistryTypeOK'
  <2>1. metadata' \in [AgentIds -> Metadata]
    BY <1>2, <1>3 DEF RegistryInv, RegistryTypeOK
  <2> QED
    BY <1>1, <2>1 DEF RegistryInv, RegistryTypeOK
<1>5. \A b \in AgentIds :
        AgentWallet(b)' = IF b = a THEN w ELSE AgentWallet(b)
  BY <1>2, <1>3 DEF RegistryInv, RegistryTypeOK, AgentWallet
<1>6. OwnedBelowLastId'
  BY <1>1, <1>5 DEF RegistryInv, OwnedBelowLastId, Exists
<1>7. w # Zero =>
        \E c \in Consents : c.agent = a /\ c.wallet = w /\ c.owner = owner[a]
  BY DEF SetAgentWallet, SignatureValid
<1>8. WalletConsented'
  BY <1>1, <1>5, <1>7 DEF RegistryInv, WalletConsented
<1> QED
  BY <1>4, <1>6, <1>8 DEF RegistryInv

\* Metadata other than the reserved key leaves wallets alone.
LEMMA SetMetadataKeepsInv ==
  ASSUME RegistryInv, NEW sender, NEW a \in AgentIds,
         NEW key \in DOMAIN KeyValues, NEW value \in KeyValues[key],
         SetMetadata(sender, a, key, value)
  PROVE  RegistryInv'
<1>1. key = "humanVerified" /\ value \in Tags
  BY DEF SetMetadata, KeyValues
<1> DEFINE m == [metadata[a] EXCEPT !.humanVerified = value]
<1>2. m \in Metadata /\ m.agentWallet = metadata[a].agentWallet
  BY <1>1 DEF RegistryInv, RegistryTypeOK, Metadata
<1>3. metadata' = [metadata EXCEPT ![a] = m]
  BY <1>1 DEF SetMetadata, RegistryInv, RegistryTypeOK, Metadata
<1>4. RegistryTypeOK'
  <2>1. metadata' \in [AgentIds -> Metadata]
    BY <1>2, <1>3 DEF RegistryInv, RegistryTypeOK
  <2> QED
    BY <2>1 DEF RegistryInv, RegistryTypeOK, SetMetadata
<1>5. \A b \in AgentIds : AgentWallet(b)' = AgentWallet(b)
  BY <1>2, <1>3 DEF RegistryInv, RegistryTypeOK, AgentWallet
<1> QED
  BY <1>4, <1>5, PropertiesReadWallets DEF RegistryInv, SetMetadata

\* Only an existing agent is approved for somebody.
LEMMA ApproveKeepsInv ==
  ASSUME RegistryInv, NEW sender \in Users, NEW a \in AgentIds,
         NEW to \in Addresses \cup {Zero}, Approve(sender, to, a)
  PROVE  RegistryInv'
<1>1. RegistryTypeOK'
  BY DEF RegistryInv, RegistryTypeOK, Approve
<1>2. \A b \in AgentIds : AgentWallet(b)' = AgentWallet(b)
  BY DEF Approve, AgentWallet
<1>3. WalletConsented'
  BY <1>2 DEF RegistryInv, WalletConsented, Approve
<1>4. \A b \in AgentIds : b # a => approved'[b] = approved[b]
  BY DEF RegistryInv, RegistryTypeOK, Approve
<1>5. OwnedBelowLastId'
  BY <1>2, <1>4 DEF RegistryInv, OwnedBelowLastId, Approve, Exists
<1> QED
  BY <1>1, <1>3, <1>5 DEF RegistryInv

-----------------------------------------------------------------------------
LEMMA RegistryInvNext == RegistryInv /\ [RegistryNext]_registryVars => RegistryInv'
<1> SUFFICES ASSUME RegistryInv, [RegistryNext]_registryVars
             PROVE  RegistryInv'
  OBVIOUS
<1>1. ASSUME NEW sender \in Users, RegistryCall(sender)
      PROVE  RegistryInv'
  <2>1. ASSUME NEW a \in AgentIds, NEW u \in URIs, SetAgentURI(sender, a, u)
        PROVE  RegistryInv'
    <3>1. RegistryTypeOK'
      BY <2>1 DEF RegistryInv, RegistryTypeOK, SetAgentURI
    <3>2. \A b \in AgentIds : AgentWallet(b)' = AgentWallet(b)
      BY <2>1 DEF SetAgentURI, AgentWallet
    <3> QED
      BY <2>1, <3>1, <3>2, PropertiesReadWallets DEF RegistryInv, SetAgentURI
  <2>2. ASSUME NEW op \in Spenders, NEW on \in BOOLEAN, SetApprovalForAll(sender, op, on)
        PROVE  RegistryInv'
    <3>1. <<sender, op>> \in Users \X Addresses
      BY RegistryConstants DEF Addresses
    <3>2. operators' \subseteq Users \X Addresses
      BY <2>2, <3>1 DEF RegistryInv, RegistryTypeOK, SetApprovalForAll
    <3>3. RegistryTypeOK'
      BY <2>2, <3>2 DEF RegistryInv, RegistryTypeOK, SetApprovalForAll
    <3>4. \A b \in AgentIds : AgentWallet(b)' = AgentWallet(b)
      BY <2>2 DEF SetApprovalForAll, AgentWallet
    <3> QED
      BY <2>2, <3>3, <3>4, PropertiesReadWallets DEF RegistryInv, SetApprovalForAll
  <2>3. ASSUME NEW u \in Optional(URIs), NEW t \in Optional(Tags), Register(sender, u, t)
        PROVE  RegistryInv'
    BY <2>3, RegisterKeepsInv
  <2>4. ASSUME NEW a \in AgentIds, NEW key \in DOMAIN KeyValues,
               NEW value \in KeyValues[key], SetMetadata(sender, a, key, value)
        PROVE  RegistryInv'
    BY <2>4, SetMetadataKeepsInv
  <2>5. ASSUME NEW a \in AgentIds, NEW w \in Users, NEW c \in Consents,
               SetAgentWallet(sender, a, w, c)
        PROVE  RegistryInv'
    BY <2>5, WalletKeepsInv
  <2>6. ASSUME NEW a \in AgentIds, UnsetAgentWallet(sender, a)
        PROVE  RegistryInv'
    BY <2>6, WalletKeepsInv
  <2>7. ASSUME NEW a \in AgentIds, NEW to \in Spenders \cup {Zero}, Approve(sender, to, a)
        PROVE  RegistryInv'
    <3>1. to \in Addresses \cup {Zero}
      BY RegistryConstants DEF Addresses
    <3> QED
      BY <2>7, <3>1, ApproveKeepsInv
  <2>8. ASSUME NEW a \in AgentIds, NEW to \in Users, TransferFrom(sender, a, to)
        PROVE  RegistryInv'
    BY <2>8, TransferKeepsInv
  <2> QED
    BY <1>1, <2>1, <2>2, <2>3, <2>4, <2>5, <2>6, <2>7, <2>8 DEF RegistryCall
<1>2. ASSUME NEW f \in minting, FinishRegister(f)
      PROVE  RegistryInv'
  BY <1>2, FinishKeepsInv
<1>3. CASE Tick
  <2>1. RegistryTypeOK'
    BY <1>3, RegistryConstants DEF RegistryInv, RegistryTypeOK, Tick
  <2>2. \A b \in AgentIds : AgentWallet(b)' = AgentWallet(b)
    BY <1>3 DEF Tick, AgentWallet
  <2> QED
    BY <1>3, <2>1, <2>2, PropertiesReadWallets DEF RegistryInv, Tick
<1>4. CASE UNCHANGED registryVars
  BY <1>4 DEF registryVars, RegistryInv, RegistryTypeOK, OwnedBelowLastId,
              WalletConsented, Exists, AgentWallet
<1> QED
  BY <1>1, <1>2, <1>3, <1>4 DEF RegistryNext

-----------------------------------------------------------------------------
\* The registry's state has its types, whoever calls what and re-enters it when.
THEOREM RegistryTypeCorrect == RegistrySpec => []RegistryTypeOK
<1>1. RegistryInv => RegistryTypeOK
  BY DEF RegistryInv
<1> QED
  BY RegistryInvInit, RegistryInvNext, <1>1, PTL DEF RegistrySpec

\* Exactly the ids below _lastId are owned, and nothing stands on the others.
THEOREM IdsAreOwned == RegistrySpec => []OwnedBelowLastId
<1>1. RegistryInv => OwnedBelowLastId
  BY DEF RegistryInv
<1> QED
  BY RegistryInvInit, RegistryInvNext, <1>1, PTL DEF RegistrySpec

\* A wallet is the owner's own or one that signed for the present owner,
\* through every transfer and every call made inside a mint callback.
THEOREM WalletsConsented == RegistrySpec => []WalletConsented
<1>1. RegistryInv => WalletConsented
  BY DEF RegistryInv
<1> QED
  BY RegistryInvInit, RegistryInvNext, <1>1, PTL DEF RegistrySpec

-----------------------------------------------------------------------------
(* A wallet is set only by a signature that is still in time.              *)

\* No consent of w for agent a is in time any more.
Dead(a, w) ==
  /\ Exists(a)
  /\ AgentWallet(a) # w
  /\ \A c \in Consents : c.agent = a /\ c.wallet = w => c.deadline < now

LEMMA DeadStaysOut ==
  ASSUME RegistryInv, RegistryNext, NEW a \in AgentIds, NEW w \in Users, Dead(a, w)
  PROVE  AgentWallet(a)' # w
<1>1. ASSUME NEW sender \in Users, RegistryCall(sender)
      PROVE  AgentWallet(a)' # w
  <2>1. ASSUME NEW u \in Optional(URIs), NEW t \in Optional(Tags), Register(sender, u, t)
        PROVE  AgentWallet(a)' # w
    <3>1. a # lastId
      BY DEF RegistryInv, RegistryTypeOK, OwnedBelowLastId, AgentIds, Dead
    <3>2. metadata'[a] = metadata[a]
      BY <2>1, <3>1 DEF Register, RegistryInv, RegistryTypeOK
    <3> QED
      BY <3>2 DEF AgentWallet, Dead
  <2>2. ASSUME NEW b \in AgentIds, NEW v \in Users, NEW c \in Consents,
               SetAgentWallet(sender, b, v, c)
        PROVE  AgentWallet(a)' # w
    <3>1. CASE a = b /\ v = w
      <4>1. c.agent = a /\ c.wallet = w /\ now <= c.deadline
        BY <2>2, <3>1 DEF SetAgentWallet, SignatureValid
      <4>2. c.deadline < now
        BY <4>1 DEF Dead
      <4>3. c.deadline \in Nat /\ now \in Nat
        BY RegistryConstants DEF RegistryInv, RegistryTypeOK
      <4> QED
        BY <4>1, <4>2, <4>3
    <3>2. CASE ~(a = b /\ v = w)
      <4>1. AgentWallet(a)' = IF a = b THEN v ELSE AgentWallet(a)
        BY <2>2 DEF SetAgentWallet, AgentWallet, RegistryInv, RegistryTypeOK, Metadata
      <4> QED
        BY <3>2, <4>1 DEF Dead
    <3> QED
      BY <3>1, <3>2
  <2>3. ASSUME NEW b \in AgentIds,
               UnsetAgentWallet(sender, b) \/ \E to \in Users : TransferFrom(sender, b, to)
        PROVE  AgentWallet(a)' # w
    <3>1. AgentWallet(a)' = IF a = b THEN Zero ELSE AgentWallet(a)
      BY <2>3 DEF UnsetAgentWallet, TransferFrom, Update, AgentWallet,
                  RegistryInv, RegistryTypeOK, Metadata
    <3> QED
      BY <3>1, ZeroIsNobody DEF Dead
  <2>4. ASSUME NEW b \in AgentIds, NEW key \in DOMAIN KeyValues,
               NEW value \in KeyValues[key], SetMetadata(sender, b, key, value)
        PROVE  AgentWallet(a)' # w
    <3>1. key = "humanVerified"
      BY <2>4 DEF SetMetadata, KeyValues
    <3>2. AgentWallet(a)' = AgentWallet(a)
      BY <2>4, <3>1 DEF SetMetadata, AgentWallet, RegistryInv, RegistryTypeOK, Metadata
    <3> QED
      BY <3>2 DEF Dead
  <2>5. ASSUME metadata' = metadata
        PROVE  AgentWallet(a)' # w
    BY <2>5 DEF AgentWallet, Dead
  <2> QED
    BY <1>1, <2>1, <2>2, <2>3, <2>4, <2>5
    DEF RegistryCall, SetAgentURI, Approve, SetApprovalForAll
<1>2. ASSUME NEW f \in minting, FinishRegister(f)
      PROVE  AgentWallet(a)' # w
  <2>1. AgentWallet(a)' = AgentWallet(a)
    BY <1>2 DEF FinishRegister, AgentWallet, RegistryInv, RegistryTypeOK, Metadata
  <2> QED
    BY <2>1 DEF Dead
<1>3. CASE Tick
  BY <1>3 DEF Tick, AgentWallet, Dead
<1> QED
  BY <1>1, <1>2, <1>3 DEF RegistryNext

\* Once none of its signatures for an agent is in time, no call in any order
\* makes an account the wallet of that agent again.
THEOREM ExpiredConsentStaysDead == RegistrySpec => ExpiredConsentIsDead
<1> DEFINE Out == \A a \in AgentIds, w \in Users :
                    /\ Exists(a)
                    /\ AgentWallet(a) # w
                    /\ \A c \in Consents :
                         c.agent = a /\ c.wallet = w => c.deadline < now
                    => AgentWallet(a)' # w
<1>1. RegistryInv /\ [RegistryNext]_registryVars => [Out]_registryVars
  <2> SUFFICES ASSUME RegistryInv, RegistryNext
               PROVE  Out
    OBVIOUS
  <2> QED
    BY DeadStaysOut DEF Dead
<1> QED
  BY RegistryInvInit, RegistryInvNext, <1>1, PTL
  DEF RegistrySpec, ExpiredConsentIsDead

-----------------------------------------------------------------------------
(* The ledger of nullifiers.                                               *)

\* Until initializeV2 every spent nullifier is the application's.
AppWideUntilV2 == ~perAgent => \A n \in nullifierUsed : n.scope = AppWide

WorldIdInv == WorldIdTypeOK /\ NullifierLedger /\ VerifiedByProof /\ AppWideUntilV2

\* Nothing is verified at the start.
LEMMA LedgerAtStart ==
  WorldIdInit => WorldIdInv
<1> DEFINE blank == [isVerified |-> FALSE, nullifierHash |-> {}, verifiedBy |-> Zero]
<1> SUFFICES ASSUME WorldIdInit
             PROVE  WorldIdInv
  OBVIOUS
<1>1. blank \in VerificationData
  BY DEF VerificationData, Optional
<1>2. verifications = [a \in AgentIds |-> blank]
  BY DEF WorldIdInit
<1>3. WorldIdTypeOK
  <2>1. verifications \in [AgentIds -> VerificationData]
    BY <1>1, <1>2
  <2> QED
    BY <2>1 DEF WorldIdInit, WorldIdTypeOK
<1>4. \A a \in AgentIds : verifications[a] = blank
  BY <1>2
<1>5. NullifierLedger /\ VerifiedByProof
  BY <1>4 DEF NullifierLedger, VerifiedByProof
<1> QED
  BY <1>3, <1>5 DEF WorldIdInv, WorldIdInit, AppWideUntilV2

\* A step that leaves the validator alone keeps the invariant.
LEMMA LedgerUntouched ==
  WorldIdInv /\ UNCHANGED worldIdVars => WorldIdInv'
BY DEF WorldIdInv, worldIdVars, WorldIdTypeOK, NullifierLedger, VerifiedByProof, AppWideUntilV2

\* What a verification that goes through has established.
LEMMA VerifyPremises ==
  ASSUME NEW sender \in Users, NEW a \in AgentIds, NEW n \in Nullifiers, NEW p \in Proofs,
         CanVerify(sender, a, n, p)
  PROVE  /\ n \notin nullifierUsed /\ ~verifications[a].isVerified
         /\ p.human = n.human /\ p.scope = n.scope /\ p.signal = sender
         /\ n.scope = ExternalNullifier(a)
<1>1. /\ n \notin nullifierUsed /\ ~verifications[a].isVerified
      /\ p.signal = sender /\ p.scope = ExternalNullifier(a)
      /\ n = [human |-> p.human, scope |-> p.scope]
  BY DEF CanVerify, VerifyProof
<1> QED
  BY <1>1

\* Verification keeps the ledger: the nullifier was spent on no agent, so every
\* other agent's entry stands.
LEMMA LedgerAfterVerify ==
  ASSUME WorldIdInv,
         NEW sender \in Users, NEW a \in AgentIds, NEW n \in Nullifiers, NEW p \in Proofs,
         VerifyAndSetHumanTag(sender, a, n, p)
  PROVE  WorldIdInv'
<1> DEFINE record == [isVerified |-> TRUE, nullifierHash |-> {n}, verifiedBy |-> sender]
<1>1. /\ n \notin nullifierUsed
      /\ p.human = n.human /\ p.scope = n.scope /\ p.signal = sender
      /\ n.scope = ExternalNullifier(a)
  BY VerifyPremises DEF VerifyAndSetHumanTag
<1>2. /\ nullifierUsed' = nullifierUsed \cup {n}
      /\ nullifierToAgent' = [nullifierToAgent EXCEPT ![n] = a]
      /\ verifications' = [verifications EXCEPT ![a] = record]
      /\ perAgent' = perAgent
  BY DEF VerifyAndSetHumanTag
<1>3. record \in VerificationData
  BY DEF VerificationData, Optional
<1>4. WorldIdTypeOK'
  BY <1>2, <1>3 DEF WorldIdInv, WorldIdTypeOK
<1>5. /\ verifications'[a] = record
      /\ \A b \in AgentIds \ {a} : verifications'[b] = verifications[b]
  BY <1>2 DEF WorldIdInv, WorldIdTypeOK
<1>6. /\ nullifierToAgent'[n] = a
      /\ \A m \in nullifierUsed : nullifierToAgent'[m] = nullifierToAgent[m]
  BY <1>1, <1>2 DEF WorldIdInv, WorldIdTypeOK
<1>7. NullifierLedger'
  <2> SUFFICES ASSUME NEW b \in AgentIds
               PROVE  /\ verifications'[b].isVerified => verifications'[b].nullifierHash # {}
                      /\ \A m \in verifications'[b].nullifierHash :
                           m \in nullifierUsed' /\ nullifierToAgent'[m] = b
    BY DEF NullifierLedger
  <2>1. CASE b = a
    BY <2>1, <1>2, <1>5, <1>6
  <2>2. CASE b # a
    BY <2>2, <1>2, <1>5, <1>6 DEF WorldIdInv, NullifierLedger
  <2> QED
    BY <2>1, <2>2
<1>8. VerifiedByProof'
  <2> SUFFICES ASSUME NEW b \in AgentIds, NEW m \in verifications'[b].nullifierHash
               PROVE  \E q \in Proofs :
                        /\ q.human = m.human
                        /\ q.scope = m.scope
                        /\ q.signal = verifications'[b].verifiedBy
                        /\ m.scope \in {b, AppWide}
    BY DEF VerifiedByProof
  <2>1. CASE b = a
    BY <2>1, <1>1, <1>5 DEF ExternalNullifier
  <2>2. CASE b # a
    BY <2>2, <1>5 DEF WorldIdInv, VerifiedByProof
  <2> QED
    BY <2>1, <2>2
<1>9. AppWideUntilV2'
  BY <1>1, <1>2 DEF WorldIdInv, AppWideUntilV2, ExternalNullifier
<1> QED
  BY <1>4, <1>7, <1>8, <1>9 DEF WorldIdInv

\* Revocation touches nothing but the flag.
LEMMA LedgerAfterRevoke ==
  ASSUME WorldIdInv, NEW sender \in Users, NEW a \in AgentIds, RevokeVerification(sender, a)
  PROVE  WorldIdInv'
<1>1. /\ verifications' = [verifications EXCEPT ![a].isVerified = FALSE]
      /\ UNCHANGED <<nullifierUsed, nullifierToAgent, perAgent>>
  BY DEF RevokeVerification
<1>2. \A b \in AgentIds :
        /\ verifications'[b].nullifierHash = verifications[b].nullifierHash
        /\ verifications'[b].verifiedBy = verifications[b].verifiedBy
        /\ verifications'[b].isVerified => verifications[b].isVerified
  BY <1>1 DEF WorldIdInv, WorldIdTypeOK, VerificationData
<1>3. verifications' \in [AgentIds -> VerificationData]
  BY <1>1 DEF WorldIdInv, WorldIdTypeOK, VerificationData
<1>4. WorldIdTypeOK'
  BY <1>1, <1>3 DEF WorldIdInv, WorldIdTypeOK
<1>5. NullifierLedger' /\ VerifiedByProof' /\ AppWideUntilV2'
  BY <1>1, <1>2 DEF WorldIdInv, NullifierLedger, VerifiedByProof, AppWideUntilV2
<1> QED
  BY <1>4, <1>5 DEF WorldIdInv

\* The migration changes only the scope of proofs to come.
LEMMA LedgerAfterV2 ==
  WorldIdInv /\ InitializeV2 => WorldIdInv'
BY DEF InitializeV2, WorldIdInv, WorldIdTypeOK, NullifierLedger, VerifiedByProof, AppWideUntilV2

\* One lemma per kind of step.
LEMMA LedgerInductive ==
  WorldIdInv /\ [WorldIdNext]_<<registryVars, worldIdVars>> => WorldIdInv'
<1> SUFFICES ASSUME WorldIdInv, [WorldIdNext]_<<registryVars, worldIdVars>>
             PROVE  WorldIdInv'
  OBVIOUS
<1>1. CASE \E sender \in Users : WorldIdCall(sender)
  BY <1>1, LedgerAfterVerify, LedgerAfterRevoke, LedgerAfterV2 DEF WorldIdCall
<1>2. CASE UNCHANGED worldIdVars
  BY <1>2, LedgerUntouched
<1> QED
  BY <1>1, <1>2 DEF WorldIdNext

\* The validator's state keeps its types and its invariant.
THEOREM LedgerInvariant ==
  WorldIdSpec => []WorldIdInv
<1>1. WorldIdSystemInit => WorldIdInv
  BY LedgerAtStart DEF WorldIdSystemInit
<1> QED
  BY <1>1, LedgerInductive, PTL DEF WorldIdSpec

\* Types of the validator's state.
THEOREM WorldIdTypeCorrect ==
  WorldIdSpec => []WorldIdTypeOK
<1>1. WorldIdInv => WorldIdTypeOK
  BY DEF WorldIdInv
<1> QED
  BY <1>1, LedgerInvariant, PTL

\* No two agents ever share a nullifier, through any revocation, transfer and
\* migration.
THEOREM LedgerHolds ==
  WorldIdSpec => []NullifierLedger
<1>1. WorldIdInv => NullifierLedger
  BY DEF WorldIdInv
<1> QED
  BY <1>1, LedgerInvariant, PTL

\* Every verification rests on a proof made for the account that asked for it.
THEOREM VerificationsAreProved ==
  WorldIdSpec => []VerifiedByProof
<1>1. WorldIdInv => VerifiedByProof
  BY DEF WorldIdInv
<1> QED
  BY <1>1, LedgerInvariant, PTL

\* Before the migration a human has one nullifier, and a nullifier one agent.
THEOREM HumanHasOneAgentV1 ==
  WorldIdSpec => []OneAgentPerHumanV1
<1>1. WorldIdInv => OneAgentPerHumanV1
  <2> SUFFICES ASSUME WorldIdInv, ~perAgent, NEW a \in AgentIds, NEW b \in AgentIds,
                      NEW m \in verifications[a].nullifierHash,
                      NEW n \in verifications[b].nullifierHash,
                      m.human = n.human
               PROVE  a = b
    BY DEF OneAgentPerHumanV1
  <2>1. /\ m \in nullifierUsed /\ nullifierToAgent[m] = a
        /\ n \in nullifierUsed /\ nullifierToAgent[n] = b
    BY DEF WorldIdInv, NullifierLedger
  <2>2. m \in Nullifiers /\ n \in Nullifiers
    BY <2>1 DEF WorldIdInv, WorldIdTypeOK
  <2>3. m.scope = n.scope
    BY <2>1 DEF WorldIdInv, AppWideUntilV2
  <2>4. m = n
    BY <2>2, <2>3 DEF Nullifiers
  <2> QED
    BY <2>1, <2>4
<1> QED
  BY <1>1, LedgerInvariant, PTL

\* No step frees a spent nullifier or moves it to another agent.
THEOREM NullifiersStaySpent ==
  WorldIdSpec => NullifierNeverFreed
<1> DEFINE Kept == \A n \in nullifierUsed :
                     n \in nullifierUsed' /\ nullifierToAgent'[n] = nullifierToAgent[n]
<1>1. WorldIdInv /\ [WorldIdNext]_<<registryVars, worldIdVars>> => Kept
  <2> SUFFICES ASSUME WorldIdInv, [WorldIdNext]_<<registryVars, worldIdVars>>
               PROVE  Kept
    OBVIOUS
  <2>1. ASSUME NEW sender \in Users, NEW a \in AgentIds, NEW n \in Nullifiers, NEW p \in Proofs,
               VerifyAndSetHumanTag(sender, a, n, p)
        PROVE  Kept
    <3>1. n \notin nullifierUsed
      BY <2>1, VerifyPremises DEF VerifyAndSetHumanTag
    <3> QED
      BY <2>1, <3>1 DEF VerifyAndSetHumanTag, WorldIdInv, WorldIdTypeOK
  <2>2. CASE UNCHANGED <<nullifierUsed, nullifierToAgent>>
    BY <2>2
  <2> QED
    BY <2>1, <2>2 DEF WorldIdNext, WorldIdCall, RevokeVerification, InitializeV2, worldIdVars
<1>2. WorldIdInv /\ [WorldIdNext]_<<registryVars, worldIdVars>>
        => [Kept]_<<registryVars, worldIdVars>>
  BY <1>1
<1> QED
  BY <1>2, LedgerInvariant, PTL DEF WorldIdSpec, NullifierNeverFreed
=============================================================================
