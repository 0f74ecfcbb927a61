-------------------------- MODULE IdentityRegistry --------------------------
(***************************************************************************)
(* The agent registry: an ERC-721 token per agent, metadata per token, and *)
(* the reserved metadata key "agentWallet", which only a signature of the  *)
(* new wallet may fill.                                                    *)
(*                                                                         *)
(* A step is one contract call, except register(): its mint calls the      *)
(* receiver back before the URI and the metadata are written, so register  *)
(* by a contract is two steps (Register and FinishRegister) between which  *)
(* contracts may call anything.                                            *)
(***************************************************************************)
EXTENDS Integers, FiniteSets

CONSTANTS
  MaxAgents,      \* bound: agents that are ever registered
  Spenders,       \* bound: addresses that owners approve
  MaxOperators,   \* bound: operator approvals in force at a time
  Users,          \* accounts that can own an agent
  Contracts,      \* the users that are contracts and get the mint callback
  Services,       \* system contracts an owner can approve (WorldIDValidator...)
  Zero,           \* the zero address
  URIs, EmptyURI, \* agent URIs
  Tags, NoTag,    \* values of the metadata key "humanVerified"
  Consents,       \* AgentWalletSet messages that wallets sign
  MaxTime,        \* bound: block.timestamp, in units of the model
  MaxDelay        \* MAX_DEADLINE_DELAY in the same units

AgentIds == 0 .. MaxAgents - 1

ASSUME RegistryConstants ==
  /\ MaxAgents \in Nat
  /\ MaxOperators \in Nat
  /\ Contracts \subseteq Users
  /\ Spenders \subseteq Users \cup Services
  /\ Zero \notin Users \cup Services
  /\ EmptyURI \in URIs
  /\ NoTag \in Tags
  /\ Consents \subseteq
       [agent : AgentIds, wallet : Users, owner : Users, deadline : Nat]
  /\ MaxTime \in Nat
  /\ MaxDelay \in Nat

VARIABLES
  lastId,     \* _lastId: the next agent id
  owner,      \* ERC-721 _ownerOf
  approved,   \* ERC-721 getApproved
  operators,  \* ERC-721 isApprovedForAll, as pairs <<owner, operator>>
  metadata,   \* _metadata: agent -> key -> value
  uri,        \* ERC-721 tokenURI
  minting,    \* register() calls waiting for the mint callback to return
  now         \* block.timestamp

registryVars ==
  <<lastId, owner, approved, operators, metadata, uri, minting, now>>

\* The metadata the system reads, per key: a wallet, a tag.
Metadata == [agentWallet : Users \cup {Zero}, humanVerified : Tags]
Blank == [agentWallet |-> Zero, humanVerified |-> NoTag]
KeyValues == [agentWallet |-> Users \cup {Zero}, humanVerified |-> Tags]

Addresses == Users \cup Services

\* An optional argument: absent, or one value.
Optional(S) == {{}} \cup {{x} : x \in S}
Given(option, default) == IF option = {} THEN default ELSE CHOOSE x \in option : TRUE

\* What a register() waiting for its callback still has to write.
Frames == [agent : AgentIds, uri : Optional(URIs), tag : Optional(Tags)]

RegistryTypeOK ==
  /\ lastId \in 0 .. MaxAgents
  /\ owner \in [AgentIds -> Users \cup {Zero}]
  /\ approved \in [AgentIds -> Addresses \cup {Zero}]
  /\ operators \subseteq Users \X Addresses
  /\ metadata \in [AgentIds -> Metadata]
  /\ uri \in [AgentIds -> URIs]
  /\ minting \subseteq Frames
  /\ now \in 0 .. MaxTime

RegistryInit ==
  /\ lastId = 0
  /\ owner = [a \in AgentIds |-> Zero]
  /\ approved = [a \in AgentIds |-> Zero]
  /\ operators = {}
  /\ metadata = [a \in AgentIds |-> Blank]
  /\ uri = [a \in AgentIds |-> EmptyURI]
  /\ minting = {}
  /\ now = 0

-----------------------------------------------------------------------------
(* Who may act.                                                            *)

Exists(a) == owner[a] # Zero
AgentWallet(a) == metadata[a].agentWallet

\* The owner, an operator of the owner, or the approved address.
IsAuthorized(sender, a) ==
  /\ Exists(a)
  /\ \/ sender = owner[a]
     \/ <<owner[a], sender>> \in operators
     \/ sender = approved[a]

\* While a mint callback runs the transaction belongs to contracts.
MayCall(sender) == minting = {} \/ sender \in Contracts

\* Nested registrations get larger ids: the innermost call is the largest.
Innermost(f) == \A g \in minting : g.agent <= f.agent

-----------------------------------------------------------------------------
(* Registration.                                                           *)

\* The three overloads of register(): u is the URI argument and t the
\* "humanVerified" entry of the metadata argument, each possibly absent. An
\* entry with the reserved key reverts the call: no step.
Register(sender, u, t) ==
  LET born == [Blank EXCEPT !.agentWallet = sender] IN
  /\ lastId < MaxAgents
  /\ lastId' = lastId + 1
  /\ owner' = [owner EXCEPT ![lastId] = sender]
  /\ IF sender \in Contracts
     THEN /\ metadata' = [metadata EXCEPT ![lastId] = born]
          /\ minting' = minting \cup {[agent |-> lastId, uri |-> u, tag |-> t]}
          /\ UNCHANGED uri
     ELSE /\ metadata' = [metadata EXCEPT
                 ![lastId] = [born EXCEPT !.humanVerified = Given(t, NoTag)]]
          /\ uri' = [uri EXCEPT ![lastId] = Given(u, EmptyURI)]
          /\ UNCHANGED minting
  /\ UNCHANGED <<approved, operators, now>>

\* The callback returns: the rest of register() runs, whoever owns the agent
\* by now.
FinishRegister(f) ==
  /\ f \in minting
  /\ Innermost(f)
  /\ minting' = minting \ {f}
  /\ uri' = [uri EXCEPT ![f.agent] = Given(f.uri, @)]
  /\ metadata' = [metadata EXCEPT ![f.agent].humanVerified = Given(f.tag, @)]
  /\ UNCHANGED <<lastId, owner, approved, operators, now>>

-----------------------------------------------------------------------------
(* Metadata, URI and wallet.                                               *)

SetMetadata(sender, a, key, value) ==
  /\ IsAuthorized(sender, a)
  /\ key # "agentWallet"
  /\ metadata' = [metadata EXCEPT ![a][key] = value]
  /\ UNCHANGED <<lastId, owner, approved, operators, uri, minting, now>>

SetAgentURI(sender, a, u) ==
  /\ IsAuthorized(sender, a)
  /\ uri' = [uri EXCEPT ![a] = u]
  /\ UNCHANGED <<lastId, owner, approved, operators, metadata, minting, now>>

\* Faulty variant: a signature that has expired still counts.
SignatureEverValid(c, a, w) ==
  /\ c.agent = a
  /\ c.wallet = w
  /\ c.owner = owner[a]
  /\ c.deadline <= now + MaxDelay

\* What setAgentWallet asks of the signature: it is the new wallet's, over
\* this agent, its present owner and a deadline that is near.
SignatureValid(c, a, w) ==
  /\ c.agent = a
  /\ c.wallet = w
  /\ c.owner = owner[a]
  /\ now <= c.deadline
  /\ c.deadline <= now + MaxDelay

SetAgentWallet(sender, a, w, c) ==
  /\ IsAuthorized(sender, a)
  /\ w # Zero
  /\ SignatureValid(c, a, w)
  /\ metadata' = [metadata EXCEPT ![a].agentWallet = w]
  /\ UNCHANGED <<lastId, owner, approved, operators, uri, minting, now>>

UnsetAgentWallet(sender, a) ==
  /\ IsAuthorized(sender, a)
  /\ metadata' = [metadata EXCEPT ![a].agentWallet = Zero]
  /\ UNCHANGED <<lastId, owner, approved, operators, uri, minting, now>>

-----------------------------------------------------------------------------
(* ERC-721 (OpenZeppelin), with the registry's own _update.                *)

Approve(sender, to, a) ==
  /\ Exists(a)
  /\ sender = owner[a] \/ <<owner[a], sender>> \in operators
  /\ approved' = [approved EXCEPT ![a] = to]
  /\ UNCHANGED <<lastId, owner, operators, metadata, uri, minting, now>>

SetApprovalForAll(sender, operator, on) ==
  /\ on => Cardinality(operators) < MaxOperators
  /\ operators' = IF on THEN operators \cup {<<sender, operator>>}
                        ELSE operators \ {<<sender, operator>>}
  /\ UNCHANGED <<lastId, owner, approved, metadata, uri, minting, now>>

\* Faulty variant: the wallet survives the transfer.
UpdateKeepingWallet(a, to) ==
  /\ owner' = [owner EXCEPT ![a] = to]
  /\ approved' = [approved EXCEPT ![a] = Zero]
  /\ UNCHANGED metadata

\* _update of a transfer: the wallet is cleared with the token approval.
Update(a, to) ==
  /\ owner' = [owner EXCEPT ![a] = to]
  /\ approved' = [approved EXCEPT ![a] = Zero]
  /\ metadata' = [metadata EXCEPT ![a].agentWallet = Zero]

TransferFrom(sender, a, to) ==
  /\ IsAuthorized(sender, a)
  /\ Update(a, to)
  /\ UNCHANGED <<lastId, operators, uri, minting, now>>

Tick ==
  /\ minting = {}
  /\ now < MaxTime
  /\ now' = now + 1
  /\ UNCHANGED <<lastId, owner, approved, operators, metadata, uri, minting>>

-----------------------------------------------------------------------------
\* What an account can do with the registry.
RegistryCall(sender) ==
  \/ \E u \in Optional(URIs), t \in Optional(Tags) :
       (u = {} => t = {}) /\ Register(sender, u, t)
  \/ \E a \in AgentIds :
       \/ \E key \in DOMAIN KeyValues : \E value \in KeyValues[key] :
            SetMetadata(sender, a, key, value)
       \/ \E u \in URIs : SetAgentURI(sender, a, u)
       \/ \E w \in Users, c \in Consents : SetAgentWallet(sender, a, w, c)
       \/ UnsetAgentWallet(sender, a)
       \/ \E to \in Spenders \cup {Zero} : Approve(sender, to, a)
       \/ \E to \in Users : TransferFrom(sender, a, to)
  \/ \E op \in Spenders \ {sender}, on \in BOOLEAN : SetApprovalForAll(sender, op, on)

RegistryNext ==
  \/ \E sender \in Users : MayCall(sender) /\ RegistryCall(sender)
  \/ \E f \in minting : FinishRegister(f)
  \/ Tick

RegistrySpec == RegistryInit /\ [][RegistryNext]_registryVars

-----------------------------------------------------------------------------
(* Properties.                                                             *)

\* Registered agents are exactly the ids below _lastId, and an approval or a
\* wallet stands only on a registered agent.
OwnedBelowLastId ==
  \A a \in AgentIds :
    /\ Exists(a) <=> a < lastId
    /\ ~Exists(a) => approved[a] = Zero /\ AgentWallet(a) = Zero

\* An agent's wallet is its owner, who registered it, or an account that signed
\* for this agent under the owner it has now: no transfer, callback during the
\* mint or late signature leaves a wallet of an earlier owner in place.
WalletConsented ==
  \A a \in AgentIds :
    AgentWallet(a) # Zero =>
      \/ AgentWallet(a) = owner[a]
      \/ \E c \in Consents :
           c.agent = a /\ c.wallet = AgentWallet(a) /\ c.owner = owner[a]

\* An account none of whose signatures for an agent is still in time can never
\* become the wallet of that agent again, however often it was one before.
ExpiredConsentIsDead ==
  [][\A a \in AgentIds, w \in Users :
       /\ Exists(a)
       /\ AgentWallet(a) # w
       /\ \A c \in Consents : c.agent = a /\ c.wallet = w => c.deadline < now
       => AgentWallet(a)' # w]_registryVars
=============================================================================
