------------------------- MODULE ProofWizardProofs -------------------------
(***************************************************************************)
(* The page for any agents, accounts, humans and proofs. Whatever it does  *)
(* is a step of the validator's system or none, so what holds of the       *)
(* validator holds beside the page; and what the page says of an agent is  *)
(* true. The inductive invariant ties the handler in progress to the page  *)
(* and, once its transaction is mined, to the ledger.                      *)
(***************************************************************************)
EXTENDS ProofWizard, IdentityAndWorldIDProofs

\* The human of p is spent on a, for the signal of p unless another human has
\* verified a since.
Bonded(a, p) ==
  /\ verifications[a].nullifierHash # {}
  /\ NullifierOf(p) \in nullifierUsed
  /\ nullifierToAgent[NullifierOf(p)] = a
  /\ verifications[a].nullifierHash = {NullifierOf(p)} => verifications[a].verifiedBy = p.signal

\* Where a handler can be, and what it is about.
CallFits ==
  /\ call.fn # "existing" => call.sender \in Users \ Contracts
  /\ call.fn = "existing" => call.at \in {"owner", "approved", "verified"} /\ page.step = "register"
  /\ call.fn \in {"register", "approve"} => call.at \in {"sent", "mined", "replaced"}
  /\ call.fn = "verify" => call.at \in {"used", "approved", "sent", "mined", "replaced"}
  /\ call.fn \in {"approve", "verify"} \/ call.at \in {"approved", "verified"} =>
       call.agent = page.agentId
  /\ call.fn = "verify" => \E p \in Proofs : call.proof = {p} /\ p.signal \in page.account
  /\ call.fn = "verify" /\ call.at = "mined" =>
       \E a \in call.agent, p \in call.proof : Bonded(a, p)

PageTypeOK == page \in Page /\ call \in Handlers \cup {NoCall} /\ displaced \in BOOLEAN
NoReentry == minting = {} /\ lastId \in Nat
PageInv == PageTypeOK /\ (call # NoCall => CallFits) /\ DoneWasVerified

WizardInv == WorldIdInv /\ NoReentry /\ PageInv

-----------------------------------------------------------------------------
(* The contracts.                                                          *)

\* Proofs make nullifiers.
LEMMA ProofsHaveNullifiers ==
  ASSUME NEW p \in Proofs
  PROVE  NullifierOf(p) \in Nullifiers
BY WorldIdConstants DEF NullifierOf, Nullifiers

\* The members of an optional value.
LEMMA OptionalMember ==
  ASSUME NEW S, NEW o \in Optional(S), NEW m \in o
  PROVE  m \in S
BY DEF Optional

\* What an account that is no contract calls while no mint callback runs is a
\* step of the validator's system.
LEMMA ElsewhereIsAStep ==
  ASSUME NoReentry, NEW sender \in Users \ Contracts, Elsewhere(sender)
  PROVE  WorldIdNext
<1>1. MayCall(sender)
  BY DEF NoReentry, MayCall
<1>2. CASE WorldIdCall(sender)
  BY <1>1, <1>2 DEF WorldIdNext
<1>3. CASE UNCHANGED worldIdVars /\ Register(sender, {}, {})
  <2>1. {} \in Optional(URIs) /\ {} \in Optional(Tags)
    BY DEF Optional
  <2>2. RegistryCall(sender)
    BY <1>3, <2>1 DEF RegistryCall
  <2> QED
    BY <1>1, <1>3, <2>2 DEF WorldIdNext, RegistryNext
<1>4. ASSUME NEW a \in AgentIds, NEW to \in {WorldId, Zero}, Approve(sender, to, a),
             UNCHANGED worldIdVars
      PROVE  WorldIdNext
  <2>1. RegistryCall(sender)
    BY <1>4, WizardConstants DEF RegistryCall
  <2> QED
    BY <1>1, <1>4, <2>1 DEF WorldIdNext, RegistryNext
<1>5. ASSUME NEW a \in AgentIds, NEW to \in Users, TransferFrom(sender, a, to),
             UNCHANGED worldIdVars
      PROVE  WorldIdNext
  <2>1. RegistryCall(sender)
    BY <1>5 DEF RegistryCall
  <2> QED
    BY <1>1, <1>5, <2>1 DEF WorldIdNext, RegistryNext
<1> QED
  BY <1>2, <1>3, <1>4, <1>5 DEF Elsewhere

\* A handler's transaction is one of those that its sender can make elsewhere.
LEMMA MineCases ==
  ASSUME PageInv, Mine
  PROVE  \/ UNCHANGED contractVars /\ call' = NoCall
         \/ /\ call.fn = "register" /\ Register(call.sender, {}, {}) /\ UNCHANGED worldIdVars
            /\ call' = [call EXCEPT !.at = "mined", !.agent = {lastId}]
         \/ \E a \in AgentIds :
              /\ call.fn = "approve" /\ Approve(call.sender, WorldId, a) /\ UNCHANGED worldIdVars
              /\ call' = [call EXCEPT !.at = "mined", !.agent = call.agent]
         \/ \E a \in AgentIds \cap call.agent, p \in Proofs \cap call.proof :
              /\ call.fn = "verify"
              /\ VerifyAndSetHumanTag(call.sender, a, NullifierOf(p), p)
              /\ call' = [call EXCEPT !.at = "mined", !.agent = call.agent]
<1>1. call \in Handlers
  BY DEF Mine, PageInv, PageTypeOK
<1>2. call.agent \in Optional(AgentIds) /\ call.proof \in Optional(Proofs)
  BY <1>1 DEF Handlers
<1>3. (\A a \in call.agent : a \in AgentIds) /\ (\A p \in call.proof : p \in Proofs)
  BY <1>2, OptionalMember
<1>4. CASE ~Accepted
  BY <1>4 DEF Mine, AfterReceipt
<1>5. CASE Accepted
  <2>1. call' = [call EXCEPT !.at = "mined",
                             !.agent = IF call.fn = "register" THEN {lastId} ELSE call.agent]
    BY <1>5 DEF Mine, AfterReceipt
  <2>2. CASE call.fn = "register" /\ Register(call.sender, {}, {}) /\ UNCHANGED worldIdVars
    BY <2>1, <2>2
  <2>3. CASE /\ call.fn = "approve" /\ UNCHANGED worldIdVars
             /\ \E a \in call.agent : Approve(call.sender, WorldId, a)
    BY <1>3, <2>1, <2>3
  <2>4. CASE /\ call.fn = "verify"
             /\ \E a \in call.agent, p \in call.proof :
                  VerifyAndSetHumanTag(call.sender, a, NullifierOf(p), p)
    BY <1>3, <2>1, <2>4
  <2> QED
    BY <1>5, <2>2, <2>3, <2>4 DEF Mine
<1> QED
  BY <1>4, <1>5

\* The account that a mined transaction is from.
LEMMA SenderOfMined ==
  ASSUME PageInv, Mine
  PROVE  call.sender \in Users \ Contracts
BY DEF Mine, PageInv, CallFits

\* So is its mining a step of the validator's system.
LEMMA MineIsAStep ==
  ASSUME NoReentry, PageInv, Mine
  PROVE  WorldIdNext \/ UNCHANGED contractVars
<1> DEFINE s == call.sender
<1>1. s \in Users \ Contracts /\ MayCall(s)
  BY SenderOfMined DEF NoReentry, MayCall
<1>2. CASE UNCHANGED worldIdVars /\ Register(s, {}, {})
  <2>1. {} \in Optional(URIs) /\ {} \in Optional(Tags)
    BY DEF Optional
  <2>2. RegistryCall(s)
    BY <1>2, <2>1 DEF RegistryCall
  <2> QED
    BY <1>1, <1>2, <2>2 DEF WorldIdNext, RegistryNext
<1>3. ASSUME NEW a \in AgentIds, Approve(s, WorldId, a), UNCHANGED worldIdVars
      PROVE  WorldIdNext
  <2>1. RegistryCall(s)
    BY <1>3, WizardConstants DEF RegistryCall
  <2> QED
    BY <1>1, <1>3, <2>1 DEF WorldIdNext, RegistryNext
<1>4. ASSUME NEW a \in AgentIds, NEW p \in Proofs,
             VerifyAndSetHumanTag(s, a, NullifierOf(p), p)
      PROVE  WorldIdNext
  BY <1>1, <1>4, ProofsHaveNullifiers DEF WorldIdNext, WorldIdCall
<1> QED
  BY <1>2, <1>3, <1>4, MineCases

\* Every step of the page is a step of the validator's system, or none.
LEMMA WizardStepIsAStep ==
  ASSUME NoReentry, PageInv, WizardNext
  PROVE  WorldIdNext \/ UNCHANGED contractVars
<1>1. ASSUME NEW sender \in Users \ Contracts, Elsewhere(sender)
      PROVE  WorldIdNext
  BY <1>1, ElsewhereIsAStep
<1>2. CASE Mine
  BY <1>2, MineIsAStep
<1>3. CASE AfterMined
  <2>1. call.fn \in {"register", "approve", "verify"}
    BY <1>3 DEF AfterMined, PageInv, PageTypeOK, CallFits, Handlers
  <2> QED
    BY <1>3, <2>1 DEF AfterMined, Return
<1> QED
  BY <1>1, <1>2, <1>3 DEF WizardNext, HandleConnect, HandleRegister, HandleApprove,
     HandleWorldIDSuccess, HandleUseExisting, ReadOwner, ReadApproved, ReadVerified,
     ReadNullifierUsed, Displaced, CallFails, Reload, Begin, Goto, Return

\* No mint callback ever runs: contracts do not use the page.
LEMMA NoReentryKept ==
  ASSUME NoReentry, PageInv, WizardNext
  PROVE  NoReentry'
<1>1. ASSUME NEW sender \in Users \ Contracts, Register(sender, {}, {})
      PROVE  NoReentry'
  BY <1>1 DEF Register, NoReentry
<1>2. ASSUME NEW sender, NEW a, NEW to, Approve(sender, to, a) \/ TransferFrom(sender, a, to)
      PROVE  NoReentry'
  BY <1>2 DEF Approve, TransferFrom, NoReentry
<1>3. ASSUME NEW sender, NEW a, NEW n, NEW p, VerifyAndSetHumanTag(sender, a, n, p)
      PROVE  NoReentry'
  BY <1>3 DEF VerifyAndSetHumanTag, SetMetadata, NoReentry
<1>4. ASSUME NEW sender, WorldIdCall(sender)
      PROVE  NoReentry'
  BY <1>3, <1>4 DEF WorldIdCall, RevokeVerification, InitializeV2, SetMetadata, registryVars,
     NoReentry
<1>5. CASE UNCHANGED contractVars
  BY <1>5 DEF contractVars, registryVars, NoReentry
<1>6. CASE Mine
  BY <1>1, <1>2, <1>3, <1>5, <1>6, MineCases, SenderOfMined
<1>7. ASSUME NEW sender \in Users \ Contracts, Elsewhere(sender)
      PROVE  NoReentry'
  BY <1>1, <1>2, <1>4, <1>7 DEF Elsewhere
<1>8. CASE AfterMined
  <2>1. call.fn \in {"register", "approve", "verify"}
    BY <1>8 DEF AfterMined, PageInv, PageTypeOK, CallFits, Handlers
  <2> QED
    BY <1>5, <1>8, <2>1 DEF AfterMined, Return
<1> QED
  BY <1>5, <1>6, <1>7, <1>8 DEF WizardNext, HandleConnect, HandleRegister, HandleApprove,
     HandleWorldIDSuccess, HandleUseExisting, ReadOwner, ReadApproved, ReadVerified,
     ReadNullifierUsed, Displaced, CallFails, Reload, Begin, Goto, Return

-----------------------------------------------------------------------------
(* What the ledger keeps while the page looks away.                        *)

\* An agent that a human has verified once stays one, and a human who is spent on
\* it stays so; a later record of the same nullifier is the same record.
LEMMA LedgerRemembers ==
  ASSUME WorldIdInv, WorldIdNext \/ UNCHANGED contractVars, NEW a \in AgentIds
  PROVE  /\ verifications[a].nullifierHash # {} => verifications'[a].nullifierHash # {}
         /\ \A p \in Proofs : Bonded(a, p) => Bonded(a, p)'
<1>1. CASE UNCHANGED worldIdVars
  BY <1>1 DEF worldIdVars, Bonded
<1>2. CASE InitializeV2
  BY <1>2 DEF InitializeV2, Bonded
<1>3. ASSUME NEW sender \in Users, NEW b \in AgentIds, RevokeVerification(sender, b)
      PROVE  /\ verifications[a].nullifierHash # {} => verifications'[a].nullifierHash # {}
             /\ \A p \in Proofs : Bonded(a, p) => Bonded(a, p)'
  <2>1. /\ verifications' = [verifications EXCEPT ![b].isVerified = FALSE]
        /\ UNCHANGED <<nullifierUsed, nullifierToAgent>>
    BY <1>3 DEF RevokeVerification
  <2>2. /\ verifications'[a].nullifierHash = verifications[a].nullifierHash
        /\ verifications'[a].verifiedBy = verifications[a].verifiedBy
    BY <2>1 DEF WorldIdInv, WorldIdTypeOK, VerificationData
  <2> QED
    BY <2>1, <2>2 DEF Bonded
<1>4. ASSUME NEW sender \in Users, NEW b \in AgentIds, NEW n \in Nullifiers, NEW q \in Proofs,
             VerifyAndSetHumanTag(sender, b, n, q)
      PROVE  /\ verifications[a].nullifierHash # {} => verifications'[a].nullifierHash # {}
             /\ \A p \in Proofs : Bonded(a, p) => Bonded(a, p)'
  <2>1. n \notin nullifierUsed
    BY <1>4, VerifyPremises DEF VerifyAndSetHumanTag
  <2>2. /\ nullifierUsed' = nullifierUsed \cup {n}
        /\ nullifierToAgent' = [nullifierToAgent EXCEPT ![n] = b]
        /\ verifications' = [verifications EXCEPT
             ![b] = [isVerified |-> TRUE, nullifierHash |-> {n}, verifiedBy |-> sender]]
    BY <1>4 DEF VerifyAndSetHumanTag
  <2>3. \A m \in nullifierUsed : m \in nullifierUsed' /\ nullifierToAgent'[m] = nullifierToAgent[m]
    BY <2>1, <2>2 DEF WorldIdInv, WorldIdTypeOK
  <2>4. CASE a = b
    <3>1. verifications'[a].nullifierHash = {n}
      BY <2>2, <2>4 DEF WorldIdInv, WorldIdTypeOK
    <3> QED
      BY <2>1, <2>3, <3>1 DEF Bonded, NullifierOf
  <2>5. CASE a # b
    <3>1. verifications'[a] = verifications[a]
      BY <2>2, <2>5 DEF WorldIdInv, WorldIdTypeOK
    <3> QED
      BY <2>3, <3>1 DEF Bonded, NullifierOf
  <2> QED
    BY <2>4, <2>5
<1> QED
  BY <1>1, <1>2, <1>3, <1>4 DEF WorldIdNext, WorldIdCall, contractVars

\* The verification that a handler waited for binds the human of its proof.
LEMMA VerifyBonds ==
  ASSUME WorldIdInv, NEW sender \in Users, NEW a \in AgentIds, NEW p \in Proofs,
         VerifyAndSetHumanTag(sender, a, NullifierOf(p), p)
  PROVE  Bonded(a, p)'
<1> DEFINE n == NullifierOf(p)
<1>1. n \in Nullifiers
  BY ProofsHaveNullifiers
<1>2. p.signal = sender
  BY <1>1, VerifyPremises DEF VerifyAndSetHumanTag
<1>3. /\ nullifierUsed' = nullifierUsed \cup {n}
      /\ nullifierToAgent' = [nullifierToAgent EXCEPT ![n] = a]
      /\ verifications' = [verifications EXCEPT
           ![a] = [isVerified |-> TRUE, nullifierHash |-> {n}, verifiedBy |-> sender]]
  BY DEF VerifyAndSetHumanTag
<1>4. /\ n \in nullifierUsed' /\ nullifierToAgent'[n] = a
      /\ verifications'[a] = [isVerified |-> TRUE, nullifierHash |-> {n}, verifiedBy |-> sender]
  BY <1>1, <1>3 DEF WorldIdInv, WorldIdTypeOK
<1> QED
  BY <1>2, <1>4 DEF Bonded, NullifierOf

-----------------------------------------------------------------------------
(* The page.                                                               *)

\* At the start there is no handler, and nothing is shown as done.
LEMMA PageAtStart ==
  WizardInit => PageInv
<1> SUFFICES ASSUME WizardInit
             PROVE  PageInv
  OBVIOUS
<1>1. page \in Page /\ page.step # "done"
  BY DEF WizardInit, FreshPage, Page, Steps, Optional
<1> QED
  BY <1>1 DEF WizardInit, PageInv, PageTypeOK, DoneWasVerified

\* An idle page that is not done needs nothing more than its type, and one that
\* stays as it is keeps what it shows.
LEMMA IdlePage ==
  ASSUME page' \in Page, call' = NoCall, displaced' \in BOOLEAN,
         page'.step = "done" => DoneWasVerified'
  PROVE  PageInv'
BY DEF PageInv, PageTypeOK, DoneWasVerified

\* The contracts do not undo what the page shows.
LEMMA DoneStays ==
  ASSUME WorldIdInv, PageInv, WorldIdNext \/ UNCHANGED contractVars,
         page' = page, displaced' = displaced
  PROVE  DoneWasVerified'
<1>1. page.agentId \in Optional(AgentIds)
  BY DEF PageInv, PageTypeOK, Page
<1>2. \A a \in page.agentId : a \in AgentIds
  BY <1>1, OptionalMember
<1> QED
  BY <1>2, LedgerRemembers DEF PageInv, DoneWasVerified

\* Starting a handler.
LEMMA HandlersStart ==
  ASSUME WorldIdInv, PageInv,
         \/ \E sender \in Users \ Contracts :
              \/ HandleRegister(sender) \/ HandleApprove(sender)
              \/ \E p \in Proofs : HandleWorldIDSuccess(sender, p)
         \/ \E a \in AgentIds : HandleUseExisting(a)
  PROVE  PageInv'
<1>1. /\ page' = page /\ displaced' = displaced /\ UNCHANGED contractVars
      /\ page \in Page /\ displaced \in BOOLEAN /\ call = NoCall
  BY DEF HandleRegister, HandleApprove, HandleWorldIDSuccess, HandleUseExisting, Begin,
         PageInv, PageTypeOK
<1>2. DoneWasVerified'
  BY <1>1, DoneStays
<1>3. page.agentId \in Optional(AgentIds)
  BY <1>1 DEF Page
<1>4. {} \in Optional(AgentIds) /\ {} \in Optional(Proofs)
  BY DEF Optional
<1>5. ASSUME NEW sender \in Users \ Contracts, HandleRegister(sender)
      PROVE  call' \in Handlers /\ CallFits'
  BY <1>1, <1>4, <1>5 DEF HandleRegister, Begin, Handlers, CallFits
<1>6. ASSUME NEW sender \in Users \ Contracts, HandleApprove(sender)
      PROVE  call' \in Handlers /\ CallFits'
  BY <1>1, <1>3, <1>4, <1>6 DEF HandleApprove, Begin, Handlers, CallFits
<1>7. ASSUME NEW sender \in Users \ Contracts, NEW p \in Proofs, HandleWorldIDSuccess(sender, p)
      PROVE  call' \in Handlers /\ CallFits'
  <2>1. {p} \in Optional(Proofs)
    BY DEF Optional
  <2>2. p.signal \in page.account
    BY <1>7 DEF HandleWorldIDSuccess, WidgetProofs
  <2> QED
    BY <1>1, <1>3, <1>7, <2>1, <2>2 DEF HandleWorldIDSuccess, Begin, Handlers, CallFits
<1>8. ASSUME NEW a \in AgentIds, HandleUseExisting(a)
      PROVE  call' \in Handlers /\ CallFits'
  <2>1. {a} \in Optional(AgentIds)
    BY DEF Optional
  <2> QED
    BY <1>1, <1>4, <1>8, <2>1 DEF HandleUseExisting, Begin, Handlers, CallFits
<1> QED
  BY <1>1, <1>2, <1>5, <1>6, <1>7, <1>8 DEF PageInv, PageTypeOK

\* Reading: the handler goes on with the page as it is, or returns.
LEMMA ReadsKeepPage ==
  ASSUME WorldIdInv, PageInv, ReadOwner \/ ReadApproved \/ ReadVerified \/ ReadNullifierUsed
  PROVE  PageInv'
<1>1. /\ call \in Handlers /\ CallFits /\ page \in Page /\ displaced \in BOOLEAN
      /\ displaced' = displaced /\ UNCHANGED contractVars
  BY DEF ReadOwner, ReadApproved, ReadVerified, ReadNullifierUsed, Goto, Return,
         PageInv, PageTypeOK
<1>2. call.agent \in Optional(AgentIds)
  BY <1>1 DEF Handlers
<1>3. \A a \in call.agent : a \in AgentIds /\ call.agent = {a}
  BY <1>2 DEF Optional
<1>4. ASSUME Return(page)
      PROVE  PageInv'
  BY <1>1, <1>4, IdlePage, DoneStays DEF Return
<1>5. ASSUME NEW at \in {"approved", "verified", "sent"}, Goto(at),
             call.fn = "existing" => call.at = "approved" /\ at = "verified",
             call.fn # "existing" => call.fn = "verify" /\ at \in {"approved", "sent"}
      PROVE  PageInv'
  <2>1. page' = page /\ call' = [call EXCEPT !.at = at]
    BY <1>5 DEF Goto
  <2>2. call' \in Handlers /\ call'.fn = call.fn /\ call'.at = at /\ call'.sender = call.sender
        /\ call'.agent = call.agent /\ call'.proof = call.proof
    BY <1>1, <2>1 DEF Handlers
  <2>3. CallFits'
    BY <1>1, <1>5, <2>1, <2>2 DEF CallFits
  <2> QED
    BY <1>1, <2>1, <2>2, <2>3, DoneStays DEF PageInv, PageTypeOK
<1>6. CASE ReadOwner
  <2>1. call.fn = "existing" /\ page.step = "register"
    BY <1>1, <1>6 DEF ReadOwner, CallFits, Handlers
  <2>2. CASE /\ \E a \in call.agent : page' = [page EXCEPT !.agentId = {a}]
             /\ call' = [call EXCEPT !.at = "approved"]
    <3>1. page'.agentId = call.agent /\ page'.step = "register" /\ page' \in Page
      BY <1>1, <1>2, <1>3, <2>1, <2>2 DEF Page
    <3>2. call' \in Handlers /\ call'.fn = "existing" /\ call'.at = "approved"
          /\ call'.agent = call.agent
      BY <1>1, <2>1, <2>2 DEF Handlers
    <3> QED
      BY <1>1, <3>1, <3>2 DEF PageInv, PageTypeOK, CallFits, DoneWasVerified
  <2> QED
    BY <1>4, <1>6, <2>2 DEF ReadOwner
<1>7. CASE ReadApproved
  <2>1. call.fn \in {"existing", "verify"} /\ call.at = "approved"
    BY <1>1, <1>7 DEF ReadApproved, CallFits, Handlers
  <2>2. CASE Return([page EXCEPT !.step = "approve"])
    <3>1. page' = [page EXCEPT !.step = "approve"] /\ call' = NoCall
      BY <2>2 DEF Return
    <3>2. page' \in Page /\ page'.step # "done"
      BY <1>1, <3>1 DEF Page, Steps
    <3> QED
      BY <1>1, <3>1, <3>2, IdlePage
  <2> QED
    BY <1>4, <1>5, <1>7, <2>1, <2>2 DEF ReadApproved
<1>8. CASE ReadVerified
  <2>1. call.agent = page.agentId
    BY <1>1, <1>8 DEF ReadVerified, CallFits
  <2>2. PICK a \in call.agent :
          Return([page EXCEPT !.step = IF verifications[a].isVerified THEN "done" ELSE "verify"])
    BY <1>8 DEF ReadVerified
  <2>3. /\ page' = [page EXCEPT !.step = IF verifications[a].isVerified THEN "done" ELSE "verify"]
        /\ call' = NoCall
    BY <2>2 DEF Return
  <2>4. page' \in Page /\ page'.agentId = page.agentId
        /\ (page'.step = "done" => verifications[a].isVerified)
    BY <1>1, <2>3 DEF Page, Steps
  <2>5. verifications[a].isVerified => verifications[a].nullifierHash # {}
    BY <1>3 DEF WorldIdInv, NullifierLedger
  <2>6. verifications' = verifications
    BY <1>1 DEF contractVars, worldIdVars
  <2> QED
    BY <1>1, <2>1, <2>3, <2>4, <2>5, <2>6, IdlePage DEF DoneWasVerified
<1>9. CASE ReadNullifierUsed
  <2>1. call.fn = "verify"
    BY <1>1, <1>9 DEF ReadNullifierUsed, CallFits, Handlers
  <2> QED
    BY <1>4, <1>5, <1>9, <2>1 DEF ReadNullifierUsed
<1> QED
  BY <1>6, <1>7, <1>8, <1>9

\* A transaction that is mined ends the handler, or leaves it with the agent that
\* it was about, or that was born.
LEMMA MiningFits ==
  ASSUME WorldIdInv, NoReentry, PageInv, Mine
  PROVE  PageInv'
<1>1. /\ call \in Handlers /\ CallFits /\ call.at = "sent"
      /\ page' = page /\ displaced' = displaced /\ page \in Page /\ displaced \in BOOLEAN
  BY DEF Mine, PageInv, PageTypeOK
<1>2. WorldIdNext \/ UNCHANGED contractVars
  BY MineIsAStep
<1>3. DoneWasVerified'
  BY <1>1, <1>2, DoneStays
<1>4. CASE call' = NoCall
  BY <1>1, <1>3, <1>4, IdlePage
<1>5. ASSUME NEW agent \in Optional(AgentIds), call' = [call EXCEPT !.at = "mined", !.agent = agent],
             call.fn # "register" => agent = call.agent,
             call.fn = "verify" => \E a \in agent, p \in call.proof : Bonded(a, p)'
      PROVE  PageInv'
  <2>1. /\ call' \in Handlers /\ call'.fn = call.fn /\ call'.at = "mined"
        /\ call'.sender = call.sender /\ call'.agent = agent /\ call'.proof = call.proof
    BY <1>1, <1>5 DEF Handlers
  <2>2. call.fn = "verify" => \E a \in call'.agent, p \in call'.proof : Bonded(a, p)'
    BY <1>5, <2>1
  <2>3. CallFits'
    BY <1>1, <1>5, <2>1, <2>2 DEF CallFits
  <2> QED
    BY <1>1, <1>3, <2>1, <2>3 DEF PageInv, PageTypeOK
<1>6. call.agent \in Optional(AgentIds)
  BY <1>1 DEF Handlers
<1>7. CASE /\ call.fn = "register" /\ Register(call.sender, {}, {})
           /\ call' = [call EXCEPT !.at = "mined", !.agent = {lastId}]
  <2>1. lastId \in AgentIds
    BY <1>7, RegistryConstants DEF Register, NoReentry, AgentIds
  <2>2. {lastId} \in Optional(AgentIds)
    BY <2>1 DEF Optional
  <2> QED
    BY <1>5, <1>7, <2>2
<1>8. CASE call.fn = "approve" /\ call' = [call EXCEPT !.at = "mined", !.agent = call.agent]
  BY <1>5, <1>6, <1>8
<1>9. ASSUME NEW a \in AgentIds \cap call.agent, NEW p \in Proofs \cap call.proof,
             call.fn = "verify", VerifyAndSetHumanTag(call.sender, a, NullifierOf(p), p),
             call' = [call EXCEPT !.at = "mined", !.agent = call.agent]
      PROVE  PageInv'
  <2>1. Bonded(a, p)'
    BY <1>9, VerifyBonds, SenderOfMined
  <2> QED
    BY <1>5, <1>6, <1>9, <2>1
<1> QED
  BY <1>4, <1>7, <1>8, <1>9, MineCases

\* A displaced transaction leaves the handler where it would be after its own,
\* with nothing known of the ledger.
LEMMA DisplacedFits ==
  ASSUME WorldIdInv, PageInv, Displaced
  PROVE  PageInv'
<1>1. /\ call \in Handlers /\ CallFits /\ call.at = "sent" /\ page \in Page /\ displaced \in BOOLEAN
      /\ page' = page /\ displaced' = displaced /\ UNCHANGED contractVars
  BY DEF Displaced, PageInv, PageTypeOK
<1>2. DoneWasVerified'
  BY <1>1, DoneStays
<1>3. PICK agent \in IF call.fn = "register" THEN {{a} : a \in AgentIds} ELSE {call.agent} :
        call' = [call EXCEPT !.at = "replaced", !.agent = agent]
  BY DEF Displaced
<1>4. agent \in Optional(AgentIds) /\ (call.fn # "register" => agent = call.agent)
  BY <1>1, <1>3 DEF Handlers, Optional
<1>5. /\ call' \in Handlers /\ call'.fn = call.fn /\ call'.at = "replaced"
      /\ call'.sender = call.sender /\ call'.agent = agent /\ call'.proof = call.proof
  BY <1>1, <1>3, <1>4 DEF Handlers
<1>6. CallFits'
  BY <1>1, <1>4, <1>5 DEF CallFits
<1> QED
  BY <1>1, <1>2, <1>5, <1>6 DEF PageInv, PageTypeOK

\* After its transaction a handler shows what the transaction has brought about;
\* after another one in its place, the history says so.
LEMMA AfterMinedFits ==
  ASSUME WorldIdInv, PageInv, AfterMined
  PROVE  PageInv'
<1>1. /\ call \in Handlers /\ CallFits /\ page \in Page /\ displaced \in BOOLEAN
      /\ call.at \in {"mined", "replaced"}
  BY DEF AfterMined, PageInv, PageTypeOK
<1>2. call.fn \in {"register", "approve", "verify"} /\ call.agent \in Optional(AgentIds)
  BY <1>1 DEF CallFits, Handlers
<1>3. /\ call' = NoCall /\ UNCHANGED contractVars
      /\ displaced' = (displaced \/ (call.fn = "verify" /\ call.at = "replaced"))
  BY <1>1, <1>2 DEF AfterMined, Return
<1>4. CASE page' = page /\ displaced' = displaced
  BY <1>1, <1>3, <1>4, IdlePage, DoneStays
<1>5. CASE call.fn = "register"
  <2>1. page' = [page EXCEPT !.agentId = call.agent, !.step = "approve"]
    BY <1>5 DEF AfterMined, Return
  <2>2. page' \in Page /\ page'.step # "done"
    BY <1>1, <1>2, <2>1 DEF Page, Steps
  <2> QED
    BY <1>1, <1>3, <2>2, IdlePage
<1>6. CASE call.fn = "approve"
  <2>1. CASE page' = [page EXCEPT !.step = "verify"]
    <3>1. page' \in Page /\ page'.step # "done"
      BY <1>1, <2>1 DEF Page, Steps
    <3> QED
      BY <1>1, <1>3, <3>1, IdlePage
  <2> QED
    BY <1>1, <1>3, <1>4, <1>6, <2>1 DEF AfterMined, Return
<1>7. CASE call.fn = "verify"
  <2>1. page' = [page EXCEPT !.step = "done"]
    BY <1>7 DEF AfterMined
  <2>2. page' \in Page /\ page'.agentId = call.agent
    BY <1>1, <1>7, <2>1 DEF CallFits, Page, Steps
  <2>3. call.at = "mined" => \E a \in call.agent : verifications[a].nullifierHash # {}
    BY <1>1, <1>7 DEF CallFits, Bonded
  <2>4. verifications' = verifications
    BY <1>3 DEF contractVars, worldIdVars
  <2>5. displaced' \in BOOLEAN /\ (~displaced' => call.at = "mined")
    BY <1>1, <1>3, <1>7
  <2> QED
    BY <1>3, <2>2, <2>3, <2>4, <2>5, IdlePage DEF DoneWasVerified
<1> QED
  BY <1>2, <1>5, <1>6, <1>7

\* Whatever others do, a handler that has bound a human has still bound it.
LEMMA ElsewhereFits ==
  ASSUME WorldIdInv, PageInv, WorldIdNext \/ UNCHANGED contractVars, UNCHANGED wizardVars
  PROVE  PageInv'
<1>1. page' = page /\ call' = call /\ displaced' = displaced
  BY DEF wizardVars
<1>2. DoneWasVerified'
  BY <1>1, DoneStays
<1>3. ASSUME call # NoCall
      PROVE  CallFits'
  <2>1. call \in Handlers /\ CallFits
    BY <1>3 DEF PageInv, PageTypeOK
  <2>2. call.agent \in Optional(AgentIds) /\ call.proof \in Optional(Proofs)
    BY <2>1 DEF Handlers
  <2>3. (\A a \in call.agent : a \in AgentIds) /\ (\A p \in call.proof : p \in Proofs)
    BY <2>2, OptionalMember
  <2>4. \A a \in call.agent, p \in call.proof : Bonded(a, p) => Bonded(a, p)'
    BY <2>3, LedgerRemembers
  <2> QED
    BY <1>1, <2>1, <2>4 DEF CallFits
<1> QED
  BY <1>1, <1>2, <1>3 DEF PageInv, PageTypeOK

\* One lemma per kind of step.
LEMMA PageInductive ==
  ASSUME WizardInv, [WizardNext]_allVars
  PROVE  PageInv'
<1>1. ASSUME UNCHANGED allVars
      PROVE  PageInv'
  BY <1>1, ElsewhereFits DEF WizardInv, allVars
<1>2. ASSUME NEW sender \in Users \ Contracts, Elsewhere(sender)
      PROVE  PageInv'
  BY <1>2, ElsewhereFits, ElsewhereIsAStep DEF WizardInv, Elsewhere
<1>3. ASSUME NEW sender \in Users \ Contracts, HandleConnect(sender)
      PROVE  PageInv'
  <2>1. PICK step \in {"connect", "register"} :
          /\ page' = [page EXCEPT !.account = {sender}, !.step = step] /\ call' = NoCall
          /\ displaced' = displaced
    BY <1>3 DEF HandleConnect, Return
  <2>2. {sender} \in Optional(Users) /\ page \in Page /\ displaced \in BOOLEAN
    BY DEF Optional, WizardInv, PageInv, PageTypeOK
  <2>3. page' \in Page /\ page'.step # "done"
    BY <2>1, <2>2 DEF Page, Steps
  <2> QED
    BY <2>1, <2>2, <2>3, IdlePage
<1>4. CASE CallFails
  BY <1>4, IdlePage, DoneStays DEF CallFails, WizardInv, PageInv, PageTypeOK
<1>5. CASE Reload
  <2>1. FreshPage \in Page /\ FreshPage.step # "done"
    BY DEF FreshPage, Page, Steps, Optional
  <2> QED
    BY <1>5, <2>1, IdlePage DEF Reload
<1> QED
  BY <1>1, <1>2, <1>3, <1>4, <1>5, HandlersStart, ReadsKeepPage, MiningFits, DisplacedFits,
     AfterMinedFits
     DEF WizardNext, WizardInv

\* Every step of the page, the chain and the others keeps the invariant.
LEMMA WizardInductive ==
  WizardInv /\ [WizardNext]_allVars => WizardInv' /\ [WorldIdNext]_<<registryVars, worldIdVars>>
<1> SUFFICES ASSUME WizardInv, [WizardNext]_allVars
             PROVE  WizardInv' /\ [WorldIdNext]_<<registryVars, worldIdVars>>
  OBVIOUS
<1>1. [WorldIdNext]_<<registryVars, worldIdVars>>
  BY WizardStepIsAStep DEF WizardInv, allVars, contractVars
<1>2. WorldIdInv'
  BY <1>1, LedgerInductive DEF WizardInv
<1>3. NoReentry'
  BY NoReentryKept DEF WizardInv, NoReentry, allVars, contractVars, registryVars
<1>4. PageInv'
  BY PageInductive
<1> QED
  BY <1>1, <1>2, <1>3, <1>4 DEF WizardInv

-----------------------------------------------------------------------------
(* Theorems.                                                               *)

\* The page, its handler and the ledger stay tied together.
THEOREM WizardInvariant ==
  WizardSpec => []WizardInv
<1>1. WizardInit => WizardInv
  BY LedgerAtStart, PageAtStart
     DEF WizardInit, WorldIdSystemInit, RegistryInit, WizardInv, NoReentry
<1> QED
  BY <1>1, WizardInductive, PTL DEF WizardSpec

\* The page and everyone beside it are clients of the validator like others.
THEOREM WizardImplementsValidator ==
  WizardSpec => WorldIdSpec
<1>1. WizardInit => WorldIdSystemInit
  BY DEF WizardInit
<1> QED
  BY <1>1, WizardInvariant, WizardInductive, PTL DEF WizardSpec, WorldIdSpec

\* "Human Verified!" names an agent that a human has verified, unless the page
\* took the receipt of another transaction for that of its own.
THEOREM DoneIsVerified ==
  WizardSpec => []DoneWasVerified
<1>1. WizardInv => DoneWasVerified
  BY DEF WizardInv, PageInv
<1> QED
  BY <1>1, WizardInvariant, PTL

\* After the receipt of its own transaction the page reports a verification only
\* of the human at the page, for the agent and the account that it shows.
THEOREM PageBondsItsHuman ==
  WizardSpec => BondsThisHuman
<1> DEFINE Claim ==
      (call.fn = "verify" /\ call.at = "mined" /\ page.step # "done" /\ page'.step = "done") =>
        \E p \in call.proof, a \in page.agentId :
          /\ NullifierOf(p) \in nullifierUsed
          /\ nullifierToAgent[NullifierOf(p)] = a
          /\ verifications[a].nullifierHash = {NullifierOf(p)} =>
               verifications[a].verifiedBy \in page.account
<1>1. WizardInv /\ [WizardNext]_allVars => [Claim]_allVars
  <2> SUFFICES ASSUME WizardInv, call.fn = "verify", call.at = "mined"
               PROVE  \E p \in call.proof, a \in page.agentId :
                        /\ NullifierOf(p) \in nullifierUsed
                        /\ nullifierToAgent[NullifierOf(p)] = a
                        /\ verifications[a].nullifierHash = {NullifierOf(p)} =>
                             verifications[a].verifiedBy \in page.account
    OBVIOUS
  <2>1. call # NoCall /\ CallFits
    BY DEF NoCall, WizardInv, PageInv, PageTypeOK
  <2> QED
    BY <2>1 DEF CallFits, Bonded
<1> QED
  BY <1>1, WizardInvariant, PTL DEF WizardSpec, BondsThisHuman
=============================================================================
