----------------------------- MODULE ProofWizard -----------------------------
(***************************************************************************)
(* The web page that takes a user from a wallet to a verified agent, in    *)
(* front of the registry and the validator: connect, register or name an   *)
(* agent, approve the validator, prove with World ID. The page asks its    *)
(* wallet for an account whenever a handler starts, reads the contracts    *)
(* before it sends, and waits for receipts; meanwhile the same and other   *)
(* accounts go on by other means, calls fail or time out and the page is   *)
(* reloaded. Wallets are not contracts.                                    *)
(*                                                                         *)
(* A transaction that a failed handler or an earlier page has sent is still*)
(* mined, at any later time: it is then one of those that Elsewhere makes, *)
(* which any account may make at any time. The user may also cancel it in  *)
(* the wallet, or replace it by another one with its nonce: the wait then  *)
(* resolves with the receipt of that other transaction, and the page looks *)
(* at its status only.                                                     *)
(***************************************************************************)
EXTENDS WorldIDValidator

ASSUME WizardConstants == WorldId \in Spenders

VARIABLES
  page,   \* the state of the page: step, account, agentId
  call,   \* the handler in progress; `loading` keeps the buttons from a second
  displaced \* history, which no guard reads: since the page was loaded, it has
            \* ended a verification with the receipt of another transaction

contractVars == <<registryVars, worldIdVars>>
wizardVars == <<page, call, displaced>>
allVars == <<contractVars, wizardVars>>

Steps == {"connect", "register", "approve", "verify", "done"}
Page == [step : Steps, account : Optional(Users), agentId : Optional(AgentIds)]
FreshPage == [step |-> "connect", account |-> {}, agentId |-> {}]

\* A handler: the account its wallet client got, the agent and the proof it is
\* about, and the await it is at. "sent" lasts from asking the wallet for a
\* transaction to a receipt: of this transaction ("mined"), or of the one that
\* took its place ("replaced"), which the handler cannot tell apart.
NoCall == [fn |-> "none"]
Handlers ==
  [fn : {"existing", "register", "approve", "verify"},
   at : {"owner", "approved", "verified", "used", "sent", "mined", "replaced"},
   sender : Users \cup {Zero}, agent : Optional(AgentIds), proof : Optional(Proofs)]

WizardTypeOK ==
  /\ RegistryTypeOK /\ WorldIdTypeOK
  /\ page \in Page
  /\ call \in Handlers \cup {NoCall}
  /\ displaced \in BOOLEAN

WizardInit == WorldIdSystemInit /\ page = FreshPage /\ call = NoCall /\ displaced = FALSE

-----------------------------------------------------------------------------
(* What the widget is asked for and what the page counts as an agent.       *)

\* Faulty variant: the signal is left to the widget.
ProofsForAnyone == {p \in Proofs : p.scope = AppWide}

\* The widget's action is a constant of the page; its signal is the account.
WidgetProofs == {p \in Proofs : p.scope = AppWide /\ p.signal \in page.account}

NullifierOf(p) == [human |-> p.human, scope |-> p.scope]

\* `!agentId`, which also holds of agent 0.
NoAgent == page.agentId \subseteq {0}

Begin(fn, at, sender, agent, proof) ==
  /\ call = NoCall
  /\ call' = [fn |-> fn, at |-> at, sender |-> sender, agent |-> agent, proof |-> proof]
  /\ UNCHANGED <<contractVars, page, displaced>>

Goto(at) ==
  /\ call' = [call EXCEPT !.at = at]
  /\ UNCHANGED <<contractVars, page, displaced>>

\* The handler returns after setting the page to p.
Return(p) ==
  /\ page' = p
  /\ call' = NoCall
  /\ UNCHANGED <<contractVars, displaced>>

-----------------------------------------------------------------------------
(* The handlers, from one await to the next.                               *)

\* On another chain the account is kept but the page stays where it is.
HandleConnect(sender) ==
  /\ call = NoCall /\ page.step = "connect"
  /\ \E step \in {"connect", "register"} :
       Return([page EXCEPT !.account = {sender}, !.step = step])

HandleRegister(sender) ==
  page.step = "register" /\ Begin("register", "sent", sender, {}, {})

\* It only reads.
HandleUseExisting(a) ==
  page.step = "register" /\ Begin("existing", "owner", Zero, {a}, {})

HandleApprove(sender) ==
  page.step = "approve" /\ ~NoAgent /\ Begin("approve", "sent", sender, page.agentId, {})

\* The widget calls it with one proof for handleVerify and again for onSuccess.
HandleWorldIDSuccess(sender, p) ==
  /\ page.step \in {"verify", "done"} /\ ~NoAgent /\ page.account # {}
  /\ p \in WidgetProofs
  /\ Begin("verify", "used", sender, page.agentId, {p})

\* ownerOf reverts for an agent that does not exist.
ReadOwner ==
  /\ call # NoCall /\ call.at = "owner"
  /\ \E a \in call.agent :
       IF owner[a] \in page.account
       THEN /\ page' = [page EXCEPT !.agentId = {a}]
            /\ call' = [call EXCEPT !.at = "approved"]
            /\ UNCHANGED <<contractVars, displaced>>
       ELSE Return(page)

\* getApproved decides where an existing agent goes, and is the second of the
\* pre-flight checks of a verification.
ReadApproved ==
  /\ call # NoCall /\ call.at = "approved"
  /\ \E a \in call.agent :
       IF call.fn = "existing"
       THEN IF approved[a] = WorldId THEN Goto("verified")
            ELSE Return([page EXCEPT !.step = "approve"])
       ELSE IF approved[a] = WorldId THEN Goto("sent") ELSE Return(page)

ReadVerified ==
  /\ call # NoCall /\ call.at = "verified"
  /\ \E a \in call.agent :
       Return([page EXCEPT !.step = IF verifications[a].isVerified THEN "done" ELSE "verify"])

ReadNullifierUsed ==
  /\ call # NoCall /\ call.at = "used"
  /\ \E p \in call.proof :
       IF NullifierOf(p) \in nullifierUsed THEN Return(page) ELSE Goto("approved")

\* A receipt was a success: the rest of the handler. Only approve reads again.
AfterMined ==
  /\ call # NoCall /\ call.at \in {"mined", "replaced"}
  /\ CASE call.fn = "register" -> Return([page EXCEPT !.agentId = call.agent, !.step = "approve"])
       [] call.fn = "approve" ->
            \E a \in call.agent :
              Return(IF approved[a] = WorldId THEN [page EXCEPT !.step = "verify"] ELSE page)
       [] call.fn = "verify" ->
            /\ page' = [page EXCEPT !.step = "done"]
            /\ call' = NoCall
            /\ displaced' = (displaced \/ call.at = "replaced")
            /\ UNCHANGED contractVars

\* An await throws: a read fails, the user rejects, the receipt takes too long,
\* the transaction that replaced the handler's has reverted or minted nothing.
CallFails ==
  /\ call # NoCall
  /\ call' = NoCall
  /\ UNCHANGED <<contractVars, page, displaced>>

Reload ==
  /\ page # FreshPage
  /\ page' = FreshPage /\ call' = NoCall /\ displaced' = FALSE
  /\ UNCHANGED contractVars

-----------------------------------------------------------------------------
(* The chain.                                                              *)

\* Faulty variant: the status of the receipt is not looked at.
AfterAnyReceipt(ok, agent) == [call EXCEPT !.at = "mined", !.agent = agent]

\* A receipt reaches the handler that waits for it; one that reverted ends it.
AfterReceipt(ok, agent) ==
  IF ok THEN [call EXCEPT !.at = "mined", !.agent = agent] ELSE NoCall

Accepted ==
  CASE call.fn = "register" -> TRUE
    [] call.fn = "approve" -> \E a \in call.agent : call.sender = owner[a]
    [] call.fn = "verify" ->
         \E a \in call.agent, p \in call.proof : CanVerify(call.sender, a, NullifierOf(p), p)

\* The handler's transaction is mined; the mint event names a new agent.
Mine ==
  /\ call # NoCall /\ call.at = "sent"
  /\ call' = AfterReceipt(Accepted, IF call.fn = "register" THEN {lastId} ELSE call.agent)
  /\ UNCHANGED <<page, displaced>>
  /\ IF Accepted
     THEN \/ /\ call.fn = "register" /\ Register(call.sender, {}, {})
             /\ UNCHANGED worldIdVars
          \/ /\ call.fn = "approve"
             /\ \E a \in call.agent : Approve(call.sender, WorldId, a)
             /\ UNCHANGED worldIdVars
          \/ /\ call.fn = "verify"
             /\ \E a \in call.agent, p \in call.proof :
                  VerifyAndSetHumanTag(call.sender, a, NullifierOf(p), p)
     ELSE UNCHANGED contractVars

\* The user has cancelled or replaced the handler's transaction, which is never
\* mined, and the receipt of the other one is a success. What that one does is a
\* step of Elsewhere; to a registration, any Transfer event in it, of whatever
\* contract, names the new agent.
Displaced ==
  /\ call # NoCall /\ call.at = "sent"
  /\ \E agent \in IF call.fn = "register" THEN {{a} : a \in AgentIds} ELSE {call.agent} :
       call' = [call EXCEPT !.at = "replaced", !.agent = agent]
  /\ UNCHANGED <<contractVars, page, displaced>>

\* Transactions that nobody on the page waits for, of the calls it can notice.
Elsewhere(sender) ==
  /\ \/ WorldIdCall(sender)
     \/ /\ \/ Register(sender, {}, {})
           \/ \E a \in AgentIds :
                \/ \E to \in {WorldId, Zero} : Approve(sender, to, a)
                \/ \E to \in Users : TransferFrom(sender, a, to)
        /\ UNCHANGED worldIdVars
  /\ UNCHANGED wizardVars

WizardNext ==
  \/ \E sender \in Users \ Contracts :
       \/ HandleConnect(sender) \/ HandleRegister(sender) \/ HandleApprove(sender)
       \/ \E p \in Proofs : HandleWorldIDSuccess(sender, p)
       \/ Elsewhere(sender)
  \/ \E a \in AgentIds : HandleUseExisting(a)
  \/ ReadOwner \/ ReadApproved \/ ReadVerified \/ ReadNullifierUsed
  \/ Mine \/ Displaced \/ AfterMined
  \/ CallFails \/ Reload

WizardSpec == WizardInit /\ [][WizardNext]_allVars

-----------------------------------------------------------------------------
(* Properties.                                                             *)

\* "Human Verified!" names an agent that a human has verified, whatever was
\* switched, reloaded, sent twice or transferred on the way; unless the page took
\* the receipt of a cancelling or replacing transaction for that of its own.
DoneWasVerified ==
  page.step = "done" /\ ~displaced =>
    \E a \in page.agentId : verifications[a].nullifierHash # {}

\* "Agent is now HUMAN VERIFIED!", after the receipt of the page's transaction:
\* the human at the page is spent on the agent the page shows, for the account it
\* shows, also if the wallet has given the handler another account meanwhile.
BondsThisHuman ==
  [][(call.fn = "verify" /\ call.at = "mined" /\ page.step # "done" /\ page'.step = "done") =>
       \E p \in call.proof, a \in page.agentId :
         /\ NullifierOf(p) \in nullifierUsed
         /\ nullifierToAgent[NullifierOf(p)] = a
         /\ verifications[a].nullifierHash = {NullifierOf(p)} =>
              verifications[a].verifiedBy \in page.account]_allVars

\* "This matches frontend IDKitWidget action": a proof that the widget makes
\* for the page's account is one that the validator's router call accepts.
WidgetMatchesContract ==
  page.step = "verify" =>
    \A a \in page.agentId, p \in WidgetProofs, u \in page.account :
      VerifyProof(p, u, NullifierOf(p), ExternalNullifier(a))
=============================================================================
