---------------------------- MODULE StatusReads ----------------------------
(***************************************************************************)
(* getFullStatus of the two SDKs: an agent's effective tier put together   *)
(* from RPC reads, each of the chain as it is at that moment, while        *)
(* transactions move the facts. The TypeScript client has the reads of a   *)
(* Promise.all in flight together, the Go client makes one after another.  *)
(***************************************************************************)
EXTENDS Policies

CONSTANTS
  Clients,   \* the SDKs with a call: "ts", "go"
  MaxMoves   \* bound: transactions

ASSUME StatusConstants == Clients \subseteq {"ts", "go"} /\ MaxMoves \in Nat

VARIABLES
  facts,     \* what the chain says of the agent now
  moves,     \* transactions so far
  calls,     \* each client's call of getFullStatus
  seen       \* the facts that held at some moment of the call

vars == <<facts, moves, calls, seen>>

Reads == {"isRegistered", "getOwner", "getAgentWallet", "isHumanVerified",
          "isKYCVerified", "getCreditScore"}

\* The facts that can be read, owner and wallet apart: no tier depends on them.
Answers ==
  [registered : BOOLEAN, humanVerified : BOOLEAN, kycVerified : BOOLEAN,
   creditScore : CreditScores]

Nothing ==
  [registered |-> FALSE, humanVerified |-> FALSE, kycVerified |-> FALSE, creditScore |-> 0]

StatusTypeOK ==
  /\ facts \in Facts
  /\ moves \in 0 .. MaxMoves
  /\ calls \in [Clients -> [status : {"idle", "called", "failed"}, pending : SUBSET Reads,
                            got : Answers, defaulted : BOOLEAN]]
  /\ seen \in [Clients -> SUBSET Facts]

\* Facts that the contracts can hold together: all need a registered agent, and
\* without a score getCreditScore returns 0.
ChainFacts ==
  {f \in Facts : /\ f = NoFacts \/ f.registered
                 /\ f.hasScore \/ f.creditScore = 0}

StatusInit ==
  /\ facts \in ChainFacts
  /\ moves = 0
  /\ calls = [c \in Clients |-> [status |-> "idle", pending |-> Reads, got |-> Nothing,
                                 defaulted |-> FALSE]]
  /\ seen = [c \in Clients |-> {}]

Answered(c) == calls[c].status = "called" /\ calls[c].pending = {}

-----------------------------------------------------------------------------
\* One transaction of the contracts: registration, a verification or revocation,
\* the owner's write to the metadata, a KYC or a credit report.
ChainMoves(f) ==
  IF ~f.registered THEN {[f EXCEPT !.registered = TRUE]}
  ELSE {[f EXCEPT !.humanMetadata = b, !.humanVerified = b] : b \in BOOLEAN}
         \cup {[f EXCEPT !.humanMetadata = b] : b \in BOOLEAN}
         \cup {[f EXCEPT !.kycVerified = b] : b \in BOOLEAN}
         \cup {[f EXCEPT !.hasScore = TRUE, !.creditScore = s] : s \in CreditScores}

ChainMove ==
  /\ moves < MaxMoves
  /\ moves' = moves + 1
  /\ facts' \in ChainMoves(facts) \ {facts}
  /\ seen' = [c \in Clients |->
       IF calls[c].status = "called" /\ ~Answered(c) THEN seen[c] \cup {facts'} ELSE seen[c]]
  /\ UNCHANGED calls

GetFullStatus(c) ==
  /\ calls[c].status = "idle"
  /\ calls' = [calls EXCEPT ![c].status = "called"]
  /\ seen' = [seen EXCEPT ![c] = {facts}]
  /\ UNCHANGED <<facts, moves>>

\* When a client makes a read: reads of one round are in flight together.
Round(c, r) ==
  CASE r = "isRegistered"    -> 1
    [] r = "getOwner"        -> 2
    [] r = "getAgentWallet"  -> IF c = "go" THEN 3 ELSE 2
    [] r = "isHumanVerified" -> IF c = "go" THEN 4 ELSE 2
    [] r = "isKYCVerified"   -> 5
    [] r = "getCreditScore"  -> IF c = "go" THEN 6 ELSE 5

Ready(c) ==
  {r \in calls[c].pending : \A q \in calls[c].pending : Round(c, r) <= Round(c, q)}

\* What a read adds to what is known. f is the chain or what an error stands for.
Known(got, r, f) ==
  CASE r = "isRegistered"    -> [got EXCEPT !.registered = f.registered]
    [] r = "isHumanVerified" -> [got EXCEPT !.humanVerified = f.humanVerified]
    [] r = "isKYCVerified"   -> [got EXCEPT !.kycVerified = f.kycVerified]
    [] r = "getCreditScore"  -> [got EXCEPT !.creditScore = f.creditScore]
    [] OTHER                 -> got

\* An unregistered agent's call ends there: nothing else is read.
Remaining(c, r, got) ==
  IF r = "isRegistered" /\ ~got.registered THEN {} ELSE calls[c].pending \ {r}

Read(c, r) ==
  /\ calls[c].status = "called"
  /\ r \in Ready(c)
  /\ LET got == Known(calls[c].got, r, facts)
     IN calls' = [calls EXCEPT ![c].got = got, ![c].pending = Remaining(c, r, got)]
  /\ UNCHANGED <<facts, moves, seen>>

\* Reads whose errors the SDKs swallow: an error counts as "no".
Swallowed == {"isRegistered", "isKYCVerified", "getCreditScore"}

\* Faulty variant: an error is no obstacle, and KYC that was not read counts as done.
ErrorAsYes(c, r) ==
  /\ calls[c].status = "called"
  /\ r \in Ready(c)
  /\ LET got == Known(calls[c].got, r, [Nothing EXCEPT !.kycVerified = TRUE])
     IN calls' = [calls EXCEPT ![c].got = got, ![c].pending = Remaining(c, r, got),
                               ![c].defaulted = TRUE]
  /\ UNCHANGED <<facts, moves, seen>>

\* An RPC error: swallowed, or the whole call fails.
ReadError(c, r) ==
  /\ calls[c].status = "called"
  /\ r \in Ready(c)
  /\ IF r \in Swallowed
     THEN LET got == Known(calls[c].got, r, Nothing)
          IN calls' = [calls EXCEPT ![c].got = got, ![c].pending = Remaining(c, r, got),
                                    ![c].defaulted = TRUE]
     ELSE calls' = [calls EXCEPT ![c].status = "failed"]
  /\ UNCHANGED <<facts, moves, seen>>

StatusNext ==
  \/ ChainMove
  \/ \E c \in Clients : GetFullStatus(c)
  \/ \E c \in Clients, r \in Reads : Read(c, r) \/ ReadError(c, r)

StatusSpec == StatusInit /\ [][StatusNext]_vars

-----------------------------------------------------------------------------
\* The minimum that a client holds the score against. The Go client takes a
\* minimum of 0 for one that is missing.
MinScore(c) == IF c = "go" /\ MinCreditScore = 0 THEN 50 ELSE MinCreditScore

\* Faulty variant: KYC counts without the human.
EffectiveTierWithoutHuman(c, f) ==
  IF ~f.registered THEN 0
  ELSE IF ~f.kycVerified THEN IF f.humanVerified THEN 2 ELSE 1
  ELSE IF f.creditScore < MinScore(c) THEN 3
  ELSE 4

EffectiveTier(c, f) ==
  IF ~f.registered THEN 0
  ELSE IF ~f.humanVerified THEN 1
  ELSE IF ~f.kycVerified THEN 2
  ELSE IF f.creditScore < MinScore(c) THEN 3
  ELSE 4

-----------------------------------------------------------------------------
(* Properties.                                                             *)

\* The best and the worst of several facts, taken one by one.
Best(S) ==
  [registered    |-> \E f \in S : f.registered,
   humanVerified |-> \E f \in S : f.humanVerified,
   kycVerified   |-> \E f \in S : f.kycVerified,
   creditScore   |-> CHOOSE s \in CreditScores :
                       /\ \E f \in S : f.creditScore = s
                       /\ \A f \in S : f.creditScore <= s]
Worst(S) ==
  [registered    |-> \A f \in S : f.registered,
   humanVerified |-> \A f \in S : f.humanVerified,
   kycVerified   |-> \A f \in S : f.kycVerified,
   creditScore   |-> CHOOSE s \in CreditScores :
                       /\ \E f \in S : f.creditScore = s
                       /\ \A f \in S : f.creditScore >= s]

\* A status mixes moments, but only of its own call: every fact it counts held at
\* some moment of the call, also after RPC errors; and if there were none, every
\* fact that held all along is counted.
StatusWithinCall ==
  \A c \in Clients : Answered(c) =>
    LET tier == EffectiveTier(c, calls[c].got) IN
    /\ tier <= EffectiveTier(c, Best(seen[c]))
    /\ ~calls[c].defaulted => EffectiveTier(c, Worst(seen[c])) <= tier

Quiet(c) == Answered(c) /\ ~calls[c].defaulted /\ \E f \in seen[c] : seen[c] = {f}

\* If nothing moved during the call and the owner has not rewritten the
\* humanVerified metadata, the effective tier is the level that the policies
\* grant by, although the SDKs read neither the metadata nor hasCreditScore.
QuietStatusIsLevel ==
  \A c \in Clients : Quiet(c) =>
    \A f \in seen[c] : f.humanMetadata = f.humanVerified =>
      EffectiveTier(c, calls[c].got) = Level(f)
=============================================================================
