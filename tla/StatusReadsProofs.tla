-------------------------- MODULE StatusReadsProofs --------------------------
(***************************************************************************)
(* getFullStatus for any scores, thresholds and numbers of transactions.   *)
(* The inductive invariant says of every answer of a call where it comes   *)
(* from: a moment of the call, or an error. The ends of the call's window  *)
(* are the greatest and the least answer, and the tier grows with each.    *)
(***************************************************************************)
EXTENDS StatusReads, FiniteSetTheorems, TLAPS

-----------------------------------------------------------------------------
(* The best and the worst score.                                           *)

\* Scores are numbers up to 100, and 0 is one.
LEMMA ScoresAreNumbers == CreditScores \subseteq 0 .. 100 /\ 0 \in CreditScores
BY PolicyConstants, Zenon DEF PolicyConstants

\* None of the other parts is in P.
Smallest(P, Parts) == \A Q \in Parts : Q \subseteq P => Q = P

\* Of subsets of a finite set there is a smallest.
LEMMA SmallestPart ==
  ASSUME NEW N, IsFiniteSet(N), NEW Parts \in SUBSET (SUBSET N), Parts # {}
  PROVE  \E P \in Parts : Smallest(P, Parts)
<1>1. FiniteSubsetsOf(N) = SUBSET N
  BY FS_FiniteSubsetsOfFinite
<1>2. IsWellFoundedOn(StrictSubsetOrdering(N), SUBSET N)
  BY <1>1, FS_StrictSubsetOrderingWellFounded
<1>3. PICK P \in Parts : \A Q \in Parts : <<Q, P>> \notin StrictSubsetOrdering(N)
  BY <1>2, WFMin
<1>4. Smallest(P, Parts)
  BY <1>3 DEF StrictSubsetOrdering, Smallest
<1> QED
  BY <1>4

\* Of finitely many scores one is the worst and one the best.
LEMMA WorstAndBestScore ==
  ASSUME NEW T, IsFiniteSet(T), T \subseteq Int, T # {}
  PROVE  /\ \E s \in T : \A t \in T : s <= t
         /\ \E s \in T : \A t \in T : t <= s
<1>1. \E s \in T : \A t \in T : s <= t
  <2> DEFINE Below(s) == {t \in T : t <= s}
             Parts == {Below(s) : s \in T}
  <2>1. Parts \in SUBSET (SUBSET T) /\ Parts # {}
    OBVIOUS
  <2>2. \A s \in T : Below(s) \in Parts
    OBVIOUS
  <2>3. \A P \in Parts : \E s \in T : P = Below(s)
    OBVIOUS
  <2>4. ASSUME NEW s \in T, NEW t \in T, ~(s <= t)
        PROVE  s \in Below(s) /\ Below(t) \subseteq Below(s) /\ s \notin Below(t)
    <3>1. s \in Int /\ t \in Int
      OBVIOUS
    <3>2. s \in Below(s) /\ s \notin Below(t)
      BY <2>4, <3>1
    <3>3. ASSUME NEW u \in T, u <= t
          PROVE  u <= s
      <4>1. u \in Int
        OBVIOUS
      <4> QED
        BY <2>4, <3>1, <3>3, <4>1
    <3>4. Below(t) \subseteq Below(s)
      BY <3>3
    <3> QED
      BY <3>2, <3>4
  <2> HIDE DEF Below, Parts
  <2>5. PICK P \in Parts : Smallest(P, Parts)
    BY <2>1, SmallestPart
  <2>6. PICK s \in T : P = Below(s)
    BY <2>3
  <2>7. ASSUME NEW t \in T, ~(s <= t)
        PROVE  FALSE
    <3>1. s \in Below(s) /\ Below(t) \subseteq Below(s) /\ s \notin Below(t)
      BY <2>4, <2>7
    <3>2. Below(t) = P
      BY <2>2, <2>5, <2>6, <3>1 DEF Smallest
    <3> QED
      BY <2>6, <3>1, <3>2
  <2> QED
    BY <2>7
<1>2. \E s \in T : \A t \in T : t <= s
  <2> DEFINE Above(s) == {t \in T : s <= t}
             Parts == {Above(s) : s \in T}
  <2>1. Parts \in SUBSET (SUBSET T) /\ Parts # {}
    OBVIOUS
  <2>2. \A s \in T : Above(s) \in Parts
    OBVIOUS
  <2>3. \A P \in Parts : \E s \in T : P = Above(s)
    OBVIOUS
  <2>4. ASSUME NEW s \in T, NEW t \in T, ~(t <= s)
        PROVE  s \in Above(s) /\ Above(t) \subseteq Above(s) /\ s \notin Above(t)
    <3>1. s \in Int /\ t \in Int
      OBVIOUS
    <3>2. s \in Above(s) /\ s \notin Above(t)
      BY <2>4, <3>1
    <3>3. ASSUME NEW u \in T, t <= u
          PROVE  s <= u
      <4>1. u \in Int
        OBVIOUS
      <4> QED
        BY <2>4, <3>1, <3>3, <4>1
    <3>4. Above(t) \subseteq Above(s)
      BY <3>3
    <3> QED
      BY <3>2, <3>4
  <2> HIDE DEF Above, Parts
  <2>5. PICK P \in Parts : Smallest(P, Parts)
    BY <2>1, SmallestPart
  <2>6. PICK s \in T : P = Above(s)
    BY <2>3
  <2>7. ASSUME NEW t \in T, ~(t <= s)
        PROVE  FALSE
    <3>1. s \in Above(s) /\ Above(t) \subseteq Above(s) /\ s \notin Above(t)
      BY <2>4, <2>7
    <3>2. Above(t) = P
      BY <2>2, <2>5, <2>6, <3>1 DEF Smallest
    <3> QED
      BY <2>6, <3>1, <3>2
  <2> QED
    BY <2>7
<1> QED
  BY <1>1, <1>2

\* There are finitely many scores.
LEMMA FinitelyManyScores ==
  ASSUME NEW T, T \subseteq CreditScores
  PROVE  IsFiniteSet(T) /\ T \subseteq Int
<1>1. T \in SUBSET Nat /\ \A s \in T : s <= 100
  BY ScoresAreNumbers
<1> QED
  BY <1>1, FS_BoundedSetOfNaturals

\* The scores of the best and the worst are scores of the set, and its bounds.
LEMMA EndsOfScores ==
  ASSUME NEW S, S \subseteq Facts, S # {}
  PROVE  /\ Best(S).creditScore \in CreditScores
         /\ Worst(S).creditScore \in CreditScores
         /\ \A f \in S : /\ f.creditScore <= Best(S).creditScore
                         /\ Worst(S).creditScore <= f.creditScore
<1> DEFINE T == {f.creditScore : f \in S}
<1>1. T \subseteq CreditScores /\ T # {}
  BY DEF Facts
<1>2. IsFiniteSet(T) /\ T \subseteq Int
  <2> HIDE DEF T
  <2> QED
    BY <1>1, FinitelyManyScores
<1>3. /\ \E s \in CreditScores : (\E f \in S : f.creditScore = s) /\ \A f \in S : f.creditScore <= s
      /\ \E s \in CreditScores : (\E f \in S : f.creditScore = s) /\ \A f \in S : f.creditScore >= s
  <2>1. PICK s \in T : \A t \in T : t <= s
    <3> HIDE DEF T
    <3> QED
      BY <1>1, <1>2, WorstAndBestScore
  <2>2. PICK u \in T : \A t \in T : u <= t
    <3> HIDE DEF T
    <3> QED
      BY <1>1, <1>2, WorstAndBestScore
  <2>3. s \in CreditScores /\ (\E f \in S : f.creditScore = s) /\ \A f \in S : f.creditScore <= s
    BY <1>1, <2>1
  <2>4. u \in CreditScores /\ (\E f \in S : f.creditScore = u) /\ \A f \in S : f.creditScore >= u
    <3>1. \A f \in S : f.creditScore \in T
      OBVIOUS
    <3>2. \A t \in T : t >= u
      <4>1. \A t \in T : t \in Int /\ u \in Int
        BY <1>2
      <4> HIDE DEF T
      <4> QED
        BY <2>2, <4>1
    <3> QED
      BY <1>1, <3>1, <3>2
  <2> QED
    BY <2>3, <2>4
<1>4. /\ Best(S).creditScore = CHOOSE s \in CreditScores :
                                  /\ \E f \in S : f.creditScore = s
                                  /\ \A f \in S : f.creditScore <= s
      /\ Worst(S).creditScore = CHOOSE s \in CreditScores :
                                  /\ \E f \in S : f.creditScore = s
                                  /\ \A f \in S : f.creditScore >= s
  BY DEF Best, Worst
<1> DEFINE best == Best(S).creditScore
           worst == Worst(S).creditScore
<1>5. best \in CreditScores /\ \A f \in S : f.creditScore <= best
  BY <1>3, <1>4
<1>6. worst \in CreditScores /\ \A f \in S : f.creditScore >= worst
  BY <1>3, <1>4
<1>7. \A f \in S : f.creditScore \in Int /\ worst \in Int
  <2>1. \A f \in S : f.creditScore \in CreditScores
    BY DEF Facts
  <2>2. CreditScores \subseteq Int
    BY ScoresAreNumbers
  <2> HIDE DEF worst
  <2> QED
    BY <1>6, <2>1, <2>2
<1>8. \A f \in S : worst <= f.creditScore
  <2> HIDE DEF worst
  <2> QED
    BY <1>6, <1>7
<1> QED
  BY <1>5, <1>6, <1>8

\* EffectiveTier grows with every fact.
LEMMA TierGrows ==
  ASSUME NEW c, NEW f, NEW g,
         f.creditScore \in 0 .. 100, g.creditScore \in 0 .. 100,
         f.registered => g.registered,
         f.humanVerified => g.humanVerified,
         f.kycVerified => g.kycVerified,
         f.creditScore <= g.creditScore
  PROVE  EffectiveTier(c, f) <= EffectiveTier(c, g)
<1>1. MinScore(c) \in Int
  <2>1. MinCreditScore \in 0 .. 255
    BY PolicyConstants, Zenon DEF PolicyConstants
  <2> QED
    BY <2>1 DEF MinScore
<1> QED
  BY <1>1 DEF EffectiveTier

-----------------------------------------------------------------------------
(* The invariant.                                                          *)

Fresh == [status |-> "idle", pending |-> Reads, got |-> Nothing, defaulted |-> FALSE]

\* What a call has got is what one of the facts of its window says, or nothing.
SomeOf(got, S) ==
  /\ got.registered => \E f \in S : f.registered
  /\ got.humanVerified => \E f \in S : f.humanVerified
  /\ got.kycVerified => \E f \in S : f.kycVerified
  /\ got.creditScore = 0 \/ \E f \in S : f.creditScore = got.creditScore

\* Without an error what was read is what one of the facts of the window says.
ReadFrom(got, pending, S) ==
  /\ "isRegistered" \notin pending => \E f \in S : f.registered = got.registered
  /\ "isHumanVerified" \notin pending => \E f \in S : f.humanVerified = got.humanVerified
  /\ "isKYCVerified" \notin pending => \E f \in S : f.kycVerified = got.kycVerified
  /\ "getCreditScore" \notin pending => \E f \in S : f.creditScore = got.creditScore

\* The early return for an unregistered agent.
EndedEarly(got, pending, S) ==
  pending = {} /\ ~got.registered /\ \E f \in S : ~f.registered

CallInv(call, S) ==
  /\ call.status = "idle" => call = Fresh
  /\ call.status = "called" =>
       /\ S # {}
       /\ call.pending # {} => facts \in S
       /\ SomeOf(call.got, S)
       /\ ~call.defaulted => \/ ReadFrom(call.got, call.pending, S)
                             \/ EndedEarly(call.got, call.pending, S)

Calls == [status : {"idle", "called", "failed"}, pending : SUBSET Reads,
          got : Answers, defaulted : BOOLEAN]

StatusInv ==
  /\ facts \in ChainFacts
  /\ moves \in 0 .. MaxMoves
  /\ calls \in [Clients -> Calls]
  /\ seen \in [Clients -> SUBSET ChainFacts]
  /\ \A c \in Clients : CallInv(calls[c], seen[c])

\* Before any call.
LEMMA StatusAtStart == StatusInit => StatusInv
<1> SUFFICES ASSUME StatusInit
             PROVE  StatusInv
  OBVIOUS
<1>1. Nothing \in Answers
  BY ScoresAreNumbers DEF Nothing, Answers
<1>2. Fresh \in Calls
  BY <1>1 DEF Fresh, Calls
<1>3. calls = [c \in Clients |-> Fresh] /\ seen = [c \in Clients |-> {}] /\ moves = 0
  BY DEF StatusInit, Fresh
<1>4. CallInv(Fresh, {})
  BY DEF CallInv, Fresh
<1>5. \A c \in Clients : CallInv(calls[c], seen[c])
  BY <1>3, <1>4
<1>6. calls \in [Clients -> Calls] /\ seen \in [Clients -> SUBSET ChainFacts]
  BY <1>2, <1>3
<1>7. moves \in 0 .. MaxMoves
  BY <1>3, StatusConstants
<1> QED
  BY <1>5, <1>6, <1>7 DEF StatusInv, StatusInit

\* Transactions keep the facts consistent.
LEMMA MovesKeepFacts ==
  ASSUME NEW f \in ChainFacts, NEW g \in ChainMoves(f)
  PROVE  g \in ChainFacts
<1>1. f \in Facts /\ (f = NoFacts \/ f.registered) /\ (f.hasScore \/ f.creditScore = 0)
  BY DEF ChainFacts
<1>2. CASE ~f.registered
  BY <1>1, <1>2 DEF ChainMoves, ChainFacts, Facts
<1>3. CASE f.registered
  <2>1. \/ \E b \in BOOLEAN : g = [f EXCEPT !.humanMetadata = b, !.humanVerified = b]
        \/ \E b \in BOOLEAN : g = [f EXCEPT !.humanMetadata = b]
        \/ \E b \in BOOLEAN : g = [f EXCEPT !.kycVerified = b]
        \/ \E s \in CreditScores : g = [f EXCEPT !.hasScore = TRUE, !.creditScore = s]
    <3>1. ChainMoves(f) =
            {[f EXCEPT !.humanMetadata = b, !.humanVerified = b] : b \in BOOLEAN}
              \cup {[f EXCEPT !.humanMetadata = b] : b \in BOOLEAN}
              \cup {[f EXCEPT !.kycVerified = b] : b \in BOOLEAN}
              \cup {[f EXCEPT !.hasScore = TRUE, !.creditScore = s] : s \in CreditScores}
      BY <1>3, Zenon DEF ChainMoves
    <3> QED
      BY <3>1, Zenon
  <2>2. ASSUME NEW b \in BOOLEAN, g = [f EXCEPT !.humanMetadata = b, !.humanVerified = b]
        PROVE  g \in ChainFacts
    BY <1>1, <1>3, <2>2 DEF ChainFacts, Facts
  <2>3. ASSUME NEW b \in BOOLEAN, g = [f EXCEPT !.humanMetadata = b]
        PROVE  g \in ChainFacts
    BY <1>1, <1>3, <2>3 DEF ChainFacts, Facts
  <2>4. ASSUME NEW b \in BOOLEAN, g = [f EXCEPT !.kycVerified = b]
        PROVE  g \in ChainFacts
    BY <1>1, <1>3, <2>4 DEF ChainFacts, Facts
  <2>5. ASSUME NEW s \in CreditScores, g = [f EXCEPT !.hasScore = TRUE, !.creditScore = s]
        PROVE  g \in ChainFacts
    BY <1>1, <1>3, <2>5 DEF ChainFacts, Facts
  <2> QED
    BY <2>1, <2>2, <2>3, <2>4, <2>5, Zenon
<1> QED
  BY <1>2, <1>3, Zenon

\* A transaction during a call makes its window longer.
LEMMA MoveKeepsStatus ==
  ASSUME StatusInv, ChainMove
  PROVE  StatusInv'
<1>1. facts' \in ChainFacts
  BY MovesKeepFacts DEF StatusInv, ChainMove
<1>2. moves' \in 0 .. MaxMoves
  BY StatusConstants DEF StatusInv, ChainMove
<1>3. calls' = calls
  BY DEF ChainMove
<1>4. /\ seen' \in [Clients -> SUBSET ChainFacts]
      /\ \A c \in Clients :
           seen'[c] = IF calls[c].status = "called" /\ ~Answered(c) THEN seen[c] \cup {facts'}
                                                                   ELSE seen[c]
  BY <1>1 DEF StatusInv, ChainMove
<1>5. ASSUME NEW c \in Clients
      PROVE  CallInv(calls[c], seen[c])'
  <2>1. CallInv(calls[c], seen[c])
    BY DEF StatusInv
  <2>2. CASE calls[c].status = "called" /\ calls[c].pending # {}
    <3>1. seen'[c] = seen[c] \cup {facts'}
      BY <1>4, <2>2 DEF Answered
    <3> QED
      BY <1>3, <2>1, <2>2, <3>1 DEF CallInv, SomeOf, ReadFrom, EndedEarly
  <2>3. CASE ~(calls[c].status = "called" /\ calls[c].pending # {})
    <3>1. seen'[c] = seen[c]
      BY <1>4, <2>3 DEF Answered
    <3> QED
      BY <1>3, <2>1, <2>3, <3>1 DEF CallInv, SomeOf, ReadFrom, EndedEarly
  <2> QED
    BY <2>2, <2>3
<1> QED
  BY <1>1, <1>2, <1>3, <1>4, <1>5 DEF StatusInv

\* What one call does leaves the others' invariant alone.
LEMMA OneCallMoves ==
  ASSUME StatusInv, NEW c \in Clients, NEW call \in Calls, NEW S \in SUBSET ChainFacts,
         calls' = [calls EXCEPT ![c] = call], seen' = [seen EXCEPT ![c] = S],
         UNCHANGED <<facts, moves>>, CallInv(call, S)
  PROVE  StatusInv'
<1>1. /\ calls' \in [Clients -> Calls] /\ seen' \in [Clients -> SUBSET ChainFacts]
      /\ \A d \in Clients : /\ calls'[d] = IF d = c THEN call ELSE calls[d]
                            /\ seen'[d] = IF d = c THEN S ELSE seen[d]
  <2>1. calls \in [Clients -> Calls] /\ seen \in [Clients -> SUBSET ChainFacts]
    BY DEF StatusInv
  <2> HIDE DEF StatusInv
  <2>2. calls' \in [Clients -> Calls] /\ seen' \in [Clients -> SUBSET ChainFacts]
    BY <2>1
  <2>3. \A d \in Clients : calls'[d] = IF d = c THEN call ELSE calls[d]
    BY <2>1
  <2>4. \A d \in Clients : seen'[d] = IF d = c THEN S ELSE seen[d]
    BY <2>1
  <2> QED
    BY <2>2, <2>3, <2>4
<1>2. ASSUME NEW d \in Clients
      PROVE  CallInv(calls[d], seen[d])'
  <2>1. CallInv(calls'[d], seen'[d])
    BY <1>1 DEF StatusInv
  <2> QED
    BY <2>1 DEF CallInv
<1> QED
  BY <1>1, <1>2 DEF StatusInv

LEMMA CallKeepsStatus ==
  ASSUME StatusInv, NEW c \in Clients, GetFullStatus(c)
  PROVE  StatusInv'
<1> DEFINE call == [Fresh EXCEPT !.status = "called"]
<1>1. calls[c] = Fresh
  BY DEF StatusInv, CallInv, GetFullStatus
<1>2. /\ calls' = [calls EXCEPT ![c] = call]
      /\ seen' = [seen EXCEPT ![c] = {facts}]
      /\ UNCHANGED <<facts, moves>>
  BY <1>1 DEF GetFullStatus
<1>3. Fresh \in Calls
  BY <1>1 DEF StatusInv
<1>4. call \in Calls
  BY <1>3 DEF Calls
<1>5. /\ call.status = "called" /\ call.pending = Reads /\ call.got = Nothing
      /\ call.defaulted = FALSE
  BY DEF Fresh
<1>6. CallInv(call, {facts})
  <2>1. SomeOf(Nothing, {facts})
    BY DEF SomeOf, Nothing
  <2>2. ReadFrom(Nothing, Reads, {facts})
    BY DEF ReadFrom, Reads
  <2> HIDE DEF call
  <2> QED
    BY <1>5, <2>1, <2>2 DEF CallInv
<1>7. {facts} \in SUBSET ChainFacts
  BY DEF StatusInv
<1> HIDE DEF call
<1> QED
  BY <1>2, <1>4, <1>6, <1>7, OneCallMoves

\* What a read adds, field by field.
LEMMA KnownFields ==
  ASSUME NEW got \in Answers, NEW r \in Reads, NEW g,
         g.registered \in BOOLEAN, g.humanVerified \in BOOLEAN, g.kycVerified \in BOOLEAN,
         g.creditScore \in CreditScores
  PROVE  LET k == Known(got, r, g) IN
         /\ k \in Answers
         /\ k.registered = IF r = "isRegistered" THEN g.registered ELSE got.registered
         /\ k.humanVerified = IF r = "isHumanVerified" THEN g.humanVerified ELSE got.humanVerified
         /\ k.kycVerified = IF r = "isKYCVerified" THEN g.kycVerified ELSE got.kycVerified
         /\ k.creditScore = IF r = "getCreditScore" THEN g.creditScore ELSE got.creditScore
<1>1. CASE r = "isRegistered"
  BY <1>1 DEF Known, Answers
<1>2. CASE r = "isHumanVerified"
  BY <1>2 DEF Known, Answers
<1>3. CASE r = "isKYCVerified"
  BY <1>3 DEF Known, Answers
<1>4. CASE r = "getCreditScore"
  BY <1>4 DEF Known, Answers
<1>5. CASE r \in {"getOwner", "getAgentWallet"}
  BY <1>5 DEF Known, Answers
<1> QED
  BY <1>1, <1>2, <1>3, <1>4, <1>5 DEF Reads

\* The record of a call after an answer.
AnsweredCall(call, old, pending, got, flag) ==
  /\ call.status = "called" /\ call.pending = pending
  /\ call.got = got /\ call.defaulted = flag
  /\ old \in Calls /\ pending \in SUBSET Reads /\ got \in Answers => call \in Calls

LEMMA AnswerRecorded ==
  ASSUME NEW old \in Calls, old.status = "called", NEW p, NEW got
  PROVE  /\ AnsweredCall([old EXCEPT !.got = got, !.pending = p], old, p, got, old.defaulted)
         /\ AnsweredCall([old EXCEPT !.got = got, !.pending = p, !.defaulted = TRUE],
                         old, p, got, TRUE)
<1>1. AnsweredCall([old EXCEPT !.got = got, !.pending = p], old, p, got, old.defaulted)
  BY DEF AnsweredCall, Calls
<1>2. AnsweredCall([old EXCEPT !.got = got, !.pending = p, !.defaulted = TRUE], old, p, got, TRUE)
  BY DEF AnsweredCall, Calls
<1> QED
  BY <1>1, <1>2

\* An answer, of the chain as it is or of an error, comes from the window.
LEMMA AnswerKeepsStatus ==
  ASSUME StatusInv, NEW c \in Clients, NEW r \in Reads, NEW g, NEW flag \in BOOLEAN,
         calls[c].status = "called", r \in Ready(c),
         \/ g = facts /\ flag = calls[c].defaulted
         \/ g = Nothing /\ flag = TRUE,
         NEW got, got = Known(calls[c].got, r, g),
         NEW call, AnsweredCall(call, calls[c], Remaining(c, r, got), got, flag),
         calls' = [calls EXCEPT ![c] = call],
         UNCHANGED <<facts, moves, seen>>
  PROVE  StatusInv'
<1> DEFINE old == calls[c]
           S == seen[c]
<1>1. old \in Calls /\ S \in SUBSET ChainFacts /\ CallInv(old, S)
  BY DEF StatusInv
<1>2. r \in old.pending /\ facts \in S
  BY <1>1 DEF Ready, CallInv
<1>3. /\ g.registered \in BOOLEAN /\ g.humanVerified \in BOOLEAN /\ g.kycVerified \in BOOLEAN
      /\ g.creditScore \in CreditScores
  <2>1. CASE g = facts
    <3>1. facts \in Facts
      BY DEF StatusInv, ChainFacts
    <3> QED
      BY <2>1, <3>1 DEF Facts
  <2>2. CASE g = Nothing
    BY <2>2, ScoresAreNumbers DEF Nothing
  <2> QED
    BY <2>1, <2>2
<1>4. old.got \in Answers /\ old.pending \in SUBSET Reads
  BY <1>1 DEF Calls
<1>5. /\ got \in Answers
      /\ got.registered = IF r = "isRegistered" THEN g.registered ELSE old.got.registered
      /\ got.humanVerified = IF r = "isHumanVerified" THEN g.humanVerified ELSE old.got.humanVerified
      /\ got.kycVerified = IF r = "isKYCVerified" THEN g.kycVerified ELSE old.got.kycVerified
      /\ got.creditScore = IF r = "getCreditScore" THEN g.creditScore ELSE old.got.creditScore
  <2> HIDE DEF old
  <2> QED
    BY <1>3, <1>4, KnownFields DEF old
<1>6. /\ Remaining(c, r, got) = IF r = "isRegistered" /\ ~got.registered THEN {}
                                                                         ELSE old.pending \ {r}
      /\ Remaining(c, r, got) \in SUBSET Reads
  BY <1>4 DEF Remaining
<1> HIDE DEF old, S
<1>7. SomeOf(got, S)
  <2>1. SomeOf(old.got, S)
    BY <1>1 DEF CallInv, old
  <2>2. CASE g = facts
    BY <1>2, <1>5, <2>1, <2>2 DEF SomeOf
  <2>3. CASE g = Nothing
    BY <1>5, <2>1, <2>3 DEF SomeOf, Nothing
  <2> QED
    BY <2>2, <2>3
<1>8. ASSUME flag = FALSE
      PROVE  ReadFrom(got, Remaining(c, r, got), S) \/ EndedEarly(got, Remaining(c, r, got), S)
  <2>1. g = facts /\ old.defaulted = FALSE
    BY <1>8 DEF old
  <2>2. ReadFrom(old.got, old.pending, S)
    BY <1>1, <1>2, <2>1 DEF CallInv, EndedEarly, old
  <2>3. CASE r = "isRegistered" /\ ~got.registered
    BY <1>2, <1>5, <1>6, <2>1, <2>3 DEF EndedEarly
  <2>4. CASE ~(r = "isRegistered" /\ ~got.registered)
    <3>1. Remaining(c, r, got) = old.pending \ {r}
      BY <1>6, <2>4
    <3>2. ReadFrom(got, old.pending \ {r}, S)
      BY <1>2, <1>5, <2>1, <2>2 DEF ReadFrom
    <3> QED
      BY <3>1, <3>2
  <2> QED
    BY <2>3, <2>4
<1>9. CallInv(call, S)
  <2>1. /\ call.status = "called" /\ call.pending = Remaining(c, r, got)
        /\ call.got = got /\ call.defaulted = flag
    BY DEF AnsweredCall
  <2> QED
    BY <1>2, <1>7, <1>8, <2>1 DEF CallInv
<1>10. call \in Calls
  BY <1>1, <1>5, <1>6 DEF AnsweredCall, old
<1>11. seen' = [seen EXCEPT ![c] = S]
  BY DEF S, StatusInv
<1> QED
  BY <1>1, <1>9, <1>10, <1>11, OneCallMoves

LEMMA ReadKeepsStatus ==
  ASSUME StatusInv, NEW c \in Clients, NEW r \in Reads, Read(c, r)
  PROVE  StatusInv'
<1> DEFINE old == calls[c]
           got == Known(old.got, r, facts)
           call == [old EXCEPT !.got = got, !.pending = Remaining(c, r, got)]
<1>1. old \in Calls
  BY DEF StatusInv
<1>2. calls' = [calls EXCEPT ![c] = call]
  BY DEF Read, StatusInv
<1>3. /\ old.status = "called" /\ r \in Ready(c) /\ UNCHANGED <<facts, moves, seen>>
      /\ old.defaulted \in BOOLEAN
  BY <1>1 DEF Read, Calls
<1>4. AnsweredCall(call, old, Remaining(c, r, got), got, old.defaulted)
  <2> HIDE DEF got, old
  <2> QED
    BY <1>1, <1>3, AnswerRecorded
<1>5. got = Known(calls[c].got, r, facts)
  OBVIOUS
<1> HIDE DEF got, call
<1> QED
  BY <1>2, <1>3, <1>4, <1>5, AnswerKeepsStatus

LEMMA ErrorKeepsStatus ==
  ASSUME StatusInv, NEW c \in Clients, NEW r \in Reads, ReadError(c, r)
  PROVE  StatusInv'
<1> DEFINE old == calls[c]
           got == Known(old.got, r, Nothing)
<1>1. old \in Calls
  BY DEF StatusInv
<1>2. /\ old.status = "called" /\ r \in Ready(c) /\ UNCHANGED <<facts, moves, seen>>
  BY DEF ReadError
<1>3. CASE r \in Swallowed
  <2> DEFINE call == [old EXCEPT !.got = got, !.pending = Remaining(c, r, got),
                                 !.defaulted = TRUE]
  <2>1. calls' = [calls EXCEPT ![c] = call]
    BY <1>3 DEF ReadError, StatusInv
  <2>2. AnsweredCall(call, old, Remaining(c, r, got), got, TRUE)
    <3> HIDE DEF got, old
    <3> QED
      BY <1>1, <1>2, AnswerRecorded
  <2>3. got = Known(calls[c].got, r, Nothing)
    OBVIOUS
  <2> HIDE DEF got, call
  <2> QED
    BY <1>2, <2>1, <2>2, <2>3, AnswerKeepsStatus
<1>4. CASE r \notin Swallowed
  <2> DEFINE call == [old EXCEPT !.status = "failed"]
  <2>1. calls' = [calls EXCEPT ![c] = call]
    BY <1>4 DEF ReadError, StatusInv
  <2>2. call \in Calls /\ call.status = "failed"
    <3> HIDE DEF old
    <3> QED
      BY <1>1 DEF Calls
  <2>3. seen[c] \in SUBSET ChainFacts /\ seen' = [seen EXCEPT ![c] = seen[c]]
    BY <1>2 DEF StatusInv
  <2> HIDE DEF call
  <2>4. CallInv(call, seen[c])
    BY <2>2 DEF CallInv
  <2> QED
    BY <1>2, <2>1, <2>2, <2>3, <2>4, OneCallMoves
<1> QED
  BY <1>3, <1>4

LEMMA StatusInductive == StatusInv /\ [StatusNext]_vars => StatusInv'
<1> SUFFICES ASSUME StatusInv, [StatusNext]_vars
             PROVE  StatusInv'
  OBVIOUS
<1>1. CASE UNCHANGED vars
  <2>1. UNCHANGED <<facts, moves, calls, seen>>
    BY <1>1 DEF vars
  <2>2. \A c \in Clients : CallInv(calls[c], seen[c])'
    BY <2>1 DEF StatusInv, CallInv
  <2> QED
    BY <2>1, <2>2 DEF StatusInv
<1> QED
  BY <1>1, MoveKeepsStatus, CallKeepsStatus, ReadKeepsStatus, ErrorKeepsStatus DEF StatusNext

THEOREM StatusInvariant == StatusSpec => []StatusInv
BY StatusAtStart, StatusInductive, PTL DEF StatusSpec

-----------------------------------------------------------------------------
(* The theorems.                                                           *)

\* StatusWithinCall for every value of the constants (getFullStatus of both SDKs):
\* however reads, errors and transactions interleave, the tier is within what the
\* facts of the call's window allow, one by one.
THEOREM StatusStaysWithinCall == StatusSpec => []StatusWithinCall
<1>1. StatusInv => StatusWithinCall
  <2> SUFFICES ASSUME StatusInv, NEW c \in Clients, Answered(c)
               PROVE  /\ EffectiveTier(c, calls[c].got) <= EffectiveTier(c, Best(seen[c]))
                      /\ ~calls[c].defaulted =>
                           EffectiveTier(c, Worst(seen[c])) <= EffectiveTier(c, calls[c].got)
    BY DEF StatusWithinCall
  <2> DEFINE call == calls[c]
             got == call.got
             S == seen[c]
  <2>1. call \in Calls /\ S \in SUBSET ChainFacts /\ CallInv(call, S)
    BY DEF StatusInv
  <2>2. call.status = "called" /\ call.pending = {}
    BY DEF Answered
  <2> HIDE DEF call, S
  <2>3. S # {} /\ SomeOf(got, S)
    BY <2>1, <2>2 DEF CallInv
  <2>4. S \subseteq Facts
    BY <2>1 DEF ChainFacts
  <2>5. /\ Best(S).creditScore \in CreditScores /\ Worst(S).creditScore \in CreditScores
        /\ \A f \in S : /\ f.creditScore <= Best(S).creditScore
                        /\ Worst(S).creditScore <= f.creditScore
    BY <2>3, <2>4, EndsOfScores
  <2>6. /\ Best(S).creditScore \in 0 .. 100 /\ Worst(S).creditScore \in 0 .. 100
        /\ got.creditScore \in 0 .. 100
    <3>1. got.creditScore \in CreditScores
      BY <2>1 DEF Calls, Answers
    <3> QED
      BY <2>5, <3>1, ScoresAreNumbers
  <2>7. /\ Best(S).registered = \E f \in S : f.registered
        /\ Best(S).humanVerified = \E f \in S : f.humanVerified
        /\ Best(S).kycVerified = \E f \in S : f.kycVerified
        /\ Worst(S).registered = \A f \in S : f.registered
        /\ Worst(S).humanVerified = \A f \in S : f.humanVerified
        /\ Worst(S).kycVerified = \A f \in S : f.kycVerified
    BY DEF Best, Worst
  <2>8. EffectiveTier(c, got) <= EffectiveTier(c, Best(S))
    <3>1. got.creditScore <= Best(S).creditScore
      BY <2>3, <2>5, <2>6 DEF SomeOf
    <3>2. /\ got.registered => Best(S).registered
          /\ got.humanVerified => Best(S).humanVerified
          /\ got.kycVerified => Best(S).kycVerified
      BY <2>3, <2>7 DEF SomeOf
    <3> HIDE DEF got
    <3> QED
      BY <2>6, <3>1, <3>2, TierGrows
  <2>9. ASSUME ~call.defaulted
        PROVE  EffectiveTier(c, Worst(S)) <= EffectiveTier(c, got)
    <3>1. CASE ReadFrom(got, {}, S)
      <4>1. Worst(S).creditScore <= got.creditScore
        BY <2>5, <3>1 DEF ReadFrom
      <4>2. /\ Worst(S).registered => got.registered
            /\ Worst(S).humanVerified => got.humanVerified
            /\ Worst(S).kycVerified => got.kycVerified
        BY <2>7, <3>1 DEF ReadFrom
      <4> HIDE DEF got
      <4> QED
        BY <2>6, <4>1, <4>2, TierGrows
    <3>2. CASE EndedEarly(got, {}, S)
      BY <2>7, <3>2 DEF EndedEarly, EffectiveTier
    <3> QED
      BY <2>1, <2>2, <2>9, <3>1, <3>2 DEF CallInv
  <2> QED
    BY <2>8, <2>9 DEF call, S
<1> QED
  BY <1>1, StatusInvariant, PTL

\* QuietStatusIsLevel for every value of the constants with a minimal score
\* above 0: with 0 the level asks for a score, the TypeScript client for none,
\* and the Go client for 50.
THEOREM QuietStatusIsTheLevel ==
  ASSUME MinCreditScore # 0
  PROVE  StatusSpec => []QuietStatusIsLevel
<1>1. StatusInv => QuietStatusIsLevel
  <2> SUFFICES ASSUME StatusInv, NEW c \in Clients, Quiet(c), NEW f \in seen[c],
                      f.humanMetadata = f.humanVerified
               PROVE  EffectiveTier(c, calls[c].got) = Level(f)
    BY DEF QuietStatusIsLevel
  <2> DEFINE call == calls[c]
             got == call.got
             S == seen[c]
  <2>1. call \in Calls /\ f \in ChainFacts /\ CallInv(call, S)
    BY DEF StatusInv
  <2>2. call.status = "called" /\ call.pending = {} /\ ~call.defaulted /\ S = {f}
    BY DEF Quiet, Answered
  <2> HIDE DEF call, S
  <2>3. ReadFrom(got, {}, {f}) \/ EndedEarly(got, {}, {f})
    BY <2>1, <2>2 DEF CallInv
  <2>4. /\ f.creditScore \in 0 .. 100
        /\ f \in Facts
        /\ f.hasScore \/ f.creditScore = 0
    BY <2>1, ScoresAreNumbers DEF ChainFacts, Facts
  <2>5. MinCreditScore \in 1 .. 255 /\ MinScore(c) = MinCreditScore
    <3>1. MinCreditScore \in 0 .. 255
      BY PolicyConstants, Zenon DEF PolicyConstants
    <3> QED
      BY <3>1 DEF MinScore
  <2>6. f.creditScore < MinCreditScore <=> ~CreditConfirmed(f)
    BY <2>4, <2>5 DEF CreditConfirmed
  <2>7. ASSUME EndedEarly(got, {}, {f})
        PROVE  EffectiveTier(c, got) = Level(f)
    BY <2>7 DEF EndedEarly, EffectiveTier, Level
  <2>8. ASSUME ReadFrom(got, {}, {f})
        PROVE  EffectiveTier(c, got) = Level(f)
    <3>1. /\ got.registered = f.registered /\ got.humanVerified = f.humanVerified
          /\ got.kycVerified = f.kycVerified /\ got.creditScore = f.creditScore
      BY <2>8 DEF ReadFrom
    <3>2. f.registered => (HumanConfirmed(f) <=> f.humanVerified)
      BY <2>4 DEF HumanConfirmed, Facts
    <3> HIDE DEF got
    <3> QED
      BY <2>4, <2>5, <2>6, <3>1, <3>2 DEF EffectiveTier, Level, HumanConfirmed, CreditConfirmed, Facts
  <2> QED
    BY <2>3, <2>7, <2>8 DEF call
<1> QED
  BY <1>1, StatusInvariant, PTL
=============================================================================
