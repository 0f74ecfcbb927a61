---------------------- MODULE ReputationRegistryProofs ----------------------
(***************************************************************************)
(* Feedback, its revocation and the responses, for any number of agents,   *)
(* accounts and calls. The inductive invariant is the type of the state,   *)
(* that the arrays list each client and each responder once, and where     *)
(* feedback and responses can be; what the registry of agents does beside  *)
(* it is of no account.                                                    *)
(***************************************************************************)
EXTENDS ReputationRegistry, ListsAndSums

\* The type of the state, without the bound on the number of responses.
ReputationTyped ==
  /\ feedback \in [AgentIds -> [Users -> Seq(Feedback)]]
  /\ clients \in [AgentIds -> Seq(Users)]
  /\ responders \in [AgentIds -> [Users -> [Indexes -> Seq(Users)]]]
  /\ responseCount \in [AgentIds -> [Users -> [Indexes -> [Users -> Nat]]]]

\* No client exceeds the bound on feedback.
WithinBounds == \A a \in AgentIds, c \in Users : Len(feedback[a][c]) <= MaxFeedback

\* Only feedback is responded to.
ResponsesHaveFeedback ==
  \A a \in AgentIds, c \in Users, j \in Indexes :
    j \notin DOMAIN feedback[a][c] => \A r \in Users : responseCount[a][c][j][r] = 0

ReputationInv ==
  /\ ReputationTyped
  /\ WithinBounds
  /\ ArraysIndexMappings
  /\ ResponsesHaveFeedback

allVars == <<registryVars, reputationVars>>

-----------------------------------------------------------------------------
(* Lists with each element once.                                           *)

\* How often an element is in a list: never exactly if the list does not contain it.
LEMMA OnceFacts ==
  ASSUME NEW S, NEW s \in Seq(S), NEW x
  PROVE  /\ Once(s, x) \in Nat
         /\ Once(s, x) = 0 <=> ~Contains(s, x)
<1>1. Len(s) \in Nat /\ DOMAIN s = 1 .. Len(s)
  BY LenProperties
<1>2. IsFiniteSet(Places(s, x)) /\ Cardinality(Places(s, x)) \in Nat
  BY PlacesFinite
<1>3. Once(s, x) = Cardinality(Places(s, x))
  BY DEF Once, Places
<1>4. Cardinality(Places(s, x)) = 0 <=> Places(s, x) = {}
  BY <1>2, FS_EmptySet
<1>5. Places(s, x) = {} <=> ~Contains(s, x)
  BY <1>1 DEF Places, Contains
<1> QED
  BY <1>2, <1>3, <1>4, <1>5

\* What is in a list once is in one place of it.
LEMMA OnceIsOnePlace ==
  ASSUME NEW S, NEW s \in Seq(S), NEW x, Once(s, x) = 1
  PROVE  /\ \E i \in DOMAIN s : s[i] = x
         /\ \A i, j \in DOMAIN s : s[i] = x /\ s[j] = x => i = j
<1>1. IsFiniteSet(Places(s, x)) /\ Cardinality(Places(s, x)) = 1
  BY PlacesFinite DEF Once, Places
<1>2. PICK k : Places(s, x) = {k}
  BY <1>1, FS_Singleton
<1> QED
  BY <1>2 DEF Places

\* PushNew (the arrays with their flags): the element is there afterwards, once if
\* it was not there before, and everything else as often as before.
LEMMA PushNewCounts ==
  ASSUME NEW S, NEW s \in Seq(S), NEW y \in S, NEW x
  PROVE  /\ PushNew(s, y) \in Seq(S)
         /\ x = y /\ Once(s, x) = 0 => Once(PushNew(s, y), x) = 1
         /\ x # y \/ Once(s, x) # 0 => Once(PushNew(s, y), x) = Once(s, x)
<1>1. Once(s, y) = 0 <=> ~Contains(s, y)
  BY OnceFacts
<1>2. CASE Contains(s, y)
  BY <1>1, <1>2 DEF PushNew
<1>3. CASE ~Contains(s, y)
  <2>1. PushNew(s, y) = Append(s, y)
    BY <1>3 DEF PushNew
  <2>2. Append(s, y) \in Seq(S)
    OBVIOUS
  <2>3. Once(Append(s, y), x) = IF x = y THEN Once(s, x) + 1 ELSE Once(s, x)
    <3>1. \A t : Once(t, x) = Cardinality(Places(t, x))
      BY DEF Once, Places
    <3> QED
      BY <3>1, AppendCounts
  <2>4. x = y => Once(s, x) = 0
    BY <1>1, <1>3
  <2> QED
    BY <2>1, <2>2, <2>3, <2>4
<1> QED
  BY <1>2, <1>3

-----------------------------------------------------------------------------
(* The invariant.                                                          *)

\* Nothing is listed at the start.
LEMMA ReputationAtStart == ReputationInit => ReputationInv
<1> SUFFICES ASSUME ReputationInit
             PROVE  ReputationInv
  OBVIOUS
<1>1. ReputationTyped
  BY DEF ReputationInit, ReputationTyped
<1>2. \A x : Once(<<>>, x) = 0
  <2>1. \A x : {i \in DOMAIN <<>> : <<>>[i] = x} = {}
    OBVIOUS
  <2> QED
    BY <2>1, FS_EmptySet DEF Once
<1>3. ArraysIndexMappings
  BY <1>2 DEF ReputationInit, ArraysIndexMappings
<1>4. WithinBounds /\ ResponsesHaveFeedback
  BY ReputationConstants DEF ReputationInit, WithinBounds, ResponsesHaveFeedback
<1> QED
  BY <1>1, <1>3, <1>4 DEF ReputationInv

\* Feedback is finite, and with room for more about the agent there is room for
\* more by each client.
LEMMA GivenFinite ==
  ASSUME ReputationTyped, WithinBounds, NEW a \in AgentIds
  PROVE  /\ IsFiniteSet(Users \X Indexes)
         /\ GivenAbout(a) \in SUBSET (Users \X Indexes)
         /\ IsFiniteSet(GivenAbout(a))
         /\ \A c \in Users : DOMAIN feedback[a][c] \subseteq Indexes
         /\ \A c \in Users :
              FeedbackGiven(a) < MaxFeedback => Len(feedback[a][c]) < MaxFeedback
<1>1. \A c \in Users :
        /\ Len(feedback[a][c]) \in Nat /\ Len(feedback[a][c]) <= MaxFeedback
        /\ DOMAIN feedback[a][c] = 1 .. Len(feedback[a][c])
  BY DEF ReputationTyped, WithinBounds
<1>2. \A c \in Users : DOMAIN feedback[a][c] \subseteq Indexes
  BY <1>1, ReputationConstants DEF Indexes
<1>3. IsFiniteSet(Users \X Indexes)
  <2>1. IsFiniteSet(Indexes)
    BY CountUp, ReputationConstants DEF Indexes
  <2>2. IsFiniteSet(Users)
    BY ReputationConstants
  <2> QED
    BY <2>1, <2>2, FS_Product
<1>4. GivenAbout(a) \in SUBSET (Users \X Indexes)
  BY <1>2 DEF GivenAbout
<1>5. IsFiniteSet(GivenAbout(a))
  BY <1>3, <1>4, FS_Subset
<1>6. ASSUME NEW c \in Users, FeedbackGiven(a) < MaxFeedback
      PROVE  Len(feedback[a][c]) < MaxFeedback
  <2>1. PICK n \in Nat : n = Len(feedback[a][c]) /\ DOMAIN feedback[a][c] = 1 .. n
    BY <1>1
  <2> DEFINE own == {c} \X (1 .. n)
  <2>2. own \in SUBSET GivenAbout(a)
    BY <2>1 DEF GivenAbout
  <2>3. IsFiniteSet({c}) /\ Cardinality({c}) = 1
    BY FS_Singleton
  <2>4. IsFiniteSet(1 .. n) /\ Cardinality(1 .. n) = n
    BY CountUp
  <2>5. Cardinality(own) = 1 * n
    BY <2>3, <2>4, FS_Product
  <2> HIDE DEF own
  <2>6. Cardinality(own) <= Cardinality(GivenAbout(a))
    BY <1>5, <2>2, FS_Subset
  <2>7. Cardinality(GivenAbout(a)) \in Nat
    BY <1>5, FS_CardinalityType
  <2> QED
    BY <1>6, <2>1, <2>5, <2>6, <2>7, ReputationConstants DEF FeedbackGiven
<1> QED
  BY <1>2, <1>3, <1>4, <1>5, <1>6

\* The new entry of an opinion that is within the bounds.
LEMMA GivenIsFeedback ==
  ASSUME NEW o \in Opinions, o.valueDecimals <= MaxDecimals,
         o.value \in -MAX_ABS_VALUE .. MAX_ABS_VALUE
  PROVE  [value |-> o.value, valueDecimals |-> o.valueDecimals,
          tag1 |-> o.tag1, tag2 |-> o.tag2, isRevoked |-> FALSE] \in Feedback
<1>1. o.valueDecimals \in 0 .. MaxDecimals
  BY ReputationConstants
<1>2. o.tag1 \in OpinionTags /\ o.tag2 \in OpinionTags
  BY DEF OpinionTags
<1> QED
  BY <1>1, <1>2 DEF Feedback

\* A client's list is no longer empty, and the client is listed.
LEMMA GiveKeepsInv ==
  ASSUME ReputationInv, NEW sender \in Users, NEW a \in AgentIds, NEW o \in Opinions,
         GiveFeedback(sender, a, o)
  PROVE  ReputationInv'
<1> DEFINE f == [value |-> o.value, valueDecimals |-> o.valueDecimals,
                 tag1 |-> o.tag1, tag2 |-> o.tag2, isRevoked |-> FALSE]
<1>1. f \in Feedback
  BY GivenIsFeedback DEF GiveFeedback
<1>2. /\ feedback' = [feedback EXCEPT ![a][sender] = Append(@, f)]
      /\ clients' = [clients EXCEPT ![a] = PushNew(@, sender)]
      /\ UNCHANGED <<responders, responseCount>>
  BY DEF GiveFeedback
<1> HIDE DEF f
<1>3. /\ feedback[a][sender] \in Seq(Feedback)
      /\ clients[a] \in Seq(Users)
  BY DEF ReputationInv, ReputationTyped
<1>4. Append(feedback[a][sender], f) \in Seq(Feedback) /\ Append(feedback[a][sender], f) # <<>>
  BY <1>1, <1>3
<1>5. PushNew(clients[a], sender) \in Seq(Users)
  BY <1>3, PushNewCounts
<1>6. ReputationTyped'
  <2>1. feedback' \in [AgentIds -> [Users -> Seq(Feedback)]]
    BY <1>2, <1>4 DEF ReputationInv, ReputationTyped
  <2>2. clients' \in [AgentIds -> Seq(Users)]
    BY <1>2, <1>5 DEF ReputationInv, ReputationTyped
  <2> QED
    BY <1>2, <2>1, <2>2 DEF ReputationInv, ReputationTyped
<1>7. ASSUME NEW b \in AgentIds, NEW c \in Users
      PROVE  Once(clients'[b], c) = IF feedback'[b][c] = <<>> THEN 0 ELSE 1
  <2>1. Once(clients[b], c) = IF feedback[b][c] = <<>> THEN 0 ELSE 1
    BY DEF ReputationInv, ArraysIndexMappings
  <2>2. CASE b # a
    <3>1. clients'[b] = clients[b] /\ feedback'[b] = feedback[b]
      BY <1>2, <2>2 DEF ReputationInv, ReputationTyped
    <3> QED
      BY <2>1, <3>1
  <2>3. CASE b = a /\ c # sender
    <3>1. clients'[b] = PushNew(clients[a], sender) /\ feedback'[b][c] = feedback[b][c]
      BY <1>2, <2>3 DEF ReputationInv, ReputationTyped
    <3>2. Once(PushNew(clients[a], sender), c) = Once(clients[a], c)
      BY <1>3, <2>3, PushNewCounts
    <3> QED
      BY <2>1, <2>3, <3>1, <3>2
  <2>4. CASE b = a /\ c = sender
    <3>1. /\ clients'[b] = PushNew(clients[a], sender)
          /\ feedback'[b][c] = Append(feedback[a][sender], f)
      BY <1>2, <2>4 DEF ReputationInv, ReputationTyped
    <3>2. Once(PushNew(clients[a], sender), sender) = 1
      BY <1>3, <2>1, <2>4, PushNewCounts
    <3> QED
      BY <1>4, <2>4, <3>1, <3>2
  <2> QED
    BY <2>2, <2>3, <2>4
<1>8. ArraysIndexMappings'
  BY <1>2, <1>7 DEF ReputationInv, ArraysIndexMappings
<1>9. WithinBounds' /\ ResponsesHaveFeedback'
  <2>1. \A b \in AgentIds, c \in Users :
          feedback'[b][c] = IF b = a /\ c = sender THEN Append(feedback[a][sender], f)
                            ELSE feedback[b][c]
    BY <1>2 DEF ReputationInv, ReputationTyped
  <2>2. PICK longer : longer = Append(feedback[a][sender], f)
    OBVIOUS
  <2>3. /\ Len(longer) = Len(feedback[a][sender]) + 1
        /\ DOMAIN feedback[a][sender] \subseteq DOMAIN longer
        /\ Len(feedback[a][sender]) \in Nat
    BY <1>1, <1>3, <2>2
  <2>4. Len(feedback[a][sender]) < MaxFeedback
    BY GivenFinite DEF GiveFeedback, ReputationInv
  <2>5. Len(longer) <= MaxFeedback
    BY <2>3, <2>4, ReputationConstants
  <2>6. WithinBounds'
    BY <2>1, <2>2, <2>5 DEF ReputationInv, WithinBounds
  <2>7. \A b \in AgentIds, c \in Users : DOMAIN feedback[b][c] \subseteq DOMAIN feedback'[b][c]
    BY <2>1, <2>2, <2>3
  <2>8. ResponsesHaveFeedback'
    BY <1>2, <2>7 DEF ReputationInv, ResponsesHaveFeedback, Indexes
  <2> QED
    BY <2>6, <2>8
<1> QED
  BY <1>6, <1>8, <1>9 DEF ReputationInv

\* Revoking marks an entry and moves none.
LEMMA RevokeEffect ==
  ASSUME ReputationInv, NEW sender \in Users, NEW a \in AgentIds, NEW j \in Indexes,
         RevokeFeedback(sender, a, j)
  PROVE  /\ feedback' \in [AgentIds -> [Users -> Seq(Feedback)]]
         /\ \A b \in AgentIds, c \in Users :
              /\ Len(feedback'[b][c]) = Len(feedback[b][c])
              /\ \A i \in DOMAIN feedback[b][c] :
                   feedback'[b][c][i] \in
                     {feedback[b][c][i], [feedback[b][c][i] EXCEPT !.isRevoked = TRUE]}
<1> DEFINE s == feedback[a][sender]
           t == [s EXCEPT ![j].isRevoked = TRUE]
<1>1. s \in Seq(Feedback) /\ j \in DOMAIN s
  BY DEF RevokeFeedback, ReputationInv, ReputationTyped
<1>2. feedback' = [feedback EXCEPT ![a][sender] = t]
  BY DEF RevokeFeedback
<1> HIDE DEF s
<1>3. s[j] \in Feedback
  BY <1>1
<1>4. [s[j] EXCEPT !.isRevoked = TRUE] \in Feedback
  BY <1>3 DEF Feedback
<1>5. /\ t \in Seq(Feedback)
      /\ Len(t) = Len(s)
      /\ \A i \in DOMAIN s : t[i] = IF i = j THEN [s[j] EXCEPT !.isRevoked = TRUE] ELSE s[i]
  BY <1>1, <1>4
<1> HIDE DEF t
<1>6. feedback' \in [AgentIds -> [Users -> Seq(Feedback)]]
  BY <1>2, <1>5 DEF ReputationInv, ReputationTyped
<1>7. \A b \in AgentIds, c \in Users :
        feedback'[b][c] = IF b = a /\ c = sender THEN t ELSE feedback[b][c]
  BY <1>2 DEF ReputationInv, ReputationTyped
<1> QED
  BY <1>5, <1>6, <1>7 DEF s

LEMMA RevokeKeepsInv ==
  ASSUME ReputationInv, NEW sender \in Users, NEW a \in AgentIds, NEW j \in Indexes,
         RevokeFeedback(sender, a, j)
  PROVE  ReputationInv'
<1>1. UNCHANGED <<clients, responders, responseCount>>
  BY DEF RevokeFeedback
<1>2. ReputationTyped'
  BY <1>1, RevokeEffect DEF ReputationInv, ReputationTyped
<1>3. \A b \in AgentIds, c \in Users : feedback'[b][c] = <<>> <=> feedback[b][c] = <<>>
  <2> SUFFICES ASSUME NEW b \in AgentIds, NEW c \in Users
               PROVE  feedback'[b][c] = <<>> <=> feedback[b][c] = <<>>
    OBVIOUS
  <2>1. feedback[b][c] \in Seq(Feedback) /\ feedback'[b][c] \in Seq(Feedback)
    BY <1>2 DEF ReputationInv, ReputationTyped
  <2>2. Len(feedback'[b][c]) = Len(feedback[b][c])
    BY RevokeEffect
  <2> QED
    BY <2>1, <2>2, EmptySeq
<1>4. ArraysIndexMappings'
  BY <1>1, <1>3 DEF ReputationInv, ArraysIndexMappings
<1>5. \A b \in AgentIds, c \in Users : DOMAIN feedback'[b][c] = DOMAIN feedback[b][c]
  <2>1. \A b \in AgentIds, c \in Users :
          feedback[b][c] \in Seq(Feedback) /\ feedback'[b][c] \in Seq(Feedback)
    BY <1>2 DEF ReputationInv, ReputationTyped
  <2> QED
    BY <2>1, RevokeEffect, LenProperties
<1>6. WithinBounds'
  BY RevokeEffect DEF ReputationInv, WithinBounds
<1>7. ResponsesHaveFeedback'
  BY <1>1, <1>5 DEF ReputationInv, ResponsesHaveFeedback, Indexes
<1> QED
  BY <1>2, <1>4, <1>6, <1>7 DEF ReputationInv

\* The responder is listed, and has responded more than never.
LEMMA AppendKeepsInv ==
  ASSUME ReputationInv, NEW sender \in Users, NEW a \in AgentIds, NEW c \in Users,
         NEW j \in Indexes, AppendResponse(sender, a, c, j)
  PROVE  ReputationInv'
<1>1. /\ responders' = [responders EXCEPT ![a][c][j] = PushNew(@, sender)]
      /\ responseCount' = [responseCount EXCEPT ![a][c][j][sender] = @ + 1]
      /\ UNCHANGED <<feedback, clients>>
  BY DEF AppendResponse
<1>2. responders[a][c][j] \in Seq(Users) /\ responseCount[a][c][j][sender] \in Nat
  BY DEF ReputationInv, ReputationTyped
<1>3. PushNew(responders[a][c][j], sender) \in Seq(Users)
  BY <1>2, PushNewCounts
<1> DEFINE listed == PushNew(responders[a][c][j], sender)
           counted == responseCount[a][c][j][sender] + 1
<1>4. /\ responders' = [responders EXCEPT ![a] =
                         [responders[a] EXCEPT ![c] =
                           [responders[a][c] EXCEPT ![j] = listed]]]
      /\ responders[a] \in [Users -> [Indexes -> Seq(Users)]]
      /\ responders[a][c] \in [Indexes -> Seq(Users)]
      /\ listed \in Seq(Users)
  BY <1>1, <1>3 DEF ReputationInv, ReputationTyped
<1>5. /\ responseCount' = [responseCount EXCEPT ![a] =
                            [responseCount[a] EXCEPT ![c] =
                              [responseCount[a][c] EXCEPT ![j] =
                                [responseCount[a][c][j] EXCEPT ![sender] = counted]]]]
      /\ responseCount[a] \in [Users -> [Indexes -> [Users -> Nat]]]
      /\ responseCount[a][c] \in [Indexes -> [Users -> Nat]]
      /\ responseCount[a][c][j] \in [Users -> Nat]
      /\ counted \in Nat
  BY <1>1, <1>2 DEF ReputationInv, ReputationTyped
<1> HIDE DEF listed, counted
<1>6. ReputationTyped'
  <2>1. responders' \in [AgentIds -> [Users -> [Indexes -> Seq(Users)]]]
    <3>1. [responders[a][c] EXCEPT ![j] = listed] \in [Indexes -> Seq(Users)]
      BY <1>4
    <3>2. [responders[a] EXCEPT ![c] = [responders[a][c] EXCEPT ![j] = listed]]
            \in [Users -> [Indexes -> Seq(Users)]]
      BY <1>4, <3>1
    <3> QED
      BY <1>4, <3>2 DEF ReputationInv, ReputationTyped
  <2>2. responseCount' \in [AgentIds -> [Users -> [Indexes -> [Users -> Nat]]]]
    <3>1. [responseCount[a][c][j] EXCEPT ![sender] = counted] \in [Users -> Nat]
      BY <1>5
    <3>2. [responseCount[a][c] EXCEPT ![j] = [responseCount[a][c][j] EXCEPT ![sender] = counted]]
            \in [Indexes -> [Users -> Nat]]
      BY <1>5, <3>1
    <3>3. [responseCount[a] EXCEPT ![c] = [responseCount[a][c] EXCEPT ![j] =
             [responseCount[a][c][j] EXCEPT ![sender] = counted]]]
            \in [Users -> [Indexes -> [Users -> Nat]]]
      BY <1>5, <3>2
    <3> QED
      BY <1>5, <3>3 DEF ReputationInv, ReputationTyped
  <2> QED
    BY <1>1, <2>1, <2>2 DEF ReputationInv, ReputationTyped
<1>7. \A b \in AgentIds, d \in Users, i \in Indexes :
        responders'[b][d][i] = IF b = a /\ d = c /\ i = j THEN listed ELSE responders[b][d][i]
  <2> SUFFICES ASSUME NEW b \in AgentIds, NEW d \in Users, NEW i \in Indexes
               PROVE  responders'[b][d][i] =
                        IF b = a /\ d = c /\ i = j THEN listed ELSE responders[b][d][i]
    OBVIOUS
  <2>1. CASE b # a
    BY <1>4, <2>1 DEF ReputationInv, ReputationTyped
  <2>2. CASE b = a
    <3>1. responders'[a] = [responders[a] EXCEPT ![c] = [responders[a][c] EXCEPT ![j] = listed]]
      BY <1>4 DEF ReputationInv, ReputationTyped
    <3> QED
      BY <1>4, <2>2, <3>1
  <2> QED
    BY <2>1, <2>2
<1>8. \A b \in AgentIds, d \in Users, i \in Indexes, r \in Users :
        responseCount'[b][d][i][r] =
          IF b = a /\ d = c /\ i = j /\ r = sender THEN counted ELSE responseCount[b][d][i][r]
  <2> SUFFICES ASSUME NEW b \in AgentIds, NEW d \in Users, NEW i \in Indexes, NEW r \in Users
               PROVE  responseCount'[b][d][i][r] =
                        IF b = a /\ d = c /\ i = j /\ r = sender THEN counted
                        ELSE responseCount[b][d][i][r]
    OBVIOUS
  <2>1. CASE b # a
    BY <1>5, <2>1 DEF ReputationInv, ReputationTyped
  <2>2. CASE b = a
    <3>1. responseCount'[a] =
            [responseCount[a] EXCEPT ![c] = [responseCount[a][c] EXCEPT ![j] =
               [responseCount[a][c][j] EXCEPT ![sender] = counted]]]
      BY <1>5 DEF ReputationInv, ReputationTyped
    <3>2. responseCount'[a][d] =
            IF d = c THEN [responseCount[a][c] EXCEPT ![j] =
                             [responseCount[a][c][j] EXCEPT ![sender] = counted]]
                     ELSE responseCount[a][d]
      BY <1>5, <3>1
    <3> QED
      BY <1>5, <2>2, <3>2
  <2> QED
    BY <2>1, <2>2
<1>9. ASSUME NEW b \in AgentIds, NEW d \in Users, NEW i \in Indexes, NEW r \in Users
      PROVE  Once(responders'[b][d][i], r) = IF responseCount'[b][d][i][r] = 0 THEN 0 ELSE 1
  <2>1. Once(responders[b][d][i], r) = IF responseCount[b][d][i][r] = 0 THEN 0 ELSE 1
    BY DEF ReputationInv, ArraysIndexMappings
  <2>2. CASE ~(b = a /\ d = c /\ i = j)
    BY <1>7, <1>8, <2>1, <2>2
  <2>3. CASE b = a /\ d = c /\ i = j /\ r # sender
    <3>1. Once(listed, r) = Once(responders[a][c][j], r)
      BY <1>2, <2>3, PushNewCounts DEF listed
    <3> QED
      BY <1>7, <1>8, <2>1, <2>3, <3>1
  <2>4. CASE b = a /\ d = c /\ i = j /\ r = sender
    <3>1. Once(listed, sender) = 1
      BY <1>2, <2>1, <2>4, PushNewCounts DEF listed
    <3>2. counted # 0
      BY <1>2 DEF counted
    <3> QED
      BY <1>7, <1>8, <2>4, <3>1, <3>2
  <2> QED
    BY <2>2, <2>3, <2>4
<1>10. ArraysIndexMappings'
  BY <1>1, <1>9 DEF ReputationInv, ArraysIndexMappings
<1>11. WithinBounds' /\ ResponsesHaveFeedback'
  <2>1. j \in DOMAIN feedback[a][c]
    BY DEF AppendResponse
  <2> QED
    BY <1>1, <1>8, <2>1 DEF ReputationInv, WithinBounds, ResponsesHaveFeedback, Indexes
<1> QED
  BY <1>6, <1>10, <1>11 DEF ReputationInv

\* No step disturbs the invariant; calls of the registry of agents change nothing
\* that it reads, whoever owns an agent by then.
LEMMA ReputationInductive ==
  ReputationInv /\ [ReputationNext]_allVars => ReputationInv'
<1> SUFFICES ASSUME ReputationInv, [ReputationNext]_allVars
             PROVE  ReputationInv'
  OBVIOUS
<1>1. ASSUME NEW sender \in Users, ReputationCall(sender)
      PROVE  ReputationInv'
  BY <1>1, GiveKeepsInv, RevokeKeepsInv, AppendKeepsInv DEF ReputationCall
<1>2. CASE UNCHANGED reputationVars
  BY <1>2 DEF reputationVars, ReputationInv, ReputationTyped, ArraysIndexMappings,
              WithinBounds, ResponsesHaveFeedback
<1> QED
  BY <1>1, <1>2 DEF ReputationNext, allVars

THEOREM ReputationInvariant == ReputationSpec => []ReputationInv
<1>1. ReputationSystemInit => ReputationInv
  BY ReputationAtStart DEF ReputationSystemInit
<1> QED
  BY <1>1, ReputationInductive, PTL DEF ReputationSpec, allVars

-----------------------------------------------------------------------------
(* The views that enumerate.                                               *)

\* A list of places in lists is finite, and within the indexes.
LEMMA EntriesFinite ==
  ASSUME ReputationInv, NEW a \in AgentIds, NEW list \in Seq(Users)
  PROVE  /\ IsFiniteSet(Entries(a, list))
         /\ \A p \in Entries(a, list) :
              /\ p = <<p[1], p[2]>>
              /\ p[1] \in DOMAIN list /\ list[p[1]] \in Users
              /\ p[2] \in DOMAIN feedback[a][list[p[1]]] /\ p[2] \in Indexes
         /\ \A i \in DOMAIN list : \A j \in DOMAIN feedback[a][list[i]] :
              <<i, j>> \in Entries(a, list)
<1>1. DOMAIN list = 1 .. Len(list) /\ Len(list) \in Nat /\ \A i \in DOMAIN list : list[i] \in Users
  OBVIOUS
<1>2. \A c \in Users : DOMAIN feedback[a][c] \subseteq Indexes
  BY GivenFinite DEF ReputationInv
<1>3. IsFiniteSet(DOMAIN list) /\ IsFiniteSet(Indexes)
  <2>1. IsFiniteSet(1 .. Len(list))
    BY <1>1, CountUp
  <2>2. IsFiniteSet(Indexes)
    BY CountUp, ReputationConstants DEF Indexes
  <2> QED
    BY <1>1, <2>1, <2>2
<1>4. Entries(a, list) \in SUBSET ((DOMAIN list) \X Indexes)
  BY <1>1, <1>2 DEF Entries
<1>5. IsFiniteSet(Entries(a, list))
  <2>1. IsFiniteSet((DOMAIN list) \X Indexes)
    <3>1. \A D : IsFiniteSet(D) => IsFiniteSet(D \X Indexes)
      BY <1>3, FS_Product
    <3> QED
      BY <1>3, <3>1
  <2> QED
    BY <1>4, <2>1, FS_Subset
<1>6. ASSUME NEW p \in Entries(a, list)
      PROVE  p = <<p[1], p[2]>> /\ p[1] \in DOMAIN list /\ p[2] \in DOMAIN feedback[a][list[p[1]]]
  <2>1. PICK i \in DOMAIN list : p \in {i} \X DOMAIN feedback[a][list[i]]
    BY DEF Entries
  <2> QED
    BY <2>1
<1>7. \A i \in DOMAIN list : \A j \in DOMAIN feedback[a][list[i]] : <<i, j>> \in Entries(a, list)
  <2> TAKE i \in DOMAIN list
  <2> TAKE j \in DOMAIN feedback[a][list[i]]
  <2>1. <<i, j>> \in {i} \X DOMAIN feedback[a][list[i]]
    OBVIOUS
  <2> QED
    BY <2>1 DEF Entries
<1> QED
  BY <1>1, <1>2, <1>5, <1>6, <1>7

\* The array of clients leads to each feedback about the agent, by one way.
LEMMA ClientsLeadToFeedback ==
  ASSUME ReputationInv, NEW a \in AgentIds
  PROVE  /\ \A p \in Entries(a, clients[a]) : <<clients[a][p[1]], p[2]>> \in GivenAbout(a)
         /\ \A e \in GivenAbout(a) :
              \E p \in Entries(a, clients[a]) : <<clients[a][p[1]], p[2]>> = e
         /\ \A p, q \in Entries(a, clients[a]) :
              <<clients[a][p[1]], p[2]>> = <<clients[a][q[1]], q[2]>> => p = q
<1> DEFINE list == clients[a]
<1>1. list \in Seq(Users)
  BY DEF ReputationInv, ReputationTyped
<1>2. \A c \in Users :
        /\ Once(list, c) = IF feedback[a][c] = <<>> THEN 0 ELSE 1
        /\ feedback[a][c] \in Seq(Feedback)
  BY DEF ReputationInv, ReputationTyped, ArraysIndexMappings
<1> HIDE DEF list
<1>3. ASSUME NEW p \in Entries(a, list)
      PROVE  <<list[p[1]], p[2]>> \in GivenAbout(a)
  <2>1. list[p[1]] \in Users /\ p[2] \in DOMAIN feedback[a][list[p[1]]]
    BY <1>1, EntriesFinite
  <2>2. <<list[p[1]], p[2]>> \in {list[p[1]]} \X DOMAIN feedback[a][list[p[1]]]
    BY <2>1
  <2> QED
    BY <2>1, <2>2 DEF GivenAbout
<1>4. \A c \in Users : \A j \in DOMAIN feedback[a][c] : Once(list, c) = 1
  BY <1>2
<1>5. ASSUME NEW e \in GivenAbout(a)
      PROVE  \E p \in Entries(a, list) : <<list[p[1]], p[2]>> = e
  <2>1. PICK c \in Users : e \in {c} \X DOMAIN feedback[a][c]
    BY DEF GivenAbout
  <2>2. PICK j \in DOMAIN feedback[a][c] : e = <<c, j>>
    BY <2>1
  <2>3. PICK i \in DOMAIN list : list[i] = c
    BY <1>1, <1>4, OnceIsOnePlace
  <2>4. <<i, j>> \in Entries(a, list)
    BY <1>1, <2>3, EntriesFinite
  <2> QED
    BY <2>2, <2>3, <2>4
<1>6. ASSUME NEW p \in Entries(a, list), NEW q \in Entries(a, list),
             <<list[p[1]], p[2]>> = <<list[q[1]], q[2]>>
      PROVE  p = q
  <2>1. /\ p = <<p[1], p[2]>> /\ p[1] \in DOMAIN list
        /\ q = <<q[1], q[2]>> /\ q[1] \in DOMAIN list
        /\ list[p[1]] \in Users /\ p[2] \in DOMAIN feedback[a][list[p[1]]]
    BY <1>1, EntriesFinite
  <2>2. list[p[1]] = list[q[1]] /\ p[2] = q[2]
    BY <1>6
  <2>3. Once(list, list[p[1]]) = 1
    BY <1>4, <2>1
  <2>4. p[1] = q[1]
    BY <1>1, <2>1, <2>2, <2>3, OnceIsOnePlace
  <2> QED
    BY <2>1, <2>2, <2>4, Zenon
<1> QED
  BY <1>3, <1>5, <1>6 DEF list

\* The array of responders leads to each responder, by one way.
LEMMA RespondersLeadToResponses ==
  ASSUME ReputationInv, NEW a \in AgentIds, NEW c \in Users, NEW j \in Indexes
  PROVE  /\ CountResponses(a, c, j) = ResponsesTo(a, c, j)
         /\ ResponsesTo(a, c, j) \in Int
<1> DEFINE array == responders[a][c][j]
           g == responseCount[a][c][j]
           f == [k \in DOMAIN array |-> g[array[k]]]
<1>1. array \in Seq(Users) /\ \A r \in Users : g[r] \in Nat
  BY DEF ReputationInv, ReputationTyped
<1>2. \A r \in Users : Once(array, r) = IF g[r] = 0 THEN 0 ELSE 1
  BY DEF ReputationInv, ArraysIndexMappings
<1>3. \A k \in DOMAIN array : f[k] = g[array[k]]
  OBVIOUS
<1>4. CountResponses(a, c, j) = SumFunctionOnSet(f, DOMAIN array)
  BY DEF CountResponses
<1>5. ResponsesTo(a, c, j) = SumFunctionOnSet(g, Users)
  BY DEF ResponsesTo
<1> HIDE DEF array, g, f
<1>6. DOMAIN array = 1 .. Len(array) /\ Len(array) \in Nat /\ \A k \in DOMAIN array : array[k] \in Users
  BY <1>1
<1>7. IsFiniteSet(DOMAIN array) /\ IsFiniteSet(Users)
  <2>1. IsFiniteSet(1 .. Len(array))
    BY <1>6, CountUp
  <2> QED
    BY <1>6, <2>1, ReputationConstants
<1>8. \A k, l \in DOMAIN array : array[k] = array[l] => k = l
  <2> SUFFICES ASSUME NEW k \in DOMAIN array, NEW l \in DOMAIN array, array[k] = array[l]
               PROVE  k = l
    OBVIOUS
  <2>1. array[k] \in Users
    BY <1>6
  <2>2. Contains(array, array[k])
    BY <1>1 DEF Contains
  <2>3. Once(array, array[k]) # 0
    BY <1>1, <2>2, OnceFacts
  <2>4. Once(array, array[k]) = 1
    BY <1>2, <2>1, <2>3
  <2> QED
    BY <1>1, <2>4, OnceIsOnePlace
<1>9. ASSUME NEW r \in Users, \A k \in DOMAIN array : array[k] # r
      PROVE  g[r] = 0
  <2>1. ASSUME g[r] # 0
        PROVE  FALSE
    <3>1. Once(array, r) = 1
      BY <1>2, <2>1
    <3> QED
      BY <1>1, <1>9, <3>1, OnceIsOnePlace
  <2> QED
    BY <2>1
<1>10. \A r \in Users : g[r] \in Int
  BY <1>1
<1>11. SumFunctionOnSet(f, DOMAIN array) = SumFunctionOnSet(g, Users)
  <2> DEFINE D == DOMAIN array
  <2>1. Reindexes(array, f, D, g, Users)
    BY <1>3, <1>6, <1>8, <1>9, <1>10 DEF Reindexes
  <2>2. IsFiniteSet(D)
    BY <1>7
  <2> HIDE DEF D
  <2>3. SumFunctionOnSet(f, D) = SumFunctionOnSet(g, Users)
    BY <1>7, <2>1, <2>2, SumReindexes
  <2> QED
    BY <2>3 DEF D
<1>12. SumFunctionOnSet(g, Users) \in Int
  BY <1>7, <1>10, SumTakesOut
<1> QED
  BY <1>4, <1>5, <1>11, <1>12

\* Where there is no feedback there are no responses.
LEMMA NoneToNone ==
  ASSUME ReputationInv, NEW a \in AgentIds, NEW c \in Users, NEW j \in Indexes,
         <<c, j>> \notin GivenAbout(a)
  PROVE  ResponsesTo(a, c, j) = 0
<1> DEFINE g == responseCount[a][c][j]
<1>1. j \notin DOMAIN feedback[a][c]
  <2> SUFFICES ASSUME j \in DOMAIN feedback[a][c]
               PROVE  FALSE
    OBVIOUS
  <2>1. <<c, j>> \in {c} \X DOMAIN feedback[a][c]
    OBVIOUS
  <2> QED
    BY <2>1 DEF GivenAbout
<1>2. \A r \in Users : g[r] = 0
  BY <1>1 DEF ReputationInv, ResponsesHaveFeedback
<1>3. ResponsesTo(a, c, j) = SumFunctionOnSet(g, Users)
  BY DEF ResponsesTo
<1> HIDE DEF g
<1>4. IsFiniteSet({}) /\ IsFiniteSet(Users)
  BY FS_EmptySet, ReputationConstants
<1>5. SumFunctionOnSet(g, {}) = SumFunctionOnSet(g, Users)
  <2>1. \A r \in Users : g[r] \in Int
    BY <1>2
  <2>2. \A x \in {} : g[x] \in Users /\ g[x] = g[g[x]]
    OBVIOUS
  <2>3. \A x, y \in {} : g[x] = g[y] => x = y
    OBVIOUS
  <2>4. \A r \in Users : (\A x \in {} : g[x] # r) => g[r] = 0
    BY <1>2
  <2>5. Reindexes(g, g, {}, g, Users)
    BY <2>1, <2>2, <2>3, <2>4 DEF Reindexes
  <2> QED
    BY <1>4, <2>5, SumReindexes
<1> QED
  BY <1>3, <1>5, SumOfNone

\* readAllFeedback without filters lists as much as there is.
LEMMA ReadsEverything ==
  ASSUME ReputationInv, NEW a \in AgentIds
  PROVE  Cardinality(ReadAllFeedback(a, <<>>, EmptyTag, EmptyTag, TRUE)) = FeedbackGiven(a)
<1> DEFINE E == Entries(a, clients[a])
           G == GivenAbout(a)
           list == clients[a]
           F == [p \in E |-> <<list[p[1]], p[2]>>]
<1>1. ReadAllFeedback(a, <<>>, EmptyTag, EmptyTag, TRUE) = E
  BY DEF ReadAllFeedback, HasTags
<1>2. IsFiniteSet(E)
  BY EntriesFinite DEF ReputationInv, ReputationTyped
<1>3. /\ \A p \in E : <<list[p[1]], p[2]>> \in G
      /\ \A e \in G : \E p \in E : <<list[p[1]], p[2]>> = e
      /\ \A p, q \in E : <<list[p[1]], p[2]>> = <<list[q[1]], q[2]>> => p = q
  BY ClientsLeadToFeedback
<1> HIDE DEF E, G, list
<1>4. \A p \in E : F[p] = <<list[p[1]], p[2]>>
  OBVIOUS
<1>5. F \in [E -> G]
  BY <1>3
<1> HIDE DEF F
<1>6. F \in Bijection(E, G)
  BY <1>3, <1>4, <1>5 DEF Bijection, Injection, Surjection, IsInjective
<1>7. ExistsBijection(E, G)
  BY <1>6 DEF ExistsBijection
<1>8. Cardinality(G) = Cardinality(E)
  BY <1>2, <1>7, FS_Bijection
<1> QED
  BY <1>1, <1>8 DEF FeedbackGiven, G

\* getResponseCount without filters counts every response.
LEMMA CountsEverything ==
  ASSUME ReputationInv, NEW a \in AgentIds
  PROVE  GetResponseCount(a) = Appended(a)
<1> DEFINE E == Entries(a, clients[a])
           T == Users \X Indexes
           list == clients[a]
           f == [p \in E |-> CountResponses(a, list[p[1]], p[2])]
           g == [e \in T |-> ResponsesTo(a, e[1], e[2])]
           F == [p \in E |-> <<list[p[1]], p[2]>>]
<1>1. GetResponseCount(a) = SumFunctionOnSet(f, E) /\ Appended(a) = SumFunctionOnSet(g, T)
  BY DEF GetResponseCount, Appended
<1>2. /\ IsFiniteSet(E)
      /\ \A p \in E : list[p[1]] \in Users /\ p[2] \in Indexes
  BY EntriesFinite DEF ReputationInv, ReputationTyped
<1>3. IsFiniteSet(T)
  BY GivenFinite DEF ReputationInv
<1>4. /\ \A e \in GivenAbout(a) : \E p \in E : <<list[p[1]], p[2]>> = e
      /\ \A p, q \in E : <<list[p[1]], p[2]>> = <<list[q[1]], q[2]>> => p = q
  BY ClientsLeadToFeedback
<1>5. /\ \A p \in E : F[p] = <<list[p[1]], p[2]>> /\ f[p] = CountResponses(a, list[p[1]], p[2])
      /\ \A c \in Users, j \in Indexes : g[<<c, j>>] = ResponsesTo(a, c, j)
      /\ \A y \in T : g[y] = ResponsesTo(a, y[1], y[2])
  OBVIOUS
<1> HIDE DEF E, list, f, g, F
<1>6. \A y \in T : g[y] \in Int
  BY <1>5, RespondersLeadToResponses
<1>7. \A p \in E : F[p] \in T /\ f[p] = g[F[p]]
  BY <1>2, <1>5, RespondersLeadToResponses
<1>8. \A p, q \in E : F[p] = F[q] => p = q
  BY <1>4, <1>5
<1>9. ASSUME NEW y \in T, \A p \in E : F[p] # y
      PROVE  g[y] = 0
  <2>1. y \notin GivenAbout(a)
    BY <1>4, <1>5, <1>9
  <2>2. y[1] \in Users /\ y[2] \in Indexes /\ y = <<y[1], y[2]>>
    OBVIOUS
  <2>3. ResponsesTo(a, y[1], y[2]) = 0
    BY <2>1, <2>2, NoneToNone
  <2> QED
    BY <1>5, <2>3
<1> HIDE DEF T
<1>10. SumFunctionOnSet(f, E) = SumFunctionOnSet(g, T)
  <2>1. Reindexes(F, f, E, g, T)
    BY <1>6, <1>7, <1>8, <1>9 DEF Reindexes
  <2> QED
    BY <1>2, <1>3, <2>1, SumReindexes
<1> QED
  BY <1>1, <1>10

-----------------------------------------------------------------------------
(* The average.                                                            *)

\* A precision's scale is a positive number.
LEMMA ScalePositive ==
  \A d \in 0 .. MaxDecimals : Scale(d) \in Nat /\ Scale(d) > 0
<1>1. IsPowers(TenTo, MaxDecimals)
  <2> DEFINE P(g) == g = [n \in 0 .. MaxDecimals |-> IF n = 0 THEN 1 ELSE 10 * g[n - 1]]
  <2>1. TenTo = CHOOSE g : P(g)
    BY DEF TenTo
  <2>2. \E g : P(g)
    BY PowersExist, ReputationConstants DEF IsPowers
  <2>3. P(TenTo)
    BY <2>1, <2>2
  <2> QED
    BY <2>3 DEF IsPowers
<1>2. \A n \in 0 .. MaxDecimals : TenTo[n] \in Nat /\ TenTo[n] > 0
  BY <1>1, PowersPositive, ReputationConstants
<1>3. \A d \in 0 .. MaxDecimals : MaxDecimals - d \in 0 .. MaxDecimals
  BY ReputationConstants
<1> QED
  BY <1>2, <1>3 DEF Scale

\* Cutting off toward zero twice cuts off once, at the product.
LEMMA TruncatesOnce ==
  ASSUME NEW total \in Int, NEW n \in Nat, NEW m \in Nat, n > 0, m > 0
  PROVE  /\ TruncDiv(TruncDiv(total, n), m) \in Int
         /\ TruncDiv(TruncDiv(total, n), m) =
              IF total >= 0 THEN total \div (n * m) ELSE -((-total) \div (n * m))
<1>1. CASE total >= 0
  <2>1. total \in Nat
    BY <1>1
  <2>2. TruncDiv(total, n) = total \div n /\ total \div n \in Nat
    BY <1>1, <2>1, QuotientBounds DEF TruncDiv
  <2>3. TruncDiv(TruncDiv(total, n), m) = (total \div n) \div m
    BY <2>2 DEF TruncDiv
  <2> QED
    BY <1>1, <2>1, <2>3, QuotientTwice
<1>2. CASE total < 0
  <2>1. PICK t \in Nat : t = -total
    BY <1>2
  <2>2. PICK q \in Nat : q = t \div n
    BY QuotientBounds
  <2>3. PICK r \in Nat : r = q \div m
    BY QuotientBounds
  <2>4. r = t \div (n * m)
    BY <2>2, <2>3, QuotientTwice
  <2>5. TruncDiv(total, n) = -q
    BY <1>2, <2>1, <2>2 DEF TruncDiv
  <2>6. TruncDiv(-q, m) = -r
    <3>1. CASE q = 0
      <4>1. 0 \div m = 0
        OBVIOUS
      <4> QED
        BY <2>3, <3>1, <4>1 DEF TruncDiv
    <3>2. CASE q # 0
      <4>1. ~(-q >= 0) /\ -(-q) = q
        BY <3>2
      <4> QED
        BY <2>3, <4>1 DEF TruncDiv
    <3> QED
      BY <3>1, <3>2
  <2> QED
    BY <1>2, <2>1, <2>4, <2>5, <2>6
<1> QED
  BY <1>1, <1>2

\* The conversion to an int128 keeps what is one.
LEMMA ConversionKeeps ==
  ASSUME NEW x \in Int
  PROVE  ToInt128(x) \in Int128 /\ (x \in Int128 => ToInt128(x) = x)
<1>1. PICK w \in Nat : w = 2 * IntLimit /\ w > 0 /\ IntLimit \in Nat /\ IntLimit > 0
  BY ReputationConstants
<1>2. \A y \in Int : y % w \in 0 .. w - 1
  BY <1>1
<1>3. \A y \in 0 .. w - 1 : y % w = y
  BY <1>1
<1>4. ToInt128(x) = ((x + IntLimit) % w) - IntLimit
  BY <1>1 DEF ToInt128
<1>5. ToInt128(x) \in Int128
  <2>1. PICK z \in 0 .. w - 1 : z = (x + IntLimit) % w
    BY <1>1, <1>2
  <2> QED
    BY <1>1, <1>4, <2>1 DEF Int128
<1>6. ASSUME x \in Int128
      PROVE  ToInt128(x) = x
  <2>1. x + IntLimit \in 0 .. w - 1
    BY <1>1, <1>6 DEF Int128
  <2> QED
    BY <1>1, <1>3, <1>4, <2>1
<1> QED
  BY <1>5, <1>6

\* The precision that getSummary picks is used, and none more often.
LEMMA ModeIsMostUsed ==
  ASSUME NEW a, NEW list, NEW E, IsFiniteSet(E), E # {},
         \A p \in E : At(a, list, p).valueDecimals \in 0 .. MaxDecimals
  PROVE  /\ Mode(a, list, E) \in 0 .. MaxDecimals
         /\ Frequency(a, list, E, Mode(a, list, E)) > 0
         /\ \A d \in 0 .. MaxDecimals :
              Frequency(a, list, E, d) <= Frequency(a, list, E, Mode(a, list, E))
<1> DEFINE Using(d) == {p \in E : At(a, list, p).valueDecimals = d}
           F == [d \in 0 .. MaxDecimals |-> Frequency(a, list, E, d)]
           B == Cardinality(E)
<1>1. ASSUME NEW d \in 0 .. MaxDecimals
      PROVE  /\ F[d] = Frequency(a, list, E, d)
             /\ F[d] \in 0 .. B
             /\ \A p \in E : At(a, list, p).valueDecimals = d => F[d] > 0
  <2>1. F[d] = Cardinality(Using(d))
    BY DEF Frequency
  <2>2. Using(d) \in SUBSET E
    OBVIOUS
  <2>3. \A p \in E : At(a, list, p).valueDecimals = d => Using(d) # {}
    OBVIOUS
  <2> HIDE DEF Using, F
  <2>4. IsFiniteSet(Using(d)) /\ Cardinality(Using(d)) <= B
    BY <2>2, FS_Subset
  <2>5. Cardinality(Using(d)) \in Nat /\ B \in Nat
    BY <2>4, FS_CardinalityType
  <2>6. Using(d) # {} => Cardinality(Using(d)) # 0
    BY <2>4, FS_EmptySet
  <2>7. F[d] = Frequency(a, list, E, d)
    BY DEF F
  <2> QED
    BY <2>1, <2>3, <2>4, <2>5, <2>6, <2>7
<1>2. B \in Nat
  BY FS_CardinalityType
<1> HIDE DEF B
<1>10. F \in [0 .. MaxDecimals -> 0 .. B]
  BY <1>1
<1> HIDE DEF F
<1>3. PICK d \in 0 .. MaxDecimals : \A e \in 0 .. MaxDecimals :
        F[e] <= F[d] /\ (F[e] = F[d] => d <= e)
  <2>1. MaxDecimals \in Nat
    BY ReputationConstants
  <2> QED
    BY <1>2, <1>10, <2>1, FirstGreatest
<1> DEFINE Best(m) == \A e \in 0 .. MaxDecimals :
             /\ Frequency(a, list, E, e) <= Frequency(a, list, E, m)
             /\ Frequency(a, list, E, e) = Frequency(a, list, E, m) => m <= e
<1>4. Mode(a, list, E) = CHOOSE m \in 0 .. MaxDecimals : Best(m)
  BY DEF Mode
<1>5. Best(d)
  BY <1>1, <1>3
<1> HIDE DEF Best
<1>6. Mode(a, list, E) \in 0 .. MaxDecimals /\ Best(Mode(a, list, E))
  BY <1>4, <1>5
<1>7. PICK m \in 0 .. MaxDecimals : m = Mode(a, list, E)
  BY <1>6
<1>8. \A e \in 0 .. MaxDecimals : F[e] <= F[m]
  BY <1>1, <1>6, <1>7 DEF Best
<1>9. F[m] > 0
  <2>1. PICK p \in E : At(a, list, p).valueDecimals \in 0 .. MaxDecimals
    OBVIOUS
  <2>2. PICK e \in 0 .. MaxDecimals : e = At(a, list, p).valueDecimals
    BY <2>1
  <2>3. F[e] > 0 /\ F[e] \in Nat /\ F[m] \in Nat
    BY <1>1, <1>2, <2>2
  <2> QED
    BY <1>8, <2>3
<1> QED
  BY <1>1, <1>7, <1>8, <1>9

\* getSummary over any list of clients is their average, cut off once.
LEMMA SummaryOfList ==
  ASSUME ReputationInv, NEW a \in AgentIds, NEW list \in Seq(Users), NEW t1, NEW t2
  PROVE  SummarizesAsAverage(a, list, t1, t2)
<1> DEFINE live == Live(a, list, t1, t2)
           scaled == [p \in live |-> At(a, list, p).value * Scale(At(a, list, p).valueDecimals)]
           n == Cardinality(live)
           total == SumFunctionOnSet(scaled, live)
           mode == Mode(a, list, live)
           average == AverageAt(a, list, live, mode)
           s == GetSummary(a, list, t1, t2)
<1>1. Summed(a, list, t1, t2) = live /\ live \in SUBSET Entries(a, list)
  BY DEF Summed, HasTag, Live
<1>2. \A p \in live : scaled[p] = At(a, list, p).value * Scale(At(a, list, p).valueDecimals)
  OBVIOUS
<1>3. average = IF total >= 0 THEN total \div (n * Scale(mode)) ELSE -((-total) \div (n * Scale(mode)))
  BY DEF AverageAt
<1>4. s = IF live = {} THEN [count |-> 0, value |-> 0, decimals |-> 0]
          ELSE [count |-> n,
                value |-> ToInt128(TruncDiv(TruncDiv(total, n), Scale(mode))),
                decimals |-> mode]
  <2>1. WadSum(a, list, live) = total /\ Cardinality(live) = n
    BY DEF WadSum
  <2> HIDE DEF live, total, n
  <2>2. GetSummary(a, list, t1, t2) =
          IF live = {} THEN [count |-> 0, value |-> 0, decimals |-> 0]
          ELSE [count |-> n,
                value |-> ToInt128(TruncDiv(TruncDiv(total, n), Scale(Mode(a, list, live)))),
                decimals |-> Mode(a, list, live)]
    BY <1>1, <2>1, Zenon DEF GetSummary
  <2> QED
    BY <2>2, Zenon
<1>5. \A d : Frequency(a, list, live, d) = Cardinality({p \in live : At(a, list, p).valueDecimals = d})
  BY DEF Frequency
<1> HIDE DEF live, scaled, n, total, mode, average, s
<1>6. s.count = n
  <2>1. live = {} => n = 0
    BY FS_EmptySet DEF n
  <2> QED
    BY <1>4, <2>1
<1>7. ASSUME NEW p \in Entries(a, list)
      PROVE  At(a, list, p) \in Feedback
  <2>1. list[p[1]] \in Users /\ p[2] \in DOMAIN feedback[a][list[p[1]]]
    BY EntriesFinite
  <2>2. feedback[a][list[p[1]]] \in Seq(Feedback)
    BY <2>1 DEF ReputationInv, ReputationTyped
  <2> QED
    BY <2>1, <2>2 DEF At
<1>8. IsFiniteSet(live)
  BY <1>1, EntriesFinite, FS_Subset
<1>9. \A p \in live : /\ At(a, list, p).value \in Int
                      /\ At(a, list, p).valueDecimals \in 0 .. MaxDecimals
  BY <1>1, <1>7, ReputationConstants DEF Feedback
<1>10. total \in Int
  <2>1. \A p \in live : scaled[p] \in Int
    BY <1>2, <1>9, ScalePositive
  <2> QED
    BY <1>8, <2>1, SumTakesOut DEF total
<1>11. ASSUME live # {}
       PROVE  /\ s.decimals = mode
              /\ Frequency(a, list, live, mode) > 0
              /\ \A d \in 0 .. MaxDecimals :
                   Frequency(a, list, live, d) <= Frequency(a, list, live, mode)
              /\ s.value \in Int128
              /\ average \in Int128 => s.value = average
  <2>1. s.decimals = mode /\ s.value = ToInt128(TruncDiv(TruncDiv(total, n), Scale(mode)))
    BY <1>4, <1>11
  <2>2. /\ mode \in 0 .. MaxDecimals
        /\ Frequency(a, list, live, mode) > 0
        /\ \A d \in 0 .. MaxDecimals : Frequency(a, list, live, d) <= Frequency(a, list, live, mode)
    BY <1>8, <1>9, <1>11, ModeIsMostUsed DEF mode
  <2>3. PICK m \in Nat : m = Scale(mode) /\ m > 0
    BY <2>2, ScalePositive
  <2>4. n \in Nat /\ n > 0
    BY <1>8, <1>11, FS_CardinalityType, FS_EmptySet DEF n
  <2>5. /\ TruncDiv(TruncDiv(total, n), m) \in Int
        /\ TruncDiv(TruncDiv(total, n), m) = average
    BY <1>3, <1>10, <2>3, <2>4, TruncatesOnce
  <2>6. s.value = ToInt128(average) /\ average \in Int
    BY <2>1, <2>3, <2>5
  <2> QED
    BY <2>1, <2>2, <2>6, ConversionKeeps
<1> QED
  BY <1>5, <1>6, <1>11, Zenon DEF SummarizesAsAverage, live, n, average, s

-----------------------------------------------------------------------------
(* The theorems.                                                           *)

\* ArraysIndexMappings for every value of the constants (giveFeedback with
\* _clientExists, appendResponse with _responderExists): whatever is called in
\* whatever order, the arrays behind the views have each client and each
\* responder once, and nobody else.
THEOREM ArraysIndexTheMappings == ReputationSpec => []ArraysIndexMappings
<1>1. ReputationInv => ArraysIndexMappings
  BY DEF ReputationInv
<1> QED
  BY <1>1, ReputationInvariant, PTL

\* ViewsComplete for every value of the constants (readAllFeedback,
\* getResponseCount): what the views find through the arrays is everything that
\* was ever given and responded, counted once.
THEOREM ViewsSeeEverything == ReputationSpec => []ViewsComplete
<1>1. ReputationInv => ViewsComplete
  BY ReadsEverything, CountsEverything DEF ViewsComplete
<1> QED
  BY <1>1, ReputationInvariant, PTL

\* SummaryIsAverage for every value of the constants (getSummary): for any feedback
\* within the bounds, the result is the average cut off toward zero once, if it fits.
THEOREM SummaryCutsOffOnce == ReputationSpec => []SummaryIsAverage
<1>1. ReputationInv => SummaryIsAverage
  <2>1. \A c, d \in Users : (IF c = d THEN <<c>> ELSE <<c, d, c>>) \in Seq(Users)
    OBVIOUS
  <2> QED
    BY <2>1, SummaryOfList DEF SummaryIsAverage
<1> QED
  BY <1>1, ReputationInvariant, PTL

\* FeedbackStands for every value of the constants (giveFeedback, revokeFeedback):
\* no transaction moves, alters or removes feedback, or takes a revocation back.
THEOREM FeedbackIsKept == ReputationSpec => FeedbackStands
<1> DEFINE Stands ==
      \A a \in AgentIds, c \in Users :
        /\ Len(feedback[a][c]) <= Len(feedback'[a][c])
        /\ \A j \in DOMAIN feedback[a][c] :
             LET f == feedback[a][c][j]
                 g == feedback'[a][c][j]
             IN g \in {f, [f EXCEPT !.isRevoked = TRUE]}
<1>1. ReputationInv /\ [ReputationNext]_allVars => [Stands]_allVars
  <2> SUFFICES ASSUME ReputationInv, ReputationNext
               PROVE  Stands
    OBVIOUS
  <2>1. \A a \in AgentIds, c \in Users :
          feedback[a][c] \in Seq(Feedback) /\ Len(feedback[a][c]) \in Nat
    BY DEF ReputationInv, ReputationTyped
  <2>2. ASSUME NEW sender \in Users, NEW a \in AgentIds, NEW o \in Opinions,
               GiveFeedback(sender, a, o)
        PROVE  Stands
    <3>1. PICK f : feedback' = [feedback EXCEPT ![a][sender] = Append(@, f)]
      BY <2>2 DEF GiveFeedback
    <3> DEFINE longer == Append(feedback[a][sender], f)
    <3>2. \A b \in AgentIds, c \in Users :
            feedback'[b][c] = IF b = a /\ c = sender THEN longer ELSE feedback[b][c]
      BY <3>1 DEF ReputationInv, ReputationTyped
    <3>3. /\ Len(longer) = Len(feedback[a][sender]) + 1
          /\ \A j \in DOMAIN feedback[a][sender] : longer[j] = feedback[a][sender][j]
      BY <2>1
    <3> HIDE DEF longer
    <3>4. ASSUME NEW b \in AgentIds, NEW c \in Users
          PROVE  /\ Len(feedback[b][c]) <= Len(feedback'[b][c])
                 /\ \A j \in DOMAIN feedback[b][c] : feedback'[b][c][j] = feedback[b][c][j]
      <4>1. CASE b = a /\ c = sender
        BY <2>1, <3>2, <3>3, <4>1
      <4>2. CASE ~(b = a /\ c = sender)
        BY <2>1, <3>2, <4>2
      <4> QED
        BY <4>1, <4>2
    <3> QED
      BY <3>4
  <2>3. ASSUME NEW sender \in Users, NEW a \in AgentIds, NEW j \in Indexes,
               RevokeFeedback(sender, a, j)
        PROVE  Stands
    BY <2>1, <2>3, RevokeEffect
  <2>4. CASE UNCHANGED feedback
    BY <2>1, <2>4
  <2>5. CASE UNCHANGED reputationVars
    BY <2>4, <2>5 DEF reputationVars
  <2>6. ASSUME NEW sender \in Users, NEW a \in AgentIds, NEW c \in Users, NEW j \in Indexes,
               AppendResponse(sender, a, c, j)
        PROVE  Stands
    BY <2>4, <2>6 DEF AppendResponse
  <2> HIDE DEF Stands
  <2> QED
    BY <2>2, <2>3, <2>5, <2>6
       DEF ReputationNext, ReputationCall
<1> QED
  BY <1>1, ReputationInvariant, PTL DEF ReputationSpec, FeedbackStands, allVars
=============================================================================
