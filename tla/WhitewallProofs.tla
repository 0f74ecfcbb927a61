--------------------------- MODULE WhitewallProofs ---------------------------
(***************************************************************************)
(* The deployed system, for any number of agents, accounts, requests and   *)
(* reports: first the ValidationRegistry, then the two validators that     *)
(* answer its requests, then all contracts together in front of the        *)
(* engine. The invariant of each contract is shown once, for the calls     *)
(* that can disturb it, and used in every specification it is part of.     *)
(***************************************************************************)
EXTENDS Whitewall, IdentityAndWorldIDProofs, ListsAndSums

-----------------------------------------------------------------------------
(* The ValidationRegistry.                                                 *)

\* Only what was requested is answered.
AnsweredWasRequested == \A h \in Hashes : validations[h].hasResponse => Requested(h)

\* A hash is announced once.
OneEventPerHash == \A e, f \in requestLog : e.requestHash = f.requestHash => e = f

ValidationInv ==
  /\ ValidationTypeOK
  /\ ListsIndexRequests
  /\ LogMatchesRequests
  /\ AnsweredWasRequested
  /\ OneEventPerHash

\* What any transaction does to the registry of validations: it makes a request,
\* answers one in the name of the validator, or neither.
Requests ==
  \E sender \in Users, v \in Validators, a \in AgentIds, u \in RequestURIs, h \in Hashes :
    ValidationRequest(sender, v, a, u, h)
Answers(senders) ==
  \E sender \in senders, h \in Hashes, r \in 0 .. 255, t \in ResponseTags :
    ValidationResponse(sender, h, r, t)
ValidationStep == Requests \/ Answers(Addresses) \/ UNCHANGED validationVars

\* No address is the zero address.
LEMMA AddressNotZero == Zero \notin Addresses
BY RegistryConstants DEF Addresses

\* Nothing is requested at the start.
LEMMA ValidationInvInit == ValidationInit => ValidationInv
<1> SUFFICES ASSUME ValidationInit
             PROVE  ValidationInv
  OBVIOUS
<1> DEFINE blank == [validatorAddress |-> Zero, agentId |-> 0, response |-> 0,
                     tag |-> NoResponseTag, hasResponse |-> FALSE]
<1>1. /\ validations = [h \in Hashes |-> blank]
      /\ agentValidations = [a \in AgentIds |-> <<>>]
      /\ validatorRequests = [v \in Addresses |-> <<>>]
      /\ requestLog = {}
  BY DEF ValidationInit
<1>2. blank \in ValidationStatus
  BY ValidationConstants DEF ValidationStatus, MaxResponse
<1>3. \A h \in Hashes : ~Requested(h) /\ ~validations[h].hasResponse
  BY <1>1 DEF Requested
<1>4. ValidationTypeOK
  BY <1>1, <1>2 DEF ValidationTypeOK
<1>5. ListsIndexRequests
  <2> SUFFICES ASSUME NEW h \in Hashes
               PROVE  /\ \A a \in AgentIds :
                           /\ Cardinality({i \in DOMAIN agentValidations[a] :
                                             agentValidations[a][i] = h}) = 0
                           /\ ~Requested(h)
                      /\ \A v \in Addresses :
                           /\ Cardinality({i \in DOMAIN validatorRequests[v] :
                                             validatorRequests[v][i] = h}) = 0
                           /\ validations[h].validatorAddress # v
    BY DEF ListsIndexRequests
  <2>1. \A v \in Addresses : validations[h].validatorAddress # v
    BY <1>1, AddressNotZero
  <2>2. Cardinality({}) = 0
    BY FS_EmptySet
  <2>3. \A s : s = <<>> => {i \in DOMAIN s : s[i] = h} = {}
    OBVIOUS
  <2> QED
    BY <1>1, <1>3, <2>1, <2>2, <2>3
<1> QED
  BY <1>1, <1>3, <1>4, <1>5
     DEF ValidationInv, LogMatchesRequests, AnsweredWasRequested, OneEventPerHash

\* A request is new: its hash was not announced, and other hashes are left alone.
RequestEffect(v, a, u, h) ==
  /\ ~Requested(h)
  /\ validations' = [validations EXCEPT ![h] =
       [validatorAddress |-> v, agentId |-> a, response |-> 0,
        tag |-> NoResponseTag, hasResponse |-> FALSE]]
  /\ requestLog' = requestLog \cup
       {[validatorAddress |-> v, agentId |-> a, requestURI |-> u, requestHash |-> h]}
  /\ ~validations'[h].hasResponse
  /\ \A e \in requestLog :
       /\ e.requestHash \in Hashes \ {h}
       /\ validations'[e.requestHash] = validations[e.requestHash]

LEMMA RequestHasEffect ==
  ASSUME ValidationInv, NEW sender \in Users, NEW v \in Validators, NEW a \in AgentIds,
         NEW u \in RequestURIs, NEW h \in Hashes, ValidationRequest(sender, v, a, u, h)
  PROVE  RequestEffect(v, a, u, h)
<1>1. \A e \in requestLog : e.requestHash \in Hashes /\ e.requestHash # h
  <2> SUFFICES ASSUME NEW e \in requestLog
               PROVE  e.requestHash \in Hashes /\ e.requestHash # h
    OBVIOUS
  <2>1. e.requestHash \in Hashes /\ e.validatorAddress \in Addresses
    BY DEF ValidationInv, ValidationTypeOK, ValidationRequests
  <2>2. validations[e.requestHash].validatorAddress = e.validatorAddress
    BY DEF ValidationInv, LogMatchesRequests
  <2>3. ~Requested(h)
    BY DEF ValidationRequest
  <2> QED
    BY <2>1, <2>2, <2>3, AddressNotZero DEF Requested
<1> QED
  BY <1>1 DEF ValidationRequest, RequestEffect, ValidationInv, ValidationTypeOK

\* A new request is indexed once in either list, announced, and not answered.
LEMMA RequestKeepsInv ==
  ASSUME ValidationInv, NEW sender \in Users, NEW v \in Validators, NEW a \in AgentIds,
         NEW u \in RequestURIs, NEW h \in Hashes, ValidationRequest(sender, v, a, u, h)
  PROVE  ValidationInv'
<1> DEFINE made == [validatorAddress |-> v, agentId |-> a, response |-> 0,
                    tag |-> NoResponseTag, hasResponse |-> FALSE]
           said == [validatorAddress |-> v, agentId |-> a, requestURI |-> u, requestHash |-> h]
<1>1. /\ ~Requested(h)
      /\ validations' = [validations EXCEPT ![h] = made]
      /\ agentValidations' = [agentValidations EXCEPT ![a] = Append(@, h)]
      /\ validatorRequests' = [validatorRequests EXCEPT ![v] = Append(@, h)]
      /\ requestLog' = requestLog \cup {said}
  BY DEF ValidationRequest
<1>2. v \in Addresses /\ v # Zero
  BY ValidationConstants, AddressNotZero
<1>3. /\ validations \in [Hashes -> ValidationStatus]
      /\ agentValidations \in [AgentIds -> Seq(Hashes)]
      /\ validatorRequests \in [Addresses -> Seq(Hashes)]
      /\ requestLog \subseteq ValidationRequests
  BY DEF ValidationInv, ValidationTypeOK
<1>4. ValidationTypeOK'
  <2>1. made \in ValidationStatus
    BY <1>2, ValidationConstants DEF ValidationStatus, MaxResponse
  <2>2. said \in ValidationRequests
    BY <1>2 DEF ValidationRequests
  <2>3. Append(agentValidations[a], h) \in Seq(Hashes) /\ Append(validatorRequests[v], h) \in Seq(Hashes)
    BY <1>2, <1>3
  <2> HIDE DEF made, said
  <2> QED
    BY <1>1, <1>2, <1>3, <2>1, <2>2, <2>3 DEF ValidationTypeOK
<1>5. \A g \in Hashes : validations'[g] = IF g = h THEN made ELSE validations[g]
  BY <1>1, <1>3
<1>6. \A g \in Hashes : Requested(g)' <=> (g = h \/ Requested(g))
  BY <1>2, <1>5 DEF Requested
<1>7. ListsIndexRequests'
  <2> SUFFICES ASSUME NEW g \in Hashes
               PROVE  /\ \A b \in AgentIds :
                           Cardinality(Places(agentValidations'[b], g))
                             = IF Requested(g)' /\ validations'[g].agentId = b THEN 1 ELSE 0
                      /\ \A w \in Addresses :
                           Cardinality(Places(validatorRequests'[w], g))
                             = IF validations'[g].validatorAddress = w THEN 1 ELSE 0
    BY DEF ListsIndexRequests, Places
  <2>1. ASSUME NEW b \in AgentIds
        PROVE  Cardinality(Places(agentValidations'[b], g))
                 = IF Requested(g)' /\ validations'[g].agentId = b THEN 1 ELSE 0
    <3>1. Cardinality(Places(agentValidations[b], g))
            = IF Requested(g) /\ validations[g].agentId = b THEN 1 ELSE 0
      BY DEF ValidationInv, ListsIndexRequests, Places
    <3>2. agentValidations'[b] = IF b = a THEN Append(agentValidations[a], h) ELSE agentValidations[b]
      BY <1>1, <1>3
    <3>3. b = a => Cardinality(Places(agentValidations'[b], g)) =
                     IF g = h THEN Cardinality(Places(agentValidations[b], g)) + 1
                     ELSE Cardinality(Places(agentValidations[b], g))
      BY <1>3, <3>2, AppendCounts
    <3> QED
      BY <1>1, <1>5, <1>6, <3>1, <3>2, <3>3
  <2>2. ASSUME NEW w \in Addresses
        PROVE  Cardinality(Places(validatorRequests'[w], g))
                 = IF validations'[g].validatorAddress = w THEN 1 ELSE 0
    <3>1. Cardinality(Places(validatorRequests[w], g))
            = IF validations[g].validatorAddress = w THEN 1 ELSE 0
      BY DEF ValidationInv, ListsIndexRequests, Places
    <3>2. validatorRequests'[w] = IF w = v THEN Append(validatorRequests[v], h) ELSE validatorRequests[w]
      BY <1>1, <1>3
    <3>3. w = v => Cardinality(Places(validatorRequests'[w], g)) =
                     IF g = h THEN Cardinality(Places(validatorRequests[w], g)) + 1
                     ELSE Cardinality(Places(validatorRequests[w], g))
      BY <1>3, <3>2, AppendCounts
    <3>4. validations[h].validatorAddress # w
      BY <1>1, AddressNotZero DEF Requested
    <3> QED
      BY <1>5, <3>1, <3>2, <3>3, <3>4
  <2> QED
    BY <2>1, <2>2
<1>8. \A e \in requestLog : e.requestHash \in Hashes /\ e.requestHash # h
  BY RequestHasEffect DEF RequestEffect
<1>9. LogMatchesRequests'
  <2>1. \A e \in requestLog' :
          /\ validations'[e.requestHash].validatorAddress = e.validatorAddress
          /\ validations'[e.requestHash].agentId = e.agentId
    BY <1>1, <1>5, <1>8 DEF ValidationInv, LogMatchesRequests
  <2>2. ASSUME NEW g \in Hashes, Requested(g)'
        PROVE  \E e \in requestLog' : e.requestHash = g
    <3>1. CASE g = h
      <4>1. said \in requestLog' /\ said.requestHash = h
        BY <1>1
      <4> QED
        BY <3>1, <4>1
    <3>2. CASE g # h
      <4>1. \E e \in requestLog : e.requestHash = g
        BY <1>6, <2>2, <3>2 DEF ValidationInv, LogMatchesRequests
      <4> QED
        BY <1>1, <4>1
    <3> QED
      BY <3>1, <3>2
  <2> QED
    BY <2>1, <2>2 DEF LogMatchesRequests
<1>10. AnsweredWasRequested'
  BY <1>5, <1>6 DEF ValidationInv, AnsweredWasRequested
<1>11. OneEventPerHash'
  BY <1>1, <1>8 DEF ValidationInv, OneEventPerHash
<1> QED
  BY <1>4, <1>7, <1>9, <1>10, <1>11 DEF ValidationInv

\* An answer touches neither who was asked nor about whom, nor the lists.
AnswerEffect(sender, h, r, t) ==
  /\ validations' \in [Hashes -> ValidationStatus]
  /\ \A g \in Hashes :
       /\ validations'[g].validatorAddress = validations[g].validatorAddress
       /\ validations'[g].agentId = validations[g].agentId
       /\ g # h => validations'[g] = validations[g]
  /\ validations'[h].hasResponse
  /\ validations'[h].response = r
  /\ validations'[h].tag = t
  /\ Requested(h)
  /\ validations[h].validatorAddress = sender
  /\ UNCHANGED <<agentValidations, validatorRequests, requestLog>>

LEMMA AnswerHasEffect ==
  ASSUME ValidationInv, NEW sender, NEW h \in Hashes, NEW r \in 0 .. 255, NEW t \in ResponseTags,
         ValidationResponse(sender, h, r, t)
  PROVE  AnswerEffect(sender, h, r, t)
<1> DEFINE answered == [validations[h] EXCEPT !.response = r, !.tag = t, !.hasResponse = TRUE]
<1>1. /\ validations' = [validations EXCEPT ![h] = answered]
      /\ Requested(h) /\ sender = validations[h].validatorAddress /\ r <= MaxResponse
      /\ UNCHANGED <<agentValidations, validatorRequests, requestLog>>
  BY DEF ValidationResponse, ValidationInv, ValidationTypeOK, ValidationStatus
<1>2. r \in 0 .. MaxResponse
  BY <1>1 DEF MaxResponse
<1>3. /\ answered \in ValidationStatus
      /\ answered.validatorAddress = validations[h].validatorAddress
      /\ answered.agentId = validations[h].agentId
      /\ answered.hasResponse /\ answered.response = r /\ answered.tag = t
  <2>1. validations[h] \in ValidationStatus
    BY DEF ValidationInv, ValidationTypeOK
  <2> DEFINE status == validations[h]
  <2> HIDE DEF status
  <2>2. status \in ValidationStatus
    BY <2>1 DEF status
  <2>3. answered = [status EXCEPT !.response = r, !.tag = t, !.hasResponse = TRUE]
    BY DEF status
  <2> HIDE DEF answered
  <2>4. answered \in ValidationStatus
    BY <1>2, <2>2, <2>3 DEF ValidationStatus
  <2>5. /\ answered.validatorAddress = status.validatorAddress
        /\ answered.agentId = status.agentId
        /\ answered.hasResponse /\ answered.response = r /\ answered.tag = t
    BY <2>2, <2>3 DEF ValidationStatus
  <2> QED
    BY <2>4, <2>5 DEF status
<1> HIDE DEF answered
<1>4. \A g \in Hashes : validations'[g] = IF g = h THEN answered ELSE validations[g]
  BY <1>1 DEF ValidationInv, ValidationTypeOK
<1>5. validations' \in [Hashes -> ValidationStatus]
  BY <1>1, <1>3 DEF ValidationInv, ValidationTypeOK
<1> QED
  BY <1>1, <1>3, <1>4, <1>5 DEF AnswerEffect

LEMMA AnswerKeepsInv ==
  ASSUME ValidationInv, Answers(Addresses)
  PROVE  ValidationInv'
<1>1. PICK sender \in Addresses, h \in Hashes, r \in 0 .. 255, t \in ResponseTags :
        ValidationResponse(sender, h, r, t)
  BY Zenon DEF Answers
<1>2. AnswerEffect(sender, h, r, t)
  BY <1>1, AnswerHasEffect
<1>3. \A g \in Hashes : Requested(g)' <=> Requested(g)
  BY <1>2 DEF AnswerEffect, Requested
<1>4. ValidationTypeOK'
  BY <1>2 DEF AnswerEffect, ValidationInv, ValidationTypeOK
<1>5. ListsIndexRequests'
  BY <1>2, <1>3 DEF AnswerEffect, ValidationInv, ListsIndexRequests
<1>6. LogMatchesRequests'
  <2>1. \A e \in requestLog : e.requestHash \in Hashes
    BY DEF ValidationInv, ValidationTypeOK, ValidationRequests
  <2>2. \A e \in requestLog' :
          /\ validations'[e.requestHash].validatorAddress = e.validatorAddress
          /\ validations'[e.requestHash].agentId = e.agentId
    BY <1>2, <2>1 DEF AnswerEffect, ValidationInv, LogMatchesRequests
  <2>3. \A g \in Hashes : Requested(g)' => \E e \in requestLog' : e.requestHash = g
    BY <1>2, <1>3 DEF AnswerEffect, ValidationInv, LogMatchesRequests
  <2> QED
    BY <2>2, <2>3 DEF LogMatchesRequests
<1>7. AnsweredWasRequested' /\ OneEventPerHash'
  BY <1>2, <1>3 DEF AnswerEffect, ValidationInv, AnsweredWasRequested, OneEventPerHash
<1> QED
  BY <1>4, <1>5, <1>6, <1>7 DEF ValidationInv

LEMMA ValidationInvStep == ValidationInv /\ ValidationStep => ValidationInv'
<1>1. ASSUME ValidationInv, UNCHANGED validationVars
      PROVE  ValidationInv'
  BY <1>1 DEF validationVars, ValidationInv, ValidationTypeOK, ListsIndexRequests,
              LogMatchesRequests, AnsweredWasRequested, OneEventPerHash, Requested
<1> QED
  BY <1>1, RequestKeepsInv, AnswerKeepsInv DEF ValidationStep, Requests

\* An answer stands: only its validator replaces it, by another answer.
AnswersKept ==
  \A h \in Hashes :
    validations[h].hasResponse =>
      /\ validations'[h].hasResponse
      /\ validations'[h].validatorAddress = validations[h].validatorAddress
      /\ validations'[h].agentId = validations[h].agentId

LEMMA AnswersKeptStep == ValidationInv /\ ValidationStep => AnswersKept
<1> SUFFICES ASSUME ValidationInv, ValidationStep
             PROVE  AnswersKept
  OBVIOUS
<1>1. ASSUME NEW sender \in Users, NEW v \in Validators, NEW a \in AgentIds,
             NEW u \in RequestURIs, NEW h \in Hashes, ValidationRequest(sender, v, a, u, h)
      PROVE  AnswersKept
  <2>1. ~validations[h].hasResponse
    BY <1>1 DEF ValidationRequest, ValidationInv, AnsweredWasRequested
  <2>2. \A g \in Hashes : g # h => validations'[g] = validations[g]
    BY <1>1 DEF ValidationRequest, ValidationInv, ValidationTypeOK
  <2> QED
    BY <2>1, <2>2 DEF AnswersKept
<1>2. ASSUME NEW sender \in Addresses, NEW h \in Hashes, NEW r \in 0 .. 255,
             NEW t \in ResponseTags, ValidationResponse(sender, h, r, t)
      PROVE  AnswersKept
  <2>1. AnswerEffect(sender, h, r, t)
    BY <1>2, AnswerHasEffect
  <2> QED
    BY <2>1 DEF AnswerEffect, AnswersKept
<1>3. CASE UNCHANGED validationVars
  BY <1>3 DEF validationVars, AnswersKept
<1> QED
  BY <1>1, <1>2, <1>3 DEF ValidationStep, Requests, Answers

\* What users do is a request or an answer of theirs.
LEMMA UserStepsAreSteps ==
  ASSUME NEW sender \in Users
  PROVE  /\ RequestCall(sender) => Requests
         /\ ResponseCall(sender) => Answers(Users)
BY ValidationConstants DEF RequestCall, ResponseCall, Requests, Answers

LEMMA ValidationNextIsStep ==
  [ValidationNext]_<<registryVars, validationVars>> => ValidationStep
<1>1. ASSUME NEW sender \in Addresses, ResponseCall(sender)
      PROVE  Answers(Addresses)
  BY <1>1, ValidationConstants DEF ResponseCall, Answers
<1> QED
  BY <1>1, UserStepsAreSteps DEF ValidationNext, ValidationStep

\* The registry of validations keeps its invariant, whatever is requested and
\* answered in whatever order, and whoever gets the agents in between.
THEOREM ValidationInvariant == ValidationSpec => []ValidationInv
<1>1. ValidationSystemInit => ValidationInv
  BY ValidationInvInit DEF ValidationSystemInit
<1>2. ValidationInv /\ [ValidationNext]_<<registryVars, validationVars>> => ValidationInv'
  BY ValidationNextIsStep, ValidationInvStep
<1> QED
  BY <1>1, <1>2, PTL DEF ValidationSpec

\* Both lookup lists index the requests exactly.
THEOREM RequestsAreIndexed == ValidationSpec => []ListsIndexRequests
<1>1. ValidationInv => ListsIndexRequests
  BY DEF ValidationInv
<1> QED
  BY <1>1, ValidationInvariant, PTL

\* Events state what the registry still holds.
THEOREM EventsStayTrue == ValidationSpec => []LogMatchesRequests
<1>1. ValidationInv => LogMatchesRequests
  BY DEF ValidationInv
<1> QED
  BY <1>1, ValidationInvariant, PTL

\* No step takes an answer back or moves it to another validator or agent.
THEOREM AnswersAreKept == ValidationSpec => AnswersStand
<1>1. ValidationInv /\ [ValidationNext]_<<registryVars, validationVars>>
        => [AnswersKept]_<<registryVars, validationVars>>
  BY ValidationNextIsStep, AnswersKeptStep
<1> QED
  BY <1>1, ValidationInvariant, PTL DEF ValidationSpec, AnswersStand, AnswersKept

\* The answered requests that a summary is about.
AnsweredFor(a, validators, tag) ==
  {h \in Hashes :
     /\ validations[h].hasResponse
     /\ validations[h].agentId = a
     /\ validators = {} \/ validations[h].validatorAddress \in validators
     /\ tag \in {NoResponseTag, validations[h].tag}}

\* The list of an agent has each request about it in one place.
LEMMA ListHasRequestsOnce ==
  ASSUME ValidationInv, NEW a \in AgentIds
  PROVE  /\ IsFiniteSet(DOMAIN agentValidations[a])
         /\ \A i \in DOMAIN agentValidations[a] :
              /\ agentValidations[a][i] \in Hashes
              /\ validations[agentValidations[a][i]].agentId = a
         /\ \A i, j \in DOMAIN agentValidations[a] :
              agentValidations[a][i] = agentValidations[a][j] => i = j
         /\ \A h \in Hashes :
              Requested(h) /\ validations[h].agentId = a =>
                \E i \in DOMAIN agentValidations[a] : agentValidations[a][i] = h
<1> DEFINE list == agentValidations[a]
<1>1. list \in Seq(Hashes)
  BY DEF ValidationInv, ValidationTypeOK
<1>2. \A h \in Hashes :
        Cardinality(Places(list, h)) = IF Requested(h) /\ validations[h].agentId = a THEN 1 ELSE 0
  BY DEF ValidationInv, ListsIndexRequests, Places
<1> HIDE DEF list
<1>3. DOMAIN list = 1 .. Len(list) /\ Len(list) \in Nat /\ \A i \in DOMAIN list : list[i] \in Hashes
  BY <1>1
<1>4. IsFiniteSet(DOMAIN list)
  <2>1. IsFiniteSet(1 .. Len(list))
    BY <1>3, CountUp
  <2> QED
    BY <1>3, <2>1
<1>5. \A h \in Hashes : IsFiniteSet(Places(list, h))
  BY <1>1, PlacesFinite
<1>6. ASSUME NEW i \in DOMAIN list
      PROVE  validations[list[i]].agentId = a
  <2>1. i \in Places(list, list[i]) /\ list[i] \in Hashes
    BY <1>3 DEF Places
  <2>2. Cardinality(Places(list, list[i])) # 0
    BY <1>5, <2>1, FS_EmptySet
  <2> QED
    BY <1>2, <2>1, <2>2
<1>7. ASSUME NEW i \in DOMAIN list, NEW j \in DOMAIN list, list[i] = list[j]
      PROVE  i = j
  <2>1. i \in Places(list, list[i]) /\ j \in Places(list, list[i]) /\ list[i] \in Hashes
    BY <1>3, <1>7 DEF Places
  <2>2. Cardinality(Places(list, list[i])) # 0
    BY <1>5, <2>1, FS_EmptySet
  <2>3. Cardinality(Places(list, list[i])) = 1
    BY <1>2, <2>1, <2>2
  <2>4. PICK k : Places(list, list[i]) = {k}
    BY <1>5, <2>1, <2>3, FS_Singleton
  <2> QED
    BY <2>1, <2>4
<1>8. ASSUME NEW h \in Hashes, Requested(h), validations[h].agentId = a
      PROVE  \E i \in DOMAIN list : list[i] = h
  <2>1. Cardinality(Places(list, h)) = 1
    BY <1>2, <1>8
  <2>2. PICK k : Places(list, h) = {k}
    BY <1>5, <2>1, FS_Singleton
  <2> QED
    BY <2>2 DEF Places
<1> QED
  BY <1>3, <1>4, <1>6, <1>7, <1>8 DEF list

\* The places that getSummary counts are one for each answered request.
LEMMA CountedAreAnswered ==
  ASSUME ValidationInv, NEW a \in AgentIds, NEW validators \in SUBSET Addresses,
         NEW tag \in ResponseTags
  PROVE  /\ Counted(a, validators, tag) \subseteq DOMAIN agentValidations[a]
         /\ IsFiniteSet(Counted(a, validators, tag))
         /\ \A i \in Counted(a, validators, tag) :
              agentValidations[a][i] \in AnsweredFor(a, validators, tag)
         /\ \A h \in AnsweredFor(a, validators, tag) :
              \E i \in Counted(a, validators, tag) : agentValidations[a][i] = h
<1>1. Counted(a, validators, tag) \in SUBSET DOMAIN agentValidations[a]
  BY DEF Counted
<1>2. IsFiniteSet(Counted(a, validators, tag))
  BY <1>1, ListHasRequestsOnce, FS_Subset
<1>3. \A i \in Counted(a, validators, tag) :
        agentValidations[a][i] \in AnsweredFor(a, validators, tag)
  BY ListHasRequestsOnce DEF Counted, AnsweredFor
<1>4. ASSUME NEW h \in AnsweredFor(a, validators, tag)
      PROVE  \E i \in Counted(a, validators, tag) : agentValidations[a][i] = h
  <2>1. h \in Hashes /\ Requested(h) /\ validations[h].agentId = a
    BY DEF AnsweredFor, ValidationInv, AnsweredWasRequested
  <2>2. PICK i \in DOMAIN agentValidations[a] : agentValidations[a][i] = h
    BY <2>1, ListHasRequestsOnce
  <2> QED
    BY <2>2 DEF Counted, AnsweredFor
<1> QED
  BY <1>1, <1>2, <1>3, <1>4

\* getSummary is the average over the answered requests about the agent.
LEMMA SummaryFollows == ValidationInv => SummaryIsAverage
<1> SUFFICES ASSUME ValidationInv, NEW a \in AgentIds, NEW tag \in ResponseTags,
                    NEW validators \in SUBSET Addresses
             PROVE  LET answered == AnsweredFor(a, validators, tag)
                        n == Cardinality(answered)
                        total == Cardinality({p \in answered \X (1 .. MaxResponse) :
                                                p[2] <= validations[p[1]].response})
                        summary == GetSummary(a, validators, tag)
                    IN /\ summary.count = n
                       /\ n = 0 => summary.avgResponse = 0
                       /\ n > 0 => /\ summary.avgResponse * n <= total
                                   /\ total < (summary.avgResponse + 1) * n
  BY DEF SummaryIsAverage, AnsweredFor
<1> DEFINE answered == AnsweredFor(a, validators, tag)
           counted == Counted(a, validators, tag)
           list == agentValidations[a]
           f == [i \in DOMAIN list |-> validations[list[i]].response]
           pairs == {p \in answered \X (1 .. MaxResponse) : p[2] <= validations[p[1]].response}
           F == [i \in counted |-> list[i]]
           G == [p \in Units(f, counted, MaxResponse) |-> <<list[p[1]], p[2]>>]
<1>1. /\ counted \subseteq DOMAIN list
      /\ IsFiniteSet(counted)
      /\ \A i \in counted : list[i] \in answered
      /\ \A h \in answered : \E i \in counted : list[i] = h
      /\ \A i, j \in counted : list[i] = list[j] => i = j
  BY CountedAreAnswered, ListHasRequestsOnce
<1>2. \A i \in DOMAIN list : f[i] = validations[list[i]].response
  OBVIOUS
<1>3. \A i \in counted : f[i] \in 0 .. MaxResponse
  <2>1. \A i \in DOMAIN list : list[i] \in Hashes
    BY ListHasRequestsOnce
  <2>2. \A h \in Hashes : validations[h].response \in 0 .. MaxResponse
    BY DEF ValidationInv, ValidationTypeOK, ValidationStatus
  <2> HIDE DEF f, counted, list
  <2> QED
    BY <1>1, <1>2, <2>1, <2>2
<1>4. GetSummary(a, validators, tag) =
        [count |-> Cardinality(counted),
         avgResponse |-> IF Cardinality(counted) > 0
                         THEN SumFunctionOnSet(f, counted) \div Cardinality(counted) ELSE 0]
  BY DEF GetSummary
<1> HIDE DEF answered, counted, list, f
<1>5. Cardinality(counted) = Cardinality(answered) /\ Cardinality(answered) \in Nat
  <2>1. F \in Bijection(counted, answered)
    BY <1>1 DEF Bijection, Injection, Surjection, IsInjective
  <2> HIDE DEF F
  <2>2. ExistsBijection(counted, answered)
    BY <2>1 DEF ExistsBijection
  <2> QED
    BY <1>1, <2>2, FS_Bijection, FS_CardinalityType
<1>6. MaxResponse \in Nat
  BY DEF MaxResponse
<1>7. /\ IsFiniteSet(Units(f, counted, MaxResponse))
      /\ SumFunctionOnSet(f, counted) = Cardinality(Units(f, counted, MaxResponse))
  BY <1>1, <1>3, <1>6, SumCountsUnits
<1>8. Cardinality(Units(f, counted, MaxResponse)) = Cardinality(pairs)
  <2>1. \A p \in Units(f, counted, MaxResponse) : <<list[p[1]], p[2]>> \in pairs
    BY <1>1, <1>2 DEF Units
  <2>2. ASSUME NEW q \in pairs
        PROVE  \E p \in Units(f, counted, MaxResponse) : <<list[p[1]], p[2]>> = q
    <3>1. q[1] \in answered /\ q[2] \in 1 .. MaxResponse /\ q = <<q[1], q[2]>>
          /\ q[2] <= validations[q[1]].response
      OBVIOUS
    <3>2. PICK i \in counted : list[i] = q[1]
      BY <1>1, <3>1
    <3>3. <<i, q[2]>> \in Units(f, counted, MaxResponse)
      BY <1>1, <1>2, <3>1, <3>2 DEF Units
    <3> QED
      BY <3>1, <3>2, <3>3
  <2>3. \A p, q \in Units(f, counted, MaxResponse) :
          <<list[p[1]], p[2]>> = <<list[q[1]], q[2]>> => p = q
    BY <1>1 DEF Units
  <2>4. /\ G \in [Units(f, counted, MaxResponse) -> pairs]
        /\ \A p \in Units(f, counted, MaxResponse) : G[p] = <<list[p[1]], p[2]>>
    BY <2>1
  <2> HIDE DEF G, pairs
  <2>5. G \in Bijection(Units(f, counted, MaxResponse), pairs)
    BY <2>2, <2>3, <2>4 DEF Bijection, Injection, Surjection, IsInjective
  <2>6. ExistsBijection(Units(f, counted, MaxResponse), pairs)
    BY <2>5 DEF ExistsBijection
  <2> QED
    BY <1>7, <2>6, FS_Bijection
<1>9. Cardinality(pairs) \in Nat
  BY <1>7, <1>8, FS_CardinalityType
<1> HIDE DEF pairs, F, G
<1>10. /\ GetSummary(a, validators, tag).count = Cardinality(answered)
       /\ GetSummary(a, validators, tag).avgResponse =
            IF Cardinality(answered) > 0 THEN Cardinality(pairs) \div Cardinality(answered) ELSE 0
  BY <1>4, <1>5, <1>7, <1>8
<1> QED
  BY <1>5, <1>9, <1>10, QuotientBounds DEF answered, pairs

\* What getSummary returns is the average over all answered requests about the
\* agent, however many there are and however their answers came and changed.
THEOREM SummariesAreAverages == ValidationSpec => []SummaryIsAverage
BY SummaryFollows, ValidationInvariant, PTL

-----------------------------------------------------------------------------
(* StripeKYCValidator with its workflow.                                   *)

\* A signed report is about a request to this validator, and its verdict is not
\* better than its session.
KycReportsSigned ==
  \A r \in kycReports :
    /\ \E e \in requestLog :
         /\ e.validatorAddress = Kyc
         /\ e.agentId = r.agentId
         /\ e.requestHash = r.requestHash
         /\ e.requestURI = r.sessionHash
    /\ r.verified => r.sessionHash \in sessionVerified

KycInv == KycTypeOK /\ KycBacked /\ KycAnswersAreReports /\ KycReportsSigned

\* What others do to the registry of validations: anything but answer for Kyc.
OthersThanKyc == Requests \/ Answers(Addresses \ {Kyc}) \/ UNCHANGED validationVars

\* No agent is verified at the start.
LEMMA KycInvInit == KycInit /\ ValidationInit => KycInv
<1> SUFFICES ASSUME KycInit, ValidationInit
             PROVE  KycInv
  OBVIOUS
<1> DEFINE blank == [verified |-> FALSE, sessionHash |-> NoSession]
<1>1. /\ kycVerified = [a \in AgentIds |-> FALSE]
      /\ kycVerifications = [a \in AgentIds |-> blank]
      /\ sessionVerified = {} /\ kycReports = {} /\ kycForwarder \in KycForwarders
  BY DEF KycInit
<1>2. requestLog = {}
  BY DEF ValidationInit
<1>3. blank \in KYCVerification
  BY DEF KYCVerification
<1>4. KycTypeOK
  BY <1>1, <1>3 DEF KycTypeOK
<1>5. KycBacked
  BY <1>1 DEF KycBacked
<1> QED
  BY <1>1, <1>2, <1>4, <1>5 DEF KycInv, KycAnswersAreReports, KycReportsSigned

\* Requests and the answers of others leave what this validator recorded, and the
\* answers that back it, as they are.
LEMMA OthersKeepKyc ==
  ASSUME ValidationInv, KycInv, OthersThanKyc, UNCHANGED kycVars
  PROVE  KycInv'
<1>1. /\ sessionVerified' = sessionVerified /\ kycReports' = kycReports
      /\ kycForwarder' = kycForwarder /\ kycVerified' = kycVerified
      /\ kycVerifications' = kycVerifications
  BY DEF kycVars
<1>2. KycTypeOK'
  BY <1>1 DEF KycInv, KycTypeOK
<1>3. ASSUME requestLog \subseteq requestLog',
             \A e \in requestLog : e.validatorAddress = Kyc =>
               validations'[e.requestHash] = validations[e.requestHash],
             \A e \in requestLog' \ requestLog : ~validations'[e.requestHash].hasResponse
      PROVE  KycInv'
  <2>1. KycBacked'
    BY <1>1, <1>3 DEF KycInv, KycBacked
  <2>2. KycAnswersAreReports'
    BY <1>1, <1>3 DEF KycInv, KycAnswersAreReports
  <2>3. KycReportsSigned'
    BY <1>1, <1>3 DEF KycInv, KycReportsSigned
  <2> QED
    BY <1>2, <2>1, <2>2, <2>3 DEF KycInv
<1>4. ASSUME NEW sender \in Users, NEW v \in Validators, NEW a \in AgentIds,
             NEW u \in RequestURIs, NEW h \in Hashes, ValidationRequest(sender, v, a, u, h)
      PROVE  KycInv'
  <2>1. RequestEffect(v, a, u, h)
    BY <1>4, RequestHasEffect
  <2> QED
    BY <1>3, <2>1 DEF RequestEffect
<1>5. ASSUME NEW sender \in Addresses \ {Kyc}, NEW h \in Hashes, NEW r \in 0 .. 255,
             NEW t \in ResponseTags, ValidationResponse(sender, h, r, t)
      PROVE  KycInv'
  <2>1. AnswerEffect(sender, h, r, t)
    BY <1>5, AnswerHasEffect
  <2>2. \A e \in requestLog :
          /\ e.requestHash \in Hashes
          /\ validations[e.requestHash].validatorAddress = e.validatorAddress
    BY DEF ValidationInv, ValidationTypeOK, ValidationRequests, LogMatchesRequests
  <2> QED
    BY <1>3, <2>1, <2>2 DEF AnswerEffect
<1>6. CASE UNCHANGED validationVars
  BY <1>3, <1>6 DEF validationVars
<1> QED
  BY <1>4, <1>5, <1>6 DEF OthersThanKyc, Requests, Answers

\* The contract's own delivery: what it records is what it answers, to a request
\* about the agent of the report.
LEMMA KycReportKeepsInv ==
  ASSUME ValidationInv, KycInv, NEW sender, NEW r \in KycReports,
         CanSubmitKyc(sender, r), KycOnReport(sender, r)
  PROVE  KycInv' /\ Answers({Kyc})
<1> DEFINE a == r.agentId
           h == r.requestHash
           answer == IF r.verified THEN 100 ELSE 0
           recorded == [verified |-> r.verified, sessionHash |-> r.sessionHash]
<1>1. a \in AgentIds /\ h \in Hashes /\ r.verified \in BOOLEAN /\ r.sessionHash \in StripeURIs
  BY DEF KycReports
<1>2. /\ kycVerified' = [kycVerified EXCEPT ![a] = r.verified]
      /\ kycVerifications' = [kycVerifications EXCEPT ![a] = recorded]
      /\ UNCHANGED <<sessionVerified, kycReports, kycForwarder>>
  BY DEF KycOnReport
<1>3. answer \in 0 .. 255 /\ KYC_VERIFIED \in ResponseTags
  BY KycConstants
<1>4. ValidationResponse(Kyc, h, answer, KYC_VERIFIED)
  BY DEF KycOnReport
<1>5. Answers({Kyc})
  BY <1>1, <1>3, <1>4 DEF Answers
<1>6. AnswerEffect(Kyc, h, answer, KYC_VERIFIED)
  BY <1>1, <1>3, <1>4, AnswerHasEffect
<1>7. r \in kycReports
  BY DEF KycOnReport, CanSubmitKyc, KycInv, KycTypeOK
<1>8. PICK e0 \in requestLog : /\ e0.validatorAddress = Kyc
                               /\ e0.agentId = a
                               /\ e0.requestHash = h
                               /\ e0.requestURI = r.sessionHash
  BY <1>7 DEF KycInv, KycReportsSigned
<1>9. r.verified => r.sessionHash \in sessionVerified
  BY <1>7 DEF KycInv, KycReportsSigned
<1>10. \A e \in requestLog :
         /\ e.requestHash \in Hashes
         /\ validations[e.requestHash].agentId = e.agentId
         /\ e.requestHash = h => e = e0
  BY <1>8 DEF ValidationInv, ValidationTypeOK, ValidationRequests, LogMatchesRequests,
              OneEventPerHash
<1>11. /\ \A b \in AgentIds : kycVerified'[b] = IF b = a THEN r.verified ELSE kycVerified[b]
       /\ \A b \in AgentIds :
            kycVerifications'[b] = IF b = a THEN recorded ELSE kycVerifications[b]
  BY <1>2 DEF KycInv, KycTypeOK
<1>12. requestLog' = requestLog
  BY <1>6 DEF AnswerEffect
<1>13. KycTypeOK'
  <2>1. recorded \in KYCVerification
    BY <1>1 DEF KYCVerification
  <2> HIDE DEF recorded, a
  <2> QED
    BY <1>1, <1>2, <2>1 DEF KycInv, KycTypeOK
<1>14. KycBacked'
  <2> SUFFICES ASSUME NEW b \in AgentIds
               PROVE  /\ kycVerifications'[b].verified = kycVerified'[b]
                      /\ kycVerified'[b] =>
                           /\ kycVerifications'[b].sessionHash \in sessionVerified'
                           /\ \E e \in requestLog' :
                                /\ e.agentId = b
                                /\ e.validatorAddress = Kyc
                                /\ e.requestURI = kycVerifications'[b].sessionHash
                                /\ validations'[e.requestHash].response = 100
                                /\ validations'[e.requestHash].tag = KYC_VERIFIED
    BY DEF KycBacked
  <2>1. CASE b = a
    BY <1>2, <1>6, <1>8, <1>9, <1>11, <1>12, <2>1 DEF AnswerEffect
  <2>2. CASE b # a
    <3>1. /\ kycVerified'[b] = kycVerified[b]
          /\ kycVerifications'[b] = kycVerifications[b]
          /\ kycVerifications[b].verified = kycVerified[b]
      BY <1>11, <2>2 DEF KycInv, KycBacked
    <3>2. ASSUME NEW e \in requestLog, e.agentId = b
          PROVE  validations'[e.requestHash] = validations[e.requestHash]
      BY <1>6, <1>8, <1>10, <2>2, <3>2 DEF AnswerEffect
    <3> HIDE DEF a, h, answer, recorded
    <3> QED
      BY <1>2, <1>12, <3>1, <3>2 DEF KycInv, KycBacked
  <2> QED
    BY <2>1, <2>2
<1>15. KycAnswersAreReports'
  <2> SUFFICES ASSUME NEW e \in requestLog, e.validatorAddress = Kyc,
                      validations'[e.requestHash].hasResponse
               PROVE  /\ e.requestURI \in StripeURIs
                      /\ validations'[e.requestHash].tag = KYC_VERIFIED
                      /\ validations'[e.requestHash].response \in {0, 100}
                      /\ validations'[e.requestHash].response = 100
                           => e.requestURI \in sessionVerified'
    BY <1>12 DEF KycAnswersAreReports
  <2>1. CASE e.requestHash = h
    BY <1>1, <1>2, <1>6, <1>8, <1>9, <1>10, <2>1 DEF AnswerEffect
  <2>2. CASE e.requestHash # h
    <3>1. validations'[e.requestHash] = validations[e.requestHash]
      BY <1>6, <1>10, <2>2 DEF AnswerEffect
    <3> QED
      BY <1>2, <3>1 DEF KycInv, KycAnswersAreReports
  <2> QED
    BY <2>1, <2>2
<1>16. KycReportsSigned'
  BY <1>2, <1>12 DEF KycInv, KycReportsSigned
<1> QED
  BY <1>5, <1>13, <1>14, <1>15, <1>16 DEF KycInv

\* The validator's own steps, and its forwarders and the workflow's.
LEMMA KycStepsKeepInv ==
  ASSUME ValidationInv, KycInv, KycNext
  PROVE  KycInv' /\ (Answers({Kyc}) \/ UNCHANGED validationVars)
<1>1. ASSUME NEW s \in StripeURIs, StripeVerifies(s)
      PROVE  KycInv' /\ UNCHANGED validationVars
  <2>1. /\ sessionVerified' = sessionVerified \cup {s}
        /\ UNCHANGED <<kycReports, kycForwarder, kycVerified, kycVerifications>>
        /\ UNCHANGED <<validations, requestLog>>
        /\ UNCHANGED validationVars
    BY <1>1 DEF StripeVerifies, validationVars
  <2>2. KycTypeOK' /\ KycBacked' /\ KycReportsSigned'
    BY <2>1 DEF KycInv, KycTypeOK, KycBacked, KycReportsSigned
  <2>3. KycAnswersAreReports'
    BY <2>1 DEF KycInv, KycAnswersAreReports
  <2> QED
    BY <2>1, <2>2, <2>3 DEF KycInv
<1>2. ASSUME NEW e \in requestLog, KycWorkflow(e)
      PROVE  KycInv' /\ UNCHANGED validationVars
  <2>0. PICK verified \in BOOLEAN :
          /\ verified => e.requestURI \in sessionVerified
          /\ kycReports' = kycReports \cup
               {[agentId |-> e.agentId, verified |-> verified,
                 requestHash |-> e.requestHash, sessionHash |-> e.requestURI]}
    BY <1>2 DEF KycWorkflow
  <2> DEFINE signed == [agentId |-> e.agentId, verified |-> verified,
                        requestHash |-> e.requestHash, sessionHash |-> e.requestURI]
  <2>1. /\ e.validatorAddress = Kyc /\ e.requestURI \in StripeURIs
        /\ kycReports' = kycReports \cup {signed}
        /\ UNCHANGED <<sessionVerified, kycForwarder, kycVerified, kycVerifications>>
        /\ UNCHANGED <<validations, requestLog>>
        /\ UNCHANGED validationVars
    BY <1>2, <2>0 DEF KycWorkflow, validationVars
  <2>2. e.agentId \in AgentIds /\ e.requestHash \in Hashes
    BY DEF ValidationInv, ValidationTypeOK, ValidationRequests
  <2>3. signed \in KycReports
    BY <2>1, <2>2 DEF KycReports
  <2>4. KycTypeOK'
    BY <2>1, <2>3 DEF KycInv, KycTypeOK
  <2>5. KycBacked' /\ KycAnswersAreReports'
    BY <2>1 DEF KycInv, KycBacked, KycAnswersAreReports
  <2>6. KycReportsSigned'
    <3>1. /\ signed.agentId = e.agentId /\ signed.requestHash = e.requestHash
          /\ signed.sessionHash = e.requestURI
          /\ signed.verified => signed.sessionHash \in sessionVerified
      BY <2>0
    <3> HIDE DEF signed
    <3> SUFFICES ASSUME NEW r \in kycReports'
                 PROVE  /\ \E x \in requestLog : /\ x.validatorAddress = Kyc
                                                /\ x.agentId = r.agentId
                                                /\ x.requestHash = r.requestHash
                                                /\ x.requestURI = r.sessionHash
                        /\ r.verified => r.sessionHash \in sessionVerified
      BY <2>1 DEF KycReportsSigned
    <3>2. CASE r = signed
      BY <2>1, <3>1, <3>2
    <3>3. CASE r \in kycReports
      BY <3>3 DEF KycInv, KycReportsSigned
    <3> QED
      BY <2>1, <3>2, <3>3
  <2> QED
    BY <2>1, <2>4, <2>5, <2>6 DEF KycInv
<1>3. ASSUME NEW f \in KycForwarders, SetKycForwarder(f)
      PROVE  KycInv' /\ UNCHANGED validationVars
  BY <1>3 DEF SetKycForwarder, validationVars, KycInv, KycTypeOK, KycBacked,
              KycAnswersAreReports, KycReportsSigned
<1> QED
  BY <1>1, <1>2, <1>3, KycReportKeepsInv DEF KycNext

\* What happens in the contract's own system: its steps, or those of others.
LEMMA KycSystemStep ==
  ASSUME ValidationInv, KycInv, [KycSystemNext]_kycSystemVars
  PROVE  KycInv' /\ ValidationStep
<1>1. Kyc \in Addresses /\ Kyc \notin Users /\ Users \subseteq Addresses
  BY KycConstants DEF Addresses
<1>2. CASE KycNext
  <2>1. Answers({Kyc}) => Answers(Addresses)
    BY <1>1 DEF Answers
  <2> QED
    BY <1>2, <2>1, KycStepsKeepInv DEF ValidationStep
<1>3. ASSUME UNCHANGED kycVars, NEW sender \in Users, RequestCall(sender) \/ ResponseCall(sender)
      PROVE  KycInv' /\ ValidationStep
  <2>1. Answers(Users) => Answers(Addresses) /\ Answers(Addresses \ {Kyc})
    BY <1>1 DEF Answers
  <2>2. Requests \/ Answers(Users)
    BY <1>3, UserStepsAreSteps
  <2> QED
    BY <1>3, <2>1, <2>2, OthersKeepKyc DEF OthersThanKyc, ValidationStep
<1>4. CASE UNCHANGED validationVars /\ UNCHANGED kycVars
  BY <1>4, OthersKeepKyc DEF OthersThanKyc, ValidationStep
<1> QED
  BY <1>2, <1>3, <1>4 DEF KycSystemNext, kycSystemVars

\* The validator's invariant, along with the registry's.
THEOREM KycInvariant == KycSpec => [](ValidationInv /\ KycInv)
<1>1. KycSystemInit => ValidationInv /\ KycInv
  BY ValidationInvInit, KycInvInit DEF KycSystemInit, ValidationSystemInit
<1>2. ValidationInv /\ KycInv /\ [KycSystemNext]_kycSystemVars => (ValidationInv /\ KycInv)'
  BY KycSystemStep, ValidationInvStep
<1> QED
  BY <1>1, <1>2, PTL DEF KycSpec

\* An agent is KYC-verified only on an affirmative answer the registry holds, to a
\* request about it on a completed session.
THEOREM KycIsBacked == KycSpec => []KycBacked
<1>1. ValidationInv /\ KycInv => KycBacked
  BY DEF KycInv
<1> QED
  BY <1>1, KycInvariant, PTL

\* Requests to this validator are answered by its reports alone.
THEOREM KycAnswersReported == KycSpec => []KycAnswersAreReports
<1>1. ValidationInv /\ KycInv => KycAnswersAreReports
  BY DEF KycInv
<1> QED
  BY <1>1, KycInvariant, PTL

\* Registered agents stay registered.
LEMMA AgentsStay ==
  ASSUME RegistryInv, RegistryInv', [RegistryNext]_registryVars, NEW a \in AgentIds, Exists(a)
  PROVE  Exists(a)'
<1>1. lastId \in Nat /\ lastId' \in Nat /\ lastId <= lastId'
  <2>1. lastId \in 0 .. MaxAgents /\ lastId' \in 0 .. MaxAgents
    BY DEF RegistryInv, RegistryTypeOK
  <2>2. lastId' = lastId \/ lastId' = lastId + 1
    BY DEF RegistryNext, RegistryCall, Register, FinishRegister, SetMetadata, SetAgentURI,
           SetAgentWallet, UnsetAgentWallet, Approve, SetApprovalForAll, TransferFrom, Tick,
           registryVars
  <2> QED
    BY <2>1, <2>2, ZeroIsNobody
<1>2. a \in Nat /\ a < lastId
  BY DEF RegistryInv, OwnedBelowLastId, AgentIds
<1> QED
  BY <1>1, <1>2 DEF RegistryInv, OwnedBelowLastId

\* Requests are about agents that exist.
RequestedExist == \A e \in requestLog : Exists(e.agentId)

LEMMA RequestedExistStays ==
  ASSUME RegistryInv, ValidationInv, RequestedExist, [KycSystemNext]_kycSystemVars
  PROVE  RegistryInv' /\ RequestedExist'
<1>1. \A e \in requestLog : e.agentId \in AgentIds
  BY DEF ValidationInv, ValidationTypeOK, ValidationRequests
<1>2. CASE Requests
  <2>1. PICK v \in Validators, a \in AgentIds, u \in RequestURIs, h \in Hashes :
          \E sender \in Users : ValidationRequest(sender, v, a, u, h)
    BY <1>2 DEF Requests
  <2>2. /\ Exists(a) /\ UNCHANGED registryVars
        /\ requestLog' = requestLog \cup
             {[validatorAddress |-> v, agentId |-> a, requestURI |-> u, requestHash |-> h]}
    BY <2>1 DEF ValidationRequest, IsAuthorized
  <2>3. owner' = owner
    BY <2>2 DEF registryVars
  <2>4. RegistryInv'
    BY <2>2, RegistryInvNext
  <2> QED
    BY <2>2, <2>3, <2>4 DEF RequestedExist, Exists
<1>3. ASSUME requestLog' = requestLog, [RegistryNext]_registryVars
      PROVE  RegistryInv' /\ RequestedExist'
  <2>1. RegistryInv'
    BY <1>3, RegistryInvNext
  <2> QED
    BY <1>1, <1>3, <2>1, AgentsStay DEF RequestedExist
<1>4. \A senders : Answers(senders) => UNCHANGED registryVars /\ requestLog' = requestLog
  BY DEF Answers, ValidationResponse
<1>5. KycNext => UNCHANGED registryVars /\ requestLog' = requestLog
  BY DEF KycNext, StripeVerifies, KycWorkflow, KycOnReport, SetKycForwarder, ValidationResponse,
         validationVars
<1>6. ASSUME NEW sender \in Users, RequestCall(sender) \/ ResponseCall(sender)
      PROVE  Requests \/ (UNCHANGED registryVars /\ requestLog' = requestLog)
  <2>1. Requests \/ Answers(Users)
    BY <1>6, UserStepsAreSteps
  <2>2. Answers(Users) => UNCHANGED registryVars /\ requestLog' = requestLog
    BY <1>4
  <2> QED
    BY <2>1, <2>2
<1>7. CASE RegistryNext /\ UNCHANGED validationVars
  BY <1>3, <1>7 DEF validationVars
<1>8. CASE UNCHANGED kycSystemVars
  BY <1>3, <1>8 DEF kycSystemVars, validationVars
<1> QED
  BY <1>2, <1>3, <1>5, <1>6, <1>7, <1>8 DEF KycSystemNext

\* Whatever happens while a signed report is on its way, the contracts would still
\* take it from the forwarder, as an answer about the agent it was made for.
THEOREM KycReportsStayDeliverable == KycSpec => []KycReportsDeliverable
<1> DEFINE Inv == RegistryInv /\ ValidationInv /\ KycInv /\ RequestedExist
<1>1. KycSystemInit => Inv
  <2>1. ValidationInit => RequestedExist
    BY DEF ValidationInit, RequestedExist
  <2> QED
    BY <2>1, RegistryInvInit, ValidationInvInit, KycInvInit
       DEF KycSystemInit, ValidationSystemInit
<1>2. Inv /\ [KycSystemNext]_kycSystemVars => Inv'
  BY KycSystemStep, ValidationInvStep, RequestedExistStays
<1>3. Inv => KycReportsDeliverable
  BY DEF KycInv, KycReportsSigned, KycReportsDeliverable, ValidationInv, LogMatchesRequests,
         RequestedExist
<1> QED
  BY <1>1, <1>2, <1>3, PTL DEF KycSpec

-----------------------------------------------------------------------------
(* PlaidCreditValidator with its workflow.                                 *)

\* A score is zero or one the service computed.
ScoresComputed ==
  \A a \in AgentIds : creditScores[a] \in {0} \cup (Scores \cap (0 .. MaxScore))

CreditInv == CreditTypeOK /\ CreditBacked /\ ScoresComputed

\* What others do to the registry of validations: anything but answer for Credit.
OthersThanCredit ==
  Requests \/ Answers(Addresses \ {Credit}) \/ UNCHANGED validationVars

\* No agent has a score at the start.
LEMMA CreditInvInit == CreditInit => CreditInv
<1> SUFFICES ASSUME CreditInit
             PROVE  CreditInv
  OBVIOUS
<1> DEFINE blank == [score |-> 0, dataHash |-> {}, hasScore |-> FALSE]
<1>1. /\ creditScores = [a \in AgentIds |-> 0]
      /\ creditVerifications = [a \in AgentIds |-> blank]
      /\ creditForwarder \in CreditForwarders /\ sgxDcapVerifier = FALSE
      /\ expectedMrEnclave \in Enclaves
  BY DEF CreditInit
<1>2. blank \in CreditVerification
  BY DEF CreditVerification, Optional, MaxScore
<1>3. CreditTypeOK
  <2>1. 0 \in 0 .. MaxScore
    BY DEF MaxScore
  <2>2. creditScores \in [AgentIds -> 0 .. MaxScore]
    BY <1>1, <2>1
  <2>3. creditVerifications \in [AgentIds -> CreditVerification]
    BY <1>1, <1>2
  <2> QED
    BY <1>1, <2>2, <2>3 DEF CreditTypeOK
<1>4. blank.score = 0 /\ ~blank.hasScore
  OBVIOUS
<1> HIDE DEF blank
<1>5. CreditBacked /\ ScoresComputed
  BY <1>1, <1>4 DEF CreditBacked, ScoresComputed
<1> QED
  BY <1>3, <1>5 DEF CreditInv

\* Requests and the answers of others leave the scores, and the answers that back
\* them, as they are.
LEMMA OthersKeepCredit ==
  ASSUME ValidationInv, CreditInv, OthersThanCredit, UNCHANGED creditVars
  PROVE  CreditInv'
<1>1. /\ creditForwarder' = creditForwarder /\ creditScores' = creditScores
      /\ creditVerifications' = creditVerifications
      /\ sgxDcapVerifier' = sgxDcapVerifier /\ expectedMrEnclave' = expectedMrEnclave
  BY DEF creditVars
<1>2. CreditTypeOK' /\ ScoresComputed'
  BY <1>1 DEF CreditInv, CreditTypeOK, ScoresComputed
<1>3. ASSUME requestLog \subseteq requestLog',
             \A e \in requestLog : e.validatorAddress = Credit =>
               validations'[e.requestHash] = validations[e.requestHash]
      PROVE  CreditInv'
  <2>1. CreditBacked'
    BY <1>1, <1>3 DEF CreditInv, CreditBacked
  <2> QED
    BY <1>2, <2>1 DEF CreditInv
<1>4. ASSUME NEW sender \in Users, NEW v \in Validators, NEW a \in AgentIds,
             NEW u \in RequestURIs, NEW h \in Hashes, ValidationRequest(sender, v, a, u, h)
      PROVE  CreditInv'
  <2>1. RequestEffect(v, a, u, h)
    BY <1>4, RequestHasEffect
  <2> QED
    BY <1>3, <2>1 DEF RequestEffect
<1>5. ASSUME NEW sender \in Addresses \ {Credit}, NEW h \in Hashes, NEW r \in 0 .. 255,
             NEW t \in ResponseTags, ValidationResponse(sender, h, r, t)
      PROVE  CreditInv'
  <2>1. AnswerEffect(sender, h, r, t)
    BY <1>5, AnswerHasEffect
  <2>2. \A e \in requestLog :
          /\ e.requestHash \in Hashes
          /\ validations[e.requestHash].validatorAddress = e.validatorAddress
    BY DEF ValidationInv, ValidationTypeOK, ValidationRequests, LogMatchesRequests
  <2> QED
    BY <1>3, <2>1, <2>2 DEF AnswerEffect
<1>6. CASE UNCHANGED validationVars
  BY <1>3, <1>6 DEF validationVars
<1> QED
  BY <1>4, <1>5, <1>6 DEF OthersThanCredit, Requests, Answers

\* What a delivery that goes through has established and does: the report is about
\* a request the registry holds, for this agent, and its score is the answer.
CreditEffect(r) ==
  /\ AnswerEffect(Credit, r.requestHash, r.score, CREDIT_SCORE)
  /\ r.score \in Scores \cap (0 .. MaxScore)
  /\ \E e \in requestLog : /\ e.validatorAddress = Credit
                           /\ e.agentId = r.agentId
                           /\ e.requestHash = r.requestHash
  /\ creditScores' = [creditScores EXCEPT ![r.agentId] = r.score]
  /\ creditVerifications' = [creditVerifications EXCEPT ![r.agentId] =
       [score |-> r.score, dataHash |-> r.sgxQuote, hasScore |-> TRUE]]
  /\ UNCHANGED <<creditForwarder, sgxDcapVerifier, expectedMrEnclave>>
  /\ Answers({Credit})

LEMMA CreditReportHasEffect ==
  ASSUME ValidationInv, CreditInv, NEW sender, NEW r \in CreditReports,
         CanSubmitCredit(sender, r), CreditOnReport(sender, r)
  PROVE  CreditEffect(r)
<1>1. /\ r.agentId \in AgentIds /\ r.requestHash \in Hashes
      /\ r.score \in Scores /\ r.sgxQuote \in Optional(Quotes)
  BY DEF CreditReports
<1>2. r.score \in 0 .. 255 /\ CREDIT_SCORE \in ResponseTags
  BY <1>1, CreditConstants
<1>3. r.score \in 0 .. MaxScore
  BY <1>2 DEF CreditOnReport, MaxScore
<1>4. ValidationResponse(Credit, r.requestHash, r.score, CREDIT_SCORE)
  BY DEF CreditOnReport
<1>5. AnswerEffect(Credit, r.requestHash, r.score, CREDIT_SCORE)
  BY <1>1, <1>2, <1>4, AnswerHasEffect
<1>6. Answers({Credit})
  BY <1>1, <1>2, <1>4 DEF Answers
<1>7. r \in SignedCreditReports
  BY DEF CreditOnReport, CanSubmitCredit, CreditInv, CreditTypeOK
<1>8. \E e \in requestLog : /\ e.validatorAddress = Credit
                            /\ e.agentId = r.agentId
                            /\ e.requestHash = r.requestHash
  BY <1>7 DEF SignedCreditReports
<1>9. /\ creditScores' = [creditScores EXCEPT ![r.agentId] = r.score]
      /\ creditVerifications' = [creditVerifications EXCEPT ![r.agentId] =
           [score |-> r.score, dataHash |-> r.sgxQuote, hasScore |-> TRUE]]
      /\ UNCHANGED <<creditForwarder, sgxDcapVerifier, expectedMrEnclave>>
  BY DEF CreditOnReport
<1> QED
  BY <1>1, <1>3, <1>5, <1>6, <1>8, <1>9 DEF CreditEffect

\* A delivery answers the request it is about, and no request about another agent.
LEMMA CreditReportKeepsInv ==
  ASSUME ValidationInv, CreditInv, NEW r \in CreditReports, CreditEffect(r)
  PROVE  CreditInv'
<1> DEFINE a == r.agentId
           recorded == [score |-> r.score, dataHash |-> r.sgxQuote, hasScore |-> TRUE]
<1>1. a \in AgentIds /\ r.requestHash \in Hashes /\ r.sgxQuote \in Optional(Quotes)
  BY DEF CreditReports
<1>2. /\ r.score \in Scores \cap (0 .. MaxScore)
      /\ creditScores' = [creditScores EXCEPT ![a] = r.score]
      /\ creditVerifications' = [creditVerifications EXCEPT ![a] = recorded]
      /\ UNCHANGED <<creditForwarder, sgxDcapVerifier, expectedMrEnclave>>
  BY DEF CreditEffect
<1>3. AnswerEffect(Credit, r.requestHash, r.score, CREDIT_SCORE)
  BY DEF CreditEffect
<1>4. PICK e0 \in requestLog : /\ e0.validatorAddress = Credit
                               /\ e0.agentId = a
                               /\ e0.requestHash = r.requestHash
  BY DEF CreditEffect
<1>5. \A e \in requestLog :
        /\ e.requestHash \in Hashes
        /\ e.requestHash = r.requestHash => e = e0
  BY <1>4 DEF ValidationInv, ValidationTypeOK, ValidationRequests, OneEventPerHash
<1>6. requestLog' = requestLog
  BY <1>3 DEF AnswerEffect
<1>7. \A b \in AgentIds :
        /\ creditScores'[b] = IF b = a THEN r.score ELSE creditScores[b]
        /\ creditVerifications'[b] = IF b = a THEN recorded ELSE creditVerifications[b]
  BY <1>2 DEF CreditInv, CreditTypeOK
<1>8. /\ recorded \in CreditVerification
      /\ recorded.score = r.score /\ recorded.hasScore
  BY <1>1, <1>2 DEF CreditVerification
<1> HIDE DEF a, recorded
<1>9. CreditTypeOK'
  BY <1>1, <1>2, <1>8 DEF CreditInv, CreditTypeOK
<1>10. ScoresComputed'
  BY <1>2, <1>7 DEF CreditInv, ScoresComputed
<1>11. CreditBacked'
  <2> SUFFICES ASSUME NEW b \in AgentIds
               PROVE  /\ creditVerifications'[b].score = creditScores'[b]
                      /\ ~creditVerifications'[b].hasScore => creditScores'[b] = 0
                      /\ creditVerifications'[b].hasScore =>
                           \E e \in requestLog' :
                             /\ e.agentId = b
                             /\ e.validatorAddress = Credit
                             /\ validations'[e.requestHash].hasResponse
                             /\ validations'[e.requestHash].response = creditScores'[b]
                             /\ validations'[e.requestHash].tag = CREDIT_SCORE
    BY DEF CreditBacked
  <2>1. CASE b = a
    BY <1>3, <1>4, <1>6, <1>7, <1>8, <2>1 DEF AnswerEffect
  <2>2. CASE b # a
    <3>1. /\ creditScores'[b] = creditScores[b]
          /\ creditVerifications'[b] = creditVerifications[b]
      BY <1>7, <2>2
    <3>2. ASSUME NEW e \in requestLog, e.agentId = b
          PROVE  validations'[e.requestHash] = validations[e.requestHash]
      BY <1>3, <1>4, <1>5, <2>2, <3>2 DEF AnswerEffect
    <3> QED
      BY <1>6, <3>1, <3>2 DEF CreditInv, CreditBacked
  <2> QED
    BY <2>1, <2>2
<1> QED
  BY <1>9, <1>10, <1>11 DEF CreditInv

\* The validator's own steps: a delivery, or a change of its owner's settings.
LEMMA CreditStepsHaveEffect ==
  ASSUME ValidationInv, CreditInv, CreditNext
  PROVE  \/ \E r \in CreditReports : CreditEffect(r) /\ (sgxDcapVerifier => QuoteVerifies(r))
         \/ /\ UNCHANGED <<creditScores, creditVerifications, validationVars>>
            /\ CreditTypeOK'
<1>1. ASSUME NEW sender, NEW r \in CreditReports, CanSubmitCredit(sender, r),
             CreditOnReport(sender, r)
      PROVE  CreditEffect(r) /\ (sgxDcapVerifier => QuoteVerifies(r))
  BY <1>1, CreditReportHasEffect DEF CreditOnReport
<1>2. ASSUME \/ \E f \in CreditForwarders : SetCreditForwarder(f)
             \/ \E on \in BOOLEAN : SetSgxDcapVerifier(on)
             \/ \E m \in Enclaves : SetExpectedMrEnclave(m)
      PROVE  UNCHANGED <<creditScores, creditVerifications, validationVars>> /\ CreditTypeOK'
  BY <1>2 DEF SetCreditForwarder, SetSgxDcapVerifier, SetExpectedMrEnclave, CreditInv,
              CreditTypeOK
<1> QED
  BY <1>1, <1>2 DEF CreditNext

LEMMA CreditStepsKeepInv ==
  ASSUME ValidationInv, CreditInv, CreditNext
  PROVE  CreditInv' /\ (Answers({Credit}) \/ UNCHANGED validationVars)
<1>1. ASSUME NEW r \in CreditReports, CreditEffect(r)
      PROVE  CreditInv' /\ Answers({Credit})
  BY <1>1, CreditReportKeepsInv DEF CreditEffect
<1>2. ASSUME UNCHANGED <<creditScores, creditVerifications, validationVars>>, CreditTypeOK'
      PROVE  CreditInv' /\ UNCHANGED validationVars
  <2>1. validations' = validations /\ requestLog' = requestLog
    BY <1>2 DEF validationVars
  <2>2. CreditBacked' /\ ScoresComputed'
    BY <1>2, <2>1 DEF CreditInv, CreditBacked, ScoresComputed
  <2> QED
    BY <1>2, <2>2 DEF CreditInv
<1> QED
  BY <1>1, <1>2, CreditStepsHaveEffect

\* What happens in the contract's own system: its steps, or those of others.
LEMMA CreditSystemStep ==
  ASSUME ValidationInv, CreditInv, [CreditSystemNext]_creditSystemVars
  PROVE  CreditInv' /\ ValidationStep
<1>1. Credit \in Addresses /\ Credit \notin Users /\ Users \subseteq Addresses
  BY CreditConstants DEF Addresses
<1>2. CASE CreditNext
  <2>1. Answers({Credit}) => Answers(Addresses)
    BY <1>1 DEF Answers
  <2> QED
    BY <1>2, <2>1, CreditStepsKeepInv DEF ValidationStep
<1>3. ASSUME UNCHANGED creditVars, NEW sender \in Users,
             RequestCall(sender) \/ ResponseCall(sender)
      PROVE  CreditInv' /\ ValidationStep
  <2>1. Answers(Users) => Answers(Addresses) /\ Answers(Addresses \ {Credit})
    BY <1>1 DEF Answers
  <2>2. Requests \/ Answers(Users)
    BY <1>3, UserStepsAreSteps
  <2> QED
    BY <1>3, <2>1, <2>2, OthersKeepCredit DEF OthersThanCredit, ValidationStep
<1>4. CASE UNCHANGED validationVars /\ UNCHANGED creditVars
  BY <1>4, OthersKeepCredit DEF OthersThanCredit, ValidationStep
<1> QED
  BY <1>2, <1>3, <1>4 DEF CreditSystemNext, creditSystemVars

\* The validator's invariant, along with the registry's.
THEOREM CreditInvariant == CreditSpec => [](ValidationInv /\ CreditInv)
<1>1. CreditSystemInit => ValidationInv /\ CreditInv
  BY ValidationInvInit, CreditInvInit DEF CreditSystemInit, ValidationSystemInit
<1>2. ValidationInv /\ CreditInv /\ [CreditSystemNext]_creditSystemVars
        => (ValidationInv /\ CreditInv)'
  BY CreditSystemStep, ValidationInvStep
<1> QED
  BY <1>1, <1>2, PTL DEF CreditSpec

\* A score is the answer the registry holds to a credit request about the agent.
THEOREM CreditIsBacked == CreditSpec => []CreditBacked
<1>1. ValidationInv /\ CreditInv => CreditBacked
  BY DEF CreditInv
<1> QED
  BY <1>1, CreditInvariant, PTL

\* A quote serves the agent, request, score and enclave it was made for.
Attests ==
  \A a \in AgentIds :
    creditVerifications'[a] # creditVerifications[a] =>
      /\ \E e \in requestLog : AnsweredNow(a, e.requestHash)
      /\ sgxDcapVerifier =>
           \A q \in creditVerifications'[a].dataHash :
             /\ q \in Attested
             /\ q.mrEnclave = expectedMrEnclave
             /\ AnsweredNow(a, q.requestHash)

LEMMA AttestsStep ==
  ASSUME ValidationInv, CreditInv, [CreditSystemNext]_creditSystemVars
  PROVE  Attests
<1>1. CASE creditVerifications' = creditVerifications
  BY <1>1 DEF Attests
<1>2. ASSUME NEW r \in CreditReports, CreditEffect(r), sgxDcapVerifier => QuoteVerifies(r)
      PROVE  Attests
  <2> SUFFICES ASSUME NEW a \in AgentIds, creditVerifications'[a] # creditVerifications[a]
               PROVE  /\ \E e \in requestLog : AnsweredNow(a, e.requestHash)
                      /\ sgxDcapVerifier =>
                           \A q \in creditVerifications'[a].dataHash :
                             /\ q \in Attested
                             /\ q.mrEnclave = expectedMrEnclave
                             /\ AnsweredNow(a, q.requestHash)
    BY DEF Attests
  <2>1. creditVerifications \in [AgentIds -> CreditVerification] /\ r.agentId \in AgentIds
    BY DEF CreditInv, CreditTypeOK, CreditReports
  <2>2. a = r.agentId /\ creditVerifications'[a].dataHash = r.sgxQuote
    BY <1>2, <2>1 DEF CreditEffect
  <2>3. ASSUME NEW q \in creditVerifications'[a].dataHash, sgxDcapVerifier
        PROVE  /\ q \in Attested /\ q.mrEnclave = expectedMrEnclave
               /\ q.requestHash = r.requestHash
    BY <1>2, <2>2, <2>3 DEF QuoteVerifies
  <2>4. PICK e \in requestLog : /\ e.validatorAddress = Credit
                                /\ e.agentId = r.agentId
                                /\ e.requestHash = r.requestHash
    BY <1>2 DEF CreditEffect
  <2>5. /\ validations[r.requestHash].agentId = a
        /\ validations[r.requestHash].validatorAddress = Credit
    BY <2>2, <2>4 DEF ValidationInv, LogMatchesRequests
  <2>6. creditScores'[a] = r.score
    BY <1>2, <2>2, <2>1 DEF CreditEffect, CreditInv, CreditTypeOK
  <2>7. validations'[r.requestHash].hasResponse /\ validations'[r.requestHash].response = r.score
    BY <1>2 DEF CreditEffect, AnswerEffect
  <2>8. AnsweredNow(a, r.requestHash)
    BY <2>5, <2>6, <2>7 DEF AnsweredNow
  <2> QED
    BY <2>3, <2>4, <2>8
<1>3. CASE CreditNext
  BY <1>1, <1>2, <1>3, CreditStepsHaveEffect
<1> QED
  BY <1>1, <1>3 DEF CreditSystemNext, creditSystemVars, creditVars

\* A score changes only as a request about its agent is answered with it; one that
\* comes with a quote while a verifier is set was attested, by the enclave then
\* trusted, for such a request.
THEOREM ScoresAreAttested == CreditSpec => ScoreAttested
<1>1. ValidationInv /\ CreditInv /\ [CreditSystemNext]_creditSystemVars
        => [Attests]_creditSystemVars
  BY AttestsStep
<1> QED
  BY <1>1, CreditInvariant, PTL DEF CreditSpec, ScoreAttested, Attests

-----------------------------------------------------------------------------
(* All contracts together: what each step of the chain keeps.              *)

ChainInv == RegistryInv /\ WorldIdInv /\ ValidationInv /\ KycInv /\ CreditInv

\* The steps of the chain, by the contract whose state they are about.
WorldIdStep ==
  /\ \E sender \in Users : MayCall(sender) /\ WorldIdCall(sender)
  /\ UNCHANGED <<validationVars, kycVars, creditVars>>
RequestStep ==
  /\ Requests \/ Answers(Users)
  /\ UNCHANGED <<worldIdVars, kycVars, creditVars>>
KycStep == KycNext /\ UNCHANGED <<worldIdVars, creditVars>>
CreditStep == CreditNext /\ UNCHANGED <<worldIdVars, kycVars>>

LEMMA ChainSteps ==
  UserStep \/ ValidatorStep \/ RegistryStep =>
    WorldIdStep \/ RequestStep \/ KycStep \/ CreditStep \/ RegistryStep
<1>1. ASSUME NEW sender \in Users, MayCall(sender), WorldIdCall(sender),
             UNCHANGED <<validationVars, kycVars, creditVars>>
      PROVE  WorldIdStep
  BY <1>1 DEF WorldIdStep
<1>2. ASSUME NEW sender \in Users, RequestCall(sender) \/ ResponseCall(sender),
             UNCHANGED <<worldIdVars, kycVars, creditVars>>
      PROVE  RequestStep
  BY <1>2, UserStepsAreSteps DEF RequestStep
<1> QED
  BY <1>1, <1>2 DEF UserStep, ValidatorStep, KycStep, CreditStep

\* Validations, KYC and credit leave the identity registry alone.
LEMMA RegistryUntouched ==
  RequestStep \/ KycStep \/ CreditStep => UNCHANGED registryVars
<1>1. \A senders : Requests \/ Answers(senders) => UNCHANGED registryVars
  BY DEF Requests, Answers, ValidationRequest, ValidationResponse
<1>2. KycNext => UNCHANGED registryVars
  BY DEF KycNext, StripeVerifies, KycWorkflow, KycOnReport, SetKycForwarder, ValidationResponse
<1>3. CreditNext => UNCHANGED registryVars
  BY DEF CreditNext, CreditOnReport, SetCreditForwarder, SetSgxDcapVerifier,
         SetExpectedMrEnclave, ValidationResponse
<1> QED
  BY <1>1, <1>2, <1>3 DEF RequestStep, KycStep, CreditStep

\* The tag that the World ID validator writes and clears is a metadata value.
LEMMA WorldIdKeepsRegistry ==
  ASSUME RegistryInv, NEW sender \in Users, WorldIdCall(sender)
  PROVE  RegistryInv'
<1>1. ASSUME NEW a \in AgentIds, NEW value \in Tags,
             SetMetadata(WorldId, a, "humanVerified", value)
      PROVE  RegistryInv'
  <2>1. /\ "humanVerified" \in DOMAIN KeyValues
        /\ KeyValues["humanVerified"] = Tags
    BY DEF KeyValues
  <2> QED
    BY <1>1, <2>1, SetMetadataKeepsInv
<1>2. ValidatorTag \in Tags /\ NoTag \in Tags
  BY WorldIdConstants, RegistryConstants
<1>3. CASE UNCHANGED registryVars
  BY <1>3, RegistryInvNext
<1> QED
  BY <1>1, <1>2, <1>3
     DEF WorldIdCall, VerifyAndSetHumanTag, RevokeVerification, InitializeV2

\* The two validators are different services, and neither is a user's account.
LEMMA ValidatorsAnswerApart ==
  /\ Answers(Users) => /\ Answers(Addresses)
                       /\ Answers(Addresses \ {Kyc})
                       /\ Answers(Addresses \ {Credit})
  /\ Answers({Kyc}) => Answers(Addresses) /\ Answers(Addresses \ {Credit})
  /\ Answers({Credit}) => Answers(Addresses) /\ Answers(Addresses \ {Kyc})
<1>1. /\ Users \subseteq Addresses /\ Kyc \in Addresses /\ Credit \in Addresses
      /\ Kyc \notin Users /\ Credit \notin Users /\ Kyc # Credit
  BY KycConstants, CreditConstants, SystemConstants DEF Addresses
<1>2. ASSUME NEW S, NEW T, S \subseteq T, Answers(S)
      PROVE  Answers(T)
  BY <1>2 DEF Answers
<1> QED
  BY <1>1, <1>2

LEMMA ChainInvStep ==
  ASSUME ChainInv, UserStep \/ ValidatorStep \/ RegistryStep
  PROVE  ChainInv'
<1> USE DEF ChainInv
<1>1. CASE WorldIdStep
  <2>1. PICK sender \in Users : MayCall(sender) /\ WorldIdCall(sender)
    BY <1>1 DEF WorldIdStep
  <2>2. UNCHANGED validationVars /\ UNCHANGED kycVars /\ UNCHANGED creditVars
    BY <1>1 DEF WorldIdStep
  <2>3. RegistryInv'
    BY <2>1, WorldIdKeepsRegistry
  <2>4. WorldIdInv'
    BY <2>1, LedgerInductive DEF WorldIdNext
  <2>5. ValidationInv'
    BY <2>2, ValidationInvStep DEF ValidationStep
  <2>6. KycInv' /\ CreditInv'
    BY <2>2, OthersKeepKyc, OthersKeepCredit DEF OthersThanKyc, OthersThanCredit
  <2> QED
    BY <2>3, <2>4, <2>5, <2>6
<1>2. ASSUME RequestStep \/ KycStep \/ CreditStep
      PROVE  RegistryInv' /\ WorldIdInv'
  <2>1. UNCHANGED registryVars
    BY <1>2, RegistryUntouched
  <2>2. UNCHANGED worldIdVars
    BY <1>2 DEF RequestStep, KycStep, CreditStep
  <2> QED
    BY <2>1, <2>2, RegistryInvNext, LedgerUntouched
<1>3. CASE RequestStep
  <2>1. UNCHANGED kycVars /\ UNCHANGED creditVars /\ (Requests \/ Answers(Users))
    BY <1>3 DEF RequestStep
  <2>2. ValidationInv' /\ KycInv' /\ CreditInv'
    BY <2>1, ValidatorsAnswerApart, ValidationInvStep, OthersKeepKyc, OthersKeepCredit
       DEF ValidationStep, OthersThanKyc, OthersThanCredit
  <2> QED
    BY <1>2, <1>3, <2>2
<1>4. CASE KycStep
  <2>1. KycNext /\ UNCHANGED creditVars
    BY <1>4 DEF KycStep
  <2>2. KycInv' /\ (Answers({Kyc}) \/ UNCHANGED validationVars)
    BY <2>1, KycStepsKeepInv
  <2>3. ValidationInv' /\ CreditInv'
    BY <2>1, <2>2, ValidatorsAnswerApart, ValidationInvStep, OthersKeepCredit
       DEF ValidationStep, OthersThanCredit
  <2> QED
    BY <1>2, <1>4, <2>2, <2>3
<1>5. CASE CreditStep
  <2>1. CreditNext /\ UNCHANGED kycVars
    BY <1>5 DEF CreditStep
  <2>2. CreditInv' /\ (Answers({Credit}) \/ UNCHANGED validationVars)
    BY <2>1, CreditStepsKeepInv
  <2>3. ValidationInv' /\ KycInv'
    BY <2>1, <2>2, ValidatorsAnswerApart, ValidationInvStep, OthersKeepKyc
       DEF ValidationStep, OthersThanKyc
  <2> QED
    BY <1>2, <1>5, <2>2, <2>3
<1>6. CASE RegistryStep
  <2>1. /\ RegistryNext /\ UNCHANGED worldIdVars /\ UNCHANGED validationVars
        /\ UNCHANGED kycVars /\ UNCHANGED creditVars
    BY <1>6 DEF RegistryStep
  <2>2. RegistryInv' /\ WorldIdInv'
    BY <2>1, RegistryInvNext, LedgerUntouched
  <2>3. ValidationInv' /\ KycInv' /\ CreditInv'
    BY <2>1, ValidationInvStep, OthersKeepKyc, OthersKeepCredit
       DEF ValidationStep, OthersThanKyc, OthersThanCredit
  <2> QED
    BY <2>2, <2>3
<1> QED
  BY <1>1, <1>3, <1>4, <1>5, <1>6, ChainSteps

-----------------------------------------------------------------------------
(* What a step of the chain does to the facts that the policies read.      *)

\* All facts but those of agent a stay.
OnlyMoves(a) == \A b \in AgentIds \ {a} : FactsOf(b)' = FactsOf(b)
OneMoves == (\E a \in AgentIds : OnlyMoves(a)) \/ \A b \in AgentIds : FactsOf(b)' = FactsOf(b)

\* What a step leaves alone the policies see unchanged.
SameAgent(b) ==
  /\ owner'[b] = owner[b]
  /\ metadata'[b].humanVerified = metadata[b].humanVerified
SameVerdicts(b) ==
  /\ verifications'[b].isVerified = verifications[b].isVerified
  /\ kycVerified'[b] = kycVerified[b]
  /\ creditVerifications'[b] = creditVerifications[b]
  /\ creditScores'[b] = creditScores[b]

LEMMA SameFacts ==
  ASSUME NEW b \in AgentIds, SameAgent(b), SameVerdicts(b)
  PROVE  FactsOf(b)' = FactsOf(b)
BY DEF SameAgent, SameVerdicts, FactsOf, Exists

\* A registry call changes the owner and the tag of one agent at most.
LEMMA RegistryMovesOne ==
  ASSUME RegistryInv, RegistryNext
  PROVE  \/ \E a \in AgentIds : \A b \in AgentIds \ {a} : SameAgent(b)
         \/ \A b \in AgentIds : SameAgent(b)
<1> DEFINE Moves(a) == \A b \in AgentIds \ {a} : SameAgent(b)
           Goal == (\E a \in AgentIds : Moves(a)) \/ \A b \in AgentIds : SameAgent(b)
<1>1. /\ owner \in [AgentIds -> Users \cup {Zero}]
      /\ metadata \in [AgentIds -> Metadata]
      /\ minting \subseteq Frames
      /\ lastId \in 0 .. MaxAgents
  BY DEF RegistryInv, RegistryTypeOK
<1>2. ASSUME NEW sender \in Users, NEW u, NEW t, Register(sender, u, t)
      PROVE  Goal
  <2>1. lastId \in AgentIds
    BY <1>1, <1>2, ZeroIsNobody DEF Register, AgentIds
  <2>2. \A b \in AgentIds \ {lastId} : owner'[b] = owner[b] /\ metadata'[b] = metadata[b]
    BY <1>1, <1>2 DEF Register
  <2> QED
    BY <2>1, <2>2 DEF SameAgent
<1>3. ASSUME NEW f \in minting, FinishRegister(f)
      PROVE  Goal
  <2>1. f.agent \in AgentIds
    BY <1>1 DEF Frames
  <2>2. \A b \in AgentIds \ {f.agent} : owner'[b] = owner[b] /\ metadata'[b] = metadata[b]
    BY <1>1, <1>3 DEF FinishRegister
  <2> QED
    BY <2>1, <2>2 DEF SameAgent
<1>4. ASSUME NEW sender \in Users, NEW a \in AgentIds,
             \/ \E key \in DOMAIN KeyValues : \E value \in KeyValues[key] :
                  SetMetadata(sender, a, key, value)
             \/ \E w \in Users, c \in Consents : SetAgentWallet(sender, a, w, c)
             \/ UnsetAgentWallet(sender, a)
             \/ \E to \in Users : TransferFrom(sender, a, to)
      PROVE  Goal
  <2>1. \A b \in AgentIds \ {a} : owner'[b] = owner[b] /\ metadata'[b] = metadata[b]
    BY <1>1, <1>4 DEF SetMetadata, SetAgentWallet, UnsetAgentWallet, TransferFrom, Update
  <2> QED
    BY <2>1 DEF SameAgent
<1>5. ASSUME UNCHANGED <<owner, metadata>>
      PROVE  Goal
  BY <1>5 DEF SameAgent
<1> HIDE DEF Goal
<1>6. ASSUME NEW sender \in Users, RegistryCall(sender)
      PROVE  Goal
  <2>1. ASSUME NEW a \in AgentIds, NEW u, NEW to,
               SetAgentURI(sender, a, u) \/ Approve(sender, to, a)
        PROVE  Goal
    BY <1>5, <2>1 DEF SetAgentURI, Approve
  <2>2. ASSUME NEW op, NEW on, SetApprovalForAll(sender, op, on)
        PROVE  Goal
    BY <1>5, <2>2 DEF SetApprovalForAll
  <2> QED
    BY <1>2, <1>4, <1>6, <2>1, <2>2 DEF RegistryCall
<1>7. ASSUME Tick
      PROVE  Goal
  BY <1>5, <1>7 DEF Tick
<1>8. Goal
  BY <1>3, <1>6, <1>7 DEF RegistryNext
<1> QED
  BY <1>8 DEF Goal

\* A World ID call changes the verdict and the tag of one agent at most.
LEMMA WorldIdMovesOne ==
  ASSUME ChainInv, WorldIdStep
  PROVE  OneMoves
<1> DEFINE SameHuman(b) == SameAgent(b) /\ verifications'[b].isVerified = verifications[b].isVerified
<1>1. /\ metadata \in [AgentIds -> Metadata]
      /\ verifications \in [AgentIds -> VerificationData]
  BY DEF ChainInv, RegistryInv, RegistryTypeOK, WorldIdInv, WorldIdTypeOK
<1>2. \A b \in AgentIds : SameHuman(b) => FactsOf(b)' = FactsOf(b)
  BY SameFacts DEF WorldIdStep, kycVars, creditVars, SameVerdicts
<1>3. ASSUME NEW a \in AgentIds, NEW value, SetMetadata(WorldId, a, "humanVerified", value),
             \A b \in AgentIds \ {a} : verifications'[b] = verifications[b]
      PROVE  OneMoves
  <2>1. \A b \in AgentIds \ {a} : /\ owner'[b] = owner[b] /\ metadata'[b] = metadata[b]
                                  /\ verifications'[b] = verifications[b]
    BY <1>1, <1>3 DEF SetMetadata
  <2> QED
    BY <1>2, <2>1 DEF SameAgent, OneMoves, OnlyMoves
<1>4. CASE InitializeV2
  <2>1. UNCHANGED <<owner, metadata, verifications>>
    BY <1>4 DEF InitializeV2, registryVars
  <2> QED
    BY <1>2, <2>1 DEF SameAgent, OneMoves
<1>5. PICK sender \in Users : WorldIdCall(sender)
  BY DEF WorldIdStep
<1>6. ASSUME NEW a \in AgentIds, NEW n \in Nullifiers, NEW p \in Proofs,
             VerifyAndSetHumanTag(sender, a, n, p)
      PROVE  OneMoves
  <2>1. /\ SetMetadata(WorldId, a, "humanVerified", ValidatorTag)
        /\ \A b \in AgentIds \ {a} : verifications'[b] = verifications[b]
    BY <1>1, <1>6 DEF VerifyAndSetHumanTag
  <2> QED
    BY <1>3, <2>1
<1>7. ASSUME NEW a \in AgentIds, RevokeVerification(sender, a)
      PROVE  OneMoves
  <2>1. /\ SetMetadata(WorldId, a, "humanVerified", NoTag)
        /\ \A b \in AgentIds \ {a} : verifications'[b] = verifications[b]
    BY <1>1, <1>7 DEF RevokeVerification
  <2> QED
    BY <1>3, <2>1
<1> QED
  BY <1>4, <1>5, <1>6, <1>7 DEF WorldIdCall

\* A KYC or credit report is about one agent.
LEMMA ReportsMoveOne ==
  ASSUME ChainInv, RequestStep \/ KycStep \/ CreditStep
  PROVE  OneMoves
<1>1. UNCHANGED <<owner, metadata, verifications>>
  BY RegistryUntouched DEF registryVars, worldIdVars, RequestStep, KycStep, CreditStep
<1>2. ASSUME NEW b \in AgentIds, kycVerified'[b] = kycVerified[b],
             creditVerifications'[b] = creditVerifications[b], creditScores'[b] = creditScores[b]
      PROVE  FactsOf(b)' = FactsOf(b)
  BY <1>1, <1>2, SameFacts DEF SameAgent, SameVerdicts
<1>3. CASE UNCHANGED <<kycVerified, creditVerifications, creditScores>>
  BY <1>2, <1>3 DEF OneMoves
<1>4. CASE KycStep
  <2>1. UNCHANGED <<creditVerifications, creditScores>>
    BY <1>4 DEF KycStep, creditVars
  <2>2. kycVerified \in [AgentIds -> BOOLEAN]
    BY DEF ChainInv, KycInv, KycTypeOK
  <2>3. ASSUME NEW sender, NEW r \in KycReports, KycOnReport(sender, r)
        PROVE  OneMoves
    <3>1. r.agentId \in AgentIds
      BY DEF KycReports
    <3>2. \A b \in AgentIds \ {r.agentId} : kycVerified'[b] = kycVerified[b]
      BY <2>2, <2>3 DEF KycOnReport
    <3> QED
      BY <1>2, <2>1, <3>1, <3>2 DEF OneMoves, OnlyMoves
  <2>4. ASSUME UNCHANGED kycVerified
        PROVE  OneMoves
    BY <1>3, <2>1, <2>4
  <2> QED
    BY <1>4, <2>3, <2>4
       DEF KycStep, KycNext, StripeVerifies, KycWorkflow, SetKycForwarder
<1>5. CASE CreditStep
  <2>1. UNCHANGED kycVerified
    BY <1>5 DEF CreditStep, kycVars
  <2>2. /\ creditScores \in [AgentIds -> 0 .. MaxScore]
        /\ creditVerifications \in [AgentIds -> CreditVerification]
    BY DEF ChainInv, CreditInv, CreditTypeOK
  <2>3. ASSUME NEW r \in CreditReports, CreditEffect(r)
        PROVE  OneMoves
    <3>1. r.agentId \in AgentIds
      BY DEF CreditReports
    <3>2. \A b \in AgentIds \ {r.agentId} : /\ creditScores'[b] = creditScores[b]
                                            /\ creditVerifications'[b] = creditVerifications[b]
      BY <2>2, <2>3 DEF CreditEffect
    <3> QED
      BY <1>2, <2>1, <3>1, <3>2 DEF OneMoves, OnlyMoves
  <2> QED
    BY <1>3, <1>5, <2>1, <2>3, CreditStepsHaveEffect DEF ChainInv, CreditStep
<1>6. CASE RequestStep
  BY <1>3, <1>6 DEF RequestStep, kycVars, creditVars
<1> QED
  BY <1>4, <1>5, <1>6

LEMMA ChainMovesOne ==
  ASSUME ChainInv, UserStep \/ ValidatorStep \/ RegistryStep
  PROVE  OneMoves
<1>1. CASE RegistryStep
  <2>1. UNCHANGED <<verifications, kycVerified, creditVerifications, creditScores>>
    BY <1>1 DEF RegistryStep, worldIdVars, kycVars, creditVars
  <2>2. \A b \in AgentIds : SameAgent(b) => FactsOf(b)' = FactsOf(b)
    BY <2>1, SameFacts DEF SameVerdicts
  <2> QED
    BY <1>1, <2>2, RegistryMovesOne DEF RegistryStep, ChainInv, OneMoves, OnlyMoves
<1> QED
  BY <1>1, ChainSteps, WorldIdMovesOne, ReportsMoveOne

\* What the policies read is what the engine expects to read.
LEMMA FactsTyped ==
  ASSUME ChainInv, NEW a \in AgentIds
  PROVE  FactsOf(a) \in Engine!Facts
<1>1. /\ verifications[a].isVerified \in BOOLEAN
      /\ kycVerified[a] \in BOOLEAN
      /\ creditVerifications[a].hasScore \in BOOLEAN
      /\ creditScores[a] \in {0} \cup (Scores \cap (0 .. MaxScore))
  BY DEF ChainInv, WorldIdInv, WorldIdTypeOK, VerificationData, KycInv, KycTypeOK,
         CreditInv, CreditTypeOK, CreditVerification, ScoresComputed
<1>2. (owner[a] # Zero) \in BOOLEAN /\ (metadata[a].humanVerified # NoTag) \in BOOLEAN
  OBVIOUS
<1> QED
  BY <1>1, <1>2 DEF FactsOf, Exists, Engine!Facts

\* The same of the next state.
LEMMA FactsTypedNext == ChainInv' => \A a \in AgentIds : FactsOf(a)' \in Engine!Facts
<1>1. ChainInv => \A a \in AgentIds : FactsOf(a) \in Engine!Facts
  BY FactsTyped
<1>2. ChainInv' => (\A a \in AgentIds : FactsOf(a) \in Engine!Facts)'
  BY <1>1, PTL
<1> QED
  BY <1>2

-----------------------------------------------------------------------------
(* The consumer behind the engine, and the invariant of the whole system.  *)

\* The engine stays as deployed; only the consumer's forwarder and event change.
ConsumerInv ==
  /\ policies = <<"tiered">>
  /\ extractorSet = TRUE
  /\ defaultPolicyAllow = FALSE
  /\ targetDefault = {}
  /\ forwarder \in ConsumerForwarders
  /\ event \in Engine!AccessEvents

SystemInv == ChainInv /\ ConsumerInv /\ GrantsAreBacked

\* What stands behind a grant to agent a at tier t.
Backed(a, t) ==
  /\ \E n \in nullifierUsed :
       verifications[a].nullifierHash = {n} /\ nullifierToAgent[n] = a
  /\ t >= 3 =>
       \E e \in requestLog :
         /\ e.agentId = a
         /\ e.validatorAddress = Kyc
         /\ e.requestURI \in sessionVerified
         /\ validations[e.requestHash].response = 100
  /\ t >= 4 =>
       \E e \in requestLog :
         /\ e.agentId = a
         /\ e.validatorAddress = Credit
         /\ validations[e.requestHash].hasResponse
         /\ validations[e.requestHash].response >= MinCreditScore

\* What TieredPolicy finds when it allows a report.
TierConfirmed(f, t) ==
  /\ t >= 2
  /\ Engine!HumanConfirmed(f)
  /\ t >= 3 => f.kycVerified
  /\ t >= 4 => Engine!CreditConfirmed(f)

\* The facts that TieredPolicy reads are backed by what the contracts hold.
LEMMA ConfirmedIsBacked ==
  ASSUME ChainInv, NEW a \in AgentIds, NEW t, TierConfirmed(FactsOf(a), t)
  PROVE  Backed(a, t)
<1>1. /\ verifications[a].isVerified
      /\ t >= 3 => kycVerified[a]
      /\ t >= 4 => creditVerifications[a].hasScore /\ creditScores[a] >= MinCreditScore
  BY DEF TierConfirmed, FactsOf, Engine!HumanConfirmed, Engine!CreditConfirmed
<1>2. PICK n \in nullifierUsed :
        verifications[a].nullifierHash = {n} /\ nullifierToAgent[n] = a
  <2>1. verifications[a].nullifierHash \in Optional(Nullifiers)
    BY DEF ChainInv, WorldIdInv, WorldIdTypeOK, VerificationData
  <2>2. /\ verifications[a].nullifierHash # {}
        /\ \A n \in verifications[a].nullifierHash :
             n \in nullifierUsed /\ nullifierToAgent[n] = a
    BY <1>1 DEF ChainInv, WorldIdInv, NullifierLedger
  <2>3. PICK n \in Nullifiers : verifications[a].nullifierHash = {n}
    BY <2>1, <2>2 DEF Optional
  <2> QED
    BY <2>2, <2>3
<1>3. ASSUME t >= 3
      PROVE  \E e \in requestLog : /\ e.agentId = a
                                   /\ e.validatorAddress = Kyc
                                   /\ e.requestURI \in sessionVerified
                                   /\ validations[e.requestHash].response = 100
  BY <1>1, <1>3 DEF ChainInv, KycInv, KycBacked
<1>4. ASSUME t >= 4
      PROVE  \E e \in requestLog : /\ e.agentId = a
                                   /\ e.validatorAddress = Credit
                                   /\ validations[e.requestHash].hasResponse
                                   /\ validations[e.requestHash].response >= MinCreditScore
  BY <1>1, <1>4 DEF ChainInv, CreditInv, CreditBacked
<1> QED
  BY <1>2, <1>3, <1>4 DEF Backed

\* What a delivery that goes through has established: TieredPolicy allowed it on
\* the facts as they stand, and the event says what the report claims.
DeliveryEffect(r) ==
  /\ event' = [name |-> "AccessGranted", agentId |-> r.agentId,
               tier |-> r.tier, accountableHuman |-> r.accountableHuman]
  /\ TierConfirmed(FactsOf(r.agentId), r.tier)
  /\ UNCHANGED <<policies, extractorSet, defaultPolicyAllow, targetDefault, forwarder>>

LEMMA DeliveryHasEffect ==
  ASSUME ConsumerInv, NEW sender, NEW r \in Engine!AccessReports, Engine!OnReport(sender, r)
  PROVE  DeliveryEffect(r)
<1> DEFINE f == [a \in AgentIds |-> FactsOf(a)][r.agentId]
<1>1. policies = <<"tiered">> /\ DOMAIN policies = {1} /\ policies # <<>>
  BY DEF ConsumerInv
<1>2. Engine!Run(r)
  BY DEF Engine!OnReport
<1>3. ~Engine!DefaultAllows
  BY DEF ConsumerInv, Engine!DefaultAllows
<1>4. Engine!PolicyResult("tiered", r, f) = "Allowed"
  BY <1>1, <1>2, <1>3 DEF Engine!Run, Engine!Deciding
<1>5. r.agentId \in AgentIds
  BY DEF Engine!AccessReports
<1>6. f = FactsOf(r.agentId)
  BY <1>5
<1>7. r.approved /\ TierConfirmed(FactsOf(r.agentId), r.tier)
  BY <1>4, <1>6 DEF Engine!PolicyResult, Engine!TieredPolicy, Engine!Verdict, TierConfirmed
<1> QED
  BY <1>7 DEF DeliveryEffect, Engine!OnReport, Engine!configVars

\* An approved report's event is an event of the consumer.
LEMMA GrantTyped ==
  ASSUME NEW r \in Engine!AccessReports, DeliveryEffect(r)
  PROVE  event' \in Engine!AccessEvents /\ r.agentId \in AgentIds
<1>1. r.agentId \in AgentIds /\ r.tier \in Tiers /\ r.accountableHuman \in Users
  BY DEF Engine!AccessReports
<1> QED
  BY <1>1 DEF DeliveryEffect, Engine!AccessEvents

\* Nothing changes behind the consumer.
LEMMA ChainInvUntouched == ChainInv /\ UNCHANGED chainVars => ChainInv'
<1> SUFFICES ASSUME ChainInv, UNCHANGED chainVars
             PROVE  ChainInv'
  OBVIOUS
<1>1. /\ UNCHANGED registryVars /\ UNCHANGED worldIdVars /\ UNCHANGED validationVars
      /\ UNCHANGED kycVars /\ UNCHANGED creditVars
  BY DEF chainVars
<1> QED
  BY <1>1, RegistryInvNext, LedgerUntouched, ValidationInvStep, OthersKeepKyc, OthersKeepCredit
     DEF ChainInv, ValidationStep, OthersThanKyc, OthersThanCredit

LEMMA BackedUntouched ==
  ASSUME UNCHANGED chainVars, NEW a, NEW t, Backed(a, t)
  PROVE  Backed(a, t)'
<1>1. UNCHANGED <<nullifierUsed, verifications, nullifierToAgent, requestLog, sessionVerified,
                  validations>>
  BY DEF chainVars, worldIdVars, validationVars, kycVars
<1> QED
  BY <1>1 DEF Backed

LEMMA SystemInvInit == Init => SystemInv
<1> SUFFICES ASSUME Init
             PROVE  SystemInv
  OBVIOUS
<1>1. ChainInv
  BY RegistryInvInit, LedgerAtStart, ValidationInvInit, KycInvInit, CreditInvInit
     DEF Init, ChainInv
<1>2. ConsumerInv
  BY DEF Init, Engine!DeployedInit, ConsumerInv, Engine!AccessEvents
<1>3. event.name # "AccessGranted"
  BY DEF Init, Engine!DeployedInit, Engine!NoEvent
<1> QED
  BY <1>1, <1>2, <1>3 DEF SystemInv, GrantsAreBacked

\* Only a delivery grants, and it grants on what the contracts hold.
LEMMA SystemInvNext == SystemInv /\ [Next]_vars => SystemInv'
<1> SUFFICES ASSUME SystemInv, [Next]_vars
             PROVE  SystemInv'
  OBVIOUS
<1>1. ChainInv /\ ConsumerInv /\ GrantsAreBacked
  BY DEF SystemInv
<1>2. ASSUME event' = Engine!NoEvent
      PROVE  event' \in Engine!AccessEvents /\ GrantsAreBacked'
  BY <1>2 DEF Engine!NoEvent, Engine!AccessEvents, GrantsAreBacked
<1>3. CASE ChainStep
  <2>1. ChainInv'
    BY <1>1, <1>3, ChainInvStep DEF ChainStep
  <2>2. event' = Engine!NoEvent
    BY <1>3 DEF ChainStep
  <2>3. ConsumerInv'
    BY <1>1, <1>2, <1>3, <2>2 DEF ChainStep, ConsumerInv
  <2> QED
    BY <1>2, <2>1, <2>2, <2>3 DEF SystemInv
<1>4. CASE ConsumerStep
  <2>1. UNCHANGED chainVars
    BY <1>4 DEF ConsumerStep
  <2>2. ChainInv'
    BY <1>1, <2>1, ChainInvUntouched
  <2>3. ASSUME NEW sender, NEW r \in Engine!AccessReports, Engine!OnReport(sender, r)
        PROVE  ConsumerInv' /\ GrantsAreBacked'
    <3>1. DeliveryEffect(r)
      BY <1>1, <2>3, DeliveryHasEffect
    <3>2. event' \in Engine!AccessEvents /\ r.agentId \in AgentIds
      BY <3>1, GrantTyped
    <3>3. Backed(r.agentId, r.tier)
      BY <1>1, <3>1, <3>2, ConfirmedIsBacked DEF DeliveryEffect
    <3>4. Backed(r.agentId, r.tier)'
      BY <2>1, <3>3, BackedUntouched
    <3>5. event'.agentId = r.agentId /\ event'.tier = r.tier
      BY <3>1 DEF DeliveryEffect
    <3>6. GrantsAreBacked'
      BY <3>4, <3>5 DEF GrantsAreBacked, Backed
    <3>7. ConsumerInv'
      BY <1>1, <3>1, <3>2 DEF DeliveryEffect, ConsumerInv
    <3> QED
      BY <3>6, <3>7
  <2>4. ASSUME NEW f \in ConsumerForwarders, Engine!SetForwarder(f)
        PROVE  ConsumerInv' /\ GrantsAreBacked'
    <3>1. event' = Engine!NoEvent
      BY <2>4 DEF Engine!SetForwarder
    <3> QED
      BY <1>1, <1>2, <2>4, <3>1 DEF Engine!SetForwarder, Engine!configVars, ConsumerInv
  <2> QED
    BY <1>4, <2>2, <2>3, <2>4 DEF ConsumerStep, SystemInv
<1>5. CASE UNCHANGED vars
  <2>1. UNCHANGED chainVars /\ UNCHANGED engineVars
    BY <1>5 DEF vars
  <2>2. ChainInv' /\ ConsumerInv'
    BY <1>1, <2>1, ChainInvUntouched DEF engineVars, ConsumerInv
  <2>3. GrantsAreBacked'
    <3>1. GrantsAreBacked <=>
            (event.name = "AccessGranted" => Backed(event.agentId, event.tier))
      BY DEF GrantsAreBacked, Backed
    <3>2. event' = event
      BY <2>1 DEF engineVars
    <3>3. UNCHANGED <<nullifierUsed, verifications, nullifierToAgent, requestLog,
                      sessionVerified, validations>>
      BY <2>1 DEF chainVars, worldIdVars, validationVars, kycVars
    <3> QED
      BY <1>1, <3>2, <3>3 DEF GrantsAreBacked
  <2> QED
    BY <2>2, <2>3 DEF SystemInv
<1> QED
  BY <1>3, <1>4, <1>5 DEF Next

\* The system's invariant: each contract's own, in every interleaving of all of
\* them.
THEOREM SystemInvariant == Spec => []SystemInv
BY SystemInvInit, SystemInvNext, PTL DEF Spec

\* All state of the deployed system has its types.
THEOREM SystemTypeCorrect == Spec => []TypeOK
<1>1. ASSUME SystemInv
      PROVE  TypeOK
  <2>1. ChainInv /\ ConsumerInv
    BY <1>1 DEF SystemInv
  <2>2. policies \in Seq(Engine!PolicyNames)
    <3>1. "tiered" \in Engine!PolicyNames
      BY DEF Engine!PolicyNames
    <3> QED
      BY <2>1, <3>1 DEF ConsumerInv
  <2>3. [a \in AgentIds |-> FactsOf(a)] \in [AgentIds -> Engine!Facts]
    BY <2>1, FactsTyped
  <2>4. Engine!EngineTypeOK
    BY <2>1, <2>2, <2>3 DEF ConsumerInv, Engine!EngineTypeOK
  <2> QED
    BY <2>1, <2>4 DEF TypeOK, ChainInv, RegistryInv, WorldIdInv, ValidationInv, KycInv, CreditInv
<1> QED
  BY <1>1, SystemInvariant, PTL

\* A granted agent holds a nullifier spent on it alone, and the validators' answers
\* that its tier asks for, whatever all accounts and services did before.
THEOREM AccessIsBacked == Spec => []GrantsAreBacked
<1>1. SystemInv => GrantsAreBacked
  BY DEF SystemInv
<1> QED
  BY <1>1, SystemInvariant, PTL

-----------------------------------------------------------------------------
(* The contracts implement the engine with its environment.                *)

LEMMA EngineStarts == Init => Engine!DeployedStart
<1> SUFFICES ASSUME Init
             PROVE  Engine!DeployedStart
  OBVIOUS
<1>1. ASSUME NEW a \in AgentIds
      PROVE  FactsOf(a) = Engine!NoFacts
  <2>1. /\ owner[a] = Zero /\ metadata[a].humanVerified = NoTag
        /\ verifications[a].isVerified = FALSE
        /\ kycVerified[a] = FALSE /\ creditScores[a] = 0
        /\ creditVerifications[a].hasScore = FALSE
    BY DEF Init, RegistryInit, Blank, WorldIdInit, KycInit, CreditInit
  <2> QED
    BY <2>1 DEF FactsOf, Exists, Engine!NoFacts
<1>2. [a \in AgentIds |-> FactsOf(a)] = [a \in AgentIds |-> Engine!NoFacts]
  BY <1>1
<1> QED
  BY <1>2 DEF Init, Engine!DeployedStart, Engine!FactsInit

\* A step of the chain moves the facts of one agent, or leaves the engine as it is:
\* without agents there is nothing to move, and nothing was ever granted.
LEMMA ChainMovesFacts ==
  ASSUME SystemInv, ChainStep
  PROVE  \/ \E a \in AgentIds : Engine!FactsMove(a)
         \/ UNCHANGED <<engineVars, [a \in AgentIds |-> FactsOf(a)]>>
<1>1. ChainInv /\ ConsumerInv /\ ChainInv'
  BY ChainInvStep DEF SystemInv, ChainStep
<1>2. OneMoves
  BY <1>1, ChainMovesOne DEF ChainStep
<1>3. /\ event' = Engine!NoEvent
      /\ UNCHANGED <<policies, extractorSet, defaultPolicyAllow, targetDefault, forwarder>>
  BY DEF ChainStep
<1>4. ASSUME NEW a \in AgentIds, OnlyMoves(a)
      PROVE  Engine!FactsMove(a)
  <2> DEFINE before == [b \in AgentIds |-> FactsOf(b)]
             after == [b \in AgentIds |-> FactsOf(b)']
  <2>1. FactsOf(a)' \in Engine!Facts
    BY <1>1, FactsTypedNext
  <2>2. after = [before EXCEPT ![a] = FactsOf(a)']
    BY <1>4 DEF OnlyMoves
  <2> QED
    BY <1>3, <2>1, <2>2 DEF Engine!FactsMove, Engine!configVars
<1>5. CASE AgentIds # {}
  <2>1. PICK a \in AgentIds : OnlyMoves(a)
    BY <1>2, <1>5 DEF OneMoves, OnlyMoves
  <2> QED
    BY <1>4, <2>1
<1>6. CASE AgentIds = {}
  <2>1. event = Engine!NoEvent
    BY <1>1, <1>6 DEF ConsumerInv, Engine!AccessEvents
  <2>2. [a \in AgentIds |-> FactsOf(a)]' = [a \in AgentIds |-> FactsOf(a)]
    BY <1>6
  <2> QED
    BY <1>3, <2>1, <2>2 DEF engineVars
<1> QED
  BY <1>5, <1>6

\* A step of the system is a step of the deployed engine, or one it does not see.
EngineStep ==
  \/ Engine!DeployedNext
  \/ UNCHANGED <<engineVars, [a \in AgentIds |-> FactsOf(a)]>>

LEMMA SystemStepsAreEngineSteps ==
  ASSUME SystemInv, [Next]_vars
  PROVE  EngineStep
<1>1. UNCHANGED chainVars =>
        [a \in AgentIds |-> FactsOf(a)]' = [a \in AgentIds |-> FactsOf(a)]
  <2> SUFFICES ASSUME UNCHANGED chainVars, NEW a \in AgentIds
               PROVE  FactsOf(a)' = FactsOf(a)
    OBVIOUS
  <2>1. SameAgent(a) /\ SameVerdicts(a)
    BY DEF chainVars, registryVars, worldIdVars, kycVars, creditVars, SameAgent, SameVerdicts
  <2> QED
    BY <2>1, SameFacts
<1>2. CASE ChainStep
  BY <1>2, ChainMovesFacts DEF EngineStep, Engine!DeployedNext
<1>3. CASE ConsumerStep
  BY <1>1, <1>3 DEF ConsumerStep, EngineStep, Engine!DeployedNext
<1>4. CASE UNCHANGED vars
  BY <1>1, <1>4 DEF vars, EngineStep
<1> QED
  BY <1>2, <1>3, <1>4 DEF Next

\* The deployed contracts implement the engine with its environment: whatever all
\* accounts and services do is, for the engine, one agent's facts moving.
THEOREM SystemImplementsEngine == Spec => ImplementsEngine
<1>1. SystemInv /\ [Next]_vars
        => [Engine!DeployedNext]_<<Engine!engineVars, [a \in AgentIds |-> FactsOf(a)]>>
  BY SystemStepsAreEngineSteps DEF EngineStep, engineVars, Engine!engineVars, Engine!configVars
<1> QED
  BY <1>1, EngineStarts, SystemInvariant, PTL DEF Spec, ImplementsEngine, Engine!DeployedSpec

-----------------------------------------------------------------------------
(* The contracts together keep the abstract promise of access control.     *)

\* What reports claim are integers.
LEMMA TiersAreInts == \A t \in Tiers : t \in Int
BY SystemConstants

\* A confirmed tier is one that the agent's level reaches.
LEMMA ConfirmedReachesLevel ==
  ASSUME NEW f, NEW t \in Int, TierConfirmed(f, t)
  PROVE  Engine!Level(f) >= Engine!Promise!Required(t)
BY DEF TierConfirmed, Engine!HumanConfirmed, Engine!CreditConfirmed, Engine!Level,
       Engine!Promise!Required

LEMMA PromiseStarts == Init => Engine!Promise!Init
<1> SUFFICES ASSUME Init
             PROVE  Engine!Promise!Init
  OBVIOUS
<1>1. Engine!DeployedStart
  BY EngineStarts
<1>2. \A a \in AgentIds : [b \in AgentIds |-> FactsOf(b)][a].registered = FALSE
  BY <1>1 DEF Engine!DeployedStart, Engine!FactsInit, Engine!NoFacts
<1>3. Engine!Granted = {}
  BY <1>1 DEF Engine!DeployedStart, Engine!DeployedInit, Engine!Granted, Engine!NoEvent
<1> QED
  BY <1>2, <1>3 DEF Engine!Promise!Init, Engine!Level

\* Every step of the system is one the promise allows.
LEMMA PromiseKept ==
  ASSUME SystemInv, [Next]_vars
  PROVE  [Engine!Promise!Next]_Engine!Promise!vars
<1> DEFINE level == [a \in AgentIds |-> Engine!Level([b \in AgentIds |-> FactsOf(b)][a])]
<1>1. ASSUME UNCHANGED [a \in AgentIds |-> FactsOf(a)]
      PROVE  UNCHANGED level
  BY <1>1
<1>2. ASSUME NEW a \in AgentIds, Engine!FactsMove(a)
      PROVE  Engine!Promise!Next
  <2>1. Engine!Granted' = {}
    BY <1>2 DEF Engine!FactsMove, Engine!Granted, Engine!NoEvent
  <2>2. PICK f \in Engine!Facts :
          [b \in AgentIds |-> FactsOf(b)]' = [[b \in AgentIds |-> FactsOf(b)] EXCEPT ![a] = f]
    BY <1>2 DEF Engine!FactsMove
  <2>3. level' = [level EXCEPT ![a] = Engine!Level(f)]
    BY <2>2
  <2>4. Engine!Level(f) \in 0 .. 4
    BY DEF Engine!Level
  <2> QED
    BY <2>1, <2>3, <2>4 DEF Engine!Promise!Next, Engine!Promise!Move
<1>3. ASSUME NEW sender, NEW r \in Engine!AccessReports, Engine!OnReport(sender, r),
             UNCHANGED [a \in AgentIds |-> FactsOf(a)]
      PROVE  Engine!Promise!Next
  <2>1. DeliveryEffect(r) /\ r.agentId \in AgentIds /\ r.tier \in Tiers
    BY <1>3, DeliveryHasEffect DEF SystemInv, Engine!AccessReports
  <2>2. r.tier \in Int
    BY <2>1, TiersAreInts, Zenon
  <2>3. r.tier >= 2 /\ Engine!Level(FactsOf(r.agentId)) >= Engine!Promise!Required(r.tier)
    BY <2>1, <2>2, ConfirmedReachesLevel DEF DeliveryEffect, TierConfirmed
  <2>4. level[r.agentId] = Engine!Level(FactsOf(r.agentId))
    BY <2>1
  <2>5. Engine!Granted' = {[agent |-> r.agentId, tier |-> r.tier]}
    BY <2>1 DEF DeliveryEffect, Engine!Granted
  <2>6. UNCHANGED level
    BY <1>1, <1>3
  <2>7. Engine!Promise!Grant(r.agentId, r.tier)
    BY <2>3, <2>4, <2>5, <2>6 DEF Engine!Promise!Grant
  <2> QED
    BY <2>1, <2>7 DEF Engine!Promise!Next
<1>4. ASSUME NEW f, Engine!SetForwarder(f), UNCHANGED [a \in AgentIds |-> FactsOf(a)]
      PROVE  Engine!Promise!Next
  <2>1. Engine!Granted' = {}
    BY <1>4 DEF Engine!SetForwarder, Engine!Granted, Engine!NoEvent
  <2> QED
    BY <1>1, <1>4, <2>1 DEF Engine!Promise!Next, Engine!Promise!Quiet
<1>5. ASSUME UNCHANGED <<engineVars, [a \in AgentIds |-> FactsOf(a)]>>
      PROVE  UNCHANGED Engine!Promise!vars
  BY <1>1, <1>5 DEF engineVars, Engine!Granted, Engine!Promise!vars
<1> QED
  BY <1>2, <1>3, <1>4, <1>5, SystemStepsAreEngineSteps DEF EngineStep, Engine!DeployedNext

\* The whole system keeps the abstract promise: access at a tier is granted only to
\* an agent that stands at that level when it is granted.
THEOREM SystemKeepsPromise == Spec => Engine!ImplementsPromise
BY PromiseStarts, PromiseKept, SystemInvariant, PTL
DEF Spec, Engine!ImplementsPromise, Engine!Promise!Spec
=============================================================================
