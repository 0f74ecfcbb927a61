------------------------- MODULE ReputationRegistry -------------------------
(***************************************************************************)
(* Feedback that clients give about agents they do not control, its        *)
(* revocation, the responses that anyone appends to it, and the views that *)
(* aggregate both. Indexes count from 1 per agent and client, so a         *)
(* client's feedback is a sequence and its length the last index.          *)
(***************************************************************************)
EXTENDS IdentityRegistry, Sequences, SequencesExt

CONSTANTS
  Opinions,       \* what clients say: value, valueDecimals, tag1, tag2
  EmptyTag,       \* the empty tag
  MaxDecimals,    \* precision of the internal arithmetic, 18 in the source
  MAX_ABS_VALUE,  \* largest absolute value, 10^38 in the source
  IntLimit,       \* 2^127 in the source: values are int128
  MaxFeedback,    \* bound: feedback given about an agent
  MaxAppended     \* bound: responses appended about an agent

OpinionTags == UNION {{o.tag1, o.tag2} : o \in Opinions} \cup {EmptyTag}

ASSUME ReputationConstants ==
  /\ IsFiniteSet(Users)
  /\ \A o \in Opinions : o.value \in Int /\ o.valueDecimals \in 0 .. 255
  /\ MaxDecimals \in Nat
  /\ MAX_ABS_VALUE \in Nat
  /\ IntLimit \in Nat /\ MAX_ABS_VALUE < IntLimit
  /\ MaxFeedback \in Nat
  /\ MaxAppended \in Nat

VARIABLES
  feedback,      \* _feedback: agent -> client -> sequence of Feedback
  clients,       \* _clients: agent -> the clients in order of first feedback
  responders,    \* _responders: agent -> client -> index -> sequence
  responseCount  \* _responseCount: agent -> client -> index -> responder

reputationVars == <<feedback, clients, responders, responseCount>>

Indexes == 1 .. MaxFeedback

Feedback ==
  [value : -MAX_ABS_VALUE .. MAX_ABS_VALUE, valueDecimals : 0 .. MaxDecimals,
   tag1 : OpinionTags, tag2 : OpinionTags, isRevoked : BOOLEAN]

ReputationTypeOK ==
  /\ feedback \in [AgentIds -> [Users -> Seq(Feedback)]]
  /\ clients \in [AgentIds -> Seq(Users)]
  /\ responders \in [AgentIds -> [Users -> [Indexes -> Seq(Users)]]]
  /\ responseCount \in [AgentIds -> [Users -> [Indexes -> [Users -> 0 .. MaxAppended]]]]

ReputationInit ==
  /\ feedback = [a \in AgentIds |-> [c \in Users |-> <<>>]]
  /\ clients = [a \in AgentIds |-> <<>>]
  /\ responders = [a \in AgentIds |-> [c \in Users |-> [j \in Indexes |-> <<>>]]]
  /\ responseCount =
       [a \in AgentIds |-> [c \in Users |-> [j \in Indexes |-> [r \in Users |-> 0]]]]

\* The agent's feedback, as pairs of a client and an index, and the responses to it.
GivenAbout(a) == UNION {{c} \X DOMAIN feedback[a][c] : c \in Users}
ResponsesTo(a, c, j) == SumFunctionOnSet(responseCount[a][c][j], Users)

\* Totals that the bounds cap.
FeedbackGiven(a) == Cardinality(GivenAbout(a))
Appended(a) ==
  SumFunctionOnSet([e \in Users \X Indexes |-> ResponsesTo(a, e[1], e[2])], Users \X Indexes)

-----------------------------------------------------------------------------
(* The calls.                                                              *)

\* Faulty variant: without the flags.
PushAlways(s, x) == Append(s, x)

\* Faulty variant: the flag is set by the first push and never asked per element.
PushFirst(s, x) == IF s = <<>> THEN <<x>> ELSE s

\* The array and its _clientExists or _responderExists flags: push if absent.
PushNew(s, x) == IF Contains(s, x) THEN s ELSE Append(s, x)

GiveFeedback(sender, a, o) ==
  /\ o.valueDecimals <= MaxDecimals
  /\ o.value \in -MAX_ABS_VALUE .. MAX_ABS_VALUE
  /\ Exists(a)
  /\ ~IsAuthorized(sender, a)
  /\ FeedbackGiven(a) < MaxFeedback
  /\ feedback' = [feedback EXCEPT ![a][sender] = Append(@,
       [value |-> o.value, valueDecimals |-> o.valueDecimals,
        tag1 |-> o.tag1, tag2 |-> o.tag2, isRevoked |-> FALSE])]
  /\ clients' = [clients EXCEPT ![a] = PushNew(@, sender)]
  /\ UNCHANGED <<responders, responseCount>>
  /\ UNCHANGED registryVars

\* Faulty variant: revocation deletes, and later feedback moves up.
RevokeFeedbackDeleting(sender, a, j) ==
  /\ j \in DOMAIN feedback[a][sender]
  /\ feedback' = [feedback EXCEPT ![a][sender] = RemoveAt(@, j)]
  /\ UNCHANGED <<clients, responders, responseCount>>
  /\ UNCHANGED registryVars

RevokeFeedback(sender, a, j) ==
  /\ j \in DOMAIN feedback[a][sender]
  /\ ~feedback[a][sender][j].isRevoked
  /\ feedback' = [feedback EXCEPT ![a][sender][j].isRevoked = TRUE]
  /\ UNCHANGED <<clients, responders, responseCount>>
  /\ UNCHANGED registryVars

AppendResponse(sender, a, c, j) ==
  /\ j \in DOMAIN feedback[a][c]
  /\ Appended(a) < MaxAppended
  /\ responders' = [responders EXCEPT ![a][c][j] = PushNew(@, sender)]
  /\ responseCount' = [responseCount EXCEPT ![a][c][j][sender] = @ + 1]
  /\ UNCHANGED <<feedback, clients>>
  /\ UNCHANGED registryVars

ReputationCall(sender) ==
  \E a \in AgentIds :
    \/ \E o \in Opinions : GiveFeedback(sender, a, o)
    \/ \E j \in Indexes : RevokeFeedback(sender, a, j)
    \/ \E c \in Users, j \in Indexes : AppendResponse(sender, a, c, j)

ReputationNext ==
  \/ \E sender \in Users : MayCall(sender) /\ ReputationCall(sender)
  \/ RegistryNext /\ UNCHANGED reputationVars

ReputationSystemInit == ReputationInit /\ RegistryInit

ReputationSpec ==
  ReputationSystemInit /\ [][ReputationNext]_<<registryVars, reputationVars>>

-----------------------------------------------------------------------------
(* The views.                                                              *)

\* Faulty variant: division that rounds down.
FloorDiv(x, n) == x \div n

\* Division of signed integers in the EVM truncates toward zero.
TruncDiv(x, n) == IF x >= 0 THEN x \div n ELSE -((-x) \div n)

\* The conversion of an int256 to an int128 keeps the low bits.
Int128 == -IntLimit .. IntLimit - 1
ToInt128(x) == ((x + IntLimit) % (2 * IntLimit)) - IntLimit

TenTo[n \in 0 .. MaxDecimals] == IF n = 0 THEN 1 ELSE 10 * TenTo[n - 1]
Scale(d) == TenTo[MaxDecimals - d]

\* getSummary takes a tag wherever feedback has it; readAllFeedback only in
\* its own place. An empty tag is no filter.
HasTag(f, tag) == tag \in {EmptyTag, f.tag1, f.tag2}
HasTags(f, tag1, tag2) == tag1 \in {EmptyTag, f.tag1} /\ tag2 \in {EmptyTag, f.tag2}

\* The feedback of the clients in a list, as pairs of a place in the list and an
\* index: a client listed twice counts twice.
Entries(a, list) == UNION {{i} \X DOMAIN feedback[a][list[i]] : i \in DOMAIN list}
At(a, list, p) == feedback[a][list[p[1]]][p[2]]

Summed(a, list, tag1, tag2) ==
  {p \in Entries(a, list) :
     /\ ~At(a, list, p).isRevoked
     /\ HasTag(At(a, list, p), tag1) /\ HasTag(At(a, list, p), tag2)}

Frequency(a, list, entries, d) ==
  Cardinality({p \in entries : At(a, list, p).valueDecimals = d})

\* The precision used most often, the coarsest of several.
Mode(a, list, entries) ==
  CHOOSE d \in 0 .. MaxDecimals : \A e \in 0 .. MaxDecimals :
    /\ Frequency(a, list, entries, e) <= Frequency(a, list, entries, d)
    /\ Frequency(a, list, entries, e) = Frequency(a, list, entries, d) => d <= e

WadSum(a, list, entries) ==
  SumFunctionOnSet(
    [p \in entries |-> At(a, list, p).value * Scale(At(a, list, p).valueDecimals)], entries)

\* Of a list of clients that is not empty: the code reverts on an empty one, which
\* is no call of this operator.
GetSummary(a, clientAddresses, tag1, tag2) ==
  LET summed == Summed(a, clientAddresses, tag1, tag2)
      mode == Mode(a, clientAddresses, summed)
      average == TruncDiv(WadSum(a, clientAddresses, summed), Cardinality(summed))
  IN IF summed = {} THEN [count |-> 0, value |-> 0, decimals |-> 0]
     ELSE [count    |-> Cardinality(summed),
           value    |-> ToInt128(TruncDiv(average, Scale(mode))),
           decimals |-> mode]

\* The feedback that readAllFeedback lists by client, by index.
ReadAllFeedback(a, clientAddresses, tag1, tag2, includeRevoked) ==
  LET clientList == IF clientAddresses = <<>> THEN clients[a] ELSE clientAddresses
  IN {p \in Entries(a, clientList) :
        /\ includeRevoked \/ ~At(a, clientList, p).isRevoked
        /\ HasTags(At(a, clientList, p), tag1, tag2)}

\* getResponseCount for an absent client and no responders given: every
\* response about the agent, found through the two arrays.
CountResponses(a, c, j) ==
  LET array == responders[a][c][j]
  IN SumFunctionOnSet([k \in DOMAIN array |-> responseCount[a][c][j][array[k]]], DOMAIN array)
GetResponseCount(a) ==
  LET entries == Entries(a, clients[a])
  IN SumFunctionOnSet([p \in entries |-> CountResponses(a, clients[a][p[1]], p[2])], entries)

-----------------------------------------------------------------------------
(* Properties.                                                             *)

Once(s, x) == Cardinality({i \in DOMAIN s : s[i] = x})

\* The arrays that the views iterate over hold exactly the clients with feedback
\* and the responders with responses, each once: through transfers of the agent,
\* revocations and repeated calls nothing is listed twice or left out.
ArraysIndexMappings ==
  \A a \in AgentIds, c \in Users :
    /\ Once(clients[a], c) = IF feedback[a][c] = <<>> THEN 0 ELSE 1
    /\ \A j \in Indexes, r \in Users :
         Once(responders[a][c][j], r) = IF responseCount[a][c][j][r] = 0 THEN 0 ELSE 1

\* The views that enumerate see everything: readAllFeedback without filters each
\* feedback, getResponseCount each response that was ever appended.
ViewsComplete ==
  \A a \in AgentIds :
    /\ Cardinality(ReadAllFeedback(a, <<>>, EmptyTag, EmptyTag, TRUE)) = FeedbackGiven(a)
    /\ GetResponseCount(a) = Appended(a)

\* Feedback keeps its index, its author and its content for good; revoking it is
\* final and never moves or alters other feedback.
FeedbackStands ==
  [][\A a \in AgentIds, c \in Users :
       /\ Len(feedback[a][c]) <= Len(feedback'[a][c])
       /\ \A j \in DOMAIN feedback[a][c] :
            LET f == feedback[a][c][j]
                g == feedback'[a][c][j]
            IN g \in {f, [f EXCEPT !.isRevoked = TRUE]}
    ]_<<registryVars, reputationVars>>

\* The live feedback with the wanted tags, and its average at a precision, cut off
\* toward zero once.
Live(a, list, t1, t2) ==
  {p \in Entries(a, list) :
     /\ ~At(a, list, p).isRevoked
     /\ {t1, t2} \ {EmptyTag} \subseteq {At(a, list, p).tag1, At(a, list, p).tag2}}
AverageAt(a, list, live, decimals) ==
  LET total == SumFunctionOnSet(
        [p \in live |-> At(a, list, p).value * Scale(At(a, list, p).valueDecimals)], live)
      step == Cardinality(live) * Scale(decimals)
  IN IF total >= 0 THEN total \div step ELSE -((-total) \div step)

\* What getSummary says of a list of clients: that average, at the precision used
\* most often, if it is an int128.
SummarizesAsAverage(a, list, t1, t2) ==
  LET live == Live(a, list, t1, t2)
      s == GetSummary(a, list, t1, t2)
      average == AverageAt(a, list, live, s.decimals)
      Uses(e) == Cardinality({p \in live : At(a, list, p).valueDecimals = e})
  IN /\ s.count = Cardinality(live)
     /\ live # {} =>
          /\ Uses(s.decimals) > 0
          /\ \A p \in 0 .. MaxDecimals : Uses(p) <= Uses(s.decimals)
          /\ s.value \in Int128
          /\ average \in Int128 => s.value = average

\* getSummary is that average although the code divides twice: for mixed
\* precisions, negative values, and clients named twice.
SummaryIsAverage ==
  \A a \in AgentIds, c, d \in Users, t1, t2 \in OpinionTags :
    SummarizesAsAverage(a, IF c = d THEN <<c>> ELSE <<c, d, c>>, t1, t2)

\* "Calculate average in WAD, then scale to mode precision": the summary is the
\* average at the precision used most often, whatever its size.
SummaryIsScaledAverage ==
  \A a \in AgentIds, c, d \in Users :
    LET list == IF c = d THEN <<c>> ELSE <<c, d>>
        live == Live(a, list, EmptyTag, EmptyTag)
        s == GetSummary(a, list, EmptyTag, EmptyTag)
    IN live # {} => s.value = AverageAt(a, list, live, s.decimals)
=============================================================================
