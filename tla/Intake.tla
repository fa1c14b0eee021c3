------------------------------- MODULE Intake -------------------------------
(***************************************************************************)
(* How a message becomes a round of an investigation.  A user posts a      *)
(* message; the platform hands it, again if it is not acknowledged, to the *)
(* Go adapter, which submits it to the Host (src/host/server.ts), or to    *)
(* the older gateway process (src/integrations/feishu/gateway.ts), which   *)
(* writes to the store itself.  planRoute (src/intake/router.ts) finds the *)
(* investigation, and Store.acceptInbound stores the outcome.  A user of   *)
(* the web page submits to the Host directly.                              *)
(***************************************************************************)
EXTENDS SequencesExt

CONSTANTS
  MaxMessages,       \* bound: messages posted
  MaxRepeats,        \* bound: how often the platform hands one over again, in all
  MaxHandOvers,      \* bound: both together
  GroupChats,        \* chats of the platform with several people
  TopicChats,        \* those of them whose threads are topics
  PrivateChats,      \* chats with one person (p2p)
  RequireMention     \* config.feishu.requireMention

Messages == 1 .. MaxMessages
Copies == 1 .. MaxRepeats + 1
Chats == GroupChats \cup PrivateChats

ASSUME IntakeAssumption ==
  /\ MaxMessages \in Nat \ {0} /\ MaxRepeats \in Nat /\ MaxHandOvers \in Nat
  /\ GroupChats \cap PrivateChats = {} /\ "web" \notin Chats
  /\ TopicChats \subseteq GroupChats
  /\ RequireMention \in BOOLEAN

VARIABLES
  receiver,          \* the deployment: "adapter" or "gateway"
  botKnown,          \* whether the receiver knows the bot's open_id
  posted,            \* the messages so far, in order
  stage,             \* how far each copy of each message is
  inbound,           \* inbound_events: the status of each message
  investigations,    \* in order of created_at
  runs,              \* runs with their messages, in order of acceptance
  helps              \* help texts sent for a message

platformVars == <<receiver, botKnown, posted>>
tables == <<inbound, investigations, runs>>
vars == <<platformVars, stage, tables, helps>>

\* A message: its chat, the thread it is in, the root the platform names and the
\* message it answers, 0 for none or BotAnswer; whom it mentions; the investigation
\* whose marker [TD-...] is in its text; whether it is "-help".
BotAnswer == MaxMessages + 1
Message ==
  [chat : Chats \cup {"web"}, thread : 0 .. MaxMessages, root : 0 .. MaxMessages,
   parent : 0 .. BotAnswer, mention : {"none", "other", "bot"},
   code : 0 .. MaxMessages, help : BOOLEAN]
Investigation == [chat : Chats \cup {"web"}, root : Messages, topic : 0 .. MaxMessages]
Run == [message : Messages, investigation : Messages, round : Messages]
Decisions == {"accepted", "duplicate", "mechanical", "unroutable"}

TypeOK ==
  /\ receiver \in {"adapter", "gateway"} /\ botKnown \in BOOLEAN
  /\ posted \in Seq(Message) /\ Len(posted) <= MaxMessages
  /\ stage \in [Messages -> [Copies ->
       {"none", "held", "gated", "failed", "acknowledged"} \cup Decisions]]
  /\ inbound \in [Messages -> {"none", "processed", "ignored"}]
  /\ investigations \in Seq(Investigation)
  /\ runs \in Seq(Run)
  /\ helps \in [Messages -> 0 .. MaxRepeats + 1]

Init ==
  /\ receiver \in {"adapter", "gateway"} /\ botKnown \in BOOLEAN
  /\ posted = <<>>
  /\ stage = [m \in Messages |-> [c \in Copies |-> "none"]]
  /\ inbound = [m \in Messages |-> "none"]
  /\ investigations = <<>> /\ runs = <<>>
  /\ helps = [m \in Messages |-> 0]

Cases == 1 .. Len(investigations)
RunOf(m) == {r \in ToSet(runs) : r.message = m}

-----------------------------------------------------------------------------
(* Users and the platform.                                                 *)

Thread(m) == IF posted[m].thread = 0 THEN m ELSE posted[m].thread

\* A message that starts something new.
Openings ==
  [chat : Chats \cup {"web"}, thread : {0}, root : {0}, parent : {0},
   mention : {"none", "other", "bot"}, code : {0} \cup Cases, help : BOOLEAN]

\* A message that answers m, or what the bot said to it.  The platform names the
\* root of the thread, or not.
Answers(m) ==
  [chat : {posted[m].chat} \ {"web"}, thread : {Thread(m)}, root : {0, Thread(m)},
   parent : {m} \cup (IF RunOf(m) = {} THEN {} ELSE {BotAnswer}),
   mention : {"none", "other", "bot"}, code : {0} \cup Cases, help : BOOLEAN]

\* The copies handed over again, and whether the bound leaves room for another.
Repeats == {p \in Messages \X (Copies \ {1}) : stage[p[1]][p[2]] # "none"}
Room == Len(posted) + Cardinality(Repeats) < MaxHandOvers

\* A user posts a message, and the platform hands it over.
Post(draft) ==
  LET k == Len(posted) + 1 IN
  /\ k \in Messages /\ Room
  /\ draft.help => draft.code = 0 /\ draft.chat # "web"
  /\ draft.mention # "none" => draft.chat \in GroupChats
  /\ posted' = Append(posted, draft)
  /\ stage' = IF draft.chat = "web" THEN stage ELSE [stage EXCEPT ![k][1] = "held"]
  /\ UNCHANGED <<receiver, botKnown, tables, helps>>

\* The platform hands a message over again, as long as no copy is acknowledged.
HandOverAgain(m, c) ==
  /\ stage[m][c] = "none" /\ c > 1 /\ stage[m][c - 1] # "none"
  /\ \A d \in Copies : stage[m][d] # "acknowledged"
  /\ Cardinality(Repeats) < MaxRepeats /\ Room
  /\ stage' = [stage EXCEPT ![m][c] = "held"]
  /\ UNCHANGED <<platformVars, tables, helps>>

-----------------------------------------------------------------------------
(* planRoute.                                                              *)

\* The topic the platform names: that of its first message.
TopicOf(m) ==
  IF posted[m].chat \in TopicChats THEN Thread(m) ELSE 0

AdapterSeesBot(m) == botKnown /\ posted[m].mention = "bot"

GatewaySeesBot(m) ==
  IF botKnown THEN posted[m].mention = "bot" ELSE posted[m].mention # "none"

IsBotMentioned(m) ==
  IF receiver = "adapter" THEN AdapterSeesBot(m) ELSE GatewaySeesBot(m)

ByCode(m) == {i \in Cases : i = posted[m].code}
InChat(m) == {i \in Cases : investigations[i].chat = posted[m].chat}
ByRoot(m) == {i \in InChat(m) : posted[m].root # 0 /\ investigations[i].root = posted[m].root}
ByTopic(m) ==
  {i \in InChat(m) : investigations[i].topic = TopicOf(m) /\ TopicOf(m) # 0}
ByParent(m) == {r.investigation : r \in RunOf(posted[m].parent)}

\* The first lookup that finds something; of several cases the latest.
FirstFound(lookups) ==
  LET hits == {n \in DOMAIN lookups : lookups[n] # {}}
  IN IF hits = {} THEN 0 ELSE Max(lookups[Min(hits)])

\* A broken CaseOf that looks for the parent first.
CaseOf_ParentFirst(m) ==
  FirstFound(<<ByCode(m), ByParent(m), ByRoot(m), ByTopic(m)>>)

\* The investigation a message belongs to, 0 for none.
CaseOf(m) ==
  FirstFound(<<ByCode(m), ByRoot(m), ByTopic(m), ByParent(m)>>)

ForeignCode(m) == posted[m].code # 0 /\ investigations[posted[m].code].chat # posted[m].chat

NeedsMention(m) ==
  CaseOf(m) = 0 /\ posted[m].chat \in GroupChats /\ RequireMention

\* forced is the investigation the web page has open, 0 for none.
Plan(m, forced) ==
  IF forced = 0 /\ (ForeignCode(m) \/ (NeedsMention(m) /\ ~IsBotMentioned(m)))
  THEN "unroutable"
  ELSE IF forced = 0 /\ posted[m].chat # "web" /\ posted[m].help THEN "mechanical"
  ELSE "accepted"

-----------------------------------------------------------------------------
(* acceptInbound.                                                          *)

Decision(m, forced) ==
  IF inbound[m] # "none" THEN "duplicate" ELSE Plan(m, forced)

\* A broken NextRound that numbers the rounds of each source.
NextRound_OfSource(i, m) ==
  1 + Max({0} \cup {r.round : r \in {q \in ToSet(runs) :
        q.investigation = i /\ (posted[q.message].chat = "web") = (posted[m].chat = "web")}})

NextRound(i, m) ==
  1 + Max({0} \cup {r.round : r \in {q \in ToSet(runs) : q.investigation = i}})

\* A new investigation is rooted at its own message.
Accept(m, forced) ==
  LET found == IF forced # 0 THEN forced ELSE CaseOf(m)
      case == IF found # 0 THEN found ELSE Len(investigations) + 1
  IN
  /\ investigations' =
       IF found # 0 THEN investigations
       ELSE Append(investigations, [chat |-> posted[m].chat, root |-> m, topic |-> TopicOf(m)])
  /\ runs' = Append(runs,
       [message |-> m, investigation |-> case, round |-> NextRound(case, m)])

AcceptInbound(m, forced) ==
  LET decision == Decision(m, forced) IN
  /\ inbound' = [inbound EXCEPT ![m] =
       IF decision = "duplicate" THEN @
       ELSE IF decision = "unroutable" THEN "ignored" ELSE "processed"]
  /\ IF decision = "accepted" THEN Accept(m, forced) ELSE UNCHANGED <<investigations, runs>>

-----------------------------------------------------------------------------
(* The receivers.                                                          *)

\* The adapter submits, or the gateway goes on behind its gate.
Submit(m, c) ==
  /\ stage[m][c] = IF receiver = "adapter" THEN "held" ELSE "gated"
  /\ stage' = [stage EXCEPT ![m][c] = Decision(m, 0)]
  /\ AcceptInbound(m, 0)
  /\ UNCHANGED <<platformVars, helps>>

Helped(m) == helps' = [helps EXCEPT ![m] = @ + 1] \/ UNCHANGED helps

\* The gateway before the transaction: evaluateMentionGate on what it reads of a
\* database that others write, and -help.
Gate(m, c) ==
  LET active == ByRoot(m) # {} \/ ByTopic(m) # {} \/ ByParent(m) # {}
                \/ (posted[m].code # 0 /\ ~ForeignCode(m))
      allowed == \/ posted[m].chat \notin GroupChats \/ ~RequireMention
                 \/ active \/ IsBotMentioned(m)
  IN
  /\ receiver = "gateway" /\ stage[m][c] = "held"
  /\ \/ ~allowed /\ stage' = [stage EXCEPT ![m][c] = "acknowledged"] /\ UNCHANGED helps
     \/ allowed /\ posted[m].help /\ stage' = [stage EXCEPT ![m][c] = "acknowledged"] /\ Helped(m)
     \/ allowed /\ ~posted[m].help /\ stage' = [stage EXCEPT ![m][c] = "gated"] /\ UNCHANGED helps
  /\ UNCHANGED <<platformVars, tables>>

\* The answer of the Host is read and the platform told.
Acknowledge(m, c) ==
  /\ stage[m][c] \in Decisions
  /\ stage' = [stage EXCEPT ![m][c] = "acknowledged"]
  /\ IF stage[m][c] = "mechanical" THEN Helped(m) ELSE UNCHANGED helps
  /\ UNCHANGED <<platformVars, tables>>

\* A broken Fails that acknowledges what it could not submit.
Fails_Acknowledged(m, c) ==
  /\ stage[m][c] \in {"held", "gated"} \cup Decisions
  /\ stage' = [stage EXCEPT ![m][c] = "acknowledged"]
  /\ UNCHANGED <<platformVars, tables, helps>>

\* The Host is not reached, its answer is lost, or the receiver dies: the platform
\* is told so or hears nothing.  (Bound: where a repeat can follow.)
Fails(m, c) ==
  /\ stage[m][c] \in {"held", "gated"} \cup Decisions
  /\ Cardinality(Repeats) < MaxRepeats /\ Room
  /\ stage' = [stage EXCEPT ![m][c] = "failed"]
  /\ UNCHANGED <<platformVars, tables, helps>>

\* A message of the web page, under an identity made for it.
SubmitWeb(m, forced) ==
  /\ m <= Len(posted) /\ posted[m].chat = "web" /\ inbound[m] = "none"
  /\ forced \in {0} \cup Cases
  /\ AcceptInbound(m, forced)
  /\ UNCHANGED <<platformVars, stage, helps>>

Next ==
  \/ \E draft \in Openings : Post(draft)
  \/ \E m \in 1 .. Len(posted) : \E draft \in Answers(m) : Post(draft)
  \/ \E m \in Messages, c \in Copies :
       \/ HandOverAgain(m, c) \/ Submit(m, c) \/ Gate(m, c)
       \/ Acknowledge(m, c) \/ Fails(m, c)
  \/ \E m \in Messages, forced \in 0 .. MaxMessages : SubmitWeb(m, forced)

Spec == Init /\ [][Next]_vars

-----------------------------------------------------------------------------
(* Properties.                                                             *)

\* However often the platform hands a message over, and whatever is lost on the
\* way, it becomes at most one round.
AcceptedOnce ==
  \A i, j \in 1 .. Len(runs) : runs[i].message = runs[j].message => i = j

\* A message of a chat is never answered in another: its round belongs to an
\* investigation of its chat, by whichever lookup it got there.
StaysInChat ==
  \A r \in ToSet(runs) :
    posted[r.message].chat # "web"
      => investigations[r.investigation].chat = posted[r.message].chat

\* The rounds of an investigation are numbered 1, 2, 3, ... as they are accepted,
\* from whichever side they come: the queue executes them in this order.
RoundsAreDense ==
  \A n \in 1 .. Len(runs) :
    runs[n].round =
      Cardinality({k \in 1 .. n : runs[k].investigation = runs[n].investigation})

\* What is answered in the thread of a message that opened an investigation belongs
\* to it, whatever else was accepted before, unless its text has a code.
ThreadKeepsCase ==
  \A i, j \in 1 .. Len(runs) :
    LET opener == runs[i] follower == runs[j] IN
    /\ i < j /\ investigations[opener.investigation].root = opener.message
    /\ posted[follower.message].root = opener.message
    /\ posted[follower.message].code = 0
    => follower.investigation = opener.investigation

\* The platform is told "done" only of a message that the store has decided or the
\* gateway's gate has kept out: a Host that is down loses nothing.
AcknowledgedIsKept ==
  \A m \in Messages, c \in Copies :
    receiver = "adapter" /\ stage[m][c] = "acknowledged" => inbound[m] # "none"

\* The help text is sent once though its request is handed over again.  (The
\* gateway sends it before anything is stored.)
HelpedOnce ==
  \A m \in Messages : receiver = "adapter" => helps[m] <= 1

\* Nobody opens an investigation in a group without addressing the bot, not even
\* while the adapter does not know who the bot is.
OpenedByMention ==
  \A i \in Cases :
    RequireMention /\ receiver = "adapter" /\ investigations[i].chat \in GroupChats
      => posted[investigations[i].root].mention = "bot" /\ botKnown

\* A message becomes at most one round, of the conversation it was meant for.
OneRoundInItsPlace ==
  AcceptedOnce /\ StaysInChat /\ ThreadKeepsCase

\* What is stored is in order, opened by who may, and the help was given once.
IntakeInvariant ==
  TypeOK /\ RoundsAreDense /\ HelpedOnce /\ OpenedByMention
=============================================================================
