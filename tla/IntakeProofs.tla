---------------------------- MODULE IntakeProofs ----------------------------
(***************************************************************************)
(* Machine-checked theorems about Intake: whatever is handed over twice,   *)
(* lost, or answered out of turn, a message becomes at most one round, of  *)
(* an investigation of its own chat and thread, in order; nothing is       *)
(* acknowledged that is not stored.                                        *)
(***************************************************************************)
EXTENDS Intake, OrderingProofs, SequenceTheorems, TLAPS

USE IntakeAssumption

\* What a message refers to was posted before it, in the same chat of the platform.
PostedInOrder ==
  \A m \in 1 .. Len(posted) :
    LET p == posted[m] IN
    /\ p.thread < m /\ p.root < m /\ (p.parent < m \/ p.parent = BotAnswer)
    /\ \A q \in {p.thread, p.root, p.parent} \ {0, BotAnswer} :
         posted[q].chat = p.chat /\ p.chat # "web"
    /\ p.code <= Len(investigations)

\* A round was made of a message that is settled, and belongs to an investigation;
\* an investigation has a round of the message that opened it.
Rooted ==
  /\ \A n \in 1 .. Len(runs) :
       /\ runs[n].message <= Len(posted) /\ inbound[runs[n].message] = "processed"
       /\ runs[n].investigation <= Len(investigations)
  /\ \A i \in Cases :
       /\ \E n \in 1 .. Len(runs) :
            runs[n].message = investigations[i].root /\ runs[n].investigation = i
       /\ investigations[i].chat = posted[investigations[i].root].chat

\* What a copy has been told is in the tables, and no copy is ahead of its message.
Reached ==
  \A m \in Messages, c \in Copies :
    /\ stage[m][c] # "none" => m <= Len(posted)
    /\ receiver = "adapter" /\ stage[m][c] \in Decisions \cup {"acknowledged"}
         => inbound[m] # "none"

\* One copy at most is told to send the help, and it has not been sent then.
Helping ==
  \A m \in Messages :
    /\ helps[m] <= Cardinality({c \in Copies : stage[m][c] = "acknowledged"})
    /\ receiver = "adapter" =>
         /\ helps[m] <= 1 /\ (inbound[m] = "none" => helps[m] = 0)
         /\ \A c, d \in Copies :
              stage[m][c] = "mechanical"
                => helps[m] = 0 /\ (stage[m][d] = "mechanical" => c = d)

PlatformType ==
  /\ receiver \in {"adapter", "gateway"} /\ botKnown \in BOOLEAN
  /\ posted \in Seq(Message) /\ Len(posted) <= MaxMessages

TablesType ==
  /\ inbound \in [Messages -> {"none", "processed", "ignored"}]
  /\ investigations \in Seq(Investigation)
  /\ runs \in Seq(Run)

StagesType ==
  /\ stage \in [Messages -> [Copies ->
       {"none", "held", "gated", "failed", "acknowledged"} \cup Decisions]]
  /\ helps \in [Messages -> 0 .. MaxRepeats + 1]

\* The part of the inductive invariant that the tables and the messages decide, and
\* the part about the copies.
TablesInvariant ==
  /\ PlatformType /\ TablesType /\ PostedInOrder /\ Rooted
  /\ AcceptedOnce /\ StaysInChat /\ RoundsAreDense /\ ThreadKeepsCase /\ OpenedByMention
CopiesInvariant == StagesType /\ Reached /\ Helping

-----------------------------------------------------------------------------
(* What the tables hold.                                                   *)

\* The elements of the tables, one by one.
LEMMA TableFacts ==
  ASSUME PlatformType, TablesType
  PROVE  /\ MaxMessages \in Nat \ {0}
         /\ Len(posted) \in Nat /\ Len(investigations) \in Nat /\ Len(runs) \in Nat
         /\ \A m \in 1 .. Len(posted) : posted[m] \in Message /\ m \in Messages
         /\ \A i \in Cases : investigations[i] \in Investigation
         /\ \A n \in 1 .. Len(runs) : runs[n] \in Run
         /\ ToSet(runs) = {runs[n] : n \in 1 .. Len(runs)}
<1>1. /\ Len(posted) \in Nat /\ Len(investigations) \in Nat /\ Len(runs) \in Nat
      /\ DOMAIN runs = 1 .. Len(runs)
  BY LenProperties DEF PlatformType, TablesType
<1>2. \A m \in 1 .. Len(posted) : posted[m] \in Message /\ m \in Messages
  BY <1>1, ElementOfSeq DEF PlatformType, Messages
<1>3. \A i \in Cases : investigations[i] \in Investigation
  BY ElementOfSeq DEF TablesType, Cases
<1>4. \A n \in 1 .. Len(runs) : runs[n] \in Run
  BY ElementOfSeq DEF TablesType
<1>5. ToSet(runs) = {runs[n] : n \in 1 .. Len(runs)}
  BY <1>1 DEF ToSet
<1> QED BY <1>1, <1>2, <1>3, <1>4, <1>5

\* Two investigations are not opened by the same message, and there are no more of
\* them, nor of rounds, than messages.
LEMMA RootsDiffer ==
  ASSUME TablesInvariant
  PROVE  \A i, j \in Cases : investigations[i].root = investigations[j].root => i = j
<1> SUFFICES ASSUME NEW i \in Cases, NEW j \in Cases,
                    investigations[i].root = investigations[j].root
             PROVE  i = j
  OBVIOUS
<1>1. PICK n \in 1 .. Len(runs) :
        runs[n].message = investigations[i].root /\ runs[n].investigation = i
  BY DEF TablesInvariant, Rooted
<1>2. PICK k \in 1 .. Len(runs) :
        runs[k].message = investigations[j].root /\ runs[k].investigation = j
  BY DEF TablesInvariant, Rooted
<1>3. n = k BY <1>1, <1>2 DEF TablesInvariant, AcceptedOnce
<1> QED BY <1>1, <1>2, <1>3

\* A message that no round was made of leaves room for one more round and, if there
\* is a round for it, for one more investigation.
LEMMA RoomForOne ==
  ASSUME TablesInvariant, NEW m \in Messages, inbound[m] = "none"
  PROVE  Len(runs) + 1 <= MaxMessages /\ Len(investigations) + 1 <= MaxMessages
<1> USE TableFacts DEF TablesInvariant
<1>1. \A n \in 1 .. Len(runs) : runs[n].message \in Messages /\ runs[n].message # m
  BY DEF Run, Rooted
<1>2. Len(runs) + 1 <= MaxMessages
  <2> DEFINE f == [n \in 1 .. Len(runs) + 1 |->
                     IF n <= Len(runs) THEN runs[n].message ELSE m]
  <2>1. f \in [1 .. Len(runs) + 1 -> 1 .. MaxMessages] BY <1>1 DEF Messages
  <2>2. \A i, j \in 1 .. Len(runs) + 1 : f[i] = f[j] => i = j
    <3> SUFFICES ASSUME NEW i \in 1 .. Len(runs) + 1, NEW j \in 1 .. Len(runs) + 1,
                        f[i] = f[j]
                 PROVE  i = j
      OBVIOUS
    <3>1. CASE i <= Len(runs) /\ j <= Len(runs) BY <3>1 DEF AcceptedOnce
    <3>2. CASE ~(i <= Len(runs) /\ j <= Len(runs)) BY <1>1, <3>2
    <3> QED BY <3>1, <3>2
  <2>3. Len(runs) + 1 \in Nat /\ MaxMessages \in Nat OBVIOUS
  <2> HIDE DEF f
  <2> QED BY <2>1, <2>2, <2>3, DistinctAreFew
<1>3. \A i \in Cases : investigations[i].root \in Messages /\ investigations[i].root # m
  <2> SUFFICES ASSUME NEW i \in Cases
               PROVE  investigations[i].root \in Messages /\ investigations[i].root # m
    OBVIOUS
  <2>1. PICK n \in 1 .. Len(runs) : runs[n].message = investigations[i].root
    BY DEF Rooted
  <2> QED BY <1>1, <2>1
<1>4. Len(investigations) + 1 <= MaxMessages
  <2> DEFINE f == [i \in 1 .. Len(investigations) + 1 |->
                     IF i <= Len(investigations) THEN investigations[i].root ELSE m]
  <2>1. f \in [1 .. Len(investigations) + 1 -> 1 .. MaxMessages]
    BY <1>3 DEF Messages, Cases
  <2>2. \A i, j \in 1 .. Len(investigations) + 1 : f[i] = f[j] => i = j
    <3> SUFFICES ASSUME NEW i \in 1 .. Len(investigations) + 1,
                        NEW j \in 1 .. Len(investigations) + 1, f[i] = f[j]
                 PROVE  i = j
      OBVIOUS
    <3>1. CASE i <= Len(investigations) /\ j <= Len(investigations)
      <4>1. i \in Cases /\ j \in Cases BY <3>1 DEF Cases
      <4> QED BY <3>1, <4>1, RootsDiffer
    <3>2. CASE ~(i <= Len(investigations) /\ j <= Len(investigations))
      BY <1>3, <3>2 DEF Cases
    <3> QED BY <3>1, <3>2
  <2>3. Len(investigations) + 1 \in Nat /\ MaxMessages \in Nat OBVIOUS
  <2> HIDE DEF f
  <2> QED BY <2>1, <2>2, <2>3, DistinctAreFew
<1> QED BY <1>2, <1>4

\* The number of a new round is the number of rounds there are and one: the largest
\* is that of the last.
LEMMA NextRoundCounts ==
  ASSUME TablesInvariant, NEW i \in Nat, NEW m
  PROVE  /\ NextRound(i, m) = 1 + Cardinality({k \in 1 .. Len(runs) : runs[k].investigation = i})
         /\ NextRound(i, m) \in 1 .. Len(runs) + 1
<1> DEFINE P == {k \in 1 .. Len(runs) : runs[k].investigation = i}
           R == {0} \cup {r.round : r \in {q \in ToSet(runs) : q.investigation = i}}
<1>1. R = {0} \cup {runs[k].round : k \in P}
  BY TableFacts DEF TablesInvariant
<1>2. Len(runs) \in Nat /\ \A k \in 1 .. Len(runs) : runs[k].round \in Nat /\ runs[k].round <= MaxMessages
  BY TableFacts DEF TablesInvariant, Run, Messages
<1>3. IsFiniteSet(P) /\ Cardinality(P) \in Nat /\ Cardinality(P) <= Len(runs)
  <2>1. IsFiniteSet(1 .. Len(runs)) /\ Cardinality(1 .. Len(runs)) = Len(runs)
    BY <1>2, FS_Interval
  <2>2. P \in SUBSET (1 .. Len(runs)) OBVIOUS
  <2> QED BY <2>1, <2>2, FS_Subset, FS_CardinalityType
<1>4. Max(R) \in R /\ \A y \in R : Max(R) >= y
  <2>1. R \subseteq 0 .. MaxMessages /\ R # {} BY <1>1, <1>2
  <2>2. MaxMessages \in Nat OBVIOUS
  <2> HIDE DEF R
  <2> QED BY <2>1, <2>2, MaxOfInterval
<1>5. \A k \in P : runs[k].round <= Cardinality(P)
  <2> SUFFICES ASSUME NEW k \in P PROVE runs[k].round <= Cardinality(P) OBVIOUS
  <2> DEFINE Q == {l \in 1 .. k : runs[l].investigation = runs[k].investigation}
  <2>1. runs[k].round = Cardinality(Q) BY DEF TablesInvariant, RoundsAreDense
  <2>2. Q \in SUBSET P BY <1>2
  <2> HIDE DEF Q
  <2>3. Cardinality(Q) <= Cardinality(P) BY <1>3, <2>2, FS_Subset
  <2> QED BY <2>1, <2>3
<1>6. Cardinality(P) \in R
  <2>1. CASE P = {} BY <2>1, FS_EmptySet
  <2>2. CASE P # {}
    <3>1. P \subseteq Nat /\ \A k \in P : k <= Len(runs) BY <1>2
    <3>2. PICK last \in P : \A k \in P : last >= k
      BY <1>2, <2>2, <3>1, GreatestNumber
    <3>3. {l \in 1 .. last : runs[l].investigation = runs[last].investigation} = P
      BY <1>2, <3>1, <3>2
    <3>4. runs[last].round = Cardinality(P)
      BY <3>3 DEF TablesInvariant, RoundsAreDense
    <3> QED BY <1>1, <3>4
  <2> QED BY <2>1, <2>2
<1>7. Max(R) = Cardinality(P)
  <2>1. Max(R) = 0 \/ \E k \in P : Max(R) = runs[k].round BY <1>1, <1>4
  <2>2. Max(R) >= Cardinality(P) BY <1>4, <1>6
  <2>3. Max(R) \in Nat /\ Max(R) <= Cardinality(P)
    BY <1>2, <1>3, <1>5, <2>1
  <2> HIDE DEF P, R
  <2> QED BY <1>3, <2>2, <2>3
<1>8. NextRound(i, m) = 1 + Max(R) BY DEF NextRound
<1> HIDE DEF P, R
<1>9. NextRound(i, m) = 1 + Cardinality(P) BY <1>7, <1>8
<1>10. NextRound(i, m) \in 1 .. Len(runs) + 1 BY <1>2, <1>3, <1>9
<1> QED BY <1>9, <1>10 DEF P

\* CaseOf takes an investigation from the first lookup that finds one.
LEMMA CaseOfFinds ==
  ASSUME TablesInvariant, NEW m \in 1 .. Len(posted)
  PROVE  /\ CaseOf(m) = 0
              => ByCode(m) = {} /\ ByRoot(m) = {} /\ ByTopic(m) = {} /\ ByParent(m) = {}
         /\ CaseOf(m) # 0
              => CaseOf(m) \in ByCode(m) \cup ByRoot(m) \cup ByTopic(m) \cup ByParent(m)
         /\ ByCode(m) = {} /\ ByRoot(m) # {} => CaseOf(m) \in ByRoot(m)
         /\ ByCode(m) \cup ByRoot(m) \cup ByTopic(m) \cup ByParent(m) \subseteq Cases
         /\ CaseOf(m) \in {0} \cup Cases
<1> DEFINE L == <<ByCode(m), ByRoot(m), ByTopic(m), ByParent(m)>>
           hits == {n \in DOMAIN L : L[n] # {}}
<1>1. /\ DOMAIN L = 1 .. 4
      /\ L[1] = ByCode(m) /\ L[2] = ByRoot(m) /\ L[3] = ByTopic(m) /\ L[4] = ByParent(m)
  OBVIOUS
<1>2. Len(investigations) \in Nat BY TableFacts DEF TablesInvariant
<1>3. ByCode(m) \subseteq Cases /\ ByRoot(m) \subseteq Cases /\ ByTopic(m) \subseteq Cases
  BY DEF ByCode, ByRoot, ByTopic, InChat
<1>4. ByParent(m) \subseteq Cases
  BY TableFacts DEF ByParent, RunOf, TablesInvariant, Rooted, Run, Messages, Cases
<1>5. \A n \in 1 .. 4 : L[n] \subseteq Cases BY <1>1, <1>3, <1>4
<1> HIDE DEF L
<1>6. hits = {n \in 1 .. 4 : L[n] # {}} BY <1>1
<1>7. CaseOf(m) = IF hits = {} THEN 0 ELSE Max(L[Min(hits)])
  BY DEF CaseOf, FirstFound, L
<1>8. hits # {} => Min(hits) \in hits /\ \A n \in hits : Min(hits) <= n
  <2>1. hits \subseteq Nat BY <1>6
  <2> HIDE DEF hits
  <2> QED BY <2>1, MinIsLeast
<1>9. \A n \in 1 .. 4 : L[n] # {} => Max(L[n]) \in L[n] /\ Max(L[n]) \in Cases
  <2> SUFFICES ASSUME NEW n \in 1 .. 4, L[n] # {}
               PROVE  Max(L[n]) \in L[n] /\ Max(L[n]) \in Cases
    OBVIOUS
  <2>1. L[n] \subseteq 0 .. Len(investigations) BY <1>2, <1>5 DEF Cases
  <2>2. Max(L[n]) \in L[n] BY <1>2, <2>1, MaxOfInterval
  <2> QED BY <1>5, <2>2
<1>10. hits # {} => /\ Min(hits) \in 1 .. 4 /\ CaseOf(m) \in L[Min(hits)] /\ CaseOf(m) \in Cases
                    /\ \A n \in 1 .. 4 : L[n] # {} => Min(hits) <= n
  BY <1>6, <1>7, <1>8, <1>9
<1>11. CaseOf(m) \in {0} \cup Cases BY <1>7, <1>10
<1>12. CaseOf(m) = 0 => hits = {} BY <1>2, <1>10 DEF Cases
<1>13. CaseOf(m) # 0 => hits # {} BY <1>7
<1> HIDE DEF hits
<1>14. ASSUME ByCode(m) = {}, ByRoot(m) # {} PROVE Min(hits) = 2
  <2>1. 1 \notin hits /\ 2 \in hits BY <1>1, <1>6, <1>14
  <2>2. Min(hits) \in 1 .. 4 /\ Min(hits) \in hits /\ Min(hits) <= 2
    BY <1>6, <1>8, <2>1
  <2> QED BY <2>1, <2>2
<1>15. CaseOf(m) = 0 => \A n \in 1 .. 4 : L[n] = {} BY <1>6, <1>12
<1>16. CaseOf(m) # 0
         => CaseOf(m) \in ByCode(m) \cup ByRoot(m) \cup ByTopic(m) \cup ByParent(m)
  <2> SUFFICES ASSUME CaseOf(m) # 0
               PROVE  CaseOf(m) \in L[1] \cup L[2] \cup L[3] \cup L[4]
    BY <1>1
  <2>1. PICK n \in 1 .. 4 : CaseOf(m) \in L[n] BY <1>10, <1>13
  <2> QED BY <2>1
<1>17. ByCode(m) = {} /\ ByRoot(m) # {} => CaseOf(m) \in ByRoot(m)
  <2> SUFFICES ASSUME ByCode(m) = {}, ByRoot(m) # {} PROVE CaseOf(m) \in L[2]
    BY <1>1
  <2>1. L[2] # {} BY <1>1
  <2>2. hits # {} BY <2>1, <1>6
  <2> QED BY <1>10, <1>14, <2>2
<1>18. CaseOf(m) = 0
         => ByCode(m) = {} /\ ByRoot(m) = {} /\ ByTopic(m) = {} /\ ByParent(m) = {}
  BY <1>1, <1>15
<1> QED BY <1>3, <1>4, <1>11, <1>16, <1>17, <1>18

\* The investigation a message is put in, 0 for none yet, and the one its round is of.
Found(m, forced) == IF forced # 0 THEN forced ELSE CaseOf(m)
Target(m, forced) ==
  IF Found(m, forced) # 0 THEN Found(m, forced) ELSE Len(investigations) + 1

\* Where planRoute puts a message that is accepted: in an investigation of its chat,
\* in that of its thread, and in a new one only if it may open one.
LEMMA Placed ==
  ASSUME TablesInvariant, NEW m \in 1 .. Len(posted), NEW forced \in {0} \cup Cases,
         forced # 0 => posted[m].chat = "web",
         Plan(m, forced) = "accepted",
         NEW found, found = Found(m, forced)
  PROVE  /\ found \in {0} \cup Cases
         /\ found # 0 /\ posted[m].chat # "web"
              => investigations[found].chat = posted[m].chat
         /\ found = 0 /\ RequireMention /\ receiver = "adapter" /\ posted[m].chat \in GroupChats
              => posted[m].mention = "bot" /\ botKnown
         /\ posted[m].root # 0 /\ posted[m].code = 0
              => \A i \in Cases : investigations[i].root = posted[m].root => found = i
<1> USE DEF TablesInvariant, Found
<1>1. /\ posted[m] \in Message /\ Len(posted) \in Nat /\ Len(investigations) \in Nat
      /\ Len(runs) \in Nat /\ m \in Messages
  BY TableFacts
<1>2. found \in {0} \cup Cases BY CaseOfFinds
<1>3. ASSUME found # 0, posted[m].chat # "web"
      PROVE  investigations[found].chat = posted[m].chat
  <2>1. /\ forced = 0 /\ found = CaseOf(m) /\ ~ForeignCode(m)
        /\ found \in ByCode(m) \cup ByRoot(m) \cup ByTopic(m) \cup ByParent(m)
    BY <1>3, CaseOfFinds DEF Plan
  <2>2. CASE found \in ByCode(m)
    <3>1. found = posted[m].code BY <2>2 DEF ByCode
    <3> QED BY <1>3, <2>1, <3>1 DEF ForeignCode
  <2>3. CASE found \in ByRoot(m) \cup ByTopic(m)
    BY <2>3 DEF ByRoot, ByTopic, InChat
  <2>4. CASE found \in ByParent(m)
    <3> DEFINE q == posted[m].parent
    <3>1. PICK n \in 1 .. Len(runs) : runs[n].message = q /\ runs[n].investigation = found
      BY <2>4, TableFacts DEF ByParent, RunOf
    <3>2. runs[n] \in Run /\ runs[n] \in ToSet(runs) BY TableFacts
    <3>3. q \in Messages /\ q # 0 /\ q # BotAnswer
      BY <3>1, <3>2 DEF Run, Messages, BotAnswer
    <3>4. q \in {posted[m].thread, posted[m].root, posted[m].parent} \ {0, BotAnswer}
      BY <3>3
    <3>5. posted[q].chat = posted[m].chat BY <3>4 DEF PostedInOrder
    <3> QED BY <1>3, <3>1, <3>2, <3>5 DEF StaysInChat
  <2> QED BY <2>1, <2>2, <2>3, <2>4
<1>4. ASSUME found = 0, RequireMention, receiver = "adapter", posted[m].chat \in GroupChats
      PROVE  posted[m].mention = "bot" /\ botKnown
  <2>1. forced = 0 /\ CaseOf(m) = 0 BY <1>4
  <2>2. NeedsMention(m) BY <1>4, <2>1 DEF NeedsMention
  <2>3. IsBotMentioned(m) BY <2>1, <2>2 DEF Plan
  <2> QED BY <1>4, <2>3 DEF IsBotMentioned, AdapterSeesBot
<1>5. ASSUME posted[m].root # 0, posted[m].code = 0,
             NEW i \in Cases, investigations[i].root = posted[m].root
      PROVE  found = i
  <2> DEFINE q == posted[m].root
  <2>1. q < m /\ q # BotAnswer /\ q \in {posted[m].thread, posted[m].root, posted[m].parent}
    <3>1. q < m BY DEF PostedInOrder
    <3>2. m < BotAnswer /\ q \in Nat BY <1>1 DEF Messages, BotAnswer, Message
    <3> QED BY <1>1, <3>1, <3>2
  <2>2. posted[q].chat = posted[m].chat /\ posted[m].chat # "web"
    <3>1. q \in {posted[m].thread, posted[m].root, posted[m].parent} \ {0, BotAnswer}
      BY <1>5, <2>1
    <3> QED BY <3>1 DEF PostedInOrder
  <2>3. investigations[i].chat = posted[m].chat BY <1>5, <2>2 DEF Rooted
  <2>4. i \in ByRoot(m) BY <1>5, <2>3 DEF ByRoot, InChat
  <2>5. ByCode(m) = {} BY <1>1, <1>5 DEF ByCode, Cases
  <2>6. found \in ByRoot(m) BY <2>2, <2>4, <2>5, CaseOfFinds
  <2>7. found \in Cases /\ investigations[found].root = posted[m].root
    BY <2>6 DEF ByRoot, InChat
  <2> QED BY <1>5, <2>7, RootsDiffer
<1> QED BY <1>2, <1>3, <1>4, <1>5

-----------------------------------------------------------------------------
(* acceptInbound keeps the tables in order.                                *)

\* What an accepted message adds: a round at the end, of the investigation found or
\* of a new one at the end.
Added(m, found, case) ==
  /\ case \in Messages /\ case \in 1 .. Len(investigations')
  /\ investigations' \in Seq(Investigation)
  /\ Len(investigations') = IF found # 0 THEN Len(investigations) ELSE case
  /\ \A i \in Cases : investigations'[i] = investigations[i]
  /\ found = 0 => investigations'[case] =
       [chat |-> posted[m].chat, root |-> m, topic |-> TopicOf(m)]
  /\ runs' \in Seq(Run) /\ Len(runs') = Len(runs) + 1
  /\ \A n \in 1 .. Len(runs) : runs'[n] = runs[n]
  /\ runs'[Len(runs) + 1].message = m
  /\ runs'[Len(runs) + 1].investigation = case
  /\ runs'[Len(runs) + 1].round =
       1 + Cardinality({k \in 1 .. Len(runs) : runs[k].investigation = case})

\* That is what Accept does.
LEMMA AcceptAdds ==
  ASSUME TablesInvariant, NEW m \in 1 .. Len(posted), inbound[m] = "none",
         NEW forced \in {0} \cup Cases,
         NEW found, found = Found(m, forced),
         found \in {0} \cup Cases,
         NEW case, case = Target(m, forced),
         Accept(m, forced)
  PROVE  Added(m, found, case)
<1> USE DEF TablesInvariant
<1>11. case = IF found # 0 THEN found ELSE Len(investigations) + 1
  BY DEF Target
<1>1. /\ posted[m] \in Message /\ Len(posted) \in Nat /\ Len(investigations) \in Nat
      /\ Len(runs) \in Nat /\ m \in Messages /\ MaxMessages \in Nat
      /\ investigations \in Seq(Investigation) /\ runs \in Seq(Run)
  BY TableFacts DEF TablesType
<1>2. Len(runs) + 1 <= MaxMessages /\ Len(investigations) + 1 <= MaxMessages
  BY <1>1, RoomForOne
<1>3. case \in Messages /\ case \in Nat BY <1>1, <1>2, <1>11 DEF Cases, Messages
<1> DEFINE root == [chat |-> posted[m].chat, root |-> m, topic |-> TopicOf(m)]
           run == [message |-> m, investigation |-> case, round |-> NextRound(case, m)]
<1>4. root \in Investigation
  <2>1. posted[m].chat \in Chats \cup {"web"} /\ posted[m].thread \in 0 .. MaxMessages
    BY <1>1 DEF Message
  <2>2. TopicOf(m) \in 0 .. MaxMessages BY <1>1, <2>1 DEF TopicOf, Thread, Messages
  <2> QED BY <1>1, <2>1, <2>2 DEF Investigation
<1>5. /\ NextRound(case, m) =
           1 + Cardinality({k \in 1 .. Len(runs) : runs[k].investigation = case})
      /\ NextRound(case, m) \in 1 .. Len(runs) + 1
  BY <1>3, NextRoundCounts
<1>6. run \in Run BY <1>1, <1>2, <1>3, <1>5 DEF Run, Messages
<1>7. /\ investigations' = IF found # 0 THEN investigations ELSE Append(investigations, root)
      /\ runs' = Append(runs, run)
  BY <1>11 DEF Accept, Found
<1> HIDE DEF root, run
<1>8. /\ runs' \in Seq(Run) /\ Len(runs') = Len(runs) + 1
      /\ \A n \in 1 .. Len(runs) : runs'[n] = runs[n]
      /\ runs'[Len(runs) + 1] = run
  BY <1>1, <1>6, <1>7, AppendProperties
<1>9. CASE found = 0
  <2>1. /\ investigations' \in Seq(Investigation)
        /\ Len(investigations') = Len(investigations) + 1
        /\ \A i \in 1 .. Len(investigations) : investigations'[i] = investigations[i]
        /\ investigations'[Len(investigations) + 1] = root
    BY <1>1, <1>4, <1>7, <1>9, AppendProperties
  <2>2. case = Len(investigations) + 1 BY <1>9, <1>11
  <2> QED BY <1>1, <1>3, <1>5, <1>8, <1>9, <2>1, <2>2 DEF root, run, Cases, Added
<1>10. CASE found # 0
  <2>1. investigations' = investigations /\ case = found BY <1>7, <1>10, <1>11
  <2>2. case \in Cases BY <1>10, <2>1
  <2> QED BY <1>1, <1>3, <1>5, <1>8, <1>10, <2>1, <2>2 DEF root, run, Cases, Added
<1> QED BY <1>9, <1>10

\* A message that is not accepted changes at most its own status.
LEMMA RefusedKeepsTables ==
  ASSUME TablesInvariant, NEW m \in 1 .. Len(posted), inbound[m] = "none",
         NEW status \in {"processed", "ignored"},
         inbound' = [inbound EXCEPT ![m] = status],
         UNCHANGED <<platformVars, investigations, runs>>
  PROVE  TablesInvariant'
<1> USE DEF TablesInvariant
<1>1. /\ investigations' = investigations /\ runs' = runs /\ posted' = posted
      /\ receiver' = receiver /\ botKnown' = botKnown
  BY DEF platformVars
<1>2. PlatformType' /\ TablesType'
  BY <1>1 DEF PlatformType, TablesType
<1>3. PostedInOrder' BY <1>1 DEF PostedInOrder
<1>4. Rooted'
  <2>1. \A n \in 1 .. Len(runs) : inbound'[runs[n].message] = "processed"
    <3>1. \A n \in 1 .. Len(runs) : runs[n].message \in Messages /\ runs[n].message # m
      BY TableFacts DEF Rooted, Run
    <3> QED BY <3>1 DEF Rooted, TablesType
  <2> QED BY <1>1, <2>1 DEF Rooted, Cases
<1>5. AcceptedOnce' /\ StaysInChat' /\ RoundsAreDense'
  BY <1>1 DEF AcceptedOnce, StaysInChat, RoundsAreDense
<1>6. ThreadKeepsCase' /\ OpenedByMention'
  BY <1>1 DEF ThreadKeepsCase, OpenedByMention, Cases
<1> QED BY <1>2, <1>3, <1>4, <1>5, <1>6

\* A message that is accepted becomes a round in its place.
LEMMA AcceptedKeepsTables ==
  ASSUME TablesInvariant, NEW m \in 1 .. Len(posted), inbound[m] = "none",
         NEW forced \in {0} \cup Cases,
         forced # 0 => posted[m].chat = "web",
         Plan(m, forced) = "accepted", Accept(m, forced),
         inbound' = [inbound EXCEPT ![m] = "processed"],
         UNCHANGED platformVars
  PROVE  TablesInvariant'
<1>21. PICK found : found = Found(m, forced) OBVIOUS
<1>22. PICK case : case = Target(m, forced) OBVIOUS
<1>24. case = IF found # 0 THEN found ELSE Len(investigations) + 1
  BY <1>21, <1>22 DEF Target
<1>23. PICK last : last = Len(runs) + 1 OBVIOUS
<1>1. /\ posted' = posted /\ receiver' = receiver /\ botKnown' = botKnown
  BY DEF platformVars
<1>2. /\ posted[m] \in Message /\ Len(posted) \in Nat /\ Len(investigations) \in Nat
      /\ Len(runs) \in Nat /\ m \in Messages
      /\ \A n \in 1 .. Len(runs) : runs[n] \in Run
      /\ \A i \in Cases : investigations[i] \in Investigation
  BY TableFacts DEF TablesInvariant
<1>3. /\ found \in {0} \cup Cases
      /\ found # 0 /\ posted[m].chat # "web"
           => investigations[found].chat = posted[m].chat
      /\ found = 0 /\ RequireMention /\ receiver = "adapter" /\ posted[m].chat \in GroupChats
           => posted[m].mention = "bot" /\ botKnown
      /\ posted[m].root # 0 /\ posted[m].code = 0
           => \A i \in Cases : investigations[i].root = posted[m].root => found = i
  BY <1>21, Placed
<1>4. /\ case \in Messages /\ case \in 1 .. Len(investigations')
      /\ investigations' \in Seq(Investigation)
      /\ Len(investigations') = IF found # 0 THEN Len(investigations) ELSE case
      /\ \A i \in Cases : investigations'[i] = investigations[i]
      /\ found = 0 => investigations'[case] =
           [chat |-> posted[m].chat, root |-> m, topic |-> TopicOf(m)]
      /\ runs' \in Seq(Run) /\ Len(runs') = last
      /\ \A n \in 1 .. Len(runs) : runs'[n] = runs[n]
      /\ runs'[last].message = m /\ runs'[last].investigation = case
      /\ runs'[last].round =
           1 + Cardinality({k \in 1 .. Len(runs) : runs[k].investigation = case})
  <2>1. found \in {0} \cup Cases BY <1>3
  <2>2. Added(m, found, case) BY <2>1, <1>21, <1>22, AcceptAdds
  <2> QED BY <1>23, <2>2 DEF Added
<1> USE DEF TablesInvariant
<1>5. /\ found # 0 => case = found /\ case \in Cases
      /\ found = 0 => case = Len(investigations) + 1
      /\ Cases' = IF found # 0 THEN Cases ELSE Cases \cup {case}
      /\ Len(investigations) <= Len(investigations')
      /\ case \in Nat /\ Len(investigations') \in Nat /\ last \in Nat
      /\ last = Len(runs) + 1
  <2>1. found \in Nat BY <1>2, <1>3 DEF Cases
  <2>2. case \in Nat /\ last \in Nat /\ last = Len(runs) + 1
    BY <1>2, <1>24, <1>23, <2>1
  <2>3. found # 0 => case = found /\ case \in Cases BY <1>3, <1>24
  <2>4. found = 0 => case = Len(investigations) + 1 BY <1>24
  <2>5. Cases' = 1 .. Len(investigations') BY DEF Cases
  <2>6. CASE found # 0 BY <1>2, <1>4, <2>2, <2>3, <2>5, <2>6 DEF Cases
  <2>7. CASE found = 0 BY <1>2, <1>4, <2>2, <2>4, <2>5, <2>7 DEF Cases
  <2> QED BY <2>6, <2>7
<1>20. \A n \in 1 .. Len(runs') : n \in 1 .. Len(runs) \/ n = last
  BY <1>2, <1>4, <1>5
<1>6. PlatformType' /\ TablesType'
  BY <1>1, <1>2, <1>4 DEF PlatformType, TablesType
<1>7. PostedInOrder'
  <2>1. \A k \in 1 .. Len(posted) : posted[k].code \in Nat
    BY TableFacts DEF Message
  <2> QED BY <1>1, <1>2, <1>5, <2>1 DEF PostedInOrder
<1>8. \A n \in 1 .. Len(runs) : runs[n].message \in Messages /\ runs[n].message # m
  BY <1>2 DEF Rooted, Run
<1>9. Rooted'
  <2>1. inbound'[m] = "processed"
        /\ \A n \in 1 .. Len(runs) : inbound'[runs[n].message] = "processed"
    BY <1>2, <1>8 DEF Rooted, TablesType
  <2>2. \A n \in 1 .. Len(runs') :
           /\ runs'[n].message <= Len(posted) /\ inbound'[runs'[n].message] = "processed"
           /\ runs'[n].investigation <= Len(investigations')
    <3> SUFFICES ASSUME NEW n \in 1 .. Len(runs')
                 PROVE  /\ runs'[n].message <= Len(posted)
                        /\ inbound'[runs'[n].message] = "processed"
                        /\ runs'[n].investigation <= Len(investigations')
      OBVIOUS
    <3>1. CASE n \in 1 .. Len(runs)
      <4>1. runs'[n] = runs[n] /\ runs[n].investigation \in Nat
        <5>1. runs[n] \in Run BY <1>2, <3>1
        <5> QED BY <1>4, <3>1, <5>1 DEF Run, Messages
      <4> QED BY <1>2, <1>5, <2>1, <3>1, <4>1 DEF Rooted
    <3>2. CASE n = last BY <1>2, <1>4, <2>1, <3>2
    <3> QED BY <1>20, <3>1, <3>2
  <2>3. ASSUME NEW i \in Cases'
        PROVE  /\ \E n \in 1 .. Len(runs') :
                    /\ runs'[n].message = investigations'[i].root
                    /\ runs'[n].investigation = i
               /\ investigations'[i].chat = posted[investigations'[i].root].chat
    <3>1. CASE i \in Cases
      <4>1. PICK n \in 1 .. Len(runs) :
              runs[n].message = investigations[i].root /\ runs[n].investigation = i
        BY <3>1 DEF Rooted
      <4>2. n \in 1 .. Len(runs') BY <1>2, <1>4, <1>5
      <4>3. investigations[i].chat = posted[investigations[i].root].chat
        BY <3>1 DEF Rooted
      <4> QED BY <1>4, <3>1, <4>1, <4>2, <4>3
    <3>2. CASE i \notin Cases
      <4>1. found = 0 /\ i = case BY <1>5, <2>3, <3>2
      <4>2. last \in 1 .. Len(runs') BY <1>2, <1>4, <1>5
      <4> QED BY <1>4, <4>1, <4>2
    <3> QED BY <3>1, <3>2
  <2> QED BY <1>1, <2>2, <2>3 DEF Rooted
<1>10. AcceptedOnce'
  <2> SUFFICES ASSUME NEW i \in 1 .. Len(runs'), NEW j \in 1 .. Len(runs'),
                      runs'[i].message = runs'[j].message
               PROVE  i = j
    BY DEF AcceptedOnce
  <2>1. CASE i \in 1 .. Len(runs) /\ j \in 1 .. Len(runs)
    BY <1>4, <2>1 DEF AcceptedOnce
  <2>2. CASE ~(i \in 1 .. Len(runs) /\ j \in 1 .. Len(runs))
    BY <1>4, <1>8, <1>20, <2>2
  <2> QED BY <2>1, <2>2
<1>11. StaysInChat'
  <2>1. ToSet(runs') = {runs'[n] : n \in 1 .. Len(runs')}
    <3>1. DOMAIN runs' = 1 .. Len(runs') BY <1>4, LenProperties
    <3> QED BY <3>1 DEF ToSet
  <2> SUFFICES ASSUME NEW n \in 1 .. Len(runs'), posted[runs'[n].message].chat # "web"
               PROVE  investigations'[runs'[n].investigation].chat
                        = posted[runs'[n].message].chat
    BY <1>1, <2>1 DEF StaysInChat
  <2>2. CASE n \in 1 .. Len(runs)
    <3>1. runs[n] \in ToSet(runs) /\ runs[n].investigation \in Cases
      BY <1>2, <2>2, TableFacts DEF Rooted, Run, Messages, Cases
    <3> QED BY <1>4, <2>2, <3>1 DEF StaysInChat
  <2>3. CASE n = last BY <1>3, <1>4, <1>5, <2>3
  <2> QED BY <1>20, <2>2, <2>3
<1>12. RoundsAreDense'
  <2> SUFFICES ASSUME NEW n \in 1 .. Len(runs')
               PROVE  runs'[n].round = Cardinality(
                        {k \in 1 .. n : runs'[k].investigation = runs'[n].investigation})
    BY DEF RoundsAreDense
  <2>1. CASE n \in 1 .. Len(runs)
    <3>1. {k \in 1 .. n : runs'[k].investigation = runs'[n].investigation}
            = {k \in 1 .. n : runs[k].investigation = runs[n].investigation}
      <4>1. \A k \in 1 .. n : k \in 1 .. Len(runs) BY <1>2, <2>1
      <4>2. runs'[n] = runs[n] /\ \A k \in 1 .. n : runs'[k] = runs[k]
        BY <1>4, <2>1, <4>1
      <4> QED BY <4>2
    <3> QED BY <1>4, <2>1, <3>1 DEF RoundsAreDense
  <2>2. CASE n = last
    <3> DEFINE P == {k \in 1 .. Len(runs) : runs[k].investigation = case}
    <3>1. {k \in 1 .. n : runs'[k].investigation = runs'[n].investigation} = P \cup {last}
      BY <1>2, <1>4, <1>5, <2>2
    <3>2. last \notin P BY <1>2, <1>5
    <3>3. IsFiniteSet(P) /\ Cardinality(P) \in Nat
      <4>1. IsFiniteSet(1 .. Len(runs)) BY <1>2, FS_Interval
      <4>2. P \in SUBSET (1 .. Len(runs)) OBVIOUS
      <4> HIDE DEF P
      <4> QED BY <4>1, <4>2, FS_Subset, FS_CardinalityType
    <3>4. runs'[n].round = 1 + Cardinality(P) BY <1>4, <2>2
    <3> HIDE DEF P
    <3>5. Cardinality(P \cup {last}) = Cardinality(P) + 1
      BY <3>2, <3>3, FS_AddElement
    <3>6. Cardinality({k \in 1 .. n : runs'[k].investigation = runs'[n].investigation})
            = Cardinality(P) + 1
      BY <3>1, <3>5
    <3> QED BY <3>3, <3>4, <3>6
  <2> QED BY <1>20, <2>1, <2>2
<1>13. ThreadKeepsCase'
  <2> SUFFICES ASSUME NEW i \in 1 .. Len(runs'), NEW j \in 1 .. Len(runs'), i < j,
                      investigations'[runs'[i].investigation].root = runs'[i].message,
                      posted[runs'[j].message].root = runs'[i].message,
                      posted[runs'[j].message].code = 0
               PROVE  runs'[j].investigation = runs'[i].investigation
    BY <1>1 DEF ThreadKeepsCase
  <2>1. i \in 1 .. Len(runs) BY <1>2, <1>4, <1>5, <1>20
  <2>2. /\ runs'[i] = runs[i] /\ runs[i].investigation \in Cases
        /\ runs[i].message \in Messages
    <3>1. runs'[i] = runs[i] BY <1>4, <2>1
    <3>2. runs[i].message \in Messages /\ runs[i].investigation \in Messages
      BY <1>2, <2>1 DEF Run
    <3>3. runs[i].investigation <= Len(investigations) BY <2>1 DEF Rooted
    <3> QED BY <1>2, <3>1, <3>2, <3>3 DEF Messages, Cases
  <2>3. investigations[runs[i].investigation].root = runs[i].message
    BY <1>4, <2>2
  <2>4. CASE j \in 1 .. Len(runs)
    BY <1>4, <2>1, <2>2, <2>3, <2>4 DEF ThreadKeepsCase
  <2>5. CASE j = last
    <3>1. posted[m].root = runs[i].message /\ posted[m].code = 0 /\ runs[i].message # 0
      BY <1>4, <2>2, <2>5 DEF Messages
    <3>2. found = runs[i].investigation BY <1>3, <2>2, <2>3, <3>1
    <3>3. found # 0 BY <1>2, <2>2, <3>2 DEF Cases
    <3> QED BY <1>4, <1>5, <2>2, <2>5, <3>2, <3>3
  <2> QED BY <1>20, <2>4, <2>5
<1>14. OpenedByMention'
  <2> SUFFICES ASSUME NEW i \in Cases', RequireMention, receiver = "adapter",
                      investigations'[i].chat \in GroupChats
               PROVE  posted[investigations'[i].root].mention = "bot" /\ botKnown
    BY <1>1 DEF OpenedByMention
  <2>1. CASE i \in Cases BY <1>4, <2>1 DEF OpenedByMention
  <2>2. CASE i \notin Cases
    <3>1. found = 0 /\ i = case BY <1>5, <2>2
    <3> QED BY <1>3, <1>4, <3>1
  <2> QED BY <2>1, <2>2
<1> QED BY <1>6, <1>7, <1>9, <1>10, <1>11, <1>12, <1>13, <1>14

\* What leaves the platform and the tables alone keeps their invariant.
LEMMA UntouchedTables ==
  ASSUME TablesInvariant, UNCHANGED <<platformVars, inbound, investigations, runs>>
  PROVE  TablesInvariant'
<1>1. /\ UNCHANGED platformVars /\ UNCHANGED <<inbound, investigations, runs>>
      /\ PlatformType /\ TablesType /\ PostedInOrder /\ Rooted /\ AcceptedOnce
      /\ StaysInChat /\ RoundsAreDense /\ ThreadKeepsCase /\ OpenedByMention
  BY DEF TablesInvariant
<1>2. PlatformType' /\ TablesType' BY <1>1 DEF platformVars, PlatformType, TablesType
<1>3. PostedInOrder' /\ Rooted'
  BY <1>1 DEF platformVars, PostedInOrder, Rooted, Cases
<1>4. AcceptedOnce' /\ RoundsAreDense' BY <1>1 DEF AcceptedOnce, RoundsAreDense
<1>5. StaysInChat' BY <1>1 DEF platformVars, StaysInChat
<1>6. ThreadKeepsCase' BY <1>1 DEF platformVars, ThreadKeepsCase
<1>7. OpenedByMention' BY <1>1 DEF platformVars, OpenedByMention, Cases
<1> QED BY <1>2, <1>3, <1>4, <1>5, <1>6, <1>7 DEF TablesInvariant

\* acceptInbound keeps the tables in order, whatever it decides.
LEMMA AcceptInboundKeepsTables ==
  ASSUME TablesInvariant, NEW m \in 1 .. Len(posted), NEW forced \in {0} \cup Cases,
         forced # 0 => posted[m].chat = "web",
         AcceptInbound(m, forced), UNCHANGED platformVars
  PROVE  TablesInvariant'
<1>1. m \in Messages /\ inbound \in [Messages -> {"none", "processed", "ignored"}]
  BY TableFacts DEF TablesInvariant, TablesType
<1>2. Decision(m, forced) = IF inbound[m] # "none" THEN "duplicate" ELSE Plan(m, forced)
  BY DEF Decision
<1>3. Plan(m, forced) \in {"unroutable", "mechanical", "accepted"} BY DEF Plan
<1>4. CASE inbound[m] # "none"
  <2>1. UNCHANGED <<platformVars, inbound, investigations, runs>>
    BY <1>1, <1>2, <1>4 DEF AcceptInbound
  <2> QED BY <2>1, UntouchedTables
<1>5. CASE inbound[m] = "none" /\ Plan(m, forced) = "accepted"
  <2>1. Accept(m, forced) /\ inbound' = [inbound EXCEPT ![m] = "processed"]
    BY <1>2, <1>5 DEF AcceptInbound
  <2> QED BY <1>5, <2>1, AcceptedKeepsTables
<1>6. CASE inbound[m] = "none" /\ Plan(m, forced) # "accepted"
  <2> DEFINE status == IF Plan(m, forced) = "unroutable" THEN "ignored" ELSE "processed"
  <2>1. /\ status \in {"processed", "ignored"} /\ inbound' = [inbound EXCEPT ![m] = status]
        /\ UNCHANGED <<investigations, runs>>
    BY <1>2, <1>3, <1>6 DEF AcceptInbound
  <2> HIDE DEF status
  <2> QED BY <1>6, <2>1, RefusedKeepsTables
<1> QED BY <1>4, <1>5, <1>6

\* A new message refers to what is there.
LEMMA PostKeepsTables ==
  ASSUME TablesInvariant, NEW draft, Post(draft),
         draft \in Openings \/ \E m \in 1 .. Len(posted) : draft \in Answers(m)
  PROVE  TablesInvariant' /\ Len(posted') = Len(posted) + 1
<1> USE DEF TablesInvariant
<1>1. /\ receiver' = receiver /\ botKnown' = botKnown /\ inbound' = inbound
      /\ investigations' = investigations /\ runs' = runs
      /\ posted' = Append(posted, draft) /\ Len(posted) + 1 <= MaxMessages
  BY TableFacts DEF Post, tables, Messages
<1>2. /\ Len(posted) \in Nat /\ Len(investigations) \in Nat /\ Len(runs) \in Nat
      /\ \A k \in 1 .. Len(posted) : posted[k] \in Message
      /\ \A n \in 1 .. Len(runs) : runs[n] \in Run
      /\ posted \in Seq(Message) /\ MaxMessages \in Nat
  BY TableFacts DEF PlatformType
<1>3. \A i \in Cases : i \in 1 .. MaxMessages
  <2> SUFFICES ASSUME NEW i \in Cases PROVE i \in Messages BY DEF Messages
  <2>1. PICK n \in 1 .. Len(runs) : runs[n].investigation = i BY DEF Rooted
  <2> QED BY <1>2, <2>1 DEF Run
<1>4. /\ draft \in Message
      /\ draft.thread <= Len(posted) /\ draft.root <= Len(posted)
      /\ draft.parent <= Len(posted) \/ draft.parent = BotAnswer
      /\ \A q \in {draft.thread, draft.root, draft.parent} \ {0, BotAnswer} :
           q <= Len(posted) /\ posted[q].chat = draft.chat /\ draft.chat # "web"
      /\ draft.code <= Len(investigations)
  <2>1. CASE draft \in Openings
    <3>1. /\ draft.thread = 0 /\ draft.root = 0 /\ draft.parent = 0
          /\ draft.code \in {0} \cup Cases
      BY <2>1 DEF Openings
    <3>2. draft \in Message
      BY <1>2, <1>3, <2>1 DEF Openings, Message, BotAnswer
    <3>3. draft.code <= Len(investigations) BY <1>2, <3>1 DEF Cases
    <3> QED BY <1>2, <3>1, <3>2, <3>3
  <2>2. ASSUME NEW m \in 1 .. Len(posted), draft \in Answers(m)
        PROVE  /\ draft \in Message
               /\ draft.thread <= Len(posted) /\ draft.root <= Len(posted)
               /\ draft.parent <= Len(posted) \/ draft.parent = BotAnswer
               /\ \A q \in {draft.thread, draft.root, draft.parent} \ {0, BotAnswer} :
                    q <= Len(posted) /\ posted[q].chat = draft.chat /\ draft.chat # "web"
               /\ draft.code <= Len(investigations)
    <3>1. posted[m] \in Message /\ m \in Nat /\ m <= Len(posted) /\ m <= MaxMessages
      BY <1>1, <1>2
    <3>2. /\ Thread(m) \in 1 .. Len(posted) /\ posted[Thread(m)].chat = posted[m].chat
      <4>1. CASE posted[m].thread = 0 BY <3>1, <4>1 DEF Thread
      <4>2. CASE posted[m].thread # 0
        <5>1. posted[m].thread \in Nat /\ posted[m].thread < m
          BY <3>1 DEF Message, PostedInOrder
        <5>2. posted[m].thread # BotAnswer BY <1>1, <3>1, <5>1 DEF BotAnswer
        <5>3. posted[posted[m].thread].chat = posted[m].chat
          BY <4>2, <5>2 DEF PostedInOrder
        <5> QED BY <3>1, <4>2, <5>1, <5>3 DEF Thread
      <4> QED BY <4>1, <4>2
    <3>3. /\ draft.chat = posted[m].chat /\ draft.chat # "web"
          /\ draft.thread = Thread(m) /\ draft.root \in {0, Thread(m)}
          /\ draft.parent \in {m, BotAnswer} /\ draft.code \in {0} \cup Cases
      BY <2>2 DEF Answers
    <3>4. draft.code <= Len(investigations) /\ draft.code \in 0 .. MaxMessages
      BY <1>2, <1>3, <3>3 DEF Cases
    <3>5. draft \in Message
      <4>1. /\ posted[m].chat \in Chats \cup {"web"} /\ Thread(m) \in 0 .. MaxMessages
            /\ m \in 0 .. BotAnswer /\ BotAnswer \in 0 .. BotAnswer
        <5>1. posted[m].chat \in Chats \cup {"web"} BY <3>1 DEF Message
        <5>2. Thread(m) \in 0 .. MaxMessages BY <1>1, <1>2, <3>2
        <5>3. m \in 0 .. BotAnswer /\ BotAnswer \in 0 .. BotAnswer
          BY <1>2, <3>1 DEF BotAnswer
        <5> QED BY <5>1, <5>2, <5>3
      <4>2. \A i \in Cases : i \in 0 .. MaxMessages BY <1>3
      <4> QED BY <2>2, <4>1, <4>2 DEF Answers, Message
    <3> QED BY <1>2, <3>1, <3>2, <3>3, <3>4, <3>5
  <2> QED BY <2>1, <2>2
<1>5. /\ posted' \in Seq(Message) /\ Len(posted') = Len(posted) + 1
      /\ \A k \in 1 .. Len(posted) : posted'[k] = posted[k]
      /\ posted'[Len(posted) + 1] = draft
  BY <1>1, <1>2, <1>4, AppendProperties
<1>6. PlatformType' /\ TablesType' BY <1>1, <1>2, <1>5 DEF PlatformType, TablesType
<1>7. PostedInOrder'
  <2> SUFFICES ASSUME NEW k \in 1 .. Len(posted')
               PROVE  LET p == posted'[k] IN
                      /\ p.thread < k /\ p.root < k /\ (p.parent < k \/ p.parent = BotAnswer)
                      /\ \A q \in {p.thread, p.root, p.parent} \ {0, BotAnswer} :
                           posted'[q].chat = p.chat /\ p.chat # "web"
                      /\ p.code <= Len(investigations)
    BY <1>1 DEF PostedInOrder
  <2>1. CASE k \in 1 .. Len(posted)
    <3>1. posted'[k] = posted[k] /\ posted[k] \in Message BY <1>2, <1>5, <2>1
    <3>2. \A q \in {posted[k].thread, posted[k].root, posted[k].parent} \ {0, BotAnswer} :
             q \in 1 .. Len(posted)
      <4>1. /\ posted[k].thread \in Nat /\ posted[k].root \in Nat
            /\ posted[k].parent \in Nat
        BY <3>1 DEF Message
      <4>2. /\ posted[k].thread < k /\ posted[k].root < k
            /\ posted[k].parent < k \/ posted[k].parent = BotAnswer
        BY <2>1 DEF PostedInOrder
      <4> QED BY <1>2, <2>1, <4>1, <4>2
    <3> QED BY <1>5, <2>1, <3>1, <3>2 DEF PostedInOrder
  <2>2. CASE k = Len(posted) + 1
    <3>1. draft.thread \in Nat /\ draft.root \in Nat /\ draft.parent \in Nat
      BY <1>4 DEF Message
    <3>2. \A q \in {draft.thread, draft.root, draft.parent} \ {0, BotAnswer} :
             q \in 1 .. Len(posted)
      BY <1>2, <1>4, <3>1
    <3> QED BY <1>2, <1>4, <1>5, <2>2, <3>1, <3>2
  <2> QED BY <1>2, <1>5, <2>1, <2>2
<1>8. /\ \A n \in 1 .. Len(runs) : runs[n].message \in 1 .. Len(posted)
      /\ \A i \in Cases : investigations[i].root \in 1 .. Len(posted)
  BY <1>2 DEF Rooted, Run, Messages
<1>9. Rooted' BY <1>1, <1>2, <1>5, <1>8 DEF Rooted, Cases
<1>10. AcceptedOnce' /\ RoundsAreDense' BY <1>1 DEF AcceptedOnce, RoundsAreDense
<1>11. StaysInChat'
  <2>1. \A r \in ToSet(runs) : posted'[r.message] = posted[r.message]
    BY <1>5, <1>8, TableFacts
  <2> QED BY <1>1, <2>1 DEF StaysInChat
<1>12. ThreadKeepsCase' BY <1>1, <1>5, <1>8 DEF ThreadKeepsCase
<1>13. OpenedByMention' BY <1>1, <1>5, <1>8 DEF OpenedByMention, Cases
<1> QED BY <1>5, <1>6, <1>7, <1>9, <1>10, <1>11, <1>12, <1>13

-----------------------------------------------------------------------------
(* The copies.                                                             *)

Acknowledged(m) == {c \in Copies : stage[m][c] = "acknowledged"}
StageName == {"none", "held", "gated", "failed", "acknowledged"} \cup Decisions

\* There are no more copies acknowledged than copies, and one more when one is.
LEMMA AcknowledgedCounts ==
  ASSUME StagesType, NEW m \in Messages, NEW c \in Copies, NEW s \in StageName,
         stage[m][c] # "acknowledged", stage' = [stage EXCEPT ![m][c] = s]
  PROVE  /\ StageName = StageName' /\ stage' \in [Messages -> [Copies -> StageName]]
         /\ \A n \in Messages, d \in Copies :
              stage'[n][d] = IF n = m /\ d = c THEN s ELSE stage[n][d]
         /\ \A n \in Messages : Cardinality(Acknowledged(n)) \in Nat
         /\ \A n \in Messages : Cardinality(Acknowledged(n)') =
              IF n = m /\ s = "acknowledged" THEN Cardinality(Acknowledged(n)) + 1
                                             ELSE Cardinality(Acknowledged(n))
         /\ \A n \in Messages : Cardinality(Acknowledged(n)') <= MaxRepeats + 1
<1>1. /\ stage \in [Messages -> [Copies -> StageName]]
      /\ stage' \in [Messages -> [Copies -> StageName]]
      /\ \A n \in Messages, d \in Copies :
           stage'[n][d] = IF n = m /\ d = c THEN s ELSE stage[n][d]
  BY DEF StagesType, StageName
<1>2. MaxRepeats \in Nat OBVIOUS
<1>3. IsFiniteSet(Copies) /\ Cardinality(Copies) = MaxRepeats + 1
  <2>1. /\ IsFiniteSet(1 .. MaxRepeats + 1)
        /\ Cardinality(1 .. MaxRepeats + 1) =
             IF 1 > MaxRepeats + 1 THEN 0 ELSE MaxRepeats + 1 - 1 + 1
    BY <1>2, FS_Interval
  <2> QED BY <1>2, <2>1 DEF Copies
<1>4. ASSUME NEW n \in Messages
      PROVE  /\ Cardinality(Acknowledged(n)) \in Nat
             /\ Cardinality(Acknowledged(n)') =
                  IF n = m /\ s = "acknowledged" THEN Cardinality(Acknowledged(n)) + 1
                                                 ELSE Cardinality(Acknowledged(n))
             /\ Cardinality(Acknowledged(n)') <= MaxRepeats + 1
  <2>1. Acknowledged(n) \in SUBSET Copies BY DEF Acknowledged
  <2>2. IsFiniteSet(Acknowledged(n)) /\ Cardinality(Acknowledged(n)) \in Nat
    BY <1>3, <2>1, FS_Subset, FS_CardinalityType
  <2>3. Acknowledged(n)' \in SUBSET Copies BY DEF Acknowledged, Copies
  <2>4. Cardinality(Acknowledged(n)') <= MaxRepeats + 1
    BY <1>3, <2>3, FS_Subset
  <2>5. CASE n = m /\ s = "acknowledged"
    <3>1. Acknowledged(n)' = Acknowledged(n) \cup {c} /\ c \notin Acknowledged(n)
      BY <1>1, <2>5 DEF Acknowledged, Copies
    <3> QED BY <2>2, <2>4, <2>5, <3>1, FS_AddElement
  <2>6. CASE ~(n = m /\ s = "acknowledged")
    <3>1. Acknowledged(n)' = Acknowledged(n) BY <1>1, <2>6 DEF Acknowledged, Copies
    <3> QED BY <2>2, <2>4, <2>6, <3>1
  <2> QED BY <2>5, <2>6
<1>5. StageName' = StageName BY DEF StageName, Decisions
<1> QED BY <1>1, <1>4, <1>5

\* Copy c of message m goes on to s: what it is told is in the tables by then, and the
\* help is sent only by the one that was told to.
Moves(m, c, s) ==
  /\ stage[m][c] # "acknowledged" /\ stage' = [stage EXCEPT ![m][c] = s]
  /\ Len(posted) \in Nat /\ Len(posted') \in Nat
  /\ Len(posted) <= Len(posted') /\ m <= Len(posted')
  /\ receiver' = receiver
  /\ \A n \in Messages : inbound[n] # "none" => inbound'[n] # "none"
  /\ receiver = "adapter" /\ s \in Decisions \cup {"acknowledged"} => inbound'[m] # "none"
  /\ receiver = "adapter" /\ s = "mechanical" => inbound[m] = "none"
  /\ \/ helps' = helps
     \/ /\ helps' = [helps EXCEPT ![m] = @ + 1] /\ s = "acknowledged"
        /\ receiver = "adapter" => stage[m][c] = "mechanical"

LEMMA CopyMoves ==
  ASSUME CopiesInvariant, NEW m \in Messages, NEW c \in Copies, NEW s \in StageName,
         Moves(m, c, s)
  PROVE  CopiesInvariant'
<1> USE DEF CopiesInvariant, Moves
<1>1. /\ StageName = StageName' /\ stage' \in [Messages -> [Copies -> StageName]]
      /\ \A n \in Messages, d \in Copies :
           stage'[n][d] = IF n = m /\ d = c THEN s ELSE stage[n][d]
      /\ \A n \in Messages : Cardinality(Acknowledged(n)) \in Nat
      /\ \A n \in Messages : Cardinality(Acknowledged(n)') =
           IF n = m /\ s = "acknowledged" THEN Cardinality(Acknowledged(n)) + 1
                                          ELSE Cardinality(Acknowledged(n))
      /\ \A n \in Messages : Cardinality(Acknowledged(n)') <= MaxRepeats + 1
  BY AcknowledgedCounts
<1>2. Messages' = Messages /\ Copies' = Copies BY DEF Messages, Copies
<1>3. \A n \in Messages : helps[n] \in Nat BY DEF StagesType
<1>4. \A n \in Messages : helps[n] <= Cardinality(Acknowledged(n))
  BY DEF Helping, Acknowledged
<1>5. \A n \in Messages : helps'[n] \in Nat /\ helps'[n] <= Cardinality(Acknowledged(n)')
  BY <1>1, <1>3, <1>4 DEF StagesType
<1>6. StagesType'
  <2>1. \A n \in Messages : helps'[n] \in 0 .. MaxRepeats + 1
    BY <1>1, <1>5 DEF StagesType
  <2>2. DOMAIN helps' = Messages /\ helps' = [n \in DOMAIN helps' |-> helps'[n]]
    BY DEF StagesType
  <2>3. helps' \in [Messages -> 0 .. MaxRepeats + 1] BY <2>1, <2>2
  <2> QED BY <1>1, <1>2, <2>3 DEF StagesType, StageName
<1>7. Reached'
  <2> SUFFICES ASSUME NEW n \in Messages, NEW d \in Copies
               PROVE  /\ stage'[n][d] # "none" => n <= Len(posted')
                      /\ receiver = "adapter" /\ stage'[n][d] \in Decisions \cup {"acknowledged"}
                           => inbound'[n] # "none"
    BY <1>2 DEF Reached, Decisions
  <2>1. CASE n = m /\ d = c BY <1>1, <2>1
  <2>2. CASE ~(n = m /\ d = c)
    <3>1. stage'[n][d] = stage[n][d] BY <1>1, <2>2
    <3>2. n \in Nat BY DEF Messages
    <3> QED BY <3>1, <3>2 DEF Reached
  <2> QED BY <2>1, <2>2
<1>8. Helping'
  <2> SUFFICES ASSUME NEW n \in Messages
               PROVE  /\ helps'[n] <= Cardinality(Acknowledged(n)')
                      /\ receiver = "adapter" =>
                           /\ helps'[n] <= 1 /\ (inbound'[n] = "none" => helps'[n] = 0)
                           /\ \A d, e \in Copies :
                                stage'[n][d] = "mechanical"
                                  => helps'[n] = 0 /\ (stage'[n][e] = "mechanical" => d = e)
    BY <1>2 DEF Helping, Acknowledged
  <2>1. CASE receiver # "adapter" BY <1>5, <2>1
  <2>2. CASE receiver = "adapter"
    <3>1. /\ helps[n] <= 1 /\ (inbound[n] = "none" => helps[n] = 0)
          /\ \A d, e \in Copies :
               stage[n][d] = "mechanical"
                 => helps[n] = 0 /\ (stage[n][e] = "mechanical" => d = e)
      BY <2>2 DEF Helping
    <3>2. s = "mechanical" => \A d \in Copies : stage[m][d] # "mechanical"
      BY <2>2 DEF Reached, Decisions
    <3>3. CASE n # m
      <4>1. helps'[n] = helps[n] /\ \A d \in Copies : stage'[n][d] = stage[n][d]
        BY <1>1, <3>3 DEF StagesType
      <4> QED BY <1>5, <3>1, <4>1
    <3>4. CASE n = m /\ helps' = helps
      <4>1. CASE s = "mechanical"
        BY <1>1, <1>5, <2>2, <3>1, <3>2, <3>4, <4>1
      <4>2. CASE s # "mechanical" BY <1>1, <1>5, <2>2, <3>1, <3>4, <4>2
      <4> QED BY <4>1, <4>2
    <3>5. CASE n = m /\ helps' # helps
      <4>1. /\ helps'[n] = helps[n] + 1 /\ s = "acknowledged" /\ stage[m][c] = "mechanical"
        BY <2>2, <3>5 DEF StagesType
      <4>2. helps[n] = 0 /\ \A d \in Copies : stage[m][d] = "mechanical" => d = c
        BY <3>1, <3>5, <4>1
      <4>3. \A d \in Copies : stage'[n][d] # "mechanical" BY <1>1, <3>5, <4>1, <4>2
      <4>4. inbound'[n] # "none" BY <2>2, <3>5, <4>1
      <4> QED BY <1>5, <4>1, <4>2, <4>3, <4>4
    <3> QED BY <3>3, <3>4, <3>5
  <2> QED BY <2>1, <2>2
<1> QED BY <1>6, <1>7, <1>8

\* What the tables gain and users post changes nothing for the copies.
LEMMA CopiesStay ==
  ASSUME CopiesInvariant, Len(posted) \in Nat, Len(posted') \in Nat,
         Len(posted) <= Len(posted'), receiver' = receiver,
         UNCHANGED <<stage, helps>>,
         \A n \in Messages : inbound[n] # "none" => inbound'[n] # "none"
  PROVE  CopiesInvariant'
<1>1. Messages' = Messages /\ Copies' = Copies BY DEF Messages, Copies
<1>2. StagesType' BY <1>1 DEF CopiesInvariant, StagesType
<1>3. Reached'
  <2>1. \A n \in Messages : n \in Nat BY DEF Messages
  <2> QED BY <1>1, <2>1 DEF CopiesInvariant, Reached
<1>4. Helping' BY <1>1 DEF CopiesInvariant, Helping
<1> QED BY <1>2, <1>3, <1>4 DEF CopiesInvariant

\* acceptInbound settles the message and forgets no other.
LEMMA AcceptInboundSettles ==
  ASSUME TablesInvariant, NEW m \in Messages, NEW forced, AcceptInbound(m, forced)
  PROVE  /\ \A n \in Messages : inbound[n] # "none" => inbound'[n] # "none"
         /\ inbound'[m] # "none"
         /\ Decision(m, forced) \in Decisions
         /\ Decision(m, forced) = "mechanical" => inbound[m] = "none"
<1>1. inbound \in [Messages -> {"none", "processed", "ignored"}]
  BY DEF TablesInvariant, TablesType
<1>2. Decision(m, forced) = IF inbound[m] # "none" THEN "duplicate" ELSE Plan(m, forced)
  BY DEF Decision
<1>3. Plan(m, forced) \in {"unroutable", "mechanical", "accepted"} BY DEF Plan
<1>4. \A n \in Messages : n # m => inbound'[n] = inbound[n]
  BY <1>1 DEF AcceptInbound
<1>5. inbound'[m] = IF Decision(m, forced) = "duplicate" THEN inbound[m]
                    ELSE IF Decision(m, forced) = "unroutable" THEN "ignored" ELSE "processed"
  BY <1>1 DEF AcceptInbound
<1> QED BY <1>2, <1>3, <1>4, <1>5 DEF Decisions

\* The inductive invariant.
IInv == TablesInvariant /\ CopiesInvariant

LEMMA InitInvariant == Init => IInv
<1> SUFFICES ASSUME Init PROVE IInv OBVIOUS
<1>1. /\ posted = <<>> /\ investigations = <<>> /\ runs = <<>>
      /\ Len(posted) = 0 /\ Len(investigations) = 0 /\ Len(runs) = 0
      /\ posted \in Seq(Message) /\ investigations \in Seq(Investigation) /\ runs \in Seq(Run)
  BY EmptySeq DEF Init
<1>2. PlatformType /\ TablesType BY <1>1 DEF Init, PlatformType, TablesType
<1>3. StagesType BY DEF Init, StagesType
<1>4. PostedInOrder /\ Rooted /\ AcceptedOnce /\ RoundsAreDense /\ ThreadKeepsCase
      /\ OpenedByMention
  BY <1>1 DEF PostedInOrder, Rooted, AcceptedOnce, RoundsAreDense, ThreadKeepsCase,
              OpenedByMention, Cases
<1>5. StaysInChat BY <1>1, <1>2, TableFacts DEF StaysInChat
<1>6. \A m \in Messages, c \in Copies : stage[m][c] = "none" BY DEF Init
<1>7. Reached BY <1>6 DEF Reached, Decisions
<1>8. Helping
  <2> SUFFICES ASSUME NEW m \in Messages
               PROVE  /\ helps[m] = 0
                      /\ helps[m] <= Cardinality({c \in Copies : stage[m][c] = "acknowledged"})
    BY <1>6 DEF Helping
  <2>1. helps[m] = 0 BY DEF Init
  <2>2. {c \in Copies : stage[m][c] = "acknowledged"} = {} BY <1>6
  <2> QED BY <2>1, <2>2, FS_EmptySet
<1> QED BY <1>2, <1>3, <1>4, <1>5, <1>7, <1>8 DEF IInv, TablesInvariant, CopiesInvariant

\* The tables do not move when only copies do.
LEMMA TablesStay ==
  ASSUME TablesInvariant, UNCHANGED <<platformVars, tables>>
  PROVE  TablesInvariant'
BY UntouchedTables DEF tables

\* One conjunct per action.
LEMMA StepInvariant == IInv /\ [Next]_vars => IInv'
<1> SUFFICES ASSUME IInv, [Next]_vars PROVE IInv' OBVIOUS
<1> USE DEF IInv
<1>1. /\ Len(posted) \in Nat
      /\ \A m \in 1 .. Len(posted) : m \in Messages
      /\ \A m \in Messages : m \in 1 .. Len(posted) <=> m <= Len(posted)
      /\ \A m \in Messages, c \in Copies :
           stage[m][c] # "none" => m \in 1 .. Len(posted)
  BY TableFacts DEF TablesInvariant, CopiesInvariant, Reached, Messages
<1>2. ASSUME NEW draft, Post(draft),
             draft \in Openings \/ \E m \in 1 .. Len(posted) : draft \in Answers(m)
      PROVE  IInv'
  <2> DEFINE k == Len(posted) + 1
  <2>1. TablesInvariant' /\ Len(posted') = k BY <1>2, PostKeepsTables
  <2>2. /\ k \in Messages /\ receiver' = receiver /\ inbound' = inbound /\ helps' = helps
        /\ stage' = IF draft.chat = "web" THEN stage ELSE [stage EXCEPT ![k][1] = "held"]
    BY <1>2 DEF Post, tables
  <2>3. 1 \in Copies /\ k \in Nat /\ ~(k <= Len(posted)) /\ Len(posted) <= k
    BY <1>1 DEF Copies
  <2>4. stage[k][1] = "none" BY <2>2, <2>3 DEF CopiesInvariant, Reached
  <2> HIDE DEF k
  <2>5. CASE draft.chat = "web"
    BY <1>1, <2>1, <2>2, <2>3, <2>5, CopiesStay
  <2>6. CASE draft.chat # "web"
    <3>1. "held" \in StageName /\ "held" \notin Decisions \cup {"acknowledged"}
      BY DEF StageName, Decisions
    <3>2. Moves(k, 1, "held")
      BY <1>1, <2>1, <2>2, <2>3, <2>4, <2>6, <3>1 DEF Moves
    <3>3. CopiesInvariant' BY <2>2, <2>3, <3>1, <3>2, CopyMoves
    <3> QED BY <2>1, <3>3
  <2> QED BY <2>1, <2>5, <2>6
<1>3. ASSUME NEW m \in Messages, NEW c \in Copies, HandOverAgain(m, c)
      PROVE  IInv'
  <2>1. /\ stage[m][c] = "none" /\ stage[m][c - 1] # "none" /\ c - 1 \in Copies
        /\ stage' = [stage EXCEPT ![m][c] = "held"]
        /\ UNCHANGED <<platformVars, tables>> /\ helps' = helps
    BY <1>3 DEF HandOverAgain, Copies
  <2>2. /\ posted' = posted /\ receiver' = receiver /\ inbound' = inbound
        /\ m \in 1 .. Len(posted)
    BY <1>1, <2>1 DEF platformVars, tables
  <2>3. "held" \in StageName /\ "held" \notin Decisions \cup {"acknowledged"}
    BY DEF StageName, Decisions
  <2>4. Moves(m, c, "held") BY <1>1, <2>1, <2>2, <2>3 DEF Moves
  <2>5. CopiesInvariant' BY <2>3, <2>4, CopyMoves
  <2> QED BY <2>1, <2>5, TablesStay
<1>4. ASSUME NEW m \in Messages, NEW c \in Copies, Submit(m, c)
      PROVE  IInv'
  <2>1. /\ stage[m][c] \in {"held", "gated"} /\ AcceptInbound(m, 0)
        /\ stage' = [stage EXCEPT ![m][c] = Decision(m, 0)]
        /\ UNCHANGED platformVars /\ helps' = helps
    BY <1>4 DEF Submit
  <2>2. /\ posted' = posted /\ receiver' = receiver /\ m \in 1 .. Len(posted)
    BY <1>1, <2>1 DEF platformVars
  <2>3. TablesInvariant' BY <2>1, <2>2, AcceptInboundKeepsTables
  <2>4. /\ \A n \in Messages : inbound[n] # "none" => inbound'[n] # "none"
        /\ inbound'[m] # "none" /\ Decision(m, 0) \in Decisions
        /\ Decision(m, 0) = "mechanical" => inbound[m] = "none"
    BY <2>1, AcceptInboundSettles
  <2>5. Decision(m, 0) \in StageName BY <2>4 DEF StageName
  <2>6. Moves(m, c, Decision(m, 0)) BY <1>1, <2>1, <2>2, <2>4 DEF Moves
  <2>7. CopiesInvariant' BY <2>5, <2>6, CopyMoves
  <2> QED BY <2>3, <2>7
<1>5. ASSUME NEW m \in Messages, NEW c \in Copies, Gate(m, c)
      PROVE  IInv'
  <2>1. /\ receiver = "gateway" /\ stage[m][c] = "held"
        /\ UNCHANGED <<platformVars, tables>>
        /\ \/ /\ stage' = [stage EXCEPT ![m][c] = "acknowledged"]
              /\ helps' = helps \/ helps' = [helps EXCEPT ![m] = @ + 1]
           \/ stage' = [stage EXCEPT ![m][c] = "gated"] /\ helps' = helps
    BY <1>5 DEF Gate, Helped
  <2>2. /\ posted' = posted /\ receiver' = receiver /\ inbound' = inbound
        /\ m \in 1 .. Len(posted) /\ receiver # "adapter"
    BY <1>1, <2>1 DEF platformVars, tables
  <2>3. "gated" \in StageName /\ "acknowledged" \in StageName BY DEF StageName
  <2>4. CASE stage' = [stage EXCEPT ![m][c] = "acknowledged"]
             /\ (helps' = helps \/ helps' = [helps EXCEPT ![m] = @ + 1])
    <3>1. Moves(m, c, "acknowledged") BY <1>1, <2>1, <2>2, <2>4 DEF Moves
    <3>2. CopiesInvariant' BY <2>3, <3>1, CopyMoves
    <3> QED BY <2>1, <3>2, TablesStay
  <2>5. CASE stage' = [stage EXCEPT ![m][c] = "gated"] /\ helps' = helps
    <3>1. Moves(m, c, "gated") BY <1>1, <2>1, <2>2, <2>5 DEF Moves
    <3>2. CopiesInvariant' BY <2>3, <3>1, CopyMoves
    <3> QED BY <2>1, <3>2, TablesStay
  <2> QED BY <2>1, <2>4, <2>5
<1>6. ASSUME NEW m \in Messages, NEW c \in Copies, Acknowledge(m, c)
      PROVE  IInv'
  <2>1. /\ stage[m][c] \in Decisions /\ stage' = [stage EXCEPT ![m][c] = "acknowledged"]
        /\ UNCHANGED <<platformVars, tables>>
        /\ \/ helps' = helps
           \/ helps' = [helps EXCEPT ![m] = @ + 1] /\ stage[m][c] = "mechanical"
    BY <1>6 DEF Acknowledge, Helped
  <2>2. /\ posted' = posted /\ receiver' = receiver /\ inbound' = inbound
        /\ m \in 1 .. Len(posted) /\ stage[m][c] # "acknowledged"
    BY <1>1, <2>1 DEF platformVars, tables, Decisions
  <2>3. receiver = "adapter" => inbound[m] # "none"
    BY <2>1 DEF CopiesInvariant, Reached
  <2>4. "acknowledged" \in StageName BY DEF StageName
  <2>5. Moves(m, c, "acknowledged") BY <1>1, <2>1, <2>2, <2>3 DEF Moves
  <2>6. CopiesInvariant' BY <2>4, <2>5, CopyMoves
  <2> QED BY <2>1, <2>6, TablesStay
<1>7. ASSUME NEW m \in Messages, NEW c \in Copies, Fails(m, c)
      PROVE  IInv'
  <2>1. /\ stage[m][c] \in {"held", "gated"} \cup Decisions
        /\ stage' = [stage EXCEPT ![m][c] = "failed"]
        /\ UNCHANGED <<platformVars, tables>> /\ helps' = helps
    BY <1>7 DEF Fails
  <2>2. /\ posted' = posted /\ receiver' = receiver /\ inbound' = inbound
        /\ m \in 1 .. Len(posted) /\ stage[m][c] # "acknowledged"
    BY <1>1, <2>1 DEF platformVars, tables, Decisions
  <2>3. "failed" \in StageName /\ "failed" \notin Decisions \cup {"acknowledged"}
    BY DEF StageName, Decisions
  <2>4. Moves(m, c, "failed") BY <1>1, <2>1, <2>2, <2>3 DEF Moves
  <2>5. CopiesInvariant' BY <2>3, <2>4, CopyMoves
  <2> QED BY <2>1, <2>5, TablesStay
<1>8. ASSUME NEW m \in Messages, NEW forced, SubmitWeb(m, forced)
      PROVE  IInv'
  <2>1. /\ m \in 1 .. Len(posted) /\ posted[m].chat = "web" /\ forced \in {0} \cup Cases
        /\ AcceptInbound(m, forced) /\ UNCHANGED platformVars
        /\ UNCHANGED <<stage, helps>>
    BY <1>1, <1>8 DEF SubmitWeb
  <2>2. posted' = posted /\ receiver' = receiver BY <2>1 DEF platformVars
  <2>3. TablesInvariant' BY <2>1, AcceptInboundKeepsTables
  <2>4. \A n \in Messages : inbound[n] # "none" => inbound'[n] # "none"
    BY <2>1, AcceptInboundSettles
  <2>5. CopiesInvariant' BY <1>1, <2>1, <2>2, <2>4, CopiesStay
  <2> QED BY <2>3, <2>5
<1>9. CASE UNCHANGED vars
  <2>1. /\ UNCHANGED <<platformVars, tables>> /\ UNCHANGED <<stage, helps>>
        /\ posted' = posted /\ receiver' = receiver /\ inbound' = inbound
    BY <1>9 DEF vars, platformVars, tables
  <2>2. CopiesInvariant' BY <1>1, <2>1, CopiesStay
  <2> QED BY <2>1, <2>2, TablesStay
<1> QED
  BY <1>2, <1>3, <1>4, <1>5, <1>6, <1>7, <1>8, <1>9 DEF Next

LEMMA InvariantAlways == Spec => []IInv
<1>1. Init => IInv BY InitInvariant
<1>2. IInv /\ [Next]_vars => IInv' BY StepInvariant
<1> QED BY <1>1, <1>2, PTL DEF Spec

\* The adapter reports a message to the platform as done only when its fate is in the
\* store (adapter.go, handleMessage): a Host that is down or an answer that is lost
\* leaves the message to be handed over again.
THEOREM AcknowledgedIsKeptHolds == Spec => []AcknowledgedIsKept
<1>1. IInv => AcknowledgedIsKept
  BY DEF IInv, CopiesInvariant, Reached, AcknowledgedIsKept
<1> QED BY <1>1, InvariantAlways, PTL

\* However a message arrives and however often (Store.acceptInbound, planRoute), it is
\* at most one round, of an investigation of its chat, and of that of its thread.
THEOREM OneRoundInItsPlaceHolds == Spec => []OneRoundInItsPlace
<1>1. IInv => OneRoundInItsPlace
  BY DEF IInv, TablesInvariant, OneRoundInItsPlace
<1> QED BY <1>1, InvariantAlways, PTL

\* Everything stored is typed; the rounds of an investigation are numbered without a
\* gap (Store.createRun), the help is sent once, and an investigation in a group is
\* opened by a mention of the bot (planRoute).
THEOREM IntakeInvariantHolds == Spec => []IntakeInvariant
<1>1. IInv => IntakeInvariant
  <2> SUFFICES ASSUME IInv PROVE IntakeInvariant OBVIOUS
  <2>1. TypeOK
    BY DEF IInv, TablesInvariant, CopiesInvariant, PlatformType, TablesType, StagesType, TypeOK
  <2>2. RoundsAreDense /\ OpenedByMention BY DEF IInv, TablesInvariant
  <2>3. HelpedOnce BY DEF IInv, CopiesInvariant, Helping, HelpedOnce
  <2> QED BY <2>1, <2>2, <2>3 DEF IntakeInvariant
<1> QED BY <1>1, InvariantAlways, PTL
=============================================================================
