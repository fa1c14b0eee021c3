------------------------ MODULE EvidenceCommitProofs ------------------------
(***************************************************************************)
(* Machine-checked theorems about EvidenceCommit: however batches are sent *)
(* again and executors die, evidence is numbered once and in order, the    *)
(* model is told the truth of its calls, and no call has two answers.      *)
(***************************************************************************)
EXTENDS EvidenceCommit, OrderingProofs, SequenceTheorems, TLAPS

USE EvidenceCommitAssumption

\* The lines there are: in the log, with an executor or on the way from it.
Held(k) == ToSet(prior[k]) \cup ToSet(seed[k]) \cup ToSet(fresh[k]) \cup ToSet(pipe[k])
Lines == ToSet(log) \cup UNION {Held(k) : k \in Claims}

IsReal(l) == l.kind = "result" /\ l.text \in {"shown", "failed"}
IsRecovered(l) == l.kind = "result" /\ l.text \in {"saved", "unknown"}
InFlightOrPaused(c) == call[c] \in {"waiting", "backoff"}
Busy == {c \in Calls : InFlightOrPaused(c)}
Ended(c) == call[c] \in {"shown", "failed"}

\* Nothing is on the way for a call any more that could save its batch.
Settled(c) ==
  /\ c \in 1 .. Len(issuer) /\ ~InFlightOrPaused(c)
  /\ \A k \in Claims : \A l \in ToSet(pipe[k]) : l.kind = "commit" => l.call # c

\* The calls that a session has and that have no result in it.
Open(entries) ==
  {c \in Calls : /\ \E e \in ToSet(entries) : e.kind = "call" /\ e.call = c
                 /\ ~Answered(entries, c)}

-----------------------------------------------------------------------------
(* The inductive invariant.                                                *)

\* Only the last claim may hold the run; what exists of executors and calls belongs
\* to claims and calls that were made; a batch that pauses may be sent once more.
Claimed ==
  /\ owner \in {0, Len(runOf)}
  /\ \A k \in Claims : phase[k] # "none" \/ prior[k] # <<>> => k <= Len(runOf)
  /\ \A c \in 1 .. Len(issuer) : issuer[c] <= Len(runOf)
  /\ \A c \in Calls : c > Len(issuer) => call[c] = "none" /\ c \notin batches
  /\ \A a \in answers : a.call <= Len(issuer)
  /\ \A c \in Calls : call[c] = "backoff" => sends[c] < MaxSends

\* The rows of evidence are of saved batches and their numbers have no gap.
Rows ==
  /\ \E n \in Nat : {e.number : e \in evidence} = 1 .. n
  /\ \A e \in evidence : e.call \in batches /\ e.item \in 1 .. Items(e.call)

\* What an executor's engine has made is about its own calls, and so is what it has
\* sent of them; the call itself is sent only when no commit of it follows.
OwnFresh(k) ==
  \A l \in ToSet(fresh[k]) :
    ((l.kind = "call" /\ l.text = "") \/ IsReal(l)) /\ issuer[l.call] = k
OwnPipe(k) ==
  \A l \in ToSet(pipe[k]) :
    l.kind \in {"commit", "call"} \/ IsReal(l) => issuer[l.call] = k
CommitsFirst(s, busy) ==
  \A i \in 1 .. Len(s) :
    s[i].kind = "call" =>
      /\ s[i].call \notin busy
      /\ \A j \in 1 .. Len(s) : i < j /\ s[j].kind = "commit" => s[j].call # s[i].call
Own ==
  \A k \in Claims : OwnFresh(k) /\ OwnPipe(k) /\ CommitsFirst(pipe[k], Busy)

\* A line is by a claim that was made, about a call that was made, and a result is
\* that of the tool or of recovery.
Attributed ==
  \A l \in Lines :
    /\ l.by[1] <= Len(runOf)
    /\ l.kind # "user" => l.call \in 1 .. Len(issuer)
    /\ l.kind = "result" => IsReal(l) \/ IsRecovered(l)

\* The log and what was read of it have a call only once it is settled.
LoggedIsSettled ==
  \A l \in ToSet(log) \cup UNION {ToSet(prior[k]) : k \in Claims} :
    l.kind = "call" => Settled(l.call)

\* "Saved" is said of what is saved.
SavedIsTrue ==
  /\ \A l \in Lines : l.text \in {"shown", "saved"} => l.call \in batches
  /\ \A a \in answers : a.verdict = "ack" => a.call \in batches
  /\ \A k \in Claims : saved[k] \subseteq batches
  /\ \A c \in Calls : call[c] = "shown" => c \in batches

\* "Unknown" is said of a settled call that, if it is of the same run, is not saved.
UnknownIsTrue ==
  \A l \in Lines :
    l.text = "unknown" =>
      Settled(l.call) /\ (runOf[issuer[l.call]] = runOf[l.by[1]] => l.call \notin batches)

\* A call that an executor finds open is of an earlier claim, has no real result in the
\* log, and is not saved by its run unless the executor knows.
OpenIsKnown ==
  \A k \in Claims : \A c \in Open(prior[k]) :
    /\ issuer[c] < k
    /\ \A l \in ToSet(log) : IsReal(l) => l.call # c
    /\ c \notin saved[k] /\ runOf[issuer[c]] = runOf[k] => c \notin batches

\* A call has one real result, and that after it has ended.
RealOnce ==
  /\ \A l, m \in Lines : IsReal(l) /\ IsReal(m) /\ l.call = m.call => l = m
  /\ \A l \in Lines : IsReal(l) => Ended(l.call)

\* Recovery answers only calls of earlier claims, and never one that the log answers.
RecoveredIsAlone ==
  \A l \in Lines :
    IsRecovered(l) =>
      issuer[l.call] < l.by[1] /\ \A m \in ToSet(log) : IsReal(m) => m.call # l.call

LinesInvariant ==
  /\ Attributed /\ LoggedIsSettled /\ SavedIsTrue /\ UnknownIsTrue
  /\ OpenIsKnown /\ RealOnce /\ RecoveredIsAlone

IInv ==
  /\ TypeOK /\ Claimed /\ Rows /\ NumberedOnce /\ NumbersFollowExecutions /\ Own
  /\ LinesInvariant

-----------------------------------------------------------------------------
(* Sequences as sets of lines.                                             *)

\* The elements of a sequence, and of what is made of sequences.
LEMMA ElementsOf ==
  ASSUME NEW S, NEW s \in Seq(S)
  PROVE  /\ Len(s) \in Nat /\ ToSet(s) = {s[i] : i \in 1 .. Len(s)}
         /\ \A i \in 1 .. Len(s) : s[i] \in S /\ s[i] \in ToSet(s)
         /\ \A e \in ToSet(s) : e \in S /\ \E i \in 1 .. Len(s) : s[i] = e
<1>1. Len(s) \in Nat /\ DOMAIN s = 1 .. Len(s) /\ s \in [1 .. Len(s) -> S]
  BY LenProperties
<1> QED BY <1>1 DEF ToSet

LEMMA ElementsOfEmpty == ToSet(<<>>) = {}
BY DEF ToSet

LEMMA ElementsOfAppend ==
  ASSUME NEW S, NEW s \in Seq(S), NEW e \in S
  PROVE  /\ Append(s, e) \in Seq(S) /\ ToSet(Append(s, e)) = ToSet(s) \cup {e}
         /\ Len(Append(s, e)) = Len(s) + 1
         /\ \A i \in 1 .. Len(s) + 1 : Append(s, e)[i] = IF i <= Len(s) THEN s[i] ELSE e
<1>1. /\ Append(s, e) \in Seq(S) /\ Len(Append(s, e)) = Len(s) + 1
      /\ \A i \in 1 .. Len(s) : Append(s, e)[i] = s[i]
      /\ Append(s, e)[Len(s) + 1] = e
  BY AppendProperties
<1>2. Len(s) \in Nat /\ ToSet(s) = {s[i] : i \in 1 .. Len(s)} BY ElementsOf
<1>3. ToSet(Append(s, e)) = {Append(s, e)[i] : i \in 1 .. Len(s) + 1}
  BY <1>1, ElementsOf
<1>4. \A i \in 1 .. Len(s) + 1 : Append(s, e)[i] = IF i <= Len(s) THEN s[i] ELSE e
  BY <1>1, <1>2
<1>5. ToSet(Append(s, e)) \subseteq ToSet(s) \cup {e} BY <1>2, <1>3, <1>4
<1>6. ToSet(s) \subseteq ToSet(Append(s, e))
  <2>1. \A i \in 1 .. Len(s) : i \in 1 .. Len(s) + 1 BY <1>2
  <2> QED BY <1>1, <1>2, <1>3, <2>1
<1>7. e \in ToSet(Append(s, e)) BY <1>1, <1>2, <1>3
<1> QED BY <1>1, <1>4, <1>5, <1>6, <1>7

LEMMA ElementsOfConcat ==
  ASSUME NEW S, NEW s \in Seq(S), NEW t \in Seq(S)
  PROVE  /\ s \o t \in Seq(S) /\ ToSet(s \o t) = ToSet(s) \cup ToSet(t)
         /\ Len(s \o t) = Len(s) + Len(t)
         /\ \A i \in 1 .. Len(s) + Len(t) :
              (s \o t)[i] = IF i <= Len(s) THEN s[i] ELSE t[i - Len(s)]
<1>1. /\ s \o t \in Seq(S) /\ Len(s \o t) = Len(s) + Len(t)
      /\ \A i \in 1 .. Len(s) + Len(t) :
           (s \o t)[i] = IF i <= Len(s) THEN s[i] ELSE t[i - Len(s)]
  BY ConcatProperties
<1>2. /\ Len(s) \in Nat /\ ToSet(s) = {s[i] : i \in 1 .. Len(s)}
      /\ Len(t) \in Nat /\ ToSet(t) = {t[i] : i \in 1 .. Len(t)}
  BY ElementsOf
<1>3. ToSet(s \o t) = {(s \o t)[i] : i \in 1 .. Len(s) + Len(t)}
  BY <1>1, ElementsOf
<1>4. ToSet(s \o t) \subseteq ToSet(s) \cup ToSet(t)
  <2> SUFFICES ASSUME NEW i \in 1 .. Len(s) + Len(t)
               PROVE  (s \o t)[i] \in ToSet(s) \cup ToSet(t)
    BY <1>3
  <2>1. CASE i <= Len(s) BY <1>1, <1>2, <2>1
  <2>2. CASE ~(i <= Len(s))
    <3>1. i - Len(s) \in 1 .. Len(t) BY <1>2, <2>2
    <3> QED BY <1>1, <1>2, <2>2, <3>1
  <2> QED BY <2>1, <2>2
<1>5. ToSet(s) \subseteq ToSet(s \o t)
  <2> SUFFICES ASSUME NEW i \in 1 .. Len(s) PROVE s[i] \in ToSet(s \o t) BY <1>2
  <2>1. i \in 1 .. Len(s) + Len(t) /\ i <= Len(s) BY <1>2
  <2> QED BY <1>1, <1>3, <2>1
<1>6. ToSet(t) \subseteq ToSet(s \o t)
  <2> SUFFICES ASSUME NEW i \in 1 .. Len(t) PROVE t[i] \in ToSet(s \o t) BY <1>2
  <2>1. i + Len(s) \in 1 .. Len(s) + Len(t) /\ ~(i + Len(s) <= Len(s))
        /\ (i + Len(s)) - Len(s) = i
    BY <1>2
  <2> QED BY <1>1, <1>3, <2>1
<1> QED BY <1>1, <1>4, <1>5, <1>6

LEMMA ElementsOfTail ==
  ASSUME NEW S, NEW s \in Seq(S), s # <<>>
  PROVE  /\ Head(s) \in S /\ Tail(s) \in Seq(S) /\ Len(s) >= 1 /\ Head(s) = s[1]
         /\ ToSet(s) = ToSet(Tail(s)) \cup {Head(s)}
         /\ Len(Tail(s)) = Len(s) - 1
         /\ \A i \in 1 .. Len(Tail(s)) : Tail(s)[i] = s[i + 1]
<1>1. /\ Head(s) \in S /\ Tail(s) \in Seq(S) /\ Len(Tail(s)) = Len(s) - 1
      /\ \A i \in 1 .. Len(Tail(s)) : Tail(s)[i] = s[i + 1]
      /\ Head(s) = s[1]
  BY HeadTailProperties
<1>2. Len(s) \in Nat /\ Len(s) >= 1 BY EmptySeq
<1>3. /\ ToSet(s) = {s[i] : i \in 1 .. Len(s)}
      /\ ToSet(Tail(s)) = {Tail(s)[i] : i \in 1 .. Len(Tail(s))}
  BY <1>1, ElementsOf
<1>4. ToSet(s) \subseteq ToSet(Tail(s)) \cup {Head(s)}
  <2> SUFFICES ASSUME NEW i \in 1 .. Len(s), i # 1 PROVE s[i] \in ToSet(Tail(s))
    BY <1>1, <1>3
  <2>1. i - 1 \in 1 .. Len(Tail(s)) /\ (i - 1) + 1 = i BY <1>1, <1>2
  <2> QED BY <1>1, <1>3, <2>1
<1>5. ToSet(Tail(s)) \cup {Head(s)} \subseteq ToSet(s)
  <2>1. \A i \in 1 .. Len(Tail(s)) : i + 1 \in 1 .. Len(s) BY <1>1, <1>2
  <2>2. 1 \in 1 .. Len(s) BY <1>2
  <2> QED BY <1>1, <1>3, <2>1, <2>2
<1> QED BY <1>1, <1>2, <1>4, <1>5

\* pendingToolCallIds names each open call and nothing else.
LEMMA PendingAreOpen ==
  ASSUME NEW s \in Seq(Entry), \A e \in ToSet(s) : e.kind = "call" => e.call \in Calls
  PROVE  /\ Pending(s) \in Seq(Entry)
         /\ ToSet(Pending(s)) = {e \in ToSet(s) : e.kind = "call" /\ ~Answered(s, e.call)}
         /\ {e.call : e \in ToSet(Pending(s))} = Open(s)
<1> DEFINE I == {i \in DOMAIN s : s[i].kind = "call" /\ ~Answered(s, s[i].call)}
           n == Cardinality(I)
<1>1. Len(s) \in Nat /\ DOMAIN s = 1 .. Len(s) /\ ToSet(s) = {s[i] : i \in 1 .. Len(s)}
  BY LenProperties, ElementsOf
<1>2. I \subseteq Int /\ IsFiniteSet(I)
  <2>1. I \in SUBSET (1 .. Len(s)) BY <1>1
  <2>2. IsFiniteSet(1 .. Len(s)) BY <1>1, FS_Interval
  <2> QED BY <2>1, <2>2, FS_Subset
<1> DEFINE open == InOrder(I)
<1>3. /\ n \in Nat /\ open \in [1 .. n -> I] /\ \A i \in I : open[Rank(I, i)] = i
      /\ \A i \in I : Rank(I, i) \in 1 .. n
  <2> HIDE DEF I
  <2> QED BY <1>2, InOrderProperties, RankGrows
<1>4. Pending(s) = [k \in 1 .. n |-> s[open[k]]]
  BY <1>3 DEF Pending
<1> HIDE DEF n, open
<1>5. \A k \in 1 .. n : open[k] \in I /\ s[open[k]] \in Entry
  <2>1. \A i \in I : i \in 1 .. Len(s) BY <1>1
  <2>2. \A i \in I : s[i] \in Entry BY <2>1, ElementOfSeq
  <2> HIDE DEF I
  <2> QED BY <1>3, <2>2
<1>6. Pending(s) \in Seq(Entry)
  <2>1. Pending(s) \in [1 .. n -> Entry] BY <1>4, <1>5
  <2> QED BY <1>3, <2>1, SeqDef
<1>7. ToSet(Pending(s)) = {s[open[k]] : k \in 1 .. n}
  <2>1. DOMAIN Pending(s) = 1 .. n BY <1>4
  <2> QED BY <1>4, <2>1 DEF ToSet
<1>8. ToSet(Pending(s)) = {s[i] : i \in I}
  <2>1. \A i \in I : \E k \in 1 .. n : open[k] = i
    <3> HIDE DEF I
    <3> QED BY <1>3
  <2> HIDE DEF I
  <2> QED BY <1>5, <1>7, <2>1
<1>9. ToSet(Pending(s)) = {e \in ToSet(s) : e.kind = "call" /\ ~Answered(s, e.call)}
  BY <1>1, <1>8
<1>10. {e.call : e \in ToSet(Pending(s))} = Open(s)
  BY <1>9 DEF Open
<1> QED BY <1>6, <1>9, <1>10

\* reconcileSession gives each open call one result and adds nothing else.
LEMMA MissingAreOpen ==
  ASSUME NEW s \in Seq(Entry), \A e \in ToSet(s) : e.kind = "call" => e.call \in Calls,
         NEW known, NEW by \in Claims \X (0 .. MaxSupplements)
  PROVE  /\ Missing(s, known, by) \in Seq(Entry)
         /\ \A l \in ToSet(Missing(s, known, by)) :
              /\ l.kind = "result" /\ l.call \in Open(s) /\ l.by = by
              /\ l.text = IF l.call \in known THEN "saved" ELSE "unknown"
<1> DEFINE open == Pending(s)
           line(i) == LineOf("result", open[i].call,
                        IF open[i].call \in known THEN "saved" ELSE "unknown", by)
<1>1. /\ open \in Seq(Entry) /\ {e.call : e \in ToSet(open)} = Open(s)
      /\ Len(open) \in Nat /\ \A i \in 1 .. Len(open) : open[i] \in ToSet(open)
  BY PendingAreOpen, ElementsOf
<1>2. Missing(s, known, by) = [i \in 1 .. Len(open) |-> line(i)]
  BY DEF Missing
<1> HIDE DEF open
<1>3. \A i \in 1 .. Len(open) : open[i].call \in Open(s) /\ open[i].call \in 0 .. MaxCalls
  <2> SUFFICES ASSUME NEW i \in 1 .. Len(open)
               PROVE  open[i].call \in Open(s) /\ open[i].call \in 0 .. MaxCalls
    OBVIOUS
  <2>1. open[i].call \in {e.call : e \in ToSet(open)} BY <1>1
  <2>2. open[i].call \in Open(s) BY <1>1, <2>1
  <2>3. \A c \in Open(s) : c \in Calls BY DEF Open
  <2> QED BY <2>2, <2>3 DEF Calls
<1>4. \A i \in 1 .. Len(open) : line(i) \in Entry
  <2> SUFFICES ASSUME NEW i \in 1 .. Len(open), NEW c, c = open[i].call
               PROVE  LineOf("result", c, IF c \in known THEN "saved" ELSE "unknown", by) \in Entry
    OBVIOUS
  <2>1. c \in 0 .. MaxCalls BY <1>3
  <2>2. (IF c \in known THEN "saved" ELSE "unknown") \in {"", "shown", "failed", "saved", "unknown"}
    OBVIOUS
  <2> QED BY <2>1, <2>2 DEF LineOf, Entry
<1>5. \A i \in 1 .. Len(open) :
         /\ line(i).kind = "result" /\ line(i).call \in Open(s) /\ line(i).by = by
         /\ line(i).text = IF line(i).call \in known THEN "saved" ELSE "unknown"
  BY <1>3 DEF LineOf
<1> HIDE DEF line
<1>6. Missing(s, known, by) \in Seq(Entry)
  <2>1. Missing(s, known, by) \in [1 .. Len(open) -> Entry] BY <1>2, <1>4
  <2> QED BY <1>1, <2>1, SeqDef
<1>7. ToSet(Missing(s, known, by)) = {line(i) : i \in 1 .. Len(open)}
  <2>1. DOMAIN Missing(s, known, by) = 1 .. Len(open) BY <1>2
  <2> QED BY <1>2, <2>1 DEF ToSet
<1> QED BY <1>5, <1>6, <1>7

-----------------------------------------------------------------------------
(* A step and the lines.                                                   *)

\* What every step does: it forgets no claim, call or batch, saves no batch of a settled
\* call, and adds to the lines no others than New; what it adds to the log comes from
\* the owner, and what it adds to a session read before is not about calls.
Grows(New) ==
  /\ Len(runOf) <= Len(runOf') /\ \A k \in 1 .. Len(runOf) : runOf'[k] = runOf[k]
  /\ Len(issuer) <= Len(issuer') /\ \A c \in 1 .. Len(issuer) : issuer'[c] = issuer[c]
  /\ batches \subseteq batches'
  /\ \A c \in Calls : Ended(c) => call'[c] = call[c]
  /\ \A c \in Calls : Settled(c) => Settled(c)' /\ (c \in batches' => c \in batches)
  /\ Lines' \subseteq Lines \cup New
  /\ \A l \in ToSet(log') :
       \/ l \in ToSet(log)
       \/ /\ l \in Lines /\ owner # 0 /\ (l.kind = "call" => Settled(l.call)')
          /\ IsReal(l) => issuer[l.call] = owner
  /\ \A k \in Claims : \A l \in ToSet(prior'[k]) :
       l.kind = "call" => l \in ToSet(prior[k]) \cup ToSet(log)
  /\ \A k \in Claims : \A c \in Open(prior'[k]) :
       \/ c \in Open(prior[k]) /\ saved'[k] = saved[k]
       \/ /\ issuer[c] < k /\ (\A l \in ToSet(log') : IsReal(l) => l.call # c)
          /\ c \notin saved'[k] /\ runOf'[issuer[c]] = runOf'[k] => c \notin batches'
  /\ \A k \in Claims : saved'[k] \subseteq saved[k] \cup batches
  /\ \A a \in answers' : a.verdict = "ack" => a \in answers \/ a.call \in batches'
  /\ \A c \in Calls : call'[c] = "shown" => call[c] = "shown" \/ c \in batches

\* What the new lines of a step say is so.
TrueLines(New) ==
  /\ \A l \in New :
       /\ l.by[1] <= Len(runOf') /\ (l.kind # "user" => l.call \in 1 .. Len(issuer'))
       /\ l.kind = "result" => IsReal(l) \/ IsRecovered(l)
       /\ l.text \in {"shown", "saved"} => l.call \in batches'
       /\ l.text = "unknown" =>
            /\ Settled(l.call)'
            /\ runOf'[issuer'[l.call]] = runOf'[l.by[1]] => l.call \notin batches'
       /\ IsReal(l) => ~Ended(l.call) /\ Ended(l.call)'
       /\ IsRecovered(l) =>
            issuer'[l.call] < l.by[1] /\ \A m \in ToSet(log') : IsReal(m) => m.call # l.call
  /\ \A l, m \in New : IsReal(l) /\ IsReal(m) => l = m

\* Every line is a message of the protocol, about a claim and, unless it is a user's, a
\* call that was made.
LEMMA LinesTyped ==
  ASSUME TypeOK, Claimed, Attributed
  PROVE  /\ Len(runOf) \in Nat /\ Len(runOf) <= MaxClaims
         /\ Len(issuer) \in Nat /\ Len(issuer) <= MaxCalls
         /\ \A k \in 1 .. Len(runOf) : k \in Claims
         /\ \A c \in 1 .. Len(issuer) :
              c \in Calls /\ issuer[c] \in Claims /\ issuer[c] \in 1 .. Len(runOf)
         /\ ToSet(log) \subseteq Entry
         /\ \A k \in Claims : /\ ToSet(prior[k]) \subseteq Entry /\ ToSet(seed[k]) \subseteq Entry
                              /\ ToSet(fresh[k]) \subseteq Entry /\ ToSet(pipe[k]) \subseteq Message
         /\ \A l \in Lines :
              /\ l \in Message /\ l.call \in 0 .. MaxCalls /\ l.by[1] \in 1 .. Len(runOf)
              /\ l.kind # "user" => l.call \in 1 .. Len(issuer) /\ l.call \in Calls
<1>1. /\ Len(runOf) \in Nat /\ Len(runOf) <= MaxClaims
      /\ Len(issuer) \in Nat /\ Len(issuer) <= MaxCalls
      /\ \A c \in 1 .. Len(issuer) : issuer[c] \in Claims
  BY ElementsOf DEF TypeOK
<1>2. \A c \in 1 .. Len(issuer) : c \in Calls /\ issuer[c] \in 1 .. Len(runOf)
  BY <1>1 DEF Claimed, Calls, Claims
<1>3. \A k \in 1 .. Len(runOf) : k \in Claims BY <1>1 DEF Claims
<1>4. ToSet(log) \subseteq Entry BY ElementsOf DEF TypeOK
<1>5. \A k \in Claims : /\ ToSet(prior[k]) \subseteq Entry /\ ToSet(seed[k]) \subseteq Entry
                        /\ ToSet(fresh[k]) \subseteq Entry /\ ToSet(pipe[k]) \subseteq Message
  <2> SUFFICES ASSUME NEW k \in Claims
               PROVE  /\ ToSet(prior[k]) \subseteq Entry /\ ToSet(seed[k]) \subseteq Entry
                      /\ ToSet(fresh[k]) \subseteq Entry /\ ToSet(pipe[k]) \subseteq Message
    OBVIOUS
  <2>1. prior[k] \in Seq(Entry) /\ seed[k] \in Seq(Entry) /\ fresh[k] \in Seq(Entry)
        /\ pipe[k] \in Seq(Message)
    BY DEF TypeOK
  <2> QED BY <2>1, ElementsOf
<1>6. Entry \subseteq Message BY DEF Message
<1>7. ASSUME NEW l \in Lines
      PROVE  /\ l \in Message /\ l.call \in 0 .. MaxCalls /\ l.by[1] \in 1 .. Len(runOf)
             /\ l.kind # "user" => l.call \in 1 .. Len(issuer) /\ l.call \in Calls
  <2>1. l \in Message BY <1>4, <1>5, <1>6 DEF Lines, Held
  <2>2. l.call \in 0 .. MaxCalls /\ l.by \in Claims \X (0 .. MaxSupplements)
    <3>1. CASE l \in Entry BY <3>1 DEF Entry
    <3>2. CASE l \notin Entry
      <4>1. l.call \in Calls /\ l.by \in Claims \X (0 .. MaxSupplements)
        BY <2>1, <3>2 DEF Message
      <4> QED BY <4>1 DEF Calls
    <3> QED BY <3>1, <3>2
  <2>3. l.by[1] \in Claims /\ l.by[1] <= Len(runOf) BY <2>2 DEF Attributed
  <2> QED BY <1>1, <1>2, <2>1, <2>2, <2>3 DEF Attributed, Claims
<1> QED BY <1>1, <1>2, <1>3, <1>4, <1>5, <1>7

\* A step that grows the lines by true ones keeps what is said of them.
LEMMA GrowsKeeps ==
  ASSUME IInv, NEW New, Grows(New), TrueLines(New), \A l \in New : l.kind # "user" => l.call \in Calls
  PROVE  LinesInvariant'
<1> USE DEF IInv, LinesInvariant
<1>1. /\ Len(runOf) \in Nat /\ Len(issuer) \in Nat
      /\ \A c \in 1 .. Len(issuer) :
           c \in Calls /\ issuer[c] \in Claims /\ issuer[c] \in 1 .. Len(runOf)
      /\ \A l \in Lines :
           /\ l.call \in 0 .. MaxCalls /\ l.by[1] \in 1 .. Len(runOf)
           /\ l.kind # "user" => l.call \in 1 .. Len(issuer) /\ l.call \in Calls
  BY LinesTyped
<1>2. /\ Len(runOf) <= Len(runOf') /\ \A k \in 1 .. Len(runOf) : runOf'[k] = runOf[k]
      /\ Len(issuer) <= Len(issuer') /\ \A c \in 1 .. Len(issuer) : issuer'[c] = issuer[c]
      /\ batches \subseteq batches' /\ \A c \in Calls : Ended(c) => call'[c] = call[c]
      /\ \A c \in Calls : Settled(c) => Settled(c)' /\ (c \in batches' => c \in batches)
      /\ Lines' \subseteq Lines \cup New
  BY DEF Grows
<1>3. \A l \in Lines' : l \in Lines \/ l \in New BY <1>2
<1>4. \A l : IsReal(l) => l.kind = "result" BY DEF IsReal
<1>5. \A l : IsRecovered(l) => l.kind = "result" BY DEF IsRecovered
<1>6. \A m \in ToSet(log') : IsReal(m) => m \in ToSet(log) \/ issuer[m.call] = Len(runOf)
  <2>1. \A m \in ToSet(log') : IsReal(m) => m \in ToSet(log) \/ (owner # 0 /\ issuer[m.call] = owner)
    BY DEF Grows
  <2> QED BY <2>1 DEF Claimed
<1>7. Attributed'
  <2> SUFFICES ASSUME NEW l \in Lines'
               PROVE  /\ l.by[1] <= Len(runOf')
                      /\ l.kind # "user" => l.call \in 1 .. Len(issuer')
                      /\ l.kind = "result" => IsReal(l) \/ IsRecovered(l)
    BY DEF Attributed
  <2>1. CASE l \in New BY <2>1 DEF TrueLines
  <2>2. CASE l \in Lines
    <3>1. l.by[1] <= Len(runOf) BY <1>1, <2>2
    <3>2. l.kind = "result" => IsReal(l) \/ IsRecovered(l) BY <2>2 DEF Attributed
    <3> QED BY <1>1, <1>2, <2>2, <3>1, <3>2
  <2> QED BY <1>3, <2>1, <2>2
<1>8. LoggedIsSettled'
  <2> SUFFICES ASSUME NEW l \in ToSet(log') \cup UNION {ToSet(prior'[k]) : k \in Claims},
                      l.kind = "call"
               PROVE  Settled(l.call)'
    BY DEF LoggedIsSettled, Claims
  <2>1. CASE l \in ToSet(log) \cup UNION {ToSet(prior[k]) : k \in Claims}
    <3>1. Settled(l.call) BY <2>1 DEF LoggedIsSettled
    <3>2. l.call \in Calls BY <1>1, <3>1 DEF Settled
    <3> QED BY <1>2, <3>1, <3>2
  <2>2. CASE l \in ToSet(log') BY <2>1, <2>2 DEF Grows
  <2>3. CASE l \in UNION {ToSet(prior'[k]) : k \in Claims} BY <2>1, <2>3 DEF Grows
  <2> QED BY <2>2, <2>3
<1>9. SavedIsTrue'
  <2>1. \A l \in Lines' : l.text \in {"shown", "saved"} => l.call \in batches'
    BY <1>2, <1>3 DEF SavedIsTrue, TrueLines
  <2>2. \A a \in answers' : a.verdict = "ack" => a.call \in batches'
    BY <1>2 DEF SavedIsTrue, Grows
  <2>3. \A k \in Claims : saved'[k] \subseteq batches'
    BY <1>2 DEF SavedIsTrue, Grows
  <2>4. \A c \in Calls : call'[c] = "shown" => c \in batches'
    BY <1>2 DEF SavedIsTrue, Grows
  <2> QED BY <2>1, <2>2, <2>3, <2>4 DEF SavedIsTrue, Claims, Calls
<1>10. UnknownIsTrue'
  <2> SUFFICES ASSUME NEW l \in Lines', l.text = "unknown"
               PROVE  /\ Settled(l.call)'
                      /\ runOf'[issuer'[l.call]] = runOf'[l.by[1]] => l.call \notin batches'
    BY DEF UnknownIsTrue
  <2>1. CASE l \in New BY <2>1 DEF TrueLines
  <2>2. CASE l \in Lines
    <3>1. Settled(l.call) /\ (runOf[issuer[l.call]] = runOf[l.by[1]] => l.call \notin batches)
      BY <2>2 DEF UnknownIsTrue
    <3>2. l.call \in 1 .. Len(issuer) BY <3>1 DEF Settled
    <3>3. /\ issuer'[l.call] = issuer[l.call]
          /\ runOf'[issuer[l.call]] = runOf[issuer[l.call]] /\ runOf'[l.by[1]] = runOf[l.by[1]]
      BY <1>1, <1>2, <2>2, <3>2
    <3> QED BY <1>1, <1>2, <3>1, <3>2, <3>3
  <2> QED BY <1>3, <2>1, <2>2
<1>11. OpenIsKnown'
  <2> SUFFICES ASSUME NEW k \in Claims, NEW c \in Open(prior'[k])
               PROVE  /\ issuer'[c] < k
                      /\ \A l \in ToSet(log') : IsReal(l) => l.call # c
                      /\ c \notin saved'[k] /\ runOf'[issuer'[c]] = runOf'[k] => c \notin batches'
    BY DEF OpenIsKnown, Claims
  <2>0. c \in 1 .. Len(issuer) /\ c \in Calls
    <3>1. PICK e \in ToSet(prior'[k]) : e.kind = "call" /\ e.call = c BY DEF Open
    <3>2. e \in ToSet(prior[k]) \cup ToSet(log) BY <3>1 DEF Grows
    <3>3. Settled(c) BY <3>1, <3>2 DEF LoggedIsSettled
    <3> QED BY <1>1, <3>3 DEF Settled
  <2>1. issuer'[c] = issuer[c] /\ issuer[c] \in 1 .. Len(runOf) BY <1>1, <1>2, <2>0
  <2>2. CASE c \in Open(prior[k]) /\ saved'[k] = saved[k]
    <3>1. /\ issuer[c] < k /\ \A l \in ToSet(log) : IsReal(l) => l.call # c
          /\ c \notin saved[k] /\ runOf[issuer[c]] = runOf[k] => c \notin batches
      BY <2>2 DEF OpenIsKnown
    <3>2. k \in 1 .. Len(runOf)
      <4>1. prior[k] # <<>> BY <2>2, ElementsOfEmpty DEF Open
      <4> QED BY <1>1, <4>1 DEF Claimed, Claims
    <3>3. \A l \in ToSet(log') : IsReal(l) => l.call # c
      BY <1>1, <1>6, <2>1, <3>1, <3>2
    <3>4. Settled(c)
      <4>1. PICK e \in ToSet(prior[k]) : e.kind = "call" /\ e.call = c BY <2>2 DEF Open
      <4> QED BY <4>1 DEF LoggedIsSettled
    <3>5. runOf'[issuer[c]] = runOf[issuer[c]] /\ runOf'[k] = runOf[k]
      BY <1>2, <2>1, <3>2
    <3> QED BY <1>2, <2>0, <2>1, <2>2, <3>1, <3>3, <3>4, <3>5
  <2>3. CASE ~(c \in Open(prior[k]) /\ saved'[k] = saved[k])
    BY <2>1, <2>3 DEF Grows
  <2> QED BY <2>2, <2>3
<1>12. RealOnce'
  <2>1. \A l \in Lines : IsReal(l) => l.call \in Calls /\ Ended(l.call) /\ Ended(l.call)'
    <3> SUFFICES ASSUME NEW l \in Lines, IsReal(l)
                 PROVE  l.call \in Calls /\ Ended(l.call) /\ Ended(l.call)'
      OBVIOUS
    <3>1. l.call \in Calls /\ Ended(l.call) BY <1>1, <1>4 DEF RealOnce
    <3> QED BY <1>2, <3>1 DEF Ended
  <2>2. \A l \in New : IsReal(l) => ~Ended(l.call) /\ Ended(l.call)' BY DEF TrueLines
  <2>3. \A l \in Lines' : IsReal(l) => Ended(l.call)' BY <1>3, <2>1, <2>2
  <2>4. \A l, m \in Lines' : IsReal(l) /\ IsReal(m) /\ l.call = m.call => l = m
    <3> SUFFICES ASSUME NEW l \in Lines', NEW m \in Lines', IsReal(l), IsReal(m),
                        l.call = m.call
                 PROVE  l = m
      OBVIOUS
    <3>1. CASE l \in Lines /\ m \in Lines BY <3>1 DEF RealOnce
    <3>2. CASE l \in New /\ m \in New BY <3>2 DEF TrueLines
    <3>3. CASE l \in Lines /\ m \in New
      <4>1. Ended(l.call) /\ ~Ended(m.call) BY <2>1, <2>2, <3>3
      <4> QED BY <4>1
    <3>4. CASE l \in New /\ m \in Lines
      <4>1. Ended(m.call) /\ ~Ended(l.call) BY <2>1, <2>2, <3>4
      <4> QED BY <4>1
    <3> QED BY <1>3, <3>1, <3>2, <3>3, <3>4
  <2> QED BY <2>3, <2>4 DEF RealOnce
<1>13. RecoveredIsAlone'
  <2> SUFFICES ASSUME NEW l \in Lines', IsRecovered(l)
               PROVE  /\ issuer'[l.call] < l.by[1]
                      /\ \A m \in ToSet(log') : IsReal(m) => m.call # l.call
    BY DEF RecoveredIsAlone
  <2>1. CASE l \in New BY <2>1 DEF TrueLines
  <2>2. CASE l \in Lines
    <3>1. /\ issuer[l.call] < l.by[1]
          /\ \A m \in ToSet(log) : IsReal(m) => m.call # l.call
      BY <2>2 DEF RecoveredIsAlone
    <3>2. l.call \in 1 .. Len(issuer) /\ l.by[1] \in 1 .. Len(runOf) BY <1>1, <1>5, <2>2
    <3>3. issuer[l.call] # Len(runOf) /\ issuer'[l.call] = issuer[l.call]
      BY <1>1, <1>2, <3>1, <3>2
    <3>4. \A m \in ToSet(log') : IsReal(m) => m.call # l.call BY <1>6, <3>1, <3>3
    <3> QED BY <3>1, <3>3, <3>4
  <2> QED BY <1>3, <2>1, <2>2
<1> QED BY <1>7, <1>8, <1>9, <1>10, <1>11, <1>12, <1>13

-----------------------------------------------------------------------------
(* What the actions have in common.                                        *)

CallState == {"none", "waiting", "backoff", "shown", "failed"}

\* A settled call stays settled: it is not called again, and new commits are of calls
\* on the way.
LEMMA SettledStays ==
  ASSUME IInv, Len(issuer) <= Len(issuer'),
         \A c \in Calls : Settled(c) => ~InFlightOrPaused(c)',
         \A k \in Claims : \A l \in ToSet(pipe'[k]) :
           l.kind = "commit" => l \in ToSet(pipe[k]) \/ InFlightOrPaused(l.call)'
  PROVE  \A c \in Calls : Settled(c) => Settled(c)'
<1> SUFFICES ASSUME NEW c \in Calls, Settled(c) PROVE Settled(c)' OBVIOUS
<1>1. Len(issuer) \in Nat BY LinesTyped DEF IInv, LinesInvariant
<1>2. c \in 1 .. Len(issuer') BY <1>1 DEF Settled
<1>3. ASSUME NEW k \in Claims, NEW l \in ToSet(pipe'[k]), l.kind = "commit" PROVE l.call # c
  BY <1>3 DEF Settled
<1> QED BY <1>2, <1>3 DEF Settled, Claims

\* Evidence that is left alone stays in order.
LEMMA RowsStay ==
  ASSUME IInv, UNCHANGED <<batches, evidence>>,
         \A c \in 1 .. Len(issuer) : issuer'[c] = issuer[c]
  PROVE  Rows' /\ NumberedOnce' /\ NumbersFollowExecutions'
<1> USE DEF IInv
<1>1. Rows' BY DEF Rows
<1>2. HighestNumber' = HighestNumber BY DEF HighestNumber
<1>3. NumberedOnce' BY <1>2 DEF NumberedOnce
<1>4. \A e \in evidence : issuer'[e.call] = issuer[e.call]
  <2> SUFFICES ASSUME NEW e \in evidence PROVE issuer'[e.call] = issuer[e.call] OBVIOUS
  <2>1. e.call \in batches BY DEF Rows
  <2>2. e.call \in 1 .. Len(issuer)
    <3>1. e.call \in Calls /\ Len(issuer) \in Nat
      BY <2>1, LinesTyped DEF LinesInvariant, TypeOK
    <3>2. ~(e.call > Len(issuer)) BY <2>1, <3>1 DEF Claimed
    <3> QED BY <3>1, <3>2 DEF Calls
  <2> QED BY <2>2
<1>5. NumbersFollowExecutions' BY <1>4 DEF NumbersFollowExecutions
<1> QED BY <1>1, <1>3, <1>5

\* Lines that are left alone are no new lines.
LEMMA SameLines ==
  ASSUME UNCHANGED <<log, prior, seed, fresh, pipe>>
  PROVE  Lines' = Lines
BY DEF Lines, Held, Claims

\* A step that moves no line: it may release the run, drop answers and pause a call.
LEMMA QuietStep ==
  ASSUME IInv, UNCHANGED <<runOf, batches, evidence, log, engineVars, pipe, issuer>>,
         owner' \in {0, owner}, answers' \subseteq answers,
         call' \in [Calls -> CallState], sends' \in [Calls -> 0 .. MaxSends],
         \A c \in Calls : call'[c] = call[c] \/ (InFlightOrPaused(c) /\ InFlightOrPaused(c)'),
         \A c \in Calls : call'[c] = "backoff" => sends'[c] < MaxSends
  PROVE  IInv'
<1> USE DEF IInv, engineVars
<1>1. TypeOK'
  <2>1. owner' \in 0 .. Len(runOf)
    <3>1. Len(runOf) \in Nat BY LinesTyped DEF LinesInvariant
    <3> QED BY <3>1 DEF TypeOK
  <2> QED BY <2>1 DEF TypeOK, CallState, Claims, Calls, Entry, Message, Answer, Row
<1>2. \A c \in Calls : (InFlightOrPaused(c)' <=> InFlightOrPaused(c)) /\ (Ended(c) => call'[c] = call[c])
  BY DEF InFlightOrPaused, Ended
<1>3. Claimed'
  <2>1. \A c \in Calls : c > Len(issuer) => call'[c] = "none"
    BY <1>2 DEF Claimed, InFlightOrPaused
  <2> QED BY <2>1 DEF Claimed, Calls, Claims
<1>4. Rows' /\ NumberedOnce' /\ NumbersFollowExecutions' BY RowsStay
<1>5. Busy' = Busy BY <1>2 DEF Busy, Calls
<1>6. Own'
  BY <1>5 DEF Own, OwnFresh, OwnPipe, Claims
<1>7. \A c \in Calls : Settled(c) => Settled(c)'
  <2>1. \A c \in Calls : Settled(c) => ~InFlightOrPaused(c)' BY <1>2 DEF Settled
  <2> QED BY <2>1, SettledStays, LinesTyped DEF LinesInvariant
<1>8. Grows({})
  <2>1. Len(runOf) <= Len(runOf') /\ Len(issuer) <= Len(issuer')
    BY LinesTyped DEF LinesInvariant
  <2>2. \A k \in Claims : Open(prior'[k]) = Open(prior[k]) OBVIOUS
  <2>3. \A c \in Calls : call'[c] = "shown" => call[c] = "shown"
    BY DEF InFlightOrPaused
  <2> QED BY <1>2, <1>7, <2>1, <2>2, <2>3, SameLines DEF Grows
<1>9. TrueLines({}) BY DEF TrueLines
<1> QED BY <1>1, <1>3, <1>4, <1>6, <1>8, <1>9, GrowsKeeps

\* The claim and turn that make a line.
LEMMA StampTyped ==
  ASSUME TypeOK, NEW k \in Claims
  PROVE  /\ <<k, turn[k]>> \in Claims \X (0 .. MaxSupplements) /\ <<k, turn[k]>>[1] = k
         /\ <<k, 0>> \in Claims \X (0 .. MaxSupplements) /\ <<k, 0>>[1] = k
BY DEF TypeOK

\* Lines of each kind are typed.
LEMMA LineTyped ==
  ASSUME NEW by \in Claims \X (0 .. MaxSupplements)
  PROVE  /\ LineOf("user", 0, "", by) \in Entry
         /\ \A c \in Calls :
              /\ LineOf("call", c, "", by) \in Entry
              /\ LineOf("commit", c, "", by) \in Message
              /\ \A text \in {"shown", "failed"} : LineOf("result", c, text, by) \in Entry
<1>1. 0 \in 0 .. MaxCalls /\ \A c \in Calls : c \in 0 .. MaxCalls BY DEF Calls
<1>2. LineOf("user", 0, "", by) \in Entry BY <1>1 DEF LineOf, Entry
<1>3. ASSUME NEW c \in Calls
      PROVE  /\ LineOf("call", c, "", by) \in Entry
             /\ LineOf("commit", c, "", by) \in Message
             /\ \A text \in {"shown", "failed"} : LineOf("result", c, text, by) \in Entry
  <2>1. LineOf("call", c, "", by) \in Entry BY <1>1 DEF LineOf, Entry
  <2>2. LineOf("commit", c, "", by) \in Message BY DEF LineOf, Message
  <2>3. \A text \in {"shown", "failed"} : LineOf("result", c, text, by) \in Entry
    BY <1>1 DEF LineOf, Entry
  <2> QED BY <2>1, <2>2, <2>3
<1> QED BY <1>2, <1>3

\* Entries of an executor and of its pipe, taken apart.
LEMMA HeldTyped ==
  ASSUME TypeOK
  PROVE  /\ Entry \subseteq Message /\ log \in Seq(Entry)
         /\ \A k \in Claims :
              /\ prior[k] \in Seq(Entry) /\ seed[k] \in Seq(Entry) /\ fresh[k] \in Seq(Entry)
              /\ pipe[k] \in Seq(Message) /\ turn[k] \in 0 .. MaxSupplements
              /\ phase[k] \in {"none", "prepared", "engine", "gone"}
              /\ prior[k] \in Seq(Message) /\ seed[k] \in Seq(Message)
              /\ fresh[k] \in Seq(Message)
<1>1. Entry \subseteq Message BY DEF Message
<1>2. ASSUME NEW k \in Claims
      PROVE  /\ prior[k] \in Seq(Entry) /\ seed[k] \in Seq(Entry) /\ fresh[k] \in Seq(Entry)
             /\ pipe[k] \in Seq(Message) /\ turn[k] \in 0 .. MaxSupplements
             /\ phase[k] \in {"none", "prepared", "engine", "gone"}
  BY DEF TypeOK
<1>3. ASSUME NEW s \in Seq(Entry) PROVE s \in Seq(Message) BY <1>1, SeqMonotonic
<1>4. log \in Seq(Entry) BY DEF TypeOK
<1> QED BY <1>1, <1>2, <1>3, <1>4

\* A tool call ends: its result is the one real line of it.
LEMMA EndsStep ==
  ASSUME IInv, NEW c \in Calls, InFlightOrPaused(c), NEW text \in {"shown", "failed"},
         text = "shown" => c \in batches,
         issuer' = issuer, Ends(c, text), answers' \subseteq answers,
         UNCHANGED <<storeVars, phase, turn, prior, saved, seed, pipe>>
  PROVE  IInv'
<1> USE DEF IInv, storeVars
<1> DEFINE k == issuer[c]
           line == LineOf("result", c, text, <<k, turn[k]>>)
<1>1. c \in 1 .. Len(issuer) /\ k \in Claims /\ k \in 1 .. Len(runOf) /\ Len(issuer) \in Nat
      /\ Len(runOf) \in Nat
  <2>1. Len(issuer) \in Nat BY LinesTyped DEF LinesInvariant
  <2>2. ~(c > Len(issuer)) BY DEF Claimed, InFlightOrPaused
  <2>3. c \in 1 .. Len(issuer) BY <2>1, <2>2 DEF Calls
  <2> QED BY <2>1, <2>3, LinesTyped DEF LinesInvariant
<1>2. /\ line \in Entry /\ line.kind = "result" /\ line.call = c /\ line.text = text
      /\ line.by = <<k, turn[k]>> /\ line.by[1] = k
  <2>1. line \in Entry BY <1>1, StampTyped, LineTyped
  <2> QED BY <2>1 DEF LineOf
<1>3. /\ call' = [call EXCEPT ![c] = text] /\ sends' = [sends EXCEPT ![c] = 0]
      /\ fresh' = [fresh EXCEPT ![k] = Append(@, line)]
  BY DEF Ends
<1> HIDE DEF line, k
<1>4. /\ Append(fresh[k], line) \in Seq(Entry)
      /\ ToSet(Append(fresh[k], line)) = ToSet(fresh[k]) \cup {line}
  <2>1. fresh[k] \in Seq(Entry) BY <1>1, HeldTyped
  <2> QED BY <1>2, <2>1, ElementsOfAppend
<1>5. /\ fresh' \in [Claims -> Seq(Entry)]
      /\ \A j \in Claims : ToSet(fresh'[j]) = IF j = k THEN ToSet(fresh[j]) \cup {line}
                                                    ELSE ToSet(fresh[j])
  BY <1>1, <1>3, <1>4 DEF TypeOK
<1>6. TypeOK'
  <2>1. call' \in [Calls -> CallState] /\ sends' \in [Calls -> 0 .. MaxSends]
    BY <1>3 DEF TypeOK, CallState
  <2> QED BY <1>5, <2>1 DEF TypeOK, CallState, Claims, Calls, Entry, Message, Answer, Row
<1>7. /\ \A d \in Calls : d # c => call'[d] = call[d]
      /\ call'[c] = text /\ ~InFlightOrPaused(c)' /\ Ended(c)' /\ ~Ended(c)
      /\ \A d \in Calls : InFlightOrPaused(d)' => InFlightOrPaused(d)
      /\ \A d \in Calls : Ended(d) => call'[d] = call[d]
  BY <1>3 DEF TypeOK, InFlightOrPaused, Ended
<1>8. Claimed'
  <2>1. \A d \in Calls : d > Len(issuer) => call'[d] = "none"
    BY <1>1, <1>7 DEF Claimed
  <2>2. \A d \in Calls : call'[d] = "backoff" => d # c BY <1>7
  <2>3. \A d \in Calls : d # c => sends'[d] = sends[d] BY <1>3 DEF TypeOK
  <2>4. \A d \in Calls : call'[d] = "backoff" => sends'[d] < MaxSends
    BY <1>7, <2>2, <2>3 DEF Claimed
  <2> QED BY <2>1, <2>4 DEF Claimed, Calls, Claims
<1>9. Rows' /\ NumberedOnce' /\ NumbersFollowExecutions' BY RowsStay
<1>10. Own'
  <2>1. ASSUME NEW j \in Claims PROVE OwnFresh(j)'
    <3>1. ASSUME NEW l \in ToSet(fresh[j])
          PROVE  ((l.kind = "call" /\ l.text = "") \/ IsReal(l)) /\ issuer[l.call] = j
      BY DEF Own, OwnFresh
    <3>2. j = k => (IsReal(line) /\ issuer[line.call] = j) BY <1>2 DEF IsReal, k
    <3> QED BY <1>5, <3>1, <3>2 DEF OwnFresh
  <2>2. Busy' \subseteq Busy BY <1>7 DEF Busy, Calls
  <2>3. ASSUME NEW j \in Claims PROVE OwnPipe(j)' BY DEF Own, OwnPipe
  <2>4. ASSUME NEW j \in Claims PROVE CommitsFirst(pipe[j], Busy)'
    <3>1. CommitsFirst(pipe[j], Busy) BY DEF Own
    <3> QED BY <2>2, <3>1 DEF CommitsFirst
  <2> QED BY <2>1, <2>3, <2>4 DEF Own, Claims
<1>11. \A d \in Calls : Settled(d) => Settled(d)'
  <2>1. \A d \in Calls : Settled(d) => ~InFlightOrPaused(d)' BY <1>7 DEF Settled
  <2> QED BY <1>1, <2>1, SettledStays
<1>12. Lines' \subseteq Lines \cup {line}
  BY <1>5 DEF Lines, Held, Claims
<1>13. Grows({line})
  <2>1. \A j \in Claims : Open(prior'[j]) = Open(prior[j]) OBVIOUS
  <2>2. \A d \in Calls : call'[d] = "shown" => call[d] = "shown" \/ d \in batches
    BY <1>7
  <2> QED BY <1>1, <1>7, <1>11, <1>12, <2>1, <2>2 DEF Grows
<1>14. TrueLines({line})
  BY <1>1, <1>2, <1>7 DEF TrueLines, IsReal, IsRecovered
<1> QED BY <1>2, <1>6, <1>8, <1>9, <1>10, <1>13, <1>14, GrowsKeeps

-----------------------------------------------------------------------------
(* What is sent and what is read.                                          *)

\* Lines that follow in a pipe and hold no commit keep each call behind its commits.
LEMMA CommitsFirstConcat ==
  ASSUME NEW s \in Seq(Message), NEW t \in Seq(Message), NEW busy,
         CommitsFirst(s, busy),
         \A l \in ToSet(t) : l.kind # "commit" /\ (l.kind = "call" => l.call \notin busy)
  PROVE  CommitsFirst(s \o t, busy)
<1> DEFINE st == s \o t
<1>1. /\ Len(st) = Len(s) + Len(t) /\ Len(s) \in Nat /\ Len(t) \in Nat
      /\ \A i \in 1 .. Len(s) + Len(t) : st[i] = IF i <= Len(s) THEN s[i] ELSE t[i - Len(s)]
      /\ \A i \in 1 .. Len(t) : t[i] \in ToSet(t)
  BY ElementsOfConcat, ElementsOf
<1> HIDE DEF st
<1>2. \A i \in 1 .. Len(st) :
         \/ i \in 1 .. Len(s) /\ st[i] = s[i]
         \/ ~(i <= Len(s)) /\ st[i] \in ToSet(t)
  <2> SUFFICES ASSUME NEW i \in 1 .. Len(st), ~(i \in 1 .. Len(s) /\ st[i] = s[i])
               PROVE  ~(i <= Len(s)) /\ st[i] \in ToSet(t)
    OBVIOUS
  <2>1. ~(i <= Len(s)) /\ i - Len(s) \in 1 .. Len(t) BY <1>1
  <2> QED BY <1>1, <2>1
<1>3. ASSUME NEW i \in 1 .. Len(st), st[i].kind = "call"
      PROVE  /\ st[i].call \notin busy
             /\ \A j \in 1 .. Len(st) : i < j /\ st[j].kind = "commit" => st[j].call # st[i].call
  <2>1. CASE i \in 1 .. Len(s) /\ st[i] = s[i]
    <3>1. s[i].call \notin busy BY <1>3, <2>1 DEF CommitsFirst
    <3>2. ASSUME NEW j \in 1 .. Len(st), i < j, st[j].kind = "commit" PROVE st[j].call # st[i].call
      <4>1. j \in 1 .. Len(s) /\ st[j] = s[j] BY <1>2, <3>2
      <4> QED BY <1>3, <2>1, <3>2, <4>1 DEF CommitsFirst
    <3> QED BY <2>1, <3>1, <3>2
  <2>2. CASE ~(i <= Len(s)) /\ st[i] \in ToSet(t)
    <3>1. st[i].call \notin busy BY <1>3, <2>2
    <3>2. ASSUME NEW j \in 1 .. Len(st), i < j PROVE st[j].kind # "commit"
      <4>1. ~(j <= Len(s)) BY <1>1, <2>2, <3>2
      <4>2. st[j] \in ToSet(t) BY <1>2, <4>1
      <4> QED BY <4>2
    <3> QED BY <3>1, <3>2
  <2> QED BY <1>2, <2>1, <2>2
<1>4. CommitsFirst(st, busy) BY <1>3 DEF CommitsFirst
<1> QED BY <1>4 DEF st

\* The same for a commit that no call of the pipe is about.
LEMMA CommitsFirstAppend ==
  ASSUME NEW s \in Seq(Message), NEW l \in Message, NEW busy, NEW more,
         CommitsFirst(s, busy), l.kind = "commit", more \subseteq busy \cup {l.call},
         \A i \in 1 .. Len(s) : s[i].kind = "call" => s[i].call # l.call
  PROVE  CommitsFirst(Append(s, l), more)
<1> DEFINE t == Append(s, l)
<1>1. /\ Len(t) = Len(s) + 1 /\ Len(s) \in Nat
      /\ \A i \in 1 .. Len(s) + 1 : t[i] = IF i <= Len(s) THEN s[i] ELSE l
  BY ElementsOfAppend, ElementsOf
<1> HIDE DEF t
<1>2. \A i \in 1 .. Len(t) : (i \in 1 .. Len(s) /\ t[i] = s[i]) \/ t[i] = l BY <1>1
<1>3. ASSUME NEW i \in 1 .. Len(t), t[i].kind = "call"
      PROVE  /\ t[i].call \notin more
             /\ \A j \in 1 .. Len(t) : i < j /\ t[j].kind = "commit" => t[j].call # t[i].call
  <2>1. i \in 1 .. Len(s) /\ t[i] = s[i] BY <1>2, <1>3
  <2>2. t[i].call \notin busy /\ t[i].call # l.call BY <1>3, <2>1 DEF CommitsFirst
  <2>3. ASSUME NEW j \in 1 .. Len(t), i < j, t[j].kind = "commit" PROVE t[j].call # t[i].call
    <3>1. CASE t[j] = l BY <2>2, <3>1
    <3>2. CASE j \in 1 .. Len(s) /\ t[j] = s[j] BY <1>3, <2>1, <2>3, <3>2 DEF CommitsFirst
    <3> QED BY <1>2, <3>1, <3>2
  <2> QED BY <2>2, <2>3
<1>4. CommitsFirst(t, more) BY <1>3 DEF CommitsFirst
<1> QED BY <1>4 DEF t

\* Reading the first line keeps the order of the rest.
LEMMA CommitsFirstTail ==
  ASSUME NEW s \in Seq(Message), NEW busy, CommitsFirst(s, busy), s # <<>>
  PROVE  /\ CommitsFirst(Tail(s), busy)
         /\ Head(s).kind = "call" =>
              /\ Head(s).call \notin busy
              /\ \A l \in ToSet(Tail(s)) : l.kind = "commit" => l.call # Head(s).call
<1> DEFINE t == Tail(s)
<1>1. /\ t \in Seq(Message) /\ Len(s) >= 1 /\ Head(s) = s[1] /\ Len(t) = Len(s) - 1
      /\ Len(s) \in Nat /\ Len(t) \in Nat
      /\ \A i \in 1 .. Len(t) : t[i] = s[i + 1]
      /\ \A l \in ToSet(t) : \E i \in 1 .. Len(t) : t[i] = l
  <2>1. /\ t \in Seq(Message) /\ Len(s) >= 1 /\ Head(s) = s[1] /\ Len(t) = Len(s) - 1
        /\ \A i \in 1 .. Len(t) : t[i] = s[i + 1]
    BY ElementsOfTail
  <2> HIDE DEF t
  <2> QED BY <2>1, ElementsOf
<1> HIDE DEF t
<1>2. \A i \in 1 .. Len(t) : i + 1 \in 1 .. Len(s) BY <1>1
<1>3. 1 \in 1 .. Len(s) BY <1>1
<1>4. CommitsFirst(t, busy)
  <2>1. ASSUME NEW i \in 1 .. Len(t), t[i].kind = "call"
        PROVE  /\ t[i].call \notin busy
               /\ \A j \in 1 .. Len(t) : i < j /\ t[j].kind = "commit" => t[j].call # t[i].call
    <3>1. s[i + 1].kind = "call" /\ t[i] = s[i + 1] /\ i + 1 \in 1 .. Len(s)
      BY <1>1, <1>2, <2>1
    <3>2. t[i].call \notin busy BY <3>1 DEF CommitsFirst
    <3>3. ASSUME NEW j \in 1 .. Len(t), i < j, t[j].kind = "commit" PROVE t[j].call # t[i].call
      <4>1. t[j] = s[j + 1] /\ j + 1 \in 1 .. Len(s) /\ i + 1 < j + 1 BY <1>1, <1>2, <3>3
      <4> QED BY <3>1, <3>3, <4>1 DEF CommitsFirst
    <3> QED BY <3>2, <3>3
  <2> QED BY <2>1 DEF CommitsFirst
<1>5. ASSUME Head(s).kind = "call"
      PROVE  /\ Head(s).call \notin busy
             /\ \A l \in ToSet(t) : l.kind = "commit" => l.call # Head(s).call
  <2>1. s[1].call \notin busy BY <1>1, <1>3, <1>5 DEF CommitsFirst
  <2>2. ASSUME NEW l \in ToSet(t), l.kind = "commit" PROVE l.call # s[1].call
    <3>1. PICK i \in 1 .. Len(t) : t[i] = l BY <1>1
    <3>2. l = s[i + 1] /\ i + 1 \in 1 .. Len(s) /\ 1 < i + 1 BY <1>1, <1>2, <3>1
    <3> QED BY <1>1, <1>3, <1>5, <2>2, <3>2 DEF CommitsFirst
  <2> QED BY <1>1, <2>1, <2>2
<1> QED BY <1>4, <1>5 DEF t

\* What the Host finds at the head of a pipe, and what it leaves behind.
LEMMA ReadsHead ==
  ASSUME IInv, NEW k \in Claims, pipe[k] # <<>>, pipe' = [pipe EXCEPT ![k] = Tail(@)]
  PROVE  /\ pipe' \in [Claims -> Seq(Message)]
         /\ \A j \in Claims : ToSet(pipe'[j]) \subseteq ToSet(pipe[j])
         /\ \A j \in Claims : CommitsFirst(pipe'[j], Busy)
         /\ Head(pipe[k]) \in ToSet(pipe[k]) /\ Head(pipe[k]) \in Lines
         /\ Head(pipe[k]) \in Message
         /\ Head(pipe[k]).kind = "call" =>
              /\ Head(pipe[k]).call \notin Busy
              /\ \A l \in ToSet(pipe'[k]) : l.kind = "commit" => l.call # Head(pipe[k]).call
<1> USE DEF IInv
<1>1. pipe[k] \in Seq(Message) /\ CommitsFirst(pipe[k], Busy) BY DEF TypeOK, Own
<1>2. /\ Tail(pipe[k]) \in Seq(Message) /\ Head(pipe[k]) \in Message
      /\ ToSet(pipe[k]) = ToSet(Tail(pipe[k])) \cup {Head(pipe[k])}
  BY <1>1, ElementsOfTail
<1>3. /\ CommitsFirst(Tail(pipe[k]), Busy)
      /\ Head(pipe[k]).kind = "call" =>
           /\ Head(pipe[k]).call \notin Busy
           /\ \A l \in ToSet(Tail(pipe[k])) : l.kind = "commit" => l.call # Head(pipe[k]).call
  BY <1>1, CommitsFirstTail
<1>4. /\ pipe' \in [Claims -> Seq(Message)] /\ pipe'[k] = Tail(pipe[k])
      /\ \A j \in Claims : j # k => pipe'[j] = pipe[j]
  BY <1>2 DEF TypeOK
<1>5. Head(pipe[k]) \in Lines BY <1>2 DEF Lines, Held
<1>6. \A j \in Claims : CommitsFirst(pipe'[j], Busy) BY <1>3, <1>4 DEF Own
<1> QED BY <1>2, <1>3, <1>4, <1>5, <1>6

\* The Host reads an entry: what enters the log is of its owner, and a call that enters
\* it is settled.
LEMMA ReadEntryStep ==
  ASSUME IInv, NEW k \in Claims, ReadEntry(k)
  PROVE  IInv'
<1> USE DEF IInv
<1>0. PICK line : line = Head(pipe[k]) OBVIOUS
<1>1. /\ pipe[k] # <<>> /\ line.kind # "commit" /\ pipe' = [pipe EXCEPT ![k] = Tail(@)]
      /\ log' = IF owner = k THEN Append(log, line) ELSE log
      /\ UNCHANGED <<runOf, owner, batches, evidence, engineVars, answers, callVars>>
  BY <1>0 DEF ReadEntry, StoreEntry
<1>2. /\ pipe' \in [Claims -> Seq(Message)]
      /\ \A j \in Claims : ToSet(pipe'[j]) \subseteq ToSet(pipe[j])
      /\ \A j \in Claims : CommitsFirst(pipe'[j], Busy)
      /\ line \in ToSet(pipe[k]) /\ line \in Lines /\ line \in Message
      /\ line.kind = "call" =>
           /\ line.call \notin Busy
           /\ \A l \in ToSet(pipe'[k]) : l.kind = "commit" => l.call # line.call
  BY <1>0, <1>1, ReadsHead
<1>3. line \in Entry BY <1>1, <1>2 DEF Message
<1>4. /\ log' \in Seq(Entry)
      /\ \A l \in ToSet(log') : l \in ToSet(log) \/ (l = line /\ owner = k)
  <2>1. log \in Seq(Entry) BY DEF TypeOK
  <2>2. CASE owner = k
    <3>1. /\ Append(log, line) \in Seq(Entry)
          /\ ToSet(Append(log, line)) = ToSet(log) \cup {line}
      BY <1>3, <2>1, ElementsOfAppend
    <3> QED BY <1>1, <2>2, <3>1
  <2>3. CASE owner # k BY <1>1, <2>1, <2>3
  <2> QED BY <2>2, <2>3
<1> USE DEF engineVars, callVars
<1>5. TypeOK'
  BY <1>1, <1>2, <1>4 DEF TypeOK, Claims, Calls, Entry, Message, Answer, Row
<1>6. Claimed' BY <1>1 DEF Claimed, Claims, Calls
<1>7. Rows' /\ NumberedOnce' /\ NumbersFollowExecutions' BY <1>1, RowsStay
<1>8. Busy' = Busy BY <1>1 DEF Busy, Calls, InFlightOrPaused
<1>9. Own'
  <2>1. ASSUME NEW j \in Claims PROVE OwnFresh(j)' /\ OwnPipe(j)'
    BY <1>1, <1>2 DEF Own, OwnFresh, OwnPipe
  <2> QED BY <1>2, <1>8, <2>1 DEF Own, Claims
<1>10. /\ Len(runOf) \in Nat /\ Len(issuer) \in Nat
       /\ line.kind # "user" => line.call \in 1 .. Len(issuer) /\ line.call \in Calls
  BY <1>2, LinesTyped DEF LinesInvariant
<1>11. \A c \in Calls : Settled(c) => Settled(c)'
  <2>1. \A c \in Calls : Settled(c) => ~InFlightOrPaused(c)'
    BY <1>1 DEF Settled, InFlightOrPaused
  <2>2. Len(issuer) <= Len(issuer') BY <1>1, <1>10
  <2> QED BY <1>2, <2>1, <2>2, SettledStays
<1>12. line.kind = "call" => Settled(line.call)'
  <2> SUFFICES ASSUME line.kind = "call" PROVE Settled(line.call)' OBVIOUS
  <2>1. line.call \in 1 .. Len(issuer') BY <1>1, <1>10
  <2>2. ~InFlightOrPaused(line.call)' BY <1>1, <1>2, <1>10 DEF Busy, InFlightOrPaused
  <2>3. ASSUME NEW j \in Claims, NEW l \in ToSet(pipe'[j]), l.kind = "commit"
        PROVE  l.call # line.call
    <3>1. CASE j = k BY <1>2, <2>3, <3>1
    <3>2. CASE j # k
      <4>1. issuer[l.call] = j BY <1>2, <2>3 DEF Own, OwnPipe
      <4>2. issuer[line.call] = k BY <1>2 DEF Own, OwnPipe
      <4> QED BY <3>2, <4>1, <4>2
    <3> QED BY <3>1, <3>2
  <2> QED BY <2>1, <2>2, <2>3 DEF Settled, Claims
<1>13. Lines' \subseteq Lines BY <1>1, <1>2, <1>4 DEF Lines, Held, Claims
<1>14. IsReal(line) => issuer[line.call] = k BY <1>2 DEF Own, OwnPipe
<1>15. k # 0 BY DEF Claims
<1>16. Grows({})
  <2>1. Len(runOf) <= Len(runOf') /\ Len(issuer) <= Len(issuer') BY <1>1, <1>10
  <2>2. \A l \in ToSet(log') :
          \/ l \in ToSet(log)
          \/ /\ l \in Lines /\ owner # 0 /\ (l.kind = "call" => Settled(l.call)')
             /\ IsReal(l) => issuer[l.call] = owner
    BY <1>2, <1>4, <1>12, <1>14, <1>15
  <2>3. \A j \in Claims : Open(prior'[j]) = Open(prior[j]) BY <1>1
  <2> QED BY <1>1, <1>11, <1>13, <2>1, <2>2, <2>3 DEF Grows
<1>17. TrueLines({}) BY DEF TrueLines
<1> QED BY <1>5, <1>6, <1>7, <1>9, <1>16, <1>17, GrowsKeeps

\* A batch that is saved is numbered behind all that is there.
LEMMA SaveBatchNumbers ==
  ASSUME IInv, owner # 0, NEW c \in Calls, c \notin batches, issuer[c] = owner,
         issuer' = issuer, SaveBatch(c)
  PROVE  /\ batches' = batches \cup {c} /\ evidence' \subseteq Row
         /\ Rows' /\ NumberedOnce' /\ NumbersFollowExecutions'
<1> USE DEF IInv
<1> DEFINE row(m, i) == [number |-> m + i, call |-> c, item |-> i]
<1>1. PICK n \in Nat : {e.number : e \in evidence} = 1 .. n BY DEF Rows
<1>2. HighestNumber = n
  <2>1. {0} \cup {e.number : e \in evidence} = 0 .. n BY <1>1
  <2>2. n \in 0 .. n BY <1>1
  <2>3. Max(0 .. n) \in 0 .. n /\ Max(0 .. n) >= n BY <2>2, MaxOfInterval
  <2>4. Max(0 .. n) = n BY <2>3
  <2> QED BY <2>1, <2>4 DEF HighestNumber
<1>3. /\ batches' = batches \cup {c}
      /\ evidence' = evidence \cup {row(n, i) : i \in 1 .. Items(c)}
  BY <1>2 DEF SaveBatch
<1>4. Items(c) \in Nat OBVIOUS
<1>5. \A e \in evidence : e \in Row /\ e.number \in 1 .. n /\ e.call # c
                          /\ e.call \in batches /\ e.item \in 1 .. Items(e.call)
  BY <1>1 DEF TypeOK, Rows
<1>6. \A i \in 1 .. Items(c) : row(n, i).number = n + i /\ row(n, i).call = c /\ row(n, i).item = i
  OBVIOUS
<1>7. \A i \in 1 .. Items(c) : row(n, i) \in Row
  <2>1. \A i \in 1 .. Items(c) : n + i \in Nat /\ i \in Nat BY <1>1, <1>4
  <2> QED BY <2>1 DEF Row
<1>8. \A e \in evidence' : e \in evidence \/ \E i \in 1 .. Items(c) : e = row(n, i)
  BY <1>3
<1> HIDE DEF row
<1>9. evidence' \subseteq Row BY <1>5, <1>7, <1>8
<1>10. {e.number : e \in evidence'} = 1 .. n + Items(c)
  <2>1. ASSUME NEW e \in evidence' PROVE e.number \in 1 .. n + Items(c)
    <3>1. CASE e \in evidence
      <4>1. e.number \in 1 .. n BY <1>5, <3>1
      <4> QED BY <1>1, <1>4, <4>1
    <3>2. ASSUME NEW i \in 1 .. Items(c), e = row(n, i) PROVE e.number \in 1 .. n + Items(c)
      BY <1>1, <1>4, <1>6, <3>2
    <3> QED BY <1>8, <3>1, <3>2
  <2>2. ASSUME NEW m \in 1 .. n + Items(c) PROVE \E e \in evidence' : e.number = m
    <3>1. CASE m <= n
      <4>1. m \in 1 .. n BY <1>1, <1>4, <3>1
      <4> QED BY <1>1, <1>3, <4>1
    <3>2. CASE ~(m <= n)
      <4>1. m - n \in 1 .. Items(c) /\ n + (m - n) = m BY <1>1, <1>4, <3>2
      <4>2. row(n, m - n) \in evidence' BY <1>3, <4>1
      <4> QED BY <1>6, <4>1, <4>2
    <3> QED BY <3>1, <3>2
  <2> QED BY <2>1, <2>2
<1>11. HighestNumber' = n + Items(c)
  <2>1. n + Items(c) \in Nat BY <1>1, <1>4
  <2>2. {0} \cup {e.number : e \in evidence'} = 0 .. n + Items(c)
    <3>1. \A N \in Nat : {0} \cup 1 .. N = 0 .. N OBVIOUS
    <3> QED BY <1>10, <2>1, <3>1
  <2> DEFINE N == n + Items(c)
  <2>3. N \in 0 .. N /\ 0 .. N \subseteq 0 .. N BY <2>1
  <2> HIDE DEF N
  <2>4. N \in Nat BY <2>1 DEF N
  <2>5. Max(0 .. N) \in 0 .. N /\ Max(0 .. N) >= N BY <2>3, <2>4, MaxOfInterval
  <2>6. Max(0 .. N) = N BY <2>4, <2>5
  <2> QED BY <2>2, <2>6 DEF HighestNumber, N
<1>12. Rows'
  <2>1. n + Items(c) \in Nat BY <1>1, <1>4
  <2>2. \A e \in evidence' : e.call \in batches' /\ e.item \in 1 .. Items(e.call)
    BY <1>3, <1>5, <1>6, <1>8
  <2> QED BY <1>10, <2>1, <2>2 DEF Rows
<1>13. NumberedOnce'
  <2>1. ASSUME NEW e \in evidence', NEW f \in evidence',
               e.number = f.number \/ (e.call = f.call /\ e.item = f.item)
        PROVE  e = f
    <3>1. CASE e \in evidence /\ f \in evidence BY <2>1, <3>1 DEF NumberedOnce
    <3>2. ASSUME NEW g \in evidence, NEW i \in 1 .. Items(c)
          PROVE  g.number # row(n, i).number /\ g.call # row(n, i).call
      BY <1>1, <1>4, <1>5, <1>6
    <3>3. ASSUME NEW h \in 1 .. Items(c), NEW i \in 1 .. Items(c), e = row(n, h), f = row(n, i)
          PROVE  e = f
      <4>1. h = i BY <1>1, <1>4, <1>6, <2>1, <3>3
      <4> QED BY <3>3, <4>1
    <3> QED BY <1>8, <2>1, <3>1, <3>2, <3>3
  <2>2. {e.number : e \in evidence'} = 1 .. HighestNumber' BY <1>10, <1>11
  <2>3. ASSUME NEW e \in evidence', NEW f \in evidence', e.call = f.call, e.item < f.item
        PROVE  f.number - e.number = f.item - e.item
    <3>1. CASE e \in evidence /\ f \in evidence BY <2>3, <3>1 DEF NumberedOnce
    <3>2. ASSUME NEW g \in evidence, NEW i \in 1 .. Items(c) PROVE g.call # row(n, i).call
      BY <1>5, <1>6
    <3>3. ASSUME NEW h \in 1 .. Items(c), NEW i \in 1 .. Items(c), e = row(n, h), f = row(n, i)
          PROVE  f.number - e.number = f.item - e.item
      <4>1. e.number = n + h /\ f.number = n + i /\ e.item = h /\ f.item = i BY <1>6, <3>3
      <4> QED BY <1>1, <1>4, <4>1
    <3> QED BY <1>8, <2>3, <3>1, <3>2, <3>3
  <2> QED BY <2>1, <2>2, <2>3 DEF NumberedOnce
<1>14. NumbersFollowExecutions'
  <2>1. \A e \in evidence : issuer[e.call] \in 1 .. Len(runOf)
    <3> SUFFICES ASSUME NEW e \in evidence PROVE issuer[e.call] \in 1 .. Len(runOf) OBVIOUS
    <3>1. e.call \in batches /\ e.call \in Calls /\ Len(issuer) \in Nat
      BY <1>5, LinesTyped DEF LinesInvariant, TypeOK
    <3>2. e.call \in 1 .. Len(issuer)
      <4>1. ~(e.call > Len(issuer)) BY <3>1 DEF Claimed
      <4> QED BY <3>1, <4>1 DEF Calls
    <3> QED BY <3>2, LinesTyped DEF LinesInvariant
  <2>2. issuer[c] = Len(runOf) /\ Len(runOf) \in Nat
    BY LinesTyped DEF Claimed, LinesInvariant
  <2> SUFFICES ASSUME NEW e \in evidence', NEW f \in evidence', issuer[e.call] < issuer[f.call]
               PROVE  e.number < f.number
    BY DEF NumbersFollowExecutions
  <2>3. CASE e \in evidence /\ f \in evidence BY <2>3 DEF NumbersFollowExecutions
  <2>4. ASSUME NEW i \in 1 .. Items(c), e = row(n, i) PROVE FALSE
    <3>1. issuer[e.call] = Len(runOf) BY <1>6, <2>2, <2>4
    <3>2. issuer[f.call] \in 1 .. Len(runOf) \/ issuer[f.call] = Len(runOf)
      BY <1>6, <1>8, <2>1, <2>2
    <3> QED BY <2>2, <3>1, <3>2
  <2>5. ASSUME e \in evidence, NEW i \in 1 .. Items(c), f = row(n, i) PROVE e.number < f.number
    BY <1>1, <1>4, <1>5, <1>6, <2>5
  <2> QED BY <1>8, <2>3, <2>4, <2>5
<1> QED BY <1>3, <1>9, <1>12, <1>13, <1>14

\* The Host reads a commit: it saves the batch or not, and may answer.
LEMMA ReadCommitStep ==
  ASSUME IInv, NEW k \in Claims, ReadCommit(k)
  PROVE  IInv'
<1> USE DEF IInv
<1>0. PICK c : c = Head(pipe[k]).call OBVIOUS
<1>1. /\ pipe[k] # <<>> /\ Head(pipe[k]).kind = "commit"
      /\ pipe' = [pipe EXCEPT ![k] = Tail(@)]
      /\ UNCHANGED <<runOf, owner, log, engineVars, callVars>>
      /\ \/ owner = k /\ SaveBatch(c) /\ Reply(k, c, "ack")
         \/ owner # k /\ UNCHANGED <<batches, evidence>> /\ Reply(k, c, "lease_lost")
         \/ UNCHANGED <<batches, evidence, answers>>
  BY <1>0 DEF ReadCommit
<1>2. /\ pipe' \in [Claims -> Seq(Message)]
      /\ \A j \in Claims : ToSet(pipe'[j]) \subseteq ToSet(pipe[j])
      /\ \A j \in Claims : CommitsFirst(pipe'[j], Busy)
      /\ Head(pipe[k]) \in ToSet(pipe[k]) /\ Head(pipe[k]) \in Lines
  BY <1>1, ReadsHead
<1>3. /\ c \in 1 .. Len(issuer) /\ c \in Calls /\ issuer[c] = k
      /\ Len(issuer) \in Nat /\ Len(runOf) \in Nat
  <2>1. issuer[c] = k BY <1>0, <1>1, <1>2 DEF Own, OwnPipe
  <2> QED BY <1>0, <1>1, <1>2, <2>1, LinesTyped DEF LinesInvariant
<1>4. \A d \in Calls : Settled(d) => d # c BY <1>0, <1>1, <1>2 DEF Settled
<1> USE DEF engineVars, callVars
<1>5. k # 0 BY DEF Claims
<1>7. /\ evidence' \subseteq Row /\ batches' \subseteq batches \cup {c} /\ batches \subseteq batches'
      /\ Rows' /\ NumberedOnce' /\ NumbersFollowExecutions'
  <2>1. CASE UNCHANGED <<batches, evidence>>
    <3>1. evidence' \subseteq Row BY <2>1 DEF TypeOK
    <3>2. Rows' /\ NumberedOnce' /\ NumbersFollowExecutions' BY <1>1, <2>1, RowsStay
    <3> QED BY <2>1, <3>1, <3>2
  <2>2. CASE owner = k /\ SaveBatch(c) /\ c \notin batches
    BY <1>1, <1>3, <1>5, <2>2, SaveBatchNumbers
  <2>3. CASE c \in batches /\ SaveBatch(c)
    <3>1. UNCHANGED <<batches, evidence>> BY <2>3 DEF SaveBatch
    <3> QED BY <2>1, <3>1
  <2> QED BY <1>1, <2>1, <2>2, <2>3
<1>8. \A a \in answers' :
         \/ a \in answers
         \/ /\ a \in Answer /\ a.call = c /\ (a.verdict = "ack" => c \in batches')
  <2>1. CASE owner = k /\ SaveBatch(c) /\ Reply(k, c, "ack")
    <3>1. c \in batches' BY <2>1 DEF SaveBatch
    <3>2. [call |-> c, verdict |-> "ack"] \in Answer BY <1>3 DEF Answer
    <3> QED BY <2>1, <3>1, <3>2 DEF Reply
  <2>2. CASE Reply(k, c, "lease_lost")
    <3>1. [call |-> c, verdict |-> "lease_lost"] \in Answer BY <1>3 DEF Answer
    <3> QED BY <2>2, <3>1 DEF Reply
  <2> QED BY <1>1, <2>1, <2>2
<1>9. TypeOK'
  <2>1. answers' \subseteq Answer BY <1>8 DEF TypeOK
  <2>2. batches' \subseteq Calls BY <1>3, <1>7 DEF TypeOK
  <2> QED BY <1>1, <1>2, <1>7, <2>1, <2>2 DEF TypeOK, Claims, Calls, Entry, Message, Answer, Row
<1>10. Claimed'
  <2>1. \A a \in answers' : a.call <= Len(issuer)
    BY <1>3, <1>8 DEF Claimed
  <2>2. \A d \in Calls : d > Len(issuer) => call[d] = "none" /\ d \notin batches'
    BY <1>3, <1>7 DEF Claimed
  <2> QED BY <1>1, <2>1, <2>2 DEF Claimed, Claims, Calls
<1>11. Own'
  <2>1. Busy' = Busy BY <1>1 DEF Busy, Calls, InFlightOrPaused
  <2>2. ASSUME NEW j \in Claims PROVE OwnFresh(j)' /\ OwnPipe(j)'
    BY <1>1, <1>2 DEF Own, OwnFresh, OwnPipe
  <2> QED BY <1>2, <2>1, <2>2 DEF Own, Claims
<1>12. \A d \in Calls : Settled(d) => Settled(d)'
  <2>1. \A d \in Calls : Settled(d) => ~InFlightOrPaused(d)'
    BY <1>1 DEF Settled, InFlightOrPaused
  <2>2. Len(issuer) <= Len(issuer') BY <1>1, <1>3
  <2> QED BY <1>2, <2>1, <2>2, SettledStays
<1>13. Lines' \subseteq Lines BY <1>1, <1>2 DEF Lines, Held, Claims
<1>14. Grows({})
  <2>1. Len(runOf) <= Len(runOf') /\ Len(issuer) <= Len(issuer') BY <1>1, <1>3
  <2>2. \A j \in Claims : Open(prior'[j]) = Open(prior[j]) BY <1>1
  <2>3. \A d \in Calls : Settled(d) => (d \in batches' => d \in batches) BY <1>4, <1>7
  <2>4. \A a \in answers' : a.verdict = "ack" => a \in answers \/ a.call \in batches'
    BY <1>8
  <2> QED BY <1>1, <1>7, <1>12, <1>13, <2>1, <2>2, <2>3, <2>4 DEF Grows
<1>15. TrueLines({}) BY DEF TrueLines
<1> QED BY <1>7, <1>9, <1>10, <1>11, <1>14, <1>15, GrowsKeeps

\* A line that is a commit of call c by claim k.
IsCommit(line, k, c) ==
  line \in Message /\ line.kind = "commit" /\ line.call = c /\ line.text = "" /\ line.by[1] = k

\* What sending it does to the pipes.
Sent(k, c) ==
  /\ pipe' \in [Claims -> Seq(Message)]
  /\ \A j \in Claims : OwnPipe(j)' /\ CommitsFirst(pipe[j], Busy)'
  /\ \A d \in Calls : Settled(d) => Settled(d)'
  /\ \E line : /\ IsCommit(line, k, c)
               /\ \A j \in Claims : ToSet(pipe'[j]) \subseteq ToSet(pipe[j]) \cup {line}

\* A batch is sent, the first time or again: the pipe has one more commit of a call that
\* is on the way, and no entry about that call.
LEMMA SendStep ==
  ASSUME IInv, NEW k \in Claims, NEW c \in Calls, issuer'[c] = k, k <= Len(runOf),
         Send(k, c), InFlightOrPaused(c)', ~Settled(c), c <= Len(issuer'),
         Len(issuer) <= Len(issuer'), \A d \in 1 .. Len(issuer) : issuer'[d] = issuer[d],
         \A d \in Calls : d # c => call'[d] = call[d],
         \A l \in ToSet(pipe[k]) : l.kind = "call" => l.call # c
  PROVE  Sent(k, c)
<1> USE DEF IInv
<1>1. PICK line : line = LineOf("commit", c, "", <<k, turn[k]>>) OBVIOUS
<1>2. /\ line \in Message /\ line.kind = "commit" /\ line.call = c /\ line.text = ""
      /\ line.by[1] = k
  <2>1. line \in Message BY <1>1, StampTyped, LineTyped
  <2>2. line.by = <<k, turn[k]>> BY <1>1 DEF LineOf
  <2>3. line.kind = "commit" /\ line.call = c /\ line.text = "" BY <1>1 DEF LineOf
  <2>4. line.by[1] = k BY <2>2
  <2> QED BY <2>1, <2>3, <2>4
<1>3. pipe' = [pipe EXCEPT ![k] = Append(@, line)] BY <1>1 DEF Send
<1>4. \A j \in Claims : pipe[j] \in Seq(Message) BY DEF TypeOK
<1>5. /\ Append(pipe[k], line) \in Seq(Message)
      /\ ToSet(Append(pipe[k], line)) = ToSet(pipe[k]) \cup {line}
  <2>1. pipe[k] \in Seq(Message) /\ line \in Message BY <1>2, <1>4
  <2> HIDE DEF Message
  <2> QED BY <2>1, ElementsOfAppend
<1>6. /\ pipe' \in [Claims -> Seq(Message)] /\ pipe'[k] = Append(pipe[k], line)
      /\ \A j \in Claims : j # k => pipe'[j] = pipe[j]
  BY <1>3, <1>5 DEF TypeOK
<1>7. \A j \in Claims : ToSet(pipe'[j]) \subseteq ToSet(pipe[j]) \cup {line} BY <1>5, <1>6
<1>8. Len(issuer) \in Nat
      /\ \A j \in Claims : \A l \in ToSet(pipe[j]) :
           l.kind # "user" => l.call \in 1 .. Len(issuer) /\ l.call \in Calls
  BY LinesTyped DEF LinesInvariant, Lines, Held
<1>9. ASSUME NEW j \in Claims PROVE OwnPipe(j)'
  <2> SUFFICES ASSUME NEW l \in ToSet(pipe'[j]), l.kind \in {"commit", "call"} \/ IsReal(l)
               PROVE  issuer'[l.call] = j
    BY DEF OwnPipe
  <2>1. l.kind # "user" BY DEF IsReal
  <2>2. CASE l \in ToSet(pipe[j])
    <3>1. issuer[l.call] = j BY <2>2 DEF Own, OwnPipe
    <3> QED BY <1>8, <2>1, <2>2, <3>1
  <2>3. CASE l \notin ToSet(pipe[j])
    <3>1. l = line /\ j = k BY <1>5, <1>6, <2>3
    <3> QED BY <1>2, <3>1
  <2> QED BY <2>2, <2>3
<1>10. \A d \in Calls : InFlightOrPaused(d)' => d = c \/ InFlightOrPaused(d)
  BY DEF InFlightOrPaused
<1>11. Busy' \subseteq Busy \cup {c} BY <1>10 DEF Busy, Calls
<1>12. ASSUME NEW j \in Claims PROVE CommitsFirst(pipe[j], Busy)'
  <2>1. CommitsFirst(pipe[j], Busy) BY DEF Own
  <2>2. CASE j = k
    <3>1. \A i \in 1 .. Len(pipe[k]) : pipe[k][i].kind = "call" => pipe[k][i].call # c
      BY <1>4, ElementsOf
    <3>2. PICK more : more = Busy' OBVIOUS
    <3>3. CommitsFirst(Append(pipe[k], line), more)
      BY <1>2, <1>4, <1>11, <2>1, <2>2, <3>1, <3>2, CommitsFirstAppend
    <3> QED BY <1>6, <2>2, <3>2, <3>3
  <2>3. CASE j # k
    <3>1. ASSUME NEW i \in 1 .. Len(pipe[j]), pipe[j][i].kind = "call"
          PROVE  pipe[j][i].call \notin Busy'
      <4>1. pipe[j][i] \in ToSet(pipe[j]) BY <1>4, ElementsOf
      <4>2. issuer[pipe[j][i].call] = j /\ pipe[j][i].call \in 1 .. Len(issuer)
        BY <1>8, <3>1, <4>1 DEF Own, OwnPipe
      <4>3. pipe[j][i].call # c BY <2>3, <4>2
      <4>4. pipe[j][i].call \notin Busy BY <2>1, <3>1 DEF CommitsFirst
      <4> QED BY <1>11, <4>3, <4>4
    <3>2. pipe'[j] = pipe[j] BY <1>6, <2>3
    <3> QED BY <2>1, <3>1, <3>2 DEF CommitsFirst
  <2> QED BY <2>2, <2>3
<1>13. \A d \in Calls : Settled(d) => Settled(d)'
  <2>1. \A d \in Calls : Settled(d) => ~InFlightOrPaused(d)'
    BY <1>10 DEF Settled
  <2>2. \A j \in Claims : \A l \in ToSet(pipe'[j]) :
          l.kind = "commit" => l \in ToSet(pipe[j]) \/ InFlightOrPaused(l.call)'
    <3>1. \A j \in Claims : \A l \in ToSet(pipe'[j]) : l \in ToSet(pipe[j]) \/ l.call = c
      BY <1>2, <1>7
    <3>2. \A d : d = c => InFlightOrPaused(d)' OBVIOUS
    <3> QED BY <3>1, <3>2
  <2> QED BY <2>1, <2>2, SettledStays
<1>14. IsCommit(line, k, c) BY <1>2 DEF IsCommit
<1> QED BY <1>6, <1>7, <1>9, <1>12, <1>13, <1>14 DEF Sent

\* A batch is sent again.
LEMMA ResendStep ==
  ASSUME IInv, NEW c \in Calls, Resend(c)
  PROVE  IInv'
<1> USE DEF IInv, storeVars, engineVars
<1>0. PICK k : k = issuer[c] OBVIOUS
<1>1. /\ call[c] = "backoff" /\ call' = [call EXCEPT ![c] = "waiting"]
      /\ sends' = [sends EXCEPT ![c] = @ + 1] /\ Send(k, c)
      /\ UNCHANGED <<storeVars, engineVars, answers, issuer>>
  BY <1>0 DEF Resend
<1>2. c \in 1 .. Len(issuer) /\ k \in Claims /\ k \in 1 .. Len(runOf) /\ Len(issuer) \in Nat
      /\ Len(runOf) \in Nat
  <2>1. Len(issuer) \in Nat BY LinesTyped DEF LinesInvariant
  <2>2. ~(c > Len(issuer)) BY <1>1 DEF Claimed
  <2>3. c \in 1 .. Len(issuer) BY <2>1, <2>2 DEF Calls
  <2> QED BY <1>0, <2>1, <2>3, LinesTyped DEF LinesInvariant
<1>3. /\ call' \in [Calls -> CallState] /\ sends' \in [Calls -> 0 .. MaxSends]
      /\ call'[c] = "waiting" /\ \A d \in Calls : d # c => call'[d] = call[d]
      /\ \A d \in Calls : d # c => sends'[d] = sends[d]
  <2>1. sends[c] < MaxSends BY <1>1 DEF Claimed
  <2>2. sends[c] + 1 \in 0 .. MaxSends BY <2>1 DEF TypeOK
  <2> QED BY <1>1, <2>2 DEF TypeOK, CallState
<1>4. InFlightOrPaused(c) /\ InFlightOrPaused(c)' BY <1>1, <1>3 DEF InFlightOrPaused
<1>5. \A l \in ToSet(pipe[k]) : l.kind = "call" => l.call # c
  <2>1. c \in Busy BY <1>4 DEF Busy
  <2>2. pipe[k] \in Seq(Message) /\ CommitsFirst(pipe[k], Busy) BY <1>2 DEF TypeOK, Own
  <2>3. \A l \in ToSet(pipe[k]) : \E i \in 1 .. Len(pipe[k]) : pipe[k][i] = l
    BY <2>2, ElementsOf
  <2> QED BY <2>1, <2>2, <2>3 DEF CommitsFirst
<1>6. Sent(k, c)
  <2>1. ~Settled(c) BY <1>4 DEF Settled
  <2>2. /\ issuer'[c] = k /\ k <= Len(runOf) /\ c <= Len(issuer') /\ Len(issuer) <= Len(issuer')
        /\ \A d \in 1 .. Len(issuer) : issuer'[d] = issuer[d]
    BY <1>0, <1>1, <1>2
  <2> QED BY <1>1, <1>2, <1>3, <1>4, <1>5, <2>1, <2>2, SendStep
<1>7. /\ pipe' \in [Claims -> Seq(Message)]
      /\ \A j \in Claims : OwnPipe(j)' /\ CommitsFirst(pipe[j], Busy)'
      /\ \A d \in Calls : Settled(d) => Settled(d)'
  BY <1>6 DEF Sent
<1>a. PICK line : /\ IsCommit(line, k, c)
                  /\ \A j \in Claims : ToSet(pipe'[j]) \subseteq ToSet(pipe[j]) \cup {line}
  BY <1>6 DEF Sent
<1>8. TypeOK'
  BY <1>1, <1>3, <1>7 DEF TypeOK, CallState, Claims, Calls, Entry, Message, Answer, Row
<1>9. Claimed'
  <2>1. \A d \in Calls : d > Len(issuer) => call'[d] = "none"
    BY <1>2, <1>3 DEF Claimed
  <2>2. \A d \in Calls : call'[d] = "backoff" => d # c /\ call[d] = "backoff" BY <1>3
  <2>3. \A d \in Calls : call'[d] = "backoff" => sends'[d] < MaxSends
    BY <1>3, <2>2 DEF Claimed
  <2> QED BY <1>1, <2>1, <2>3 DEF Claimed, Calls, Claims
<1>10. Rows' /\ NumberedOnce' /\ NumbersFollowExecutions' BY <1>1, RowsStay
<1>11. Own'
  <2>1. ASSUME NEW j \in Claims PROVE OwnFresh(j)' BY <1>1 DEF Own, OwnFresh
  <2> QED BY <1>7, <2>1 DEF Own, Claims
<1>12. Lines' \subseteq Lines \cup {line} BY <1>1, <1>a DEF Lines, Held, Claims
<1>13. Grows({line})
  <2>1. Len(runOf) <= Len(runOf') /\ Len(issuer) <= Len(issuer') BY <1>1, <1>2
  <2>2. \A j \in Claims : Open(prior'[j]) = Open(prior[j]) BY <1>1
  <2>3. \A d \in Calls : Ended(d) => call'[d] = call[d]
    BY <1>1, <1>3 DEF Ended
  <2>4. \A d \in Calls : call'[d] = "shown" => call[d] = "shown" BY <1>3
  <2> QED BY <1>1, <1>7, <1>12, <2>1, <2>2, <2>3, <2>4 DEF Grows
<1>14. TrueLines({line})
  <2>1. /\ line.kind = "commit" /\ line.call = c /\ line.text = ""
    BY <1>a DEF IsCommit
  <2>2. ~IsReal(line) /\ ~IsRecovered(line) BY <2>1 DEF IsReal, IsRecovered
  <2>3. line.by[1] <= Len(runOf')
    <3>1. line.by[1] = k BY <1>a DEF IsCommit
    <3>2. k <= Len(runOf') BY <1>1, <1>2
    <3> QED BY <3>1, <3>2
  <2>4. line.call \in 1 .. Len(issuer') BY <1>1, <1>2, <2>1
  <2> QED BY <2>1, <2>2, <2>3, <2>4 DEF TrueLines
<1>15. line.call \in Calls BY <1>a DEF IsCommit
<1> QED BY <1>8, <1>9, <1>10, <1>11, <1>13, <1>14, <1>15, GrowsKeeps

\* A tool is called: the call is new, and so are its line and its first commit.
LEMMA ToolCalledStep ==
  ASSUME IInv, NEW k \in Claims, ToolCalled(k)
  PROVE  IInv'
<1> USE DEF IInv, storeVars
<1>a. PICK c : c = Len(issuer) + 1 OBVIOUS
<1>b. PICK line : line = LineOf("call", c, "", <<k, turn[k]>>) OBVIOUS
<1>1. /\ phase[k] = "engine" /\ c \in Calls /\ issuer' = Append(issuer, k)
      /\ fresh' = [fresh EXCEPT ![k] = Append(fresh[k], line)]
      /\ call' = [call EXCEPT ![c] = "waiting"] /\ sends' = [sends EXCEPT ![c] = 1]
      /\ Send(k, c)
      /\ UNCHANGED <<storeVars, phase, turn, prior, saved, seed, answers>>
  BY <1>a, <1>b DEF ToolCalled
<1>2. /\ Len(issuer) \in Nat /\ Len(runOf) \in Nat /\ k <= Len(runOf)
      /\ \A l \in Lines : l.kind # "user" => l.call \in 1 .. Len(issuer)
  <2>1. k <= Len(runOf) BY <1>1 DEF Claimed
  <2> QED BY <2>1, LinesTyped DEF LinesInvariant
<1>3. /\ issuer' \in Seq(Claims) /\ Len(issuer') = c /\ issuer'[c] = k
      /\ \A d \in 1 .. Len(issuer) : issuer'[d] = issuer[d]
  <2>1. issuer \in Seq(Claims) BY DEF TypeOK
  <2>2. /\ Append(issuer, k) \in Seq(Claims) /\ Len(Append(issuer, k)) = Len(issuer) + 1
        /\ \A i \in 1 .. Len(issuer) + 1 :
             Append(issuer, k)[i] = IF i <= Len(issuer) THEN issuer[i] ELSE k
    BY <2>1, ElementsOfAppend
  <2> QED BY <1>a, <1>1, <1>2, <2>2
<1>4. /\ line \in Entry /\ line.kind = "call" /\ line.call = c /\ line.text = "" /\ line.by[1] = k
  <2>1. line \in Entry BY <1>b, <1>1, StampTyped, LineTyped
  <2>2. line.kind = "call" /\ line.call = c /\ line.text = "" /\ line.by = <<k, turn[k]>>
    BY <1>b DEF LineOf
  <2>3. line.by[1] = k
    <3>1. line.by = <<k, turn[k]>> BY <1>b DEF LineOf
    <3> QED BY <3>1
  <2> QED BY <2>1, <2>2, <2>3
<1>5. /\ fresh' \in [Claims -> Seq(Entry)]
      /\ ToSet(fresh'[k]) = ToSet(fresh[k]) \cup {line}
      /\ \A j \in Claims : j # k => fresh'[j] = fresh[j]
  <2>1. fresh[k] \in Seq(Entry) /\ line \in Entry BY <1>4 DEF TypeOK
  <2>2. /\ Append(fresh[k], line) \in Seq(Entry)
        /\ ToSet(Append(fresh[k], line)) = ToSet(fresh[k]) \cup {line}
    BY <2>1, ElementsOfAppend
  <2> QED BY <1>1, <2>2 DEF TypeOK
<1>6. /\ call[c] = "none"
      /\ call' \in [Calls -> CallState] /\ sends' \in [Calls -> 0 .. MaxSends]
      /\ call'[c] = "waiting" /\ \A d \in Calls : d # c => call'[d] = call[d]
      /\ \A d \in Calls : d # c => sends'[d] = sends[d]
  <2>1. 1 \in 0 .. MaxSends OBVIOUS
  <2>2. c > Len(issuer) BY <1>a, <1>2
  <2>3. call[c] = "none" BY <1>1, <2>2 DEF Claimed
  <2> QED BY <1>1, <2>1, <2>3 DEF TypeOK, CallState
<1>c. Sent(k, c)
  <2>1. ~Settled(c) BY <1>a, <1>2 DEF Settled
  <2>2. c <= Len(issuer') /\ Len(issuer) <= Len(issuer') BY <1>a, <1>2, <1>3
  <2>3. \A l \in ToSet(pipe[k]) : l.kind = "call" => l.call # c
    <3>1. \A l \in ToSet(pipe[k]) : l \in Lines BY DEF Lines, Held
    <3> QED BY <1>a, <1>2, <3>1
  <2>4. InFlightOrPaused(c)' BY <1>6 DEF InFlightOrPaused
  <2> QED BY <1>1, <1>2, <1>3, <1>6, <2>1, <2>2, <2>3, <2>4, SendStep
<1>7. /\ pipe' \in [Claims -> Seq(Message)]
      /\ \A j \in Claims : OwnPipe(j)' /\ CommitsFirst(pipe[j], Busy)'
      /\ \A d \in Calls : Settled(d) => Settled(d)'
  BY <1>c DEF Sent
<1>8. PICK sent : /\ IsCommit(sent, k, c)
                  /\ \A j \in Claims : ToSet(pipe'[j]) \subseteq ToSet(pipe[j]) \cup {sent}
  BY <1>c DEF Sent
<1>9. TypeOK'
  <2>1. Len(issuer') <= MaxCalls BY <1>1, <1>3 DEF Calls
  <2> QED BY <1>1, <1>3, <1>5, <1>6, <1>7, <2>1
          DEF TypeOK, CallState, Claims, Calls, Entry, Message, Answer, Row
<1>10. Claimed'
  <2>1. \A d \in Calls : d > Len(issuer') => call'[d] = "none" /\ d \notin batches
    <3> SUFFICES ASSUME NEW d \in Calls, d > Len(issuer')
                 PROVE  call'[d] = "none" /\ d \notin batches
      OBVIOUS
    <3>1. d > Len(issuer) /\ d # c BY <1>a, <1>2, <1>3 DEF Calls
    <3> QED BY <1>6, <3>1 DEF Claimed
  <2>2. \A d \in Calls : call'[d] = "backoff" => d # c /\ call[d] = "backoff" BY <1>6
  <2>3. \A d \in Calls : call'[d] = "backoff" => sends'[d] < MaxSends
    BY <1>6, <2>2 DEF Claimed
  <2>4. \A d \in 1 .. Len(issuer') : issuer'[d] <= Len(runOf)
    BY <1>a, <1>2, <1>3 DEF Claimed
  <2>5. \A a \in answers : a.call <= Len(issuer')
    <3>1. \A a \in answers : a.call <= Len(issuer) /\ a.call \in Calls
      BY DEF Claimed, TypeOK, Answer
    <3> QED BY <1>a, <1>2, <1>3, <3>1 DEF Calls
  <2> QED BY <1>1, <2>1, <2>3, <2>4, <2>5 DEF Claimed, Calls, Claims
<1>11. Rows' /\ NumberedOnce' /\ NumbersFollowExecutions' BY <1>1, <1>3, RowsStay
<1>12. Own'
  <2>1. ASSUME NEW j \in Claims PROVE OwnFresh(j)'
    <3> SUFFICES ASSUME NEW l \in ToSet(fresh'[j])
                 PROVE  ((l.kind = "call" /\ l.text = "") \/ IsReal(l)) /\ issuer'[l.call] = j
      BY DEF OwnFresh
    <3>1. CASE l \in ToSet(fresh[j])
      <4>1. ((l.kind = "call" /\ l.text = "") \/ IsReal(l)) /\ issuer[l.call] = j
        BY <3>1 DEF Own, OwnFresh
      <4>2. l.kind # "user" BY <4>1 DEF IsReal
      <4>3. l \in Lines BY <3>1 DEF Lines, Held
      <4> QED BY <1>2, <1>3, <4>1, <4>2, <4>3
    <3>2. CASE l \notin ToSet(fresh[j])
      <4>1. l = line /\ j = k BY <1>5, <3>2
      <4> QED BY <1>3, <1>4, <4>1
    <3> QED BY <3>1, <3>2
  <2> QED BY <1>7, <2>1 DEF Own, Claims
<1>13. Lines' \subseteq Lines \cup {line, sent}
  <2>1. log' = log /\ prior' = prior /\ seed' = seed BY <1>1
  <2>2. \A j \in Claims : Held(j)' \subseteq Held(j) \cup {line, sent}
    BY <1>5, <1>8, <2>1 DEF Held
  <2> HIDE DEF Held
  <2> QED BY <2>1, <2>2 DEF Lines, Claims
<1>14. Grows({line, sent})
  <2>1. Len(runOf) <= Len(runOf') /\ Len(issuer) <= Len(issuer') BY <1>a, <1>1, <1>2, <1>3
  <2>2. \A j \in Claims : Open(prior'[j]) = Open(prior[j]) BY <1>1
  <2>3. \A d \in Calls : Ended(d) => call'[d] = call[d]
    BY <1>6 DEF Ended
  <2>4. \A d \in Calls : call'[d] = "shown" => call[d] = "shown" BY <1>6
  <2> QED BY <1>1, <1>3, <1>7, <1>13, <2>1, <2>2, <2>3, <2>4 DEF Grows
<1>15. TrueLines({line, sent})
  <2>1. c \in 1 .. Len(issuer') BY <1>a, <1>2, <1>3
  <2>2. TrueLines({line}) BY <1>1, <1>2, <1>4, <2>1 DEF TrueLines, IsReal, IsRecovered
  <2>3. TrueLines({sent})
    BY <1>1, <1>2, <1>8, <2>1 DEF TrueLines, IsReal, IsRecovered, IsCommit
  <2>4. ~IsReal(line) /\ ~IsReal(sent) BY <1>4, <1>8 DEF IsReal, IsCommit
  <2> QED BY <2>2, <2>3, <2>4 DEF TrueLines
<1>16. line.call \in Calls /\ sent.call \in Calls BY <1>1, <1>4, <1>8 DEF IsCommit
<1> QED BY <1>16, <1>9, <1>10, <1>11, <1>12, <1>14, <1>15, GrowsKeeps

-----------------------------------------------------------------------------
(* What executors hand over and how they end.                              *)

\* What handing over the entries t does to the pipes.
HandedOver(k, t) ==
  /\ pipe' \in [Claims -> Seq(Message)]
  /\ \A j \in Claims : OwnPipe(j)' /\ CommitsFirst(pipe[j], Busy)'
  /\ \A d \in Calls : Settled(d) => Settled(d)'
  /\ \A j \in Claims : ToSet(pipe'[j]) \subseteq ToSet(pipe[j]) \cup ToSet(t)

\* Entries about ended calls of the executor's own may follow in its pipe.
LEMMA HandOverStep ==
  ASSUME IInv, NEW k \in Claims, NEW t \in Seq(Entry), UNCHANGED <<call, issuer>>,
         pipe' = [pipe EXCEPT ![k] = @ \o t],
         \A l \in ToSet(t) : /\ l.kind = "call" => l.call \notin Busy
                             /\ l.kind = "call" \/ IsReal(l) => issuer[l.call] = k
  PROVE  HandedOver(k, t)
<1> USE DEF IInv
<1>1. /\ pipe[k] \in Seq(Message) /\ t \in Seq(Message) /\ ToSet(t) \subseteq Entry
      /\ Len(issuer) \in Nat
  <2>1. Entry \subseteq Message BY HeldTyped
  <2>2. t \in Seq(Message) BY <2>1, SeqMonotonic
  <2>3. ToSet(t) \subseteq Entry BY ElementsOf
  <2>4. Len(issuer) \in Nat BY LinesTyped DEF LinesInvariant
  <2> QED BY <2>2, <2>3, <2>4 DEF TypeOK
<1>2. \A l \in ToSet(t) : l.kind # "commit" BY <1>1 DEF Entry
<1>3. /\ pipe[k] \o t \in Seq(Message) /\ ToSet(pipe[k] \o t) = ToSet(pipe[k]) \cup ToSet(t)
  <2> HIDE DEF Message
  <2> QED BY <1>1, ElementsOfConcat
<1>4. CommitsFirst(pipe[k] \o t, Busy)
  <2>1. CommitsFirst(pipe[k], Busy) BY DEF Own
  <2> QED BY <1>1, <1>2, <2>1, CommitsFirstConcat
<1>5. /\ pipe' \in [Claims -> Seq(Message)] /\ pipe'[k] = pipe[k] \o t
      /\ \A j \in Claims : j # k => pipe'[j] = pipe[j]
  BY <1>3 DEF TypeOK
<1>6. Busy' = Busy BY DEF Busy, Calls, InFlightOrPaused
<1>7. ASSUME NEW j \in Claims PROVE CommitsFirst(pipe[j], Busy)'
  <2>1. CASE j = k BY <1>4, <1>5, <1>6, <2>1
  <2>2. CASE j # k
    <3>1. CommitsFirst(pipe[j], Busy) BY DEF Own
    <3> QED BY <1>5, <1>6, <2>2, <3>1
  <2> QED BY <2>1, <2>2
<1>8. \A j \in Claims : ToSet(pipe'[j]) \subseteq ToSet(pipe[j]) \cup ToSet(t) BY <1>3, <1>5
<1>9. ASSUME NEW j \in Claims PROVE OwnPipe(j)'
  <2> SUFFICES ASSUME NEW l \in ToSet(pipe'[j]), l.kind \in {"commit", "call"} \/ IsReal(l)
               PROVE  issuer[l.call] = j
    BY DEF OwnPipe
  <2>1. CASE l \in ToSet(pipe[j]) BY <2>1 DEF Own, OwnPipe
  <2>2. CASE l \notin ToSet(pipe[j])
    <3>1. j = k /\ l \in ToSet(t) BY <1>3, <1>5, <2>2
    <3> QED BY <1>2, <3>1
  <2> QED BY <2>1, <2>2
<1>10. \A d \in Calls : Settled(d) => Settled(d)'
  <2>1. \A d \in Calls : Settled(d) => ~InFlightOrPaused(d)'
    BY DEF Settled, InFlightOrPaused
  <2>2. Len(issuer) <= Len(issuer') BY <1>1
  <2>3. \A j \in Claims : \A l \in ToSet(pipe'[j]) :
          l.kind = "commit" => l \in ToSet(pipe[j]) \/ InFlightOrPaused(l.call)'
    BY <1>2, <1>8
  <2> QED BY <2>1, <2>2, <2>3, SettledStays
<1> QED BY <1>5, <1>7, <1>8, <1>9, <1>10 DEF HandedOver

\* The engine starts: each call its session left open gets the answer that the sink's
\* savedToolResults give, and no other call gets one.
LEMMA EngineStartsStep ==
  ASSUME IInv, NEW k \in Claims, EngineStarts(k)
  PROVE  IInv'
<1> USE DEF IInv
<1>a. PICK by : by = <<k, turn[k]>> OBVIOUS
<1>b. PICK missing : missing = Missing(prior[k], saved[k], by) OBVIOUS
<1>1. /\ phase[k] = "prepared" /\ phase' = [phase EXCEPT ![k] = "engine"]
      /\ seed' = [seed EXCEPT ![k] = prior[k] \o missing]
      /\ pipe' = [pipe EXCEPT ![k] = @ \o missing]
      /\ UNCHANGED <<storeVars, turn, prior, saved, fresh, answers, callVars>>
  BY <1>a, <1>b DEF EngineStarts
<1>u. UNCHANGED <<runOf, owner, batches, evidence, log, issuer, call, sends>>
  BY <1>1 DEF storeVars, callVars
<1>2. /\ Len(runOf) \in Nat /\ k <= Len(runOf) /\ Len(issuer) \in Nat
      /\ \A l \in Lines : l.kind # "user" => l.call \in 1 .. Len(issuer) /\ l.call \in Calls
  <2>1. k <= Len(runOf) BY <1>1 DEF Claimed
  <2> QED BY <2>1, LinesTyped DEF LinesInvariant
<1>3. by \in Claims \X (0 .. MaxSupplements) /\ by[1] = k BY <1>a, StampTyped
<1>4. prior[k] \in Seq(Entry) /\ seed[k] \in Seq(Entry) BY DEF TypeOK
<1>5. \A l \in ToSet(prior[k]) : l \in Lines BY DEF Lines, Held
<1>6. /\ missing \in Seq(Entry)
      /\ \A l \in ToSet(missing) :
           /\ l.kind = "result" /\ l.call \in Open(prior[k]) /\ l.by = by
           /\ l.text = IF l.call \in saved[k] THEN "saved" ELSE "unknown"
  <2>1. \A e \in ToSet(prior[k]) : e.kind = "call" => e.call \in Calls BY <1>2, <1>5
  <2> QED BY <1>b, <1>3, <1>4, <2>1, MissingAreOpen
<1>7. \A c \in Open(prior[k]) : /\ c \in 1 .. Len(issuer) /\ c \in Calls /\ Settled(c)
                                /\ issuer[c] < k /\ \A m \in ToSet(log) : IsReal(m) => m.call # c
                                /\ c \notin saved[k] /\ runOf[issuer[c]] = runOf[k] => c \notin batches
  <2> SUFFICES ASSUME NEW c \in Open(prior[k])
               PROVE  /\ c \in 1 .. Len(issuer) /\ c \in Calls /\ Settled(c)
                      /\ issuer[c] < k /\ \A m \in ToSet(log) : IsReal(m) => m.call # c
                      /\ c \notin saved[k] /\ runOf[issuer[c]] = runOf[k] => c \notin batches
    OBVIOUS
  <2>1. PICK e \in ToSet(prior[k]) : e.kind = "call" /\ e.call = c BY DEF Open
  <2>2. c \in 1 .. Len(issuer) /\ c \in Calls BY <1>2, <1>5, <2>1
  <2>3. Settled(c) BY <2>1 DEF LinesInvariant, LoggedIsSettled
  <2> QED BY <2>2, <2>3 DEF LinesInvariant, OpenIsKnown
<1>8. \A l \in ToSet(missing) :
         /\ l.kind = "result" /\ l.call \in Open(prior[k])
         /\ l.text \in {"saved", "unknown"} /\ ~IsReal(l) /\ IsRecovered(l)
         /\ l.text = "saved" => l.call \in saved[k]
         /\ l.text = "unknown" => l.call \notin saved[k]
  BY <1>6 DEF IsReal, IsRecovered
<1>9. \A l \in ToSet(missing) : l.by[1] = k BY <1>3, <1>6
<1>10. HandedOver(k, missing)
  <2>1. \A l \in ToSet(missing) : /\ l.kind = "call" => l.call \notin Busy
                                  /\ l.kind = "call" \/ IsReal(l) => issuer[l.call] = k
    BY <1>8
  <2> QED BY <1>1, <1>u, <1>6, <2>1, HandOverStep
<1>11. /\ prior[k] \o missing \in Seq(Entry)
       /\ ToSet(prior[k] \o missing) = ToSet(prior[k]) \cup ToSet(missing)
  <2>1. prior[k] \in Seq(Entry) /\ missing \in Seq(Entry) BY <1>4, <1>6
  <2> QED BY <2>1, ElementsOfConcat
<1>12. /\ seed' \in [Claims -> Seq(Entry)]
       /\ \A j \in Claims : ToSet(seed'[j]) \subseteq ToSet(seed[j]) \cup ToSet(prior[j]) \cup ToSet(missing)
  BY <1>1, <1>11 DEF TypeOK
<1>13. /\ pipe' \in [Claims -> Seq(Message)]
       /\ \A j \in Claims : OwnPipe(j)' /\ CommitsFirst(pipe[j], Busy)'
       /\ \A d \in Calls : Settled(d) => Settled(d)'
       /\ \A j \in Claims : ToSet(pipe'[j]) \subseteq ToSet(pipe[j]) \cup ToSet(missing)
  BY <1>10 DEF HandedOver
<1>14. TypeOK'
  <2>1. phase' \in [Claims -> {"none", "prepared", "engine", "gone"}] BY <1>1 DEF TypeOK
  <2> QED BY <1>1, <1>u, <1>12, <1>13, <2>1
          DEF TypeOK, Claims, Calls, Entry, Message, Answer, Row
<1>15. Claimed'
  <2>1. \A j \in Claims : phase'[j] # "none" \/ prior'[j] # <<>> => j <= Len(runOf)
    BY <1>1, <1>2 DEF Claimed, TypeOK
  <2> QED BY <1>1, <1>u, <2>1 DEF Claimed, Calls, Claims
<1>16. Rows' /\ NumberedOnce' /\ NumbersFollowExecutions' BY <1>u, RowsStay
<1>17. Own'
  <2>1. ASSUME NEW j \in Claims PROVE OwnFresh(j)' BY <1>1, <1>u DEF Own, OwnFresh
  <2> QED BY <1>13, <2>1 DEF Own, Claims
<1>18. Lines' \subseteq Lines \cup ToSet(missing)
  <2>1. \A j \in Claims : Held(j)' \subseteq Held(j) \cup ToSet(missing)
    BY <1>1, <1>12, <1>13 DEF Held
  <2> HIDE DEF Held
  <2> QED BY <1>u, <2>1 DEF Lines, Claims
<1>19. Grows(ToSet(missing))
  <2>1. Len(runOf) <= Len(runOf') /\ Len(issuer) <= Len(issuer') BY <1>u, <1>2
  <2>2. \A j \in Claims : Open(prior'[j]) = Open(prior[j]) /\ saved'[j] = saved[j] BY <1>1
  <2> QED BY <1>1, <1>u, <1>13, <1>18, <2>1, <2>2 DEF Grows
<1>20. TrueLines(ToSet(missing))
  <2>1. saved[k] \subseteq batches BY DEF LinesInvariant, SavedIsTrue
  <2>2. ASSUME NEW l \in ToSet(missing)
        PROVE  /\ l.by[1] <= Len(runOf') /\ (l.kind # "user" => l.call \in 1 .. Len(issuer'))
               /\ l.kind = "result" => IsReal(l) \/ IsRecovered(l)
               /\ l.text \in {"shown", "saved"} => l.call \in batches'
               /\ l.text = "unknown" =>
                    /\ Settled(l.call)'
                    /\ runOf'[issuer'[l.call]] = runOf'[l.by[1]] => l.call \notin batches'
               /\ IsReal(l) => ~Ended(l.call) /\ Ended(l.call)'
               /\ IsRecovered(l) =>
                    issuer'[l.call] < l.by[1] /\ \A m \in ToSet(log') : IsReal(m) => m.call # l.call
    <3>1. l.by[1] = k BY <1>9
    <3>2. l.call \in 1 .. Len(issuer) /\ l.call \in Calls BY <1>7, <1>8
    <3>3. l.text \in {"shown", "saved"} => l.call \in batches BY <1>8, <2>1
    <3>4. l.text = "unknown" =>
            /\ Settled(l.call)'
            /\ runOf[issuer[l.call]] = runOf[k] => l.call \notin batches
      BY <1>7, <1>8, <1>13, <3>2
    <3>5. issuer[l.call] < k /\ \A m \in ToSet(log) : IsReal(m) => m.call # l.call
      BY <1>7, <1>8
    <3> QED BY <1>u, <1>2, <1>8, <3>1, <3>2, <3>3, <3>4, <3>5
  <2>3. \A l, m \in ToSet(missing) : IsReal(l) /\ IsReal(m) => l = m BY <1>8
  <2> QED BY <2>2, <2>3 DEF TrueLines
<1>21. \A l \in ToSet(missing) : l.call \in Calls BY <1>7, <1>8
<1> QED BY <1>14, <1>15, <1>16, <1>17, <1>19, <1>20, <1>21, GrowsKeeps

\* A line that is neither a call nor a result opens and answers nothing.
LEMMA OpenUnderUser ==
  ASSUME NEW s \in Seq(Entry), NEW l \in Entry, l.kind = "user"
  PROVE  Open(Append(s, l)) = Open(s)
<1>1. ToSet(Append(s, l)) = ToSet(s) \cup {l} BY ElementsOfAppend
<1>2. \A c : Answered(Append(s, l), c) <=> Answered(s, c) BY <1>1 DEF Answered
<1> QED BY <1>1, <1>2 DEF Open

\* What an engine has made, as a whole, may be handed over once no call of it is on the way.
LEMMA FreshMayFollow ==
  ASSUME IInv, NEW k \in Claims, InFlight(k) = {}
  PROVE  /\ fresh[k] \in Seq(Entry)
         /\ \A l \in ToSet(fresh[k]) :
              /\ l.kind = "call" => l.call \notin Busy
              /\ l.kind = "call" \/ IsReal(l) => issuer[l.call] = k
<1> USE DEF IInv
<1>1. \A l \in ToSet(fresh[k]) : issuer[l.call] = k BY DEF Own, OwnFresh
<1>2. \A c \in Busy : issuer[c] # k BY DEF InFlight, Busy, InFlightOrPaused
<1> QED BY <1>1, <1>2 DEF TypeOK

\* The audit asks for a supplement: the engine's entries are handed over, and a question
\* is the one new line.
LEMMA SupplementStep ==
  ASSUME IInv, NEW k \in Claims, Supplement(k)
  PROVE  IInv'
<1> USE DEF IInv
<1>a. PICK demand : demand = LineOf("user", 0, "", <<k, turn[k] + 1>>) OBVIOUS
<1>b. PICK handed : handed = Append(fresh[k], demand) OBVIOUS
<1>1. /\ phase[k] = "engine" /\ InFlight(k) = {} /\ turn[k] < MaxSupplements
      /\ turn' = [turn EXCEPT ![k] = @ + 1]
      /\ phase' = [phase EXCEPT ![k] = "prepared"]
      /\ prior' = [prior EXCEPT ![k] = Append(@, demand)]
      /\ pipe' = [pipe EXCEPT ![k] = @ \o handed]
      /\ fresh' = [fresh EXCEPT ![k] = <<>>]
      /\ UNCHANGED <<storeVars, saved, seed, answers, callVars>>
  BY <1>a, <1>b DEF Supplement
<1>u. UNCHANGED <<runOf, owner, batches, evidence, log, saved, seed, answers, issuer, call, sends>>
  BY <1>1 DEF storeVars, callVars
<1>2. /\ Len(runOf) \in Nat /\ k <= Len(runOf) /\ Len(issuer) \in Nat
  <2>1. k <= Len(runOf) BY <1>1 DEF Claimed
  <2> QED BY <2>1, LinesTyped DEF LinesInvariant
<1>3. /\ demand \in Entry /\ demand.kind = "user" /\ demand.text = ""
  <2>1. turn[k] + 1 \in 0 .. MaxSupplements BY <1>1 DEF TypeOK
  <2>2. <<k, turn[k] + 1>> \in Claims \X (0 .. MaxSupplements) BY <2>1
  <2>3. demand \in Entry BY <1>a, <2>2, LineTyped
  <2> QED BY <1>a, <2>3 DEF LineOf
<1>4. demand.by[1] = k
  <2>1. demand.by = <<k, turn[k] + 1>> BY <1>a DEF LineOf
  <2> QED BY <2>1
<1>5. /\ prior[k] \in Seq(Entry) /\ fresh[k] \in Seq(Entry) BY DEF TypeOK
<1>6. /\ handed \in Seq(Entry) /\ ToSet(handed) = ToSet(fresh[k]) \cup {demand}
      /\ Append(prior[k], demand) \in Seq(Entry)
      /\ ToSet(Append(prior[k], demand)) = ToSet(prior[k]) \cup {demand}
  <2>1. demand \in Entry BY <1>3
  <2>2. /\ handed \in Seq(Entry) /\ ToSet(handed) = ToSet(fresh[k]) \cup {demand}
    BY <1>b, <1>5, <2>1, ElementsOfAppend
  <2>3. /\ Append(prior[k], demand) \in Seq(Entry)
        /\ ToSet(Append(prior[k], demand)) = ToSet(prior[k]) \cup {demand}
    BY <1>5, <2>1, ElementsOfAppend
  <2> QED BY <2>2, <2>3
<1>7. HandedOver(k, handed)
  <2>1. \A l \in ToSet(handed) : /\ l.kind = "call" => l.call \notin Busy
                                 /\ l.kind = "call" \/ IsReal(l) => issuer[l.call] = k
    <3>1. demand.kind # "call" /\ ~IsReal(demand) BY <1>3 DEF IsReal
    <3> QED BY <1>1, <1>6, <3>1, FreshMayFollow
  <2> QED BY <1>1, <1>u, <1>6, <2>1, HandOverStep
<1>8. /\ pipe' \in [Claims -> Seq(Message)]
      /\ \A j \in Claims : OwnPipe(j)' /\ CommitsFirst(pipe[j], Busy)'
      /\ \A d \in Calls : Settled(d) => Settled(d)'
      /\ \A j \in Claims : ToSet(pipe'[j]) \subseteq ToSet(pipe[j]) \cup ToSet(handed)
  BY <1>7 DEF HandedOver
<1>9. /\ prior' \in [Claims -> Seq(Entry)] /\ prior'[k] = Append(prior[k], demand)
      /\ \A j \in Claims : j # k => prior'[j] = prior[j]
      /\ \A j \in Claims : ToSet(prior'[j]) \subseteq ToSet(prior[j]) \cup {demand}
  BY <1>1, <1>6 DEF TypeOK
<1>10. /\ fresh' \in [Claims -> Seq(Entry)]
       /\ \A j \in Claims : ToSet(fresh'[j]) \subseteq ToSet(fresh[j])
  <2>1. <<>> \in Seq(Entry) OBVIOUS
  <2> QED BY <1>1, <2>1, ElementsOfEmpty DEF TypeOK
<1>11. TypeOK'
  <2>1. phase' \in [Claims -> {"none", "prepared", "engine", "gone"}] BY <1>1 DEF TypeOK
  <2>2. turn' \in [Claims -> 0 .. MaxSupplements]
    <3>1. turn[k] + 1 \in 0 .. MaxSupplements BY <1>1 DEF TypeOK
    <3> QED BY <1>1, <3>1 DEF TypeOK
  <2> QED BY <1>u, <1>8, <1>9, <1>10, <2>1, <2>2
          DEF TypeOK, Claims, Calls, Entry, Message, Answer, Row
<1>12. Claimed'
  <2>1. \A j \in Claims : phase'[j] # "none" \/ prior'[j] # <<>> => j <= Len(runOf)
    BY <1>1, <1>2, <1>9 DEF Claimed, TypeOK
  <2> QED BY <1>u, <2>1 DEF Claimed, Calls, Claims
<1>13. Rows' /\ NumberedOnce' /\ NumbersFollowExecutions' BY <1>u, RowsStay
<1>14. Own'
  <2>1. ASSUME NEW j \in Claims PROVE OwnFresh(j)' BY <1>u, <1>10 DEF Own, OwnFresh
  <2> QED BY <1>8, <2>1 DEF Own, Claims
<1>15. Lines' \subseteq Lines \cup {demand}
  <2>1. \A j \in Claims : ToSet(pipe'[j]) \subseteq Held(j) \cup Held(k) \cup {demand}
    BY <1>6, <1>8 DEF Held
  <2>2. \A j \in Claims : ToSet(prior'[j]) \cup ToSet(seed'[j]) \cup ToSet(fresh'[j]) \subseteq Held(j) \cup {demand}
    BY <1>u, <1>9, <1>10 DEF Held
  <2>3. \A j \in Claims : Held(j)' = ToSet(prior'[j]) \cup ToSet(seed'[j]) \cup ToSet(fresh'[j]) \cup ToSet(pipe'[j])
    BY DEF Held
  <2> HIDE DEF Held
  <2>4. \A j \in Claims : Held(j) \subseteq Lines BY DEF Lines
  <2>5. \A j \in Claims : Held(j)' \subseteq Lines \cup {demand} BY <2>1, <2>2, <2>3, <2>4
  <2> QED BY <1>u, <2>5 DEF Lines, Claims
<1>16. Grows({demand})
  <2>1. Len(runOf) <= Len(runOf') /\ Len(issuer) <= Len(issuer') BY <1>u, <1>2
  <2>2. \A j \in Claims : Open(prior'[j]) = Open(prior[j]) /\ saved'[j] = saved[j]
    BY <1>u, <1>3, <1>5, <1>9, OpenUnderUser
  <2>3. \A j \in Claims : \A l \in ToSet(prior'[j]) : l.kind = "call" => l \in ToSet(prior[j])
    BY <1>3, <1>9
  <2> QED BY <1>u, <1>8, <1>15, <2>1, <2>2, <2>3 DEF Grows
<1>17. TrueLines({demand})
  <2>1. ~IsReal(demand) /\ ~IsRecovered(demand) BY <1>3 DEF IsReal, IsRecovered
  <2>2. demand.by[1] <= Len(runOf') BY <1>u, <1>2, <1>4
  <2> QED BY <1>3, <2>1, <2>2 DEF TrueLines
<1>18. \A l \in {demand} : l.kind # "user" => l.call \in Calls BY <1>3
<1> QED BY <1>11, <1>12, <1>13, <1>14, <1>16, <1>17, <1>18, GrowsKeeps

\* A child is gone: nothing is new, and what is left of it waits for the Host.
LEMMA LeavesStep ==
  ASSUME IInv, NEW k \in Claims, phase[k] \in {"prepared", "engine"}, Leaves(k),
         pipe' \in [Claims -> Seq(Message)],
         \A j \in Claims : OwnPipe(j)' /\ CommitsFirst(pipe[j], Busy)',
         \A d \in Calls : Settled(d) => Settled(d)',
         \A j \in Claims : ToSet(pipe'[j]) \subseteq ToSet(pipe[j]) \cup ToSet(fresh[k]),
         call' \in [Calls -> CallState], sends' \in [Calls -> 0 .. MaxSends],
         \A d \in Calls : \/ call'[d] = call[d] /\ sends'[d] = sends[d]
                          \/ InFlightOrPaused(d) /\ call'[d] = "failed"
  PROVE  IInv'
<1> USE DEF IInv
<1>1. /\ phase' = [phase EXCEPT ![k] = "gone"] /\ turn' = [turn EXCEPT ![k] = 0]
      /\ prior' = [prior EXCEPT ![k] = <<>>] /\ saved' = [saved EXCEPT ![k] = {}]
      /\ seed' = [seed EXCEPT ![k] = <<>>] /\ fresh' = [fresh EXCEPT ![k] = <<>>]
      /\ answers' \subseteq answers
      /\ UNCHANGED <<runOf, owner, batches, evidence, log, issuer>>
  BY DEF Leaves, storeVars
<1>2. /\ Len(runOf) \in Nat /\ k <= Len(runOf) /\ Len(issuer) \in Nat
  <2>1. k <= Len(runOf) BY DEF Claimed
  <2> QED BY <2>1, LinesTyped DEF LinesInvariant
<1>3. /\ prior' \in [Claims -> Seq(Entry)] /\ seed' \in [Claims -> Seq(Entry)]
      /\ fresh' \in [Claims -> Seq(Entry)]
      /\ \A j \in Claims : /\ ToSet(prior'[j]) \subseteq ToSet(prior[j])
                           /\ ToSet(seed'[j]) \subseteq ToSet(seed[j])
                           /\ ToSet(fresh'[j]) \subseteq ToSet(fresh[j])
  <2>1. <<>> \in Seq(Entry) OBVIOUS
  <2> QED BY <1>1, <2>1, ElementsOfEmpty DEF TypeOK
<1>4. TypeOK'
  <2>1. phase' \in [Claims -> {"none", "prepared", "engine", "gone"}] BY <1>1 DEF TypeOK
  <2>2. turn' \in [Claims -> 0 .. MaxSupplements] BY <1>1 DEF TypeOK
  <2>3. saved' \in [Claims -> SUBSET Calls] BY <1>1 DEF TypeOK
  <2> QED BY <1>1, <1>3, <2>1, <2>2, <2>3
          DEF TypeOK, CallState, Claims, Calls, Entry, Message, Answer, Row
<1>5. Claimed'
  <2>1. \A j \in Claims : phase'[j] # "none" \/ prior'[j] # <<>> => j <= Len(runOf)
    BY <1>1, <1>2 DEF Claimed, TypeOK
  <2>2. \A d \in Calls : d > Len(issuer) => call'[d] = "none"
    BY DEF Claimed, InFlightOrPaused
  <2>3. \A d \in Calls : call'[d] = "backoff" => sends'[d] < MaxSends BY DEF Claimed
  <2> QED BY <1>1, <2>1, <2>2, <2>3 DEF Claimed, Calls, Claims
<1>6. Rows' /\ NumberedOnce' /\ NumbersFollowExecutions' BY <1>1, RowsStay
<1>7. Own'
  <2>1. ASSUME NEW j \in Claims PROVE OwnFresh(j)' BY <1>1, <1>3 DEF Own, OwnFresh
  <2> QED BY <2>1 DEF Own, Claims
<1>8. Lines' \subseteq Lines
  <2>1. \A j \in Claims : ToSet(pipe'[j]) \subseteq Held(j) \cup Held(k) BY DEF Held
  <2>2. \A j \in Claims : ToSet(prior'[j]) \cup ToSet(seed'[j]) \cup ToSet(fresh'[j]) \subseteq Held(j)
    BY <1>3 DEF Held
  <2>3. \A j \in Claims : Held(j)' = ToSet(prior'[j]) \cup ToSet(seed'[j]) \cup ToSet(fresh'[j]) \cup ToSet(pipe'[j])
    BY DEF Held
  <2> HIDE DEF Held
  <2>4. \A j \in Claims : Held(j) \subseteq Lines BY DEF Lines
  <2>5. \A j \in Claims : Held(j)' \subseteq Lines BY <2>1, <2>2, <2>3, <2>4
  <2> QED BY <1>1, <2>5 DEF Lines, Claims
<1>9. Grows({})
  <2>1. Len(runOf) <= Len(runOf') /\ Len(issuer) <= Len(issuer') BY <1>1, <1>2
  <2>2. \A j \in Claims : j # k => prior'[j] = prior[j] /\ saved'[j] = saved[j]
    BY <1>1 DEF TypeOK
  <2>3. Open(prior'[k]) = {}
    <3>1. prior'[k] = <<>> BY <1>1 DEF TypeOK
    <3> QED BY <3>1, ElementsOfEmpty DEF Open
  <2>4. \A j \in Claims : \A c \in Open(prior'[j]) : c \in Open(prior[j]) /\ saved'[j] = saved[j]
    BY <2>2, <2>3
  <2>5. \A j \in Claims : saved'[j] \subseteq saved[j] BY <1>1 DEF TypeOK
  <2>6. \A d \in Calls : Ended(d) => call'[d] = call[d] BY DEF Ended, InFlightOrPaused
  <2>7. \A d \in Calls : call'[d] = "shown" => call[d] = "shown" OBVIOUS
  <2> QED BY <1>1, <1>3, <1>8, <2>1, <2>4, <2>5, <2>6, <2>7 DEF Grows
<1>10. TrueLines({}) BY DEF TrueLines
<1> QED BY <1>4, <1>5, <1>6, <1>7, <1>9, <1>10, GrowsKeeps

\* The execution is over.
LEMMA FinishStep ==
  ASSUME IInv, NEW k \in Claims, Finish(k)
  PROVE  IInv'
<1>1. /\ phase[k] = "engine" /\ InFlight(k) = {} /\ Leaves(k)
      /\ pipe' = [pipe EXCEPT ![k] = @ \o fresh[k]] /\ UNCHANGED <<call, sends>>
  BY DEF Finish
<1>2. issuer' = issuer BY <1>1 DEF Leaves
<1>3. PICK handed : handed = fresh[k] OBVIOUS
<1>4. HandedOver(k, handed)
  <2>1. /\ handed \in Seq(Entry)
        /\ \A l \in ToSet(handed) : /\ l.kind = "call" => l.call \notin Busy
                                    /\ l.kind = "call" \/ IsReal(l) => issuer[l.call] = k
    BY <1>1, <1>3, FreshMayFollow
  <2> QED BY <1>1, <1>2, <1>3, <2>1, HandOverStep
<1>5. /\ pipe' \in [Claims -> Seq(Message)]
      /\ \A j \in Claims : OwnPipe(j)' /\ CommitsFirst(pipe[j], Busy)'
      /\ \A d \in Calls : Settled(d) => Settled(d)'
      /\ \A j \in Claims : ToSet(pipe'[j]) \subseteq ToSet(pipe[j]) \cup ToSet(fresh[k])
  BY <1>3, <1>4 DEF HandedOver
<1>6. call' \in [Calls -> CallState] /\ sends' \in [Calls -> 0 .. MaxSends]
  BY <1>1 DEF IInv, TypeOK, CallState
<1> QED BY <1>1, <1>5, <1>6, LeavesStep

\* The child dies: its calls on the way have failed, and its commits may still be read.
LEMMA DiesStep ==
  ASSUME IInv, NEW k \in Claims, Dies(k)
  PROVE  IInv'
<1> USE DEF IInv
<1>1. /\ phase[k] \in {"prepared", "engine"} /\ Leaves(k) /\ pipe' = pipe
      /\ call' = [c \in Calls |-> IF c \in InFlight(k) THEN "failed" ELSE call[c]]
      /\ sends' = [c \in Calls |-> IF c \in InFlight(k) THEN 0 ELSE sends[c]]
  BY DEF Dies
<1>2. issuer' = issuer BY <1>1 DEF Leaves
<1>3. /\ call' \in [Calls -> CallState] /\ sends' \in [Calls -> 0 .. MaxSends]
      /\ \A d \in Calls : \/ call'[d] = call[d] /\ sends'[d] = sends[d]
                          \/ InFlightOrPaused(d) /\ call'[d] = "failed"
  <2>1. \A d \in InFlight(k) : InFlightOrPaused(d) BY DEF InFlight, InFlightOrPaused
  <2> QED BY <1>1, <2>1 DEF TypeOK, CallState
<1>4. \A d \in Calls : InFlightOrPaused(d)' => InFlightOrPaused(d)
  BY <1>3 DEF InFlightOrPaused
<1>5. ASSUME NEW j \in Claims PROVE OwnPipe(j)' /\ CommitsFirst(pipe[j], Busy)'
  <2>1. Busy' \subseteq Busy BY <1>4 DEF Busy, Calls
  <2>2. CommitsFirst(pipe[j], Busy) BY DEF Own
  <2>3. CommitsFirst(pipe[j], Busy)' BY <1>1, <2>1, <2>2 DEF CommitsFirst
  <2>4. OwnPipe(j)' BY <1>1, <1>2 DEF Own, OwnPipe
  <2> QED BY <2>3, <2>4
<1>6. \A d \in Calls : Settled(d) => Settled(d)'
  <2>1. \A d \in Calls : Settled(d) => ~InFlightOrPaused(d)' BY <1>4 DEF Settled
  <2>2. Len(issuer) <= Len(issuer') BY <1>2, LinesTyped DEF LinesInvariant
  <2> QED BY <1>1, <2>1, <2>2, SettledStays
<1>7. pipe' \in [Claims -> Seq(Message)] BY <1>1 DEF TypeOK
<1> QED BY <1>1, <1>3, <1>5, <1>6, <1>7, LeavesStep

\* A run is claimed: its executor reads what the log has, and knows which of the open
\* calls of the run are saved.
LEMMA ClaimRunStep ==
  ASSUME IInv, NEW run \in Nat, ClaimRun(run)
  PROVE  IInv'
<1> USE DEF IInv
<1>a. PICK k : k = Len(runOf) + 1 OBVIOUS
<1>b. PICK user : user = LineOf("user", 0, "", <<k, 0>>) OBVIOUS
<1>c. PICK question :
        /\ question \in {<<>>, <<user>>}
        /\ question = IF \E e \in ToSet(log) : runOf[e.by[1]] = run THEN <<>> ELSE <<user>>
  OBVIOUS
<1>1. /\ owner = 0 /\ k \in Claims /\ runOf' = Append(runOf, run) /\ owner' = k
      /\ phase' = [phase EXCEPT ![k] = "prepared"]
      /\ saved' = [saved EXCEPT ![k] = SavedResults(log, run)]
      /\ prior' = [prior EXCEPT ![k] = log \o question]
      /\ pipe' = [pipe EXCEPT ![k] = question]
      /\ UNCHANGED <<batches, evidence, log, turn, seed, fresh, answers, callVars>>
  BY <1>a, <1>b, <1>c DEF ClaimRun
<1>u. UNCHANGED <<batches, evidence, log, turn, seed, fresh, answers, issuer, call, sends>>
  BY <1>1 DEF callVars
<1>2. /\ Len(runOf) \in Nat /\ Len(issuer) \in Nat /\ runOf \in Seq(Nat)
      /\ \A l \in Lines : l.kind # "user" => l.call \in 1 .. Len(issuer) /\ l.call \in Calls
      /\ \A c \in 1 .. Len(issuer) : issuer[c] \in 1 .. Len(runOf)
  BY LinesTyped DEF LinesInvariant, TypeOK
<1>3. /\ runOf' \in Seq(Nat) /\ Len(runOf') = k /\ runOf'[k] = run
      /\ \A j \in 1 .. Len(runOf) : runOf'[j] = runOf[j]
  <2>1. /\ Append(runOf, run) \in Seq(Nat) /\ Len(Append(runOf, run)) = Len(runOf) + 1
        /\ \A i \in 1 .. Len(runOf) + 1 :
             Append(runOf, run)[i] = IF i <= Len(runOf) THEN runOf[i] ELSE run
    BY <1>2, ElementsOfAppend
  <2> QED BY <1>a, <1>1, <1>2, <2>1
<1>4. user \in Entry /\ user.kind = "user" /\ user.text = ""
  <2>1. <<k, 0>> \in Claims \X (0 .. MaxSupplements) BY <1>1
  <2>2. user \in Entry BY <1>b, <2>1, LineTyped
  <2> QED BY <1>b, <2>2 DEF LineOf
<1>5. user.by[1] = k
  <2>1. user.by = <<k, 0>> BY <1>b DEF LineOf
  <2> QED BY <2>1
<1>6. question \in Seq(Entry) /\ ToSet(question) \subseteq {user}
  <2>1. <<>> \in Seq(Entry) /\ ToSet(<<>>) = {} BY ElementsOfEmpty
  <2>2. <<user>> \in Seq(Entry) /\ ToSet(<<user>>) = {user}
    <3>1. user \in Entry BY <1>4
    <3>2. <<user>> = Append(<<>>, user) OBVIOUS
    <3>3. Append(<<>>, user) \in Seq(Entry) /\ ToSet(Append(<<>>, user)) = ToSet(<<>>) \cup {user}
      <4>1. <<>> \in Seq(Entry) BY <2>1
      <4> QED BY <3>1, <4>1, ElementsOfAppend
    <3> QED BY <2>1, <3>2, <3>3
  <2> QED BY <1>c, <2>1, <2>2
<1>7. /\ log \in Seq(Entry) /\ log \o question \in Seq(Entry)
      /\ ToSet(log \o question) = ToSet(log) \cup ToSet(question)
  <2>1. log \in Seq(Entry) BY DEF TypeOK
  <2> QED BY <1>6, <2>1, ElementsOfConcat
<1>8. \A l \in ToSet(log) : l \in Lines BY DEF Lines
<1>9. /\ ToSet(Pending(log)) = {e \in ToSet(log) : e.kind = "call" /\ ~Answered(log, e.call)}
      /\ {e.call : e \in ToSet(Pending(log))} = Open(log)
  <2>1. \A e \in ToSet(log) : e.kind = "call" => e.call \in Calls BY <1>2, <1>8
  <2> QED BY <1>7, <2>1, PendingAreOpen
<1>10. /\ SavedResults(log, run) \subseteq batches
       /\ \A c \in Open(log) :
            c \in batches /\ runOf[issuer[c]] = run => c \in SavedResults(log, run)
  <2>1. SavedResults(log, run) \subseteq batches BY DEF SavedResults
  <2>2. ASSUME NEW c \in Open(log), c \in batches, runOf[issuer[c]] = run
        PROVE  c \in SavedResults(log, run)
    <3>1. PICK e \in ToSet(Pending(log)) : e.call = c BY <1>9
    <3> QED BY <2>2, <3>1 DEF SavedResults
  <2> QED BY <2>1, <2>2
<1>11. \A c \in Open(log \o question) :
         /\ c \in Open(log) /\ c \in 1 .. Len(issuer) /\ issuer[c] < k
         /\ \A l \in ToSet(log) : IsReal(l) => l.call # c
  <2> SUFFICES ASSUME NEW c \in Open(log \o question)
               PROVE  /\ c \in Open(log) /\ c \in 1 .. Len(issuer) /\ issuer[c] < k
                      /\ \A l \in ToSet(log) : IsReal(l) => l.call # c
    OBVIOUS
  <2>1. PICK e \in ToSet(log \o question) : e.kind = "call" /\ e.call = c BY DEF Open
  <2>2. e \in ToSet(log) BY <1>4, <1>6, <1>7, <2>1
  <2>3. \A l \in ToSet(log) : ~(l.kind = "result" /\ l.call = c) BY <1>7 DEF Open, Answered
  <2>4. c \in Calls /\ c \in 1 .. Len(issuer) BY <1>2, <1>8, <2>1, <2>2
  <2>5. c \in Open(log) BY <2>1, <2>2, <2>3, <2>4 DEF Open, Answered
  <2>6. issuer[c] < k BY <1>a, <1>2, <2>4
  <2> QED BY <2>3, <2>4, <2>5, <2>6 DEF IsReal
<1>12. /\ prior' \in [Claims -> Seq(Entry)] /\ prior'[k] = log \o question
       /\ \A j \in Claims : j # k => prior'[j] = prior[j] /\ saved'[j] = saved[j]
       /\ saved' \in [Claims -> SUBSET Calls] /\ saved'[k] = SavedResults(log, run)
  <2>1. SavedResults(log, run) \in SUBSET Calls BY <1>10 DEF TypeOK
  <2> QED BY <1>1, <1>7, <2>1 DEF TypeOK
<1>13. /\ pipe' \in [Claims -> Seq(Message)] /\ pipe'[k] = question
       /\ \A j \in Claims : j # k => pipe'[j] = pipe[j]
  <2>1. question \in Seq(Message)
    <3>1. Entry \subseteq Message BY HeldTyped
    <3> QED BY <1>6, <3>1, SeqMonotonic
  <2> QED BY <1>1, <2>1 DEF TypeOK
<1>14. TypeOK'
  <2>1. Len(runOf') <= MaxClaims /\ owner' \in 0 .. Len(runOf') BY <1>1, <1>3 DEF Claims
  <2>2. phase' \in [Claims -> {"none", "prepared", "engine", "gone"}] BY <1>1 DEF TypeOK
  <2> QED BY <1>u, <1>3, <1>12, <1>13, <2>1, <2>2
          DEF TypeOK, Claims, Calls, Entry, Message, Answer, Row
<1>15. Claimed'
  <2>1. \A j \in Claims : phase'[j] # "none" \/ prior'[j] # <<>> => j <= Len(runOf')
    <3> SUFFICES ASSUME NEW j \in Claims, phase'[j] # "none" \/ prior'[j] # <<>>, j # k
                 PROVE  j <= Len(runOf')
      BY <1>3 DEF Claims
    <3>1. phase[j] # "none" \/ prior[j] # <<>> BY <1>1, <1>12 DEF TypeOK
    <3>2. j <= Len(runOf) BY <3>1 DEF Claimed
    <3> QED BY <1>a, <1>2, <1>3, <3>2 DEF Claims
  <2>2. \A c \in 1 .. Len(issuer) : issuer[c] <= Len(runOf') BY <1>a, <1>2, <1>3
  <2> QED BY <1>1, <1>u, <1>3, <2>1, <2>2 DEF Claimed, Calls, Claims
<1>16. Rows' /\ NumberedOnce' /\ NumbersFollowExecutions' BY <1>u, RowsStay
<1>17. Own'
  <2>1. Busy' = Busy BY <1>u DEF Busy, Calls, InFlightOrPaused
  <2>2. ASSUME NEW j \in Claims PROVE OwnFresh(j)' BY <1>u DEF Own, OwnFresh
  <2>3. ~IsReal(user) BY <1>4 DEF IsReal
  <2>4. ASSUME NEW j \in Claims PROVE OwnPipe(j)' /\ CommitsFirst(pipe[j], Busy)'
    <3>1. CASE j = k
      <4>1. OwnPipe(k)' BY <1>4, <1>6, <1>13, <2>3 DEF OwnPipe
      <4>2. \A i \in 1 .. Len(question) : question[i].kind # "call"
        BY <1>4, <1>6, ElementsOf
      <4>3. CommitsFirst(question, Busy) BY <4>2 DEF CommitsFirst
      <4> QED BY <1>13, <2>1, <3>1, <4>1, <4>3
    <3>2. CASE j # k
      <4>1. OwnPipe(j) /\ CommitsFirst(pipe[j], Busy) BY DEF Own
      <4>2. OwnPipe(j)' BY <1>u, <1>13, <3>2, <4>1 DEF OwnPipe
      <4> QED BY <1>13, <2>1, <3>2, <4>1, <4>2
    <3> QED BY <3>1, <3>2
  <2> QED BY <2>2, <2>4 DEF Own, Claims
<1>18. \A d \in Calls : Settled(d) => Settled(d)'
  <2>1. \A d \in Calls : Settled(d) => ~InFlightOrPaused(d)'
    BY <1>u DEF Settled, InFlightOrPaused
  <2>2. Len(issuer) <= Len(issuer') BY <1>u, <1>2
  <2>3. \A j \in Claims : \A l \in ToSet(pipe'[j]) :
          l.kind = "commit" => l \in ToSet(pipe[j]) \/ InFlightOrPaused(l.call)'
    BY <1>4, <1>6, <1>13
  <2> QED BY <2>1, <2>2, <2>3, SettledStays
<1>19. Lines' \subseteq Lines \cup {user}
  <2>1. \A j \in Claims : ToSet(pipe'[j]) \subseteq Held(j) \cup {user}
    BY <1>6, <1>13 DEF Held
  <2>2. \A j \in Claims : ToSet(prior'[j]) \subseteq Held(j) \cup ToSet(log) \cup {user}
    BY <1>6, <1>7, <1>12 DEF Held
  <2>3. \A j \in Claims : ToSet(seed'[j]) \cup ToSet(fresh'[j]) \subseteq Held(j)
    BY <1>u DEF Held
  <2>4. \A j \in Claims : Held(j)' = ToSet(prior'[j]) \cup ToSet(seed'[j]) \cup ToSet(fresh'[j]) \cup ToSet(pipe'[j])
    BY DEF Held
  <2> HIDE DEF Held
  <2>5. \A j \in Claims : Held(j) \cup ToSet(log) \subseteq Lines BY DEF Lines
  <2>6. \A j \in Claims : Held(j)' \subseteq Lines \cup {user} BY <2>1, <2>2, <2>3, <2>4, <2>5
  <2> QED BY <1>u, <2>6 DEF Lines, Claims
<1>20. Grows({user})
  <2>1. Len(runOf) <= Len(runOf') /\ Len(issuer) <= Len(issuer') BY <1>a, <1>u, <1>2, <1>3
  <2>2. \A j \in Claims : \A l \in ToSet(prior'[j]) :
          l.kind = "call" => l \in ToSet(prior[j]) \cup ToSet(log)
    BY <1>4, <1>6, <1>7, <1>12
  <2>3. \A j \in Claims : \A c \in Open(prior'[j]) :
          \/ c \in Open(prior[j]) /\ saved'[j] = saved[j]
          \/ /\ issuer[c] < j /\ (\A l \in ToSet(log') : IsReal(l) => l.call # c)
             /\ c \notin saved'[j] /\ runOf'[issuer[c]] = runOf'[j] => c \notin batches'
    <3> SUFFICES ASSUME NEW c \in Open(prior'[k])
                 PROVE  /\ issuer[c] < k /\ (\A l \in ToSet(log') : IsReal(l) => l.call # c)
                        /\ c \notin saved'[k] /\ runOf'[issuer[c]] = runOf'[k] => c \notin batches'
      BY <1>12
    <3>1. /\ c \in Open(log) /\ c \in 1 .. Len(issuer) /\ issuer[c] < k
          /\ \A l \in ToSet(log) : IsReal(l) => l.call # c
      BY <1>11, <1>12
    <3>2. runOf'[issuer[c]] = runOf[issuer[c]] /\ runOf'[k] = run BY <1>2, <1>3, <3>1
    <3> QED BY <1>u, <1>10, <1>12, <3>1, <3>2
  <2>4. \A j \in Claims : saved'[j] \subseteq saved[j] \cup batches BY <1>10, <1>12
  <2> QED BY <1>u, <1>3, <1>18, <1>19, <2>1, <2>2, <2>3, <2>4 DEF Grows
<1>21. TrueLines({user})
  <2>1. ~IsReal(user) /\ ~IsRecovered(user) BY <1>4 DEF IsReal, IsRecovered
  <2>2. user.by[1] <= Len(runOf') BY <1>1, <1>3, <1>5 DEF Claims
  <2> QED BY <1>4, <2>1, <2>2 DEF TrueLines
<1>22. \A l \in {user} : l.kind # "user" => l.call \in Calls BY <1>4
<1> QED BY <1>14, <1>15, <1>16, <1>17, <1>20, <1>21, <1>22, GrowsKeeps

\* The next claim is of the first run, of the last one again or of the one after it.
LEMMA ClaimStep ==
  ASSUME IInv, Claim
  PROVE  IInv'
<1>1. runOf \in Seq(Nat) /\ Len(runOf) \in Nat
  BY LinesTyped DEF IInv, LinesInvariant, TypeOK
<1>2. CASE runOf = <<>>
  <2>1. ClaimRun(1) BY <1>2 DEF Claim
  <2> QED BY <2>1, ClaimRunStep
<1>3. CASE runOf # <<>>
  <2>1. Last(runOf) \in Nat
    <3>1. Len(runOf) \in 1 .. Len(runOf) BY <1>1, <1>3, ElementsOfTail
    <3> QED BY <1>1, <3>1, ElementsOf DEF Last
  <2>2. ClaimRun(Last(runOf)) \/ ClaimRun(Last(runOf) + 1) BY <1>3 DEF Claim
  <2>3. CASE ClaimRun(Last(runOf)) BY <2>1, <2>3, ClaimRunStep
  <2>4. CASE ClaimRun(Last(runOf) + 1)
    <3>1. Last(runOf) + 1 \in Nat BY <2>1
    <3> QED BY <2>4, <3>1, ClaimRunStep
  <2> QED BY <2>2, <2>3, <2>4
<1> QED BY <1>2, <1>3

\* The waits of a tool call: it pauses, gives up, or is answered.
LEMMA CallStep ==
  ASSUME IInv,
         \/ Released
         \/ \E c \in Calls : AckTimeout(c) \/ GiveUp(c)
         \/ \E answer \in answers : ReadAnswer(answer)
  PROVE  IInv'
<1>1. CASE Released
  <2>1. call' \in [Calls -> CallState] /\ sends' \in [Calls -> 0 .. MaxSends]
    BY <1>1 DEF Released, callVars, IInv, TypeOK, CallState
  <2>2. \A c \in Calls : call'[c] = "backoff" => sends'[c] < MaxSends
    BY <1>1 DEF Released, callVars, IInv, Claimed
  <2> QED BY <1>1, <2>1, <2>2, QuietStep DEF Released, callVars, linkVars, engineVars
<1>2. ASSUME NEW c \in Calls, AckTimeout(c) PROVE IInv'
  <2>1. /\ call[c] = "waiting" /\ issuer' = issuer
        /\ UNCHANGED <<storeVars, phase, turn, prior, saved, seed, linkVars>>
    BY <1>2 DEF AckTimeout
  <2>2. InFlightOrPaused(c) BY <2>1 DEF InFlightOrPaused
  <2>3. CASE Ends(c, "failed")
    <3>1. answers' \subseteq answers /\ pipe' = pipe BY <2>1 DEF linkVars
    <3> QED BY <2>1, <2>2, <2>3, <3>1, EndsStep
  <2>4. CASE /\ sends[c] < MaxSends /\ call' = [call EXCEPT ![c] = "backoff"]
             /\ UNCHANGED <<fresh, sends>>
    <3>1. /\ call' \in [Calls -> CallState] /\ sends' \in [Calls -> 0 .. MaxSends]
          /\ call'[c] = "backoff" /\ \A d \in Calls : d # c => call'[d] = call[d]
      BY <2>4 DEF IInv, TypeOK, CallState
    <3>2. \A d \in Calls : call'[d] = call[d] \/ (InFlightOrPaused(d) /\ InFlightOrPaused(d)')
      BY <2>2, <3>1 DEF InFlightOrPaused
    <3>3. \A d \in Calls : call'[d] = "backoff" => sends'[d] < MaxSends
      BY <2>4, <3>1 DEF IInv, Claimed
    <3>4. UNCHANGED <<runOf, batches, evidence, log, engineVars, pipe, issuer>>
          /\ owner' \in {0, owner} /\ answers' \subseteq answers
      BY <2>1, <2>4 DEF storeVars, linkVars, engineVars
    <3> QED BY <3>1, <3>2, <3>3, <3>4, QuietStep
  <2> QED BY <1>2, <2>3, <2>4 DEF AckTimeout
<1>3. ASSUME NEW c \in Calls, GiveUp(c) PROVE IInv'
  <2>1. /\ call[c] = "backoff" /\ issuer' = issuer /\ Ends(c, "failed")
        /\ UNCHANGED <<storeVars, phase, turn, prior, saved, seed, linkVars>>
    BY <1>3 DEF GiveUp
  <2>2. InFlightOrPaused(c) BY <2>1 DEF InFlightOrPaused
  <2>3. answers' \subseteq answers /\ pipe' = pipe BY <2>1 DEF linkVars
  <2> QED BY <2>1, <2>2, <2>3, EndsStep
<1>4. ASSUME NEW answer \in answers, ReadAnswer(answer) PROVE IInv'
  <2>1. PICK c, text : c = answer.call /\ text = (IF answer.verdict = "ack" THEN "shown" ELSE "failed")
    OBVIOUS
  <2>2. /\ answers' \subseteq answers /\ issuer' = issuer
        /\ IF call[c] = "waiting" THEN Ends(c, text) ELSE UNCHANGED <<call, fresh, sends>>
        /\ UNCHANGED <<storeVars, phase, turn, prior, saved, seed, pipe>>
    BY <1>4, <2>1 DEF ReadAnswer
  <2>3. c \in Calls /\ text \in {"shown", "failed"} /\ (text = "shown" => c \in batches)
    BY <2>1 DEF IInv, TypeOK, Answer, LinesInvariant, SavedIsTrue
  <2>4. CASE call[c] = "waiting"
    <3>1. InFlightOrPaused(c) BY <2>4 DEF InFlightOrPaused
    <3> QED BY <2>2, <2>3, <2>4, <3>1, EndsStep
  <2>5. CASE call[c] # "waiting"
    <3>1. UNCHANGED <<runOf, batches, evidence, log, engineVars, pipe, issuer, call, sends>>
          /\ owner' \in {0, owner} /\ answers' \subseteq answers
      BY <2>2, <2>5 DEF storeVars, engineVars
    <3>2. call' \in [Calls -> CallState] /\ sends' \in [Calls -> 0 .. MaxSends]
      BY <3>1 DEF IInv, TypeOK, CallState
    <3>3. \A d \in Calls : call'[d] = "backoff" => sends'[d] < MaxSends
      BY <3>1 DEF IInv, Claimed
    <3> QED BY <3>1, <3>2, <3>3, QuietStep
  <2> QED BY <2>4, <2>5
<1> QED BY <1>1, <1>2, <1>3, <1>4

LEMMA InitInvariant == Init => IInv
<1> SUFFICES ASSUME Init PROVE IInv OBVIOUS
<1> USE DEF Init
<1>1. <<>> \in Seq(Entry) /\ <<>> \in Seq(Message) /\ <<>> \in Seq(Nat) /\ <<>> \in Seq(Claims)
      /\ Len(<<>>) = 0
  OBVIOUS
<1>2. TypeOK
  <2>1. 0 \in 0 .. MaxSupplements /\ 0 \in 0 .. MaxSends OBVIOUS
  <2> QED BY <1>1, <2>1 DEF TypeOK
<1>3. Claimed BY <1>1 DEF Claimed
<1>4. Rows
  <2>1. {e.number : e \in evidence} = 1 .. 0 OBVIOUS
  <2>2. 0 \in Nat OBVIOUS
  <2> QED BY <2>1, <2>2 DEF Rows
<1>5. HighestNumber = 0
  <2>1. {0} \cup {e.number : e \in evidence} = 0 .. 0 OBVIOUS
  <2>2. 0 \in Nat /\ 0 .. 0 \subseteq 0 .. 0 /\ 0 \in 0 .. 0 OBVIOUS
  <2>3. Max(0 .. 0) \in 0 .. 0 BY <2>2, MaxOfInterval
  <2>4. Max(0 .. 0) = 0 BY <2>3
  <2> QED BY <2>1, <2>4 DEF HighestNumber
<1>6. NumberedOnce /\ NumbersFollowExecutions
  <2>1. {e.number : e \in evidence} = 1 .. 0 OBVIOUS
  <2> QED BY <1>5, <2>1 DEF NumberedOnce, NumbersFollowExecutions
<1>7. /\ log = <<>>
      /\ \A k \in Claims : prior[k] = <<>> /\ seed[k] = <<>> /\ fresh[k] = <<>> /\ pipe[k] = <<>>
                           /\ saved[k] = {}
  OBVIOUS
<1>8. \A k \in Claims : Held(k) = {} BY <1>7, ElementsOfEmpty DEF Held
<1>9. Lines = {} BY <1>7, <1>8, ElementsOfEmpty DEF Lines
<1>10. Own
  <2>1. ASSUME NEW k \in Claims PROVE OwnFresh(k) /\ OwnPipe(k) /\ CommitsFirst(pipe[k], Busy)
    <3>1. OwnFresh(k) BY <1>7, ElementsOfEmpty DEF OwnFresh
    <3>2. OwnPipe(k) BY <1>7, ElementsOfEmpty DEF OwnPipe
    <3>3. CommitsFirst(pipe[k], Busy) BY <1>1, <1>7 DEF CommitsFirst
    <3> QED BY <3>1, <3>2, <3>3
  <2> QED BY <2>1 DEF Own
<1>11. LinesInvariant
  <2>1. \A k \in Claims : Open(prior[k]) = {} BY <1>7, ElementsOfEmpty DEF Open
  <2>2. ToSet(log) = {} /\ \A k \in Claims : ToSet(prior[k]) = {} BY <1>7, ElementsOfEmpty
  <2>3. Attributed /\ UnknownIsTrue /\ RealOnce /\ RecoveredIsAlone
    BY <1>9 DEF Attributed, UnknownIsTrue, RealOnce, RecoveredIsAlone
  <2>4. LoggedIsSettled BY <2>2 DEF LoggedIsSettled
  <2>5. SavedIsTrue BY <1>7, <1>9 DEF SavedIsTrue
  <2>6. OpenIsKnown BY <2>1 DEF OpenIsKnown
  <2> QED BY <2>3, <2>4, <2>5, <2>6 DEF LinesInvariant
<1> QED BY <1>2, <1>3, <1>4, <1>6, <1>10, <1>11 DEF IInv

LEMMA StepInvariant == IInv /\ [Next]_vars => IInv'
<1> SUFFICES ASSUME IInv, [Next]_vars PROVE IInv' OBVIOUS
<1>1. CASE Claim BY <1>1, ClaimStep
<1>2. CASE Released BY <1>2, CallStep
<1>3. ASSUME NEW k \in Claims, EngineStarts(k) PROVE IInv' BY <1>3, EngineStartsStep
<1>4. ASSUME NEW k \in Claims, ToolCalled(k) PROVE IInv' BY <1>4, ToolCalledStep
<1>5. ASSUME NEW k \in Claims, Supplement(k) PROVE IInv' BY <1>5, SupplementStep
<1>6. ASSUME NEW k \in Claims, Finish(k) PROVE IInv' BY <1>6, FinishStep
<1>7. ASSUME NEW k \in Claims, Dies(k) PROVE IInv' BY <1>7, DiesStep
<1>8. ASSUME NEW k \in Claims, ReadEntry(k) PROVE IInv' BY <1>8, ReadEntryStep
<1>9. ASSUME NEW k \in Claims, ReadCommit(k) PROVE IInv' BY <1>9, ReadCommitStep
<1>10. ASSUME NEW c \in Calls, AckTimeout(c) \/ GiveUp(c) PROVE IInv' BY <1>10, CallStep
<1>11. ASSUME NEW c \in Calls, Resend(c) PROVE IInv' BY <1>11, ResendStep
<1>12. ASSUME NEW answer \in answers, ReadAnswer(answer) PROVE IInv' BY <1>12, CallStep
<1>13. CASE UNCHANGED vars
  <2>1. UNCHANGED <<runOf, owner, batches, evidence, log, engineVars, pipe, answers, issuer, call, sends>>
    BY <1>13 DEF vars, storeVars, linkVars, callVars
  <2>2. call' \in [Calls -> CallState] /\ sends' \in [Calls -> 0 .. MaxSends]
    BY <2>1 DEF IInv, TypeOK, CallState
  <2>3. \A d \in Calls : call'[d] = "backoff" => sends'[d] < MaxSends
    BY <2>1 DEF IInv, Claimed
  <2> QED BY <2>1, <2>2, <2>3, QuietStep
<1> QED
  BY <1>1, <1>2, <1>3, <1>4, <1>5, <1>6, <1>7, <1>8, <1>9, <1>10, <1>11, <1>12, <1>13 DEF Next

LEMMA InvariantAlways == Spec => []IInv
BY InitInvariant, StepInvariant, PTL DEF Spec

-----------------------------------------------------------------------------
(* The theorems.                                                           *)

\* Evidence is numbered without gaps, a batch in one piece and once however often it was
\* sent, and in the order of the executions that found it (Store.commitEvidenceBatch
\* behind the guard on the generation).
THEOREM EvidenceInvariantHolds == Spec => []EvidenceInvariant
<1>1. IInv => EvidenceInvariant BY DEF IInv, EvidenceInvariant
<1> QED BY <1>1, InvariantAlways, PTL

\* What the model is shown by its tools or by recovery is saved, and what recovery calls
\* unknown, of a call of its own run, is not and never will be.
THEOREM ToldTheTruthHolds == Spec => []ToldTheTruth
<1>1. IInv => ToldTheTruth
  <2> SUFFICES ASSUME IInv PROVE ToldTheTruth OBVIOUS
  <2>1. \A k \in Claims : ToSet(seed[k]) \subseteq Lines BY DEF Lines, Held
  <2>2. ToSet(log) \subseteq Lines BY DEF Lines
  <2>3. ShownIsSaved BY <2>1 DEF ShownIsSaved, IInv, LinesInvariant, SavedIsTrue
  <2>4. UnknownIsUnsaved
    BY <2>1, <2>2 DEF UnknownIsUnsaved, IInv, LinesInvariant, UnknownIsTrue
  <2> QED BY <2>3, <2>4 DEF ToldTheTruth
<1> QED BY <1>1, InvariantAlways, PTL

\* A call whose real result reached the session log has that one result there: a later
\* executor's recovery adds no second answer (pendingToolCallIds, reconcileSession).
THEOREM AnsweredOnceHolds == Spec => []AnsweredOnce
<1>1. IInv => AnsweredOnce
  <2> SUFFICES ASSUME IInv, NEW e \in ToSet(log), NEW f \in ToSet(log),
                      e.kind = "result", f.kind = "result", e.call = f.call,
                      e.text \in {"shown", "failed"}
               PROVE  e = f
    BY DEF AnsweredOnce
  <2>1. e \in Lines /\ f \in Lines BY DEF Lines
  <2>2. IsReal(e) BY DEF IsReal
  <2>3. IsReal(f) \/ IsRecovered(f) BY <2>1 DEF IInv, LinesInvariant, Attributed
  <2>4. ~IsRecovered(f) BY <2>1, <2>2 DEF IInv, LinesInvariant, RecoveredIsAlone
  <2> QED BY <2>1, <2>2, <2>3, <2>4 DEF IInv, LinesInvariant, RealOnce
<1> QED BY <1>1, InvariantAlways, PTL
=============================================================================
