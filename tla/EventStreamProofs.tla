-------------------------- MODULE EventStreamProofs --------------------------
(***************************************************************************)
(* Machine-checked theorems about EventStream: the list of a page has the  *)
(* events of its stream, each once and in order, and a page at rest shows  *)
(* what was published last.                                                *)
(***************************************************************************)
EXTENDS EventStream, OrderingProofs, SequenceTheorems, TLAPS

USE EventStreamAssumption

-----------------------------------------------------------------------------
(* Sequences of numbers of a set.                                          *)

Growing(s) == \A m, n \in DOMAIN s : m < n => s[m] < s[n]

\* s has every number of S.
Covers(s, S) == \A x \in S : \E n \in DOMAIN s : s[n] = x

\* s has every number of S up to the last that it has.
Gapless(s, S) == \A x \in S : \A n \in DOMAIN s : x <= s[n] => \E m \in DOMAIN s : s[m] = x

\* In a growing sequence without gaps an element stands at its rank.
LEMMA PlaceIsRank ==
  ASSUME NEW S, S \subseteq Nat, IsFiniteSet(S), NEW s \in Seq(S), Growing(s), Gapless(s, S),
         NEW n \in DOMAIN s
  PROVE  Rank(S, s[n]) = n
<1> DEFINE Low == {y \in S : y <= s[n]}
           f == [m \in 1 .. n |-> s[m]]
<1>1. DOMAIN s = 1 .. Len(s) /\ Len(s) \in Nat BY LenProperties
<1>2. n \in Nat /\ \A m \in 1 .. n : m \in DOMAIN s BY <1>1
<1>3. \A m \in DOMAIN s : s[m] \in S /\ s[m] \in Nat BY <1>1, ElementOfSeq
<1>4. \A m \in 1 .. n : s[m] <= s[n]
  <2> SUFFICES ASSUME NEW m \in 1 .. n PROVE s[m] <= s[n] OBVIOUS
  <2>1. m = n \/ m < n BY <1>2
  <2>2. s[m] \in Nat /\ s[n] \in Nat BY <1>2, <1>3
  <2>3. m < n => s[m] < s[n] BY <1>2 DEF Growing
  <2> QED BY <2>1, <2>2, <2>3
<1>5. f \in [1 .. n -> Low] BY <1>2, <1>3, <1>4
<1>6. \A x \in Low : \E m \in 1 .. n : f[m] = x
  <2> SUFFICES ASSUME NEW x \in S, x <= s[n] PROVE \E m \in 1 .. n : s[m] = x OBVIOUS
  <2>1. PICK m \in DOMAIN s : s[m] = x BY DEF Gapless
  <2>2. ~(n < m)
    <3>1. s[n] \in Nat /\ s[m] \in Nat BY <1>3
    <3>2. n < m => s[n] < s[m] BY DEF Growing
    <3> QED BY <2>1, <3>1, <3>2
  <2>3. m \in 1 .. n BY <1>1, <1>2, <2>2
  <2> QED BY <2>1, <2>3
<1>7. \A i, j \in 1 .. n : f[i] = f[j] => i = j
  <2> SUFFICES ASSUME NEW i \in 1 .. n, NEW j \in 1 .. n, i # j PROVE s[i] # s[j] OBVIOUS
  <2>1. i \in DOMAIN s /\ j \in DOMAIN s BY <1>2
  <2>2. s[i] \in Nat /\ s[j] \in Nat BY <1>3, <2>1
  <2>3. (i < j => s[i] < s[j]) /\ (j < i => s[j] < s[i]) BY <2>1 DEF Growing
  <2>4. i < j \/ j < i BY <1>2
  <2> QED BY <2>2, <2>3, <2>4
<1>8. f \in Injection(1 .. n, Low) BY <1>5, <1>7 DEF Injection, IsInjective
<1>9. f \in Surjection(1 .. n, Low) BY <1>5, <1>6 DEF Surjection
<1>10. f \in Bijection(1 .. n, Low) BY <1>8, <1>9 DEF Bijection
<1>11. IsFiniteSet(1 .. n) /\ Cardinality(1 .. n) = n BY <1>2, FS_Interval
<1>12. Cardinality(1 .. n) = Cardinality(Low)
  <2> HIDE DEF f, Low
  <2> QED BY <1>10, <1>11, FS_Bijection DEF ExistsBijection
<1> QED BY <1>11, <1>12 DEF Rank

\* The beginning of a sequence of k elements or more.
LEMMA BeginningOf ==
  ASSUME NEW S, NEW t, NEW k \in Nat, \A i \in 1 .. k : t[i] \in S
  PROVE  /\ SubSeq(t, 1, k) \in Seq(S)
         /\ Len(SubSeq(t, 1, k)) = k /\ DOMAIN SubSeq(t, 1, k) = 1 .. k
         /\ \A i \in 1 .. k : SubSeq(t, 1, k)[i] = t[i]
<1>1. /\ SubSeq(t, 1, k) \in Seq(S)
      /\ Len(SubSeq(t, 1, k)) = IF 1 <= k THEN k - 1 + 1 ELSE 0
      /\ \A i \in 1 .. k - 1 + 1 : SubSeq(t, 1, k)[i] = t[1 + i - 1]
  <2>1. k \in Int /\ 1 \in Int OBVIOUS
  <2> QED BY <2>1, SubSeqProperties
<1>2. \A i \in 1 .. k : i \in 1 .. k - 1 + 1 /\ 1 + i - 1 = i OBVIOUS
<1>3. Len(SubSeq(t, 1, k)) = k BY <1>1
<1>4. DOMAIN SubSeq(t, 1, k) = 1 .. k BY <1>1, <1>3, LenProperties
<1> QED BY <1>1, <1>2, <1>3, <1>4

\* Such a sequence is a prefix of the set in order.
LEMMA GaplessIsPrefix ==
  ASSUME NEW S, S \subseteq Nat, IsFiniteSet(S), NEW s \in Seq(S), Growing(s), Gapless(s, S)
  PROVE  /\ InOrder(S) \in Seq(S) /\ Len(InOrder(S)) = Cardinality(S)
         /\ Len(s) <= Cardinality(S)
         /\ \A n \in 1 .. Len(s) : s[n] = InOrder(S)[n]
<1>1. DOMAIN s = 1 .. Len(s) /\ Len(s) \in Nat BY LenProperties
<1>2. S \subseteq Int OBVIOUS
<1>3. /\ Cardinality(S) \in Nat
      /\ InOrder(S) \in [1 .. Cardinality(S) -> S]
      /\ \A x \in S : InOrder(S)[Rank(S, x)] = x
  BY <1>2, InOrderProperties
<1>4. InOrder(S) \in Seq(S) /\ Len(InOrder(S)) = Cardinality(S)
  <2>1. InOrder(S) \in Seq(S) BY <1>3, SeqDef
  <2>2. DOMAIN InOrder(S) = 1 .. Cardinality(S) BY <1>3
  <2>3. Len(InOrder(S)) \in Nat /\ DOMAIN InOrder(S) = 1 .. Len(InOrder(S)) BY <2>1, LenProperties
  <2> QED BY <1>3, <2>1, <2>2, <2>3
<1>5. \A n \in 1 .. Len(s) : s[n] \in S /\ Rank(S, s[n]) = n
  BY <1>1, PlaceIsRank, ElementOfSeq
<1>6. Len(s) <= Cardinality(S)
  <2>1. CASE Len(s) = 0 BY <1>3, <2>1
  <2>2. CASE Len(s) # 0
    <3>1. Len(s) \in 1 .. Len(s) BY <1>1, <2>2
    <3>2. s[Len(s)] \in S /\ Rank(S, s[Len(s)]) = Len(s) BY <1>5, <3>1
    <3>3. Rank(S, s[Len(s)]) \in 1 .. Cardinality(S) BY <1>2, <3>2, RankGrows
    <3> QED BY <1>1, <1>3, <3>2, <3>3
  <2> QED BY <2>1, <2>2
<1> QED BY <1>3, <1>4, <1>5, <1>6

\* The same, as a prefix.
LEMMA PrefixOfInOrder ==
  ASSUME NEW S, S \subseteq Nat, IsFiniteSet(S), NEW s \in Seq(S), Growing(s), Gapless(s, S)
  PROVE  IsPrefix(s, InOrder(S))
<1> DEFINE t == InOrder(S)
<1>1. /\ t \in Seq(S) /\ Len(t) = Cardinality(S)
      /\ Len(s) <= Cardinality(S)
      /\ \A n \in 1 .. Len(s) : s[n] = t[n]
  BY GaplessIsPrefix
<1> HIDE DEF t
<1>2. Len(s) \in Nat /\ Len(t) \in Nat BY <1>1, LenProperties
<1>3. \A i \in 1 .. Len(s) : s[i] \in S /\ t[i] \in S BY <1>1, ElementOfSeq
<1>4. SubSeq(t, 1, Len(s)) \in Seq(S) /\ Len(SubSeq(t, 1, Len(s))) = Len(s)
      /\ \A i \in 1 .. Len(s) : SubSeq(t, 1, Len(s))[i] = t[i] BY <1>2, <1>3, BeginningOf
<1>5. SubSeq(t, 1, Len(s)) = s
  <2> HIDE DEF t
  <2>1. \A i \in 1 .. Len(s) : s[i] = SubSeq(t, 1, Len(s))[i] BY <1>1, <1>4
  <2> QED BY <1>4, <2>1, SeqEqual
<1>6. SubSeq(s, 1, Len(s)) = s BY SubSeqFull
<1> QED BY <1>1, <1>5, <1>6 DEF IsPrefix, t

\* A growing sequence of all numbers of a set is the set in order.
LEMMA CoveringIsInOrder ==
  ASSUME NEW S, S \subseteq Nat, IsFiniteSet(S), NEW s \in Seq(S), Growing(s), Covers(s, S)
  PROVE  s = InOrder(S)
<1>1. Gapless(s, S) BY DEF Gapless, Covers
<1> DEFINE t == InOrder(S)
<1>2. /\ t \in Seq(S) /\ Len(t) = Cardinality(S)
      /\ Len(s) <= Cardinality(S)
      /\ \A n \in 1 .. Len(s) : s[n] = t[n]
  BY <1>1, GaplessIsPrefix
<1>3. DOMAIN s = 1 .. Len(s) /\ Len(s) \in Nat BY LenProperties
<1>4. Cardinality(S) \in Nat /\ \A n \in 1 .. Cardinality(S) : t[n] \in S /\ Rank(S, t[n]) = n
  <2>1. S \subseteq Int OBVIOUS
  <2>2. Cardinality(S) \in Nat /\ \A n \in 1 .. Cardinality(S) : Rank(S, t[n]) = n
    BY <2>1, InOrderProperties
  <2>3. \A n \in 1 .. Len(t) : t[n] \in S BY <1>2, ElementOfSeq
  <2> QED BY <1>2, <2>2, <2>3
<1> HIDE DEF t
<1>5. Len(s) = Cardinality(S)
  <2>1. CASE Cardinality(S) = 0 BY <1>2, <1>3, <2>1
  <2>2. CASE Cardinality(S) # 0
    <3> PICK c : c = Cardinality(S) OBVIOUS
    <3>1. c \in 1 .. c /\ c \in Nat BY <1>4, <2>2
    <3>2. t[c] \in S /\ Rank(S, t[c]) = c BY <1>4, <3>1
    <3>3. PICK m \in DOMAIN s : s[m] = t[c] BY <3>2 DEF Covers
    <3>4. Rank(S, s[m]) = m BY <1>1, PlaceIsRank
    <3>5. m = c BY <3>2, <3>3, <3>4
    <3> QED BY <1>2, <1>3, <3>1, <3>5
  <2> QED BY <2>1, <2>2
<1>6. \A i \in 1 .. Len(s) : s[i] = t[i] BY <1>2
<1>7. s = t BY <1>2, <1>5, <1>6, SeqEqual
<1> QED BY <1>7 DEF t

-----------------------------------------------------------------------------
(* What a page has been sent.                                              *)

\* l is the list of a page, w what is on its wire, up whether its connection is
\* open and S the events of its stream: l and w are of the stream and in order, and
\* if a replay can hold the stream, without gaps and complete while the page is up.
Fed(l, w, up, S) ==
  /\ l \in Seq(Nat) /\ w \in Seq(Nat) /\ l \o w \in Seq(S)
  /\ Growing(l \o w)
  /\ ~up => w = <<>>
  /\ Cardinality(S) <= ReplayLimit => /\ Gapless(l \o w, S)
                                      /\ up => Covers(l \o w, S)

\* The part of the list and the part of the wire in what was sent.
LEMMA PlacesInSent ==
  ASSUME NEW S, NEW l \in Seq(S), NEW w \in Seq(S)
  PROVE  /\ DOMAIN (l \o w) = 1 .. Len(l) + Len(w) /\ DOMAIN l = 1 .. Len(l)
         /\ DOMAIN w = 1 .. Len(w) /\ Len(l) \in Nat /\ Len(w) \in Nat
         /\ \A n \in DOMAIN l : n \in DOMAIN (l \o w) /\ (l \o w)[n] = l[n]
         /\ \A n \in DOMAIN w : n + Len(l) \in DOMAIN (l \o w) /\ (l \o w)[n + Len(l)] = w[n]
         /\ \A n \in DOMAIN (l \o w) : n > Len(l) =>
              n - Len(l) \in DOMAIN w /\ (l \o w)[n] = w[n - Len(l)]
<1>1. /\ DOMAIN l = 1 .. Len(l) /\ Len(l) \in Nat
      /\ DOMAIN w = 1 .. Len(w) /\ Len(w) \in Nat
  BY LenProperties
<1> PICK c : c = l \o w OBVIOUS
<1>2. /\ c \in Seq(S) /\ Len(c) = Len(l) + Len(w)
      /\ \A i \in 1 .. Len(l) + Len(w) : c[i] = IF i <= Len(l) THEN l[i] ELSE w[i - Len(l)]
  BY ConcatProperties
<1>3. DOMAIN c = 1 .. Len(l) + Len(w) BY <1>2, LenProperties
<1>4. \A n \in DOMAIN l : n \in DOMAIN c /\ c[n] = l[n] BY <1>1, <1>2, <1>3
<1>5. \A n \in DOMAIN w : n + Len(l) \in DOMAIN c /\ c[n + Len(l)] = w[n]
  <2> SUFFICES ASSUME NEW n \in DOMAIN w
               PROVE  n + Len(l) \in DOMAIN c /\ c[n + Len(l)] = w[n]
    OBVIOUS
  <2>1. n + Len(l) \in 1 .. Len(l) + Len(w) /\ ~(n + Len(l) <= Len(l)) /\ n + Len(l) - Len(l) = n
    BY <1>1
  <2> QED BY <1>2, <1>3, <2>1
<1>6. \A n \in DOMAIN c : n > Len(l) => n - Len(l) \in DOMAIN w /\ c[n] = w[n - Len(l)]
  <2> SUFFICES ASSUME NEW n \in DOMAIN c, n > Len(l)
               PROVE  n - Len(l) \in DOMAIN w /\ c[n] = w[n - Len(l)]
    OBVIOUS
  <2>1. n \in 1 .. Len(l) + Len(w) /\ ~(n <= Len(l)) /\ n - Len(l) \in 1 .. Len(w) BY <1>1, <1>3
  <2> QED BY <1>1, <1>2, <2>1
<1> QED BY <1>1, <1>3, <1>4, <1>5, <1>6

\* A page that begins a list has been sent nothing.
LEMMA FedNothing ==
  ASSUME NEW S, S \subseteq Nat
  PROVE  Fed(<<>>, <<>>, FALSE, S)
<1>1. <<>> \in Seq(Nat) /\ <<>> \in Seq(S) BY EmptySeq
<1>2. <<>> \o <<>> = <<>> BY <1>1, ConcatEmptySeq
<1>3. DOMAIN <<>> = {} OBVIOUS
<1>4. Growing(<<>>) /\ Gapless(<<>>, S) BY <1>3 DEF Growing, Gapless
<1> QED BY <1>1, <1>2, <1>4 DEF Fed

\* A connection that ends takes along what is on the wire.
LEMMA FedLost ==
  ASSUME NEW S, S \subseteq Nat, NEW l, NEW w, NEW up \in BOOLEAN, Fed(l, w, up, S)
  PROVE  Fed(l, <<>>, FALSE, S)
<1>1. /\ l \in Seq(Nat) /\ w \in Seq(Nat) /\ l \o w \in Seq(S) /\ Growing(l \o w)
      /\ Cardinality(S) <= ReplayLimit => Gapless(l \o w, S)
  BY DEF Fed
<1>2. l \o <<>> = l /\ <<>> \in Seq(Nat) BY <1>1, ConcatEmptySeq, EmptySeq
<1>3. /\ DOMAIN (l \o w) = 1 .. Len(l) + Len(w) /\ DOMAIN l = 1 .. Len(l)
      /\ Len(l) \in Nat /\ Len(w) \in Nat
      /\ \A n \in DOMAIN l : n \in DOMAIN (l \o w) /\ (l \o w)[n] = l[n]
  BY <1>1, PlacesInSent
<1> PICK c : c = l \o w OBVIOUS
<1>4. c \in Seq(S) /\ Growing(c) /\ DOMAIN c = 1 .. Len(l) + Len(w)
      /\ \A n \in DOMAIN l : n \in DOMAIN c /\ c[n] = l[n]
  BY <1>1, <1>3
<1>5. \A n \in DOMAIN c : c[n] \in S /\ c[n] \in Nat
  <2>1. \A n \in 1 .. Len(c) : c[n] \in S BY <1>4, ElementOfSeq
  <2>2. DOMAIN c = 1 .. Len(c) BY <1>4, LenProperties
  <2> QED BY <2>1, <2>2
<1>6. l \in Seq(S)
  <2>1. \A n \in 1 .. Len(l) : l[n] \in S BY <1>3, <1>4, <1>5
  <2>2. l = [n \in 1 .. Len(l) |-> l[n]] BY <1>1, <1>3
  <2>3. l \in [1 .. Len(l) -> S] BY <2>1, <2>2
  <2> QED BY <1>3, <2>3, SeqDef
<1>7. Growing(l) BY <1>4 DEF Growing
<1>8. ASSUME Gapless(c, S) PROVE Gapless(l, S)
  <2> SUFFICES ASSUME NEW x \in S, NEW n \in DOMAIN l, x <= l[n]
               PROVE  \E m \in DOMAIN l : l[m] = x
    BY DEF Gapless
  <2>1. n \in DOMAIN c /\ c[n] = l[n] BY <1>4
  <2>2. PICK m \in DOMAIN c : c[m] = x BY <1>8, <2>1 DEF Gapless
  <2>3. ~(n < m)
    <3>1. c[n] \in Nat /\ c[m] \in Nat BY <1>5, <2>1
    <3>2. n < m => c[n] < c[m] BY <1>4, <2>1 DEF Growing
    <3> QED BY <2>1, <2>2, <3>1, <3>2
  <2>4. m \in DOMAIN l BY <1>3, <1>4, <2>3
  <2> QED BY <1>4, <2>2, <2>4
<1> QED BY <1>1, <1>2, <1>6, <1>7, <1>8 DEF Fed

\* A page that reads moves an event from the wire to its list.
LEMMA FedRead ==
  ASSUME NEW S, S \subseteq Nat, NEW l, NEW w, Fed(l, w, TRUE, S), w # <<>>
  PROVE  /\ Fed(Append(l, Head(w)), Tail(w), TRUE, S)
         /\ Head(w) \in S
<1>1. l \in Seq(Nat) /\ w \in Seq(Nat) /\ l \o w \in Seq(S) BY DEF Fed
<1>2. Head(w) \in Nat /\ Tail(w) \in Seq(Nat) BY <1>1, HeadTailProperties
<1>3. Append(l, Head(w)) = l \o <<Head(w)>> /\ Append(l, Head(w)) \in Seq(Nat)
  BY <1>1, <1>2, AppendIsConcat, AppendProperties
<1>4. <<Head(w)>> \o Tail(w) = w
  <2>1. Len(w) \in Nat /\ w = SubSeq(w, 1, Len(w)) /\ w[1] = Head(w)
    BY <1>1, SubSeqFull, LenProperties
  <2>2. 1 \in 1 .. Len(w) /\ Len(w) \in 1 .. Len(w)
    BY <1>1, EmptySeq, <2>1
  <2>3. SubSeq(w, 1, Len(w)) = <<w[1]>> \o SubSeq(w, 1 + 1, Len(w))
    BY <1>1, <2>2, SubSeqRecursiveFirst
  <2>4. Tail(w) = SubSeq(w, 2, Len(w)) BY <1>1, TailIsSubSeq
  <2> QED BY <2>1, <2>3, <2>4
<1>5. Append(l, Head(w)) \o Tail(w) = l \o w
  <2>1. <<Head(w)>> \in Seq(Nat) BY <1>2
  <2>2. (l \o <<Head(w)>>) \o Tail(w) = l \o (<<Head(w)>> \o Tail(w))
    BY <1>1, <1>2, <2>1, ConcatAssociative
  <2> QED BY <1>3, <1>4, <2>2
<1>6. Head(w) \in S
  <2>1. 1 \in DOMAIN w /\ w[1] = Head(w)
    <3>1. Len(w) \in Nat \ {0} /\ DOMAIN w = 1 .. Len(w) BY <1>1, EmptySeq, LenProperties
    <3> QED BY <1>1, <3>1
  <2>2. 1 + Len(l) \in DOMAIN (l \o w) /\ (l \o w)[1 + Len(l)] = w[1]
    BY <1>1, <2>1, PlacesInSent
  <2>3. \A n \in 1 .. Len(l \o w) : (l \o w)[n] \in S BY <1>1, ElementOfSeq
  <2>4. DOMAIN (l \o w) = 1 .. Len(l \o w) BY <1>1, LenProperties
  <2> QED BY <2>1, <2>2, <2>3, <2>4
<1>7. /\ Growing(l \o w)
      /\ Cardinality(S) <= ReplayLimit => Gapless(l \o w, S) /\ Covers(l \o w, S)
  BY DEF Fed
<1> QED BY <1>2, <1>3, <1>5, <1>6, <1>7 DEF Fed

\* A new event is the last of its stream.
LEMMA OneMore ==
  ASSUME NEW N \in Nat, NEW S, S \subseteq 1 .. N
  PROVE  /\ S \cup {N + 1} \subseteq Nat /\ \A x \in S : x < N + 1
         /\ Cardinality(S \cup {N + 1}) <= ReplayLimit => Cardinality(S) <= ReplayLimit
<1>1. IsFiniteSet(S)
  <2>1. IsFiniteSet(1 .. N) BY FS_Interval
  <2>2. S \in SUBSET (1 .. N) OBVIOUS
  <2> QED BY <2>1, <2>2, FS_Subset
<1>2. N + 1 \notin S OBVIOUS
<1>3. Cardinality(S) \in Nat /\ Cardinality(S \cup {N + 1}) = Cardinality(S) + 1
  BY <1>1, <1>2, FS_AddElement, FS_CardinalityType
<1> QED BY <1>3

\* An open page is sent it.
LEMMA FedMore ==
  ASSUME NEW N \in Nat, NEW S, S \subseteq 1 .. N, NEW l, NEW w, Fed(l, w, TRUE, S)
  PROVE  Fed(l, Append(w, N + 1), TRUE, S \cup {N + 1})
<1> PICK x : x = N + 1 OBVIOUS
<1> PICK T : T = S \cup {x} OBVIOUS
<1>1. l \in Seq(Nat) /\ w \in Seq(Nat) /\ l \o w \in Seq(S) BY DEF Fed
<1>2. x \in Nat /\ T \subseteq Nat /\ S \subseteq T /\ x \in T /\ \A y \in S : y < x BY OneMore
<1> PICK c : c = l \o w OBVIOUS
<1>3. l \o Append(w, x) = Append(c, x)
  <2>1. Append(w, x) = w \o <<x>> /\ <<x>> \in Seq(Nat) BY <1>1, <1>2, AppendIsConcat
  <2>2. (l \o w) \o <<x>> = l \o (w \o <<x>>) BY <1>1, <2>1, ConcatAssociative
  <2>3. c \in Seq(T) BY <1>1, <1>2, SeqMonotonic
  <2>4. Append(c, x) = c \o <<x>> BY <1>2, <2>3, AppendIsConcat
  <2> QED BY <2>1, <2>2, <2>4
<1>4. c \in Seq(S) /\ c \in Seq(T) BY <1>1, <1>2, SeqMonotonic
<1> PICK d : d = Append(c, x) OBVIOUS
<1>5. /\ d \in Seq(T) /\ Len(d) = Len(c) + 1
      /\ \A i \in 1 .. Len(c) : d[i] = c[i]
      /\ d[Len(c) + 1] = x
  BY <1>2, <1>4, AppendProperties
<1>6. /\ DOMAIN c = 1 .. Len(c) /\ Len(c) \in Nat /\ DOMAIN d = 1 .. Len(c) + 1
      /\ \A i \in DOMAIN c : c[i] \in S
  BY <1>4, <1>5, LenProperties, ElementOfSeq
<1>7. Growing(d)
  <2> SUFFICES ASSUME NEW m \in DOMAIN d, NEW n \in DOMAIN d, m < n PROVE d[m] < d[n]
    BY DEF Growing
  <2>1. m \in 1 .. Len(c) BY <1>6
  <2>2. CASE n \in 1 .. Len(c)
    <3>1. c[m] < c[n] BY <1>6, <2>1, <2>2 DEF Growing, Fed
    <3> QED BY <1>5, <2>1, <2>2, <3>1
  <2>3. CASE n = Len(c) + 1 BY <1>2, <1>5, <1>6, <2>1, <2>3
  <2>4. n \in 1 .. Len(c) \/ n = Len(c) + 1 BY <1>6
  <2> QED BY <2>2, <2>3, <2>4
<1>8. ASSUME Cardinality(T) <= ReplayLimit PROVE Covers(d, T)
  <2>1. Cardinality(S) <= ReplayLimit BY <1>8, OneMore
  <2>2. Covers(c, S) BY <2>1 DEF Fed
  <2> SUFFICES ASSUME NEW y \in T PROVE \E n \in DOMAIN d : d[n] = y BY DEF Covers
  <2>3. CASE y \in S
    <3>1. PICK n \in DOMAIN c : c[n] = y BY <2>2, <2>3 DEF Covers
    <3>2. n \in DOMAIN d /\ d[n] = y BY <1>5, <1>6, <3>1
    <3> QED BY <3>2
  <2>4. CASE y = x
    <3>1. Len(c) + 1 \in DOMAIN d BY <1>6
    <3> QED BY <1>5, <2>4, <3>1
  <2> QED BY <2>3, <2>4
<1>9. Append(w, x) \in Seq(Nat) BY <1>1, <1>2, AppendProperties
<1>10. l \o Append(w, x) \in Seq(T) /\ Growing(l \o Append(w, x)) BY <1>3, <1>5, <1>7
<1>11. Cardinality(T) <= ReplayLimit =>
         Gapless(l \o Append(w, x), T) /\ Covers(l \o Append(w, x), T)
  <2>1. Cardinality(T) <= ReplayLimit => Gapless(d, T) /\ Covers(d, T)
    BY <1>8 DEF Gapless, Covers
  <2> QED BY <1>3, <2>1
<1>12. Fed(l, Append(w, x), TRUE, T) BY <1>1, <1>9, <1>10, <1>11 DEF Fed
<1> QED BY <1>12

\* Any other page will find it behind what it has.
LEMMA FedLater ==
  ASSUME NEW N \in Nat, NEW S, S \subseteq 1 .. N, NEW l, NEW w, Fed(l, w, FALSE, S)
  PROVE  Fed(l, w, FALSE, S \cup {N + 1})
<1> PICK x : x = N + 1 OBVIOUS
<1> PICK T : T = S \cup {x} OBVIOUS
<1> PICK c : c = l \o w OBVIOUS
<1>1. x \in Nat /\ T \subseteq Nat /\ S \subseteq T /\ \A y \in S : y < x /\ y \in Nat BY OneMore
<1>2. c \in Seq(S) /\ Growing(c) /\ l \in Seq(Nat) /\ w \in Seq(Nat) /\ w = <<>> BY DEF Fed
<1>3. c \in Seq(T) BY <1>1, <1>2, SeqMonotonic
<1>4. \A n \in DOMAIN c : c[n] \in S BY <1>2, LenProperties, ElementOfSeq
<1>5. ASSUME Cardinality(T) <= ReplayLimit PROVE Gapless(c, T)
  <2>1. Gapless(c, S) BY <1>5, OneMore DEF Fed
  <2> SUFFICES ASSUME NEW y \in T, NEW n \in DOMAIN c, y <= c[n]
               PROVE  \E m \in DOMAIN c : c[m] = y
    BY DEF Gapless
  <2>2. c[n] \in Nat /\ c[n] < x BY <1>1, <1>4
  <2>3. y \in S BY <1>1, <2>2
  <2> QED BY <2>1, <2>3 DEF Gapless
<1>6. Fed(l, w, FALSE, T) BY <1>2, <1>3, <1>5 DEF Fed
<1> QED BY <1>6

\* What EventStore.replay returns: events of the set it was asked for, in order, and
\* all of them if the limit allows.
LEMMA FirstOfProperties ==
  ASSUME NEW S, S \subseteq Nat, IsFiniteSet(S)
  PROVE  /\ FirstOf(S) \in Seq(S)
         /\ Growing(FirstOf(S))
         /\ Cardinality(S) <= ReplayLimit => Covers(FirstOf(S), S)
<1>11. PICK t : t = InOrder(S) OBVIOUS
<1>12. PICK c : c = Cardinality(S) OBVIOUS
<1>13. PICK k : k = Min({ReplayLimit, c}) OBVIOUS
<1>1. S \subseteq Int OBVIOUS
<1>2. /\ c \in Nat /\ t \in [1 .. c -> S]
      /\ \A i, j \in 1 .. c : i < j => t[i] < t[j]
      /\ \A x \in S : t[Rank(S, x)] = x
  BY <1>1, <1>11, <1>12, InOrderProperties
<1>3. \A x \in S : Rank(S, x) \in 1 .. c BY <1>1, <1>12, RankGrows
<1>4. k \in Nat /\ k <= c /\ (c <= ReplayLimit => k = c)
  <2>1. {ReplayLimit, c} \subseteq Nat /\ {ReplayLimit, c} # {} BY <1>2
  <2>2. k \in {ReplayLimit, c} /\ \A y \in {ReplayLimit, c} : k <= y BY <1>13, <2>1, MinIsLeast
  <2> QED BY <1>2, <2>2
<1>5. \A i \in 1 .. k : i \in 1 .. c /\ t[i] \in S BY <1>2, <1>4
<1>10. PICK d : d = SubSeq(t, 1, k) OBVIOUS
<1>6. d \in Seq(S) /\ DOMAIN d = 1 .. k /\ \A i \in 1 .. k : d[i] = t[i]
  <2>1. \A i \in 1 .. k : t[i] \in S BY <1>5
  <2>2. k \in Nat BY <1>4
  <2>3. /\ SubSeq(t, 1, k) \in Seq(S) /\ DOMAIN SubSeq(t, 1, k) = 1 .. k
        /\ \A i \in 1 .. k : SubSeq(t, 1, k)[i] = t[i]
    BY <2>1, <2>2, BeginningOf
  <2> QED BY <1>10, <2>3
<1>7. Growing(d)
  <2> SUFFICES ASSUME NEW m \in DOMAIN d, NEW n \in DOMAIN d, m < n PROVE d[m] < d[n]
    BY DEF Growing
  <2>1. m \in 1 .. k /\ n \in 1 .. k /\ m \in 1 .. c /\ n \in 1 .. c BY <1>5, <1>6
  <2>2. t[m] < t[n] BY <1>2, <2>1
  <2> QED BY <1>6, <2>1, <2>2
<1>8. ASSUME c <= ReplayLimit PROVE Covers(d, S)
  <2> SUFFICES ASSUME NEW x \in S PROVE \E n \in DOMAIN d : d[n] = x BY DEF Covers
  <2>1. Rank(S, x) \in DOMAIN d BY <1>3, <1>4, <1>6, <1>8
  <2>2. d[Rank(S, x)] = x BY <1>2, <1>6, <2>1
  <2> QED BY <2>1, <2>2
<1>9. FirstOf(S) = d BY <1>10, <1>11, <1>12, <1>13 DEF FirstOf
<1> QED BY <1>6, <1>7, <1>8, <1>9, <1>12

\* Two growing sequences, the second behind the first, are one.
LEMMA JoinedGrows ==
  ASSUME NEW l \in Seq(Nat), NEW w \in Seq(Nat), Growing(l), Growing(w),
         \A i \in DOMAIN l : \A j \in DOMAIN w : l[i] < w[j]
  PROVE  Growing(l \o w)
<1> PICK c : c = l \o w OBVIOUS
<1> PICK k : k = Len(l) OBVIOUS
<1>1. /\ DOMAIN c = 1 .. k + Len(w) /\ DOMAIN l = 1 .. k
      /\ DOMAIN w = 1 .. Len(w) /\ k \in Nat /\ Len(w) \in Nat
      /\ \A n \in DOMAIN l : n \in DOMAIN c /\ c[n] = l[n]
      /\ \A n \in DOMAIN c : n > k => n - k \in DOMAIN w /\ c[n] = w[n - k]
  BY PlacesInSent
<1> SUFFICES ASSUME NEW m \in DOMAIN c, NEW n \in DOMAIN c, m < n PROVE c[m] < c[n]
  BY DEF Growing
<1>2. m \in Nat /\ n \in Nat /\ m >= 1 BY <1>1
<1>3. CASE n <= k
  <2>1. m \in DOMAIN l /\ n \in DOMAIN l BY <1>1, <1>2, <1>3
  <2>2. l[m] < l[n] BY <2>1 DEF Growing
  <2> QED BY <1>1, <2>1, <2>2
<1>4. CASE m > k
  <2>1. m - k \in DOMAIN w /\ c[m] = w[m - k] BY <1>1, <1>4
  <2>0. n > k BY <1>1, <1>2, <1>4
  <2>2. n - k \in DOMAIN w /\ c[n] = w[n - k] BY <1>1, <2>0
  <2>3. m - k < n - k BY <1>1, <1>2
  <2>4. w[m - k] < w[n - k] BY <2>1, <2>2, <2>3 DEF Growing
  <2> QED BY <2>1, <2>2, <2>4
<1>5. CASE m <= k /\ n > k
  <2>1. m \in DOMAIN l /\ c[m] = l[m] BY <1>1, <1>2, <1>5
  <2>2. n - k \in DOMAIN w /\ c[n] = w[n - k] BY <1>1, <1>5
  <2>3. l[m] < w[n - k] BY <2>1, <2>2
  <2> QED BY <2>1, <2>2, <2>3
<1>6. n <= k \/ m > k \/ (m <= k /\ n > k) BY <1>1, <1>2
<1> QED BY <1>3, <1>4, <1>5, <1>6

\* The id a browser sends is that of the last event in the list.
LastId(l) == IF l = <<>> THEN 0 ELSE Last(l)

\* It is the greatest id of the list, and below every id if there is none.
LEMMA LastIdProperties ==
  ASSUME NEW l \in Seq(Nat), Growing(l)
  PROVE  /\ LastId(l) \in Nat
         /\ \A n \in DOMAIN l : l[n] <= LastId(l)
         /\ l # <<>> => Len(l) \in DOMAIN l /\ LastId(l) = l[Len(l)]
<1>1. DOMAIN l = 1 .. Len(l) /\ Len(l) \in Nat BY LenProperties
<1>2. \A n \in DOMAIN l : l[n] \in Nat BY <1>1, ElementOfSeq
<1>3. CASE l = <<>>
  <2>1. Len(l) = 0 BY <1>3
  <2> QED BY <1>1, <1>3, <2>1 DEF LastId
<1>4. CASE l # <<>>
  <2>1. Len(l) \in Nat \ {0} BY <1>4, EmptySeq
  <2>2. Len(l) \in DOMAIN l /\ LastId(l) = l[Len(l)] BY <1>1, <1>4, <2>1 DEF LastId, Last
  <2>3. ASSUME NEW n \in DOMAIN l PROVE l[n] <= l[Len(l)]
    <3>1. n = Len(l) \/ n < Len(l) BY <1>1
    <3>2. n < Len(l) => l[n] < l[Len(l)] BY <2>2 DEF Growing
    <3>3. l[n] \in Nat /\ l[Len(l)] \in Nat BY <1>2, <2>2
    <3> QED BY <3>1, <3>2, <3>3
  <2> QED BY <1>2, <2>2, <2>3
<1> QED BY <1>3, <1>4

\* A page that connects is sent what it has missed.
LEMMA FedAgain ==
  ASSUME NEW S, S \subseteq Nat \ {0}, IsFiniteSet(S), NEW l, NEW w, Fed(l, w, FALSE, S)
  PROVE  Fed(l, FirstOf({n \in S : n > LastId(l)}), TRUE, S)
<1> PICK M : M = {n \in S : n > LastId(l)} OBVIOUS
<1> PICK v : v = FirstOf(M) OBVIOUS
<1>1. l \in Seq(Nat) /\ w = <<>> /\ l \o w \in Seq(S) /\ Growing(l \o w) BY DEF Fed
<1>2. l \o w = l BY <1>1, ConcatEmptySeq
<1>3. /\ l \in Seq(S) /\ Growing(l)
      /\ Cardinality(S) <= ReplayLimit => Gapless(l, S)
  BY <1>1, <1>2 DEF Fed
<1>4. M \subseteq Nat /\ M \subseteq S /\ IsFiniteSet(M) /\ Cardinality(M) <= Cardinality(S)
      /\ Cardinality(M) \in Nat /\ Cardinality(S) \in Nat
  <2>1. M \in SUBSET S OBVIOUS
  <2>2. IsFiniteSet(M) /\ Cardinality(M) <= Cardinality(S) BY <2>1, FS_Subset
  <2> QED BY <2>1, <2>2, FS_CardinalityType
<1>5. v \in Seq(M) /\ Growing(v) /\ (Cardinality(M) <= ReplayLimit => Covers(v, M))
  BY <1>4, FirstOfProperties
<1>6. v \in Seq(S) /\ v \in Seq(Nat) BY <1>4, <1>5, SeqMonotonic
<1>7. /\ LastId(l) \in Nat
      /\ \A n \in DOMAIN l : l[n] <= LastId(l)
      /\ l # <<>> => Len(l) \in DOMAIN l /\ LastId(l) = l[Len(l)]
  BY <1>1, <1>3, LastIdProperties
<1>8. \A j \in DOMAIN v : v[j] \in M
  BY <1>5, LenProperties, ElementOfSeq
<1>9. \A i \in DOMAIN l : l[i] \in Nat BY <1>1, LenProperties, ElementOfSeq
<1>10. \A i \in DOMAIN l : \A j \in DOMAIN v : l[i] < v[j]
  <2> SUFFICES ASSUME NEW i \in DOMAIN l, NEW j \in DOMAIN v PROVE l[i] < v[j] OBVIOUS
  <2>1. v[j] \in Nat /\ v[j] > LastId(l) BY <1>4, <1>8
  <2> QED BY <1>7, <1>9, <2>1
<1>11. Growing(l \o v) BY <1>1, <1>3, <1>5, <1>6, <1>10, JoinedGrows
<1>12. l \o v \in Seq(S) BY <1>3, <1>6, ConcatProperties
<1>13. ASSUME Cardinality(S) <= ReplayLimit PROVE Covers(l \o v, S)
  <2>1. Covers(v, M) BY <1>4, <1>5, <1>13
  <2>6. l \in Seq(S) /\ v \in Seq(S) BY <1>3, <1>6
  <2>5. /\ \A n \in DOMAIN l : n \in DOMAIN (l \o v) /\ (l \o v)[n] = l[n]
        /\ \A n \in DOMAIN v : n + Len(l) \in DOMAIN (l \o v) /\ (l \o v)[n + Len(l)] = v[n]
    BY <2>6, PlacesInSent
  <2>7. PICK c : c = l \o v OBVIOUS
  <2>2. /\ \A n \in DOMAIN l : n \in DOMAIN c /\ c[n] = l[n]
        /\ \A n \in DOMAIN v : n + Len(l) \in DOMAIN c /\ c[n + Len(l)] = v[n]
    BY <2>5, <2>7
  <2> SUFFICES ASSUME NEW x \in S PROVE \E n \in DOMAIN c : c[n] = x BY <2>7 DEF Covers
  <2>3. CASE x > LastId(l)
    <3>1. PICK n \in DOMAIN v : v[n] = x BY <2>1, <2>3 DEF Covers
    <3> QED BY <2>2, <3>1
  <2>4. CASE ~(x > LastId(l))
    <3>1. l # <<>> BY <2>4 DEF LastId
    <3>4. x \in Nat /\ LastId(l) \in Nat BY <1>7
    <3>5. x <= LastId(l) BY <2>4, <3>4
    <3>2. Len(l) \in DOMAIN l /\ x <= l[Len(l)] BY <1>7, <3>1, <3>5
    <3>3. PICK m \in DOMAIN l : l[m] = x BY <1>3, <1>13, <3>2 DEF Gapless
    <3> QED BY <2>2, <3>3
  <2> QED BY <2>3, <2>4
<1>14. Cardinality(S) <= ReplayLimit => Gapless(l \o v, S) /\ Covers(l \o v, S)
  BY <1>13 DEF Gapless, Covers
<1>15. Fed(l, v, TRUE, S) BY <1>1, <1>6, <1>11, <1>12, <1>14 DEF Fed
<1> QED BY <1>15

-----------------------------------------------------------------------------
(* What a page will show last.                                             *)

\* The youngest request, or what is shown if there is none.
Youngest(a, sh) ==
  IF a = <<>> THEN [of |-> sh.of, version |-> sh.version, late |-> sh.late]
  ELSE [of |-> a[Len(a)].of, version |-> a[Len(a)].answer, late |-> a[Len(a)].late]

-----------------------------------------------------------------------------
(* The inductive invariant.                                                *)

FedPages == \A p \in Pages : Fed(list[p], wire[p], link[p] = "open", EventsOf(source[p]))

\* A page that has asked, is subscribed or is to refresh is at an investigation.
AtOne ==
  \A p \in Pages :
    /\ link[p] # "closed" => source[p] # NoInvestigation
    /\ source[p] # NoInvestigation \/ asked[p] # <<>> \/ timer[p] => current[p] # NoInvestigation

\* An event was published at a state its investigation has reached.
PublishedAfter == \A n \in DOMAIN events : events[n].version <= version[events[n].stream]

\* What a page will show last, unless that is late, is of the investigation it is at
\* and not older than the events it has read, unless it is to ask again.
RefreshedAt(p) ==
  LET y == Youngest(asked[p], shown[p]) IN
  /\ y.late \/ y.of = current[p]
  /\ source[p] = current[p] =>
       \A n \in DOMAIN list[p] :
         timer[p] \/ y.late \/ y.version >= events[list[p][n]].version

Refreshed == \A p \in Pages : RefreshedAt(p)

IInv == TypeOK /\ FedPages /\ AtOne /\ PublishedAfter /\ Refreshed

-----------------------------------------------------------------------------
(* Requests.                                                               *)

\* A request that is asked is the youngest.
LEMMA AskedMore ==
  ASSUME NEW a \in Seq(Request), NEW r \in Request, NEW sh
  PROVE  /\ Append(a, r) \in Seq(Request) /\ Append(a, r) # <<>>
         /\ Len(Append(a, r)) = Len(a) + 1
         /\ Youngest(Append(a, r), sh) = [of |-> r.of, version |-> r.answer, late |-> r.late]
<1>1. PICK b : b = Append(a, r) OBVIOUS
<1>2. b \in Seq(Request) /\ b # <<>> /\ Len(b) = Len(a) + 1 /\ b[Len(a) + 1] = r
  BY <1>1, AppendProperties
<1>3. b[Len(b)] = r BY <1>2
<1>4. Youngest(b, sh) = [of |-> r.of, version |-> r.answer, late |-> r.late]
  BY <1>2, <1>3 DEF Youngest
<1> QED BY <1>1, <1>2, <1>4

\* What is left of the requests when k is over.
Over(a, k) == [n \in 1 .. k - 1 |-> [a[n] EXCEPT !.late = TRUE]] \o SubSeq(a, k + 1, Len(a))

\* One request less; the youngest of the rest is the old one, or late.
LEMMA OverProperties ==
  ASSUME NEW a \in Seq(Request), NEW k \in DOMAIN a
  PROVE  /\ Over(a, k) \in Seq(Request) /\ Len(Over(a, k)) = Len(a) - 1
         /\ k = Len(a) /\ k > 1 => Over(a, k)[Len(a) - 1].late
         /\ k # Len(a) => Over(a, k)[Len(a) - 1] = a[Len(a)]
<1>1. DOMAIN a = 1 .. Len(a) /\ Len(a) \in Nat /\ \A n \in 1 .. Len(a) : a[n] \in Request
  BY LenProperties, ElementOfSeq
<1>2. k \in 1 .. Len(a) /\ k \in Nat BY <1>1
<1>3. PICK b : b = [n \in 1 .. k - 1 |-> [a[n] EXCEPT !.late = TRUE]] OBVIOUS
<1>4. \A n \in 1 .. k - 1 : a[n] \in Request BY <1>1, <1>2
<1>5. b \in [1 .. k - 1 -> Request]
  <2>1. \A n \in 1 .. k - 1 : [a[n] EXCEPT !.late = TRUE] \in Request BY <1>4 DEF Request
  <2> QED BY <1>3, <2>1
<1>6. \A n \in 1 .. k - 1 : b[n].late BY <1>3, <1>4 DEF Request
<1>7. b \in Seq(Request) /\ Len(b) = k - 1
  <2>1. k - 1 \in Nat BY <1>2
  <2>2. b \in Seq(Request) BY <1>5, <2>1, SeqDef
  <2>3. DOMAIN b = 1 .. k - 1 BY <1>5
  <2>4. DOMAIN b = 1 .. Len(b) /\ Len(b) \in Nat BY <2>2, LenProperties
  <2> QED BY <2>1, <2>2, <2>3, <2>4
<1>8. PICK c : c = SubSeq(a, k + 1, Len(a)) OBVIOUS
<1>9. /\ c \in Seq(Request) /\ Len(c) = Len(a) - k
      /\ \A i \in 1 .. Len(c) : c[i] = a[k + i]
  <2>1. k + 1 \in Int /\ Len(a) \in Int BY <1>1, <1>2
  <2>2. \A i \in k + 1 .. Len(a) : a[i] \in Request BY <1>1, <1>2
  <2>3. /\ SubSeq(a, k + 1, Len(a)) \in Seq(Request)
        /\ Len(SubSeq(a, k + 1, Len(a)))
             = IF k + 1 <= Len(a) THEN Len(a) - (k + 1) + 1 ELSE 0
        /\ \A i \in 1 .. Len(a) - (k + 1) + 1 :
             SubSeq(a, k + 1, Len(a))[i] = a[k + 1 + i - 1]
    BY <2>1, <2>2, SubSeqProperties
  <2>4. Len(c) = Len(a) - k BY <1>1, <1>2, <1>8, <2>3
  <2>5. \A i \in 1 .. Len(c) : i \in 1 .. Len(a) - (k + 1) + 1 /\ k + 1 + i - 1 = k + i
    BY <1>1, <1>2, <2>4
  <2> QED BY <1>8, <2>3, <2>4, <2>5
<1>10. PICK d : d = b \o c OBVIOUS
<1>11. /\ d \in Seq(Request) /\ Len(d) = Len(b) + Len(c)
       /\ \A i \in 1 .. Len(b) + Len(c) : d[i] = IF i <= Len(b) THEN b[i] ELSE c[i - Len(b)]
  BY <1>7, <1>9, <1>10, ConcatProperties
<1>12. Len(d) = Len(a) - 1 BY <1>1, <1>2, <1>7, <1>9, <1>11
<1>13. ASSUME k = Len(a), k > 1 PROVE d[Len(a) - 1].late
  <2>1. Len(a) - 1 \in 1 .. Len(b) + Len(c) /\ Len(a) - 1 <= Len(b) /\ Len(a) - 1 \in 1 .. k - 1
    BY <1>1, <1>7, <1>9, <1>13
  <2>2. d[Len(a) - 1] = b[Len(a) - 1] BY <1>11, <2>1
  <2> QED BY <1>6, <2>1, <2>2
<1>14. ASSUME k # Len(a) PROVE d[Len(a) - 1] = a[Len(a)]
  <2>1. /\ Len(a) - 1 \in 1 .. Len(b) + Len(c) /\ ~(Len(a) - 1 <= Len(b))
        /\ Len(a) - 1 - Len(b) = Len(c) /\ Len(c) \in 1 .. Len(c) /\ k + Len(c) = Len(a)
    BY <1>1, <1>2, <1>7, <1>9, <1>14
  <2>2. d[Len(a) - 1] = c[Len(c)] BY <1>11, <2>1
  <2> QED BY <1>9, <2>1, <2>2
<1>15. Over(a, k) = d BY <1>3, <1>8, <1>10 DEF Over
<1> QED BY <1>11, <1>12, <1>13, <1>14, <1>15

\* If any is left, the youngest stays or is late.
LEMMA YoungestOfRest ==
  ASSUME NEW a \in Seq(Request), NEW k \in DOMAIN a, NEW sh, NEW after
  PROVE  \/ Over(a, k) = <<>> /\ k = Len(a)
         \/ Over(a, k) # <<>> /\ Youngest(Over(a, k), after).late
         \/ Over(a, k) # <<>> /\ Youngest(Over(a, k), after) = Youngest(a, sh)
<1>1. PICK d : d = Over(a, k) OBVIOUS
<1>2. /\ d \in Seq(Request) /\ Len(d) = Len(a) - 1
      /\ k = Len(a) /\ k > 1 => d[Len(a) - 1].late
      /\ k # Len(a) => d[Len(a) - 1] = a[Len(a)]
  BY <1>1, OverProperties
<1>3. Len(a) \in Nat /\ k \in 1 .. Len(a) /\ a # <<>>
  <2>1. Len(a) \in Nat /\ DOMAIN a = 1 .. Len(a) BY LenProperties
  <2> QED BY <2>1
<1>4. CASE d = <<>>
  <2>1. Len(a) - 1 = 0 BY <1>2, <1>4, EmptySeq
  <2>2. k = Len(a) BY <1>3, <2>1
  <2> QED BY <1>1, <1>4, <2>2
<1>5. CASE d # <<>>
  <2>1. Len(d) # 0 BY <1>2, <1>5, EmptySeq
  <2>2. Youngest(d, after) = [of |-> d[Len(a) - 1].of, version |-> d[Len(a) - 1].answer,
                              late |-> d[Len(a) - 1].late]
    BY <1>2, <1>5 DEF Youngest
  <2>3. Youngest(a, sh) = [of |-> a[Len(a)].of, version |-> a[Len(a)].answer,
                           late |-> a[Len(a)].late]
    BY <1>3 DEF Youngest
  <2>4. CASE k = Len(a)
    <3>1. k > 1 BY <1>2, <1>3, <2>1, <2>4
    <3>2. d[Len(a) - 1].late BY <1>2, <2>4, <3>1
    <3> QED BY <1>1, <1>5, <2>2, <3>2
  <2>5. CASE k # Len(a)
    <3>1. d[Len(a) - 1] = a[Len(a)] BY <1>2, <2>5
    <3>2. Youngest(d, after) = Youngest(a, sh) BY <2>2, <2>3, <3>1
    <3> QED BY <1>1, <1>5, <3>2
  <2> QED BY <2>4, <2>5
<1> QED BY <1>4, <1>5

Told(a, k, v) == [a EXCEPT ![k].answer = v]

\* An answer is that of the youngest, or does not matter to it.
LEMMA YoungestAnswered ==
  ASSUME NEW a \in Seq(Request), NEW k \in DOMAIN a, NEW v \in 0 .. Unanswered, NEW sh
  PROVE  /\ Told(a, k, v) \in Seq(Request)
         /\ Len(Told(a, k, v)) = Len(a) /\ Told(a, k, v) # <<>>
         /\ Youngest(Told(a, k, v), sh).of = Youngest(a, sh).of
         /\ Youngest(Told(a, k, v), sh).late = Youngest(a, sh).late
         /\ \/ /\ Youngest(Told(a, k, v), sh).version = v
               /\ Youngest(a, sh).of = a[k].of
            \/ Youngest(Told(a, k, v), sh).version = Youngest(a, sh).version
<1>1. Len(a) \in Nat /\ DOMAIN a = 1 .. Len(a) /\ k \in 1 .. Len(a) /\ Len(a) \in 1 .. Len(a)
      /\ a # <<>>
  <2>1. Len(a) \in Nat /\ DOMAIN a = 1 .. Len(a) BY LenProperties
  <2> QED BY <2>1
<1>2. \A n \in 1 .. Len(a) : a[n] \in Request BY ElementOfSeq
<1>3. PICK e : e = [a[k] EXCEPT !.answer = v] OBVIOUS
<1>4. a[k] \in Request BY <1>1, <1>2
<1>5. e \in Request /\ e.of = a[k].of /\ e.late = a[k].late /\ e.answer = v
  BY <1>3, <1>4 DEF Request
<1>6. PICK b : b = [a EXCEPT ![k] = e] OBVIOUS
<1>7. Told(a, k, v) = b BY <1>3, <1>6 DEF Told
<1>8. /\ b \in Seq(Request) /\ Len(b) = Len(a)
      /\ \A j \in 1 .. Len(a) : b[j] = IF j = k THEN e ELSE a[j]
  BY <1>1, <1>5, <1>6, ExceptSeq
<1>9. b # <<>> BY <1>1, <1>8, EmptySeq
<1>10. Youngest(b, sh) = [of |-> b[Len(a)].of, version |-> b[Len(a)].answer,
                          late |-> b[Len(a)].late]
  BY <1>8, <1>9 DEF Youngest
<1>11. Youngest(a, sh) = [of |-> a[Len(a)].of, version |-> a[Len(a)].answer,
                          late |-> a[Len(a)].late]
  BY <1>1 DEF Youngest
<1>12. CASE k = Len(a)
  <2>1. b[Len(a)] = e BY <1>1, <1>8, <1>12
  <2>2. Youngest(b, sh) = [of |-> a[k].of, version |-> v, late |-> a[k].late]
    BY <1>5, <1>10, <2>1
  <2>3. Youngest(a, sh) = [of |-> a[k].of, version |-> a[k].answer, late |-> a[k].late]
    BY <1>11, <1>12
  <2>4. /\ Youngest(b, sh).of = Youngest(a, sh).of /\ Youngest(b, sh).late = Youngest(a, sh).late
        /\ Youngest(b, sh).version = v /\ Youngest(a, sh).of = a[k].of
    BY <2>2, <2>3
  <2> QED BY <1>7, <1>8, <1>9, <2>4
<1>13. CASE k # Len(a)
  <2>1. b[Len(a)] = a[Len(a)] BY <1>1, <1>8, <1>13
  <2> QED BY <1>7, <1>8, <1>9, <1>10, <1>11, <2>1
<1> QED BY <1>12, <1>13

-----------------------------------------------------------------------------
(* The variables.                                                          *)

\* The bounds are numbers, and the ids of a stream are ids of the table.
LEMMA StreamFacts ==
  ASSUME TypeOK
  PROVE  /\ Len(events) \in Nat /\ DOMAIN events = 1 .. Len(events)
         /\ Len(events) <= MaxEvents /\ Ids \subseteq Nat
         /\ {ReplayLimit, MaxEvents, MaxChanges, MaxClicks, MaxFaults, MaxAsked} \subseteq Nat
         /\ \A n \in DOMAIN events : /\ events[n].stream \in Investigations
                                     /\ events[n].version \in 0 .. MaxChanges
         /\ \A s : /\ EventsOf(s) \subseteq 1 .. Len(events) /\ EventsOf(s) \subseteq Ids
                   /\ EventsOf(s) \subseteq Nat \ {0}
                   /\ IsFiniteSet(EventsOf(s))
<1>1. /\ events \in Seq([stream : Investigations, version : 0 .. MaxChanges])
      /\ Len(events) <= MaxEvents
      /\ {ReplayLimit, MaxEvents, MaxChanges, MaxClicks, MaxFaults, MaxAsked} \subseteq Nat
  BY DEF TypeOK
<1>2. Len(events) \in Nat /\ DOMAIN events = 1 .. Len(events) BY <1>1, LenProperties
<1>3. \A n \in DOMAIN events : events[n] \in [stream : Investigations, version : 0 .. MaxChanges]
  BY <1>1, <1>2, ElementOfSeq
<1>4. IsFiniteSet(1 .. Len(events)) BY <1>2, FS_Interval
<1>5. ASSUME NEW s
      PROVE  /\ EventsOf(s) \subseteq 1 .. Len(events) /\ EventsOf(s) \subseteq Ids
             /\ EventsOf(s) \subseteq Nat \ {0}
             /\ IsFiniteSet(EventsOf(s))
  <2>1. EventsOf(s) \in SUBSET (1 .. Len(events)) BY <1>2 DEF EventsOf
  <2>2. 1 .. Len(events) \subseteq Ids /\ 1 .. Len(events) \subseteq Nat \ {0}
    BY <1>1, <1>2 DEF Ids
  <2>3. IsFiniteSet(EventsOf(s)) BY <1>4, <2>1, FS_Subset
  <2> QED BY <2>1, <2>2, <2>3
<1>6. Ids \subseteq Nat BY DEF Ids
<1> QED BY <1>1, <1>2, <1>3, <1>5, <1>6

\* A page's parts, one by one.
LEMMA PageFacts ==
  ASSUME TypeOK, NEW p \in Pages
  PROVE  /\ current[p] \in Streams /\ source[p] \in Streams
         /\ link[p] \in {"closed", "lost", "open"}
         /\ wire[p] \in Seq(Ids) /\ list[p] \in Seq(Ids)
         /\ asked[p] \in Seq(Request) /\ Len(asked[p]) <= MaxAsked /\ Len(asked[p]) \in Nat
         /\ DOMAIN asked[p] = 1 .. Len(asked[p])
         /\ \A k \in DOMAIN asked[p] : /\ asked[p][k] \in Request
                                       /\ asked[p][k].of \in Investigations
                                       /\ asked[p][k].answer \in 0 .. Unanswered
                                       /\ asked[p][k].late \in BOOLEAN
         /\ timer[p] \in BOOLEAN
         /\ shown[p] \in [of : Streams, version : 0 .. MaxChanges, late : BOOLEAN]
         /\ clicks[p] \in 0 .. MaxClicks
<1>1. asked[p] \in Seq(Request) /\ Len(asked[p]) <= MaxAsked BY DEF TypeOK
<1>2. Len(asked[p]) \in Nat /\ DOMAIN asked[p] = 1 .. Len(asked[p]) BY <1>1, LenProperties
<1>3. \A k \in DOMAIN asked[p] : asked[p][k] \in Request BY <1>1, <1>2, ElementOfSeq
<1>4. \A k \in DOMAIN asked[p] : /\ asked[p][k].of \in Investigations
                                 /\ asked[p][k].answer \in 0 .. Unanswered
                                 /\ asked[p][k].late \in BOOLEAN
  BY <1>3 DEF Request
<1>5. /\ current[p] \in Streams /\ source[p] \in Streams
      /\ link[p] \in {"closed", "lost", "open"}
      /\ wire[p] \in Seq(Ids) /\ list[p] \in Seq(Ids)
      /\ timer[p] \in BOOLEAN
      /\ shown[p] \in [of : Streams, version : 0 .. MaxChanges, late : BOOLEAN]
      /\ clicks[p] \in 0 .. MaxClicks
  BY DEF TypeOK
<1> QED BY <1>1, <1>2, <1>3, <1>4, <1>5

\* Asking and being over keep the requests of a page to their type.
LEMMA AskTyped ==
  ASSUME TypeOK, NEW p \in Pages, NEW i \in Investigations, NEW o \in BOOLEAN, Ask(p, i, o)
  PROVE  /\ asked' \in [Pages -> Seq(Request)]
         /\ \A q \in Pages : Len(asked'[q]) <= MaxAsked
         /\ asked'[p] # <<>>
         /\ \A sh : /\ Youngest(asked'[p], sh).of = i /\ ~Youngest(asked'[p], sh).late
                    /\ Youngest(asked'[p], sh).version = Unanswered
         /\ \A q \in Pages \ {p} : asked'[q] = asked[q]
<1>1. PICK r : r = [of |-> i, opens |-> o, late |-> FALSE, answer |-> Unanswered] OBVIOUS
<1>2. r \in Request /\ r.of = i /\ r.late = FALSE /\ r.answer = Unanswered
  <2>1. Unanswered \in 0 .. Unanswered BY StreamFacts DEF Unanswered
  <2> QED BY <1>1, <2>1 DEF Request
<1>3. asked' = [asked EXCEPT ![p] = Append(asked[p], r)] /\ Len(asked[p]) < MaxAsked
  BY <1>1 DEF Ask
<1>4. asked \in [Pages -> Seq(Request)] /\ \A q \in Pages : Len(asked[q]) <= MaxAsked
  BY DEF TypeOK
<1>5. asked[p] \in Seq(Request) /\ Len(asked[p]) \in Nat BY PageFacts
<1>6. PICK b : b = Append(asked[p], r) OBVIOUS
<1>7. /\ b \in Seq(Request) /\ b # <<>> /\ Len(b) = Len(asked[p]) + 1
      /\ \A sh : Youngest(b, sh) = [of |-> r.of, version |-> r.answer, late |-> r.late]
  BY <1>2, <1>5, <1>6, AskedMore
<1>8. /\ asked' \in [Pages -> Seq(Request)] /\ asked'[p] = b
      /\ \A q \in Pages \ {p} : asked'[q] = asked[q]
  BY <1>3, <1>4, <1>6, <1>7
<1>9. Len(b) <= MaxAsked
  <2>1. MaxAsked \in Nat BY StreamFacts
  <2> QED BY <1>3, <1>5, <1>7, <2>1
<1>10. \A q \in Pages : Len(asked'[q]) <= MaxAsked
  <2> SUFFICES ASSUME NEW q \in Pages PROVE Len(asked'[q]) <= MaxAsked OBVIOUS
  <2>1. CASE q = p BY <1>8, <1>9, <2>1
  <2>2. CASE q # p BY <1>4, <1>8, <2>2
  <2> QED BY <2>1, <2>2
<1>11. \A sh : /\ Youngest(b, sh).of = i /\ ~Youngest(b, sh).late
               /\ Youngest(b, sh).version = Unanswered
  BY <1>2, <1>7
<1> QED BY <1>7, <1>8, <1>10, <1>11

\* What the end of a request leaves of the requests of all pages.
LEMMA DoneTyped ==
  ASSUME TypeOK, NEW p \in Pages, NEW k \in DOMAIN asked[p], Done(p, k)
  PROVE  /\ asked' \in [Pages -> Seq(Request)]
         /\ \A q \in Pages : Len(asked'[q]) <= MaxAsked
         /\ asked'[p] = Over(asked[p], k)
         /\ \A q \in Pages \ {p} : asked'[q] = asked[q]
<1>1. asked \in [Pages -> Seq(Request)] /\ \A q \in Pages : Len(asked[q]) <= MaxAsked
  BY DEF TypeOK
<1>2. asked[p] \in Seq(Request) /\ Len(asked[p]) \in Nat BY PageFacts
<1>3. PICK b : b = Over(asked[p], k) OBVIOUS
<1>4. b \in Seq(Request) /\ Len(b) = Len(asked[p]) - 1 BY <1>2, <1>3, OverProperties
<1>5. asked' = [asked EXCEPT ![p] = b] BY <1>3 DEF Done, Over
<1>6. asked' \in [Pages -> Seq(Request)] BY <1>1, <1>4, <1>5
<1>7. asked'[p] = b /\ \A q \in Pages \ {p} : asked'[q] = asked[q] BY <1>1, <1>5
<1>8. \A q \in Pages : Len(asked'[q]) <= MaxAsked
  <2> SUFFICES ASSUME NEW q \in Pages PROVE Len(asked'[q]) <= MaxAsked OBVIOUS
  <2>1. Len(b) <= MaxAsked
    <3>1. MaxAsked \in Nat BY StreamFacts
    <3> QED BY <1>1, <1>2, <1>4, <3>1
  <2>2. CASE q = p BY <1>7, <2>1, <2>2
  <2>3. CASE q # p BY <1>1, <1>7, <2>3
  <2> QED BY <2>2, <2>3
<1> QED BY <1>3, <1>6, <1>7, <1>8

\* A change and its event: versions grow, and the table gets one row.
LEMMA HostTyped ==
  ASSUME TypeOK, NEW i \in Investigations, NEW amount \in {0, 1}, Change(i, amount)
  PROVE  /\ version' \in [Investigations -> 0 .. MaxChanges]
         /\ events' \in Seq([stream : Investigations, version : 0 .. MaxChanges])
         /\ Len(events') = Len(events) + 1 /\ Len(events') <= MaxEvents
         /\ \A n \in DOMAIN events : n \in DOMAIN events' /\ events'[n] = events[n]
         /\ DOMAIN events' = 1 .. Len(events) + 1
         /\ events'[Len(events) + 1] = [stream |-> i, version |-> version'[i]]
         /\ \A j \in Investigations : version[j] <= version'[j]
<1>1. /\ version[i] + amount <= MaxChanges
      /\ version' = [version EXCEPT ![i] = version[i] + amount]
      /\ Publish(i)
  BY DEF Change
<1>2. version \in [Investigations -> 0 .. MaxChanges] /\ MaxChanges \in Nat /\ MaxEvents \in Nat
  BY StreamFacts DEF TypeOK
<1>3. version[i] + amount \in 0 .. MaxChanges BY <1>1, <1>2
<1>4. /\ version' \in [Investigations -> 0 .. MaxChanges]
      /\ \A j \in Investigations : version[j] <= version'[j]
  BY <1>1, <1>2, <1>3
<1>5. PICK e : e = [stream |-> i, version |-> version'[i]] OBVIOUS
<1>6. e \in [stream : Investigations, version : 0 .. MaxChanges] BY <1>4, <1>5
<1>7. Len(events) < MaxEvents /\ events' = Append(events, e) BY <1>1, <1>5 DEF Publish
<1>8. events \in Seq([stream : Investigations, version : 0 .. MaxChanges]) /\ Len(events) \in Nat
      /\ DOMAIN events = 1 .. Len(events)
  BY StreamFacts DEF TypeOK
<1>9. /\ events' \in Seq([stream : Investigations, version : 0 .. MaxChanges])
      /\ Len(events') = Len(events) + 1
      /\ \A n \in 1 .. Len(events) : events'[n] = events[n]
      /\ events'[Len(events) + 1] = e
  BY <1>6, <1>7, <1>8, AppendProperties
<1>10. DOMAIN events' = 1 .. Len(events) + 1 BY <1>9, LenProperties
<1>11. Len(events') <= MaxEvents BY <1>2, <1>7, <1>8, <1>9
<1>12. \A n \in DOMAIN events : n \in DOMAIN events' /\ events'[n] = events[n]
  BY <1>8, <1>9, <1>10
<1> QED BY <1>4, <1>5, <1>9, <1>10, <1>11, <1>12

\* What happens on the Host keeps every variable to its type.
LEMMA HostTypeStep ==
  ASSUME TypeOK,
         \/ \E i \in Investigations : \/ \E amount \in {0, 1} : Change(i, amount)
                                      \/ ChangeSilently(i)
         \/ HostCrash \/ HostRestart
         \/ \E p \in Pages : \E k \in DOMAIN asked[p] : Answer(p, k)
  PROVE  TypeOK'
<1>1. ASSUME NEW i \in Investigations, NEW amount \in {0, 1}, Change(i, amount) PROVE TypeOK'
  <2>1. /\ version' \in [Investigations -> 0 .. MaxChanges]
        /\ events' \in Seq([stream : Investigations, version : 0 .. MaxChanges])
        /\ Len(events') <= MaxEvents
    BY <1>1, HostTyped
  <2>2. PICK id : id = Len(events) + 1 OBVIOUS
  <2>3. id \in Ids
    <3>1. Len(events) < MaxEvents BY <1>1 DEF Change, Publish
    <3>2. Len(events) \in Nat /\ MaxEvents \in Nat BY StreamFacts
    <3> QED BY <2>2, <3>1, <3>2 DEF Ids
  <2>4. wire' = [q \in Pages |-> IF link[q] = "open" /\ source[q] = i
                                 THEN Append(wire[q], id) ELSE wire[q]]
    BY <1>1, <2>2 DEF Change, Publish
  <2>5. \A q \in Pages : Append(wire[q], id) \in Seq(Ids) /\ wire[q] \in Seq(Ids)
    BY <2>3, PageFacts, AppendProperties
  <2>6. wire' \in [Pages -> Seq(Ids)] BY <2>4, <2>5
  <2>7. UNCHANGED <<hostUp, current, source, link, list, asked, timer, shown, clicks, faults>>
    BY <1>1 DEF Change
  <2> QED BY <2>1, <2>6, <2>7 DEF TypeOK
<1>2. ASSUME NEW i \in Investigations, ChangeSilently(i) PROVE TypeOK'
  <2>1. /\ version[i] < MaxChanges /\ version' = [version EXCEPT ![i] = version[i] + 1]
        /\ UNCHANGED <<hostUp, events, pageVars, clicks, faults>>
    BY <1>2 DEF ChangeSilently
  <2>2. version \in [Investigations -> 0 .. MaxChanges] /\ MaxChanges \in Nat
    BY StreamFacts DEF TypeOK
  <2>3. version' \in [Investigations -> 0 .. MaxChanges] BY <2>1, <2>2
  <2> QED BY <2>1, <2>3 DEF TypeOK, pageVars
<1>3. CASE HostCrash
  <2>1. /\ hostUp' = FALSE /\ faults' = faults + 1 /\ faults < MaxFaults
        /\ link' = [p \in Pages |-> IF link[p] = "open" THEN "lost" ELSE link[p]]
        /\ wire' = [p \in Pages |-> <<>>]
        /\ asked' = [p \in Pages |-> <<>>]
        /\ shown' = [p \in Pages |-> IF asked[p] = <<>> THEN shown[p]
                                     ELSE [shown[p] EXCEPT !.late = TRUE]]
        /\ UNCHANGED <<version, events, current, source, list, timer, clicks>>
    BY <1>3 DEF HostCrash
  <2>2. /\ wire' \in [Pages -> Seq(Ids)] /\ asked' \in [Pages -> Seq(Request)]
        /\ \A p \in Pages : Len(asked'[p]) <= MaxAsked
    <3>1. MaxAsked \in Nat BY StreamFacts
    <3>2. \A p \in Pages : asked'[p] = <<>> BY <2>1
    <3>3. \A p \in Pages : Len(asked'[p]) = 0 BY <3>2
    <3> QED BY <2>1, <3>1, <3>3
  <2>3. link' \in [Pages -> {"closed", "lost", "open"}] BY <2>1 DEF TypeOK
  <2>4. shown' \in [Pages -> [of : Streams, version : 0 .. MaxChanges, late : BOOLEAN]]
    BY <2>1 DEF TypeOK
  <2>5. hostUp' \in BOOLEAN /\ faults' \in 0 .. MaxFaults
    <3>1. faults \in 0 .. MaxFaults /\ MaxFaults \in Nat BY StreamFacts DEF TypeOK
    <3>2. hostUp' = FALSE /\ faults' = faults + 1 /\ faults < MaxFaults BY <2>1
    <3>3. faults' \in 0 .. MaxFaults BY <3>1, <3>2
    <3>4. hostUp' \in BOOLEAN BY <2>1
    <3> QED BY <3>3, <3>4
  <2> QED BY <2>1, <2>2, <2>3, <2>4, <2>5 DEF TypeOK
<1>4. CASE HostRestart BY <1>4 DEF HostRestart, TypeOK, pageVars
<1>5. ASSUME NEW p \in Pages, NEW k \in DOMAIN asked[p], Answer(p, k) PROVE TypeOK'
  <2>1. PICK v : v = version[asked[p][k].of] OBVIOUS
  <2>2. v \in 0 .. Unanswered
    <3>1. asked[p][k].of \in Investigations BY PageFacts
    <3>2. v \in 0 .. MaxChanges BY <2>1, <3>1 DEF TypeOK
    <3>3. MaxChanges \in Nat BY StreamFacts
    <3> QED BY <3>2, <3>3 DEF Unanswered
  <2>3. PICK b : b = Told(asked[p], k, v) OBVIOUS
  <2>4. b \in Seq(Request) /\ Len(b) = Len(asked[p])
    <3>1. asked[p] \in Seq(Request) BY PageFacts
    <3>2. /\ Told(asked[p], k, v) \in Seq(Request)
          /\ Len(Told(asked[p], k, v)) = Len(asked[p])
      BY <2>2, <3>1, YoungestAnswered
    <3> QED BY <2>3, <3>2
  <2>5. asked' = [asked EXCEPT ![p] = b] BY <1>5, <2>1, <2>3 DEF Answer, Told
  <2>6. asked \in [Pages -> Seq(Request)] /\ \A q \in Pages : Len(asked[q]) <= MaxAsked
    BY DEF TypeOK
  <2>7. asked' \in [Pages -> Seq(Request)] BY <2>4, <2>5, <2>6
  <2>8. \A q \in Pages : Len(asked'[q]) <= MaxAsked
    <3> SUFFICES ASSUME NEW q \in Pages PROVE Len(asked'[q]) <= MaxAsked OBVIOUS
    <3>1. asked'[q] = IF q = p THEN b ELSE asked[q] BY <2>5, <2>6
    <3>2. CASE q = p BY <2>4, <2>6, <3>1, <3>2
    <3>3. CASE q # p BY <2>6, <3>1, <3>3
    <3> QED BY <3>2, <3>3
  <2>9. UNCHANGED <<hostVars, current, source, link, wire, list, timer, shown, clicks, faults>>
    BY <1>5 DEF Answer
  <2> QED BY <2>7, <2>8, <2>9 DEF TypeOK, hostVars
<1> QED BY <1>1, <1>2, <1>3, <1>4, <1>5

\* What a page is sent is of its stream.
LEMMA WireFacts ==
  ASSUME TypeOK, FedPages, NEW p \in Pages
  PROVE  /\ wire[p] # <<>> => Head(wire[p]) \in Ids /\ Tail(wire[p]) \in Seq(Ids)
         /\ Replay(source[p], LastEventId(p)) \in Seq(Ids)
<1>1. wire[p] \in Seq(Ids) BY PageFacts
<1>2. wire[p] # <<>> => Head(wire[p]) \in Ids /\ Tail(wire[p]) \in Seq(Ids)
  BY <1>1, HeadTailProperties
<1>3. PICK S : S = EventsOf(source[p]) OBVIOUS
<1>4. PICK M : M = {n \in S : n > LastEventId(p)} OBVIOUS
<1>5. S \subseteq Ids /\ Ids \subseteq Nat /\ IsFiniteSet(S) BY <1>3, StreamFacts
<1>6. M \in SUBSET S BY <1>4
<1>7. M \subseteq Nat /\ IsFiniteSet(M) BY <1>5, <1>6, FS_Subset
<1>8. FirstOf(M) \in Seq(M) BY <1>7, FirstOfProperties
<1>9. M \subseteq Ids BY <1>5, <1>6
<1>10. FirstOf(M) \in Seq(Ids) BY <1>8, <1>9, SeqMonotonic
<1>11. Replay(source[p], LastEventId(p)) = FirstOf(M) BY <1>3, <1>4 DEF Replay
<1> QED BY <1>2, <1>10, <1>11

\* What happens on a page keeps every variable to its type.
LEMMA PageTypeStep ==
  ASSUME TypeOK, FedPages, AtOne, NEW p \in Pages,
         \/ Connect(p) \/ Drop(p) \/ Receive(p)
         \/ Acted(p) \/ RefreshFires(p)
         \/ \E i \in Investigations : Click(p, i)
         \/ \E k \in DOMAIN asked[p] : Arrive(p, k) \/ Fail(p, k)
  PROVE  TypeOK'
<1>0. /\ {MaxChanges, MaxClicks, MaxFaults} \subseteq Nat
      /\ faults \in 0 .. MaxFaults /\ clicks \in [Pages -> 0 .. MaxClicks]
      /\ link \in [Pages -> {"closed", "lost", "open"}]
      /\ wire \in [Pages -> Seq(Ids)] /\ list \in [Pages -> Seq(Ids)]
      /\ timer \in [Pages -> BOOLEAN] /\ <<>> \in Seq(Ids)
      /\ current \in [Pages -> Streams] /\ source \in [Pages -> Streams]
      /\ shown \in [Pages -> [of : Streams, version : 0 .. MaxChanges, late : BOOLEAN]]
  BY StreamFacts, EmptySeq DEF TypeOK
<1>1. CASE Connect(p)
  <2>1. /\ link' = [link EXCEPT ![p] = "open"]
        /\ wire' = [wire EXCEPT ![p] = Replay(source[p], LastEventId(p))]
        /\ UNCHANGED <<hostVars, current, source, list, asked, timer, shown, clicks, faults>>
    BY <1>1 DEF Connect
  <2>2. Replay(source[p], LastEventId(p)) \in Seq(Ids) BY WireFacts
  <2>3. /\ link' \in [Pages -> {"closed", "lost", "open"}]
        /\ wire' \in [Pages -> Seq(Ids)]
    BY <1>0, <2>1, <2>2
  <2> QED BY <2>1, <2>3 DEF TypeOK, hostVars
<1>2. CASE Drop(p)
  <2>1. /\ link' = [link EXCEPT ![p] = "lost"]
        /\ wire' = [wire EXCEPT ![p] = <<>>]
        /\ faults < MaxFaults /\ faults' = faults + 1
        /\ UNCHANGED <<hostVars, current, source, list, asked, timer, shown, clicks>>
    BY <1>2 DEF Drop
  <2>2. /\ link' \in [Pages -> {"closed", "lost", "open"}]
        /\ wire' \in [Pages -> Seq(Ids)] /\ faults' \in 0 .. MaxFaults
    BY <1>0, <2>1
  <2> QED BY <2>1, <2>2 DEF TypeOK, hostVars
<1>3. CASE Receive(p)
  <2>1. /\ wire[p] # <<>> /\ wire' = [wire EXCEPT ![p] = Tail(wire[p])]
        /\ list' = [list EXCEPT ![p] = Append(list[p], Head(wire[p]))]
        /\ timer' = [timer EXCEPT ![p] = TRUE]
        /\ UNCHANGED <<hostVars, current, source, link, asked, shown, clicks, faults>>
    BY <1>3 DEF Receive
  <2>2. Head(wire[p]) \in Ids /\ Tail(wire[p]) \in Seq(Ids) BY <2>1, WireFacts
  <2>3. Append(list[p], Head(wire[p])) \in Seq(Ids) BY <2>2, PageFacts, AppendProperties
  <2>4. wire' \in [Pages -> Seq(Ids)] /\ timer' \in [Pages -> BOOLEAN]
    BY <1>0, <2>1, <2>2
  <2>5. list' \in [Pages -> Seq(Ids)] BY <1>0, <2>1, <2>3
  <2> QED BY <2>1, <2>4, <2>5 DEF TypeOK, hostVars
<1>4. CASE Acted(p)
  <2>1. /\ clicks[p] < MaxClicks /\ clicks' = [clicks EXCEPT ![p] = clicks[p] + 1]
        /\ timer' = [timer EXCEPT ![p] = TRUE]
        /\ UNCHANGED <<hostVars, current, source, link, wire, list, asked, shown, faults>>
    BY <1>4 DEF Acted
  <2>2. clicks' \in [Pages -> 0 .. MaxClicks] /\ timer' \in [Pages -> BOOLEAN] BY <1>0, <2>1
  <2> QED BY <2>1, <2>2 DEF TypeOK, hostVars
<1>5. CASE RefreshFires(p)
  <2>1. /\ timer[p] /\ timer' = [timer EXCEPT ![p] = FALSE]
        /\ Ask(p, current[p], FALSE)
        /\ UNCHANGED <<hostVars, current, source, link, wire, list, shown, clicks, faults>>
    BY <1>5 DEF RefreshFires
  <2>2. current[p] \in Investigations
    <3>1. current[p] \in Streams /\ current[p] # NoInvestigation BY <1>0, <2>1 DEF AtOne
    <3> QED BY <3>1 DEF Streams
  <2>3. /\ asked' \in [Pages -> Seq(Request)]
        /\ \A q \in Pages : Len(asked'[q]) <= MaxAsked
    BY <2>1, <2>2, AskTyped
  <2>4. timer' \in [Pages -> BOOLEAN] BY <1>0, <2>1
  <2> QED BY <2>1, <2>3, <2>4 DEF TypeOK, hostVars
<1>6. ASSUME NEW i \in Investigations, Click(p, i) PROVE TypeOK'
  <2>1. /\ clicks[p] < MaxClicks /\ clicks' = [clicks EXCEPT ![p] = clicks[p] + 1]
        /\ current' = [current EXCEPT ![p] = i]
        /\ Ask(p, i, TRUE)
        /\ UNCHANGED <<hostVars, source, link, wire, list, timer, shown, faults>>
    BY <1>6 DEF Click
  <2>2. /\ asked' \in [Pages -> Seq(Request)]
        /\ \A q \in Pages : Len(asked'[q]) <= MaxAsked
    BY <2>1, AskTyped
  <2>3. clicks' \in [Pages -> 0 .. MaxClicks] BY <1>0, <2>1
  <2>4. current' \in [Pages -> Streams] BY <1>0, <2>1 DEF Streams
  <2> QED BY <2>1, <2>2, <2>3, <2>4 DEF TypeOK, hostVars
<1>7. ASSUME NEW k \in DOMAIN asked[p], Arrive(p, k) PROVE TypeOK'
  <2>1. PICK r : r = asked[p][k] OBVIOUS
  <2>2. /\ r.of \in Investigations /\ r.answer \in 0 .. Unanswered /\ r.late \in BOOLEAN
    BY <2>1, PageFacts
  <2>3. /\ r.answer # Unanswered /\ Done(p, k)
        /\ shown' = [shown EXCEPT ![p] = [of |-> r.of, version |-> r.answer, late |-> r.late]]
        /\ UNCHANGED <<hostVars, current, timer, clicks, faults>>
    BY <1>7, <2>1 DEF Arrive
  <2>4. /\ asked' \in [Pages -> Seq(Request)]
        /\ \A q \in Pages : Len(asked'[q]) <= MaxAsked
    BY <2>3, DoneTyped
  <2>5. r.answer \in 0 .. MaxChanges BY <1>0, <2>2, <2>3 DEF Unanswered
  <2>6. shown' \in [Pages -> [of : Streams, version : 0 .. MaxChanges, late : BOOLEAN]]
    BY <1>0, <2>2, <2>3, <2>5 DEF Streams
  <2>7. Subscribe(p, r.of) \/ UNCHANGED <<source, link, wire, list>>
    BY <1>7, <2>1 DEF Arrive
  <2>8. /\ source' \in [Pages -> Streams] /\ link' \in [Pages -> {"closed", "lost", "open"}]
        /\ wire' \in [Pages -> Seq(Ids)] /\ list' \in [Pages -> Seq(Ids)]
    <3>1. CASE Subscribe(p, r.of) BY <1>0, <2>2, <3>1 DEF Subscribe, Streams
    <3>2. CASE UNCHANGED <<source, link, wire, list>> BY <1>0, <3>2
    <3> QED BY <2>7, <3>1, <3>2
  <2> QED BY <2>3, <2>4, <2>6, <2>8 DEF TypeOK, hostVars
<1>8. ASSUME NEW k \in DOMAIN asked[p], Fail(p, k) PROVE TypeOK'
  <2>1. /\ faults < MaxFaults /\ faults' = faults + 1 /\ Done(p, k)
        /\ shown' = [shown EXCEPT ![p].late = TRUE]
        /\ UNCHANGED <<hostVars, current, source, link, wire, list, timer, clicks>>
    BY <1>8 DEF Fail
  <2>2. /\ asked' \in [Pages -> Seq(Request)]
        /\ \A q \in Pages : Len(asked'[q]) <= MaxAsked
    BY <2>1, DoneTyped
  <2>3. faults' \in 0 .. MaxFaults BY <1>0, <2>1
  <2>4. shown' \in [Pages -> [of : Streams, version : 0 .. MaxChanges, late : BOOLEAN]]
    BY <1>0, <2>1
  <2> QED BY <2>1, <2>2, <2>3, <2>4 DEF TypeOK, hostVars
<1> QED BY <1>1, <1>2, <1>3, <1>4, <1>5, <1>6, <1>7, <1>8

-----------------------------------------------------------------------------
(* What pages have been sent.                                              *)

\* A page nothing happens to stays as it is.
LEMMA FedStill ==
  ASSUME FedPages, UNCHANGED events, NEW q \in Pages, list'[q] = list[q], wire'[q] = wire[q],
         link'[q] = link[q], source'[q] = source[q]
  PROVE  Fed(list[q], wire[q], link[q] = "open", EventsOf(source[q]))'
<1>1. EventsOf(source[q])' = EventsOf(source[q]) BY DEF EventsOf
<1>2. Fed(list[q], wire[q], link[q] = "open", EventsOf(source[q])) BY DEF FedPages
<1>3. PICK l : l = list[q] OBVIOUS
<1>4. PICK w : w = wire[q] OBVIOUS
<1>5. PICK S : S = EventsOf(source[q]) OBVIOUS
<1>6. Fed(l, w, link[q] = "open", S) BY <1>2, <1>3, <1>4, <1>5
<1>7. list'[q] = l /\ wire'[q] = w /\ EventsOf(source[q])' = S /\ link'[q] = link[q]
  BY <1>1, <1>3, <1>4, <1>5
<1> QED BY <1>6, <1>7 DEF Fed

\* The same, for a page whose parts are given.
LEMMA FedBy ==
  ASSUME NEW q \in Pages, NEW l, NEW w, NEW up \in BOOLEAN, NEW S, Fed(l, w, up, S),
         list'[q] = l, wire'[q] = w, (link'[q] = "open") = up, EventsOf(source[q])' = S
  PROVE  Fed(list[q], wire[q], link[q] = "open", EventsOf(source[q]))'
BY DEF Fed

\* A published event reaches the open pages of its stream, behind what they have.
LEMMA ChangeFed ==
  ASSUME TypeOK, FedPages, NEW i \in Investigations, NEW amount \in {0, 1}, Change(i, amount)
  PROVE  FedPages'
<1>1. /\ events' \in Seq([stream : Investigations, version : 0 .. MaxChanges])
      /\ \A n \in DOMAIN events : n \in DOMAIN events' /\ events'[n] = events[n]
      /\ DOMAIN events' = 1 .. Len(events) + 1
      /\ events'[Len(events) + 1] = [stream |-> i, version |-> version'[i]]
  BY HostTyped
<1>2. PICK N : N = Len(events) OBVIOUS
<1>3. N \in Nat /\ DOMAIN events = 1 .. N BY <1>2, StreamFacts
<1>4. wire' = [q \in Pages |-> IF link[q] = "open" /\ source[q] = i
                               THEN Append(wire[q], N + 1) ELSE wire[q]]
      /\ UNCHANGED <<source, link, list>>
  BY <1>2 DEF Change, Publish
<1>5. events'[N + 1].stream = i BY <1>1, <1>2
<1>6. \A n \in DOMAIN events' : n \in DOMAIN events \/ n = N + 1 BY <1>1, <1>2, <1>3
<1>7. N + 1 \in DOMAIN events' /\ N + 1 \notin DOMAIN events BY <1>1, <1>2, <1>3
<1> SUFFICES ASSUME NEW q \in Pages
             PROVE  Fed(list[q], wire[q], link[q] = "open", EventsOf(source[q]))'
  BY DEF FedPages
<1>8. PICK S : S = EventsOf(source[q]) OBVIOUS
<1>9. S \subseteq 1 .. N BY <1>2, <1>8, StreamFacts
<1>10. PICK l : l = list[q] OBVIOUS
<1>11. PICK w : w = wire[q] OBVIOUS
<1>12. EventsOf(source[q])' = {n \in DOMAIN events' : events'[n].stream = source[q]}
  BY <1>4 DEF EventsOf
<1>13. Fed(l, w, link[q] = "open", S) BY <1>8, <1>10, <1>11 DEF FedPages
<1>14. list'[q] = l /\ link'[q] = link[q] BY <1>4, <1>10
<1>15. CASE source[q] # i
  <2>1. EventsOf(source[q])' = S
    <3>1. \A n \in DOMAIN events' : events'[n].stream = source[q] <=> n \in S
      BY <1>1, <1>5, <1>6, <1>7, <1>8, <1>15 DEF EventsOf
    <3>2. \A n \in S : n \in DOMAIN events' BY <1>1, <1>8 DEF EventsOf
    <3> QED BY <1>12, <3>1, <3>2
  <2>2. wire'[q] = w BY <1>4, <1>11, <1>15
  <2> QED BY <1>13, <1>14, <2>1, <2>2, FedBy
<1>16. CASE source[q] = i
  <2>1. EventsOf(source[q])' = S \cup {N + 1}
    <3>1. \A n \in DOMAIN events' : events'[n].stream = source[q] <=> n \in S \cup {N + 1}
      BY <1>1, <1>5, <1>6, <1>8, <1>16 DEF EventsOf
    <3>2. \A n \in S \cup {N + 1} : n \in DOMAIN events' BY <1>1, <1>7, <1>8 DEF EventsOf
    <3> QED BY <1>12, <3>1, <3>2
  <2>2. CASE link[q] = "open"
    <3>1. wire'[q] = Append(w, N + 1) BY <1>4, <1>11, <1>16, <2>2
    <3>2. Fed(l, w, TRUE, S) BY <1>13, <2>2
    <3>3. Fed(l, Append(w, N + 1), TRUE, S \cup {N + 1}) BY <1>3, <1>9, <3>2, FedMore
    <3>4. (link'[q] = "open") = TRUE BY <1>14, <2>2
    <3> QED BY <1>14, <2>1, <3>1, <3>3, <3>4, FedBy
  <2>3. CASE link[q] # "open"
    <3>1. wire'[q] = w BY <1>4, <1>11, <2>3
    <3>2. Fed(l, w, FALSE, S) BY <1>13, <2>3
    <3>3. Fed(l, w, FALSE, S \cup {N + 1}) BY <1>3, <1>9, <3>2, FedLater
    <3>4. (link'[q] = "open") = FALSE BY <1>14, <2>3
    <3> QED BY <1>14, <2>1, <3>1, <3>3, <3>4, FedBy
  <2> QED BY <2>2, <2>3
<1> QED BY <1>15, <1>16

\* A page whose connection ends keeps its list.
LEMMA LostFed ==
  ASSUME TypeOK, FedPages, UNCHANGED events, NEW q \in Pages, list'[q] = list[q],
         wire'[q] = <<>>, link'[q] # "open", source'[q] = source[q]
  PROVE  Fed(list[q], wire[q], link[q] = "open", EventsOf(source[q]))'
<1>1. PICK l : l = list[q] OBVIOUS
<1>2. PICK w : w = wire[q] OBVIOUS
<1>3. PICK S : S = EventsOf(source[q]) OBVIOUS
<1>4. PICK up \in BOOLEAN : up = (link[q] = "open") OBVIOUS
<1>5. Fed(l, w, up, S) BY <1>1, <1>2, <1>3, <1>4 DEF FedPages
<1>6. S \subseteq Nat BY <1>3, StreamFacts
<1>7. Fed(l, <<>>, FALSE, S) BY <1>4, <1>5, <1>6, FedLost
<1>8. EventsOf(source[q])' = S /\ list'[q] = l BY <1>1, <1>3 DEF EventsOf
<1> QED BY <1>7, <1>8, FedBy

\* A page that subscribes has been sent nothing.
LEMMA BegunFed ==
  ASSUME TypeOK, UNCHANGED events, NEW q \in Pages, list'[q] = <<>>, wire'[q] = <<>>,
         link'[q] # "open"
  PROVE  Fed(list[q], wire[q], link[q] = "open", EventsOf(source[q]))'
<1>1. PICK S : S = EventsOf(source'[q]) OBVIOUS
<1>2. S \subseteq Nat BY <1>1, StreamFacts
<1>3. Fed(<<>>, <<>>, FALSE, S) BY <1>2, FedNothing
<1>4. EventsOf(source[q])' = S BY <1>1 DEF EventsOf
<1> QED BY <1>3, <1>4, FedBy

\* Every step keeps what pages have been sent in order.
LEMMA FedStep ==
  ASSUME TypeOK, FedPages, [Next]_vars
  PROVE  FedPages'
<1>0. /\ link \in [Pages -> {"closed", "lost", "open"}]
      /\ wire \in [Pages -> Seq(Ids)] /\ list \in [Pages -> Seq(Ids)]
      /\ source \in [Pages -> Streams]
  BY DEF TypeOK
<1>1. ASSUME NEW i \in Investigations, NEW amount \in {0, 1}, Change(i, amount)
      PROVE  FedPages'
  BY <1>1, ChangeFed
<1>2. CASE UNCHANGED <<events, list, wire, link, source>>
  <2>1. \A q \in Pages : /\ list'[q] = list[q] /\ wire'[q] = wire[q]
                         /\ link'[q] = link[q] /\ source'[q] = source[q]
    BY <1>2
  <2> QED BY <1>2, <2>1, FedStill DEF FedPages
<1>3. CASE HostCrash
  <2>1. /\ link' = [p \in Pages |-> IF link[p] = "open" THEN "lost" ELSE link[p]]
        /\ wire' = [p \in Pages |-> <<>>]
        /\ UNCHANGED <<events, source, list>>
    BY <1>3 DEF HostCrash
  <2>2. \A q \in Pages : /\ list'[q] = list[q] /\ wire'[q] = <<>> /\ link'[q] # "open"
                         /\ source'[q] = source[q]
    BY <2>1
  <2>3. UNCHANGED events BY <2>1
  <2> QED BY <2>2, <2>3, LostFed DEF FedPages
<1>4. ASSUME NEW p \in Pages, Connect(p) PROVE FedPages'
  <2>1. /\ link[p] = "lost" /\ link' = [link EXCEPT ![p] = "open"]
        /\ wire' = [wire EXCEPT ![p] = Replay(source[p], LastEventId(p))]
        /\ UNCHANGED <<events, source, list>>
    BY <1>4 DEF Connect, hostVars
  <2> SUFFICES ASSUME NEW q \in Pages
               PROVE  Fed(list[q], wire[q], link[q] = "open", EventsOf(source[q]))'
    BY DEF FedPages
  <2>2. CASE q # p BY <1>0, <2>1, <2>2, FedStill
  <2>3. CASE q = p
    <3>1. PICK l : l = list[p] OBVIOUS
    <3>2. PICK w : w = wire[p] OBVIOUS
    <3>3. PICK S : S = EventsOf(source[p]) OBVIOUS
    <3>4. Fed(l, w, FALSE, S) BY <2>1, <3>1, <3>2, <3>3 DEF FedPages
    <3>5. S \subseteq Nat \ {0} /\ IsFiniteSet(S) BY <3>3, StreamFacts
    <3>6. Fed(l, FirstOf({n \in S : n > LastId(l)}), TRUE, S) BY <3>4, <3>5, FedAgain
    <3>7. Replay(source[p], LastEventId(p)) = FirstOf({n \in S : n > LastId(l)})
      BY <3>1, <3>3 DEF Replay, LastEventId, LastId
    <3>8. wire'[p] = FirstOf({n \in S : n > LastId(l)}) /\ link'[p] = "open"
      BY <1>0, <2>1, <3>7
    <3>9. list'[p] = l /\ EventsOf(source[p])' = S BY <2>1, <3>1, <3>3 DEF EventsOf
    <3> QED BY <2>3, <3>6, <3>8, <3>9, FedBy
  <2> QED BY <2>2, <2>3
<1>5. ASSUME NEW p \in Pages, Drop(p) PROVE FedPages'
  <2>1. /\ link' = [link EXCEPT ![p] = "lost"]
        /\ wire' = [wire EXCEPT ![p] = <<>>]
        /\ UNCHANGED <<events, source, list>>
    BY <1>5 DEF Drop, hostVars
  <2> SUFFICES ASSUME NEW q \in Pages
               PROVE  Fed(list[q], wire[q], link[q] = "open", EventsOf(source[q]))'
    BY DEF FedPages
  <2>2. CASE q # p BY <1>0, <2>1, <2>2, FedStill
  <2>3. CASE q = p
    <3>1. list'[q] = list[q] /\ wire'[q] = <<>> /\ link'[q] # "open" /\ source'[q] = source[q]
      BY <1>0, <2>1, <2>3
    <3>2. UNCHANGED events BY <2>1
    <3> QED BY <3>1, <3>2, LostFed
  <2> QED BY <2>2, <2>3
<1>6. ASSUME NEW p \in Pages, Receive(p) PROVE FedPages'
  <2>1. /\ link[p] = "open" /\ wire[p] # <<>>
        /\ wire' = [wire EXCEPT ![p] = Tail(wire[p])]
        /\ list' = [list EXCEPT ![p] = Append(list[p], Head(wire[p]))]
        /\ UNCHANGED <<events, source, link>>
    BY <1>6 DEF Receive, hostVars
  <2> SUFFICES ASSUME NEW q \in Pages
               PROVE  Fed(list[q], wire[q], link[q] = "open", EventsOf(source[q]))'
    BY DEF FedPages
  <2>2. CASE q # p BY <1>0, <2>1, <2>2, FedStill
  <2>3. CASE q = p
    <3>1. PICK l : l = list[p] OBVIOUS
    <3>2. PICK w : w = wire[p] OBVIOUS
    <3>3. PICK S : S = EventsOf(source[p]) OBVIOUS
    <3>4. Fed(l, w, TRUE, S) /\ w # <<>> BY <2>1, <3>1, <3>2, <3>3 DEF FedPages
    <3>5. S \subseteq Nat BY <3>3, StreamFacts
    <3>6. Fed(Append(l, Head(w)), Tail(w), TRUE, S) BY <3>4, <3>5, FedRead
    <3>7. list'[p] = Append(l, Head(w)) /\ wire'[p] = Tail(w) BY <1>0, <2>1, <3>1, <3>2
    <3>8. link'[p] = "open" /\ EventsOf(source[p])' = S BY <2>1, <3>3 DEF EventsOf
    <3> QED BY <2>3, <3>6, <3>7, <3>8, FedBy
  <2> QED BY <2>2, <2>3
<1>7. ASSUME NEW p \in Pages, NEW k \in DOMAIN asked[p], Arrive(p, k) PROVE FedPages'
  <2>1. UNCHANGED events
        /\ (Subscribe(p, asked[p][k].of) \/ UNCHANGED <<source, link, wire, list>>)
    BY <1>7 DEF Arrive, hostVars
  <2>2. CASE Subscribe(p, asked[p][k].of)
    <3>1. /\ link' = [link EXCEPT ![p] = "lost"]
          /\ wire' = [wire EXCEPT ![p] = <<>>] /\ list' = [list EXCEPT ![p] = <<>>]
          /\ source' = [source EXCEPT ![p] = asked[p][k].of]
      BY <2>2 DEF Subscribe
    <3> SUFFICES ASSUME NEW q \in Pages
                 PROVE  Fed(list[q], wire[q], link[q] = "open", EventsOf(source[q]))'
      BY DEF FedPages
    <3>2. CASE q # p BY <1>0, <2>1, <3>1, <3>2, FedStill
    <3>3. CASE q = p
      <4>1. list'[q] = <<>> /\ wire'[q] = <<>> /\ link'[q] # "open" BY <1>0, <3>1, <3>3
      <4> QED BY <2>1, <4>1, BegunFed
    <3> QED BY <3>2, <3>3
  <2> QED BY <1>2, <2>1, <2>2
<1>8. [Next]_vars =>
        \/ \E i \in Investigations, amount \in {0, 1} : Change(i, amount)
        \/ UNCHANGED <<events, list, wire, link, source>>
        \/ HostCrash
        \/ \E p \in Pages : Connect(p) \/ Drop(p) \/ Receive(p)
        \/ \E p \in Pages : \E k \in DOMAIN asked[p] : Arrive(p, k)
  <2>1. UNCHANGED vars => UNCHANGED <<events, list, wire, link, source>>
    BY DEF vars, hostVars, pageVars
  <2>2. \A i \in Investigations : ChangeSilently(i) => UNCHANGED <<events, list, wire, link, source>>
    BY DEF ChangeSilently, pageVars
  <2>3. HostRestart => UNCHANGED <<events, list, wire, link, source>>
    BY DEF HostRestart, pageVars
  <2>4. \A p \in Pages : Acted(p) \/ RefreshFires(p) => UNCHANGED <<events, list, wire, link, source>>
    BY DEF Acted, RefreshFires, hostVars
  <2>5. \A p \in Pages, i \in Investigations :
          Click(p, i) => UNCHANGED <<events, list, wire, link, source>>
    BY DEF Click, hostVars
  <2>6. \A p \in Pages : \A k \in DOMAIN asked[p] :
          Answer(p, k) \/ Fail(p, k) => UNCHANGED <<events, list, wire, link, source>>
    BY DEF Answer, Fail, hostVars
  <2> QED BY <2>1, <2>2, <2>3, <2>4, <2>5, <2>6 DEF Next
<1> QED BY <1>1, <1>2, <1>3, <1>4, <1>5, <1>6, <1>7, <1>8

-----------------------------------------------------------------------------
(* Where pages are.                                                        *)

\* No step leaves a page that asks, refreshes or is subscribed without an investigation.
LEMMA AtOneStep ==
  ASSUME TypeOK, AtOne, [Next]_vars
  PROVE  AtOne'
<1>0. /\ link \in [Pages -> {"closed", "lost", "open"}]
      /\ source \in [Pages -> Streams] /\ current \in [Pages -> Streams]
      /\ timer \in [Pages -> BOOLEAN] /\ asked \in [Pages -> Seq(Request)]
      /\ NoInvestigation \notin Investigations
  BY DEF TypeOK
<1> SUFFICES ASSUME NEW q \in Pages
             PROVE  /\ link'[q] # "closed" => source'[q] # NoInvestigation
                    /\ source'[q] # NoInvestigation \/ asked'[q] # <<>> \/ timer'[q] =>
                         current'[q] # NoInvestigation
  BY DEF AtOne
<1>1. /\ link[q] # "closed" => source[q] # NoInvestigation
      /\ source[q] # NoInvestigation \/ asked[q] # <<>> \/ timer[q] =>
           current[q] # NoInvestigation
  BY DEF AtOne
<1> DEFINE Same == /\ source'[q] = source[q] /\ current'[q] = current[q]
                   /\ link'[q] # "closed" => link[q] # "closed"
                   /\ timer'[q] => timer[q] \/ current[q] # NoInvestigation
                   /\ asked'[q] # <<>> => asked[q] # <<>> \/ current[q] # NoInvestigation
<1>2. CASE Same BY <1>1, <1>2
<1>3. ASSUME NEW i \in Investigations, NEW amount \in {0, 1}, Change(i, amount) PROVE Same
  BY <1>3 DEF Change
<1>4. ASSUME NEW i \in Investigations, ChangeSilently(i) PROVE Same
  BY <1>4 DEF ChangeSilently, pageVars
<1>5. CASE HostCrash
  <2>1. /\ UNCHANGED <<current, source, timer>>
        /\ link' = [p \in Pages |-> IF link[p] = "open" THEN "lost" ELSE link[p]]
        /\ asked' = [p \in Pages |-> <<>>]
    BY <1>5 DEF HostCrash
  <2> QED BY <1>2, <2>1
<1>6. CASE HostRestart \/ UNCHANGED vars BY <1>2, <1>6 DEF HostRestart, vars, pageVars
<1>7. ASSUME NEW p \in Pages, Connect(p) PROVE Same BY <1>0, <1>7 DEF Connect
<1>8. ASSUME NEW p \in Pages, Drop(p) PROVE Same BY <1>0, <1>8 DEF Drop
<1>9. ASSUME NEW p \in Pages, Receive(p) PROVE Same
  <2>1. /\ link[p] = "open" /\ timer' = [timer EXCEPT ![p] = TRUE]
        /\ UNCHANGED <<current, source, link, asked>>
    BY <1>9 DEF Receive
  <2>2. q # p => timer'[q] = timer[q] BY <1>0, <2>1
  <2>3. q = p => current[q] # NoInvestigation BY <1>1, <2>1
  <2> QED BY <2>1, <2>2, <2>3
<1>10. ASSUME NEW p \in Pages, Acted(p) PROVE Same
  <2>1. /\ current[p] # NoInvestigation /\ timer' = [timer EXCEPT ![p] = TRUE]
        /\ UNCHANGED <<current, source, link, asked>>
    BY <1>10 DEF Acted
  <2>2. q # p => timer'[q] = timer[q] BY <1>0, <2>1
  <2> QED BY <2>1, <2>2
<1>11. ASSUME NEW p \in Pages, RefreshFires(p) PROVE Same
  <2>1. /\ timer[p] /\ timer' = [timer EXCEPT ![p] = FALSE]
        /\ UNCHANGED <<current, source, link>>
    BY <1>11 DEF RefreshFires
  <2>2. timer'[q] => timer[q] BY <1>0, <2>1
  <2>3. q # p => asked'[q] = asked[q] BY <1>0, <1>11 DEF RefreshFires, Ask
  <2>4. q = p => current[q] # NoInvestigation BY <1>1, <2>1
  <2> QED BY <2>1, <2>2, <2>3, <2>4
<1>12. ASSUME NEW p \in Pages, NEW i \in Investigations, Click(p, i)
       PROVE  /\ link'[q] # "closed" => source'[q] # NoInvestigation
              /\ source'[q] # NoInvestigation \/ asked'[q] # <<>> \/ timer'[q] =>
                   current'[q] # NoInvestigation
  <2>1. /\ current' = [current EXCEPT ![p] = i] /\ UNCHANGED <<source, link, timer>>
    BY <1>12 DEF Click
  <2>2. CASE q = p BY <1>0, <1>1, <2>1, <2>2
  <2>3. CASE q # p
    <3>1. asked'[q] = asked[q] BY <1>0, <1>12, <2>3 DEF Click, Ask
    <3>2. current'[q] = current[q] BY <1>0, <2>1, <2>3
    <3> QED BY <1>1, <2>1, <3>1, <3>2
  <2> QED BY <2>2, <2>3
<1>13. ASSUME NEW p \in Pages, NEW k \in DOMAIN asked[p], Answer(p, k) PROVE Same
  <2>1. UNCHANGED <<current, source, link, timer>> BY <1>13 DEF Answer
  <2>2. q # p => asked'[q] = asked[q] BY <1>0, <1>13 DEF Answer
  <2>3. q = p => asked[q] # <<>>
    <3>1. DOMAIN <<>> = {} OBVIOUS
    <3> QED BY <3>1
  <2> QED BY <2>1, <2>2, <2>3
<1>14. ASSUME NEW p \in Pages, NEW k \in DOMAIN asked[p]
       PROVE  /\ asked[p] # <<>> /\ asked[p][k].of # NoInvestigation
              /\ Done(p, k) => (asked'[q] # <<>> => asked[q] # <<>>)
  <2>1. asked[p] # <<>>
    <3>1. DOMAIN <<>> = {} OBVIOUS
    <3> QED BY <3>1
  <2>2. asked[p][k].of \in Investigations BY PageFacts
  <2>3. Done(p, k) /\ q # p => asked'[q] = asked[q] BY <1>0 DEF Done
  <2> QED BY <1>0, <2>1, <2>2, <2>3
<1>15. ASSUME NEW p \in Pages, NEW k \in DOMAIN asked[p], Fail(p, k) PROVE Same
  <2>1. UNCHANGED <<current, source, link, timer>> /\ Done(p, k) BY <1>15 DEF Fail
  <2> QED BY <1>14, <2>1
<1>16. ASSUME NEW p \in Pages, NEW k \in DOMAIN asked[p], Arrive(p, k)
       PROVE  /\ link'[q] # "closed" => source'[q] # NoInvestigation
              /\ source'[q] # NoInvestigation \/ asked'[q] # <<>> \/ timer'[q] =>
                   current'[q] # NoInvestigation
  <2>1. /\ UNCHANGED <<current, timer>> /\ Done(p, k)
        /\ Subscribe(p, asked[p][k].of) \/ UNCHANGED <<source, link, wire, list>>
    BY <1>16 DEF Arrive
  <2>2. asked'[q] # <<>> => asked[q] # <<>> BY <1>14, <2>1
  <2>3. CASE UNCHANGED <<source, link, wire, list>> BY <1>1, <2>1, <2>2, <2>3
  <2>4. CASE Subscribe(p, asked[p][k].of)
    <3>1. /\ source' = [source EXCEPT ![p] = asked[p][k].of]
          /\ link' = [link EXCEPT ![p] = "lost"]
      BY <2>4 DEF Subscribe
    <3>2. CASE q = p
      <4>1. source'[q] # NoInvestigation BY <1>0, <1>14, <3>1, <3>2
      <4>2. current[q] # NoInvestigation BY <1>1, <1>14, <3>2
      <4> QED BY <2>1, <4>1, <4>2
    <3>3. CASE q # p
      <4>1. source'[q] = source[q] /\ link'[q] = link[q] BY <1>0, <3>1, <3>3
      <4> QED BY <1>1, <2>1, <2>2, <4>1
    <3> QED BY <3>2, <3>3
  <2> QED BY <2>1, <2>3, <2>4
<1> HIDE DEF Same
<1> QED BY <1>2, <1>3, <1>4, <1>5, <1>6, <1>7, <1>8, <1>9, <1>10, <1>11, <1>12, <1>13,
           <1>15, <1>16 DEF Next

\* Versions only grow, and rows of the table stay.
LEMMA TableGrows ==
  ASSUME TypeOK, PublishedAfter, [Next]_vars
  PROVE  /\ \A n \in DOMAIN events : n \in DOMAIN events' /\ events'[n] = events[n]
         /\ PublishedAfter'
<1>1. CASE UNCHANGED <<version, events>> BY <1>1 DEF PublishedAfter
<1>2. ASSUME NEW i \in Investigations, NEW amount \in {0, 1}, Change(i, amount)
      PROVE  /\ \A n \in DOMAIN events : n \in DOMAIN events' /\ events'[n] = events[n]
             /\ PublishedAfter'
  <2>1. /\ version' \in [Investigations -> 0 .. MaxChanges]
        /\ \A n \in DOMAIN events : n \in DOMAIN events' /\ events'[n] = events[n]
        /\ DOMAIN events' = 1 .. Len(events) + 1
        /\ events'[Len(events) + 1] = [stream |-> i, version |-> version'[i]]
        /\ \A j \in Investigations : version[j] <= version'[j]
    BY <1>2, HostTyped
  <2>2. PICK N : N = Len(events) OBVIOUS
  <2>3. N \in Nat /\ DOMAIN events = 1 .. N BY <2>2, StreamFacts
  <2> SUFFICES ASSUME NEW n \in DOMAIN events'
               PROVE  events'[n].version <= version'[events'[n].stream]
    BY <2>1 DEF PublishedAfter
  <2>4. CASE n \in DOMAIN events
    <3>1. events'[n] = events[n] BY <2>1, <2>4
    <3>2. /\ events[n].stream \in Investigations /\ events[n].version \in 0 .. MaxChanges
          /\ MaxChanges \in Nat
      BY <2>4, StreamFacts
    <3>3. events[n].version <= version[events[n].stream] BY <2>4 DEF PublishedAfter
    <3>4. version[events[n].stream] <= version'[events[n].stream] BY <2>1, <3>2
    <3>5. /\ version[events[n].stream] \in 0 .. MaxChanges
          /\ version'[events[n].stream] \in 0 .. MaxChanges
      BY <2>1, <3>2 DEF TypeOK
    <3>6. events[n].version <= version'[events[n].stream]
      <4>1. PICK x : x = events[n].version OBVIOUS
      <4>2. PICK y : y = version[events[n].stream] OBVIOUS
      <4>3. PICK z : z = version'[events[n].stream] OBVIOUS
      <4>4. x \in 0 .. MaxChanges /\ y \in 0 .. MaxChanges /\ z \in 0 .. MaxChanges
            /\ x <= y /\ y <= z
        BY <3>2, <3>3, <3>4, <3>5, <4>1, <4>2, <4>3
      <4>5. x <= z BY <3>2, <4>4
      <4> QED BY <4>1, <4>3, <4>5
    <3> QED BY <3>1, <3>6
  <2>5. CASE n = N + 1
    <3>1. events'[n] = [stream |-> i, version |-> version'[i]] BY <2>1, <2>2, <2>5
    <3>2. version'[i] \in 0 .. MaxChanges /\ MaxChanges \in Nat BY <2>1, StreamFacts
    <3> QED BY <3>1, <3>2
  <2> QED BY <2>1, <2>2, <2>3, <2>4, <2>5
<1>3. ASSUME NEW i \in Investigations, ChangeSilently(i)
      PROVE  /\ \A n \in DOMAIN events : n \in DOMAIN events' /\ events'[n] = events[n]
             /\ PublishedAfter'
  <2>1. version' = [version EXCEPT ![i] = version[i] + 1] /\ events' = events
    BY <1>3 DEF ChangeSilently
  <2>2. version \in [Investigations -> 0 .. MaxChanges] /\ MaxChanges \in Nat
    BY StreamFacts DEF TypeOK
  <2> SUFFICES ASSUME NEW n \in DOMAIN events
               PROVE  events[n].version <= version'[events[n].stream]
    BY <2>1 DEF PublishedAfter
  <2>3. PICK x : x = events[n].version OBVIOUS
  <2>4. PICK s : s = events[n].stream OBVIOUS
  <2>5. x \in 0 .. MaxChanges /\ s \in Investigations BY <2>3, <2>4, StreamFacts
  <2>6. x <= version[s] BY <2>3, <2>4 DEF PublishedAfter
  <2>7. x <= version'[s] BY <2>1, <2>2, <2>5, <2>6
  <2> QED BY <2>3, <2>4, <2>7
<1>4. [Next]_vars =>
        \/ \E i \in Investigations, amount \in {0, 1} : Change(i, amount)
        \/ \E i \in Investigations : ChangeSilently(i)
        \/ UNCHANGED <<version, events>>
  <2>1. UNCHANGED vars \/ HostCrash \/ HostRestart => UNCHANGED <<version, events>>
    BY DEF vars, hostVars, HostCrash, HostRestart
  <2>2. \A p \in Pages : Connect(p) \/ Drop(p) \/ Receive(p) \/ Acted(p) \/ RefreshFires(p)
          => UNCHANGED <<version, events>>
    BY DEF Connect, Drop, Receive, Acted, RefreshFires, hostVars
  <2>3. \A p \in Pages, i \in Investigations : Click(p, i) => UNCHANGED <<version, events>>
    BY DEF Click, hostVars
  <2>4. \A p \in Pages : \A k \in DOMAIN asked[p] :
          Answer(p, k) \/ Arrive(p, k) \/ Fail(p, k) => UNCHANGED <<version, events>>
    BY DEF Answer, Arrive, Fail, hostVars
  <2> QED BY <2>1, <2>2, <2>3, <2>4 DEF Next
<1> QED BY <1>1, <1>2, <1>3, <1>4

-----------------------------------------------------------------------------
(* What pages show.                                                        *)

\* The events in a list are rows of the table, of the page's stream.
LEMMA ListFacts ==
  ASSUME TypeOK, FedPages, NEW p \in Pages, NEW n \in DOMAIN list[p]
  PROVE  /\ list[p][n] \in DOMAIN events /\ events[list[p][n]].stream = source[p]
         /\ events[list[p][n]].version \in 0 .. MaxChanges
<1>1. PICK l : l = list[p] OBVIOUS
<1>2. PICK w : w = wire[p] OBVIOUS
<1>3. PICK S : S = EventsOf(source[p]) OBVIOUS
<1>4. PICK up \in BOOLEAN : up = (link[p] = "open") OBVIOUS
<1>5. Fed(l, w, up, S) BY <1>1, <1>2, <1>3, <1>4 DEF FedPages
<1>6. S \subseteq Nat BY <1>3, StreamFacts
<1>7. Fed(l, <<>>, FALSE, S) BY <1>5, <1>6, FedLost
<1>8. l \in Seq(Nat) /\ l \o <<>> \in Seq(S) BY <1>7 DEF Fed
<1>9. l \o <<>> = l BY <1>8, ConcatEmptySeq
<1>10. l \in Seq(S) BY <1>8, <1>9
<1>11. l[n] \in S BY <1>1, <1>10, LenProperties, ElementOfSeq
<1>12. l[n] \in DOMAIN events /\ events[l[n]].stream = source[p] BY <1>3, <1>11 DEF EventsOf
<1> QED BY <1>1, <1>12, StreamFacts

\* The version a page will show last is one or the sign that there is no answer.
LEMMA YoungestTyped ==
  ASSUME TypeOK, NEW p \in Pages
  PROVE  /\ Youngest(asked[p], shown[p]).version \in 0 .. Unanswered
         /\ MaxChanges \in Nat /\ Unanswered \in Nat /\ 0 .. MaxChanges \subseteq 0 .. Unanswered
         /\ Youngest(asked[p], shown[p]).late \in BOOLEAN
<1>1. MaxChanges \in Nat /\ Unanswered \in Nat /\ 0 .. MaxChanges \subseteq 0 .. Unanswered
  BY StreamFacts DEF Unanswered
<1>2. CASE asked[p] = <<>>
  <2>1. shown[p].version \in 0 .. MaxChanges /\ shown[p].late \in BOOLEAN BY PageFacts
  <2>2. Youngest(asked[p], shown[p])
          = [of |-> shown[p].of, version |-> shown[p].version, late |-> shown[p].late]
    BY <1>2 DEF Youngest
  <2> QED BY <1>1, <2>1, <2>2
<1>3. CASE asked[p] # <<>>
  <2>1. PICK a : a = asked[p] OBVIOUS
  <2>2. a \in Seq(Request) BY <2>1, PageFacts
  <2>3. Len(a) \in DOMAIN a
    <3>1. Len(a) \in Nat \ {0} /\ DOMAIN a = 1 .. Len(a) BY <1>3, <2>1, <2>2, EmptySeq, LenProperties
    <3> QED BY <3>1
  <2>4. a[Len(a)].answer \in 0 .. Unanswered /\ a[Len(a)].late \in BOOLEAN
    BY <2>1, <2>3, PageFacts
  <2>5. Youngest(a, shown[p]) = [of |-> a[Len(a)].of, version |-> a[Len(a)].answer,
                                 late |-> a[Len(a)].late]
    BY <1>3, <2>1 DEF Youngest
  <2> QED BY <1>1, <2>1, <2>4, <2>5
<1> QED BY <1>1, <1>2, <1>3

\* A page stays up to date if what it will show last stays as it is or gets late.
LEMMA RefreshedBy ==
  ASSUME TypeOK, FedPages, NEW q \in Pages, RefreshedAt(q),
         \A n \in DOMAIN events : n \in DOMAIN events' /\ events'[n] = events[n],
         list'[q] = list[q], source'[q] = source[q], current'[q] = current[q],
         timer[q] => timer'[q],
         \/ Youngest(asked'[q], shown'[q]).late
         \/ Youngest(asked'[q], shown'[q]) = Youngest(asked[q], shown[q])
  PROVE  RefreshedAt(q)'
<1>1. PICK y : y = Youngest(asked[q], shown[q]) OBVIOUS
<1>2. PICK z : z = Youngest(asked'[q], shown'[q]) OBVIOUS
<1>3. z.late \/ z = y BY <1>1, <1>2
<1>4. /\ y.late \/ y.of = current[q]
      /\ source[q] = current[q] =>
           \A n \in DOMAIN list[q] : timer[q] \/ y.late \/ y.version >= events[list[q][n]].version
  BY <1>1 DEF RefreshedAt
<1>5. z.late \/ z.of = current'[q] BY <1>3, <1>4
<1>6. ASSUME source'[q] = current'[q], NEW n \in DOMAIN list'[q]
      PROVE  timer'[q] \/ z.late \/ z.version >= events'[list'[q][n]].version
  <2>1. n \in DOMAIN list[q] /\ events'[list'[q][n]] = events[list[q][n]]
    BY <1>6, ListFacts
  <2>2. timer[q] \/ y.late \/ y.version >= events[list[q][n]].version BY <1>4, <1>6, <2>1
  <2>3. CASE z.late BY <2>3
  <2>4. CASE z = y /\ ~z.late
    <3>1. timer'[q] \/ y.version >= events[list[q][n]].version BY <2>2, <2>4
    <3> QED BY <2>1, <2>4, <3>1
  <2> QED BY <1>3, <2>3, <2>4
<1> QED BY <1>2, <1>5, <1>6 DEF RefreshedAt

\* A page that has asked anew will be up to date.
LEMMA RefreshedByAsking ==
  ASSUME TypeOK, FedPages, UNCHANGED <<events, list>>, NEW q \in Pages,
         Youngest(asked'[q], shown'[q]).of = current'[q],
         Youngest(asked'[q], shown'[q]).version = Unanswered
  PROVE  RefreshedAt(q)'
<1>1. PICK z : z = Youngest(asked'[q], shown'[q]) OBVIOUS
<1>2. ASSUME NEW n \in DOMAIN list'[q] PROVE z.version >= events'[list'[q][n]].version
  <2>1. events'[list'[q][n]].version \in 0 .. MaxChanges BY <1>2, ListFacts
  <2>2. PICK x : x = events'[list'[q][n]].version OBVIOUS
  <2>3. MaxChanges \in Nat BY DEF EventStreamAssumption
  <2>4. Unanswered >= x BY <2>1, <2>2, <2>3 DEF Unanswered
  <2> QED BY <1>1, <2>2, <2>4
<1> QED BY <1>1, <1>2 DEF RefreshedAt

\* The youngest word of a page when request k is over, whatever it shows then.
LEMMA WordWhenOver ==
  ASSUME TypeOK, NEW q \in Pages, NEW k \in DOMAIN asked[q], NEW after,
         Over(asked[q], k) = <<>> =>
           after.late \/ after = [of |-> asked[q][k].of, version |-> asked[q][k].answer,
                                  late |-> asked[q][k].late]
  PROVE  \/ Youngest(Over(asked[q], k), after).late
         \/ Youngest(Over(asked[q], k), after) = Youngest(asked[q], shown[q])
<1>1. PICK a : a = asked[q] OBVIOUS
<1>2. a \in Seq(Request) BY <1>1, PageFacts
<1>3. a # <<>>
  <2>1. DOMAIN <<>> = {} OBVIOUS
  <2> QED BY <1>1, <2>1
<1>4. \/ Over(a, k) = <<>> /\ k = Len(a)
      \/ Over(a, k) # <<>> /\ Youngest(Over(a, k), after).late
      \/ Over(a, k) # <<>> /\ Youngest(Over(a, k), after) = Youngest(a, shown[q])
  BY <1>1, <1>2, YoungestOfRest
<1>5. CASE Over(a, k) = <<>> /\ k = Len(a)
  <2>1. Youngest(Over(a, k), after)
          = [of |-> after.of, version |-> after.version, late |-> after.late]
    BY <1>5 DEF Youngest
  <2>2. Youngest(a, shown[q]) = [of |-> a[k].of, version |-> a[k].answer, late |-> a[k].late]
    BY <1>3, <1>5 DEF Youngest
  <2>3. CASE after.late BY <1>1, <2>1, <2>3
  <2>4. CASE after = [of |-> a[k].of, version |-> a[k].answer, late |-> a[k].late]
    <3>1. /\ after.of = a[k].of /\ after.version = a[k].answer /\ after.late = a[k].late
      BY <2>4
    <3> QED BY <1>1, <2>1, <2>2, <3>1
  <2> QED BY <1>1, <1>5, <2>3, <2>4
<1> QED BY <1>1, <1>4, <1>5

\* Every step keeps what a page will show last up to date.
LEMMA RefreshedStep ==
  ASSUME IInv, [Next]_vars
  PROVE  Refreshed'
<1>0. TypeOK /\ FedPages /\ PublishedAfter /\ Refreshed BY DEF IInv
<1>1. /\ shown \in [Pages -> [of : Streams, version : 0 .. MaxChanges, late : BOOLEAN]]
      /\ source \in [Pages -> Streams] /\ current \in [Pages -> Streams]
      /\ timer \in [Pages -> BOOLEAN] /\ asked \in [Pages -> Seq(Request)]
      /\ list \in [Pages -> Seq(Ids)]
  BY <1>0 DEF TypeOK
<1>2. \A n \in DOMAIN events : n \in DOMAIN events' /\ events'[n] = events[n]
  BY <1>0, TableGrows
<1> SUFFICES ASSUME NEW q \in Pages PROVE RefreshedAt(q)' BY DEF Refreshed
<1>3. RefreshedAt(q) BY <1>0 DEF Refreshed
<1> DEFINE Same == /\ list'[q] = list[q] /\ source'[q] = source[q] /\ current'[q] = current[q]
                   /\ timer[q] => timer'[q]
                   /\ \/ Youngest(asked'[q], shown'[q]).late
                      \/ Youngest(asked'[q], shown'[q]) = Youngest(asked[q], shown[q])
<1>4. CASE Same BY <1>0, <1>2, <1>3, <1>4, RefreshedBy
<1>5. ASSUME UNCHANGED <<list, source, current, timer, asked, shown>> PROVE Same BY <1>5
<1>6. ASSUME NEW i \in Investigations, NEW amount \in {0, 1}, Change(i, amount) PROVE Same
  BY <1>6 DEF Change
<1>7. ASSUME NEW i \in Investigations, ChangeSilently(i) PROVE Same
  BY <1>7 DEF ChangeSilently, pageVars
<1>8. CASE HostRestart \/ UNCHANGED vars
  <2>1. UNCHANGED <<list, source, current, timer, asked, shown>>
    BY <1>8 DEF HostRestart, vars, pageVars
  <2> QED BY <1>4, <1>5, <2>1
<1>9. ASSUME HostCrash PROVE Same
  <2>1. /\ UNCHANGED <<list, source, current, timer>>
        /\ asked'[q] = <<>>
        /\ shown'[q] = IF asked[q] = <<>> THEN shown[q] ELSE [shown[q] EXCEPT !.late = TRUE]
    BY <1>9 DEF HostCrash
  <2>2. CASE asked[q] = <<>> BY <2>1, <2>2
  <2>3. CASE asked[q] # <<>>
    <3>1. shown'[q].late = TRUE BY <1>1, <2>1, <2>3
    <3>2. Youngest(asked'[q], shown'[q]).late = shown'[q].late BY <2>1 DEF Youngest
    <3> QED BY <2>1, <3>1, <3>2
  <2> QED BY <2>2, <2>3
<1>10. ASSUME NEW p \in Pages, Connect(p) \/ Drop(p) PROVE Same
  BY <1>10 DEF Connect, Drop
<1>11. ASSUME NEW p \in Pages, Acted(p) PROVE Same
  <2>1. timer' = [timer EXCEPT ![p] = TRUE] /\ UNCHANGED <<list, source, current, asked, shown>>
    BY <1>11 DEF Acted
  <2>2. timer[q] => timer'[q] BY <1>1, <2>1
  <2> QED BY <2>1, <2>2
<1>12. ASSUME NEW p \in Pages, Receive(p) PROVE RefreshedAt(q)'
  <2>1. /\ timer' = [timer EXCEPT ![p] = TRUE]
        /\ list' = [list EXCEPT ![p] = Append(list[p], Head(wire[p]))]
        /\ UNCHANGED <<source, current, asked, shown>>
    BY <1>12 DEF Receive
  <2>2. CASE q # p
    <3>1. list'[q] = list[q] /\ timer'[q] = timer[q] BY <1>1, <2>1, <2>2
    <3> QED BY <1>4, <2>1, <3>1
  <2>3. CASE q = p
    <3>1. timer'[q] BY <1>1, <2>1, <2>3
    <3> QED BY <1>3, <2>1, <3>1 DEF RefreshedAt
  <2> QED BY <2>2, <2>3
<1>13. ASSUME NEW p \in Pages, RefreshFires(p) PROVE RefreshedAt(q)'
  <2>1. /\ timer[p] /\ timer' = [timer EXCEPT ![p] = FALSE] /\ Ask(p, current[p], FALSE)
        /\ UNCHANGED <<events, list, source, current, shown>>
    BY <1>13 DEF RefreshFires, hostVars
  <2>2. current[p] \in Investigations
    <3>1. current[p] \in Streams /\ current[p] # NoInvestigation BY <1>1, <2>1 DEF AtOne, IInv
    <3> QED BY <3>1 DEF Streams
  <2>3. /\ \A sh : /\ Youngest(asked'[p], sh).of = current[p]
                   /\ Youngest(asked'[p], sh).version = Unanswered
        /\ \A r \in Pages \ {p} : asked'[r] = asked[r]
    <3>1. PICK i : i = current[p] OBVIOUS
    <3>2. i \in Investigations /\ Ask(p, i, FALSE) BY <2>1, <2>2, <3>1
    <3>3. \A sh : /\ Youngest(asked'[p], sh).of = i
                  /\ Youngest(asked'[p], sh).version = Unanswered
      BY <1>0, <3>2, AskTyped
    <3>4. \A r \in Pages \ {p} : asked'[r] = asked[r] BY <1>0, <3>2, AskTyped
    <3> QED BY <3>1, <3>3, <3>4
  <2>4. CASE q # p
    <3>1. asked'[q] = asked[q] /\ timer'[q] = timer[q] BY <1>1, <2>1, <2>3, <2>4
    <3> QED BY <1>4, <2>1, <3>1
  <2>5. CASE q = p
    <3>1. UNCHANGED <<events, list>> /\ current'[q] = current[q] BY <2>1
    <3>2. /\ Youngest(asked'[q], shown'[q]).of = current'[q]
          /\ Youngest(asked'[q], shown'[q]).version = Unanswered
      BY <2>3, <2>5, <3>1
    <3> QED BY <1>0, <3>1, <3>2, RefreshedByAsking
  <2> QED BY <2>4, <2>5
<1>14. ASSUME NEW p \in Pages, NEW i \in Investigations, Click(p, i) PROVE RefreshedAt(q)'
  <2>1. /\ current' = [current EXCEPT ![p] = i] /\ Ask(p, i, TRUE)
        /\ UNCHANGED <<events, list, source, timer, shown>>
    BY <1>14 DEF Click, hostVars
  <2>2. /\ \A sh : /\ Youngest(asked'[p], sh).of = i
                   /\ Youngest(asked'[p], sh).version = Unanswered
        /\ \A r \in Pages \ {p} : asked'[r] = asked[r]
    BY <1>0, <2>1, AskTyped
  <2>3. CASE q # p
    <3>1. asked'[q] = asked[q] /\ current'[q] = current[q] BY <1>1, <2>1, <2>2, <2>3
    <3> QED BY <1>4, <2>1, <3>1
  <2>4. CASE q = p
    <3>1. UNCHANGED <<events, list>> /\ current'[q] = i BY <1>1, <2>1, <2>4
    <3>2. /\ Youngest(asked'[q], shown'[q]).of = current'[q]
          /\ Youngest(asked'[q], shown'[q]).version = Unanswered
      BY <2>2, <2>4, <3>1
    <3> QED BY <1>0, <3>1, <3>2, RefreshedByAsking
  <2> QED BY <2>3, <2>4
<1>15. ASSUME NEW p \in Pages, NEW k \in DOMAIN asked[p], Answer(p, k) PROVE RefreshedAt(q)'
  <2>1. PICK v : v = version[asked[p][k].of] OBVIOUS
  <2>2. /\ asked' = [asked EXCEPT ![p] = Told(asked[p], k, v)]
        /\ UNCHANGED <<events, list, source, current, timer, shown>>
    BY <1>15, <2>1 DEF Answer, Told, hostVars
  <2>3. CASE q # p
    <3>1. asked'[q] = asked[q] BY <1>1, <2>2, <2>3
    <3> QED BY <1>4, <2>2, <3>1
  <2>4. CASE q = p
    <3>1. PICK a : a = asked[p] OBVIOUS
    <3>2. a \in Seq(Request) /\ a[k].of \in Investigations BY <1>0, <3>1, PageFacts
    <3>3. v \in 0 .. Unanswered /\ v \in Nat
      <4>1. v \in 0 .. MaxChanges BY <1>0, <2>1, <3>1, <3>2 DEF TypeOK
      <4> QED BY <1>0, <4>1, YoungestTyped
    <3>4. PICK z : z = Youngest(Told(a, k, v), shown[q]) OBVIOUS
    <3>5. PICK y : y = Youngest(a, shown[q]) OBVIOUS
    <3>6. z.of = y.of /\ z.late = y.late
          /\ ((z.version = v /\ y.of = a[k].of) \/ z.version = y.version)
      BY <3>1, <3>2, <3>3, <3>4, <3>5, YoungestAnswered
    <3>7. asked'[q] = Told(a, k, v) BY <1>1, <2>2, <2>4, <3>1
    <3>8. z = Youngest(asked'[q], shown'[q]) /\ y = Youngest(asked[q], shown[q])
      BY <2>2, <2>4, <3>1, <3>4, <3>5, <3>7
    <3>9. /\ y.late \/ y.of = current[q]
          /\ source[q] = current[q] =>
               \A n \in DOMAIN list[q] : timer[q] \/ y.late \/ y.version >= events[list[q][n]].version
      BY <1>3, <3>8 DEF RefreshedAt
    <3>10. ASSUME source[q] = current[q], NEW n \in DOMAIN list[q], ~timer[q], ~z.late
           PROVE  z.version >= events[list[q][n]].version
      <4>1. y.version >= events[list[q][n]].version BY <3>6, <3>9, <3>10
      <4>2. CASE z.version = y.version BY <4>1, <4>2
      <4>3. CASE z.version = v /\ y.of = a[k].of
        <5>1. y.of = source[q] BY <3>6, <3>9, <3>10
        <5>2. PICK m : m = list[q][n] OBVIOUS
        <5>3. m \in DOMAIN events /\ events[m].stream = source[q] /\ events[m].version \in 0 .. MaxChanges
          BY <1>0, <3>10, <5>2, ListFacts
        <5>4. events[m].version <= version[events[m].stream] BY <1>0, <5>3 DEF PublishedAfter
        <5>5. version[events[m].stream] = v BY <2>1, <3>1, <4>3, <5>1, <5>3
        <5>6. events[m].version <= v BY <5>4, <5>5
        <5>7. PICK x : x = events[m].version OBVIOUS
        <5>8. x \in Nat /\ x <= v
          <6>1. MaxChanges \in Nat BY <1>0, YoungestTyped
          <6> QED BY <5>3, <5>6, <5>7, <6>1
        <5>9. v >= x BY <3>3, <5>8
        <5> QED BY <4>3, <5>2, <5>7, <5>9
      <4> QED BY <3>6, <4>2, <4>3
    <3>11. /\ z.late \/ z.of = current[q]
           /\ source[q] = current[q] =>
                \A n \in DOMAIN list[q] : timer[q] \/ z.late \/ z.version >= events[list[q][n]].version
      BY <3>6, <3>9, <3>10
    <3> QED BY <2>2, <3>8, <3>11 DEF RefreshedAt
  <2> QED BY <2>3, <2>4
<1>16. ASSUME NEW p \in Pages, NEW k \in DOMAIN asked[p], Fail(p, k) PROVE Same
  <2>1. /\ Done(p, k) /\ shown' = [shown EXCEPT ![p].late = TRUE]
        /\ UNCHANGED <<list, source, current, timer>>
    BY <1>16 DEF Fail, hostVars
  <2>2. asked'[p] = Over(asked[p], k) /\ \A r \in Pages \ {p} : asked'[r] = asked[r]
    BY <1>0, <2>1, DoneTyped
  <2>3. CASE q # p
    <3>1. asked'[q] = asked[q] /\ shown'[q] = shown[q] BY <1>1, <2>1, <2>2, <2>3
    <3> QED BY <2>1, <3>1
  <2>4. CASE q = p
    <3>1. shown'[q].late BY <1>1, <2>1, <2>4
    <3>2. PICK after : after = shown'[q] OBVIOUS
    <3>3. \/ Youngest(Over(asked[q], k), after).late
          \/ Youngest(Over(asked[q], k), after) = Youngest(asked[q], shown[q])
      BY <1>0, <2>4, <3>1, <3>2, WordWhenOver
    <3> QED BY <2>1, <2>2, <2>4, <3>2, <3>3
  <2> QED BY <2>3, <2>4
<1>17. ASSUME NEW p \in Pages, NEW k \in DOMAIN asked[p], Arrive(p, k) PROVE RefreshedAt(q)'
  <2>1. PICK r : r = [of |-> asked[p][k].of, version |-> asked[p][k].answer,
                      late |-> asked[p][k].late]
    OBVIOUS
  <2>2. /\ Done(p, k) /\ shown' = [shown EXCEPT ![p] = r]
        /\ UNCHANGED <<events, current, timer>>
        /\ Subscribe(p, asked[p][k].of) \/ UNCHANGED <<source, link, wire, list>>
    BY <1>17, <2>1 DEF Arrive, hostVars
  <2>3. asked'[p] = Over(asked[p], k) /\ \A s \in Pages \ {p} : asked'[s] = asked[s]
    BY <1>0, <2>2, DoneTyped
  <2>4. CASE q # p
    <3>1. asked'[q] = asked[q] /\ shown'[q] = shown[q] BY <1>1, <2>2, <2>3, <2>4
    <3>2. list'[q] = list[q] /\ source'[q] = source[q] BY <1>1, <2>2, <2>4 DEF Subscribe
    <3> QED BY <1>4, <2>2, <3>1, <3>2
  <2>5. CASE q = p
    <3>1. shown'[q] = r BY <1>1, <2>2, <2>5
    <3>2. \/ Youngest(Over(asked[q], k), r).late
          \/ Youngest(Over(asked[q], k), r) = Youngest(asked[q], shown[q])
      BY <1>0, <2>1, <2>5, WordWhenOver
    <3>3. \/ Youngest(asked'[q], shown'[q]).late
          \/ Youngest(asked'[q], shown'[q]) = Youngest(asked[q], shown[q])
      BY <2>3, <2>5, <3>1, <3>2
    <3>4. CASE UNCHANGED <<source, link, wire, list>> BY <1>4, <2>2, <3>3, <3>4
    <3>5. CASE Subscribe(p, asked[p][k].of)
      <4>1. list'[q] = <<>> BY <1>1, <2>5, <3>5 DEF Subscribe
      <4>2. DOMAIN list'[q] = {} BY <4>1
      <4>3. PICK z : z = Youngest(asked'[q], shown'[q]) OBVIOUS
      <4>4. Youngest(asked[q], shown[q]).late \/ Youngest(asked[q], shown[q]).of = current[q]
        BY <1>3 DEF RefreshedAt
      <4>5. z.late \/ z.of = current'[q] BY <2>2, <3>3, <4>3, <4>4
      <4> QED BY <4>2, <4>3, <4>5 DEF RefreshedAt
    <3> QED BY <2>2, <3>4, <3>5
  <2> QED BY <2>4, <2>5
<1> HIDE DEF Same
<1> QED BY <1>4, <1>6, <1>7, <1>8, <1>9, <1>10, <1>11, <1>12, <1>13, <1>14, <1>15, <1>16,
           <1>17 DEF Next

-----------------------------------------------------------------------------
(* The theorems.                                                           *)

\* The invariant holds at the start.
LEMMA InitInvariant == Init => IInv
<1> SUFFICES ASSUME Init PROVE IInv OBVIOUS
<1>1. {ReplayLimit, MaxEvents, MaxChanges, MaxClicks, MaxFaults, MaxAsked} \subseteq Nat
  BY DEF EventStreamAssumption
<1>2. events = <<>> /\ \A p \in Pages : asked[p] = <<>> /\ list[p] = <<>> /\ wire[p] = <<>>
  BY DEF Init
<1>3. DOMAIN <<>> = {} /\ Len(<<>>) = 0 /\ \A S : <<>> \in Seq(S) BY EmptySeq
<1>4. TypeOK
  <2>1. /\ hostUp \in BOOLEAN /\ faults \in 0 .. MaxFaults
        /\ version \in [Investigations -> 0 .. MaxChanges]
        /\ clicks \in [Pages -> 0 .. MaxClicks] /\ timer \in [Pages -> BOOLEAN]
        /\ link \in [Pages -> {"closed", "lost", "open"}]
    BY <1>1 DEF Init
  <2>2. current \in [Pages -> Streams] /\ source \in [Pages -> Streams]
    BY DEF Init, Streams
  <2>3. shown \in [Pages -> [of : Streams, version : 0 .. MaxChanges, late : BOOLEAN]]
    BY <1>1 DEF Init, Streams
  <2>4. /\ wire \in [Pages -> Seq(Ids)] /\ list \in [Pages -> Seq(Ids)]
        /\ asked \in [Pages -> Seq(Request)]
    BY <1>3 DEF Init
  <2>5. /\ events \in Seq([stream : Investigations, version : 0 .. MaxChanges])
        /\ Len(events) <= MaxEvents
    BY <1>1, <1>2, <1>3
  <2>6. \A p \in Pages : Len(asked[p]) <= MaxAsked
    <3>1. \A p \in Pages : Len(asked[p]) = 0 BY <1>2, <1>3
    <3> QED BY <1>1, <3>1
  <2> QED BY <2>1, <2>2, <2>3, <2>4, <2>5, <2>6 DEF TypeOK
<1>5. FedPages
  <2> SUFFICES ASSUME NEW p \in Pages
               PROVE  Fed(list[p], wire[p], link[p] = "open", EventsOf(source[p]))
    BY DEF FedPages
  <2>1. PICK S : S = EventsOf(source[p]) OBVIOUS
  <2>2. S \subseteq Nat BY <1>4, <2>1, StreamFacts
  <2>3. Fed(<<>>, <<>>, FALSE, S) BY <2>2, FedNothing
  <2>4. (link[p] = "open") = FALSE BY DEF Init
  <2> QED BY <1>2, <2>1, <2>3, <2>4
<1>6. AtOne BY DEF Init, AtOne
<1>7. PublishedAfter BY <1>2, <1>3 DEF PublishedAfter
<1>8. Refreshed
  <2> SUFFICES ASSUME NEW p \in Pages PROVE RefreshedAt(p) BY DEF Refreshed
  <2>1. Youngest(asked[p], shown[p])
          = [of |-> shown[p].of, version |-> shown[p].version, late |-> shown[p].late]
    BY <1>2 DEF Youngest
  <2>2. shown[p].of = current[p] BY DEF Init
  <2>3. Youngest(asked[p], shown[p]).of = current[p] BY <2>1, <2>2
  <2>4. DOMAIN list[p] = {} BY <1>2, <1>3
  <2> QED BY <2>3, <2>4 DEF RefreshedAt
<1> QED BY <1>4, <1>5, <1>6, <1>7, <1>8 DEF IInv

\* Every step keeps it, conjunct by conjunct.
LEMMA StepInvariant == IInv /\ [Next]_vars => IInv'
<1> SUFFICES ASSUME IInv, [Next]_vars PROVE IInv' OBVIOUS
<1>1. TypeOK /\ FedPages /\ AtOne /\ PublishedAfter /\ Refreshed BY DEF IInv
<1>2. TypeOK'
  <2>1. CASE UNCHANGED vars BY <1>1, <2>1 DEF vars, hostVars, pageVars, TypeOK
  <2>2. CASE Next
    <3>1. CASE \/ \E i \in Investigations : \/ \E amount \in {0, 1} : Change(i, amount)
                                            \/ ChangeSilently(i)
               \/ HostCrash \/ HostRestart
               \/ \E p \in Pages : \E k \in DOMAIN asked[p] : Answer(p, k)
      BY <1>1, <3>1, HostTypeStep
    <3>2. ASSUME NEW p \in Pages,
                 \/ Connect(p) \/ Drop(p) \/ Receive(p)
                 \/ Acted(p) \/ RefreshFires(p)
                 \/ \E i \in Investigations : Click(p, i)
                 \/ \E k \in DOMAIN asked[p] : Arrive(p, k) \/ Fail(p, k)
          PROVE  TypeOK'
      BY <1>1, <3>2, PageTypeStep
    <3> QED BY <2>2, <3>1, <3>2 DEF Next
  <2> QED BY <2>1, <2>2
<1>3. FedPages' BY <1>1, FedStep
<1>4. AtOne' BY <1>1, AtOneStep
<1>5. PublishedAfter' BY <1>1, TableGrows
<1>6. Refreshed' BY RefreshedStep
<1> QED BY <1>2, <1>3, <1>4, <1>5, <1>6 DEF IInv

\* So it is an invariant of every behaviour.
LEMMA InvariantAlways == Spec => []IInv
BY InitInvariant, StepInvariant, PTL DEF Spec

\* What is under way to a page is of its stream and in order, behind what the page
\* has (openEventStream and subscribe).
THEOREM StreamInvariantHolds == Spec => []StreamInvariant
<1>1. IInv => StreamInvariant
  <2> SUFFICES ASSUME IInv PROVE StreamInvariant OBVIOUS
  <2>1. TypeOK /\ FedPages BY DEF IInv
  <2>2. ASSUME NEW p \in Pages
        PROVE  LET ids == list[p] \o wire[p] IN
               /\ \A n \in DOMAIN ids : events[ids[n]].stream = source[p]
               /\ \A m, n \in DOMAIN ids : m < n => ids[m] < ids[n]
               /\ link[p] # "open" => wire[p] = <<>>
    <3>1. PICK c : c = list[p] \o wire[p] OBVIOUS
    <3>2. Fed(list[p], wire[p], link[p] = "open", EventsOf(source[p])) BY <2>1 DEF FedPages
    <3>3. c \in Seq(EventsOf(source[p])) /\ Growing(c) /\ (link[p] # "open" => wire[p] = <<>>)
      BY <3>1, <3>2 DEF Fed
    <3>4. \A n \in DOMAIN c : c[n] \in EventsOf(source[p]) BY <3>3, LenProperties, ElementOfSeq
    <3>5. \A n \in DOMAIN c : events[c[n]].stream = source[p] BY <3>4 DEF EventsOf
    <3>6. \A m, n \in DOMAIN c : m < n => c[m] < c[n] BY <3>3 DEF Growing
    <3> QED BY <3>1, <3>3, <3>5, <3>6
  <2> QED BY <2>1, <2>2 DEF StreamInvariant
<1> QED BY <1>1, InvariantAlways, PTL

\* What a page of a stream that one replay can hold has been sent, and the stream.
LEMMA WholePage ==
  ASSUME TypeOK, FedPages, NEW p \in Pages, Whole(p)
  PROVE  /\ IsPrefix(list[p] \o wire[p], IdsOf(source[p]))
         /\ link[p] = "open" => list[p] \o wire[p] = IdsOf(source[p])
<1>1. PICK S : S = EventsOf(source[p]) OBVIOUS
<1>2. S \subseteq Nat /\ IsFiniteSet(S) BY <1>1, StreamFacts
<1>3. PICK c : c = list[p] \o wire[p] OBVIOUS
<1>4. Fed(list[p], wire[p], link[p] = "open", S) BY <1>1 DEF FedPages
<1>5. Cardinality(S) <= ReplayLimit BY <1>1 DEF Whole
<1>6. c \in Seq(S) /\ Growing(c) /\ Gapless(c, S) /\ (link[p] = "open" => Covers(c, S))
  BY <1>3, <1>4, <1>5 DEF Fed
<1>7. IsPrefix(c, InOrder(S)) BY <1>2, <1>6, PrefixOfInOrder
<1>8. link[p] = "open" => c = InOrder(S) BY <1>2, <1>6, CoveringIsInOrder
<1>9. IdsOf(source[p]) = InOrder(S) BY <1>1 DEF IdsOf
<1> QED BY <1>3, <1>7, <1>8, <1>9

\* A page has the first events of its stream, each once, and the rest is under way
\* while it is connected: EventStore.replay and subscribe leave nothing between them.
THEOREM NeitherLostNorRepeatedHolds == Spec => []NeitherLostNorRepeated
<1>1. IInv => NeitherLostNorRepeated BY WholePage DEF IInv, NeitherLostNorRepeated
<1> QED BY <1>1, InvariantAlways, PTL

\* A page at rest shows what was published last (refreshCurrent asks again after the
\* last event it has read, and events of the stream come after the subscription).
THEOREM PageAtRestIsCurrentHolds == Spec => []PageAtRestIsCurrent
<1>1. IInv => PageAtRestIsCurrent
  <2> SUFFICES ASSUME IInv, NEW p \in Pages,
                      link[p] = "open", wire[p] = <<>>, Whole(p),
                      ~timer[p], asked[p] = <<>>, ~shown[p].late,
                      source[p] = current[p], IdsOf(source[p]) # <<>>
               PROVE  /\ shown[p].of = current[p]
                      /\ shown[p].version >= events[Last(IdsOf(source[p]))].version
    BY DEF PageAtRestIsCurrent
  <2>1. TypeOK /\ FedPages /\ RefreshedAt(p) BY DEF IInv, Refreshed
  <2>2. list[p] = IdsOf(source[p])
    <3>1. list[p] \o wire[p] = IdsOf(source[p]) BY <2>1, WholePage
    <3>2. list[p] \in Seq(Ids) BY <2>1, PageFacts
    <3>3. list[p] \o <<>> = list[p] BY <3>2, ConcatEmptySeq
    <3> QED BY <3>1, <3>3
  <2>3. PICK l : l = list[p] OBVIOUS
  <2>4. Len(l) \in DOMAIN l /\ Last(IdsOf(source[p])) = l[Len(l)]
    <3>1. l \in Seq(Ids) /\ l # <<>> BY <2>1, <2>2, <2>3, PageFacts
    <3>2. Len(l) \in Nat \ {0} /\ DOMAIN l = 1 .. Len(l) BY <3>1, EmptySeq, LenProperties
    <3>3. Len(l) \in DOMAIN l BY <3>2
    <3> QED BY <2>2, <2>3, <3>3 DEF Last
  <2>5. PICK y : y = Youngest(asked[p], shown[p]) OBVIOUS
  <2>6. y = [of |-> shown[p].of, version |-> shown[p].version, late |-> shown[p].late]
    BY <2>5 DEF Youngest
  <2>7. y.of = shown[p].of /\ y.version = shown[p].version /\ y.late = shown[p].late BY <2>6
  <2>8. /\ y.late \/ y.of = current[p]
        /\ \A n \in DOMAIN list[p] : timer[p] \/ y.late \/ y.version >= events[list[p][n]].version
    BY <2>1, <2>5 DEF RefreshedAt
  <2>9. shown[p].of = current[p] BY <2>7, <2>8
  <2>10. shown[p].version >= events[l[Len(l)]].version BY <2>3, <2>4, <2>7, <2>8
  <2> QED BY <2>4, <2>9, <2>10
<1> QED BY <1>1, InvariantAlways, PTL
=============================================================================
