---------------------------- MODULE SequenceLemmas ----------------------------
(***************************************************************************)
(* Facts about numbers and sequences that the proofs of several components *)
(* rest on.  They are proved by the least exception: a claim about all     *)
(* natural numbers that fails somewhere fails at a least number.           *)
(***************************************************************************)
EXTENDS Integers, SequencesExt, SequenceTheorems, WellFoundedInduction, TLAPS

LEMMA LeastException ==
  ASSUME NEW S \in SUBSET Nat, S # {}
  PROVE  \E n \in S : \A m \in S : n <= m
<1>1. IsWellFoundedOn(OpToRel(<, Nat), Nat)
  BY NatLessThanWellFounded
<1>2. PICK n \in S : \A m \in S : ~ (<<m, n>> \in OpToRel(<, Nat))
  BY <1>1, WFMin
<1>3. \A m \in S : ~ (m < n)
  BY <1>2 DEF OpToRel
<1>4. QED
  BY <1>3
-------------------------------------------------------------------------------
(* What FlattenSeq computes on its way to the n-th sequence: partial[i] is   *)
(* the concatenation of the first i.                                        *)
Concatenates(partial, seqs, n) ==
  \A i \in 1..n : partial[i] = IF i = 1 THEN seqs[i] ELSE partial[i - 1] \o seqs[i]

LEMMA PartialSteps ==
  ASSUME NEW seqs, NEW n \in Nat, NEW p, Concatenates(p, seqs, n)
  PROVE  /\ \A i \in 1..n : i # 1 => p[i] = p[i - 1] \o seqs[i]
         /\ \A m \in 0..n : Concatenates(p, seqs, m)
<1>1. \A i \in 1..n : i # 1 => p[i] = p[i - 1] \o seqs[i]
  BY DEF Concatenates
<1>2. \A m \in 0..n : Concatenates(p, seqs, m)
  BY DEF Concatenates
<1>3. QED
  BY <1>1, <1>2

LEMMA PartialFirst ==
  ASSUME NEW seqs, NEW n \in Nat, n # 0, NEW p, Concatenates(p, seqs, n)
  PROVE  p[1] = seqs[1]
BY DEF Concatenates

LEMMA PartialUpTo ==
  ASSUME NEW S, NEW seqs \in Seq(Seq(S)), NEW n \in 0..Len(seqs)
  PROVE  \E partial \in [1..n -> Seq(S)] : Concatenates(partial, seqs, n)
<1> DEFINE Q == Seq(S)
           Upto(k, partial) == \A i \in 1..k :
             partial[i] = IF i = 1 THEN seqs[i] ELSE partial[i - 1] \o seqs[i]
           bad == {k \in 0..Len(seqs) : ~ \E partial \in [1..k -> Q] : Upto(k, partial)}
<1>1. ASSUME bad # {} PROVE FALSE
  <2>1. bad \in SUBSET Nat
    OBVIOUS
  <2>2. PICK k \in bad : \A m \in bad : k <= m
    <3> HIDE DEF bad
    <3>1. QED
      BY <1>1, <2>1, LeastException
  <2>3. k \in 0..Len(seqs) /\ ~ \E partial \in [1..k -> Q] : Upto(k, partial)
    BY <2>2
  <2>4. k # 0
    <3>1. [i \in 1..0 |-> <<>>] \in [1..0 -> Q] /\ Upto(0, [i \in 1..0 |-> <<>>])
      OBVIOUS
    <3>2. QED
      BY <2>3, <3>1
  <2>5. k - 1 \in 0..Len(seqs) /\ k - 1 \notin bad
    <3>1. Len(seqs) \in Nat
      BY LenProperties
    <3>2. k - 1 \in 0..Len(seqs) /\ ~ (k <= k - 1)
      BY <2>3, <2>4, <3>1
    <3> HIDE DEF bad
    <3>3. QED
      BY <2>2, <3>2
  <2>6. PICK shorter \in [1..(k - 1) -> Q] : Upto(k - 1, shorter)
    BY <2>5
  <2>7. k \in 1..Len(seqs)
    BY <2>3, <2>4
  <2>8. seqs[k] \in Q
    BY <2>7, ElementOfSeq
  <2>9. ASSUME k # 1 PROVE shorter[k - 1] \o seqs[k] \in Q
    <3>1. shorter[k - 1] \in Q
      BY <2>6, <2>7, <2>9
    <3>2. QED
      BY <2>8, <3>1, ConcatProperties
  <2> DEFINE longer == [i \in 1..k |-> IF i = k THEN IF i = 1 THEN seqs[i] ELSE shorter[i - 1] \o seqs[i]
                                               ELSE shorter[i]]
  <2>10. longer \in [1..k -> Q]
    <3> HIDE DEF Q
    <3>1. QED
      BY <2>6, <2>7, <2>8, <2>9
  <2>11. Upto(k, longer)
    <3> SUFFICES ASSUME NEW i \in 1..k
                 PROVE  longer[i] = IF i = 1 THEN seqs[i] ELSE longer[i - 1] \o seqs[i]
      OBVIOUS
    <3>1. CASE i = k
      <4>1. k # 1 => k - 1 \in 1..k /\ k - 1 # k
        BY <2>7
      <4>2. k # 1 => longer[k - 1] = shorter[k - 1]
        BY <4>1
      <4>3. QED
        BY <3>1, <4>2
    <3>2. CASE i # k
      <4>1. i \in 1..(k - 1) /\ (i # 1 => i - 1 \in 1..k /\ i - 1 # k)
        BY <2>7, <3>2
      <4>2. longer[i] = shorter[i] /\ (i # 1 => longer[i - 1] = shorter[i - 1])
        BY <3>2, <4>1
      <4>3. shorter[i] = IF i = 1 THEN seqs[i] ELSE shorter[i - 1] \o seqs[i]
        BY <2>6, <4>1
      <4>4. QED
        BY <4>2, <4>3
    <3>3. QED
      BY <3>1, <3>2
  <2>12. QED
    BY <2>3, <2>10, <2>11
<1>2. n \notin bad
  BY <1>1
<1>3. QED
  BY <1>2 DEF Concatenates

(* The first n sequences determine the first n partial results.            *)
Agree(s, t, n) == \A i \in 1..n : s[i] = t[i]
LEMMA PartialUnique ==
  ASSUME NEW n \in Nat, NEW s, NEW t, Agree(s, t, n),
         NEW p, Concatenates(p, s, n), NEW q, Concatenates(q, t, n)
  PROVE  Agree(p, q, n)
<1> DEFINE bad == {i \in 1..n : p[i] # q[i]}
<1>1. ASSUME bad # {} PROVE FALSE
  <2>1. bad \in SUBSET Nat
    OBVIOUS
  <2>2. PICK m \in bad : \A i \in bad : m <= i
    <3> HIDE DEF bad
    <3>1. QED
      BY <1>1, <2>1, LeastException
  <2>3. m \in 1..n /\ p[m] # q[m]
    BY <2>2
  <2>4. m # 1
    BY <2>3 DEF Concatenates, Agree
  <2>5. m - 1 \in 1..n /\ m - 1 \notin bad
    BY <2>2, <2>3, <2>4
  <2>6. p[m - 1] = q[m - 1]
    BY <2>5
  <2>7. p[m] = p[m - 1] \o s[m] /\ q[m] = q[m - 1] \o t[m]
    BY <2>3, <2>4 DEF Concatenates
  <2>8. QED
    BY <2>3, <2>6, <2>7 DEF Agree
<1>2. QED
  BY <1>1 DEF Agree

(* FlattenSeq is the last of the partial concatenations.                     *)
LEMMA FlattenPartial ==
  ASSUME NEW S, NEW seqs \in Seq(Seq(S)), Len(seqs) # 0
  PROVE  \E partial \in [1..Len(seqs) -> Seq(S)] :
           Concatenates(partial, seqs, Len(seqs)) /\ FlattenSeq(seqs) = partial[Len(seqs)]
<1>1. Len(seqs) \in Nat /\ Len(seqs) \in 0..Len(seqs)
  BY LenProperties
<1>2. PICK partial \in [1..Len(seqs) -> Seq(S)] : Concatenates(partial, seqs, Len(seqs))
  BY <1>1, PartialUpTo
<1> DEFINE Step(f, i) == IF i = 1 THEN seqs[i] ELSE f[i - 1] \o seqs[i]
           IsIt(f) == f = [i \in 1..Len(seqs) |-> Step(f, i)]
           it == CHOOSE f : IsIt(f)
<1>3. IsIt(partial)
  BY <1>2 DEF Concatenates
<1>4. IsIt(it)
  BY <1>3
<1>5. FlattenSeq(seqs) = it[Len(seqs)]
  BY DEF FlattenSeq
<1>6. \A i \in 1..Len(seqs) : it[i] = Step(it, i)
  BY <1>4
<1> HIDE DEF it
<1>7. Concatenates(it, seqs, Len(seqs))
  BY <1>6 DEF Concatenates
<1>8. it[Len(seqs)] = partial[Len(seqs)]
  <2>1. Len(seqs) \in 1..Len(seqs)
    BY <1>1
  <2>2. Agree(seqs, seqs, Len(seqs))
    BY DEF Agree
  <2>3. Agree(it, partial, Len(seqs))
    BY <1>1, <1>2, <1>7, <2>2, PartialUnique
  <2>4. QED
    BY <2>1, <2>3 DEF Agree
<1>9. QED
  BY <1>2, <1>5, <1>8

LEMMA FlattenEmpty == FlattenSeq(<<>>) = <<>>
BY EmptySeq DEF FlattenSeq

LEMMA FlattenType ==
  ASSUME NEW S, NEW seqs \in Seq(Seq(S))
  PROVE  FlattenSeq(seqs) \in Seq(S)
<1>1. CASE Len(seqs) = 0
  <2>1. seqs = <<>>
    BY <1>1, EmptySeq
  <2>2. QED
    BY <2>1, FlattenEmpty, EmptySeq
<1>2. CASE Len(seqs) # 0
  <2>1. Len(seqs) \in 1..Len(seqs)
    BY <1>2, LenProperties
  <2>2. PICK partial \in [1..Len(seqs) -> Seq(S)] : FlattenSeq(seqs) = partial[Len(seqs)]
    BY <1>2, FlattenPartial
  <2>3. QED
    BY <2>1, <2>2
<1>3. QED
  BY <1>1, <1>2

(* Leaving out the first sequence drops it from every partial result.        *)
Follows(t, s, n) == \A i \in 1..n : t[i] = s[i + 1]
Prefixed(p, first, q, n) == \A i \in 1..n : p[i + 1] = first \o q[i]
LEMMA PartialShift ==
  ASSUME NEW S, NEW n \in Nat, NEW s, NEW t \in Seq(Seq(S)), Len(t) = n, Follows(t, s, n),
         s[1] \in Seq(S),
         NEW p, Concatenates(p, s, n + 1),
         NEW q \in [1..n -> Seq(S)], Concatenates(q, t, n)
  PROVE  Prefixed(p, s[1], q, n)
<1>1. n + 1 \in Nat /\ n + 1 # 0
  OBVIOUS
<1>2. p[1] = s[1]
  BY <1>1, PartialFirst
<1> DEFINE bad == {i \in 1..n : p[i + 1] # s[1] \o q[i]}
<1>3. ASSUME bad # {} PROVE FALSE
  <2>1. bad \in SUBSET Nat
    OBVIOUS
  <2>2. PICK m \in Nat : m \in bad /\ \A i \in bad : m <= i
    <3> HIDE DEF bad
    <3>1. QED
      BY <1>3, <2>1, LeastException
  <2>3. m \in 1..n /\ p[m + 1] # s[1] \o q[m]
    BY <2>2
  <2>4. p[m + 1] = p[m] \o s[m + 1]
    <3>1. m + 1 \in 1..(n + 1) /\ m + 1 # 1 /\ (m + 1) - 1 = m
      BY <2>3
    <3>2. p[m + 1] = p[(m + 1) - 1] \o s[m + 1]
      BY <1>1, <3>1, PartialSteps
    <3>3. QED
      BY <3>1, <3>2
  <2>5. t[m] = s[m + 1] /\ t[m] \in Seq(S)
    <3>1. t[m] = s[m + 1]
      BY <2>3 DEF Follows
    <3>2. m \in 1..Len(t)
      BY <2>3
    <3>3. t[m] \in Seq(S)
      BY <3>2, ElementOfSeq
    <3>4. QED
      BY <3>1, <3>3
  <2>6. CASE m = 1
    <3>1. q[1] = t[1]
      <4>1. n # 0
        BY <2>3
      <4>2. QED
        BY <4>1, PartialFirst
    <3>2. QED
      BY <1>2, <2>3, <2>4, <2>5, <2>6, <3>1
  <2>7. CASE m # 1
    <3>1. m - 1 \in 1..n /\ (m - 1) + 1 = m /\ ~ (m <= m - 1)
      BY <2>3, <2>7
    <3>2. p[(m - 1) + 1] = s[1] \o q[m - 1]
      BY <2>2, <3>1
    <3>3. q[m] = q[m - 1] \o t[m]
      BY <2>3, <2>7, PartialSteps
    <3>4. q[m - 1] \in Seq(S)
      BY <3>1
    <3>5. (s[1] \o q[m - 1]) \o t[m] = s[1] \o (q[m - 1] \o t[m])
      <4> DEFINE a == s[1]
                 b == q[m - 1]
                 c == t[m]
      <4>1. a \in Seq(S) /\ b \in Seq(S) /\ c \in Seq(S)
        BY <2>5, <3>4
      <4> HIDE DEF a, b, c
      <4>2. (a \o b) \o c = a \o (b \o c)
        BY <4>1, ConcatAssociative
      <4>3. QED
        BY <4>2 DEF a, b, c
    <3>6. QED
      BY <2>3, <2>4, <2>5, <3>1, <3>2, <3>3, <3>5
  <2>8. QED
    BY <2>6, <2>7
<1>4. QED
  BY <1>3 DEF Prefixed

LEMMA FlattenAppend ==
  ASSUME NEW S, NEW seqs \in Seq(Seq(S)), NEW e \in Seq(S)
  PROVE  FlattenSeq(Append(seqs, e)) = FlattenSeq(seqs) \o e
<1> DEFINE n == Len(seqs)
           more == Append(seqs, e)
<1>1. n \in Nat
  BY LenProperties
<1>2. /\ more \in Seq(Seq(S)) /\ Len(more) = n + 1
      /\ \A i \in 1..n : more[i] = seqs[i]
      /\ more[n + 1] = e
  <2> DEFINE Q == Seq(S)
  <2>1. seqs \in Seq(Q) /\ e \in Q
    OBVIOUS
  <2> HIDE DEF Q
  <2>2. Append(seqs, e) \in Seq(Q)
    BY <2>1, AppendProperties
  <2>3. /\ Len(Append(seqs, e)) = Len(seqs) + 1
        /\ \A i \in 1..Len(seqs) : Append(seqs, e)[i] = seqs[i]
        /\ Append(seqs, e)[Len(seqs) + 1] = e
    BY <2>1, AppendProperties
  <2>4. QED
    BY <2>2, <2>3 DEF Q
<1> HIDE DEF more, n
<1>3. n + 1 \in Nat /\ n + 1 # 0
  BY <1>1
<1>4. PICK q \in [1..(n + 1) -> Seq(S)] :
        Concatenates(q, more, n + 1) /\ FlattenSeq(more) = q[n + 1]
  BY <1>2, <1>3, FlattenPartial
<1>5. CASE n = 0
  <2>1. FlattenSeq(more) = e
    <3>1. q[1] = more[1]
      BY <1>3, <1>4, PartialFirst
    <3>2. QED
      BY <1>2, <1>4, <1>5, <3>1
  <2>2. FlattenSeq(seqs) = <<>>
    BY <1>5, EmptySeq, FlattenEmpty DEF n
  <2>3. QED
    BY <2>1, <2>2, ConcatEmptySeq DEF more
<1>6. CASE n # 0
  <2>1. PICK p \in [1..n -> Seq(S)] : Concatenates(p, seqs, n) /\ FlattenSeq(seqs) = p[n]
    BY <1>6, FlattenPartial DEF n
  <2>2. Concatenates(q, more, n)
    <3>1. n \in 0..(n + 1)
      BY <1>1
    <3>2. QED
      BY <1>3, <1>4, <3>1, PartialSteps
  <2>3. Agree(p, q, n)
    <3>1. Agree(seqs, more, n)
      BY <1>2 DEF Agree
    <3>2. QED
      BY <1>1, <2>1, <2>2, <3>1, PartialUnique
  <2>4. n \in 1..n
    BY <1>1, <1>6
  <2>5. p[n] = q[n]
    BY <2>3, <2>4 DEF Agree
  <2>6. q[n + 1] = q[n] \o e
    <3>1. n + 1 \in 1..(n + 1) /\ n + 1 # 1 /\ (n + 1) - 1 = n
      BY <1>1, <1>6
    <3>2. q[n + 1] = q[(n + 1) - 1] \o more[n + 1]
      BY <1>3, <1>4, <3>1, PartialSteps
    <3>3. QED
      BY <1>2, <3>1, <3>2
  <2>7. QED
    BY <1>2, <1>4, <2>1, <2>5, <2>6 DEF more
<1>7. QED
  BY <1>5, <1>6

LEMMA FlattenHeadTail ==
  ASSUME NEW S, NEW seqs \in Seq(Seq(S)), seqs # <<>>
  PROVE  FlattenSeq(seqs) = Head(seqs) \o FlattenSeq(Tail(seqs))
<1> DEFINE n == Len(seqs) - 1
           rest == Tail(seqs)
<1>1. n \in Nat /\ Len(seqs) = n + 1 /\ n + 1 # 0
  <2>1. Len(seqs) \in Nat \ {0}
    BY EmptySeq
  <2>2. QED
    BY <2>1
<1>2. /\ rest \in Seq(Seq(S)) /\ Len(rest) = n
      /\ \A i \in 1..n : rest[i] = seqs[i + 1]
      /\ Head(seqs) = seqs[1] /\ seqs[1] \in Seq(S)
  <2> DEFINE Q == Seq(S)
  <2>1. seqs \in Seq(Q)
    OBVIOUS
  <2> HIDE DEF Q
  <2>2. Tail(seqs) \in Seq(Q) /\ Head(seqs) \in Q /\ Head(seqs) = seqs[1]
    BY <2>1, HeadTailProperties
  <2>3. /\ Len(Tail(seqs)) = Len(seqs) - 1
        /\ \A i \in 1..Len(Tail(seqs)) : Tail(seqs)[i] = seqs[i + 1]
    BY <2>1, HeadTailProperties
  <2>4. QED
    BY <2>2, <2>3 DEF Q
<1> HIDE DEF rest, n
<1>3. PICK p \in [1..(n + 1) -> Seq(S)] : Concatenates(p, seqs, n + 1) /\ FlattenSeq(seqs) = p[n + 1]
  BY <1>1, FlattenPartial
<1>4. CASE n = 0
  <2>1. p[1] = seqs[1]
    <3>1. n + 1 \in Nat
      BY <1>1
    <3>2. QED
      BY <1>1, <1>3, <3>1, PartialFirst
  <2>2. rest = <<>>
    BY <1>2, <1>4, EmptySeq
  <2>3. seqs[1] \o <<>> = seqs[1]
    BY <1>2, ConcatEmptySeq
  <2>4. FlattenSeq(rest) = <<>>
    BY <2>2, FlattenEmpty
  <2>5. FlattenSeq(seqs) = seqs[1]
    BY <1>3, <1>4, <2>1
  <2>6. QED
    BY <1>2, <2>3, <2>4, <2>5 DEF rest
<1>5. CASE n # 0
  <2>1. PICK q \in [1..n -> Seq(S)] : Concatenates(q, rest, n) /\ FlattenSeq(rest) = q[n]
    BY <1>2, <1>5, FlattenPartial
  <2>2. Follows(rest, seqs, n)
    BY <1>2 DEF Follows
  <2>3. Prefixed(p, seqs[1], q, n)
    BY <1>1, <1>2, <1>3, <2>1, <2>2, PartialShift
  <2>4. n \in 1..n
    BY <1>1, <1>5
  <2>5. p[n + 1] = seqs[1] \o q[n]
    BY <2>3, <2>4 DEF Prefixed
  <2>6. QED
    BY <1>2, <1>3, <2>1, <2>5 DEF rest
<1>6. QED
  BY <1>4, <1>5

-------------------------------------------------------------------------------
(* Queues: what is at either end.                                           *)
LEMMA LastFrontAppend ==
  ASSUME NEW S, NEW s \in Seq(S), NEW e \in S
  PROVE  Last(Append(s, e)) = e /\ Front(Append(s, e)) = s
<1> DEFINE t == Append(s, e)
<1>1. t \in Seq(S) /\ Len(t) = Len(s) + 1 /\ Len(s) \in Nat
  BY AppendProperties, LenProperties
<1>2. (\A i \in 1..Len(s) : t[i] = s[i]) /\ t[Len(s) + 1] = e
  BY AppendProperties
<1> HIDE DEF t
<1>3. Last(t) = e
  BY <1>1, <1>2 DEF Last
<1>4. \A i \in 1..(Len(t) - 1) : t[i] \in S
  BY <1>1, ElementOfSeq
<1>5. Front(t) = s
  <2>1. /\ SubSeq(t, 1, Len(t) - 1) \in Seq(S)
        /\ Len(SubSeq(t, 1, Len(t) - 1)) = Len(s)
        /\ \A i \in 1..Len(s) : SubSeq(t, 1, Len(t) - 1)[i] = t[i]
    <3>1. Len(t) - 1 \in Int /\ Len(t) - 1 = Len(s)
      BY <1>1
    <3>2. /\ SubSeq(t, 1, Len(t) - 1) \in Seq(S)
          /\ Len(SubSeq(t, 1, Len(t) - 1)) = IF 1 <= Len(t) - 1 THEN (Len(t) - 1) - 1 + 1 ELSE 0
          /\ \A i \in 1..((Len(t) - 1) - 1 + 1) : SubSeq(t, 1, Len(t) - 1)[i] = t[1 + i - 1]
      BY <1>4, <3>1, SubSeqProperties
    <3>3. QED
      BY <1>1, <3>2
  <2>2. QED
    BY <1>2, <2>1, SeqEqual DEF Front
<1>6. QED
  BY <1>3, <1>5 DEF t

LEMMA HeadTailConcat ==
  ASSUME NEW S, NEW s \in Seq(S), s # <<>>, NEW t \in Seq(S)
  PROVE  /\ s \o t \in Seq(S) /\ s \o t # <<>>
         /\ Head(s \o t) = Head(s)
         /\ Tail(s \o t) = Tail(s) \o t
<1>1. /\ Len(s) \in Nat \ {0} /\ Len(t) \in Nat
      /\ Tail(s) \in Seq(S) /\ Len(Tail(s)) = Len(s) - 1
      /\ \A i \in 1..Len(Tail(s)) : Tail(s)[i] = s[i + 1]
  BY EmptySeq, LenProperties, HeadTailProperties
<1> DEFINE u == s \o t
           v == Tail(s) \o t
<1>2. /\ u \in Seq(S) /\ Len(u) = Len(s) + Len(t)
      /\ \A i \in 1..Len(s) + Len(t) : u[i] = IF i <= Len(s) THEN s[i] ELSE t[i - Len(s)]
  BY ConcatProperties
<1>3. /\ v \in Seq(S) /\ Len(v) = Len(s) - 1 + Len(t)
      /\ \A i \in 1..(Len(s) - 1) + Len(t) :
           v[i] = IF i <= Len(s) - 1 THEN Tail(s)[i] ELSE t[i - (Len(s) - 1)]
  BY <1>1, ConcatProperties
<1> HIDE DEF u, v
<1>4. u # <<>>
  BY <1>1, <1>2, EmptySeq
<1>5. Head(u) = Head(s)
  BY <1>1, <1>2
<1>6. /\ Tail(u) \in Seq(S) /\ Len(Tail(u)) = Len(u) - 1
      /\ \A i \in 1..Len(Tail(u)) : Tail(u)[i] = u[i + 1]
  BY <1>2, <1>4, HeadTailProperties
<1>7. Tail(u) = v
  <2>1. Len(Tail(u)) = Len(v)
    BY <1>1, <1>2, <1>3, <1>6
  <2>2. ASSUME NEW i \in 1..Len(Tail(u)) PROVE Tail(u)[i] = v[i]
    <3>1. i + 1 \in 1..Len(s) + Len(t) /\ i \in 1..(Len(s) - 1) + Len(t)
      BY <1>1, <1>2, <1>6
    <3>2. Tail(u)[i] = u[i + 1]
      BY <1>6
    <3>3. CASE i <= Len(s) - 1
      <4>1. i + 1 <= Len(s) /\ i \in 1..Len(Tail(s))
        BY <1>1, <3>3
      <4>2. QED
        BY <1>1, <1>2, <1>3, <3>1, <3>2, <3>3, <4>1
    <3>4. CASE ~ (i <= Len(s) - 1)
      <4>1. ~ (i + 1 <= Len(s)) /\ (i + 1) - Len(s) = i - (Len(s) - 1)
        BY <1>1, <3>4
      <4>2. QED
        BY <1>2, <1>3, <3>1, <3>2, <3>4, <4>1
    <3>5. QED
      BY <3>3, <3>4
  <2>3. QED
    BY <1>3, <1>6, <2>1, <2>2, SeqEqual
<1>8. QED
  BY <1>2, <1>4, <1>5, <1>7 DEF u, v

LEMMA HeadTailCons ==
  ASSUME NEW S, NEW x \in S, NEW s \in Seq(S)
  PROVE  /\ <<x>> \o s \in Seq(S) /\ <<x>> \o s # <<>>
         /\ Head(<<x>> \o s) = x /\ Tail(<<x>> \o s) = s
<1>1. <<x>> \in Seq(S) /\ <<x>> # <<>> /\ Head(<<x>>) = x /\ Tail(<<x>>) = <<>>
  OBVIOUS
<1>2. <<>> \o s = s
  BY ConcatEmptySeq
<1>3. QED
  BY <1>1, <1>2, HeadTailConcat

LEMMA ConsHeadTail ==
  ASSUME NEW S, NEW s \in Seq(S), s # <<>>
  PROVE  s = <<Head(s)>> \o Tail(s)
<1>1. /\ Len(s) \in Nat \ {0} /\ Head(s) \in S /\ Head(s) = s[1]
      /\ Tail(s) \in Seq(S) /\ Len(Tail(s)) = Len(s) - 1
      /\ \A i \in 1..Len(Tail(s)) : Tail(s)[i] = s[i + 1]
  BY EmptySeq, HeadTailProperties
<1> DEFINE h == <<Head(s)>>
           u == h \o Tail(s)
<1>2. h \in Seq(S) /\ Len(h) = 1 /\ h[1] = s[1]
  BY <1>1
<1> HIDE DEF h
<1>3. /\ u \in Seq(S) /\ Len(u) = Len(h) + Len(Tail(s))
      /\ \A i \in 1..Len(h) + Len(Tail(s)) :
           u[i] = IF i <= Len(h) THEN h[i] ELSE Tail(s)[i - Len(h)]
  BY <1>1, <1>2, ConcatProperties
<1> HIDE DEF u
<1>4. ASSUME NEW i \in 1..Len(s) PROVE s[i] = u[i]
  <2>1. i \in 1..Len(h) + Len(Tail(s))
    BY <1>1, <1>2
  <2>2. CASE i = 1
    BY <1>2, <1>3, <2>1, <2>2
  <2>3. CASE i # 1
    <3>1. ~ (i <= Len(h)) /\ i - Len(h) \in 1..Len(Tail(s)) /\ (i - Len(h)) + 1 = i
      BY <1>1, <1>2, <2>3
    <3>2. QED
      BY <1>1, <1>3, <2>1, <3>1
  <2>4. QED
    BY <2>2, <2>3
<1>5. Len(u) = Len(s)
  BY <1>1, <1>2, <1>3
<1>6. s = u
  BY <1>3, <1>4, <1>5, SeqEqual
<1>7. QED
  BY <1>6 DEF u, h

(* The head of one sequence moves to the end of another.                    *)
LEMMA MoveHead ==
  ASSUME NEW S, NEW s \in Seq(S), NEW t \in Seq(S), t # <<>>
  PROVE  Append(s, Head(t)) \o Tail(t) = s \o t
<1>1. Head(t) \in S /\ Tail(t) \in Seq(S) /\ <<Head(t)>> \in Seq(S)
  BY HeadTailProperties
<1>2. t = <<Head(t)>> \o Tail(t)
  BY ConsHeadTail
<1>3. Append(s, Head(t)) = s \o <<Head(t)>>
  BY <1>1, AppendIsConcat
<1>4. (s \o <<Head(t)>>) \o Tail(t) = s \o (<<Head(t)>> \o Tail(t))
  BY <1>1, ConcatAssociative
<1>5. QED
  BY <1>2, <1>3, <1>4

(* Taking out the first element, or none.                                   *)
LEMMA RemoveFirstHead ==
  ASSUME NEW S, NEW x \in S, NEW s \in Seq(S)
  PROVE  RemoveFirst(<<x>> \o s, x) = s
<1> DEFINE u == <<x>> \o s
           I == {i \in 1..Len(u) : u[i] = x}
           first == SelectInSeq(u, LAMBDA v : v = x)
<1>1. u \in Seq(S) /\ u # <<>> /\ Head(u) = x /\ Tail(u) = s
  BY HeadTailCons
<1>2. Len(u) \in Nat \ {0} /\ u[1] = x
  <2>1. u \in Seq(S)
    BY <1>1
  <2> HIDE DEF u
  <2>2. QED
    BY <1>1, <2>1, EmptySeq
<1> HIDE DEF u
<1>3. 1 \in I
  BY <1>2
<1>4. first = 1
  <2>1. first = Min(I)
    BY <1>3 DEF SelectInSeq
  <2>2. Min(I) \in I /\ \A y \in I : Min(I) <= y
    <3>1. \A y \in I : 1 <= y
      OBVIOUS
    <3>2. QED
      BY <1>3, <3>1 DEF Min
  <2>3. \A i \in I : i \in Nat /\ 1 <= i
    BY <1>2
  <2> HIDE DEF I, first
  <2>4. QED
    BY <1>3, <2>1, <2>2, <2>3
<1>5. RemoveFirst(u, x) = RemoveAt(u, 1)
  BY <1>3, <1>4 DEF RemoveFirst
<1>6. RemoveAt(u, 1) = Tail(u)
  <2>1. SubSeq(u, 1, 0) = <<>>
    <3>1. \A i \in 1..0 : u[i] \in S
      OBVIOUS
    <3>2. SubSeq(u, 1, 0) \in Seq(S) /\ Len(SubSeq(u, 1, 0)) = 0
      BY <3>1, SubSeqProperties
    <3>3. QED
      BY <3>2, EmptySeq
  <2>2. SubSeq(u, 2, Len(u)) = Tail(u)
    BY <1>1, <1>2, HeadTailProperties
  <2>3. Tail(u) \in Seq(S)
    BY <1>1, HeadTailProperties
  <2>4. <<>> \o Tail(u) = Tail(u)
    BY <2>3, ConcatEmptySeq
  <2>5. QED
    BY <2>1, <2>2, <2>4 DEF RemoveAt
<1>7. QED
  BY <1>1, <1>5, <1>6 DEF u

LEMMA RemoveFirstAbsent ==
  ASSUME NEW S, NEW s \in Seq(S), NEW x, x \notin S
  PROVE  RemoveFirst(s, x) = s
<1>1. \A i \in 1..Len(s) : s[i] \in S
  BY ElementOfSeq
<1>2. QED
  BY <1>1 DEF RemoveFirst

-------------------------------------------------------------------------------
(* Sequences element by element.                                            *)
Mapped(f, s) == [i \in DOMAIN s |-> f[s[i]]]
Maps(S, R) == [S -> R]

LEMMA MappedType ==
  ASSUME NEW S, NEW R, NEW f \in Maps(S, R), NEW s \in Seq(S)
  PROVE  /\ Mapped(f, s) \in Seq(R)
         /\ Len(Mapped(f, s)) = Len(s)
         /\ \A i \in 1..Len(s) : Mapped(f, s)[i] = f[s[i]]
<1>1. Len(s) \in Nat /\ DOMAIN s = 1..Len(s)
  BY LenProperties
<1>2. \A i \in 1..Len(s) : s[i] \in S
  BY ElementOfSeq
<1>3. Mapped(f, s) \in [1..Len(s) -> R]
  BY <1>1, <1>2 DEF Mapped, Maps
<1>4. Mapped(f, s) \in Seq(R) /\ Len(Mapped(f, s)) = Len(s)
  BY <1>1, <1>3, IsASeq, LenProperties
<1>5. QED
  BY <1>1, <1>4 DEF Mapped

LEMMA MappedAppend ==
  ASSUME NEW S, NEW R, NEW f \in Maps(S, R), NEW s \in Seq(S), NEW e \in S
  PROVE  Mapped(f, Append(s, e)) = Append(Mapped(f, s), f[e])
<1> DEFINE t == Append(s, e)
           m == Mapped(f, s)
           u == Append(m, f[e])
           v == Mapped(f, t)
<1>1. /\ t \in Seq(S) /\ Len(t) = Len(s) + 1 /\ Len(s) \in Nat
      /\ (\A i \in 1..Len(s) : t[i] = s[i]) /\ t[Len(s) + 1] = e
  BY AppendProperties, LenProperties
<1>2. /\ m \in Seq(R) /\ Len(m) = Len(s)
      /\ \A i \in 1..Len(s) : m[i] = f[s[i]]
  BY MappedType
<1> HIDE DEF m
<1>3. /\ u \in Seq(R) /\ Len(u) = Len(m) + 1
      /\ (\A i \in 1..Len(m) : u[i] = m[i]) /\ u[Len(m) + 1] = f[e]
  <2>1. f[e] \in R
    BY DEF Maps
  <2>2. QED
    BY <1>2, <2>1, AppendProperties
<1> HIDE DEF t, u
<1>4. /\ v \in Seq(R) /\ Len(v) = Len(t)
      /\ \A i \in 1..Len(t) : v[i] = f[t[i]]
  BY <1>1, MappedType
<1> HIDE DEF v
<1>5. Len(v) = Len(u)
  BY <1>1, <1>2, <1>3, <1>4
<1>6. ASSUME NEW i \in 1..Len(v) PROVE v[i] = u[i]
  <2>1. i \in 1..Len(t) /\ (i \in 1..Len(s) \/ i = Len(s) + 1)
    BY <1>1, <1>4
  <2>2. CASE i \in 1..Len(s)
    BY <1>1, <1>2, <1>3, <1>4, <2>1, <2>2
  <2>3. CASE i = Len(s) + 1
    BY <1>1, <1>2, <1>3, <1>4, <2>1, <2>3
  <2>4. QED
    BY <2>1, <2>2, <2>3
<1>7. v = u
  BY <1>3, <1>4, <1>5, <1>6, SeqEqual
<1>8. QED
  BY <1>7 DEF v, u, t, m

LEMMA MappedHeadTail ==
  ASSUME NEW S, NEW R, NEW f \in Maps(S, R), NEW s \in Seq(S), s # <<>>
  PROVE  /\ Mapped(f, s) # <<>>
         /\ Head(Mapped(f, s)) = f[Head(s)]
         /\ Tail(Mapped(f, s)) = Mapped(f, Tail(s))
<1> DEFINE m == Mapped(f, s)
           t == Tail(s)
           v == Mapped(f, t)
<1>1. /\ Len(s) \in Nat \ {0} /\ Head(s) = s[1]
      /\ t \in Seq(S) /\ Len(t) = Len(s) - 1
      /\ \A i \in 1..Len(t) : t[i] = s[i + 1]
  BY EmptySeq, HeadTailProperties
<1> HIDE DEF t
<1>2. /\ m \in Seq(R) /\ Len(m) = Len(s)
      /\ \A i \in 1..Len(s) : m[i] = f[s[i]]
  BY MappedType
<1>3. /\ v \in Seq(R) /\ Len(v) = Len(t)
      /\ \A i \in 1..Len(t) : v[i] = f[t[i]]
  BY <1>1, MappedType
<1> HIDE DEF m, v
<1>4. m # <<>>
  BY <1>1, <1>2, EmptySeq
<1>5. Head(m) = f[Head(s)]
  <2>1. Head(m) = m[1]
    BY <1>2, <1>4, HeadTailProperties
  <2>2. QED
    BY <1>1, <1>2, <2>1
<1>6. /\ Tail(m) \in Seq(R) /\ Len(Tail(m)) = Len(m) - 1
      /\ \A i \in 1..Len(Tail(m)) : Tail(m)[i] = m[i + 1]
  BY <1>2, <1>4, HeadTailProperties
<1>7. ASSUME NEW i \in 1..Len(Tail(m)) PROVE Tail(m)[i] = v[i]
  <2>1. i \in 1..Len(t) /\ i + 1 \in 1..Len(s)
    BY <1>1, <1>2, <1>6
  <2>2. Tail(m)[i] = m[i + 1] /\ m[i + 1] = f[s[i + 1]]
    BY <1>2, <1>6, <2>1
  <2>3. v[i] = f[t[i]] /\ t[i] = s[i + 1]
    BY <1>1, <1>3, <2>1
  <2>4. QED
    BY <2>2, <2>3
<1>8. Len(Tail(m)) = Len(v)
  BY <1>1, <1>2, <1>3, <1>6
<1>9. Tail(m) = v
  BY <1>3, <1>6, <1>7, <1>8, SeqEqual
<1>10. QED
  BY <1>4, <1>5, <1>9 DEF m, v, t

(* What becomes of the elements, one after the other.                       *)
LEMMA FlattenMapped ==
  ASSUME NEW S, NEW T, NEW f \in Maps(S, Seq(T)), NEW s \in Seq(S)
  PROVE  /\ FlattenSeq(Mapped(f, s)) \in Seq(T)
         /\ s = <<>> => FlattenSeq(Mapped(f, s)) = <<>>
         /\ \A e \in S : FlattenSeq(Mapped(f, Append(s, e))) = FlattenSeq(Mapped(f, s)) \o f[e]
         /\ s # <<>> => FlattenSeq(Mapped(f, s)) = f[Head(s)] \o FlattenSeq(Mapped(f, Tail(s)))
<1> DEFINE Q == Seq(T)
           m == Mapped(f, s)
<1>1. f \in Maps(S, Q)
  OBVIOUS
<1> HIDE DEF Q
<1>2. m \in Seq(Q) /\ Len(m) = Len(s)
  BY <1>1, MappedType
<1>3. m \in Seq(Seq(T))
  BY <1>2 DEF Q
<1>4. FlattenSeq(m) \in Seq(T)
  BY <1>3, FlattenType
<1>5. ASSUME s = <<>> PROVE FlattenSeq(m) = <<>>
  <2>1. m = <<>>
    BY <1>2, <1>5, EmptySeq
  <2>2. QED
    BY <2>1, FlattenEmpty
<1>6. ASSUME NEW e \in S PROVE FlattenSeq(Mapped(f, Append(s, e))) = FlattenSeq(m) \o f[e]
  <2>1. Mapped(f, Append(s, e)) = Append(m, f[e])
    BY <1>1, MappedAppend
  <2>2. f[e] \in Seq(T)
    BY DEF Maps
  <2> HIDE DEF m
  <2>3. FlattenSeq(Append(m, f[e])) = FlattenSeq(m) \o f[e]
    BY <1>3, <2>2, FlattenAppend
  <2>4. QED
    BY <2>1, <2>3
<1>7. ASSUME s # <<>> PROVE FlattenSeq(m) = f[Head(s)] \o FlattenSeq(Mapped(f, Tail(s)))
  <2>1. m # <<>> /\ Head(m) = f[Head(s)] /\ Tail(m) = Mapped(f, Tail(s))
    BY <1>1, <1>7, MappedHeadTail
  <2> HIDE DEF m
  <2>2. FlattenSeq(m) = Head(m) \o FlattenSeq(Tail(m))
    BY <1>3, <2>1, FlattenHeadTail
  <2>3. QED
    BY <2>1, <2>2
<1>8. QED
  BY <1>4, <1>5, <1>6, <1>7
===============================================================================
