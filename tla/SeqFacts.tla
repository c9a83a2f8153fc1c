------------------------------ MODULE SeqFacts ------------------------------
(***************************************************************************)
(* What the FIFO operations do to the set of a queue's elements, and that  *)
(* they keep the elements distinct: the facts that the proofs about queues *)
(* of connections, invocations and messages share.                         *)
(***************************************************************************)
EXTENDS Sequences, SequencesExt, SequenceTheorems, TLAPS

\* The elements of a sequence are of its set.
LEMMA ElementFacts == ASSUME NEW S, NEW s \in Seq(S) PROVE ToSet(s) \subseteq S
  BY ElementOfSeq, LenProperties DEF ToSet

\* An element put into a queue joins its elements.
LEMMA AppendFacts ==
  ASSUME NEW S, NEW s \in Seq(S), NEW e \in S
  PROVE  /\ Append(s, e) \in Seq(S)
         /\ ToSet(Append(s, e)) = ToSet(s) \cup {e}
         /\ IsInjective(s) /\ e \notin ToSet(s) => IsInjective(Append(s, e))
<1> DEFINE a == Append(s, e)
<1>1. /\ a \in Seq(S) /\ Len(a) = Len(s) + 1 /\ a[Len(s) + 1] = e
      /\ \A i \in 1..Len(s) : a[i] = s[i]
  BY AppendProperties
<1>2. DOMAIN s = 1..Len(s) /\ DOMAIN a = 1..(Len(s) + 1) /\ Len(s) \in Nat
  BY <1>1, LenProperties
<1> HIDE DEF a
<1>3. \A x : x \in ToSet(a) <=> x \in ToSet(s) \/ x = e
  BY <1>1, <1>2 DEF ToSet
<1>4. IsInjective(s) /\ e \notin ToSet(s) => IsInjective(a)
  BY <1>1, <1>2 DEF ToSet, IsInjective
<1> QED
  BY <1>1, <1>3, <1>4 DEF a

\* The head leaves the queue, and when the elements were distinct it is gone.
LEMMA TailFacts ==
  ASSUME NEW S, NEW s \in Seq(S), s # <<>>
  PROVE  /\ Head(s) \in S /\ Tail(s) \in Seq(S)
         /\ ToSet(s) = {Head(s)} \cup ToSet(Tail(s))
         /\ IsInjective(s) => IsInjective(Tail(s)) /\ Head(s) \notin ToSet(Tail(s))
<1> DEFINE t == Tail(s)
<1>1. /\ t \in Seq(S) /\ Head(s) \in S /\ Len(t) = Len(s) - 1
      /\ \A i \in 1..Len(t) : t[i] = s[i + 1]
  BY HeadTailProperties
<1>2. Len(s) \in Nat \ {0} /\ Head(s) = s[1]
  BY EmptySeq
<1>3. DOMAIN s = 1..Len(s) /\ DOMAIN t = 1..(Len(s) - 1)
  BY <1>1, LenProperties
<1> HIDE DEF t
<1>4. \A x : x \in ToSet(s) <=> x = Head(s) \/ x \in ToSet(t)
  <2>1. \A i \in 1..Len(s) : i = 1 \/ (i - 1 \in 1..(Len(s) - 1) /\ t[i - 1] = s[i])
    BY <1>1, <1>2
  <2>2. \A i \in 1..(Len(s) - 1) : i + 1 \in 1..Len(s) /\ t[i] = s[i + 1]
    BY <1>1, <1>2
  <2>3. 1 \in 1..Len(s)
    BY <1>2
  <2>4. ToSet(s) = {s[i] : i \in 1..Len(s)} /\ ToSet(t) = {t[i] : i \in 1..(Len(s) - 1)}
    BY <1>3 DEF ToSet
  <2>5. ASSUME NEW x \in ToSet(s) PROVE x = Head(s) \/ x \in ToSet(t)
    BY <1>2, <2>1, <2>4
  <2>6. ASSUME NEW x, x = Head(s) \/ x \in ToSet(t) PROVE x \in ToSet(s)
    BY <1>2, <2>2, <2>3, <2>4, <2>6
  <2> QED
    BY <2>5, <2>6
<1>5. ASSUME IsInjective(s) PROVE IsInjective(t) /\ Head(s) \notin ToSet(t)
  <2>1. \A i, j \in 1..Len(s) : s[i] = s[j] => i = j
    BY <1>3, <1>5 DEF IsInjective
  <2>2. \A i \in 1..(Len(s) - 1) : i + 1 \in 1..Len(s) /\ i + 1 # 1 /\ t[i] = s[i + 1]
    BY <1>1, <1>2
  <2>3. 1 \in 1..Len(s)
    BY <1>2
  <2>4. \A i, j \in 1..(Len(s) - 1) : t[i] = t[j] => i = j
    BY <2>1, <2>2, <1>2
  <2>5. \A i \in 1..(Len(s) - 1) : t[i] # Head(s)
    BY <1>2, <2>1, <2>2, <2>3
  <2> QED
    BY <1>3, <2>4, <2>5 DEF IsInjective, ToSet
<1> QED
  BY <1>1, <1>4, <1>5 DEF t

\* Nothing is in the empty queue.
LEMMA EmptyFacts == ToSet(<<>>) = {} /\ IsInjective(<<>>)
  BY DEF ToSet, IsInjective

\* y comes after x in s.
Follows(s, x, y) == \E i, j \in DOMAIN s : i < j /\ s[i] = x /\ s[j] = y

\* The elements of two sequences are those of their concatenation.
LEMMA ConcatFacts ==
  ASSUME NEW S, NEW s \in Seq(S), NEW t \in Seq(S)
  PROVE  /\ s \o t \in Seq(S)
         /\ ToSet(s \o t) = ToSet(s) \cup ToSet(t)
         /\ \A x, y : Follows(s \o t, x, y) <=>
              Follows(s, x, y) \/ Follows(t, x, y) \/ (x \in ToSet(s) /\ y \in ToSet(t))
<1> DEFINE c == s \o t
           m == Len(s)
           n == Len(t)
<1>1. /\ c \in Seq(S) /\ Len(c) = m + n
      /\ \A i \in 1..(m + n) : c[i] = IF i <= m THEN s[i] ELSE t[i - m]
  BY ConcatProperties
<1>2. m \in Nat /\ n \in Nat /\ DOMAIN s = 1..m /\ DOMAIN t = 1..n /\ DOMAIN c = 1..(m + n)
  BY <1>1, LenProperties
<1> HIDE DEF c, m, n
<1>3. \A i \in 1..m : i \in 1..(m + n) /\ c[i] = s[i]
  BY <1>1, <1>2
<1>4. \A i \in 1..n : i + m \in 1..(m + n) /\ c[i + m] = t[i] /\ i + m > m
  BY <1>1, <1>2
<1>5. \A i \in 1..(m + n) : \/ i \in 1..m /\ c[i] = s[i]
                            \/ i > m /\ i - m \in 1..n /\ c[i] = t[i - m]
  BY <1>1, <1>2
<1>6. ToSet(c) = ToSet(s) \cup ToSet(t)
  <2>1. ASSUME NEW x \in ToSet(c) PROVE x \in ToSet(s) \cup ToSet(t)
    BY <1>2, <1>5 DEF ToSet
  <2>2. ASSUME NEW x \in ToSet(s) PROVE x \in ToSet(c)
    BY <1>2, <1>3 DEF ToSet
  <2>3. ASSUME NEW x \in ToSet(t) PROVE x \in ToSet(c)
    BY <1>2, <1>4 DEF ToSet
  <2> QED
    BY <2>1, <2>2, <2>3
<1>7. ASSUME NEW x, NEW y, Follows(c, x, y)
      PROVE  Follows(s, x, y) \/ Follows(t, x, y) \/ (x \in ToSet(s) /\ y \in ToSet(t))
  <2>1. PICK i, j \in 1..(m + n) : i < j /\ c[i] = x /\ c[j] = y
    BY <1>2, <1>7 DEF Follows
  <2>2. CASE i \in 1..m /\ j \in 1..m
    BY <1>2, <1>3, <2>1, <2>2 DEF Follows
  <2>3. CASE i \in 1..m /\ j > m
    BY <1>2, <1>3, <1>5, <2>1, <2>3 DEF ToSet
  <2>4. CASE i > m
    <3>1. i - m \in 1..n /\ j - m \in 1..n /\ i - m < j - m /\ t[i - m] = x /\ t[j - m] = y
      BY <1>2, <1>5, <2>1, <2>4
    <3> QED
      BY <1>2, <3>1 DEF Follows
  <2> QED
    BY <1>2, <2>1, <2>2, <2>3, <2>4
<1>8. ASSUME NEW x, NEW y,
             Follows(s, x, y) \/ Follows(t, x, y) \/ (x \in ToSet(s) /\ y \in ToSet(t))
      PROVE  Follows(c, x, y)
  <2>1. CASE Follows(s, x, y)
    BY <1>2, <1>3, <2>1 DEF Follows
  <2>2. CASE Follows(t, x, y)
    <3>1. PICK i, j \in 1..n : i < j /\ t[i] = x /\ t[j] = y
      BY <1>2, <2>2 DEF Follows
    <3>2. i + m < j + m
      BY <1>2, <3>1
    <3> QED
      BY <1>2, <1>4, <3>1, <3>2 DEF Follows
  <2>3. CASE x \in ToSet(s) /\ y \in ToSet(t)
    <3>1. PICK i \in 1..m, j \in 1..n : s[i] = x /\ t[j] = y
      BY <1>2, <2>3 DEF ToSet
    <3>2. i < j + m
      BY <1>2, <3>1
    <3> QED
      BY <1>2, <1>3, <1>4, <3>1, <3>2 DEF Follows
  <2> QED
    BY <1>8, <2>1, <2>2, <2>3
<1> QED
  BY <1>1, <1>6, <1>7, <1>8 DEF c

\* What follows what after an Append.
LEMMA AppendOrder ==
  ASSUME NEW S, NEW s \in Seq(S), NEW e \in S
  PROVE  \A x, y : Follows(Append(s, e), x, y) <=> Follows(s, x, y) \/ (x \in ToSet(s) /\ y = e)
<1>1. <<e>> \in Seq(S) /\ Append(s, e) = s \o <<e>>
  BY AppendIsConcat
<1>2. ToSet(<<e>>) = {e} /\ \A x, y : ~Follows(<<e>>, x, y)
  BY DEF ToSet, Follows
<1>3. \A x, y : Follows(s \o <<e>>, x, y) <=>
        Follows(s, x, y) \/ Follows(<<e>>, x, y) \/ (x \in ToSet(s) /\ y \in ToSet(<<e>>))
  BY <1>1, ConcatFacts
<1>4. \A y : y \in ToSet(<<e>>) <=> y = e
  BY <1>2
<1> QED
  BY <1>1, <1>2, <1>3, <1>4, Zenon

\* The head comes before what is in the tail.
LEMMA TailOrder ==
  ASSUME NEW S, NEW s \in Seq(S), s # <<>>
  PROVE  \A x, y : Follows(s, x, y) <=>
           Follows(Tail(s), x, y) \/ (x = Head(s) /\ y \in ToSet(Tail(s)))
<1> DEFINE h == <<Head(s)>>
<1>1. Head(s) \in S /\ Tail(s) \in Seq(S) /\ h \in Seq(S)
  BY HeadTailProperties
<1>2. ToSet(h) = {Head(s)} /\ \A x, y : ~Follows(h, x, y)
  BY DEF ToSet, Follows
<1>3. s = h \o Tail(s)
  <2>1. Len(s) \in Nat \ {0} /\ Len(h) = 1 /\ h[1] = s[1] /\ Len(Tail(s)) = Len(s) - 1
    BY EmptySeq, HeadTailProperties
  <2>2. \A i \in 1..Len(Tail(s)) : Tail(s)[i] = s[i + 1]
    BY HeadTailProperties
  <2>3. h \o Tail(s) \in Seq(S) /\ Len(h \o Tail(s)) = Len(s)
    BY <1>1, <2>1, ConcatProperties
  <2>4. \A i \in 1..Len(s) : (h \o Tail(s))[i] = IF i <= 1 THEN h[i] ELSE Tail(s)[i - 1]
    BY <1>1, <2>1, ConcatProperties
  <2>5. \A i \in 1..Len(s) : (h \o Tail(s))[i] = s[i]
    BY <2>1, <2>2, <2>4
  <2> QED
    BY <2>3, <2>5, SeqEqual
<1> HIDE DEF h
<1>4. \A x, y : Follows(h \o Tail(s), x, y) <=>
        Follows(h, x, y) \/ Follows(Tail(s), x, y) \/ (x \in ToSet(h) /\ y \in ToSet(Tail(s)))
  BY <1>1, ConcatFacts
<1>5. \A x : x \in ToSet(h) <=> x = Head(s)
  BY <1>2
<1>6. \A x, y : Follows(s, x, y) <=> Follows(h \o Tail(s), x, y)
  BY <1>3, Zenon
<1> QED
  BY <1>2, <1>4, <1>5, <1>6, Zenon

\* A sequence is of distinct elements when what follows an element differs.
LEMMA DistinctByOrder ==
  ASSUME NEW S, NEW s \in Seq(S)
  PROVE  IsInjective(s) <=> \A x, y : Follows(s, x, y) => x # y
<1>1. DOMAIN s = 1..Len(s) /\ Len(s) \in Nat
  BY LenProperties
<1>2. ASSUME \A x, y : Follows(s, x, y) => x # y,
             NEW i \in DOMAIN s, NEW j \in DOMAIN s, s[i] = s[j]
      PROVE  i = j
  <2>1. ~(i < j) /\ ~(j < i)
    BY <1>2 DEF Follows
  <2> QED
    BY <1>1, <2>1
<1>3. ASSUME IsInjective(s), NEW x, NEW y, Follows(s, x, y) PROVE x # y
  BY <1>1, <1>3 DEF IsInjective, Follows
<1> QED
  BY <1>2, <1>3 DEF IsInjective
=============================================================================
