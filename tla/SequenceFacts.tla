--------------------------- MODULE SequenceFacts -----------------------------
(***************************************************************************)
(* What the operators on sequences and finite sets that the models use     *)
(* give back, for every input.  The provers instantiate no induction rule  *)
(* with an operator for a parameter; induction over Nat is had from the    *)
(* least element of a set instead, with a set for the predicate.           *)
(***************************************************************************)
EXTENDS Integers, SequencesExt, FiniteSetTheorems, WellFoundedInduction, TLAPS

\* A set of natural numbers that is not empty has a least element.
LEMMA LeastNumber ==
    ASSUME NEW T, T \subseteq Nat, T # {}
    PROVE  \E x \in T : \A y \in T : x <= y
<1>1. IsWellFoundedOn({p \in Nat \X Nat : p[1] < p[2]}, Nat)
      BY NatLessThanWellFounded DEF OpToRel
<1>2. PICK x \in T : \A y \in T : ~ (<<y, x>> \in {p \in Nat \X Nat : p[1] < p[2]})
      BY <1>1, WFMin
<1>3. ASSUME NEW y \in T PROVE x <= y
  <2>1. ~ (<<y, x>> \in {p \in Nat \X Nat : p[1] < p[2]})
        BY <1>2
  <2> QED BY <2>1
<1> QED BY <1>3

\* A set with 0 and the successor of each of its numbers has them all.
LEMMA Induction ==
    ASSUME NEW S, 0 \in S, \A n \in Nat : n \in S => n + 1 \in S
    PROVE  Nat \subseteq S
<1>1. SUFFICES ASSUME Nat \ S # {} PROVE FALSE
      OBVIOUS
<1>2. PICK x \in Nat \ S : \A y \in Nat \ S : x <= y
      BY <1>1, LeastNumber
<1>3. x # 0 /\ x - 1 \in Nat /\ x - 1 \in S
      BY <1>2
<1> QED BY <1>2, <1>3

-----------------------------------------------------------------------------
(* Sequences of unknown elements are sequences of their own elements.      *)

LEMMA OwnElements ==
    ASSUME NEW T, NEW s \in Seq(T)
    PROVE  /\ s \in Seq(ToSet(s))
           /\ ToSet(s) \subseteq T
           /\ DOMAIN s = 1 .. Len(s) /\ Len(s) \in Nat
BY DEF ToSet

LEMMA Appended ==
    ASSUME NEW s, s \in Seq(ToSet(s)), NEW t, t \in Seq(ToSet(t))
    PROVE  /\ s \o t \in Seq(ToSet(s) \cup ToSet(t))
           /\ ToSet(s \o t) = ToSet(s) \cup ToSet(t)
           /\ s \o t \in Seq(ToSet(s \o t))
<1>1. s \o t \in Seq(ToSet(s) \cup ToSet(t))
      OBVIOUS
<1>2. /\ Len(s \o t) = Len(s) + Len(t)
      /\ \A i \in 1 .. Len(s) : (s \o t)[i] = s[i]
      /\ \A i \in 1 .. Len(t) : (s \o t)[Len(s) + i] = t[i]
      OBVIOUS
<1>3. ToSet(s \o t) \subseteq ToSet(s) \cup ToSet(t)
      BY <1>1, OwnElements
<1>4. ToSet(s) \subseteq ToSet(s \o t)
      BY <1>1, <1>2 DEF ToSet
<1>5. ASSUME NEW i \in 1 .. Len(t) PROVE t[i] \in ToSet(s \o t)
  <2>1. Len(s) + i \in DOMAIN (s \o t) /\ (s \o t)[Len(s) + i] = t[i]
        BY <1>1, <1>2
  <2> QED BY <2>1 DEF ToSet
<1>6. ASSUME NEW y \in ToSet(t) PROVE y \in ToSet(s \o t)
  <2>1. PICK i \in 1 .. Len(t) : y = t[i]
        BY DEF ToSet
  <2> QED BY <1>5, <2>1
<1>7. ToSet(s \o t) = ToSet(s) \cup ToSet(t)
      BY <1>3, <1>4, <1>6
<1> QED BY <1>1, <1>7

\* FlattenSeq puts sequences together: the result has their elements.
LEMMA Flattened ==
    ASSUME NEW ss, ss \in Seq(ToSet(ss)),
           \A i \in DOMAIN ss : ss[i] \in Seq(ToSet(ss[i]))
    PROVE  /\ FlattenSeq(ss) \in Seq(ToSet(FlattenSeq(ss)))
           /\ ToSet(FlattenSeq(ss)) = UNION {ToSet(ss[i]) : i \in DOMAIN ss}
<1>1. CASE Len(ss) = 0
  <2>1. FlattenSeq(ss) = <<>> /\ ss = <<>>
        BY <1>1 DEF FlattenSeq
  <2> QED BY <2>1 DEF ToSet
<1>2. CASE Len(ss) # 0
  <2> DEFINE L == Len(ss)
             Is(g, n) == g = [i \in 1 .. n |-> IF i = 1 THEN ss[i] ELSE g[i - 1] \o ss[i]]
             Has(n) == \E g : Is(g, n)
             S == {n \in Nat : n + 1 <= L => Has(n + 1)}
  <2>1. L \in Nat \ {0} /\ DOMAIN ss = 1 .. L
        BY <1>2
  <2>2. 0 \in S
    <3> DEFINE h == [i \in 1 .. 1 |-> ss[1]]
    <3>1. Is(h, 1)
          OBVIOUS
    <3>2. Has(1)
          BY <3>1
    <3> HIDE DEF Has
    <3> QED BY <3>2
  <2>3. ASSUME NEW n \in Nat, n \in S PROVE n + 1 \in S
    <3>1. SUFFICES ASSUME n + 2 <= L PROVE Has(n + 2)
      <4> HIDE DEF Has
      <4>1. n + 1 + 1 = n + 2
            OBVIOUS
      <4> QED BY <2>1, <4>1
    <3>2. Has(n + 1)
      <4> HIDE DEF Has
      <4> QED BY <2>1, <2>3, <3>1
    <3>3. PICK g : Is(g, n + 1)
          BY <3>2
    <3> DEFINE h == [i \in 1 .. n + 2 |-> IF i = n + 2 THEN g[n + 1] \o ss[i] ELSE g[i]]
    <3>4. /\ h[n + 2] = g[n + 1] \o ss[n + 2]
          /\ \A i \in 1 .. n + 1 : h[i] = g[i]
          /\ h = [i \in 1 .. n + 2 |-> h[i]]
      <4>1. n + 2 \in 1 .. n + 2 /\ \A i \in 1 .. n + 1 : i \in 1 .. n + 2 /\ i # n + 2
            OBVIOUS
      <4>2. h[n + 2] = g[n + 1] \o ss[n + 2]
            BY <4>1
      <4>3. \A i \in 1 .. n + 1 : h[i] = g[i]
            BY <4>1
      <4>4. h = [i \in 1 .. n + 2 |-> h[i]]
            OBVIOUS
      <4> QED BY <4>2, <4>3, <4>4
    <3> HIDE DEF h
    <3>5. ASSUME NEW i \in 1 .. n + 2
          PROVE  h[i] = IF i = 1 THEN ss[i] ELSE h[i - 1] \o ss[i]
      <4>1. CASE i = n + 2
        <5>1. i - 1 = n + 1 /\ n + 1 \in 1 .. n + 1 /\ i # 1
              BY <4>1
        <5>2. h[i - 1] = g[n + 1]
              BY <3>4, <5>1
        <5> QED BY <3>4, <4>1, <5>1, <5>2
      <4>2. CASE i # n + 2
        <5>0. i \in 1 .. n + 1 /\ (i # 1 => i - 1 \in 1 .. n + 1)
              BY <4>2
        <5>1. h[i] = g[i] /\ (i # 1 => h[i - 1] = g[i - 1])
              BY <3>4, <5>0
        <5>2. g[i] = IF i = 1 THEN ss[i] ELSE g[i - 1] \o ss[i]
              BY <3>3, <5>0
        <5> QED BY <5>1, <5>2
      <4> QED BY <4>1, <4>2
    <3>6. Is(h, n + 2)
          BY <3>4, <3>5
    <3> QED BY <3>6
  <2>4. L - 1 \in S
    <3> HIDE DEF S
    <3>1. \A n \in Nat : n \in S => n + 1 \in S
          BY <2>3
    <3> QED BY <2>1, <2>2, <3>1, Induction
  <2>5. \E g : Is(g, L)
    <3> HIDE DEF Has
    <3>1. L - 1 + 1 = L /\ L <= L
          BY <2>1
    <3>2. Has(L)
          BY <2>4, <3>1
    <3> USE DEF Has
    <3> QED BY <3>2
  <2> DEFINE f == CHOOSE g : Is(g, L)
  <2>6. Is(f, L)
        BY <2>5
  <2> HIDE DEF f
  <2>6a. f[1] = ss[1]
        BY <2>6, <2>1
  <2>6b. ASSUME NEW i \in 1 .. L, NEW j \in 1 .. L, i = j + 1 PROVE f[i] = f[j] \o ss[i]
    <3>1. i # 1 /\ i - 1 = j
          BY <2>6b
    <3>2. f[i] = IF i = 1 THEN ss[i] ELSE f[i - 1] \o ss[i]
          BY <2>6
    <3> QED BY <3>1, <3>2
  <2> USE DEF f
  <2>7. FlattenSeq(ss) = f[L]
        BY <1>2 DEF FlattenSeq
  <2> HIDE DEF f
  <2> DEFINE U(n) == UNION {ToSet(ss[i]) : i \in 1 .. n}
             R == {n \in Nat : n + 1 <= L => f[n + 1] \in Seq(ToSet(f[n + 1])) /\ ToSet(f[n + 1]) = U(n + 1)}
  <2>8. 0 \in R
    <3>1. f[1] = ss[1]
          BY <2>6a
    <3>2. ss[1] \in Seq(ToSet(ss[1]))
          BY <2>1
    <3> QED BY <3>1, <3>2
  <2>9. ASSUME NEW n \in Nat, n \in R PROVE n + 1 \in R
    <3>1. SUFFICES ASSUME n + 2 <= L PROVE f[n + 2] \in Seq(ToSet(f[n + 2])) /\ ToSet(f[n + 2]) = U(n + 2)
          BY <2>1
    <3>2. f[n + 2] = f[n + 1] \o ss[n + 2]
      <4>1. n + 2 \in 1 .. L /\ n + 1 \in 1 .. L /\ n + 2 = n + 1 + 1
            BY <3>1, <2>1
      <4> HIDE DEF L
      <4> QED BY <2>6b, <4>1
    <3>3. f[n + 1] \in Seq(ToSet(f[n + 1])) /\ ToSet(f[n + 1]) = U(n + 1)
          BY <2>9, <3>1, <2>1
    <3>4. ss[n + 2] \in Seq(ToSet(ss[n + 2]))
          BY <2>1, <3>1
    <3>5. f[n + 2] \in Seq(ToSet(f[n + 2])) /\ ToSet(f[n + 2]) = ToSet(f[n + 1]) \cup ToSet(ss[n + 2])
      <4>1. LET a == f[n + 1]
                b == ss[n + 2]
            IN  a \o b \in Seq(ToSet(a \o b)) /\ ToSet(a \o b) = ToSet(a) \cup ToSet(b)
            BY <3>3, <3>4, Appended
      <4> QED BY <3>2, <4>1
    <3>6. U(n + 2) = U(n + 1) \cup ToSet(ss[n + 2])
      <4>1. 1 .. n + 2 = (1 .. n + 1) \cup {n + 2} /\ n + 1 + 1 = n + 2
            OBVIOUS
      <4>2. \A i \in 1 .. n + 2 : i \in 1 .. n + 1 \/ i = n + 2
            BY <4>1
      <4>3. n + 2 \in 1 .. n + 2 /\ \A i \in 1 .. n + 1 : i \in 1 .. n + 2
            BY <4>1
      <4>4. U(n + 2) \subseteq U(n + 1) \cup ToSet(ss[n + 2])
            BY <4>2
      <4>5. U(n + 1) \cup ToSet(ss[n + 2]) \subseteq U(n + 2)
            BY <4>3
      <4> QED BY <4>4, <4>5
    <3> QED BY <3>3, <3>5, <3>6
  <2>10. L - 1 \in R
    <3> HIDE DEF R
    <3>1. \A n \in Nat : n \in R => n + 1 \in R
          BY <2>9
    <3> QED BY <2>1, <2>8, <3>1, Induction
  <2>11. f[L] \in Seq(ToSet(f[L])) /\ ToSet(f[L]) = U(L)
    <3>1. L - 1 + 1 = L /\ L <= L
          BY <2>1
    <3> QED BY <2>10, <3>1
  <2> QED BY <2>1, <2>7, <2>11
<1>3. Len(ss) \in Nat
      OBVIOUS
<1> QED BY <1>1, <1>2

-----------------------------------------------------------------------------
\* SetToSeq lists every element of a finite set once.
LEMMA Listed ==
    ASSUME NEW S, IsFiniteSet(S)
    PROVE  /\ SetToSeq(S) \in Seq(S)
           /\ \A i, j \in DOMAIN SetToSeq(S) : SetToSeq(S)[i] = SetToSeq(S)[j] => i = j
           /\ \A x \in S : \E i \in DOMAIN SetToSeq(S) : SetToSeq(S)[i] = x
<1> DEFINE n == Cardinality(S)
<1>1. n \in Nat /\ ExistsBijection(1 .. n, S)
      BY FS_CardinalityType
<1>2. \E f \in [1 .. n -> S] : IsInjective(f)
      BY <1>1 DEF ExistsBijection, Bijection, Injection, IsInjective
<1>3. SetToSeq(S) \in [1 .. n -> S] /\ IsInjective(SetToSeq(S))
      BY <1>2 DEF SetToSeq
<1>4. SetToSeq(S) \in Injection(1 .. n, S)
      BY <1>3 DEF Injection
<1>5. Cardinality(1 .. n) = n
      BY <1>1, FS_Interval
<1>6. SetToSeq(S) \in Surjection(1 .. n, S)
      BY <1>4, <1>5, FS_Injection
<1>7. \A x \in S : \E i \in 1 .. n : SetToSeq(S)[i] = x
      BY <1>6 DEF Surjection
<1>8. SetToSeq(S) \in Seq(S) /\ DOMAIN SetToSeq(S) = 1 .. n
      BY <1>1, <1>3
<1> QED BY <1>3, <1>7, <1>8 DEF IsInjective

\* Of two places of a set, the later has more places up to it.
LEMMA CountedApart ==
    ASSUME NEW n \in Nat, NEW M \in SUBSET (1 .. n), NEW i \in M, NEW j \in M,
           Cardinality({k \in M : k <= i}) = Cardinality({k \in M : k <= j})
    PROVE  i = j
<1> DEFINE Upto(m) == {k \in M : k <= m}
<1>1. ASSUME NEW a \in M, NEW b \in M, a < b PROVE Cardinality(Upto(a)) # Cardinality(Upto(b))
  <2>1. IsFiniteSet(Upto(b))
    <3>1. IsFiniteSet(1 .. n)
          BY FS_Interval
    <3> QED BY <3>1, FS_Subset
  <2>2. a \in Int /\ b \in Int /\ \A k \in M : k \in Int
        OBVIOUS
  <2>3. Upto(a) \subseteq Upto(b)
    <3>1. ASSUME NEW k \in M, k <= a PROVE k <= b
      <4>1. k \in Int
            BY <2>2
      <4> QED BY <1>1, <2>2, <3>1, <4>1
    <3> QED BY <3>1
  <2>4. b \in Upto(b) /\ b \notin Upto(a)
        BY <1>1, <2>2
  <2> QED BY <2>1, <2>3, <2>4, FS_Subset
<1>2. i \in Int /\ j \in Int
      OBVIOUS
<1>3. ~(i < j) /\ ~(j < i)
      BY <1>1
<1> QED BY <1>2, <1>3

\* The elements of a sequence without one are elements of the sequence.
LEMMA Removed ==
    ASSUME NEW s, s \in Seq(ToSet(s)), NEW i \in DOMAIN s
    PROVE  RemoveAt(s, i) \in Seq(ToSet(s))
BY DEF RemoveAt

\* What comes after a prefix.
LEMMA AfterPrefix ==
    ASSUME NEW T, NEW p \in Seq(T), NEW q \in Seq(T)
    PROVE  IsPrefix(p, p \o q) /\ SubSeq(p \o q, Len(p) + 1, Len(p \o q)) = q
<1>1. /\ Len(p \o q) = Len(p) + Len(q) /\ Len(p) \in Nat /\ Len(q) \in Nat
      /\ p \o q \in Seq(T)
      /\ \A i \in 1 .. Len(p) : (p \o q)[i] = p[i]
      /\ \A i \in 1 .. Len(q) : (p \o q)[Len(p) + i] = q[i]
      OBVIOUS
<1>2. SubSeq(p \o q, 1, Len(p)) = p
      BY <1>1
<1>3. SubSeq(p \o q, Len(p) + 1, Len(p \o q)) = q
  <2> DEFINE r == SubSeq(p \o q, Len(p) + 1, Len(p \o q))
  <2>1. r = [i \in 1 .. Len(q) |-> (p \o q)[Len(p) + i]]
        BY <1>1
  <2>2. q = [i \in 1 .. Len(q) |-> q[i]]
        OBVIOUS
  <2> QED BY <1>1, <2>1, <2>2
<1>4. SubSeq(p, 1, Len(p)) = p
      OBVIOUS
<1> QED BY <1>1, <1>2, <1>3, <1>4 DEF IsPrefix

-----------------------------------------------------------------------------
\* A function on 1 .. n is a sequence; put together, if its values are sequences.
LEMMA Mapped ==
    ASSUME NEW n \in Nat, NEW f, f = [i \in 1 .. n |-> f[i]]
    PROVE  /\ f \in Seq(ToSet(f))
           /\ DOMAIN f = 1 .. n
           /\ ToSet(f) = {f[i] : i \in 1 .. n}
<1>1. DOMAIN f = 1 .. n
      OBVIOUS
<1>2. ToSet(f) = {f[i] : i \in 1 .. n}
      BY <1>1 DEF ToSet
<1>3. f \in [1 .. n -> ToSet(f)]
      BY <1>2
<1> QED BY <1>1, <1>2, <1>3

LEMMA FlattenedMap ==
    ASSUME NEW n \in Nat, NEW f, f = [i \in 1 .. n |-> f[i]],
           \A i \in 1 .. n : f[i] \in Seq(ToSet(f[i]))
    PROVE  /\ FlattenSeq(f) \in Seq(ToSet(FlattenSeq(f)))
           /\ ToSet(FlattenSeq(f)) = UNION {ToSet(f[i]) : i \in 1 .. n}
<1>1. f \in Seq(ToSet(f)) /\ DOMAIN f = 1 .. n
      BY Mapped
<1> QED BY <1>1, Flattened

LEMMA Associative ==
    ASSUME NEW T, NEW a \in Seq(T), NEW b \in Seq(T), NEW c \in Seq(T)
    PROVE  (a \o b) \o c = a \o (b \o c)
<1> DEFINE l == (a \o b) \o c
           r == a \o (b \o c)
<1>1. /\ Len(a) \in Nat /\ Len(b) \in Nat /\ Len(c) \in Nat
      /\ a \o b \in Seq(T) /\ b \o c \in Seq(T) /\ l \in Seq(T) /\ r \in Seq(T)
      /\ Len(l) = Len(a) + Len(b) + Len(c) /\ Len(r) = Len(a) + Len(b) + Len(c)
      OBVIOUS
<1>2. ASSUME NEW i \in 1 .. Len(l) PROVE l[i] = r[i]
      BY <1>1
<1> HIDE DEF l, r
<1> QED BY <1>1, <1>2

LEMMA HeadAndTail ==
    ASSUME NEW s, s \in Seq(ToSet(s)), s # <<>>
    PROVE  /\ Head(s) \in ToSet(s)
           /\ Tail(s) \in Seq(ToSet(Tail(s)))
           /\ ToSet(s) = {Head(s)} \cup ToSet(Tail(s))
<1>1. /\ Len(s) \in Nat \ {0} /\ DOMAIN s = 1 .. Len(s)
      /\ Head(s) = s[1] /\ Tail(s) \in Seq(ToSet(s))
      /\ Len(Tail(s)) = Len(s) - 1 /\ \A i \in 1 .. Len(s) - 1 : Tail(s)[i] = s[i + 1]
      OBVIOUS
<1>2. Tail(s) \in Seq(ToSet(Tail(s))) /\ DOMAIN Tail(s) = 1 .. Len(s) - 1
      BY <1>1, OwnElements
<1>3. ToSet(s) = {s[i] : i \in 1 .. Len(s)} /\ ToSet(Tail(s)) = {Tail(s)[i] : i \in 1 .. Len(s) - 1}
      BY <1>1, <1>2 DEF ToSet
<1>4. 1 \in 1 .. Len(s) /\ Head(s) \in ToSet(s)
      BY <1>1, <1>3
<1>5. ASSUME NEW i \in 1 .. Len(s) PROVE s[i] \in {Head(s)} \cup ToSet(Tail(s))
  <2>1. CASE i = 1
        BY <1>1, <2>1
  <2>2. CASE i # 1
    <3>1. i - 1 \in 1 .. Len(s) - 1 /\ (i - 1) + 1 = i
          BY <1>1, <2>2
    <3>2. Tail(s)[i - 1] = s[i]
          BY <1>1, <3>1
    <3> QED BY <1>3, <3>1, <3>2
  <2> QED BY <2>1, <2>2
<1>6. ASSUME NEW i \in 1 .. Len(s) - 1 PROVE Tail(s)[i] \in ToSet(s)
  <2>1. i + 1 \in 1 .. Len(s)
        BY <1>1
  <2> QED BY <1>1, <1>3, <2>1
<1> QED BY <1>2, <1>3, <1>4, <1>5, <1>6

=============================================================================
