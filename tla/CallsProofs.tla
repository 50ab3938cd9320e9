---------------------------- MODULE CallsProofs -----------------------------
(***************************************************************************)
(* Two of the functions of a companion file mean what the type means, for  *)
(* every registry, every set of values and every bound on the nesting.     *)
(*                                                                         *)
(* is<Name> is exact: it says yes only to values of the type, no to one of *)
(* them only over a loose discriminant, and throws only for a type that is *)
(* recursive by a way around the companion's own.                          *)
(*                                                                         *)
(* assert<Name> is sound: what it lets through, transformed and coerced,   *)
(* belongs to the type, unless the type has an open union or an            *)
(* intersection with a member that changes the value.  It is complete: it  *)
(* rejects no value of the type and hands it over as it is.                *)
(*                                                                         *)
(* Both proofs go by induction on the levels of nesting; the rules of      *)
(* Guards and of Asserters are compared with those of Membership kind by   *)
(* kind.                                                                   *)
(***************************************************************************)
EXTENDS Calls, SequenceFacts

Expressions == [AllTypes -> [AllValues -> [Contexts -> Verdicts]]]
Meanings    == [AllTypes -> [AllValues -> BOOLEAN]]

-----------------------------------------------------------------------------
(* A function on Nat can be defined by its first value and a step.         *)

LEMMA Iterated ==
    ASSUME NEW T, NEW z \in T, NEW step \in [T -> T]
    PROVE  \E h \in [Nat -> T] : h[0] = z /\ \A n \in Nat : h[n + 1] = step[h[n]]
<1> DEFINE Upto(n, g) == /\ g \in [0 .. n -> T]
                         /\ g[0] = z
                         /\ \A i \in 0 .. n : i < n => g[i + 1] = step[g[i]]
           Has(n) == \E g : Upto(n, g)
           S == {n \in Nat : Has(n)}
<1>1. 0 \in S
  <2>1. Upto(0, [i \in 0 .. 0 |-> z])
        OBVIOUS
  <2>2. Has(0)
        BY <2>1
  <2> HIDE DEF Has
  <2> QED BY <2>2
<1>2. ASSUME NEW n \in Nat, n \in S PROVE n + 1 \in S
  <2>1. PICK g : Upto(n, g)
        BY <1>2
  <2> DEFINE h == [i \in 0 .. n + 1 |-> IF i = n + 1 THEN step[g[n]] ELSE g[i]]
  <2>2. h \in [0 .. n + 1 -> T]
    <3>1. ASSUME NEW i \in 0 .. n + 1
          PROVE  (IF i = n + 1 THEN step[g[n]] ELSE g[i]) \in T
          BY <2>1
    <3> QED BY <3>1
  <2>3. h[0] = z
        BY <2>1
  <2>4. ASSUME NEW i \in 0 .. n + 1, i < n + 1 PROVE h[i + 1] = step[h[i]]
    <3>1. i \in 0 .. n /\ i + 1 \in 0 .. n + 1 /\ h[i] = g[i]
          BY <2>4
    <3>2. CASE i = n
          BY <3>1, <3>2
    <3>3. CASE i # n
      <4>1. i < n /\ i + 1 # n + 1
            BY <2>4, <3>3
      <4> QED BY <2>1, <3>1, <4>1
    <3> QED BY <3>2, <3>3
  <2> HIDE DEF h
  <2>5. Upto(n + 1, h)
        BY <2>2, <2>3, <2>4
  <2>6. Has(n + 1)
        BY <2>5
  <2> HIDE DEF Has
  <2> QED BY <2>6
<1>3. \A n \in Nat : Has(n)
  <2> HIDE DEF Has
  <2> QED BY <1>1, <1>2, Induction
<1> DEFINE pick == [n \in Nat |-> CHOOSE g : Upto(n, g)]
<1>4. ASSUME NEW n \in Nat PROVE Upto(n, pick[n])
  <2>1. \E g : Upto(n, g)
        BY <1>3
  <2> QED BY <2>1
\* The approximations agree.
<1> HIDE DEF pick
<1>5. ASSUME NEW n \in Nat PROVE \A i \in Nat : i <= n => pick[n + 1][i] = pick[n][i]
  <2> DEFINE A == {i \in Nat : i <= n => pick[n + 1][i] = pick[n][i]}
  <2>1. Upto(n, pick[n]) /\ Upto(n + 1, pick[n + 1])
        BY <1>4
  <2>2. 0 \in A
        BY <2>1
  <2>3. ASSUME NEW i \in Nat, i \in A PROVE i + 1 \in A
    <3>1. SUFFICES ASSUME i + 1 <= n PROVE pick[n + 1][i + 1] = pick[n][i + 1]
          OBVIOUS
    <3>2. i \in 0 .. n /\ i < n /\ i \in 0 .. n + 1 /\ i < n + 1 /\ i <= n
          BY <3>1
    <3> QED BY <2>1, <2>3, <3>2
  <2> HIDE DEF A
  <2>4. Nat \subseteq A
        BY <2>2, <2>3, Induction
  <2> USE DEF A
  <2> QED BY <2>4
<1> DEFINE h == [n \in Nat |-> pick[n][n]]
<1>6. h \in [Nat -> T] /\ h[0] = z
      BY <1>4
<1>7. ASSUME NEW n \in Nat PROVE h[n + 1] = step[h[n]]
  <2>1. pick[n + 1][n + 1] = step[pick[n + 1][n]]
        BY <1>4
  <2>2. pick[n + 1][n] = pick[n][n]
        BY <1>5
  <2> QED BY <2>1, <2>2
<1> HIDE DEF h
<1> QED BY <1>6, <1>7

-----------------------------------------------------------------------------
(* Types and values have their parts among the known ones.                 *)

LEMMA SequenceDomain ==
    ASSUME NEW s, IsSequence(s)
    PROVE  s \in Seq(ToSet(s)) /\ DOMAIN s = 1 .. Len(s) /\ Len(s) \in Nat
BY DEF IsSequence

LEMMA TypeParts ==
    ASSUME NEW t \in AllTypes
    PROVE  /\ Parts(t) \subseteq AllTypes
           /\ t.kind = "array" => t.elem \in Parts(t)
           /\ t.kind = "object" => \A i \in DOMAIN t.props : t.props[i].type \in Parts(t)
           /\ t.kind = "tuple" => \A i \in DOMAIN t.elems : t.elems[i].type \in Parts(t)
           /\ t.kind \in {"union", "intersection"} =>
                \A i \in DOMAIN t.members : t.members[i] \in Parts(t)
<1>1. Parts(t) \subseteq AllTypes
      BY TypesAssumption DEF TypesAssumption
<1>2. t.kind = "array" => t.elem \in Parts(t)
      BY DEF Parts
<1>3. ASSUME t.kind = "object", NEW i \in DOMAIN t.props PROVE t.props[i].type \in Parts(t)
      BY <1>3 DEF Parts
<1>4. ASSUME t.kind = "tuple", NEW i \in DOMAIN t.elems PROVE t.elems[i].type \in Parts(t)
      BY <1>4 DEF Parts
<1>5. ASSUME t.kind \in {"union", "intersection"}, NEW i \in DOMAIN t.members
      PROVE  t.members[i] \in Parts(t)
      BY <1>5 DEF Parts
<1> QED BY <1>1, <1>2, <1>3, <1>4, <1>5

LEMMA ValueParts ==
    ASSUME NEW v \in AllValues
    PROVE  /\ v.tag = "array" => /\ IsSequence(v.e)
                                 /\ \A i \in DOMAIN v.e : v.e[i] \in AllValues
           /\ v.tag = "object" => \A k \in DOMAIN v.p : v.p[k] \in AllValues
           /\ \A k : Get(v, k) \in AllValues
           /\ Undef \in AllValues
<1>1. Undef \in AllValues
      BY DEF AllValues
<1>2. PartsOfValue(v) \subseteq AllValues /\ IsValue(v)
      BY ValuesAssumption DEF ValuesAssumption
<1>3. v.tag = "array" => IsSequence(v.e) /\ \A i \in DOMAIN v.e : v.e[i] \in AllValues
      BY <1>2 DEF PartsOfValue, IsValue
<1>4. v.tag = "object" => \A k \in DOMAIN v.p : v.p[k] \in AllValues
      BY <1>2 DEF PartsOfValue
<1>5. \A k : Get(v, k) \in AllValues
      BY <1>1, <1>4 DEF Get, Keys
<1> QED BY <1>1, <1>3, <1>4, <1>5

LEMMA NameKnown ==
    ASSUME NEW r \in DOMAIN Registry
    PROVE  Registry[r] \in AllTypes /\ Context(r) \in Contexts
BY DEF AllTypes, Context, Contexts

LEMMA InlinedContext ==
    ASSUME NEW cx \in Contexts, NEW r \in DOMAIN Registry
    PROVE  /\ Into(cx, r) \in Contexts
           /\ Into(cx, r).root = cx.root
           /\ Into(cx, r).generating = cx.generating \cup {r}
BY DEF Contexts, Into

-----------------------------------------------------------------------------
(* The chains of && and ||.                                                *)

\* The first that is not good, when there is one, is one of them.
LEMMA Chain ==
    ASSUME NEW s, NEW n \in Nat, DOMAIN s = 1 .. n, NEW good
    PROVE  /\ InOrder(s, good) = good <=> \A i \in DOMAIN s : s[i] = good
           /\ InOrder(s, good) # good => \E i \in DOMAIN s : s[i] = InOrder(s, good)
<1> DEFINE bad == {i \in DOMAIN s : s[i] # good}
           IsFirst(i) == s[i] # good /\ \A j \in 1 .. i - 1 : s[j] = good
           first == CHOOSE i \in DOMAIN s : IsFirst(i)
<1>1. CASE \A i \in DOMAIN s : s[i] = good
      BY <1>1 DEF InOrder
<1>2. CASE ~ \A i \in DOMAIN s : s[i] = good
  <2>1. PICK i \in bad : \A j \in bad : i <= j
    <3>1. bad # {} /\ bad \subseteq Nat
          BY <1>2
    <3> HIDE DEF bad
    <3> QED BY <3>1, LeastNumber
  <2>2. IsFirst(i)
        BY <2>1
  <2>3. first \in DOMAIN s /\ IsFirst(first)
    <3> HIDE DEF IsFirst
    <3> QED BY <2>1, <2>2
  <2>4. InOrder(s, good) = s[first]
        BY <1>2 DEF InOrder
  <2> HIDE DEF first
  <2> QED BY <1>2, <2>3, <2>4
<1> QED BY <1>1, <1>2

LEMMA Asked ==
    ASSUME NEW f, NEW t, NEW v, NEW cx
    PROVE  /\ Is(f, t, v, cx) = "yes" => Admits(t, v) \/ f[t][v][cx] = "yes"
           /\ Is(f, t, v, cx) # "yes" => ~Admits(t, v) /\ Is(f, t, v, cx) = f[t][v][cx]
BY DEF Is

-----------------------------------------------------------------------------
(* Kind by kind: what is<Name> asks, and that the rules of Membership say  *)
(* the same of it.  A verdict that is neither yes nor no is that of a part *)
(* of the type.                                                            *)

Means(g, t, v) == Admits(t, v) \/ g[t][v]
FromPart(f, t, cx, verdict) == \E s \in Parts(t), x \in AllValues : f[s][x][cx] = verdict
\* Neither yes nor no of a part is wrong.
Agrees(f, g, parts, verdict) ==
    \A s \in parts, x \in AllValues, c \in Contexts :
        f[s][x][c] = verdict => (g[s][x] <=> verdict = "yes")

ChecksHold(p, x) == \A c \in p.checks : c.kind \in IsKinds => Guarded(c, x)
MeansProp(g, p, v) ==
    LET x == Get(v, p.name)
    IN  IF x = Undef THEN p.type.optional \/ ~p.required ELSE Means(g, p.type, x) /\ ChecksHold(p, x)

LEMMA ObjectMeans ==
    ASSUME NEW g, NEW t, NEW v, t.kind = "object"
    PROVE  BelongsBy(g, t, v, GuardDegree)
            <=> IsObject(v) /\ \A i \in DOMAIN t.props : MeansProp(g, t.props[i], v)
BY DEF BelongsBy, InnerBelongs, ObjectBelongs, PropBelongs, GuardDegree, Degree, MeansProp, Means,
       ChecksHold

LEMMA ArrayMeans ==
    ASSUME NEW g, NEW t, NEW v, NEW deg, t.kind = "array"
    PROVE  BelongsBy(g, t, v, deg)
            <=> v.tag = "array" /\ \A i \in DOMAIN v.e : Means(g, t.elem, v.e[i])
BY DEF BelongsBy, InnerBelongs, Means

LEMMA TupleMeans ==
    ASSUME NEW g, NEW t \in AllTypes, NEW v \in AllValues, t.kind = "tuple",
           NEW deg \in {GuardDegree, AssertDegree}
    PROVE  BelongsBy(g, t, v, deg)
            <=> /\ v.tag = "array"
                /\ \A i \in DOMAIN t.elems :
                    \/ Unasked(t.elems[i], i, v)
                    \/ Means(g, t.elems[i].type, IF i <= Len(v.e) THEN v.e[i] ELSE Undef)
<1> DEFINE belongs(i) ==
                \/ t.elems[i].rest
                \/ i <= Len(v.e) /\ Means(g, t.elems[i].type, v.e[i])
                \/ i > Len(v.e)  /\ (t.elems[i].optional \/ Means(g, t.elems[i].type, Undef))
           asked(i) ==
                \/ Unasked(t.elems[i], i, v)
                \/ Means(g, t.elems[i].type, IF i <= Len(v.e) THEN v.e[i] ELSE Undef)
<1>1. BelongsBy(g, t, v, deg) <=> v.tag = "array" /\ \A i \in DOMAIN t.elems : belongs(i)
      BY DEF BelongsBy, InnerBelongs, TupleBelongs, GuardDegree, AssertDegree, Degree, Means
<1>2. ASSUME v.tag = "array", NEW i \in DOMAIN t.elems PROVE belongs(i) <=> asked(i)
  <2>1. Len(v.e) \in Nat /\ i \in Nat
    <3>1. IsSequence(v.e) /\ IsSequence(t.elems)
          BY <1>2, ValueParts, TypesAssumption DEF TypesAssumption, IsMetadata
    <3> QED BY <3>1, SequenceDomain
  <2>2. CASE i <= Len(v.e)
    <3>1. ~ (i > Len(v.e))
          BY <2>1, <2>2
    <3> QED BY <2>2, <3>1 DEF Unasked
  <2>3. CASE ~ (i <= Len(v.e))
    <3>1. i > Len(v.e)
          BY <2>1, <2>3
    <3> QED BY <2>3, <3>1 DEF Unasked
  <2> QED BY <2>2, <2>3
<1> HIDE DEF belongs, asked
<1>3. v.tag = "array" => ((\A i \in DOMAIN t.elems : belongs(i)) <=> \A i \in DOMAIN t.elems : asked(i))
      BY <1>2
<1>4. BelongsBy(g, t, v, deg) <=> v.tag = "array" /\ \A i \in DOMAIN t.elems : asked(i)
      BY <1>1, <1>3
<1> QED BY <1>4 DEF asked

\* In full, when each element that must be there refuses undefined.
LEMMA FullTupleBelongs ==
    ASSUME NEW g, NEW t \in AllTypes, NEW v \in AllValues, t.kind = "tuple", ~IsPartlyAsserted(t),
           \A s \in Parts(t) : RefusesUndefined(s) => ~g[s][Undef],
           v.tag = "array",
           \A i \in DOMAIN t.elems :
                \/ Unasked(t.elems[i], i, v)
                \/ Means(g, t.elems[i].type, IF i <= Len(v.e) THEN v.e[i] ELSE Undef)
    PROVE  BelongsBy(g, t, v, Full)
<1> DEFINE belongs(i) ==
                \/ t.elems[i].rest
                \/ i <= Len(v.e) /\ Means(g, t.elems[i].type, v.e[i])
                \/ i > Len(v.e)  /\ t.elems[i].optional
<1>1. (\A i \in DOMAIN t.elems : belongs(i)) => BelongsBy(g, t, v, Full)
      BY DEF BelongsBy, InnerBelongs, TupleBelongs, Full, Degree, Means
<1>2. ASSUME NEW i \in DOMAIN t.elems PROVE belongs(i)
  <2>1. Len(v.e) \in Nat /\ i \in Nat
    <3>1. IsSequence(v.e) /\ IsSequence(t.elems)
          BY ValueParts, TypesAssumption DEF TypesAssumption, IsMetadata
    <3> QED BY <3>1, SequenceDomain
  <2>2. CASE i <= Len(v.e)
    <3>1. ~ (i > Len(v.e))
          BY <2>1, <2>2
    <3> QED BY <2>2, <3>1 DEF Unasked
  <2>3. CASE ~ (i <= Len(v.e))
    <3>1. i > Len(v.e)
          BY <2>1, <2>3
    <3>2. SUFFICES ASSUME ~t.elems[i].rest, ~t.elems[i].optional PROVE FALSE
          BY <3>1
    <3>3. Means(g, t.elems[i].type, Undef)
          BY <2>3, <3>2 DEF Unasked
    <3>4. RefusesUndefined(t.elems[i].type) /\ t.elems[i].type \in Parts(t)
          BY <3>2, TypeParts DEF IsPartlyAsserted
    <3>5. ~Admits(t.elems[i].type, Undef)
          BY <3>4 DEF Admits, RefusesUndefined, Undef, Null
    <3> QED BY <3>3, <3>4, <3>5 DEF Means
  <2> QED BY <2>2, <2>3
<1> QED BY <1>1, <1>2

LEMMA UnionMeans ==
    ASSUME NEW g, NEW t, NEW v, NEW deg, t.kind = "union"
    PROVE  BelongsBy(g, t, v, deg) <=> \E i \in DOMAIN t.members : Means(g, t.members[i], v)
BY DEF BelongsBy, InnerBelongs, Means

LEMMA IntersectionMeans ==
    ASSUME NEW g, NEW t, NEW v, NEW deg, t.kind = "intersection"
    PROVE  BelongsBy(g, t, v, deg) <=> \A i \in DOMAIN t.members : Means(g, t.members[i], v)
BY DEF BelongsBy, InnerBelongs, Means

LEMMA RefMeans ==
    ASSUME NEW g, NEW t, NEW v, NEW deg, t.kind = "ref"
    PROVE  BelongsBy(g, t, v, deg) <=> (t.ref \in DOMAIN Registry => Means(g, Registry[t.ref], v))
BY DEF BelongsBy, InnerBelongs, Means

LEMMA LiteralMeans ==
    ASSUME NEW g, NEW t, NEW v, NEW deg, t.kind = "literal"
    PROVE  BelongsBy(g, t, v, deg) <=> v = t.value
BY DEF BelongsBy, InnerBelongs

-----------------------------------------------------------------------------
(* One level of an object. *)

\* What the verdict r on the property p, of the value x, tells.
PropTells(f, p, x, cx, r) ==
    /\ r = "yes" => \/ x = Undef /\ (p.type.optional \/ ~p.required)
                    \/ x # Undef /\ (Admits(p.type, x) \/ f[p.type][x][cx] = "yes") /\ ChecksHold(p, x)
    /\ r = "no" => \/ x = Undef /\ ~(p.type.optional \/ ~p.required)
                   \/ x # Undef /\ ~Admits(p.type, x) /\ f[p.type][x][cx] = "no"
                   \/ x # Undef /\ ~ChecksHold(p, x)
    /\ r \notin {"yes", "no"} => f[p.type][x][cx] = r

LEMMA PropAsked ==
    ASSUME NEW f, NEW t \in AllTypes, t.kind = "object", NEW i \in DOMAIN t.props,
           NEW v \in AllValues, NEW cx
    PROVE  PropTells(f, t.props[i], Get(v, t.props[i].name), cx, IsProp(f, t.props[i], v, cx))
<1> DEFINE p == t.props[i]
           x == Get(v, p.name)
           r == IsProp(f, p, v, cx)
           absent == IF p.exact THEN p.name \notin Keys(v) ELSE x = Undef
           shape == CASE MustBePresent(p) /\ x = Undef -> "no"
                      [] ~MustBePresent(p) /\ absent   -> "yes"
                      [] OTHER                         -> Is(f, p.type, x, cx)
<1>1. r = IF shape # "yes" THEN shape ELSE Verdict(ChecksHold(p, x))
      BY DEF IsProp, ChecksHold
<1>2. p.required \/ p.type.optional
      BY TypesAssumption DEF TypesAssumption, IsMetadata
<1>3. absent => x = Undef
      BY DEF Get
<1>4. x = Undef => ChecksHold(p, x)
  <2>1. ASSUME NEW c PROVE Guarded(c, Undef)
        BY DEF Guarded, Concerns, TypeOf, Undef
  <2> QED BY <2>1 DEF ChecksHold
<1>5. CASE x = Undef
  <2>1. CASE MustBePresent(p)
    <3>1. r = "no"
          BY <1>1, <1>5, <2>1
    <3> QED BY <1>5, <2>1, <3>1 DEF MustBePresent, PropTells
  <2>2. CASE ~MustBePresent(p)
    <3>1. p.type.optional
          BY <1>2, <2>2 DEF MustBePresent
    <3>2. Is(f, p.type, x, cx) = "yes"
          BY <1>5, <3>1 DEF Is, Admits
    <3>3. shape = "yes"
          BY <2>2, <3>2
    <3>4. r = "yes"
          BY <1>1, <1>4, <1>5, <3>3 DEF Verdict
    <3> QED BY <1>5, <3>1, <3>4 DEF PropTells
  <2> QED BY <2>1, <2>2
<1>6. CASE x # Undef
  <2>1. shape = Is(f, p.type, x, cx)
        BY <1>3, <1>6
  <2> HIDE DEF shape, p, x, r
  <2>2. CASE shape = "yes"
    <3>1. Admits(p.type, x) \/ f[p.type][x][cx] = "yes"
          BY <2>1, <2>2 DEF Is
    <3>2. r = Verdict(ChecksHold(p, x))
          BY <1>1, <2>2
    <3>3. (r = "yes" /\ ChecksHold(p, x)) \/ (r = "no" /\ ~ChecksHold(p, x))
          BY <3>2 DEF Verdict
    <3>4. PropTells(f, p, x, cx, r)
          BY <1>6, <3>1, <3>3 DEF PropTells
    <3> USE DEF p, x, r
    <3> QED BY <3>4
  <2>3. CASE shape # "yes"
    <3>1. r = shape /\ ~Admits(p.type, x) /\ f[p.type][x][cx] = r
          BY <1>1, <2>1, <2>3, Asked
    <3>2. PropTells(f, p, x, cx, r)
          BY <1>6, <2>3, <3>1 DEF PropTells
    <3> USE DEF p, x, r
    <3> QED BY <3>2
  <2> QED BY <2>2, <2>3
<1> QED BY <1>5, <1>6

LEMMA ObjectIs ==
    ASSUME NEW f, NEW t \in AllTypes, t.kind = "object", NEW v \in AllValues, NEW cx,
           NEW r, r = IsInner(f, t, v, cx)
    PROVE  /\ r = "yes" =>
                IsObject(v) /\ \A i \in DOMAIN t.props : IsProp(f, t.props[i], v, cx) = "yes"
           /\ r # "yes" => \/ ~IsObject(v) /\ r = "no"
                           \/ \E i \in DOMAIN t.props : IsProp(f, t.props[i], v, cx) = r
<1> DEFINE s == [i \in DOMAIN t.props |-> IsProp(f, t.props[i], v, cx)]
<1>1. r = IF ~IsObject(v) THEN "no" ELSE InOrder(s, "yes")
      BY DEF IsInner
<1>2. DOMAIN s = 1 .. Len(t.props) /\ Len(t.props) \in Nat
  <2>1. IsSequence(t.props)
        BY TypesAssumption DEF TypesAssumption, IsMetadata
  <2> QED BY <2>1, SequenceDomain
<1>3. /\ InOrder(s, "yes") = "yes" <=> \A i \in DOMAIN s : s[i] = "yes"
      /\ InOrder(s, "yes") # "yes" => \E i \in DOMAIN s : s[i] = InOrder(s, "yes")
  <2> HIDE DEF s
  <2> QED BY <1>2, Chain
<1> QED BY <1>1, <1>3

LEMMA ObjectAgrees ==
    ASSUME NEW f, NEW g, NEW t \in AllTypes, t.kind = "object", NEW v \in AllValues,
           NEW cx \in Contexts, NEW verdict \in {"yes", "no"},
           Agrees(f, g, Parts(t), verdict), IsInner(f, t, v, cx) = verdict
    PROVE  BelongsBy(g, t, v, GuardDegree) <=> verdict = "yes"
<1>1. ASSUME NEW i \in DOMAIN t.props
      PROVE  IsProp(f, t.props[i], v, cx) = verdict
                => (MeansProp(g, t.props[i], v) <=> verdict = "yes")
  <2> DEFINE p == t.props[i]
             x == Get(v, p.name)
  <2>1. p.type \in Parts(t) /\ x \in AllValues
        BY TypeParts, ValueParts
  <2>2. f[p.type][x][cx] = verdict => (g[p.type][x] <=> verdict = "yes")
        BY <2>1 DEF Agrees
  <2>3. SUFFICES ASSUME IsProp(f, p, v, cx) = verdict
                 PROVE  MeansProp(g, p, v) <=> verdict = "yes"
        OBVIOUS
  <2>4. CASE verdict = "yes"
    <3>1. \/ x = Undef /\ (p.type.optional \/ ~p.required)
          \/ x # Undef /\ (Admits(p.type, x) \/ f[p.type][x][cx] = "yes") /\ ChecksHold(p, x)
      <4>1. PropTells(f, p, x, cx, IsProp(f, p, v, cx))
            BY PropAsked
      <4> QED BY <2>3, <2>4, <4>1 DEF PropTells
    <3> QED BY <2>2, <2>4, <3>1 DEF MeansProp, Means
  <2>5. CASE verdict = "no"
    <3>1. \/ x = Undef /\ ~(p.type.optional \/ ~p.required)
          \/ x # Undef /\ ~Admits(p.type, x) /\ f[p.type][x][cx] = "no"
          \/ x # Undef /\ ~ChecksHold(p, x)
      <4>1. PropTells(f, p, x, cx, IsProp(f, p, v, cx))
            BY PropAsked
      <4> QED BY <2>3, <2>5, <4>1 DEF PropTells
    <3> QED BY <2>2, <2>5, <3>1 DEF MeansProp, Means
  <2> QED BY <2>4, <2>5
<1>2. CASE verdict = "yes"
      BY <1>1, <1>2, ObjectIs, ObjectMeans
<1>3. CASE verdict = "no"
      BY <1>1, <1>3, ObjectIs, ObjectMeans
<1> QED BY <1>2, <1>3

LEMMA ObjectOrigin ==
    ASSUME NEW f, NEW t \in AllTypes, t.kind = "object", NEW v \in AllValues, NEW cx,
           NEW r, r = IsInner(f, t, v, cx), r \notin {"yes", "no"}
    PROVE  FromPart(f, t, cx, r)
<1>1. PICK i \in DOMAIN t.props : IsProp(f, t.props[i], v, cx) = r
      BY ObjectIs
<1> DEFINE x == Get(v, t.props[i].name)
<1>2. f[t.props[i].type][x][cx] = r
  <2>1. PropTells(f, t.props[i], x, cx, IsProp(f, t.props[i], v, cx))
        BY PropAsked
  <2> QED BY <1>1, <2>1 DEF PropTells
<1>3. t.props[i].type \in Parts(t) /\ x \in AllValues
      BY TypeParts, ValueParts
<1> QED BY <1>2, <1>3 DEF FromPart

-----------------------------------------------------------------------------
(* One level of an array, a tuple and an intersection. *)

LEMMA IsAgrees ==
    ASSUME NEW f, NEW g, NEW parts, NEW s \in parts, NEW x \in AllValues, NEW cx \in Contexts,
           NEW verdict \in {"yes", "no"}, Agrees(f, g, parts, verdict), Is(f, s, x, cx) = verdict
    PROVE  Means(g, s, x) <=> verdict = "yes"
<1>1. f[s][x][cx] = verdict => (g[s][x] <=> verdict = "yes")
      BY DEF Agrees
<1>2. CASE Admits(s, x)
      BY <1>2 DEF Is, Means
<1>3. CASE ~Admits(s, x)
      BY <1>1, <1>3 DEF Is, Means
<1> QED BY <1>2, <1>3

LEMMA ArrayIs ==
    ASSUME NEW f, NEW t \in AllTypes, t.kind = "array", NEW v \in AllValues, NEW cx,
           NEW r, r = IsInner(f, t, v, cx)
    PROVE  /\ r = "yes" => v.tag = "array" /\ \A i \in DOMAIN v.e : Is(f, t.elem, v.e[i], cx) = "yes"
           /\ r # "yes" => \/ v.tag # "array" /\ r = "no"
                           \/ /\ v.tag = "array"
                              /\ \E i \in DOMAIN v.e : Is(f, t.elem, v.e[i], cx) = r
<1> DEFINE s == [i \in DOMAIN v.e |-> Is(f, t.elem, v.e[i], cx)]
<1>1. r = IF v.tag # "array" THEN "no" ELSE InOrder(s, "yes")
      BY DEF IsInner
<1>2. ASSUME v.tag = "array"
      PROVE  /\ InOrder(s, "yes") = "yes" <=> \A i \in DOMAIN s : s[i] = "yes"
             /\ InOrder(s, "yes") # "yes" => \E i \in DOMAIN s : s[i] = InOrder(s, "yes")
  <2>1. DOMAIN s = 1 .. Len(v.e) /\ Len(v.e) \in Nat
        BY <1>2, ValueParts, SequenceDomain
  <2> HIDE DEF s
  <2> QED BY <2>1, Chain
<1> QED BY <1>1, <1>2

LEMMA ArrayAgrees ==
    ASSUME NEW f, NEW g, NEW t \in AllTypes, t.kind = "array", NEW v \in AllValues,
           NEW cx \in Contexts, NEW verdict \in {"yes", "no"},
           Agrees(f, g, Parts(t), verdict), IsInner(f, t, v, cx) = verdict
    PROVE  BelongsBy(g, t, v, GuardDegree) <=> verdict = "yes"
<1>1. ASSUME v.tag = "array", NEW i \in DOMAIN v.e, Is(f, t.elem, v.e[i], cx) = verdict
      PROVE  Means(g, t.elem, v.e[i]) <=> verdict = "yes"
  <2>1. t.elem \in Parts(t) /\ v.e[i] \in AllValues
        BY <1>1, TypeParts, ValueParts
  <2> QED BY <1>1, <2>1, IsAgrees
<1>2. CASE verdict = "yes"
      BY <1>1, <1>2, ArrayIs, ArrayMeans
<1>3. CASE verdict = "no"
      BY <1>1, <1>3, ArrayIs, ArrayMeans
<1> QED BY <1>2, <1>3

LEMMA ArrayOrigin ==
    ASSUME NEW f, NEW t \in AllTypes, t.kind = "array", NEW v \in AllValues, NEW cx,
           NEW r, r = IsInner(f, t, v, cx), r \notin {"yes", "no"}
    PROVE  FromPart(f, t, cx, r)
<1>1. v.tag = "array" /\ \E i \in DOMAIN v.e : Is(f, t.elem, v.e[i], cx) = r
      BY ArrayIs
<1>2. PICK i \in DOMAIN v.e : Is(f, t.elem, v.e[i], cx) = r
      BY <1>1
<1>3. f[t.elem][v.e[i]][cx] = r
      BY <1>2, Asked
<1>4. t.elem \in Parts(t) /\ v.e[i] \in AllValues
      BY <1>1, TypeParts, ValueParts
<1> QED BY <1>3, <1>4 DEF FromPart

ElemValue(v, i) == IF i <= Len(v.e) THEN v.e[i] ELSE Undef

LEMMA TupleIs ==
    ASSUME NEW f, NEW t \in AllTypes, t.kind = "tuple", NEW v \in AllValues, NEW cx,
           NEW r, r = IsInner(f, t, v, cx)
    PROVE  /\ r = "yes" =>
                /\ v.tag = "array"
                /\ \A i \in DOMAIN t.elems : \/ Unasked(t.elems[i], i, v)
                                             \/ Is(f, t.elems[i].type, ElemValue(v, i), cx) = "yes"
           /\ r # "yes" =>
                \/ v.tag # "array" /\ r = "no"
                \/ /\ v.tag = "array"
                   /\ \E i \in DOMAIN t.elems : /\ ~Unasked(t.elems[i], i, v)
                                                /\ Is(f, t.elems[i].type, ElemValue(v, i), cx) = r
<1> DEFINE s == [i \in DOMAIN t.elems |-> IsElem(f, t.elems[i], i, v, cx)]
<1>1. r = IF v.tag # "array" THEN "no" ELSE InOrder(s, "yes")
      BY DEF IsInner
<1>2. DOMAIN s = 1 .. Len(t.elems) /\ Len(t.elems) \in Nat
  <2>1. IsSequence(t.elems)
        BY TypesAssumption DEF TypesAssumption, IsMetadata
  <2> QED BY <2>1, SequenceDomain
<1>3. /\ InOrder(s, "yes") = "yes" <=> \A i \in DOMAIN s : s[i] = "yes"
      /\ InOrder(s, "yes") # "yes" => \E i \in DOMAIN s : s[i] = InOrder(s, "yes")
  <2> HIDE DEF s
  <2> QED BY <1>2, Chain
<1>4. \A i \in DOMAIN t.elems :
        IsElem(f, t.elems[i], i, v, cx)
            = IF Unasked(t.elems[i], i, v) THEN "yes" ELSE Is(f, t.elems[i].type, ElemValue(v, i), cx)
      BY DEF IsElem, ElemValue
<1> QED BY <1>1, <1>3, <1>4

LEMMA ElemKnown ==
    ASSUME NEW t \in AllTypes, t.kind = "tuple", NEW i \in DOMAIN t.elems,
           NEW v \in AllValues, v.tag = "array"
    PROVE  t.elems[i].type \in Parts(t) /\ ElemValue(v, i) \in AllValues
<1>1. i \in Nat \ {0}
  <2>1. IsSequence(t.elems)
        BY TypesAssumption DEF TypesAssumption, IsMetadata
  <2> QED BY <2>1, SequenceDomain
<1>2. DOMAIN v.e = 1 .. Len(v.e) /\ Len(v.e) \in Nat
      BY ValueParts, SequenceDomain
<1>3. i <= Len(v.e) => i \in DOMAIN v.e
      BY <1>1, <1>2
<1> QED BY <1>3, TypeParts, ValueParts DEF ElemValue

LEMMA TupleAgrees ==
    ASSUME NEW f, NEW g, NEW t \in AllTypes, t.kind = "tuple", NEW v \in AllValues,
           NEW cx \in Contexts, NEW verdict \in {"yes", "no"},
           Agrees(f, g, Parts(t), verdict), IsInner(f, t, v, cx) = verdict
    PROVE  BelongsBy(g, t, v, GuardDegree) <=> verdict = "yes"
<1>1. ASSUME v.tag = "array", NEW i \in DOMAIN t.elems,
             Is(f, t.elems[i].type, ElemValue(v, i), cx) = verdict
      PROVE  Means(g, t.elems[i].type, ElemValue(v, i)) <=> verdict = "yes"
  <2>1. t.elems[i].type \in Parts(t) /\ ElemValue(v, i) \in AllValues
        BY <1>1, ElemKnown
  <2> QED BY <1>1, <2>1, IsAgrees
<1>2. BelongsBy(g, t, v, GuardDegree)
        <=> /\ v.tag = "array"
            /\ \A i \in DOMAIN t.elems : \/ Unasked(t.elems[i], i, v)
                                         \/ Means(g, t.elems[i].type, ElemValue(v, i))
      BY TupleMeans DEF ElemValue
<1>3. CASE verdict = "yes"
      BY <1>1, <1>2, <1>3, TupleIs
<1>4. CASE verdict = "no"
      BY <1>1, <1>2, <1>4, TupleIs
<1> QED BY <1>3, <1>4

LEMMA TupleOrigin ==
    ASSUME NEW f, NEW t \in AllTypes, t.kind = "tuple", NEW v \in AllValues, NEW cx,
           NEW r, r = IsInner(f, t, v, cx), r \notin {"yes", "no"}
    PROVE  FromPart(f, t, cx, r)
<1>1. v.tag = "array" /\ \E i \in DOMAIN t.elems : Is(f, t.elems[i].type, ElemValue(v, i), cx) = r
      BY TupleIs
<1>2. PICK i \in DOMAIN t.elems : Is(f, t.elems[i].type, ElemValue(v, i), cx) = r
      BY <1>1
<1>3. f[t.elems[i].type][ElemValue(v, i)][cx] = r
      BY <1>2, Asked
<1> QED BY <1>1, <1>3, ElemKnown DEF FromPart

LEMMA MemberMeans ==
    ASSUME NEW g, NEW t \in AllTypes, t.kind \in {"union", "intersection"},
           NEW i \in DOMAIN t.members, NEW v
    PROVE  /\ Means(g, t.members[i], v) <=> g[t.members[i]][v]
           /\ t.members[i] \in Parts(t)
           /\ IsSequence(t.members)
<1>1. /\ t.members[i].nullable = FALSE /\ t.members[i].optional = FALSE
      /\ IsSequence(t.members)
  <2>1. IsMetadata(t)
        BY TypesAssumption DEF TypesAssumption
  <2> QED BY <2>1 DEF IsMetadata
<1>2. t.members[i] \in Parts(t)
      BY TypeParts
<1>3. ~Admits(t.members[i], v)
      BY <1>1 DEF Admits
<1> QED BY <1>1, <1>2, <1>3 DEF Means

LEMMA MembersAgree ==
    ASSUME NEW f, NEW g, NEW t \in AllTypes, t.kind \in {"union", "intersection"},
           NEW v \in AllValues, NEW cx \in Contexts, NEW verdict \in {"yes", "no"},
           Agrees(f, g, Parts(t), verdict),
           NEW i \in DOMAIN t.members, f[t.members[i]][v][cx] = verdict
    PROVE  Means(g, t.members[i], v) <=> verdict = "yes"
<1>1. t.members[i] \in Parts(t) /\ (Means(g, t.members[i], v) <=> g[t.members[i]][v])
      BY MemberMeans
<1>2. g[t.members[i]][v] <=> verdict = "yes"
      BY <1>1 DEF Agrees
<1> QED BY <1>1, <1>2

MemberVerdicts(f, t, v, cx) == [i \in DOMAIN t.members |-> f[t.members[i]][v][cx]]

LEMMA MembersIs ==
    ASSUME NEW f, NEW t \in AllTypes, t.kind \in {"union", "intersection"}, NEW v, NEW cx, NEW good,
           NEW r, InOrder(MemberVerdicts(f, t, v, cx), good) = r
    PROVE  /\ r = good => \A i \in DOMAIN t.members : f[t.members[i]][v][cx] = good
           /\ r # good => \E i \in DOMAIN t.members : f[t.members[i]][v][cx] = r
<1> DEFINE s == [i \in DOMAIN t.members |-> f[t.members[i]][v][cx]]
<1>1. DOMAIN s = 1 .. Len(t.members) /\ Len(t.members) \in Nat
  <2>1. IsSequence(t.members)
        BY TypesAssumption DEF TypesAssumption, IsMetadata
  <2> QED BY <2>1, SequenceDomain
<1>2. /\ InOrder(s, good) = good <=> \A i \in DOMAIN s : s[i] = good
      /\ InOrder(s, good) # good => \E i \in DOMAIN s : s[i] = InOrder(s, good)
  <2> HIDE DEF s
  <2> QED BY <1>1, Chain
<1> QED BY <1>2 DEF MemberVerdicts

LEMMA IntersectionAgrees ==
    ASSUME NEW f, NEW g, NEW t \in AllTypes, t.kind = "intersection", NEW v \in AllValues,
           NEW cx \in Contexts, NEW verdict \in {"yes", "no"},
           Agrees(f, g, Parts(t), verdict), IsInner(f, t, v, cx) = verdict
    PROVE  BelongsBy(g, t, v, GuardDegree) <=> verdict = "yes"
<1>1. InOrder(MemberVerdicts(f, t, v, cx), "yes") = verdict
      BY DEF IsInner, MemberVerdicts
<1>2. CASE verdict = "yes"
  <2>1. \A i \in DOMAIN t.members : f[t.members[i]][v][cx] = verdict
        BY <1>1, <1>2, MembersIs
  <2> QED BY <1>2, <2>1, MembersAgree, IntersectionMeans
<1>3. CASE verdict = "no"
  <2>1. \E i \in DOMAIN t.members : f[t.members[i]][v][cx] = verdict
        BY <1>1, <1>3, MembersIs
  <2> QED BY <1>3, <2>1, MembersAgree, IntersectionMeans
<1> QED BY <1>2, <1>3

LEMMA IntersectionOrigin ==
    ASSUME NEW f, NEW t \in AllTypes, t.kind = "intersection", NEW v \in AllValues, NEW cx,
           NEW r, r = IsInner(f, t, v, cx), r \notin {"yes", "no"}
    PROVE  FromPart(f, t, cx, r)
<1>1. InOrder(MemberVerdicts(f, t, v, cx), "yes") = r
      BY DEF IsInner, MemberVerdicts
<1>2. \E i \in DOMAIN t.members : f[t.members[i]][v][cx] = r
      BY <1>1, MembersIs
<1> QED BY <1>2, TypeParts DEF FromPart

-----------------------------------------------------------------------------
(* One level of a union: of literals, discriminated, or neither.           *)

\* A meaning has a meaning below it, down to what a literal stands for.
Unrolls(M) == \A g \in M, s \in AllTypes, x \in AllValues :
                g[s][x] => \E h \in M : BelongsBy(h, s, x, GuardDegree)
KnowsLiterals(g) == \A s \in AllTypes, x \in AllValues : s.kind = "literal" /\ x = s.value => g[s][x]

LEMMA LiteralsIs ==
    ASSUME NEW f, NEW t \in AllTypes, t.kind = "union", AllLiterals(t.members), NEW v, NEW cx
    PROVE  /\ IsInner(f, t, v, cx) \in {"yes", "no"}
           /\ IsInner(f, t, v, cx) = "yes" <=> \E i \in DOMAIN t.members : v = t.members[i].value
           /\ \A i \in DOMAIN t.members : t.members[i] \in AllTypes /\ t.members[i].kind = "literal"
<1>1. IsInner(f, t, v, cx) = Verdict(\E i \in DOMAIN t.members : v = t.members[i].value)
      BY DEF IsInner, IsUnion
<1>2. \A i \in DOMAIN t.members : t.members[i] \in AllTypes /\ t.members[i].kind = "literal"
      BY TypeParts DEF AllLiterals
<1> QED BY <1>1, <1>2 DEF Verdict

LEMMA GeneralUnionIs ==
    ASSUME NEW f, NEW t \in AllTypes, t.kind = "union", ~AllLiterals(t.members), t.disc = "",
           NEW v, NEW cx
    PROVE  IsInner(f, t, v, cx) = InOrder(MemberVerdicts(f, t, v, cx), "no")
BY DEF IsInner, IsUnion, Either, MemberVerdicts

\* The member that the value's discriminant leads to.
Chosen(t, v) == t.members[t.mapping[Get(v, t.disc).s]]
Leads(t, v) == IsObject(v) /\ \E text \in DOMAIN t.mapping : Get(v, t.disc) = Str(text)

\* What the switch over the discriminant gives.
Switches(f, t, v, cx) ==
    /\ Leads(t, v) => /\ IsInner(f, t, v, cx) = f[Chosen(t, v)][v][cx]
                      /\ t.mapping[Get(v, t.disc).s] \in DOMAIN t.members
    /\ ~Leads(t, v) => IsInner(f, t, v, cx) = "no"

LEMMA DiscriminatedIs ==
    ASSUME NEW f, NEW t \in AllTypes, t.kind = "union", ~AllLiterals(t.members), t.disc # "",
           NEW v, NEW cx
    PROVE  Switches(f, t, v, cx)
<1>1. /\ Leads(t, v) => IsInner(f, t, v, cx) = f[Chosen(t, v)][v][cx]
      /\ ~Leads(t, v) => IsInner(f, t, v, cx) = "no"
      BY DEF IsInner, IsUnion, Leads, Chosen
<1>2. IsDiscriminated(t)
      BY TypesAssumption DEF TypesAssumption, IsMetadata
<1>3. ASSUME Leads(t, v) PROVE t.mapping[Get(v, t.disc).s] \in DOMAIN t.members
  <2>1. PICK text \in DOMAIN t.mapping : Get(v, t.disc) = Str(text)
        BY <1>3 DEF Leads
  <2>2. Get(v, t.disc).s = text
    <3>1. Str(text).s = text
          BY DEF Str
    <3> QED BY <2>1, <3>1
  <2> QED BY <1>2, <2>1, <2>2 DEF IsDiscriminated
<1> QED BY <1>1, <1>3 DEF Switches

\* The member that a value belongs to is the one that its discriminant leads
\* to, unless a discriminant is loose.
LEMMA DiscriminantLeads ==
    ASSUME NEW M, Unrolls(M), NEW g \in M, NEW t \in AllTypes, t.kind = "union", t.disc # "",
           ~HasLooseDiscriminant(t), NEW v \in AllValues,
           NEW i \in DOMAIN t.members, g[t.members[i]][v]
    PROVE  Leads(t, v) /\ Chosen(t, v) = t.members[i]
<1> DEFINE m == t.members[i]
           o == Referent(m)
           x == Get(v, t.disc)
<1>1. IsDiscriminated(t)
      BY TypesAssumption DEF TypesAssumption, IsMetadata
<1>2. /\ o.kind = "object" /\ o.nullable = FALSE /\ o.optional = FALSE
      /\ DiscriminantsOf(m, t.disc) # {}
      /\ \A p \in DiscriminantsOf(m, t.disc) :
            /\ p.type.kind = "literal"
            /\ p.type.value.tag = "string" =>
                /\ p.type.value.s \in DOMAIN t.mapping /\ t.mapping[p.type.value.s] = i
                /\ p.type.value = Str(p.type.value.s)
      BY <1>1 DEF IsDiscriminated
<1>3. m \in AllTypes
      BY TypeParts
<1>4. o \in AllTypes /\ \E h \in M : BelongsBy(h, o, v, GuardDegree)
  <2>1. PICK h \in M : BelongsBy(h, m, v, GuardDegree)
        BY <1>3 DEF Unrolls
  <2>2. CASE m.kind = "ref" /\ m.ref \in DOMAIN Registry
    <3>1. o = Registry[m.ref] /\ o \in AllTypes
          BY <2>2, NameKnown DEF Referent
    <3>2. Means(h, o, v)
          BY <2>1, <2>2, <3>1, RefMeans
    <3>3. h[o][v]
          BY <1>2, <3>2 DEF Means, Admits
    <3> QED BY <3>1, <3>3 DEF Unrolls
  <2>3. CASE ~(m.kind = "ref" /\ m.ref \in DOMAIN Registry)
    <3>1. o = m
          BY <2>3 DEF Referent
    <3> QED BY <1>3, <2>1, <3>1
  <2> QED BY <2>2, <2>3
<1>5. PICK h \in M : BelongsBy(h, o, v, GuardDegree)
      BY <1>4
<1>6. PICK j \in DOMAIN o.props : o.props[j].name = t.disc /\ o.props[j] \in DiscriminantsOf(m, t.disc)
      BY <1>2 DEF DiscriminantsOf
<1> DEFINE p == o.props[j]
<1>7. p.type.value.tag = "string" /\ ~p.type.optional /\ ~p.type.nullable
      BY <1>6 DEF HasLooseDiscriminant
<1>8. MeansProp(h, p, v)
      BY <1>2, <1>5, ObjectMeans
<1>9. p.required \/ p.type.optional
      BY <1>2, <1>4, TypesAssumption DEF TypesAssumption, IsMetadata
<1>10. x \in AllValues /\ p.type \in AllTypes /\ p.type.kind = "literal"
      BY <1>2, <1>4, <1>6, ValueParts, TypeParts
<1> HIDE DEF o, m
<1>11. x # Undef /\ Means(h, p.type, x)
      BY <1>6, <1>7, <1>8, <1>9 DEF MeansProp
<1>12. h[p.type][x]
      BY <1>7, <1>11 DEF Means, Admits
<1>13. x = p.type.value
  <2> HIDE DEF x, p
  <2>1. PICK k \in M : BelongsBy(k, p.type, x, GuardDegree)
        BY <1>10, <1>12 DEF Unrolls
  <2>2. BelongsBy(k, p.type, x, GuardDegree) <=> x = p.type.value
        BY <1>10 DEF BelongsBy, InnerBelongs
  <2> QED BY <2>1, <2>2
<1>14. x = Str(x.s) /\ x.s \in DOMAIN t.mapping /\ t.mapping[x.s] = i
      BY <1>2, <1>6, <1>7, <1>13
<1>15. IsObject(v)
      BY <1>2, <1>5, ObjectMeans
<1> QED BY <1>14, <1>15 DEF Leads, Chosen, m

LEMMA UnionAgrees ==
    ASSUME NEW f, NEW M, Unrolls(M), NEW g \in M, NEW t \in AllTypes, t.kind = "union",
           NEW v \in AllValues, NEW cx \in Contexts, NEW verdict \in {"yes", "no"},
           Agrees(f, g, Parts(t), verdict), IsInner(f, t, v, cx) = verdict,
           verdict = "yes" => KnowsLiterals(g),
           verdict = "no" => ~HasLooseDiscriminant(t)
    PROVE  BelongsBy(g, t, v, GuardDegree) <=> verdict = "yes"
<1>1. \A i \in DOMAIN t.members : Means(g, t.members[i], v) <=> g[t.members[i]][v]
      BY MemberMeans
<1>2. CASE AllLiterals(t.members)
  <2>1. verdict = "yes" <=> \E i \in DOMAIN t.members : v = t.members[i].value
        BY <1>2, LiteralsIs
  <2>2. ASSUME NEW i \in DOMAIN t.members
        PROVE  /\ verdict = "yes" /\ v = t.members[i].value => g[t.members[i]][v]
               /\ g[t.members[i]][v] => v = t.members[i].value
    <3>1. t.members[i] \in AllTypes /\ t.members[i].kind = "literal"
          BY <1>2, LiteralsIs
    <3>2. ASSUME verdict = "yes", v = t.members[i].value PROVE g[t.members[i]][v]
          BY <3>1, <3>2 DEF KnowsLiterals
    <3>3. ASSUME g[t.members[i]][v] PROVE v = t.members[i].value
      <4>1. PICK h \in M : BelongsBy(h, t.members[i], v, GuardDegree)
            BY <3>1, <3>3 DEF Unrolls
      <4> QED BY <3>1, <4>1, LiteralMeans
    <3> QED BY <3>2, <3>3
  <2> QED BY <1>1, <2>1, <2>2, UnionMeans
<1>3. CASE ~AllLiterals(t.members) /\ t.disc = ""
  <2>1. InOrder(MemberVerdicts(f, t, v, cx), "no") = verdict
        BY <1>3, GeneralUnionIs
  <2>2. CASE verdict = "yes"
    <3>1. \E i \in DOMAIN t.members : f[t.members[i]][v][cx] = verdict
          BY <2>1, <2>2, MembersIs
    <3> QED BY <2>2, <3>1, MembersAgree, UnionMeans
  <2>3. CASE verdict = "no"
    <3>1. \A i \in DOMAIN t.members : f[t.members[i]][v][cx] = verdict
          BY <2>1, <2>3, MembersIs
    <3> QED BY <2>3, <3>1, MembersAgree, UnionMeans
  <2> QED BY <2>2, <2>3
<1>4. CASE ~AllLiterals(t.members) /\ t.disc # ""
  <2>0. Switches(f, t, v, cx)
        BY <1>4, DiscriminatedIs
  <2>1. CASE verdict = "yes"
    <3>1. /\ f[Chosen(t, v)][v][cx] = verdict
          /\ t.mapping[Get(v, t.disc).s] \in DOMAIN t.members
          BY <2>0, <2>1 DEF Switches
    <3> DEFINE j == t.mapping[Get(v, t.disc).s]
    <3>2. Chosen(t, v) = t.members[j]
          BY DEF Chosen
    <3> HIDE DEF j
    <3>3. j \in DOMAIN t.members /\ f[t.members[j]][v][cx] = verdict
          BY <3>1, <3>2 DEF j
    <3>4. Means(g, t.members[j], v)
          BY <2>1, <3>3, MembersAgree
    <3> QED BY <2>1, <3>3, <3>4, UnionMeans
  <2>2. CASE verdict = "no"
    <3>1. SUFFICES ASSUME BelongsBy(g, t, v, GuardDegree) PROVE FALSE
          BY <2>2
    <3>2. PICK i \in DOMAIN t.members : g[t.members[i]][v]
          BY <1>1, <3>1, UnionMeans
    <3>3. Leads(t, v) /\ Chosen(t, v) = t.members[i]
          BY <1>4, <2>2, <3>2, DiscriminantLeads
    <3>4. f[t.members[i]][v][cx] = verdict
          BY <2>0, <3>3 DEF Switches
    <3>5. ~ Means(g, t.members[i], v)
          BY <2>2, <3>4, MembersAgree
    <3> QED BY <1>1, <3>2, <3>5
  <2> QED BY <2>1, <2>2
<1> QED BY <1>2, <1>3, <1>4

LEMMA UnionOrigin ==
    ASSUME NEW f, NEW t \in AllTypes, t.kind = "union", NEW v \in AllValues, NEW cx,
           NEW r, r = IsInner(f, t, v, cx), r \notin {"yes", "no"}
    PROVE  FromPart(f, t, cx, r)
<1>1. ~AllLiterals(t.members)
      BY LiteralsIs
<1>2. CASE t.disc = ""
  <2>1. InOrder(MemberVerdicts(f, t, v, cx), "no") = r
        BY <1>1, <1>2, GeneralUnionIs
  <2>2. \E i \in DOMAIN t.members : f[t.members[i]][v][cx] = r
        BY <2>1, MembersIs
  <2> QED BY <2>2, TypeParts DEF FromPart
<1>3. CASE t.disc # ""
  <2>0. Switches(f, t, v, cx)
        BY <1>1, <1>3, DiscriminatedIs
  <2>1. /\ f[Chosen(t, v)][v][cx] = r
        /\ t.mapping[Get(v, t.disc).s] \in DOMAIN t.members
        BY <2>0 DEF Switches
  <2> QED BY <2>1, TypeParts DEF FromPart, Chosen
<1> QED BY <1>2, <1>3

-----------------------------------------------------------------------------
(* One level of a name, and of the kinds that have no parts.               *)

\* The context in which the expression for the name r is asked for.
NextContext(cx, r) == IF r \in cx.generating THEN Context(r) ELSE Into(cx, r)
Asks(cx, r) == r \in DOMAIN Registry /\ (r \in cx.generating => r = cx.root)

LEMMA RefIs ==
    ASSUME NEW f, NEW t \in AllTypes, t.kind = "ref", NEW v, NEW cx \in Contexts
    PROVE  /\ Asks(cx, t.ref) =>
                IsInner(f, t, v, cx) = Is(f, Registry[t.ref], v, NextContext(cx, t.ref))
           /\ t.ref \in DOMAIN Registry /\ ~Asks(cx, t.ref) => IsInner(f, t, v, cx) = "throws"
           /\ t.ref \notin DOMAIN Registry => IsInner(f, t, v, cx) = "yes"
           /\ Asks(cx, t.ref) => NextContext(cx, t.ref) \in Contexts
<1>1. cx.generating \subseteq DOMAIN Registry
      BY DEF Contexts
<1>2. IsInner(f, t, v, cx) = IsRef(f, t, v, cx)
      BY DEF IsInner
<1>3. CASE t.ref \in cx.generating /\ t.ref = cx.root
      BY <1>1, <1>2, <1>3, NameKnown DEF IsRef, Asks, NextContext
<1>4. CASE t.ref \in cx.generating /\ t.ref # cx.root
      BY <1>1, <1>2, <1>4 DEF IsRef, Asks
<1>5. CASE t.ref \in DOMAIN Registry \ cx.generating
      BY <1>2, <1>5, InlinedContext DEF IsRef, Asks, NextContext
<1>6. CASE t.ref \notin DOMAIN Registry
      BY <1>1, <1>2, <1>6 DEF IsRef, Asks
<1> QED BY <1>3, <1>4, <1>5, <1>6

LEMMA RefAgrees ==
    ASSUME NEW f, NEW g, NEW t \in AllTypes, t.kind = "ref", NEW v \in AllValues,
           NEW cx \in Contexts, NEW verdict \in {"yes", "no"},
           Agrees(f, g, Below(t), verdict), IsInner(f, t, v, cx) = verdict
    PROVE  BelongsBy(g, t, v, GuardDegree) <=> verdict = "yes"
<1>1. CASE t.ref \notin DOMAIN Registry
      BY <1>1, RefIs, RefMeans
<1>2. CASE t.ref \in DOMAIN Registry /\ ~Asks(cx, t.ref)
      BY <1>2, RefIs
<1>3. CASE Asks(cx, t.ref)
  <2>1. t.ref \in DOMAIN Registry /\ Registry[t.ref] \in Below(t)
        BY <1>3 DEF Asks, Below
  <2>2. /\ NextContext(cx, t.ref) \in Contexts
        /\ Is(f, Registry[t.ref], v, NextContext(cx, t.ref)) = verdict
        BY <1>3, RefIs
  <2>3. Means(g, Registry[t.ref], v) <=> verdict = "yes"
        BY <2>1, <2>2, IsAgrees
  <2> QED BY <2>1, <2>3, RefMeans
<1> QED BY <1>1, <1>2, <1>3

LEMMA RefOrigin ==
    ASSUME NEW f, NEW t \in AllTypes, t.kind = "ref", NEW v \in AllValues, NEW cx \in Contexts,
           NEW r, r = IsInner(f, t, v, cx), r \notin {"yes", "no"}
    PROVE  \/ t.ref \in DOMAIN Registry /\ ~Asks(cx, t.ref) /\ r = "throws"
           \/ Asks(cx, t.ref) /\ f[Registry[t.ref]][v][NextContext(cx, t.ref)] = r
<1>1. t.ref \in DOMAIN Registry
      BY RefIs
<1>2. CASE ~Asks(cx, t.ref)
      BY <1>1, <1>2, RefIs
<1>3. CASE Asks(cx, t.ref)
  <2>1. Is(f, Registry[t.ref], v, NextContext(cx, t.ref)) = r
        BY <1>3, RefIs
  <2> QED BY <1>3, <2>1, Asked
<1> QED BY <1>2, <1>3

Composed == {"object", "array", "tuple", "union", "intersection", "ref"}

LEMMA PlainIs ==
    ASSUME NEW f, NEW g, NEW t \in AllTypes, t.kind \notin Composed, NEW v \in AllValues, NEW cx
    PROVE  /\ IsInner(f, t, v, cx) \in {"yes", "no"}
           /\ BelongsBy(g, t, v, GuardDegree) <=> IsInner(f, t, v, cx) = "yes"
<1>0. t.kind # "object" /\ t.kind # "array" /\ t.kind # "tuple" /\ t.kind # "union"
      /\ t.kind # "intersection" /\ t.kind # "ref"
      BY DEF Composed
<1>1. CASE t.kind = "atomic"
      BY <1>0, <1>1 DEF IsInner, Verdict, IsAtomic, BelongsBy, InnerBelongs, GuardDegree, Degree
<1>2. CASE t.kind = "literal"
      BY <1>0, <1>2 DEF IsInner, Verdict, BelongsBy, InnerBelongs
<1>3. CASE t.kind = "enum"
      BY <1>0, <1>3 DEF IsInner, Verdict, BelongsBy, InnerBelongs
<1>4. CASE t.kind = "native"
  <2>1. v.tag = "date" <=> v = Date
    <3>1. IsValue(v)
          BY ValuesAssumption DEF ValuesAssumption
    <3> QED BY <3>1 DEF IsValue, Date
  <2> QED BY <1>0, <1>4, <2>1 DEF IsInner, Verdict, BelongsBy, InnerBelongs
<1>5. CASE t.kind = "never"
      BY <1>0, <1>5 DEF IsInner, Verdict, BelongsBy, InnerBelongs
<1>6. CASE t.kind = "void"
      BY <1>0, <1>6 DEF IsInner, Verdict, BelongsBy, InnerBelongs
<1>7. CASE t.kind \notin {"atomic", "literal", "enum", "native", "never", "void"}
      BY <1>0, <1>7 DEF IsInner, Verdict, BelongsBy, InnerBelongs
<1> QED BY <1>1, <1>2, <1>3, <1>4, <1>5, <1>6, <1>7

-----------------------------------------------------------------------------
(* One level of any type. *)

LEMMA LevelAgrees ==
    ASSUME NEW f, NEW M, Unrolls(M), NEW g \in M, NEW t \in AllTypes,
           NEW v \in AllValues, NEW cx \in Contexts, NEW verdict \in {"yes", "no"},
           Agrees(f, g, Below(t), verdict), IsInner(f, t, v, cx) = verdict,
           verdict = "yes" => KnowsLiterals(g),
           verdict = "no" => ~HasLooseDiscriminant(t)
    PROVE  BelongsBy(g, t, v, GuardDegree) <=> verdict = "yes"
<1>1. Agrees(f, g, Parts(t), verdict)
      BY DEF Agrees, Below
<1>2. CASE t.kind = "object"
      BY <1>1, <1>2, ObjectAgrees
<1>3. CASE t.kind = "array"
      BY <1>1, <1>3, ArrayAgrees
<1>4. CASE t.kind = "tuple"
      BY <1>1, <1>4, TupleAgrees
<1>5. CASE t.kind = "union"
      BY <1>1, <1>5, UnionAgrees
<1>6. CASE t.kind = "intersection"
      BY <1>1, <1>6, IntersectionAgrees
<1>7. CASE t.kind = "ref"
      BY <1>7, RefAgrees
<1>8. CASE t.kind \notin Composed
      BY <1>8, PlainIs
<1> QED BY <1>2, <1>3, <1>4, <1>5, <1>6, <1>7, <1>8 DEF Composed

\* Where a verdict comes from that is neither yes nor no.
Origin(f, t, v, cx, r) ==
    \/ FromPart(f, t, cx, r)
    \/ t.kind = "ref" /\ t.ref \in DOMAIN Registry /\ ~Asks(cx, t.ref) /\ r = "throws"
    \/ t.kind = "ref" /\ Asks(cx, t.ref) /\ f[Registry[t.ref]][v][NextContext(cx, t.ref)] = r

LEMMA LevelOrigin ==
    ASSUME NEW f, NEW t \in AllTypes, NEW v \in AllValues, NEW cx \in Contexts,
           NEW r, r = IsInner(f, t, v, cx), r \notin {"yes", "no"}
    PROVE  Origin(f, t, v, cx, r)
<1>1. CASE t.kind = "object"
      BY <1>1, ObjectOrigin DEF Origin
<1>2. CASE t.kind = "array"
      BY <1>2, ArrayOrigin DEF Origin
<1>3. CASE t.kind = "tuple"
      BY <1>3, TupleOrigin DEF Origin
<1>4. CASE t.kind = "union"
      BY <1>4, UnionOrigin DEF Origin
<1>5. CASE t.kind = "intersection"
      BY <1>5, IntersectionOrigin DEF Origin
<1>6. CASE t.kind = "ref"
      BY <1>6, RefOrigin DEF Origin
<1>7. CASE t.kind \notin Composed
      BY <1>7, PlainIs
<1> QED BY <1>1, <1>2, <1>3, <1>4, <1>5, <1>6, <1>7 DEF Composed

LEMMA LevelTyped ==
    ASSUME NEW f \in Expressions, NEW t \in AllTypes, NEW v \in AllValues, NEW cx \in Contexts
    PROVE  IsInner(f, t, v, cx) \in Verdicts
<1> DEFINE r == IsInner(f, t, v, cx)
<1>1. SUFFICES ASSUME r \notin {"yes", "no"} PROVE r \in Verdicts
      BY DEF Verdicts
<1>2. Origin(f, t, v, cx, r)
      BY <1>1, LevelOrigin
<1> HIDE DEF r
<1>3. CASE FromPart(f, t, cx, r)
  <2>1. PICK s \in Parts(t), x \in AllValues : f[s][x][cx] = r
        BY <1>3 DEF FromPart
  <2>2. s \in AllTypes
        BY TypeParts
  <2> QED BY <2>1, <2>2 DEF Expressions
<1>4. CASE r = "throws"
      BY <1>4 DEF Verdicts
<1>5. CASE t.kind = "ref" /\ Asks(cx, t.ref) /\ f[Registry[t.ref]][v][NextContext(cx, t.ref)] = r
  <2>1. Registry[t.ref] \in AllTypes /\ NextContext(cx, t.ref) \in Contexts
        BY <1>5, NameKnown, RefIs DEF Asks
  <2> QED BY <1>5, <2>1 DEF Expressions
<1> QED BY <1>2, <1>3, <1>4, <1>5 DEF Origin

-----------------------------------------------------------------------------
(* The recursive functions of Guards exist: their equations hold.          *)

LEMMA InnerDef ==
    /\ inner \in [Nat -> Expressions]
    /\ \A t \in AllTypes, v \in AllValues, cx \in Contexts : inner[0][t][v][cx] = "overflow"
    /\ \A n \in Nat, t \in AllTypes, v \in AllValues, cx \in Contexts :
            inner[n + 1][t][v][cx] = IsInner(inner[n], t, v, cx)
<1> DEFINE Level(f) == [t \in AllTypes |-> [v \in AllValues |-> [cx \in Contexts |-> IsInner(f, t, v, cx)]]]
           none == [t \in AllTypes |-> [v \in AllValues |-> [cx \in Contexts |-> "overflow"]]]
           step == [f \in Expressions |-> Level(f)]
           Row(g, n) == [t \in AllTypes |-> [v \in AllValues |-> [cx \in Contexts |->
                            IF n = 0 THEN "overflow" ELSE IsInner(g[n - 1], t, v, cx)]]]
           Solves(g) == g = [n \in Nat |-> Row(g, n)]
<1>1. none \in Expressions
      BY DEF Expressions, Verdicts
<1>2. step \in [Expressions -> Expressions]
  <2>1. ASSUME NEW f \in Expressions PROVE Level(f) \in Expressions
        BY LevelTyped DEF Expressions
  <2> HIDE DEF Level
  <2> QED BY <2>1
<1>3. PICK h \in [Nat -> Expressions] : h[0] = none /\ \A n \in Nat : h[n + 1] = step[h[n]]
  <2> HIDE DEF none, step
  <2> QED BY <1>1, <1>2, Iterated
<1>4. ASSUME NEW n \in Nat PROVE h[n] = Row(h, n)
  <2>1. CASE n = 0
    <3>1. Row(h, n) = none
          BY <2>1
    <3> QED BY <1>3, <2>1, <3>1
  <2>2. CASE n # 0
    <3>1. n - 1 \in Nat /\ n - 1 + 1 = n
          BY <2>2
    <3>2. h[n] = step[h[n - 1]] /\ h[n - 1] \in Expressions
      <4> HIDE DEF step
      <4> QED BY <1>3, <3>1
    <3>3. h[n] = Level(h[n - 1])
      <4> HIDE DEF Level
      <4> QED BY <3>2
    <3>4. Row(h, n) = Level(h[n - 1])
          BY <2>2
    <3> QED BY <3>3, <3>4
  <2> QED BY <2>1, <2>2
<1>5. Solves(h)
  <2> HIDE DEF Row
  <2> QED BY <1>4
<1>6. Solves(inner)
  <2>1. inner = CHOOSE g : Solves(g)
        BY DEF inner
  <2> HIDE DEF Solves
  <2> QED BY <1>5, <2>1
<1>7. \A n \in Nat : inner[n] = Row(inner, n)
  <2> HIDE DEF Row
  <2> QED BY <1>6
<1>8. ASSUME NEW t \in AllTypes, NEW v \in AllValues, NEW cx \in Contexts
      PROVE  inner[0][t][v][cx] = "overflow"
  <2>1. Row(inner, 0)[t][v][cx] = "overflow"
        OBVIOUS
  <2> HIDE DEF Row
  <2> QED BY <1>7, <2>1
<1>9. ASSUME NEW n \in Nat, NEW t \in AllTypes, NEW v \in AllValues, NEW cx \in Contexts
      PROVE  inner[n + 1][t][v][cx] = IsInner(inner[n], t, v, cx)
  <2>1. n + 1 # 0 /\ n + 1 - 1 = n /\ inner[n + 1] = Row(inner, n + 1)
    <3> HIDE DEF Row
    <3> QED BY <1>7
  <2>2. Row(inner, n + 1)[t][v][cx] = IsInner(inner[n + 1 - 1], t, v, cx)
        BY <2>1
  <2> QED BY <2>1, <2>2
<1>10. inner \in [Nat -> Expressions]
  <2> DEFINE S == {n \in Nat : inner[n] \in Expressions}
  <2>1. 0 \in S
    <3>1. Row(inner, 0) = none
          OBVIOUS
    <3> HIDE DEF none, Row
    <3> QED BY <1>1, <1>7, <3>1
  <2>2. ASSUME NEW n \in Nat, n \in S PROVE n + 1 \in S
    <3>1. inner[n + 1] = Row(inner, n + 1) /\ n + 1 # 0 /\ n + 1 - 1 = n
      <4> HIDE DEF Row
      <4> QED BY <1>7
    <3>2. Row(inner, n + 1) = Level(inner[n])
          BY <3>1
    <3>3. Level(inner[n]) = step[inner[n]]
      <4> HIDE DEF Level
      <4> QED BY <2>2
    <3> HIDE DEF Level, step, Row
    <3> QED BY <1>2, <2>2, <3>1, <3>2, <3>3
  <2> HIDE DEF S
  <2>3. Nat \subseteq S
        BY <2>1, <2>2, Induction
  <2>4. \A n \in Nat : inner[n] \in Expressions
        BY <2>3 DEF S
  <2>5. inner = [n \in Nat |-> inner[n]]
    <3> HIDE DEF Row
    <3>1. inner = [n \in Nat |-> Row(inner, n)]
          BY <1>6
    <3> QED BY <1>7, <3>1
  <2> QED BY <2>4, <2>5
<1> QED BY <1>8, <1>9, <1>10

LEMMA WithinLevels ==
    ASSUME NEW deg
    PROVE  /\ \A n \in Nat : Within(deg)[n] \in Meanings
           /\ \A t \in AllTypes, v \in AllValues : ~Within(deg)[0][t][v]
           /\ \A n \in Nat, t \in AllTypes, v \in AllValues :
                   Within(deg)[n + 1][t][v] <=> BelongsBy(Within(deg)[n], t, v, deg)
<1> DEFINE Level(f) == [t \in AllTypes |-> [v \in AllValues |-> BelongsBy(f, t, v, deg)]]
           none == [t \in AllTypes |-> [v \in AllValues |-> FALSE]]
           step == [f \in Meanings |-> Level(f)]
           Row(g, n) == [t \in AllTypes |-> [v \in AllValues |->
                            n > 0 /\ BelongsBy(g[n - 1], t, v, deg)]]
           Solves(g) == g = [n \in Nat |-> Row(g, n)]
<1>0. ASSUME NEW f, NEW t, NEW v PROVE BelongsBy(f, t, v, deg) \in BOOLEAN
      BY DEF BelongsBy, InnerBelongs
<1>1. none \in Meanings
      BY DEF Meanings
<1>2. step \in [Meanings -> Meanings]
  <2>1. ASSUME NEW f \in Meanings PROVE Level(f) \in Meanings
        BY <1>0 DEF Meanings
  <2> HIDE DEF Level
  <2> QED BY <2>1
<1>3. PICK h \in [Nat -> Meanings] : h[0] = none /\ \A n \in Nat : h[n + 1] = step[h[n]]
  <2> HIDE DEF none, step
  <2> QED BY <1>1, <1>2, Iterated
<1>4. ASSUME NEW n \in Nat PROVE h[n] = Row(h, n)
  <2>1. CASE n = 0
    <3>1. ~(n > 0)
          BY <2>1
    <3>2. Row(h, n) = none
          BY <3>1
    <3> QED BY <1>3, <2>1, <3>2
  <2>2. CASE n # 0
    <3>1. n - 1 \in Nat /\ n - 1 + 1 = n /\ n > 0
          BY <2>2
    <3>2. h[n] = step[h[n - 1]] /\ h[n - 1] \in Meanings
      <4> HIDE DEF step
      <4> QED BY <1>3, <3>1
    <3>3. h[n] = Level(h[n - 1])
      <4> HIDE DEF Level
      <4> QED BY <3>2
    <3>4. \A t \in AllTypes, v \in AllValues :
            (n > 0 /\ BelongsBy(h[n - 1], t, v, deg)) = BelongsBy(h[n - 1], t, v, deg)
          BY <1>0, <3>1
    <3>5. Row(h, n) = Level(h[n - 1])
          BY <3>4
    <3> QED BY <3>3, <3>5
  <2> QED BY <2>1, <2>2
<1>5. Solves(h)
  <2> HIDE DEF Row
  <2> QED BY <1>4
<1>6. Solves(Within(deg))
  <2>1. Within(deg) = CHOOSE g : Solves(g)
        BY DEF Within
  <2> HIDE DEF Solves
  <2> QED BY <1>5, <2>1
<1>7. \A n \in Nat : Within(deg)[n] = Row(Within(deg), n)
  <2> HIDE DEF Row
  <2> QED BY <1>6
<1>8. ASSUME NEW t \in AllTypes, NEW v \in AllValues PROVE ~Within(deg)[0][t][v]
  <2>1. Row(Within(deg), 0)[t][v] = (0 > 0 /\ BelongsBy(Within(deg)[0 - 1], t, v, deg))
        OBVIOUS
  <2>2. (0 > 0 /\ BelongsBy(Within(deg)[0 - 1], t, v, deg)) = FALSE
        OBVIOUS
  <2> HIDE DEF Row
  <2>3. Within(deg)[0] = Row(Within(deg), 0)
        BY <1>7
  <2>4. Within(deg)[0][t][v] = FALSE
        BY <2>1, <2>2, <2>3
  <2> QED BY <2>4
<1>9. ASSUME NEW n \in Nat, NEW t \in AllTypes, NEW v \in AllValues
      PROVE  Within(deg)[n + 1][t][v] <=> BelongsBy(Within(deg)[n], t, v, deg)
  <2>1. n + 1 > 0 /\ n + 1 - 1 = n /\ Within(deg)[n + 1] = Row(Within(deg), n + 1)
    <3> HIDE DEF Row
    <3> QED BY <1>7
  <2>2. Row(Within(deg), n + 1)[t][v]
            = (n + 1 > 0 /\ BelongsBy(Within(deg)[n + 1 - 1], t, v, deg))
        OBVIOUS
  <2> HIDE DEF Row
  <2> QED BY <2>1, <2>2
<1>10. ASSUME NEW n \in Nat PROVE Within(deg)[n] \in Meanings
  <2>1. ASSUME NEW t \in AllTypes, NEW v \in AllValues
        PROVE  (n > 0 /\ BelongsBy(Within(deg)[n - 1], t, v, deg)) \in BOOLEAN
        BY <1>0
  <2>2. Row(Within(deg), n) \in Meanings
        BY <2>1 DEF Meanings
  <2> HIDE DEF Row
  <2> QED BY <1>7, <2>2
<1> QED BY <1>8, <1>9, <1>10

MeaningsFound == Within(GuardDegree)

LEMMA WithinDef ==
    /\ \A n \in Nat : MeaningsFound[n] \in Meanings
    /\ \A t \in AllTypes, v \in AllValues : ~MeaningsFound[0][t][v]
    /\ \A n \in Nat, t \in AllTypes, v \in AllValues :
            MeaningsFound[n + 1][t][v] <=> BelongsBy(MeaningsFound[n], t, v, GuardDegree)
BY WithinLevels DEF MeaningsFound

LEMMA BelowKnown ==
    ASSUME NEW t \in AllTypes
    PROVE  Below(t) \subseteq AllTypes /\ \A out : BelowWithout(t, out) \subseteq Below(t)
BY TypeParts, NameKnown DEF Below, BelowWithout

LEMMA MetDef ==
    /\ \A n \in Nat, t \in AllTypes : t \in met[n][t]
    /\ \A n \in Nat, t \in AllTypes : \A s \in Below(t) : met[n][s] \subseteq met[n + 1][t]
    /\ \A t \in AllTypes : met[0][t] = {t}
    /\ \A n \in Nat, t \in AllTypes : met[n + 1][t] = {t} \cup UNION {met[n][s] : s \in Below(t)}
<1> DEFINE T == [AllTypes -> SUBSET AllTypes]
           Level(f) == [t \in AllTypes |-> {t} \cup (UNION {f[s] : s \in Below(t)})]
           none == [t \in AllTypes |-> {t}]
           step == [f \in T |-> Level(f)]
           Row(g, n) == [t \in AllTypes |->
                            {t} \cup (IF n = 0 THEN {} ELSE UNION {g[n - 1][s] : s \in Below(t)})]
           Solves(g) == g = [n \in Nat |-> Row(g, n)]
<1>1. none \in T
      OBVIOUS
<1>2. step \in [T -> T]
  <2>1. ASSUME NEW f \in T, NEW t \in AllTypes
        PROVE  {t} \cup (UNION {f[s] : s \in Below(t)}) \subseteq AllTypes
        BY BelowKnown
  <2> QED BY <2>1
<1>3. PICK h \in [Nat -> T] : h[0] = none /\ \A n \in Nat : h[n + 1] = step[h[n]]
  <2> HIDE DEF none, step, T
  <2> QED BY <1>1, <1>2, Iterated
<1>4. ASSUME NEW n \in Nat PROVE h[n] = Row(h, n)
  <2>1. CASE n = 0
    <3>1. Row(h, n) = none
          BY <2>1
    <3> QED BY <1>3, <2>1, <3>1
  <2>2. CASE n # 0
    <3>1. n - 1 \in Nat /\ n - 1 + 1 = n
          BY <2>2
    <3>2. h[n] = step[h[n - 1]] /\ h[n - 1] \in T
      <4> HIDE DEF step, T
      <4> QED BY <1>3, <3>1
    <3>3. h[n] = Level(h[n - 1])
      <4> HIDE DEF Level, T
      <4> QED BY <3>2
    <3>4. Row(h, n) = Level(h[n - 1])
          BY <2>2
    <3> QED BY <3>3, <3>4
  <2> QED BY <2>1, <2>2
<1>5. Solves(h)
  <2> HIDE DEF Row
  <2> QED BY <1>4
<1>6. Solves(met)
  <2>1. met = CHOOSE g : Solves(g)
        BY DEF met
  <2> HIDE DEF Solves
  <2> QED BY <1>5, <2>1
<1>7. \A n \in Nat : met[n] = Row(met, n)
  <2> HIDE DEF Row
  <2> QED BY <1>6
<1>8. ASSUME NEW n \in Nat, NEW t \in AllTypes PROVE t \in met[n][t]
  <2>1. t \in Row(met, n)[t]
        OBVIOUS
  <2> HIDE DEF Row
  <2> QED BY <1>7, <2>1
<1>9. ASSUME NEW n \in Nat, NEW t \in AllTypes, NEW s \in Below(t) PROVE met[n][s] \subseteq met[n + 1][t]
  <2>1. n + 1 # 0 /\ n + 1 - 1 = n
        OBVIOUS
  <2>2. met[n][s] \subseteq Row(met, n + 1)[t]
        BY <2>1
  <2> HIDE DEF Row
  <2> QED BY <1>7, <2>2
<1>10. ASSUME NEW t \in AllTypes PROVE met[0][t] = {t}
  <2>1. Row(met, 0)[t] = {t}
        OBVIOUS
  <2> HIDE DEF Row
  <2> QED BY <1>7, <2>1
<1>11. ASSUME NEW n \in Nat, NEW t \in AllTypes
       PROVE  met[n + 1][t] = {t} \cup UNION {met[n][s] : s \in Below(t)}
  <2>1. n + 1 # 0 /\ n + 1 - 1 = n
        OBVIOUS
  <2>2. Row(met, n + 1)[t] = {t} \cup UNION {met[n][s] : s \in Below(t)}
        BY <2>1
  <2> HIDE DEF Row
  <2> QED BY <1>7, <2>2
<1> QED BY <1>8, <1>9, <1>10, <1>11

RefNames == {t.ref : t \in AllTypes}

LEMMA NamesDef ==
    ASSUME NEW out, NEW names, names = NamesWithout(out)
    PROVE  /\ \A t \in AllTypes : names[0][t] = {}
           /\ \A n \in Nat, t \in AllTypes :
                names[n + 1][t] = (IF t.kind = "ref" THEN {t.ref} ELSE {})
                                  \cup (UNION {names[n][s] : s \in BelowWithout(t, out)})
<1> DEFINE T == [AllTypes -> SUBSET RefNames]
           Own(t) == IF t.kind = "ref" THEN {t.ref} ELSE {}
           Level(f) == [t \in AllTypes |-> Own(t) \cup (UNION {f[s] : s \in BelowWithout(t, out)})]
           none == [t \in AllTypes |-> {}]
           step == [f \in T |-> Level(f)]
           Row(g, n) == [t \in AllTypes |->
                            IF n = 0 THEN {}
                            ELSE Own(t) \cup (UNION {g[n - 1][s] : s \in BelowWithout(t, out)})]
           Solves(g) == g = [n \in Nat |-> Row(g, n)]
<1>1. none \in T
      OBVIOUS
<1>2. step \in [T -> T]
  <2>1. ASSUME NEW f \in T, NEW t \in AllTypes
        PROVE  Own(t) \cup (UNION {f[s] : s \in BelowWithout(t, out)}) \subseteq RefNames
    <3>1. Own(t) \subseteq RefNames
          BY DEF RefNames
    <3>2. BelowWithout(t, out) \subseteq AllTypes
          BY BelowKnown
    <3> HIDE DEF Own
    <3> QED BY <3>1, <3>2
  <2> HIDE DEF Own
  <2> QED BY <2>1
<1>3. PICK h \in [Nat -> T] : h[0] = none /\ \A n \in Nat : h[n + 1] = step[h[n]]
  <2> HIDE DEF none, step, T
  <2> QED BY <1>1, <1>2, Iterated
<1> HIDE DEF Own
<1>4. ASSUME NEW n \in Nat PROVE h[n] = Row(h, n)
  <2>1. CASE n = 0
    <3>1. Row(h, n) = none
          BY <2>1
    <3> QED BY <1>3, <2>1, <3>1
  <2>2. CASE n # 0
    <3>1. n - 1 \in Nat /\ n - 1 + 1 = n
          BY <2>2
    <3>2. h[n] = step[h[n - 1]] /\ h[n - 1] \in T
      <4> HIDE DEF step, T
      <4> QED BY <1>3, <3>1
    <3>3. h[n] = Level(h[n - 1])
      <4> HIDE DEF Level, T
      <4> QED BY <3>2
    <3>4. Row(h, n) = Level(h[n - 1])
          BY <2>2
    <3> QED BY <3>3, <3>4
  <2> QED BY <2>1, <2>2
<1>5. Solves(h)
  <2> HIDE DEF Row
  <2> QED BY <1>4
<1>6. Solves(names)
  <2>1. names = CHOOSE g : Solves(g)
        BY DEF NamesWithout, Own
  <2> HIDE DEF Solves
  <2> QED BY <1>5, <2>1
<1>7. \A n \in Nat : names[n] = Row(names, n)
  <2> HIDE DEF Row
  <2> QED BY <1>6
<1>8. ASSUME NEW t \in AllTypes PROVE names[0][t] = {}
  <2>1. Row(names, 0)[t] = {}
        OBVIOUS
  <2> HIDE DEF Row
  <2> QED BY <1>7, <2>1
<1>9. ASSUME NEW n \in Nat, NEW t \in AllTypes
      PROVE  names[n + 1][t] = Own(t) \cup (UNION {names[n][s] : s \in BelowWithout(t, out)})
  <2>1. n + 1 # 0 /\ n + 1 - 1 = n
        OBVIOUS
  <2>2. Row(names, n + 1)[t] = Own(t) \cup (UNION {names[n][s] : s \in BelowWithout(t, out)})
        BY <2>1
  <2> HIDE DEF Row
  <2> QED BY <1>7, <2>2
<1> QED BY <1>8, <1>9 DEF Own

-----------------------------------------------------------------------------
(* Yes and no, by induction on the levels of nesting.                      *)

AllMeanings == {MeaningsFound[n] : n \in Nat}

LEMMA MeaningsUnroll ==
    /\ Unrolls(AllMeanings)
    /\ \A n \in Nat : MeaningsFound[n] \in AllMeanings /\ KnowsLiterals(MeaningsFound[n + 1])
<1>1. ASSUME NEW n \in Nat, NEW s \in AllTypes, NEW x \in AllValues, MeaningsFound[n][s][x]
      PROVE  \E h \in AllMeanings : BelongsBy(h, s, x, GuardDegree)
  <2>1. n # 0
        BY <1>1, WithinDef
  <2>2. n - 1 \in Nat /\ n - 1 + 1 = n
        BY <2>1
  <2>3. BelongsBy(MeaningsFound[n - 1], s, x, GuardDegree)
        BY <1>1, <2>2, WithinDef
  <2> QED BY <2>2, <2>3 DEF AllMeanings
<1>2. ASSUME NEW n \in Nat, NEW s \in AllTypes, NEW x \in AllValues, s.kind = "literal", x = s.value
      PROVE  MeaningsFound[n + 1][s][x]
      BY <1>2, WithinDef, LiteralMeans
<1> QED BY <1>1, <1>2 DEF Unrolls, AllMeanings, KnowsLiterals

LEMMA YesMeans ==
    ASSUME NEW n \in Nat, NEW t \in AllTypes, NEW v \in AllValues, NEW cx \in Contexts,
           inner[n][t][v][cx] = "yes"
    PROVE  MeaningsFound[n + 1][t][v]
<1> DEFINE S == {m \in Nat : \A s \in AllTypes, x \in AllValues, c \in Contexts :
                                inner[m][s][x][c] = "yes" => MeaningsFound[m + 1][s][x]}
<1>1. 0 \in S
      BY InnerDef
<1>2. ASSUME NEW m \in Nat, m \in S PROVE m + 1 \in S
  <2>1. SUFFICES ASSUME NEW s \in AllTypes, NEW x \in AllValues, NEW c \in Contexts,
                        inner[m + 1][s][x][c] = "yes"
                 PROVE  MeaningsFound[m + 1 + 1][s][x]
        OBVIOUS
  <2>2. Agrees(inner[m], MeaningsFound[m + 1], Below(s), "yes")
        BY <1>2, BelowKnown DEF Agrees
  <2>3. IsInner(inner[m], s, x, c) = "yes"
        BY <2>1, InnerDef
  <2>4. MeaningsFound[m + 1] \in AllMeanings /\ KnowsLiterals(MeaningsFound[m + 1])
        BY MeaningsUnroll
  <2>5. BelongsBy(MeaningsFound[m + 1], s, x, GuardDegree)
        BY <2>2, <2>3, <2>4, MeaningsUnroll, LevelAgrees
  <2>6. m + 1 \in Nat
        OBVIOUS
  <2> QED BY <2>5, <2>6, WithinDef
<1> HIDE DEF S
<1>3. Nat \subseteq S
      BY <1>1, <1>2, Induction
<1> QED BY <1>3 DEF S

LEMMA NoMeans ==
    ASSUME NEW n \in Nat, NEW t \in AllTypes, NEW v \in AllValues, NEW cx \in Contexts,
           inner[n][t][v][cx] = "no"
    PROVE  \/ \A m \in Nat : ~MeaningsFound[m][t][v]
           \/ \E u \in met[n][t] : HasLooseDiscriminant(u)
<1> DEFINE NotFound(s, x) == \A m \in Nat : ~MeaningsFound[m][s][x]
           Faulty(k, s) == \E u \in met[k][s] : HasLooseDiscriminant(u)
           S == {k \in Nat : \A s \in AllTypes, x \in AllValues, c \in Contexts :
                                inner[k][s][x][c] = "no" => NotFound(s, x) \/ Faulty(k, s)}
<1>1. 0 \in S
      BY InnerDef
<1>2. ASSUME NEW k \in Nat, k \in S PROVE k + 1 \in S
  <2>1. SUFFICES ASSUME NEW s \in AllTypes, NEW x \in AllValues, NEW c \in Contexts,
                        inner[k + 1][s][x][c] = "no", ~Faulty(k + 1, s),
                        NEW m \in Nat, MeaningsFound[m][s][x]
                 PROVE  FALSE
        OBVIOUS
  <2>2. ~HasLooseDiscriminant(s) /\ \A u \in Below(s) : ~Faulty(k, u)
        BY <2>1, MetDef
  <2> HIDE DEF Faulty
  <2>3. m # 0
        BY <2>1, WithinDef
  <2>4. m - 1 \in Nat /\ m - 1 + 1 = m
        BY <2>3
  <2>5. BelongsBy(MeaningsFound[m - 1], s, x, GuardDegree)
        BY <2>1, <2>4, WithinDef
  <2>6. Agrees(inner[k], MeaningsFound[m - 1], Below(s), "no")
        BY <1>2, <2>2, <2>4, BelowKnown DEF Agrees
  <2>7. IsInner(inner[k], s, x, c) = "no"
        BY <2>1, InnerDef
  <2>8. MeaningsFound[m - 1] \in AllMeanings
        BY <2>4, MeaningsUnroll
  <2>9. ~BelongsBy(MeaningsFound[m - 1], s, x, GuardDegree)
        BY <2>2, <2>6, <2>7, <2>8, MeaningsUnroll, LevelAgrees
  <2> QED BY <2>5, <2>9
<1> HIDE DEF S
<1>3. Nat \subseteq S
      BY <1>1, <1>2, Induction
<1> QED BY <1>3 DEF S

-----------------------------------------------------------------------------
(* Throws, by induction on the levels of nesting: what is known of an      *)
(* expression that is met in that of the companion's type.                 *)

\* More levels meet more names.
LEMMA NamesGrow ==
    ASSUME NEW out, NEW t \in AllTypes, NEW n \in Nat, NEW m \in Nat, n <= m
    PROVE  NamesWithout(out)[n][t] \subseteq NamesWithout(out)[m][t]
<1> DEFINE names == NamesWithout(out)
           S == {k \in Nat : \A s \in AllTypes : names[k][s] \subseteq names[k + 1][s]}
           U == {k \in Nat : names[n][t] \subseteq names[n + k][t]}
<1> HIDE DEF names
<1>0. /\ \A s \in AllTypes : names[0][s] = {}
      /\ \A k \in Nat, s \in AllTypes :
            names[k + 1][s] = (IF s.kind = "ref" THEN {s.ref} ELSE {})
                              \cup (UNION {names[k][u] : u \in BelowWithout(s, out)})
      BY NamesDef DEF names
<1>1. 0 \in S
      BY <1>0
<1>2. ASSUME NEW k \in Nat, k \in S PROVE k + 1 \in S
  <2>1. ASSUME NEW s \in AllTypes PROVE names[k + 1][s] \subseteq names[k + 1 + 1][s]
    <3>1. BelowWithout(s, out) \subseteq AllTypes
          BY BelowKnown
    <3>2. \A u \in BelowWithout(s, out) : names[k][u] \subseteq names[k + 1][u]
          BY <1>2, <3>1
    <3>3. (UNION {names[k][u] : u \in BelowWithout(s, out)})
            \subseteq UNION {names[k + 1][u] : u \in BelowWithout(s, out)}
          BY <3>2
    <3>4. k + 1 \in Nat
          OBVIOUS
    <3> QED BY <1>0, <3>3, <3>4
  <2> QED BY <2>1
<1>3. Nat \subseteq S
  <2> HIDE DEF S
  <2> QED BY <1>1, <1>2, Induction
<1>4. 0 \in U
      OBVIOUS
<1>5. ASSUME NEW k \in Nat, k \in U PROVE k + 1 \in U
  <2>1. n + k \in Nat /\ n + (k + 1) = n + k + 1
        OBVIOUS
  <2>2. names[n + k][t] \subseteq names[n + k + 1][t]
        BY <1>3, <2>1
  <2> QED BY <1>5, <2>1, <2>2
<1>6. Nat \subseteq U
  <2> HIDE DEF U
  <2> QED BY <1>4, <1>5, Induction
<1>7. m - n \in Nat /\ n + (m - n) = m
      OBVIOUS
<1>8. names[n][t] \subseteq names[m][t]
      BY <1>6, <1>7
<1> QED BY <1>8 DEF names

LEMMA NamesBelow ==
    ASSUME NEW out, NEW t \in AllTypes, NEW n \in Nat
    PROVE  /\ \A s \in BelowWithout(t, out) :
                NamesWithout(out)[n][s] \subseteq NamesWithout(out)[n + 1][t]
           /\ t.kind = "ref" => t.ref \in NamesWithout(out)[n + 1][t]
<1> DEFINE names == NamesWithout(out)
<1>1. names[n + 1][t] = (IF t.kind = "ref" THEN {t.ref} ELSE {})
                        \cup (UNION {names[n][s] : s \in BelowWithout(t, out)})
  <2> HIDE DEF names
  <2> QED BY NamesDef DEF names
<1> HIDE DEF names
<1>2. /\ \A s \in BelowWithout(t, out) : names[n][s] \subseteq names[n + 1][t]
      /\ t.kind = "ref" => t.ref \in names[n + 1][t]
      BY <1>1
<1> QED BY <1>2 DEF names

\* The expression for t, n levels from the bottom, is part of that of
\* is<root>: its names are among those met in the root's type, and, without
\* following the root, among those met in every type being generated.
Nested(n, t, cx) ==
    LET root == cx.root
    IN  /\ root \in cx.generating
        /\ NamesWithout({})[n][t] \subseteq NamesWithout({})[Stack][Registry[root]]
        /\ \A r \in cx.generating \ {root} :
            /\ r \in NamesWithout({})[Stack][Registry[root]]
            /\ NamesWithout({root})[n][t] \subseteq NamesWithout({root})[Stack][Registry[r]]

LEMMA RootNested ==
    ASSUME NEW n \in Nat, n <= Stack, NEW root \in DOMAIN Registry
    PROVE  Nested(n, Registry[root], Context(root))
<1>1. Stack \in Nat
      BY StackAssumption DEF StackAssumption
<1>2. NamesWithout({})[n][Registry[root]] \subseteq NamesWithout({})[Stack][Registry[root]]
      BY <1>1, NameKnown, NamesGrow
<1>3. Context(root).root = root /\ Context(root).generating = {root}
      BY DEF Context
<1> QED BY <1>2, <1>3 DEF Nested

LEMMA PartNested ==
    ASSUME NEW n \in Nat, NEW t \in AllTypes, NEW cx \in Contexts, Nested(n + 1, t, cx),
           NEW s \in Parts(t)
    PROVE  Nested(n, s, cx)
<1>1. \A out : s \in BelowWithout(t, out)
      BY DEF BelowWithout
<1>2. \A out : NamesWithout(out)[n][s] \subseteq NamesWithout(out)[n + 1][t]
      BY <1>1, NamesBelow
<1> QED BY <1>2 DEF Nested

LEMMA NameNested ==
    ASSUME NEW n \in Nat, n + 1 <= Stack, NEW t \in AllTypes, NEW cx \in Contexts,
           Nested(n + 1, t, cx), t.kind = "ref", Asks(cx, t.ref)
    PROVE  Nested(n, Registry[t.ref], NextContext(cx, t.ref))
<1> DEFINE r == t.ref
           root == cx.root
<1>1. Stack \in Nat /\ n <= Stack
      BY StackAssumption DEF StackAssumption
<1>2. r \in DOMAIN Registry /\ Registry[r] \in AllTypes
      BY NameKnown DEF Asks
<1>3. CASE r \in cx.generating
  <2>1. NextContext(cx, r) = Context(r)
        BY <1>3 DEF NextContext
  <2> QED BY <1>1, <1>2, <2>1, RootNested
<1>4. CASE r \notin cx.generating
  <2>1. /\ NextContext(cx, r) = Into(cx, r)
        /\ Into(cx, r).root = root /\ Into(cx, r).generating = cx.generating \cup {r}
        BY <1>2, <1>4, InlinedContext DEF NextContext
  <2>2. root \in cx.generating /\ r # root
        BY <1>4 DEF Nested
  <2>3. Registry[r] \in BelowWithout(t, {}) /\ Registry[r] \in BelowWithout(t, {root})
        BY <1>2, <2>2 DEF BelowWithout
  <2>4. /\ NamesWithout({})[n][Registry[r]] \subseteq NamesWithout({})[n + 1][t]
        /\ NamesWithout({root})[n][Registry[r]] \subseteq NamesWithout({root})[n + 1][t]
        /\ r \in NamesWithout({})[n + 1][t]
        BY <2>3, NamesBelow
  <2>5. NamesWithout({root})[n][Registry[r]] \subseteq NamesWithout({root})[Stack][Registry[r]]
        BY <1>1, <1>2, NamesGrow
  <2> HIDE DEF r, root
  <2> USE DEF root
  <2>6. /\ NamesWithout({})[n + 1][t] \subseteq NamesWithout({})[Stack][Registry[root]]
        /\ \A q \in cx.generating \ {root} :
            /\ q \in NamesWithout({})[Stack][Registry[root]]
            /\ NamesWithout({root})[n + 1][t] \subseteq NamesWithout({root})[Stack][Registry[q]]
        BY DEF Nested
  <2>7. NamesWithout({})[n][Registry[r]] \subseteq NamesWithout({})[Stack][Registry[root]]
        BY <2>4, <2>6
  <2>8. ASSUME NEW q \in (cx.generating \cup {r}) \ {root}
        PROVE  /\ q \in NamesWithout({})[Stack][Registry[root]]
               /\ NamesWithout({root})[n][Registry[r]] \subseteq NamesWithout({root})[Stack][Registry[q]]
    <3>1. CASE q = r
          BY <2>4, <2>5, <2>6, <3>1
    <3>2. CASE q # r
          BY <2>4, <2>6, <3>2
    <3> QED BY <3>1, <3>2
  <2>9. Nested(n, Registry[r], Into(cx, r))
    <3> HIDE DEF root
    <3> QED BY <2>1, <2>2, <2>7, <2>8 DEF Nested
  <2> QED BY <2>1, <2>9 DEF r
<1> QED BY <1>3, <1>4

LEMMA ThrowsMeans ==
    ASSUME NEW n \in Nat, n <= Stack, NEW t \in AllTypes, NEW v \in AllValues, NEW cx \in Contexts,
           Nested(n, t, cx), inner[n][t][v][cx] = "throws"
    PROVE  HasForeignRecursion(cx.root)
<1> DEFINE Holds(k, s, x, c) ==
                k <= Stack /\ Nested(k, s, c) /\ inner[k][s][x][c] = "throws" => HasForeignRecursion(c.root)
           S == {k \in Nat : \A s \in AllTypes, x \in AllValues, c \in Contexts : Holds(k, s, x, c)}
<1>1. 0 \in S
      BY InnerDef
<1>2. ASSUME NEW k \in Nat, k \in S PROVE k + 1 \in S
  <2>1. SUFFICES ASSUME NEW s \in AllTypes, NEW x \in AllValues, NEW c \in Contexts,
                        k + 1 <= Stack, Nested(k + 1, s, c), inner[k + 1][s][x][c] = "throws"
                 PROVE  HasForeignRecursion(c.root)
        OBVIOUS
  <2>2. k <= Stack
        BY <2>1, StackAssumption DEF StackAssumption
  <2>3. Origin(inner[k], s, x, c, "throws")
    <3>1. IsInner(inner[k], s, x, c) = "throws"
          BY <2>1, InnerDef
    <3> QED BY <3>1, LevelOrigin
  <2>4. CASE FromPart(inner[k], s, c, "throws")
    <3>1. PICK u \in Parts(s), y \in AllValues : inner[k][u][y][c] = "throws"
          BY <2>4 DEF FromPart
    <3>2. u \in AllTypes
          BY TypeParts
    <3>3. Nested(k, u, c)
          BY <2>1, PartNested
    <3> QED BY <1>2, <2>2, <3>1, <3>2, <3>3
  <2>5. CASE s.kind = "ref" /\ Asks(c, s.ref) /\ inner[k][Registry[s.ref]][x][NextContext(c, s.ref)] = "throws"
    <3>1. Nested(k, Registry[s.ref], NextContext(c, s.ref))
          BY <2>1, <2>5, NameNested
    <3>2. Registry[s.ref] \in AllTypes /\ NextContext(c, s.ref) \in Contexts
          BY <2>5, NameKnown, RefIs DEF Asks
    <3>3. HasForeignRecursion(NextContext(c, s.ref).root)
          BY <1>2, <2>2, <2>5, <3>1, <3>2
    <3>4. NextContext(c, s.ref).root = c.root
          BY <2>5, InlinedContext DEF NextContext, Context, Asks
    <3> QED BY <3>3, <3>4
  <2>6. CASE s.kind = "ref" /\ s.ref \in DOMAIN Registry /\ ~Asks(c, s.ref)
    <3>1. s.ref \in c.generating /\ s.ref # c.root
          BY <2>6 DEF Asks
    <3>2. /\ s.ref \in NamesWithout({})[Stack][Registry[c.root]]
          /\ NamesWithout({c.root})[k + 1][s] \subseteq NamesWithout({c.root})[Stack][Registry[s.ref]]
          BY <2>1, <3>1 DEF Nested
    <3>3. s.ref \in NamesWithout({c.root})[k + 1][s]
          BY <2>6, NamesBelow
    <3> QED BY <2>6, <3>1, <3>2, <3>3 DEF HasForeignRecursion
  <2> QED BY <2>3, <2>4, <2>5, <2>6 DEF Origin
<1> HIDE DEF S
<1>3. Nat \subseteq S
      BY <1>1, <1>2, Induction
<1> QED BY <1>3 DEF S

-----------------------------------------------------------------------------
(* The calls.                                                              *)

LEMMA GuardMeans ==
    ASSUME NEW name \in DOMAIN Registry, NEW v \in AllValues
    PROVE  /\ IsFunction(name, v) = "yes" => IsMember(name, v, GuardDegree)
           /\ IsFunction(name, v) = "no" /\ IsMember(name, v, GuardDegree) => IsLoose(name)
           /\ IsFunction(name, v) = "throws" => HasForeignRecursion(name)
<1> DEFINE t == Registry[name]
           cx == Context(name)
           r == IsFunction(name, v)
<1>1. Stack \in Nat /\ t \in AllTypes /\ cx \in Contexts /\ cx.root = name
      BY StackAssumption, NameKnown DEF StackAssumption, Context
<1>2. IsMember(name, v, GuardDegree) <=> Admits(t, v) \/ MeaningsFound[Stack + 1][t][v]
      BY DEF IsMember, MeaningsFound
<1>3. /\ r = "yes" => Admits(t, v) \/ inner[Stack][t][v][cx] = "yes"
      /\ r # "yes" => ~Admits(t, v) /\ r = inner[Stack][t][v][cx]
      BY Asked DEF IsFunction
<1>4. ASSUME r = "yes" PROVE IsMember(name, v, GuardDegree)
      BY <1>1, <1>2, <1>3, <1>4, YesMeans
<1>5. ASSUME r = "no", IsMember(name, v, GuardDegree) PROVE IsLoose(name)
  <2>1. inner[Stack][t][v][cx] = "no" /\ MeaningsFound[Stack + 1][t][v]
        BY <1>2, <1>3, <1>5
  <2>2. Stack + 1 \in Nat
        BY <1>1
  <2>3. \E u \in met[Stack][t] : HasLooseDiscriminant(u)
        BY <1>1, <2>1, <2>2, NoMeans
  <2> QED BY <2>3 DEF IsLoose
<1>6. ASSUME r = "throws" PROVE HasForeignRecursion(name)
  <2>1. inner[Stack][t][v][cx] = "throws"
        BY <1>3, <1>6
  <2>2. Nested(Stack, t, cx)
        BY <1>1, RootNested
  <2>3. HasForeignRecursion(cx.root)
        BY <1>1, <2>1, <2>2, ThrowsMeans
  <2> QED BY <1>1, <2>3
<1> QED BY <1>4, <1>5, <1>6

\* The inductive invariant: the type is one of those with a companion, and
\* the value, now and before the last call, is a known one.
GuardInv == /\ type \in TypeNames
            /\ value \in AllValues
            /\ last.before \in AllValues
            /\ GuardExact

LEMMA GuardInit == Init => GuardInv
<1> SUFFICES ASSUME Init PROVE GuardInv
    OBVIOUS
<1>1. type \in TypeNames /\ value \in AllValues
      BY NamesAssumption DEF NamesAssumption, Init
<1>2. last.before \in AllValues /\ last.fn = "none"
      BY ValuesAssumption DEF Init, NoCall, AllValues
<1>3. GuardExact
      BY <1>2 DEF GuardExact, LastWas
<1> QED BY <1>1, <1>2, <1>3 DEF GuardInv

\* Every call notes what it was given and leaves a known value; only is<Name>
\* is noted as such.
LEMMA CallNoted ==
    ASSUME GuardInv, NEW fn, NEW outcome, NEW after, NEW json, Calling(fn, outcome, after, json),
           fn = "is" => outcome = IsFunction(type, value)
    PROVE  GuardInv'
<1>1. type' = type /\ value' \in AllValues
      BY DEF Calling
<1>2. last'.before = value /\ last'.fn = fn /\ last'.outcome = outcome
      BY DEF Calling
<1>3. type \in TypeNames /\ type \in DOMAIN Registry /\ value \in AllValues
      BY NamesAssumption DEF GuardInv, NamesAssumption
<1>4. CASE fn = "is"
  <2>1. /\ outcome = "yes" => IsMember(type, value, GuardDegree)
        /\ outcome = "no" /\ IsMember(type, value, GuardDegree) => IsLoose(type)
        /\ outcome = "throws" => HasForeignRecursion(type)
        BY <1>3, <1>4, GuardMeans
  <2>2. GuardExact'
        BY <1>1, <1>2, <2>1 DEF GuardExact, LastWas
  <2> QED BY <1>1, <1>2, <1>3, <2>2 DEF GuardInv
<1>5. CASE fn # "is"
  <2>1. GuardExact'
        BY <1>2, <1>5 DEF GuardExact, LastWas
  <2> QED BY <1>1, <1>2, <1>3, <2>1 DEF GuardInv
<1> QED BY <1>4, <1>5

LEMMA GuardStep == GuardInv /\ [Next]_vars => GuardInv'
<1> SUFFICES ASSUME GuardInv, [Next]_vars PROVE GuardInv'
    OBVIOUS
<1>1. CASE CallIs
  <2>1. Calling("is", IsFunction(type, value), value, Garbage)
        BY <1>1 DEF CallIs
  <2> QED BY <2>1, CallNoted
<1>2. CASE CallValidate
  <2>1. PICK outcome, after : Calling("validate", outcome, after, Garbage)
        BY <1>2 DEF CallValidate
  <2> QED BY <2>1, CallNoted
<1>3. CASE CallAssert
  <2>1. PICK outcome, after : Calling("assert", outcome, after, Garbage)
        BY <1>3 DEF CallAssert
  <2> QED BY <2>1, CallNoted
<1>4. CASE CallStringifySafe
  <2>1. PICK outcome, after, json : Calling("stringify", outcome, after, json)
        BY <1>4 DEF CallStringifySafe
  <2> QED BY <2>1, CallNoted
<1>5. CASE CallStringifyGuard
  <2>1. PICK outcome, after, json : Calling("stringify", outcome, after, json)
        BY <1>5 DEF CallStringifyGuard
  <2> QED BY <2>1, CallNoted
<1>6. CASE CallStringifyNone
  <2>1. PICK outcome, after, json : Calling("stringify", outcome, after, json)
        BY <1>6 DEF CallStringifyNone
  <2> QED BY <2>1, CallNoted
<1>7. CASE UNCHANGED vars
      BY <1>7 DEF GuardInv, GuardExact, LastWas, vars
<1> QED BY <1>1, <1>2, <1>3, <1>4, <1>5, <1>6, <1>7 DEF Next

\* is<Name> says yes only to values of the type, no to one of them only over
\* a loose discriminant, and throws only for a type that refers to one that
\* is recursive by a way around it (validate_is.go): in every call, whatever
\* the calls before it have left of the value.
THEOREM GuardIsExact == Spec => []GuardExact
<1>1. GuardInv => GuardExact
      BY DEF GuardInv
<1> QED BY <1>1, GuardInit, GuardStep, PTL DEF Spec

-----------------------------------------------------------------------------
(* Transforms: a value that is no text stays, and none becomes undefined.  *)

LEMMA TransformKinds ==
    ASSUME NEW name, NEW x
    PROVE  /\ x.tag # "string" => Transform(name, x) = x
           /\ x # Undef => Transform(name, x) # Undef
BY DEF Transform, Str, Undef

\* The equation of `after` in Transformed.
LEMMA TransformedDef ==
    ASSUME NEW p, IsSequence(p.transforms), NEW x
    PROVE  \E g : /\ g[0] = x
                  /\ \A i \in 1 .. Len(p.transforms) : g[i] = Transform(p.transforms[i], g[i - 1])
                  /\ Transformed(p, x) = g[Len(p.transforms)]
<1> DEFINE L == Len(p.transforms)
           Row(g, i) == IF i = 0 THEN x ELSE Transform(p.transforms[i], g[i - 1])
           Upto(n, g) == g = [i \in 0 .. n |-> Row(g, i)]
           Has(n) == \E g : Upto(n, g)
           S == {n \in Nat : Has(n)}
<1>0. L \in Nat
      BY SequenceDomain
<1>1. 0 \in S
  <2>1. Upto(0, [i \in 0 .. 0 |-> x])
        OBVIOUS
  <2> HIDE DEF Upto
  <2> QED BY <2>1
<1>2. ASSUME NEW n \in Nat, n \in S PROVE n + 1 \in S
  <2>1. PICK g : Upto(n, g)
        BY <1>2
  <2> DEFINE h == [i \in 0 .. n + 1 |-> IF i = n + 1 THEN Row(g, n + 1) ELSE g[i]]
  <2>2. ASSUME NEW i \in 0 .. n + 1 PROVE h[i] = Row(h, i)
    <3>1. CASE i = n + 1
      <4>1. i # 0 /\ i - 1 = n /\ n \in 0 .. n + 1 /\ n # n + 1
            BY <3>1
      <4>2. h[i - 1] = g[n]
            BY <4>1
      <4> QED BY <3>1, <4>1, <4>2
    <3>2. CASE i # n + 1
      <4>1. i \in 0 .. n /\ (i # 0 => i - 1 \in 0 .. n + 1 /\ i - 1 # n + 1)
            BY <3>2
      <4>2. g[i] = Row(g, i)
            BY <2>1, <4>1
      <4> QED BY <3>2, <4>1, <4>2
    <3> QED BY <3>1, <3>2
  <2>3. h = [i \in 0 .. n + 1 |-> h[i]]
        OBVIOUS
  <2> HIDE DEF h, Row
  <2>4. Upto(n + 1, h)
        BY <2>2, <2>3
  <2> HIDE DEF Upto
  <2> QED BY <2>4
<1>3. Has(L)
  <2> HIDE DEF Has
  <2>1. Nat \subseteq S
        BY <1>1, <1>2, Induction
  <2> QED BY <1>0, <2>1
<1> DEFINE g == CHOOSE g : Upto(L, g)
<1>4. Upto(L, g)
  <2> HIDE DEF Upto
  <2> QED BY <1>3
<1>5. Transformed(p, x) = g[L]
      BY DEF Transformed
<1> HIDE DEF g
<1>6. g[0] = x
      BY <1>0, <1>4
<1>7. ASSUME NEW i \in 1 .. L PROVE g[i] = Transform(p.transforms[i], g[i - 1])
  <2>1. i \in 0 .. L /\ i # 0
        BY <1>0
  <2> QED BY <1>4, <2>1
<1> QED BY <1>5, <1>6, <1>7

LEMMA TransformedKinds ==
    ASSUME NEW p, IsSequence(p.transforms), NEW x
    PROVE  /\ x.tag # "string" => Transformed(p, x) = x
           /\ x # Undef => Transformed(p, x) # Undef
           /\ p.transforms = <<>> => Transformed(p, x) = x
<1> DEFINE L == Len(p.transforms)
<1>1. L \in Nat
      BY SequenceDomain
<1>2. PICK g : /\ g[0] = x
               /\ \A i \in 1 .. L : g[i] = Transform(p.transforms[i], g[i - 1])
               /\ Transformed(p, x) = g[L]
      BY TransformedDef
<1> DEFINE Good(y) == (x.tag # "string" => y = x) /\ (x # Undef => y # Undef)
           S == {n \in Nat : n <= L => Good(g[n])}
<1>3. 0 \in S
      BY <1>2
<1>4. ASSUME NEW n \in Nat, n \in S PROVE n + 1 \in S
  <2>1. SUFFICES ASSUME n + 1 <= L PROVE Good(g[n + 1])
        OBVIOUS
  <2>2. n <= L /\ n + 1 \in 1 .. L /\ n + 1 - 1 = n
        BY <1>1, <2>1
  <2>3. g[n + 1] = Transform(p.transforms[n + 1], g[n])
        BY <1>2, <2>2
  <2>4. Good(g[n])
        BY <1>4, <2>2
  <2> QED BY <2>3, <2>4, TransformKinds
<1>5. Good(g[L])
  <2> HIDE DEF S
  <2>1. Nat \subseteq S
        BY <1>3, <1>4, Induction
  <2> QED BY <1>1, <2>1 DEF S
<1>6. p.transforms = <<>> => L = 0
      OBVIOUS
<1> QED BY <1>2, <1>5, <1>6

LEMMA PreparedKinds ==
    ASSUME NEW p, IsSequence(p.transforms), NEW x
    PROVE  /\ Prepared(p, Undef) = Undef
           /\ x # Undef => Prepared(p, x) # Undef
           /\ ~Prepares(p) => Prepared(p, x) = x
<1>1. Transformed(p, Undef) = Undef
      BY TransformedKinds DEF Undef
<1>2. Coerce(p.type, Undef) = Undef
      BY DEF Coerce, Undef
<1>3. ASSUME NEW y, y # Undef PROVE Coerce(p.type, y) # Undef
      BY <1>3 DEF Coerce, Num, Bool, Undef
<1>4. x # Undef => Prepared(p, x) # Undef
      BY <1>3, TransformedKinds DEF Prepared
<1>5. ~Prepares(p) => Prepared(p, x) = x
      BY TransformedKinds DEF Prepared, Prepares
<1> QED BY <1>1, <1>2, <1>4, <1>5 DEF Prepared

-----------------------------------------------------------------------------
(* One level of assert.  Sound tells what the results f of a type mean: an *)
(* accepted value belongs to it by g; Keeps, that it is left as it was.    *)
(* Atomic types keep their values, and g knows the types that refuse       *)
(* undefined.                                                              *)

Keeps(f, s) ==
    \A x \in AllValues, c \in Contexts : f[s][x][c].verdict = "ok" => f[s][x][c].v = x
Accepts(f, g, s) ==
    \A x \in AllValues, c \in Contexts :
        f[s][x][c].verdict = "ok" =>
            /\ f[s][x][c].v = Undef <=> x = Undef
            /\ f[s][x][c].v \in AllValues => g[s][f[s][x][c].v]
Sound(f, g, s) == /\ Accepts(f, g, s)
                  /\ s.kind = "atomic" => Keeps(f, s)
                  /\ RefusesUndefined(s) => ~g[s][Undef]

\* The two degrees that assert may make sure of, and when it does.
AssertDegrees == {AssertDegree, Full}
Suits(t, deg) == deg = Full => ~IsPartlyAsserted(t)

LEMMA ResultParts ==
    /\ \A v, verdict : Result(v, verdict).v = v /\ Result(v, verdict).verdict = verdict
    /\ \A b, v : Expect(b, v).v = v /\ (Expect(b, v).verdict = "ok" <=> b)
<1>1. \A v, verdict : Result(v, verdict).v = v /\ Result(v, verdict).verdict = verdict
      BY DEF Result
<1>2. ASSUME NEW b, NEW v PROVE Expect(b, v).v = v /\ (Expect(b, v).verdict = "ok" <=> b)
      BY <1>1 DEF Expect
<1> QED BY <1>1, <1>2

\* The result on a part of a value, its flags looked at.
LEMMA TypeLeaves ==
    ASSUME NEW f, NEW g, NEW s, Sound(f, g, s), NEW x \in AllValues, NEW cx \in Contexts,
           AssertType(f, s, x, cx).verdict = "ok"
    PROVE  /\ AssertType(f, s, x, cx).v = Undef <=> x = Undef
           /\ AssertType(f, s, x, cx).v \in AllValues => Means(g, s, AssertType(f, s, x, cx).v)
<1>1. CASE Admits(s, x)
  <2>1. AssertType(f, s, x, cx).v = x
        BY <1>1, ResultParts DEF AssertType
  <2> QED BY <1>1, <2>1 DEF Means
<1>2. CASE ~Admits(s, x)
  <2>1. AssertType(f, s, x, cx) = f[s][x][cx]
        BY <1>2 DEF AssertType
  <2> QED BY <2>1 DEF Means, Sound, Accepts
<1> QED BY <1>1, <1>2

LEMMA TypeKept ==
    ASSUME NEW f, NEW s, Keeps(f, s), NEW x \in AllValues, NEW cx \in Contexts,
           AssertType(f, s, x, cx).verdict = "ok"
    PROVE  AssertType(f, s, x, cx).v = x
BY ResultParts DEF AssertType, Keeps

\* A list of checks is passed by passing each.
LEMMA TurnPassed ==
    ASSUME NEW v, NEW rs, NEW n \in Nat, DOMAIN rs = 1 .. n
    PROVE  /\ InTurn(v, rs).v = v
           /\ InTurn(v, rs).verdict = "ok" => \A i \in DOMAIN rs : rs[i].verdict = "ok"
<1> DEFINE vs == [i \in DOMAIN rs |-> rs[i].verdict]
<1>1. DOMAIN vs = 1 .. n
      OBVIOUS
<1>2. InTurn(v, rs).v = v /\ InTurn(v, rs).verdict = InOrder(vs, "ok")
      BY ResultParts DEF InTurn
<1>3. InOrder(vs, "ok") = "ok" => \A i \in DOMAIN vs : vs[i] = "ok"
  <2> HIDE DEF vs
  <2> QED BY <1>1, Chain
<1> QED BY <1>2, <1>3

\* One property: what its checks leave of its value.
AssertChecksHold(p, x) == \A c \in p.checks : c.kind \in AssertKinds => Guarded(c, x)

Leaves(f, p, v, cx) ==
    LET q == AssertProp(f, p, v, cx)
        x == Get(v, p.name)
        y == Prepared(p, x)
    IN  /\ y \in AllValues
        /\ x = Undef => /\ q.v = Undef /\ (p.type.optional \/ ~p.required)
                        /\ p.exact => p.name \notin Keys(v)
        /\ x # Undef => /\ y # Undef
                        /\ AssertType(f, p.type, y, cx).verdict = "ok"
                        /\ q.v = AssertType(f, p.type, y, cx).v
                        /\ AssertChecksHold(p, q.v)

LEMMA PropLeaves ==
    ASSUME NEW f, NEW t \in AllTypes, t.kind = "object", NEW i \in DOMAIN t.props,
           NEW v \in AllValues, NEW cx, AssertProp(f, t.props[i], v, cx).verdict = "ok"
    PROVE  Leaves(f, t.props[i], v, cx)
<1> DEFINE p == t.props[i]
           q == AssertProp(f, p, v, cx)
           x == Get(v, p.name)
           y == Prepared(p, x)
           r == AssertType(f, p.type, y, cx)
<1>1. IsSequence(p.transforms) /\ (p.required \/ p.type.optional)
      BY TypesAssumption DEF TypesAssumption, IsMetadata
<1>2. x \in AllValues /\ Undef \in AllValues
      BY ValueParts
<1>3. y \in AllValues
  <2>1. CASE Prepares(p)
        BY <1>2, <2>1, PreparedAssumption DEF PreparedAssumption
  <2>2. CASE ~Prepares(p)
        BY <1>1, <1>2, <2>2, PreparedKinds
  <2> QED BY <2>1, <2>2
<1>4. ASSUME x = Undef
      PROVE  q.v = Undef /\ (p.type.optional \/ ~p.required) /\ (p.exact => p.name \notin Keys(v))
  <2>1. ~MustBePresent(p)
    <3>1. SUFFICES ASSUME MustBePresent(p) PROVE FALSE
          OBVIOUS
    <3>2. q = Result(x, "rejected")
          BY <1>4, <3>1 DEF AssertProp
    <3> QED BY <3>2, ResultParts
  <2>2. p.type.optional
        BY <1>1, <2>1 DEF MustBePresent
  <2>3. CASE p.exact
    <3>1. q = Expect(p.name \notin Keys(v), x)
          BY <1>4, <2>1, <2>3 DEF AssertProp
    <3>2. q.verdict = "ok"
          OBVIOUS
    <3> DEFINE b == p.name \notin Keys(v)
    <3> HIDE DEF q, x, b
    <3>3. q = Expect(b, x)
          BY <3>1 DEF b
    <3>4. q.v = x /\ b
          BY <3>2, <3>3, ResultParts
    <3>5. q.v = x /\ p.name \notin Keys(v)
          BY <3>4 DEF b
    <3> QED BY <1>4, <2>2, <3>5
  <2>4. CASE ~p.exact
    <3>1. q = r
          BY <1>4, <2>1, <2>4 DEF AssertProp
    <3>2. y = Undef
          BY <1>1, <1>4, PreparedKinds
    <3>3. Admits(p.type, y)
          BY <2>2, <3>2 DEF Admits
    <3>4. r = Result(y, "ok")
          BY <3>3 DEF AssertType
    <3>5. q.v = Undef
      <4> HIDE DEF q, r, y
      <4> QED BY <3>1, <3>2, <3>4, ResultParts
    <3> QED BY <2>2, <2>4, <3>5
  <2> QED BY <2>3, <2>4
<1>5. ASSUME x # Undef
      PROVE  y # Undef /\ r.verdict = "ok" /\ q.v = r.v /\ AssertChecksHold(p, q.v)
  <2>1. y # Undef
        BY <1>1, <1>5, PreparedKinds
  <2>2. q = IF r.verdict = "ok" THEN Expect(AssertChecksHold(p, r.v), r.v) ELSE r
        BY <1>5 DEF AssertProp, AssertChecksHold
  <2>3. r.verdict = "ok"
        BY <2>2
  <2>4. q = Expect(AssertChecksHold(p, r.v), r.v)
        BY <2>2, <2>3
  <2> HIDE DEF q, r, y, p
  <2>5. q.v = r.v /\ (q.verdict = "ok" <=> AssertChecksHold(p, r.v))
        BY <2>4, ResultParts
  <2>6. q.verdict = "ok"
        BY DEF q, p
  <2> QED BY <2>1, <2>3, <2>5, <2>6
<1> QED BY <1>3, <1>4, <1>5 DEF Leaves


AssertMeansProp(g, p, v) ==
    LET x == Get(v, p.name)
    IN  IF x = Undef THEN p.type.optional \/ ~p.required ELSE Means(g, p.type, x) /\ AssertChecksHold(p, x)

LEMMA AssertObjectMeans ==
    ASSUME NEW g, NEW t, NEW v, t.kind = "object"
    PROVE  BelongsBy(g, t, v, AssertDegree)
            <=> IsObject(v) /\ \A i \in DOMAIN t.props : AssertMeansProp(g, t.props[i], v)
BY DEF BelongsBy, InnerBelongs, ObjectBelongs, PropBelongs, AssertDegree, Degree, AssertMeansProp, Means,
       AssertChecksHold

FullMeansProp(g, p, v) ==
    LET x == Get(v, p.name)
    IN  IF x = Undef THEN (p.type.optional \/ ~p.required) /\ (p.exact => p.name \notin Keys(v))
        ELSE /\ Means(g, p.type, x)
             /\ AssertChecksHold(p, x)
             /\ \A i \in DOMAIN p.transforms : Transform(p.transforms[i], x) = x

\* Nothing that assert does not ask for is asked of such an object.
LEMMA FullObjectBelongs ==
    ASSUME NEW g, NEW t, NEW v, t.kind = "object", ~IsPartlyAsserted(t),
           IsObject(v), \A i \in DOMAIN t.props : FullMeansProp(g, t.props[i], v)
    PROVE  BelongsBy(g, t, v, Full)
<1> DEFINE In(s, x) == Admits(s, x) \/ g[s][x]
<1>1. Full.closed /\ Full.kinds = AllKinds
      BY DEF Full, Degree
<1>2. /\ t.strictness # "strict" /\ t.index = <<>>
      /\ \A i \in DOMAIN t.props : \A c \in t.props[i].checks : c.kind \in AssertKinds
      BY DEF IsPartlyAsserted
<1>3. ASSUME NEW i \in DOMAIN t.props PROVE PropBelongs(In, t.props[i], v, Full)
  <2>1. FullMeansProp(g, t.props[i], v) /\ \A c \in t.props[i].checks : c.kind \in AssertKinds
        BY <1>2
  <2> QED BY <1>1, <2>1 DEF PropBelongs, FullMeansProp, Means, AssertChecksHold
<1>4. ObjectBelongs(In, t, v, Full)
      BY <1>2, <1>3 DEF ObjectBelongs
<1> QED BY <1>4 DEF BelongsBy, InnerBelongs

Fits(v, x) == v.tag # "object" => \A k \in DOMAIN x : x[k] = Undef

\* v after the results of its properties have been assigned.
LEMMA Assigned ==
    ASSUME NEW v, NEW x, Fits(v, x)
    PROVE  /\ \A k \in DOMAIN x : Get(Assign(v, x), k) = x[k]
           /\ \A k \in DOMAIN x : x[k] = Undef /\ k \notin Keys(v) => k \notin Keys(Assign(v, x))
           /\ IsObject(v) => IsObject(Assign(v, x))
           /\ v.tag = "object" /\ v = Obj([k \in DOMAIN v.p |-> v.p[k]]) /\ (\A k \in DOMAIN x : x[k] = Get(v, k))
                => Assign(v, x) = v
<1> DEFINE keys == Keys(v) \cup {j \in DOMAIN x : x[j] # Undef}
           fields == [k \in keys |-> IF k \in DOMAIN x THEN x[k] ELSE v.p[k]]
<1>1. CASE v.tag # "object"
  <2>1. Assign(v, x) = v /\ Keys(v) = {}
        BY <1>1 DEF Assign, Keys
  <2> QED BY <1>1, <2>1 DEF Get, Fits
<1>2. CASE v.tag = "object"
  <2>1. Assign(v, x) = Obj(fields)
        BY <1>2 DEF Assign
  <2>2. Obj(fields).tag = "object" /\ Obj(fields).p = fields
        BY DEF Obj
  <2>3. Keys(Assign(v, x)) = keys
    <3> HIDE DEF fields
    <3>1. Keys(Obj(fields)) = DOMAIN fields
          BY <2>2 DEF Keys
    <3>2. DOMAIN fields = keys
          BY DEF fields
    <3> QED BY <2>1, <3>1, <3>2
  <2>4. ASSUME NEW k \in DOMAIN x PROVE Get(Assign(v, x), k) = x[k]
    <3>1. CASE k \in keys
      <4>1. Get(Assign(v, x), k) = fields[k]
        <5> HIDE DEF fields, keys
        <5> QED BY <2>1, <2>2, <2>3, <3>1 DEF Get
      <4>2. fields[k] = x[k]
            BY <3>1
      <4> QED BY <4>1, <4>2
    <3>2. CASE k \notin keys
      <4>1. x[k] = Undef
            BY <3>2
      <4> HIDE DEF keys
      <4> QED BY <2>3, <3>2, <4>1 DEF Get
    <3> QED BY <3>1, <3>2
  <2>5. IsObject(Assign(v, x))
    <3> HIDE DEF fields
    <3> QED BY <2>1, <2>2 DEF IsObject, TypeOf, Null
  <2>6. ASSUME v = Obj([k \in DOMAIN v.p |-> v.p[k]]), \A k \in DOMAIN x : x[k] = Get(v, k)
        PROVE  Assign(v, x) = v
    <3>1. Keys(v) = DOMAIN v.p
          BY <1>2 DEF Keys
    <3>2. ASSUME NEW k \in DOMAIN x PROVE x[k] = IF k \in DOMAIN v.p THEN v.p[k] ELSE Undef
          BY <2>6, <3>1 DEF Get
    <3>3. keys = DOMAIN v.p
          BY <3>1, <3>2
    <3>4. \A k \in keys : (IF k \in DOMAIN x THEN x[k] ELSE v.p[k]) = v.p[k]
          BY <3>2, <3>3
    <3>5. fields = [k \in DOMAIN v.p |-> v.p[k]]
          BY <3>3, <3>4
    <3> HIDE DEF fields
    <3> QED BY <2>1, <2>6, <3>5
  <2>7. ASSUME NEW k \in DOMAIN x, x[k] = Undef, k \notin Keys(v) PROVE k \notin Keys(Assign(v, x))
    <3>1. k \notin keys
          BY <2>7
    <3> HIDE DEF keys
    <3> QED BY <2>3, <3>1
  <2> QED BY <1>2, <2>4, <2>5, <2>6, <2>7
<1> QED BY <1>1, <1>2

LEMMA ObjectLeaves ==
    ASSUME NEW f, NEW t \in AllTypes, t.kind = "object", NEW v \in AllValues, IsObject(v), NEW cx,
           AssertObject(f, t, v, cx).verdict = "ok"
    PROVE  LET o == AssertObject(f, t, v, cx)
               q(i) == AssertProp(f, t.props[i], v, cx)
           IN  /\ \A i \in DOMAIN t.props : q(i).verdict = "ok" /\ Get(o.v, t.props[i].name) = q(i).v
               /\ \A i \in DOMAIN t.props :
                    q(i).v = Undef /\ t.props[i].name \notin Keys(v) => t.props[i].name \notin Keys(o.v)
               /\ IsObject(o.v)
               /\ (\A i \in DOMAIN t.props : q(i).v = Get(v, t.props[i].name)) => o.v = v
<1> DEFINE o == AssertObject(f, t, v, cx)
           q(i) == AssertProp(f, t.props[i], v, cx)
           r == [i \in DOMAIN t.props |-> q(i)]
           at(k) == CHOOSE i \in DOMAIN t.props : t.props[i].name = k
           after == [k \in PropNames(t) |-> r[at(k)].v]
<1>1. /\ IsSequence(t.props)
      /\ \A i, j \in DOMAIN t.props : t.props[i].name = t.props[j].name => i = j
      BY TypesAssumption DEF TypesAssumption, IsMetadata
<1>2. DOMAIN r = 1 .. Len(t.props) /\ Len(t.props) \in Nat
      BY <1>1, SequenceDomain
<1>3. o = InTurn(Assign(v, after), r)
      BY DEF AssertObject
<1>4. o.v = Assign(v, after) /\ \A i \in DOMAIN t.props : q(i).verdict = "ok"
  <2>1. \A i \in DOMAIN r : r[i].verdict = "ok"
    <3> HIDE DEF r, after
    <3> QED BY <1>2, <1>3, TurnPassed
  <2>2. o.v = Assign(v, after)
    <3> HIDE DEF r, after
    <3> QED BY <1>2, <1>3, TurnPassed
  <2> QED BY <2>1, <2>2
<1>5. ASSUME NEW i \in DOMAIN t.props
      PROVE  t.props[i].name \in PropNames(t) /\ after[t.props[i].name] = q(i).v
  <2>1. at(t.props[i].name) \in DOMAIN t.props /\ t.props[at(t.props[i].name)].name = t.props[i].name
        OBVIOUS
  <2>2. at(t.props[i].name) = i
    <3> HIDE DEF at
    <3> QED BY <1>1, <2>1
  <2>3. t.props[i].name \in PropNames(t)
        BY DEF PropNames
  <2> HIDE DEF at
  <2>4. after[t.props[i].name] = r[i].v
        BY <2>2, <2>3
  <2> QED BY <2>3, <2>4
<1>6. \A k \in DOMAIN after : \E i \in DOMAIN t.props : k = t.props[i].name /\ after[k] = q(i).v
  <2>1. ASSUME NEW k \in PropNames(t) PROVE \E i \in DOMAIN t.props : k = t.props[i].name
        BY DEF PropNames
  <2>2. DOMAIN after = PropNames(t)
        OBVIOUS
  <2> HIDE DEF after, q
  <2> QED BY <1>5, <2>1, <2>2
<1>7. Fits(v, after)
  <2>1. SUFFICES ASSUME v.tag # "object", NEW i \in DOMAIN t.props PROVE q(i).v = Undef
    <3> HIDE DEF after, q
    <3> QED BY <1>6 DEF Fits
  <2>2. Get(v, t.props[i].name) = Undef
        BY <2>1 DEF Get, Keys
  <2>3. AssertProp(f, t.props[i], v, cx).verdict = "ok"
        BY <1>4
  <2> HIDE DEF after, o, r, at, q
  <2>4. Leaves(f, t.props[i], v, cx)
        BY <2>3, PropLeaves
  <2>5. AssertProp(f, t.props[i], v, cx).v = Undef
        BY <2>2, <2>4 DEF Leaves
  <2> QED BY <2>5 DEF q
<1>8. DOMAIN after = PropNames(t)
      OBVIOUS
<1> HIDE DEF after, q, o, r, at
<1>9. ASSUME NEW i \in DOMAIN t.props PROVE Get(o.v, t.props[i].name) = q(i).v
  <2> DEFINE k == t.props[i].name
  <2>1. k \in DOMAIN after /\ after[k] = q(i).v
        BY <1>5, <1>8
  <2> HIDE DEF k
  <2>2. \A j \in DOMAIN after : Get(Assign(v, after), j) = after[j]
        BY ONLY <1>7, Assigned
  <2>4. Get(Assign(v, after), k) = after[k]
        BY <2>1, <2>2
  <2>3. Get(o.v, k) = q(i).v
        BY <1>4, <2>1, <2>4
  <2> QED BY <2>3 DEF k
<1>10. IsObject(o.v)
       BY <1>4, <1>7, Assigned
<1>11. ASSUME \A i \in DOMAIN t.props : q(i).v = Get(v, t.props[i].name) PROVE o.v = v
  <2>1. \A k \in DOMAIN after : after[k] = Get(v, k)
        BY <1>6, <1>11
  <2>2. CASE v.tag = "object"
    <3>1. v = Obj([k \in DOMAIN v.p |-> v.p[k]])
      <4>1. IsValue(v)
            BY ValuesAssumption DEF ValuesAssumption
      <4> QED BY <2>2, <4>1 DEF IsValue
    <3> QED BY <1>4, <1>7, <2>1, <2>2, <3>1, Assigned
  <2>3. CASE v.tag # "object"
        BY <1>4, <2>3 DEF Assign
  <2> QED BY <2>2, <2>3
<1>12. (\A i \in DOMAIN t.props : q(i).v = Get(v, t.props[i].name)) => o.v = v
       BY <1>11
<1>13. ASSUME NEW i \in DOMAIN t.props, q(i).v = Undef, t.props[i].name \notin Keys(v)
       PROVE  t.props[i].name \notin Keys(o.v)
  <2>1. t.props[i].name \in DOMAIN after /\ after[t.props[i].name] = Undef
        BY <1>5, <1>8, <1>13
  <2>2. \A j \in DOMAIN after : after[j] = Undef /\ j \notin Keys(v) => j \notin Keys(Assign(v, after))
        BY ONLY <1>7, Assigned
  <2> QED BY <1>4, <1>13, <2>1, <2>2
<1> QED BY <1>4, <1>9, <1>10, <1>12, <1>13 DEF o, q


\* An accepted v has become w.
Delivered(g, t, v, w, deg) ==
    /\ w = Undef <=> v = Undef
    /\ w \in AllValues => BelongsBy(g, t, w, deg)

LEMMA ObjectDelivered ==
    ASSUME NEW f, NEW g, NEW deg \in AssertDegrees, NEW t \in AllTypes, t.kind = "object",
           NEW v \in AllValues, NEW cx \in Contexts, AssertInner(f, t, v, cx).verdict = "ok"
    PROVE  /\ (\A s \in Parts(t) : Sound(f, g, s)) /\ Suits(t, deg) =>
                Delivered(g, t, v, AssertInner(f, t, v, cx).v, deg)
           /\ ~Writes(t) /\ (\A s \in Parts(t) : Keeps(f, s)) => AssertInner(f, t, v, cx).v = v
<1> DEFINE o == AssertObject(f, t, v, cx)
           q(i) == AssertProp(f, t.props[i], v, cx)
<1>1. AssertInner(f, t, v, cx) = IF IsObject(v) THEN o ELSE Result(v, "rejected")
      BY DEF AssertInner
<1>2. IsObject(v) /\ AssertInner(f, t, v, cx) = o /\ o.verdict = "ok"
  <2>1. CASE IsObject(v)
        BY <1>1, <2>1
  <2>2. CASE ~IsObject(v)
    <3>1. AssertInner(f, t, v, cx).verdict = "rejected"
          BY <1>1, <2>2, ResultParts
    <3> QED BY <3>1
  <2> QED BY <2>1, <2>2
<1> HIDE DEF o
<1>3. /\ \A i \in DOMAIN t.props : q(i).verdict = "ok" /\ Get(o.v, t.props[i].name) = q(i).v
      /\ \A i \in DOMAIN t.props :
            q(i).v = Undef /\ t.props[i].name \notin Keys(v) => t.props[i].name \notin Keys(o.v)
      /\ IsObject(o.v)
      /\ (\A i \in DOMAIN t.props : q(i).v = Get(v, t.props[i].name)) => o.v = v
      BY <1>2, ObjectLeaves DEF o
<1>4. v # Undef /\ o.v # Undef
      BY <1>2, <1>3 DEF IsObject, TypeOf, Undef
<1>5. ASSUME NEW i \in DOMAIN t.props
      PROVE  Leaves(f, t.props[i], v, cx) /\ t.props[i].type \in Parts(t)
  <2>1. AssertProp(f, t.props[i], v, cx).verdict = "ok"
        BY <1>3
  <2> QED BY <2>1, PropLeaves, TypeParts
<1>6. ASSUME \A s \in Parts(t) : Sound(f, g, s), Suits(t, deg), o.v \in AllValues
      PROVE  BelongsBy(g, t, o.v, deg)
  <2>1. ASSUME NEW i \in DOMAIN t.props
        PROVE  /\ AssertMeansProp(g, t.props[i], o.v)
               /\ Settled(t.props[i]) => FullMeansProp(g, t.props[i], o.v)
    <3> DEFINE p == t.props[i]
               x == Get(v, p.name)
               y == Prepared(p, x)
               w == Get(o.v, p.name)
    <3>1. w \in AllValues /\ x \in AllValues /\ w = q(i).v
          BY <1>3, <1>6, ValueParts
    <3>2. Sound(f, g, p.type)
          BY <1>5, <1>6
    <3>3. CASE x = Undef
      <4>1. w = Undef /\ (p.type.optional \/ ~p.required) /\ (p.exact => p.name \notin Keys(v))
            BY <1>5, <3>1, <3>3 DEF Leaves
      <4>2. p.exact => p.name \notin Keys(o.v)
            BY <1>3, <3>1, <4>1
      <4> QED BY <4>1, <4>2 DEF AssertMeansProp, FullMeansProp
    <3>4. CASE x # Undef
      <4>1. /\ y \in AllValues /\ y # Undef
            /\ AssertType(f, p.type, y, cx).verdict = "ok" /\ w = AssertType(f, p.type, y, cx).v
            /\ AssertChecksHold(p, w)
            BY <1>5, <3>1, <3>4 DEF Leaves
      <4>2. w # Undef /\ Means(g, p.type, w)
        <5> HIDE DEF p, x, y, w
        <5> QED BY <3>1, <3>2, <4>1, TypeLeaves
      <4>3. ASSUME Settled(p), NEW k \in DOMAIN p.transforms PROVE Transform(p.transforms[k], w) = w
        <5>1. p.transforms # <<>>
              BY <4>3
        <5>2. p.type.kind = "atomic" /\ Transform(p.transforms[k], y) = y
              BY <3>1, <4>3, <5>1 DEF Settled
        <5>3. Keeps(f, p.type)
              BY <3>2, <5>2 DEF Sound
        <5>4. w = y
          <6> HIDE DEF p, x, y, w
          <6> QED BY <4>1, <5>3, TypeKept
        <5> QED BY <5>2, <5>4
      <4> QED BY <4>1, <4>2, <4>3 DEF AssertMeansProp, FullMeansProp
    <3> QED BY <3>3, <3>4
  <2>2. CASE deg = AssertDegree
        BY <1>3, <2>1, <2>2, AssertObjectMeans
  <2>3. CASE deg = Full
    <3>1. ~IsPartlyAsserted(t)
          BY <1>6, <2>3 DEF Suits
    <3>2. \A i \in DOMAIN t.props : FullMeansProp(g, t.props[i], o.v)
          BY <2>1, <3>1 DEF IsPartlyAsserted
    <3> QED BY <1>3, <2>3, <3>1, <3>2, FullObjectBelongs
  <2> QED BY <2>2, <2>3 DEF AssertDegrees
<1>7. ASSUME ~Writes(t), \A s \in Parts(t) : Keeps(f, s) PROVE o.v = v
  <2>1. SUFFICES ASSUME NEW i \in DOMAIN t.props PROVE q(i).v = Get(v, t.props[i].name)
        BY <1>3
  <2> DEFINE p == t.props[i]
             x == Get(v, p.name)
  <2>2. ~Prepares(p) /\ IsSequence(p.transforms)
    <3>1. IsMetadata(t)
          BY TypesAssumption DEF TypesAssumption
    <3> QED BY <1>7, <3>1 DEF Writes, IsMetadata
  <2>3. Prepared(p, x) = x
        BY <2>2, PreparedKinds
  <2>4. CASE x = Undef
        BY <1>5, <2>4 DEF Leaves
  <2>5. CASE x # Undef
    <3>1. x \in AllValues /\ AssertType(f, p.type, x, cx).verdict = "ok" /\ q(i).v = AssertType(f, p.type, x, cx).v
          BY <1>5, <2>3, <2>5, ValueParts DEF Leaves
    <3>2. Keeps(f, p.type)
          BY <1>5, <1>7
    <3> QED BY <3>1, <3>2, TypeKept
  <2> QED BY <2>4, <2>5
<1> QED BY <1>2, <1>4, <1>6, <1>7 DEF Delivered


LEMMA ArrayDelivered ==
    ASSUME NEW f, NEW g, NEW deg \in AssertDegrees, NEW t \in AllTypes, t.kind = "array",
           NEW v \in AllValues, NEW cx \in Contexts, AssertInner(f, t, v, cx).verdict = "ok"
    PROVE  /\ (\A s \in Parts(t) : Sound(f, g, s)) => Delivered(g, t, v, AssertInner(f, t, v, cx).v, deg)
           /\ (\A s \in Parts(t) : Keeps(f, s)) => AssertInner(f, t, v, cx).v = v
<1> DEFINE r == [i \in DOMAIN v.e |-> AssertType(f, t.elem, v.e[i], cx)]
           e == [i \in DOMAIN v.e |-> r[i].v]
           a == InTurn(Arr(e), r)
<1>1. AssertInner(f, t, v, cx) = IF v.tag = "array" THEN a ELSE Result(v, "rejected")
      BY DEF AssertInner, AssertArray
<1>2. v.tag = "array" /\ AssertInner(f, t, v, cx) = a /\ a.verdict = "ok"
  <2> HIDE DEF a
  <2>1. CASE v.tag = "array"
        BY <1>1, <2>1
  <2>2. CASE v.tag # "array"
    <3>1. AssertInner(f, t, v, cx).verdict = "rejected"
          BY <1>1, <2>2, ResultParts
    <3> QED BY <3>1
  <2> QED BY <2>1, <2>2
<1>3. /\ IsSequence(v.e) /\ v = Arr(v.e)
      /\ DOMAIN v.e = 1 .. Len(v.e) /\ Len(v.e) \in Nat
      /\ \A i \in DOMAIN v.e : v.e[i] \in AllValues
  <2>1. IsValue(v)
        BY ValuesAssumption DEF ValuesAssumption
  <2> QED BY <1>2, <2>1, ValueParts, SequenceDomain DEF IsValue
<1>4. DOMAIN r = 1 .. Len(v.e)
      BY <1>3
<1>5. a.v = Arr(e) /\ \A i \in DOMAIN r : r[i].verdict = "ok"
  <2>1. Len(v.e) \in Nat /\ InTurn(Arr(e), r).verdict = "ok"
        BY <1>2, <1>3
  <2> HIDE DEF r, e
  <2> QED BY <1>4, <2>1, TurnPassed
<1>6. ASSUME NEW i \in DOMAIN v.e
      PROVE  AssertType(f, t.elem, v.e[i], cx).verdict = "ok" /\ e[i] = AssertType(f, t.elem, v.e[i], cx).v
      BY <1>5
<1>7. Arr(e).tag = "array" /\ Arr(e).e = e /\ DOMAIN e = DOMAIN v.e
      BY DEF Arr
<1>8. v # Undef /\ Arr(e) # Undef
      BY <1>2, <1>7 DEF Undef
<1>9. t.elem \in Parts(t)
      BY TypeParts
<1>10. ASSUME \A s \in Parts(t) : Sound(f, g, s), Arr(e) \in AllValues
       PROVE  BelongsBy(g, t, Arr(e), deg)
  <2>1. ASSUME NEW i \in DOMAIN v.e PROVE Means(g, t.elem, e[i])
    <3> HIDE DEF e
    <3>1. e[i] \in AllValues
          BY <1>7, <1>10, ValueParts
    <3>2. Sound(f, g, t.elem)
          BY <1>9, <1>10
    <3> QED BY <1>3, <1>6, <3>1, <3>2, TypeLeaves
  <2> HIDE DEF e
  <2> QED BY <1>7, <2>1, ArrayMeans
<1>11. ASSUME \A s \in Parts(t) : Keeps(f, s) PROVE Arr(e) = v
  <2>1. ASSUME NEW i \in DOMAIN v.e PROVE e[i] = v.e[i]
    <3> HIDE DEF e
    <3> QED BY <1>3, <1>6, <1>9, <1>11, TypeKept
  <2>2. e = [i \in DOMAIN v.e |-> e[i]] /\ v.e = [i \in DOMAIN v.e |-> v.e[i]]
        BY <1>3 DEF IsSequence
  <2>3. e = v.e
    <3> HIDE DEF e
    <3> QED BY <2>1, <2>2
  <2> HIDE DEF e
  <2> QED BY <1>3, <2>3
<1> HIDE DEF a, e
<1> QED BY <1>2, <1>5, <1>8, <1>10, <1>11 DEF Delivered

LEMMA TupleDelivered ==
    ASSUME NEW f, NEW g, NEW deg \in AssertDegrees, NEW t \in AllTypes, t.kind = "tuple",
           NEW v \in AllValues, NEW cx \in Contexts, AssertInner(f, t, v, cx).verdict = "ok"
    PROVE  /\ (\A s \in Parts(t) : Sound(f, g, s)) /\ Suits(t, deg) =>
                Delivered(g, t, v, AssertInner(f, t, v, cx).v, deg)
           /\ (\A s \in Parts(t) : Keeps(f, s)) => AssertInner(f, t, v, cx).v = v
<1> DEFINE q(i) == AssertElem(f, t.elems[i], i, v, cx)
           r == [i \in DOMAIN t.elems |-> q(i)]
           e == [i \in DOMAIN v.e |-> IF i \in DOMAIN r THEN r[i].v ELSE v.e[i]]
           a == InTurn(Arr(e), r)
           x(i) == IF i <= Len(v.e) THEN v.e[i] ELSE Undef
<1>1. AssertInner(f, t, v, cx) = IF v.tag = "array" THEN a ELSE Result(v, "rejected")
      BY DEF AssertInner, AssertTuple
<1>2. v.tag = "array" /\ AssertInner(f, t, v, cx) = a /\ a.verdict = "ok"
  <2> HIDE DEF a
  <2>1. CASE v.tag = "array"
        BY <1>1, <2>1
  <2>2. CASE v.tag # "array"
    <3>1. AssertInner(f, t, v, cx).verdict = "rejected"
          BY <1>1, <2>2, ResultParts
    <3> QED BY <3>1
  <2> QED BY <2>1, <2>2
<1>3. /\ IsSequence(v.e) /\ v = Arr(v.e)
      /\ DOMAIN v.e = 1 .. Len(v.e) /\ Len(v.e) \in Nat
      /\ \A i \in DOMAIN v.e : v.e[i] \in AllValues
  <2>1. IsValue(v)
        BY ValuesAssumption DEF ValuesAssumption
  <2> QED BY <1>2, <2>1, ValueParts, SequenceDomain DEF IsValue
<1>4. DOMAIN t.elems = 1 .. Len(t.elems) /\ Len(t.elems) \in Nat
  <2>1. IsSequence(t.elems)
        BY TypesAssumption DEF TypesAssumption, IsMetadata
  <2> QED BY <2>1, SequenceDomain
<1>5. DOMAIN r = 1 .. Len(t.elems)
      BY <1>4
<1>6. a.v = Arr(e) /\ \A i \in DOMAIN r : r[i].verdict = "ok"
  <2> HIDE DEF r, e
  <2> QED BY <1>2, <1>4, <1>5, TurnPassed
<1>7. Arr(e).tag = "array" /\ Arr(e).e = e /\ DOMAIN e = DOMAIN v.e
      BY DEF Arr
<1>8. v # Undef /\ Arr(e) # Undef
      BY <1>2, <1>7 DEF Undef
<1>9. ASSUME NEW i \in DOMAIN t.elems
      PROVE  /\ q(i).verdict = "ok"
             /\ x(i) \in AllValues
             /\ i <= Len(v.e) => i \in DOMAIN v.e /\ e[i] = q(i).v /\ x(i) = v.e[i]
             /\ ~(i <= Len(v.e)) => x(i) = Undef
             /\ t.elems[i].type \in Parts(t)
             /\ q(i) = IF Unasked(t.elems[i], i, v) THEN Result(x(i), "ok")
                       ELSE AssertType(f, t.elems[i].type, x(i), cx)
  <2>1. q(i).verdict = "ok"
        BY <1>6
  <2>2. i <= Len(v.e) => i \in DOMAIN v.e
        BY <1>3, <1>4
  <2>3. i \in DOMAIN v.e => e[i] = q(i).v
        BY <1>5
  <2>4. x(i) \in AllValues
        BY <1>3, <2>2, ValueParts
  <2>5. q(i) = IF Unasked(t.elems[i], i, v) THEN Result(x(i), "ok")
               ELSE AssertType(f, t.elems[i].type, x(i), cx)
        BY DEF AssertElem, Unasked
  <2> HIDE DEF q, e
  <2> QED BY <2>1, <2>2, <2>3, <2>4, <2>5, TypeParts
<1> HIDE DEF q, e, r
<1>10. ASSUME \A s \in Parts(t) : Sound(f, g, s), Suits(t, deg), Arr(e) \in AllValues
       PROVE  BelongsBy(g, t, Arr(e), deg)
  <2>1. IsSequence(e) /\ Len(e) = Len(v.e) /\ \A i \in DOMAIN e : e[i] \in AllValues
    <3>1. IsSequence(e) /\ \A i \in DOMAIN e : e[i] \in AllValues
          BY <1>7, <1>10, ValueParts
    <3>2. DOMAIN e = 1 .. Len(e) /\ Len(e) \in Nat
          BY <3>1, SequenceDomain
    <3> QED BY <1>3, <1>7, <3>1, <3>2
  <2>2. ASSUME NEW i \in DOMAIN t.elems, ~Unasked(t.elems[i], i, Arr(e))
        PROVE  Means(g, t.elems[i].type, IF i <= Len(e) THEN e[i] ELSE Undef)
    <3>1. ~Unasked(t.elems[i], i, v)
          BY <1>7, <2>1, <2>2 DEF Unasked
    <3>2. q(i) = AssertType(f, t.elems[i].type, x(i), cx) /\ q(i).verdict = "ok" /\ x(i) \in AllValues
          BY <1>9, <3>1
    <3>3. Sound(f, g, t.elems[i].type)
          BY <1>9, <1>10
    <3>4. /\ q(i).v = Undef <=> x(i) = Undef
          /\ q(i).v \in AllValues => Means(g, t.elems[i].type, q(i).v)
      <4> HIDE DEF x
      <4> QED BY <3>2, <3>3, TypeLeaves
    <3>5. CASE i <= Len(v.e)
      <4>1. e[i] = q(i).v /\ i \in DOMAIN e
            BY <1>7, <1>9, <3>5
      <4> HIDE DEF x
      <4> QED BY <2>1, <3>4, <3>5, <4>1
    <3>6. CASE ~(i <= Len(v.e))
      <4>1. q(i).v = Undef
            BY <1>9, <3>4, <3>6
      <4>2. Means(g, t.elems[i].type, Undef)
        <5> HIDE DEF x
        <5> QED BY <3>4, <4>1, ValueParts
      <4> QED BY <2>1, <3>6, <4>2
    <3> QED BY <3>5, <3>6
  <2>3. Arr(e).tag = "array" /\ Arr(e).e = e
        BY <1>7
  <2>4. CASE deg = AssertDegree
        BY <1>10, <2>2, <2>3, <2>4, TupleMeans
  <2>5. CASE deg = Full
    <3>1. ~IsPartlyAsserted(t) /\ \A s \in Parts(t) : RefusesUndefined(s) => ~g[s][Undef]
          BY <1>10, <2>5 DEF Suits, Sound
    <3> QED BY <1>10, <2>2, <2>3, <2>5, <3>1, FullTupleBelongs
  <2> QED BY <2>4, <2>5 DEF AssertDegrees
<1>11. ASSUME \A s \in Parts(t) : Keeps(f, s) PROVE Arr(e) = v
  <2>1. ASSUME NEW i \in DOMAIN v.e, i \in DOMAIN t.elems PROVE e[i] = v.e[i]
    <3>1. q(i).verdict = "ok" /\ e[i] = q(i).v /\ x(i) = v.e[i] /\ x(i) \in AllValues
          BY <1>3, <1>9, <2>1
    <3>2. CASE Unasked(t.elems[i], i, v)
      <4>1. q(i) = Result(x(i), "ok")
            BY <1>9, <2>1, <3>2
      <4> HIDE DEF x
      <4> QED BY <3>1, <4>1, ResultParts
    <3>3. CASE ~Unasked(t.elems[i], i, v)
      <4>1. q(i) = AssertType(f, t.elems[i].type, x(i), cx) /\ Keeps(f, t.elems[i].type)
            BY <1>9, <1>11, <2>1, <3>3
      <4> HIDE DEF x
      <4> QED BY <3>1, <4>1, TypeKept
    <3> QED BY <3>2, <3>3
  <2>2. ASSUME NEW i \in DOMAIN v.e, i \notin DOMAIN t.elems PROVE e[i] = v.e[i]
        BY <2>2 DEF e, r
  <2>3. e = [i \in DOMAIN v.e |-> e[i]] /\ v.e = [i \in DOMAIN v.e |-> v.e[i]]
        BY <1>3 DEF IsSequence, e
  <2>4. e = v.e
        BY <2>1, <2>2, <2>3
  <2> QED BY <1>3, <2>4
<1> HIDE DEF a
<1> QED BY <1>2, <1>6, <1>8, <1>10, <1>11 DEF Delivered


\* g holds what the members leave, one after the other.
InSteps(g, f, members, v, cx) ==
    /\ g[0] = Result(v, "ok")
    /\ \A i \in 1 .. Len(members) :
          g[i] = IF g[i - 1].verdict = "ok" THEN f[members[i]][g[i - 1].v][cx] ELSE g[i - 1]
    /\ AssertMembers(f, members, v, cx) = g[Len(members)]

LEMMA MembersDef ==
    ASSUME NEW f, NEW members, IsSequence(members), NEW v, NEW cx
    PROVE  \E g : InSteps(g, f, members, v, cx)
<1> DEFINE L == Len(members)
           Row(g, i) == IF i = 0 THEN Result(v, "ok")
                        ELSE IF g[i - 1].verdict = "ok" THEN f[members[i]][g[i - 1].v][cx] ELSE g[i - 1]
           Upto(n, g) == g = [i \in 0 .. n |-> Row(g, i)]
           Has(n) == \E g : Upto(n, g)
           S == {n \in Nat : Has(n)}
<1>0. L \in Nat
      BY SequenceDomain
<1>1. 0 \in S
  <2>1. Upto(0, [i \in 0 .. 0 |-> Result(v, "ok")])
        OBVIOUS
  <2> HIDE DEF Upto
  <2> QED BY <2>1
<1>2. ASSUME NEW n \in Nat, n \in S PROVE n + 1 \in S
  <2>1. PICK g : Upto(n, g)
        BY <1>2
  <2> DEFINE h == [i \in 0 .. n + 1 |-> IF i = n + 1 THEN Row(g, n + 1) ELSE g[i]]
  <2>2. ASSUME NEW i \in 0 .. n + 1 PROVE h[i] = Row(h, i)
    <3>1. CASE i = n + 1
      <4>1. i # 0 /\ i - 1 = n /\ n \in 0 .. n + 1 /\ n # n + 1
            BY <3>1
      <4>2. h[i - 1] = g[n]
            BY <4>1
      <4> QED BY <3>1, <4>1, <4>2
    <3>2. CASE i # n + 1
      <4>1. i \in 0 .. n /\ (i # 0 => i - 1 \in 0 .. n + 1 /\ i - 1 # n + 1)
            BY <3>2
      <4>2. g[i] = Row(g, i)
            BY <2>1, <4>1
      <4> QED BY <3>2, <4>1, <4>2
    <3> QED BY <3>1, <3>2
  <2>3. h = [i \in 0 .. n + 1 |-> h[i]]
        OBVIOUS
  <2> HIDE DEF h, Row
  <2>4. Upto(n + 1, h)
        BY <2>2, <2>3
  <2> HIDE DEF Upto
  <2> QED BY <2>4
<1>3. Has(L)
  <2> HIDE DEF Has
  <2>1. Nat \subseteq S
        BY <1>1, <1>2, Induction
  <2> QED BY <1>0, <2>1
<1> DEFINE g == CHOOSE g : Upto(L, g)
<1>4. Upto(L, g)
  <2> HIDE DEF Upto
  <2> QED BY <1>3
<1>5. AssertMembers(f, members, v, cx) = g[L]
      BY DEF AssertMembers
<1> HIDE DEF g
<1>6. g[0] = Result(v, "ok")
      BY <1>0, <1>4
<1>7. ASSUME NEW i \in 1 .. L
      PROVE  g[i] = IF g[i - 1].verdict = "ok" THEN f[members[i]][g[i - 1].v][cx] ELSE g[i - 1]
  <2>1. i \in 0 .. L /\ i # 0
        BY <1>0
  <2> QED BY <1>4, <2>1
<1> QED BY <1>5, <1>6, <1>7 DEF InSteps

\* Members that leave a value as it was all accept it.
LEMMA MembersKept ==
    ASSUME NEW f, NEW members, IsSequence(members), \A i \in DOMAIN members : Keeps(f, members[i]),
           NEW v \in AllValues, NEW cx \in Contexts,
           AssertMembers(f, members, v, cx).verdict = "ok"
    PROVE  /\ AssertMembers(f, members, v, cx).v = v
           /\ \A i \in DOMAIN members : f[members[i]][v][cx].verdict = "ok"
<1> DEFINE L == Len(members)
<1>1. L \in Nat /\ DOMAIN members = 1 .. L
      BY SequenceDomain
<1>2. PICK g : InSteps(g, f, members, v, cx)
      BY MembersDef
<1> DEFINE Good(n) == g[n].verdict = "ok" => /\ g[n].v = v
                                             /\ \A i \in 1 .. n : f[members[i]][v][cx].verdict = "ok"
           S == {n \in Nat : n <= L => Good(n)}
<1>3. 0 \in S
  <2>1. g[0].v = v
        BY <1>2, ResultParts DEF InSteps
  <2> QED BY <2>1
<1>4. ASSUME NEW n \in Nat, n \in S PROVE n + 1 \in S
  <2>1. SUFFICES ASSUME n + 1 <= L, g[n + 1].verdict = "ok"
                 PROVE  g[n + 1].v = v /\ \A i \in 1 .. n + 1 : f[members[i]][v][cx].verdict = "ok"
        OBVIOUS
  <2>2. n <= L /\ n + 1 \in 1 .. L /\ n + 1 - 1 = n
        BY <1>1, <2>1
  <2>3. g[n + 1] = IF g[n].verdict = "ok" THEN f[members[n + 1]][g[n].v][cx] ELSE g[n]
        BY <1>2, <2>2 DEF InSteps
  <2>4. g[n].verdict = "ok"
        BY <2>1, <2>3
  <2>5. g[n].v = v /\ \A i \in 1 .. n : f[members[i]][v][cx].verdict = "ok"
        BY <1>4, <2>2, <2>4
  <2>6. f[members[n + 1]][v][cx].verdict = "ok" /\ g[n + 1] = f[members[n + 1]][v][cx]
        BY <2>1, <2>3, <2>4, <2>5
  <2>7. g[n + 1].v = v
        BY <1>1, <2>2, <2>6 DEF Keeps
  <2>8. \A i \in 1 .. n + 1 : i \in 1 .. n \/ i = n + 1
        OBVIOUS
  <2> QED BY <2>5, <2>6, <2>7, <2>8
<1>5. Good(L)
  <2> HIDE DEF Good
  <2>1. Nat \subseteq S
    <3> HIDE DEF S
    <3> QED BY <1>3, <1>4, Induction
  <2> QED BY <1>1, <2>1
<1> QED BY <1>1, <1>2, <1>5 DEF InSteps

LEMMA IntersectionDelivered ==
    ASSUME NEW f, NEW g, NEW deg \in AssertDegrees, NEW t \in AllTypes, t.kind = "intersection",
           NEW v \in AllValues, NEW cx \in Contexts, AssertInner(f, t, v, cx).verdict = "ok",
           \A s \in Parts(t) : Keeps(f, s)
    PROVE  /\ AssertInner(f, t, v, cx).v = v
           /\ (\A s \in Parts(t) : Sound(f, g, s)) => Delivered(g, t, v, AssertInner(f, t, v, cx).v, deg)
<1>1. AssertInner(f, t, v, cx) = AssertMembers(f, t.members, v, cx)
      BY DEF AssertInner
<1>2. IsSequence(t.members) /\ \A i \in DOMAIN t.members : t.members[i] \in Parts(t)
      BY TypesAssumption, TypeParts DEF TypesAssumption, IsMetadata
<1>3. /\ AssertInner(f, t, v, cx).v = v
      /\ \A i \in DOMAIN t.members : f[t.members[i]][v][cx].verdict = "ok" /\ Keeps(f, t.members[i])
      BY <1>1, <1>2, MembersKept
<1>4. ASSUME \A s \in Parts(t) : Sound(f, g, s), NEW i \in DOMAIN t.members PROVE Means(g, t.members[i], v)
  <2>1. f[t.members[i]][v][cx].v = v
        BY <1>3 DEF Keeps
  <2> QED BY <1>2, <1>3, <1>4, <2>1 DEF Sound, Accepts, Means
<1>5. ASSUME \A s \in Parts(t) : Sound(f, g, s) PROVE BelongsBy(g, t, v, deg)
      BY <1>4, <1>5, IntersectionMeans
<1> QED BY <1>3, <1>5 DEF Delivered

LEMMA RefDelivered ==
    ASSUME NEW f, NEW g, NEW deg \in AssertDegrees, NEW t \in AllTypes, t.kind = "ref",
           NEW v \in AllValues, NEW cx \in Contexts, AssertInner(f, t, v, cx).verdict = "ok"
    PROVE  /\ (\A s \in Below(t) : Sound(f, g, s)) => Delivered(g, t, v, AssertInner(f, t, v, cx).v, deg)
           /\ (\A s \in Below(t) : Keeps(f, s)) => AssertInner(f, t, v, cx).v = v
<1> DEFINE r == AssertInner(f, t, v, cx)
<1>1. r = AssertRef(f, t, v, cx)
      BY DEF AssertInner
<1>2. cx.generating \subseteq DOMAIN Registry
      BY DEF Contexts
<1>3. CASE t.ref \notin DOMAIN Registry
  <2>1. r = Result(v, "ok")
        BY <1>1, <1>2, <1>3 DEF AssertRef
  <2>2. r.v = v
        BY <2>1, ResultParts
  <2> HIDE DEF r
  <2>3. BelongsBy(g, t, v, deg)
        BY <1>3, RefMeans
  <2> QED BY <2>2, <2>3 DEF r, Delivered
<1>4. CASE t.ref \in DOMAIN Registry
  <2> DEFINE s == Registry[t.ref]
  <2>1. s \in Below(t)
        BY <1>4 DEF Below
  <2>2. \E c \in Contexts : r = AssertType(f, s, v, c)
    <3>1. Context(t.ref) \in Contexts /\ Into(cx, t.ref) \in Contexts
          BY <1>4, NameKnown, InlinedContext
    <3>2. CASE t.ref \notin cx.generating
      <4>1. r = AssertType(f, s, v, Into(cx, t.ref))
            BY <1>1, <1>4, <3>2 DEF AssertRef
      <4> QED BY <3>1, <4>1
    <3>3. CASE t.ref \in cx.generating /\ t.ref = cx.root
      <4>1. r = AssertType(f, s, v, Context(t.ref))
            BY <1>1, <1>4, <3>3 DEF AssertRef
      <4> QED BY <3>1, <4>1
    <3>4. CASE t.ref \in cx.generating /\ t.ref # cx.root
      <4>1. r = Result(v, "throws")
            BY <1>1, <1>4, <3>4 DEF AssertRef
      <4> QED BY <4>1, ResultParts
    <3> QED BY <3>2, <3>3, <3>4
  <2>3. PICK c \in Contexts : r = AssertType(f, s, v, c)
        BY <2>2
  <2>4. r.verdict = "ok"
        OBVIOUS
  <2> HIDE DEF r, s
  <2>5. ASSUME Sound(f, g, s) PROVE Delivered(g, t, v, r.v, deg)
    <3>1. /\ r.v = Undef <=> v = Undef
          /\ r.v \in AllValues => Means(g, s, r.v)
          BY <2>3, <2>4, <2>5, TypeLeaves
    <3>2. Means(g, s, r.v) => BelongsBy(g, t, r.v, deg)
          BY RefMeans DEF s
    <3> QED BY <3>1, <3>2 DEF Delivered
  <2>6. ASSUME Keeps(f, s) PROVE r.v = v
        BY <2>3, <2>4, <2>6, TypeKept
  <2> QED BY <2>1, <2>5, <2>6 DEF r
<1> QED BY <1>3, <1>4

LEMMA UnionDelivered ==
    ASSUME NEW f, NEW g, NEW deg \in AssertDegrees, NEW t \in AllTypes, t.kind = "union",
           NEW v \in AllValues, NEW cx, AssertInner(f, t, v, cx).verdict = "ok"
    PROVE  /\ AssertInner(f, t, v, cx).v = v
           /\ ~IsOpenUnion(t) /\ KnowsLiterals(g) => Delivered(g, t, v, AssertInner(f, t, v, cx).v, deg)
<1> DEFINE matches == AllLiterals(t.members) => \E i \in DOMAIN t.members : v = t.members[i].value
<1>1. AssertInner(f, t, v, cx) = Expect(matches, v)
      BY DEF AssertInner, AssertUnion
<1>2. AssertInner(f, t, v, cx).v = v /\ matches
  <2> HIDE DEF matches
  <2> QED BY <1>1, ResultParts
<1>3. ASSUME ~IsOpenUnion(t), KnowsLiterals(g) PROVE BelongsBy(g, t, v, deg)
  <2>1. AllLiterals(t.members)
        BY <1>3 DEF IsOpenUnion
  <2>2. PICK i \in DOMAIN t.members : v = t.members[i].value
        BY <1>2, <2>1
  <2>3. t.members[i].kind = "literal" /\ t.members[i] \in AllTypes
        BY <2>1, TypeParts DEF AllLiterals
  <2>4. g[t.members[i]][v]
        BY <1>3, <2>2, <2>3 DEF KnowsLiterals
  <2> QED BY <2>4, UnionMeans DEF Means
<1> QED BY <1>2, <1>3 DEF Delivered

LEMMA PlainDelivered ==
    ASSUME NEW f, NEW g, NEW deg \in AssertDegrees, NEW t \in AllTypes, t.kind \notin Composed,
           NEW v \in AllValues, NEW cx, AssertInner(f, t, v, cx).verdict = "ok"
    PROVE  AssertInner(f, t, v, cx).v = v /\ Delivered(g, t, v, AssertInner(f, t, v, cx).v, deg)
<1>0. t.kind # "object" /\ t.kind # "array" /\ t.kind # "tuple" /\ t.kind # "union"
      /\ t.kind # "intersection" /\ t.kind # "ref"
      BY DEF Composed
<1>1. \E b : /\ AssertInner(f, t, v, cx) = Expect(b, v)
             /\ b => BelongsBy(g, t, v, deg)
  <2>1. CASE t.kind = "atomic"
    <3>1. AssertInner(f, t, v, cx) = Expect(IsAtomic(t, v), v)
          BY <1>0, <2>1 DEF AssertInner, IsAtomic
    <3>2. IsAtomic(t, v) => BelongsBy(g, t, v, deg)
          BY <1>0, <2>1 DEF IsAtomic, BelongsBy, InnerBelongs
    <3> QED BY <3>1, <3>2
  <2>2. CASE t.kind = "literal"
    <3>1. AssertInner(f, t, v, cx) = Expect(v = t.value, v)
          BY <1>0, <2>2 DEF AssertInner
    <3>2. v = t.value => BelongsBy(g, t, v, deg)
          BY <2>2, LiteralMeans
    <3> QED BY <3>1, <3>2
  <2>3. CASE t.kind = "enum"
    <3>1. AssertInner(f, t, v, cx) = Expect(v \in t.values, v)
          BY <1>0, <2>3 DEF AssertInner
    <3>2. v \in t.values => BelongsBy(g, t, v, deg)
          BY <2>3 DEF BelongsBy, InnerBelongs
    <3> QED BY <3>1, <3>2
  <2>4. CASE t.kind = "native"
    <3>1. AssertInner(f, t, v, cx) = Expect(v.tag = "date", v)
          BY <1>0, <2>4 DEF AssertInner
    <3>2. IsValue(v)
          BY ValuesAssumption DEF ValuesAssumption
    <3>3. v.tag = "date" => BelongsBy(g, t, v, deg)
          BY <2>4, <3>2 DEF BelongsBy, InnerBelongs, IsValue
    <3> QED BY <3>1, <3>3
  <2>5. CASE t.kind = "void"
    <3>1. AssertInner(f, t, v, cx) = Expect(v = Undef, v)
          BY <1>0, <2>5 DEF AssertInner
    <3>2. v = Undef => BelongsBy(g, t, v, deg)
          BY <2>5 DEF BelongsBy, InnerBelongs
    <3> QED BY <3>1, <3>2
  <2>6. CASE t.kind = "never"
    <3>1. AssertInner(f, t, v, cx) = Result(v, "rejected")
          BY <1>0, <2>6 DEF AssertInner
    <3> QED BY <3>1, ResultParts
  <2>7. CASE t.kind \notin {"atomic", "literal", "enum", "native", "never", "void"}
    <3>1. AssertInner(f, t, v, cx) = Result(v, "ok")
          BY <1>0, <2>7 DEF AssertInner
    <3>2. BelongsBy(g, t, v, deg)
          BY <1>0, <2>7 DEF BelongsBy, InnerBelongs
    <3>3. Result(v, "ok") = Expect(TRUE, v)
          BY DEF Expect
    <3> QED BY <3>1, <3>2, <3>3
  <2> QED BY <2>1, <2>2, <2>3, <2>4, <2>5, <2>6, <2>7
<1>2. PICK b : /\ AssertInner(f, t, v, cx) = Expect(b, v)
               /\ b => BelongsBy(g, t, v, deg)
      BY <1>1
<1>3. AssertInner(f, t, v, cx).v = v /\ b
      BY <1>2, ResultParts
<1> QED BY <1>2, <1>3 DEF Delivered


-----------------------------------------------------------------------------
(* One level of any type. *)

LEMMA LevelKeeps ==
    ASSUME NEW f, NEW t \in AllTypes, \A s \in Below(t) : Keeps(f, s), ~Writes(t),
           NEW v \in AllValues, NEW cx \in Contexts, AssertInner(f, t, v, cx).verdict = "ok"
    PROVE  AssertInner(f, t, v, cx).v = v
<1>0. AssertDegree \in AssertDegrees
      BY DEF AssertDegrees
<1>1. \A s \in Parts(t) : Keeps(f, s)
      BY DEF Below
<1>2. CASE t.kind = "object"
      BY <1>0, <1>1, <1>2, ObjectDelivered
<1>3. CASE t.kind = "array"
      BY <1>0, <1>1, <1>3, ArrayDelivered
<1>4. CASE t.kind = "tuple"
      BY <1>0, <1>1, <1>4, TupleDelivered
<1>5. CASE t.kind = "union"
      BY <1>0, <1>5, UnionDelivered
<1>6. CASE t.kind = "intersection"
      BY <1>0, <1>1, <1>6, IntersectionDelivered
<1>7. CASE t.kind = "ref"
      BY <1>0, <1>7, RefDelivered
<1>8. CASE t.kind \notin Composed
      BY <1>0, <1>8, PlainDelivered
<1> QED BY <1>2, <1>3, <1>4, <1>5, <1>6, <1>7, <1>8 DEF Composed

LEMMA LevelDelivers ==
    ASSUME NEW f, NEW g, NEW deg \in AssertDegrees, NEW t \in AllTypes, \A s \in Below(t) : Sound(f, g, s),
           KnowsLiterals(g), ~IsOpenUnion(t), Suits(t, deg),
           t.kind = "intersection" => \A s \in Parts(t) : Keeps(f, s),
           NEW v \in AllValues, NEW cx \in Contexts, AssertInner(f, t, v, cx).verdict = "ok"
    PROVE  Delivered(g, t, v, AssertInner(f, t, v, cx).v, deg)
<1>1. \A s \in Parts(t) : Sound(f, g, s)
      BY DEF Below
<1>2. CASE t.kind = "object"
      BY <1>1, <1>2, ObjectDelivered
<1>3. CASE t.kind = "array"
      BY <1>1, <1>3, ArrayDelivered
<1>4. CASE t.kind = "tuple"
      BY <1>1, <1>4, TupleDelivered
<1>5. CASE t.kind = "union"
      BY <1>5, UnionDelivered
<1>6. CASE t.kind = "intersection"
      BY <1>1, <1>6, IntersectionDelivered
<1>7. CASE t.kind = "ref"
      BY <1>7, RefDelivered
<1>8. CASE t.kind \notin Composed
      BY <1>8, PlainDelivered
<1> QED BY <1>2, <1>3, <1>4, <1>5, <1>6, <1>7, <1>8 DEF Composed

-----------------------------------------------------------------------------
(* All levels. *)

LEMMA AsserterDef ==
    /\ \A t \in AllTypes, v \in AllValues, cx \in Contexts : asserter[0][t][v][cx] = Result(v, "overflow")
    /\ \A n \in 0 .. Stack : n < Stack => \A t \in AllTypes, v \in AllValues, cx \in Contexts :
            asserter[n + 1][t][v][cx] = AssertInner(asserter[n], t, v, cx)
<1> DEFINE Row(g, n) == [t \in AllTypes |-> [v \in AllValues |-> [cx \in Contexts |->
                            IF n = 0 THEN Result(v, "overflow") ELSE AssertInner(g[n - 1], t, v, cx)]]]
           Upto(n, g) == g = [i \in 0 .. n |-> Row(g, i)]
           Has(n) == \E g : Upto(n, g)
           S == {n \in Nat : Has(n)}
<1>0. Stack \in Nat
      BY StackAssumption DEF StackAssumption
<1>1. 0 \in S
  <2> DEFINE none == [t \in AllTypes |-> [v \in AllValues |-> [cx \in Contexts |-> Result(v, "overflow")]]]
             h == [i \in 0 .. 0 |-> none]
  <2>1. \A i \in 0 .. 0 : Row(h, i) = none
        OBVIOUS
  <2>2. h = [i \in 0 .. 0 |-> Row(h, i)]
    <3> HIDE DEF Row, none
    <3>1. h = [i \in 0 .. 0 |-> none]
          OBVIOUS
    <3> HIDE DEF h
    <3> QED BY <2>1, <3>1
  <2> HIDE DEF Row, h
  <2> QED BY <2>2
<1>2. ASSUME NEW n \in Nat, n \in S PROVE n + 1 \in S
  <2>1. PICK g : Upto(n, g)
        BY <1>2
  <2> DEFINE h == [i \in 0 .. n + 1 |-> IF i = n + 1 THEN Row(g, n + 1) ELSE g[i]]
  <2>2. ASSUME NEW i \in 0 .. n + 1 PROVE h[i] = Row(h, i)
    <3>1. CASE i = n + 1
      <4>1. i # 0 /\ i - 1 = n /\ n \in 0 .. n + 1 /\ n # n + 1 /\ n + 1 - 1 = n
            BY <3>1
      <4>2. h[n] = g[n]
            BY <4>1
      <4>3. h[i] = Row(g, i)
        <5> HIDE DEF Row
        <5> QED BY <3>1
      <4> HIDE DEF h
      <4>4. Row(g, i) = Row(h, i)
            BY <4>1, <4>2
      <4> QED BY <4>3, <4>4
    <3>2. CASE i # n + 1
      <4>1. i \in 0 .. n /\ (i # 0 => i - 1 \in 0 .. n + 1 /\ i - 1 # n + 1)
            BY <3>2
      <4>2. h[i] = g[i] /\ (i # 0 => h[i - 1] = g[i - 1])
        <5> HIDE DEF Row
        <5> QED BY <3>2, <4>1
      <4>3. g[i] = Row(g, i)
        <5> HIDE DEF Row
        <5> QED BY <2>1, <4>1
      <4> HIDE DEF h
      <4>4. Row(g, i) = Row(h, i)
            BY <4>2
      <4> QED BY <4>2, <4>3, <4>4
    <3> QED BY <3>1, <3>2
  <2>3. h = [i \in 0 .. n + 1 |-> h[i]]
    <3> HIDE DEF Row
    <3> QED OBVIOUS
  <2> HIDE DEF h, Row
  <2>4. Upto(n + 1, h)
        BY <2>2, <2>3
  <2> HIDE DEF Upto
  <2> QED BY <2>4
<1>3. Has(Stack)
  <2> HIDE DEF Has
  <2>1. Nat \subseteq S
        BY <1>1, <1>2, Induction
  <2> QED BY <1>0, <2>1
<1>4. Upto(Stack, asserter)
  <2>1. asserter = CHOOSE g : Upto(Stack, g)
        BY DEF asserter
  <2> HIDE DEF Upto
  <2> QED BY <1>3, <2>1
<1>5. \A n \in 0 .. Stack : asserter[n] = Row(asserter, n)
  <2> HIDE DEF Row
  <2> QED BY <1>4
<1>6. ASSUME NEW t \in AllTypes, NEW v \in AllValues, NEW cx \in Contexts
      PROVE  asserter[0][t][v][cx] = Result(v, "overflow")
  <2>1. Row(asserter, 0)[t][v][cx] = Result(v, "overflow")
        OBVIOUS
  <2> HIDE DEF Row
  <2> QED BY <1>0, <1>5, <2>1
<1>7. ASSUME NEW n \in 0 .. Stack, n < Stack, NEW t \in AllTypes, NEW v \in AllValues, NEW cx \in Contexts
      PROVE  asserter[n + 1][t][v][cx] = AssertInner(asserter[n], t, v, cx)
  <2>1. n + 1 # 0 /\ n + 1 - 1 = n /\ n + 1 \in 0 .. Stack
        BY <1>0, <1>7
  <2>2. Row(asserter, n + 1)[t][v][cx] = AssertInner(asserter[n + 1 - 1], t, v, cx)
        BY <2>1
  <2> HIDE DEF Row
  <2> QED BY <1>5, <2>1, <2>2
<1> QED BY <1>6, <1>7

LEMMA MetGrows ==
    ASSUME NEW n \in Nat, NEW t \in AllTypes
    PROVE  met[n][t] \subseteq met[n + 1][t]
<1> DEFINE S == {m \in Nat : \A s \in AllTypes : met[m][s] \subseteq met[m + 1][s]}
<1>1. 0 \in S
  <2>1. ASSUME NEW s \in AllTypes PROVE met[0][s] \subseteq met[0 + 1][s]
    <3>1. s \in met[0 + 1][s]
          BY MetDef
    <3> QED BY <3>1, MetDef
  <2> QED BY <2>1
<1>2. ASSUME NEW m \in Nat, m \in S PROVE m + 1 \in S
  <2>1. ASSUME NEW s \in AllTypes PROVE met[m + 1][s] \subseteq met[m + 1 + 1][s]
    <3>1. m + 1 \in Nat
          OBVIOUS
    <3>2. /\ met[m + 1][s] = {s} \cup UNION {met[m][u] : u \in Below(s)}
          /\ met[m + 1 + 1][s] = {s} \cup UNION {met[m + 1][u] : u \in Below(s)}
          BY <3>1, MetDef
    <3>3. \A u \in Below(s) : met[m][u] \subseteq met[m + 1][u]
          BY <1>2, BelowKnown
    <3> QED BY <3>2, <3>3
  <2> QED BY <2>1
<1> HIDE DEF S
<1>3. Nat \subseteq S
      BY <1>1, <1>2, Induction
<1> QED BY <1>3 DEF S

LEMMA MetSoon ==
    ASSUME NEW n \in Nat, n <= Stack, NEW t \in AllTypes
    PROVE  met[n][t] \subseteq met[Stack][t]
<1> DEFINE S == {k \in Nat : met[n][t] \subseteq met[n + k][t]}
<1>1. 0 \in S
  <2>1. n + 0 = n
        OBVIOUS
  <2> QED BY <2>1
<1>2. ASSUME NEW k \in Nat, k \in S PROVE k + 1 \in S
  <2>1. n + k \in Nat /\ n + (k + 1) = n + k + 1
        OBVIOUS
  <2> QED BY <1>2, <2>1, MetGrows
<1>3. Stack - n \in S
  <2>1. Stack - n \in Nat
        BY StackAssumption DEF StackAssumption
  <2> HIDE DEF S
  <2> QED BY <1>1, <1>2, <2>1, Induction
<1>4. n + (Stack - n) = Stack
      BY StackAssumption DEF StackAssumption
<1> QED BY <1>3, <1>4

\* A type in which no property is transformed or coerced leaves values alone.
StaysPut(n, t) == \A u \in met[n][t] : ~Writes(u)

LEMMA StaysPutKeeps ==
    ASSUME NEW n \in Nat, n <= Stack, NEW t \in AllTypes, StaysPut(n, t)
    PROVE  Keeps(asserter[n], t)
<1> DEFINE S == {m \in Nat : m <= Stack => \A s \in AllTypes : StaysPut(m, s) => Keeps(asserter[m], s)}
<1>1. 0 \in S
  <2>1. ASSUME NEW s \in AllTypes PROVE Keeps(asserter[0], s)
        BY AsserterDef, ResultParts DEF Keeps
  <2> QED BY <2>1
<1>2. ASSUME NEW m \in Nat, m \in S PROVE m + 1 \in S
  <2>1. SUFFICES ASSUME m + 1 <= Stack, NEW s \in AllTypes, StaysPut(m + 1, s)
                 PROVE  Keeps(asserter[m + 1], s)
        OBVIOUS
  <2>2. m \in 0 .. Stack /\ m < Stack /\ m <= Stack
        BY <2>1, StackAssumption DEF StackAssumption
  <2>3. ASSUME NEW u \in Below(s) PROVE Keeps(asserter[m], u)
    <3>1. u \in AllTypes /\ met[m][u] \subseteq met[m + 1][s]
          BY BelowKnown, MetDef
    <3>2. StaysPut(m, u)
          BY <2>1, <3>1 DEF StaysPut
    <3> QED BY <1>2, <2>2, <3>1, <3>2
  <2>4. ~Writes(s)
    <3>1. m + 1 \in Nat
          OBVIOUS
    <3>2. s \in met[m + 1][s]
          BY <3>1, MetDef
    <3> QED BY <2>1, <3>2 DEF StaysPut
  <2>5. ASSUME NEW x \in AllValues, NEW c \in Contexts, asserter[m + 1][s][x][c].verdict = "ok"
        PROVE  asserter[m + 1][s][x][c].v = x
    <3>1. asserter[m + 1][s][x][c] = AssertInner(asserter[m], s, x, c)
          BY <2>2, AsserterDef
    <3> QED BY <2>3, <2>4, <2>5, <3>1, LevelKeeps
  <2> QED BY <2>5 DEF Keeps
<1> HIDE DEF S
<1>3. Nat \subseteq S
      BY <1>1, <1>2, Induction
<1> QED BY <1>3 DEF S

\* A type that refuses undefined does so at every level.
LEMMA Refused ==
    ASSUME NEW deg \in AssertDegrees, NEW n \in Nat, NEW s \in AllTypes, RefusesUndefined(s)
    PROVE  ~Within(deg)[n][s][Undef]
<1>1. Undef \in AllValues
      BY DEF AllValues
<1>2. CASE n = 0
      BY <1>1, <1>2, WithinLevels
<1>3. CASE n # 0
  <2>1. n - 1 \in Nat /\ n - 1 + 1 = n
        BY <1>3
  <2>2. Within(deg)[n][s][Undef] <=> BelongsBy(Within(deg)[n - 1], s, Undef, deg)
        BY <1>1, <2>1, WithinLevels
  <2>3. deg.elements
        BY DEF AssertDegrees, AssertDegree, Full, Degree
  <2> DEFINE W == Within(deg)[n - 1]
  <2> HIDE DEF W
  <2>4. ~BelongsBy(W, s, Undef, deg)
    <3>1. CASE s.kind = "object"
          BY <3>1 DEF BelongsBy, InnerBelongs, ObjectBelongs, IsObject, TypeOf, Undef
    <3>2. CASE s.kind = "array"
          BY <3>2 DEF BelongsBy, InnerBelongs, Undef
    <3>3. CASE s.kind = "tuple"
          BY <2>3, <3>3 DEF BelongsBy, InnerBelongs, TupleBelongs, Undef
    <3>4. CASE s.kind = "native"
          BY <3>4 DEF BelongsBy, InnerBelongs, Undef, Date
    <3>5. CASE s.kind = "atomic" /\ s.atomic \in {"string", "number", "boolean", "bigint"}
          BY <3>5 DEF BelongsBy, InnerBelongs, IsOfAtomic, Undef
    <3> QED BY <3>1, <3>2, <3>3, <3>4, <3>5 DEF RefusesUndefined
  <2> QED BY <2>2, <2>4 DEF W
<1> QED BY <1>2, <1>3

\* An atomic type keeps its values at every level.
LEMMA AtomicKept ==
    ASSUME NEW n \in 0 .. Stack, NEW s \in AllTypes, s.kind = "atomic"
    PROVE  Keeps(asserter[n], s)
<1>1. SUFFICES ASSUME NEW x \in AllValues, NEW c \in Contexts, asserter[n][s][x][c].verdict = "ok"
               PROVE  asserter[n][s][x][c].v = x
      BY DEF Keeps
<1>2. n # 0
  <2>1. SUFFICES ASSUME n = 0 PROVE FALSE
        OBVIOUS
  <2>2. asserter[n][s][x][c] = Result(x, "overflow")
        BY <2>1, AsserterDef
  <2> QED BY <1>1, <2>2, ResultParts
<1>3. n - 1 \in 0 .. Stack /\ n - 1 < Stack /\ n - 1 + 1 = n
      BY <1>2, StackAssumption DEF StackAssumption
<1>4. asserter[n][s][x][c] = AssertInner(asserter[n - 1], s, x, c)
      BY <1>3, AsserterDef
<1>5. PICK b : AssertInner(asserter[n - 1], s, x, c) = Expect(b, x)
      BY DEF AssertInner
<1> QED BY <1>4, <1>5, ResultParts

\* What assert lets through belongs to the type.
Tame(n, t, deg) == \A u \in met[n][t] : ~IsOpenUnion(u) /\ ~IsWriting(u) /\ Suits(u, deg)

LEMMA TameSound ==
    ASSUME NEW deg \in AssertDegrees, NEW n \in Nat, n <= Stack, NEW t \in AllTypes, Tame(n, t, deg)
    PROVE  Sound(asserter[n], Within(deg)[n + 1], t)
<1> DEFINE W == Within(deg)
           S == {m \in Nat : m <= Stack =>
                    \A s \in AllTypes : Tame(m, s, deg) => Sound(asserter[m], W[m + 1], s)}
<1>0. ASSUME NEW m \in Nat, m <= Stack, NEW s \in AllTypes
      PROVE  /\ s.kind = "atomic" => Keeps(asserter[m], s)
             /\ RefusesUndefined(s) => ~W[m + 1][s][Undef]
  <2>1. m \in 0 .. Stack /\ m + 1 \in Nat
        BY <1>0, StackAssumption DEF StackAssumption
  <2> QED BY <2>1, AtomicKept, Refused
<1>1. 0 \in S
  <2>1. ASSUME NEW s \in AllTypes PROVE Accepts(asserter[0], W[0 + 1], s)
        BY AsserterDef, ResultParts DEF Accepts
  <2>2. 0 \in Nat /\ 0 <= Stack
        BY StackAssumption DEF StackAssumption
  <2> HIDE DEF W
  <2> QED BY <1>0, <2>1, <2>2 DEF Sound
<1>2. ASSUME NEW m \in Nat, m \in S PROVE m + 1 \in S
  <2>1. SUFFICES ASSUME m + 1 <= Stack, NEW s \in AllTypes, Tame(m + 1, s, deg)
                 PROVE  Sound(asserter[m + 1], W[m + 1 + 1], s)
        OBVIOUS
  <2>2. m \in 0 .. Stack /\ m < Stack /\ m <= Stack /\ m + 1 \in Nat
        BY <2>1, StackAssumption DEF StackAssumption
  <2>3. ASSUME NEW u \in Below(s) PROVE Sound(asserter[m], W[m + 1], u)
    <3>1. u \in AllTypes /\ met[m][u] \subseteq met[m + 1][s]
          BY BelowKnown, MetDef
    <3>2. Tame(m, u, deg)
          BY <2>1, <3>1 DEF Tame
    <3> HIDE DEF W
    <3> QED BY <1>2, <2>2, <3>1, <3>2
  <2>4. ~IsOpenUnion(s) /\ ~IsWriting(s) /\ Suits(s, deg)
    <3>1. s \in met[m + 1][s]
          BY <2>2, MetDef
    <3> QED BY <2>1, <3>1 DEF Tame
  <2>5. ASSUME s.kind = "intersection", NEW u \in Parts(s) PROVE Keeps(asserter[m], u)
    <3>1. PICK i \in DOMAIN s.members : u = s.members[i]
          BY <2>5 DEF Parts
    <3>2. u \in AllTypes
          BY TypeParts
    <3>3. \A w \in met[Stack][u] : ~Writes(w)
          BY <2>4, <2>5, <3>1 DEF IsWriting
    <3>4. StaysPut(m, u)
          BY <2>2, <3>2, <3>3, MetSoon DEF StaysPut
    <3> QED BY <2>2, <3>2, <3>4, StaysPutKeeps
  <2>6. KnowsLiterals(W[m + 1])
        BY WithinLevels, LiteralMeans DEF KnowsLiterals
  <2>7. ASSUME NEW x \in AllValues, NEW c \in Contexts, asserter[m + 1][s][x][c].verdict = "ok"
        PROVE  /\ asserter[m + 1][s][x][c].v = Undef <=> x = Undef
               /\ asserter[m + 1][s][x][c].v \in AllValues => W[m + 1 + 1][s][asserter[m + 1][s][x][c].v]
    <3>1. asserter[m + 1][s][x][c] = AssertInner(asserter[m], s, x, c)
          BY <2>2, AsserterDef
    <3>2. Delivered(W[m + 1], s, x, asserter[m + 1][s][x][c].v, deg)
      <4> HIDE DEF W
      <4> QED BY <2>3, <2>4, <2>5, <2>6, <2>7, <3>1, LevelDelivers
    <3>3. \A w \in AllValues : W[m + 1 + 1][s][w] <=> BelongsBy(W[m + 1], s, w, deg)
          BY <2>2, WithinLevels
    <3> HIDE DEF W
    <3> QED BY <3>2, <3>3 DEF Delivered
  <2> HIDE DEF W
  <2>8. Accepts(asserter[m + 1], W[m + 1 + 1], s)
        BY <2>7 DEF Accepts
  <2> QED BY <1>0, <2>1, <2>2, <2>8 DEF Sound
<1> HIDE DEF S
<1>3. Nat \subseteq S
      BY <1>1, <1>2, Induction
<1> QED BY <1>3 DEF S

LEMMA AssertMeans ==
    ASSUME NEW name \in DOMAIN Registry, NEW v \in AllValues,
           AssertFunction(name, v).verdict = "ok", AssertFunction(name, v).v \in AllValues,
           ~HasOpenUnion(name), ~HasWritingMember(name)
    PROVE  IsMember(name, AssertFunction(name, v).v, AssertedDegree(name))
<1> DEFINE t == Registry[name]
           deg == AssertedDegree(name)
<1>1. t \in AllTypes /\ Context(name) \in Contexts
      BY NameKnown
<1>2. deg \in AssertDegrees /\ (deg = Full => deg # AssertDegree)
  <2>1. AssertDegree # Full
        BY DEF AssertDegree, Full, Degree
  <2> QED BY <2>1 DEF AssertedDegree, AssertDegrees
<1>3. ~HasPartlyAsserted(name) \/ deg # Full
      BY <1>2 DEF AssertedDegree
<1> HIDE DEF deg
<1>4. Tame(Stack, t, deg)
      BY <1>3 DEF HasOpenUnion, HasWritingMember, HasPartlyAsserted, Tame, Suits
<1>5. Stack \in Nat /\ Stack <= Stack
      BY StackAssumption DEF StackAssumption
<1>6. Sound(asserter[Stack], Within(deg)[Stack + 1], t)
      BY <1>1, <1>2, <1>4, <1>5, TameSound
<1>7. Means(Within(deg)[Stack + 1], t, AssertFunction(name, v).v)
      BY <1>1, <1>6, TypeLeaves DEF AssertFunction
<1> QED BY <1>7 DEF Means, IsMember, deg


-----------------------------------------------------------------------------
(* One level of assert on a value that belongs to the type: it comes back  *)
(* as it was, or what assert does to it, it does to a part that belongs to *)
(* a part of the type.                                                     *)

\* A value of s that is accepted comes back as it was.
Returns(f, g, s) ==
    \A x \in AllValues, c \in Contexts : g[s][x] /\ f[s][x][c].verdict = "ok" => f[s][x][c].v = x
FromMember(f, g, t, cx, verdict) ==
    \E s \in Parts(t), x \in AllValues : g[s][x] /\ f[s][x][cx].verdict = verdict
Spared(f, g, t, cx, q, x) == IF q.verdict = "ok" THEN q.v = x ELSE FromMember(f, g, t, cx, q.verdict)

\* What g has found is found by the rules of Membership.
Tells(g) ==
    \A s \in AllTypes, x \in AllValues : g[s][x] =>
        /\ s.kind = "literal" => x = s.value
        /\ s.kind = "atomic"  => IsOfAtomic(s.atomic, x)

LEMMA TypeSpared ==
    ASSUME NEW f, NEW g, NEW t, NEW s \in Parts(t), Returns(f, g, s), NEW x \in AllValues,
           NEW cx \in Contexts, Means(g, s, x)
    PROVE  Spared(f, g, t, cx, AssertType(f, s, x, cx), x)
<1>1. CASE Admits(s, x)
  <2>1. AssertType(f, s, x, cx) = Result(x, "ok")
        BY <1>1 DEF AssertType
  <2> QED BY <2>1, ResultParts DEF Spared
<1>2. CASE ~Admits(s, x)
  <2>1. AssertType(f, s, x, cx) = f[s][x][cx] /\ g[s][x]
        BY <1>2 DEF AssertType, Means
  <2>2. CASE f[s][x][cx].verdict = "ok"
        BY <2>1, <2>2 DEF Spared, Returns
  <2>3. CASE f[s][x][cx].verdict # "ok"
    <3>1. FromMember(f, g, t, cx, f[s][x][cx].verdict)
          BY <2>1 DEF FromMember
    <3> QED BY <2>1, <2>3, <3>1 DEF Spared
  <2> QED BY <2>2, <2>3
<1> QED BY <1>1, <1>2

\* A list of checks fails as one of them does.
LEMMA TurnFailed ==
    ASSUME NEW v, NEW rs, NEW n \in Nat, DOMAIN rs = 1 .. n, InTurn(v, rs).verdict # "ok"
    PROVE  \E i \in DOMAIN rs : rs[i].verdict = InTurn(v, rs).verdict
<1> DEFINE vs == [i \in DOMAIN rs |-> rs[i].verdict]
<1>1. DOMAIN vs = 1 .. n /\ DOMAIN vs = DOMAIN rs
      OBVIOUS
<1>2. InTurn(v, rs).verdict = InOrder(vs, "ok")
      BY ResultParts DEF InTurn
<1>3. \E i \in DOMAIN vs : vs[i] = InOrder(vs, "ok")
  <2> HIDE DEF vs
  <2> QED BY <1>1, <1>2, Chain
<1> QED BY <1>2, <1>3

\* A value of a property's type that its transforms leave alone is not
\* coerced either.
LEMMA PreparedStays ==
    ASSUME NEW p, IsSequence(p.transforms), p.type \in AllTypes, NEW g, Tells(g),
           NEW x \in AllValues, x # Undef, Means(g, p.type, x),
           \A i \in DOMAIN p.transforms : Transform(p.transforms[i], x) = x
    PROVE  Prepared(p, x) = x
<1> DEFINE L == Len(p.transforms)
<1>1. L \in Nat /\ DOMAIN p.transforms = 1 .. L
      BY SequenceDomain
<1>2. PICK h : /\ h[0] = x
               /\ \A i \in 1 .. L : h[i] = Transform(p.transforms[i], h[i - 1])
               /\ Transformed(p, x) = h[L]
      BY TransformedDef
<1> DEFINE S == {n \in Nat : n <= L => h[n] = x}
<1>3. 0 \in S
      BY <1>2
<1>4. ASSUME NEW n \in Nat, n \in S PROVE n + 1 \in S
  <2>1. SUFFICES ASSUME n + 1 <= L PROVE h[n + 1] = x
        OBVIOUS
  <2>2. n <= L /\ n + 1 \in 1 .. L /\ n + 1 - 1 = n
        BY <1>1, <2>1
  <2>3. h[n + 1] = Transform(p.transforms[n + 1], x)
        BY <1>2, <1>4, <2>2
  <2> QED BY <1>1, <2>2, <2>3
<1>5. Transformed(p, x) = x
  <2> HIDE DEF S
  <2>1. Nat \subseteq S
        BY <1>3, <1>4, Induction
  <2> QED BY <1>1, <1>2, <2>1 DEF S
<1>6. Coerce(p.type, x) = x
  <2>1. SUFFICES ASSUME x.tag = "string", p.type.kind = "atomic" PROVE Coerce(p.type, x) = x
        BY DEF Coerce
  <2>2. ~Admits(p.type, x)
        BY <2>1 DEF Admits, Null
  <2>3. IsOfAtomic(p.type.atomic, x)
        BY <2>1, <2>2 DEF Means, Tells
  <2>4. p.type.atomic # "number" /\ p.type.atomic # "boolean"
        BY <2>1, <2>3 DEF IsOfAtomic
  <2> QED BY <2>4 DEF Coerce
<1> QED BY <1>5, <1>6 DEF Prepared

LEMMA FullObjectMeans ==
    ASSUME NEW g, NEW t, NEW v, t.kind = "object", BelongsBy(g, t, v, Full)
    PROVE  IsObject(v) /\ \A i \in DOMAIN t.props : FullMeansProp(g, t.props[i], v)
<1>1. AssertKinds \subseteq AllKinds
      BY DEF AssertKinds, AllKinds, NumberKinds, LengthKinds
<1>2. Full.closed /\ Full.kinds = AllKinds
      BY DEF Full, Degree
<1>3. IsObject(v) /\ \A i \in DOMAIN t.props :
                        PropBelongs(LAMBDA s, x : Admits(s, x) \/ g[s][x], t.props[i], v, Full)
      BY DEF BelongsBy, InnerBelongs, ObjectBelongs
<1>4. ASSUME NEW i \in DOMAIN t.props PROVE FullMeansProp(g, t.props[i], v)
      BY <1>1, <1>2, <1>3, <1>4 DEF PropBelongs, FullMeansProp, Means, AssertChecksHold
<1> QED BY <1>3, <1>4

LEMMA PropSpared ==
    ASSUME NEW f, NEW g, Tells(g), NEW t \in AllTypes, t.kind = "object", NEW i \in DOMAIN t.props,
           Returns(f, g, t.props[i].type), NEW v \in AllValues, NEW cx \in Contexts,
           FullMeansProp(g, t.props[i], v)
    PROVE  Spared(f, g, t, cx, AssertProp(f, t.props[i], v, cx), Get(v, t.props[i].name))
<1> DEFINE p == t.props[i]
           q == AssertProp(f, p, v, cx)
           x == Get(v, p.name)
           r == AssertType(f, p.type, Prepared(p, x), cx)
<1>1. IsSequence(p.transforms) /\ (p.required \/ p.type.optional)
      BY TypesAssumption DEF TypesAssumption, IsMetadata
<1>2. x \in AllValues /\ p.type \in Parts(t) /\ p.type \in AllTypes
      BY ValueParts, TypeParts
<1>3. CASE x = Undef
  <2>1. p.type.optional /\ ~MustBePresent(p) /\ (p.exact => p.name \notin Keys(v))
        BY <1>1, <1>3 DEF FullMeansProp, MustBePresent
  <2>2. CASE p.exact
    <3>1. q = Expect(p.name \notin Keys(v), x)
          BY <1>3, <2>1, <2>2 DEF AssertProp
    <3>2. q.v = x /\ q.verdict = "ok"
      <4> HIDE DEF q, x
      <4> QED BY <2>1, <2>2, <3>1, ResultParts
    <3> QED BY <3>2 DEF Spared
  <2>3. CASE ~p.exact
    <3>1. q = r
          BY <1>3, <2>1, <2>3 DEF AssertProp
    <3>2. Prepared(p, x) = Undef
          BY <1>1, <1>3, PreparedKinds
    <3>3. r = Result(Undef, "ok")
          BY <2>1, <3>2 DEF AssertType, Admits
    <3>4. q.v = x /\ q.verdict = "ok"
          BY <1>3, <3>1, <3>3, ResultParts
    <3> QED BY <3>4 DEF Spared
  <2> QED BY <2>2, <2>3
<1>4. CASE x # Undef
  <2>1. /\ Means(g, p.type, x) /\ AssertChecksHold(p, x)
        /\ \A j \in DOMAIN p.transforms : Transform(p.transforms[j], x) = x
        BY <1>4 DEF FullMeansProp
  <2>2. Prepared(p, x) = x
        BY <1>1, <1>2, <1>4, <2>1, PreparedStays
  <2>3. Spared(f, g, t, cx, r, x)
        BY <1>2, <2>1, <2>2, TypeSpared
  <2>4. q = IF r.verdict = "ok" THEN Expect(AssertChecksHold(p, r.v), r.v) ELSE r
        BY <1>4 DEF AssertProp, AssertChecksHold
  <2> HIDE DEF q, r, x, p
  <2>5. CASE r.verdict = "ok"
    <3>1. r.v = x /\ q = Expect(AssertChecksHold(p, r.v), r.v)
          BY <2>3, <2>4, <2>5 DEF Spared
    <3>2. q = Expect(AssertChecksHold(p, x), x) /\ AssertChecksHold(p, x)
          BY <2>1, <3>1
    <3>3. q.v = x /\ q.verdict = "ok"
          BY <3>2, ResultParts
    <3>4. Spared(f, g, t, cx, q, x)
          BY <3>3 DEF Spared
    <3> QED BY <3>4 DEF q, x, p
  <2>6. CASE r.verdict # "ok"
    <3>1. Spared(f, g, t, cx, q, x)
          BY <2>3, <2>4, <2>6
    <3> QED BY <3>1 DEF q, x, p
  <2> QED BY <2>5, <2>6
<1> QED BY <1>3, <1>4

LEMMA ObjectSpared ==
    ASSUME NEW f, NEW g, Tells(g), NEW t \in AllTypes, t.kind = "object",
           \A s \in Parts(t) : Returns(f, g, s), NEW v \in AllValues, NEW cx \in Contexts,
           BelongsBy(g, t, v, Full)
    PROVE  Spared(f, g, t, cx, AssertInner(f, t, v, cx), v)
<1> DEFINE o == AssertObject(f, t, v, cx)
           q(i) == AssertProp(f, t.props[i], v, cx)
           r == [i \in DOMAIN t.props |-> q(i)]
<1>1. IsObject(v) /\ \A i \in DOMAIN t.props : FullMeansProp(g, t.props[i], v)
      BY FullObjectMeans
<1>2. AssertInner(f, t, v, cx) = o
      BY <1>1 DEF AssertInner
<1>3. ASSUME NEW i \in DOMAIN t.props PROVE Spared(f, g, t, cx, q(i), Get(v, t.props[i].name))
  <2>1. t.props[i].type \in Parts(t)
        BY TypeParts
  <2>2. Returns(f, g, t.props[i].type) /\ FullMeansProp(g, t.props[i], v)
        BY <1>1, <2>1
  <2> QED BY <2>2, PropSpared
<1>4. CASE o.verdict = "ok"
  <2> HIDE DEF o
  <2>1. /\ \A i \in DOMAIN t.props : q(i).verdict = "ok"
        /\ (\A i \in DOMAIN t.props : q(i).v = Get(v, t.props[i].name)) => o.v = v
        BY <1>1, <1>4, ObjectLeaves DEF o
  <2> HIDE DEF q
  <2>2. ASSUME NEW i \in DOMAIN t.props PROVE q(i).v = Get(v, t.props[i].name)
        BY <1>3, <2>1 DEF Spared
  <2>3. o.v = v
        BY <2>1, <2>2
  <2> QED BY <1>2, <1>4, <2>3 DEF Spared
<1>5. CASE o.verdict # "ok"
  <2>1. DOMAIN r = 1 .. Len(t.props) /\ Len(t.props) \in Nat /\ DOMAIN r = DOMAIN t.props
    <3>1. IsSequence(t.props)
          BY TypesAssumption DEF TypesAssumption, IsMetadata
    <3> QED BY <3>1, SequenceDomain
  <2>2. \E w : o = InTurn(w, r)
        BY DEF AssertObject
  <2>3. \A i \in DOMAIN t.props : r[i] = q(i)
        OBVIOUS
  <2> HIDE DEF o, q, r
  <2>4. PICK i \in DOMAIN r : r[i].verdict = o.verdict
        BY <1>5, <2>1, <2>2, TurnFailed
  <2>5. q(i).verdict = o.verdict /\ i \in DOMAIN t.props
        BY <2>1, <2>3, <2>4
  <2>6. FromMember(f, g, t, cx, o.verdict)
        BY <1>3, <1>5, <2>5 DEF Spared
  <2> QED BY <1>2, <1>5, <2>6 DEF Spared
<1> QED BY <1>4, <1>5

LEMMA ArraySpared ==
    ASSUME NEW f, NEW g, NEW t \in AllTypes, t.kind = "array",
           \A s \in Parts(t) : Returns(f, g, s), NEW v \in AllValues, NEW cx \in Contexts,
           BelongsBy(g, t, v, Full)
    PROVE  Spared(f, g, t, cx, AssertInner(f, t, v, cx), v)
<1> DEFINE r == [i \in DOMAIN v.e |-> AssertType(f, t.elem, v.e[i], cx)]
           e == [i \in DOMAIN v.e |-> r[i].v]
           a == InTurn(Arr(e), r)
<1>1. v.tag = "array" /\ \A i \in DOMAIN v.e : Means(g, t.elem, v.e[i])
      BY ArrayMeans
<1>2. AssertInner(f, t, v, cx) = a
      BY <1>1 DEF AssertInner, AssertArray
<1>3. /\ IsSequence(v.e) /\ v = Arr(v.e)
      /\ DOMAIN v.e = 1 .. Len(v.e) /\ Len(v.e) \in Nat
      /\ \A i \in DOMAIN v.e : v.e[i] \in AllValues
  <2>1. IsValue(v)
        BY ValuesAssumption DEF ValuesAssumption
  <2> QED BY <1>1, <2>1, ValueParts, SequenceDomain DEF IsValue
<1>4. DOMAIN r = 1 .. Len(v.e) /\ DOMAIN r = DOMAIN v.e
      BY <1>3
<1>5. ASSUME NEW i \in DOMAIN v.e PROVE Spared(f, g, t, cx, r[i], v.e[i])
  <2>1. t.elem \in Parts(t) /\ v.e[i] \in AllValues /\ Means(g, t.elem, v.e[i])
        BY <1>1, <1>3, TypeParts
  <2>2. Spared(f, g, t, cx, AssertType(f, t.elem, v.e[i], cx), v.e[i])
        BY <2>1, TypeSpared
  <2> QED BY <2>2
<1>6. e = [i \in DOMAIN v.e |-> r[i].v]
      OBVIOUS
<1> HIDE DEF r
<1>7. CASE a.verdict = "ok"
  <2>1. a.v = Arr(e) /\ \A i \in DOMAIN r : r[i].verdict = "ok"
    <3>1. Len(v.e) \in Nat /\ DOMAIN r = 1 .. Len(v.e)
          BY <1>3, <1>4
    <3> HIDE DEF e
    <3> QED BY <1>7, <3>1, TurnPassed
  <2>2. ASSUME NEW i \in DOMAIN v.e PROVE r[i].v = v.e[i]
        BY <1>4, <1>5, <2>1 DEF Spared
  <2>3. v.e = [i \in DOMAIN v.e |-> v.e[i]]
        BY <1>3 DEF IsSequence
  <2>4. e = v.e
        BY <2>2, <2>3
  <2> HIDE DEF a, e
  <2> QED BY <1>2, <1>3, <1>7, <2>1, <2>4 DEF Spared
<1>8. CASE a.verdict # "ok"
  <2>1. \E w : a = InTurn(w, r)
        OBVIOUS
  <2> HIDE DEF a, e
  <2>2. PICK i \in DOMAIN r : r[i].verdict = a.verdict
        BY <1>3, <1>4, <1>8, <2>1, TurnFailed
  <2>3. FromMember(f, g, t, cx, a.verdict)
        BY <1>4, <1>5, <1>8, <2>2 DEF Spared
  <2> QED BY <1>2, <1>8, <2>3 DEF Spared
<1> QED BY <1>7, <1>8

LEMMA FullTupleMeans ==
    ASSUME NEW g, NEW t, NEW v, t.kind = "tuple", BelongsBy(g, t, v, Full)
    PROVE  /\ v.tag = "array"
           /\ \A i \in DOMAIN t.elems :
                \/ t.elems[i].rest
                \/ i <= Len(v.e) /\ Means(g, t.elems[i].type, v.e[i])
                \/ i > Len(v.e)  /\ t.elems[i].optional
BY DEF BelongsBy, InnerBelongs, TupleBelongs, Full, Degree, Means

LEMMA TupleSpared ==
    ASSUME NEW f, NEW g, NEW t \in AllTypes, t.kind = "tuple",
           \A s \in Parts(t) : Returns(f, g, s), NEW v \in AllValues, NEW cx \in Contexts,
           BelongsBy(g, t, v, Full)
    PROVE  Spared(f, g, t, cx, AssertInner(f, t, v, cx), v)
<1> DEFINE x(i) == IF i <= Len(v.e) THEN v.e[i] ELSE Undef
           q(i) == AssertElem(f, t.elems[i], i, v, cx)
           r == [i \in DOMAIN t.elems |-> q(i)]
           e == [i \in DOMAIN v.e |-> IF i \in DOMAIN r THEN r[i].v ELSE v.e[i]]
           a == InTurn(Arr(e), r)
<1>1. /\ v.tag = "array"
      /\ \A i \in DOMAIN t.elems :
            \/ t.elems[i].rest
            \/ i <= Len(v.e) /\ Means(g, t.elems[i].type, v.e[i])
            \/ i > Len(v.e)  /\ t.elems[i].optional
      BY FullTupleMeans
<1>2. AssertInner(f, t, v, cx) = a
      BY <1>1 DEF AssertInner, AssertTuple
<1>3. /\ IsSequence(v.e) /\ v = Arr(v.e)
      /\ DOMAIN v.e = 1 .. Len(v.e) /\ Len(v.e) \in Nat
      /\ \A i \in DOMAIN v.e : v.e[i] \in AllValues
  <2>1. IsValue(v)
        BY ValuesAssumption DEF ValuesAssumption
  <2> QED BY <1>1, <2>1, ValueParts, SequenceDomain DEF IsValue
<1>4. DOMAIN t.elems = 1 .. Len(t.elems) /\ Len(t.elems) \in Nat
  <2>1. IsSequence(t.elems)
        BY TypesAssumption DEF TypesAssumption, IsMetadata
  <2> QED BY <2>1, SequenceDomain
<1>5. DOMAIN r = 1 .. Len(t.elems) /\ DOMAIN r = DOMAIN t.elems
      BY <1>4
<1>6. ASSUME NEW i \in DOMAIN t.elems PROVE Spared(f, g, t, cx, q(i), x(i))
  <2>1. q(i) = IF Unasked(t.elems[i], i, v) THEN Result(x(i), "ok")
               ELSE AssertType(f, t.elems[i].type, x(i), cx)
        BY DEF AssertElem, Unasked
  <2>2. CASE Unasked(t.elems[i], i, v)
    <3>1. q(i) = Result(x(i), "ok")
          BY <2>1, <2>2
    <3> HIDE DEF q, x
    <3> QED BY <3>1, ResultParts DEF Spared
  <2>3. CASE ~Unasked(t.elems[i], i, v)
    <3>1. i <= Len(v.e) /\ Means(g, t.elems[i].type, v.e[i])
          BY <1>1, <2>3 DEF Unasked
    <3>2. x(i) = v.e[i] /\ v.e[i] \in AllValues
          BY <1>3, <1>4, <3>1
    <3>3. t.elems[i].type \in Parts(t)
          BY TypeParts
    <3>4. q(i) = AssertType(f, t.elems[i].type, x(i), cx)
          BY <2>1, <2>3
    <3> HIDE DEF q, x
    <3> QED BY <3>1, <3>2, <3>3, <3>4, TypeSpared
  <2> QED BY <2>2, <2>3
<1>7. \A i \in DOMAIN t.elems : r[i] = q(i)
      OBVIOUS
<1> HIDE DEF q, r
<1>8. CASE a.verdict = "ok"
  <2>1. a.v = Arr(e) /\ \A i \in DOMAIN r : r[i].verdict = "ok"
    <3> HIDE DEF e
    <3> QED BY <1>4, <1>5, <1>8, TurnPassed
  <2>2. ASSUME NEW i \in DOMAIN v.e, i \in DOMAIN t.elems PROVE r[i].v = v.e[i]
    <3>1. x(i) = v.e[i]
          BY <1>3, <2>2
    <3>2. r[i].v = x(i)
      <4> HIDE DEF x
      <4> QED BY <1>5, <1>6, <1>7, <2>1, <2>2 DEF Spared
    <3> QED BY <3>1, <3>2
  <2>3. v.e = [i \in DOMAIN v.e |-> v.e[i]]
        BY <1>3 DEF IsSequence
  <2>4. e = v.e
        BY <1>5, <2>2, <2>3
  <2> HIDE DEF a, e
  <2> QED BY <1>2, <1>3, <1>8, <2>1, <2>4 DEF Spared
<1>9. CASE a.verdict # "ok"
  <2>1. \E w : a = InTurn(w, r)
        OBVIOUS
  <2> HIDE DEF a, e, x
  <2>2. PICK i \in DOMAIN r : r[i].verdict = a.verdict
        BY <1>4, <1>5, <1>9, <2>1, TurnFailed
  <2>3. FromMember(f, g, t, cx, a.verdict)
        BY <1>5, <1>6, <1>7, <1>9, <2>2 DEF Spared
  <2> QED BY <1>2, <1>9, <2>3 DEF Spared
<1> QED BY <1>8, <1>9

LEMMA IntersectionSpared ==
    ASSUME NEW f, NEW g, NEW t \in AllTypes, t.kind = "intersection",
           \A s \in Parts(t) : Returns(f, g, s), NEW v \in AllValues, NEW cx \in Contexts,
           BelongsBy(g, t, v, Full)
    PROVE  Spared(f, g, t, cx, AssertInner(f, t, v, cx), v)
<1> DEFINE m == t.members
           L == Len(m)
<1>1. IsSequence(m)
      BY TypesAssumption DEF TypesAssumption, IsMetadata
<1>2. L \in Nat /\ DOMAIN m = 1 .. L
      BY <1>1, SequenceDomain
<1>3. ASSUME NEW i \in 1 .. L PROVE Spared(f, g, t, cx, f[m[i]][v][cx], v)
  <2>1. i \in DOMAIN m /\ Means(g, m[i], v)
        BY <1>2, IntersectionMeans
  <2>2. m[i] \in Parts(t) /\ g[m[i]][v]
        BY <2>1, MemberMeans
  <2> DEFINE q == f[m[i]][v][cx]
  <2>3. q.verdict = "ok" => q.v = v
        BY <2>2 DEF Returns
  <2>4. FromMember(f, g, t, cx, q.verdict)
        BY <2>2 DEF FromMember
  <2> HIDE DEF q
  <2>5. Spared(f, g, t, cx, q, v)
        BY <2>3, <2>4 DEF Spared
  <2> QED BY <2>5 DEF q
<1>4. PICK h : InSteps(h, f, m, v, cx)
      BY <1>1, MembersDef
<1> DEFINE S == {n \in Nat : n <= L => Spared(f, g, t, cx, h[n], v)}
<1> HIDE DEF m, L
<1>5. 0 \in S
  <2>1. h[0] = Result(v, "ok")
        BY <1>4 DEF InSteps
  <2>2. Spared(f, g, t, cx, h[0], v)
        BY <2>1, ResultParts DEF Spared
  <2> QED BY <2>2
<1>6. ASSUME NEW n \in Nat, n \in S PROVE n + 1 \in S
  <2>1. SUFFICES ASSUME n + 1 <= L PROVE Spared(f, g, t, cx, h[n + 1], v)
        OBVIOUS
  <2>2. n <= L /\ n + 1 \in 1 .. L /\ n + 1 - 1 = n
        BY <1>2, <2>1
  <2>3. h[n + 1] = IF h[n].verdict = "ok" THEN f[m[n + 1]][h[n].v][cx] ELSE h[n]
        BY <1>4, <2>2 DEF InSteps, L
  <2>4. Spared(f, g, t, cx, h[n], v)
        BY <1>6, <2>2
  <2>5. CASE h[n].verdict = "ok"
    <3>1. h[n].v = v
          BY <2>4, <2>5 DEF Spared
    <3>2. h[n + 1] = f[m[n + 1]][v][cx]
          BY <2>3, <2>5, <3>1
    <3> QED BY <1>3, <2>2, <3>2
  <2>6. CASE h[n].verdict # "ok"
        BY <2>3, <2>4, <2>6
  <2> QED BY <2>5, <2>6
<1>7. Spared(f, g, t, cx, h[L], v)
  <2> HIDE DEF S
  <2>1. Nat \subseteq S
        BY <1>5, <1>6, Induction
  <2> QED BY <1>2, <2>1 DEF S
<1>8. AssertInner(f, t, v, cx) = h[L]
      BY <1>4 DEF AssertInner, InSteps, m, L
<1> QED BY <1>7, <1>8

LEMMA UnionSpared ==
    ASSUME NEW f, NEW g, Tells(g), NEW t \in AllTypes, t.kind = "union", NEW v \in AllValues, NEW cx,
           BelongsBy(g, t, v, Full)
    PROVE  Spared(f, g, t, cx, AssertInner(f, t, v, cx), v)
<1> DEFINE matches == AllLiterals(t.members) => \E i \in DOMAIN t.members : v = t.members[i].value
<1>1. AssertInner(f, t, v, cx) = Expect(matches, v)
      BY DEF AssertInner, AssertUnion
<1>2. ASSUME AllLiterals(t.members) PROVE \E i \in DOMAIN t.members : v = t.members[i].value
  <2>1. PICK i \in DOMAIN t.members : Means(g, t.members[i], v)
        BY UnionMeans
  <2>2. g[t.members[i]][v]
        BY <2>1, MemberMeans
  <2>3. t.members[i].kind = "literal" /\ t.members[i] \in AllTypes
        BY <1>2, TypeParts DEF AllLiterals
  <2> QED BY <2>2, <2>3 DEF Tells
<1>3. matches
      BY <1>2
<1> HIDE DEF matches
<1>4. AssertInner(f, t, v, cx) = Result(v, "ok")
      BY <1>1, <1>3 DEF Expect
<1> QED BY <1>4, ResultParts DEF Spared

LEMMA PlainSpared ==
    ASSUME NEW f, NEW g, NEW t \in AllTypes, t.kind \notin Composed, NEW v \in AllValues, NEW cx,
           BelongsBy(g, t, v, Full)
    PROVE  Spared(f, g, t, cx, AssertInner(f, t, v, cx), v)
<1>0. t.kind # "object" /\ t.kind # "array" /\ t.kind # "tuple" /\ t.kind # "union"
      /\ t.kind # "intersection" /\ t.kind # "ref"
      BY DEF Composed
<1>1. \E b : b /\ AssertInner(f, t, v, cx) = Expect(b, v)
  <2>1. CASE t.kind = "atomic"
    <3>1. AssertInner(f, t, v, cx) = Expect(IsAtomic(t, v), v)
          BY <1>0, <2>1 DEF AssertInner, IsAtomic
    <3>2. IsAtomic(t, v)
          BY <2>1 DEF IsAtomic, BelongsBy, InnerBelongs, Full, Degree
    <3> QED BY <3>1, <3>2
  <2>2. CASE t.kind = "literal"
    <3>1. AssertInner(f, t, v, cx) = Expect(v = t.value, v)
          BY <1>0, <2>2 DEF AssertInner
    <3>2. v = t.value
          BY <2>2, LiteralMeans
    <3> QED BY <3>1, <3>2
  <2>3. CASE t.kind = "enum"
    <3>1. AssertInner(f, t, v, cx) = Expect(v \in t.values, v)
          BY <1>0, <2>3 DEF AssertInner
    <3>2. v \in t.values
          BY <2>3 DEF BelongsBy, InnerBelongs
    <3> QED BY <3>1, <3>2
  <2>4. CASE t.kind = "native"
    <3>1. AssertInner(f, t, v, cx) = Expect(v.tag = "date", v)
          BY <1>0, <2>4 DEF AssertInner
    <3>2. v.tag = "date"
          BY <2>4 DEF BelongsBy, InnerBelongs, Date
    <3> QED BY <3>1, <3>2
  <2>5. CASE t.kind = "never"
        BY <2>5 DEF BelongsBy, InnerBelongs
  <2>6. CASE t.kind = "void"
    <3>1. AssertInner(f, t, v, cx) = Expect(v = Undef, v)
          BY <1>0, <2>6 DEF AssertInner
    <3>2. v = Undef
          BY <2>6 DEF BelongsBy, InnerBelongs
    <3> QED BY <3>1, <3>2
  <2>7. CASE t.kind \notin {"atomic", "literal", "enum", "native", "never", "void"}
    <3>1. AssertInner(f, t, v, cx) = Result(v, "ok")
          BY <1>0, <2>7 DEF AssertInner
    <3>2. AssertInner(f, t, v, cx) = Expect(TRUE, v)
          BY <3>1 DEF Expect
    <3> QED BY <3>2
  <2> QED BY <2>1, <2>2, <2>3, <2>4, <2>5, <2>6, <2>7
<1>2. PICK b : b /\ AssertInner(f, t, v, cx) = Expect(b, v)
      BY <1>1
<1>3. AssertInner(f, t, v, cx) = Result(v, "ok")
      BY <1>2 DEF Expect
<1> QED BY <1>3, ResultParts DEF Spared

\* What assert does to a value of a named type.
SparedByName(f, g, t, v, cx, q) ==
    IF q.verdict = "ok" THEN q.v = v
    ELSE /\ t.ref \in DOMAIN Registry
         /\ ~Asks(cx, t.ref) => q.verdict = "throws"
         /\ Asks(cx, t.ref) =>
                /\ g[Registry[t.ref]][v]
                /\ f[Registry[t.ref]][v][NextContext(cx, t.ref)].verdict = q.verdict

LEMMA RefAsserts ==
    ASSUME NEW f, NEW t \in AllTypes, t.kind = "ref", NEW v, NEW cx \in Contexts
    PROVE  /\ Asks(cx, t.ref) =>
                /\ AssertInner(f, t, v, cx) = AssertType(f, Registry[t.ref], v, NextContext(cx, t.ref))
                /\ NextContext(cx, t.ref) \in Contexts
           /\ t.ref \in DOMAIN Registry /\ ~Asks(cx, t.ref) => AssertInner(f, t, v, cx) = Result(v, "throws")
           /\ t.ref \notin DOMAIN Registry => AssertInner(f, t, v, cx) = Result(v, "ok")
<1>1. cx.generating \subseteq DOMAIN Registry
      BY DEF Contexts
<1>2. AssertInner(f, t, v, cx) = AssertRef(f, t, v, cx)
      BY DEF AssertInner
<1>3. CASE t.ref \in cx.generating /\ t.ref = cx.root
      BY <1>1, <1>2, <1>3, NameKnown DEF AssertRef, Asks, NextContext
<1>4. CASE t.ref \in cx.generating /\ t.ref # cx.root
      BY <1>1, <1>2, <1>4 DEF AssertRef, Asks
<1>5. CASE t.ref \in DOMAIN Registry \ cx.generating
      BY <1>2, <1>5, InlinedContext DEF AssertRef, Asks, NextContext
<1>6. CASE t.ref \notin DOMAIN Registry
      BY <1>1, <1>2, <1>6 DEF AssertRef, Asks
<1> QED BY <1>3, <1>4, <1>5, <1>6

LEMMA RefSpared ==
    ASSUME NEW f, NEW g, NEW t \in AllTypes, t.kind = "ref", \A s \in Below(t) : Returns(f, g, s),
           NEW v \in AllValues, NEW cx \in Contexts, BelongsBy(g, t, v, Full)
    PROVE  SparedByName(f, g, t, v, cx, AssertInner(f, t, v, cx))
<1> DEFINE q == AssertInner(f, t, v, cx)
           s == Registry[t.ref]
           c == NextContext(cx, t.ref)
<1>1. CASE t.ref \notin DOMAIN Registry
  <2>1. q = Result(v, "ok")
        BY <1>1, RefAsserts
  <2>2. q.v = v /\ q.verdict = "ok"
        BY <2>1, ResultParts
  <2> QED BY <2>2 DEF SparedByName
<1>2. CASE t.ref \in DOMAIN Registry /\ ~Asks(cx, t.ref)
  <2>1. q = Result(v, "throws")
        BY <1>2, RefAsserts
  <2>2. q.verdict = "throws"
        BY <2>1, ResultParts
  <2> HIDE DEF q
  <2>3. SparedByName(f, g, t, v, cx, q)
        BY <1>2, <2>2 DEF SparedByName
  <2> QED BY <2>3 DEF q
<1>3. CASE Asks(cx, t.ref)
  <2>1. t.ref \in DOMAIN Registry /\ s \in Below(t)
        BY <1>3 DEF Asks, Below
  <2>2. q = AssertType(f, s, v, c) /\ c \in Contexts
        BY <1>3, RefAsserts
  <2>3. Means(g, s, v)
        BY <2>1, RefMeans
  <2> HIDE DEF q, s, c
  <2>4. CASE Admits(s, v)
    <3>1. q = Result(v, "ok")
          BY <2>2, <2>4 DEF AssertType
    <3>2. q.v = v /\ q.verdict = "ok"
          BY <3>1, ResultParts
    <3>3. SparedByName(f, g, t, v, cx, q)
          BY <3>2 DEF SparedByName
    <3> QED BY <3>3 DEF q
  <2>5. CASE ~Admits(s, v)
    <3>1. q = f[s][v][c] /\ g[s][v]
          BY <2>2, <2>3, <2>5 DEF AssertType, Means
    <3>2. q.verdict = "ok" => q.v = v
          BY <2>1, <2>2, <3>1 DEF Returns
    <3>3. SparedByName(f, g, t, v, cx, q)
          BY <1>3, <2>1, <3>1, <3>2 DEF SparedByName, s, c
    <3> QED BY <3>3 DEF q
  <2> QED BY <2>4, <2>5
<1> QED BY <1>1, <1>2, <1>3 DEF Asks

LEMMA LevelSpares ==
    ASSUME NEW f, NEW g, Tells(g), NEW t \in AllTypes, \A s \in Below(t) : Returns(f, g, s),
           NEW v \in AllValues, NEW cx \in Contexts, BelongsBy(g, t, v, Full)
    PROVE  IF t.kind = "ref" THEN SparedByName(f, g, t, v, cx, AssertInner(f, t, v, cx))
           ELSE Spared(f, g, t, cx, AssertInner(f, t, v, cx), v)
<1>1. \A s \in Parts(t) : Returns(f, g, s)
      BY DEF Below
<1>2. CASE t.kind = "object"
      BY <1>1, <1>2, ObjectSpared
<1>3. CASE t.kind = "array"
      BY <1>1, <1>3, ArraySpared
<1>4. CASE t.kind = "tuple"
      BY <1>1, <1>4, TupleSpared
<1>5. CASE t.kind = "union"
      BY <1>5, UnionSpared
<1>6. CASE t.kind = "intersection"
      BY <1>1, <1>6, IntersectionSpared
<1>7. CASE t.kind = "ref"
      BY <1>7, RefSpared
<1>8. CASE t.kind \notin Composed
      BY <1>8, PlainSpared DEF Composed
<1> QED BY <1>2, <1>3, <1>4, <1>5, <1>6, <1>7, <1>8 DEF Composed

-----------------------------------------------------------------------------
(* All levels: what assert does to the values that belong to a type.       *)

Belonging == Within(Full)

LEMMA BelongingDef ==
    /\ \A t \in AllTypes, v \in AllValues : ~Belonging[0][t][v]
    /\ \A n \in Nat, t \in AllTypes, v \in AllValues :
            Belonging[n + 1][t][v] <=> BelongsBy(Belonging[n], t, v, Full)
    /\ \A n \in Nat : Tells(Belonging[n])
<1>1. /\ \A t \in AllTypes, v \in AllValues : ~Belonging[0][t][v]
      /\ \A n \in Nat, t \in AllTypes, v \in AllValues :
            Belonging[n + 1][t][v] <=> BelongsBy(Belonging[n], t, v, Full)
      BY WithinLevels DEF Belonging
<1>2. ASSUME NEW n \in Nat, NEW s \in AllTypes, NEW x \in AllValues, Belonging[n][s][x]
      PROVE  /\ s.kind = "literal" => x = s.value
             /\ s.kind = "atomic"  => IsOfAtomic(s.atomic, x)
  <2>1. n # 0
        BY <1>1, <1>2
  <2>2. n - 1 \in Nat /\ n - 1 + 1 = n
        BY <2>1
  <2>3. BelongsBy(Belonging[n - 1], s, x, Full)
        BY <1>1, <1>2, <2>2
  <2> QED BY <2>3 DEF BelongsBy, InnerBelongs
<1> QED BY <1>1, <1>2 DEF Tells

\* q is a result on x that belongs to the type: accepted as it is, or the
\* one throw that there may be.
Handled(n, s, x, c) ==
    LET q == asserter[n][s][x][c]
    IN  /\ q.verdict = "ok" => q.v = x
        /\ q.verdict # "rejected"
        /\ q.verdict = "throws" /\ Nested(n, s, c) => HasForeignRecursion(c.root)
HandledAt(n) ==
    n <= Stack => \A k \in Nat, s \in AllTypes, x \in AllValues, c \in Contexts :
                    Belonging[k][s][x] => Handled(n, s, x, c)

LEMMA NextHandled ==
    ASSUME NEW n \in Nat, n + 1 <= Stack, HandledAt(n), NEW k \in Nat, NEW s \in AllTypes,
           NEW x \in AllValues, NEW c \in Contexts, Belonging[k][s][x]
    PROVE  Handled(n + 1, s, x, c)
<1> DEFINE f == asserter[n]
           g == Belonging[k - 1]
           q == asserter[n + 1][s][x][c]
<1>1. n \in 0 .. Stack /\ n < Stack /\ n <= Stack
      BY StackAssumption DEF StackAssumption
<1>2. k - 1 \in Nat /\ k - 1 + 1 = k
  <2>1. k # 0
        BY BelongingDef
  <2> QED BY <2>1
<1>3. q = AssertInner(f, s, x, c)
      BY <1>1, AsserterDef
<1>4. BelongsBy(g, s, x, Full) /\ Tells(g)
      BY <1>2, BelongingDef
<1>5. ASSUME NEW u \in AllTypes, NEW y \in AllValues, g[u][y], NEW d \in Contexts PROVE Handled(n, u, y, d)
      BY <1>1, <1>2, <1>5 DEF HandledAt
<1>6. \A u \in Below(s) : Returns(f, g, u)
  <2>1. ASSUME NEW u \in Below(s), NEW y \in AllValues, NEW d \in Contexts,
               g[u][y], f[u][y][d].verdict = "ok"
        PROVE  f[u][y][d].v = y
    <3>1. Handled(n, u, y, d)
          BY <1>5, <2>1, BelowKnown
    <3> QED BY <2>1, <3>1 DEF Handled
  <2> QED BY <2>1 DEF Returns
<1> HIDE DEF f, g, q
<1>7. CASE s.kind = "ref"
  <2> DEFINE u == Registry[s.ref]
             d == NextContext(c, s.ref)
  <2>1. SparedByName(f, g, s, x, c, q)
        BY <1>3, <1>4, <1>6, <1>7, LevelSpares
  <2>2. CASE q.verdict = "ok"
    <3>1. q.v = x
          BY <2>1, <2>2 DEF SparedByName
    <3> QED BY <2>2, <3>1 DEF Handled, q
  <2>3. CASE q.verdict # "ok" /\ ~Asks(c, s.ref)
    <3>1. q.verdict = "throws" /\ s.ref \in DOMAIN Registry
          BY <2>1, <2>3 DEF SparedByName
    <3>2. ASSUME Nested(n + 1, s, c) PROVE HasForeignRecursion(c.root)
      <4>1. s.ref \in c.generating /\ s.ref # c.root
            BY <2>3, <3>1 DEF Asks
      <4>2. /\ s.ref \in NamesWithout({})[Stack][Registry[c.root]]
            /\ NamesWithout({c.root})[n + 1][s] \subseteq NamesWithout({c.root})[Stack][Registry[s.ref]]
            BY <3>2, <4>1 DEF Nested
      <4>3. s.ref \in NamesWithout({c.root})[n + 1][s]
            BY <1>7, NamesBelow
      <4> QED BY <3>1, <4>1, <4>2, <4>3 DEF HasForeignRecursion
    <3> QED BY <3>1, <3>2 DEF Handled, q
  <2>4. CASE q.verdict # "ok" /\ Asks(c, s.ref)
    <3>1. g[u][x] /\ f[u][x][d].verdict = q.verdict
          BY <2>1, <2>4 DEF SparedByName
    <3>2. u \in AllTypes /\ d \in Contexts /\ s.ref \in DOMAIN Registry
          BY <1>7, <2>4, NameKnown, RefAsserts DEF Asks
    <3>3. Handled(n, u, x, d)
          BY <1>5, <3>1, <3>2
    <3>4. d.root = c.root
          BY <2>4, <3>2, InlinedContext DEF NextContext, Context, Asks
    <3>5. Nested(n + 1, s, c) => Nested(n, u, d)
          BY <1>7, <2>4, NameNested
    <3> HIDE DEF u, d
    <3>6. /\ q.verdict # "rejected"
          /\ q.verdict = "throws" /\ Nested(n, u, d) => HasForeignRecursion(d.root)
          BY <3>1, <3>3 DEF Handled, f
    <3> QED BY <2>4, <3>4, <3>5, <3>6 DEF Handled, q
  <2> QED BY <2>2, <2>3, <2>4
<1>8. CASE s.kind # "ref"
  <2>1. Spared(f, g, s, c, q, x)
        BY <1>3, <1>4, <1>6, <1>8, LevelSpares
  <2>2. CASE q.verdict = "ok"
    <3>1. q.v = x
          BY <2>1, <2>2 DEF Spared
    <3> QED BY <2>2, <3>1 DEF Handled, q
  <2>3. CASE q.verdict # "ok"
    <3>1. PICK u \in Parts(s), y \in AllValues : g[u][y] /\ f[u][y][c].verdict = q.verdict
          BY <2>1, <2>3 DEF Spared, FromMember
    <3>2. u \in AllTypes
          BY TypeParts
    <3>3. Handled(n, u, y, c)
          BY <1>5, <3>1, <3>2
    <3>4. Nested(n + 1, s, c) => Nested(n, u, c)
          BY PartNested
    <3>5. /\ q.verdict # "rejected"
          /\ q.verdict = "throws" /\ Nested(n, u, c) => HasForeignRecursion(c.root)
          BY <3>1, <3>3 DEF Handled, f
    <3> QED BY <2>3, <3>4, <3>5 DEF Handled, q
  <2> QED BY <2>2, <2>3
<1> QED BY <1>7, <1>8

LEMMA AllHandled == \A n \in Nat : HandledAt(n)
<1> DEFINE S == {n \in Nat : HandledAt(n)}
<1>1. 0 \in S
  <2>1. ASSUME NEW s \in AllTypes, NEW x \in AllValues, NEW c \in Contexts PROVE Handled(0, s, x, c)
    <3>1. asserter[0][s][x][c].verdict = "overflow"
          BY AsserterDef, ResultParts
    <3> QED BY <3>1 DEF Handled
  <2> QED BY <2>1 DEF HandledAt
<1>2. ASSUME NEW n \in Nat, n \in S PROVE n + 1 \in S
      BY <1>2, NextHandled DEF HandledAt
<1> HIDE DEF S
<1>3. Nat \subseteq S
      BY <1>1, <1>2, Induction
<1> QED BY <1>3 DEF S

LEMMA AssertSpares ==
    ASSUME NEW name \in DOMAIN Registry, NEW v \in AllValues, IsMember(name, v, Full)
    PROVE  /\ AssertFunction(name, v).verdict = "ok" => AssertFunction(name, v).v = v
           /\ AssertFunction(name, v).verdict # "rejected"
           /\ AssertFunction(name, v).verdict = "throws" => HasForeignRecursion(name)
<1> DEFINE t == Registry[name]
           cx == Context(name)
           q == AssertFunction(name, v)
<1>1. Stack \in Nat /\ Stack + 1 \in Nat /\ Stack <= Stack /\ t \in AllTypes /\ cx \in Contexts
      BY StackAssumption, NameKnown DEF StackAssumption
<1>2. Admits(t, v) \/ Belonging[Stack + 1][t][v]
      BY DEF IsMember, Belonging
<1>3. CASE Admits(t, v)
  <2>1. q = Result(v, "ok")
        BY <1>3 DEF AssertFunction, AssertType
  <2> HIDE DEF q
  <2>2. q.v = v /\ q.verdict = "ok"
        BY <2>1, ResultParts
  <2> QED BY <2>2 DEF q
<1>4. CASE ~Admits(t, v)
  <2>1. q = asserter[Stack][t][v][cx]
        BY <1>4 DEF AssertFunction, AssertType
  <2>2. Handled(Stack, t, v, cx)
        BY <1>1, <1>2, <1>4, AllHandled DEF HandledAt
  <2>3. Nested(Stack, t, cx) /\ cx.root = name
        BY <1>1, RootNested DEF Context
  <2> HIDE DEF q, t, cx
  <2>4. /\ q.verdict = "ok" => q.v = v
        /\ q.verdict # "rejected"
        /\ q.verdict = "throws" => HasForeignRecursion(name)
        BY <2>1, <2>2, <2>3 DEF Handled
  <2> QED BY <2>4 DEF q
<1> QED BY <1>3, <1>4

-----------------------------------------------------------------------------
(* The calls. *)

\* The inductive invariant: the type is one of those with a companion, and
\* the value, now and before the last call, is a known one.
AssertInv == /\ type \in TypeNames
             /\ value \in AllValues
             /\ last.before \in AllValues
             /\ AssertExact

LEMMA AssertInit == Init => AssertInv
<1> SUFFICES ASSUME Init PROVE AssertInv
    OBVIOUS
<1>1. type \in TypeNames /\ value \in AllValues
      BY NamesAssumption DEF NamesAssumption, Init
<1>2. last.before \in AllValues /\ last.fn = "none"
      BY DEF Init, NoCall, AllValues
<1>3. AssertExact
      BY <1>2 DEF AssertExact, LastWas
<1> QED BY <1>1, <1>2, <1>3 DEF AssertInv

\* Only assert<Name> is noted as such, with its verdict, and leaves what it
\* has made of the value.
LEMMA AssertNoted ==
    ASSUME AssertInv, NEW fn, NEW outcome, NEW after, NEW json, Calling(fn, outcome, after, json),
           fn = "assert" => /\ outcome = AssertFunction(type, value).verdict
                            /\ after = AssertFunction(type, value).v
    PROVE  AssertInv'
<1>1. /\ type' = type /\ value' = after /\ after \in AllValues
      /\ last'.fn = fn /\ last'.outcome = outcome /\ last'.before = value
      BY DEF Calling
<1>2. type \in TypeNames /\ type \in DOMAIN Registry /\ value \in AllValues
      BY NamesAssumption DEF AssertInv, NamesAssumption
<1>3. CASE fn = "assert"
  <2>1. outcome = "ok" /\ ~HasOpenUnion(type) /\ ~HasWritingMember(type) =>
            IsMember(type, after, AssertedDegree(type))
        BY <1>1, <1>2, <1>3, AssertMeans
  <2>2. IsMember(type, value, Full) => /\ outcome = "ok" => after = value
                                       /\ outcome # "rejected"
                                       /\ outcome = "throws" => HasForeignRecursion(type)
        BY <1>2, <1>3, AssertSpares
  <2>3. AssertExact'
        BY <1>1, <2>1, <2>2 DEF AssertExact, LastWas
  <2> QED BY <1>1, <1>2, <2>3 DEF AssertInv
<1>4. CASE fn # "assert"
  <2>1. AssertExact'
        BY <1>1, <1>4 DEF AssertExact, LastWas
  <2> QED BY <1>1, <1>2, <2>1 DEF AssertInv
<1> QED BY <1>3, <1>4

LEMMA AssertStep == AssertInv /\ [Next]_vars => AssertInv'
<1> SUFFICES ASSUME AssertInv, [Next]_vars PROVE AssertInv'
    OBVIOUS
<1>1. CASE CallIs
  <2>1. PICK outcome : Calling("is", outcome, value, Garbage)
        BY <1>1 DEF CallIs
  <2> QED BY <2>1, AssertNoted
<1>2. CASE CallValidate
  <2>1. PICK outcome, after : Calling("validate", outcome, after, Garbage)
        BY <1>2 DEF CallValidate
  <2> QED BY <2>1, AssertNoted
<1>3. CASE CallAssert
  <2> DEFINE r == AssertFunction(type, value)
  <2>1. Calling("assert", r.verdict, r.v, Garbage)
        BY <1>3 DEF CallAssert
  <2> QED BY <2>1, AssertNoted
<1>4. CASE CallStringifySafe
  <2>1. PICK outcome, after, json : Calling("stringify", outcome, after, json)
        BY <1>4 DEF CallStringifySafe
  <2> QED BY <2>1, AssertNoted
<1>5. CASE CallStringifyGuard
  <2>1. PICK outcome, after, json : Calling("stringify", outcome, after, json)
        BY <1>5 DEF CallStringifyGuard
  <2> QED BY <2>1, AssertNoted
<1>6. CASE CallStringifyNone
  <2>1. PICK outcome, after, json : Calling("stringify", outcome, after, json)
        BY <1>6 DEF CallStringifyNone
  <2> QED BY <2>1, AssertNoted
<1>7. CASE UNCHANGED vars
      BY <1>7 DEF AssertInv, AssertExact, LastWas, vars
<1> QED BY <1>1, <1>2, <1>3, <1>4, <1>5, <1>6, <1>7 DEF Next

\* In every call, whatever the calls before it have left: what assert<Name>
\* lets through, transforms and coercions applied, belongs to the type in
\* full, unless the type has something that assert does not ask for
\* (HasPartlyAsserted; then it belongs to it but for that), a union that is
\* not of literals, or an intersection with a member that changes the value.
\* A value of the type is not rejected, is handed over as it is, and meets a
\* ReferenceError only if the type refers to one that is recursive by a way
\* around it (validate_assert.go).
THEOREM AssertIsExact == Spec => []AssertExact
<1>1. AssertInv => AssertExact
      BY DEF AssertInv
<1> QED BY <1>1, AssertInit, AssertStep, PTL DEF Spec

=============================================================================
