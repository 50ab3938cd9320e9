------------------------------ MODULE ApiProofs ------------------------------
(***************************************************************************)
(* Proofs about ApiOutline: the names of a written file are bound          *)
(* (CallsBound), and every route can be reached (RoutesReachable).         *)
(***************************************************************************)
EXTENDS ApiOutline, SequenceFacts

-----------------------------------------------------------------------------
(* Edits: what is in the functions afterwards was there or is an edit's.   *)

\* Lines and wrappers are of these sets.
HoldOnly(functions, lines, wrappers) ==
    \A i \in DOMAIN functions :
        /\ {"lines", "returns", "async"} \subseteq DOMAIN functions[i]
        /\ functions[i].lines \in Seq(lines)
        /\ \A k \in DOMAIN functions[i].returns :
              /\ "wraps" \in DOMAIN functions[i].returns[k]
              /\ functions[i].returns[k].wraps \in Seq(wrappers)

LEMMA InjectHolds ==
    ASSUME NEW fs, NEW lines, NEW wrappers, HoldOnly(fs, lines, wrappers), NEW m, NEW line \in lines
    PROVE  HoldOnly(InjectAtMethodStart(fs, m, line), lines, wrappers)
<1>1. CASE Matching(fs, m) = {}
      BY <1>1 DEF InjectAtMethodStart
<1>2. CASE Matching(fs, m) # {}
  <2> DEFINE x == Min(Matching(fs, m))
             g == [fs EXCEPT ![x].lines = <<line>> \o @]
  <2>1. InjectAtMethodStart(fs, m, line) = g
        BY <1>2 DEF InjectAtMethodStart
  <2> HIDE DEF x
  <2>2. ASSUME NEW i \in DOMAIN g
        PROVE  /\ {"lines", "returns", "async"} \subseteq DOMAIN g[i]
               /\ g[i].lines \in Seq(lines)
               /\ g[i].returns = fs[i].returns
    <3>1. i \in DOMAIN fs /\ {"lines", "returns", "async"} \subseteq DOMAIN fs[i] /\ fs[i].lines \in Seq(lines)
          BY DEF HoldOnly
    <3>2. CASE i = x
      <4>1. g[i] = [fs[i] EXCEPT !.lines = <<line>> \o @]
            BY <3>1, <3>2
      <4>2. <<line>> \o fs[i].lines \in Seq(lines)
            BY <3>1
      <4>3. g[i].lines = <<line>> \o fs[i].lines /\ g[i].returns = fs[i].returns /\ DOMAIN g[i] = DOMAIN fs[i]
            BY <3>1, <4>1
      <4> QED BY <3>1, <4>2, <4>3
    <3>3. CASE i # x
          BY <3>1, <3>3
    <3> QED BY <3>2, <3>3
  <2>3. DOMAIN g = DOMAIN fs
        OBVIOUS
  <2> HIDE DEF g
  <2>4. HoldOnly(g, lines, wrappers)
        BY <2>2, <2>3 DEF HoldOnly
  <2> QED BY <2>1, <2>4
<1> QED BY <1>1, <1>2

LEMMA AsyncHolds ==
    ASSUME NEW fs, NEW lines, NEW wrappers, HoldOnly(fs, lines, wrappers), NEW m
    PROVE  HoldOnly(MakeAsync(fs, m), lines, wrappers)
<1> DEFINE at == {i \in DOMAIN fs : fs[i].class # "" /\ fs[i].name = m /\ ~fs[i].async}
           x  == Min(at)
           g  == [fs EXCEPT ![x].async = TRUE]
<1>1. MakeAsync(fs, m) = fs \/ MakeAsync(fs, m) = g
      BY DEF MakeAsync
<1> HIDE DEF at, x
<1>2. ASSUME NEW i \in DOMAIN g
      PROVE  /\ {"lines", "returns", "async"} \subseteq DOMAIN g[i]
             /\ g[i].lines = fs[i].lines
             /\ g[i].returns = fs[i].returns
  <2>1. i \in DOMAIN fs /\ {"lines", "returns", "async"} \subseteq DOMAIN fs[i]
        BY DEF HoldOnly
  <2>2. CASE i = x
    <3>1. g[i] = [fs[i] EXCEPT !.async = TRUE]
          BY <2>1, <2>2
    <3> QED BY <2>1, <3>1
  <2>3. CASE i # x
        BY <2>1, <2>3
  <2> QED BY <2>2, <2>3
<1>3. DOMAIN g = DOMAIN fs
      OBVIOUS
<1> HIDE DEF g
<1>4. HoldOnly(g, lines, wrappers)
      BY <1>2, <1>3 DEF HoldOnly
<1> QED BY <1>1, <1>4

LEMMA WrapHolds ==
    ASSUME NEW fs, NEW lines, NEW wrappers, HoldOnly(fs, lines, wrappers), NEW m, NEW wrapper \in wrappers
    PROVE  HoldOnly(WrapReturns(fs, m, wrapper), lines, wrappers)
<1>1. CASE Matching(fs, m) = {}
      BY <1>1 DEF WrapReturns
<1>2. CASE Matching(fs, m) # {}
  <2> DEFINE x == Min(Matching(fs, m))
             h == IF fs[x].async THEN fs ELSE MakeAsync(fs, m)
             wrapped(rs) == [k \in DOMAIN rs |-> IF rs[k].top THEN [rs[k] EXCEPT !.wraps = Append(@, wrapper)] ELSE rs[k]]
             g == [h EXCEPT ![x].returns = wrapped(@)]
  <2>1. WrapReturns(fs, m, wrapper) = g
        BY <1>2 DEF WrapReturns
  <2>2. HoldOnly(h, lines, wrappers)
        BY AsyncHolds
  <2> HIDE DEF x, h
  <2>3. ASSUME NEW i \in DOMAIN g
        PROVE  /\ {"lines", "returns", "async"} \subseteq DOMAIN g[i]
               /\ g[i].lines \in Seq(lines)
               /\ \A k \in DOMAIN g[i].returns :
                     "wraps" \in DOMAIN g[i].returns[k] /\ g[i].returns[k].wraps \in Seq(wrappers)
    <3>1. /\ i \in DOMAIN h /\ {"lines", "returns", "async"} \subseteq DOMAIN h[i]
          /\ h[i].lines \in Seq(lines)
          /\ \A k \in DOMAIN h[i].returns :
                "wraps" \in DOMAIN h[i].returns[k] /\ h[i].returns[k].wraps \in Seq(wrappers)
          BY <2>2 DEF HoldOnly
    <3>2. CASE i = x
      <4>1. g[i] = [h[i] EXCEPT !.returns = wrapped(@)]
            BY <3>1, <3>2
      <4>2. g[i].returns = wrapped(h[i].returns) /\ g[i].lines = h[i].lines /\ DOMAIN g[i] = DOMAIN h[i]
            BY <3>1, <4>1
      <4>3. ASSUME NEW k \in DOMAIN wrapped(h[i].returns)
            PROVE  /\ "wraps" \in DOMAIN wrapped(h[i].returns)[k]
                   /\ wrapped(h[i].returns)[k].wraps \in Seq(wrappers)
        <5>1. k \in DOMAIN h[i].returns /\ "wraps" \in DOMAIN h[i].returns[k]
              /\ h[i].returns[k].wraps \in Seq(wrappers)
              BY <3>1
        <5>2. Append(h[i].returns[k].wraps, wrapper) \in Seq(wrappers)
              BY <5>1
        <5>3. \/ wrapped(h[i].returns)[k] = h[i].returns[k]
              \/ wrapped(h[i].returns)[k] = [h[i].returns[k] EXCEPT !.wraps = Append(@, wrapper)]
              BY <5>1
        <5> QED BY <5>1, <5>2, <5>3
      <4> HIDE DEF wrapped, g
      <4> QED BY <3>1, <4>2, <4>3
    <3>3. CASE i # x
          BY <3>1, <3>3
    <3> QED BY <3>2, <3>3
  <2>4. DOMAIN g = DOMAIN h
        OBVIOUS
  <2> HIDE DEF g
  <2>5. HoldOnly(g, lines, wrappers)
        BY <2>3, <2>4 DEF HoldOnly
  <2> QED BY <2>1, <2>5
<1> QED BY <1>1, <1>2

LEMMA EditHolds ==
    ASSUME NEW fs, NEW lines, NEW wrappers, HoldOnly(fs, lines, wrappers), NEW e,
           e.kind = "inject" => e.with \in lines, e.kind # "inject" => e.with \in wrappers
    PROVE  HoldOnly(Edit(fs, e), lines, wrappers)
<1>1. CASE e.kind = "inject"
  <2>1. Edit(fs, e) = InjectAtMethodStart(fs, e.method, e.with)
        BY <1>1 DEF Edit
  <2> QED BY <1>1, <2>1, InjectHolds
<1>2. CASE e.kind # "inject"
  <2>1. Edit(fs, e) = WrapReturns(fs, e.method, e.with)
        BY <1>2 DEF Edit
  <2> QED BY <1>2, <2>1, WrapHolds
<1> QED BY <1>1, <1>2

\* ApplyEdits is Edit once for each, the first one first.
LEMMA ApplyEditsUnfolds ==
    ASSUME NEW fs, NEW edits, edits \in Seq(ToSet(edits))
    PROVE  \E f : /\ f[0] = fs
                  /\ \A n, m \in 0 .. Len(edits) : n = m + 1 => f[n] = Edit(f[m], edits[n])
                  /\ ApplyEdits(fs, edits) = f[Len(edits)]
<1> DEFINE L == Len(edits)
           Is(g, n) == g = [i \in 0 .. n |-> IF i = 0 THEN fs ELSE Edit(g[i - 1], edits[i])]
           Has(n) == \E g : Is(g, n)
           S == {n \in Nat : Has(n)}
<1>1. L \in Nat
      OBVIOUS
<1>2. 0 \in S
  <2> DEFINE h == [i \in 0 .. 0 |-> fs]
  <2>1. Is(h, 0)
        OBVIOUS
  <2>2. Has(0)
        BY <2>1
  <2> HIDE DEF Has
  <2> QED BY <2>2
<1>3. ASSUME NEW n \in Nat, n \in S PROVE n + 1 \in S
  <2>1. PICK g : Is(g, n)
        BY <1>3
  <2> DEFINE h == [i \in 0 .. n + 1 |-> IF i = n + 1 THEN Edit(g[n], edits[i]) ELSE g[i]]
  <2>2. n + 1 \in 0 .. n + 1 /\ \A i \in 0 .. n : i \in 0 .. n + 1 /\ i # n + 1
        OBVIOUS
  <2>3. h[n + 1] = Edit(g[n], edits[n + 1])
        BY <2>2
  <2>4. \A i \in 0 .. n : h[i] = g[i]
        BY <2>2
  <2>5. h = [i \in 0 .. n + 1 |-> h[i]]
        OBVIOUS
  <2> HIDE DEF h
  <2>6. ASSUME NEW i \in 0 .. n + 1
        PROVE  h[i] = IF i = 0 THEN fs ELSE Edit(h[i - 1], edits[i])
    <3>1. CASE i = n + 1
      <4>1. i - 1 = n /\ n \in 0 .. n /\ i # 0
            BY <3>1
      <4>2. h[i - 1] = g[n]
            BY <2>4, <4>1
      <4> QED BY <2>3, <3>1, <4>1, <4>2
    <3>2. CASE i # n + 1
      <4>1. i \in 0 .. n /\ (i # 0 => i - 1 \in 0 .. n)
            BY <3>2
      <4>2. h[i] = g[i] /\ (i # 0 => h[i - 1] = g[i - 1])
            BY <2>4, <4>1
      <4>3. g[i] = IF i = 0 THEN fs ELSE Edit(g[i - 1], edits[i])
            BY <2>1, <4>1
      <4> QED BY <4>2, <4>3
    <3> QED BY <3>1, <3>2
  <2>7. Is(h, n + 1)
        BY <2>5, <2>6
  <2>8. Has(n + 1)
        BY <2>7
  <2> HIDE DEF Has
  <2> QED BY <2>8
<1>4. L \in S
  <2> HIDE DEF S
  <2>1. \A n \in Nat : n \in S => n + 1 \in S
        BY <1>3
  <2> QED BY <1>1, <1>2, <2>1, Induction
<1> DEFINE f == CHOOSE g : Is(g, L)
<1>5. Is(f, L)
      BY <1>4
<1>6. ApplyEdits(fs, edits) = f[L]
      BY DEF ApplyEdits
<1> HIDE DEF f
<1>7. f[0] = fs
      BY <1>1, <1>5
<1>8. ASSUME NEW n \in 0 .. L, NEW m \in 0 .. L, n = m + 1 PROVE f[n] = Edit(f[m], edits[n])
  <2>1. n # 0 /\ n - 1 = m
        BY <1>1, <1>8
  <2>2. f[n] = IF n = 0 THEN fs ELSE Edit(f[n - 1], edits[n])
        BY <1>5
  <2> QED BY <2>1, <2>2
<1> QED BY <1>6, <1>7, <1>8

LEMMA EditsHold ==
    ASSUME NEW fs, NEW lines, NEW wrappers, HoldOnly(fs, lines, wrappers),
           NEW edits, edits \in Seq(ToSet(edits)),
           \A e \in ToSet(edits) : (e.kind = "inject" => e.with \in lines) /\ (e.kind # "inject" => e.with \in wrappers)
    PROVE  HoldOnly(ApplyEdits(fs, edits), lines, wrappers)
<1> DEFINE L == Len(edits)
<1>1. PICK f : /\ f[0] = fs
               /\ \A n, m \in 0 .. L : n = m + 1 => f[n] = Edit(f[m], edits[n])
               /\ ApplyEdits(fs, edits) = f[L]
      BY ApplyEditsUnfolds
<1>2. L \in Nat /\ \A n \in 1 .. L : edits[n] \in ToSet(edits)
      OBVIOUS
<1> DEFINE Good(n) == HoldOnly(f[n], lines, wrappers)
           S == {n \in Nat : n <= L => Good(n)}
<1>3. 0 \in S
      BY <1>1
<1>4. ASSUME NEW m \in Nat, m \in S PROVE m + 1 \in S
  <2>1. SUFFICES ASSUME m + 1 <= L PROVE Good(m + 1)
        OBVIOUS
  <2>2. m \in 0 .. L /\ m + 1 \in 0 .. L /\ m + 1 \in 1 .. L /\ m <= L
        BY <1>2, <2>1
  <2>3. HoldOnly(f[m], lines, wrappers)
        BY <1>4, <2>2
  <2>4. f[m + 1] = Edit(f[m], edits[m + 1])
        BY <1>1, <2>2
  <2>5. edits[m + 1] \in ToSet(edits)
        BY <1>2, <2>2
  <2> QED BY <2>3, <2>4, <2>5, EditHolds
<1>5. L \in S
  <2> HIDE DEF S
  <2>1. \A n \in Nat : n \in S => n + 1 \in S
        BY <1>4
  <2> QED BY <1>2, <1>3, <2>1, Induction
<1> QED BY <1>1, <1>2, <1>5

-----------------------------------------------------------------------------
(* Routes: what the analyzer makes of a method, a class and a program.     *)

LEMMA OneIfFacts ==
    ASSUME NEW c \in BOOLEAN, NEW x
    PROVE  OneIf(c, x) \in Seq(ToSet(OneIf(c, x))) /\ ToSet(OneIf(c, x)) = IF c THEN {x} ELSE {}
<1>1. <<x>> \in Seq({x}) /\ DOMAIN <<x>> = {1} /\ <<x>>[1] = x
      OBVIOUS
<1>2. ToSet(<<x>>) = {x}
      BY <1>1 DEF ToSet
<1>3. <<>> \in Seq(ToSet(<<>>)) /\ ToSet(<<>>) = {}
      BY DEF ToSet
<1> QED BY <1>1, <1>2, <1>3 DEF OneIf

LEMMA ParametersAreList ==
    ASSUME NEW mt, IsSequence(mt.params)
    PROVE  IsSequence(Parameters(mt))
<1> DEFINE n == Len(mt.params)
           f == [i \in 1 .. n |-> OneIf(CategoryOf(mt.params[i]) # "", AnalyzeParameter(mt, mt.params[i]))]
<1>1. n \in Nat /\ DOMAIN mt.params = 1 .. n
      BY DEF IsSequence
<1>2. Parameters(mt) = FlattenSeq(f)
      BY <1>1 DEF Parameters
<1>3. ASSUME NEW i \in 1 .. n PROVE f[i] \in Seq(ToSet(f[i]))
  <2>1. (CategoryOf(mt.params[i]) # "") \in BOOLEAN
        OBVIOUS
  <2> QED BY <2>1, OneIfFacts
<1>4. f = [i \in 1 .. n |-> f[i]]
      OBVIOUS
<1> HIDE DEF f
<1> QED BY <1>1, <1>2, <1>3, <1>4, FlattenedMap DEF IsSequence

LEMMA VariantsAreList ==
    ASSUME NEW t, IsType(t)
    PROVE  IsSequence(EventVariants(t))
<1> DEFINE u == Resolved(t)
<1>1. IsType(u)
      BY RegistryAssumption DEF Resolved
<1>2. ASSUME NEW m PROVE IsSequence(VariantOf(m))
  <2>1. \/ VariantOf(m) = <<>>
        \/ \E x : VariantOf(m) = <<x>>
        BY DEF VariantOf
  <2>2. ASSUME NEW x PROVE IsSequence(<<x>>)
        BY OneIfFacts DEF OneIf, IsSequence
  <2>3. IsSequence(<<>>)
        BY DEF IsSequence
  <2>4. CASE VariantOf(m) = <<>>
        BY <2>3, <2>4
  <2>5. CASE \E x : VariantOf(m) = <<x>>
    <3>1. PICK x : VariantOf(m) = <<x>>
          BY <2>5
    <3> HIDE DEF IsSequence
    <3> QED BY <2>2, <3>1
  <2> QED BY <2>1, <2>4, <2>5
<1>3. CASE u.kind = "union"
  <2> DEFINE n == Len(u.members)
             f == [i \in 1 .. n |-> VariantOf(u.members[i])]
  <2>1. n \in Nat /\ DOMAIN u.members = 1 .. n
        BY <1>1, <1>3 DEF IsType, IsSequence
  <2>2. EventVariants(t) = FlattenSeq(f)
        BY <1>3, <2>1 DEF EventVariants
  <2>3. \A i \in 1 .. n : f[i] \in Seq(ToSet(f[i]))
        BY <1>2 DEF IsSequence
  <2>4. f = [i \in 1 .. n |-> f[i]]
        OBVIOUS
  <2> HIDE DEF f
  <2> QED BY <2>1, <2>2, <2>3, <2>4, FlattenedMap DEF IsSequence
<1>4. CASE u.kind = "object"
      BY <1>2, <1>4 DEF EventVariants
<1>5. CASE u.kind # "union" /\ u.kind # "object"
      BY <1>5 DEF EventVariants, IsSequence, ToSet
<1> QED BY <1>3, <1>4, <1>5

VerbsOf(mt) == IF mt.verb = "All" THEN ToSet(AllVerbs) ELSE {Verbs[mt.verb]}
\* r is a route of the method, under this prefix of its class.
FromMethod(r, cls, prefix, mt) ==
    /\ r.class = cls.name /\ r.method = mt.name
    /\ r.path \in {CombinePaths(prefix, q) : q \in PathsOf(mt)} /\ r.verb \in VerbsOf(mt)
    /\ r.version = IF mt.versions = <<>> THEN cls.version ELSE mt.versions[1]
    /\ r.versions = IF Len(mt.versions) > 1 THEN mt.versions ELSE <<>>
    /\ IsSequence(r.params) /\ IsSequence(r.variants)

LEMMA BaseRouteFields ==
    ASSUME NEW cls, NEW prefix, NEW mt, NEW walked, IsMethod(mt)
    PROVE  LET b == BaseRoute(cls, prefix, mt, walked)
           IN  /\ {"verb", "path", "status"} \subseteq DOMAIN b
               /\ b.class = cls.name /\ b.method = mt.name
               /\ b.version = (IF mt.versions = <<>> THEN cls.version ELSE mt.versions[1])
               /\ b.versions = (IF Len(mt.versions) > 1 THEN mt.versions ELSE <<>>)
               /\ b.verb = Verbs[mt.verb] /\ b.sse = (mt.verb \in EventVerbs)
               /\ b.path = CombinePaths(prefix, IF mt.paths = <<>> THEN <<>> ELSE mt.paths[1])
               /\ IsSequence(b.params) /\ IsSequence(b.variants)
<1> DEFINE b == BaseRoute(cls, prefix, mt, walked)
<1>1. b.variants = <<>> \/ b.variants = EventVariants(ReturnTypeOf(mt))
      BY DEF BaseRoute
<1>2. IsSequence(b.variants)
  <2>1. IsSequence(<<>>)
        BY DEF IsSequence
  <2>2. IsSequence(EventVariants(ReturnTypeOf(mt)))
        BY VariantsAreList DEF IsMethod
  <2> QED BY <1>1, <2>1, <2>2
<1>3. b.params = Parameters(mt)
      BY DEF BaseRoute
<1>4. IsSequence(b.params)
      BY <1>3, ParametersAreList DEF IsMethod
<1>5. /\ {"verb", "path", "status"} \subseteq DOMAIN b
      /\ b.class = cls.name /\ b.method = mt.name
      /\ b.version = (IF mt.versions = <<>> THEN cls.version ELSE mt.versions[1])
      /\ b.versions = (IF Len(mt.versions) > 1 THEN mt.versions ELSE <<>>)
      /\ b.verb = Verbs[mt.verb] /\ b.sse = (mt.verb \in EventVerbs)
      /\ b.path = CombinePaths(prefix, IF mt.paths = <<>> THEN <<>> ELSE mt.paths[1])
      BY DEF BaseRoute
<1> QED BY <1>2, <1>4, <1>5

LEMMA RoutesOfMethod ==
    ASSUME NEW cls, NEW prefix, NEW mt, NEW walked, IsMethod(mt), IsRoute(cls, mt)
    PROVE  LET rs == AnalyzeMethod(cls, prefix, mt, walked)
           IN  /\ IsSequence(rs)
               /\ \A r \in ToSet(rs) : FromMethod(r, cls, prefix, mt)
               /\ \A q \in PathsOf(mt) : \A verb \in VerbsOf(mt) : \E r \in ToSet(rs) :
                     r.path = CombinePaths(prefix, q) /\ r.verb = verb
<1> DEFINE rs == AnalyzeMethod(cls, prefix, mt, walked)
           b  == BaseRoute(cls, prefix, mt, walked)
           verbs == IF mt.verb = "All" THEN AllVerbs ELSE <<b.verb>>
           paths == IF Len(mt.paths) > 1 /\ ~b.sse THEN [i \in DOMAIN mt.paths |-> CombinePaths(prefix, mt.paths[i])]
                    ELSE <<b.path>>
           status(verb) == IF mt.verb = "All" /\ b.status = DefaultStatus(b.verb)
                           THEN DefaultStatus(verb) ELSE b.status
           one(k, i) == [b EXCEPT !.verb = verbs[k], !.path = paths[i], !.status = status(verbs[k])]
           row(k) == [i \in DOMAIN paths |-> one(k, i)]
           f == [k \in DOMAIN verbs |-> row(k)]
<1>1. /\ {"verb", "path", "status"} \subseteq DOMAIN b
      /\ b.class = cls.name /\ b.method = mt.name
      /\ b.version = (IF mt.versions = <<>> THEN cls.version ELSE mt.versions[1])
      /\ b.versions = (IF Len(mt.versions) > 1 THEN mt.versions ELSE <<>>)
      /\ b.verb = Verbs[mt.verb] /\ b.sse = (mt.verb \in EventVerbs)
      /\ b.path = CombinePaths(prefix, IF mt.paths = <<>> THEN <<>> ELSE mt.paths[1])
      /\ IsSequence(b.params) /\ IsSequence(b.variants)
      BY BaseRouteFields
<1>2. rs = FlattenSeq(f)
      BY DEF AnalyzeMethod, ExpandRoutes
<1> HIDE DEF b
<1>3. ASSUME NEW k, NEW i
      PROVE  LET r == one(k, i)
             IN  /\ r.class = b.class /\ r.method = b.method /\ r.version = b.version /\ r.versions = b.versions
                 /\ r.params = b.params /\ r.variants = b.variants /\ r.verb = verbs[k] /\ r.path = paths[i]
      BY <1>1
<1>4. /\ Len(verbs) \in Nat /\ DOMAIN verbs = 1 .. Len(verbs)
      /\ \A k \in DOMAIN verbs : verbs[k] \in VerbsOf(mt)
      /\ \A verb \in VerbsOf(mt) : \E k \in DOMAIN verbs : verbs[k] = verb
  <2>1. CASE mt.verb = "All"
    <3>1. Len(AllVerbs) = 7 /\ DOMAIN AllVerbs = 1 .. 7 /\ verbs = AllVerbs /\ VerbsOf(mt) = ToSet(AllVerbs)
          BY <2>1 DEF AllVerbs, VerbsOf
    <3> HIDE DEF verbs
    <3>2. VerbsOf(mt) = {verbs[k] : k \in DOMAIN verbs}
          BY <3>1 DEF ToSet
    <3>3. Len(verbs) = 7 /\ DOMAIN verbs = 1 .. 7
          BY <3>1
    <3> QED BY <3>2, <3>3
  <2>2. CASE mt.verb # "All"
        BY <1>1, <2>2 DEF VerbsOf
  <2> QED BY <2>1, <2>2
<1>5. /\ Len(paths) \in Nat /\ DOMAIN paths = 1 .. Len(paths)
      /\ \A i \in DOMAIN paths : paths[i] \in {CombinePaths(prefix, q) : q \in PathsOf(mt)}
      /\ \A q \in PathsOf(mt) : \E i \in DOMAIN paths : paths[i] = CombinePaths(prefix, q)
  <2>1. mt.paths \in Seq(Seq(Segment)) /\ (b.sse => Len(mt.paths) < 2)
        BY <1>1 DEF IsMethod
  <2>2. CASE Len(mt.paths) > 1
    <3>0. Len(mt.paths) \in Nat /\ DOMAIN mt.paths = 1 .. Len(mt.paths) /\ b.sse = FALSE
          BY <1>1, <2>1, <2>2
    <3>1. paths = [i \in 1 .. Len(mt.paths) |-> CombinePaths(prefix, mt.paths[i])] /\ Len(mt.paths) \in Nat
          BY <2>2, <3>0
    <3>2. PathsOf(mt) = {mt.paths[i] : i \in 1 .. Len(mt.paths)}
          BY <2>1, <2>2 DEF PathsOf, ToSet
    <3> HIDE DEF paths
    <3> QED BY <3>1, <3>2
  <2>3. CASE mt.paths = <<>>
    <3>1. paths = <<CombinePaths(prefix, <<>>)>> /\ PathsOf(mt) = {<<>>}
          BY <1>1, <2>3 DEF PathsOf
    <3> HIDE DEF paths
    <3> QED BY <3>1
  <2>4. CASE Len(mt.paths) = 1
    <3>1. mt.paths # <<>> /\ DOMAIN mt.paths = {1} /\ ~(Len(mt.paths) > 1)
      <4>1. DOMAIN mt.paths = 1 .. 1 /\ ~(Len(mt.paths) > 1)
            BY <2>1, <2>4
      <4>2. Len(<<>>) = 0
            OBVIOUS
      <4> QED BY <2>4, <4>1, <4>2
    <3>2. paths = <<CombinePaths(prefix, mt.paths[1])>>
          BY <1>1, <3>1
    <3>3. PathsOf(mt) = {mt.paths[1]}
          BY <3>1 DEF PathsOf, ToSet
    <3> HIDE DEF paths
    <3> QED BY <3>2, <3>3
  <2>5. Len(mt.paths) \in Nat /\ (Len(mt.paths) = 0 => mt.paths = <<>>)
        BY <2>1
  <2> HIDE DEF paths
  <2>6. \A n \in Nat : n = 0 \/ n = 1 \/ n > 1
        OBVIOUS
  <2> QED BY <2>2, <2>3, <2>4, <2>5, <2>6
<1> HIDE DEF verbs, paths, one
<1>6. ASSUME NEW k \in DOMAIN verbs
      PROVE  row(k) \in Seq(ToSet(row(k))) /\ ToSet(row(k)) = {one(k, i) : i \in DOMAIN paths}
      BY <1>5, Mapped
<1>7. f = [k \in 1 .. Len(verbs) |-> f[k]] /\ \A k \in DOMAIN verbs : f[k] = row(k)
      BY <1>4
<1> HIDE DEF row, f
<1>8. /\ rs \in Seq(ToSet(rs))
      /\ ToSet(rs) = UNION {ToSet(f[k]) : k \in DOMAIN verbs}
  <2>1. \A k \in 1 .. Len(verbs) : f[k] \in Seq(ToSet(f[k]))
        BY <1>4, <1>6, <1>7
  <2> QED BY <1>2, <1>4, <1>7, <2>1, FlattenedMap
<1>9. ASSUME NEW r \in ToSet(rs) PROVE FromMethod(r, cls, prefix, mt)
  <2>0. PICK k \in DOMAIN verbs : r \in ToSet(row(k))
        BY <1>7, <1>8
  <2>1. PICK i \in DOMAIN paths : r = one(k, i)
        BY <1>6, <2>0
  <2> QED BY <1>1, <1>3, <1>4, <1>5, <2>1 DEF FromMethod
<1>10. ASSUME NEW q \in PathsOf(mt), NEW verb \in VerbsOf(mt)
       PROVE  \E r \in ToSet(rs) : r.path = CombinePaths(prefix, q) /\ r.verb = verb
  <2>1. PICK k \in DOMAIN verbs : verbs[k] = verb
        BY <1>4
  <2>2. PICK i \in DOMAIN paths : paths[i] = CombinePaths(prefix, q)
        BY <1>5
  <2>3. one(k, i) \in ToSet(rs)
        BY <1>6, <1>7, <1>8
  <2> QED BY <1>3, <2>1, <2>2, <2>3
<1> QED BY <1>8, <1>9, <1>10 DEF IsSequence

\* c is a controller of the class: what it has, and that it has every route.
FromClass(c, cls) ==
    /\ c.hidden = cls.hidden
    /\ IsSequence(c.routes)
    /\ \A r \in ToSet(c.routes) : \E mt \in ToSet(cls.methods), p \in PathsOf(cls) :
          IsRoute(cls, mt) /\ FromMethod(r, cls, p, mt)
HasRoute(c, cls, p, mt, q, verb) ==
    \E r \in ToSet(c.routes) : FromMethod(r, cls, p, mt) /\ r.path = CombinePaths(p, q) /\ r.verb = verb

LEMMA ControllersOfClass ==
    ASSUME NEW cls, NEW walked, IsClass(cls)
    PROVE  LET cs == AnalyzeClass(cls, walked)
           IN  /\ IsSequence(cs)
               /\ \A c \in ToSet(cs) : FromClass(c, cls)
               /\ \A mt \in ToSet(cls.methods), p \in PathsOf(cls) : IsRoute(cls, mt) =>
                     \E c \in ToSet(cs) : \A q \in PathsOf(mt), verb \in VerbsOf(mt) : HasRoute(c, cls, p, mt, q, verb)
<1> DEFINE cs == AnalyzeClass(cls, walked)
           prefixes == IF cls.paths = <<>> THEN <<<<>>>> ELSE cls.paths
           before(k) == walked \cup UNION {TypesUsed(cls.methods[j]) : j \in 1 .. k}
           n == Len(cls.methods)
           part(i, k) == AnalyzeMethod(cls, prefixes[i], cls.methods[k], before(k))
           parts(i) == [k \in 1 .. n |-> part(i, k)]
           one(i) == [name |-> cls.name, path |-> prefixes[i], file |-> cls.file, hidden |-> cls.hidden,
                      routes |-> FlattenSeq(parts(i))]
<1>1. CASE cls.dynamic
  <2>1. cs = <<>>
        BY <1>1 DEF AnalyzeClass
  <2>2. \A mt : ~IsRoute(cls, mt)
        BY <1>1 DEF IsRoute
  <2> QED BY <2>1, <2>2 DEF IsSequence, ToSet
<1>2. CASE ~cls.dynamic
  <2>1. n \in Nat /\ DOMAIN cls.methods = 1 .. n /\ \A k \in 1 .. n : cls.methods[k] \in ToSet(cls.methods)
        BY DEF IsClass, IsSequence, ToSet
  <2>2. cs = [i \in DOMAIN prefixes |-> one(i)]
        BY <1>2, <2>1 DEF AnalyzeClass
  <2>3. /\ Len(prefixes) \in Nat /\ DOMAIN prefixes = 1 .. Len(prefixes)
        /\ PathsOf(cls) = {prefixes[i] : i \in DOMAIN prefixes}
    <3>1. CASE cls.paths = <<>>
      <4>1. prefixes = <<<<>>>> /\ PathsOf(cls) = {<<>>}
            BY <3>1 DEF PathsOf
      <4> HIDE DEF prefixes
      <4> QED BY <4>1
    <3>2. CASE cls.paths # <<>>
          BY <3>2 DEF PathsOf, ToSet, IsClass
    <3> QED BY <3>1, <3>2
  <2> HIDE DEF prefixes, before, n
  <2>4. ASSUME NEW i \in DOMAIN prefixes, NEW k \in 1 .. n
        PROVE  /\ part(i, k) \in Seq(ToSet(part(i, k)))
               /\ \A r \in ToSet(part(i, k)) : IsRoute(cls, cls.methods[k]) /\ FromMethod(r, cls, prefixes[i], cls.methods[k])
               /\ IsRoute(cls, cls.methods[k]) =>
                    \A q \in PathsOf(cls.methods[k]), verb \in VerbsOf(cls.methods[k]) :
                       \E r \in ToSet(part(i, k)) : r.path = CombinePaths(prefixes[i], q) /\ r.verb = verb
    <3>1. CASE ~IsRoute(cls, cls.methods[k])
      <4>1. part(i, k) = <<>>
            BY <3>1 DEF AnalyzeMethod
      <4> HIDE DEF part
      <4> QED BY <3>1, <4>1 DEF ToSet
    <3>2. CASE IsRoute(cls, cls.methods[k])
      <4>1. IsMethod(cls.methods[k])
            BY <2>1 DEF IsClass
      <4> QED BY <3>2, <4>1, RoutesOfMethod DEF IsSequence
    <3> QED BY <3>1, <3>2
  <2> HIDE DEF part
  <2>5. ASSUME NEW i \in DOMAIN prefixes
        PROVE  /\ FlattenSeq(parts(i)) \in Seq(ToSet(FlattenSeq(parts(i))))
               /\ ToSet(FlattenSeq(parts(i))) = UNION {ToSet(part(i, k)) : k \in 1 .. n}
    <3>1. parts(i) = [k \in 1 .. n |-> parts(i)[k]] /\ \A k \in 1 .. n : parts(i)[k] = part(i, k)
          OBVIOUS
    <3> HIDE DEF parts
    <3>2. \A k \in 1 .. n : parts(i)[k] \in Seq(ToSet(parts(i)[k]))
          BY <2>4, <3>1
    <3>3. {ToSet(parts(i)[k]) : k \in 1 .. n} = {ToSet(part(i, k)) : k \in 1 .. n}
          BY <3>1
    <3> QED BY <2>1, <3>1, <3>2, <3>3, FlattenedMap
  <2>6. \A i \in DOMAIN prefixes : one(i).hidden = cls.hidden /\ one(i).routes = FlattenSeq(parts(i))
        OBVIOUS
  <2> HIDE DEF one, parts
  <2>7. cs \in Seq(ToSet(cs)) /\ ToSet(cs) = {one(i) : i \in DOMAIN prefixes}
    <3>1. cs = [i \in 1 .. Len(prefixes) |-> cs[i]] /\ \A i \in DOMAIN prefixes : cs[i] = one(i)
          BY <2>2, <2>3
    <3> HIDE DEF cs
    <3> QED BY <2>3, <3>1, Mapped
  <2>8. ASSUME NEW c \in ToSet(cs) PROVE FromClass(c, cls)
    <3>1. PICK i \in DOMAIN prefixes : c = one(i)
          BY <2>7
    <3>2. prefixes[i] \in PathsOf(cls)
          BY <2>3
    <3>3. ASSUME NEW r \in ToSet(c.routes)
          PROVE  \E mt \in ToSet(cls.methods), p \in PathsOf(cls) : IsRoute(cls, mt) /\ FromMethod(r, cls, p, mt)
      <4>1. PICK k \in 1 .. n : r \in ToSet(part(i, k))
            BY <2>5, <2>6, <3>1
      <4> QED BY <2>1, <2>4, <3>2, <4>1
    <3> QED BY <2>5, <2>6, <3>1, <3>3 DEF FromClass, IsSequence
  <2>9. ASSUME NEW mt \in ToSet(cls.methods), NEW p \in PathsOf(cls), IsRoute(cls, mt)
        PROVE  \E c \in ToSet(cs) : \A q \in PathsOf(mt), verb \in VerbsOf(mt) : HasRoute(c, cls, p, mt, q, verb)
    <3>1. PICK i \in DOMAIN prefixes : prefixes[i] = p
          BY <2>3
    <3>2. PICK k \in 1 .. n : cls.methods[k] = mt
          BY <2>1 DEF ToSet
    <3>3. ASSUME NEW q \in PathsOf(mt), NEW verb \in VerbsOf(mt) PROVE HasRoute(one(i), cls, p, mt, q, verb)
      <4>0. \A a \in PathsOf(mt), v \in VerbsOf(mt) :
               \E r \in ToSet(part(i, k)) : r.path = CombinePaths(prefixes[i], a) /\ r.verb = v
        <5>1. IsRoute(cls, cls.methods[k])
              BY <2>9, <3>2
        <5>2. \A a \in PathsOf(cls.methods[k]), v \in VerbsOf(cls.methods[k]) :
                 \E r \in ToSet(part(i, k)) : r.path = CombinePaths(prefixes[i], a) /\ r.verb = v
              BY <2>4, <5>1
        <5> QED BY <3>2, <5>2
      <4>1. PICK r \in ToSet(part(i, k)) : r.path = CombinePaths(p, q) /\ r.verb = verb
            BY <3>1, <4>0
      <4>2. r \in ToSet(one(i).routes) /\ FromMethod(r, cls, p, mt)
            BY <2>4, <2>5, <2>6, <3>1, <3>2
      <4> QED BY <4>1, <4>2 DEF HasRoute
    <3>4. one(i) \in ToSet(cs)
          BY <2>7
    <3> QED BY <3>3, <3>4
  <2> QED BY <2>7, <2>8, <2>9 DEF IsSequence
<1> QED BY <1>1, <1>2

LEMMA ControllersOfProgram ==
    ASSUME NEW classes, classes \in Seq(ToSet(classes)), \A cls \in ToSet(classes) : IsClass(cls)
    PROVE  LET cs == AnalyzeProgram(classes)
           IN  /\ IsSequence(cs)
               /\ \A c \in ToSet(cs) : \E cls \in ToSet(classes) : FromClass(c, cls)
               /\ \A cls \in ToSet(classes) : \A mt \in ToSet(cls.methods), p \in PathsOf(cls) : IsRoute(cls, mt) =>
                     \E c \in ToSet(cs) :
                        FromClass(c, cls) /\ \A q \in PathsOf(mt), verb \in VerbsOf(mt) : HasRoute(c, cls, p, mt, q, verb)
<1> DEFINE cs == AnalyzeProgram(classes)
           n == Len(classes)
           walked(c) == UNION {UNION {TypesUsed(classes[b].methods[k]) : k \in DOMAIN classes[b].methods}
                               : b \in 1 .. c - 1}
           part(c) == AnalyzeClass(classes[c], walked(c))
           f == [c \in 1 .. n |-> part(c)]
<1>1. n \in Nat /\ DOMAIN classes = 1 .. n /\ ToSet(classes) = {classes[c] : c \in 1 .. n}
      BY DEF ToSet
<1>2. cs = FlattenSeq(f)
      BY <1>1 DEF AnalyzeProgram
<1> HIDE DEF walked
<1>3. ASSUME NEW c \in 1 .. n
      PROVE  /\ part(c) \in Seq(ToSet(part(c)))
             /\ \A x \in ToSet(part(c)) : FromClass(x, classes[c])
             /\ \A mt \in ToSet(classes[c].methods), p \in PathsOf(classes[c]) : IsRoute(classes[c], mt) =>
                   \E x \in ToSet(part(c)) : \A q \in PathsOf(mt), verb \in VerbsOf(mt) : HasRoute(x, classes[c], p, mt, q, verb)
  <2>1. IsClass(classes[c])
        BY <1>1
  <2> QED BY <2>1, ControllersOfClass DEF IsSequence
<1>4. f = [c \in 1 .. n |-> f[c]] /\ \A c \in 1 .. n : f[c] = part(c)
      OBVIOUS
<1> HIDE DEF part, f
<1>5. cs \in Seq(ToSet(cs)) /\ ToSet(cs) = UNION {ToSet(part(c)) : c \in 1 .. n}
  <2>1. \A c \in 1 .. n : f[c] \in Seq(ToSet(f[c]))
        BY <1>3, <1>4
  <2>2. {ToSet(f[c]) : c \in 1 .. n} = {ToSet(part(c)) : c \in 1 .. n}
        BY <1>4
  <2> QED BY <1>1, <1>2, <1>4, <2>1, <2>2, FlattenedMap
<1>6. ASSUME NEW x \in ToSet(cs) PROVE \E cls \in ToSet(classes) : FromClass(x, cls)
      BY <1>1, <1>3, <1>5
<1>7. ASSUME NEW cls \in ToSet(classes), NEW mt \in ToSet(cls.methods), NEW p \in PathsOf(cls), IsRoute(cls, mt)
      PROVE  \E c \in ToSet(cs) :
                FromClass(c, cls) /\ \A q \in PathsOf(mt), verb \in VerbsOf(mt) : HasRoute(c, cls, p, mt, q, verb)
  <2>1. PICK c \in 1 .. n : classes[c] = cls
        BY <1>1
  <2>2. PICK x \in ToSet(part(c)) : \A q \in PathsOf(mt), verb \in VerbsOf(mt) : HasRoute(x, cls, p, mt, q, verb)
        BY <1>3, <1>7, <2>1
  <2>3. x \in ToSet(cs) /\ FromClass(x, cls)
        BY <1>3, <1>5, <2>1, <2>2
  <2> QED BY <2>2, <2>3
<1> QED BY <1>5, <1>6, <1>7 DEF IsSequence

\* What is documented: the versions of the routes that are not hidden.
LEMMA PlannedFacts ==
    ASSUME NEW cs, IsSequence(cs),
           \A c \in ToSet(cs) : IsSequence(c.routes) /\ \A r \in ToSet(c.routes) : IsSequence(VersionsOf(r))
    PROVE  /\ IsSequence(Planned(cs))
           /\ \A x \in ToSet(Planned(cs)) : \E c \in ToSet(cs) : ~c.hidden /\
                 \E r \in ToSet(c.routes) : \E v \in ToSet(VersionsOf(r)) : x = [route |-> r, version |-> v]
           /\ \A c \in ToSet(cs) : ~c.hidden => \A r \in ToSet(c.routes) : \A v \in ToSet(VersionsOf(r)) :
                 [route |-> r, version |-> v] \in ToSet(Planned(cs))
<1> DEFINE n == Len(cs)
           entry(r, v) == [route |-> r, version |-> v]
           row(r) == [v \in DOMAIN VersionsOf(r) |-> entry(r, VersionsOf(r)[v])]
           rows(c) == [r \in DOMAIN cs[c].routes |-> row(cs[c].routes[r])]
           f == [c \in DOMAIN cs |-> IF cs[c].hidden THEN <<>> ELSE FlattenSeq(rows(c))]
<1>1. n \in Nat /\ DOMAIN cs = 1 .. n /\ ToSet(cs) = {cs[c] : c \in 1 .. n}
      BY DEF ToSet, IsSequence
<1>2. Planned(cs) = FlattenSeq(f)
      BY DEF Planned
<1>3. ASSUME NEW r, IsSequence(VersionsOf(r))
      PROVE  row(r) \in Seq(ToSet(row(r))) /\ ToSet(row(r)) = {entry(r, v) : v \in ToSet(VersionsOf(r))}
  <2>1. Len(VersionsOf(r)) \in Nat /\ DOMAIN VersionsOf(r) = 1 .. Len(VersionsOf(r))
        BY <1>3 DEF IsSequence
  <2>2. ToSet(VersionsOf(r)) = {VersionsOf(r)[v] : v \in DOMAIN VersionsOf(r)}
        BY DEF ToSet
  <2>3. row(r) = [v \in 1 .. Len(VersionsOf(r)) |-> row(r)[v]]
        BY <2>1
  <2>4. \A v \in 1 .. Len(VersionsOf(r)) : row(r)[v] = entry(r, VersionsOf(r)[v])
        BY <2>1
  <2> HIDE DEF row, entry
  <2>5. row(r) \in Seq(ToSet(row(r))) /\ ToSet(row(r)) = {row(r)[v] : v \in 1 .. Len(VersionsOf(r))}
        BY <2>1, <2>3, Mapped
  <2> QED BY <2>1, <2>2, <2>4, <2>5
<1> HIDE DEF row
<1>4. ASSUME NEW c \in 1 .. n
      PROVE  /\ FlattenSeq(rows(c)) \in Seq(ToSet(FlattenSeq(rows(c))))
             /\ ToSet(FlattenSeq(rows(c))) = UNION {ToSet(row(r)) : r \in ToSet(cs[c].routes)}
  <2> DEFINE L == Len(cs[c].routes)
  <2>1. IsSequence(cs[c].routes) /\ \A r \in ToSet(cs[c].routes) : IsSequence(VersionsOf(r))
        BY <1>1
  <2>2. L \in Nat /\ DOMAIN cs[c].routes = 1 .. L /\ ToSet(cs[c].routes) = {cs[c].routes[r] : r \in 1 .. L}
        BY <2>1 DEF IsSequence, ToSet
  <2>3. rows(c) = [r \in 1 .. L |-> rows(c)[r]] /\ \A r \in 1 .. L : rows(c)[r] = row(cs[c].routes[r])
        BY <2>2
  <2> HIDE DEF rows, L
  <2>4. \A r \in 1 .. L : rows(c)[r] \in Seq(ToSet(rows(c)[r]))
        BY <1>3, <2>1, <2>2, <2>3
  <2>5. ToSet(FlattenSeq(rows(c))) = UNION {ToSet(rows(c)[r]) : r \in 1 .. L}
        /\ FlattenSeq(rows(c)) \in Seq(ToSet(FlattenSeq(rows(c))))
        BY <2>2, <2>3, <2>4, FlattenedMap
  <2>6. {ToSet(rows(c)[r]) : r \in 1 .. L} = {ToSet(row(r)) : r \in ToSet(cs[c].routes)}
        BY <2>2, <2>3
  <2> QED BY <2>5, <2>6
<1>5. f = [c \in 1 .. n |-> f[c]] /\ \A c \in 1 .. n : f[c] = IF cs[c].hidden THEN <<>> ELSE FlattenSeq(rows(c))
      BY <1>1
<1> HIDE DEF f, rows, n, entry
<1>6. Planned(cs) \in Seq(ToSet(Planned(cs))) /\ ToSet(Planned(cs)) = UNION {ToSet(f[c]) : c \in 1 .. n}
  <2>1. \A c \in 1 .. n : f[c] \in Seq(ToSet(f[c]))
    <3>1. <<>> \in Seq(ToSet(<<>>))
          OBVIOUS
    <3> QED BY <1>4, <1>5, <3>1
  <2> QED BY <1>1, <1>2, <1>5, <2>1, FlattenedMap
<1>7. ASSUME NEW x \in ToSet(Planned(cs))
      PROVE  \E c \in ToSet(cs) : ~c.hidden /\
                 \E r \in ToSet(c.routes) : \E v \in ToSet(VersionsOf(r)) : x = entry(r, v)
  <2>1. PICK c \in 1 .. n : x \in ToSet(f[c])
        BY <1>6
  <2>2. ToSet(<<>>) = {}
        BY DEF ToSet
  <2>3. ~cs[c].hidden /\ x \in ToSet(FlattenSeq(rows(c)))
        BY <1>5, <2>1, <2>2
  <2>4. PICK r \in ToSet(cs[c].routes) : x \in ToSet(row(r))
        BY <1>4, <2>3
  <2>5. PICK v \in ToSet(VersionsOf(r)) : x = entry(r, v)
        BY <1>1, <1>3, <2>4
  <2> QED BY <1>1, <2>3, <2>5
<1>8. ASSUME NEW c \in ToSet(cs), ~c.hidden, NEW r \in ToSet(c.routes), NEW v \in ToSet(VersionsOf(r))
      PROVE  entry(r, v) \in ToSet(Planned(cs))
  <2>1. PICK k \in 1 .. n : c = cs[k]
        BY <1>1
  <2>2. entry(r, v) \in ToSet(row(r))
        BY <1>3
  <2>3. entry(r, v) \in ToSet(f[k])
        BY <1>4, <1>5, <1>8, <2>1, <2>2
  <2> QED BY <1>6, <2>3
<1> QED BY <1>6, <1>7, <1>8 DEF IsSequence, entry

VersionsAsked(cls, mt) == IF mt.versions = <<>> THEN {cls.version} ELSE ToSet(mt.versions)

LEMMA VersionsOfRoute ==
    ASSUME NEW cls, NEW mt, NEW prefix, NEW r, IsMethod(mt), FromMethod(r, cls, prefix, mt)
    PROVE  IsSequence(VersionsOf(r)) /\ ToSet(VersionsOf(r)) = VersionsAsked(cls, mt)
<1>1. /\ mt.versions \in Seq(ToSet(mt.versions)) /\ Len(mt.versions) \in Nat
      /\ Len(mt.versions) = 0 => mt.versions = <<>>
  <2>1. IsSequence(mt.versions)
        BY DEF IsMethod
  <2>2. mt.versions \in Seq(ToSet(mt.versions))
        BY <2>1 DEF IsSequence
  <2> QED BY <2>2
<1>2. ASSUME NEW x PROVE IsSequence(<<x>>) /\ ToSet(<<x>>) = {x}
      BY OneIfFacts DEF OneIf, IsSequence
<1>3. CASE mt.versions = <<>>
  <2>1. r.version = cls.version /\ r.versions = <<>>
        BY <1>3 DEF FromMethod
  <2>2. VersionsOf(r) = <<cls.version>>
        BY <2>1 DEF VersionsOf
  <2> QED BY <1>2, <1>3, <2>2 DEF VersionsAsked
<1>4. CASE Len(mt.versions) > 1
  <2>1. r.versions = mt.versions /\ mt.versions # <<>>
        BY <1>4 DEF FromMethod
  <2>2. VersionsOf(r) = mt.versions
        BY <2>1 DEF VersionsOf
  <2> QED BY <1>1, <2>1, <2>2 DEF VersionsAsked, IsSequence
<1>5. CASE mt.versions # <<>> /\ ~(Len(mt.versions) > 1)
  <2>0. \A n \in Nat : n = 0 \/ n = 1 \/ n > 1
        OBVIOUS
  <2>1. Len(mt.versions) = 1
        BY <1>1, <1>5, <2>0
  <2>2. r.version = mt.versions[1] /\ r.versions = <<>>
        BY <1>5 DEF FromMethod
  <2>3. VersionsOf(r) = <<mt.versions[1]>>
        BY <2>2 DEF VersionsOf
  <2>4. DOMAIN mt.versions = {1}
        BY <1>1, <2>1
  <2>5. ToSet(mt.versions) = {mt.versions[1]}
        BY <2>4 DEF ToSet
  <2> QED BY <1>2, <1>5, <2>3, <2>5 DEF VersionsAsked
<1> QED BY <1>3, <1>4, <1>5

LEMMA AskedMembers ==
    ASSUME NEW cls, NEW mt, NEW slot
    PROVE  slot \in Asked(cls, mt) <=>
             \E p \in PathsOf(cls), q \in PathsOf(mt), v \in VersionsAsked(cls, mt), verb \in VerbsOf(mt) :
                slot = [path |-> OpenApiPath(CombinePaths(p, q), v, program.opts), verb |-> verb]
<1> DEFINE segment(v) == IF program.opts.versioning = "URI" /\ v # ""
                         THEN <<Lit(program.opts.versionPrefix \o v)>> ELSE <<>>
           named(v) == IF v = "" THEN program.opts.default ELSE v
           at(p, q, v, verb) == [path |-> program.opts.prefix \o segment(v) \o CombinePaths(p, q), verb |-> verb]
           versions == {named(v) : v \in VersionsAsked(cls, mt)}
<1>1. Asked(cls, mt) = {at(p, q, v, verb) : p \in PathsOf(cls), q \in PathsOf(mt), v \in versions, verb \in VerbsOf(mt)}
      BY DEF Asked, VersionsAsked, VerbsOf
<1>2. ASSUME NEW p, NEW q, NEW v, NEW verb
      PROVE  [path |-> OpenApiPath(CombinePaths(p, q), v, program.opts), verb |-> verb] = at(p, q, named(v), verb)
      BY DEF OpenApiPath, VersionOr
<1> HIDE DEF at, named
<1>3. ASSUME slot \in Asked(cls, mt)
      PROVE  \E p \in PathsOf(cls), q \in PathsOf(mt), v \in VersionsAsked(cls, mt), verb \in VerbsOf(mt) :
                slot = [path |-> OpenApiPath(CombinePaths(p, q), v, program.opts), verb |-> verb]
  <2>1. PICK p \in PathsOf(cls), q \in PathsOf(mt), w \in versions, verb \in VerbsOf(mt) : slot = at(p, q, w, verb)
        BY <1>1, <1>3
  <2>2. PICK v \in VersionsAsked(cls, mt) : w = named(v)
        OBVIOUS
  <2> QED BY <1>2, <2>1, <2>2
<1>4. ASSUME NEW p \in PathsOf(cls), NEW q \in PathsOf(mt), NEW v \in VersionsAsked(cls, mt), NEW verb \in VerbsOf(mt)
      PROVE  [path |-> OpenApiPath(CombinePaths(p, q), v, program.opts), verb |-> verb] \in Asked(cls, mt)
  <2>1. named(v) \in versions
        OBVIOUS
  <2> HIDE DEF versions
  <2>2. at(p, q, named(v), verb) \in Asked(cls, mt)
        BY <1>1, <2>1
  <2> QED BY <1>2, <2>2
<1> QED BY <1>3, <1>4

LEMMA PlannedIsAsked ==
    ASSUME IsProgram(program)
    PROVE  /\ IsSequence(Planned(Controllers))
           /\ \A x \in ToSet(Planned(Controllers)) : \E r \in Visible :
                 /\ SlotOf(x, program.opts) \in Asked(r[1], r[2])
                 /\ x.route.class = r[1].name /\ x.route.method = r[2].name
           /\ \A r \in Visible : \A slot \in Asked(r[1], r[2]) :
                 \E x \in ToSet(Planned(Controllers)) : SlotOf(x, program.opts) = slot
<1> DEFINE cs == Controllers
           opts == program.opts
<1>1. /\ program.classes \in Seq(ToSet(program.classes))
      /\ \A cls \in ToSet(program.classes) : IsClass(cls)
      BY DEF IsProgram, IsSequence
<1>2. /\ IsSequence(cs)
      /\ \A c \in ToSet(cs) : \E cls \in ToSet(program.classes) : FromClass(c, cls)
      /\ \A cls \in ToSet(program.classes) : \A mt \in ToSet(cls.methods), p \in PathsOf(cls) : IsRoute(cls, mt) =>
            \E c \in ToSet(cs) :
               FromClass(c, cls) /\ \A q \in PathsOf(mt), verb \in VerbsOf(mt) : HasRoute(c, cls, p, mt, q, verb)
      BY <1>1, ControllersOfProgram DEF Controllers
<1> HIDE DEF cs
<1>3. \A c \in ToSet(cs) : IsSequence(c.routes) /\ \A r \in ToSet(c.routes) : IsSequence(VersionsOf(r))
      BY <1>1, <1>2, VersionsOfRoute DEF FromClass, IsClass
<1>4. /\ IsSequence(Planned(cs))
      /\ \A x \in ToSet(Planned(cs)) : \E c \in ToSet(cs) : ~c.hidden /\
            \E r \in ToSet(c.routes) : \E v \in ToSet(VersionsOf(r)) : x = [route |-> r, version |-> v]
      /\ \A c \in ToSet(cs) : ~c.hidden => \A r \in ToSet(c.routes) : \A v \in ToSet(VersionsOf(r)) :
            [route |-> r, version |-> v] \in ToSet(Planned(cs))
      BY <1>2, <1>3, PlannedFacts
<1>5. ASSUME NEW x \in ToSet(Planned(cs))
      PROVE  \E r \in Visible : /\ SlotOf(x, opts) \in Asked(r[1], r[2])
                                /\ x.route.class = r[1].name /\ x.route.method = r[2].name
  <2>0. PICK c \in ToSet(cs) : ~c.hidden /\
            \E r \in ToSet(c.routes) : \E v \in ToSet(VersionsOf(r)) : x = [route |-> r, version |-> v]
        BY <1>4
  <2>a. PICK r \in ToSet(c.routes) : \E v \in ToSet(VersionsOf(r)) : x = [route |-> r, version |-> v]
        BY <2>0
  <2>1. PICK v \in ToSet(VersionsOf(r)) : ~c.hidden /\ x = [route |-> r, version |-> v]
        BY <2>0, <2>a
  <2>2. PICK cls \in ToSet(program.classes) : FromClass(c, cls)
        BY <1>2
  <2>3. PICK mt \in ToSet(cls.methods), p \in PathsOf(cls) : IsRoute(cls, mt) /\ FromMethod(r, cls, p, mt)
        BY <2>2 DEF FromClass
  <2>4. PICK q \in PathsOf(mt) : r.path = CombinePaths(p, q)
        BY <2>3 DEF FromMethod
  <2>5. v \in VersionsAsked(cls, mt) /\ r.verb \in VerbsOf(mt)
        BY <1>1, <2>3, VersionsOfRoute DEF IsClass, FromMethod
  <2>6. SlotOf(x, opts) = [path |-> OpenApiPath(CombinePaths(p, q), v, program.opts), verb |-> r.verb]
        BY <2>1, <2>4 DEF SlotOf
  <2>7. SlotOf(x, opts) \in Asked(cls, mt)
        BY <2>5, <2>6, AskedMembers
  <2>8. <<cls, mt>> \in Visible
        BY <2>1, <2>2, <2>3 DEF Visible, FromClass
  <2>9. x.route.class = cls.name /\ x.route.method = mt.name
        BY <2>1, <2>3 DEF FromMethod
  <2> QED BY <2>7, <2>8, <2>9
<1>6. ASSUME NEW r \in Visible, NEW slot \in Asked(r[1], r[2])
      PROVE  \E x \in ToSet(Planned(cs)) : SlotOf(x, opts) = slot
  <2>0. PICK cls \in ToSet(program.classes) :
           ~cls.hidden /\ \E mt \in ToSet(cls.methods) : r = <<cls, mt>> /\ IsRoute(cls, mt)
        BY DEF Visible
  <2>1. PICK mt \in ToSet(cls.methods) : r = <<cls, mt>> /\ ~cls.hidden /\ IsRoute(cls, mt)
        BY <2>0
  <2>2. PICK p \in PathsOf(cls), q \in PathsOf(mt), v \in VersionsAsked(cls, mt), verb \in VerbsOf(mt) :
           slot = [path |-> OpenApiPath(CombinePaths(p, q), v, program.opts), verb |-> verb]
        BY <2>1, AskedMembers
  <2>3. PICK c \in ToSet(cs) : FromClass(c, cls) /\ HasRoute(c, cls, p, mt, q, verb)
        BY <1>2, <2>1
  <2>4. PICK route \in ToSet(c.routes) :
           FromMethod(route, cls, p, mt) /\ route.path = CombinePaths(p, q) /\ route.verb = verb
        BY <2>3 DEF HasRoute
  <2>5. v \in ToSet(VersionsOf(route))
        BY <1>1, <2>1, <2>2, <2>4, VersionsOfRoute DEF IsClass
  <2>6. [route |-> route, version |-> v] \in ToSet(Planned(cs))
        BY <1>4, <2>1, <2>3, <2>4, <2>5 DEF FromClass
  <2>7. SlotOf([route |-> route, version |-> v], opts) = slot
        BY <2>2, <2>4 DEF SlotOf
  <2> QED BY <2>6, <2>7
<1> QED BY <1>4, <1>5, <1>6 DEF cs

\* A path of the document is the global prefix and what the client's path is.
LEMMA AskedHasPrefix ==
    ASSUME IsProgram(program), NEW r \in Visible, NEW slot \in Asked(r[1], r[2])
    PROVE  slot.path = program.opts.prefix \o StripGlobalPrefix(slot.path, program.opts.prefix)
<1> DEFINE prefix == program.opts.prefix
<1>1. PICK cls \in ToSet(program.classes) :
         IsClass(cls) /\ \E mt \in ToSet(cls.methods) : r = <<cls, mt>>
      BY DEF Visible, IsProgram
<1>2. PICK mt \in ToSet(cls.methods) : r = <<cls, mt>> /\ IsMethod(mt)
      BY <1>1 DEF IsClass
<1>3. PICK p \in PathsOf(cls), q \in PathsOf(mt), v \in VersionsAsked(cls, mt), verb \in VerbsOf(mt) :
         slot = [path |-> OpenApiPath(CombinePaths(p, q), v, program.opts), verb |-> verb]
      BY <1>2, AskedMembers
<1> DEFINE text == Lit(program.opts.versionPrefix \o VersionOr(v, program.opts))
           T == Segment \cup {Root, text}
           version == IF program.opts.versioning = "URI" /\ VersionOr(v, program.opts) # "" THEN <<text>> ELSE <<>>
           own == CombinePaths(p, q)
           rest == version \o own
<1>4. p \in Seq(Segment) /\ q \in Seq(Segment)
  <2>1. cls.paths \in Seq(Seq(Segment)) /\ mt.paths \in Seq(Seq(Segment))
        BY <1>1, <1>2 DEF IsClass, IsMethod
  <2>2. ToSet(cls.paths) \subseteq Seq(Segment) /\ ToSet(mt.paths) \subseteq Seq(Segment)
        BY <2>1, OwnElements
  <2>3. <<>> \in Seq(Segment)
        OBVIOUS
  <2> QED BY <2>2, <2>3 DEF PathsOf
<1>5. own \in Seq(Segment \cup {Root}) /\ own # <<>>
  <2>1. p \o q \in Seq(Segment)
        BY <1>4
  <2>2. own = IF p \o q = <<>> THEN <<Root>> ELSE p \o q
        BY DEF CombinePaths
  <2>3. \A x : <<x>> \in Seq(Segment \cup {x}) /\ <<x>> # <<>>
        OBVIOUS
  <2>4. \A s \in Seq(Segment) : s \in Seq(Segment \cup {Root})
        OBVIOUS
  <2> HIDE DEF own
  <2> QED BY <2>1, <2>2, <2>3, <2>4
<1>6. prefix \in Seq(T) /\ version \in Seq(T) /\ own \in Seq(T)
  <2>1. prefix \in Seq(Segment)
        BY DEF IsProgram
  <2> HIDE DEF prefix, own, text
  <2>2. <<text>> \in Seq(T) /\ <<>> \in Seq(T)
        OBVIOUS
  <2>3. \A s \in Seq(Segment) \cup Seq(Segment \cup {Root}) : s \in Seq(T)
        OBVIOUS
  <2> HIDE DEF T
  <2>4. version \in Seq(T)
        BY <2>2
  <2> QED BY <1>5, <2>1, <2>3, <2>4
<1>7. slot.path = (prefix \o version) \o own
      BY <1>3 DEF OpenApiPath
<1> HIDE DEF prefix, version, own, T
<1>8. slot.path = prefix \o rest
      BY <1>6, <1>7, Associative
<1>9. rest \in Seq(T) /\ rest # <<>>
  <2>1. Len(rest) = Len(version) + Len(own) /\ Len(version) \in Nat /\ Len(own) \in Nat /\ Len(own) # 0
        BY <1>5, <1>6
  <2>2. rest \in Seq(T) /\ Len(rest) # 0
        BY <1>6, <2>1
  <2> QED BY <2>2
<1>10. CASE prefix = <<>>
  <2>1. StripGlobalPrefix(slot.path, prefix) = slot.path
        BY <1>10 DEF StripGlobalPrefix
  <2>2. <<>> \o rest = rest
        BY <1>9
  <2> HIDE DEF rest
  <2> QED BY <1>8, <1>10, <2>1, <2>2 DEF prefix
<1>11. CASE prefix # <<>>
  <2>1. IsPrefix(prefix, slot.path) /\ SubSeq(slot.path, Len(prefix) + 1, Len(slot.path)) = rest
    <3> HIDE DEF rest
    <3> QED BY <1>6, <1>8, <1>9, AfterPrefix
  <2> HIDE DEF rest
  <2>2. StripGlobalPrefix(slot.path, prefix) = rest
        BY <1>9, <1>11, <2>1 DEF StripGlobalPrefix
  <2> QED BY <1>8, <2>2 DEF prefix
<1> QED BY <1>10, <1>11

-----------------------------------------------------------------------------
(* The document and the client, step by step.                              *)

Plan == ToSet(Planned(Controllers))
SlotsOf(S) == {SlotOf(x, program.opts) : x \in S}
HandlerOf(x) == [class |-> x.route.class, method |-> x.route.method]

\* What is documented and what is still to be are the plan; a slot has the
\* handler of an entry of the plan.
DocumentInv ==
    /\ phase \in {"map", "emit", "document", "parse", "written"}
    /\ IsSequence(todo) /\ ToSet(todo) \subseteq Plan
    /\ phase \in {"parse", "written"} => todo = <<>>
    /\ phase \in {"document", "parse", "written"} => SlotsOf(Plan) = DOMAIN slots \cup SlotsOf(ToSet(todo))
    /\ phase \in {"map", "emit"} => DOMAIN slots = {}
    /\ \A s \in DOMAIN slots : \E x \in Plan : SlotOf(x, program.opts) = s /\ slots[s] = HandlerOf(x)

\* A method is the slot's and has its handler's name; nothing has been written
\* before; then a directory has the methods of one of its groups.
ClientInv ==
    /\ phase \in {"map", "emit", "document"} => DOMAIN methods = {}
    /\ DOMAIN methods \subseteq DOMAIN slots
    /\ \A s \in DOMAIN methods : methods[s] = MethodOf(s, slots[s], program.opts.prefix)
    /\ phase # "written" => files.dirs \subseteq program.leftover
    /\ phase = "written" =>
          /\ DOMAIN methods = DOMAIN slots
          /\ DOMAIN files.of = {ControllerDir(g[1], g[2]) : g \in Groups(methods)}
          /\ \A d \in DOMAIN files.of : \E g \in Groups(methods) :
                ControllerDir(g[1], g[2]) = d /\ files.of[d] = Group(methods, g)
          /\ LET used == DOMAIN files.of \cup {SubSeq(d, 1, 1) : d \in DOMAIN files.of}
             IN  used \subseteq files.dirs /\ \A d \in files.dirs \ used : SubSeq(d, 1, 1) \in DOMAIN files.of

OutlineInv == program \in Programs /\ DocumentInv /\ ClientInv

LEMMA PlanKept ==
    ASSUME program' = program
    PROVE  /\ Plan' = Plan /\ (Planned(Controllers))' = Planned(Controllers)
           /\ \A S : SlotsOf(S)' = SlotsOf(S)
BY DEF Plan, SlotsOf, Controllers

LEMMA OutlineInitially == OutlineInit => OutlineInv
<1> SUFFICES ASSUME OutlineInit PROVE OutlineInv
    OBVIOUS
<1>1. IsSequence(<<>>) /\ ToSet(<<>>) = {} /\ DOMAIN <<>> = {}
      BY DEF IsSequence, ToSet
<1>2. DocumentInv
      BY <1>1 DEF OutlineInit, DocumentInv
<1>3. ClientInv
      BY <1>1 DEF OutlineInit, ClientInv
<1> QED BY <1>2, <1>3 DEF OutlineInv, OutlineInit

\* Steps that keep the document, and those that keep the client.
LEMMA DocumentKept ==
    ASSUME DocumentInv, program' = program, todo' = todo, slots' = slots,
           \/ phase' = phase
           \/ phase = "map" /\ phase' = "emit"
           \/ phase = "document" /\ phase' = "parse" /\ todo = <<>>
           \/ phase = "parse" /\ phase' = "written"
    PROVE  DocumentInv'
<1>1. Plan' = Plan /\ \A S : SlotsOf(S)' = SlotsOf(S)
      BY PlanKept
<1>2. /\ phase' \in {"map", "emit", "document", "parse", "written"}
      /\ phase' \in {"parse", "written"} => todo = <<>>
      /\ phase' \in {"document", "parse", "written"} => phase \in {"document", "parse", "written"}
      /\ phase' \in {"map", "emit"} => phase \in {"map", "emit"}
      BY DEF DocumentInv
<1>3. (IsSequence(todo) /\ ToSet(todo) \subseteq Plan)'
      BY <1>1 DEF DocumentInv
<1>4. (SlotsOf(Plan) = DOMAIN slots \cup SlotsOf(ToSet(todo)))' <=> SlotsOf(Plan) = DOMAIN slots \cup SlotsOf(ToSet(todo))
      BY <1>1 DEF SlotsOf
<1>5. (\A s \in DOMAIN slots : \E x \in Plan : SlotOf(x, program.opts) = s /\ slots[s] = HandlerOf(x))'
      BY <1>1 DEF DocumentInv
<1> QED BY <1>2, <1>3, <1>4, <1>5 DEF DocumentInv

LEMMA ClientKept ==
    ASSUME ClientInv, program' = program, slots' = slots, methods' = methods, files' = files,
           phase' = phase \/ phase' # "written", phase' \in {"map", "emit", "document"} => phase \in {"map", "emit", "document"},
           phase = "written" => phase' = "written"
    PROVE  ClientInv'
BY DEF ClientInv, Groups, Group

LEMMA DocumentRouteStep ==
    ASSUME OutlineInv, DocumentRoute
    PROVE  OutlineInv'
<1> DEFINE x == Head(todo)
           s == SlotOf(x, program.opts)
<1>1. /\ program' = program /\ phase' = phase /\ phase = "document" /\ methods' = methods /\ files' = files
      /\ slots' = Put(slots, s, HandlerOf(x)) /\ todo' = Tail(todo) /\ todo # <<>>
      BY DEF DocumentRoute, HandlerOf
<1>2. /\ x \in ToSet(todo) /\ IsSequence(Tail(todo))
      /\ ToSet(todo) = {x} \cup ToSet(Tail(todo))
      /\ ToSet(todo) \subseteq Plan
  <2>1. todo \in Seq(ToSet(todo)) /\ ToSet(todo) \subseteq Plan
        BY DEF OutlineInv, DocumentInv, IsSequence
  <2> QED BY <1>1, <2>1, HeadAndTail DEF IsSequence
<1> HIDE DEF x, s
<1>3. Plan' = Plan /\ \A S : SlotsOf(S)' = SlotsOf(S)
      BY <1>1, PlanKept
<1>4. /\ DOMAIN slots' = DOMAIN slots \cup {s}
      /\ slots'[s] = HandlerOf(x)
      /\ \A t \in DOMAIN slots \ {s} : slots'[t] = slots[t]
      BY <1>1 DEF Put
<1>5. SlotsOf(ToSet(todo)) = {s} \cup SlotsOf(ToSet(Tail(todo)))
      BY <1>2 DEF SlotsOf, s
<1>6. (SlotsOf(Plan) = DOMAIN slots \cup SlotsOf(ToSet(todo)))'
  <2>1. SlotsOf(Plan) = DOMAIN slots \cup SlotsOf(ToSet(todo))
        BY <1>1 DEF OutlineInv, DocumentInv
  <2>2. SlotsOf(Plan) = DOMAIN slots' \cup SlotsOf(ToSet(Tail(todo)))
        BY <1>4, <1>5, <2>1
  <2> QED BY <1>1, <1>3, <2>2 DEF SlotsOf
<1>7. (\A t \in DOMAIN slots : \E y \in Plan : SlotOf(y, program.opts) = t /\ slots[t] = HandlerOf(y))'
  <2>1. \A t \in DOMAIN slots : \E y \in Plan : SlotOf(y, program.opts) = t /\ slots[t] = HandlerOf(y)
        BY DEF OutlineInv, DocumentInv
  <2>2. x \in Plan /\ SlotOf(x, program.opts) = s
        BY <1>2 DEF s
  <2>3. \A t \in DOMAIN slots' : \E y \in Plan : SlotOf(y, program.opts) = t /\ slots'[t] = HandlerOf(y)
        BY <1>4, <2>1, <2>2
  <2> QED BY <1>1, <1>3, <2>3
<1>8. (IsSequence(todo) /\ ToSet(todo) \subseteq Plan)'
      BY <1>1, <1>2, <1>3
<1>9. DocumentInv'
      BY <1>1, <1>6, <1>7, <1>8 DEF DocumentInv
<1>10. ClientInv'
  <2>1. DOMAIN methods = {} /\ files.dirs \subseteq program.leftover
        BY <1>1 DEF OutlineInv, ClientInv
  <2> QED BY <1>1, <2>1 DEF ClientInv
<1> QED BY <1>1, <1>9, <1>10 DEF OutlineInv

LEMMA StartDocumentStep ==
    ASSUME OutlineInv, StartDocument
    PROVE  OutlineInv'
<1>1. /\ program' = program /\ phase' = "document" /\ phase = "emit" /\ slots' = slots /\ methods' = methods
      /\ files' = files /\ todo' = Planned(Controllers)
      BY DEF StartDocument
<1>2. IsProgram(program)
      BY ProgramsAssumption DEF OutlineInv
<1>3. IsSequence(Planned(Controllers))
      BY <1>2, PlannedIsAsked
<1>4. Plan' = Plan /\ \A S : SlotsOf(S)' = SlotsOf(S)
      BY <1>1, PlanKept
<1>5. DOMAIN slots = {}
      BY <1>1 DEF OutlineInv, DocumentInv
<1>6. todo' = Planned(Controllers) /\ ToSet(todo)' = Plan
      BY <1>1 DEF Plan
<1>7. (SlotsOf(Plan) = DOMAIN slots \cup SlotsOf(ToSet(todo)))'
      BY <1>1, <1>4, <1>5, <1>6 DEF SlotsOf
<1>8. DocumentInv'
      BY <1>1, <1>3, <1>4, <1>5, <1>6, <1>7 DEF DocumentInv
<1>9. ClientInv'
      BY <1>1, ClientKept DEF OutlineInv
<1> QED BY <1>1, <1>8, <1>9 DEF OutlineInv

LEMMA ParseSlotStep ==
    ASSUME OutlineInv, NEW slot \in DOMAIN slots, ParseSlot(slot)
    PROVE  OutlineInv'
<1>1. /\ program' = program /\ phase' = phase /\ phase = "parse" /\ slots' = slots /\ todo' = todo /\ files' = files
      /\ methods' = Put(methods, slot, MethodOf(slot, slots[slot], program.opts.prefix))
      BY DEF ParseSlot
<1>2. DocumentInv'
      BY <1>1, DocumentKept DEF OutlineInv
<1>3. /\ DOMAIN methods' = DOMAIN methods \cup {slot}
      /\ methods'[slot] = MethodOf(slot, slots[slot], program.opts.prefix)
      /\ \A t \in DOMAIN methods \ {slot} : methods'[t] = methods[t]
      BY <1>1 DEF Put
<1>4. ClientInv'
  <2>1. /\ DOMAIN methods \subseteq DOMAIN slots /\ files.dirs \subseteq program.leftover
        /\ \A s \in DOMAIN methods : methods[s] = MethodOf(s, slots[s], program.opts.prefix)
        BY <1>1 DEF OutlineInv, ClientInv
  <2>2. \A s \in DOMAIN methods' : methods'[s] = MethodOf(s, slots[s], program.opts.prefix)
        BY <1>3, <2>1
  <2> QED BY <1>1, <1>3, <2>1, <2>2 DEF ClientInv
<1> QED BY <1>1, <1>2, <1>4 DEF OutlineInv

\* The directories after the stale ones are gone.
LEMMA DirsOfClient ==
    ASSUME NEW leftover, leftover \subseteq Seq(STRING), NEW dirs, dirs \subseteq leftover, NEW active,
           \A a \in active : Len(a) = 2 => SubSeq(a, 1, 1) = <<a[1]>>
    PROVE  LET used == active \cup {SubSeq(d, 1, 1) : d \in active}
               kept == CleanStaleControllerDirs(dirs, active) \cup active \cup {SubSeq(d, 1, 1) : d \in active}
           IN  used \subseteq kept /\ \A d \in kept \ used : SubSeq(d, 1, 1) \in active
<1> DEFINE used == active \cup {SubSeq(d, 1, 1) : d \in active}
           kept == CleanStaleControllerDirs(dirs, active) \cup active \cup {SubSeq(d, 1, 1) : d \in active}
<1>1. ASSUME NEW d \in kept \ used PROVE SubSeq(d, 1, 1) \in active
  <2>1. /\ d \in dirs
        /\ \/ SubSeq(d, 1, 1) \in active
           \/ Len(d) = 1 /\ \E a \in active : Len(a) = 2 /\ a[1] = d[1]
        BY DEF CleanStaleControllerDirs
  <2>2. ASSUME Len(d) = 1, NEW a \in active, Len(a) = 2, a[1] = d[1] PROVE FALSE
    <3>1. d \in Seq(STRING)
          BY <2>1
    <3>2. d = <<d[1]>>
          BY <2>2, <3>1
    <3>3. SubSeq(a, 1, 1) = d
          BY <2>2, <3>2
    <3> QED BY <3>3
  <2> QED BY <2>1, <2>2
<1> QED BY <1>1

LEMMA WriteMethodsStep ==
    ASSUME OutlineInv, WriteMethods
    PROVE  OutlineInv'
<1> DEFINE active == {ControllerDir(g[1], g[2]) : g \in Groups(methods)}
<1>1. /\ program' = program /\ phase' = "written" /\ phase = "parse" /\ slots' = slots /\ todo' = todo
      /\ methods' = methods /\ DOMAIN methods = DOMAIN slots
      BY DEF WriteMethods
<1>2. PICK last \in [active -> Groups(methods)] :
         /\ \A d \in active : ControllerDir(last[d][1], last[d][2]) = d
         /\ files' = [dirs |-> CleanStaleControllerDirs(files.dirs, active)
                               \cup active \cup {SubSeq(d, 1, 1) : d \in active},
                      of   |-> [d \in active |-> Group(methods, last[d])]]
      BY DEF WriteMethods
<1>3. DocumentInv'
      BY <1>1, DocumentKept DEF OutlineInv
<1>4. \A a \in active : Len(a) = 2 => SubSeq(a, 1, 1) = <<a[1]>>
  <2>1. ASSUME NEW v, NEW n PROVE Len(<<v, n>>) = 2 /\ SubSeq(<<v, n>>, 1, 1) = <<v>> /\ <<v, n>>[1] = v /\ Len(<<n>>) = 1
    <3> DEFINE a == <<v, n>>
    <3>1. a \in Seq({v, n}) /\ Len(a) = 2 /\ a[1] = v
          OBVIOUS
    <3>2. Len(<<n>>) = 1
          OBVIOUS
    <3> HIDE DEF a
    <3>3. /\ SubSeq(a, 1, 1) \in Seq({v, n}) /\ Len(SubSeq(a, 1, 1)) = 1 /\ SubSeq(a, 1, 1)[1] = v
          BY <3>1
    <3>4. \A s \in Seq({v, n}) : Len(s) = 1 /\ s[1] = v => s = <<v>>
          OBVIOUS
    <3>5. SubSeq(a, 1, 1) = <<v>>
          BY <3>3, <3>4
    <3> QED BY <3>1, <3>2, <3>5 DEF a
  <2>2. ASSUME NEW a \in active PROVE Len(a) = 2 => SubSeq(a, 1, 1) = <<a[1]>>
    <3>1. PICK g \in Groups(methods) : a = ControllerDir(g[1], g[2])
          OBVIOUS
    <3> HIDE DEF active
    <3>2. a = <<DirNames[g[2]]>> \/ a = <<g[1], DirNames[g[2]]>>
          BY <3>1 DEF ControllerDir
    <3>3. CASE a = <<DirNames[g[2]]>>
          BY <2>1, <3>3
    <3>4. CASE a = <<g[1], DirNames[g[2]]>>
          BY <2>1, <3>4
    <3> QED BY <3>2, <3>3, <3>4
  <2> QED BY <2>2
<1> HIDE DEF active
<1>5. IsProgram(program) /\ files.dirs \subseteq program.leftover
      BY <1>1, ProgramsAssumption DEF OutlineInv, ClientInv
<1>6. /\ files'.dirs = CleanStaleControllerDirs(files.dirs, active) \cup active \cup {SubSeq(d, 1, 1) : d \in active}
      /\ DOMAIN files'.of = active /\ \A d \in active : files'.of[d] = Group(methods, last[d])
      BY <1>2
<1>7. LET used == active \cup {SubSeq(d, 1, 1) : d \in active}
      IN  used \subseteq files'.dirs /\ \A d \in files'.dirs \ used : SubSeq(d, 1, 1) \in active
  <2>1. program.leftover \subseteq Seq(STRING)
        BY <1>5 DEF IsProgram
  <2> QED BY <1>4, <1>5, <1>6, <2>1, DirsOfClient
<1>8. (\A d \in DOMAIN files.of : \E g \in Groups(methods) :
          ControllerDir(g[1], g[2]) = d /\ files.of[d] = Group(methods, g))'
  <2>1. \A d \in active : last[d] \in Groups(methods)
        BY <1>2
  <2>2. \A d \in active : \E g \in Groups(methods) :
           ControllerDir(g[1], g[2]) = d /\ files'.of[d] = Group(methods, g)
        BY <1>2, <1>6, <2>1
  <2> QED BY <1>1, <1>6, <2>2 DEF Groups, Group
<1>9. (DOMAIN files.of = {ControllerDir(g[1], g[2]) : g \in Groups(methods)})'
      BY <1>1, <1>6 DEF active, Groups
<1>10. ClientInv'
  <2>1. \A s \in DOMAIN methods : methods[s] = MethodOf(s, slots[s], program.opts.prefix)
        BY DEF OutlineInv, ClientInv
  <2>2. (LET used == DOMAIN files.of \cup {SubSeq(d, 1, 1) : d \in DOMAIN files.of}
         IN  used \subseteq files.dirs /\ \A d \in files.dirs \ used : SubSeq(d, 1, 1) \in DOMAIN files.of)'
        BY <1>6, <1>7
  <2>3. (\A s \in DOMAIN methods : methods[s] = MethodOf(s, slots[s], program.opts.prefix))'
        BY <1>1, <2>1
  <2> QED BY <1>1, <1>8, <1>9, <2>2, <2>3 DEF ClientInv
<1> QED BY <1>1, <1>3, <1>10 DEF OutlineInv

LEMMA OutlineKept == OutlineInv /\ [OutlineNext]_outline => OutlineInv'
<1> SUFFICES ASSUME OutlineInv, [OutlineNext]_outline PROVE OutlineInv'
    OBVIOUS
<1>1. CASE BuildCompanionMap
  <2>1. /\ program' = program /\ phase = "map" /\ phase' = "emit" /\ todo' = todo /\ slots' = slots
        /\ methods' = methods /\ files' = files
        BY <1>1 DEF BuildCompanionMap
  <2> QED BY <2>1, DocumentKept, ClientKept DEF OutlineInv
<1>2. ASSUME NEW file \in Sources, EmitFile(file) PROVE OutlineInv'
  <2>1. /\ program' = program /\ phase' = phase /\ todo' = todo /\ slots' = slots
        /\ methods' = methods /\ files' = files
        BY <1>2 DEF EmitFile
  <2> QED BY <2>1, DocumentKept, ClientKept DEF OutlineInv
<1>3. CASE EndDocument
  <2>1. /\ program' = program /\ phase = "document" /\ phase' = "parse" /\ todo' = todo /\ slots' = slots
        /\ methods' = methods /\ files' = files /\ todo = <<>>
        BY <1>3 DEF EndDocument
  <2> QED BY <2>1, DocumentKept, ClientKept DEF OutlineInv
<1>4. CASE UNCHANGED outline
  <2>1. /\ program' = program /\ phase' = phase /\ todo' = todo /\ slots' = slots
        /\ methods' = methods /\ files' = files
        BY <1>4 DEF outline
  <2> QED BY <2>1, DocumentKept, ClientKept DEF OutlineInv
<1> QED BY <1>1, <1>2, <1>3, <1>4, StartDocumentStep, DocumentRouteStep, ParseSlotStep, WriteMethodsStep DEF OutlineNext

\* The document, the methods and the directories agree at every step, whatever
\* the order of the files and of the groups.
THEOREM OutlineCorrect == OutlineSpec => []OutlineInv
BY OutlineInitially, OutlineKept, PTL DEF OutlineSpec

LEMMA InOwnDirectory ==
    ASSUME OutlineInv, phase = "written", NEW slot \in DOMAIN slots, ~SharesDir(methods[slot])
    PROVE  DirOf(methods[slot]) \in DOMAIN files.of /\ slot \in files.of[DirOf(methods[slot])]
<1> DEFINE mt == methods[slot]
           own == <<mt.version, mt.controller>>
           d == DirOf(mt)
<1>1. /\ DOMAIN methods = DOMAIN slots
      /\ DOMAIN files.of = {ControllerDir(g[1], g[2]) : g \in Groups(methods)}
      /\ \A e \in DOMAIN files.of : \E g \in Groups(methods) :
            ControllerDir(g[1], g[2]) = e /\ files.of[e] = Group(methods, g)
      BY DEF OutlineInv, ClientInv
<1>2. own \in Groups(methods)
      BY <1>1 DEF Groups
<1>3. d = ControllerDir(own[1], own[2])
      BY DEF DirOf
<1>4. d \in DOMAIN files.of
      BY <1>1, <1>2, <1>3
<1>5. PICK g \in Groups(methods) : ControllerDir(g[1], g[2]) = d /\ files.of[d] = Group(methods, g)
      BY <1>1, <1>4
<1>6. PICK s \in DOMAIN methods : g = <<methods[s].version, methods[s].controller>>
      BY DEF Groups
<1>7. DirOf(methods[s]) = d
      BY <1>5, <1>6 DEF DirOf
<1>8. methods[s].controller = mt.controller
      BY <1>7 DEF SharesDir
<1>9. methods[s].version = mt.version
  <2> HIDE DEF mt
  <2>1. \A v, w, n : <<n>> # <<v, n>> /\ (<<v, n>> = <<w, n>> => v = w)
        OBVIOUS
  <2>2. ControllerDir(methods[s].version, mt.controller) = ControllerDir(mt.version, mt.controller)
        BY <1>7, <1>8 DEF DirOf
  <2> QED BY <2>1, <2>2 DEF ControllerDir
<1>10. slot \in Group(methods, g)
      BY <1>1, <1>6, <1>8, <1>9 DEF Group
<1> QED BY <1>4, <1>5, <1>10

LEMMA ReachableIfWritten == OutlineInv => RoutesReachable
<1> SUFFICES ASSUME OutlineInv, phase = "written" PROVE RoutesReachable
    BY DEF RoutesReachable
<1>1. IsProgram(program)
      BY ProgramsAssumption DEF OutlineInv
<1>2. /\ SlotsOf(Plan) = DOMAIN slots
      /\ \A s \in DOMAIN slots : \E x \in Plan : SlotOf(x, program.opts) = s /\ slots[s] = HandlerOf(x)
  <2>1. todo = <<>> /\ ToSet(<<>>) = {}
        BY DEF OutlineInv, DocumentInv, ToSet
  <2>2. SlotsOf(ToSet(todo)) = {}
        BY <2>1 DEF SlotsOf
  <2> QED BY <2>2 DEF OutlineInv, DocumentInv
<1>3. /\ \A x \in Plan : \E r \in Visible :
            /\ SlotOf(x, program.opts) \in Asked(r[1], r[2])
            /\ x.route.class = r[1].name /\ x.route.method = r[2].name
      /\ \A r \in Visible : \A slot \in Asked(r[1], r[2]) : \E x \in Plan : SlotOf(x, program.opts) = slot
      BY <1>1, PlannedIsAsked DEF Plan
<1>4. DOMAIN slots = UNION {Asked(r[1], r[2]) : r \in Visible}
  <2>1. \A s \in DOMAIN slots : \E r \in Visible : s \in Asked(r[1], r[2])
        BY <1>2, <1>3
  <2>2. \A r \in Visible : \A s \in Asked(r[1], r[2]) : s \in DOMAIN slots
        BY <1>2, <1>3 DEF SlotsOf
  <2> QED BY <2>1, <2>2
<1>5. ASSUME NEW r \in Visible, NEW slot \in Asked(r[1], r[2]),
             \A other \in Visible \ {r} : slot \notin Asked(other[1], other[2])
      PROVE  slots[slot] = [class |-> r[1].name, method |-> r[2].name]
  <2>1. slot \in DOMAIN slots
        BY <1>4
  <2>2. PICK x \in Plan : SlotOf(x, program.opts) = slot /\ slots[slot] = HandlerOf(x)
        BY <1>2, <2>1
  <2>3. PICK o \in Visible : /\ slot \in Asked(o[1], o[2])
                             /\ x.route.class = o[1].name /\ x.route.method = o[2].name
        BY <1>3, <2>2
  <2>4. o = r
        BY <1>5, <2>3
  <2> QED BY <2>2, <2>3, <2>4 DEF HandlerOf
<1>6. /\ DOMAIN methods = DOMAIN slots
      /\ \A s \in DOMAIN methods : methods[s] = MethodOf(s, slots[s], program.opts.prefix)
      /\ LET used == DOMAIN files.of \cup {SubSeq(d, 1, 1) : d \in DOMAIN files.of}
         IN  used \subseteq files.dirs /\ \A d \in files.dirs \ used : SubSeq(d, 1, 1) \in DOMAIN files.of
      BY DEF OutlineInv, ClientInv
<1>7. ASSUME NEW slot \in DOMAIN slots
      PROVE  /\ methods[slot].name = slots[slot].method /\ methods[slot].controller = slots[slot].class
             /\ slot.path = program.opts.prefix \o methods[slot].path
             /\ ~SharesDir(methods[slot]) =>
                  DirOf(methods[slot]) \in DOMAIN files.of /\ slot \in files.of[DirOf(methods[slot])]
  <2>1. methods[slot] = MethodOf(slot, slots[slot], program.opts.prefix)
        BY <1>6
  <2>2. /\ methods[slot].name = slots[slot].method /\ methods[slot].controller = slots[slot].class
        /\ methods[slot].path = StripGlobalPrefix(slot.path, program.opts.prefix)
        BY <2>1 DEF MethodOf
  <2>3. PICK r \in Visible : slot \in Asked(r[1], r[2])
        BY <1>4
  <2>4. slot.path = program.opts.prefix \o StripGlobalPrefix(slot.path, program.opts.prefix)
        BY <1>1, <2>3, AskedHasPrefix
  <2> QED BY <2>2, <2>4, InOwnDirectory
<1> QED BY <1>4, <1>5, <1>6, <1>7 DEF RoutesReachable

\* RoutesReachable (generateSpec, ParseOpenAPI, Generate and cleanStaleDirs): every
\* visible route of every program is documented and has its method in the client.
THEOREM RoutesAreReachable == OutlineSpec => []RoutesReachable
BY OutlineCorrect, ReachableIfWritten, PTL

-----------------------------------------------------------------------------
(* Imports: which of a sequence bind a name.                               *)

Binding(imports, n)   == {i \in DOMAIN imports : n \in imports[i].names}
BindsOnce(imports, n) == \E i \in DOMAIN imports : Binding(imports, n) = {i}
BindsNone(imports, n) == Binding(imports, n) = {}

LEMMA BindingOfBoth ==
    ASSUME NEW a, a \in Seq(ToSet(a)), NEW b, b \in Seq(ToSet(b)), NEW n
    PROVE  /\ BindsNone(a, n) /\ BindsNone(b, n) => BindsNone(a \o b, n)
           /\ BindsOnce(a, n) /\ BindsNone(b, n) => BindsOnce(a \o b, n)
           /\ BindsNone(a, n) /\ BindsOnce(b, n) => BindsOnce(a \o b, n)
           /\ ~BindsNone(a, n) \/ ~BindsNone(b, n) => ~BindsNone(a \o b, n)
<1> DEFINE c == a \o b
<1>1. /\ Len(a) \in Nat /\ Len(b) \in Nat /\ DOMAIN a = 1 .. Len(a) /\ DOMAIN b = 1 .. Len(b)
      /\ DOMAIN c = 1 .. Len(a) + Len(b)
      /\ \A i \in 1 .. Len(a) : c[i] = a[i]
      /\ \A i \in 1 .. Len(b) : c[Len(a) + i] = b[i]
  <2>1. c \in Seq(ToSet(a) \cup ToSet(b)) /\ Len(c) = Len(a) + Len(b)
        BY Appended
  <2> QED BY <2>1
<1> HIDE DEF c
<1>2. \A i \in DOMAIN c : i \in 1 .. Len(a) \/ \E j \in 1 .. Len(b) : i = Len(a) + j
  <2>1. ASSUME NEW i \in DOMAIN c, i \notin 1 .. Len(a) PROVE \E j \in 1 .. Len(b) : i = Len(a) + j
    <3>1. i - Len(a) \in 1 .. Len(b) /\ i = Len(a) + (i - Len(a))
          BY <1>1, <2>1
    <3> QED BY <3>1
  <2> QED BY <2>1
<1>3. \A i \in 1 .. Len(a) : i \in DOMAIN c /\ (i \in Binding(c, n) <=> i \in Binding(a, n))
      BY <1>1 DEF Binding
<1>4. \A j \in 1 .. Len(b) : Len(a) + j \in DOMAIN c /\ (Len(a) + j \in Binding(c, n) <=> j \in Binding(b, n))
      BY <1>1 DEF Binding
<1>5. Binding(a, n) \subseteq 1 .. Len(a) /\ Binding(b, n) \subseteq 1 .. Len(b) /\ Binding(c, n) \subseteq DOMAIN c
      BY <1>1 DEF Binding
<1>6. ASSUME BindsNone(a, n), BindsNone(b, n) PROVE BindsNone(c, n)
      BY <1>2, <1>3, <1>4, <1>5, <1>6 DEF BindsNone
<1>7. ASSUME BindsOnce(a, n), BindsNone(b, n) PROVE BindsOnce(c, n)
  <2>1. PICK i \in DOMAIN a : Binding(a, n) = {i}
        BY <1>7 DEF BindsOnce
  <2>2. i \in DOMAIN c /\ Binding(c, n) = {i}
        BY <1>1, <1>2, <1>3, <1>4, <1>5, <1>7, <2>1 DEF BindsNone
  <2> QED BY <2>2 DEF BindsOnce
<1>8. ASSUME BindsNone(a, n), BindsOnce(b, n) PROVE BindsOnce(c, n)
  <2>1. PICK j \in DOMAIN b : Binding(b, n) = {j}
        BY <1>8 DEF BindsOnce
  <2>2. j \in 1 .. Len(b) /\ Len(a) + j \in DOMAIN c /\ Len(a) + j \in Binding(c, n)
        BY <1>1, <1>4, <2>1
  <2>3. ASSUME NEW i \in Binding(c, n) PROVE i = Len(a) + j
    <3>1. i \notin 1 .. Len(a)
          BY <1>3, <1>8 DEF BindsNone
    <3>2. PICK m \in 1 .. Len(b) : i = Len(a) + m
          BY <1>2, <1>5, <3>1
    <3>3. m \in Binding(b, n)
          BY <1>4, <3>2
    <3> QED BY <2>1, <3>2, <3>3
  <2>4. Binding(c, n) = {Len(a) + j}
        BY <2>2, <2>3
  <2> QED BY <2>2, <2>4 DEF BindsOnce
<1>9. ASSUME ~BindsNone(a, n) \/ ~BindsNone(b, n) PROVE ~BindsNone(c, n)
      BY <1>3, <1>4, <1>5, <1>9 DEF BindsNone
<1> QED BY <1>6, <1>7, <1>8, <1>9 DEF c

LEMMA BindsOneOf ==
    ASSUME NEW imports, NEW n
    PROVE  BindsOnce(imports, n) => Cardinality(Binding(imports, n)) = 1 /\ Binding(imports, n) # {}
BY FS_Singleton DEF BindsOnce

LEMMA FunctionTells ==
    ASSUME NEW a \in Markers, NEW s \in TypeNames
    PROVE  /\ CompanionFunc(a, s) \notin RuntimeNames
           /\ \A b \in Markers, t \in TypeNames : CompanionFunc(a, s) = CompanionFunc(b, t) => a = b /\ s = t
<1>1. \A b \in Markers, t \in TypeNames : CompanionFunc(a, s) = CompanionFunc(b, t) => a = b /\ s = t
      BY CompanionFuncAssumption
<1>2. CompanionFunc(a, s) \notin RuntimeNames
      BY CompanionFuncAssumption
<1> QED BY <1>1, <1>2

\* companionImports: every pair is bound by one import, that of its companion.
LEMMA CompanionImportsBind ==
    ASSUME NEW companion, IsFiniteSet(DOMAIN companion), DOMAIN companion \subseteq TypeNames,
           NEW pairs, pairs \subseteq Markers \X DOMAIN companion
    PROVE  LET imports == CompanionImports(pairs, companion)
           IN  /\ imports \in Seq(ToSet(imports))
               /\ \A k \in Markers, t \in DOMAIN companion :
                    IF <<k, t>> \in pairs THEN BindsOnce(imports, CompanionFunc(k, t))
                    ELSE BindsNone(imports, CompanionFunc(k, t))
               /\ \A n \in RuntimeNames : BindsNone(imports, n)
               /\ \A x \in ToSet(imports) : \A k \in Markers, t \in DOMAIN companion :
                    CompanionFunc(k, t) \in x.names => x.from = companion[t]
<1> DEFINE imports == CompanionImports(pairs, companion)
           used == {companion[p[2]] : p \in pairs}
           paths == SetToSeq(used)
           named(i) == {CompanionFunc(p[1], p[2]) : p \in {q \in pairs : companion[q[2]] = paths[i]}}
<1>1. \A p \in pairs : p[2] \in DOMAIN companion /\ p[1] \in Markers /\ p = <<p[1], p[2]>>
      OBVIOUS
<1>2. {p \in pairs : p[2] \in DOMAIN companion} = pairs
      BY <1>1
<1>3. imports = [i \in DOMAIN paths |-> Import(paths[i], named(i))]
      BY <1>2 DEF CompanionImports
<1>4. IsFiniteSet(used)
  <2> DEFINE all == {companion[t] : t \in DOMAIN companion}
             g == [t \in DOMAIN companion |-> companion[t]]
  <2>1. g \in Surjection(DOMAIN companion, all)
        BY DEF Surjection
  <2>2. IsFiniteSet(all)
    <3> HIDE DEF g, all
    <3> QED BY <2>1, FS_Surjection
  <2>3. used \subseteq all
        BY <1>1
  <2> QED BY <2>2, <2>3, FS_Subset
<1>5. /\ paths \in Seq(used)
      /\ \A i, j \in DOMAIN paths : paths[i] = paths[j] => i = j
      /\ \A x \in used : \E i \in DOMAIN paths : paths[i] = x
      BY <1>4, Listed
<1> HIDE DEF paths, used
<1>6. /\ DOMAIN imports = DOMAIN paths
      /\ \A i \in DOMAIN paths : imports[i].from = paths[i] /\ imports[i].names = named(i)
      BY <1>3 DEF Import
<1>7. imports \in Seq(ToSet(imports))
  <2>1. Len(paths) \in Nat /\ DOMAIN paths = 1 .. Len(paths)
        BY <1>5
  <2>2. imports = [i \in 1 .. Len(paths) |-> imports[i]]
        BY <1>3, <2>1
  <2> HIDE DEF imports
  <2> QED BY <2>1, <2>2, Mapped
<1>8. ASSUME NEW k \in Markers, NEW t \in DOMAIN companion, NEW i \in DOMAIN paths
      PROVE  CompanionFunc(k, t) \in named(i) <=> <<k, t>> \in pairs /\ companion[t] = paths[i]
  <2>1. ASSUME CompanionFunc(k, t) \in named(i) PROVE <<k, t>> \in pairs /\ companion[t] = paths[i]
    <3>1. PICK p \in pairs : companion[p[2]] = paths[i] /\ CompanionFunc(k, t) = CompanionFunc(p[1], p[2])
          BY <2>1
    <3>2. p[1] \in Markers /\ p[2] \in TypeNames /\ t \in TypeNames
          BY <1>1
    <3>3. p[1] = k /\ p[2] = t
          BY <3>1, <3>2, FunctionTells
    <3> QED BY <1>1, <3>1, <3>3
  <2>2. ASSUME <<k, t>> \in pairs, companion[t] = paths[i] PROVE CompanionFunc(k, t) \in named(i)
    <3>1. <<k, t>>[1] = k /\ <<k, t>>[2] = t
          OBVIOUS
    <3> QED BY <2>2, <3>1
  <2> QED BY <2>1, <2>2
<1>9. ASSUME NEW n \in RuntimeNames, NEW i \in DOMAIN paths PROVE n \notin named(i)
  <2>1. ASSUME NEW p \in pairs PROVE CompanionFunc(p[1], p[2]) # n
    <3>1. p[1] \in Markers /\ p[2] \in TypeNames
          BY <1>1
    <3> QED BY <3>1, FunctionTells
  <2> QED BY <2>1
<1> HIDE DEF named, imports
<1>10. ASSUME NEW k \in Markers, NEW t \in DOMAIN companion
       PROVE  IF <<k, t>> \in pairs THEN BindsOnce(imports, CompanionFunc(k, t))
              ELSE BindsNone(imports, CompanionFunc(k, t))
  <2>1. CASE <<k, t>> \in pairs
    <3>1. companion[t] \in used
      <4>1. <<k, t>>[2] = t
            OBVIOUS
      <4> QED BY <2>1, <4>1 DEF used
    <3>2. PICK i \in DOMAIN paths : paths[i] = companion[t]
          BY <1>5, <3>1
    <3>3. Binding(imports, CompanionFunc(k, t)) = {i}
          BY <1>5, <1>6, <1>8, <2>1, <3>2 DEF Binding
    <3> QED BY <1>6, <2>1, <3>2, <3>3 DEF BindsOnce
  <2>2. CASE <<k, t>> \notin pairs
        BY <1>6, <1>8, <2>2 DEF BindsNone, Binding
  <2> QED BY <2>1, <2>2
<1>11. \A n \in RuntimeNames : BindsNone(imports, n)
       BY <1>6, <1>9 DEF BindsNone, Binding
<1>12. ASSUME NEW x \in ToSet(imports), NEW k \in Markers, NEW t \in DOMAIN companion, CompanionFunc(k, t) \in x.names
       PROVE  x.from = companion[t]
  <2>1. PICK i \in DOMAIN paths : x = imports[i]
        BY <1>6 DEF ToSet
  <2>2. CompanionFunc(k, t) \in named(i) /\ x.from = paths[i]
        BY <1>6, <1>12, <2>1
  <2> QED BY <1>8, <2>2
<1> QED BY <1>7, <1>10, <1>11, <1>12 DEF imports

-----------------------------------------------------------------------------
(* Marker calls.                                                           *)

\* The call of a marker, for the type that it names.
Redirected(c) == [c EXCEPT !.text = CompanionFunc(c.marker, c.type)]

\* replaceMarkerCalls: when every call of a marker's name is a marker call, the
\* k-th occurrence is the k-th marker call.
LEMMA MarkerCallsRedirected ==
    ASSUME NEW source, IsEmittedFile(source), CallsClear(source), DOMAIN companions \subseteq TypeNames
    PROVE  /\ MarkerPairs(source.calls) \subseteq Markers \X DOMAIN companions
           /\ \A i \in DOMAIN source.calls : source.calls[i].marker # "" =>
                 <<source.calls[i].marker, source.calls[i].type>> \in MarkerPairs(source.calls)
           /\ DOMAIN ReplaceMarkerCalls(source.calls) = DOMAIN source.calls
           /\ \A i \in DOMAIN source.calls : ReplaceMarkerCalls(source.calls)[i] =
                 IF source.calls[i].marker = "" THEN source.calls[i] ELSE Redirected(source.calls[i])
<1> DEFINE calls == source.calls
           n == Len(calls)
           At(f) == {i \in DOMAIN calls : calls[i].marker = f}
<1>1. n \in Nat /\ DOMAIN calls = 1 .. n /\ \A i \in 1 .. n : calls[i] \in ToSet(calls)
  <2>1. IsSequence(calls)
        BY DEF IsEmittedFile
  <2> QED BY <2>1 DEF IsSequence, ToSet
<1>2. /\ "" \notin Markers
      /\ "" \notin DOMAIN companions
  <2>1. "" \notin Markers
        BY DEF Markers
  <2> QED BY <2>1, CompanionFuncAssumption
<1>3. ASSUME NEW i \in 1 .. n
      PROVE  /\ calls[i] = Call(calls[i].text, calls[i].marker, calls[i].type)
             /\ calls[i].marker \in {""} \cup Markers
             /\ calls[i].text \in Markers \/ calls[i].marker # "" =>
                  calls[i].text = calls[i].marker /\ calls[i].type \in DOMAIN companions
      BY <1>1 DEF IsEmittedFile, CallsClear
<1>4. ASSUME NEW f \in Markers PROVE MarkerCalls(calls, f) = At(f) /\ Occurrences(calls, f) = At(f)
  <2>1. \A i \in 1 .. n : calls[i].marker = f => calls[i].type # ""
        BY <1>2, <1>3
  <2>2. \A i \in 1 .. n : calls[i].text = f <=> calls[i].marker = f
        BY <1>2, <1>3
  <2> QED BY <1>1, <2>1, <2>2 DEF MarkerCalls, Occurrences
<1>5. ASSUME NEW i \in 1 .. n, calls[i].marker # ""
      PROVE  /\ calls[i].marker \in Markers /\ calls[i].text = calls[i].marker /\ calls[i].type \in DOMAIN companions
             /\ <<calls[i].marker, calls[i].type>> \in MarkerPairs(calls)
             /\ TakenFor(calls, i) = {i}
  <2> DEFINE f == calls[i].text
  <2>1. f \in Markers /\ f = calls[i].marker /\ calls[i].type \in DOMAIN companions
        BY <1>3, <1>5
  <2> HIDE DEF f
  <2>2. MarkerCalls(calls, f) = At(f) /\ Occurrences(calls, f) = At(f) /\ i \in At(f)
        BY <1>1, <1>4, <2>1
  <2>3. <<f, calls[i].type>> \in MarkerPairs(calls)
        BY <2>1, <2>2 DEF MarkerPairs
  <2>4. TakenFor(calls, i) = {j \in At(f) : Rank(At(f), j) = Rank(At(f), i)}
        BY <2>2 DEF TakenFor, f
  <2>5. At(f) \in SUBSET (1 .. n)
        BY <1>1
  <2> HIDE DEF At
  <2>6. \A j \in At(f) : Rank(At(f), j) = Rank(At(f), i) => j = i
        BY <1>1, <2>2, <2>5, CountedApart DEF Rank
  <2>7. TakenFor(calls, i) = {i}
        BY <2>2, <2>4, <2>6
  <2> QED BY <2>1, <2>3, <2>7 DEF f
<1>6. MarkerPairs(calls) \subseteq Markers \X DOMAIN companions
  <2>1. ASSUME NEW f \in Markers, NEW i \in MarkerCalls(calls, f)
        PROVE  <<f, calls[i].type>> \in Markers \X DOMAIN companions
    <3>1. i \in 1 .. n /\ calls[i].marker = f
          BY <1>1 DEF MarkerCalls
    <3> QED BY <1>2, <1>3, <3>1
  <2> QED BY <2>1 DEF MarkerPairs
<1>7. DOMAIN ReplaceMarkerCalls(calls) = DOMAIN calls
      BY DEF ReplaceMarkerCalls
<1>8. ASSUME NEW i \in 1 .. n
      PROVE  ReplaceMarkerCalls(calls)[i] = IF calls[i].marker = "" THEN calls[i] ELSE Redirected(calls[i])
  <2>1. ReplaceMarkerCalls(calls)[i] =
          IF calls[i].text \in Markers /\ TakenFor(calls, i) # {}
          THEN Retargeted(calls[i], calls[CHOOSE j \in TakenFor(calls, i) : TRUE].type) ELSE calls[i]
        BY <1>1 DEF ReplaceMarkerCalls
  <2>2. CASE calls[i].marker = ""
    <3>1. calls[i].text \notin Markers
          BY <1>2, <1>3, <2>2
    <3> QED BY <2>1, <2>2, <3>1
  <2>3. CASE calls[i].marker # ""
    <3>1. (CHOOSE j \in {i} : TRUE) = i
          OBVIOUS
    <3>2. ReplaceMarkerCalls(calls)[i] = Retargeted(calls[i], calls[i].type)
          BY <1>5, <2>1, <2>3, <3>1
    <3>3. calls[i].text = calls[i].marker
          BY <1>5, <2>3
    <3>4. Retargeted(calls[i], calls[i].type) = Redirected(calls[i])
          BY <3>3 DEF Retargeted, Redirected
    <3> QED BY <2>3, <3>2, <3>4
  <2> QED BY <2>2, <2>3
<1> QED BY <1>1, <1>5, <1>6, <1>7, <1>8

LEMMA WithoutTsgonestKeeps ==
    ASSUME NEW imports, imports \in Seq(ToSet(imports))
    PROVE  LET kept == WithoutTsgonest(imports)
           IN  kept \in Seq(ToSet(kept)) /\ ToSet(kept) \subseteq ToSet(imports)
<1> DEFINE at == {i \in DOMAIN imports : imports[i].from = "tsgonest"}
<1>1. CASE at = {}
      BY <1>1 DEF WithoutTsgonest
<1>2. CASE at # {}
  <2>1. WithoutTsgonest(imports) = RemoveAt(imports, Min(at))
        BY <1>2 DEF WithoutTsgonest
  <2>2. Min(at) \in DOMAIN imports
    <3>1. at \subseteq Nat
          OBVIOUS
    <3>2. \E x \in at : \A y \in at : x <= y
          BY <1>2, <3>1, LeastNumber
    <3>3. Min(at) \in at
          BY <3>2 DEF Min
    <3> QED BY <3>3
  <2>3. RemoveAt(imports, Min(at)) \in Seq(ToSet(imports))
        BY <2>2, Removed
  <2> QED BY <2>1, <2>3, OwnElements
<1> QED BY <1>1, <1>2

-----------------------------------------------------------------------------
(* The lists of what the routes of a file ask for.                         *)

FunctionOf(f, S) == f = [i \in S |-> f[i]]
Holds(q, y) == q = <<y>>
AtMostOne(q) == q = <<>> \/ \E y : Holds(q, y)

LEMMA Joined ==
    ASSUME NEW s, IsSequence(s), NEW f, FunctionOf(f, DOMAIN s), \A i \in DOMAIN s : IsSequence(f[i])
    PROVE  /\ IsSequence(FlattenSeq(f))
           /\ \A y \in ToSet(FlattenSeq(f)) : \E i \in DOMAIN s : s[i] \in ToSet(s) /\ y \in ToSet(f[i])
<1>1. Len(s) \in Nat /\ DOMAIN s = 1 .. Len(s) /\ \A i \in DOMAIN s : s[i] \in ToSet(s)
      BY DEF IsSequence, ToSet
<1>2. \A i \in 1 .. Len(s) : f[i] \in Seq(ToSet(f[i]))
      BY <1>1 DEF IsSequence
<1>3. f = [i \in 1 .. Len(s) |-> f[i]]
      BY <1>1 DEF FunctionOf
<1>4. FlattenSeq(f) \in Seq(ToSet(FlattenSeq(f))) /\ ToSet(FlattenSeq(f)) = UNION {ToSet(f[i]) : i \in 1 .. Len(s)}
      BY <1>1, <1>2, <1>3, FlattenedMap
<1> QED BY <1>1, <1>4 DEF IsSequence

LEMMA Selected ==
    ASSUME NEW s, IsSequence(s), NEW f, FunctionOf(f, DOMAIN s),
           \A i \in DOMAIN s : AtMostOne(f[i])
    PROVE  /\ IsSequence(FlattenSeq(f))
           /\ \A y \in ToSet(FlattenSeq(f)) : \E i \in DOMAIN s : s[i] \in ToSet(s) /\ Holds(f[i], y)
<1>1. IsSequence(<<>>) /\ ToSet(<<>>) = {}
      BY DEF IsSequence, ToSet
<1>2. ASSUME NEW y PROVE IsSequence(<<y>>) /\ ToSet(<<y>>) = {y}
      BY OneIfFacts DEF OneIf, IsSequence
<1>3. ASSUME NEW i \in DOMAIN s
      PROVE  IsSequence(f[i]) /\ \A y \in ToSet(f[i]) : Holds(f[i], y)
  <2>1. CASE f[i] = <<>>
        BY <1>1, <2>1
  <2>2. CASE \E y : Holds(f[i], y)
    <3>1. PICK y : Holds(f[i], y)
          BY <2>2
    <3> HIDE DEF IsSequence
    <3>2. IsSequence(f[i]) /\ ToSet(f[i]) = {y}
          BY <1>2, <3>1 DEF Holds
    <3> QED BY <3>1, <3>2
  <2> QED BY <2>1, <2>2 DEF AtMostOne
<1> QED BY <1>3, Joined

LEMMA HoldsOnly ==
    ASSUME NEW e
    PROVE  (\A x : Holds(<<x>>, e) => e = x) /\ ~Holds(<<>>, e)
BY DEF Holds

LEMMA ValidationsOfRoutes ==
    ASSUME NEW companion, NEW routes, IsSequence(routes), \A r \in ToSet(routes) : IsSequence(r.params)
    PROVE  /\ IsSequence(Validations(routes, companion))
           /\ \A e \in ToSet(Validations(routes, companion)) :
                 e.kind = "inject" /\ e.with.do = "assert" /\ e.with.type \in DOMAIN companion
<1> DEFINE at(i, k) == OneIf(IsAsserted(routes[i].params[k], companion),
                             Inserting(routes[i].method, AssertLine(routes[i].params[k])))
           row(i) == [k \in DOMAIN routes[i].params |-> at(i, k)]
           f == [i \in DOMAIN routes |-> FlattenSeq(row(i))]
<1>1. Validations(routes, companion) = FlattenSeq(f)
      BY DEF Validations
<1>2. ASSUME NEW i \in DOMAIN routes
      PROVE  /\ IsSequence(FlattenSeq(row(i)))
             /\ \A e \in ToSet(FlattenSeq(row(i))) :
                   e.kind = "inject" /\ e.with.do = "assert" /\ e.with.type \in DOMAIN companion
  <2>1. IsSequence(routes[i].params)
        BY DEF ToSet
  <2>2. FunctionOf(row(i), DOMAIN routes[i].params) /\ \A k \in DOMAIN routes[i].params : row(i)[k] = at(i, k)
        BY DEF FunctionOf
  <2>3. ASSUME NEW k, NEW e, Holds(at(i, k), e)
        PROVE  e.kind = "inject" /\ e.with.do = "assert" /\ e.with.type \in DOMAIN companion
    <3>1. IsAsserted(routes[i].params[k], companion) /\ e = Inserting(routes[i].method, AssertLine(routes[i].params[k]))
          BY <2>3 DEF OneIf, Holds, AtMostOne
    <3>2. e.kind = "inject" /\ e.with = AssertLine(routes[i].params[k])
          BY <3>1 DEF Inserting
    <3>3. e.with.do = "assert" /\ e.with.type = ParamTypeName(routes[i].params[k])
          BY <3>2 DEF AssertLine, Line
    <3> QED BY <3>1, <3>2, <3>3 DEF IsAsserted
  <2>4. \A k : AtMostOne(at(i, k))
        BY DEF OneIf, Holds, AtMostOne
  <2> HIDE DEF row, at
  <2>5. /\ IsSequence(FlattenSeq(row(i)))
        /\ \A y \in ToSet(FlattenSeq(row(i))) : \E k \in DOMAIN routes[i].params : Holds(row(i)[k], y)
    <3>1. \A k \in DOMAIN routes[i].params : AtMostOne(row(i)[k])
          BY <2>2, <2>4
    <3> HIDE DEF IsSequence
    <3> QED BY <2>1, <2>2, <3>1, Selected
  <2> QED BY <2>2, <2>3, <2>5
<1>3. FunctionOf(f, DOMAIN routes) /\ \A i \in DOMAIN routes : f[i] = FlattenSeq(row(i))
      BY DEF FunctionOf
<1> HIDE DEF row, f
<1>4. /\ IsSequence(FlattenSeq(f))
      /\ \A y \in ToSet(FlattenSeq(f)) : \E i \in DOMAIN routes : y \in ToSet(f[i])
      BY <1>2, <1>3, Joined
<1> QED BY <1>1, <1>2, <1>3, <1>4

LEMMA CoercionsOfRoutes ==
    ASSUME NEW routes, IsSequence(routes), \A r \in ToSet(routes) : IsSequence(r.params)
    PROVE  /\ IsSequence(Coercions(routes))
           /\ \A e \in ToSet(Coercions(routes)) : e.kind = "inject" /\ e.with.do # "assert"
<1> DEFINE at(i, k) == OneIf(IsCoerced(routes[i].params[k]),
                             Inserting(routes[i].method, CoerceLine(routes[i].params[k])))
           row(i) == [k \in DOMAIN routes[i].params |-> at(i, k)]
           f == [i \in DOMAIN routes |-> FlattenSeq(row(i))]
<1>1. Coercions(routes) = FlattenSeq(f)
      BY DEF Coercions
<1>2. ASSUME NEW i \in DOMAIN routes
      PROVE  /\ IsSequence(FlattenSeq(row(i)))
             /\ \A e \in ToSet(FlattenSeq(row(i))) : e.kind = "inject" /\ e.with.do # "assert"
  <2>1. IsSequence(routes[i].params)
        BY DEF ToSet
  <2>2. FunctionOf(row(i), DOMAIN routes[i].params) /\ \A k \in DOMAIN routes[i].params : row(i)[k] = at(i, k)
        BY DEF FunctionOf
  <2>3. ASSUME NEW k, NEW e, Holds(at(i, k), e)
        PROVE  e.kind = "inject" /\ e.with.do # "assert"
    <3>1. IsCoerced(routes[i].params[k]) /\ e = Inserting(routes[i].method, CoerceLine(routes[i].params[k]))
          BY <2>3 DEF OneIf, Holds, AtMostOne
    <3>2. e.kind = "inject" /\ e.with = CoerceLine(routes[i].params[k])
          BY <3>1 DEF Inserting
    <3>3. e.with.do = routes[i].params[k].type.atomic
      <4> DEFINE p == routes[i].params[k]
                 do == p.type.atomic
                 none == ""
                 var == VariableOf(p)
      <4>1. CoerceLine(p) = Line(do, none, var)
            BY DEF CoerceLine
      <4> HIDE DEF p, do, none, var
      <4>2. CoerceLine(p).do = do
            BY <4>1 DEF Line
      <4> QED BY <3>2, <4>2 DEF p, do
    <3> QED BY <3>1, <3>2, <3>3 DEF IsCoerced
  <2>4. \A k : AtMostOne(at(i, k))
        BY DEF OneIf, Holds, AtMostOne
  <2> HIDE DEF row, at
  <2>5. /\ IsSequence(FlattenSeq(row(i)))
        /\ \A y \in ToSet(FlattenSeq(row(i))) : \E k \in DOMAIN routes[i].params : Holds(row(i)[k], y)
    <3>1. \A k \in DOMAIN routes[i].params : AtMostOne(row(i)[k])
          BY <2>2, <2>4
    <3> HIDE DEF IsSequence
    <3> QED BY <2>1, <2>2, <3>1, Selected
  <2> QED BY <2>2, <2>3, <2>5
<1>3. FunctionOf(f, DOMAIN routes) /\ \A i \in DOMAIN routes : f[i] = FlattenSeq(row(i))
      BY DEF FunctionOf
<1> HIDE DEF row, f
<1>4. /\ IsSequence(FlattenSeq(f))
      /\ \A y \in ToSet(FlattenSeq(f)) : \E i \in DOMAIN routes : y \in ToSet(f[i])
      BY <1>2, <1>3, Joined
<1> QED BY <1>1, <1>2, <1>3, <1>4

LEMMA ReturnTransformsOfRoutes ==
    ASSUME NEW companion, NEW routes, IsSequence(routes)
    PROVE  /\ IsSequence(ReturnTransforms(routes, companion))
           /\ \A e \in ToSet(ReturnTransforms(routes, companion)) :
                 e.kind = "wrap" /\ e.with.op \in {"stringify", "serialize"} /\ e.with.name \in DOMAIN companion
<1> DEFINE op(i) == IF routes[i].type.kind = "array" THEN "serialize" ELSE "stringify"
           wrapping(i) == Wrapping(routes[i].method, Wrapper(op(i), ReturnTypeName(routes[i].type), FALSE))
           f == [i \in DOMAIN routes |-> OneIf(IsWrapped(routes[i], companion), wrapping(i))]
<1>1. ReturnTransforms(routes, companion) = FlattenSeq(f)
      BY DEF ReturnTransforms
<1>2. FunctionOf(f, DOMAIN routes)
      /\ \A i \in DOMAIN routes : f[i] = OneIf(IsWrapped(routes[i], companion), wrapping(i))
      BY DEF FunctionOf
<1> HIDE DEF f
<1>3. /\ IsSequence(FlattenSeq(f))
      /\ \A y \in ToSet(FlattenSeq(f)) : \E i \in DOMAIN routes : Holds(f[i], y)
  <2>1. \A i \in DOMAIN routes : AtMostOne(f[i])
        BY <1>2 DEF OneIf, Holds, AtMostOne
  <2> HIDE DEF IsSequence
  <2> QED BY <1>2, <2>1, Selected
<1>4. ASSUME NEW i \in DOMAIN routes, NEW e, Holds(f[i], e)
      PROVE  e.kind = "wrap" /\ e.with.op \in {"stringify", "serialize"} /\ e.with.name \in DOMAIN companion
  <2>1. IsWrapped(routes[i], companion) /\ e = wrapping(i)
        BY <1>2, <1>4, HoldsOnly DEF OneIf
  <2>2. e.kind = "wrap" /\ e.with.op = op(i) /\ e.with.name = ReturnTypeName(routes[i].type)
        BY <2>1 DEF Wrapping, Wrapper
  <2>3. ReturnTypeName(routes[i].type) \in DOMAIN companion
        BY <2>1 DEF IsWrapped
  <2> QED BY <2>2, <2>3
<1> QED BY <1>1, <1>3, <1>4

LEMMA PrimitiveTransformsOfRoutes ==
    ASSUME NEW routes, IsSequence(routes)
    PROVE  /\ IsSequence(PrimitiveTransforms(routes))
           /\ \A e \in ToSet(PrimitiveTransforms(routes)) : e.kind = "wrap" /\ e.with.op = "primitive"
<1> DEFINE wrapping(i) == Wrapping(routes[i].method,
                                   Wrapper("primitive", PrimitiveReturn(routes[i].type), routes[i].type.nullable))
           f == [i \in DOMAIN routes |-> OneIf(IsPrimitive(routes[i]), wrapping(i))]
<1>1. PrimitiveTransforms(routes) = FlattenSeq(f)
      BY DEF PrimitiveTransforms
<1>2. FunctionOf(f, DOMAIN routes) /\ \A i \in DOMAIN routes : f[i] = OneIf(IsPrimitive(routes[i]), wrapping(i))
      BY DEF FunctionOf
<1> HIDE DEF f
<1>3. /\ IsSequence(FlattenSeq(f))
      /\ \A y \in ToSet(FlattenSeq(f)) : \E i \in DOMAIN routes : Holds(f[i], y)
  <2>1. \A i \in DOMAIN routes : AtMostOne(f[i])
        BY <1>2 DEF OneIf, Holds, AtMostOne
  <2> HIDE DEF IsSequence
  <2> QED BY <1>2, <2>1, Selected
<1>4. ASSUME NEW i \in DOMAIN routes, NEW e, Holds(f[i], e)
      PROVE  e.kind = "wrap" /\ e.with.op = "primitive"
  <2>1. e = wrapping(i)
        BY <1>2, <1>4, HoldsOnly DEF OneIf
  <2> QED BY <2>1 DEF Wrapping, Wrapper
<1> QED BY <1>1, <1>3, <1>4

LEMMA SseTransformsOfRoutes ==
    ASSUME NEW companion, NEW routes, IsSequence(routes), \A r \in ToSet(routes) : IsSequence(r.variants)
    PROVE  /\ IsSequence(SseTransforms(routes, companion))
           /\ \A x \in ToSet(SseTransforms(routes, companion)) : \A e \in ToSet(x.entries) : e.type \in DOMAIN companion
<1> DEFINE entries(r) == Entries(r, companion)
           stream(r) == [class |-> r.class, method |-> r.method, entries |-> entries(r)]
           f == [i \in DOMAIN routes |-> OneIf(entries(routes[i]) # <<>>, stream(routes[i]))]
<1>1. SseTransforms(routes, companion) = FlattenSeq(f)
      BY DEF SseTransforms
<1>2. ASSUME NEW r \in ToSet(routes) PROVE \A e \in ToSet(entries(r)) : e.type \in DOMAIN companion
  <2> DEFINE entry(v) == [event |-> IF v.event = "" THEN "*" ELSE v.event, type |-> ReturnTypeName(v.data)]
             g == [i \in DOMAIN r.variants |->
                     OneIf(ReturnTypeName(r.variants[i].data) \in DOMAIN companion, entry(r.variants[i]))]
  <2>1. entries(r) = FlattenSeq(g)
        BY DEF Entries
  <2>2. FunctionOf(g, DOMAIN r.variants) /\ \A i \in DOMAIN r.variants :
           g[i] = OneIf(ReturnTypeName(r.variants[i].data) \in DOMAIN companion, entry(r.variants[i]))
        BY DEF FunctionOf
  <2> HIDE DEF g, entries
  <2>3. \A y \in ToSet(FlattenSeq(g)) : \E i \in DOMAIN r.variants : Holds(g[i], y)
    <3>1. \A i \in DOMAIN r.variants : AtMostOne(g[i])
          BY <2>2 DEF OneIf, Holds, AtMostOne
    <3> QED BY <2>2, <3>1, Selected
  <2>4. ASSUME NEW i \in DOMAIN r.variants, NEW e, Holds(g[i], e) PROVE e.type \in DOMAIN companion
    <3>1. ReturnTypeName(r.variants[i].data) \in DOMAIN companion /\ e = entry(r.variants[i])
          BY <2>2, <2>4, HoldsOnly DEF OneIf
    <3> QED BY <3>1
  <2> QED BY <2>1, <2>3, <2>4
<1>3. FunctionOf(f, DOMAIN routes)
      /\ \A i \in DOMAIN routes : f[i] = OneIf(entries(routes[i]) # <<>>, stream(routes[i]))
      BY DEF FunctionOf
<1> HIDE DEF f, entries
<1>4. /\ IsSequence(FlattenSeq(f))
      /\ \A y \in ToSet(FlattenSeq(f)) : \E i \in DOMAIN routes : routes[i] \in ToSet(routes) /\ Holds(f[i], y)
  <2>1. \A i \in DOMAIN routes : AtMostOne(f[i])
        BY <1>3 DEF OneIf, Holds, AtMostOne
  <2> HIDE DEF IsSequence
  <2> QED BY <1>3, <2>1, Selected
<1>5. ASSUME NEW i \in DOMAIN routes, routes[i] \in ToSet(routes), NEW x, Holds(f[i], x)
      PROVE  \A e \in ToSet(x.entries) : e.type \in DOMAIN companion
  <2>1. x = stream(routes[i])
        BY <1>3, <1>5, HoldsOnly DEF OneIf
  <2>2. x.entries = entries(routes[i])
        BY <2>1
  <2> QED BY <1>2, <1>5, <2>2
<1> QED BY <1>1, <1>4, <1>5

LEMMA InterceptorsOfControllers ==
    ASSUME NEW file, NEW controllers, IsSequence(controllers), NEW name
    PROVE  /\ IsSequence(Interceptors(file, controllers, name))
           /\ \A d \in ToSet(Interceptors(file, controllers, name)) : d.name = name /\ d.via = Common
<1> DEFINE ending(c) == {i \in DOMAIN file.functions : file.functions[i].class # ""
                           /\ (file.functions[i].class = c \/ <<file.functions[i].class, c>> \in NameEnds)}
           found(c) == ending(controllers[c].name)
           decorator(c) == [class |-> file.functions[Min(found(c))].class, via |-> Common, name |-> name]
           f == [c \in DOMAIN controllers |-> OneIf(found(c) # {}, decorator(c))]
<1>1. Interceptors(file, controllers, name) = FlattenSeq(f)
      BY DEF Interceptors
<1>2. FunctionOf(f, DOMAIN controllers)
      /\ \A c \in DOMAIN controllers : f[c] = OneIf(found(c) # {}, decorator(c))
      BY DEF FunctionOf
<1>3. \A c : decorator(c).name = name /\ decorator(c).via = Common
      OBVIOUS
<1> HIDE DEF f, found, decorator
<1>4. /\ IsSequence(FlattenSeq(f))
      /\ \A y \in ToSet(FlattenSeq(f)) : \E c \in DOMAIN controllers : Holds(f[c], y)
  <2>1. \A c \in DOMAIN controllers : AtMostOne(f[c])
        BY <1>2 DEF OneIf, Holds, AtMostOne
  <2> HIDE DEF IsSequence
  <2> QED BY <1>2, <2>1, Selected
<1>5. ASSUME NEW c \in DOMAIN controllers, NEW d, Holds(f[c], d) PROVE d.name = name /\ d.via = Common
  <2>1. d = decorator(c)
        BY <1>2, <1>5, HoldsOnly DEF OneIf
  <2> QED BY <1>3, <2>1
<1> QED BY <1>1, <1>4, <1>5

-----------------------------------------------------------------------------
(* The routes of a file, and the imports that it is written with.          *)

HasLists(c) == /\ IsSequence(c.routes)
               /\ \A r \in ToSet(c.routes) : IsSequence(r.params) /\ IsSequence(r.variants)

LEMMA ControllersOfFile ==
    ASSUME NEW name, NEW controllers, IsSequence(controllers)
    PROVE  /\ IsSequence(ControllersOf(name, controllers))
           /\ \A c \in ToSet(ControllersOf(name, controllers)) : c \in ToSet(controllers)
<1> DEFINE f == [c \in DOMAIN controllers |-> OneIf(controllers[c].file = name, controllers[c])]
<1>1. ControllersOf(name, controllers) = FlattenSeq(f)
      BY DEF ControllersOf
<1>2. FunctionOf(f, DOMAIN controllers)
      /\ \A c \in DOMAIN controllers : f[c] = <<>> \/ f[c] = <<controllers[c]>>
      BY DEF FunctionOf, OneIf
<1> HIDE DEF f
<1>3. /\ IsSequence(FlattenSeq(f))
      /\ \A y \in ToSet(FlattenSeq(f)) : \E c \in DOMAIN controllers : controllers[c] \in ToSet(controllers) /\ Holds(f[c], y)
  <2>1. \A c \in DOMAIN controllers : AtMostOne(f[c])
        BY <1>2 DEF AtMostOne, Holds
  <2> HIDE DEF IsSequence
  <2> QED BY <1>2, <2>1, Selected
<1>4. ASSUME NEW c \in DOMAIN controllers, NEW y, Holds(f[c], y) PROVE y = controllers[c]
      BY <1>2, <1>4, HoldsOnly
<1> QED BY <1>1, <1>3, <1>4

LEMMA RoutesOfFile ==
    ASSUME NEW controllers, IsSequence(controllers), \A c \in ToSet(controllers) : HasLists(c)
    PROVE  /\ IsSequence(RewrittenRoutes(controllers))
           /\ \A r \in ToSet(RewrittenRoutes(controllers)) : IsSequence(r.params) /\ IsSequence(r.variants)
<1> DEFINE row(c) == [i \in DOMAIN controllers[c].routes |->
                        OneIf(~controllers[c].routes[i].raw, controllers[c].routes[i])]
           f == [c \in DOMAIN controllers |-> FlattenSeq(row(c))]
<1>1. RewrittenRoutes(controllers) = FlattenSeq(f)
      BY DEF RewrittenRoutes
<1>2. ASSUME NEW c \in DOMAIN controllers
      PROVE  /\ IsSequence(FlattenSeq(row(c)))
             /\ \A r \in ToSet(FlattenSeq(row(c))) : IsSequence(r.params) /\ IsSequence(r.variants)
  <2> DEFINE routes == controllers[c].routes
             g == row(c)
  <2>1. HasLists(controllers[c])
        BY DEF ToSet
  <2>2. IsSequence(routes) /\ \A r \in ToSet(routes) : IsSequence(r.params) /\ IsSequence(r.variants)
        BY <2>1 DEF HasLists
  <2>3. FunctionOf(g, DOMAIN routes) /\ \A i \in DOMAIN routes : g[i] = <<>> \/ g[i] = <<routes[i]>>
        BY DEF FunctionOf, OneIf
  <2> HIDE DEF row, g, routes
  <2>4. /\ IsSequence(FlattenSeq(g))
        /\ \A y \in ToSet(FlattenSeq(g)) : \E i \in DOMAIN routes : routes[i] \in ToSet(routes) /\ Holds(g[i], y)
    <3>1. \A i \in DOMAIN routes : AtMostOne(g[i])
          BY <2>3 DEF AtMostOne, Holds
    <3> HIDE DEF IsSequence
    <3> QED BY <2>2, <2>3, <3>1, Selected
  <2>5. ASSUME NEW i \in DOMAIN routes, NEW y, Holds(g[i], y) PROVE y = routes[i]
        BY <2>3, <2>5, HoldsOnly
  <2>6. ASSUME NEW r \in ToSet(FlattenSeq(g)) PROVE r \in ToSet(routes)
    <3>1. PICK i \in DOMAIN routes : routes[i] \in ToSet(routes) /\ Holds(g[i], r)
          BY <2>4
    <3>2. r = routes[i]
          BY <2>5, <3>1
    <3> QED BY <3>1, <3>2
  <2>7. IsSequence(FlattenSeq(g)) /\ \A r \in ToSet(FlattenSeq(g)) : IsSequence(r.params) /\ IsSequence(r.variants)
        BY <2>2, <2>4, <2>6
  <2> QED BY <2>7 DEF g
<1>3. FunctionOf(f, DOMAIN controllers) /\ \A c \in DOMAIN controllers : f[c] = FlattenSeq(row(c))
      BY DEF FunctionOf
<1> HIDE DEF row, f
<1>4. /\ IsSequence(FlattenSeq(f))
      /\ \A y \in ToSet(FlattenSeq(f)) : \E c \in DOMAIN controllers : y \in ToSet(f[c])
      BY <1>2, <1>3, Joined
<1> QED BY <1>1, <1>2, <1>3, <1>4

NamesOfPairs(pairs) == {CompanionFunc(p[1], p[2]) : p \in pairs}
\* Of the generated names, these are bound, once each.
BoundFor(imports, S)  == \A n \in GeneratedNames : IF n \in S THEN BindsOnce(imports, n) ELSE BindsNone(imports, n)
BoundSome(imports, S) == \A n \in S : ~BindsNone(imports, n)
FromTheirs(imports) ==
    \A x \in ToSet(imports) : \A k \in Markers, t \in DOMAIN companions :
        CompanionFunc(k, t) \in x.names => x.from = companions[t]
KnownCompanions == IsFiniteSet(DOMAIN companions) /\ DOMAIN companions \subseteq TypeNames

LEMMA FromTheirsJoined ==
    ASSUME NEW a, a \in Seq(ToSet(a)), FromTheirs(a), NEW b, b \in Seq(ToSet(b)), FromTheirs(b)
    PROVE  FromTheirs(a \o b)
<1>1. ToSet(a \o b) = ToSet(a) \cup ToSet(b)
      BY Appended
<1> QED BY <1>1 DEF FromTheirs

LEMMA OwnImportsApart ==
    ASSUME NEW source, CallsClear(source), NEW imports, imports \in Seq(ToSet(imports)),
           ToSet(imports) \subseteq ToSet(source.imports)
    PROVE  BoundFor(imports, {}) /\ FromTheirs(imports)
<1>1. \A x \in ToSet(imports) : x.names \cap GeneratedNames = {}
      BY DEF CallsClear
<1>2. \A x \in ToSet(imports) : \A k \in Markers, t \in DOMAIN companions : CompanionFunc(k, t) \notin x.names
  <2>1. \A k \in Markers, t \in DOMAIN companions : CompanionFunc(k, t) \in GeneratedNames
        BY DEF GeneratedNames
  <2> QED BY <1>1, <2>1
<1>3. \A i \in DOMAIN imports : imports[i] \in ToSet(imports)
      BY DEF ToSet
<1> QED BY <1>1, <1>2, <1>3 DEF BoundFor, FromTheirs, BindsNone, Binding

LEMMA ImportsOfPairs ==
    ASSUME KnownCompanions, NEW pairs, pairs \subseteq Markers \X DOMAIN companions
    PROVE  LET imports == CompanionImports(pairs, companions)
           IN  /\ imports \in Seq(ToSet(imports))
               /\ BoundFor(imports, NamesOfPairs(pairs)) /\ BoundSome(imports, NamesOfPairs(pairs))
               /\ FromTheirs(imports)
<1> DEFINE imports == CompanionImports(pairs, companions)
<1>1. /\ imports \in Seq(ToSet(imports))
      /\ \A k \in Markers, t \in DOMAIN companions :
           IF <<k, t>> \in pairs THEN BindsOnce(imports, CompanionFunc(k, t))
           ELSE BindsNone(imports, CompanionFunc(k, t))
      /\ \A n \in RuntimeNames : BindsNone(imports, n)
      /\ \A x \in ToSet(imports) : \A k \in Markers, t \in DOMAIN companions :
           CompanionFunc(k, t) \in x.names => x.from = companions[t]
      BY CompanionImportsBind DEF KnownCompanions
<1> HIDE DEF imports
<1>2. \A p \in pairs : p[1] \in Markers /\ p[2] \in DOMAIN companions /\ p[2] \in TypeNames /\ p = <<p[1], p[2]>>
      BY DEF KnownCompanions
<1>3. ASSUME NEW n \in RuntimeNames PROVE n \notin NamesOfPairs(pairs)
  <2>1. ASSUME NEW p \in pairs PROVE CompanionFunc(p[1], p[2]) # n
    <3>1. p[1] \in Markers /\ p[2] \in TypeNames
          BY <1>2
    <3> QED BY <3>1, FunctionTells
  <2> QED BY <2>1 DEF NamesOfPairs
<1>4. ASSUME NEW k \in Markers, NEW t \in DOMAIN companions
      PROVE  CompanionFunc(k, t) \in NamesOfPairs(pairs) <=> <<k, t>> \in pairs
  <2>1. ASSUME NEW p \in pairs, CompanionFunc(k, t) = CompanionFunc(p[1], p[2]) PROVE <<k, t>> \in pairs
    <3>1. p[1] \in Markers /\ p[2] \in TypeNames /\ t \in TypeNames
          BY <1>2 DEF KnownCompanions
    <3>2. p[1] = k /\ p[2] = t
          BY <2>1, <3>1, FunctionTells
    <3> QED BY <1>2, <2>1, <3>2
  <2>2. <<k, t>>[1] = k /\ <<k, t>>[2] = t
        OBVIOUS
  <2>3. <<k, t>> \in pairs => CompanionFunc(k, t) \in NamesOfPairs(pairs)
        BY <2>2 DEF NamesOfPairs
  <2> QED BY <2>1, <2>3 DEF NamesOfPairs
<1>5. BoundFor(imports, NamesOfPairs(pairs))
  <2>1. ASSUME NEW n \in RuntimeNames
        PROVE  IF n \in NamesOfPairs(pairs) THEN BindsOnce(imports, n) ELSE BindsNone(imports, n)
        BY <1>1, <1>3
  <2>2. ASSUME NEW k \in Markers, NEW t \in DOMAIN companions, NEW n, n = CompanionFunc(k, t)
        PROVE  IF n \in NamesOfPairs(pairs) THEN BindsOnce(imports, n) ELSE BindsNone(imports, n)
    <3>1. n \in NamesOfPairs(pairs) <=> <<k, t>> \in pairs
          BY <1>4, <2>2
    <3>2. IF <<k, t>> \in pairs THEN BindsOnce(imports, n) ELSE BindsNone(imports, n)
          BY <1>1, <2>2
    <3> QED BY <3>1, <3>2
  <2>3. ASSUME NEW n \in GeneratedNames
        PROVE  n \in RuntimeNames \/ \E k \in Markers, t \in DOMAIN companions : n = CompanionFunc(k, t)
        BY DEF GeneratedNames
  <2>4. ASSUME NEW n \in GeneratedNames
        PROVE  IF n \in NamesOfPairs(pairs) THEN BindsOnce(imports, n) ELSE BindsNone(imports, n)
    <3>1. CASE n \in RuntimeNames
          BY <2>1, <3>1
    <3>2. CASE \E k \in Markers, t \in DOMAIN companions : n = CompanionFunc(k, t)
          BY <2>2, <3>2
    <3> QED BY <2>3, <3>1, <3>2
  <2> QED BY <2>4 DEF BoundFor
<1>6. ASSUME NEW n \in NamesOfPairs(pairs) PROVE ~BindsNone(imports, n)
  <2>1. PICK p \in pairs : n = CompanionFunc(p[1], p[2])
        BY DEF NamesOfPairs
  <2>2. BindsOnce(imports, n)
        BY <1>1, <1>2, <2>1
  <2> QED BY <2>2 DEF BindsOnce, BindsNone
<1> QED BY <1>1, <1>5, <1>6 DEF imports, BoundSome, FromTheirs

\* One list of imports before another.
LEMMA BoundForBoth ==
    ASSUME NEW a, a \in Seq(ToSet(a)), NEW b, b \in Seq(ToSet(b)), NEW S, NEW T
    PROVE  /\ BoundFor(a, S) /\ BoundFor(b, T) /\ S \cap T = {} => BoundFor(a \o b, S \cup T)
           /\ BoundSome(a, S) /\ BoundSome(b, T) => BoundSome(a \o b, S \cup T)
<1>1. ASSUME BoundFor(a, S), BoundFor(b, T), S \cap T = {} PROVE BoundFor(a \o b, S \cup T)
  <2>1. ASSUME NEW n \in GeneratedNames
        PROVE  IF n \in S \cup T THEN BindsOnce(a \o b, n) ELSE BindsNone(a \o b, n)
    <3>1. (IF n \in S THEN BindsOnce(a, n) ELSE BindsNone(a, n)) /\ (IF n \in T THEN BindsOnce(b, n) ELSE BindsNone(b, n))
          BY <1>1 DEF BoundFor
    <3>2. CASE n \in S
          BY <1>1, <3>1, <3>2, BindingOfBoth
    <3>3. CASE n \notin S /\ n \in T
          BY <3>1, <3>3, BindingOfBoth
    <3>4. CASE n \notin S /\ n \notin T
          BY <3>1, <3>4, BindingOfBoth
    <3> QED BY <3>2, <3>3, <3>4
  <2> QED BY <2>1 DEF BoundFor
<1>2. ASSUME BoundSome(a, S), BoundSome(b, T) PROVE BoundSome(a \o b, S \cup T)
  <2>1. ASSUME NEW n \in S \cup T PROVE ~BindsNone(a \o b, n)
    <3>1. ~BindsNone(a, n) \/ ~BindsNone(b, n)
          BY <1>2 DEF BoundSome
    <3> QED BY <3>1, BindingOfBoth
  <2> QED BY <2>1 DEF BoundSome
<1> QED BY <1>1, <1>2

LEMMA RuntimeImport ==
    ASSUME KnownCompanions, NEW needed \in BOOLEAN, NEW name \in RuntimeNames
    PROVE  LET imports == OneIf(needed, Import("@tsgonest/runtime", {name}))
               S == IF needed THEN {name} ELSE {}
           IN  imports \in Seq(ToSet(imports)) /\ BoundFor(imports, S) /\ BoundSome(imports, S) /\ FromTheirs(imports)
<1> DEFINE x == Import("@tsgonest/runtime", {name})
           imports == OneIf(needed, x)
           S == IF needed THEN {name} ELSE {}
<1>1. x.names = {name}
      BY DEF Import
<1> HIDE DEF x
<1>2. imports \in Seq(ToSet(imports)) /\ ToSet(imports) = IF needed THEN {x} ELSE {}
      BY OneIfFacts
<1>3. FromTheirs(imports)
  <2>1. \A k \in Markers, t \in DOMAIN companions : CompanionFunc(k, t) # name
        BY FunctionTells DEF KnownCompanions
  <2> HIDE DEF imports
  <2> QED BY <1>1, <1>2, <2>1 DEF FromTheirs
<1>4. \A n : IF n \in S THEN BindsOnce(imports, n) /\ ~BindsNone(imports, n) ELSE BindsNone(imports, n)
  <2>1. CASE needed
    <3>1. imports = <<x>> /\ S = {name}
          BY <2>1 DEF OneIf
    <3>2. DOMAIN imports = {1} /\ imports[1] = x
          BY <3>1
    <3> HIDE DEF imports, S
    <3> QED BY <1>1, <3>1, <3>2 DEF BindsOnce, BindsNone, Binding
  <2>2. CASE ~needed
    <3>1. imports = <<>> /\ S = {}
          BY <2>2 DEF OneIf
    <3>2. DOMAIN imports = {}
          BY <3>1
    <3> HIDE DEF imports, S
    <3> QED BY <3>1, <3>2 DEF BindsNone, Binding
  <2> QED BY <2>1, <2>2
<1> QED BY <1>2, <1>3, <1>4 DEF BoundFor, BoundSome, x

\* RewriteMarkers: the calls are redirected and what they call is imported.
LEMMA MarkersRewritten ==
    ASSUME NEW source, IsEmittedFile(source), CallsClear(source), KnownCompanions
    PROVE  LET text == RewriteMarkers(source, companions)
           IN  /\ text = [source EXCEPT !.imports = text.imports, !.calls = text.calls]
               /\ text.imports \in Seq(ToSet(text.imports))
               /\ BoundFor(text.imports, NamesOfPairs(MarkerPairs(source.calls)))
               /\ BoundSome(text.imports, NamesOfPairs(MarkerPairs(source.calls)))
               /\ FromTheirs(text.imports)
               /\ DOMAIN text.calls = DOMAIN source.calls
               /\ \A i \in DOMAIN source.calls :
                     text.calls[i] = IF source.calls[i].marker = "" THEN source.calls[i] ELSE Redirected(source.calls[i])
<1> DEFINE text == RewriteMarkers(source, companions)
           pairs == MarkerPairs(source.calls)
           kept == WithoutTsgonest(source.imports)
           added == CompanionImports(pairs, companions)
<1>1. /\ source.imports \in Seq(ToSet(source.imports)) /\ {"imports", "calls"} \subseteq DOMAIN source
      /\ source = [x \in DOMAIN source |-> source[x]]
  <2>1. IsSequence(source.imports)
        BY DEF IsEmittedFile
  <2>2. source = [File(source.name, source.format, source.imports, source.calls, source.functions)
                    EXCEPT !.reflects = source.reflects]
        BY DEF IsEmittedFile
  <2>3. DOMAIN source = DOMAIN File(source.name, source.format, source.imports, source.calls, source.functions)
        BY <2>2
  <2>4. {"imports", "calls"} \subseteq DOMAIN source
        BY <2>3 DEF File
  <2>5. source = [x \in DOMAIN source |-> source[x]]
        BY <2>2 DEF File
  <2> QED BY <2>1, <2>4, <2>5 DEF IsSequence
<1>2. /\ pairs \subseteq Markers \X DOMAIN companions
      /\ \A i \in DOMAIN source.calls : source.calls[i].marker # "" =>
            <<source.calls[i].marker, source.calls[i].type>> \in pairs
      /\ DOMAIN ReplaceMarkerCalls(source.calls) = DOMAIN source.calls
      /\ \A i \in DOMAIN source.calls : ReplaceMarkerCalls(source.calls)[i] =
            IF source.calls[i].marker = "" THEN source.calls[i] ELSE Redirected(source.calls[i])
      BY MarkerCallsRedirected DEF KnownCompanions
<1> HIDE DEF pairs
<1>3. CASE pairs = {}
  <2>1. text = source
        BY <1>3 DEF RewriteMarkers, pairs
  <2>2. source = [source EXCEPT !.imports = source.imports, !.calls = source.calls]
        BY <1>1
  <2>3. NamesOfPairs(pairs) = {} /\ BoundFor(source.imports, {}) /\ FromTheirs(source.imports)
        BY <1>1, <1>3, OwnImportsApart DEF NamesOfPairs
  <2> HIDE DEF text
  <2>4. text = [source EXCEPT !.imports = text.imports, !.calls = text.calls]
        BY <2>1, <2>2
  <2>5. BoundSome(text.imports, {})
        BY DEF BoundSome
  <2> QED BY <1>1, <1>2, <1>3, <2>1, <2>3, <2>4, <2>5 DEF text, pairs
<1>4. CASE pairs # {}
  <2>1. text = [source EXCEPT !.imports = added \o kept, !.calls = ReplaceMarkerCalls(source.calls)]
        BY <1>1, <1>4 DEF RewriteMarkers, pairs
  <2>2. added \in Seq(ToSet(added)) /\ FromTheirs(added)
        /\ BoundFor(added, NamesOfPairs(pairs)) /\ BoundSome(added, NamesOfPairs(pairs))
        BY <1>2, ImportsOfPairs
  <2>3. kept \in Seq(ToSet(kept)) /\ ToSet(kept) \subseteq ToSet(source.imports)
        BY <1>1, WithoutTsgonestKeeps
  <2> HIDE DEF added, kept, text
  <2>4. BoundFor(kept, {}) /\ BoundSome(kept, {}) /\ FromTheirs(kept)
        BY <2>3, OwnImportsApart DEF BoundSome
  <2>5. text.imports = added \o kept /\ text.calls = ReplaceMarkerCalls(source.calls)
        BY <1>1, <2>1
  <2>6. text.imports \in Seq(ToSet(text.imports))
        BY <2>2, <2>3, <2>5, Appended
  <2>7. /\ BoundFor(text.imports, NamesOfPairs(pairs)) /\ BoundSome(text.imports, NamesOfPairs(pairs))
        /\ FromTheirs(text.imports)
    <3>1. \A S : S \cup {} = S /\ S \cap {} = {}
          OBVIOUS
    <3> DEFINE none == {}
    <3>2. NamesOfPairs(pairs) \cap none = {} /\ BoundFor(kept, none) /\ BoundSome(kept, none)
          BY <2>4, <3>1
    <3> HIDE DEF none
    <3>3. /\ BoundFor(added \o kept, NamesOfPairs(pairs) \cup none)
          /\ BoundSome(added \o kept, NamesOfPairs(pairs) \cup none)
          BY <2>2, <2>3, <3>2, BoundForBoth
    <3> QED BY <2>2, <2>3, <2>4, <2>5, <3>1, <3>3, FromTheirsJoined DEF none
  <2>8. text = [source EXCEPT !.imports = text.imports, !.calls = text.calls]
        BY <2>1, <2>5
  <2> QED BY <1>2, <2>5, <2>6, <2>7, <2>8 DEF text, pairs
<1> QED BY <1>3, <1>4

-----------------------------------------------------------------------------
(* What the rewriter adds for the routes of a file uses what it imports.   *)

Transforming(routes) == ReturnTransforms(routes, companions) \o PrimitiveTransforms(routes)
Streaming(routes)    == SseTransforms(routes, companions)
NeededIf(needed, name) == IF needed THEN {name} ELSE {}
RuntimeNeeded(routes) ==
    NeededIf(Transforming(routes) # <<>>, SerializeInterceptor) \cup NeededIf(Streaming(routes) # <<>>, SseInterceptor)
    \cup NeededIf(Coercions(routes) # <<>>, ValidationError)
HandlerNeeds(routes) == NamesOfPairs(HandlerPairs(routes, companions)) \cup RuntimeNeeded(routes)

RoutesHaveLists(routes) ==
    IsSequence(routes) /\ \A r \in ToSet(routes) : IsSequence(r.params) /\ IsSequence(r.variants)

LEMMA PairsOfHandlers ==
    ASSUME NEW routes, RoutesHaveLists(routes)
    PROVE  HandlerPairs(routes, companions) \subseteq Markers \X DOMAIN companions
<1>1. /\ \A e \in ToSet(Validations(routes, companions)) : e.with.type \in DOMAIN companions
      /\ \A e \in ToSet(ReturnTransforms(routes, companions)) : e.with.name \in DOMAIN companions
      /\ \A x \in ToSet(SseTransforms(routes, companions)) : \A e \in ToSet(x.entries) : e.type \in DOMAIN companions
      BY ValidationsOfRoutes, ReturnTransformsOfRoutes, SseTransformsOfRoutes DEF RoutesHaveLists
<1>2. {"assert", "stringify", "serialize"} \subseteq Markers
      BY DEF Markers
<1>3. ASSUME NEW p \in HandlerPairs(routes, companions)
      PROVE  p \in Markers \X DOMAIN companions
  <2>1. CASE \E v \in ToSet(Validations(routes, companions)) : p = <<"assert", v.with.type>>
        BY <1>1, <1>2, <2>1
  <2>2. CASE \E t \in ToSet(ReturnTransforms(routes, companions)) : p \in {"stringify", "serialize"} \X {t.with.name}
        BY <1>1, <1>2, <2>2
  <2>3. CASE \E x \in ToSet(SseTransforms(routes, companions)) : \E e \in ToSet(x.entries) :
                p \in {"assert", "stringify"} \X {e.type}
        BY <1>1, <1>2, <2>3
  <2> DEFINE checked == {<<"assert", v.with.type>> : v \in ToSet(Validations(routes, companions))}
             wrapped == UNION {{"stringify", "serialize"} \X {t.with.name} : t \in ToSet(ReturnTransforms(routes, companions))}
             sent(x) == UNION {{"assert", "stringify"} \X {e.type} : e \in ToSet(x.entries)}
             streamed == UNION {sent(x) : x \in ToSet(SseTransforms(routes, companions))}
  <2>4. p \in checked \/ p \in wrapped \/ p \in streamed
    <3>1. HandlerPairs(routes, companions) = checked \cup wrapped \cup streamed
          BY DEF HandlerPairs
    <3> HIDE DEF checked, wrapped, streamed
    <3> QED BY <3>1
  <2>5. p \in streamed => \E x \in ToSet(SseTransforms(routes, companions)) : \E e \in ToSet(x.entries) :
                            p \in {"assert", "stringify"} \X {e.type}
    <3>1. ASSUME NEW x, p \in sent(x) PROVE \E e \in ToSet(x.entries) : p \in {"assert", "stringify"} \X {e.type}
          BY <3>1
    <3> HIDE DEF sent
    <3> QED BY <3>1
  <2> HIDE DEF streamed
  <2> QED BY <2>1, <2>2, <2>3, <2>4, <2>5
<1> QED BY <1>3

\* The handlers' imports, before those of the text.
LEMMA HandlerImports ==
    ASSUME KnownCompanions, NEW routes, RoutesHaveLists(routes),
           NEW own, own \in Seq(ToSet(own)), FromTheirs(own), NEW S, S \subseteq NamesOfPairs(Markers \X DOMAIN companions),
           BoundFor(own, S), BoundSome(own, S)
    PROVE  LET runtime(needed, name) == OneIf(needed, Import("@tsgonest/runtime", {name}))
               imports == CompanionImports(HandlerPairs(routes, companions), companions)
                          \o runtime(Transforming(routes) # <<>>, SerializeInterceptor)
                          \o runtime(Streaming(routes) # <<>>, SseInterceptor)
                          \o runtime(Coercions(routes) # <<>>, ValidationError) \o own
           IN  /\ FromTheirs(imports)
               /\ BoundSome(imports, HandlerNeeds(routes) \cup S)
               /\ NamesOfPairs(HandlerPairs(routes, companions)) \cap S = {} => BoundFor(imports, HandlerNeeds(routes) \cup S)
<1> DEFINE runtime(needed, name) == OneIf(needed, Import("@tsgonest/runtime", {name}))
           H == NamesOfPairs(HandlerPairs(routes, companions))
           a == CompanionImports(HandlerPairs(routes, companions), companions)
           r1 == runtime(Transforming(routes) # <<>>, SerializeInterceptor)
           r2 == runtime(Streaming(routes) # <<>>, SseInterceptor)
           r3 == runtime(Coercions(routes) # <<>>, ValidationError)
           R1 == NeededIf(Transforming(routes) # <<>>, SerializeInterceptor)
           R2 == NeededIf(Streaming(routes) # <<>>, SseInterceptor)
           R3 == NeededIf(Coercions(routes) # <<>>, ValidationError)
           Good(i, N) == i \in Seq(ToSet(i)) /\ FromTheirs(i) /\ BoundSome(i, N)
<1>1. HandlerPairs(routes, companions) \subseteq Markers \X DOMAIN companions
      BY PairsOfHandlers
<1>2. Good(a, H) /\ BoundFor(a, H)
      BY <1>1, ImportsOfPairs
<1>3. Good(r1, R1) /\ BoundFor(r1, R1) /\ Good(r2, R2) /\ BoundFor(r2, R2) /\ Good(r3, R3) /\ BoundFor(r3, R3)
  <2>1. SerializeInterceptor \in RuntimeNames /\ SseInterceptor \in RuntimeNames /\ ValidationError \in RuntimeNames
        BY DEF RuntimeNames
  <2>2. ASSUME NEW needed \in BOOLEAN, NEW name \in RuntimeNames
        PROVE  Good(runtime(needed, name), NeededIf(needed, name)) /\ BoundFor(runtime(needed, name), NeededIf(needed, name))
        BY <2>2, RuntimeImport DEF NeededIf
  <2>3. /\ (Transforming(routes) # <<>>) \in BOOLEAN /\ (Streaming(routes) # <<>>) \in BOOLEAN
        /\ (Coercions(routes) # <<>>) \in BOOLEAN
        OBVIOUS
  <2> HIDE DEF runtime, Good
  <2>4. Good(r1, R1) /\ BoundFor(r1, R1)
        BY <2>1, <2>2, <2>3
  <2>5. Good(r2, R2) /\ BoundFor(r2, R2)
        BY <2>1, <2>2, <2>3
  <2>6. Good(r3, R3) /\ BoundFor(r3, R3)
        BY <2>1, <2>2, <2>3
  <2> QED BY <2>4, <2>5, <2>6
<1>4. /\ R1 \cap R2 = {} /\ R1 \cap R3 = {} /\ R2 \cap R3 = {}
      /\ R1 \subseteq RuntimeNames /\ R2 \subseteq RuntimeNames /\ R3 \subseteq RuntimeNames
  <2>1. SerializeInterceptor # SseInterceptor /\ SerializeInterceptor # ValidationError /\ SseInterceptor # ValidationError
        BY DEF SerializeInterceptor, SseInterceptor, ValidationError
  <2> QED BY <2>1 DEF NeededIf, RuntimeNames
<1>5. (H \cup S) \cap RuntimeNames = {}
  <2>1. ASSUME NEW n \in NamesOfPairs(Markers \X DOMAIN companions) PROVE n \notin RuntimeNames
    <3>1. PICK p \in Markers \X DOMAIN companions : n = CompanionFunc(p[1], p[2])
          BY DEF NamesOfPairs
    <3>2. p[1] \in Markers /\ p[2] \in TypeNames
          BY DEF KnownCompanions
    <3> QED BY <3>1, <3>2, FunctionTells
  <2>2. H \subseteq NamesOfPairs(Markers \X DOMAIN companions)
        BY <1>1 DEF NamesOfPairs
  <2> QED BY <2>1, <2>2
<1>6. HandlerNeeds(routes) \cup S = ((((H \cup R1) \cup R2) \cup R3) \cup S)
      BY DEF HandlerNeeds, RuntimeNeeded
<1> HIDE DEF a, r1, r2, r3, H, R1, R2, R3
<1>7. ASSUME NEW x, NEW y, NEW N, NEW M, Good(x, N), Good(y, M) PROVE Good(x \o y, N \cup M)
      BY <1>7, BoundForBoth, FromTheirsJoined, Appended
<1>8. ASSUME NEW x, NEW y, NEW N, NEW M, Good(x, N), Good(y, M), BoundFor(x, N), BoundFor(y, M), N \cap M = {}
      PROVE  BoundFor(x \o y, N \cup M)
      BY <1>8, BoundForBoth
<1>9. Good(own, S)
      OBVIOUS
<1> HIDE DEF Good
<1>10. Good(a \o r1, H \cup R1) /\ BoundFor(a \o r1, H \cup R1)
  <2>1. H \cap R1 = {}
        BY <1>4, <1>5
  <2> QED BY <1>2, <1>3, <1>7, <1>8, <2>1
<1>11. Good((a \o r1) \o r2, (H \cup R1) \cup R2) /\ BoundFor((a \o r1) \o r2, (H \cup R1) \cup R2)
  <2>1. (H \cup R1) \cap R2 = {}
        BY <1>4, <1>5
  <2> QED BY <1>3, <1>7, <1>8, <1>10, <2>1
<1>12. /\ Good(((a \o r1) \o r2) \o r3, ((H \cup R1) \cup R2) \cup R3)
       /\ BoundFor(((a \o r1) \o r2) \o r3, ((H \cup R1) \cup R2) \cup R3)
  <2>1. ((H \cup R1) \cup R2) \cap R3 = {}
        BY <1>4, <1>5
  <2> QED BY <1>3, <1>7, <1>8, <1>11, <2>1
<1>13. Good((((a \o r1) \o r2) \o r3) \o own, (((H \cup R1) \cup R2) \cup R3) \cup S)
       BY <1>7, <1>9, <1>12
<1>14. ASSUME H \cap S = {} PROVE BoundFor((((a \o r1) \o r2) \o r3) \o own, (((H \cup R1) \cup R2) \cup R3) \cup S)
  <2>1. (((H \cup R1) \cup R2) \cup R3) \cap S = {}
        BY <1>4, <1>5, <1>14
  <2> QED BY <1>8, <1>9, <1>12, <2>1
<1> QED BY <1>6, <1>13, <1>14 DEF Good, a, r1, r2, r3, H

LEMMA HeldOnly ==
    ASSUME NEW file, NEW lines, NEW wrappers, HoldOnly(file.functions, lines, wrappers)
    PROVE  LinesOf(file) \subseteq lines /\ WrappersOf(file) \subseteq wrappers
<1>1. ASSUME NEW f \in ToSet(file.functions)
      PROVE  /\ f.lines \in Seq(lines)
             /\ \A r \in ToSet(f.returns) : r.wraps \in Seq(wrappers)
  <2>1. PICK i \in DOMAIN file.functions : f = file.functions[i]
        BY DEF ToSet
  <2>2. f.lines \in Seq(lines) /\ \A k \in DOMAIN f.returns : f.returns[k].wraps \in Seq(wrappers)
        BY <2>1 DEF HoldOnly
  <2> QED BY <2>2 DEF ToSet
<1>2. LinesOf(file) \subseteq lines
  <2>1. \A f \in ToSet(file.functions) : ToSet(f.lines) \subseteq lines
        BY <1>1, OwnElements
  <2> QED BY <2>1 DEF LinesOf
<1>3. WrappersOf(file) \subseteq wrappers
  <2>1. \A f \in ToSet(file.functions) : \A r \in ToSet(f.returns) : ToSet(r.wraps) \subseteq wrappers
        BY <1>1, OwnElements
  <2> QED BY <2>1 DEF WrappersOf
<1> QED BY <1>2, <1>3

\* An emitted file has nothing of the rewriter's.
LEMMA NothingAdded ==
    ASSUME NEW source, IsEmittedFile(source), NEW lines, NEW wrappers
    PROVE  /\ HoldOnly(source.functions, lines, wrappers)
           /\ source.metadata = <<>> /\ source.decorators = <<>>
           /\ {"imports", "functions", "metadata", "decorators", "calls", "reflects"} \subseteq DOMAIN source
<1> DEFINE file == File(source.name, source.format, source.imports, source.calls, source.functions)
<1>1. source = [file EXCEPT !.reflects = source.reflects]
      BY DEF IsEmittedFile
<1>2. /\ source.metadata = <<>> /\ source.decorators = <<>>
      /\ {"imports", "functions", "metadata", "decorators", "calls", "reflects"} \subseteq DOMAIN source
      BY <1>1 DEF File
<1>3. ASSUME NEW f \in ToSet(source.functions)
      PROVE  /\ {"lines", "returns", "async"} \subseteq DOMAIN f
             /\ f.lines \in Seq(lines)
             /\ \A k \in DOMAIN f.returns : "wraps" \in DOMAIN f.returns[k] /\ f.returns[k].wraps \in Seq(wrappers)
  <2>1. IsEmittedFunction(f)
        BY DEF IsEmittedFile
  <2>2. f = [Function(f.class, f.name, f.async, f.returns) EXCEPT !.simple = f.simple]
        BY <2>1 DEF IsEmittedFunction
  <2>3. {"lines", "returns", "async"} \subseteq DOMAIN f /\ f.lines = <<>>
        BY <2>2 DEF Function
  <2>4. <<>> \in Seq(lines) /\ <<>> \in Seq(wrappers)
        OBVIOUS
  <2>5. ASSUME NEW r \in ToSet(f.returns) PROVE "wraps" \in DOMAIN r /\ r.wraps = <<>>
    <3>1. r = Return(r.top, r.op)
          BY <2>1 DEF IsEmittedFunction
    <3> QED BY <3>1 DEF Return
  <2>6. \A k \in DOMAIN f.returns : f.returns[k] \in ToSet(f.returns)
        BY DEF ToSet
  <2> QED BY <2>3, <2>4, <2>5, <2>6
<1>4. \A i \in DOMAIN source.functions : source.functions[i] \in ToSet(source.functions)
      BY DEF ToSet
<1> QED BY <1>2, <1>3, <1>4 DEF HoldOnly

\* rewriteController, for a file that has nothing of the rewriter's yet.
LEMMA ControllerRewritten ==
    ASSUME KnownCompanions, NEW text,
           {"imports", "functions", "metadata", "decorators", "calls", "reflects"} \subseteq DOMAIN text,
           text.metadata = <<>>, text.decorators = <<>>,
           \A lines, wrappers : HoldOnly(text.functions, lines, wrappers),
           NEW controllers, IsSequence(controllers), RoutesHaveLists(RewrittenRoutes(controllers))
    PROVE  LET file == RewriteController(text, controllers, companions)
               routes == RewrittenRoutes(controllers)
               runtime(needed, name) == OneIf(needed, Import("@tsgonest/runtime", {name}))
           IN  /\ file.calls = text.calls
               /\ file.imports = CompanionImports(HandlerPairs(routes, companions), companions)
                                 \o runtime(Transforming(routes) # <<>>, SerializeInterceptor)
                                 \o runtime(Streaming(routes) # <<>>, SseInterceptor)
                                 \o runtime(Coercions(routes) # <<>>, ValidationError) \o text.imports
               /\ NamesOfHandlers(file) \subseteq HandlerNeeds(routes) \cup {Common}
<1> DEFINE file == RewriteController(text, controllers, companions)
           routes == RewrittenRoutes(controllers)
           checks == Validations(routes, companions)
           coerced == Coercions(routes)
           returns == ReturnTransforms(routes, companions)
           primitives == PrimitiveTransforms(routes)
           streams == SseTransforms(routes, companions)
           H == HandlerPairs(routes, companions)
           edits == (checks \o coerced) \o (returns \o primitives)
           use(needed, name) == IF needed THEN Interceptors(text, controllers, name) ELSE <<>>
           first == use(returns \o primitives # <<>>, SerializeInterceptor)
           second == use(streams # <<>>, SseInterceptor)
           runtime(needed, name) == OneIf(needed, Import("@tsgonest/runtime", {name}))
<1>1. /\ checks \in Seq(ToSet(checks)) /\ coerced \in Seq(ToSet(coerced)) /\ returns \in Seq(ToSet(returns))
      /\ primitives \in Seq(ToSet(primitives)) /\ streams \in Seq(ToSet(streams))
      /\ \A e \in ToSet(checks) : e.kind = "inject" /\ e.with.do = "assert"
      /\ \A e \in ToSet(coerced) : e.kind = "inject" /\ e.with.do # "assert"
      /\ \A e \in ToSet(returns) : e.kind = "wrap" /\ e.with.op \in {"stringify", "serialize"}
      /\ \A e \in ToSet(primitives) : e.kind = "wrap" /\ e.with.op = "primitive"
      BY ValidationsOfRoutes, CoercionsOfRoutes, ReturnTransformsOfRoutes, PrimitiveTransformsOfRoutes,
         SseTransformsOfRoutes DEF RoutesHaveLists, IsSequence
<1>2. /\ file.calls = text.calls
      /\ file.functions = ApplyEdits(text.functions, edits)
      /\ file.metadata = IF text.reflects THEN text.metadata ELSE text.metadata \o streams
      /\ file.decorators = (text.decorators \o first) \o second
      BY DEF RewriteController
<1>3. file.imports = CompanionImports(H, companions)
                     \o runtime(Transforming(routes) # <<>>, SerializeInterceptor)
                     \o runtime(Streaming(routes) # <<>>, SseInterceptor)
                     \o runtime(coerced # <<>>, ValidationError) \o text.imports
      BY DEF RewriteController, Transforming, Streaming
<1> HIDE DEF file, checks, coerced, returns, primitives, streams
<1>4. /\ edits \in Seq(ToSet(edits))
      /\ ToSet(edits) = (ToSet(checks) \cup ToSet(coerced)) \cup (ToSet(returns) \cup ToSet(primitives))
      /\ ToSet(returns \o primitives) = ToSet(returns) \cup ToSet(primitives)
  <2>1. checks \o coerced \in Seq(ToSet(checks \o coerced)) /\ ToSet(checks \o coerced) = ToSet(checks) \cup ToSet(coerced)
        BY <1>1, Appended
  <2>2. /\ returns \o primitives \in Seq(ToSet(returns \o primitives))
        /\ ToSet(returns \o primitives) = ToSet(returns) \cup ToSet(primitives)
        BY <1>1, Appended
  <2> DEFINE a == checks \o coerced
             b == returns \o primitives
  <2>3. a \in Seq(ToSet(a)) /\ b \in Seq(ToSet(b))
        BY <2>1, <2>2
  <2> HIDE DEF a, b
  <2>4. a \o b \in Seq(ToSet(a \o b)) /\ ToSet(a \o b) = ToSet(a) \cup ToSet(b)
        BY <2>3, Appended
  <2> QED BY <2>1, <2>2, <2>4 DEF a, b
<1> HIDE DEF edits
<1> DEFINE lines == {e.with : e \in ToSet(checks) \cup ToSet(coerced)}
           wrappers == {e.with : e \in ToSet(returns) \cup ToSet(primitives)}
           needs == HandlerNeeds(routes)
<1>5. LinesOf(file) \subseteq lines /\ WrappersOf(file) \subseteq wrappers
  <2>1. \A e \in ToSet(edits) : (e.kind = "inject" => e.with \in lines) /\ (e.kind # "inject" => e.with \in wrappers)
        BY <1>1, <1>4
  <2> HIDE DEF lines, wrappers
  <2>2. HoldOnly(file.functions, lines, wrappers)
        BY <1>2, <1>4, <2>1, EditsHold
  <2> QED BY <2>2, HeldOnly
<1>6. ToSet(<<>>) = {}
      BY DEF ToSet
<1>7. /\ NamesOfPairs(H) \subseteq needs
      /\ ToSet(returns \o primitives) # {} => SerializeInterceptor \in needs
      /\ ToSet(streams) # {} => SseInterceptor \in needs
      /\ ToSet(coerced) # {} => ValidationError \in needs
      BY <1>6 DEF HandlerNeeds, RuntimeNeeded, NeededIf, Transforming, Streaming, returns, primitives, streams, coerced
<1>8. ASSUME NEW k, NEW t, <<k, t>> \in H PROVE CompanionFunc(k, t) \in needs
  <2>1. <<k, t>>[1] = k /\ <<k, t>>[2] = t
        OBVIOUS
  <2> QED BY <1>7, <1>8, <2>1 DEF NamesOfPairs
<1>9. /\ \A v \in ToSet(checks) : <<"assert", v.with.type>> \in H
      /\ \A t \in ToSet(returns) : \A k \in {"stringify", "serialize"} : <<k, t.with.name>> \in H
      /\ \A x \in ToSet(streams) : \A e \in ToSet(x.entries) : \A k \in {"assert", "stringify"} : <<k, e.type>> \in H
  <2> DEFINE checked == {<<"assert", v.with.type>> : v \in ToSet(checks)}
             wrapped == UNION {{"stringify", "serialize"} \X {t.with.name} : t \in ToSet(returns)}
             sent(x) == UNION {{"assert", "stringify"} \X {e.type} : e \in ToSet(x.entries)}
             streamed == UNION {sent(x) : x \in ToSet(streams)}
  <2>1. H = checked \cup wrapped \cup streamed
        BY DEF HandlerPairs, checks, returns, streams
  <2>2. \A v \in ToSet(checks) : <<"assert", v.with.type>> \in checked
        OBVIOUS
  <2>3. \A t \in ToSet(returns) : \A k \in {"stringify", "serialize"} : <<k, t.with.name>> \in wrapped
        OBVIOUS
  <2>4. ASSUME NEW x \in ToSet(streams), NEW e \in ToSet(x.entries), NEW k \in {"assert", "stringify"}
        PROVE  <<k, e.type>> \in streamed
    <3>1. <<k, e.type>> \in sent(x)
          OBVIOUS
    <3> HIDE DEF sent
    <3> QED BY <3>1
  <2> HIDE DEF H, checked, wrapped, streamed
  <2> QED BY <2>1, <2>2, <2>3, <2>4
<1> HIDE DEF H, needs
<1>10. ASSUME NEW l \in LinesOf(file) PROVE NameOfLine(l) \in needs
  <2>1. PICK e \in ToSet(checks) \cup ToSet(coerced) : l = e.with
        BY <1>5
  <2>2. CASE e \in ToSet(checks)
        BY <1>1, <1>8, <1>9, <2>1, <2>2 DEF NameOfLine
  <2>3. CASE e \in ToSet(coerced)
        BY <1>1, <1>7, <2>1, <2>3 DEF NameOfLine
  <2> QED BY <2>2, <2>3
<1>11. ASSUME NEW w \in WrappersOf(file), w.op # "primitive" PROVE CompanionFunc(w.op, w.name) \in needs
  <2>1. PICK e \in ToSet(returns) \cup ToSet(primitives) : w = e.with
        BY <1>5
  <2>2. e \in ToSet(returns) /\ w.op \in {"stringify", "serialize"}
        BY <1>1, <1>11, <2>1
  <2> QED BY <1>8, <1>9, <2>1, <2>2
<1>12. ASSUME NEW e \in EventsOf(file), NEW k \in {"assert", "stringify"} PROVE CompanionFunc(k, e.type) \in needs
  <2>1. PICK x \in ToSet(file.metadata) : e \in ToSet(x.entries)
        BY DEF EventsOf
  <2>2. <<>> \o streams = streams
        BY <1>1
  <2>3. x \in ToSet(streams)
        BY <1>2, <1>6, <2>1, <2>2
  <2> QED BY <1>8, <1>9, <2>1, <2>3
<1>13. ASSUME NEW d \in ToSet(file.decorators) PROVE d.name \in needs /\ d.via = Common
  <2>1. ASSUME NEW needed \in BOOLEAN, NEW name
        PROVE  /\ use(needed, name) \in Seq(ToSet(use(needed, name)))
               /\ \A x \in ToSet(use(needed, name)) : needed /\ x.name = name /\ x.via = Common
    <3>1. CASE needed
          BY <3>1, InterceptorsOfControllers DEF IsSequence
    <3>2. CASE ~needed
          BY <1>6, <3>2
    <3> QED BY <3>1, <3>2
  <2>2. /\ (returns \o primitives # <<>>) \in BOOLEAN /\ (streams # <<>>) \in BOOLEAN
        OBVIOUS
  <2> HIDE DEF use
  <2>3. /\ first \in Seq(ToSet(first)) /\ \A x \in ToSet(first) : returns \o primitives # <<>> /\ x.name = SerializeInterceptor /\ x.via = Common
        BY <2>1, <2>2
  <2>4. /\ second \in Seq(ToSet(second)) /\ \A x \in ToSet(second) : streams # <<>> /\ x.name = SseInterceptor /\ x.via = Common
        BY <2>1, <2>2
  <2> HIDE DEF first, second
  <2>5. file.decorators = first \o second
        BY <1>2, <2>3
  <2>6. d \in ToSet(first) \/ d \in ToSet(second)
    <3>1. ToSet(first \o second) = ToSet(first) \cup ToSet(second)
          BY <2>3, <2>4, Appended
    <3> QED BY <2>5, <3>1
  <2>7. \A s : s \in Seq(ToSet(s)) /\ s # <<>> => ToSet(s) # {}
        BY HeadAndTail
  <2>8. returns \o primitives \in Seq(ToSet(returns \o primitives))
        BY <1>1, Appended
  <2> QED BY <1>1, <1>7, <2>3, <2>4, <2>6, <2>7, <2>8
<1>14. NamesOfHandlers(file) \subseteq needs \cup {Common}
       BY <1>10, <1>11, <1>12, <1>13 DEF NamesOfHandlers
<1> QED BY <1>2, <1>3, <1>14 DEF file, needs, H, coerced

-----------------------------------------------------------------------------
(* The names of a written file are bound.                                  *)

\* CallsBound, of one file.
FileBound(source, file) ==
    /\ \A i \in DOMAIN source.calls :
          LET c == source.calls[i]
          IN  IF c.marker = "" THEN file.calls[i] = c
              ELSE file.calls[i].text = CompanionFunc(c.marker, c.type)
    /\ \A n \in (NamesOfCalls(file) \cup NamesOfHandlers(file)) \ {Common} :
          /\ Bindings(file, n) # {}
          /\ ImportsApart(source) => BoundOnce(file, n)
    /\ \A i \in DOMAIN file.imports : \A t \in DOMAIN companions :
          (\E k \in Markers : CompanionFunc(k, t) \in file.imports[i].names) => file.imports[i].from = companions[t]

LEMMA RoutesOfProgramFile ==
    ASSUME IsProgram(program), NEW name
    PROVE  LET mine == ControllersOf(name, Controllers)
           IN  IsSequence(mine) /\ RoutesHaveLists(RewrittenRoutes(mine))
<1> DEFINE mine == ControllersOf(name, Controllers)
<1>1. /\ program.classes \in Seq(ToSet(program.classes)) /\ \A cls \in ToSet(program.classes) : IsClass(cls)
      BY DEF IsProgram, IsSequence
<1>2. IsSequence(Controllers) /\ \A c \in ToSet(Controllers) : \E cls \in ToSet(program.classes) : FromClass(c, cls)
      BY <1>1, ControllersOfProgram DEF Controllers
<1>3. ASSUME NEW c \in ToSet(Controllers) PROVE HasLists(c)
  <2>1. PICK cls \in ToSet(program.classes) : FromClass(c, cls)
        BY <1>2
  <2>2. ASSUME NEW r \in ToSet(c.routes) PROVE IsSequence(r.params) /\ IsSequence(r.variants)
        BY <2>1 DEF FromClass, FromMethod
  <2> QED BY <2>1, <2>2 DEF FromClass, HasLists
<1>4. IsSequence(mine) /\ \A c \in ToSet(mine) : HasLists(c)
      BY <1>2, <1>3, ControllersOfFile
<1> HIDE DEF mine
<1>5. RoutesHaveLists(RewrittenRoutes(mine))
      BY <1>4, RoutesOfFile DEF RoutesHaveLists
<1> QED BY <1>4, <1>5 DEF mine

CallsFollow(source, calls) ==
    /\ DOMAIN calls = DOMAIN source.calls
    /\ \A i \in DOMAIN source.calls :
          calls[i] = IF source.calls[i].marker = "" THEN source.calls[i] ELSE Redirected(source.calls[i])

CallsNamed(source, file) ==
    /\ NamesOfCalls(file) \subseteq NamesOfPairs(MarkerPairs(source.calls))
    /\ \A i \in DOMAIN source.calls : source.calls[i].marker # "" =>
          file.calls[i].text = CompanionFunc(source.calls[i].marker, source.calls[i].type)

LEMMA CallNames ==
    ASSUME NEW source, IsEmittedFile(source), CallsClear(source), KnownCompanions, NEW file,
           CallsFollow(source, file.calls)
    PROVE  CallsNamed(source, file)
<1> USE DEF CallsFollow
<1>1. ASSUME NEW i \in DOMAIN source.calls, source.calls[i].marker # ""
      PROVE  /\ file.calls[i].text = CompanionFunc(source.calls[i].marker, source.calls[i].type)
             /\ file.calls[i].marker = source.calls[i].marker
  <2> DEFINE c == source.calls[i]
  <2>1. c = Call(c.text, c.marker, c.type)
    <3>1. c \in ToSet(source.calls)
          BY DEF ToSet
    <3> QED BY <3>1 DEF IsEmittedFile
  <2>2. file.calls[i] = Redirected(c)
        BY <1>1
  <2> HIDE DEF c
  <2>3. {"text", "marker"} \subseteq DOMAIN c
        BY <2>1 DEF Call
  <2>4. Redirected(c).text = CompanionFunc(c.marker, c.type) /\ Redirected(c).marker = c.marker
        BY <2>3 DEF Redirected
  <2> QED BY <2>2, <2>4 DEF c
<1>2. ASSUME NEW d \in ToSet(file.calls), d.marker # ""
      PROVE  d.text \in NamesOfPairs(MarkerPairs(source.calls))
  <2>1. PICK i \in DOMAIN source.calls : d = file.calls[i]
        BY DEF ToSet
  <2> DEFINE c == source.calls[i]
  <2>2. c.marker # ""
        BY <1>2, <2>1
  <2>3. d.text = CompanionFunc(c.marker, c.type)
        BY <1>1, <2>1, <2>2
  <2>4. <<c.marker, c.type>> \in MarkerPairs(source.calls)
        BY <2>2, MarkerCallsRedirected DEF KnownCompanions
  <2> HIDE DEF c
  <2>5. <<c.marker, c.type>>[1] = c.marker /\ <<c.marker, c.type>>[2] = c.type
        OBVIOUS
  <2> QED BY <2>3, <2>4, <2>5 DEF NamesOfPairs
<1> QED BY <1>1, <1>2 DEF NamesOfCalls, CallsNamed

\* Names that some import binds, names that one binds, and companions.
LEMMA BoundFile ==
    ASSUME NEW source, NEW file, NEW S, BoundSome(file.imports, S), FromTheirs(file.imports), S \subseteq GeneratedNames,
           ImportsApart(source) => BoundFor(file.imports, S),
           NamesOfCalls(file) \cup NamesOfHandlers(file) \subseteq S \cup {Common},
           \A i \in DOMAIN source.calls :
              IF source.calls[i].marker = "" THEN file.calls[i] = source.calls[i]
              ELSE file.calls[i].text = CompanionFunc(source.calls[i].marker, source.calls[i].type)
    PROVE  FileBound(source, file)
<1>1. ASSUME NEW n \in S
      PROVE  /\ Bindings(file, n) # {}
             /\ ImportsApart(source) => BoundOnce(file, n)
  <2>1. Bindings(file, n) = Binding(file.imports, n)
        BY DEF Bindings, Binding
  <2>2. Binding(file.imports, n) # {}
        BY DEF BoundSome, BindsNone
  <2>3. ASSUME ImportsApart(source) PROVE Cardinality(Binding(file.imports, n)) = 1
    <3>1. BindsOnce(file.imports, n)
          BY <2>3 DEF BoundFor
    <3> QED BY <3>1, BindsOneOf
  <2> QED BY <2>1, <2>2, <2>3 DEF BoundOnce
<1>2. \A i \in DOMAIN file.imports : file.imports[i] \in ToSet(file.imports)
      BY DEF ToSet
<1>3. \A i \in DOMAIN file.imports : \A t \in DOMAIN companions :
         (\E k \in Markers : CompanionFunc(k, t) \in file.imports[i].names) => file.imports[i].from = companions[t]
      BY <1>2 DEF FromTheirs
<1>4. \A n \in (NamesOfCalls(file) \cup NamesOfHandlers(file)) \ {Common} :
         Bindings(file, n) # {} /\ (ImportsApart(source) => BoundOnce(file, n))
      BY <1>1
<1> QED BY <1>3, <1>4 DEF FileBound

LEMMA GeneratedOnes ==
    ASSUME NEW pairs, pairs \subseteq Markers \X DOMAIN companions
    PROVE  NamesOfPairs(pairs) \subseteq NamesOfPairs(Markers \X DOMAIN companions) /\ NamesOfPairs(pairs) \subseteq GeneratedNames
<1>1. NamesOfPairs(pairs) \subseteq NamesOfPairs(Markers \X DOMAIN companions)
      BY DEF NamesOfPairs
<1>2. ASSUME NEW p \in pairs PROVE CompanionFunc(p[1], p[2]) \in GeneratedNames
  <2>1. p[1] \in Markers /\ p[2] \in DOMAIN companions
        OBVIOUS
  <2> QED BY <2>1 DEF GeneratedNames
<1> QED BY <1>1, <1>2 DEF NamesOfPairs

LEMMA PairsApart ==
    ASSUME KnownCompanions, NEW P, NEW Q, P \subseteq Markers \X DOMAIN companions, Q \subseteq Markers \X DOMAIN companions,
           P \cap Q = {}
    PROVE  NamesOfPairs(P) \cap NamesOfPairs(Q) = {}
<1>1. ASSUME NEW p \in P, NEW q \in Q, CompanionFunc(p[1], p[2]) = CompanionFunc(q[1], q[2]) PROVE FALSE
  <2>1. /\ p[1] \in Markers /\ p[2] \in TypeNames /\ p = <<p[1], p[2]>>
        /\ q[1] \in Markers /\ q[2] \in TypeNames /\ q = <<q[1], q[2]>>
        BY DEF KnownCompanions
  <2>2. p[1] = q[1] /\ p[2] = q[2]
        BY <1>1, <2>1, FunctionTells
  <2>3. p = q
        BY <2>1, <2>2
  <2> QED BY <2>3
<1> QED BY <1>1 DEF NamesOfPairs

LEMMA WrittenFileIsBound ==
    ASSUME IsProgram(program), KnownCompanions, NEW source \in Sources, CallsClear(source)
    PROVE  FileBound(source, WriteFile(source, Controllers, companions))
<1> DEFINE mine == ControllersOf(source.name, Controllers)
           text == RewriteMarkers(source, companions)
           file == WriteFile(source, Controllers, companions)
           routes == RewrittenRoutes(mine)
           M == MarkerPairs(source.calls)
           H == HandlerPairs(routes, companions)
<1>1. IsEmittedFile(source)
      BY DEF IsProgram, Sources
<1>2. /\ text = [source EXCEPT !.imports = text.imports, !.calls = text.calls]
      /\ text.imports \in Seq(ToSet(text.imports))
      /\ BoundFor(text.imports, NamesOfPairs(M)) /\ BoundSome(text.imports, NamesOfPairs(M))
      /\ FromTheirs(text.imports)
      /\ DOMAIN text.calls = DOMAIN source.calls
      /\ \A i \in DOMAIN source.calls :
            text.calls[i] = IF source.calls[i].marker = "" THEN source.calls[i] ELSE Redirected(source.calls[i])
      BY <1>1, MarkersRewritten
<1>3. IsSequence(mine) /\ RoutesHaveLists(routes)
      BY RoutesOfProgramFile
<1>4. M \subseteq Markers \X DOMAIN companions
      BY <1>1, MarkerCallsRedirected DEF KnownCompanions
<1>5. H \subseteq Markers \X DOMAIN companions
      BY <1>3, PairsOfHandlers
<1>6. /\ \A lines, wrappers : HoldOnly(source.functions, lines, wrappers)
      /\ source.metadata = <<>> /\ source.decorators = <<>>
      /\ {"imports", "functions", "metadata", "decorators", "calls", "reflects"} \subseteq DOMAIN source
      BY <1>1, NothingAdded
<1>7. file = IF mine = <<>> THEN text ELSE RewriteController(text, mine, companions)
      BY DEF WriteFile
<1>8. ImportsApart(source) => NamesOfPairs(H) \cap NamesOfPairs(M) = {}
  <2>1. ImportsApart(source) => H \cap M = {}
        BY DEF ImportsApart
  <2> QED BY <1>4, <1>5, <2>1, PairsApart
<1> HIDE DEF mine, text, file, routes, M, H
<1>9. /\ text.functions = source.functions /\ text.metadata = <<>> /\ text.decorators = <<>>
      /\ {"imports", "functions", "metadata", "decorators", "calls", "reflects"} \subseteq DOMAIN text
  <2>1. text.functions = source.functions
        BY <1>2, <1>6
  <2>2. text.metadata = <<>> /\ text.decorators = <<>>
        BY <1>2, <1>6
  <2>3. DOMAIN text = DOMAIN source
        BY <1>2
  <2> QED BY <1>6, <2>1, <2>2, <2>3
<1>10. CASE mine = <<>>
  <2>1. file = text
        BY <1>7, <1>10
  <2>2. NamesOfCalls(file) \subseteq NamesOfPairs(M) /\ \A i \in DOMAIN source.calls : source.calls[i].marker # "" =>
           file.calls[i].text = CompanionFunc(source.calls[i].marker, source.calls[i].type)
    <3>1. CallsFollow(source, file.calls)
          BY <1>2, <2>1 DEF CallsFollow
    <3>2. CallsNamed(source, file)
          BY <1>1, <3>1, CallNames
    <3> QED BY <3>2 DEF CallsNamed, M
  <2>3. NamesOfHandlers(file) = {}
    <3> DEFINE none == {}
    <3>1. HoldOnly(file.functions, none, none)
          BY <1>6, <1>9, <2>1
    <3>2. LinesOf(file) \subseteq {} /\ WrappersOf(file) \subseteq {}
      <4> HIDE DEF none
      <4>1. LinesOf(file) \subseteq none /\ WrappersOf(file) \subseteq none
            BY <3>1, HeldOnly
      <4> QED BY <4>1 DEF none
    <3>3. ToSet(<<>>) = {}
          BY DEF ToSet
    <3>4. EventsOf(file) = {} /\ ToSet(file.decorators) = {}
          BY <1>9, <2>1, <3>3 DEF EventsOf
    <3> QED BY <3>2, <3>4 DEF NamesOfHandlers
  <2>4. NamesOfPairs(M) \subseteq GeneratedNames
        BY <1>4, GeneratedOnes
  <2>5. NamesOfCalls(file) \cup NamesOfHandlers(file) \subseteq NamesOfPairs(M) \cup {Common}
        BY <2>2, <2>3
  <2>6. \A i \in DOMAIN source.calls : IF source.calls[i].marker = "" THEN file.calls[i] = source.calls[i]
           ELSE file.calls[i].text = CompanionFunc(source.calls[i].marker, source.calls[i].type)
        BY <1>2, <2>1, <2>2
  <2>7. BoundSome(file.imports, NamesOfPairs(M)) /\ BoundFor(file.imports, NamesOfPairs(M)) /\ FromTheirs(file.imports)
        BY <1>2, <2>1
  <2> QED BY <2>4, <2>5, <2>6, <2>7, BoundFile DEF file
<1>11. CASE mine # <<>>
  <2> DEFINE runtime(needed, name) == OneIf(needed, Import("@tsgonest/runtime", {name}))
             imports == CompanionImports(H, companions)
                        \o runtime(Transforming(routes) # <<>>, SerializeInterceptor)
                        \o runtime(Streaming(routes) # <<>>, SseInterceptor)
                        \o runtime(Coercions(routes) # <<>>, ValidationError) \o text.imports
             S == HandlerNeeds(routes) \cup NamesOfPairs(M)
  <2>1. file = RewriteController(text, mine, companions)
        BY <1>7, <1>11
  <2>2. /\ file.calls = text.calls
        /\ file.imports = imports
        /\ NamesOfHandlers(file) \subseteq HandlerNeeds(routes) \cup {Common}
    <3>1. \A lines, wrappers : HoldOnly(text.functions, lines, wrappers)
          BY <1>6, <1>9
    <3>2. RoutesHaveLists(RewrittenRoutes(mine))
          BY <1>3 DEF routes
    <3> QED BY <1>3, <1>9, <2>1, <3>1, <3>2, ControllerRewritten DEF routes, H
  <2>3. NamesOfPairs(M) \subseteq NamesOfPairs(Markers \X DOMAIN companions) /\ NamesOfPairs(M) \subseteq GeneratedNames
        BY <1>4, GeneratedOnes
  <2>4. /\ FromTheirs(imports)
        /\ BoundSome(imports, S)
        /\ NamesOfPairs(H) \cap NamesOfPairs(M) = {} => BoundFor(imports, S)
        BY <1>2, <1>3, <2>3, HandlerImports DEF H
  <2> HIDE DEF imports
  <2>5. NamesOfCalls(file) \subseteq NamesOfPairs(M) /\ \A i \in DOMAIN source.calls : source.calls[i].marker # "" =>
           file.calls[i].text = CompanionFunc(source.calls[i].marker, source.calls[i].type)
    <3>1. CallsFollow(source, file.calls)
          BY <1>2, <2>2 DEF CallsFollow
    <3>2. CallsNamed(source, file)
          BY <1>1, <3>1, CallNames
    <3> QED BY <3>2 DEF CallsNamed, M
  <2>6. S \subseteq GeneratedNames
    <3>1. NamesOfPairs(H) \subseteq GeneratedNames
          BY <1>5, GeneratedOnes
    <3>2. RuntimeNeeded(routes) \subseteq RuntimeNames
          BY DEF RuntimeNeeded, RuntimeNames, NeededIf
    <3>3. RuntimeNames \subseteq GeneratedNames
          BY DEF GeneratedNames
    <3> QED BY <2>3, <3>1, <3>2, <3>3 DEF HandlerNeeds, H
  <2>7. NamesOfCalls(file) \cup NamesOfHandlers(file) \subseteq S \cup {Common}
        BY <2>2, <2>5
  <2> HIDE DEF S
  <2>8. \A i \in DOMAIN source.calls : IF source.calls[i].marker = "" THEN file.calls[i] = source.calls[i]
           ELSE file.calls[i].text = CompanionFunc(source.calls[i].marker, source.calls[i].type)
        BY <1>2, <2>2, <2>5
  <2> QED BY <1>8, <2>2, <2>4, <2>6, <2>7, <2>8, BoundFile DEF file
<1> QED BY <1>10, <1>11 DEF file

\* A file that is written is what WriteFile makes of it with the one map of
\* companions: the map is there before the first is, and does not change.
EmittedInv ==
    /\ program \in Programs
    /\ KnownCompanions
    /\ phase = "map" => DOMAIN emitted = {}
    /\ \A source \in Sources : source.name \in DOMAIN emitted =>
          emitted[source.name] = WriteFile(source, Controllers, companions)

LEMMA MapOfCompanions ==
    ASSUME program \in Programs, NEW order \in Orders(DOMAIN program.typesByFile), NEW map,
           map = CompanionMap(program.typesByFile, order)
    PROVE  IsFiniteSet(DOMAIN map) /\ DOMAIN map \subseteq TypeNames
<1> DEFINE all == UNION {program.typesByFile[f] : f \in DOMAIN program.typesByFile}
<1>1. IsFiniteSet(all)
      BY ProgramsAssumption DEF IsProgram
<1>2. all \subseteq TypeNames
      BY DEF TypeNames
<1>3. ToSet(order) \subseteq DOMAIN program.typesByFile
      BY DEF Orders, ToSet
<1>4. DOMAIN map = UNION {program.typesByFile[f] : f \in ToSet(order)}
      BY DEF CompanionMap
<1>5. DOMAIN map \subseteq all
      BY <1>3, <1>4
<1> HIDE DEF all
<1> QED BY <1>1, <1>2, <1>5, FS_Subset

LEMMA EmittedInitially == OutlineInit => EmittedInv
<1> SUFFICES ASSUME OutlineInit PROVE EmittedInv
    OBVIOUS
<1>1. DOMAIN <<>> = {} /\ IsFiniteSet({})
      BY FS_EmptySet
<1>2. program \in Programs /\ DOMAIN companions = {} /\ DOMAIN emitted = {}
      BY <1>1 DEF OutlineInit
<1> QED BY <1>1, <1>2 DEF EmittedInv, KnownCompanions

LEMMA EmittedKept == EmittedInv /\ [OutlineNext]_outline => EmittedInv'
<1> SUFFICES ASSUME EmittedInv, [OutlineNext]_outline PROVE EmittedInv'
    OBVIOUS
<1>1. CASE BuildCompanionMap
  <2>1. program' = program /\ emitted' = emitted /\ phase = "map"
        BY <1>1 DEF BuildCompanionMap
  <2>2. PICK order \in Orders(DOMAIN program.typesByFile) : companions' = CompanionMap(program.typesByFile, order)
        BY <1>1 DEF BuildCompanionMap
  <2>3. IsFiniteSet(DOMAIN companions') /\ DOMAIN companions' \subseteq TypeNames
        BY <2>2, MapOfCompanions DEF EmittedInv
  <2>4. DOMAIN emitted' = {}
        BY <2>1 DEF EmittedInv
  <2> QED BY <2>1, <2>3, <2>4 DEF EmittedInv, KnownCompanions
<1>2. ASSUME NEW file \in Sources, EmitFile(file) PROVE EmittedInv'
  <2>1. /\ program' = program /\ companions' = companions /\ phase' = phase /\ phase = "emit"
        /\ emitted' = Put(emitted, file.name, WriteFile(file, Controllers, companions))
        BY <1>2 DEF EmitFile
  <2>2. /\ DOMAIN emitted' = DOMAIN emitted \cup {file.name}
        /\ emitted'[file.name] = WriteFile(file, Controllers, companions)
        /\ \A n \in DOMAIN emitted \ {file.name} : emitted'[n] = emitted[n]
        BY <2>1 DEF Put
  <2>3. ASSUME NEW source \in Sources, source.name = file.name PROVE source = file
    <3>1. \A i, j \in DOMAIN program.files : program.files[i].name = program.files[j].name => i = j
          BY ProgramsAssumption DEF EmittedInv, IsProgram
    <3> QED BY <2>3, <3>1 DEF Sources, ToSet
  <2>4. ASSUME NEW source \in Sources, source.name \in DOMAIN emitted'
        PROVE  emitted'[source.name] = WriteFile(source, Controllers, companions)
    <3>1. CASE source.name = file.name
          BY <2>2, <2>3, <3>1
    <3>2. CASE source.name # file.name
          BY <2>2, <2>4, <3>2 DEF EmittedInv
    <3> QED BY <3>1, <3>2
  <2>5. Sources' = Sources /\ Controllers' = Controllers
        BY <2>1 DEF Sources, Controllers
  <2>6. phase' # "map"
        BY <2>1
  <2> QED BY <2>1, <2>4, <2>5, <2>6 DEF EmittedInv, KnownCompanions
<1>3. ASSUME program' = program, companions' = companions, emitted' = emitted, phase' # "map" \/ phase' = phase
      PROVE  EmittedInv'
  <2>1. Sources' = Sources /\ Controllers' = Controllers
        BY <1>3 DEF Sources, Controllers
  <2> QED BY <1>3, <2>1 DEF EmittedInv, KnownCompanions
<1>4. CASE StartDocument
      BY <1>3, <1>4 DEF StartDocument
<1>5. CASE DocumentRoute
      BY <1>3, <1>5 DEF DocumentRoute
<1>6. CASE EndDocument
      BY <1>3, <1>6 DEF EndDocument
<1>7. ASSUME NEW slot \in DOMAIN slots, ParseSlot(slot) PROVE EmittedInv'
      BY <1>3, <1>7 DEF ParseSlot
<1>8. CASE WriteMethods
      BY <1>3, <1>8 DEF WriteMethods
<1>9. CASE UNCHANGED outline
      BY <1>3, <1>9 DEF outline
<1> QED BY <1>1, <1>2, <1>4, <1>5, <1>6, <1>7, <1>8, <1>9 DEF OutlineNext

LEMMA BoundIfEmitted == EmittedInv => CallsBound
<1> SUFFICES ASSUME EmittedInv, NEW source \in Sources, source.name \in DOMAIN emitted, CallsClear(source)
             PROVE  FileBound(source, emitted[source.name])
    BY DEF CallsBound, FileBound
<1>1. emitted[source.name] = WriteFile(source, Controllers, companions) /\ KnownCompanions /\ IsProgram(program)
      BY ProgramsAssumption DEF EmittedInv
<1> QED BY <1>1, WrittenFileIsBound

\* The companions that a file is written with stay those of the map.
THEOREM EmittedOnce == OutlineSpec => []EmittedInv
BY EmittedInitially, EmittedKept, PTL DEF OutlineSpec

\* CallsBound (rewriteFile, rewriteController, companionImports): whatever the order
\* in which files are emitted and types are visited, a written file calls the
\* companion of its own type and every name it uses is bound, and bound once, but
\* for the variable common_1 of an injected interceptor (Common).
THEOREM CallsAreBound == OutlineSpec => []CallsBound
BY EmittedOnce, BoundIfEmitted, PTL

=============================================================================
