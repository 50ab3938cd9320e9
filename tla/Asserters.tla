------------------------------ MODULE Asserters ------------------------------
(***************************************************************************)
(* `assert<Name>` (internal/codegen/validate_assert.go), the function that *)
(* the rewriter puts on @Body, @Query and @Param.  It throws on the first  *)
(* error.  A result is the value with transforms and coercions applied and *)
(* a verdict: "ok", "rejected" (a TsgonestValidationError), "throws" (a    *)
(* ReferenceError) or "overflow" (of the stack).  Nobody uses the value    *)
(* after a throw.  The levels of nesting are those of Nesting.             *)
(***************************************************************************)
EXTENDS Nesting

\* Transforms and coercions stay among the values.
ASSUME PreparedAssumption ==
    \A t \in AllTypes : t.kind = "object" =>
        \A i \in DOMAIN t.props : Prepares(t.props[i]) =>
            \A x \in AllValues : Prepared(t.props[i], x) \in AllValues

AssertKinds  == {"minimum", "maximum", "minLength", "maxLength"} \cup RegexKinds
AssertDegree == Degree(AssertKinds, FALSE, TRUE)

\* The code of assert has nothing for any other constraint, for @strict and
\* for index signatures.  Texts that the transforms have made are not
\* transformed again, and an element that a tuple has not is undefined.
Settled(p) ==
    \/ p.transforms = <<>>
    \/ /\ p.type.kind = "atomic"
       /\ \A x \in AllValues : \A i \in DOMAIN p.transforms :
            Transform(p.transforms[i], Prepared(p, x)) = Prepared(p, x)
RefusesUndefined(t) ==
    /\ ~t.optional
    /\ \/ t.kind \in {"object", "array", "tuple", "native"}
       \/ t.kind = "atomic" /\ t.atomic \in {"string", "number", "boolean", "bigint"}
IsPartlyAsserted(t) ==
    \/ t.kind = "object" /\ (t.strictness = "strict" \/ t.index # <<>>)
    \/ t.kind = "object" /\ \E i \in DOMAIN t.props :
            ~Settled(t.props[i]) \/ \E c \in t.props[i].checks : c.kind \notin AssertKinds
    \/ t.kind = "tuple" /\ \E i \in DOMAIN t.elems :
            ~t.elems[i].rest /\ ~t.elems[i].optional /\ ~RefusesUndefined(t.elems[i].type)
HasPartlyAsserted(name) == \E t \in met[Stack][Registry[name]] : IsPartlyAsserted(t)
\* How much assert<Name> makes sure of.
AssertedDegree(name) == IF HasPartlyAsserted(name) THEN AssertDegree ELSE Full

Result(v, verdict) == [v |-> v, verdict |-> verdict]
Expect(b, v) == Result(v, IF b THEN "ok" ELSE "rejected")
\* The results of the parts of v, in the order of the checks.
InTurn(v, rs) == Result(v, InOrder([i \in DOMAIN rs |-> rs[i].verdict], "ok"))

(***************************************************************************)
(* The rules.  f[t][v][cx] is the result, one level further down, of the   *)
(* checks for the type t, its flags aside, written in the context cx.      *)
(***************************************************************************)
AssertType(f, t, v, cx) == IF Admits(t, v) THEN Result(v, "ok") ELSE f[t][v][cx]

\* Transforms and coercion come first here, before the type check.
AssertProp(f, p, v, cx) ==
    LET x == Get(v, p.name)
        r == AssertType(f, p.type, Prepared(p, x), cx)
        meets == \A c \in p.checks : c.kind \in AssertKinds => Guarded(c, r.v)
    IN  CASE MustBePresent(p) /\ x = Undef             -> Result(x, "rejected")
          [] ~MustBePresent(p) /\ p.exact /\ x = Undef -> Expect(p.name \notin Keys(v), x)
          [] ~MustBePresent(p) /\ ~p.exact /\ x = Undef -> r
          [] OTHER -> IF r.verdict = "ok" THEN Expect(meets, r.v) ELSE r

AssertObject(f, t, v, cx) ==
    LET r == [i \in DOMAIN t.props |-> AssertProp(f, t.props[i], v, cx)]
        after == [k \in PropNames(t) |->
                    r[CHOOSE i \in DOMAIN t.props : t.props[i].name = k].v]
    IN  InTurn(Assign(v, after), r)

AssertArray(f, t, v, cx) ==
    LET r == [i \in DOMAIN v.e |-> AssertType(f, t.elem, v.e[i], cx)]
    IN  InTurn(Arr([i \in DOMAIN v.e |-> r[i].v]), r)

AssertElem(f, el, i, v, cx) ==
    LET x == IF i <= Len(v.e) THEN v.e[i] ELSE Undef
    IN  IF el.rest \/ (el.optional /\ i > Len(v.e)) THEN Result(x, "ok") ELSE AssertType(f, el.type, x, cx)
AssertTuple(f, t, v, cx) ==
    LET r == [i \in DOMAIN t.elems |-> AssertElem(f, t.elems[i], i, v, cx)]
    IN  InTurn(Arr([i \in DOMAIN v.e |-> IF i \in DOMAIN r THEN r[i].v ELSE v.e[i]]), r)

\* Mutant: a type whose code is being written is taken as checked.
MutantAssertRef(f, t, v, cx) ==
    IF t.ref \in DOMAIN Registry \ cx.generating
    THEN AssertType(f, Registry[t.ref], v, Into(cx, t.ref)) ELSE Result(v, "ok")
AssertRef(f, t, v, cx) ==
    CASE t.ref \in cx.generating /\ t.ref = cx.root -> AssertType(f, Registry[t.ref], v, Context(t.ref))
      [] t.ref \in cx.generating /\ t.ref # cx.root -> Result(v, "throws")
      [] t.ref \in DOMAIN Registry \ cx.generating  -> AssertType(f, Registry[t.ref], v, Into(cx, t.ref))
      [] OTHER                                      -> Result(v, "ok")

\* A union of anything but literals is not checked: the code that should
\* hand it to validate is a comment.
AssertUnion(t, v) ==
    Expect(AllLiterals(t.members) => \E i \in DOMAIN t.members : v = t.members[i].value, v)

\* The members one after the other, each on what the one before has left.
AssertMembers(f, members, v, cx) ==
    LET after[i \in 0 .. Len(members)] ==
            IF i = 0 THEN Result(v, "ok")
            ELSE IF after[i - 1].verdict = "ok" THEN f[members[i]][after[i - 1].v][cx] ELSE after[i - 1]
    IN  after[Len(members)]

AssertInner(f, t, v, cx) ==
    CASE t.kind = "atomic"  ->
            Expect(IsOfAtomic(t.atomic, v) /\ (t.template # {} => v.s \in t.template), v)
      [] t.kind = "literal" -> Expect(v = t.value, v)
      [] t.kind = "enum"    -> Expect(v \in t.values, v)
      [] t.kind = "native"  -> Expect(v.tag = "date", v)
      [] t.kind = "object"  ->
            IF IsObject(v) THEN AssertObject(f, t, v, cx) ELSE Result(v, "rejected")
      [] t.kind = "array"   ->
            IF v.tag = "array" THEN AssertArray(f, t, v, cx) ELSE Result(v, "rejected")
      [] t.kind = "tuple"   ->
            IF v.tag = "array" THEN AssertTuple(f, t, v, cx) ELSE Result(v, "rejected")
      [] t.kind = "union"   -> AssertUnion(t, v)
      [] t.kind = "ref"     -> AssertRef(f, t, v, cx)
      [] t.kind = "intersection" -> AssertMembers(f, t.members, v, cx)
      [] t.kind = "never" -> Result(v, "rejected")
      [] t.kind = "void"  -> Expect(v = Undef, v)
      [] OTHER            -> Result(v, "ok")

asserter[n \in 0 .. Stack] ==
    [t \in AllTypes |-> [v \in AllValues |-> [cx \in Contexts |->
        IF n = 0 THEN Result(v, "overflow") ELSE AssertInner(asserter[n - 1], t, v, cx)]]]

AssertFunction(name, v) == AssertType(asserter[Stack], Registry[name], v, Context(name))

=============================================================================
