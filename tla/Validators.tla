----------------------------- MODULE Validators -----------------------------
(***************************************************************************)
(* `validate<Name>` (internal/codegen/validate.go and                      *)
(* validate_constraints.go).  The function changes its input in place:     *)
(* defaults, transforms, coercions, stripped properties.  A result is      *)
(*   v       the value afterwards,                                         *)
(*   bad     whether an error was pushed onto `errors` (how many, and what *)
(*           they say, is left out: the code only compares the length with *)
(*           an earlier one),                                              *)
(*   thrown  whether a TypeError or ReferenceError got out.                *)
(* Checks of different properties and elements touch different places, so  *)
(* their order matters only after a throw, when v has no further use.      *)
(***************************************************************************)
EXTENDS References

Ok(v)      == [v |-> v, bad |-> FALSE, thrown |-> FALSE]
Bad(v)     == [v |-> v, bad |-> TRUE,  thrown |-> FALSE]
Test(b, v) == [v |-> v, bad |-> ~b,    thrown |-> FALSE]
Throw(v)   == [v |-> v, bad |-> TRUE,  thrown |-> TRUE]

\* The results r[k] of the parts k of a value that becomes v.
Combine(v, r) == [v |-> v, bad    |-> \E k \in DOMAIN r : r[k].bad,
                           thrown |-> \E k \in DOMAIN r : r[k].thrown]
\* A result followed by checks that have found `more`.
Also(r, more) == [v |-> more.v, bad |-> r.bad \/ more.bad, thrown |-> r.thrown \/ more.thrown]

-----------------------------------------------------------------------------
(* Constraints of a property. *)

\* A check without its typeof guard (the base type is atomic, so the guard
\* is taken to be superfluous), on a value that the constraint is not about:
\* null is 0 in a comparison, a property of null does not exist, and neither
\* do the methods of a string elsewhere.  Any other outcome is that of a
\* value which the type check has already refused.
Unguarded(c, x) ==
    CASE Concerns(c, x) -> Test(Satisfies(c, x), x)
      [] ~Concerns(c, x) /\ x = Null /\ c.kind = "numericType" -> Bad(x)
      [] ~Concerns(c, x) /\ x = Null /\ c.kind \in NumberKinds \ {"numericType"} ->
            Test(Satisfies(c, Num(0)), x)
      [] ~Concerns(c, x) /\ x = Null /\ c.kind \in RegexKinds  -> Test("null" \in c.ok, x)
      [] ~Concerns(c, x) /\ x = Null /\ c.kind \in LengthKinds -> Throw(x)
      [] ~Concerns(c, x) /\ c.kind \in MethodKinds
            /\ ~(c.kind = "includes" /\ x.tag = "array") -> Throw(x)
      [] OTHER -> Bad(x)

\* Mutant: the constraints look at the value before the transforms.
MutantConstrain(p, x) == Combine(Prepared(p, x), [c \in p.checks |-> Test(Guarded(c, x), x)])
Constrain(p, x) ==
    LET y == Prepared(p, x)
        r == [c \in p.checks |-> IF p.type.kind = "atomic" THEN Unguarded(c, y)
                                 ELSE Test(Guarded(c, y), y)]
    IN  Combine(y, r)

-----------------------------------------------------------------------------
RECURSIVE Check(_, _, _), CheckInner(_, _, _)

\* The value of property p of v; what is said is about that value only.
CheckProp(p, v, cx) ==
    LET x == IF Get(v, p.name) = Undef THEN p.default ELSE Get(v, p.name)
        r == Check(p.type, x, cx)
    IN  CASE MustBePresent(p) /\ x = Undef                        -> Bad(x)
          [] ~MustBePresent(p) /\ p.exact /\ x = Undef            ->
                Test(p.name \notin Keys(v), x)
          [] ~MustBePresent(p) /\ ~p.exact /\ x = Undef           -> r
          [] OTHER                                                ->
                IF r.thrown THEN r ELSE Also(r, Constrain(p, r.v))

\* The dynamic-path variant: type checks only.
CheckPropWithPath(p, v, cx) ==
    IF MustBePresent(p) /\ Get(v, p.name) = Undef THEN Bad(Undef)
    ELSE Check(p.type, Get(v, p.name), cx)

PropResults(t, v, CheckOne(_)) ==
    [k \in PropNames(t) |->
        CheckOne(t.props[CHOOSE i \in DOMAIN t.props : t.props[i].name = k])]
Values(r) == [k \in DOMAIN r |-> r[k].v]

CheckObject(t, v, cx) ==
    LET extra == Keys(v) \ PropNames(t)
        kept  == IF t.strictness = "strip" /\ v.tag = "object"
                 THEN Obj([k \in Keys(v) \ extra |-> v.p[k]]) ELSE v
        props == PropResults(t, kept, LAMBDA p : CheckProp(p, kept, cx))
        index == IF t.index = <<>> THEN <<>>
                 ELSE [k \in Keys(kept) \ PropNames(t) |-> Check(t.index[1], kept.p[k], cx)]
    IN  Also(Test(t.strictness = "strict" => extra = {}, v),
             Also(Combine(v, props),
                  Combine(Assign(Assign(kept, Values(props)), Values(index)), index)))

CheckObjectWithPath(t, v, cx) ==
    LET r == PropResults(t, v, LAMBDA p : CheckPropWithPath(p, v, cx))
    IN  Combine(Assign(v, Values(r)), r)

CheckArray(t, v, cx) ==
    LET r == [i \in DOMAIN v.e |-> Check(t.elem, v.e[i], cx)]
    IN  Combine(Arr(Values(r)), r)

CheckTuple(t, v, cx) ==
    LET fixed == {i \in DOMAIN t.elems : ~t.elems[i].rest}
        least == Cardinality({i \in fixed : ~t.elems[i].optional})
        r == [i \in {j \in fixed : ~t.elems[j].optional \/ j <= Len(v.e)} |->
                Check(t.elems[i].type, IF i <= Len(v.e) THEN v.e[i] ELSE Undef, cx)]
        e == [i \in DOMAIN v.e |-> IF i \in DOMAIN r THEN r[i].v ELSE v.e[i]]
    IN  Also(Test(Len(v.e) >= least, v), Combine(Arr(e), r))

\* Every member is tried, on the value as the tries before it have left it;
\* each try starts with the errors of before the union, and nothing is
\* reset after the last.
TryMembers(members, v, cx) ==
    LET try(acc, m) ==
            LET r == CheckInner(m, acc.v, cx)
            IN  IF acc.thrown THEN acc
                ELSE [v |-> r.v, valid |-> acc.valid \/ ~r.bad, bad |-> r.bad, thrown |-> r.thrown]
    IN  FoldLeft(try, [v |-> v, valid |-> FALSE, bad |-> FALSE, thrown |-> FALSE], members)

\* Mutant: the errors of the last member are forgotten, whoever passed.
MutantCheckGeneralUnion(t, v, cx) ==
    LET r == TryMembers(t.members, v, cx) IN [v |-> r.v, bad |-> FALSE, thrown |-> r.thrown]
CheckGeneralUnion(t, v, cx) ==
    LET r == TryMembers(t.members, v, cx)
    IN  [v |-> r.v, bad |-> ~r.valid \/ r.bad, thrown |-> r.thrown]

CheckDiscriminated(t, v, cx) ==
    LET d == Get(v, t.disc)
    IN  IF IsObject(v) /\ \E text \in DOMAIN t.mapping : d = Str(text)
        THEN CheckInner(t.members[t.mapping[d.s]], v, cx) ELSE Bad(v)

CheckUnion(t, v, cx) ==
    CASE AllLiterals(t.members) -> Test(\E i \in DOMAIN t.members : v = t.members[i].value, v)
      [] ~AllLiterals(t.members) /\ t.disc # "" -> CheckDiscriminated(t, v, cx)
      [] OTHER                                  -> CheckGeneralUnion(t, v, cx)

\* A call runs the companion's own function from its beginning.  The
\* companion of another type is not imported: the call of its function is a
\* ReferenceError.
Called(name, v) ==
    Check(Registry[name], v, [Context(name) EXCEPT !.path = IsRecursive(name)])
CheckRef(t, v, cx) ==
    CASE t.ref \in cx.generating /\ t.ref = cx.root -> Called(t.ref, v)
      [] t.ref \in cx.generating /\ t.ref # cx.root -> Throw(v)
      [] t.ref \in DOMAIN Registry \ cx.generating  -> Check(Registry[t.ref], v, Into(cx, t.ref))
      [] OTHER                                      -> Ok(v)

CheckInner(t, v, cx) ==
    CASE t.kind = "atomic"  ->
            Test(/\ IsOfAtomic(t.atomic, v)
                 /\ ~cx.path /\ t.template # {} => v.s \in t.template, v)
      [] t.kind = "literal" -> Test(v = t.value, v)
      [] t.kind = "enum"    -> Test(v \in t.values, v)
      [] t.kind = "native"  -> Test(v.tag = "date", v)
      [] t.kind = "object"  ->
            IF ~IsObject(v) THEN Bad(v)
            ELSE IF cx.path THEN CheckObjectWithPath(t, v, cx) ELSE CheckObject(t, v, cx)
      [] t.kind = "array"   -> IF v.tag = "array" THEN CheckArray(t, v, cx) ELSE Bad(v)
      [] t.kind = "tuple" /\ cx.path  -> Ok(v)
      [] t.kind = "tuple" /\ ~cx.path ->
            IF v.tag = "array" THEN CheckTuple(t, v, cx) ELSE Bad(v)
      [] t.kind = "union"   -> CheckUnion(t, v, [cx EXCEPT !.path = FALSE])
      [] t.kind = "ref"     -> CheckRef(t, v, cx)
      [] t.kind = "intersection" ->
            FoldLeft(LAMBDA r, m : IF r.thrown THEN r ELSE Also(r, CheckInner(m, r.v, cx)),
                     Ok(v), t.members)
      [] t.kind = "never" -> Bad(v)
      [] t.kind = "void"  -> Test(v = Undef, v)
      [] OTHER            -> Ok(v)

Check(t, v, cx) ==
    IF (t.nullable /\ v = Null) \/ (t.optional /\ v = Undef) THEN Ok(v)
    ELSE CheckInner(t, v, cx)

ValidateFunction(name, v) == Called(name, v)

=============================================================================
