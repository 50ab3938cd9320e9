----------------------------- MODULE Membership ------------------------------
(***************************************************************************)
(* What a type means: the values that belong to it, with no regard to how  *)
(* a companion finds out.  The documentation decides                       *)
(* (apps/docs/content/docs/validation): a constraint is about the values   *)
(* of its kind and is skipped for null and undefined, an optional property *)
(* may be absent, a union has the values of its members.                   *)
(*                                                                         *)
(* A degree says how much is asked: the kinds of constraints; `closed` for *)
(* @strict, index signatures, exactOptionalPropertyTypes, the least length *)
(* of a tuple and texts that their transforms leave alone; `elements` for  *)
(* tuples and template patterns.                                           *)
(* Elements of a tuple after the declared ones are never asked about.      *)
(*                                                                         *)
(* These are the rules for one level of a type: In(s, x) tells whether a   *)
(* part x of the value belongs to a part s of the type.                    *)
(***************************************************************************)
EXTENDS Metadata

Degree(kinds, closed, elements) == [kinds |-> kinds, closed |-> closed, elements |-> elements]
Full    == Degree(AllKinds, TRUE, TRUE)
Outline == Degree({}, FALSE, FALSE)

\* null and undefined, where the flags of the type let them in.
Admits(t, v) == (t.nullable /\ v = Null) \/ (t.optional /\ v = Undef)

PropBelongs(In(_, _), p, v, deg) ==
    LET x == Get(v, p.name)
    IN  IF x = Undef
        THEN (p.type.optional \/ ~p.required) /\ (deg.closed /\ p.exact => p.name \notin Keys(v))
        ELSE /\ In(p.type, x)
             /\ \A c \in p.checks : c.kind \in deg.kinds => Guarded(c, x)
             /\ deg.closed => \A i \in DOMAIN p.transforms : Transform(p.transforms[i], x) = x

ObjectBelongs(In(_, _), t, v, deg) ==
    LET extra == Keys(v) \ PropNames(t)
    IN  /\ IsObject(v)
        /\ \A i \in DOMAIN t.props : PropBelongs(In, t.props[i], v, deg)
        /\ deg.closed => /\ t.strictness = "strict" => extra = {}
                         /\ t.index # <<>> => \A k \in extra : In(t.index[1], v.p[k])

TupleBelongs(In(_, _), t, v, deg) ==
    /\ v.tag = "array"
    /\ \A i \in DOMAIN t.elems :
        \/ t.elems[i].rest
        \/ i <= Len(v.e) /\ In(t.elems[i].type, v.e[i])
        \/ i > Len(v.e)  /\ (t.elems[i].optional \/ (~deg.closed /\ In(t.elems[i].type, Undef)))

\* The flags aside.
InnerBelongs(In(_, _), t, v, deg) ==
    /\ t.kind = "atomic"  => /\ IsOfAtomic(t.atomic, v)
                             /\ t.template # {} /\ deg.elements => v.s \in t.template
    /\ t.kind = "literal" => v = t.value
    /\ t.kind = "enum"    => v \in t.values
    /\ t.kind = "native"  => v = Date
    /\ t.kind = "object"  => ObjectBelongs(In, t, v, deg)
    /\ t.kind = "array"   => v.tag = "array" /\ \A i \in DOMAIN v.e : In(t.elem, v.e[i])
    /\ t.kind = "tuple"   => (deg.elements => TupleBelongs(In, t, v, deg))
    /\ t.kind = "union"   => \E i \in DOMAIN t.members : In(t.members[i], v)
    /\ t.kind = "intersection" => \A i \in DOMAIN t.members : In(t.members[i], v)
    /\ t.kind = "ref"     => (t.ref \in DOMAIN Registry => In(Registry[t.ref], v))
    /\ t.kind = "void"    => v = Undef
    /\ t.kind # "never"

=============================================================================
