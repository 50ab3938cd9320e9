----------------------------- MODULE Conformance -----------------------------
(***************************************************************************)
(* The rules of Membership applied all the way down, and features of types *)
(* that properties make exceptions for.                                    *)
(***************************************************************************)
EXTENDS References, Membership

RECURSIVE Belongs(_, _, _)
Belongs(t, v, deg) ==
    Admits(t, v) \/ InnerBelongs(LAMBDA s, x : Belongs(s, x, deg), t, v, deg)

HasType(name, v, deg) == Belongs(Registry[name], v, deg)

-----------------------------------------------------------------------------
(* j is what a client should read for the value v of type t: everything    *)
(* that the type declares and v has.                                       *)

RECURSIVE Conveys(_, _, _), Plain(_)
Plain(v) == CASE v.tag = "array"  -> Arr([i \in DOMAIN v.e |-> Plain(v.e[i])])
              [] v.tag = "object" -> Obj([k \in {q \in Keys(v) : v.p[q] # Undef} |-> Plain(v.p[k])])
              [] v.tag \in {"nan", "undefined"} -> Null
              [] v.tag = "date"   -> Str("iso")
              [] OTHER            -> v

Conveys(t, v, j) ==
    CASE v \in {Null, Undef}    -> j = Null
      [] t.kind = "object" /\ v.tag = "object" ->
            /\ j.tag = "object"
            /\ Keys(j) \subseteq Keys(v)
            /\ \A i \in DOMAIN t.props :
                LET k == t.props[i].name
                IN  IF Get(v, k) = Undef THEN k \notin Keys(j)
                    ELSE k \in Keys(j) /\ Conveys(t.props[i].type, v.p[k], j.p[k])
      [] t.kind = "array" /\ v.tag = "array" ->
            /\ j.tag = "array"
            /\ Len(j.e) = Len(v.e)
            /\ \A i \in DOMAIN v.e : Conveys(t.elem, v.e[i], j.e[i])
      [] t.kind = "tuple" /\ v.tag = "array" ->
            /\ j.tag = "array"
            /\ Len(j.e) = Len(t.elems)
            /\ \A i \in DOMAIN t.elems : Conveys(t.elems[i].type, v.e[i], j.e[i])
      [] t.kind = "union" ->
            \E i \in DOMAIN t.members : Belongs(t.members[i], v, Outline) /\ Conveys(t.members[i], v, j)
      [] t.kind = "intersection" -> \A i \in DOMAIN t.members : Conveys(t.members[i], v, j)
      [] t.kind = "ref" /\ t.ref \in DOMAIN Registry -> Conveys(Registry[t.ref], v, j)
      [] OTHER -> j = Plain(v)

-----------------------------------------------------------------------------
(* Features of a type that a property makes an exception for. *)

RECURSIVE Terms(_)
Terms(t) ==
    {t} \cup UNION {Terms(s) : s \in Parts(t) \cup IF t.kind = "object" THEN ToSet(t.index) ELSE {}}
AllTerms(name) == UNION {Terms(Registry[n]) : n \in ({name} \cup Reachable(name)) \cap DOMAIN Registry}

\* A union that is neither of literals nor discriminated.
IsGeneralUnion(t) == t.kind = "union" /\ ~AllLiterals(t.members) /\ t.disc = ""
HasGeneralUnion(name) == \E t \in AllTerms(name) : IsGeneralUnion(t)

\* Some property may be null and has a constraint that reads a member of it.
HasNullConstraint(name) ==
    \E t \in AllTerms(name) :
        t.kind = "object" /\ \E i \in DOMAIN t.props :
            t.props[i].type.nullable /\ t.props[i].checks # {}

\* An intersection that is not one object (a member is a union, say, or has
\* no properties) and has a member that transforms, coerces, strips or gives
\* a default: it changes what the other members check.
Changes(t) ==
    t.kind = "object" /\ (t.strictness = "strip" \/
        \E i \in DOMAIN t.props : Prepares(t.props[i]) \/ t.props[i].default # Undef)
HasChangingMember(name) ==
    \E t \in AllTerms(name) :
        t.kind = "intersection" /\ \E i \in DOMAIN t.members :
            LET names == RefsIn(t.members[i]) \cap DOMAIN Registry
            IN  \E o \in Terms(t.members[i]) \cup UNION {AllTerms(n) : n \in names} : Changes(o)

\* A tuple with an optional or a rest element.
HasOpenTuple(name) ==
    \E t \in AllTerms(name) :
        t.kind = "tuple" /\ \E i \in DOMAIN t.elems : t.elems[i].optional \/ t.elems[i].rest

=============================================================================
