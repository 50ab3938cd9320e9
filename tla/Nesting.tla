------------------------------ MODULE Nesting -------------------------------
(***************************************************************************)
(* Types and values with their parts, and what is found out about them by  *)
(* levels of nesting: what a type means, and what is met in it.  What is   *)
(* true with n + 1 levels left is told by rules from what is true with n,  *)
(* up to the bound Stack.                                                  *)
(***************************************************************************)
EXTENDS Membership

CONSTANTS PartTypes,   \* the parts of the types of the registry, and their parts
          JsValues,    \* the JavaScript values, and their parts
          Stack        \* bound on the nesting

AllTypes  == {Registry[n] : n \in DOMAIN Registry} \cup PartTypes
AllValues == {Undef} \cup JsValues

\* What the analyzer makes sure of: null and undefined leave a union and
\* become its flags (walkUnion), and so the intersections of TypeScript have
\* none; `?` sets the flag of a property's type (analyzeObjectProperties),
\* and no two properties have one name (mergeProperties).
\* A discriminant's text leads to the one member that has it, and every
\* member, an object or the name of one, has the property
\* (detectDiscriminant).
Referent(t) == IF t.kind = "ref" /\ t.ref \in DOMAIN Registry THEN Registry[t.ref] ELSE t
DiscriminantsOf(t, key) ==
    LET o == Referent(t) IN {o.props[i] : i \in {j \in DOMAIN o.props : o.props[j].name = key}}
IsDiscriminated(t) ==
    /\ \A text \in DOMAIN t.mapping : t.mapping[text] \in DOMAIN t.members
    /\ \A i \in DOMAIN t.members :
        /\ Referent(t.members[i]).kind = "object"
        /\ Referent(t.members[i]).nullable = FALSE /\ Referent(t.members[i]).optional = FALSE
        /\ DiscriminantsOf(t.members[i], t.disc) # {}
        /\ \A p \in DiscriminantsOf(t.members[i], t.disc) :
            /\ p.type.kind = "literal"
            /\ p.type.value.tag = "string" =>
                /\ p.type.value.s \in DOMAIN t.mapping /\ t.mapping[p.type.value.s] = i
                /\ p.type.value = Str(p.type.value.s)
IsMetadata(t) ==
    /\ t.kind = "object" =>
        /\ IsSequence(t.props)
        /\ \A i \in DOMAIN t.props : /\ t.props[i].required \/ t.props[i].type.optional
                                     /\ IsSequence(t.props[i].transforms)
        /\ \A i, j \in DOMAIN t.props : t.props[i].name = t.props[j].name => i = j
    /\ t.kind = "tuple"  => IsSequence(t.elems)
    /\ t.kind \in {"union", "intersection"} =>
        /\ IsSequence(t.members)
        /\ \A i \in DOMAIN t.members : t.members[i].nullable = FALSE /\ t.members[i].optional = FALSE
    /\ t.kind = "union" /\ t.disc # "" => IsDiscriminated(t)
IsValue(v) ==
    /\ v.tag = "array"  => IsSequence(v.e) /\ v = Arr(v.e)
    /\ v.tag = "object" => v = Obj([k \in DOMAIN v.p |-> v.p[k]])
    /\ v.tag = "date"   => v = Date
PartsOfValue(v) == CASE v.tag = "array"  -> {v.e[i] : i \in DOMAIN v.e}
                     [] v.tag = "object" -> {v.p[k] : k \in DOMAIN v.p}
                     [] OTHER            -> {}
ASSUME TypesAssumption ==
    /\ UNION {Parts(t) : t \in AllTypes} \subseteq AllTypes
    /\ \A t \in AllTypes : IsMetadata(t)
ASSUME ValuesAssumption ==
    /\ UNION {PartsOfValue(v) : v \in AllValues} \subseteq AllValues
    /\ \A v \in AllValues : IsValue(v)
ASSUME StackAssumption == Stack \in Nat

Contexts == [root : DOMAIN Registry, generating : SUBSET DOMAIN Registry, path : BOOLEAN]
-----------------------------------------------------------------------------
(* What a type means, its rules applied once more than there are levels of *)
(* an expression: that for a union of literals has their values in it.     *)

BelongsBy(f, t, v, deg) == InnerBelongs(LAMBDA s, x : Admits(s, x) \/ f[s][x], t, v, deg)
Within(deg) ==
    LET within[n \in Nat] ==
            [t \in AllTypes |-> [v \in AllValues |-> n > 0 /\ BelongsBy(within[n - 1], t, v, deg)]]
    IN  within
IsMember(name, v, deg) == Admits(Registry[name], v) \/ Within(deg)[Stack + 1][Registry[name]][v]

\* The types met in a type, and what the names in it stand for.
Below(t) == Parts(t) \cup (IF t.kind = "ref" /\ t.ref \in DOMAIN Registry THEN {Registry[t.ref]} ELSE {})
met[n \in Nat] ==
    [t \in AllTypes |-> {t} \cup (IF n = 0 THEN {} ELSE UNION {met[n - 1][s] : s \in Below(t)})]

\* A discriminant that the switch does not find: its literal is no text, or
\* it may be left out.
HasLooseDiscriminant(t) ==
    /\ t.kind = "union" /\ t.disc # ""
    /\ \E i \in DOMAIN t.members : \E p \in DiscriminantsOf(t.members[i], t.disc) :
        p.type.value.tag # "string" \/ p.type.optional \/ p.type.nullable
IsLoose(name) == \E t \in met[Stack][Registry[name]] : HasLooseDiscriminant(t)

\* A union that is not of literals only.
IsOpenUnion(t) == t.kind = "union" /\ ~AllLiterals(t.members)
HasOpenUnion(name) == \E t \in met[Stack][Registry[name]] : IsOpenUnion(t)

\* An intersection with a member that transforms or coerces properties.
Writes(t) == t.kind = "object" /\ \E i \in DOMAIN t.props : Prepares(t.props[i])
IsWriting(t) ==
    t.kind = "intersection" /\ \E i \in DOMAIN t.members : \E u \in met[Stack][t.members[i]] : Writes(u)
HasWritingMember(name) == \E t \in met[Stack][Registry[name]] : IsWriting(t)

\* The names met in a type when those of `out` are not followed.
BelowWithout(t, out) ==
    Parts(t) \cup (IF t.kind = "ref" /\ t.ref \in DOMAIN Registry \ out THEN {Registry[t.ref]} ELSE {})
NamesWithout(out) ==
    LET names[n \in Nat] ==
            [t \in AllTypes |-> IF n = 0 THEN {}
                                ELSE (IF t.kind = "ref" THEN {t.ref} ELSE {})
                                     \cup UNION {names[n - 1][s] : s \in BelowWithout(t, out)}]
    IN  names

\* A type met in that of `name` refers to itself by a way around `name`.
HasForeignRecursion(name) ==
    \E r \in (NamesWithout({})[Stack][Registry[name]] \ {name}) \cap DOMAIN Registry :
        r \in NamesWithout({name})[Stack][Registry[r]]

=============================================================================
