------------------------------ MODULE Metadata ------------------------------
(***************************************************************************)
(* The type metadata of tsgonest (internal/metadata) and the JavaScript    *)
(* values that its generated companions look at.  A text is a TLA+ string; *)
(* what `trim`, `toLowerCase`, `toUpperCase` and unary `+` do to the texts *)
(* of a model is given by constants.                                       *)
(***************************************************************************)
EXTENDS Integers, Sequences, FiniteSets, SequencesExt

CONSTANTS Registry,   \* name of a type -> its metadata (TypeRegistry.Types)
          Trimmed,    \* text -> text, for the texts that trim() changes
          Lowered,    \* the same for toLowerCase()
          Uppered,    \* the same for toUpperCase()
          Numerals    \* plain decimal text -> the integer it denotes

(***************************************************************************)
(* JavaScript values.  Arrays and objects are trees: they come from        *)
(* JSON.parse or from a handler that returns fresh data, so no two places  *)
(* of a value share an object.                                             *)
(***************************************************************************)
Undef   == [tag |-> "undefined"]
Null    == [tag |-> "null"]
NaN     == [tag |-> "nan"]
Date    == [tag |-> "date"]
Str(s)  == [tag |-> "string",  s |-> s]
Num(n)  == [tag |-> "number",  n |-> n]
Bool(b) == [tag |-> "boolean", b |-> b]
Arr(e)  == [tag |-> "array",   e |-> e]
Obj(p)  == [tag |-> "object",  p |-> p]
\* In place of a text that is not JSON, or of none because of a throw.
Garbage == [tag |-> "garbage"]

\* typeof v, and the test `typeof v === "object" && v !== null`.
TypeOf(v) == CASE v.tag \in {"null", "date", "array"} -> "object"
               [] v.tag = "nan"                       -> "number"
               [] OTHER                               -> v.tag
IsObject(v) == TypeOf(v) = "object" /\ v # Null

\* The values of an atomic type; NaN and the infinities are no numbers, and
\* types other than these four are not checked.
IsOfAtomic(a, v) == a \in {"string", "number", "boolean", "bigint"} => v.tag = a

Keys(v) == IF v.tag = "object" THEN DOMAIN v.p ELSE {}
Get(v, k) == IF k \in Keys(v) THEN v.p[k] ELSE Undef

\* v after `v[k] = x[k]` for every k that is new or has changed.
Assign(v, x) ==
    IF v.tag # "object" THEN v
    ELSE Obj([k \in Keys(v) \cup {j \in DOMAIN x : x[j] # Undef} |->
                IF k \in DOMAIN x THEN x[k] ELSE v.p[k]])

\* A text transform, and what it does to a value that is no text: nothing.
ImageOr(f, s) == IF s \in DOMAIN f THEN f[s] ELSE s
Transform(name, x) ==
    IF x.tag # "string" THEN x
    ELSE Str(ImageOr(CASE name = "trim"        -> Trimmed
                       [] name = "toLowerCase" -> Lowered
                       [] name = "toUpperCase" -> Uppered
                       [] OTHER                -> <<>>, x.s))

(***************************************************************************)
(* Metadata.  A type is a record with its kind, the two flags and what its *)
(* kind needs.  A property's checks are the constraints that say yes or    *)
(* no; the constraints that change the value are fields of their own.      *)
(***************************************************************************)
Type(kind) == [kind |-> kind, nullable |-> FALSE, optional |-> FALSE]
AnyType         == Type("any")
Never           == Type("never")
Void            == Type("void")
Atomic(a)       == Type("atomic")  @@ [atomic |-> a, template |-> {}]
Template(texts) == Type("atomic")  @@ [atomic |-> "string", template |-> texts]
Literal(v)      == Type("literal") @@ [value |-> v]
Enum(vs)        == Type("enum")    @@ [values |-> vs]
DateType        == Type("native")
ArrayOf(t)      == Type("array")   @@ [elem |-> t]
\* rest: the last element stands for any number of elements.
Tuple(es)       == Type("tuple")   @@ [elems |-> es]
Elem(t, opt, rest) == [type |-> t, optional |-> opt, rest |-> rest]
Ref(n)          == Type("ref")     @@ [ref |-> n]
Intersection(m) == Type("intersection") @@ [members |-> m]
\* disc is "" or the discriminant; mapping takes its texts to members.
Union(m)        == Type("union") @@ [members |-> m, disc |-> "", mapping |-> <<>>]
Discriminated(m, key, map) ==
    Type("union") @@ [members |-> m, disc |-> key, mapping |-> map]
\* index is <<>> or <<the value type of the index signature>>.
Object(props)     == Type("object") @@ [props |-> props, strictness |-> "", index |-> <<>>]
Strict(t, how)    == [t EXCEPT !.strictness = how]
Indexed(props, t) == [Object(props) EXCEPT !.index = <<t>>]

\* The name the walker gives to metadata besides the one it is registered by.
Name(m)     == IF "name" \in DOMAIN m THEN m.name ELSE ""
Named(m, n) == [x \in DOMAIN m \cup {"name"} |-> IF x = "name" THEN n ELSE m[x]]

OrNull(t)  == [t EXCEPT !.nullable = TRUE]
OrUndef(t) == [t EXCEPT !.optional = TRUE]
Required(t) == [t EXCEPT !.nullable = FALSE, !.optional = FALSE]

\* The types that a type is made of; index signatures do not count.
Parts(t) ==
    CASE t.kind = "object" -> {t.props[i].type : i \in DOMAIN t.props}
      [] t.kind = "array"  -> {t.elem}
      [] t.kind = "tuple"  -> {t.elems[i].type : i \in DOMAIN t.elems}
      [] t.kind \in {"union", "intersection"} -> {t.members[i] : i \in DOMAIN t.members}
      [] OTHER -> {}
IsSequence(s) == s \in Seq(ToSet(s))

Prop(name, t) == [name |-> name, type |-> t, required |-> TRUE, exact |-> FALSE,
                  checks |-> {}, default |-> Undef, transforms |-> <<>>, coerce |-> FALSE]
\* `name?: t`, without and with exactOptionalPropertyTypes.
OptProp(name, t)   == [Prop(name, OrUndef(t)) EXCEPT !.required = FALSE]
ExactProp(name, t) == [OptProp(name, t) EXCEPT !.exact = TRUE]
Checked(p, cs)     == [p EXCEPT !.checks = cs]

\* What the code of a property does to its value before it checks it.
Transformed(p, x) ==
    LET after[i \in 0 .. Len(p.transforms)] ==
            IF i = 0 THEN x ELSE Transform(p.transforms[i], after[i - 1])
    IN  after[Len(p.transforms)]
Coerce(t, x) ==
    IF x.tag # "string" \/ t.kind # "atomic" THEN x
    ELSE CASE t.atomic = "number"  /\ x.s \in DOMAIN Numerals -> Num(Numerals[x.s])
           [] t.atomic = "boolean" /\ x.s \in {"true", "1"}   -> Bool(TRUE)
           [] t.atomic = "boolean" /\ x.s \in {"false", "0"}  -> Bool(FALSE)
           [] OTHER                                           -> x
Prepared(p, x) ==
    LET y == Transformed(p, x) IN IF p.coerce THEN Coerce(p.type, y) ELSE y
Prepares(p) == p.transforms # <<>> \/ p.coerce

PropNames(t) == {t.props[i].name : i \in DOMAIN t.props}
\* Mutant: a required property of type T | undefined must be there too.
MutantMustBePresent(p) == p.required
\* prop.Required && !prop.Type.Optional
MustBePresent(p) == p.required /\ ~p.type.optional

(***************************************************************************)
(* Constraints, by the kind of value they are about.                       *)
(***************************************************************************)
Limit(kind, n)  == [kind |-> kind, n |-> n]
Texts(kind, ok) == [kind |-> kind, ok |-> ok]    \* the texts that pass

NumberKinds == {"minimum", "maximum", "exclusiveMinimum", "exclusiveMaximum",
                "multipleOf", "numericType"}
LengthKinds == {"minLength", "maxLength"}
RegexKinds  == {"pattern", "format"}
MethodKinds == {"startsWith", "endsWith", "includes", "uppercase", "lowercase"}
ItemKinds   == {"minItems", "maxItems", "uniqueItems"}
AllKinds    == NumberKinds \cup LengthKinds \cup RegexKinds \cup MethodKinds \cup ItemKinds

Satisfies(c, v) ==
    CASE c.kind \in NumberKinds /\ v.tag = "nan" -> c.kind \notin {"multipleOf", "numericType"}
      [] c.kind = "minimum"          -> v.n >= c.n
      [] c.kind = "maximum"          -> v.n <= c.n
      [] c.kind = "exclusiveMinimum" -> v.n > c.n
      [] c.kind = "exclusiveMaximum" -> v.n < c.n
      [] c.kind = "multipleOf"       -> v.n % c.n = 0
      [] c.kind = "numericType"      -> v.n \in (-c.n) - 1 .. c.n   \* intN, n its largest
      [] c.kind = "minLength"        -> Len(v.s) >= c.n
      [] c.kind = "maxLength"        -> Len(v.s) <= c.n
      [] c.kind \in RegexKinds \cup MethodKinds -> v.s \in c.ok
      [] c.kind = "minItems"         -> Len(v.e) >= c.n
      [] c.kind = "maxItems"         -> Len(v.e) <= c.n
      [] c.kind = "uniqueItems"      -> Cardinality(ToSet(v.e)) = Len(v.e)

\* A constraint is about the values that its typeof guard lets through.
Concerns(c, v) == CASE c.kind \in NumberKinds -> TypeOf(v) = "number"
                    [] c.kind \in ItemKinds   -> v.tag = "array"
                    [] OTHER                  -> v.tag = "string"
Guarded(c, v) == Concerns(c, v) => Satisfies(c, v)

AllLiterals(members) ==
    Len(members) > 0 /\ \A i \in DOMAIN members : members[i].kind = "literal"

(***************************************************************************)
(* The generator's context: the companion's own type, the types whose code *)
(* is being written (`generating`), and whether the dynamic-path variant   *)
(* of validate is written.  A reference to a type of `generating` becomes  *)
(* a call; any other is inlined, and one that is not registered is not     *)
(* checked.                                                                *)
(***************************************************************************)
Context(root) == [root |-> root, generating |-> {root}, path |-> FALSE]
Into(cx, name) == [cx EXCEPT !.generating = @ \cup {name}]

\* The first verdict of a && chain or of a list of throwing checks that is
\* not good; good when there is none.
InOrder(verdicts, good) ==
    IF \A i \in DOMAIN verdicts : verdicts[i] = good THEN good
    ELSE verdicts[CHOOSE i \in DOMAIN verdicts :
                    /\ verdicts[i] # good
                    /\ \A j \in 1 .. i - 1 : verdicts[j] = good]

=============================================================================
