----------------------------- MODULE Serializers -----------------------------
(***************************************************************************)
(* `serialize<Name>` (internal/codegen/serialize.go).  The text it returns *)
(* is modelled by the JSON value that a client parses out of it; Garbage   *)
(* is a text that is not JSON, or the end of the call by a throw.  What    *)
(* the code makes of a value that is not of its type is kept only as far   *)
(* as it is JSON or not.                                                   *)
(***************************************************************************)
EXTENDS Metadata

\* A Date's ISO string.
IsoDate == Str("iso")

\* JSON.stringify: no undefined in objects, null for it in arrays, for NaN.
RECURSIVE Stringified(_)
Stringified(v) ==
    CASE v.tag = "nan"    -> Null
      [] v.tag = "date"   -> IsoDate
      [] v.tag = "array"  -> Arr([i \in DOMAIN v.e |->
                                IF v.e[i] = Undef THEN Null ELSE Stringified(v.e[i])])
      [] v.tag = "object" -> Obj([k \in {j \in DOMAIN v.p : v.p[j] # Undef} |->
                                Stringified(v.p[k])])
      [] v.tag \in {"undefined", "bigint"} -> Garbage
      [] OTHER            -> v

\* An object or array one of whose parts is no JSON is none.
ObjectOf(f) == IF \E k \in DOMAIN f : f[k] = Garbage THEN Garbage ELSE Obj(f)
ArrayOfJson(s) == IF \E i \in DOMAIN s : s[i] = Garbage THEN Garbage ELSE Arr(s)

SerializeAtomic(a, v) ==
    CASE a = "string"  -> IF v.tag = "string" THEN v ELSE Garbage
      [] a = "number"  -> IF v.tag = "number" THEN v ELSE Null
      [] a = "bigint"  -> IF v.tag = "bigint" THEN v ELSE Garbage
      [] a = "boolean" -> Bool(v \notin {Bool(FALSE), Null, Undef, NaN, Num(0), Str("")})
      [] OTHER         -> Stringified(v)

\* Mutant: T | undefined is written even when it is undefined.
MutantOmitted(p, v) == ~p.required /\ Get(v, p.name) = Undef
\* An optional property without a value has no part in the JSON.
Omitted(p, v) == (p.type.optional \/ ~p.required) /\ Get(v, p.name) = Undef

RECURSIVE Serialize(_, _, _)

SerializeProps(props, v, cx) ==
    LET ByName(k) == props[CHOOSE i \in DOMAIN props : props[i].name = k]
        names == {props[i].name : i \in DOMAIN props}
    IN  IF names = {} THEN Stringified(v)
        ELSE ObjectOf([k \in {n \in names : ~Omitted(ByName(n), v)} |-> Serialize(ByName(k).type, Get(v, k), cx)])

Resolve(t) == IF t.kind = "ref" /\ t.ref \in DOMAIN Registry THEN Registry[t.ref] ELSE t

SerializeUnion(t, v, cx) ==
    LET atomics == {t.members[i].atomic : i \in DOMAIN t.members}
        d == Get(v, t.disc)
    IN  CASE t.disc # "" ->
                IF \E text \in DOMAIN t.mapping : d = Str(text)
                THEN Serialize(t.members[t.mapping[d.s]], v, cx) ELSE Stringified(v)
          [] t.disc = "" /\ (\A i \in DOMAIN t.members : t.members[i].kind = "atomic") ->
                CASE v.tag \in {"string", "boolean"} /\ v.tag \in atomics -> v
                  [] v.tag = "bigint" /\ "bigint" \in atomics -> v
                  [] "number" \in atomics -> SerializeAtomic("number", v)
                  [] OTHER                -> Stringified(v)
          [] OTHER -> Stringified(v)

SerializeRef(t, v, cx) ==
    CASE t.ref \in cx.generating /\ t.ref = cx.root -> Serialize(Registry[t.ref], v, Context(t.ref))
      [] t.ref \in cx.generating /\ t.ref # cx.root -> Garbage
      [] t.ref \in DOMAIN Registry \ cx.generating  -> Serialize(Registry[t.ref], v, Into(cx, t.ref))
      [] OTHER                                      -> Stringified(v)

Serialize(t, v, cx) ==
    CASE (t.nullable \/ t.optional) /\ v \in {Null, Undef} -> Null
      [] t.kind = "atomic"  -> SerializeAtomic(t.atomic, v)
      [] t.kind = "literal" -> t.value
      [] t.kind = "native"  -> IF v = Date THEN IsoDate ELSE Garbage
      [] t.kind = "object"  -> SerializeProps(t.props, v, cx)
      [] t.kind = "array"   ->
            IF v.tag # "array" THEN Garbage
            ELSE ArrayOfJson([i \in DOMAIN v.e |-> Serialize(t.elem, v.e[i], cx)])
      [] t.kind = "tuple"   ->
            IF v.tag # "array" THEN Garbage
            ELSE ArrayOfJson([i \in DOMAIN t.elems |->
                    Serialize(t.elems[i].type, IF i <= Len(v.e) THEN v.e[i] ELSE Undef, cx)])
      [] t.kind = "union"   -> SerializeUnion(t, v, cx)
      [] t.kind = "ref"     -> SerializeRef(t, v, cx)
      [] t.kind = "intersection" ->
            IF \A i \in DOMAIN t.members : Resolve(t.members[i]).kind = "object"
            THEN SerializeProps(FoldLeft(LAMBDA ps, m : ps \o Resolve(m).props, <<>>, t.members), v, cx)
            ELSE Stringified(v)
      [] OTHER -> Stringified(v)

SerializeFunction(name, v) == Serialize(Registry[name], v, Context(name))

=============================================================================
