------------------------------- MODULE Guards -------------------------------
(***************************************************************************)
(* `is<Name>`: the boolean expression of internal/codegen/validate_is.go.  *)
(* Its verdict is "yes", "no", "throws" (a call of a function that the     *)
(* companion does not have) or "overflow" (of the stack); && and ||        *)
(* evaluate from the left.                                                 *)
(*                                                                         *)
(* The expressions nest as the types do.  What they give with n + 1 levels *)
(* of nesting left is told by rules from what they give with n; `inner`    *)
(* has all levels, up to the bound Stack.                                  *)
(***************************************************************************)
EXTENDS Nesting

Verdicts == {"yes", "no", "throws", "overflow"}
Verdict(b) == IF b THEN "yes" ELSE "no"
\* a || b || ...: the first that is not "no".
Either(verdicts) == InOrder(verdicts, "no")

IsKinds == (NumberKinds \ {"multipleOf", "numericType"}) \cup LengthKinds \cup RegexKinds

\* typeof, Number.isFinite, and the pattern of a template literal type.
IsAtomic(t, v) == IsOfAtomic(t.atomic, v) /\ (t.template # {} => v.s \in t.template)

(***************************************************************************)
(* The rules.  f[t][v][cx] is the verdict, one level further down, on the  *)
(* value v of the expression for the type t, its flags aside, generated in *)
(* the context cx.                                                         *)
(***************************************************************************)
Is(f, t, v, cx) == IF Admits(t, v) THEN "yes" ELSE f[t][v][cx]

IsUnion(f, t, v, cx) ==
    CASE AllLiterals(t.members) -> Verdict(\E i \in DOMAIN t.members : v = t.members[i].value)
      [] ~AllLiterals(t.members) /\ t.disc # "" ->
            LET d == Get(v, t.disc)
            IN  IF IsObject(v) /\ \E text \in DOMAIN t.mapping : d = Str(text)
                THEN f[t.members[t.mapping[d.s]]][v][cx] ELSE "no"
      [] OTHER -> Either([i \in DOMAIN t.members |-> f[t.members[i]][v][cx]])

IsProp(f, p, v, cx) ==
    LET x == Get(v, p.name)
        absent == IF p.exact THEN p.name \notin Keys(v) ELSE x = Undef
        shape == CASE MustBePresent(p) /\ x = Undef -> "no"
                   [] ~MustBePresent(p) /\ absent   -> "yes"
                   [] OTHER                         -> Is(f, p.type, x, cx)
    IN  IF shape # "yes" THEN shape
        ELSE Verdict(\A c \in p.checks : c.kind \in IsKinds => Guarded(c, x))

\* Mutant: an optional element is not checked when it is there.
MutantUnasked(el, i, v) == el.rest \/ el.optional
\* Element i of a tuple is not looked at.
Unasked(el, i, v) == el.rest \/ (el.optional /\ i > Len(v.e))

IsElem(f, el, i, v, cx) ==
    IF Unasked(el, i, v) THEN "yes" ELSE Is(f, el.type, IF i <= Len(v.e) THEN v.e[i] ELSE Undef, cx)

IsRef(f, t, v, cx) ==
    CASE t.ref \in cx.generating /\ t.ref = cx.root -> Is(f, Registry[t.ref], v, Context(t.ref))
      [] t.ref \in cx.generating /\ t.ref # cx.root -> "throws"
      [] t.ref \in DOMAIN Registry \ cx.generating  -> Is(f, Registry[t.ref], v, Into(cx, t.ref))
      [] OTHER -> "yes"

IsInner(f, t, v, cx) ==
    CASE t.kind = "atomic"  -> Verdict(IsAtomic(t, v))
      [] t.kind = "literal" -> Verdict(v = t.value)
      [] t.kind = "enum"    -> Verdict(v \in t.values)
      [] t.kind = "native"  -> Verdict(v.tag = "date")
      [] t.kind = "object"  ->
            IF ~IsObject(v) THEN "no"
            ELSE InOrder([i \in DOMAIN t.props |-> IsProp(f, t.props[i], v, cx)], "yes")
      [] t.kind = "array"   ->
            IF v.tag # "array" THEN "no"
            ELSE InOrder([i \in DOMAIN v.e |-> Is(f, t.elem, v.e[i], cx)], "yes")
      [] t.kind = "tuple"   ->
            IF v.tag # "array" THEN "no"
            ELSE InOrder([i \in DOMAIN t.elems |-> IsElem(f, t.elems[i], i, v, cx)], "yes")
      [] t.kind = "union"   -> IsUnion(f, t, v, cx)
      [] t.kind = "ref"     -> IsRef(f, t, v, cx)
      [] t.kind = "intersection" ->
            InOrder([i \in DOMAIN t.members |-> f[t.members[i]][v][cx]], "yes")
      [] t.kind = "never" -> "no"
      [] t.kind = "void"  -> Verdict(v = Undef)
      [] OTHER            -> "yes"

inner[n \in Nat] ==
    [t \in AllTypes |-> [v \in AllValues |-> [cx \in Contexts |->
        IF n = 0 THEN "overflow" ELSE IsInner(inner[n - 1], t, v, cx)]]]

IsFunction(name, v) == Is(inner[Stack], Registry[name], v, Context(name))

=============================================================================
