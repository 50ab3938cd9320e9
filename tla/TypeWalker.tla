----------------------------- MODULE TypeWalker -----------------------------
(***************************************************************************)
(* The type walker (internal/analyzer/type_walker.go): from the checker's  *)
(* graph of types to metadata.  A walk is an operator from the walker's    *)
(* state to [s |-> the state afterwards, m |-> the metadata].              *)
(*                                                                         *)
(* State: reg (the registry), ids (typeIdToName), visiting, pending        *)
(* (pendingName), depth and walked (totalTypesWalked).                     *)
(***************************************************************************)
EXTENDS Constraints

CONSTANTS Graph,          \* TypeId -> a type of the checker
          Capitalized,    \* text -> the text with its first letter in upper case
          MaxWalkDepth, MaxTotalTypes

(***************************************************************************)
(* Types of the checker.  An alias is the name a declaration `type N<A> =` *)
(* gave to the type, with its type arguments; a symbol is the name of an   *)
(* interface or class.  A brand is one of the phantom objects of           *)
(* @tsgonest/types, `{ __tsgonest_minLength: 1 }`.  A declaration and a    *)
(* property have JSDoc tags.  A wrapper is Promise, Observable, AsyncGenerator or one of the    *)
(* iterables.                                                              *)
(***************************************************************************)
NoAlias == [name |-> "", args |-> <<>>]
Node(kind) == [kind |-> kind, alias |-> NoAlias, symbol |-> "", args |-> <<>>]
TAny          == Node("any")       \* also unknown, functions, what is not supported
TAtom(a)      == Node("atomic")   @@ [atomic |-> a]
TLit(v)       == Node("literal")  @@ [value |-> v]
TNull         == Node("null")
TUndef        == Node("undefined")
TDate         == [Node("native")  EXCEPT !.symbol = "Date"]
TArray(t)     == [Node("array")   EXCEPT !.symbol = "Array", !.args = <<t>>]
TWrapper(t)   == [Node("wrapper") EXCEPT !.symbol = "Promise", !.args = <<t>>]
TTuple(es)    == Node("tuple")    @@ [elems |-> es]      \* [type, optional, rest]
TUnion(ms)    == Node("union")    @@ [members |-> ms]
TBoth(ms)     == Node("intersection") @@ [members |-> ms]
TBrand(ts)    == Node("brand")    @@ [tags |-> ts]
\* An interface or a type literal; a class; jsdoc has the declaration's tags.
TObject(ps)   == Node("object")   @@ [props |-> ps, index |-> <<>>, jsdoc |-> <<>>, class |-> FALSE]
TNamed(n, as, ps) == [TObject(ps) EXCEPT !.symbol = n, !.args = as]
TClass(n, ps, tags) == [TNamed(n, <<>>, ps) EXCEPT !.jsdoc = tags, !.class = TRUE]
Aliased(t, n)     == [t EXCEPT !.alias = [name |-> n, args |-> <<>>]]
Applied(t, n, as) == [t EXCEPT !.alias = [name |-> n, args |-> as]]
Field(n, t)    == [name |-> n, type |-> t, optional |-> FALSE, jsdoc |-> <<>>]
OptField(n, t) == [Field(n, t) EXCEPT !.optional = TRUE]

IsBool(id) == Graph[id].kind = "literal" /\ Graph[id].value.tag = "boolean"
IsText(id) == Graph[id].kind = "literal" /\ Graph[id].value.tag \in {"string", "number"}

(***************************************************************************)
(* Results; checks are the constraints that have no property to go to yet. *)
(***************************************************************************)
Start(reg, ids) == [reg |-> reg, ids |-> ids, visiting |-> {}, pending |-> <<>>,
                    depth |-> 0, walked |-> 0]
Yield(s, m)  == [s |-> s, m |-> m]
ChecksOf(m)  == IF "checks" \in DOMAIN m THEN m.checks ELSE NoConstraints
WithChecks(m, cs) == IF cs = NoConstraints THEN m ELSE [x \in DOMAIN m \cup {"checks"} |->
                                               IF x = "checks" THEN cs ELSE m[x]]
Bare(m) == [x \in DOMAIN m \ {"checks"} |-> m[x]]
DepthExceeded   == Named(AnyType, "depth-exceeded")
BreadthExceeded == Named(AnyType, "breadth-exceeded")

(***************************************************************************)
(* A property is copied by value, but what it points to stays shared: its  *)
(* Constraints, if it has any (bound), the elements of an array and the    *)
(* properties of an inline object.  home is the registered type that these *)
(* were made for; copies in flattened intersections keep it.               *)
(***************************************************************************)
Home(m, n) ==
    IF m.kind # "object" THEN m
    ELSE [m EXCEPT !.props = [i \in DOMAIN m.props |->
                                [m.props[i] EXCEPT !.home = IF @ = "" THEN n ELSE @]]]

\* Mutant: the name is remembered, the type is not.
MutantRegister(s, n, m, id) == [s EXCEPT !.ids = (id :> n) @@ @]
\* Register overwrites what has the name.
Register(s, n, m, id) == [s EXCEPT !.reg = (n :> Named(Home(m, n), n)) @@ @,
                                   !.ids = IF Graph[id].symbol = "" THEN (id :> n) @@ @ ELSE @]

(***************************************************************************)
(* Names of generic instantiations; "" when there is none.                 *)
(***************************************************************************)
AtomNames  == [string |-> "String", number |-> "Number"]
FixedNames == [any |-> "Any", null |-> "Null", undefined |-> "Undefined"]
LiteralName(v) == CASE v.tag = "string" /\ v.s # "" -> ImageOr(Capitalized, v.s)
                    [] v.tag = "number"             -> "N" \o ToString(v.n)
                    [] OTHER                        -> ""
JoinNames(names) == IF \E i \in DOMAIN names : names[i] = "" THEN ""
                    ELSE FoldLeft(LAMBDA a, b : a \o b, "", names)

Instantiated(base, names) ==
    IF \E i \in DOMAIN names : names[i] = "" THEN ""
    ELSE base \o JoinNames([i \in DOMAIN names |-> "_" \o names[i]])

RECURSIVE Compose(_, _, _), ArgName(_, _)

\* buildGenericInstantiationName
Compose(s, base, args) == Instantiated(base, [i \in DOMAIN args |-> ArgName(s, args[i])])

\* deriveTypeArgName
ArgName(s, id) ==
    LET t == Graph[id]
    IN  CASE t.kind = "atomic"    -> AtomNames[t.atomic]
          [] t.kind \in DOMAIN FixedNames -> FixedNames[t.kind]
          [] t.kind = "literal"   -> LiteralName(t.value)
          [] t.kind = "union" /\ \A i \in DOMAIN t.members : IsBool(t.members[i]) -> "Boolean"
          [] t.kind = "union" /\ t.alias.name # "" -> t.alias.name
          [] t.kind = "union" /\ t.alias.name = "" ->
                IF Len(t.members) > 4 THEN ""
                ELSE JoinNames([i \in DOMAIN t.members |->
                        IF IsText(t.members[i]) THEN LiteralName(Graph[t.members[i]].value) ELSE ""])
          [] id \in DOMAIN s.ids  -> s.ids[id]
          [] t.kind = "array"     -> JoinNames(<<ArgName(s, t.args[1]), "Array">>)
          [] t.symbol # "" -> Compose(s, t.symbol, t.args)
          [] t.kind = "object" /\ t.symbol = "" /\ t.alias.name # "" ->
                Compose(s, t.alias.name, t.alias.args)
          [] OTHER -> ""

\* Mutant: every instantiation of a generic alias has the alias's own name.
MutantAliasName(s, id) == Graph[id].alias.name
\* resolveAliasName, and the registration name of walkUnion and the others.
AliasName(s, id) == LET a == Graph[id].alias
                    IN  IF a.name = "" THEN "" ELSE Compose(s, a.name, a.args)

(***************************************************************************)
(* Objects behind metadata, flattening and discriminants.                  *)
(***************************************************************************)
\* resolveToObjectProperties: <<>> stands for nil, which is also the slice
\* of an object without properties.
ObjectProps(reg, m) ==
    CASE m.kind = "object" -> m.props
      [] m.kind = "ref" /\ m.ref \in DOMAIN reg /\ reg[m.ref].kind = "object" -> reg[m.ref].props
      [] OTHER -> <<>>

\* mergeProperties: a property's place is that of the first of its name, its
\* contents those of the last.
MergeProperties(props) ==
    LET firsts == {i \in DOMAIN props : \A j \in 1 .. i - 1 : props[j].name # props[i].name}
        last(n) == CHOOSE i \in DOMAIN props :
                      props[i].name = n /\ \A j \in i + 1 .. Len(props) : props[j].name # n
        order == SetToSortSeq(firsts, <)
    IN  [i \in DOMAIN order |-> props[last(props[order[i]].name)]]

TryFlatten(reg, ms) ==
    IF \E i \in DOMAIN ms : ObjectProps(reg, ms[i]) = <<>> THEN Intersection(ms)
    ELSE Object(MergeProperties(FlattenSeq([i \in DOMAIN ms |-> ObjectProps(reg, ms[i])])))

\* extractLiteralValue: a literal is formatted as text; "" for what is none.
TextOf(v) == CASE v.tag = "string"  -> v.s
               [] v.tag = "number"  -> ToString(v.n)
               [] v.tag = "boolean" -> IF v.b THEN "true" ELSE "false"
LiteralTextOf(t) == IF t.kind = "literal" THEN TextOf(t.value) ELSE ""
LiteralAt(props, key) ==
    LET at == {i \in DOMAIN props : props[i].name = key}
    IN  IF at = {} THEN ""
        ELSE LiteralTextOf(props[CHOOSE i \in at : \A j \in at : i <= j].type)

\* Mutant: two members may share a literal; the later one has it.
MutantTellsApart(all, key) == \A i \in DOMAIN all : LiteralAt(all[i], key) # ""
\* The property tells the members apart: each has a literal of its own.
TellsApart(all, key) ==
    /\ \A i \in DOMAIN all : LiteralAt(all[i], key) # ""
    /\ \A i, j \in DOMAIN all : i # j => LiteralAt(all[i], key) # LiteralAt(all[j], key)

\* detectDiscriminant: the first property of the first member that does.
\* TryDiscriminate also writes the mapping from literals to members.
TryDiscriminate(reg, u) ==
    LET all  == [i \in DOMAIN u.members |-> ObjectProps(reg, u.members[i])]
        keys == {k \in DOMAIN all[1] : TellsApart(all, all[1][k].name)}
    IN  IF Len(u.members) < 2 \/ keys = {} \/ (\E i \in DOMAIN all : all[i] = <<>>) THEN u
        ELSE LET key == all[1][CHOOSE k \in keys : \A j \in keys : k <= j].name
             IN  [u EXCEPT !.disc = key,
                           !.mapping = [x \in {LiteralAt(all[i], key) : i \in DOMAIN all} |->
                                          CHOOSE i \in DOMAIN all : LiteralAt(all[i], key) = x]]

\* The literal and the checks of `"USD" & { __tsgonest_... }`; such a member
\* is not walked.  Its phantom properties count for the breadth.
LiteralIn(id) == {v \in {Graph[i].value : i \in {j \in ToSet(Graph[id].members) : IsText(j)}} : TRUE}
BrandChecks(list) ==
    BrandedConstraints(FlattenSeq([i \in DOMAIN list |->
                          IF Graph[list[i]].kind = "brand" THEN Graph[list[i]].tags ELSE <<>>]))
IsBrandedLiteral(id) ==
    /\ Graph[id].kind = "intersection"
    /\ Cardinality({i \in DOMAIN Graph[id].members : IsText(Graph[id].members[i])}) = 1
    /\ \E i \in ToSet(Graph[id].members) : Graph[i].kind = "brand"
    /\ \A i \in ToSet(Graph[id].members) : IsText(i) \/ Graph[i].kind = "brand"

-----------------------------------------------------------------------------
RECURSIVE WalkType(_, _)

\* One more walked type.
Add(acc, r) == [acc EXCEPT !.s = r.s, !.ms = Append(@, r.m)]
WalkEach(s, list) ==
    FoldLeft(LAMBDA acc, id : Add(acc, WalkType(acc.s, id)), [s |-> s, ms |-> <<>>], list)

\* The recursion guard of unions and intersections.
RefOrAny(name) == IF name = "" THEN AnyType ELSE Ref(name)
KnownAs(s, id) == RefOrAny(IF id \in DOMAIN s.pending THEN s.pending[id] ELSE AliasName(s, id))

\* One member of a union.  acc: s, ms, nullable, optional and brand, the
\* checks of the first branded literal.
UnionMember(acc, list, id) ==
    LET t == Graph[id]
        add(m) == [acc EXCEPT !.ms = Append(@, m)]
    IN  CASE t.kind = "null"      -> [acc EXCEPT !.nullable = TRUE]
          [] t.kind = "undefined" -> [acc EXCEPT !.optional = TRUE]
          [] IsBool(id) /\ (\E i \in ToSet(list) : i # id /\ IsBool(i)) ->
                IF Atomic("boolean") \in ToSet(acc.ms) THEN acc ELSE add(Atomic("boolean"))
          [] IsText(id) -> add(Literal(t.value))
          [] IsBrandedLiteral(id) ->
                [add(Literal(CHOOSE v \in LiteralIn(id) : TRUE)) EXCEPT
                    !.brand = IF @ = NoConstraints THEN BrandChecks(t.members) ELSE @,
                    !.s.walked = IF acc.brand = NoConstraints THEN @ + Len(t.members) - 1 ELSE @]
          [] OTHER -> Add(acc, WalkType(acc.s, id))

Flagged(m, all) == [m EXCEPT !.nullable = all.nullable, !.optional = all.optional]
UnionOf(reg, alias, all) ==
    LET lits == AllLiterals(all.ms)
        enum == IF lits /\ alias # "" THEN Named(Union(all.ms), alias) ELSE Union(all.ms)
    IN  TryDiscriminate(reg, Flagged(IF lits THEN WithChecks(enum, all.brand) ELSE enum, all))

\* A field's type m that has a name is registered, unless the name is taken.
RegisterOnce(s, name, m, id) == IF name \in DOMAIN s.reg THEN s ELSE Register(s, name, m, id)
UnionUnder(s, name, id, all) ==
    CASE Len(all.ms) = 0 -> Yield(s, Flagged(AnyType, all))
      [] Len(all.ms) = 1 ->
            Yield(s, Flagged(IF all.ms[1].kind = "literal" THEN WithChecks(all.ms[1], all.brand)
                             ELSE all.ms[1], all))
      [] Len(all.ms) > 1 /\ (s.depth <= 1 \/ name = "") ->
            Yield(s, UnionOf(s.reg, Graph[id].alias.name, all))
      [] Len(all.ms) > 1 /\ s.depth > 1 /\ name # "" ->
            Yield(RegisterOnce(s, name, UnionOf(s.reg, Graph[id].alias.name, all), id),
                  Flagged(Ref(name), all))
\* What is left once all the members are walked.
Leave(s, id) == [s EXCEPT !.visiting = @ \ {id}]
LeaveUnion(id, all) == UnionUnder(Leave(all.s, id), AliasName(all.s, id), id, all)

WalkUnion(s, id) ==
    IF id \in s.visiting THEN Yield(s, KnownAs(s, id))
    ELSE LeaveUnion(id, FoldLeft(LAMBDA acc, i : UnionMember(acc, Graph[id].members, i),
                                 [s |-> [s EXCEPT !.visiting = @ \cup {id}], ms |-> <<>>,
                                  nullable |-> FALSE, optional |-> FALSE, brand |-> NoConstraints],
                                 Graph[id].members))

\* A brand: walked, it is an object with phantom properties only.
IsPhantom(m) == m.kind = "object" /\ "phantom" \in DOMAIN m
PhantomChecks(ms) ==
    BrandedConstraints(FlattenSeq([i \in DOMAIN ms |-> IF IsPhantom(ms[i]) THEN ms[i].phantom ELSE <<>>]))

\* tryDetectBranded: one atomic type or literal, and phantom objects.
IsBranded(ms) ==
    /\ Cardinality({i \in DOMAIN ms : ms[i].kind \in {"atomic", "literal"}}) = 1
    /\ \E i \in DOMAIN ms : IsPhantom(ms[i])
    /\ \A i \in DOMAIN ms : ms[i].kind \in {"atomic", "literal"} \/ IsPhantom(ms[i])
Branded(ms) == WithChecks(ms[CHOOSE i \in DOMAIN ms : ms[i].kind \in {"atomic", "literal"}],
                          PhantomChecks(ms))

IntersectionUnder(s, name, id, flat) ==
    IF s.depth > 1 /\ flat.kind = "object" /\ id \notin DOMAIN s.pending /\ name # ""
    THEN Yield(RegisterOnce(s, name, flat, id), Ref(name)) ELSE Yield(s, flat)
LeaveIntersection(id, all) ==
    CASE Len(all.ms) = 1 -> Yield(Leave(all.s, id), all.ms[1])
      [] Len(all.ms) # 1 /\ IsBranded(all.ms) -> Yield(Leave(all.s, id), Branded(all.ms))
      [] Len(all.ms) # 1 /\ ~IsBranded(all.ms) ->
            IntersectionUnder(Leave(all.s, id), AliasName(all.s, id), id, TryFlatten(all.s.reg, all.ms))

WalkIntersection(s, id) ==
    IF id \in s.visiting THEN Yield(s, KnownAs(s, id))
    ELSE LeaveIntersection(id, WalkEach([s EXCEPT !.visiting = @ \cup {id}], Graph[id].members))

\* A property f whose type's walk gave r.
AddProperty(acc, f, r) ==
    LET m  == Bare(IF f.optional THEN OrUndef(r.m) ELSE r.m)
        cs == MergeConstraints(ChecksOf(r.m), JSDocConstraints(f.jsdoc))
        p  == Constrained([Prop(f.name, m) EXCEPT !.required = ~f.optional], cs)
    IN  [s |-> r.s, ps |-> Append(acc.ps, p @@ [home |-> "", bound |-> cs # NoConstraints])]
\* The tags are read at the symbol's ValueDeclaration, which of all object
\* types only classes have.
TagsRead(t) == IF t.class THEN t.jsdoc ELSE <<>>
\* The index signature: val is what the key type and the value type gave.
ObjectOf(t, name, ps, val) ==
    LET o == Strict(IF t.index = <<>> THEN Object(ps) ELSE Indexed(ps, val.ms[2]), StrictnessOf(TagsRead(t)))
                @@ [ignore |-> IgnoreOf(TagsRead(t))]
    IN  Yield(val.s, IF name = "" THEN o ELSE Named(o, name))
WithIndex(t, name, all) == ObjectOf(t, name, all.ps, WalkEach(all.s, t.index))
AnalyzeObjectProperties(s, id, name) ==
    WithIndex(Graph[id], name,
              FoldLeft(LAMBDA acc, f : AddProperty(acc, f, WalkType(acc.s, f.type)),
                       [s |-> s, ps |-> <<>>], Graph[id].props))

\* A named type has a breadth of its own while its properties are walked.
LeaveRegistered(r, id, name, walked) ==
    Yield(Register([Leave(r.s, id) EXCEPT !.walked = walked], name, r.m, id), Ref(name))
WalkRegistered(s, id, name) ==
    LeaveRegistered(AnalyzeObjectProperties([s EXCEPT !.visiting = @ \cup {id}, !.walked = 0], id, name),
                    id, name, s.walked)

TupleFrom(r, es) == Yield(r.s, Tuple([i \in DOMAIN es |-> Elem(r.ms[i], es[i].optional, es[i].rest)]))
WalkTuple(s, es) == TupleFrom(WalkEach(s, [i \in DOMAIN es |-> es[i].type]), es)
ArrayFrom(r) == Yield(r.s, ArrayOf(r.m))

\* Mutant: a type with a known name is walked again.
MutantObjectUnder(s, id, name, met) ==
    CASE name = "" -> AnalyzeObjectProperties(s, id, "")
      [] name # "" /\ met  -> Yield(s, Ref(name))
      [] name # "" /\ ~met -> WalkRegistered(s, id, name)
\* An object that is to have this name; met: the type is being walked.
ObjectUnder(s, id, name, met) ==
    CASE name = "" -> AnalyzeObjectProperties(s, id, "")
      [] name # "" /\ (met \/ name \in DOMAIN s.reg) -> Yield(s, Ref(name))
      [] name # "" /\ ~met /\ name \notin DOMAIN s.reg -> WalkRegistered(s, id, name)

\* An alias gives its name to a field's type, not to what a walk starts at
\* and not to the alias that WalkNamedType is walking.
NamesSubField(s, id) == s.depth > 1 /\ Graph[id].alias.name # "" /\ id \notin DOMAIN s.pending

\* Interfaces, classes and generic instantiations, and anonymous objects; of
\* these only the first are looked for among the types being walked.
WalkObject(s, id) ==
    LET t == Graph[id]
    IN  CASE t.symbol # "" -> ObjectUnder(s, id, Compose(s, t.symbol, t.args), id \in s.visiting)
          [] t.symbol = "" /\ id \in DOMAIN s.ids -> Yield(s, Ref(s.ids[id]))
          [] t.symbol = "" /\ id \notin DOMAIN s.ids ->
                ObjectUnder(s, id, IF NamesSubField(s, id) THEN AliasName(s, id) ELSE "", FALSE)

WalkObjectType(s, id) ==
    LET t == Graph[id]
    IN  CASE t.kind = "array"   -> ArrayFrom(WalkType(s, t.args[1]))
          [] t.kind = "tuple"   -> WalkTuple(s, t.elems)
          [] t.kind = "native"  -> Yield(s, DateType)
          [] t.kind = "wrapper" -> WalkType(s, t.args[1])
          [] t.kind = "brand"   -> Yield(s, Object(<<>>) @@ [phantom |-> t.tags])
          [] t.kind = "object"  -> WalkObject(s, id)

WalkSingleType(s, id) ==
    LET t == Graph[id]
    IN  CASE t.kind = "any"       -> Yield(s, AnyType)
          [] t.kind = "null"      -> Yield(s, Atomic("null"))
          [] t.kind = "undefined" -> Yield(s, Atomic("undefined"))
          [] t.kind = "literal"   -> Yield(s, Literal(t.value))
          [] t.kind = "atomic"    -> Yield(s, Atomic(t.atomic))
          [] OTHER                -> WalkObjectType(s, id)

Counted(s) == (IF s.depth = 0 THEN 0 ELSE s.walked) + 1

WalkBelow(s, id) ==
    CASE s.walked > MaxTotalTypes -> Yield(s, BreadthExceeded)
      [] s.walked <= MaxTotalTypes /\ Graph[id].kind = "union"        -> WalkUnion(s, id)
      [] s.walked <= MaxTotalTypes /\ Graph[id].kind = "intersection" -> WalkIntersection(s, id)
      [] OTHER -> WalkSingleType(s, id)

\* The depth on the way out; r is what a walk yields.
UpTo(depth, r) == Yield([r.s EXCEPT !.depth = depth], r.m)

WalkType(s, id) ==
    IF s.depth >= MaxWalkDepth THEN Yield(s, DepthExceeded)
    ELSE UpTo(s.depth, WalkBelow([s EXCEPT !.depth = @ + 1, !.walked = Counted(s)], id))

(***************************************************************************)
(* The three ways in.                                                      *)
(***************************************************************************)
\* A declaration `type name = ...`.
WithoutPending(s, id) == [s EXCEPT !.pending = [i \in DOMAIN @ \ {id} |-> @[i]]]
\* What the walk of a declaration's type yields is registered under its name.
Declared(s, m, name, id) ==
    CASE Name(m) = "" /\ m.kind \in {"object", "union", "intersection"} /\ ~IsPhantom(m) ->
            Yield([s EXCEPT !.reg = (name :> Named(Home(m, name), name)) @@ @, !.ids = (id :> name) @@ @], Ref(name))
      [] Name(m) = "" /\ m.kind = "ref" -> Yield(s, Named(m, name))
      [] OTHER -> Yield(s, m)
Finished(r, name, id) == Declared(WithoutPending(r.s, id), r.m, name, id)
WalkNamedType(s, name, id) ==
    IF name \in DOMAIN s.reg THEN Yield(s, Ref(name))
    ELSE Finished(WalkType([s EXCEPT !.pending = (id :> name) @@ @], id), name, id)

\* An annotation whose text is the reference `written`, "" when it is no
\* reference or a wrapper.
AsWritten(r, written) == IF Name(r.m) = "" /\ written # "" THEN Yield(r.s, Named(r.m, written)) ELSE r
WalkTypeNode(s, id, written) == AsWritten(WalkType(s, id), written)

=============================================================================
