---------------------------- MODULE TypeAnalysis ----------------------------
(***************************************************************************)
(* From a program's types to its companions: the controller analyzer walks *)
(* the annotations of the routes (internal/analyzer/routes.go), the names  *)
(* that need a companion are collected, the declarations with these names  *)
(* are walked with the same walker, coercion is turned on for the types of *)
(* query objects, and one goroutine per file generates the companions      *)
(* (cmd/tsgonest/companions.go).                                           *)
(*                                                                         *)
(* The files of a program come in an order that nobody chose: annotations  *)
(* and declarations are walked in any order.                               *)
(***************************************************************************)
EXTENDS TypeWalker

CONSTANT Programs

(***************************************************************************)
(* A program: the uses of types by its routes, its type declarations, the  *)
(* names in its marker calls, the names that transforms.exclude matches    *)
(* and values to ask its companions about.                                 *)
(* A use: what for (of), the type, the name written in the annotation ("", *)
(* when it is no reference) and whether it is a whole object.  `unwrapped` *)
(* is the name written inside Promise<> and the other wrappers.            *)
(***************************************************************************)
Use(of, type, written) == [of |-> of, type |-> type, written |-> written, unwrapped |-> "",
                           whole |-> TRUE]
Unwrapped(u, n)        == [u EXCEPT !.written = "", !.unwrapped = n]
Scalar(of, type)       == [Use(of, type, "") EXCEPT !.whole = FALSE]
Declaration(n, kind, type, file) == [name |-> n, kind |-> kind, type |-> type, file |-> file]

VARIABLES program,
          uses,        \* uses of types that are not analysed yet
          found,       \* [use, m]: what the analysis found for the others
          registry,    \* walker.registry
          names,       \* walker.typeIdToName
          decls,       \* declarations that are not walked yet
          walked,      \* [decl, m]: the types of generateCompanionsInMemory
          companions,  \* [decl, m]: generated companions, m their type
          phase        \* "analyse", "walk" or "generate"

vars == <<program, uses, found, registry, names, decls, walked, companions, phase>>
walker == Start(registry, names)

\* What walked and generated code means: the types of the registry.
Types == INSTANCE Conformance WITH Registry <- registry, Trimmed <- <<>>, Lowered <- <<>>,
                                   Uppered <- <<>>, Numerals <- <<>>

-----------------------------------------------------------------------------
RECURSIVE Coerced(_), CoercedProp(_)

IsNumberOrBoolean(m) == m.kind = "atomic" /\ m.atomic \in {"number", "boolean"}

CoercedProp(p) == [p EXCEPT !.coerce = @ \/ IsNumberOrBoolean(p.type), !.type = Coerced(p.type)]

\* AutoEnableCoercion
Coerced(m) ==
    CASE m.kind = "object" -> [m EXCEPT !.props = [i \in DOMAIN m.props |-> CoercedProp(m.props[i])]]
      [] m.kind = "array"  -> [m EXCEPT !.elem = Coerced(@)]
      [] OTHER             -> m

(***************************************************************************)
(* AutoEnableCoercion writes through pointers.  The shared parts of m's    *)
(* properties are told apart by home and name; Reached rewrites whatever   *)
(* else has one of these cells.  A property without Constraints gets an    *)
(* object of its own, which no copy sees.                                  *)
(***************************************************************************)
RECURSIVE Cells(_), Reached(_, _)

Cells(m) ==
    CASE m.kind = "object" -> UNION {{<<p.home, p.name>>} \cup Cells(p.type) : p \in ToSet(m.props)}
      [] m.kind = "array"  -> Cells(m.elem)
      [] OTHER             -> {}

ReachedProp(p, cells) ==
    IF p.home = "" \/ <<p.home, p.name>> \notin cells THEN [p EXCEPT !.type = Reached(@, cells)]
    ELSE [p EXCEPT !.coerce = @ \/ (p.bound /\ IsNumberOrBoolean(p.type)),
                   !.type = Reached(Coerced(@), cells)]
Reached(m, cells) ==
    CASE m.kind = "object" -> [m EXCEPT !.props = [i \in DOMAIN m.props |-> ReachedProp(m.props[i], cells)]]
      [] m.kind = "array"  -> [m EXCEPT !.elem = Reached(@, cells)]
      [] m.kind \in {"union", "intersection"} ->
            [m EXCEPT !.members = [i \in DOMAIN m.members |-> Reached(m.members[i], cells)]]
      [] m.kind = "tuple"  -> [m EXCEPT !.elems = [i \in DOMAIN m.elems |->
                                                    [m.elems[i] EXCEPT !.type = Reached(@, cells)]]]
      [] OTHER             -> m

\* What holds metadata afterwards: the registry, and lists of the analysis.
ReachedAll(reg, cells)    == [n \in DOMAIN reg |-> Reached(reg[n], cells)]
ReachedEach(held, cells)  == {[w EXCEPT !.m = Reached(@, cells)] : w \in held}

\* analyzeParameter and extractReturnType: a use's metadata, the walker
\* afterwards and the cells that coercion has written.
CoercedFor(u, r) == IF u.of \in {"query", "param"} THEN Yield(r.s, Coerced(r.m)) @@ [cells |-> Cells(r.m)]
                    ELSE r @@ [cells |-> {}]
WalkUse(s, u) == CoercedFor(u, AsWritten(WalkTypeNode(s, u.type, u.written), u.unwrapped))

\* collectTypeNamesFromMetadata
NamesOf(m) == {Name(m)} \cup (IF m.kind = "ref" THEN {m.ref} ELSE {})
\* Mutant: what the annotation calls a type is not collected.
MutantCollectNames(m) ==
    (IF m.kind = "ref" THEN {m.ref} ELSE {}) \cup (IF m.kind = "array" THEN NamesOf(m.elem) ELSE {})
CollectNames(m) == (NamesOf(m) \cup (IF m.kind = "array" THEN NamesOf(m.elem) ELSE {})) \ {""}

\* collectNeededTypes and collectCoercionTypes
NeededFor(w) ==
    LET written == {w.use.written} \ {""}
    IN  CASE w.use.of = "body"   -> written \cup CollectNames(w.m)
          [] w.use.of = "return" -> CollectNames(w.m)
          [] OTHER               -> IF w.use.whole THEN written ELSE {}
Needed == (UNION {NeededFor(w) : w \in found} \cup program.calls) \ program.excluded
CoercionTypes ==
    {w.use.written : w \in {x \in found : x.use.of \in {"query", "param", "headers"} /\ x.use.whole}} \ {""}

-----------------------------------------------------------------------------
Init ==
    /\ program \in Programs
    /\ uses = program.uses
    /\ decls = program.decls
    /\ found = {} /\ walked = {} /\ companions = {}
    /\ registry = <<>> /\ names = <<>>
    /\ phase = "analyse"

AnalyseUse(u) ==
    /\ phase = "analyse"
    /\ \E r \in {WalkUse(walker, u)} :
          /\ found' = ReachedEach(found, r.cells) \cup {[use |-> u, m |-> r.m]}
          /\ registry' = ReachedAll(r.s.reg, r.cells)
          /\ names' = r.s.ids
    /\ uses' = uses \ {u}
    /\ UNCHANGED <<program, decls, walked, companions, phase>>

\* The declarations without a needed name are passed over.
CollectNeededTypes ==
    /\ phase = "analyse" /\ uses = {}
    /\ decls' = {d \in decls : d.name \in Needed}
    /\ phase' = "walk"
    /\ UNCHANGED <<program, uses, found, registry, names, walked, companions>>

WalkDeclaration(d) ==
    /\ phase = "walk"
    /\ \E r \in {IF d.kind = "alias" THEN WalkNamedType(walker, d.name, d.type)
                ELSE WalkType(walker, d.type)} :
          /\ walked' = walked \cup {[decl |-> d, m |-> r.m]}
          /\ registry' = r.s.reg
          /\ names' = r.s.ids
    /\ decls' = decls \ {d}
    /\ UNCHANGED <<program, uses, found, companions, phase>>

EnableCoercion ==
    /\ phase = "walk" /\ decls = {}
    /\ \E cells \in {UNION {Cells(registry[n]) : n \in CoercionTypes \cap DOMAIN registry}} :
          /\ registry' = ReachedAll([n \in DOMAIN registry |->
                              IF n \in CoercionTypes THEN Coerced(registry[n]) ELSE registry[n]], cells)
          /\ found' = ReachedEach(found, cells)
          /\ walked' = ReachedEach(walked, cells)
    /\ phase' = "generate"
    /\ UNCHANGED <<program, uses, names, decls, companions>>

\* GenerateCompanionFiles for one declaration: its type, looked up once.
Resolved(m) == IF m.kind = "ref" /\ m.ref \in DOMAIN registry THEN registry[m.ref] ELSE m
Ignored(m) == "ignore" \in DOMAIN m /\ m.ignore = "all"
GenerateCompanion(w) ==
    /\ phase = "generate"
    /\ companions' = IF /\ Resolved(w.m).kind \in {"object", "union", "array", "intersection", "atomic"}
                        /\ ~Ignored(Resolved(w.m))
                     THEN companions \cup {[decl |-> w.decl, m |-> Resolved(w.m)]} ELSE companions
    /\ walked' = walked \ {w}
    /\ UNCHANGED <<program, uses, found, registry, names, decls, phase>>

Next ==
    \/ \E u \in uses : AnalyseUse(u)
    \/ CollectNeededTypes
    \/ \E d \in decls : WalkDeclaration(d)
    \/ EnableCoercion
    \/ \E w \in walked : GenerateCompanion(w)

Spec == Init /\ [][Next]_vars
Done == phase = "generate" /\ walked = {}

-----------------------------------------------------------------------------
(* What a type of the checker means: the values TypeScript gives it, with  *)
(* the constraints of its tags.  A property's JSDoc replaces the tags of   *)
(* the same kind (over).                                                   *)
RECURSIVE Inhabits(_, _, _)

Demands(tag) == ChecksFor(ExtractConstraintValue(NoConstraints, tag.key, tag.v))

PropInhabited(f, v) ==
    LET x == Get(v, f.name)
        doc == JSDocConstraints(f.jsdoc)
    IN  \/ f.optional /\ x = Undef
        \/ /\ Inhabits(f.type, x, DOMAIN doc)
           /\ \A c \in ChecksFor(doc) : Guarded(c, x)

TupleInhabited(es, v) ==
    /\ v.tag = "array"
    /\ \A i \in DOMAIN es :
          \/ es[i].rest
          \/ es[i].optional /\ i > Len(v.e)
          \/ i <= Len(v.e) /\ Inhabits(es[i].type, v.e[i], {})

Inhabits(id, v, over) ==
    LET t == Graph[id]
    IN  CASE t.kind = "atomic"    -> v.tag = t.atomic
          [] t.kind = "literal"   -> v = t.value
          [] t.kind = "null"      -> v = Null
          [] t.kind = "undefined" -> v = Undef
          [] t.kind = "native"    -> v = Date
          [] t.kind = "array"     -> v.tag = "array" /\ \A i \in DOMAIN v.e : Inhabits(t.args[1], v.e[i], {})
          [] t.kind = "tuple"     -> TupleInhabited(t.elems, v)
          [] t.kind = "wrapper"   -> Inhabits(t.args[1], v, {})
          [] t.kind = "union"     -> \E i \in DOMAIN t.members : Inhabits(t.members[i], v, over)
          [] t.kind = "intersection" -> \A i \in DOMAIN t.members : Inhabits(t.members[i], v, over)
          [] t.kind = "brand"     ->
                \A i \in DOMAIN t.tags : \A c \in Demands(t.tags[i]) : c.kind \in over \/ Guarded(c, v)
          [] t.kind = "object"    ->
                /\ IsObject(v)
                /\ \A i \in DOMAIN t.props : PropInhabited(t.props[i], v)
                /\ "strict" \in ToSet(t.jsdoc) => Keys(v) \subseteq {t.props[i].name : i \in DOMAIN t.props}
                /\ t.index # <<>> => \A k \in Keys(v) \ {t.props[i].name : i \in DOMAIN t.props} :
                                        Inhabits(t.index[2], v.p[k], {})
          [] OTHER -> TRUE

Accepts(m, v) == Types!Belongs(m, v, Types!Full)
\* A @strict that the walker never sees, on an interface or a type literal.
LosesStrict(id) == /\ Graph[id].kind = "object" /\ ~Graph[id].class
                   /\ StrictnessOf(Graph[id].jsdoc) = "strict"
\* Two declarations of a program have this name.
Ambiguous(n) == \E d, e \in program.decls : d # e /\ d.name = n /\ e.name = n

-----------------------------------------------------------------------------
\* Everything walked has left the walker as it found it: the registry and
\* the names are all that one walk hands to the next, and no name is given
\* to a type that the registry lacks.
TypesOK ==
    /\ program \in Programs
    /\ uses \subseteq program.uses /\ decls \subseteq program.decls
    /\ {w.use : w \in found} = program.uses \ uses
    /\ phase \in {"analyse", "walk", "generate"}
    /\ DOMAIN names \subseteq DOMAIN Graph /\ {names[i] : i \in DOMAIN names} \subseteq DOMAIN registry

\* When companions are generated, the metadata of an annotation and the
\* companion of a declaration accept the values of the type and no others,
\* whatever was walked before: members met while they are being walked, names
\* met before and what earlier walks have counted must not show.  An interface
\* or type literal with @strict is the exception: its tag is not read, and it
\* takes values with other properties, but still all that it should.
MeansWhat(m, id) ==
    \A v \in program.values : /\ Inhabits(id, v, {}) => Accepts(m, v)
                              /\ Accepts(m, v) => Inhabits(id, v, {}) \/ LosesStrict(id)
Faithful == phase = "generate" =>
    /\ \A w \in found : MeansWhat(w.m, w.use.type)
    /\ \A c \in companions : ~Ambiguous(c.decl.name) => MeansWhat(c.m, c.decl.type)

Everything == {w.m : w \in found} \cup {w.m : w \in walked} \cup {registry[n] : n \in DOMAIN registry}

\* A discriminated union's mapping leads a value to a member it belongs to
\* whenever there is one: the generated switch looks at no other member.
Discriminates ==
    \A t \in UNION {Types!Terms(m) : m \in Everything} :
        (t.kind = "union" /\ t.disc # "") =>
            \A v \in program.values : \A i \in DOMAIN t.members :
                Accepts(t.members[i], v) =>
                    /\ TextOf(Get(v, t.disc)) \in DOMAIN t.mapping
                    /\ t.mapping[TextOf(Get(v, t.disc))] = i

\* When companions are generated, no reference is left dangling: a name that
\* metadata refers to has an entry, so that no generated check is empty and
\* no $ref leads nowhere.  An annotation's alias is not registered where it
\* is used; its declaration is walked later, for being needed.
RefsResolve == phase = "generate" => \A m \in Everything : Types!RefClosure(Types!RefsIn(m)) \subseteq DOMAIN registry

\* A registered type is never replaced, and it changes only by coercion: in
\* the last step before the companions are generated, when a query is declared
\* by its name, and wherever it shares a property with the type of a query: in
\* the analysis of a query whose type was flattened from it, and in the last
\* step.  There the shared properties change and no others; a type that no
\* query names is then coerced in part.
QueryTypes ==
    {w.m : w \in {x \in found' : x.use \in uses \ uses' /\ x.use.of \in {"query", "param"}}}
    \cup {registry[q] : q \in {n \in CoercionTypes \cap DOMAIN registry : phase' # phase}}
Shares(p, ms) == \E m \in ms : ({<<p.home, p.name>>} \cup Cells(p.type)) \cap Cells(m) # {}
RegistryStable ==
    [][\A n \in DOMAIN registry :
          /\ n \in DOMAIN registry'
          /\ Coerced(registry'[n]) = Coerced(registry[n])
          /\ registry'[n] # registry[n] =>
                \/ phase' # phase /\ n \in CoercionTypes
                \/ \A i \in DOMAIN registry[n].props :
                      registry'[n].props[i] # registry[n].props[i] =>
                          Shares(registry[n].props[i], QueryTypes)]_registry

\* The companion for a whole query object takes every number and boolean of
\* the declared object from text, in its arrays and inline objects too.
RECURSIVE IsCoerced(_)
IsCoerced(m) ==
    CASE m.kind = "object" -> \A i \in DOMAIN m.props :
                                 /\ IsNumberOrBoolean(m.props[i].type) => m.props[i].coerce
                                 /\ IsCoerced(m.props[i].type)
      [] m.kind = "array"  -> IsCoerced(m.elem)
      [] OTHER             -> TRUE

=============================================================================
