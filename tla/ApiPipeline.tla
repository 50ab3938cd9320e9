---------------------------- MODULE ApiPipeline ------------------------------
(***************************************************************************)
(* From the controllers of a program to what its clients use: the          *)
(* JavaScript that is written (internal/rewrite), the OpenAPI document     *)
(* (internal/openapi) and the TypeScript client (internal/sdkgen).  The    *)
(* three are made from one analysis and meet again when a client calls a   *)
(* handler.  Files are emitted in any order, and Go's maps are visited in  *)
(* any order.                                                              *)
(***************************************************************************)
EXTENDS ApiMeaning

CONSTANTS Data,          \* values of bodies and of answers
          UrlTexts       \* values of the parts of a URL, Undef for none

VARIABLES schemas,       \* the schemas of the document
          operations,    \* slot -> the operation's parameters, body and responses
          prints,        \* the table of fingerprints, <<>> before there is one
          signatures,    \* slot -> the types of the client's method
          types          \* types.ts
detail == <<schemas, operations, prints, signatures, types>>

Init == /\ OutlineInit
        /\ schemas = <<>> /\ operations = <<>> /\ prints = <<>> /\ signatures = <<>> /\ types = <<>>

\* Generate: the routes of the controllers in their order.
Document ==
    /\ DocumentRoute
    /\ LET x    == Head(todo)
           slot == SlotOf(x, program.opts)
           made == VersionedOperation(schemas, x.route, slot.path, VersionOr(x.version, program.opts), program.opts)
       IN  schemas' = made.named /\ operations' = Put(operations, slot, made.schema)
    /\ UNCHANGED <<prints, signatures, types>>

\* The document is written and read again: initFingerprints.
InitFingerprints ==
    /\ EndDocument
    /\ prints' \in Fingerprints(schemas)
    /\ UNCHANGED <<schemas, operations, signatures, types>>

ParseOperation(slot) ==
    /\ ParseSlot(slot)
    /\ LET op     == operations[slot]
           chosen == Chosen(op.responses)
       IN  \E status \in IF chosen = {} THEN {0} ELSE chosen :
               signatures' = Put(signatures, slot, ParseTypes(op, status, prints))
    /\ UNCHANGED <<schemas, operations, prints, types>>

\* Generate (sdkgen): names made safe, then the files.
WriteSdk ==
    /\ WriteMethods
    /\ signatures' = [slot \in DOMAIN signatures |-> RenameTypes(signatures[slot], schemas)]
    /\ types' = TypesFile(schemas)
    /\ UNCHANGED <<schemas, operations, prints>>

\* Whatever the steps add here, they are steps of the outline.
Next == \/ Document \/ InitFingerprints \/ WriteSdk
        \/ \E slot \in DOMAIN slots : ParseOperation(slot)
        \/ (BuildCompanionMap \/ StartDocument) /\ UNCHANGED detail
        \/ \E file \in Sources : EmitFile(file) /\ UNCHANGED detail

Spec == Init /\ [][Next]_<<outline, detail>>

-----------------------------------------------------------------------------
(* What the source says, and the cases that the properties leave out.      *)

MethodsNamed(class, name) ==
    UNION {{<<program.classes[c], program.classes[c].methods[k]>> :
              k \in {j \in DOMAIN program.classes[c].methods : program.classes[c].methods[j].name = name}}
           : c \in {b \in DOMAIN program.classes : program.classes[b].name = class}}
IsRewritten(cls, mt) == IsRoute(cls, mt) /\ ~UsesRawResponse(mt)

\* The rewriter looks for a function by a text: one name must not end in the
\* other, and no parameter list may hold a parenthesis or a pattern.
CanTell(file) ==
    /\ \A i, j \in DOMAIN file.functions : i # j => j \notin Matching(file.functions, file.functions[i].name)
    /\ \A i \in DOMAIN file.functions : file.functions[i].simple
    /\ \A c, d \in {file.functions[i].class : i \in DOMAIN file.functions} : <<c, d>> \notin NameEnds
HasPattern(mt) == \E i \in DOMAIN mt.params : mt.params[i].local = ""

\* The parameters that are to be checked: whole ones of a type with a
\* companion, and a number or a boolean that is asked for by name.
IsWhole(p) == p.category = "body" \/ (p.name = "" /\ p.category \in {"query", "param", "headers"})
IsChecked(p) == IsWhole(p) /\ p.type.kind = "ref" /\ Name(p.type) \in {"", p.type.ref}
                /\ p.type.ref \in DOMAIN companions /\ p.content # "multipart/form-data"
IsScalar(p, atomic) == ~IsWhole(p) /\ p.category \in {"query", "param"} /\ p.type.kind = "atomic" /\ p.type.atomic = atomic

\* assert lets every value of a union pass, and knows nothing of `| null`
\* around the name (Calls, AssertExact).
IsUnsure(name) == HasOpenUnion(name) \/ HasWritingMember(name)
ParameterChecked(p, fn, file) ==
    LET mine  == SelectSeq(fn.lines, LAMBDA l : l.var = p.local)
        run(v) == RunHandler([fn EXCEPT !.lines = mine], file, p.local :> v)
        after(v) == run(v).env[p.local]
    IN  CASE IsChecked(p) -> \A v \in Data :
                /\ run(v).verdict # "throws"
                /\ run(v).verdict = "ok" =>
                       IsUnsure(p.type.ref) \/ Belongs(Ref(p.type.ref), after(v), AssertedDegree(p.type.ref))
                /\ Belongs(Ref(p.type.ref), v, Full) => run(v).verdict = "ok"
          [] IsScalar(p, "number") -> \A v \in UrlTexts :
                /\ run(v).verdict = "ok" <=> ToNumber(v) # NaN
                /\ run(v).verdict = "ok" => after(v).tag = "number"
          [] IsScalar(p, "boolean") -> \A v \in UrlTexts :
                run(v) = Going(p.local :> Coerce(p.type, v))
          [] OTHER -> mine = <<>>

\* What the caller should get for data of type t.
Awaited(t) ==
    LET dto == IF t.kind = "array" THEN t.elem ELSE t
    IN  CASE dto.kind = "ref" /\ dto.ref \in DOMAIN companions -> Outcome("json", dto.ref)
          [] PrimitiveReturn(t) # "" -> Outcome("json", PrimitiveReturn(t))
          [] OTHER -> Outcome("data", "")

\* Returns that go wrong: a conditional expression of promises, null for a
\* type that is not primitive, elements that are lists, more than one route.
IsSingle(cls, mt) == mt.verb # "All" /\ Len(mt.paths) < 2 /\ Len(cls.paths) < 2
Reliable(ret, t) == /\ ret.op # "choice"
                    /\ ret.op = "null" => PrimitiveReturn(t) # ""
                    /\ ~(t.kind = "array" /\ t.elem.kind = "array")

ReturnsServed(cls, mt, source, fn, file) ==
    LET t == ReturnTypeOf(mt)
        sse == mt.verb \in EventVerbs
    IN  \A k \in DOMAIN fn.returns :
          LET result == Returned(fn.returns[k])
          IN  IF ~fn.returns[k].top \/ sse THEN fn.returns[k] = source.returns[k]
              ELSE (Reliable(source.returns[k], t) /\ IsSingle(cls, mt)) =>
                    /\ IF source.returns[k].op = "null" THEN result.state = "json" ELSE result = Awaited(t)
                    /\ result.state = "json" =>
                          [class |-> cls.name, via |-> Common, name |-> SerializeInterceptor] \in ToSet(file.decorators)

EventsServed(cls, mt, file) ==
    LET variants == EventVariants(ReturnTypeOf(mt))
    IN  (mt.verb = "EventStream" /\ ~file.reflects) =>
          \A i \in DOMAIN variants : variants[i].data.kind = "ref" /\ variants[i].data.ref \in DOMAIN companions =>
            \E x \in ToSet(file.metadata) :
                /\ x.class = cls.name /\ x.method = mt.name
                /\ [event |-> IF variants[i].event = "" THEN "*" ELSE variants[i].event,
                    type |-> variants[i].data.ref] \in ToSet(x.entries)

-----------------------------------------------------------------------------
\* Whatever files are emitted before and whichever declaration the companion
\* map prefers, a handler runs with values of its parameters' types or not at
\* all, takes every value of the type, gives JSON of its own type back once,
\* and no other function of the file has changed.  Left out: names that the
\* search by text cannot tell apart (CanTell), patterns, Reliable, unions that
\* assert lets pass (IsUnsure), and of a type with a constraint that assert
\* does not ask for, @strict or an index signature, just these
\* (AssertedDegree): such a body does reach the handler.  What an ES module with
\* an interceptor would do if it could be loaded (CallsBound, Common).
HandlersChecked ==
    \A source \in Sources : (source.name \in DOMAIN emitted /\ CanTell(source) /\ ImportsApart(source)) =>
        LET file == emitted[source.name]
        IN  \A i \in DOMAIN source.functions :
              LET old == source.functions[i]
                  new == file.functions[i]
                  ms  == {m \in MethodsNamed(old.class, old.name) : m[1].file = source.name /\ IsRewritten(m[1], m[2])}
              IN  /\ ms = {} => new = old
                  /\ \A m \in ms : ~HasPattern(m[2]) =>
                        /\ \A p \in ToSet(Parameters(m[2])) : ParameterChecked(p, new, file)
                        /\ {l.var : l \in ToSet(new.lines)} \subseteq {p.local : p \in ToSet(Parameters(m[2]))}
                        /\ ReturnsServed(m[1], m[2], old, new, file)
                        /\ EventsServed(m[1], m[2], file)

-----------------------------------------------------------------------------
\* The types of the program, and what they refer to.
DeepTerms(t) == Terms(t) \cup UNION {Terms(Registry[n]) : n \in RefClosure(RefsIn(t)) \cap DOMAIN Registry}
ProgramTypes == UNION {UNION {TypesUsed(m) : m \in ToSet(program.classes[c].methods)} : c \in DOMAIN program.classes}
\* Two types of one name (instances of a generic one): the first is documented.
SharesName(t) ==
    \E a \in DeepTerms(t) : \E b \in UNION {DeepTerms(u) : u \in ProgramTypes} :
        a.kind = "ref" /\ b.kind = "ref" /\ Name(a) # "" /\ Name(a) = Name(b) /\ a.ref # b.ref
HasOptionalElement(t) ==
    \E a \in DeepTerms(t) : a.kind = "tuple" /\ \E i \in DOMAIN a.elems : a.elems[i].optional \/ a.elems[i].rest

DocumentDegree == Degree(Keywords \cup {"startsWith"}, TRUE, TRUE)
\* The schema allows what the type has, as JSON, and nothing else.
Describes(schema, t) ==
    /\ \A v \in Data : Belongs(Required(t), v, Full) => Allows(schemas, schema, Plain(v))
    /\ \A j \in {Plain(v) : v \in Data} : Allows(schemas, schema, j) =>
          \E v \in Data : Plain(v) = j /\ Belongs(t, v, DocumentDegree)

\* A mapping leads every value to the one member that allows it.
MappingRight(s) ==
    s.disc # "" => \A v \in Data : Allows(schemas, s, v) => \A m \in s.mapping :
        v.p[s.disc] = Str(m[1]) => m[2] \in DOMAIN schemas /\ Allows(schemas, schemas[m[2]], v)

OperationsOf(name, method) ==
    {operations[s] : s \in {q \in DOMAIN operations : slots[q] = [class |-> name, method |-> method]}}
OperationSchemas(op) ==
    {p.schema : p \in ToSet(op.params)} \cup {op.body[i].schema : i \in DOMAIN op.body}
    \cup UNION {ToSet(op.responses[s].schema) : s \in DOMAIN op.responses}

ParametersDescribed(op, mt) ==
    \A p \in ToSet(Parameters(mt)) : p.category # "body" =>
        IF p.name # ""
        THEN \E q \in ToSet(op.params) : q.name = p.name /\ q.in = Place[p.category] /\ Describes(q.schema, p.type)
        ELSE p.category # "param" => \A x \in ToSet(PropsOf(Resolved(p.type))) : \E q \in ToSet(op.params) :
                q.name = x.name /\ q.in = Place[p.category] /\ q.required = x.required /\ Describes(q.schema, x.type)

PathVars(path) == {seg.name : seg \in {x \in ToSet(path) : x.var}}

\* A finished document describes the bodies, parameters and responses of the
\* program's own types, whatever was registered before under their names; no
\* reference dangles, mappings agree with the members, and each variable of a
\* path has a parameter.
DocumentFaithful ==
    (phase = "document" /\ todo = <<>>) =>
        /\ \A s \in UNION {SubSchemas(r) : r \in {schemas[n] : n \in DOMAIN schemas}
                                                 \cup UNION {OperationSchemas(operations[k]) : k \in DOMAIN operations}} :
              (s.ref # "" => s.ref \in DOMAIN schemas) /\ MappingRight(s)
        /\ \A slot \in DOMAIN operations : \A x \in PathVars(slot.path) :
              \E p \in ToSet(operations[slot].params) : p.name = x /\ p.in = "path" /\ p.required
        /\ \A cls \in ToSet(program.classes) : \A mt \in ToSet(cls.methods) :
             \A op \in OperationsOf(cls.name, mt.name) :
                LET clear(t) == ~SharesName(t) /\ ~HasOptionalElement(t)
                    sse  == mt.verb \in EventVerbs
                    body == SelectSeq(Parameters(mt), LAMBDA p : p.category = "body")
                    answer(ret) == \E s \in DOMAIN op.responses :
                        op.responses[s].schema # <<>> /\ Describes(op.responses[s].schema[1], ret)
                IN  /\ body # <<>> => (clear(Last(body).type) => Describes(op.body[1].schema, Last(body).type))
                    /\ ParametersDescribed(op, mt)
                    /\ (~sse /\ ReturnTypeOf(mt).kind # "void" /\ clear(ReturnTypeOf(mt))) => answer(ReturnTypeOf(mt))
                    /\ \A i \in DOMAIN mt.returns : clear(mt.returns[i].type) => answer(mt.returns[i].type)

-----------------------------------------------------------------------------
\* Schemas whose TypeScript says something else: an array of an alternative
\* that begins with a parenthesis and does not end with it, an object with
\* keys and others, an inline object that looks like a component by its
\* fingerprint and is not, and the names that are TypeScript's own.
IsMixed(s) == s.type = "object" /\ s.extra # <<>> /\ s.props # <<>>
Slips(s) == s.type = "array" /\ s.items # <<>> /\
    LET item == ToTS(s.items[1], Node) IN Len(item) > 1 /\ BeginsWithParen(item)
Mistaken(s) ==
    \E n \in Fingerprinted(schemas) :
        /\ s.ref = "" /\ s.type = "object" /\ s.props # <<>>
        /\ SchemaFingerprint(schemas[n]) = SchemaFingerprint(s)
        /\ FieldsOf(schemas[n], Node) # FieldsOf(s, Node)
Reached(s) == LET refs(S) == {x.ref : x \in S} \cap DOMAIN schemas
                  one == SubSchemas(s)
                  two == one \cup UNION {SubSchemas(schemas[n]) : n \in refs(one)}
                  three == two \cup UNION {SubSchemas(schemas[n]) : n \in refs(two)}
              IN  three
Builtin(s) == \E x \in Reached(s) : Colliding(schemas) \cap
                ({v.s : v \in {u \in x.enum \cup ToSet(x.const) : u.tag = "string"}} \cup {x.props[i].name : i \in DOMAIN x.props}) # {}
Plainly(s) == \A x \in Reached(s) : ~IsMixed(x) /\ ~Slips(x) /\ ~Mistaken(x)

\* The types of the client hold every value that the document allows in a
\* body or an answer, they all exist, the call of a method must name what the
\* document requires and what is in its path, and no two methods of a file
\* have one name but for the routes of one handler.
SdkFaithful ==
    phase = "written" =>
        /\ \A slot \in DOMAIN operations :
             LET op == operations[slot]
                 mt == signatures[slot]
                 fits(s, t) == (Plainly(s) /\ ~Builtin(s)) =>
                     \A v \in Data : Allows(schemas, s, Plain(v)) => Holds(types, t, Plain(v))
                 texts == {o.text : o \in mt.params \cup mt.query} \cup {mt.response.text}
                          \cup ToSet(mt.response.event) \cup {mt.body[i].text : i \in DOMAIN mt.body}
             IN  /\ \A t \in texts \cup {types[n] : n \in DOMAIN types} : NamesIn(t) \subseteq DOMAIN types
                 /\ op.body # <<>> => fits(op.body[1].schema, mt.body[1].text)
                 /\ mt.response.content = "application/json" =>
                       fits(op.responses[mt.response.status].schema[1], mt.response.text)
                 /\ \A p \in ToSet(op.params) : p.in = "query" =>
                       \E o \in mt.query : o.name = p.name /\ o.required = p.required /\ fits(p.schema, o.text)
                 /\ PathVars(methods[slot].path) \subseteq {o.name : o \in mt.params}
        /\ \A d \in DOMAIN files.of : \A a, b \in files.of[d] : (a # b /\ methods[a].name = methods[b].name) =>
              \E cls \in ToSet(program.classes) : cls.name = methods[a].controller /\
                 (program.opts.versioning = "URI" =>
                    \E mt \in ToSet(cls.methods) : mt.name = methods[a].name /\ ~IsSingle(cls, mt))

-----------------------------------------------------------------------------
\* A parameter that the document calls optional may be left out: the handler
\* is reached.  (It is not: absence is no number.)
OptionalMayBeAbsent ==
    (phase = "document" /\ todo = <<>>) =>
        \A source \in Sources : \A i \in DOMAIN source.functions :
            LET fn == source.functions[i]
            IN  \A m \in MethodsNamed(fn.class, fn.name) : \A op \in OperationsOf(fn.class, fn.name) :
                  \A q \in ToSet(op.params) : \A p \in ToSet(Parameters(m[2])) :
                    (~q.required /\ p.name = q.name) =>
                        LET new == emitted[source.name].functions[i]
                        IN  RunHandler([new EXCEPT !.lines = SelectSeq(@, LAMBDA l : l.var = p.local)],
                                       emitted[source.name], p.local :> Undef).verdict = "ok"

\* Each instance of a generic type has a schema of its own: an answer of the
\* type is allowed by the schema of its operation.
InstancesTold ==
    (phase = "document" /\ todo = <<>>) =>
        \A cls \in ToSet(program.classes) : \A mt \in ToSet(cls.methods) :
            \A op \in OperationsOf(cls.name, mt.name) :
                \A v \in Data : Belongs(ReturnTypeOf(mt), v, Full) =>
                    Allows(schemas, op.responses[200].schema[1], Plain(v))

=============================================================================
