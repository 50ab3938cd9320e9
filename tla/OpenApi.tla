------------------------------ MODULE OpenApi -------------------------------
(***************************************************************************)
(* The OpenAPI generator (internal/openapi): JSON Schemas from metadata,   *)
(* operations from routes, the document from controllers.  A schema is a   *)
(* record with the keywords the properties tell apart, Blank when it       *)
(* allows everything.                                                      *)
(***************************************************************************)
EXTENDS Routes, Conformance

Blank == [ref |-> "", type |-> "", format |-> "", enum |-> {}, const |-> <<>>,
          props |-> <<>>, required |-> {}, closed |-> FALSE, extra |-> <<>>, items |-> <<>>, prefix |-> <<>>,
          anyOf |-> <<>>, oneOf |-> <<>>, allOf |-> <<>>, disc |-> "", mapping |-> {},
          checks |-> {}, content |-> <<>>]
OfType(t)    == [Blank EXCEPT !.type = t]
RefTo(n)     == [Blank EXCEPT !.ref = n]
EnumOf(vs)   == [Blank EXCEPT !.enum = vs]
AnyOf(ss)    == [Blank EXCEPT !.anyOf = ss]
AllOf(ss)    == [Blank EXCEPT !.allOf = ss]
Key(n, s)    == [name |-> n, schema |-> s]
ObjectOf(keys, required) == [OfType("object") EXCEPT !.props = keys, !.required = required]

(***************************************************************************)
(* Constraints: some have a keyword, a text's start or end becomes a       *)
(* pattern when there is none, and the others are not documented.          *)
(***************************************************************************)
Keywords == {"minimum", "maximum", "exclusiveMinimum", "exclusiveMaximum", "multipleOf", "minLength",
             "maxLength", "pattern", "format", "minItems", "maxItems", "uniqueItems"}
HasKind(cs, kinds) == \E c \in cs : c.kind \in kinds
Documented(c, cs) ==
    \/ c.kind \in Keywords
    \/ c.kind = "startsWith" /\ ~HasKind(cs, {"pattern"})
    \/ c.kind = "endsWith" /\ ~HasKind(cs, {"pattern", "startsWith"})
ApplyConstraints(s, cs) == [s EXCEPT !.checks = @ \cup {c \in cs : Documented(c, cs)}]

WrapNullable(s) == AnyOf(<<s, OfType("null")>>)

(***************************************************************************)
(* MetadataToSchema.  named is SchemaGenerator.schemas; a result is the    *)
(* schema and the named schemas afterwards.  Then goes on with both, Turn  *)
(* with the schema only.                                                   *)
(***************************************************************************)
Made(named, s)    == [named |-> named, schema |-> s]
Then(made, F(_, _)) == F(made.named, made.schema)
Turn(made, F(_))    == Made(made.named, F(made.schema))

AtomicSchema(t) == IF t.atomic = "bigint" THEN [OfType("integer") EXCEPT !.format = "int64"] ELSE OfType(t.atomic)
LiteralValues(members) == {members[i].value : i \in DOMAIN members}

RECURSIVE MetadataToSchema(_, _), ConvertAll(_, _), ConvertProps(_, _), ConvertType(_, _)

ConvertAll(named, types) ==
    IF types = <<>> THEN Made(named, <<>>)
    ELSE Then(MetadataToSchema(named, Head(types)),
              LAMBDA now, first : Turn(ConvertAll(now, Tail(types)), LAMBDA rest : <<first>> \o rest))

ConvertProps(named, props) ==
    Turn(ConvertAll(named, [i \in DOMAIN props |-> props[i].type]), LAMBDA all :
         [i \in DOMAIN props |-> Key(props[i].name, ApplyConstraints(all[i], props[i].checks))])

BuildObjectSchema(named, t) ==
    LET names == {t.props[i].name : i \in {j \in DOMAIN t.props : t.props[j].required}}
    IN  Then(ConvertProps(named, t.props), LAMBDA now, props : Turn(ConvertAll(now, t.index), LAMBDA extra :
            [ObjectOf(props, names) EXCEPT !.extra  = extra,
                                           !.closed = t.strictness = "strict" /\ t.index = <<>>]))

\* The discriminant's text is mapped to a member that became a reference.
Mapping(t, schemas) ==
    {<<k, schemas[t.mapping[k]].ref>> : k \in {j \in DOMAIN t.mapping : schemas[t.mapping[j]].ref # ""}}
BuildUnionSchema(named, t) ==
    Turn(ConvertAll(named, t.members), LAMBDA all :
         IF t.disc = "" THEN AnyOf(all)
         ELSE [Blank EXCEPT !.oneOf = all, !.disc = t.disc, !.mapping = Mapping(t, all)])

\* A schema by kind, with no regard to the name of the type itself.
BuildSchema(named, t) ==
    CASE t.kind = "object" -> BuildObjectSchema(named, t)
      [] t.kind = "union" /\ t.members = <<>> -> Made(named, Blank)
      [] t.kind = "union" /\ AllLiterals(t.members) -> Made(named, EnumOf(LiteralValues(t.members)))
      [] t.kind = "union" /\ t.members # <<>> /\ ~AllLiterals(t.members) -> BuildUnionSchema(named, t)
      [] t.kind = "intersection" -> Turn(ConvertAll(named, t.members), AllOf)
      [] t.kind = "enum" -> Made(named, EnumOf(t.values))
      [] OTHER -> ConvertType(named, t)

\* Mutant: the names that the type itself has registered are lost.
MutantRegisterSchema(named, n, t) ==
    IF n \in DOMAIN named THEN Made(named, RefTo(n))
    ELSE Then(BuildSchema(Put(named, n, Blank), t), LAMBDA now, s : Made(Put(named, n, s), RefTo(n)))
\* The first type that is converted under a name gives the schema; a
\* placeholder ends the recursion.
RegisterSchema(named, n, t) ==
    IF n \in DOMAIN named THEN Made(named, RefTo(n))
    ELSE Then(BuildSchema(Put(named, n, Blank), t), LAMBDA now, s : Made(Put(now, n, s), RefTo(n)))

\* convertRef: the name of the annotation goes before the registered one.
ConvertRef(named, t) ==
    LET n == IF Name(t) # "" THEN Name(t) ELSE t.ref
    IN  IF t.ref \in DOMAIN Registry THEN RegisterSchema(named, n, Registry[t.ref]) ELSE Made(named, RefTo(n))

ConvertTuple(named, t) ==
    Turn(ConvertAll(named, [i \in DOMAIN t.elems |-> t.elems[i].type]), LAMBDA all :
         [OfType("array") EXCEPT !.prefix = all,
                                 !.checks = IF t.elems = <<>> THEN {}
                                            ELSE {Limit("minItems", Len(t.elems)), Limit("maxItems", Len(t.elems))}])

ConvertType(named, t) ==
    CASE t.kind = "atomic"  -> Made(named, AtomicSchema(t))
      [] t.kind = "literal" -> Made(named, [Blank EXCEPT !.const = <<t.value>>])
      [] t.kind = "native"  -> Made(named, [OfType("string") EXCEPT !.format = "date-time"])
      [] t.kind = "array"   -> Turn(MetadataToSchema(named, t.elem),
                                    LAMBDA item : [OfType("array") EXCEPT !.items = <<item>>])
      [] t.kind = "tuple"   -> ConvertTuple(named, t)
      [] t.kind = "ref"     -> ConvertRef(named, t)
      [] t.kind \in {"object", "union", "intersection", "enum"} ->
            IF Name(t) # "" THEN RegisterSchema(named, Name(t), t) ELSE BuildSchema(named, t)
      [] t.kind = "never"   -> Made(named, OfType("object"))
      [] OTHER              -> Made(named, Blank)

MetadataToSchema(named, t) ==
    Turn(ConvertType(named, t), LAMBDA s : IF t.nullable THEN WrapNullable(s) ELSE s)

(***************************************************************************)
(* Operations.                                                             *)
(***************************************************************************)
Parameter(name, in, required, schema) == [name |-> name, in |-> in, required |-> required, schema |-> schema]

\* A whole object becomes a parameter per property, without its constraints.
Decompose(named, in, props) ==
    Turn(ConvertAll(named, [i \in DOMAIN props |-> props[i].type]), LAMBDA all :
         [i \in DOMAIN props |-> Parameter(props[i].name, in, props[i].required, all[i])])

Fallback == [query |-> "query", param |-> "id", headers |-> "headers"]
Place    == [query |-> "query", param |-> "path", headers |-> "header"]
PropsOf(t) == IF t.kind = "object" THEN t.props ELSE <<>>
ParameterName(p) == CASE p.name # "" -> p.name
                      [] p.name = "" /\ p.type.kind = "ref" /\ p.category # "param" -> ""
                      [] OTHER -> Fallback[p.category]
BuildParameter(named, p) ==
    LET in    == Place[p.category]
        whole == p.name = "" /\ p.category # "param"
                 /\ (p.type.kind = "object" \/ (p.type.kind = "ref" /\ p.type.ref \in DOMAIN Registry))
    IN  IF whole THEN Decompose(named, in, PropsOf(Resolved(p.type)))
        ELSE Turn(MetadataToSchema(named, p.type),
                  LAMBDA s : <<Parameter(ParameterName(p), in, p.required \/ p.category = "param", s)>>)

BuildBody(named, p) ==
    LET content == CASE p.content # "" -> p.content
                     [] p.content = "" /\ p.type.kind = "atomic" /\ p.type.atomic = "string" -> "text/plain"
                     [] OTHER -> "application/json"
    IN  Turn(MetadataToSchema(named, p.type),
             LAMBDA s : <<[required |-> p.required, schema |-> s, content |-> content]>>)

\* In their order; the body that is declared last counts.
Taking(params, body) == [params |-> params, body |-> body]
RECURSIVE BuildParameters(_, _)
BuildParameters(named, params) ==
    IF params = <<>> THEN Made(named, Taking(<<>>, <<>>))
    ELSE Then(IF Head(params).category = "body"
              THEN Turn(BuildBody(named, Head(params)), LAMBDA body : Taking(<<>>, body))
              ELSE Turn(BuildParameter(named, Head(params)), LAMBDA ps : Taking(ps, <<>>)),
              LAMBDA now, first : Turn(BuildParameters(now, Tail(params)), LAMBDA rest :
                  Taking(first.params \o rest.params, IF rest.body = <<>> THEN first.body ELSE rest.body)))

\* The data of an event is a text; its content has the schema of the type.
EventSchema(data, event, required) ==
    ObjectOf(<<Key("data", [OfType("string") EXCEPT !.content = data]),
               Key("event", [OfType("string") EXCEPT !.const = event]),
               Key("id", OfType("string")), Key("retry", OfType("integer"))>>, required)
IsTyped(t) == t.kind \notin {"any", "void"}

BuildEventStreamSchema(named, variants) ==
    LET one(v, s) == EventSchema(IF IsTyped(v.data) THEN <<s>> ELSE <<>>,
                                 IF v.event = "" THEN <<>> ELSE <<Str(v.event)>>, {"data", "event"})
        error  == EventSchema(<<>>, <<Str("error")>>, {"data", "event"})
    IN  Turn(ConvertAll(named, [i \in DOMAIN variants |-> variants[i].data]), LAMBDA all :
             [Blank EXCEPT !.oneOf = [i \in DOMAIN variants |-> one(variants[i], all[i])] \o <<error>>])

BuildSSEEventSchema(named, t) ==
    IF IsTyped(t) /\ Name(t) # "MessageEvent" /\ ~(t.kind = "ref" /\ t.ref = "MessageEvent")
    THEN Turn(MetadataToSchema(named, t), LAMBDA data : EventSchema(<<data>>, <<>>, {"data"}))
    ELSE Made(named, EventSchema(<<>>, <<>>, {"data"}))

Response(content, schema) == [content |-> content, schema |-> schema]
Json(ct) == IF ct = "" THEN "application/json" ELSE ct
SuccessResponse(named, r) ==
    CASE r.sse -> Turn(IF r.variants # <<>> THEN BuildEventStreamSchema(named, r.variants)
                       ELSE BuildSSEEventSchema(named, r.type), LAMBDA s : Response("text/event-stream", <<s>>))
      [] ~r.sse /\ r.type.kind = "void" -> Made(named, Response("", <<>>))
      [] OTHER -> Turn(MetadataToSchema(named, r.type), LAMBDA s : Response(Json(r.content), <<s>>))

\* Further responses, in their order: a later one of a status replaces it.
RECURSIVE AddResponses(_, _, _)
AddResponses(named, responses, list) ==
    IF list = <<>> THEN Made(named, responses)
    ELSE LET r == Head(list)
         IN  Then(IF r.type.kind = "void" THEN Made(named, Response("", <<>>))
                  ELSE Turn(MetadataToSchema(named, r.type), LAMBDA s : Response(Json(r.content), <<s>>)),
                  LAMBDA now, response : AddResponses(now, Put(responses, r.status, response), Tail(list)))

\* The names that are registered once these types are walked.
Known(types) == RefClosure(UNION {RefsIn(t) : t \in types}) \cap DOMAIN Registry
\* @throws {404} NotFound: its type is what the registry had by then; a name
\* that is not known gives a response without content.
ErrorResponses(r) ==
    LET known == Known(r.walked)
    IN  [i \in DOMAIN r.throws |->
            Returns(IF r.throws[i].name \in known THEN Named(Registry[r.throws[i].name], r.throws[i].name) ELSE Void,
                    "", r.throws[i].status)]

\* A redirect has no content either.
AllResponses(named, r) ==
    Turn(Then(SuccessResponse(named, r),
              LAMBDA now, ok : AddResponses(now, r.status :> ok, r.more \o ErrorResponses(r))),
             LAMBDA all : IF r.redirect = 0 THEN all ELSE Put(all, r.redirect, Response("", <<>>)))

\* @public goes before @security; with neither the document's security holds.
SecurityOf(r) == IF r.public THEN "none" ELSE IF r.security # "" THEN r.security ELSE "inherited"

BuildOperation(named, r) ==
    Then(BuildParameters(named, r.params), LAMBDA now, taken :
    Turn(AllResponses(now, r), LAMBDA responses :
         [operationId |-> r.operationId, params |-> taken.params, body |-> taken.body, responses |-> responses,
          security |-> SecurityOf(r)]))

(***************************************************************************)
(* Each variable of the path has a parameter, whether the handler takes it *)
(* or not, and a version in a header has one too.                          *)
(***************************************************************************)
EnsurePathParams(op, path) ==
    LET declared == {p.name : p \in {q \in ToSet(op.params) : q.in = "path"}}
        missing  == SelectSeq(path, LAMBDA seg : seg.var /\ seg.name \notin declared)
    IN  [op EXCEPT !.params = @ \o [i \in DOMAIN missing |->
                                      Parameter(missing[i].name, "path", TRUE, OfType("string"))]]

VersionHeader(version) == Parameter("X-API-Version", "header", TRUE, [OfType("string") EXCEPT !.const = <<Str(version)>>])

\* The operation of one version of a route, and the schemas it has registered.
VersionedOperation(schemas, r, path, v, opts) ==
    LET header == IF opts.versioning = "HEADER" /\ v # "" THEN <<VersionHeader(v)>> ELSE <<>>
    IN  Turn(BuildOperation(schemas, r),
             LAMBDA op : [EnsurePathParams(op, path) EXCEPT !.params = @ \o header])

=============================================================================
