------------------------------- MODULE Routes -------------------------------
(***************************************************************************)
(* The controller analyzer (internal/analyzer/routes.go): what the         *)
(* decorators of NestJS classes say, as the controllers and routes that    *)
(* the rewriter and the OpenAPI generator read.  Types are as the walker   *)
(* left them (TypeAnalysis).  A path is a sequence of segments.            *)
(***************************************************************************)
EXTENDS Metadata

Lit(s) == [var |-> FALSE, name |-> s]
Var(s) == [var |-> TRUE,  name |-> s]
Root   == Lit("")             \* the only segment of "/"

(***************************************************************************)
(* The program.  verb is the HTTP decorator's name, or "" when a method    *)
(* has none; paths is empty without a path argument, dynamic says that the *)
(* argument is no literal.  A decorator of a parameter may be imported     *)
(* under another name (aliased) or be a custom one with `@in` (in).        *)
(***************************************************************************)
Param(dec, arg, local, type) ==
    [dec |-> dec, arg |-> arg, local |-> local, type |-> type, typeName |-> Name(type),
     optional |-> FALSE, aliased |-> FALSE, in |-> ""]
Method(name, verb, paths, params, type) ==
    [name |-> name, verb |-> verb, paths |-> paths, dynamic |-> FALSE, params |-> params, type |-> type,
     httpCode |-> 0, versions |-> <<>>, returns |-> <<>>, redirect |-> 0, hidden |-> FALSE,
     operationId |-> "", contentType |-> "", throws |-> <<>>, security |-> "", public |-> FALSE]
Class(name, file, paths, methods) ==
    [name |-> name, file |-> file, paths |-> paths, dynamic |-> FALSE, version |-> "", hidden |-> FALSE,
     security |-> "", public |-> FALSE, methods |-> methods]
Returns(type, content, status) == [type |-> type, content |-> content, status |-> status]

Verbs == [Get |-> "GET", Post |-> "POST", Put |-> "PUT", Delete |-> "DELETE", Patch |-> "PATCH",
          Head |-> "HEAD", Options |-> "OPTIONS", All |-> "GET", Sse |-> "GET", EventStream |-> "GET"]
EventVerbs == {"Sse", "EventStream"}
AllVerbs == <<"GET", "POST", "PUT", "DELETE", "PATCH", "HEAD", "OPTIONS">>
DefaultStatus(verb) == IF verb = "POST" THEN 201 ELSE 200

CombinePaths(prefix, sub) == IF prefix \o sub = <<>> THEN <<Root>> ELSE prefix \o sub

OneIf(condition, x) == IF condition THEN <<x>> ELSE <<>>
\* A map with an entry that is new or has changed.
Put(map, k, x) == [j \in DOMAIN map \cup {k} |-> IF j = k THEN x ELSE map[j]]

(***************************************************************************)
(* Parameters.                                                             *)
(***************************************************************************)
Categories == [Body |-> "body", FormDataBody |-> "body", Query |-> "query",
               Param |-> "param", Headers |-> "headers"]
CategoryOf(p) == IF p.dec \in DOMAIN Categories THEN Categories[p.dec] ELSE p.in

\* The method's @contentType goes before everything; a text body is text/plain.
ContentTypeOf(mt, p) ==
    CASE CategoryOf(p) # "body" -> ""
      [] CategoryOf(p) = "body" /\ mt.contentType # "" -> mt.contentType
      [] OTHER -> IF p.type.kind = "atomic" /\ p.type.atomic = "string" THEN "text/plain"
                  ELSE IF p.dec = "FormDataBody" THEN "multipart/form-data" ELSE ""

AnalyzeParameter(mt, p) ==
    [category |-> CategoryOf(p), name |-> p.arg, local |-> p.local, type |-> p.type,
     typeName |-> p.typeName, content |-> ContentTypeOf(mt, p),
     required |-> ~p.optional /\ ~p.type.optional /\ ~p.type.nullable]

\* Parameters with no category (the request, the response, the current user
\* and so on) are left out.
Parameters(mt) ==
    FlattenSeq([i \in DOMAIN mt.params |->
        OneIf(CategoryOf(mt.params[i]) # "", AnalyzeParameter(mt, mt.params[i]))])

\* hasResponseDecorator looks at the written name only.
UsesRawResponse(mt) ==
    \E i \in DOMAIN mt.params : mt.params[i].dec \in {"Res", "Response"} /\ ~mt.params[i].aliased

(***************************************************************************)
(* Server-sent events: one variant for each member that looks like         *)
(* SseEvent<name, data>; the name "" stands for any name.                  *)
(***************************************************************************)
Resolved(t) == IF t.kind = "ref" /\ t.ref \in DOMAIN Registry THEN Registry[t.ref] ELSE t
PropType(o, key) ==
    LET at == {i \in DOMAIN o.props : o.props[i].name = key}
    IN  IF at = {} THEN <<>> ELSE <<o.props[Max(at)].type>>

VariantOf(member) ==
    LET o     == Resolved(member)
        event == IF o.kind = "object" THEN PropType(o, "event") ELSE <<>>
        data  == IF o.kind = "object" THEN PropType(o, "data") ELSE <<>>
    IN  IF event = <<>> \/ data = <<>> THEN <<>>
        ELSE <<[event |-> IF event[1].kind = "literal" /\ event[1].value.tag = "string"
                          THEN event[1].value.s ELSE "",
                data  |-> data[1]]>>

EventVariants(type) ==
    LET t == Resolved(type)
    IN  CASE t.kind = "union"  -> FlattenSeq([i \in DOMAIN t.members |-> VariantOf(t.members[i])])
          [] t.kind = "object" -> VariantOf(t)
          [] OTHER             -> <<>>

(***************************************************************************)
(* Routes.                                                                 *)
(***************************************************************************)
TypesUsed(mt) == {mt.params[i].type : i \in DOMAIN mt.params} \cup {mt.type}
                 \cup {mt.returns[i].type : i \in DOMAIN mt.returns}

OperationId(cls, mt) ==
    IF mt.operationId # "" THEN <<mt.operationId>>
    ELSE <<cls.name, IF mt.versions = <<>> THEN "" ELSE mt.versions[1], mt.name>>

ReturnTypeOf(mt) == CASE mt.returns # <<>>     -> mt.returns[1].type
                      [] mt.returns = <<>> /\ UsesRawResponse(mt) -> Void
                      [] OTHER                 -> mt.type

\* walked: the types that are walked, and so registered, when the errors of
\* @throws are looked up.
BaseRoute(cls, prefix, mt, walked) ==
    LET verb   == Verbs[mt.verb]
        status == CASE mt.returns # <<>> /\ mt.returns[1].status # 0 -> mt.returns[1].status
                    [] OTHER -> IF mt.httpCode # 0 THEN mt.httpCode ELSE DefaultStatus(verb)
        type   == ReturnTypeOf(mt)
    IN  [verb |-> verb, path |-> CombinePaths(prefix, IF mt.paths = <<>> THEN <<>> ELSE mt.paths[1]),
         operationId |-> OperationId(cls, mt), class |-> cls.name, method |-> mt.name, params |-> Parameters(mt),
         type |-> type, status |-> status, content |-> IF mt.returns = <<>> THEN "" ELSE mt.returns[1].content,
         more |-> [i \in 1 .. Len(mt.returns) - 1 |->
                     [mt.returns[i + 1] EXCEPT !.status = IF @ = 0 THEN status ELSE @]],
         throws |-> mt.throws, walked |-> walked, redirect |-> mt.redirect,
         version |-> IF mt.versions = <<>> THEN cls.version ELSE mt.versions[1],
         versions |-> IF Len(mt.versions) > 1 THEN mt.versions ELSE <<>>,
         sse |-> mt.verb \in EventVerbs, stream |-> mt.verb = "EventStream",
         variants |-> IF mt.verb = "EventStream" /\ ~UsesRawResponse(mt) THEN EventVariants(type) ELSE <<>>,
         raw |-> UsesRawResponse(mt),
         security |-> IF mt.security = "" THEN cls.security ELSE mt.security,
         public |-> mt.public \/ cls.public]

\* One route for each verb of @All and each path of an array.
ExpandRoutes(base, mt, prefix) ==
    LET verbs == IF mt.verb = "All" THEN AllVerbs ELSE <<base.verb>>
        paths == IF Len(mt.paths) > 1 /\ ~base.sse THEN [i \in DOMAIN mt.paths |-> CombinePaths(prefix, mt.paths[i])]
                 ELSE <<base.path>>
        status(verb) == IF mt.verb = "All" /\ base.status = DefaultStatus(base.verb)
                        THEN DefaultStatus(verb) ELSE base.status
    IN  FlattenSeq([k \in DOMAIN verbs |-> [i \in DOMAIN paths |->
            [base EXCEPT !.verb = verbs[k], !.path = paths[i], !.status = status(verbs[k])]]])

\* A method that is hidden or has a dynamic path gives no route at all.
IsRoute(cls, mt) == mt.verb # "" /\ ~mt.dynamic /\ ~mt.hidden /\ ~cls.dynamic
AnalyzeMethod(cls, prefix, mt, walked) ==
    IF ~IsRoute(cls, mt) THEN <<>> ELSE ExpandRoutes(BaseRoute(cls, prefix, mt, walked), mt, prefix)

\* The controllers of a class, one for each of its paths.
AnalyzeClass(cls, walked) ==
    LET prefixes == IF cls.paths = <<>> THEN <<<<>>>> ELSE cls.paths
        before(k) == walked \cup UNION {TypesUsed(cls.methods[j]) : j \in 1 .. k}
    IN  IF cls.dynamic THEN <<>>
        ELSE [i \in DOMAIN prefixes |->
                [name |-> cls.name, path |-> prefixes[i], file |-> cls.file, hidden |-> cls.hidden,
                 routes |-> FlattenSeq([k \in DOMAIN cls.methods |->
                              AnalyzeMethod(cls, prefixes[i], cls.methods[k], before(k))])]]

AnalyzeProgram(classes) ==
    LET walked(c) == UNION {UNION {TypesUsed(classes[b].methods[k]) : k \in DOMAIN classes[b].methods}
                            : b \in 1 .. c - 1}
    IN  FlattenSeq([c \in DOMAIN classes |-> AnalyzeClass(classes[c], walked(c))])

=============================================================================
