------------------------------ MODULE Rewriter ------------------------------
(***************************************************************************)
(* The rewriter (internal/rewrite): what happens to the JavaScript that    *)
(* the compiler emits before it is written.  The code works on the text    *)
(* with regular expressions; a file is here what those expressions can     *)
(* tell apart: the names it binds, the calls that may be marker calls, the *)
(* functions with a body and, in a body, the returns.                      *)
(***************************************************************************)
EXTENDS Routes

CONSTANTS NameEnds   \* <<longer, shorter>>: names of functions or classes, one the end of the other

(***************************************************************************)
(* Emitted files.  A call's text is the identifier before its "(", "" for  *)
(* the form `(0, module_1.name)(...)` of CommonJS; marker and type are     *)
(* what the source says.  A simple parameter list has no ")" of its own.   *)
(* A return is top when no block or function is between it and the body;   *)
(* it gives back a value, null, a promise or one of two promises by a      *)
(* conditional expression, with wrappers around it, the innermost first.   *)
(* reflects: the decorators of methods carry design types                  *)
(* (emitDecoratorMetadata).                                                *)
(***************************************************************************)
Import(from, names) == [from |-> from, names |-> names]
Call(text, marker, type) == [text |-> text, marker |-> marker, type |-> type]
Function(class, name, async, returns) ==
    [class |-> class, name |-> name, async |-> async, simple |-> TRUE, lines |-> <<>>, returns |-> returns]
Return(top, op) == [top |-> top, op |-> op, wraps |-> <<>>]
Wrapper(op, name, nullable) == [op |-> op, name |-> name, nullable |-> nullable]
File(name, format, imports, calls, functions) ==
    [name |-> name, format |-> format, imports |-> imports, calls |-> calls, functions |-> functions,
     reflects |-> FALSE, decorators |-> <<>>, metadata |-> <<>>]

CompanionFunc(marker, type) == marker \o type

(***************************************************************************)
(* Marker calls (extract.go, markers.go).                                  *)
(***************************************************************************)
Markers == {"is", "validate", "assert", "stringify", "serialize"}

\* The marker calls of f, without those that have no named type, and the
\* places where the name f is called.
MarkerCalls(calls, f) == {i \in DOMAIN calls : calls[i].marker = f /\ calls[i].type # ""}
Occurrences(calls, f) == {i \in DOMAIN calls : calls[i].text = f}
MarkerPairs(calls) ==
    UNION {{<<f, calls[i].type>> : i \in MarkerCalls(calls, f)} : f \in Markers}

\* How many of the places S there are up to i.
Rank(S, i) == Cardinality({j \in S : j <= i})
\* replaceMarkerCalls: the k-th occurrence of a marker's name in the text is
\* taken for its k-th marker call.
TakenFor(calls, i) ==
    LET f == calls[i].text
    IN  {j \in MarkerCalls(calls, f) : Rank(MarkerCalls(calls, f), j) = Rank(Occurrences(calls, f), i)}

Retargeted(call, type) == [call EXCEPT !.text = CompanionFunc(@, type)]
\* Mutant: every occurrence gets the type of the first.
MutantReplaceMarkerCalls(calls) ==
    [i \in DOMAIN calls |->
        IF calls[i].text \in Markers /\ TakenFor(calls, i) # {}
        THEN Retargeted(calls[i], calls[Min(MarkerCalls(calls, calls[i].text))].type) ELSE calls[i]]
ReplaceMarkerCalls(calls) ==
    [i \in DOMAIN calls |->
        IF calls[i].text \in Markers /\ TakenFor(calls, i) # {}
        THEN Retargeted(calls[i], calls[CHOOSE j \in TakenFor(calls, i) : TRUE].type) ELSE calls[i]]

\* companionImports: <<marker, type>> pairs to one import per companion;
\* types without a companion are left out.
CompanionImports(pairs, companions) ==
    LET known == {p \in pairs : p[2] \in DOMAIN companions}
        paths == SetToSeq({companions[p[2]] : p \in known})
    IN  [i \in DOMAIN paths |->
            Import(paths[i], {CompanionFunc(p[1], p[2]) : p \in {q \in known : companions[q[2]] = paths[i]}})]

\* The first import of "tsgonest" goes.
WithoutTsgonest(imports) ==
    LET at == {i \in DOMAIN imports : imports[i].from = "tsgonest"}
    IN  IF at = {} THEN imports ELSE RemoveAt(imports, Min(at))

RewriteMarkers(file, companions) ==
    LET pairs == MarkerPairs(file.calls)
    IN  IF pairs = {} THEN file
        ELSE [file EXCEPT !.imports = CompanionImports(pairs, companions) \o WithoutTsgonest(@),
                          !.calls   = ReplaceMarkerCalls(@)]

(***************************************************************************)
(* Functions are found by their name: the first in the file whose name     *)
(* ends in it and whose parameters have no ")".                            *)
(***************************************************************************)
Matching(functions, m) == {i \in DOMAIN functions :
    functions[i].simple /\ (functions[i].name = m \/ <<functions[i].name, m>> \in NameEnds)}

InjectAtMethodStart(functions, m, line) ==
    IF Matching(functions, m) = {} THEN functions
    ELSE [functions EXCEPT ![Min(Matching(functions, m))].lines = <<line>> \o @]

\* makeMethodAsync: the first method of that very name that is not async.
MakeAsync(functions, m) ==
    LET at == {i \in DOMAIN functions : functions[i].class # "" /\ functions[i].name = m /\ ~functions[i].async}
    IN  IF at = {} THEN functions ELSE [functions EXCEPT ![Min(at)].async = TRUE]

\* Mutant: returns of inner functions are wrapped too.
MutantWrapReturns(functions, m, wrapper) ==
    LET at       == Min(Matching(functions, m))
        awaiting == IF functions[at].async THEN functions ELSE MakeAsync(functions, m)
        wrapped(rs) == [k \in DOMAIN rs |-> [rs[k] EXCEPT !.wraps = Append(@, wrapper)]]
    IN  IF Matching(functions, m) = {} THEN functions ELSE [awaiting EXCEPT ![at].returns = wrapped(@)]
\* wrapReturnsInMethod, wrapPrimitiveReturns
WrapReturns(functions, m, wrapper) ==
    LET at       == Min(Matching(functions, m))
        awaiting == IF functions[at].async THEN functions ELSE MakeAsync(functions, m)
        wrapped(rs) == [k \in DOMAIN rs |-> IF rs[k].top THEN [rs[k] EXCEPT !.wraps = Append(@, wrapper)] ELSE rs[k]]
    IN  IF Matching(functions, m) = {} THEN functions ELSE [awaiting EXCEPT ![at].returns = wrapped(@)]

\* The edits of a file's functions, one after the other.
Inserting(m, line)   == [kind |-> "inject", method |-> m, with |-> line]
Wrapping(m, wrapper) == [kind |-> "wrap",   method |-> m, with |-> wrapper]
Edit(functions, e) == IF e.kind = "inject" THEN InjectAtMethodStart(functions, e.method, e.with)
                      ELSE WrapReturns(functions, e.method, e.with)
ApplyEdits(functions, edits) ==
    LET after[n \in 0 .. Len(edits)] == IF n = 0 THEN functions ELSE Edit(after[n - 1], edits[n])
    IN  after[Len(edits)]

(***************************************************************************)
(* What a controller's routes ask for.                                     *)
(***************************************************************************)
ParamTypeName(p) == IF Name(p.type) # "" THEN Name(p.type) ELSE IF p.type.kind = "ref" THEN p.type.ref ELSE ""

\* The walker gives up at this depth, so arrays are nested less deep.
MaxWalkDepth == 20
ElementOf(t) == IF t.kind = "array" THEN t.elem ELSE t
InnermostElement(t) ==
    LET inner[n \in 0 .. MaxWalkDepth] == IF n = 0 THEN t ELSE ElementOf(inner[n - 1])
    IN  inner[MaxWalkDepth]
ReturnTypeName(t) ==
    LET e == InnermostElement(t)
    IN  CASE e.kind = "ref" -> e.ref [] e.kind = "object" -> Name(e) [] OTHER -> ""

\* resolvePrimitiveReturn: the one kind of atomic that all members have, or "".
Inline == {"string", "number", "boolean"}
AtomicOf(t) == CASE t.kind = "atomic"  -> t.atomic
                 [] t.kind = "literal" -> t.value.tag
                 [] OTHER              -> ""
PrimitiveReturn(t) ==
    CASE t.kind = "atomic" /\ t.atomic \in Inline -> t.atomic
      [] t.kind = "union" -> LET kinds == {AtomicOf(t.members[i]) : i \in DOMAIN t.members}
                             IN  IF Cardinality(kinds) = 1 THEN CHOOSE k \in kinds : TRUE ELSE ""
      [] OTHER -> ""

\* findBodyParamName is the fallback for a pattern: it finds the pattern's text.
VariableOf(p) == IF p.local # "" THEN p.local
                 ELSE IF p.category = "body" THEN IF p.name # "" THEN p.name ELSE "{"
                 ELSE IF p.name # "" /\ p.category \in {"query", "param"} /\ p.type.kind = "atomic" THEN p.name ELSE ""

IsAsserted(p, companions) ==
    /\ ParamTypeName(p) \in DOMAIN companions
    /\ VariableOf(p) # ""
    /\ \/ p.category = "body" /\ p.content # "multipart/form-data"
       \/ p.category # "body" /\ p.name = "" /\ p.typeName # ""
IsCoerced(p) == /\ p.category \in {"query", "param"} /\ p.name # ""
                /\ p.type.kind = "atomic" /\ p.type.atomic \in {"number", "boolean"}

Line(do, type, var) == [do |-> do, type |-> type, var |-> var]
AssertLine(p) == Line("assert", ParamTypeName(p), VariableOf(p))
CoerceLine(p) == Line(p.type.atomic, "", VariableOf(p))

IsPrimitive(r) == ~r.sse /\ PrimitiveReturn(r.type) # ""
IsWrapped(r, companions) ==
    ~r.sse /\ PrimitiveReturn(r.type) = "" /\ ReturnTypeName(r.type) \in DOMAIN companions

(***************************************************************************)
(* The lists that are collected before the text is touched; a list of one  *)
(* or of none for each parameter, event or route is put together.          *)
(***************************************************************************)
\* Raw responses are left alone.
RewrittenRoutes(controllers) ==
    FlattenSeq([c \in DOMAIN controllers |-> FlattenSeq([i \in DOMAIN controllers[c].routes |->
        LET r == controllers[c].routes[i] IN OneIf(~r.raw, r)])])

Validations(routes, companions) ==
    FlattenSeq([i \in DOMAIN routes |-> FlattenSeq([k \in DOMAIN routes[i].params |->
        LET p == routes[i].params[k] IN OneIf(IsAsserted(p, companions), Inserting(routes[i].method, AssertLine(p)))])])
Coercions(routes) ==
    FlattenSeq([i \in DOMAIN routes |-> FlattenSeq([k \in DOMAIN routes[i].params |->
        LET p == routes[i].params[k] IN OneIf(IsCoerced(p), Inserting(routes[i].method, CoerceLine(p)))])])
ReturnTransforms(routes, companions) ==
    FlattenSeq([i \in DOMAIN routes |->
        LET r  == routes[i]
            op == IF r.type.kind = "array" THEN "serialize" ELSE "stringify"
        IN  OneIf(IsWrapped(r, companions), Wrapping(r.method, Wrapper(op, ReturnTypeName(r.type), FALSE)))])
PrimitiveTransforms(routes) ==
    FlattenSeq([i \in DOMAIN routes |->
        LET r == routes[i]
        IN  OneIf(IsPrimitive(r),
                  Wrapping(r.method, Wrapper("primitive", PrimitiveReturn(r.type), r.type.nullable)))])

Entries(r, companions) ==
    FlattenSeq([i \in DOMAIN r.variants |->
        LET v == r.variants[i]
        IN  OneIf(ReturnTypeName(v.data) \in DOMAIN companions,
                  [event |-> IF v.event = "" THEN "*" ELSE v.event, type |-> ReturnTypeName(v.data)])])
SseTransforms(routes, companions) ==
    FlattenSeq([i \in DOMAIN routes |->
        LET r == routes[i]
        IN  OneIf(Entries(r, companions) # <<>>,
                  [class |-> r.class, method |-> r.method, entries |-> Entries(r, companions)])])

\* The companion functions that are imported for them.
HandlerPairs(routes, companions) ==
    {<<"assert", v.with.type>> : v \in ToSet(Validations(routes, companions))}
    \cup (UNION {{"stringify", "serialize"} \X {t.with.name} : t \in ToSet(ReturnTransforms(routes, companions))})
    \cup UNION {UNION {{"assert", "stringify"} \X {e.type} : e \in ToSet(x.entries)}
                : x \in ToSet(SseTransforms(routes, companions))}

(***************************************************************************)
(* rewriteController.                                                      *)
(***************************************************************************)
\* injectClassInterceptor: once for every controller of the file, on the first
\* class whose name ends in its name, and through the variable of @nestjs/common
\* in CommonJS whatever the file's format is.
Common == "common_1"
Interceptors(file, controllers, name) ==
    LET ending(c) == {i \in DOMAIN file.functions : file.functions[i].class # ""
                        /\ (file.functions[i].class = c \/ <<file.functions[i].class, c>> \in NameEnds)}
    IN  FlattenSeq([c \in DOMAIN controllers |->
            LET found == ending(controllers[c].name)
            IN  OneIf(found # {}, [class |-> file.functions[Min(found)].class, via |-> Common, name |-> name])])

SerializeInterceptor == "TsgonestSerializeInterceptor"
SseInterceptor == "TsgonestSseInterceptor"
ValidationError == "__e"
RuntimeNames == {SerializeInterceptor, SseInterceptor, ValidationError}

\* injectSSETransforms does not find a method's decorators when there is a "]"
\* among them.
RewriteController(file, controllers, companions) ==
    LET routes   == RewrittenRoutes(controllers)
        checks   == Validations(routes, companions)
        coerced  == Coercions(routes)
        wrapped  == ReturnTransforms(routes, companions) \o PrimitiveTransforms(routes)
        streams  == SseTransforms(routes, companions)
        runtime(needed, name) == OneIf(needed, Import("@tsgonest/runtime", {name}))
        use(needed, name)     == IF needed THEN Interceptors(file, controllers, name) ELSE <<>>
    IN  [file EXCEPT
            !.functions  = ApplyEdits(@, checks \o coerced \o wrapped),
            !.metadata   = IF file.reflects THEN @ ELSE @ \o streams,
            !.decorators = @ \o use(wrapped # <<>>, SerializeInterceptor) \o use(streams # <<>>, SseInterceptor),
            !.imports    = CompanionImports(HandlerPairs(routes, companions), companions)
                           \o runtime(wrapped # <<>>, SerializeInterceptor)
                           \o runtime(streams # <<>>, SseInterceptor)
                           \o runtime(coerced # <<>>, ValidationError) \o @]

ControllersOf(name, controllers) ==
    FlattenSeq([c \in DOMAIN controllers |-> OneIf(controllers[c].file = name, controllers[c])])

\* The WriteFile callback: markers, then the controllers of this file.
WriteFile(file, controllers, companions) ==
    LET mine == ControllersOf(file.name, controllers)
        text == RewriteMarkers(file, companions)
    IN  IF mine = <<>> THEN text ELSE RewriteController(text, mine, companions)

CompanionPath(file, type) == file \o "." \o type
\* BuildCompanionMap: types by file, the file that is visited last wins.
CompanionMap(typesByFile, order) ==
    [t \in UNION {typesByFile[f] : f \in ToSet(order)} |->
        LET files == {i \in DOMAIN order : t \in typesByFile[order[i]]}
        IN  CompanionPath(order[Max(files)], t)]

=============================================================================
