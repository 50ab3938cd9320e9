----------------------------- MODULE ApiMeaning ------------------------------
(***************************************************************************)
(* What the outputs of tsgonest mean to those who use them: the values     *)
(* that a JSON Schema allows, the values of a TypeScript type, and what a  *)
(* rewritten handler does when a request calls it.  Nothing here is code   *)
(* of the repository: the properties of ApiPipeline are about it.          *)
(***************************************************************************)
EXTENDS ApiOutline, Sdk, Asserters

-----------------------------------------------------------------------------
(* JSON Schema, draft 2020-12, for JSON values. *)

RECURSIVE Allows(_, _, _)
HasJsonType(type, v) ==
    CASE type = ""        -> TRUE
      [] type = "integer" -> v.tag = "number"
      [] OTHER            -> v.tag = type
KeyAllows(schemas, s, v) ==
    /\ s.required \subseteq Keys(v)
    /\ \A i \in DOMAIN s.props : s.props[i].name \in Keys(v) => Allows(schemas, s.props[i].schema, v.p[s.props[i].name])
    /\ LET extra == Keys(v) \ {s.props[i].name : i \in DOMAIN s.props}
       IN  /\ s.closed => extra = {}
           /\ s.extra # <<>> => \A k \in extra : Allows(schemas, s.extra[1], v.p[k])
ItemsAllow(schemas, s, v) ==
    /\ \A i \in DOMAIN s.prefix \cap DOMAIN v.e : Allows(schemas, s.prefix[i], v.e[i])
    /\ s.items # <<>> => \A i \in DOMAIN v.e : Allows(schemas, s.items[1], v.e[i])
Allows(schemas, s, v) ==
    IF s.ref # "" THEN s.ref \in DOMAIN schemas /\ Allows(schemas, schemas[s.ref], v)
    ELSE /\ HasJsonType(s.type, v)
         /\ s.enum # {} => v \in s.enum
         /\ s.const # <<>> => v = s.const[1]
         /\ v.tag = "object" => KeyAllows(schemas, s, v)
         /\ v.tag = "array"  => ItemsAllow(schemas, s, v)
         /\ s.anyOf # <<>> => \E i \in DOMAIN s.anyOf : Allows(schemas, s.anyOf[i], v)
         /\ s.oneOf # <<>> => Cardinality({i \in DOMAIN s.oneOf : Allows(schemas, s.oneOf[i], v)}) = 1
         /\ \A i \in DOMAIN s.allOf : Allows(schemas, s.allOf[i], v)
         /\ \A c \in s.checks : Guarded(c, v)

RECURSIVE SubSchemas(_)
SubSchemas(s) ==
    LET each(list) == UNION {SubSchemas(list[i]) : i \in DOMAIN list}
    IN  {s} \cup each([i \in DOMAIN s.props |-> s.props[i].schema]) \cup each(s.extra) \cup each(s.items)
        \cup each(s.prefix) \cup each(s.anyOf) \cup each(s.oneOf) \cup each(s.allOf) \cup each(s.content)

-----------------------------------------------------------------------------
(* TypeScript: the JSON values of a type, given the file of shared types. *)

RECURSIVE Holds(_, _, _), FactorHolds(_, _, _)
Holds(types, t, v) == \E i \in DOMAIN t : \A j \in DOMAIN t[i] : FactorHolds(types, t[i][j], v)
FactorHolds(types, f, v) ==
    CASE f.kind = "word"   -> f.word = "unknown" \/ v.tag = f.word
      [] f.kind = "name"   -> f.name \in DOMAIN types /\ Holds(types, types[f.name], v)
      [] f.kind = "value"  -> v = f.value
      [] f.kind = "group"  -> Holds(types, f.text, v)
      [] f.kind = "array"  -> v.tag = "array" /\ \A i \in DOMAIN v.e : FactorHolds(types, f.item, v.e[i])
      [] f.kind = "record" -> v.tag = "object" /\ \A k \in Keys(v) : Holds(types, f.text, v.p[k])
      [] f.kind = "fields" -> v.tag = "object" /\ \A x \in f.fields :
                                 IF x.name \in Keys(v) THEN Holds(types, x.text, v.p[x.name]) ELSE x.opt

RECURSIVE NamesIn(_)
NamesIn(t) ==
    UNION {UNION {LET f == t[i][j]
                  IN  CASE f.kind = "name" -> {f.name}
                        [] f.kind \in {"group", "record"} -> NamesIn(f.text)
                        [] f.kind = "array"  -> NamesIn(<<<<f.item>>>>)
                        [] f.kind = "fields" -> UNION {NamesIn(x.text) : x \in f.fields}
                        [] OTHER -> {} : j \in DOMAIN t[i]} : i \in DOMAIN t}

-----------------------------------------------------------------------------
(* A rewritten file.  A name is bound by the imports that have it; a call  *)
(* of a name that is bound otherwise than once is an error of the module.  *)

Going(env)        == [env |-> env, verdict |-> "ok"]
Stopped(env, how) == [env |-> env, verdict |-> how]

\* Unary plus, for what a request can give.
ToNumber(v) == IF v.tag = "string" /\ v.s \in DOMAIN Numerals THEN Num(Numerals[v.s])
               ELSE IF v.tag = "number" THEN v ELSE NaN

\* One injected line.  An assert function gives back the value it has
\* accepted, transformed and coerced.
RunLine(line, file, env) ==
    LET v == env[line.var]
        r == AssertFunction(line.type, v)
        n == ToNumber(v)
    IN  CASE line.var \notin DOMAIN env -> Stopped(env, "throws")
          [] line.var \in DOMAIN env /\ line.do = "number" ->
                IF n = NaN THEN Stopped(env, "rejected") ELSE Going([env EXCEPT ![line.var] = n])
          [] line.var \in DOMAIN env /\ line.do = "boolean" ->
                Going([env EXCEPT ![line.var] = Coerce(Atomic("boolean"), v)])
          [] OTHER -> IF ~BoundOnce(file, NameOfLine(line)) \/ r.verdict = "throws" THEN Stopped(env, "throws")
                      ELSE IF r.verdict = "ok" THEN Going([env EXCEPT ![line.var] = r.v])
                      ELSE Stopped(env, "rejected")

RunHandler(function, file, env) ==
    FoldLeft(LAMBDA r, line : IF r.verdict = "ok" THEN RunLine(line, file, r.env) ELSE r,
             Going(env), function.lines)

\* What the caller of an async function gets: data, null, the JSON text of
\* data of a type, or something broken: text that is serialized again, a
\* serializer that was given a promise or null.  `await` before a conditional
\* expression awaits its condition only.
Outcome(state, type) == [state |-> state, type |-> type]
Unwrapped(op) == Outcome(IF op = "value" THEN "data" ELSE op, "")
Around(w, inner) ==
    LET awaited == IF inner.state = "promise" THEN "data" ELSE inner.state
    IN  CASE awaited = "data" -> Outcome("json", w.name)
          [] awaited = "null" /\ w.op = "primitive" -> Outcome("json", w.name)
          [] OTHER -> Outcome("broken", "")
Returned(ret) ==
    LET o == FoldLeft(LAMBDA inner, w : Around(w, inner), Unwrapped(ret.op), ret.wraps)
    IN  IF o.state \in {"promise", "choice"} THEN Outcome("data", "") ELSE o

=============================================================================
