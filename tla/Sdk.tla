--------------------------------- MODULE Sdk ---------------------------------
(***************************************************************************)
(* The SDK generator (internal/sdkgen): a TypeScript client from the       *)
(* OpenAPI document.  The code writes types as texts and joins them; a     *)
(* text is here what a parser makes of it: a sequence of alternatives      *)
(* (`|` binds least), each a sequence of the factors of an intersection.   *)
(***************************************************************************)
EXTENDS OpenApi

Word(w)       == <<<<[kind |-> "word", word |-> w]>>>>
TypeName(n)   == <<<<[kind |-> "name", name |-> n]>>>>
Value(v)      == <<<<[kind |-> "value", value |-> v]>>>>
Paren(t)      == <<<<[kind |-> "group", text |-> t]>>>>
RecordOf(t)   == <<<<[kind |-> "record", text |-> t]>>>>
Fields(fs)    == <<<<[kind |-> "fields", fields |-> fs]>>>>
Field(n, opt, t) == [name |-> n, opt |-> opt, text |-> t]

\* `[]` after a text belongs to its last factor.
ArrayText(t) ==
    LET last == Last(t)
    IN  Front(t) \o <<Front(last) \o <<[kind |-> "array", item |-> Last(last)]>>>>

Or(texts)     == FlattenSeq(texts)
And(texts)    == FoldLeft(LAMBDA a, b : Front(a) \o <<Last(a) \o Head(b)>> \o Tail(b), Head(texts), Tail(texts))

\* compositeToTS, compositionToTS
Composite(texts, join(_)) ==
    LET kept == SelectSeq(texts, LAMBDA t : t # Word("null"))
        all  == CASE kept = <<>> -> <<>> [] Len(kept) = 1 -> kept[1] [] OTHER -> Paren(join(kept))
    IN  IF Len(kept) < Len(texts) THEN all \o Word("null") ELSE all

\* Whether the text has a `|` or a `&` somewhere, and how it begins.
RECURSIVE HasOperator(_), BeginsWithParen(_)
HasOperator(t) ==
    \/ Len(t) > 1
    \/ \E i \in DOMAIN t : Len(t[i]) > 1 \/
        \E j \in DOMAIN t[i] :
            LET f == t[i][j]
            IN  CASE f.kind \in {"group", "record"} -> HasOperator(f.text)
                  [] f.kind = "array"  -> HasOperator(<<<<f.item>>>>)
                  [] f.kind = "fields" -> \E x \in f.fields : HasOperator(x.text)
                  [] OTHER -> FALSE
BeginsWithParen(t) ==
    LET f == t[1][1] IN CASE f.kind = "group" -> TRUE
                          [] f.kind = "array" -> BeginsWithParen(<<<<f.item>>>>)
                          [] OTHER            -> FALSE

(***************************************************************************)
(* Fingerprints: an inline object with the fingerprint of a component is   *)
(* taken for it.  The component that is visited last has the fingerprint.  *)
(***************************************************************************)
Fp(tag, of, keys) == [tag |-> tag, of |-> of, keys |-> keys]
RECURSIVE PropFingerprint(_)
SchemaFingerprint(s) ==
    {[name |-> s.props[i].name, required |-> s.props[i].name \in s.required,
      print |-> PropFingerprint(s.props[i].schema)] : i \in DOMAIN s.props}
PropFingerprint(s) ==
    CASE s.ref # "" -> Fp("$" \o s.ref, <<>>, {})
      [] s.ref = "" /\ s.type = "array" /\ s.items # <<>> -> Fp("[]", <<PropFingerprint(s.items[1])>>, {})
      [] s.ref = "" /\ s.type = "object" /\ s.props # <<>> -> Fp("object", <<>>, SchemaFingerprint(s))
      [] OTHER -> Fp(CASE s.type # ""     -> s.type \o ":" \o s.format
                          [] s.type = "" /\ s.anyOf # <<>> -> "anyOf"
                          [] s.type = "" /\ s.oneOf # <<>> -> "oneOf"
                          [] s.type = "" /\ s.allOf # <<>> -> "allOf"
                          [] OTHER -> IF s.enum # {} THEN "enum" ELSE "?", <<>>, {})

Fingerprinted(schemas) == {n \in DOMAIN schemas : schemas[n].type = "object" /\ schemas[n].props # <<>>}
\* The tables that a map's order may lead to.
Fingerprints(schemas) ==
    LET prints == {SchemaFingerprint(schemas[n]) : n \in Fingerprinted(schemas)}
    IN  {f \in [prints -> Fingerprinted(schemas)] : \A p \in prints : SchemaFingerprint(schemas[f[p]]) = p}

(***************************************************************************)
(* Types.  raw: schemaToTS on the JSON of an operation, with the table of  *)
(* fingerprints; else SchemaToTS on the parsed schema of a component.      *)
(***************************************************************************)
Raw(prints) == [raw |-> TRUE, prints |-> prints]
Node        == [raw |-> FALSE, prints |-> <<>>]

RECURSIVE ToTS(_, _)
FieldsOf(s, how) ==
    Fields({Field(s.props[i].name, s.props[i].name \notin s.required, ToTS(s.props[i].schema, how)) : i \in DOMAIN s.props})

ObjectToTS(s, how) ==
    CASE s.extra # <<>>       -> RecordOf(ToTS(s.extra[1], how))
      [] s.extra = <<>> /\ (s.props = <<>> \/ (how.raw /\ s.closed)) -> RecordOf(Word("unknown"))
      [] OTHER -> IF how.raw /\ SchemaFingerprint(s) \in DOMAIN how.prints
                  THEN TypeName(how.prints[SchemaFingerprint(s)]) ELSE FieldsOf(s, how)

\* Mutant: the element of an array is never put in parentheses.
MutantArrayToTS(s, how) == IF s.items = <<>> THEN ArrayText(Word("unknown")) ELSE ArrayText(ToTS(s.items[1], how))
\* Tuples (prefixItems) are not looked at.
ArrayToTS(s, how) ==
    LET item == IF s.items = <<>> THEN Word("unknown") ELSE ToTS(s.items[1], how)
    IN  IF HasOperator(item) /\ (how.raw \/ ~BeginsWithParen(item)) THEN ArrayText(Paren(item)) ELSE ArrayText(item)

ToTS(s, how) ==
    LET all(list) == [i \in DOMAIN list |-> ToTS(list[i], how)]
        values    == SetToSeq(s.enum)
    IN  CASE s.ref # ""     -> TypeName(s.ref)
          [] s.enum # {}    -> Or([i \in DOMAIN values |-> Value(values[i])])
          [] s.const # <<>> -> Value(s.const[1])
          [] s.anyOf # <<>> -> Composite(all(s.anyOf), Or)
          [] s.oneOf # <<>> -> Composite(all(s.oneOf), Or)
          [] s.allOf # <<>> -> Composite(all(s.allOf), And)
          [] s.type = "string" -> IF s.format = "binary" THEN Word("Blob") ELSE Word("string")
          [] s.type = "integer" -> Word("number")
          [] s.type \in {"number", "boolean", "null"} -> Word(s.type)
          [] s.type = "array"  -> ArrayToTS(s, how)
          [] s.type = "object" -> ObjectToTS(s, how)
          [] OTHER -> IF s.ref = "" THEN Word("unknown") ELSE TypeName(s.ref)

\* GenerateInterface: the body of an interface or of an alias.
Interface(s) == IF s.type = "object" /\ s.props # <<>> THEN FieldsOf(s, Node) ELSE ToTS(s, Node)

(***************************************************************************)
(* Methods.                                                                *)
(***************************************************************************)
Texts200 == {"text/plain", "text/html", "text/csv"}
Binary   == {"application/octet-stream", "application/pdf", "image/png"}
ContentTypeToTS(ct, schema, prints) ==
    CASE ct = "text/event-stream"   -> Word("ReadableStream")
      [] ct \in Texts200            -> Word("string")
      [] ct \in Binary              -> Word("Blob")
      [] ct = "multipart/form-data" -> Word("FormData")
      [] OTHER                      -> ToTS(schema, Raw(prints))

\* The status that counts: 200 to 204 in this order, else some other 2xx.
Chosen(responses) ==
    LET success == {s \in DOMAIN responses : s \in 200 .. 299}
        first   == success \cap (200 .. 204)
    IN  IF first # {} THEN {Min(first)} ELSE success

\* Data of the events, <<>> when the schema of an item is no plain object.
SseEventType(item, prints) ==
    LET data == SelectSeq(item.props, LAMBDA k : k.name = "data")
    IN  IF data = <<>> \/ data[1].schema.content = <<>> THEN <<>>
        ELSE <<ToTS(data[1].schema.content[1], Raw(prints))>>

ResolveResponse(responses, status, prints) ==
    LET r == responses[status]
    IN  IF status = 204 \/ r.content = "" THEN [status |-> status, content |-> "", text |-> Word("void"), event |-> <<>>]
        ELSE [status |-> status, content |-> r.content,
              text   |-> ContentTypeToTS(r.content, r.schema[1], prints),
              event  |-> IF r.content = "text/event-stream" THEN SseEventType(r.schema[1], prints) ELSE <<>>]

Option(p, prints) == [name |-> p.name, required |-> p.required \/ p.in = "path", text |-> ToTS(p.schema, Raw(prints))]
OptionsIn(op, in, prints) == {Option(p, prints) : p \in {q \in ToSet(op.params) : q.in = in}}

\* The types of a method.  Header parameters are parsed, and no code uses them.
ParseTypes(op, status, prints) ==
    [params |-> OptionsIn(op, "path", prints), query |-> OptionsIn(op, "query", prints),
     body |-> IF op.body = <<>> THEN <<>>
              ELSE <<[required |-> op.body[1].required, content |-> op.body[1].content,
                      text |-> ToTS(op.body[1].schema, Raw(prints))]>>,
     response |-> IF status = 0 THEN [status |-> 200, content |-> "", text |-> Word("void"), event |-> <<>>]
                  ELSE ResolveResponse(op.responses, status, prints)]

(***************************************************************************)
(* Names that TypeScript has already get a "_".  In the text of a type the *)
(* name is replaced wherever it stands alone, in a literal and a key too.  *)
(***************************************************************************)
Builtins == {"Array", "ArrayBuffer", "BigInt", "Boolean", "Date", "Error", "Exclude", "Extract", "Function", "Map",
             "NonNullable", "Number", "Object", "Omit", "Partial", "Pick", "Promise", "Readonly", "ReadonlyArray",
             "Record", "Required", "ReturnType", "Set", "String", "Symbol", "Uint8Array", "WeakMap", "WeakSet"}
SafeTSName(n) == IF n \in Builtins THEN n \o "_" ELSE n

RECURSIVE RenameText(_, _)
RenameText(t, names) ==
    LET safe(n) == IF n \in names THEN SafeTSName(n) ELSE n
        one(f)  == CASE f.kind = "name"  -> [f EXCEPT !.name = safe(@)]
                     [] f.kind = "value" /\ f.value.tag = "string" -> [f EXCEPT !.value.s = safe(@)]
                     [] f.kind \in {"group", "record"} -> [f EXCEPT !.text = RenameText(@, names)]
                     [] f.kind = "array"  -> [f EXCEPT !.item = RenameText(<<<<@>>>>, names)[1][1]]
                     [] f.kind = "fields" -> [f EXCEPT !.fields =
                                                {[x EXCEPT !.name = safe(@), !.text = RenameText(@, names)] : x \in @}]
                     [] OTHER -> f
    IN  [i \in DOMAIN t |-> [j \in DOMAIN t[i] |-> one(t[i][j])]]

RECURSIVE RenameSchemaRefs(_, _)
RenameSchemaRefs(s, names) ==
    LET each(list) == [i \in DOMAIN list |-> RenameSchemaRefs(list[i], names)]
    IN  [s EXCEPT !.ref = IF @ \in names THEN SafeTSName(@) ELSE @,
                  !.props = [i \in DOMAIN @ |-> [@[i] EXCEPT !.schema = RenameSchemaRefs(@, names)]],
                  !.items = each(@), !.extra = each(@), !.anyOf = each(@), !.oneOf = each(@), !.allOf = each(@)]

Colliding(schemas) == {n \in DOMAIN schemas : SafeTSName(n) # n}

\* types.ts: a type for each component.
TypesFile(schemas) ==
    LET old(n) == CHOOSE k \in DOMAIN schemas : SafeTSName(k) = n
    IN  [n \in {SafeTSName(k) : k \in DOMAIN schemas} |->
            Interface(RenameSchemaRefs(schemas[old(n)], Colliding(schemas)))]

RenameTypes(mt, schemas) ==
    LET names == Colliding(schemas)
        safe(options) == {[o EXCEPT !.text = RenameText(@, names)] : o \in options}
    IN  [mt EXCEPT !.params = safe(@), !.query = safe(@),
                   !.body = [i \in DOMAIN @ |-> [@[i] EXCEPT !.text = RenameText(@, names)]],
                   !.response.text = RenameText(@, names),
                   !.response.event = [i \in DOMAIN @ |-> RenameText(@[i], names)]]

=============================================================================
