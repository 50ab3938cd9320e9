---------------------------- MODULE Constraints ----------------------------
(***************************************************************************)
(* Where a property's constraints come from: the tags of @tsgonest/types   *)
(* (branded.go) and JSDoc tags (constraints.go).  Constraints are a        *)
(* function from the fields of metadata.Constraints that are set.          *)
(***************************************************************************)
EXTENDS Integers, Sequences, FiniteSets, SequencesExt, TLC

CONSTANTS Passing,       \* field -> (text -> the texts that pass)
          NumericBound   \* numeric type -> its largest number

INSTANCE Metadata WITH Registry <- <<>>, Trimmed <- <<>>, Lowered <- <<>>,
                       Uppered <- <<>>, Numerals <- <<>>

TextFields  == {"format", "pattern", "startsWith", "endsWith", "includes", "error"}
CountFields == LengthKinds \cup {"minItems", "maxItems"}
LimitFields == {"minimum", "maximum", "exclusiveMinimum", "exclusiveMaximum", "multipleOf"}
FlagFields  == {"uniqueItems", "uppercase", "lowercase", "coerce"}
Transforms  == [transform_trim |-> "trim", transform_toLowerCase |-> "toLowerCase",
                transform_toUpperCase |-> "toUpperCase"]
NoConstraints == <<>>

SetField(c, field, x)  == (field :> x) @@ c
AddTransform(c, name)  == SetField(c, "transforms",
                             (IF "transforms" \in DOMAIN c THEN c.transforms ELSE <<>>) \o <<name>>)

\* extractConstraintValue: a literal of another type is ignored.
ExtractConstraintValue(c, key, v) ==
    CASE key \in TextFields /\ v.tag = "string"                -> SetField(c, key, v.s)
      [] key = "type" /\ v.tag = "string"                      -> SetField(c, "numericType", v.s)
      [] key \in CountFields \cup LimitFields /\ v.tag = "number" -> SetField(c, key, v.n)
      [] key \in FlagFields /\ v = Bool(TRUE)                  -> SetField(c, key, TRUE)
      [] key \in DOMAIN Transforms /\ v = Bool(TRUE)           -> AddTransform(c, Transforms[key])
      [] key = "default"                                       -> SetField(c, key, v)
      [] OTHER                                                 -> c

\* A phantom property `__tsgonest_key?: v`, or typia's tag with kind and value.
Tag(key, v) == [key |-> key, v |-> v]
\* extractBrandedConstraints
BrandedConstraints(tags) ==
    FoldLeft(LAMBDA c, t : ExtractConstraintValue(c, t.key, t.v), NoConstraints, tags)

(***************************************************************************)
(* A JSDoc tag, its name in lower case.  Its comment is a number when it   *)
(* can be parsed as one, Undef when it is empty, a text otherwise.         *)
(***************************************************************************)
JSDocNumbers == [minimum |-> "minimum", min |-> "minimum", maximum |-> "maximum", max |-> "maximum",
                 minlength |-> "minLength", maxlength |-> "maxLength", minitems |-> "minItems",
                 maxitems |-> "maxItems", exclusiveminimum |-> "exclusiveMinimum",
                 exclusivemaximum |-> "exclusiveMaximum", multipleof |-> "multipleOf"]
JSDocPairs   == [len |-> {"minLength", "maxLength"}, length |-> {"minLength", "maxLength"},
                 items |-> {"minItems", "maxItems"}]
JSDocTexts   == [pattern |-> "pattern", format |-> "format", startswith |-> "startsWith",
                 endswith |-> "endsWith", includes |-> "includes", error |-> "error",
                 contentmediatype |-> "contentMediaType"]
JSDocFlags   == [uniqueitems |-> "uniqueItems", uppercase |-> "uppercase", lowercase |-> "lowercase",
                 coerce |-> "coerce"]
JSDocSigns   == [positive |-> "exclusiveMinimum", negative |-> "exclusiveMaximum",
                 nonnegative |-> "minimum", nonpositive |-> "maximum"]
JSDocNumeric == [int |-> "int32", safe |-> "int64", finite |-> "float"]
JSDocTransforms == [trim |-> "trim", tolowercase |-> "toLowerCase", touppercase |-> "toUpperCase"]
NumericTypes == {"int32", "uint32", "int64", "uint64", "float", "double"}

ReadJSDocTag(c, t) ==
    LET v == t.v
    IN  CASE t.key \in DOMAIN JSDocNumbers /\ v.tag = "number" -> SetField(c, JSDocNumbers[t.key], v.n)
          [] t.key \in DOMAIN JSDocPairs /\ v.tag = "number"   -> [f \in JSDocPairs[t.key] |-> v.n] @@ c
          [] t.key \in DOMAIN JSDocTexts /\ v.tag = "string"   -> SetField(c, JSDocTexts[t.key], v.s)
          [] t.key \in DOMAIN JSDocFlags                       -> SetField(c, JSDocFlags[t.key], TRUE)
          [] t.key \in DOMAIN JSDocSigns                       -> SetField(c, JSDocSigns[t.key], 0)
          [] t.key \in DOMAIN JSDocNumeric          -> SetField(c, "numericType", JSDocNumeric[t.key])
          [] t.key \in {"type", "numerictype"} /\ v.tag = "string" /\ v.s \in NumericTypes
                                                    -> SetField(c, "numericType", v.s)
          [] t.key \in DOMAIN JSDocTransforms       -> AddTransform(c, JSDocTransforms[t.key])
          [] t.key = "default" /\ v # Undef         -> SetField(c, "default", v)
          [] OTHER                                  -> c
\* extractJSDocConstraints: the tags of the last comment, the last one of a kind.
JSDocConstraints(tags) == FoldLeft(ReadJSDocTag, NoConstraints, tags)

\* mergeConstraints: JSDoc takes precedence, field by field.
MergeConstraints(brand, jsdoc) == jsdoc @@ brand

\* What a function of constraints says of a value.
ChecksFor(c) ==
    {Limit(k, c[k]) : k \in DOMAIN c \cap (CountFields \cup LimitFields)}
    \cup {Limit("numericType", NumericBound[c[k]]) :
            k \in {j \in DOMAIN c \cap {"numericType"} : c[j] \in DOMAIN NumericBound}}
    \cup {Texts(k, Passing[k][c[k]]) : k \in DOMAIN c \cap (RegexKinds \cup {"startsWith", "endsWith", "includes"})}
    \cup {Texts(k, Passing[k]) : k \in DOMAIN c \cap {"uppercase", "lowercase"}}
    \cup {[kind |-> k] : k \in DOMAIN c \cap {"uniqueItems"}}

\* A property with its constraints.
Constrained(p, c) ==
    [p EXCEPT !.checks = ChecksFor(c),
              !.default = IF "default" \in DOMAIN c THEN c.default ELSE Undef,
              !.transforms = IF "transforms" \in DOMAIN c THEN c.transforms ELSE <<>>,
              !.coerce = "coerce" \in DOMAIN c]

(***************************************************************************)
(* extractTypeLevelAnnotations: the last tag of each kind.                 *)
(***************************************************************************)
IgnoreTags == ("tsgonest-ignore" :> "all") @@ ("tsgonest-ignore-validation" :> "validation")
              @@ ("tsgonest-ignore-serialization" :> "serialization")
LastOf(tags, set, none) == LET ts == SelectSeq(tags, LAMBDA t : t \in set)
                           IN  IF ts = <<>> THEN none ELSE Last(ts)
StrictnessOf(tags) == LastOf(tags, {"strict", "passthrough", "strip"}, "")
IgnoreOf(tags) == LET t == LastOf(tags, DOMAIN IgnoreTags, "") IN IF t = "" THEN "" ELSE IgnoreTags[t]

=============================================================================
