------------------------------ MODULE Companion ------------------------------
(***************************************************************************)
(* The calls of Calls with the functions that are generated: Validated is  *)
(* ValidateFunction and Serialized is SerializeFunction.                   *)
(***************************************************************************)
EXTENDS Calls, Validators, Serializers, Conformance

\* What validate<Name> returns as data belongs to the type, constraints,
\* strictness and index signatures included, however often it was called
\* before and whatever its failed calls have changed; of a recursive type
\* only the outline is checked, and one member of an intersection may change
\* what another has checked (validate.go).
ValidateSound ==
    LastWas("validate", "success") /\ ~HasChangingMember(type) =>
        HasType(type, value, IF IsRecursive(type) THEN Outline ELSE Full)

\* validate never refuses a value of the type, unless the type has a general
\* union, a discriminant that is no string, a constraint on a property that
\* may be null, changes in an intersection, or a nested type that is
\* recursive by itself (validate.go).
ValuesAccepted ==
    /\ last.fn = "validate" /\ HasType(type, last.before, Full)
    /\ ~HasGeneralUnion(type) /\ ~IsLoose(type) /\ ~HasNullConstraint(type)
    /\ ~HasChangingMember(type) /\ ~HasForeignRecursion(type)
    => last.outcome = "success"

\* A value that validate has accepted is finished: validating it again
\* succeeds and changes nothing (transforms, coercions, defaults and strip
\* do their work at once, unless in an intersection) and, when the type is
\* not recursive, assert and is agree (the four files).
AcceptedIsFinal ==
    [][LastWas("validate", "success") /\ ~HasChangingMember(type) =>
        /\ last'.fn = "validate" => last'.outcome = "success" /\ value' = value
        /\ ~IsRecursive(type) =>
            /\ last'.fn = "assert" => last'.outcome = "ok" /\ value' = value
            /\ last'.fn = "is"     => last'.outcome = "yes"]_vars

\* A value of the type reaches the client: what is sent is JSON, and holds
\* every declared property and element, unless a tuple has optional or rest
\* elements (serialize.go).
ResponseConveys ==
    last.fn = "stringify" /\ last.outcome # "rejected" /\ HasType(type, value, Full)
        /\ ~HasOpenTuple(type) /\ ~HasForeignRecursion(type)
        => last.outcome = "text" /\ Conveys(Registry[type], value, last.json)

\* The documentation's promise, without exceptions: validate accepts every
\* value of the type ("validates complex TypeScript types including nested
\* objects, unions", custom.mdx:6).
ValidateAcceptsAll ==
    last.fn = "validate" /\ HasType(type, last.before, Full) => last.outcome = "success"

=============================================================================
