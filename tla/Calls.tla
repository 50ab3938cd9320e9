------------------------------- MODULE Calls --------------------------------
(***************************************************************************)
(* One value and the functions of one companion file, called one after the *)
(* other: a route that asserts its body, a handler that validates it       *)
(* again, a response that is stringified.  validate and assert change the  *)
(* value in place, so each call sees what the earlier calls have left.     *)
(* What validate and serialize do is left to constants here; Companion has *)
(* the functions themselves.                                               *)
(***************************************************************************)
EXTENDS Guards, Asserters

CONSTANTS TypeNames,         \* the types whose companions are called
          Inputs(_),         \* the values offered to the companion of a type
          MaxCalls,          \* bound on the calls on one value
          Validated(_, _),   \* (name, value) -> what validate<Name> makes of it: v, bad, thrown
          Serialized(_, _)   \* what serialize<Name> writes, or Garbage
ASSUME NamesAssumption ==
    /\ TypeNames \subseteq DOMAIN Registry
    /\ UNION {Inputs(n) : n \in TypeNames} \subseteq AllValues

VARIABLES type,    \* whose companion
          value,   \* the value, as the calls have left it
          last,    \* the last call: function, outcome, value before, JSON sent
          calls    \* how many

vars == <<type, value, last, calls>>

NoCall == [fn |-> "none", outcome |-> "none", before |-> Undef, json |-> Garbage]

Init == /\ type \in TypeNames
        /\ value \in Inputs(type)
        /\ last = NoCall
        /\ calls = 0

\* AllValues bounds what a call may leave.
Calling(fn, outcome, after, json) ==
    /\ after \in AllValues
    /\ last' = [fn |-> fn, outcome |-> outcome, before |-> value, json |-> json]
    /\ value' = after
    /\ calls' = calls + 1
    /\ UNCHANGED type

\* A value on which a function threw is not used again.
Usable == calls < MaxCalls /\ last.outcome \notin {"throws", "overflow", "rejected"}

CallIs == Usable /\ Calling("is", IsFunction(type, value), value, Garbage)

ValidateOutcome(r) == CASE r.thrown              -> "throws"
                        [] ~r.thrown /\ r.bad    -> "failure"
                        [] ~r.thrown /\ ~r.bad   -> "success"
CallValidate ==
    /\ Usable
    /\ LET r == Validated(type, value)
       IN  Calling("validate", ValidateOutcome(r), r.v, Garbage)

CallAssert ==
    /\ Usable
    /\ LET r == AssertFunction(type, value)
       IN  Calling("assert", r.verdict, r.v, Garbage)

\* stringify in its three modes: validate, is, or nothing before serialize.
StringifyOutcome(json) == IF json = Garbage THEN "throws" ELSE "text"
CallStringifySafe ==
    /\ Usable
    /\ LET r == Validated(type, value)
           json == Serialized(type, r.v)
       IN  IF r.thrown \/ r.bad THEN Calling("stringify", "rejected", r.v, Garbage)
           ELSE Calling("stringify", StringifyOutcome(json), r.v, json)
CallStringifyGuard ==
    /\ Usable
    /\ IF IsFunction(type, value) = "yes"
       THEN LET json == Serialized(type, value)
            IN  Calling("stringify", StringifyOutcome(json), value, json)
       ELSE Calling("stringify", "rejected", value, Garbage)
\* "none" trusts the handler to return a value of the type.
CallStringifyNone ==
    /\ Usable
    /\ IsMember(type, value, Full)
    /\ LET json == Serialized(type, value)
       IN  Calling("stringify", StringifyOutcome(json), value, json)

Next == \/ CallIs \/ CallValidate \/ CallAssert
        \/ CallStringifySafe \/ CallStringifyGuard \/ CallStringifyNone

Spec == Init /\ [][Next]_vars

-----------------------------------------------------------------------------
LastWas(fn, outcome) == last.fn = fn /\ last.outcome = outcome

\* is<Name> says yes to exactly the values of the type, as far as it asks:
\* no multipleOf, numeric type, string method or array constraint, no
\* strictness.  It throws a ReferenceError only when a nested type is
\* recursive by itself, and says no to a member only when a discriminant is
\* no string or optional (validate_is.go).
GuardDegree == Degree(IsKinds, FALSE, TRUE)
GuardExact ==
    LET belongs == IsMember(type, last.before, GuardDegree)
    IN  /\ LastWas("is", "yes") => belongs
        /\ LastWas("is", "no") /\ belongs => IsLoose(type)
        /\ LastWas("is", "throws") => HasForeignRecursion(type)

\* What assert<Name> lets through belongs to the type in full, recursive
\* types included, when the type has nothing that assert does not ask for
\* (HasPartlyAsserted: a constraint that is not a limit, a length, a pattern
\* or a format, @strict, an index signature), no union but of literals, and
\* no member of an intersection that changes what another one has checked.
\* With something of the first it belongs to it but for that, contrary to
\* validation/jsdoc.mdx:334, which promises every constraint and the defaults
\* (assert fills in none: a value of the type goes through as it is).
\* A value of the type is never rejected and is handed over as it is,
\* transforms and coercions or not; it meets a ReferenceError only when a
\* nested type is recursive by itself (validate_assert.go).
AssertExact ==
    LET belongs == IsMember(type, last.before, Full)
    IN  /\ LastWas("assert", "ok") /\ ~HasOpenUnion(type) /\ ~HasWritingMember(type) =>
            IsMember(type, value, AssertedDegree(type))
        /\ LastWas("assert", "ok") /\ belongs => value = last.before
        /\ LastWas("assert", "rejected") => ~belongs
        /\ LastWas("assert", "throws") /\ belongs => HasForeignRecursion(type)

=============================================================================
