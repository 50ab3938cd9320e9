----------------------------- MODULE References ------------------------------
(***************************************************************************)
(* Which named types a type refers to, itself or through others, as the    *)
(* code generator follows them to find out whether a type is recursive.    *)
(***************************************************************************)
EXTENDS Metadata

RECURSIVE RefsIn(_)
RefsIn(t) == IF t.kind = "ref" THEN {t.ref} ELSE UNION {RefsIn(s) : s \in Parts(t)}

RECURSIVE RefClosure(_)
RefClosure(names) ==
    LET more == names \cup UNION {RefsIn(Registry[n]) : n \in names \cap DOMAIN Registry}
    IN  IF more = names THEN names ELSE RefClosure(more)

Reachable(name) == RefClosure(RefsIn(Registry[name]))
IsRecursive(name) == name \in Reachable(name)

=============================================================================
