-------------------------- MODULE MCBuildPipeline --------------------------
(* Instances of BuildPipeline for TLC: a file with a controller in two     *)
(* versions (or none), and a file without that may have a type error.      *)
EXTENDS BuildPipeline, TLC

CONSTANTS f, g, c1, c2, plain, bad, k1, k2

MCFiles       == {f, g}
MCContentsOf  == f :> {c1, c2, plain} @@ g :> {plain, bad}
Setting(i, n, b, d) == [incremental |-> i, noEmitOnError |-> n, infoInside |-> b, faults |-> d]

\* Full builds and incremental ones with every disturbance; undisturbed
\* incremental builds.
PassSettings ==
    {Setting(FALSE, FALSE, FALSE, Disturbances), Setting(TRUE, TRUE, TRUE, Disturbances)}
      \cup {Setting(TRUE, n, FALSE, {}) : n \in BOOLEAN}
CleanSettings == {Setting(TRUE, FALSE, FALSE, {"clean"})}
FailSettings  == {Setting(TRUE, FALSE, FALSE, {"fail"})}
=============================================================================
