------------------------------ MODULE MCRunner ------------------------------
(* An instance of Runner for TLC: one goroutine, as in a caller that waits *)
(* for each call to return.  DevSession has the goroutines of dev.go.      *)
EXTENDS Runner

CONSTANT a

OneCaller == {a}
=============================================================================
