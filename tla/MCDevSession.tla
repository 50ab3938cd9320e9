---------------------------- MODULE MCDevSession ----------------------------
(* An instance of DevSession for TLC. *)
EXTENDS DevSession

Goroutines == {Main, Sig, Rs} \cup Timers
=============================================================================
