----------------------------- MODULE ChildSlot -----------------------------
(***************************************************************************)
(* What internal/runner promises to the dev command: one slot that holds   *)
(* at most one running child.  A child is spawned only into an empty slot, *)
(* every spawn is a new generation, and a child that is gone stays gone.   *)
(***************************************************************************)
EXTENDS Naturals

CONSTANT MaxGen   \* the number of generations (bound of the model)

VARIABLES alive,    \* generations whose child is running
          spawned,  \* generations whose child ever ran
          gen       \* the last generation a Start was called for

slotVars == <<alive, spawned, gen>>

SlotInit == alive = {} /\ spawned = {} /\ gen = 0

\* A new generation is announced; its child does not run yet (and never will
\* when the spawn fails).  The previous child is already gone.
Announce ==
    /\ gen < MaxGen
    /\ alive = {}
    /\ gen' = gen + 1
    /\ UNCHANGED <<alive, spawned>>

\* The child of the newest generation starts to run.
Spawn ==
    /\ gen \in 1 .. MaxGen
    /\ gen \notin spawned
    /\ alive = {}
    /\ alive' = {gen}
    /\ spawned' = spawned \cup {gen}
    /\ UNCHANGED gen

\* The child exits, by itself or because it was told to.
Exit ==
    /\ alive # {}
    /\ alive' = {}
    /\ UNCHANGED <<spawned, gen>>

SlotNext == Announce \/ Spawn \/ Exit

SlotSpec == SlotInit /\ [][SlotNext]_slotVars
=============================================================================
