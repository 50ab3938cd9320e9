----------------------------- MODULE DevSession -----------------------------
(***************************************************************************)
(* cmd/tsgonest/dev.go: "tsgonest dev", the composition of the Runner, the *)
(* Watcher and the builder.                                                *)
(*                                                                         *)
(* Goroutines: Main (initial build, start, Watch, deferred Stop), Sig (the *)
(* signal handler), Rs (the manual restarts) and the callback of each      *)
(* timer of the Watcher, whose onChange is the closure rebuild.  They      *)
(* share the builder's mutex and the Runner.                               *)
(*                                                                         *)
(* A build reads the sources when it begins and fails when they hold a     *)
(* broken stamp (a missing file may be one).  Sources are written, not     *)
(* removed; children have no helper processes (Watcher and Runner have     *)
(* both).                                                                  *)
(***************************************************************************)
EXTENDS Runner, Watcher

CONSTANTS Main, Sig, Rs,  \* goroutines; the others are the timers' callbacks
          Broken,         \* stamps of sources that do not build
          MaxRs           \* bound on the manual restarts

ASSUME DevAssumption ==
    /\ Callers = {Main, Sig, Rs} \cup Timers
    /\ Main # Sig /\ Main # Rs /\ Sig # Rs
    /\ Main \notin Timers /\ Sig \notin Timers /\ Rs \notin Timers
    /\ Broken \subseteq Stamps
    /\ MaxRs \in Nat
    /\ MaxStarts >= 1 + MaxTimers + MaxRs

VARIABLES
    at,       \* where each goroutine is in dev.go
    builder,  \* holder of devBuilder.mu
    read,     \* the sources that the last build to begin has read
    hasProc,  \* proc is not nil
    stale,    \* a build has succeeded since the last child was started
    rsTyped,  \* lines "rs" so far
    ended     \* the process has exited without a panic

devVars == <<at, builder, read, hasProc, stale, rsTyped, ended>>
sessionVars == <<runnerVars, watchVars, devVars>>

Places == {"off", "lock", "build", "start", "prepare", "watch", "defer", "wait",
           "stop", "gone", "scan", "restart", "return"}

DevTypeOK ==
    /\ RunnerTypeOK /\ WatcherTypeOK
    /\ at \in [Callers -> Places]
    /\ builder \in Callers \cup {NoCaller}
    /\ read \in [Files -> Stamps]
    /\ hasProc \in BOOLEAN /\ stale \in BOOLEAN /\ ended \in BOOLEAN
    /\ rsTyped \in 0 .. MaxRs

DevInit ==
    /\ RunnerInit /\ WatcherInit
    /\ at = [g \in Callers |-> IF g = Main THEN "lock" ELSE "off"]
    /\ builder = NoCaller
    /\ read = [f \in Files |-> Absent]
    /\ hasProc = FALSE /\ stale = FALSE
    /\ rsTyped = 0
    /\ ended = FALSE

Move(g, place) == at' = [at EXCEPT ![g] = place]

\* A call into the Runner when there is one, and where the goroutine goes on.
CallIfProc(call, g, place) ==
    /\ IF hasProc THEN call ELSE UNCHANGED runnerVars
    /\ Move(g, place)

-----------------------------------------------------------------------------
(* Builds, by any goroutine but Sig. *)

\* Mutant: the builder's mutex is not taken.
BuildBeginUnlocked(g) ==
    /\ at[g] = "lock"
    /\ builder' = g
    /\ read' = disk
    /\ Move(g, "build")
    /\ UNCHANGED <<runnerVars, watchVars, hasProc, stale, rsTyped, ended>>

\* b.mu.Lock(); runBuildWithIncr reads the sources.
BuildBegin(g) ==
    /\ at[g] = "lock"
    /\ builder = NoCaller
    /\ builder' = g
    /\ read' = disk
    /\ Move(g, "build")
    /\ UNCHANGED <<runnerVars, watchVars, hasProc, stale, rsTyped, ended>>

Builds == \A f \in Files : read[f] \notin Broken

\* Where a goroutine goes on when its build has returned.
AfterBuild(g) ==
    IF g = Main THEN "prepare" ELSE IF g = Rs THEN "scan" ELSE "return"

\* Mutant: a goroutine leaves the restart to another one that is restarting.
BuildEndCoalesced(g) ==
    /\ at[g] = "build"
    /\ g # Main
    /\ builder' = NoCaller
    /\ stale' = (stale \/ Builds)
    /\ Move(g, IF Builds /\ (\A t \in Callers : pc[t] = "idle") THEN "restart" ELSE AfterBuild(g))
    /\ UNCHANGED <<runnerVars, watchVars, read, hasProc, rsTyped, ended>>

\* A rebuild returns; the Runner is restarted if it succeeded.
BuildEnd(g) ==
    /\ at[g] = "build"
    /\ g # Main
    /\ builder' = NoCaller
    /\ stale' = (stale \/ Builds)
    /\ Move(g, IF Builds THEN "restart" ELSE AfterBuild(g))
    /\ UNCHANGED <<runnerVars, watchVars, read, hasProc, rsTyped, ended>>

\* proc.Restart()
RestartProc(g) ==
    /\ at[g] = "restart"
    /\ CallIfProc(CallRestart(g), g, AfterBuild(g))
    /\ UNCHANGED <<watchVars, builder, read, hasProc, stale, rsTyped, ended>>

-----------------------------------------------------------------------------
(* Main. *)

\* The initial build returns.  Whether there is a proc is decided now, by the
\* flags, the config or what is in dist, and never again.
InitialBuildEnd ==
    /\ at[Main] = "build"
    /\ builder' = NoCaller
    /\ stale' = Builds
    /\ hasProc' \in BOOLEAN
    /\ Move(Main, IF Builds THEN "start" ELSE "prepare")
    /\ UNCHANGED <<runnerVars, watchVars, read, rsTyped, ended>>

StartProc ==
    /\ at[Main] = "start"
    /\ CallIfProc(CallStart(Main), Main, "prepare")
    /\ UNCHANGED <<watchVars, builder, read, hasProc, stale, rsTyped, ended>>

\* signal.Notify, the goroutines Sig and Rs, and w.Watch()
StartWatching ==
    /\ at[Main] = "prepare"
    /\ pc[Main] = "idle"
    /\ at' = [at EXCEPT ![Main] = "watch", ![Sig] = "wait", ![Rs] = "scan"]
    /\ UNCHANGED <<runnerVars, watchVars, builder, read, hasProc, stale, rsTyped, ended>>

\* Watch has returned: the deferred proc.Stop()
DeferredStop ==
    /\ at[Main] = "watch"
    /\ poll = "returned"
    /\ CallIfProc(CallStop(Main), Main, "defer")
    /\ UNCHANGED <<watchVars, builder, read, hasProc, stale, rsTyped, ended>>

MainReturns ==
    /\ at[Main] = "defer"
    /\ pc[Main] = "idle"
    /\ ended' = TRUE
    /\ UNCHANGED <<runnerVars, watchVars, at, builder, read, hasProc, stale, rsTyped>>

\* A signal before signal.Notify ends the process at once.
EarlySignal ==
    /\ at[Main] \in {"lock", "build", "start", "prepare"}
    /\ ended' = TRUE
    /\ UNCHANGED <<runnerVars, watchVars, at, builder, read, hasProc, stale, rsTyped>>

-----------------------------------------------------------------------------
(* Sig and Rs. *)

\* <-sigCh; w.Stop().  Further signals stay in the channel.
SignalStopsWatch ==
    /\ at[Sig] = "wait"
    /\ Stop
    /\ Move(Sig, "stop")
    /\ UNCHANGED <<runnerVars, builder, read, hasProc, stale, rsTyped, ended>>

SignalStopsProc ==
    /\ at[Sig] = "stop"
    /\ CallIfProc(CallStop(Sig), Sig, "gone")
    /\ UNCHANGED <<watchVars, builder, read, hasProc, stale, rsTyped, ended>>

\* A line "rs"
TypeRs ==
    /\ at[Rs] = "scan"
    /\ pc[Rs] = "idle"
    /\ rsTyped < MaxRs
    /\ rsTyped' = rsTyped + 1
    /\ Move(Rs, "lock")
    /\ UNCHANGED <<runnerVars, watchVars, builder, read, hasProc, stale, ended>>

-----------------------------------------------------------------------------
(* The Watcher's timer callbacks: onChange is the closure rebuild. *)

\* Mutant: a rebuild is left out when another build is under way.
RebuildUnlessBusy(c) ==
    /\ cb[c] = "calling"
    /\ at[c] = "off"
    /\ Move(c, IF builder = NoCaller THEN "lock" ELSE "return")
    /\ UNCHANGED <<runnerVars, watchVars, builder, read, hasProc, stale, rsTyped, ended>>

Rebuild(c) ==
    /\ cb[c] = "calling"
    /\ at[c] = "off"
    /\ Move(c, "lock")
    /\ UNCHANGED <<runnerVars, watchVars, builder, read, hasProc, stale, rsTyped, ended>>

RebuildReturns(c) ==
    /\ at[c] = "return"
    /\ pc[c] = "idle"
    /\ CallbackReturns(c)
    /\ Move(c, "gone")
    /\ UNCHANGED <<runnerVars, builder, read, hasProc, stale, rsTyped, ended>>

TimerStep(c) == (Fire(c) \/ Take(c)) /\ UNCHANGED <<runnerVars, devVars>>

-----------------------------------------------------------------------------
(* Steps inside the Runner and the Watcher. *)

RunnerStep(g) ==
    /\ \/ (StartLock(g) \/ StartChan(g) \/ StopStep(g)) /\ UNCHANGED stale
       \/ StartFork(g) /\ stale' = FALSE
    /\ UNCHANGED <<watchVars, at, builder, read, hasProc, rsTyped, ended>>

WaiterStep(k) == Waiter(k) /\ UNCHANGED <<watchVars, devVars>>
ChildExit(k)  == LeaderExit(k) /\ UNCHANGED <<watchVars, devVars>>

PollStep ==
    /\ at[Main] = "watch"
    /\ Polling
    /\ UNCHANGED <<runnerVars, devVars>>

SeeStop ==
    /\ at[Main] = "watch"
    /\ WatchReturns
    /\ UNCHANGED <<runnerVars, devVars>>

Save(f) == Write(f) /\ UNCHANGED <<runnerVars, devVars>>

-----------------------------------------------------------------------------
Over == ended \/ panicked

Goroutine(g) ==
    /\ ~Over
    /\ BuildBegin(g) \/ BuildEnd(g) \/ RestartProc(g) \/ RunnerStep(g)

MainStep ==
    ~Over /\ (InitialBuildEnd \/ StartProc \/ StartWatching \/ DeferredStop \/ MainReturns)

SigStep == ~Over /\ SignalStopsProc
CallbackStep(c) == ~Over /\ (TimerStep(c) \/ Rebuild(c) \/ RebuildReturns(c))

\* When the process is over only the children and the sources go on.
DevNext ==
    \/ \E g \in Callers : Goroutine(g)
    \/ MainStep \/ SigStep
    \/ \E c \in Timers : CallbackStep(c)
    \/ \E k \in Handles : ~Over /\ WaiterStep(k)
    \/ ~Over /\ (PollStep \/ SeeStop)
    \/ ~Over /\ (SignalStopsWatch \/ TypeRs \/ EarlySignal)
    \/ \E k \in Handles : ChildExit(k)
    \/ ~Over /\ \E f \in Files : Save(f)

\* Goroutines that can run are run.  Nothing is assumed of the user (signals,
\* "rs", edits) and of the children.
DevFairness ==
    /\ \A g \in Callers : WF_sessionVars(Goroutine(g))
    /\ WF_sessionVars(MainStep) /\ WF_sessionVars(SigStep)
    /\ \A c \in Timers : WF_sessionVars(CallbackStep(c))
    /\ \A k \in Handles : WF_sessionVars(~Over /\ WaiterStep(k))
    /\ WF_sessionVars(~Over /\ PollStep)
    /\ SF_sessionVars(~Over /\ SeeStop)

DevSpec == DevInit /\ [][DevNext]_sessionVars /\ DevFairness

-----------------------------------------------------------------------------
(* Properties. *)

\* Before Main watches, no other goroutine of dev.go runs.
MainAlone ==
    at[Main] \in {"lock", "build", "start", "restart", "prepare"} =>
        at[Sig] = "off" /\ at[Rs] = "off"

\* The builder's mutex is held exactly inside a build.
BuilderHeld == \A g \in Callers : builder = g <=> at[g] = "build"

\* A goroutine on its way to a Start.
WillStart(g) ==
    \/ at[g] \in {"start", "restart"}
    \/ pc[g] \in {"start", "startChan", "startFork"}
    \/ again[g] /\ pc[g] \in Stopping

\* After a build that succeeded some goroutine is still to start the new child.
StartPending == stale /\ hasProc => \E g \in Callers : WillStart(g)

\* Types, the two mutexes, and what RestartedAfterBuild rests on.
DevInv == DevTypeOK /\ LockHeld /\ MainAlone /\ BuilderHeld /\ StartPending

\* No goroutine is between the start of a build and the end of its restart.
Resting ==
    /\ \A g \in Callers : at[g] \notin {"lock", "build", "start", "restart"}
    /\ \A g \in Callers : pc[g] = "idle"

\* However rebuilds and manual restarts overlap, when they are all done the child
\* in the Runner was started after the last build that succeeded: the app does not
\* run older output than dist holds (dev.go:205-228, 279-288).
RestartedAfterBuild == Resting /\ hasProc /\ ~Over => ~stale

\* A change that the watcher can see is read by a build, unless dev stops first
\* (watcher.go:60-86, dev.go:205-233).
ChangesBuilt ==
    \A f \in Files :
        poll # "first" /\ disk[f] # snapshot[f] ~> read[f] = disk[f] \/ stopCh \/ Over

\* After a signal dev ends: no goroutine blocks in the Runner, in the builder or
\* in Watch (dev.go:242-270).
ShutdownEnds == stopCh ~> Over

\* cli.mdx:101-102, "Monitors src/ for file changes ... On file change ... runs an
\* incremental build": every change is read by a build.
EditsBuilt ==
    \A f \in Files : disk[f] # read[f] ~> read[f] = disk[f] \/ stopCh \/ Over

\* dev.go:242-244 and 251-252: a panic leaves no child behind.
PanicLeavesNoOrphan == panicked => \A k \in Handles : leader[k] # "up"
=============================================================================
