-------------------------- MODULE DevSessionProofs --------------------------
(***************************************************************************)
(* Proofs about DevSession, for any number of edits, timers, manual        *)
(* restarts and starts:                                                    *)
(*  - the app is restarted after the last build that succeeded; the        *)
(*    invariant follows the goroutine that will call Start from the end of *)
(*    its build to the fork of the child;                                  *)
(*  - what holds of the Watcher and of the Runner holds in the session; of *)
(*    the Runner, as long as no two goroutines are in the gap of a Restart.*)
(***************************************************************************)
EXTENDS DevSession, RunnerProofs, WatcherProofs

\* The functions that the steps of a goroutine update.
Shapes ==
    /\ at \in [Callers -> Places]
    /\ pc \in [Callers -> CallerState]
    /\ again \in [Callers -> BOOLEAN]

CoreInv == Shapes /\ MainAlone /\ BuilderHeld /\ StartPending

LEMMA Names ==
    /\ Main \in Callers /\ Sig \in Callers /\ Rs \in Callers
    /\ Main # Sig /\ Main # Rs /\ Sig # Rs
    /\ NoCaller \notin Callers
    /\ \A c \in Timers : c \in Callers /\ c # Main /\ c # Sig /\ c # Rs
  BY DevAssumption, RunnerAssumption

LEMMA CoreInit == DevInit => CoreInv
  BY Names DEF DevInit, RunnerInit, CoreInv, Shapes, Places, CallerState, MainAlone,
               BuilderHeld, StartPending

\* A step that leaves at, builder, hasProc alone and keeps the goroutines that will
\* start a child.
LEMMA SameStarters ==
    ASSUME CoreInv, Shapes', UNCHANGED <<at, builder, hasProc>>, stale' => stale,
           \A g \in Callers : stale' /\ WillStart(g) => WillStart(g)'
    PROVE  CoreInv'
  BY DEF CoreInv, MainAlone, BuilderHeld, StartPending

\* Inside the Runner a goroutine that will start a child goes on until it forks.
LEMMA InsideRunner ==
    ASSUME CoreInv, NEW g \in Callers, RunnerStep(g)
    PROVE  CoreInv'
  <1> USE DEF CoreInv, Shapes, CallerState
  <1>1. UNCHANGED <<at, builder, hasProc>>
    BY DEF RunnerStep
  <1>2. CASE StartLock(g) /\ UNCHANGED stale
    <2>1. Shapes' /\ pc' = [pc EXCEPT ![g] = "startChan"] /\ again' = again
      BY <1>1, <1>2 DEF StartLock, Goto
    <2> QED
      BY <1>1, <1>2, <2>1, SameStarters DEF WillStart, Stopping, StartLock
  <1>3. CASE StartChan(g) /\ UNCHANGED stale
    <2>1. Shapes' /\ pc' = [pc EXCEPT ![g] = "startFork"] /\ again' = again
      BY <1>1, <1>3 DEF StartChan, Goto
    <2> QED
      BY <1>1, <1>3, <2>1, SameStarters DEF WillStart, Stopping, StartChan
  <1>4. CASE StartFork(g) /\ stale' = FALSE
    <2>1. Shapes'
      BY <1>1, <1>4 DEF StartFork, Goto
    <2> QED
      BY <1>1, <1>4, <2>1, SameStarters
  <1>5. CASE StopSignal(g) /\ UNCHANGED stale
    <2>1. /\ Shapes' /\ pc[g] = "stop" /\ again' = again
          /\ pc' = [pc EXCEPT ![g] = "stopWait"]
      BY <1>1, <1>5 DEF StopSignal, Goto
    <2> QED
      BY <1>1, <1>5, <2>1, SameStarters DEF WillStart, Stopping
  <1>6. CASE StopTimeout(g) /\ UNCHANGED stale
    <2>1. /\ Shapes' /\ pc[g] = "stopWait" /\ again' = again
          /\ pc' = [pc EXCEPT ![g] = "stopKilled"]
      BY <1>1, <1>6 DEF StopTimeout, Goto
    <2> QED
      BY <1>1, <1>6, <2>1, SameStarters DEF WillStart, Stopping
  <1>7. CASE (StopNothing(g) \/ StopDone(g) \/ StopKilled(g)) /\ UNCHANGED stale
    <2>1. /\ pc[g] \in Stopping
          /\ pc' = [pc EXCEPT ![g] = IF again[g] THEN "start" ELSE "idle"]
          /\ again' = [again EXCEPT ![g] = FALSE]
      BY <1>7 DEF StopNothing, StopDone, StopKilled, StopReturn, Goto, Stopping
    <2>2. Shapes'
      BY <1>1, <2>1
    <2>3. \A t \in Callers : WillStart(t) => WillStart(t)'
      BY <1>1, <2>1, <2>2 DEF WillStart, Stopping
    <2> QED
      BY <1>1, <1>7, <2>2, <2>3, SameStarters
  <1> QED
    BY <1>2, <1>3, <1>4, <1>5, <1>6, <1>7 DEF RunnerStep, StopStep

\* A step outside the Runner that moves one goroutine.
LEMMA MoveOne ==
    ASSUME CoreInv, NEW g \in Callers, NEW place \in Places,
           at' = [at EXCEPT ![g] = place],
           UNCHANGED <<pc, again, hasProc, stale>>,
           at[g] \notin {"start", "restart", "build"},
           place = "build" => builder = NoCaller /\ builder' = g,
           place # "build" => builder' = builder,
           g = Main /\ place \in {"lock", "build", "start", "restart", "prepare"}
               => at[Main] \in {"lock", "build", "start", "restart", "prepare"},
           g \in {Sig, Rs} => at[g] # "off"
    PROVE  CoreInv'
  <1> USE Names DEF CoreInv
  <1>1. Shapes'
    BY DEF Shapes
  <1>2. MainAlone'
    BY DEF MainAlone, Shapes
  <1>3. BuilderHeld'
    BY DEF BuilderHeld, Shapes
  <1>4. \A t \in Callers : WillStart(t) => WillStart(t)'
    BY DEF WillStart, Shapes
  <1> QED
    BY <1>1, <1>2, <1>3, <1>4 DEF StartPending

\* A build returns, and its goroutine restarts the child if it succeeded.
LEMMA BuildReturns ==
    ASSUME CoreInv, NEW g \in Callers, BuildEnd(g)
    PROVE  CoreInv'
  <1> USE Names DEF CoreInv
  <1>1. /\ at[g] = "build" /\ g # Main /\ builder' = NoCaller
        /\ stale' = (stale \/ Builds)
        /\ at' = [at EXCEPT ![g] = IF Builds THEN "restart" ELSE AfterBuild(g)]
        /\ UNCHANGED <<pc, again, hasProc>>
    BY DEF BuildEnd, Move, runnerVars, callVars
  <1>2. AfterBuild(g) \in {"prepare", "scan", "return"}
    BY DEF AfterBuild
  <1>3. Shapes'
    BY <1>1, <1>2 DEF Shapes, Places
  <1>4. MainAlone' /\ BuilderHeld'
    BY <1>1, <1>2 DEF MainAlone, BuilderHeld, Shapes
  <1>5. StartPending'
    <2>1. CASE Builds
      <3>1. WillStart(g)'
        BY <1>1, <2>1 DEF WillStart, Shapes
      <3> QED
        BY <3>1 DEF StartPending
    <2>2. CASE ~Builds
      <3>1. (stale' => stale) /\ \A t \in Callers : WillStart(t) => WillStart(t)'
        BY <1>1, <2>2 DEF WillStart, Shapes
      <3> QED
        BY <1>1, <3>1 DEF StartPending
    <2> QED
      BY <2>1, <2>2
  <1> QED
    BY <1>3, <1>4, <1>5

LEMMA InitialBuildReturns ==
    ASSUME CoreInv, InitialBuildEnd
    PROVE  CoreInv'
  <1> USE Names DEF CoreInv
  <1>1. /\ at[Main] = "build" /\ builder' = NoCaller /\ stale' = Builds
        /\ at' = [at EXCEPT ![Main] = IF Builds THEN "start" ELSE "prepare"]
        /\ UNCHANGED <<pc, again>>
    BY DEF InitialBuildEnd, Move, runnerVars, callVars
  <1>2. Shapes'
    BY <1>1 DEF Shapes, Places
  <1>3. MainAlone' /\ BuilderHeld'
    BY <1>1 DEF MainAlone, BuilderHeld, Shapes
  <1>4. stale' => WillStart(Main)'
    BY <1>1 DEF WillStart, Shapes
  <1> QED
    BY <1>2, <1>3, <1>4 DEF StartPending

\* The two places from which a child is started.
LEMMA StartCalled ==
    ASSUME CoreInv, NEW g \in Callers, RestartProc(g) \/ (g = Main /\ StartProc)
    PROVE  CoreInv'
  <1> USE Names DEF CoreInv
  <1>1. PICK place \in {"prepare", "scan", "return"} :
          /\ at[g] \in {"start", "restart"}
          /\ at' = [at EXCEPT ![g] = place]
          /\ g = Main => place = "prepare"
          /\ UNCHANGED <<builder, hasProc, stale>>
    BY DEF RestartProc, StartProc, CallIfProc, Move, AfterBuild
  <1>2. CASE ~hasProc
    <2>1. UNCHANGED <<pc, again>>
      BY <1>2 DEF RestartProc, StartProc, CallIfProc, runnerVars, callVars
    <2>2. Shapes'
      BY <1>1, <2>1 DEF Shapes, Places
    <2>3. MainAlone' /\ BuilderHeld'
      BY <1>1 DEF MainAlone, BuilderHeld, Shapes
    <2> QED
      BY <1>1, <1>2, <2>2, <2>3 DEF StartPending
  <1>3. CASE hasProc
    <2>1. \/ /\ pc' = [pc EXCEPT ![g] = "stop"]
             /\ again' = [again EXCEPT ![g] = TRUE]
          \/ /\ pc' = [pc EXCEPT ![g] = "start"]
             /\ again' = again
      BY <1>3 DEF RestartProc, StartProc, CallIfProc, CallRestart, CallStart, Goto
    <2>2. Shapes'
      BY <1>1, <2>1 DEF Shapes, Places, CallerState
    <2>3. MainAlone' /\ BuilderHeld'
      BY <1>1 DEF MainAlone, BuilderHeld, Shapes
    <2>4. WillStart(g)'
      BY <1>1, <2>1, <2>2 DEF WillStart, Shapes, Stopping
    <2> QED
      BY <2>2, <2>3, <2>4 DEF StartPending
  <1> QED
    BY <1>2, <1>3

\* The two places from which the child is stopped for good.
LEMMA StopCalled ==
    ASSUME CoreInv, DeferredStop \/ SignalStopsProc
    PROVE  CoreInv'
  <1> USE Names DEF CoreInv
  <1>1. PICK g \in {Main, Sig}, place \in {"defer", "gone"} :
          /\ at[g] \in {"watch", "stop"}
          /\ at' = [at EXCEPT ![g] = place]
          /\ IF hasProc THEN CallStop(g) ELSE UNCHANGED runnerVars
          /\ UNCHANGED <<builder, hasProc, stale>>
    BY DEF DeferredStop, SignalStopsProc, CallIfProc, Move
  <1>2. /\ g \in Callers
        /\ again' = again
        /\ pc' = pc \/ (pc[g] = "idle" /\ pc' = [pc EXCEPT ![g] = "stop"])
    BY <1>1 DEF CallStop, Goto, runnerVars, callVars
  <1>3. Shapes'
    BY <1>1, <1>2 DEF Shapes, Places, CallerState
  <1>4. MainAlone' /\ BuilderHeld'
    BY <1>1, <1>2 DEF MainAlone, BuilderHeld, Shapes
  <1>5. \A t \in Callers : WillStart(t) => WillStart(t)'
    BY <1>1, <1>2 DEF WillStart, Shapes, Stopping
  <1> QED
    BY <1>1, <1>3, <1>4, <1>5 DEF StartPending

LEMMA BeginsToWatch ==
    ASSUME CoreInv, StartWatching
    PROVE  CoreInv'
  <1> USE Names DEF CoreInv
  <1>1. /\ at[Main] = "prepare"
        /\ at' = [at EXCEPT ![Main] = "watch", ![Sig] = "wait", ![Rs] = "scan"]
        /\ UNCHANGED <<pc, again, builder, hasProc, stale>>
    BY DEF StartWatching, runnerVars, callVars
  <1>2. at[Sig] = "off" /\ at[Rs] = "off"
    BY <1>1 DEF MainAlone
  <1>3. Shapes'
    BY <1>1 DEF Shapes, Places
  <1>4. MainAlone' /\ BuilderHeld'
    BY <1>1, <1>2 DEF MainAlone, BuilderHeld, Shapes
  <1>5. \A t \in Callers : WillStart(t) => WillStart(t)'
    BY <1>1, <1>2 DEF WillStart, Shapes
  <1> QED
    BY <1>1, <1>3, <1>4, <1>5 DEF StartPending

\* A step that leaves dev.go and the callers of the Runner where they are.
LEMMA Elsewhere ==
    ASSUME CoreInv, UNCHANGED <<at, builder, hasProc, stale, pc, again>>
    PROVE  CoreInv'
  BY DEF CoreInv, Shapes, MainAlone, BuilderHeld, StartPending, WillStart

LEMMA CoreStep ==
    ASSUME CoreInv, [DevNext]_sessionVars
    PROVE  CoreInv'
  <1> USE Names
  <1>0. Shapes
    BY DEF CoreInv
  <1>1. ASSUME NEW g \in Callers, Goroutine(g) PROVE CoreInv'
    <2>1. CASE BuildBegin(g)
      <3>1. "build" \in Places
        BY DEF Places
      <3>2. UNCHANGED <<pc, again, hasProc, stale>>
        BY <2>1 DEF BuildBegin, runnerVars, callVars
      <3>3. /\ at[g] = "lock" /\ at' = [at EXCEPT ![g] = "build"]
            /\ builder = NoCaller /\ builder' = g
        BY <2>1 DEF BuildBegin, Move
      <3>4. /\ at[g] \notin {"start", "restart", "build"}
            /\ g \in {Sig, Rs} => at[g] # "off"
            /\ g = Main => at[Main] \in {"lock", "build", "start", "restart", "prepare"}
        BY <3>3
      <3> DEFINE place == "build"
      <3>5. place \in Places /\ at' = [at EXCEPT ![g] = place] /\ place = "build"
        BY <3>1, <3>3
      <3> HIDE DEF place
      <3> QED
        BY <3>2, <3>3, <3>4, <3>5, MoveOne
    <2> QED
      BY <1>1, <2>1, BuildReturns, StartCalled, InsideRunner DEF Goroutine
  <1>2. CASE MainStep
    <2>1. CASE MainReturns
      BY <2>1, Elsewhere DEF MainReturns, runnerVars, callVars
    <2> QED
      BY <1>2, <2>1, InitialBuildReturns, StartCalled, BeginsToWatch, StopCalled DEF MainStep
  <1>3. CASE SigStep
    BY <1>3, StopCalled DEF SigStep
  <1>4. ASSUME NEW c \in Timers, CallbackStep(c) PROVE CoreInv'
    <2>1. CASE TimerStep(c)
      BY <2>1, Elsewhere DEF TimerStep, runnerVars, callVars, devVars
    <2>2. CASE Rebuild(c)
      <3>1. "lock" \in Places /\ c \in Callers /\ c \notin {Main, Sig, Rs}
        BY DEF Places
      <3>2. UNCHANGED <<pc, again, hasProc, stale, builder>> /\ at[c] = "off"
        BY <2>2 DEF Rebuild, runnerVars, callVars
      <3> QED
        BY <2>2, <3>1, <3>2, MoveOne DEF Rebuild, Move
    <2>3. CASE RebuildReturns(c)
      <3>1. "gone" \in Places /\ c \in Callers /\ c \notin {Main, Sig, Rs}
        BY DEF Places
      <3>2. UNCHANGED <<pc, again, hasProc, stale, builder>> /\ at[c] = "return"
        BY <2>3 DEF RebuildReturns, runnerVars, callVars
      <3> QED
        BY <2>3, <3>1, <3>2, MoveOne DEF RebuildReturns, Move
    <2> QED
      BY <1>4, <2>1, <2>2, <2>3 DEF CallbackStep
  <1>5. ASSUME NEW k \in Handles, WaiterStep(k) \/ ChildExit(k) PROVE CoreInv'
    BY <1>5, Elsewhere
    DEF WaiterStep, ChildExit, Waiter, WaiterRead, WaiterReturn, WaiterClose, LeaderExit,
        callVars, devVars
  <1>6. CASE PollStep \/ SeeStop \/ EarlySignal \/ \E f \in Files : Save(f)
    BY <1>6, Elsewhere DEF PollStep, SeeStop, EarlySignal, Save, runnerVars, callVars, devVars
  <1>7. CASE SignalStopsWatch
    <2>1. "stop" \in Places
      BY DEF Places
    <2>2. UNCHANGED <<pc, again, hasProc, stale, builder>> /\ at[Sig] = "wait"
      BY <1>7 DEF SignalStopsWatch, runnerVars, callVars
    <2> QED
      BY <1>7, <2>1, <2>2, MoveOne DEF SignalStopsWatch, Move
  <1>8. CASE TypeRs
    <2>1. "lock" \in Places
      BY DEF Places
    <2>2. UNCHANGED <<pc, again, hasProc, stale, builder>> /\ at[Rs] = "scan"
      BY <1>8 DEF TypeRs, runnerVars, callVars
    <2> QED
      BY <1>8, <2>1, <2>2, MoveOne DEF TypeRs, Move
  <1>9. CASE UNCHANGED sessionVars
    BY <1>9, Elsewhere DEF sessionVars, runnerVars, callVars, devVars
  <1> QED
    BY <1>1, <1>2, <1>3, <1>4, <1>5, <1>6, <1>7, <1>8, <1>9 DEF DevNext

\* The invariant of the goroutines of dev.go that share the builder and the Runner.
THEOREM CoreInvariant == DevSpec => []CoreInv
  BY CoreInit, CoreStep, PTL DEF DevSpec

\* However rebuilds and manual restarts overlap, the child that is left was started
\* after the last build that succeeded (dev.go:205-228, 279-288).
THEOREM AlwaysRestarted == DevSpec => []RestartedAfterBuild
  <1>1. CoreInv => RestartedAfterBuild
    BY DEF CoreInv, StartPending, RestartedAfterBuild, Resting, WillStart, Stopping
  <1> QED
    BY CoreInvariant, <1>1, PTL

-----------------------------------------------------------------------------
(* The composition: each step is one of the Runner or leaves it alone, and *)
(* one of the Watcher or leaves it alone, so their invariants hold in it.  *)

LEMMA CallersFinite == IsFiniteSet(Callers)
  <1>1. IsFiniteSet(Timers)
    BY FS_Interval, WatcherAssumption DEF Timers
  <1>2. IsFiniteSet(Timers \cup {Main})
    BY <1>1, FS_AddElement
  <1>3. IsFiniteSet((Timers \cup {Main}) \cup {Sig})
    BY <1>2, FS_AddElement
  <1>4. IsFiniteSet(((Timers \cup {Main}) \cup {Sig}) \cup {Rs})
    BY <1>3, FS_AddElement
  <1>5. Callers = ((Timers \cup {Main}) \cup {Sig}) \cup {Rs}
    BY DevAssumption
  <1> QED
    BY <1>4, <1>5

LEMMA RunnerInside ==
    ASSUME [DevNext]_sessionVars
    PROVE  RunnerMoves \/ UNCHANGED runnerVars
  <1> USE Names DEF RunnerMoves, CallIfProc
  <1>1. ASSUME NEW g \in Callers, Goroutine(g) PROVE RunnerMoves \/ UNCHANGED runnerVars
    BY <1>1 DEF Goroutine, BuildBegin, BuildEnd, RestartProc, RunnerStep, Call, StartStep
  <1>2. CASE MainStep \/ SigStep
    BY <1>2 DEF MainStep, SigStep, InitialBuildEnd, StartProc, StartWatching, DeferredStop,
                MainReturns, SignalStopsProc, Call
  <1>3. ASSUME NEW c \in Timers, CallbackStep(c) PROVE UNCHANGED runnerVars
    BY <1>3 DEF CallbackStep, TimerStep, Rebuild, RebuildReturns
  <1>4. ASSUME NEW k \in Handles, WaiterStep(k) \/ ChildExit(k) PROVE RunnerMoves
    BY <1>4 DEF WaiterStep, ChildExit, Process
  <1>5. CASE PollStep \/ SeeStop \/ SignalStopsWatch \/ TypeRs \/ EarlySignal
               \/ \E f \in Files : Save(f)
    BY <1>5 DEF PollStep, SeeStop, SignalStopsWatch, TypeRs, EarlySignal, Save
  <1>6. CASE UNCHANGED sessionVars
    BY <1>6 DEF sessionVars
  <1> QED
    BY <1>1, <1>2, <1>3, <1>4, <1>5, <1>6 DEF DevNext

LEMMA WatcherInside ==
    ASSUME [DevNext]_sessionVars
    PROVE  [WatcherNext]_watchVars
  <1> USE DEF WatcherNext
  <1>1. ASSUME NEW g \in Callers, Goroutine(g) PROVE UNCHANGED watchVars
    BY <1>1 DEF Goroutine, BuildBegin, BuildEnd, RestartProc, RunnerStep
  <1>2. CASE MainStep \/ SigStep
    BY <1>2 DEF MainStep, SigStep, InitialBuildEnd, StartProc, StartWatching, DeferredStop,
                MainReturns, SignalStopsProc
  <1>3. ASSUME NEW c \in Timers, CallbackStep(c) PROVE [WatcherNext]_watchVars
    BY <1>3 DEF CallbackStep, TimerStep, Rebuild, RebuildReturns, Callback
  <1>4. ASSUME NEW k \in Handles, WaiterStep(k) \/ ChildExit(k) PROVE UNCHANGED watchVars
    BY <1>4 DEF WaiterStep, ChildExit
  <1>5. CASE PollStep \/ SeeStop \/ SignalStopsWatch \/ TypeRs \/ EarlySignal
               \/ \E f \in Files : Save(f)
    BY <1>5 DEF PollStep, SeeStop, SignalStopsWatch, TypeRs, EarlySignal, Save
  <1>6. CASE UNCHANGED sessionVars
    BY <1>6 DEF sessionVars
  <1> QED
    BY <1>1, <1>2, <1>3, <1>4, <1>5, <1>6 DEF DevNext

\* The variables of dev.go itself.
DevShapes ==
    /\ builder \in Callers \cup {NoCaller}
    /\ read \in [Files -> Stamps]
    /\ hasProc \in BOOLEAN /\ stale \in BOOLEAN /\ ended \in BOOLEAN
    /\ rsTyped \in 0 .. MaxRs

LEMMA DevShapesStep ==
    ASSUME DevShapes, disk \in [Files -> Stamps], [DevNext]_sessionVars
    PROVE  DevShapes'
  <1>0. MaxRs \in Nat
    BY DevAssumption
  <1> USE Names, <1>0 DEF DevShapes, devVars
  <1>1. ASSUME NEW g \in Callers, Goroutine(g) PROVE DevShapes'
    BY <1>1 DEF Goroutine, BuildBegin, BuildEnd, RestartProc, RunnerStep, Builds
  <1>2. CASE MainStep \/ SigStep
    BY <1>2 DEF MainStep, SigStep, InitialBuildEnd, StartProc, StartWatching, DeferredStop,
                MainReturns, SignalStopsProc, Builds
  <1>3. ASSUME NEW c \in Timers, CallbackStep(c) PROVE DevShapes'
    BY <1>3 DEF CallbackStep, TimerStep, Rebuild, RebuildReturns
  <1>4. ASSUME NEW k \in Handles, WaiterStep(k) \/ ChildExit(k) PROVE DevShapes'
    BY <1>4 DEF WaiterStep, ChildExit
  <1>5. CASE PollStep \/ SeeStop \/ SignalStopsWatch \/ TypeRs \/ EarlySignal
               \/ \E f \in Files : Save(f)
    <2>1. CASE TypeRs
      BY <2>1 DEF TypeRs
    <2> QED
      BY <1>5, <2>1 DEF PollStep, SeeStop, SignalStopsWatch, EarlySignal, Save
  <1>6. CASE UNCHANGED sessionVars
    BY <1>6 DEF sessionVars
  <1> QED
    BY <1>1, <1>2, <1>3, <1>4, <1>5, <1>6 DEF DevNext

SessionInv == SharedInv /\ WatcherIInv /\ CoreInv /\ DevShapes

LEMMA SessionInit == DevInit => SessionInv
  <1> SUFFICES ASSUME DevInit PROVE SessionInv
    OBVIOUS
  <1>1. SharedInv /\ WatcherIInv /\ CoreInv
    BY SharedInit, WatcherStart, CoreInit DEF DevInit
  <1>2. Absent \in Stamps
    BY WatcherAssumption DEF Absent, Stamps
  <1>3. MaxRs \in Nat
    BY DevAssumption
  <1>4. DevShapes
    <2>1. /\ read = [f \in Files |-> Absent] /\ builder = NoCaller
          /\ hasProc = FALSE /\ stale = FALSE /\ ended = FALSE /\ rsTyped = 0
      BY DEF DevInit
    <2>2. rsTyped \in 0 .. MaxRs
      BY <1>3, <2>1
    <2>3. read \in [Files -> Stamps]
      BY <1>2, <2>1
    <2> QED
      BY <2>1, <2>2, <2>3 DEF DevShapes
  <1> QED
    BY <1>1, <1>4 DEF SessionInv

LEMMA SessionStep ==
    ASSUME SessionInv, [DevNext]_sessionVars
    PROVE  SessionInv'
  <1>1. SharedInv'
    BY RunnerInside, SharedStep, CallersFinite DEF SessionInv
  <1>2. WatcherIInv'
    BY WatcherInside, WatcherStep DEF SessionInv
  <1>3. CoreInv'
    BY CoreStep DEF SessionInv
  <1>4. DevShapes'
    BY DevShapesStep DEF SessionInv, WatcherIInv, WatcherInv, WatcherTypeOK
  <1> QED
    BY <1>1, <1>2, <1>3, <1>4 DEF SessionInv

THEOREM SessionInvariant == DevSpec => []SessionInv
  BY SessionInit, SessionStep, PTL DEF DevSpec

\* Both mutexes are held exactly where the code holds them, main is alone until it
\* watches, and a good build has somebody on the way to a Start, however many
\* callbacks, restarts and signals overlap (dev.go:192-289, runner_unix.go:12-70).
THEOREM SessionSafe == DevSpec => []DevInv
  <1>1. SessionInv => DevInv
    BY DEF SessionInv, DevInv, DevTypeOK, DevShapes, SharedInv, WatcherIInv, WatcherInv,
           CoreInv, Shapes
  <1> QED
    BY SessionInvariant, <1>1, PTL

\* In a dev session too the batches that rebuilds were called with and the pending
\* events explain the snapshot, although rebuilds take long and overlap the polling
\* (watcher.go:62-84, dev.go:205-233).
THEOREM SessionExplains == DevSpec => []EventsExplainSnapshot
  <1>1. SessionInv => EventsExplainSnapshot
    BY DEF SessionInv, WatcherIInv
  <1> QED
    BY SessionInvariant, <1>1, PTL

-----------------------------------------------------------------------------
(* The child of the session.  Rebuilds, manual restarts and the Stops of a *)
(* shutdown share the Runner; what they can break is the gap of a Restart. *)

LEMMA SessionOwnSlotStep ==
    ASSUME OneInGap, OwnSlotInv, [DevNext]_sessionVars
    PROVE  OwnSlotInv'
  BY RunnerInside, OwnSlotStep, CallersFinite

LEMMA SessionOwnSlotStart == DevInit => OwnSlotInv
  BY OwnSlotInit DEF DevInit

\* Until two goroutines are between the Stop and the Start of their Restarts, every
\* child has its own wait goroutine and channel, and no child is out of the reach of
\* Stop, whatever rebuilds, restarts and signals overlap (dev.go:205-289).
THEOREM SessionOwnSlot == DevSpec /\ []OneInGap => []SingleCallerInv
  <1>1. OwnSlotInv => SingleCallerInv
    BY DEF OwnSlotInv
  <1>2. OwnSlotInv /\ OneInGap /\ [DevNext]_sessionVars => OwnSlotInv'
    BY SessionOwnSlotStep
  <1> QED
    BY SessionOwnSlotStart, <1>1, <1>2, PTL DEF DevSpec

\* Hence a panic, and the orphan it leaves, needs two Restarts in the gap at once
\* (runner.go:49-54, runner_unix.go:28-31).
THEOREM SessionNoOrphan == DevSpec /\ []OneInGap => [](NoDoubleClose /\ PanicLeavesNoOrphan)
  <1>1. SingleCallerInv => NoDoubleClose /\ PanicLeavesNoOrphan
    BY DEF SingleCallerInv, NoDoubleClose, PanicLeavesNoOrphan
  <1> QED
    BY SessionOwnSlot, <1>1, PTL

\* The Stop of the signal handler, the deferred one of main and those of the Restarts
\* each return with the child of that moment reaped (runner_unix.go:36-70).
THEOREM SessionStopReaps == DevSpec /\ []OneInGap => StopReaps
  <1>1. SingleCallerInv /\ [DevNext]_sessionVars => [Reaps]_runnerVars
    BY RunnerInside, ReapsStep
  <1> QED
    BY <1>1, SessionOwnSlot, PTL DEF DevSpec, StopReaps, Reaps

\* What dev.go has in proc is then a slot for one child.
THEOREM SessionImplementsSlot == DevSpec /\ []OneInGap => ImplementsSlot
  <1>1. DevInit => Slot!SlotInit
    BY SlotStart DEF DevInit
  <1>2. SingleCallerInv /\ SingleCallerInv' /\ [DevNext]_sessionVars
          => [Slot!SlotNext]_(Slot!slotVars)
    BY RunnerInside, SlotStep DEF SingleCallerInv
  <1> QED
    BY <1>1, <1>2, SessionOwnSlot, PTL DEF DevSpec, ImplementsSlot, Slot!SlotSpec
=============================================================================
