---------------------------- MODULE RunnerProofs ----------------------------
(***************************************************************************)
(* Proofs about Runner, for every number of Starts:                        *)
(*  - with any callers, the mutex is held exactly inside Start and Stop;   *)
(*  - as long as no two callers are between the Stop and the Start of a    *)
(*    Restart, whatever else they overlap, no done channel is closed       *)
(*    twice, Stop reaps the child, and the Runner implements the one-child *)
(*    slot; a single caller is the special case.                           *)
(***************************************************************************)
EXTENDS Runner, FiniteSetTheorems, TLAPS

\* One goroutine calls the Runner.
SingleCaller == \A s, t \in Callers : s = t

\* Restart holds no mutex between its Stop and its Start: no two callers are in
\* that gap.  Stops may overlap each other and a Restart.
OneInGap == \A s, t \in Callers : pc[s] = "start" /\ pc[t] = "start" => s = t

LEMMA HandleRange == Handles \subseteq Nat /\ Nil \notin Handles /\ 1 \in Handles
  BY RunnerAssumption DEF Handles, Nil

LEMMA SingleInit == RunnerInit => SingleCallerInv
  <1> SUFFICES ASSUME RunnerInit PROVE SingleCallerInv
    OBVIOUS
  <1> USE RunnerAssumption, HandleRange DEF RunnerInit
  <1>1. RunnerTypeOK
    <2>1. calls \in 0 .. MaxStarts /\ starts \in 0 .. calls
      OBVIOUS
    <2>2. /\ cmd \in Handles \cup {Nil} /\ done \in Handles \cup {Nil}
          /\ closed \subseteq Handles
      OBVIOUS
    <2>3. /\ leader \in [Handles -> LeaderState]
          /\ helper \in [Handles -> HelperState]
          /\ waiter \in [Handles -> WaiterState]
          /\ target \in [Handles -> Handles \cup {Nil}]
      BY DEF LeaderState, HelperState, WaiterState
    <2>4. /\ pc \in [Callers -> CallerState]
          /\ again \in [Callers -> BOOLEAN]
          /\ pgid \in [Callers -> BOOLEAN]
      BY DEF CallerState
    <2> QED BY <2>1, <2>2, <2>3, <2>4 DEF RunnerTypeOK
  <1>2. LockHeld
    BY DEF LockHeld, Critical
  <1>3. HandlesLeft
    BY DEF HandlesLeft
  <1>4. FieldsNewest
    BY DEF FieldsNewest, Critical, Nil
  <1>5. WaiterOwnsHandle
    BY DEF WaiterOwnsHandle
  <1>6. OlderQuiet
    BY DEF OlderQuiet, Quiet, Handles
  <1> QED
    BY <1>1, <1>2, <1>3, <1>4, <1>5, <1>6 DEF SingleCallerInv

\* The handle a wait goroutine closes is its own.
LEMMA OwnChannel ==
    ASSUME SingleCallerInv, NEW k \in Handles, waiter[k] = "closing"
    PROVE  k = starts /\ done = k
  <1>1. k = starts
    BY DEF SingleCallerInv, OlderQuiet, Quiet
  <1>2. \A t \in Callers : pc[t] # "startChan"
    BY <1>1 DEF SingleCallerInv, OlderQuiet
  <1> QED BY <1>1, <1>2 DEF SingleCallerInv, FieldsNewest

LEMMA SignalType ==
    ASSUME RunnerTypeOK, NEW k \in Handles, NEW dies, Signal(k, dies)
    PROVE  /\ leader' \in [Handles -> LeaderState]
           /\ helper' \in [Handles -> HelperState]
  BY DEF RunnerTypeOK, Signal, LeaderState, HelperState

-----------------------------------------------------------------------------
(* The mutex, for any set of callers. *)

LockInv ==
    /\ mu \in Callers \cup {NoCaller}
    /\ pc \in [Callers -> CallerState]
    /\ LockHeld

\* The steps of the Runner, those of the children after a panic included.
RunnerMoves ==
    \/ \E t \in Callers : Call(t) \/ StartStep(t) \/ StopStep(t)
    \/ \E k \in Handles : Waiter(k) \/ Process(k)

LEMMA NextMoves == RunnerNext => RunnerMoves
  BY DEF RunnerNext, RunnerMoves

LEMMA LockStep ==
    ASSUME LockInv, RunnerMoves \/ UNCHANGED runnerVars
    PROVE  LockInv'
  <1> USE RunnerAssumption
        DEF LockInv, LockHeld, Critical, CallerState, Goto, callVars
  <1>1. ASSUME NEW t \in Callers, Call(t) PROVE LockInv'
    BY <1>1 DEF Call, CallStart, CallRestart, CallStop
  <1>2. ASSUME NEW t \in Callers, StartStep(t) PROVE LockInv'
    BY <1>2 DEF StartStep, StartLock, StartChan, StartFork
  <1>3. ASSUME NEW t \in Callers, StopStep(t) PROVE LockInv'
    BY <1>3 DEF StopStep, StopNothing, StopSignal, StopDone, StopTimeout,
                StopKilled, StopReturn
  <1>4. ASSUME NEW k \in Handles, Waiter(k) \/ Process(k) PROVE LockInv'
    BY <1>4 DEF Waiter, WaiterRead, WaiterReturn, WaiterClose,
                Process, LeaderExit, HelperSpawn, HelperExit
  <1>5. CASE UNCHANGED runnerVars
    BY <1>5 DEF runnerVars
  <1> QED BY <1>1, <1>2, <1>3, <1>4, <1>5 DEF RunnerMoves

\* However many goroutines call the Runner, the one that holds the mutex is the
\* one inside the locked part of Start or Stop (runner_unix.go:12-13, 38-39).
THEOREM MutexHeld == RunnerSpec => []LockHeld
  <1>1. RunnerInit => LockInv
    BY RunnerAssumption DEF RunnerInit, LockInv, LockHeld, Critical, CallerState
  <1>2. LockInv /\ [RunnerNext]_runnerVars => LockInv'
    BY LockStep, NextMoves
  <1>3. LockInv => LockHeld
    BY DEF LockInv
  <1> QED BY <1>1, <1>2, <1>3, PTL DEF RunnerSpec

-----------------------------------------------------------------------------
(* The fields, for any finite set of callers. *)

\* The callers that have begun a Start and not yet taken its handle.
Starters == {t \in Callers : again[t] \/ pc[t] = "start"}

\* Each call of Start has used a handle or is still to use one.
CallsCounted ==
    /\ \A t \in Callers : again[t] => pc[t] \in Stopping
    /\ calls = starts + Cardinality(Starters)

\* The wait goroutine that evaluates done late finds a channel, if perhaps not its own.
ChannelMade ==
    /\ \A t \in Callers : pc[t] = "startChan" => cmd # Nil
    /\ \A t \in Callers : pc[t] = "startFork" => done # Nil
    /\ \A k \in Handles : waiter[k] # "none" => done # Nil

SharedInv == RunnerTypeOK /\ LockHeld /\ CallsCounted /\ ChannelMade

LEMMA StartersFinite ==
    ASSUME IsFiniteSet(Callers)
    PROVE  IsFiniteSet(Starters) /\ Cardinality(Starters) \in Nat
  <1>1. Starters \subseteq Callers
    BY DEF Starters
  <1> QED
    BY <1>1, FS_Subset, FS_CardinalityType

\* A caller that is to take a handle finds one.
LEMMA HandleLeft ==
    ASSUME IsFiniteSet(Callers), SharedInv, NEW t \in Callers, pc[t] = "start"
    PROVE  starts + 1 <= calls /\ starts + 1 \in Handles
  <1>1. t \in Starters
    BY DEF Starters
  <1>2. Cardinality(Starters) # 0
    BY <1>1, StartersFinite, FS_EmptySet
  <1> QED
    BY <1>2, StartersFinite, RunnerAssumption
    DEF SharedInv, RunnerTypeOK, CallsCounted, Handles

LEMMA SharedInit ==
    ASSUME RunnerInit
    PROVE  SharedInv
  <1>1. RunnerTypeOK /\ LockHeld
    BY SingleInit DEF SingleCallerInv
  <1>2. Starters = {}
    BY DEF RunnerInit, Starters
  <1> QED
    BY <1>1, <1>2, FS_EmptySet DEF RunnerInit, SharedInv, CallsCounted, ChannelMade

\* The counts after a step in which the caller t alone moves.
LEMMA CountsMove ==
    ASSUME IsFiniteSet(Callers), SharedInv, NEW t \in Callers,
           NEW label \in CallerState, NEW flag \in BOOLEAN,
           pc' = [pc EXCEPT ![t] = label], again' = [again EXCEPT ![t] = flag],
           flag => label \in Stopping,
           \/ /\ t \in Starters <=> (flag \/ label = "start")
              /\ calls' = calls /\ starts' = starts
           \/ /\ t \notin Starters /\ (flag \/ label = "start")
              /\ calls' = calls + 1 /\ starts' = starts
           \/ /\ t \in Starters /\ ~(flag \/ label = "start")
              /\ calls' = calls /\ starts' = starts + 1
    PROVE  CallsCounted'
  <1> USE DEF SharedInv, RunnerTypeOK, CallsCounted
  <1>1. \A s \in Callers : again'[s] => pc'[s] \in Stopping
    OBVIOUS
  <1>2. /\ Starters' = {s \in Callers : again'[s] \/ pc'[s] = "start"}
        /\ \A s \in Callers : s # t => (s \in Starters' <=> s \in Starters)
        /\ t \in Starters' <=> (flag \/ label = "start")
        /\ Starters \subseteq Callers /\ Starters' \subseteq Callers
    BY DEF Starters
  <1>3. /\ IsFiniteSet(Starters) /\ Cardinality(Starters) \in Nat
        /\ calls \in Nat /\ starts \in Nat
    BY StartersFinite
  <1>4. CASE t \in Starters <=> t \in Starters'
    <2>1. Starters' = Starters
      BY <1>2, <1>4
    <2>2. calls' = calls /\ starts' = starts
      BY <1>2, <1>4
    <2> QED
      BY <1>1, <2>1, <2>2
  <1>5. CASE t \notin Starters /\ t \in Starters'
    <2>1. Starters' = Starters \cup {t}
      BY <1>2, <1>5
    <2>2. Cardinality(Starters') = Cardinality(Starters) + 1
      BY <1>3, <1>5, <2>1, FS_AddElement
    <2>3. calls' = calls + 1 /\ starts' = starts
      BY <1>2, <1>5
    <2> QED
      BY <1>1, <1>3, <2>2, <2>3
  <1>6. CASE t \in Starters /\ t \notin Starters'
    <2>1. Starters' = Starters \ {t}
      BY <1>2, <1>6
    <2>2. Cardinality(Starters') = Cardinality(Starters) - 1
      BY <1>3, <1>6, <2>1, FS_RemoveElement
    <2>3. calls' = calls /\ starts' = starts + 1
      BY <1>2, <1>6
    <2> QED
      BY <1>1, <1>3, <2>2, <2>3
  <1> QED
    BY <1>4, <1>5, <1>6

\* The counts after a step of a wait goroutine or a child.
LEMMA CountsStay ==
    ASSUME CallsCounted, UNCHANGED <<pc, again, calls, starts>>
    PROVE  CallsCounted'
  BY DEF CallsCounted, Starters

\* A call of Start, Restart or Stop begins.
LEMMA SharedCall ==
    ASSUME IsFiniteSet(Callers), SharedInv, LockHeld', NEW t \in Callers, Call(t)
    PROVE  SharedInv'
  <1> USE RunnerAssumption DEF SharedInv, RunnerTypeOK, processVars, waiterVars, Goto
  <1>0. t \in Starters <=> again[t] \/ pc[t] = "start"
    BY DEF Starters
  <1>1. pc[t] = "idle" /\ ~again[t]
    BY DEF Call, CallStart, CallRestart, CallStop, CallsCounted, Stopping
  <1>2. PICK label \in {"start", "stop"}, flag \in BOOLEAN :
          /\ pc' = [pc EXCEPT ![t] = label] /\ again' = [again EXCEPT ![t] = flag]
          /\ flag => label = "stop"
          /\ \/ ~flag /\ label = "stop" /\ calls' = calls
             \/ (flag \/ label = "start") /\ calls' = calls + 1 /\ calls < MaxStarts
          /\ UNCHANGED <<mu, cmd, done, starts, pgid, processVars, waiterVars>>
    <2>1. CASE CallStart(t)
      <3>1. again' = [again EXCEPT ![t] = FALSE]
        BY <1>1, <2>1 DEF CallStart
      <3>2. calls' = calls + 1 /\ calls < MaxStarts
        BY <2>1 DEF CallStart
      <3>3. /\ pc' = [pc EXCEPT ![t] = "start"]
            /\ UNCHANGED <<mu, cmd, done, starts, pgid, processVars, waiterVars>>
        BY <2>1 DEF CallStart
      <3> QED
        BY <3>1, <3>2, <3>3
    <2>2. CASE CallRestart(t)
      BY <2>2 DEF CallRestart
    <2>3. CASE CallStop(t)
      <3>1. again' = [again EXCEPT ![t] = FALSE]
        BY <1>1, <2>3 DEF CallStop
      <3> QED
        BY <2>3, <3>1 DEF CallStop
    <2> QED
      BY <2>1, <2>2, <2>3 DEF Call
  <1>3. label \in CallerState
    BY DEF CallerState
  <1>4. CallsCounted'
    BY <1>0, <1>1, <1>2, <1>3, CountsMove DEF Stopping
  <1>5. RunnerTypeOK'
    BY <1>2, <1>3
  <1>6. ChannelMade'
    BY <1>1, <1>2 DEF ChannelMade
  <1> QED
    BY <1>4, <1>5, <1>6

\* A step of Start.
LEMMA SharedStart ==
    ASSUME IsFiniteSet(Callers), SharedInv, LockHeld', NEW t \in Callers, StartStep(t)
    PROVE  SharedInv'
  <1> USE RunnerAssumption, HandleRange
      DEF SharedInv, RunnerTypeOK, LeaderState, WaiterState, processVars, waiterVars, Goto
  <1>0. /\ t \in Starters <=> again[t] \/ pc[t] = "start"
        /\ again[t] => pc[t] \in Stopping
    BY DEF Starters, CallsCounted
  <1>1. CASE StartLock(t)
    <2>1. /\ pc[t] = "start" /\ pc' = [pc EXCEPT ![t] = "startChan"]
          /\ again' = [again EXCEPT ![t] = FALSE] /\ starts' = starts + 1 /\ cmd' = starts + 1
          /\ mu' = t
          /\ UNCHANGED <<done, calls, pgid, processVars, waiterVars>>
      BY <1>0, <1>1 DEF StartLock, Stopping
    <2>2. CallsCounted'
      BY <1>0, <2>1, CountsMove DEF CallerState, Stopping
    <2>3. starts + 1 <= calls /\ starts + 1 \in Handles
      BY <2>1, HandleLeft
    <2>4. RunnerTypeOK'
      BY <2>1, <2>3 DEF CallerState
    <2>5. ChannelMade'
      BY <2>1, <2>3 DEF ChannelMade
    <2> QED
      BY <2>2, <2>4, <2>5
  <1>2. CASE StartChan(t)
    <2>1. /\ pc[t] = "startChan" /\ pc' = [pc EXCEPT ![t] = "startFork"]
          /\ again' = [again EXCEPT ![t] = FALSE] /\ done' = cmd
          /\ UNCHANGED <<mu, cmd, calls, starts, pgid, processVars, waiterVars>>
      BY <1>0, <1>2 DEF StartChan, Stopping
    <2>2. CallsCounted'
      BY <1>0, <2>1, CountsMove DEF CallerState, Stopping
    <2>3. RunnerTypeOK'
      BY <2>1 DEF CallerState
    <2>4. ChannelMade'
      BY <2>1 DEF ChannelMade
    <2> QED
      BY <2>2, <2>3, <2>4
  <1>3. CASE StartFork(t)
    <2>1. /\ pc[t] = "startFork" /\ pc' = [pc EXCEPT ![t] = "idle"] /\ mu' = NoCaller
          /\ again' = [again EXCEPT ![t] = FALSE]
          /\ \/ /\ leader' = [leader EXCEPT ![cmd] = "up"]
                /\ waiter' = [waiter EXCEPT ![cmd] = "ready"]
             \/ UNCHANGED <<leader, waiter>>
          /\ UNCHANGED <<cmd, done, calls, starts, closed, helper, target, panicked, pgid>>
      BY <1>0, <1>3 DEF StartFork, Stopping
    <2>2. CallsCounted'
      BY <1>0, <2>1, CountsMove DEF CallerState, Stopping
    <2>3. RunnerTypeOK'
      BY <2>1 DEF CallerState
    <2>4. ChannelMade'
      BY <2>1 DEF ChannelMade
    <2> QED
      BY <2>2, <2>3, <2>4
  <1> QED
    BY <1>1, <1>2, <1>3 DEF StartStep

\* A step of Stop.
LEMMA SharedStop ==
    ASSUME IsFiniteSet(Callers), SharedInv, LockHeld', NEW t \in Callers, StopStep(t)
    PROVE  SharedInv'
  <1> USE RunnerAssumption, HandleRange
      DEF SharedInv, RunnerTypeOK, processVars, waiterVars, Goto
  <1>0. /\ t \in Starters <=> again[t] \/ pc[t] = "start"
        /\ again[t] => pc[t] \in Stopping
    BY DEF Starters, CallsCounted
  <1>1. PICK label \in {"idle", "start", "stopWait", "stopKilled"}, flag \in BOOLEAN :
          /\ pc[t] \in Stopping
          /\ pc' = [pc EXCEPT ![t] = label] /\ again' = [again EXCEPT ![t] = flag]
          /\ again[t] <=> flag \/ label = "start"
          /\ flag => label \in Stopping
          /\ mu' \in Callers \cup {NoCaller}
          /\ pgid' \in [Callers -> BOOLEAN]
          /\ UNCHANGED <<cmd, done, calls, starts, waiterVars>>
    <2>1. CASE StopNothing(t) \/ StopDone(t) \/ StopKilled(t)
      <3>1. /\ pc[t] \in Stopping /\ again' = [again EXCEPT ![t] = FALSE]
            /\ pc' = [pc EXCEPT ![t] = IF again[t] THEN "start" ELSE "idle"]
            /\ mu' = NoCaller /\ UNCHANGED <<cmd, done, calls, starts, pgid, waiterVars>>
        BY <2>1 DEF StopNothing, StopDone, StopKilled, StopReturn, Stopping
      <3>2. CASE again[t]
        BY <3>1, <3>2
      <3>3. CASE ~again[t]
        BY <3>1, <3>3
      <3> QED
        BY <3>2, <3>3
    <2>2. CASE StopSignal(t)
      <3>1. /\ pc[t] \in Stopping /\ pc' = [pc EXCEPT ![t] = "stopWait"]
            /\ mu' = t /\ UNCHANGED <<cmd, done, calls, starts, waiterVars>>
            /\ pgid' \in [Callers -> BOOLEAN]
        BY <2>2 DEF StopSignal, Stopping
      <3>2. again' = [again EXCEPT ![t] = again[t]]
        BY <2>2 DEF StopSignal
      <3> QED
        BY <3>1, <3>2 DEF Stopping
    <2>3. CASE StopTimeout(t)
      <3>1. /\ pc[t] \in Stopping /\ pc' = [pc EXCEPT ![t] = "stopKilled"]
            /\ UNCHANGED <<mu, cmd, done, calls, starts, pgid, waiterVars>>
        BY <2>3 DEF StopTimeout, Stopping
      <3>2. again' = [again EXCEPT ![t] = again[t]]
        BY <2>3 DEF StopTimeout
      <3> QED
        BY <3>1, <3>2 DEF Stopping
    <2> QED
      BY <2>1, <2>2, <2>3 DEF StopStep
  <1>2. label \in CallerState
    BY DEF CallerState
  <1>3. CallsCounted'
    BY <1>0, <1>1, <1>2, CountsMove DEF Stopping
  <1>4. leader' \in [Handles -> LeaderState] /\ helper' \in [Handles -> HelperState]
    <2> USE DEF StopStep, StopNothing, StopSignal, StopDone, StopTimeout, StopKilled,
                Signal, LeaderState, HelperState
    <2>1. CASE UNCHANGED processVars
      BY <2>1
    <2>2. ASSUME NEW dies, Signal(cmd, dies)
          PROVE  leader' \in [Handles -> LeaderState] /\ helper' \in [Handles -> HelperState]
      BY <2>2
    <2> QED
      BY <2>1, <2>2
  <1>5. RunnerTypeOK'
    BY <1>1, <1>2, <1>4
  <1>6. ChannelMade'
    BY <1>1 DEF ChannelMade
  <1> QED
    BY <1>3, <1>5, <1>6

\* A step of a wait goroutine or of a child.
LEMMA SharedOther ==
    ASSUME SharedInv, NEW k \in Handles, Waiter(k) \/ Process(k)
    PROVE  SharedInv'
  <1> USE RunnerAssumption, HandleRange
      DEF SharedInv, RunnerTypeOK, processVars, waiterVars, callVars
  <1>1. UNCHANGED <<mu, cmd, done, calls, starts, pc, again, pgid>>
    BY DEF Waiter, WaiterRead, WaiterReturn, WaiterClose, Process, LeaderExit, HelperSpawn,
           HelperExit
  <1>2. LockHeld' /\ CallsCounted'
    BY <1>1, CountsStay DEF LockHeld
  <1>3. /\ closed' \subseteq Handles /\ panicked' \in BOOLEAN
        /\ waiter' \in [Handles -> WaiterState]
        /\ target' \in [Handles -> Handles \cup {Nil}]
        /\ \A j \in Handles : waiter'[j] # "none" => waiter[j] # "none"
    <2>1. CASE WaiterRead(k)
      BY <2>1 DEF WaiterRead, WaiterState
    <2>2. CASE WaiterReturn(k)
      BY <2>2 DEF WaiterReturn, WaiterState
    <2>3. CASE WaiterClose(k)
      BY <2>3 DEF WaiterClose, WaiterState, ChannelMade
    <2>4. CASE Process(k)
      BY <2>4 DEF Process, LeaderExit, HelperSpawn, HelperExit
    <2> QED
      BY <2>1, <2>2, <2>3, <2>4 DEF Waiter
  <1>4. leader' \in [Handles -> LeaderState] /\ helper' \in [Handles -> HelperState]
    BY DEF Waiter, WaiterRead, WaiterReturn, WaiterClose, Process, LeaderExit, HelperSpawn,
           HelperExit, LeaderState, HelperState
  <1>5. RunnerTypeOK'
    BY <1>1, <1>3, <1>4
  <1>6. ChannelMade'
    BY <1>1, <1>3 DEF ChannelMade
  <1> QED
    BY <1>2, <1>5, <1>6

LEMMA SharedStep ==
    ASSUME IsFiniteSet(Callers), SharedInv, RunnerMoves \/ UNCHANGED runnerVars
    PROVE  SharedInv'
  <1>1. LockHeld'
    BY LockStep DEF SharedInv, RunnerTypeOK, LockInv
  <1>2. CASE UNCHANGED runnerVars
    BY <1>2
    DEF runnerVars, SharedInv, RunnerTypeOK, LockHeld, CallsCounted, Starters, ChannelMade
  <1>3. CASE RunnerMoves
    BY <1>1, <1>3, SharedCall, SharedStart, SharedStop, SharedOther DEF RunnerMoves
  <1> QED
    BY <1>2, <1>3

\* However many goroutines share the Runner, its fields keep their meaning: each
\* call of Start takes one handle, and the wait goroutine that evaluates r.done
\* late never closes a nil channel (runner.go:49-54, runner_unix.go:16-34).
THEOREM SharedSafe == IsFiniteSet(Callers) => (RunnerSpec => []SharedInv)
  <1> SUFFICES ASSUME IsFiniteSet(Callers) PROVE RunnerSpec => []SharedInv
    OBVIOUS
  <1>1. RunnerInit => SharedInv
    BY SharedInit
  <1>2. SharedInv /\ [RunnerNext]_runnerVars => SharedInv'
    BY SharedStep, NextMoves
  <1> QED
    BY <1>1, <1>2, PTL DEF RunnerSpec

-----------------------------------------------------------------------------
(* One caller in the gap. *)

\* Where the calls are counted, a call of Start that was begun has a handle left.
LEMMA CountLeft ==
    ASSUME IsFiniteSet(Callers), NEW begun \in SUBSET Callers, NEW t \in begun,
           NEW used \in Nat, NEW all, all = used + Cardinality(begun)
    PROVE  used < all
  <1>1. IsFiniteSet(begun) /\ Cardinality(begun) \in Nat
    BY FS_Subset, FS_CardinalityType
  <1>2. Cardinality(begun) # 0
    BY <1>1, FS_EmptySet
  <1> QED
    BY <1>1, <1>2

\* While one caller starts the child no other is in the gap of its Restart: it would
\* start a second child next.
StartAlone ==
    \A s, t \in Callers : pc[t] \in {"startChan", "startFork"} => pc[s] # "start"

\* The conjuncts of the invariant that the fields and the wait goroutines rest on.
GapInv == FieldsNewest /\ WaiterOwnsHandle /\ OlderQuiet /\ StartAlone /\ ~panicked

OwnSlotInv == SharedInv /\ SingleCallerInv /\ StartAlone

LEMMA CallStep ==
    ASSUME OwnSlotInv, RunnerTypeOK', NEW t \in Callers, Call(t)
    PROVE  GapInv'
  <1> USE DEF OwnSlotInv, StartAlone, SingleCallerInv, RunnerTypeOK, Goto, processVars, waiterVars, GapInv,
              FieldsNewest, WaiterOwnsHandle, OlderQuiet, Quiet, Critical
  <1>1. CASE CallStart(t)
    <2>1. starts = 0 /\ \A k \in Handles : k # starts
      BY <1>1, HandleRange DEF CallStart, Nil
    <2> QED BY <1>1, <2>1 DEF CallStart
  <1>2. CASE CallRestart(t)
    BY <1>2 DEF CallRestart
  <1>3. CASE CallStop(t)
    BY <1>3 DEF CallStop
  <1> QED BY <1>1, <1>2, <1>3 DEF Call

\* A caller that holds the mutex is the only one in Start or Stop.
LEMMA OneCritical ==
    ASSUME SingleCallerInv, NEW t \in Callers, pc[t] \in Critical
    PROVE  mu = t /\ \A s \in Callers : s # t => pc[s] \notin Critical
  BY DEF SingleCallerInv, LockHeld

\* Nor is another in Start or Stop when one finds the mutex free.
LEMMA NoneCritical ==
    ASSUME SingleCallerInv, mu = NoCaller
    PROVE  \A s \in Callers : pc[s] \notin Critical
  BY RunnerAssumption DEF SingleCallerInv, LockHeld

LEMMA StartingStep ==
    ASSUME OneInGap, OwnSlotInv, RunnerTypeOK', NEW t \in Callers, StartStep(t)
    PROVE  GapInv'
  <1> USE HandleRange, RunnerAssumption
          DEF OwnSlotInv, SingleCallerInv, RunnerTypeOK, Goto, processVars, waiterVars,
              Handles, Nil, Critical, GapInv
  <1>1. CASE StartLock(t)
    <2>0. /\ pc'[t] = "startChan" /\ pc[t] = "start"
          /\ \A s \in Callers : s # t => pc'[s] = pc[s] /\ pc[s] \notin Critical \cup {"start"}
      BY <1>1, NoneCritical DEF StartLock, OneInGap
    <2>1. FieldsNewest'
      BY <1>1, <2>0 DEF StartLock, FieldsNewest
    <2>2. WaiterOwnsHandle'
      BY <1>1 DEF StartLock, WaiterOwnsHandle
    <2>3. OlderQuiet'
      BY <1>1, <2>0 DEF StartLock, OlderQuiet, Quiet
    <2>4. StartAlone'
      BY <1>1, <2>0 DEF StartAlone
    <2> QED BY <1>1, <2>1, <2>2, <2>3, <2>4 DEF StartLock
  <1>2. CASE StartChan(t)
    <2>0. /\ pc[t] = "startChan" /\ pc'[t] = "startFork" /\ starts # 0
          /\ \A s \in Callers : s # t => pc'[s] = pc[s] /\ pc[s] \notin Critical
      BY <1>2, OneCritical DEF StartChan, FieldsNewest
    <2>1. FieldsNewest'
      BY <1>2, <2>0 DEF StartChan, FieldsNewest
    <2>2. WaiterOwnsHandle'
      BY <1>2 DEF StartChan, WaiterOwnsHandle
    <2>3. OlderQuiet'
      BY <1>2, <2>0 DEF StartChan, OlderQuiet, Quiet
    <2>4. StartAlone'
      BY <1>2, <2>0 DEF StartAlone
    <2> QED BY <1>2, <2>1, <2>2, <2>3, <2>4 DEF StartChan
  <1>3. CASE StartFork(t)
    <2>0. /\ pc[t] = "startFork" /\ pc'[t] = "idle"
          /\ \A s \in Callers : s # t => pc'[s] = pc[s] /\ pc[s] \notin Critical \cup {"start"}
      BY <1>3, OneCritical DEF StartFork, StartAlone
    <2>1. done = starts /\ FieldsNewest'
      BY <1>3, <2>0 DEF StartFork, FieldsNewest
    <2>2. WaiterOwnsHandle'
      BY <1>3, <2>0 DEF StartFork, WaiterOwnsHandle, OlderQuiet, FieldsNewest
    <2>3. OlderQuiet'
      <3>1. \A s \in Callers : pc'[s] \notin {"start", "startChan", "startFork"}
        BY <2>0
      <3>2. \A k \in Handles : k # starts => waiter'[k] = waiter[k]
        BY <1>3 DEF StartFork, FieldsNewest
      <3> QED
        BY <1>3, <3>1, <3>2 DEF StartFork, OlderQuiet, Quiet
    <2>4. StartAlone'
      BY <1>3, <2>0 DEF StartAlone
    <2> QED BY <1>3, <2>1, <2>2, <2>3, <2>4 DEF StartFork
  <1> QED BY <1>1, <1>2, <1>3 DEF StartStep

\* A signal leaves alone what is not a running process, and a running one
\* either runs on or becomes a zombie.
LEMMA SignalEffect ==
    ASSUME RunnerTypeOK, NEW k \in Handles, NEW dies, Signal(k, dies), NEW j \in Handles
    PROVE  \/ leader'[j] = leader[j]
           \/ j = k /\ leader[j] = "up" /\ leader'[j] = "zombie"
  BY DEF RunnerTypeOK, Signal

\* When Stop returns, the channel it waited for was closed by the wait goroutine
\* of the handle it stopped.
LEMMA StoppedQuiet ==
    ASSUME SingleCallerInv, NEW t \in Callers,
           pc[t] \in {"stopWait", "stopKilled"}, done \in closed
    PROVE  done = starts /\ starts \in Handles /\ \A k \in Handles : Quiet(k)
  <1>1. \A s \in Callers : pc[s] # "startChan"
    BY DEF SingleCallerInv, LockHeld, Critical
  <1> QED
    BY <1>1 DEF SingleCallerInv, FieldsNewest, OlderQuiet, Quiet, WaiterOwnsHandle, RunnerTypeOK

\* Where every wait goroutine is gone and no caller starts a child, Stop may return
\* into the gap of a Restart.
LEMMA Returning ==
    ASSUME OwnSlotInv, RunnerTypeOK', NEW t \in Callers, pc[t] \in Stopping, StopReturn(t),
           UNCHANGED <<cmd, done, calls, starts, pgid, processVars, waiterVars>>,
           \A k \in Handles : Quiet(k),
           \A s \in Callers : pc[s] \notin {"startChan", "startFork"}
    PROVE  GapInv'
  <1> USE DEF OwnSlotInv, SingleCallerInv, RunnerTypeOK, GapInv, StopReturn, Goto,
              processVars, waiterVars
  <1>1. \A s \in Callers : pc'[s] = pc[s] \/ pc'[s] \in {"start", "idle"}
    OBVIOUS
  <1>2. FieldsNewest'
    BY <1>1 DEF FieldsNewest, Critical
  <1>3. WaiterOwnsHandle' /\ ~panicked'
    BY DEF WaiterOwnsHandle
  <1>4. OlderQuiet'
    BY <1>1 DEF OlderQuiet, Quiet
  <1>5. StartAlone'
    BY <1>1 DEF StartAlone
  <1> QED
    BY <1>2, <1>3, <1>4, <1>5

LEMMA StoppingStep ==
    ASSUME OwnSlotInv, RunnerTypeOK', NEW t \in Callers, StopStep(t)
    PROVE  GapInv'
  <1> USE DEF OwnSlotInv, SingleCallerInv, RunnerTypeOK, Goto, processVars, waiterVars, GapInv
  <1>1. CASE StopNothing(t)
    <2>1. \A s \in Callers : pc[s] \notin Critical
      BY <1>1, NoneCritical DEF StopNothing
    <2>2. \A k \in Handles : Quiet(k)
      BY <1>1, HandleRange DEF StopNothing, HasProcess, FieldsNewest, OlderQuiet, Quiet,
                               WaiterOwnsHandle, Nil
    <2> QED
      BY <1>1, <2>1, <2>2, Returning DEF StopNothing, Stopping, Critical
  <1>2. CASE StopSignal(t) \/ StopTimeout(t)
    <2>1. cmd \in Handles /\ starts = cmd
      BY <1>2, HandleRange
      DEF StopSignal, StopTimeout, HasProcess, FieldsNewest, Critical, Nil
    <2>2. \A j \in Handles : \/ leader'[j] = leader[j]
                             \/ leader[j] = "up" /\ leader'[j] = "zombie"
      BY <1>2, <2>1, SignalEffect DEF StopSignal, StopTimeout
    <2>3. /\ \A s \in Callers : pc'[s] = pc[s] \/ pc'[s] \in {"stopWait", "stopKilled"}
          /\ UNCHANGED <<cmd, done, starts, waiterVars>>
      BY <1>2 DEF StopSignal, StopTimeout
    <2>4. \A s \in Callers : pc'[s] = "startChan" <=> pc[s] = "startChan"
      BY <1>2 DEF StopSignal, StopTimeout
    <2>5. FieldsNewest'
      BY <2>1, <2>3, <2>4, HandleRange DEF FieldsNewest, Nil
    <2>6. OlderQuiet'
      BY <2>3 DEF OlderQuiet, Quiet
    <2>7. StartAlone'
      BY <2>3 DEF StartAlone
    <2>8. WaiterOwnsHandle' /\ ~panicked'
      BY <2>2, <2>3 DEF WaiterOwnsHandle
    <2> QED BY <2>5, <2>6, <2>7, <2>8
  <1>3. CASE StopDone(t) \/ StopKilled(t)
    <2>1. pc[t] \in {"stopWait", "stopKilled"} /\ done \in closed
      BY <1>3 DEF StopDone, StopKilled
    <2>2. \A s \in Callers : pc[s] \notin {"startChan", "startFork"}
      BY <2>1 DEF LockHeld, Critical
    <2>3. \A k \in Handles : Quiet(k)
      BY <2>1, StoppedQuiet
    <2> QED
      BY <1>3, <2>1, <2>2, <2>3, Returning DEF StopDone, StopKilled, Stopping
  <1> QED BY <1>1, <1>2, <1>3 DEF StopStep

\* A wait goroutine that is not done yet belongs to the newest handle, whose
\* Start has returned.
LEMMA WaiterNewest ==
    ASSUME SingleCallerInv, NEW k \in Handles, ~Quiet(k)
    PROVE  /\ k = starts /\ cmd = k
           /\ \A t \in Callers : pc[t] \notin {"start", "startChan", "startFork"}
  BY DEF SingleCallerInv, OlderQuiet, Quiet, FieldsNewest

LEMMA WaitingStep ==
    ASSUME OwnSlotInv, RunnerTypeOK', NEW k \in Handles, Waiter(k)
    PROVE  GapInv'
  <1> USE DEF OwnSlotInv, StartAlone, SingleCallerInv, RunnerTypeOK, processVars, callVars,
              GapInv
  <1>1. /\ k = starts /\ cmd = k /\ ~Quiet(k)
        /\ \A t \in Callers : pc[t] \notin {"start", "startChan", "startFork"}
    BY WaiterNewest DEF Waiter, WaiterRead, WaiterReturn, WaiterClose, Quiet
  <1>2. CASE WaiterRead(k)
    <2>1. FieldsNewest' /\ OlderQuiet'
      BY <1>1, <1>2 DEF WaiterRead, FieldsNewest, OlderQuiet, Quiet
    <2>2. WaiterOwnsHandle'
      BY <1>1, <1>2 DEF WaiterRead, WaiterOwnsHandle
    <2> QED BY <1>2, <2>1, <2>2 DEF WaiterRead
  <1>3. CASE WaiterReturn(k)
    <2>1. FieldsNewest' /\ OlderQuiet'
      BY <1>1, <1>3 DEF WaiterReturn, FieldsNewest, OlderQuiet, Quiet
    <2>2. WaiterOwnsHandle'
      BY <1>1, <1>3 DEF WaiterReturn, WaiterOwnsHandle, LeaderState
    <2> QED BY <1>3, <2>1, <2>2 DEF WaiterReturn
  <1>4. CASE WaiterClose(k)
    <2>1. done = k /\ k \notin closed
      BY <1>4, OwnChannel DEF WaiterClose, WaiterOwnsHandle
    <2>2. FieldsNewest' /\ OlderQuiet'
      BY <1>1, <1>4 DEF WaiterClose, FieldsNewest, OlderQuiet, Quiet
    <2>3. WaiterOwnsHandle' /\ ~panicked'
      BY <1>4, <2>1 DEF WaiterClose, WaiterOwnsHandle
    <2> QED BY <1>4, <2>2, <2>3 DEF WaiterClose
  <1> QED BY <1>2, <1>3, <1>4 DEF Waiter

LEMMA ProcessStep ==
    ASSUME OwnSlotInv, RunnerTypeOK', NEW k \in Handles, Process(k)
    PROVE  GapInv'
  <1> USE DEF OwnSlotInv, StartAlone, SingleCallerInv, RunnerTypeOK, waiterVars, callVars,
              GapInv, FieldsNewest, OlderQuiet, Quiet
  <1>1. CASE LeaderExit(k)
    BY <1>1 DEF LeaderExit, WaiterOwnsHandle
  <1>2. CASE HelperSpawn(k)
    BY <1>2 DEF HelperSpawn, WaiterOwnsHandle
  <1>3. CASE HelperExit(k)
    BY <1>3 DEF HelperExit, WaiterOwnsHandle
  <1> QED BY <1>1, <1>2, <1>3 DEF Process

LEMMA OwnSlotStep ==
    ASSUME IsFiniteSet(Callers), OneInGap, OwnSlotInv, RunnerMoves \/ UNCHANGED runnerVars
    PROVE  OwnSlotInv'
  <1>1. SharedInv' /\ RunnerTypeOK' /\ LockHeld'
    BY SharedStep DEF OwnSlotInv, SharedInv
  <1>2. HandlesLeft'
    <2> SUFFICES ASSUME NEW t \in Callers, again'[t] \/ pc'[t] = "start"
                 PROVE  starts' < calls'
      BY <1>1 DEF HandlesLeft, SharedInv, CallsCounted
    <2>1. t \in Starters' /\ Starters' \in SUBSET Callers
      BY DEF Starters
    <2>2. starts' \in Nat /\ calls' = starts' + Cardinality(Starters')
      BY <1>1 DEF SharedInv, CallsCounted, RunnerTypeOK
    <2> QED
      BY <2>1, <2>2, CountLeft
  <1>3. GapInv'
    <2>1. CASE UNCHANGED runnerVars
      BY <2>1 DEF OwnSlotInv, StartAlone, SingleCallerInv, runnerVars, RunnerTypeOK, GapInv,
                  FieldsNewest, WaiterOwnsHandle, OlderQuiet, Quiet
    <2>2. CASE RunnerMoves
      BY <1>1, <2>2, CallStep, StartingStep, StoppingStep, WaitingStep, ProcessStep
      DEF RunnerMoves
    <2> QED
      BY <2>1, <2>2
  <1> QED
    BY <1>1, <1>2, <1>3 DEF OwnSlotInv, GapInv, SingleCallerInv

LEMMA OwnSlotInit == RunnerInit => OwnSlotInv
  BY SingleInit, SharedInit DEF RunnerInit, OwnSlotInv, StartAlone

LEMMA AloneInGap == SingleCaller => IsFiniteSet(Callers) /\ OneInGap
  <1> SUFFICES ASSUME SingleCaller PROVE IsFiniteSet(Callers) /\ OneInGap
    OBVIOUS
  <1>1. CASE Callers = {}
    BY <1>1, FS_EmptySet DEF OneInGap
  <1>2. ASSUME NEW a \in Callers PROVE IsFiniteSet(Callers)
    <2>1. Callers = {a}
      BY DEF SingleCaller
    <2> QED
      BY <2>1, FS_Singleton
  <1> QED
    BY <1>1, <1>2 DEF SingleCaller, OneInGap

\* As long as no two callers are in the gap of a Restart no handle is abandoned and
\* every wait goroutine follows its own process, however Stops overlap
\* (runner.go:49-54, runner_unix.go:12-70).
THEOREM OwnSlotSafe ==
    IsFiniteSet(Callers) => (RunnerSpec /\ []OneInGap => []SingleCallerInv)
  <1> SUFFICES ASSUME IsFiniteSet(Callers)
               PROVE  RunnerSpec /\ []OneInGap => []SingleCallerInv
    OBVIOUS
  <1>1. OwnSlotInv /\ OneInGap /\ [RunnerNext]_runnerVars => OwnSlotInv'
    BY OwnSlotStep, NextMoves
  <1>2. OwnSlotInv => SingleCallerInv
    BY DEF OwnSlotInv
  <1> QED BY OwnSlotInit, <1>1, <1>2, PTL DEF RunnerSpec

\* No wait goroutine closes a closed channel (runner_unix.go:28-31).
THEOREM NoDoubleCloseInGap ==
    IsFiniteSet(Callers) => (RunnerSpec /\ []OneInGap => []NoDoubleClose)
  <1>1. SingleCallerInv => NoDoubleClose
    BY DEF SingleCallerInv, NoDoubleClose
  <1> QED BY <1>1, OwnSlotSafe, PTL

\* With one caller the invariant holds: no handle is abandoned and every wait
\* goroutine follows its own process (runner.go:49-54, runner_unix.go:12-34).
THEOREM SingleCallerSafe == SingleCaller => (RunnerSpec => []SingleCallerInv)
  <1> SUFFICES ASSUME SingleCaller PROVE RunnerSpec => []SingleCallerInv
    OBVIOUS
  <1>1. IsFiniteSet(Callers) /\ OneInGap
    BY AloneInGap
  <1>2. OwnSlotInv /\ [RunnerNext]_runnerVars => OwnSlotInv'
    BY <1>1, OwnSlotStep, NextMoves, AloneInGap
  <1>3. OwnSlotInv => SingleCallerInv
    BY DEF OwnSlotInv
  <1> QED BY OwnSlotInit, <1>2, <1>3, PTL DEF RunnerSpec

\* No wait goroutine closes a closed channel (runner_unix.go:28-31).
THEOREM NeverDoubleClose == SingleCaller => (RunnerSpec => []NoDoubleClose)
  <1>1. SingleCallerInv => NoDoubleClose
    BY DEF SingleCallerInv, NoDoubleClose
  <1> QED BY <1>1, SingleCallerSafe, PTL

\* One step of StopReaps.
Reaps ==
    \A t \in Callers :
        pc[t] \in {"stop", "stopWait", "stopKilled"} /\ pc'[t] \in {"idle", "start"}
          => (cmd # Nil => leader'[cmd] \in {"none", "reaped"})

LEMMA ReapsStep ==
    ASSUME SingleCallerInv, RunnerMoves
    PROVE  Reaps
  <1> SUFFICES ASSUME NEW t \in Callers,
                      pc[t] \in {"stop", "stopWait", "stopKilled"},
                      pc'[t] \in {"idle", "start"}, cmd # Nil
               PROVE  leader'[cmd] \in {"none", "reaped"}
    BY DEF Reaps
  <1> USE DEF SingleCallerInv, RunnerTypeOK, Goto, processVars, callVars
  <1>1. StopNothing(t) \/ StopDone(t) \/ StopKilled(t)
    BY DEF RunnerMoves, Call, CallStart, CallRestart, CallStop, StartStep, StartLock,
           StartChan, StartFork, StopStep, StopNothing, StopDone, StopKilled, StopReturn,
           StopSignal, StopTimeout, Waiter, WaiterRead, WaiterReturn, WaiterClose,
           Process, LeaderExit, HelperSpawn, HelperExit
  <1>2. CASE StopNothing(t)
    BY <1>2 DEF StopNothing, HasProcess
  <1>3. CASE StopDone(t) \/ StopKilled(t)
    <2>1. cmd \in Handles /\ cmd = starts
      BY DEF FieldsNewest
    <2>2. done = starts /\ starts \in closed /\ leader' = leader
      BY <1>3, StoppedQuiet DEF StopDone, StopKilled
    <2> QED BY <2>1, <2>2 DEF WaiterOwnsHandle
  <1> QED BY <1>1, <1>2, <1>3

\* Stop returns only when the child it was asked to stop has been reaped
\* (runner_unix.go:54-66), as long as no two callers are in the gap of a Restart.
THEOREM StopReapsInGap ==
    IsFiniteSet(Callers) => (RunnerSpec /\ []OneInGap => StopReaps)
  <1>1. SingleCallerInv /\ [RunnerNext]_runnerVars => [Reaps]_runnerVars
    BY ReapsStep, NextMoves
  <1> QED BY <1>1, OwnSlotSafe, PTL DEF RunnerSpec, StopReaps, Reaps

\* With one caller Stop always reaps the child.
THEOREM StopAlwaysReaps == SingleCaller => (RunnerSpec => StopReaps)
  <1>1. SingleCallerInv /\ [RunnerNext]_runnerVars => [Reaps]_runnerVars
    BY ReapsStep, NextMoves
  <1> QED BY <1>1, SingleCallerSafe, PTL DEF RunnerSpec, StopReaps, Reaps

-----------------------------------------------------------------------------
(* Refinement. *)

Alive   == {k \in Handles : leader[k] = "up"}
Spawned == {k \in Handles : leader[k] # "none"}

\* A step that leaves the count of Starts and every process where they are is
\* invisible to the slot.
LEMMA SlotStutter ==
    ASSUME starts' = starts, leader' = leader
    PROVE  UNCHANGED Slot!slotVars
  BY DEF Slot!slotVars

\* A running process that stops running, all others as before.
OnlyExits ==
    /\ starts' = starts
    /\ \A j \in Handles : leader'[j] # leader[j] => leader[j] = "up" /\ leader'[j] = "zombie"

LEMMA SlotExit == SingleCallerInv /\ OnlyExits => Slot!Exit \/ UNCHANGED Slot!slotVars
  <1> SUFFICES ASSUME SingleCallerInv, OnlyExits
               PROVE  Slot!Exit \/ UNCHANGED Slot!slotVars
    OBVIOUS
  <1> USE DEF OnlyExits
  <1>1. Spawned' = Spawned
    BY DEF Spawned
  <1>2. Alive \subseteq {starts}
    BY DEF SingleCallerInv, Alive, OlderQuiet, Quiet, WaiterOwnsHandle
  <1>3. Alive' = Alive \/ (Alive # {} /\ Alive' = {})
    BY <1>2 DEF Alive
  <1> QED BY <1>1, <1>3 DEF Slot!Exit, Slot!slotVars, Alive, Spawned

LEMMA SlotStep ==
    ASSUME SingleCallerInv, RunnerTypeOK', RunnerMoves \/ UNCHANGED runnerVars
    PROVE  [Slot!SlotNext]_(Slot!slotVars)
  <1> USE DEF processVars, waiterVars, callVars, Goto
  <1>1. ASSUME NEW t \in Callers, Call(t) PROVE UNCHANGED <<starts, leader>>
    BY <1>1 DEF Call, CallStart, CallRestart, CallStop
  <1>2. ASSUME NEW t \in Callers, StartLock(t) PROVE [Slot!SlotNext]_(Slot!slotVars)
    <2>1. Alive = {}
      BY <1>2 DEF SingleCallerInv, StartLock, OlderQuiet, Quiet, WaiterOwnsHandle, Alive
    <2>2. starts < MaxStarts /\ starts' = starts + 1 /\ leader' = leader
      BY <1>2, HandleRange, RunnerAssumption
         DEF SingleCallerInv, StartLock, RunnerTypeOK, HandlesLeft, Handles
    <2> QED BY <2>1, <2>2 DEF Slot!SlotNext, Slot!Announce, Alive
  <1>3. ASSUME NEW t \in Callers, StartChan(t) PROVE UNCHANGED <<starts, leader>>
    BY <1>3 DEF StartChan
  <1>4. ASSUME NEW t \in Callers, StartFork(t) PROVE [Slot!SlotNext]_(Slot!slotVars)
    <2>1. cmd = starts /\ starts \in Handles /\ starts' = starts
      BY <1>4 DEF SingleCallerInv, StartFork, FieldsNewest, Critical, RunnerTypeOK, Nil
    <2>2. Alive = {} /\ starts \notin Spawned
      BY <1>4, <2>1 DEF SingleCallerInv, StartFork, OlderQuiet, Quiet, WaiterOwnsHandle,
                        Alive, Spawned
    <2>3. CASE leader' = leader
      BY <2>1, <2>3, SlotStutter
    <2>4. CASE leader' = [leader EXCEPT ![cmd] = "up"]
      <3>1. Alive' = {starts} /\ Spawned' = Spawned \cup {starts}
        BY <2>1, <2>2, <2>4 DEF SingleCallerInv, RunnerTypeOK, Alive, Spawned
      <3> QED BY <2>1, <2>2, <3>1 DEF Slot!SlotNext, Slot!Spawn, Alive, Spawned, Handles
    <2> QED BY <1>4, <2>3, <2>4 DEF StartFork
  <1>5. ASSUME NEW t \in Callers, StopNothing(t) \/ StopDone(t) \/ StopKilled(t)
        PROVE UNCHANGED <<starts, leader>>
    BY <1>5 DEF StopNothing, StopDone, StopKilled
  <1>6. ASSUME NEW t \in Callers, StopSignal(t) \/ StopTimeout(t)
        PROVE [Slot!SlotNext]_(Slot!slotVars)
    <2>1. cmd \in Handles /\ starts' = starts
      BY <1>6 DEF SingleCallerInv, StopSignal, StopTimeout, HasProcess, FieldsNewest,
                  Critical, RunnerTypeOK, Nil
    <2>2. \A j \in Handles : \/ leader'[j] = leader[j]
                             \/ leader[j] = "up" /\ leader'[j] = "zombie"
      BY <1>6, <2>1, SignalEffect DEF SingleCallerInv, StopSignal, StopTimeout
    <2>3. OnlyExits
      <3>1. starts' = starts
        BY <2>1
      <3>2. \A j \in Handles : leader'[j] # leader[j] => leader[j] = "up" /\ leader'[j] = "zombie"
        BY <2>2
      <3> QED BY <3>1, <3>2 DEF OnlyExits
    <2>4. Slot!Exit \/ UNCHANGED Slot!slotVars
      BY <2>3, SlotExit
    <2> QED BY <2>4 DEF Slot!SlotNext
  <1>7. ASSUME NEW k \in Handles, WaiterRead(k) \/ WaiterClose(k) \/ HelperSpawn(k)
                                     \/ HelperExit(k)
        PROVE UNCHANGED <<starts, leader>>
    BY <1>7 DEF WaiterRead, WaiterClose, HelperSpawn, HelperExit
  <1>8. ASSUME NEW k \in Handles, WaiterReturn(k) PROVE [Slot!SlotNext]_(Slot!slotVars)
    <2>1. Alive' = Alive /\ Spawned' = Spawned /\ starts' = starts
      BY <1>8 DEF SingleCallerInv, RunnerTypeOK, WaiterReturn, Alive, Spawned
    <2> QED BY <2>1 DEF Slot!slotVars, Alive, Spawned
  <1>9. ASSUME NEW k \in Handles, LeaderExit(k) PROVE [Slot!SlotNext]_(Slot!slotVars)
    <2>1. \A j \in Handles : \/ leader'[j] = leader[j]
                             \/ leader[j] = "up" /\ leader'[j] = "zombie"
      BY <1>9 DEF SingleCallerInv, RunnerTypeOK, LeaderExit
    <2>2. starts' = starts
      BY <1>9 DEF LeaderExit
    <2>3. OnlyExits
      <3>1. starts' = starts
        BY <2>2
      <3>2. \A j \in Handles : leader'[j] # leader[j] => leader[j] = "up" /\ leader'[j] = "zombie"
        BY <2>1
      <3> QED BY <3>1, <3>2 DEF OnlyExits
    <2>4. Slot!Exit \/ UNCHANGED Slot!slotVars
      BY <2>3, SlotExit
    <2> QED BY <2>4 DEF Slot!SlotNext
  <1>10. CASE UNCHANGED runnerVars
    BY <1>10, SlotStutter DEF runnerVars
  <1> QED BY <1>1, <1>2, <1>3, <1>4, <1>5, <1>6, <1>7, <1>8, <1>9, <1>10, SlotStutter
          DEF RunnerMoves, StartStep, StopStep, Waiter, Process

LEMMA SlotStart == RunnerInit => Slot!SlotInit
  BY DEF RunnerInit, Slot!SlotInit

\* As long as no two callers are in the gap of a Restart the Runner implements the
\* one-child slot: a new child is started only when the previous one is gone
\* (runner.go:49-54).
THEOREM SlotInGap ==
    IsFiniteSet(Callers) => (RunnerSpec /\ []OneInGap => ImplementsSlot)
  <1>1. SingleCallerInv /\ SingleCallerInv' /\ [RunnerNext]_runnerVars
          => [Slot!SlotNext]_(Slot!slotVars)
    BY SlotStep, NextMoves DEF SingleCallerInv
  <1> QED BY SlotStart, <1>1, OwnSlotSafe, PTL DEF RunnerSpec, ImplementsSlot, Slot!SlotSpec

\* With one caller the Runner implements the one-child slot.
THEOREM RunnerImplementsSlot == SingleCaller => (RunnerSpec => ImplementsSlot)
  <1>1. SingleCallerInv /\ SingleCallerInv' /\ [RunnerNext]_runnerVars
          => [Slot!SlotNext]_(Slot!slotVars)
    BY SlotStep, NextMoves DEF SingleCallerInv
  <1> QED BY SlotStart, <1>1, SingleCallerSafe, PTL
          DEF RunnerSpec, ImplementsSlot, Slot!SlotSpec
=============================================================================
