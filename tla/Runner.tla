------------------------------- MODULE Runner -------------------------------
(***************************************************************************)
(* internal/runner: the Runner that owns the Node.js child of the dev      *)
(* command (runner.go, runner_unix.go).                                    *)
(*                                                                         *)
(* The k-th call of Start makes the k-th exec.Cmd, the k-th done channel,  *)
(* the k-th process (the leader of a new process group) and the k-th wait  *)
(* goroutine.  Start and Stop hold the mutex; Restart calls one after the  *)
(* other and holds nothing in between; the wait goroutine never takes the  *)
(* mutex and reads the fields cmd and done when it gets to them.           *)
(***************************************************************************)
EXTENDS Naturals, FiniteSets

CONSTANTS Callers,    \* the goroutines that call Start, Stop and Restart
          NoCaller,   \* the mutex is free
          MaxStarts   \* bound on the calls of Start

ASSUME RunnerAssumption ==
    /\ MaxStarts \in Nat \ {0}
    /\ NoCaller \notin Callers

Handles == 1 .. MaxStarts
Nil     == 0

VARIABLES
    mu,        \* holder of Runner.mu
    cmd,       \* the field Runner.cmd: a handle, or Nil
    done,      \* the field Runner.done: the channel of a handle, or Nil
    calls,     \* calls of Start that were begun (each will use one handle)
    starts,    \* handles used so far
    closed,    \* the done channels that are closed
    leader,    \* the process of each handle
    helper,    \* a further process of the leader's group
    waiter,    \* the wait goroutine of each handle
    target,    \* the exec.Cmd that the wait goroutine called Wait on
    panicked,  \* a wait goroutine closed a closed channel: the program died
    pc,        \* where each caller is
    again,     \* the caller is in the Stop of a Restart
    pgid       \* the caller's Getpgid succeeded

runnerVars == <<mu, cmd, done, calls, starts, closed, leader, 
                helper, waiter, target, panicked, pc, again, pgid>>
processVars == <<leader, helper>>
waiterVars  == <<closed, waiter, target, panicked>>
callVars    == <<pc, again, pgid>>

LeaderState == {"none", "up", "zombie", "reaped"}
HelperState == {"none", "up", "gone"}
WaiterState == {"none", "ready", "waiting", "closing", "gone"}
CallerState == {"idle", "start", "startChan", "startFork",
                "stop", "stopWait", "stopKilled"}

RunnerTypeOK ==
    /\ mu \in Callers \cup {NoCaller}
    /\ cmd \in Handles \cup {Nil}
    /\ done \in Handles \cup {Nil}
    /\ calls \in 0 .. MaxStarts
    /\ starts \in 0 .. calls
    /\ closed \subseteq Handles
    /\ leader \in [Handles -> LeaderState]
    /\ helper \in [Handles -> HelperState]
    /\ waiter \in [Handles -> WaiterState]
    /\ target \in [Handles -> Handles \cup {Nil}]
    /\ panicked \in BOOLEAN
    /\ pc \in [Callers -> CallerState]
    /\ again \in [Callers -> BOOLEAN]
    /\ pgid \in [Callers -> BOOLEAN]

RunnerInit ==
    /\ mu = NoCaller
    /\ cmd = Nil /\ done = Nil
    /\ calls = 0 /\ starts = 0
    /\ closed = {}
    /\ leader = [k \in Handles |-> "none"]
    /\ helper = [k \in Handles |-> "none"]
    /\ waiter = [k \in Handles |-> "none"]
    /\ target = [k \in Handles |-> Nil]
    /\ panicked = FALSE
    /\ pc = [t \in Callers |-> "idle"]
    /\ again = [t \in Callers |-> FALSE]
    /\ pgid = [t \in Callers |-> FALSE]

Goto(t, label) == pc' = [pc EXCEPT ![t] = label]

-----------------------------------------------------------------------------
(* Calls.  Start is called once, before any other goroutine has the Runner *)
(* (dev.go); Restart and Stop at any time.                                 *)

CallStart(t) ==
    /\ calls = 0
    /\ \A s \in Callers : pc[s] = "idle"
    /\ calls' = 1
    /\ Goto(t, "start")
    /\ UNCHANGED <<mu, cmd, done, starts, again, pgid, processVars, waiterVars>>

\* Mutant: Restart starts the new child without stopping the old one.
RestartWithoutStop(t) ==
    /\ pc[t] = "idle"
    /\ calls < MaxStarts
    /\ calls' = calls + 1
    /\ Goto(t, "start")
    /\ UNCHANGED <<mu, cmd, done, starts, again, pgid, processVars, waiterVars>>

CallRestart(t) ==
    /\ pc[t] = "idle"
    /\ calls < MaxStarts
    /\ calls' = calls + 1
    /\ again' = [again EXCEPT ![t] = TRUE]
    /\ Goto(t, "stop")
    /\ UNCHANGED <<mu, cmd, done, starts, pgid, processVars, waiterVars>>

CallStop(t) ==
    /\ pc[t] = "idle"
    /\ Goto(t, "stop")
    /\ UNCHANGED <<mu, cmd, done, calls, starts, again, pgid, processVars, waiterVars>>

-----------------------------------------------------------------------------
(* Start. *)

\* r.mu.Lock(); r.cmd = r.newCmd()
StartLock(t) ==
    /\ pc[t] = "start"
    /\ mu = NoCaller
    /\ mu' = t
    /\ starts' = starts + 1
    /\ cmd' = starts + 1
    /\ Goto(t, "startChan")
    /\ UNCHANGED <<done, calls, again, pgid, processVars, waiterVars>>

\* r.done = make(chan struct{})
StartChan(t) ==
    /\ pc[t] = "startChan"
    /\ done' = cmd
    /\ Goto(t, "startFork")
    /\ UNCHANGED <<mu, cmd, calls, starts, again, pgid, processVars, waiterVars>>

\* r.cmd.Start(): the process runs and its wait goroutine is created, or it
\* fails and Start returns the error.
StartFork(t) ==
    /\ pc[t] = "startFork"
    /\ \/ /\ leader' = [leader EXCEPT ![cmd] = "up"]
          /\ waiter' = [waiter EXCEPT ![cmd] = "ready"]
       \/ UNCHANGED <<leader, waiter>>
    /\ mu' = NoCaller
    /\ Goto(t, "idle")
    /\ UNCHANGED <<cmd, done, calls, starts, closed, helper, target,
                   panicked, again, pgid>>

-----------------------------------------------------------------------------
(* Stop. *)

\* Stop returns: to Start when it was called by Restart.
StopReturn(t) ==
    /\ Goto(t, IF again[t] THEN "start" ELSE "idle")
    /\ again' = [again EXCEPT ![t] = FALSE]
    /\ mu' = NoCaller

\* r.cmd != nil && r.cmd.Process != nil
HasProcess == cmd # Nil /\ leader[cmd] # "none"

StopNothing(t) ==
    /\ pc[t] = "stop"
    /\ mu = NoCaller
    /\ ~HasProcess
    /\ StopReturn(t)
    /\ UNCHANGED <<cmd, done, calls, starts, pgid, processVars, waiterVars>>

\* Processes hit by a signal die; those that ignore it are not in the set.
Signal(k, dies) ==
    /\ leader' = [leader EXCEPT ![k] =
                    IF @ = "up" /\ "leader" \in dies THEN "zombie" ELSE @]
    /\ helper' = [helper EXCEPT ![k] =
                    IF @ = "up" /\ "helper" \in dies THEN "gone" ELSE @]

\* Getpgid succeeds while the leader runs, fails once it was reaped, and may
\* do either for a zombie.  With a group id SIGTERM goes to the group; without
\* one it goes to the process, which is no longer running.
StopSignal(t) ==
    /\ pc[t] = "stop"
    /\ mu = NoCaller
    /\ HasProcess
    /\ mu' = t
    /\ \E ok \in BOOLEAN :
          /\ leader[cmd] = "up" => ok
          /\ leader[cmd] = "reaped" => ~ok
          /\ pgid' = [pgid EXCEPT ![t] = ok]
          /\ IF ok THEN \E dies \in SUBSET {"leader", "helper"} : Signal(cmd, dies)
                   ELSE UNCHANGED processVars
    /\ Goto(t, "stopWait")
    /\ UNCHANGED <<cmd, done, calls, starts, again, waiterVars>>

\* case <-r.done
StopDone(t) ==
    /\ pc[t] = "stopWait"
    /\ done \in closed
    /\ StopReturn(t)
    /\ UNCHANGED <<cmd, done, calls, starts, pgid, processVars, waiterVars>>

\* Mutant: the timeout sends no SIGKILL.
TimeoutWithoutKill(t) ==
    /\ pc[t] = "stopWait"
    /\ Goto(t, "stopKilled")
    /\ UNCHANGED <<mu, cmd, done, calls, starts, again, pgid, processVars, waiterVars>>

\* case <-time.After(5 * time.Second): SIGKILL, which nothing ignores
StopTimeout(t) ==
    /\ pc[t] = "stopWait"
    /\ IF pgid[t] THEN Signal(cmd, {"leader", "helper"})
                  ELSE Signal(cmd, {"leader"})
    /\ Goto(t, "stopKilled")
    /\ UNCHANGED <<mu, cmd, done, calls, starts, again, pgid, waiterVars>>

\* Mutant: Stop returns right after the SIGKILL.
KilledWithoutWait(t) ==
    /\ pc[t] = "stopKilled"
    /\ StopReturn(t)
    /\ UNCHANGED <<cmd, done, calls, starts, pgid, processVars, waiterVars>>

\* <-r.done after the SIGKILL
StopKilled(t) ==
    /\ pc[t] = "stopKilled"
    /\ done \in closed
    /\ StopReturn(t)
    /\ UNCHANGED <<cmd, done, calls, starts, pgid, processVars, waiterVars>>

-----------------------------------------------------------------------------
(* The wait goroutine: r.cmd.Wait(); close(r.done). *)

\* It evaluates r.cmd when it is first scheduled.
WaiterRead(k) ==
    /\ waiter[k] = "ready"
    /\ target' = [target EXCEPT ![k] = cmd]
    /\ waiter' = [waiter EXCEPT ![k] = "waiting"]
    /\ UNCHANGED <<mu, cmd, done, calls, starts, closed, panicked, callVars,
                   processVars>>

\* Wait reaps the process, or returns an error when that Cmd was not started
\* or was already waited for.
WaiterReturn(k) ==
    /\ waiter[k] = "waiting"
    /\ leader[target[k]] # "up"
    /\ leader' = [leader EXCEPT ![target[k]] = IF @ = "zombie" THEN "reaped" ELSE @]
    /\ waiter' = [waiter EXCEPT ![k] = "closing"]
    /\ UNCHANGED <<mu, cmd, done, calls, starts, closed, helper,
                   target, panicked, callVars>>

\* It evaluates r.done now; closing a closed channel panics, and a panic in a
\* goroutine without a recover ends the program.
WaiterClose(k) ==
    /\ waiter[k] = "closing"
    /\ IF done \in closed THEN panicked' = TRUE /\ UNCHANGED closed
                          ELSE closed' = closed \cup {done} /\ UNCHANGED panicked
    /\ waiter' = [waiter EXCEPT ![k] = "gone"]
    /\ UNCHANGED <<mu, cmd, done, calls, starts, target, callVars, processVars>>

-----------------------------------------------------------------------------
(* The child processes. *)

\* The leader exits by itself.
LeaderExit(k) ==
    /\ leader[k] = "up"
    /\ leader' = [leader EXCEPT ![k] = "zombie"]
    /\ UNCHANGED <<mu, cmd, done, calls, starts, helper, callVars,
                   waiterVars>>

\* The leader starts a process of its own (sh -c, a Node worker process).
HelperSpawn(k) ==
    /\ leader[k] = "up"
    /\ helper[k] = "none"
    /\ helper' = [helper EXCEPT ![k] = "up"]
    /\ UNCHANGED <<mu, cmd, done, calls, starts, leader, callVars,
                   waiterVars>>

HelperExit(k) ==
    /\ helper[k] = "up"
    /\ helper' = [helper EXCEPT ![k] = "gone"]
    /\ UNCHANGED <<mu, cmd, done, calls, starts, leader, callVars,
                   waiterVars>>

-----------------------------------------------------------------------------
StartStep(t) == StartLock(t) \/ StartChan(t) \/ StartFork(t)
StopStep(t)  == StopNothing(t) \/ StopSignal(t) \/ StopDone(t)
                  \/ StopTimeout(t) \/ StopKilled(t)
Waiter(k)    == WaiterRead(k) \/ WaiterReturn(k) \/ WaiterClose(k)
Process(k)   == LeaderExit(k) \/ HelperSpawn(k) \/ HelperExit(k)
Call(t)      == CallStart(t) \/ CallRestart(t) \/ CallStop(t)

RunnerNext ==
    /\ ~panicked
    /\ \/ \E t \in Callers : Call(t) \/ StartStep(t) \/ StopStep(t)
       \/ \E k \in Handles : Waiter(k) \/ Process(k)

\* Goroutines that can run are run; nothing is assumed of the children.
RunnerFairness ==
    /\ \A t \in Callers : WF_runnerVars(~panicked /\ (StartStep(t) \/ StopStep(t)))
    /\ \A k \in Handles : WF_runnerVars(~panicked /\ Waiter(k))

RunnerSpec == RunnerInit /\ [][RunnerNext]_runnerVars /\ RunnerFairness

-----------------------------------------------------------------------------
(* The invariant of the mutex, and the one that a single caller keeps. *)

Critical == {"startChan", "startFork", "stopWait", "stopKilled"}
Stopping == {"stop", "stopWait", "stopKilled"}

\* The mutex is held by the caller inside Start or Stop and by no other.
LockHeld == \A t \in Callers : mu = t <=> pc[t] \in Critical

\* A call of Start that was begun has a handle left to use.
HandlesLeft ==
    /\ \A t \in Callers : again[t] => pc[t] \in Stopping
    /\ \A t \in Callers : again[t] \/ pc[t] = "start" => starts < calls

\* The fields name the newest handle.
FieldsNewest ==
    /\ cmd = starts
    /\ (\A t \in Callers : pc[t] # "startChan") => done = starts
    /\ \A t \in Callers : pc[t] \in Critical => starts # 0

\* The wait goroutine of a handle follows the handle's own process and closes
\* the handle's own channel, when the process has been reaped.
WaiterOwnsHandle ==
    \A k \in Handles :
        /\ waiter[k] = "none" <=> leader[k] = "none"
        /\ waiter[k] \in {"ready", "waiting"} => leader[k] \in {"up", "zombie"}
        /\ waiter[k] \in {"closing", "gone"} => leader[k] = "reaped"
        /\ waiter[k] \in {"waiting", "closing"} => target[k] = k
        /\ k \in closed <=> waiter[k] = "gone"

\* Only the newest handle can have a live process or wait goroutine, and not
\* even that one while a Start is under way.
Quiet(k) == waiter[k] \in {"none", "gone"}
OlderQuiet ==
    /\ \A k \in Handles : k # starts => Quiet(k)
    /\ \A k \in Handles : k > starts => waiter[k] = "none"
    /\ \A t \in Callers :
          /\ pc[t] = "start" => \A k \in Handles : Quiet(k)
          /\ pc[t] \in {"startChan", "startFork"} => waiter[starts] = "none"

\* What one caller that finishes each call before the next one relies on: no
\* handle is ever abandoned, and no wait goroutine panics.
SingleCallerInv ==
    /\ RunnerTypeOK
    /\ LockHeld
    /\ HandlesLeft
    /\ FieldsNewest
    /\ WaiterOwnsHandle
    /\ OlderQuiet
    /\ ~panicked

-----------------------------------------------------------------------------
(* Properties. *)

\* The channel in the field done is that of the wait goroutine that will close
\* it, so none is closed twice: no wait goroutine panics (runner_unix.go:28-31).
NoDoubleClose == ~panicked

\* Stop (and the Stop inside Restart) returns only when the child in the slot
\* at that moment has been reaped, whether it obeyed SIGTERM, had to be killed
\* or had already exited; a port it held is free again.
StopReaps ==
    [][\A t \in Callers :
          pc[t] \in {"stop", "stopWait", "stopKilled"} /\ pc'[t] \in {"idle", "start"}
            => (cmd # Nil => leader'[cmd] \in {"none", "reaped"})]_runnerVars

\* Every Stop and every Restart returns, even when the child ignores SIGTERM:
\* the five-second timeout falls back to SIGKILL.
CallsReturn == \A t \in Callers : pc[t] # "idle" ~> pc[t] = "idle"

Slot == INSTANCE ChildSlot WITH
    alive <- {k \in Handles : leader[k] = "up"},
    spawned <- {k \in Handles : leader[k] # "none"},
    gen <- starts,
    MaxGen <- MaxStarts

\* The Runner implements the one-child slot.
ImplementsSlot == Slot!SlotSpec
=============================================================================
