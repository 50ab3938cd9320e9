------------------------------ MODULE Watcher ------------------------------
(***************************************************************************)
(* internal/watcher: the polling watcher with debounced reports.           *)
(*                                                                         *)
(* Watch walks the tree at every tick and compares the snapshot with the   *)
(* previous one; the differences are added to pending and a timer is set,  *)
(* the previous timer being stopped if it did not fire yet.  A timer that  *)
(* fires runs its callback on a goroutine of its own: it takes what is     *)
(* pending under the mutex and calls onChange without it, so callbacks can *)
(* overlap each other and the polling.                                     *)
(*                                                                         *)
(* A file is a stamp, the number of the edit that wrote it (its            *)
(* modification time and size), or Absent.  A walk reads one file after    *)
(* the other while edits go on.                                            *)
(***************************************************************************)
EXTENDS Naturals, Sequences

CONSTANTS Files,     \* paths with a watched extension
          MaxEdits,  \* bound on the edits
          MaxTimers  \* bound on the timers; no walk needs more than one per edit

ASSUME WatcherAssumption == MaxEdits \in Nat /\ MaxTimers \in Nat

Absent == 0
Stamps == 0 .. MaxEdits + 1
Timers == 1 .. MaxTimers
Ops    == {"create", "write", "remove"}

VARIABLES
    disk,      \* the stamp of each file
    edits,     \* number of edits so far
    poll,      \* where Watch is
    unwalked,  \* files the walk has not come to
    snapshot,  \* the previous snapshot
    new,       \* the snapshot being built
    pending,   \* Watcher.pending, file by file
    timers,    \* timers set so far: Watcher.timer is the last one
    cb,        \* the state of each timer and its callback
    batch,     \* the events a callback took
    stopCh,    \* stopCh is closed
    told       \* what the batches taken so far say of each file: it exists

watchVars == <<disk, edits, poll, unwalked, snapshot, new, pending, timers, cb,
               batch, stopCh, told>>
diskVars  == <<disk, edits>>
walkVars  == <<poll, unwalked, new>>
eventVars == <<snapshot, pending, timers, cb, batch, told>>

PollState  == {"first", "select", "walk", "returned"}
TimerState == {"none", "armed", "stopped", "fired", "calling", "done"}
NoEvents   == [f \in Files |-> <<>>]

WatcherTypeOK ==
    /\ disk \in [Files -> Stamps]
    /\ edits \in 0 .. MaxEdits
    /\ poll \in PollState
    /\ unwalked \subseteq Files
    /\ snapshot \in [Files -> Stamps] /\ new \in [Files -> Stamps]
    /\ pending \in [Files -> Seq(Ops)]
    /\ timers \in 0 .. MaxTimers
    /\ cb \in [Timers -> TimerState]
    /\ batch \in [Timers -> [Files -> Seq(Ops)]]
    /\ stopCh \in BOOLEAN
    /\ told \in [Files -> BOOLEAN]

\* The first edit writes stamp 2: stamp 1 is a file from before.
WatcherInit ==
    /\ disk \in [Files -> {Absent, 1}]
    /\ edits = 0
    /\ poll = "first" /\ unwalked = Files
    /\ snapshot = [f \in Files |-> Absent] /\ new = [f \in Files |-> Absent]
    /\ pending = NoEvents
    /\ timers = 0
    /\ cb = [c \in Timers |-> "none"]
    /\ batch = [c \in Timers |-> NoEvents]
    /\ stopCh = FALSE
    /\ told = [f \in Files |-> FALSE]

-----------------------------------------------------------------------------
(* The files. *)

Write(f) ==
    /\ edits < MaxEdits
    /\ disk' = [disk EXCEPT ![f] = edits + 2]
    /\ edits' = edits + 1
    /\ UNCHANGED <<walkVars, eventVars, stopCh>>

Remove(f) ==
    /\ edits < MaxEdits
    /\ disk[f] # Absent
    /\ disk' = [disk EXCEPT ![f] = Absent]
    /\ edits' = edits + 1
    /\ UNCHANGED <<walkVars, eventVars, stopCh>>

-----------------------------------------------------------------------------
(* Watch. *)

\* buildSnapshot comes to a file.
WalkFile(f) ==
    /\ poll \in {"first", "walk"}
    /\ f \in unwalked
    /\ new' = [new EXCEPT ![f] = disk[f]]
    /\ unwalked' = unwalked \ {f}
    /\ UNCHANGED <<diskVars, poll, eventVars, stopCh>>

\* The initial snapshot is not compared with anything.
FirstSnapshot ==
    /\ poll = "first"
    /\ unwalked = {}
    /\ snapshot' = new
    /\ told' = [f \in Files |-> new[f] # Absent]
    /\ poll' = "select"
    /\ UNCHANGED <<diskVars, unwalked, new, pending, timers, cb, batch, stopCh>>

\* case <-ticker.C
Tick ==
    /\ poll = "select"
    /\ poll' = "walk"
    /\ unwalked' = Files
    /\ UNCHANGED <<diskVars, new, eventVars, stopCh>>

\* diff, as the events of each file: none or one.
Events ==
    [f \in Files |->
        CASE new[f] = snapshot[f]                         -> <<>>
          [] new[f] # snapshot[f] /\ new[f] = Absent      -> <<"remove">>
          [] new[f] # snapshot[f] /\ snapshot[f] = Absent -> <<"create">>
          [] OTHER                                        -> <<"write">>]

\* Mutant: events that were pending already are lost.
AppendForgetful == Events

\* w.pending = append(w.pending, events...)
AppendEvents == [f \in Files |-> pending[f] \o Events[f]]

\* Mutant: the previous timer is left armed.
SetTimerOnly == [cb EXCEPT ![timers + 1] = "armed"]

\* Mutant: the timer is stopped, and set only when nothing was pending.
SetTimerOnce ==
    [c \in Timers |-> CASE c = timers /\ cb[c] = "armed"        -> "stopped"
                        [] c = timers + 1 /\ pending = NoEvents -> "armed"
                        [] OTHER                                -> cb[c]]

\* w.timer.Stop(); w.timer = time.AfterFunc(...): stopping a timer that has
\* fired does nothing.
SetTimer ==
    [c \in Timers |-> CASE c = timers /\ cb[c] = "armed" -> "stopped"
                        [] c = timers + 1                -> "armed"
                        [] OTHER                         -> cb[c]]

\* The walk is finished: the differences become pending and the timer is set
\* again, under the mutex.
Report ==
    /\ poll = "walk"
    /\ unwalked = {}
    /\ IF Events # NoEvents
         THEN /\ timers < MaxTimers
              /\ pending' = AppendEvents
              /\ cb' = SetTimer
              /\ timers' = timers + 1
         ELSE UNCHANGED <<pending, cb, timers>>
    /\ snapshot' = new
    /\ poll' = "select"
    /\ UNCHANGED <<diskVars, unwalked, new, batch, told, stopCh>>

\* Mutant: the break leaves the select and not the loop.
WatchBreaks ==
    /\ poll = "select"
    /\ stopCh
    /\ UNCHANGED watchVars

\* case <-w.stopCh; the timer is not stopped.
WatchReturns ==
    /\ poll = "select"
    /\ stopCh
    /\ poll' = "returned"
    /\ UNCHANGED <<diskVars, unwalked, new, eventVars, stopCh>>

\* Stop; a second call would panic, and dev.go makes only one.
Stop ==
    /\ ~stopCh
    /\ stopCh' = TRUE
    /\ UNCHANGED <<diskVars, walkVars, eventVars>>

-----------------------------------------------------------------------------
(* The timer callbacks. *)

SetCb(c, s) == cb' = [cb EXCEPT ![c] = s]

Fire(c) ==
    /\ cb[c] = "armed"
    /\ SetCb(c, "fired")
    /\ UNCHANGED <<diskVars, walkVars, snapshot, pending, timers, batch, told, stopCh>>

\* A file's existence after a sequence of events.
After(exists, ops) == IF ops = <<>> THEN exists ELSE ops[Len(ops)] # "remove"

\* pending := w.pending; w.pending = nil
Take(c) ==
    /\ cb[c] = "fired"
    /\ batch' = [batch EXCEPT ![c] = pending]
    /\ pending' = NoEvents
    /\ told' = [f \in Files |-> After(told[f], pending[f])]
    /\ SetCb(c, IF pending # NoEvents THEN "calling" ELSE "done")
    /\ UNCHANGED <<diskVars, walkVars, snapshot, timers, stopCh>>

\* onChange returns.
CallbackReturns(c) ==
    /\ cb[c] = "calling"
    /\ SetCb(c, "done")
    /\ batch' = [batch EXCEPT ![c] = NoEvents]
    /\ UNCHANGED <<diskVars, walkVars, snapshot, pending, timers, told, stopCh>>

-----------------------------------------------------------------------------
Polling  == (\E f \in Files : WalkFile(f)) \/ FirstSnapshot \/ Tick \/ Report
Callback(c) == Fire(c) \/ Take(c) \/ CallbackReturns(c)

WatcherNext ==
    \/ \E f \in Files : Write(f) \/ Remove(f)
    \/ Polling \/ WatchReturns \/ Stop
    \/ \E c \in Timers : Callback(c)

\* The polling goroutine, the timers and the callbacks run; a select with both
\* channels ready picks one at random, so it does not prefer the ticker forever.
WatcherFairness ==
    /\ WF_watchVars(Polling)
    /\ SF_watchVars(WatchReturns)
    /\ \A c \in Timers : WF_watchVars(Callback(c))

WatcherSpec == WatcherInit /\ [][WatcherNext]_watchVars /\ WatcherFairness

-----------------------------------------------------------------------------
(* Properties. *)

\* Types, and: the timers are set one after the other and only the last one can
\* still be armed (watcher.go:71-73).
WatcherInv ==
    /\ WatcherTypeOK
    /\ poll = "first" => timers = 0 /\ pending = NoEvents
    /\ \A c \in Timers : cb[c] = "none" <=> c > timers
    /\ \A c \in Timers : cb[c] = "armed" => c = timers

\* Events are pending only while a timer will still hand them over: stopping the
\* previous timer and losing a race with a callback that has fired never leaves
\* them behind (watcher.go:70-83).
NoStuckEvents ==
    pending # NoEvents => \E c \in Timers : cb[c] \in {"armed", "fired"}

\* Ops can follow one another when the file exists or not at first.
Legal(exists, ops) ==
    \A i \in 1 .. Len(ops) :
        LET before == IF i = 1 THEN exists ELSE ops[i - 1] # "remove"
        IN  IF before THEN ops[i] \in {"write", "remove"} ELSE ops[i] = "create"

\* The batches taken so far and then what is pending tell, event by event, how
\* the first snapshot became the current one: none is lost, reported twice or
\* out of order, although callbacks overlap the polling (watcher.go:62-84).
EventsExplainSnapshot ==
    poll # "first" =>
        \A f \in Files :
            /\ Legal(told[f], pending[f])
            /\ After(told[f], pending[f]) = (snapshot[f] # Absent)

\* Nothing is left to report: the last snapshot is the disk, nothing is pending
\* and no callback has an onChange to call.
Reported ==
    /\ snapshot = disk
    /\ pending = NoEvents
    /\ \A c \in Timers : cb[c] \notin {"armed", "fired", "calling"}

\* Once the edits end every change has been reported or undone, unless the watcher
\* was stopped (watcher.go:60-86).
ChangesReported == <>[](Reported \/ stopCh)

\* After Stop, Watch returns (watcher.go:62-64, 90-92).
StopReturns == stopCh ~> poll = "returned"
=============================================================================
