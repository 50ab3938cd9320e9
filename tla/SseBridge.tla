----------------------------- MODULE SseBridge -----------------------------
(***************************************************************************)
(* packages/runtime/src/sse-interceptor.ts: the bridge from the iterator   *)
(* that an @EventStream() handler returns to the Observable that NestJS    *)
(* subscribes to, for one request.                                         *)
(*                                                                         *)
(* One thread: an action is what runs without a break, a task or a         *)
(* microtask.  The pump is an async loop that awaits iterator.next(); the  *)
(* heartbeat is an interval; the client leaves at any time, also inside a  *)
(* call of subscriber.next().  The teardown is run by rxjs when the client *)
(* leaves and when the pump calls complete().                              *)
(*                                                                         *)
(* The source is a generator.  A request to return that comes while a      *)
(* next() is pending waits until that next() has settled; otherwise the    *)
(* generator runs its finally blocks.  (An iterator that is not one, and a *)
(* synchronous one, settle sooner; finally blocks do not throw.)           *)
(*                                                                         *)
(* The error event is not in sent: it comes with the end "failed".         *)
(***************************************************************************)
EXTENDS Naturals, Sequences

CONSTANTS
    Names,      \* event names
    NoName,     \* an event without a name
    Keys,       \* names that have transforms
    Asserting,  \* names, and Star, whose transforms validate
    Star,       \* the fallback key
    HasStar,    \* there are fallback transforms
    Heartbeat,  \* heartbeatMs > 0
    MaxEvents,  \* bound on the events of the source
    MaxBeats    \* bound on the heartbeats

ASSUME SseAssumption ==
    /\ NoName \notin Names /\ Star \notin Names \cup {NoName}
    /\ Keys \subseteq Names
    /\ Asserting \subseteq Keys \cup {Star}
    /\ HasStar \in BOOLEAN /\ Heartbeat \in BOOLEAN
    /\ MaxEvents \in Nat /\ MaxBeats \in Nat

Events == [name : Names \cup {NoName}, valid : BOOLEAN]

VARIABLES
    source,     \* the generator
    returning,  \* its return() waits for the pending next()
    made,       \* the events it has yielded
    pump,       \* where the pump is
    result,     \* what the awaited next() settled to
    cancelled,  \* the flag of that name
    timer,      \* the interval is set
    sub,        \* the subscription
    sent,       \* events given to subscriber.next
    beats,      \* heartbeats given to subscriber.next
    end         \* how the stream ended

sseVars == <<source, returning, made, pump, result, cancelled, timer, sub, sent, beats, end>>

SourceState == {"fresh", "running", "suspended", "finalizing", "done"}
PumpState   == {"off", "awaiting", "settled", "ended"}
ResultState == {"none", "value", "done", "error"}
EndState    == {"open", "finished", "failed", "left"}

SseInit ==
    /\ source = "fresh" /\ returning = FALSE
    /\ made = <<>>
    /\ pump = "off" /\ result = "none"
    /\ cancelled = FALSE /\ timer = FALSE
    /\ sub = "none"
    /\ sent = <<>> /\ beats = 0
    /\ end = "open"

-----------------------------------------------------------------------------
(* The teardown. *)

\* Mutant: the teardown does not call return().
ReturnNothing(state) == source' = state /\ UNCHANGED returning

\* iterator.return?.(undefined), for a generator in a given state
Return(state) ==
    /\ source' = IF state = "suspended" THEN "finalizing" ELSE state
    /\ returning' = (returning \/ state = "running")

\* The subscription ends and the teardown runs; at is the state of the source.
Teardown(how, at) ==
    /\ sub' = "closed" /\ end' = how
    /\ cancelled' = TRUE
    /\ timer' = FALSE
    /\ Return(at)

-----------------------------------------------------------------------------
(* The source. *)

\* The pending next() settles with a value ...
Yield ==
    /\ source = "running"
    /\ Len(made) < MaxEvents
    /\ \E e \in Events : made' = Append(made, e)
    /\ source' = IF returning THEN "finalizing" ELSE "suspended"
    /\ result' = "value" /\ pump' = "settled"
    /\ returning' = FALSE
    /\ UNCHANGED <<cancelled, timer, sub, sent, beats, end>>

\* ... or the generator returns or throws.
SourceEnds ==
    /\ source = "running"
    /\ source' = "done"
    /\ result' \in {"done", "error"} /\ pump' = "settled"
    /\ returning' = FALSE
    /\ UNCHANGED <<made, cancelled, timer, sub, sent, beats, end>>

\* The finally blocks have run.
Finalized ==
    /\ source = "finalizing"
    /\ source' = "done"
    /\ UNCHANGED <<returning, made, pump, result, cancelled, timer, sub, sent, beats, end>>

-----------------------------------------------------------------------------
(* The pump. *)

\* iterator.next() is called: it is pending, or it throws at once, which the
\* pump catches and ends the stream with an error event.
Pull ==
    \/ /\ source' = "running" /\ pump' = "awaiting"
       /\ UNCHANGED <<returning, cancelled, timer, sub, end>>
    \/ /\ pump' = "ended"
       /\ Teardown("failed", "done")

\* The handler's iterable has come: the Observable is subscribed to and the first
\* next() is called before its teardown is known; rxjs runs it all the same.
Subscribe ==
    /\ sub = "none"
    /\ \/ /\ source' = "running" /\ pump' = "awaiting"
          /\ timer' = Heartbeat
          /\ sub' = "open"
          /\ UNCHANGED <<returning, cancelled, end>>
       \/ /\ pump' = "ended"
          /\ Teardown("failed", "done")
    /\ UNCHANGED <<made, result, sent, beats>>

\* Event name, then the fallback, then none.
Pair(name) == IF name \in Keys THEN name ELSE IF HasStar THEN Star ELSE NoName

\* assertFn throws.
Refuses(e) == ~e.valid /\ Pair(e.name) \in Asserting

\* subscriber.next(...) of the last event; the client may leave inside it, and
\* otherwise the loop calls next() again.
Emit ==
    /\ sent' = Append(sent, made[Len(made)])
    /\ \/ Pull
       \/ pump' = "ended" /\ Teardown("left", source)

\* Mutant: the pump ends without complete().
HandleWithoutComplete ==
    \/ result = "value" /\ Emit
    \/ /\ result # "value"
       /\ pump' = "ended"
       /\ UNCHANGED <<source, returning, cancelled, timer, sub, sent, end>>

\* What the pump does with the result when it was not cancelled.
Handle ==
    \/ /\ result = "value" /\ ~Refuses(made[Len(made)])
       /\ Emit
    \/ /\ result = "value" /\ Refuses(made[Len(made)])
       /\ pump' = "ended" /\ Teardown("failed", source)
       /\ UNCHANGED sent
    \/ /\ result = "done"
       /\ pump' = "ended" /\ Teardown("finished", source)
       /\ UNCHANGED sent
    \/ /\ result = "error"
       /\ pump' = "ended" /\ Teardown("failed", source)
       /\ UNCHANGED sent

\* Mutant: cancelled is not looked at after the await.
ResumeUnchecked ==
    /\ pump = "settled"
    /\ Handle
    /\ UNCHANGED <<made, result, beats>>

\* The await is over.
Resume ==
    /\ pump = "settled"
    /\ IF cancelled
         THEN /\ pump' = "ended"
              /\ UNCHANGED <<source, returning, cancelled, timer, sub, sent, end>>
         ELSE Handle
    /\ UNCHANGED <<made, result, beats>>

-----------------------------------------------------------------------------
(* The heartbeat and the client. *)

Tick ==
    /\ timer
    /\ beats < MaxBeats
    /\ IF cancelled
         THEN UNCHANGED <<beats, sub, cancelled, timer, end, source, returning>>
         ELSE /\ beats' = beats + 1
              /\ \/ UNCHANGED <<sub, cancelled, timer, end, source, returning>>
                 \/ Teardown("left", source)
    /\ UNCHANGED <<made, pump, result, sent>>

\* NestJS unsubscribes when the request is closed.
Disconnect ==
    /\ sub = "open"
    /\ Teardown("left", source)
    /\ UNCHANGED <<made, pump, result, sent, beats>>

\* The request is closed before the handler's iterable has come.
DisconnectEarly ==
    /\ sub = "none"
    /\ sub' = "closed" /\ end' = "left"
    /\ UNCHANGED <<source, returning, made, pump, result, cancelled, timer, sent, beats>>

-----------------------------------------------------------------------------
SseNext ==
    \/ Subscribe \/ Yield \/ SourceEnds \/ Finalized \/ Resume \/ Tick
    \/ Disconnect \/ DisconnectEarly

\* Microtasks run, and finally blocks end.
Fairness == WF_sseVars(Resume) /\ WF_sseVars(Finalized)

\* Every next() settles at last.
SourceSettles == WF_sseVars(Yield \/ SourceEnds)

SseSpec  == SseInit /\ [][SseNext]_sseVars /\ Fairness /\ SourceSettles

\* The source may wait forever, as for an event that does not come.
IdleSpec == SseInit /\ [][SseNext]_sseVars /\ Fairness

-----------------------------------------------------------------------------
(* Properties. *)

SseTypeOK ==
    /\ source \in SourceState /\ returning \in BOOLEAN
    /\ made \in Seq(Events) /\ Len(made) <= MaxEvents
    /\ pump \in PumpState /\ result \in ResultState
    /\ cancelled \in BOOLEAN /\ timer \in BOOLEAN
    /\ sub \in {"none", "open", "closed"}
    /\ sent \in Seq(Events) /\ beats \in 0 .. MaxBeats
    /\ end \in EndState

\* A subscription that has ended holds no interval, and its source was told to
\* return or has never run (sse-interceptor.ts:38-44, 132-143).
NoLeak ==
    sub = "closed" =>
        /\ ~timer
        /\ source # "suspended"
        /\ source = "running" => returning

\* What the pump, the source and the subscription know of each other.
SseInv ==
    /\ SseTypeOK
    /\ NoLeak
    /\ sub = "none" => source = "fresh" /\ pump = "off" /\ ~timer /\ made = <<>> /\ sent = <<>>
    /\ source = "fresh" => made = <<>> /\ sent = <<>> /\ pump = "off" /\ ~timer /\ sub # "open"
    /\ sub = "closed" <=> end # "open"
    /\ sub = "open" => ~cancelled /\ pump \in {"awaiting", "settled"} /\ ~returning
    /\ sub = "none" => ~cancelled /\ ~returning
    /\ sub = "closed" => cancelled \/ source = "fresh"
    /\ source = "running" <=> pump = "awaiting"
    /\ pump = "settled" => result # "none" /\ source # "fresh"
    /\ pump = "settled" /\ result = "value" =>
          made # <<>> /\ (sub = "open" => source = "suspended" /\ made = Append(sent, made[Len(made)]))
    /\ pump = "settled" /\ result # "value" => source = "done" /\ (sub = "open" => made = sent)
    /\ pump = "awaiting" /\ sub = "open" => made = sent

Stream == INSTANCE SseStream WITH Refused <- {e \in Events : Refuses(e)}

\* The client gets what SseStream promises: the events in order, none skipped, none
\* that its transforms refuse, and nothing after the end (sse-interceptor.ts:71-122).
ImplementsStream == Stream!StreamSpec

\* When the source has returned or thrown, the stream ends.
EndReachesClient == pump = "settled" /\ result # "value" ~> sub = "closed"

\* When the stream has ended, however it did, the source's finally blocks run and
\* its pump stops, provided that every next() settles (sse-interceptor.ts:138-142).
Released == sub = "closed" ~> source \in {"fresh", "done"} /\ pump \in {"off", "ended"}

\* sse-interceptor.ts:138-141: return() makes the generator resolve a pending
\* await and run its finally blocks.
ReturnResolvesPending == returning ~> source = "done"
=============================================================================
