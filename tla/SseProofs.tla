----------------------------- MODULE SseProofs -----------------------------
(***************************************************************************)
(* Proofs about SseBridge: the inductive invariant, which contains NoLeak, *)
(* and that the bridge implements SseStream.                               *)
(***************************************************************************)
EXTENDS SseBridge, TLAPS

LEMMA InitInv == SseInit => SseInv
  <1> SUFFICES ASSUME SseInit PROVE SseInv
    OBVIOUS
  <1> USE SseAssumption DEF SseInit
  <1>1. /\ made \in Seq(Events) /\ sent \in Seq(Events)
        /\ Len(made) <= MaxEvents /\ beats \in 0 .. MaxBeats
    OBVIOUS
  <1>2. SseTypeOK
    BY <1>1 DEF SseTypeOK, SourceState, PumpState, ResultState, EndState
  <1> QED BY <1>2 DEF SseInv, NoLeak

\* An ended subscription has no interval, and its source is not left suspended.
LEMMA TeardownEffect ==
    ASSUME NEW how \in EndState, NEW state \in SourceState, Teardown(how, state),
           returning \in BOOLEAN
    PROVE  /\ sub' = "closed" /\ end' = how /\ cancelled' = TRUE /\ timer' = FALSE
           /\ source' \in SourceState \ {"suspended"}
           /\ source' = "running" <=> state = "running"
           /\ source' = "fresh" <=> state = "fresh"
           /\ source' = "done" <=> state = "done"
           /\ returning' \in BOOLEAN
           /\ state = "running" => returning'
           /\ state # "running" => returning' = returning
  BY DEF Teardown, Return, SourceState

LEMMA PullEffect ==
    ASSUME SseTypeOK, Pull
    PROVE  \/ /\ source' = "running" /\ pump' = "awaiting"
              /\ UNCHANGED <<returning, cancelled, timer, sub, end>>
           \/ /\ source' = "done" /\ pump' = "ended"
              /\ sub' = "closed" /\ end' = "failed" /\ cancelled' = TRUE /\ timer' = FALSE
              /\ returning' = returning
  BY DEF SseTypeOK, Pull, Teardown, Return

LEMMA LastEvent ==
    ASSUME SseTypeOK, made # <<>>
    PROVE  made[Len(made)] \in Events
  BY DEF SseTypeOK

LEMMA SourceStep ==
    ASSUME SseInv, Yield \/ SourceEnds \/ Finalized
    PROVE  SseInv'
  <1> USE SseAssumption
      DEF SseInv, SseTypeOK, NoLeak, SourceState, PumpState, ResultState, EndState
  <1>1. CASE Yield
    <2>1. PICK e \in Events : made' = Append(made, e)
      BY <1>1 DEF Yield
    <2>2. /\ made' \in Seq(Events) /\ Len(made') = Len(made) + 1
          /\ made' # <<>> /\ made'[Len(made')] = e
      BY <2>1
    <2>3. sub = "open" => made' = Append(sent, made'[Len(made')])
      BY <1>1, <2>1, <2>2 DEF Yield
    <2>4. /\ pump = "awaiting" /\ pump' = "settled" /\ result' = "value" /\ returning' = FALSE
          /\ source' = IF returning THEN "finalizing" ELSE "suspended"
          /\ Len(made') <= MaxEvents
          /\ UNCHANGED <<cancelled, timer, sub, sent, beats, end>>
      BY <1>1, <2>2 DEF Yield
    <2>5. SseTypeOK'
      <3>1. /\ source' \in SourceState /\ pump' \in PumpState /\ result' \in ResultState
            /\ returning' \in BOOLEAN
        BY <2>4
      <3>2. /\ cancelled' \in BOOLEAN /\ timer' \in BOOLEAN /\ sub' \in {"none", "open", "closed"}
            /\ sent' \in Seq(Events) /\ beats' \in 0 .. MaxBeats /\ end' \in EndState
        BY <2>4
      <3> QED BY <2>2, <2>4, <3>1, <3>2 DEF SseTypeOK
    <2>6. sub # "none" /\ source' # "running" /\ source' # "fresh"
      BY <1>1, <2>4 DEF Yield
    <2>7. NoLeak'
      BY <2>4, <2>6
    <2> QED BY <2>2, <2>3, <2>4, <2>5, <2>6, <2>7
  <1>2. CASE SourceEnds
    BY <1>2 DEF SourceEnds
  <1>3. CASE Finalized
    BY <1>3 DEF Finalized
  <1> QED BY <1>1, <1>2, <1>3

\* The pump goes on after an await that was not cancelled.
LEMMA HandleStep ==
    ASSUME SseInv, pump = "settled", ~cancelled, Handle, UNCHANGED <<made, result, beats>>
    PROVE  SseInv'
  <1> USE SseAssumption
      DEF SseInv, SseTypeOK, NoLeak, SourceState, PumpState, ResultState, EndState
  <1>1. sub = "open"
    OBVIOUS
  <1>2. CASE result = "value" /\ Emit
    <2>1. made[Len(made)] \in Events
      BY <1>2, LastEvent
    <2>2. sent' = made /\ sent' \in Seq(Events) /\ sent' # <<>>
      BY <1>1, <1>2, <2>1 DEF Emit
    <2>3. CASE Pull
      <3>1. made \in Seq(Events) /\ sent \in Seq(Events) /\ Len(made) <= MaxEvents
        OBVIOUS
      <3>2. CASE /\ source' = "running" /\ pump' = "awaiting"
                 /\ UNCHANGED <<returning, cancelled, timer, sub, end>>
        BY <1>1, <2>2, <3>1, <3>2
      <3>3. CASE /\ source' = "done" /\ pump' = "ended"
                 /\ sub' = "closed" /\ end' = "failed" /\ cancelled' = TRUE /\ timer' = FALSE
                 /\ returning' = returning
        BY <1>1, <2>2, <3>1, <3>3
      <3> QED BY <2>3, <3>2, <3>3, PullEffect
    <2>4. CASE pump' = "ended" /\ Teardown("left", source)
      BY <1>1, <1>2, <2>2, <2>4, TeardownEffect
    <2> QED BY <1>2, <2>3, <2>4 DEF Emit
  <1>3. CASE \E how \in {"failed", "finished"} :
                pump' = "ended" /\ Teardown(how, source) /\ UNCHANGED sent
    BY <1>1, <1>3, TeardownEffect
  <1> QED BY <1>2, <1>3 DEF Handle

LEMMA InvStep ==
    ASSUME SseInv, [SseNext]_sseVars
    PROVE  SseInv'
  <1> USE SseAssumption
  <1>1. CASE Subscribe
    <2> USE DEF SseInv, SseTypeOK, NoLeak, SourceState, PumpState, ResultState, EndState
    <2>1. CASE /\ source' = "running" /\ pump' = "awaiting"
               /\ timer' = Heartbeat /\ sub' = "open"
               /\ UNCHANGED <<returning, cancelled, end>>
      <3>1. /\ source = "fresh" /\ pump = "off" /\ made = <<>> /\ sent = <<>>
            /\ ~cancelled /\ end = "open" /\ ~returning
        BY <1>1 DEF Subscribe
      <3>2. UNCHANGED <<made, result, sent, beats>>
        BY <1>1 DEF Subscribe
      <3> QED BY <2>1, <3>1, <3>2
    <2>2. CASE pump' = "ended" /\ Teardown("failed", "done")
      BY <1>1, <2>2, TeardownEffect DEF Subscribe
    <2> QED BY <1>1, <2>1, <2>2 DEF Subscribe
  <1>2. CASE Yield \/ SourceEnds \/ Finalized
    BY <1>2, SourceStep
  <1>3. CASE Resume
    <2>1. CASE cancelled
      BY <1>3, <2>1
         DEF Resume, SseInv, SseTypeOK, NoLeak, SourceState, PumpState, ResultState, EndState
    <2>2. CASE ~cancelled
      BY <1>3, <2>2, HandleStep DEF Resume
    <2> QED BY <2>1, <2>2
  <1>4. CASE Tick
    <2> USE DEF SseInv, SseTypeOK, NoLeak, SourceState, PumpState, ResultState, EndState
    <2>1. ~cancelled /\ sub = "open"
      BY <1>4 DEF Tick
    <2>2. CASE UNCHANGED <<sub, cancelled, timer, end, source, returning>>
      BY <1>4, <2>1, <2>2 DEF Tick
    <2>3. CASE Teardown("left", source)
      <3>1. /\ beats' \in 0 .. MaxBeats
            /\ UNCHANGED <<made, pump, result, sent>>
        BY <1>4, <2>1 DEF Tick
      <3> QED BY <2>1, <2>3, <3>1, TeardownEffect
    <2> QED BY <1>4, <2>1, <2>2, <2>3 DEF Tick
  <1>5. CASE Disconnect
    BY <1>5, TeardownEffect
       DEF Disconnect, SseInv, SseTypeOK, NoLeak, SourceState, PumpState, ResultState, EndState
  <1>6. CASE DisconnectEarly
    BY <1>6 DEF DisconnectEarly, SseInv, SseTypeOK, NoLeak, SourceState, PumpState, ResultState,
                EndState
  <1>7. CASE UNCHANGED sseVars
    BY <1>7 DEF sseVars, SseInv, SseTypeOK, NoLeak
  <1> QED BY <1>1, <1>2, <1>3, <1>4, <1>5, <1>6, <1>7 DEF SseNext

\* The types and what pump, source and subscription know of each other, at any time,
\* for every source, client and transforms (sse-interceptor.ts:46-145).
THEOREM SseInvariant == SseSpec => []SseInv
  BY InitInv, InvStep, PTL DEF SseSpec

\* A subscription that has ended holds no interval and has told its source to return
\* (sse-interceptor.ts:132-143).
THEOREM NeverLeaks == SseSpec => []NoLeak
  <1>1. SseInv => NoLeak
    BY DEF SseInv
  <1> QED BY SseInvariant, <1>1, PTL

-----------------------------------------------------------------------------
LEMMA StreamInitial == SseInit => Stream!StreamInit
  BY DEF SseInit, Stream!StreamInit

\* The steps of the pump that give something to the subscriber.
LEMMA HandleSends ==
    ASSUME SseInv, pump = "settled", ~cancelled, Handle, UNCHANGED <<made, result, beats>>
    PROVE  Stream!Send \/ Stream!Finish \/ Stream!Fail
  <1> DEFINE e == made[Len(made)]
  <1> USE DEF Stream!Waiting
  <1>1. sub = "open" /\ end = "open" /\ sent \in Seq(Events)
    BY DEF SseInv, SseTypeOK, PumpState, EndState
  <1>2. ASSUME result = "value"
        PROVE  /\ e \in Events /\ made = Append(sent, e)
               /\ Len(made) = Len(sent) + 1 /\ made[Len(sent) + 1] = e
    BY <1>1, <1>2, LastEvent DEF SseInv
  <1>3. CASE result = "value" /\ ~Refuses(e)
    <2>1. Emit
      BY <1>3 DEF Handle
    <2>2. sent' = Append(sent, made[Len(sent) + 1])
      BY <1>2, <1>3, <2>1 DEF Emit
    <2>3. end' \in {"open", "left", "failed"}
      BY <1>1, <2>1 DEF Emit, Pull, Teardown
    <2>4. made[Len(sent) + 1] \notin {d \in Events : Refuses(d)}
      BY <1>2, <1>3
    <2>5. Len(sent) < Len(made)
      BY <1>1, <1>2, <1>3
    <2> QED BY <1>1, <2>2, <2>3, <2>4, <2>5 DEF Stream!Send
  <1>4. CASE result = "value" /\ Refuses(e)
    <2>1. made[Len(sent) + 1] \in {d \in Events : Refuses(d)}
      BY <1>2, <1>4
    <2>2. UNCHANGED <<made, sent, beats>> /\ end' = "failed"
      BY <1>4 DEF Handle, Teardown
    <2> QED BY <1>1, <2>1, <2>2 DEF Stream!Fail
  <1>5. CASE result # "value"
    <2>1. made = sent /\ ~(Len(sent) < Len(made))
      BY <1>1, <1>5 DEF SseInv
    <2>2. UNCHANGED <<made, sent, beats>> /\ end' \in {"finished", "failed"}
      BY <1>5 DEF Handle, Teardown
    <2> QED BY <1>1, <2>1, <2>2 DEF Stream!Finish, Stream!Fail
  <1> QED BY <1>3, <1>4, <1>5

LEMMA StreamStep ==
    ASSUME SseInv, [SseNext]_sseVars
    PROVE  [Stream!StreamNext]_(Stream!streamVars)
  <1> USE DEF Stream!streamVars, Stream!StreamNext
  <1>1. CASE Subscribe
    <2>1. made = <<>> /\ sent = <<>> /\ end = "open" /\ UNCHANGED <<made, sent, beats>>
      BY <1>1 DEF Subscribe, SseInv, SseTypeOK, EndState
    <2>2. end' \in {"open", "failed"}
      BY <1>1, <2>1 DEF Subscribe, Teardown
    <2> QED BY <2>1, <2>2 DEF Stream!Fail, Stream!Waiting
  <1>2. CASE Yield
    BY <1>2 DEF Yield, Stream!Make
  <1>3. CASE SourceEnds \/ Finalized
    BY <1>3 DEF SourceEnds, Finalized
  <1>4. CASE Resume
    <2>1. CASE cancelled
      BY <1>4, <2>1 DEF Resume
    <2>2. CASE ~cancelled
      BY <1>4, <2>2, HandleSends DEF Resume
    <2> QED BY <2>1, <2>2
  <1>5. CASE Tick
    <2>1. ~cancelled /\ end = "open"
      BY <1>5 DEF Tick, SseInv, SseTypeOK, NoLeak, EndState
    <2> QED BY <1>5, <2>1 DEF Tick, Teardown, Stream!Beat
  <1>6. CASE Disconnect \/ DisconnectEarly
    <2>1. end = "open"
      BY <1>6 DEF Disconnect, DisconnectEarly, SseInv, SseTypeOK, EndState
    <2> QED BY <1>6, <2>1 DEF Disconnect, DisconnectEarly, Teardown, Stream!Leave
  <1>7. CASE UNCHANGED sseVars
    BY <1>7 DEF sseVars
  <1> QED BY <1>1, <1>2, <1>3, <1>4, <1>5, <1>6, <1>7 DEF SseNext

\* The client gets the events in order, none skipped or refused by its transforms, and
\* nothing after the end (sse-interceptor.ts:71-122).
THEOREM BridgeImplementsStream == SseSpec => ImplementsStream
  BY SseInvariant, StreamInitial, StreamStep, PTL
     DEF SseSpec, ImplementsStream, Stream!StreamSpec
=============================================================================
