----------------------------- MODULE SseStream -----------------------------
(***************************************************************************)
(* What a client of an @EventStream() route sees: the events the handler   *)
(* makes, in order and none left out, those the route's types refuse       *)
(* excepted; heartbeats in between; and at most one end, by the source, by *)
(* an error frame or by the client, after which nothing more is sent.      *)
(***************************************************************************)
EXTENDS Naturals, Sequences

CONSTANTS Events,    \* what the handler may yield
          Refused,   \* those that do not pass the validation of the route
          MaxEvents, \* bound on the events of one stream
          MaxBeats   \* bound on the heartbeats of one stream

VARIABLES made,   \* the events the handler has yielded
          sent,   \* the events sent to the client
          beats,  \* heartbeats sent
          end     \* "open", or how the stream ended

streamVars == <<made, sent, beats, end>>

StreamInit == made = <<>> /\ sent = <<>> /\ beats = 0 /\ end = "open"

\* The handler goes on, whether the client is still there or not.
Make ==
    /\ Len(made) < MaxEvents
    /\ \E e \in Events : made' = Append(made, e)
    /\ UNCHANGED <<sent, beats, end>>

Beat ==
    /\ end = "open"
    /\ beats < MaxBeats
    /\ beats' = beats + 1
    /\ end' \in {"open", "left"}
    /\ UNCHANGED <<made, sent>>

Waiting == Len(sent) < Len(made)

\* The next event is sent; the client may leave, or the source fail, at once.
Send ==
    /\ end = "open"
    /\ Waiting
    /\ made[Len(sent) + 1] \notin Refused
    /\ sent' = Append(sent, made[Len(sent) + 1])
    /\ end' \in {"open", "left", "failed"}
    /\ UNCHANGED <<made, beats>>

\* The source is done, and every event has been sent.
Finish ==
    /\ end = "open"
    /\ ~Waiting
    /\ end' = "finished"
    /\ UNCHANGED <<made, sent, beats>>

\* The source throws when every event has been sent, or the next event is refused.
Fail ==
    /\ end = "open"
    /\ Waiting => made[Len(sent) + 1] \in Refused
    /\ end' = "failed"
    /\ UNCHANGED <<made, sent, beats>>

Leave ==
    /\ end = "open"
    /\ end' = "left"
    /\ UNCHANGED <<made, sent, beats>>

StreamNext == Make \/ Beat \/ Send \/ Finish \/ Fail \/ Leave

StreamSpec == StreamInit /\ [][StreamNext]_streamVars
=============================================================================
