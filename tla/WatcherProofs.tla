--------------------------- MODULE WatcherProofs ---------------------------
(***************************************************************************)
(* Proofs about Watcher, for every set of files and any number of edits    *)
(* and timers: the events handed over and pending explain the snapshot,    *)
(* and pending events always have a timer that will hand them over.        *)
(***************************************************************************)
EXTENDS Watcher, TLAPS

WatcherIInv == WatcherInv /\ NoStuckEvents /\ EventsExplainSnapshot

\* An event that fits the file's existence extends a legal sequence.
LEMMA LegalAppend ==
    ASSUME NEW exists \in BOOLEAN, NEW ops \in Seq(Ops), NEW op \in Ops,
           Legal(exists, ops),
           IF After(exists, ops) THEN op \in {"write", "remove"} ELSE op = "create"
    PROVE  /\ Legal(exists, ops \o <<op>>)
           /\ After(exists, ops \o <<op>>) = (op # "remove")
  <1> DEFINE all == ops \o <<op>>
  <1>1. /\ all \in Seq(Ops) /\ Len(all) = Len(ops) + 1
        /\ all[Len(ops) + 1] = op
        /\ \A i \in 1 .. Len(ops) : all[i] = ops[i]
    OBVIOUS
  <1>2. Len(ops) \in Nat /\ (ops = <<>> <=> Len(ops) = 0)
    OBVIOUS
  <1> HIDE DEF all
  <1>3. After(exists, all) = (op # "remove")
    BY <1>1, <1>2 DEF After
  <1>4. ASSUME NEW i \in 1 .. Len(all)
        PROVE  LET before == IF i = 1 THEN exists ELSE all[i - 1] # "remove"
               IN  IF before THEN all[i] \in {"write", "remove"} ELSE all[i] = "create"
    <2>1. CASE i <= Len(ops)
      <3>1. all[i] = ops[i] /\ (i # 1 => all[i - 1] = ops[i - 1])
        BY <1>1, <1>2, <2>1
      <3> QED
        BY <1>2, <2>1, <3>1 DEF Legal
    <2>2. CASE i = Len(ops) + 1
      <3>1. all[i] = op /\ (i # 1 => all[i - 1] = ops[Len(ops)])
        BY <1>1, <1>2, <2>2
      <3>2. After(exists, ops) = (IF i = 1 THEN exists ELSE all[i - 1] # "remove")
        BY <1>2, <2>2, <3>1 DEF After
      <3> QED
        BY <3>1, <3>2
    <2> QED
      BY <1>1, <1>2, <2>1, <2>2
  <1>5. Legal(exists, all)
    BY <1>4 DEF Legal
  <1> QED
    BY <1>3, <1>5 DEF all

\* The events of a file are none or one that fits its existence in snapshot.
LEMMA EventsFit ==
    ASSUME WatcherTypeOK, NEW f \in Files
    PROVE  /\ Events \in [Files -> Seq(Ops)]
           /\ \/ Events[f] = <<>> /\ new[f] = snapshot[f]
              \/ \E op \in Ops :
                    /\ Events[f] = <<op>>
                    /\ IF snapshot[f] # Absent THEN op \in {"write", "remove"}
                                               ELSE op = "create"
                    /\ (op # "remove") = (new[f] # Absent)
  <1>1. <<>> \in Seq(Ops) /\ \A op \in Ops : <<op>> \in Seq(Ops)
    OBVIOUS
  <1>2. "create" \in Ops /\ "write" \in Ops /\ "remove" \in Ops
    BY DEF Ops
  <1>3. Events \in [Files -> Seq(Ops)]
    BY <1>1, <1>2 DEF Events
  <1>4. CASE new[f] = snapshot[f]
    BY <1>3, <1>4 DEF Events
  <1>5. CASE new[f] # snapshot[f] /\ new[f] = Absent
    <2>1. Events[f] = <<"remove">>
      BY <1>5 DEF Events
    <2> QED
      BY <1>2, <1>3, <1>5, <2>1
  <1>6. CASE new[f] # snapshot[f] /\ new[f] # Absent /\ snapshot[f] = Absent
    <2>1. Events[f] = <<"create">>
      BY <1>6 DEF Events
    <2> QED
      BY <1>2, <1>3, <1>6, <2>1
  <1>7. CASE new[f] # snapshot[f] /\ new[f] # Absent /\ snapshot[f] # Absent
    <2>1. Events[f] = <<"write">>
      BY <1>7 DEF Events
    <2> QED
      BY <1>2, <1>3, <1>7, <2>1
  <1> QED
    BY <1>4, <1>5, <1>6, <1>7

LEMMA NoEventsType == NoEvents \in [Files -> Seq(Ops)]
  BY DEF NoEvents

LEMMA AppendType ==
    ASSUME WatcherTypeOK
    PROVE  AppendEvents \in [Files -> Seq(Ops)]
  <1> SUFFICES ASSUME NEW f \in Files PROVE pending[f] \o Events[f] \in Seq(Ops)
    BY DEF AppendEvents
  <1>1. pending[f] \in Seq(Ops) /\ Events[f] \in Seq(Ops)
    BY EventsFit DEF WatcherTypeOK
  <1> QED
    BY <1>1

LEMMA AfterType ==
    ASSUME NEW exists \in BOOLEAN, NEW ops \in Seq(Ops)
    PROVE  After(exists, ops) \in BOOLEAN
  BY DEF After

LEMMA WatcherStart == WatcherInit => WatcherIInv
  <1> SUFFICES ASSUME WatcherInit PROVE WatcherIInv
    OBVIOUS
  <1>1. WatcherTypeOK
    <2> USE WatcherAssumption DEF WatcherInit
    <2>1. Absent \in Stamps /\ 1 \in Stamps
      BY DEF Absent, Stamps
    <2>2. /\ disk \in [Files -> Stamps]
          /\ snapshot \in [Files -> Stamps] /\ new \in [Files -> Stamps]
      BY <2>1
    <2>3. /\ pending \in [Files -> Seq(Ops)]
          /\ batch \in [Timers -> [Files -> Seq(Ops)]]
      BY NoEventsType
    <2>4. edits \in 0 .. MaxEdits /\ timers \in 0 .. MaxTimers
      OBVIOUS
    <2>5. poll \in PollState /\ cb \in [Timers -> TimerState]
      BY DEF PollState, TimerState
    <2>6. unwalked \subseteq Files /\ stopCh \in BOOLEAN /\ told \in [Files -> BOOLEAN]
      OBVIOUS
    <2> QED
      BY <2>2, <2>3, <2>4, <2>5, <2>6 DEF WatcherTypeOK
  <1>2. WatcherInv
    BY <1>1, WatcherAssumption DEF WatcherInit, WatcherInv, Timers
  <1>3. NoStuckEvents /\ EventsExplainSnapshot
    BY DEF WatcherInit, NoStuckEvents, EventsExplainSnapshot
  <1> QED
    BY <1>2, <1>3 DEF WatcherIInv

LEMMA WatcherStep ==
    ASSUME WatcherIInv, [WatcherNext]_watchVars
    PROVE  WatcherIInv'
  <1> USE WatcherAssumption, NoEventsType
      DEF WatcherIInv, WatcherInv, WatcherTypeOK, NoStuckEvents, EventsExplainSnapshot,
          Stamps, Absent, Timers, PollState, TimerState, diskVars, walkVars, eventVars
  <1>1. ASSUME NEW f \in Files, Write(f) PROVE WatcherIInv'
    BY <1>1 DEF Write
  <1>2. ASSUME NEW f \in Files, Remove(f) PROVE WatcherIInv'
    BY <1>2 DEF Remove
  <1>3. ASSUME NEW f \in Files, WalkFile(f) PROVE WatcherIInv'
    BY <1>3 DEF WalkFile
  <1>4. CASE FirstSnapshot
    BY <1>4 DEF FirstSnapshot, Legal, After, NoEvents
  <1>5. CASE Tick
    BY <1>5 DEF Tick
  <1>6. CASE Report
    <2>1. CASE Events = NoEvents
      <3>1. \A f \in Files : Events[f] = <<>>
        BY <2>1 DEF NoEvents
      <3>2. ASSUME NEW f \in Files PROVE new[f] = snapshot[f]
        <4>1. \A op : <<op>> # <<>>
          OBVIOUS
        <4>2. \A op \in Ops : Events[f] # <<op>>
          BY <3>1, <4>1
        <4> QED
          BY <4>2, EventsFit
      <3> QED
        BY <1>6, <2>1, <3>2 DEF Report
    <2>2. CASE Events # NoEvents
      <3>1. /\ timers < MaxTimers /\ timers' = timers + 1 /\ pending' = AppendEvents
            /\ cb' = SetTimer /\ snapshot' = new /\ poll = "walk" /\ poll' = "select"
            /\ UNCHANGED <<diskVars, unwalked, new, batch, told, stopCh>>
        BY <1>6, <2>2 DEF Report
      <3>2. WatcherTypeOK'
        <4>1. cb' \in [Timers -> TimerState]
          BY <3>1 DEF SetTimer
        <4> QED
          BY <3>1, <4>1, AppendType
      <3>3. cb'[timers + 1] = "armed"
        BY <3>1 DEF SetTimer
      <3>4. \A c \in Timers : (cb'[c] = "none" <=> c > timers') /\ (cb'[c] = "armed" => c = timers')
        BY <3>1 DEF SetTimer
      <3>5. ASSUME NEW f \in Files
            PROVE  /\ Legal(told[f], AppendEvents[f])
                   /\ After(told[f], AppendEvents[f]) = (new[f] # Absent)
        <4>1. /\ told[f] \in BOOLEAN /\ pending[f] \in Seq(Ops)
              /\ Legal(told[f], pending[f])
              /\ After(told[f], pending[f]) = (snapshot[f] # Absent)
          BY <3>1
        <4>2. AppendEvents[f] = pending[f] \o Events[f]
          BY DEF AppendEvents
        <4>3. CASE Events[f] = <<>> /\ new[f] = snapshot[f]
          BY <4>1, <4>2, <4>3
        <4>4. ASSUME NEW op \in Ops, Events[f] = <<op>>,
                     IF snapshot[f] # Absent THEN op \in {"write", "remove"} ELSE op = "create",
                     (op # "remove") = (new[f] # Absent)
              PROVE  /\ Legal(told[f], AppendEvents[f])
                     /\ After(told[f], AppendEvents[f]) = (new[f] # Absent)
          <5>1. IF After(told[f], pending[f]) THEN op \in {"write", "remove"}
                                             ELSE op = "create"
            BY <4>1, <4>4
          <5>2. /\ Legal(told[f], pending[f] \o <<op>>)
                /\ After(told[f], pending[f] \o <<op>>) = (op # "remove")
            BY <4>1, <5>1, LegalAppend
          <5> QED
            BY <4>2, <4>4, <5>2
        <4>5. CASE \E op \in Ops :
                      /\ Events[f] = <<op>>
                      /\ IF snapshot[f] # Absent THEN op \in {"write", "remove"} ELSE op = "create"
                      /\ (op # "remove") = (new[f] # Absent)
          BY <4>4, <4>5
        <4>6. WatcherTypeOK
          BY <3>1
        <4> QED
          BY <4>3, <4>5, <4>6, EventsFit
      <3>6. WatcherInv'
        BY <3>1, <3>2, <3>4
      <3>7. NoStuckEvents'
        <4>1. timers + 1 \in Timers
          BY <3>1
        <4> QED
          BY <3>3, <4>1
      <3>8. EventsExplainSnapshot'
        BY <3>1, <3>5
      <3> QED
        BY <3>6, <3>7, <3>8
    <2> QED
      BY <2>1, <2>2
  <1>7. CASE WatchReturns
    BY <1>7 DEF WatchReturns
  <1>8. CASE Stop
    BY <1>8 DEF Stop
  <1>9. ASSUME NEW c \in Timers, Fire(c) PROVE WatcherIInv'
    BY <1>9 DEF Fire, SetCb
  <1>10. ASSUME NEW c \in Timers, Take(c) PROVE WatcherIInv'
    <2>1. /\ cb[c] = "fired" /\ pending' = NoEvents
          /\ batch' = [batch EXCEPT ![c] = pending]
          /\ told' = [f \in Files |-> After(told[f], pending[f])]
          /\ cb' = [cb EXCEPT ![c] = IF pending # NoEvents THEN "calling" ELSE "done"]
          /\ UNCHANGED <<diskVars, walkVars, snapshot, timers, stopCh>>
      BY <1>10 DEF Take, SetCb
    <2>2. told' \in [Files -> BOOLEAN]
      BY <2>1, AfterType
    <2>3. poll # "first"
      BY <2>1
    <2>4. ASSUME NEW f \in Files
          PROVE  Legal(told'[f], <<>>) /\ After(told'[f], <<>>) = (snapshot[f] # Absent)
      BY <2>1, <2>2, <2>3 DEF Legal, After
    <2> QED
      BY <2>1, <2>2, <2>3, <2>4 DEF NoEvents
  <1>11. ASSUME NEW c \in Timers, CallbackReturns(c) PROVE WatcherIInv'
    BY <1>11 DEF CallbackReturns, SetCb
  <1>12. CASE UNCHANGED watchVars
    BY <1>12 DEF watchVars
  <1> QED
    BY <1>1, <1>2, <1>3, <1>4, <1>5, <1>6, <1>7, <1>8, <1>9, <1>10, <1>11, <1>12
    DEF WatcherNext, Polling, Callback

THEOREM WatcherInvariant == WatcherSpec => []WatcherIInv
  BY WatcherStart, WatcherStep, PTL DEF WatcherSpec

\* The timers are set one after the other and only the newest can be armed
\* (watcher.go:71-73).
THEOREM TimersInOrder == WatcherSpec => []WatcherInv
  BY WatcherInvariant, PTL DEF WatcherIInv

\* Pending events always have a timer that will hand them over (watcher.go:70-83).
THEOREM EventsNeverStuck == WatcherSpec => []NoStuckEvents
  BY WatcherInvariant, PTL DEF WatcherIInv

\* The events taken and pending tell how the first snapshot became the current one
\* (watcher.go:62-84).
THEOREM EventsExplain == WatcherSpec => []EventsExplainSnapshot
  BY WatcherInvariant, PTL DEF WatcherIInv
=============================================================================
