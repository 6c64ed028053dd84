-------------------------- MODULE AgentEventsProofs --------------------------
(***************************************************************************)
(* Proofs about the threads of an agent and their events, for any number   *)
(* of neighbours, messages, calls, key changes and probe requests.         *)
(***************************************************************************)
EXTENDS AgentEvents, TLAPS

Kind == {"none", "data", "uni", "ruk", "nuk", "kcm"}
Call == [kind : Kind, to : Nbr \cup {Bcast}, ret : Label]

\* What the waiting and sending of a thread changes, and its types.
ThreadsOK ==
    /\ pc \in [Thread -> Label]
    /\ todo \in [Thread -> Seq(Event)]
    /\ call \in [Thread -> Call]

\* The kcm is sent after the first change of keys: the key it is encrypted
\* with exists.
KcmKey == \A t \in Thread : call[t].kind = "kcm" => key > 0

\* Setting events leaves each of them set or cleared.
LEMMA SetType ==
    ASSUME TypeOK, NEW E, Set(E)
    PROVE  ev' \in [Event -> BOOLEAN]
<1>1. ev \in [Event -> BOOLEAN]
  BY DEF TypeOK
<1>2. \A e \in Event : (ev[e] \/ e \in E) \in BOOLEAN
  OBVIOUS
<1> QED
  BY <1>2, Zenon DEF Set

\* So does clearing one.
LEMMA ClearType ==
    ASSUME TypeOK, NEW e \in Event, Clear(e)
    PROVE  ev' \in [Event -> BOOLEAN]
BY DEF TypeOK, Clear

\* A thread that goes on is at a label, with events to wait for.
LEMMA GoType ==
    ASSUME TypeOK, NEW t \in Thread, NEW label \in Label, NEW waits \in Seq(Event),
           Go(t, label, waits)
    PROVE  /\ pc' \in [Thread -> Label]
           /\ todo' \in [Thread -> Seq(Event)]
BY DEF TypeOK, Go

\* The lists of events that the threads wait for.
LEMMA WaitLists ==
    /\ <<>> \in Seq(Event)
    /\ Update \in Seq(Event)
    /\ <<"ProbeRequest", "ChangeKeys", "UserCtrl">> \in Seq(Event)
    /\ <<"ProbeRequest", "ChangeKeys", "UserSpace">> \in Seq(Event)
    /\ <<"ProbeRequest", "ChangeKeys", "NeighborUpdate">> \in Seq(Event)
    /\ <<"UserSpace", "UserCtrl", "ProbeRequest">> \in Seq(Event)
    /\ <<"ProbeRequest", "UserSpace", "UserCtrl", "NeighborMessage">> \in Seq(Event)
    /\ <<"ChangeKeys", "NeighborUpdate", "UserSpace", "UserCtrl">> \in Seq(Event)
    /\ <<"UserSpace", "UserCtrl", "ProbeRequest", "ChangeKeys", "NeighborMessage">>
          \in Seq(Event)
BY DEF Event, Update

\* A call of sendToInternal or sendCtrlToNeighbors.
LEMMA SendType ==
    ASSUME TypeOK, NEW t \in Thread, NEW kind \in Kind, NEW to \in Nbr \cup {Bcast},
           NEW ret \in Label, Send(t, kind, to, ret)
    PROVE  ThreadsOK'
<1>1. [kind |-> kind, to |-> to, ret |-> ret] \in Call
  BY DEF Call
<1>2. call' \in [Thread -> Call]
  BY <1>1 DEF TypeOK, Send, Call, Kind
<1>3. "data" \in Label /\ "ctrl" \in Label
  BY DEF Label
<1>4. CASE kind \in {"data", "uni"}
  <2>1. Go(t, "data", <<"ProbeRequest", "ChangeKeys", "UserCtrl">>)
    BY <1>4 DEF Send
  <2> QED
    BY <1>2, <1>3, <2>1, GoType, WaitLists DEF ThreadsOK
<1>5. CASE kind \notin {"data", "uni"}
  <2>1. Go(t, "ctrl", <<"ProbeRequest", "ChangeKeys", "UserSpace">>)
    BY <1>5 DEF Send
  <2> QED
    BY <1>2, <1>3, <2>1, GoType, WaitLists DEF ThreadsOK
<1> QED
  BY <1>4, <1>5

\* Its return.
LEMMA ReturnType ==
    ASSUME TypeOK, NEW t \in Thread, Return(t)
    PROVE  ThreadsOK'
<1>1. NoCall \in Call
  BY DEF NoCall, Call, Kind, Label
<1>2. call' \in [Thread -> Call]
  BY <1>1 DEF TypeOK, Return, Call, Kind
<1>3. call[t].ret \in Label
  BY DEF TypeOK
<1>4. PICK waits \in Seq(Event) : Go(t, call[t].ret, waits)
  BY WaitLists DEF Return
<1> QED
  BY <1>2, <1>3, <1>4, GoType DEF ThreadsOK

\* Clearing an event, and going on.
LEMMA ClearAtType ==
    ASSUME TypeOK, NEW t \in Thread, NEW at, NEW e \in Event, NEW label \in Label,
           ClearAt(t, at, e, label)
    PROVE  TypeOK'
<1>1. ev' \in [Event -> BOOLEAN]
  BY ClearType DEF ClearAt
<1>2. pc' \in [Thread -> Label] /\ todo' \in [Thread -> Seq(Event)]
  BY GoType, WaitLists DEF ClearAt
<1> QED
  BY <1>1, <1>2 DEF TypeOK, ClearAt, listVars, keyVars, OwnMessage, NbrMessage

\* The waiting and sending steps, which every thread takes.
LEMMA CommonType ==
    ASSUME TypeOK, KcmKey, NEW t \in Thread,
           Wait(t) \/ SendClear(t) \/ Flood(t) \/ FloodUnknown(t)
    PROVE  TypeOK'
<1>1. CASE Wait(t)
  <2>1. todo[t] \in Seq(Event) /\ todo[t] # <<>>
    BY <1>1 DEF TypeOK, Wait
  <2>2. Tail(todo[t]) \in Seq(Event)
    BY <2>1
  <2>3. todo' \in [Thread -> Seq(Event)]
    BY <1>1, <2>2 DEF TypeOK, Wait
  <2> QED
    BY <1>1, <2>3, Zenon DEF TypeOK, Wait, listVars, keyVars
<1>2. CASE SendClear(t)
  BY <1>2, ClearAtType DEF SendClear, Event, Label
<1>3. CASE FloodUnknown(t)
  <2>1. ThreadsOK' /\ ev' \in [Event -> BOOLEAN]
    BY <1>3, ReturnType, SetType DEF FloodUnknown
  <2> QED
    BY <1>3, <2>1, Zenon DEF TypeOK, FloodUnknown, ThreadsOK, Call, Kind, listVars, keyVars
<1>4. CASE Flood(t)
  <2> DEFINE k == IF call[t].kind = "kcm" THEN key - 1 ELSE key
             m == [kind |-> IF call[t].kind = "kcm" THEN "kcm" ELSE "data", key |-> k]
  <2>1. k \in Nat
    BY DEF TypeOK, KcmKey
  <2>2. m \in OwnMessage
    BY <2>1 DEF OwnMessage
  <2>3. snd' = Append(snd, m)
    BY <1>4 DEF Flood
  <2>4. snd' \in Seq(OwnMessage)
    BY <2>2, <2>3 DEF TypeOK
  <2>5. old_key' \in Nat
    BY <1>4, <2>1 DEF TypeOK, Flood
  <2>6. ThreadsOK'
    BY <1>4, ReturnType DEF Flood
  <2> QED
    BY <1>4, <2>4, <2>5, <2>6, Zenon DEF TypeOK, Flood, ThreadsOK, Call, Kind, listVars
<1> QED
  BY <1>1, <1>2, <1>3, <1>4

\* rescan_neighbor
LEMMA RescanType ==
    ASSUME TypeOK, NEW t \in Thread, Rescan(t)
    PROVE  /\ ev' \in [Event -> BOOLEAN]
           /\ globalNeighborList' \in SUBSET Nbr
           /\ pc' \in [Thread -> Label] /\ todo' \in [Thread -> Seq(Event)]
<1>1. "home" \in Label /\ "dead" \in Label
  BY DEF Label
<1>2. globalNeighborList' \in SUBSET Nbr
  BY DEF TypeOK, Rescan, onAPLeft
<1>3. ev' \in [Event -> BOOLEAN]
  BY SetType, Zenon DEF TypeOK, Rescan
<1>4. Go(t, "home", <<>>) \/ Go(t, "dead", <<>>)
  BY DEF Rescan
<1> QED
  BY <1>1, <1>2, <1>3, <1>4, GoType, WaitLists, Zenon

\* The steps of the forwarder.
LEMMA ForwarderType ==
    ASSUME TypeOK, Forwarder
    PROVE  TypeOK'
<1>0. /\ "fwd" \in Thread
      /\ {"home", "own", "nbrRun", "retry", "retryRun", "rescan", "rescanRun", "dead"}
            \subseteq Label
      /\ {"NeighborMessage", "NeighborUpdate"} \subseteq Event
  BY DEF Thread, Label, Event
<1>1. CASE FwdTakeOwn
  <2>1. snd \in Seq(OwnMessage) /\ snd # <<>>
    BY <1>1 DEF TypeOK, FwdTakeOwn
  <2>2. Head(snd) \in OwnMessage /\ Tail(snd) \in Seq(OwnMessage)
    BY <2>1
  <2>3. hand' \in [good : BOOLEAN, kind : {"data", "kcm", "ruk"}, key : Nat]
    BY <1>1, <2>2 DEF FwdTakeOwn, OwnMessage
  <2>4. pc' \in [Thread -> Label] /\ todo' \in [Thread -> Seq(Event)]
    BY <1>0, <1>1, GoType, WaitLists, Zenon DEF FwdTakeOwn
  <2> QED
    BY <1>1, <2>2, <2>3, <2>4, Zenon DEF TypeOK, FwdTakeOwn, listVars, keyVars
<1>2. CASE FwdOwnPublish \/ FwdOwnDrop
  <2>1. ev' \in [Event -> BOOLEAN]
    BY <1>2, SetType DEF FwdOwnPublish, FwdOwnDrop
  <2>2. pc' \in [Thread -> Label] /\ todo' \in [Thread -> Seq(Event)]
    BY <1>0, <1>2, GoType, WaitLists DEF FwdOwnPublish, FwdOwnDrop
  <2> QED
    BY <1>2, <2>1, <2>2, Zenon DEF TypeOK, FwdOwnPublish, FwdOwnDrop, listVars, keyVars
<1>3. CASE \/ ClearAt("fwd", "nbr", "NeighborMessage", "nbrRun")
           \/ ClearAt("fwd", "retry", "NeighborMessage", "retryRun")
           \/ ClearAt("fwd", "rescan", "NeighborUpdate", "rescanRun")
  BY <1>0, <1>3, ClearAtType
<1>4. CASE FwdUnknown
  <2>1. pc' \in [Thread -> Label] /\ todo' \in [Thread -> Seq(Event)]
    BY <1>0, <1>4, GoType, WaitLists DEF FwdUnknown
  <2> QED
    BY <1>4, <2>1, Zenon DEF TypeOK, FwdUnknown, listVars, keyVars
<1>5. CASE FwdPublish
  <2> DEFINE m == [kind |-> hand.kind, from |-> peer["fwd"], key |-> key]
  <2>1. m \in NbrMessage
    BY <1>0 DEF TypeOK, NbrMessage
  <2>2. rx' = Append(rx, m) /\ rx \in Seq(NbrMessage)
    BY <1>5 DEF TypeOK, FwdPublish
  <2>3. rx' \in Seq(NbrMessage)
    BY <2>1, <2>2
  <2>4. lostMessages' \in [Nbr -> Nat]
    BY <1>5 DEF TypeOK, FwdPublish
  <2>5. pc' \in [Thread -> Label] /\ todo' \in [Thread -> Seq(Event)]
    BY <1>0, <1>5, GoType, WaitLists DEF FwdPublish
  <2> QED
    BY <1>5, <2>3, <2>4, <2>5, Zenon DEF TypeOK, FwdPublish, keyVars
<1>6. CASE FwdPause
  <2>1. ev' \in [Event -> BOOLEAN]
    BY <1>6, SetType DEF FwdPause
  <2>2. pc' \in [Thread -> Label] /\ todo' \in [Thread -> Seq(Event)]
    BY <1>0, <1>6, GoType, WaitLists DEF FwdPause
  <2> QED
    BY <1>6, <2>1, <2>2, Zenon DEF TypeOK, FwdPause, listVars, keyVars
<1>7. CASE FwdRetry
  <2>1. ev' \in [Event -> BOOLEAN]
    <3>1. \/ UNCHANGED ev
          \/ Set({"NeighborMessage"} \cup LeftEvents)
          \/ Set({"NeighborMessage"})
      BY <1>7 DEF FwdRetry
    <3> QED
      BY <3>1, SetType, Zenon DEF TypeOK
  <2>2. \/ Go("fwd", "dead", <<>>)
        \/ Go("fwd", "rescan", Update)
        \/ Go("fwd", "home", <<>>)
    BY <1>7 DEF FwdRetry
  <2>3. pc' \in [Thread -> Label] /\ todo' \in [Thread -> Seq(Event)]
    BY <1>0, <2>2, GoType, WaitLists
  <2>4. lostMessages[peer["fwd"]] + 1 \in Nat
    BY <1>0 DEF TypeOK
  <2>5. PICK lost \in Nat : \/ UNCHANGED lostMessages
                            \/ lostMessages' = [lostMessages EXCEPT ![peer["fwd"]] = lost]
    <3>1. CASE peer["fwd"] \notin globalNeighborList
      BY <1>7, <3>1 DEF FwdRetry, listVars
    <3>2. CASE peer["fwd"] \in globalNeighborList
      BY <1>7, <2>4, <3>2 DEF FwdRetry
    <3> QED
      BY <3>1, <3>2
  <2>7. lostMessages' \in [Nbr -> Nat]
    BY <2>5 DEF TypeOK
  <2>6. globalNeighborList' \in SUBSET Nbr
    BY <1>7 DEF TypeOK, FwdRetry, onAPLeft, listVars
  <2> QED
    BY <1>7, <2>1, <2>3, <2>6, <2>7, Zenon DEF TypeOK, FwdRetry, keyVars
<1>8. CASE FwdRescan
  <2>1. Rescan("fwd")
    BY <1>8 DEF FwdRescan
  <2> QED
    BY <1>0, <1>8, <2>1, RescanType, Zenon DEF TypeOK, FwdRescan, keyVars
<1> QED
  BY <1>1, <1>2, <1>3, <1>4, <1>5, <1>6, <1>7, <1>8 DEF Forwarder

\* The steps of the receive thread.
LEMMA ReceiverType ==
    ASSUME TypeOK, Receiver
    PROVE  TypeOK'
<1>0. /\ "rx" \in Thread
      /\ {"home", "kcm", "kcmRun", "kcmScan"} \subseteq Label
      /\ "NeighborUpdate" \in Event
  BY DEF Thread, Label, Event
<1>1. CASE RxSkip
  <2>1. rx \in Seq(NbrMessage) /\ rx # <<>>
    BY <1>1 DEF TypeOK, RxSkip
  <2>2. Tail(rx) \in Seq(NbrMessage)
    BY <2>1
  <2> QED
    BY <1>1, <2>2, Zenon DEF TypeOK, RxSkip, threadVars, listVars, keyVars
<1>2. CASE RxTake
  <2> DEFINE m == Head(rx)
  <2>1. rx \in Seq(NbrMessage) /\ rx # <<>>
    BY <1>2 DEF TypeOK, RxTake
  <2>2. m \in NbrMessage /\ Tail(rx) \in Seq(NbrMessage)
    BY <2>1
  <2>3. m.from \in Nbr
    BY <2>2 DEF NbrMessage
  <2>4. ev' \in [Event -> BOOLEAN]
    BY <1>2, SetType DEF RxTake
  <2>5. peer' \in [Thread -> Nbr]
    BY <1>0, <1>2, <2>3 DEF TypeOK, RxTake
  <2>6. ThreadsOK'
    <3>0. ThreadsOK
      BY DEF TypeOK, ThreadsOK, Call, Kind
    <3>1. CASE m.kind = "kcm"
      <4>1. /\ Go("rx", "kcm", <<"UserSpace", "UserCtrl", "ProbeRequest",
                                 "ChangeKeys", "NeighborMessage">>)
            /\ UNCHANGED call
        BY <1>2, <3>1 DEF RxTake
      <4> QED
        BY <1>0, <3>0, <4>1, GoType, WaitLists DEF ThreadsOK
    <3>2. CASE m.kind = "ruk" /\ m.from \in globalNeighborList
      <4>1. Send("rx", "nuk", m.from, "home")
        BY <1>2, <3>2 DEF RxTake
      <4>2. "nuk" \in Kind
        BY DEF Kind
      <4> QED
        BY <1>0, <2>3, <4>1, <4>2, SendType
    <3>3. CASE m.kind # "kcm" /\ ~(m.kind = "ruk" /\ m.from \in globalNeighborList)
      <4>1. UNCHANGED <<pc, todo, call>>
        BY <1>2, <3>3 DEF RxTake
      <4> QED
        BY <3>0, <4>1, Zenon DEF ThreadsOK
    <3> QED
      BY <3>1, <3>2, <3>3
  <2>7. rx' = Tail(rx)
    BY <1>2 DEF RxTake
  <2> QED
    BY <1>2, <2>2, <2>4, <2>5, <2>6, <2>7, Zenon
      DEF TypeOK, RxTake, ThreadsOK, Call, Kind, listVars, keyVars
<1>3. CASE ClearAt("rx", "kcm", "NeighborUpdate", "kcmRun")
  BY <1>0, <1>3, ClearAtType
<1>4. CASE RxKcm
  <2>1. ev' \in [Event -> BOOLEAN]
    BY <1>4, SetType, Zenon DEF TypeOK, RxKcm
  <2>2. Go("rx", "kcmScan", <<>>) \/ Go("rx", "home", <<>>)
    BY <1>4 DEF RxKcm
  <2>3. pc' \in [Thread -> Label] /\ todo' \in [Thread -> Seq(Event)]
    BY <1>0, <2>2, GoType, WaitLists
  <2> QED
    BY <1>4, <2>1, <2>3, Zenon DEF TypeOK, RxKcm, listVars, keyVars
<1>5. CASE RxRescan
  <2>1. Rescan("rx")
    BY <1>5 DEF RxRescan
  <2> QED
    BY <1>0, <1>5, <2>1, RescanType, Zenon DEF TypeOK, RxRescan, keyVars
<1> QED
  BY <1>1, <1>2, <1>3, <1>4, <1>5 DEF Receiver

\* The steps of the key change thread.
LEMMA KeyChangerType ==
    ASSUME TypeOK, KeyChanger
    PROVE  TypeOK'
<1>0. /\ "keys" \in Thread
      /\ {"home", "newKey", "validate", "expire", "dead"} \subseteq Label
      /\ {"ChangeKeys", "NeighborUpdate"} \subseteq Event
      /\ "kcm" \in Kind
  BY DEF Thread, Label, Event, Kind
<1>1. CASE \/ ClearAt("keys", "rotate", "ChangeKeys", "newKey")
           \/ ClearAt("keys", "validate", "NeighborUpdate", "expire")
  BY <1>0, <1>1, ClearAtType
<1>2. CASE KeysRotate
  <2>1. ev' \in [Event -> BOOLEAN]
    BY <1>2, SetType DEF KeysRotate
  <2>2. ThreadsOK'
    BY <1>0, <1>2, SendType DEF KeysRotate
  <2>3. key' \in Nat
    BY <1>2 DEF TypeOK, KeysRotate
  <2> QED
    BY <1>2, <2>1, <2>2, <2>3, Zenon DEF TypeOK, KeysRotate, ThreadsOK, Call, Kind, listVars
<1>3. CASE KeysExpire
  <2>1. ev' \in [Event -> BOOLEAN]
    BY <1>3, SetType, Zenon DEF TypeOK, KeysExpire
  <2>2. globalNeighborList' \in SUBSET Nbr
    BY <1>3 DEF TypeOK, KeysExpire, onAPLeft
  <2>3. Go("keys", "home", <<>>) \/ Go("keys", "dead", <<>>)
    BY <1>3 DEF KeysExpire
  <2>4. pc' \in [Thread -> Label] /\ todo' \in [Thread -> Seq(Event)]
    BY <1>0, <2>3, GoType, WaitLists
  <2> QED
    BY <1>3, <2>1, <2>2, <2>4, Zenon DEF TypeOK, KeysExpire, keyVars
<1> QED
  BY <1>1, <1>2, <1>3 DEF KeyChanger

\* The steps of the probe request thread.
LEMMA ProberType ==
    ASSUME TypeOK, Prober
    PROVE  TypeOK'
<1>0. /\ "probe" \in Thread
      /\ {"home", "joinRun", "joined"} \subseteq Label
      /\ "ProbeRequest" \in Event
      /\ "ruk" \in Kind
      /\ peer["probe"] \in Nbr
  BY DEF TypeOK, Thread, Label, Event, Kind
<1>1. CASE ClearAt("probe", "join", "ProbeRequest", "joinRun")
  BY <1>0, <1>1, ClearAtType
<1>2. CASE ProbeJoin
  <2>1. ev' \in [Event -> BOOLEAN]
    BY <1>2, SetType, Zenon DEF TypeOK, ProbeJoin
  <2>2. ThreadsOK'
    <3>1. CASE Send("probe", "ruk", peer["probe"], "joined")
      BY <1>0, <3>1, SendType
    <3>2. CASE UNCHANGED call /\ Go("probe", "joined", <<>>)
      BY <1>0, <3>2, GoType, WaitLists DEF TypeOK, ThreadsOK, Call, Kind
    <3> QED
      BY <1>2, <3>1, <3>2 DEF ProbeJoin
  <2>3. globalNeighborList' \in SUBSET Nbr /\ lostMessages' \in [Nbr -> Nat]
    BY <1>0, <1>2 DEF TypeOK, ProbeJoin, listVars
  <2> QED
    BY <1>2, <2>1, <2>2, <2>3, Zenon DEF TypeOK, ProbeJoin, ThreadsOK, Call, Kind, keyVars
<1>3. CASE ProbeDone
  <2>1. ev' \in [Event -> BOOLEAN]
    BY <1>3, SetType DEF ProbeDone
  <2>2. pc' \in [Thread -> Label] /\ todo' \in [Thread -> Seq(Event)]
    BY <1>0, <1>3, GoType, WaitLists DEF ProbeDone
  <2> QED
    BY <1>3, <2>1, <2>2, Zenon DEF TypeOK, ProbeDone, listVars, keyVars
<1> QED
  BY <1>1, <1>2, <1>3 DEF Prober

\* The arrivals, timers and calls that start a thread on something.
LEMMA StartType ==
    ASSUME TypeOK, Start
    PROVE  TypeOK'
<1>0. /\ {"fwd", "keys", "probe", "app"} \subseteq Thread
      /\ {"home", "nbr", "rotate", "join"} \subseteq Label
      /\ {"data", "uni", "ruk"} \subseteq Kind
  BY DEF Thread, Label, Kind
<1>1. ASSUME NEW p \in Nbr, NEW a \in Arrivals, FwdTakeNbr(p, a)
      PROVE  TypeOK'
  <2>1. [good |-> a[2], kind |-> a[1], key |-> 0]
           \in [good : BOOLEAN, kind : {"data", "kcm", "ruk"}, key : Nat]
    BY AgentAssumption
  <2>2. pc' \in [Thread -> Label] /\ todo' \in [Thread -> Seq(Event)]
    BY <1>0, <1>1, GoType, WaitLists DEF FwdTakeNbr
  <2>3. peer' \in [Thread -> Nbr]
    BY <1>0, <1>1 DEF TypeOK, FwdTakeNbr
  <2> QED
    BY <1>1, <2>1, <2>2, <2>3, Zenon DEF TypeOK, FwdTakeNbr, listVars, keyVars
<1>2. CASE KeysWake
  <2>1. pc' \in [Thread -> Label] /\ todo' \in [Thread -> Seq(Event)]
    BY <1>0, <1>2, GoType, WaitLists DEF KeysWake
  <2> QED
    BY <1>2, <2>1, Zenon DEF TypeOK, KeysWake, listVars, keyVars
<1>3. ASSUME NEW p \in Nbr, ProbeArrives(p)
      PROVE  TypeOK'
  <2>1. pc' \in [Thread -> Label] /\ todo' \in [Thread -> Seq(Event)]
    BY <1>0, <1>3, GoType, WaitLists DEF ProbeArrives
  <2>2. peer' \in [Thread -> Nbr]
    BY <1>0, <1>3 DEF TypeOK, ProbeArrives
  <2> QED
    BY <1>3, <2>1, <2>2, Zenon DEF TypeOK, ProbeArrives, listVars, keyVars
<1>4. ASSUME NEW kind \in Kind, NEW to \in Nbr \cup {Bcast}, AppCall(kind, to)
      PROVE  TypeOK'
  <2>1. ThreadsOK'
    BY <1>0, <1>4, SendType DEF AppCall
  <2> QED
    BY <1>4, <2>1, Zenon DEF TypeOK, AppCall, ThreadsOK, Call, Kind, listVars, keyVars
<1>5. CASE sendToNeighbors
  BY <1>0, <1>4, <1>5 DEF sendToNeighbors
<1>6. ASSUME NEW p \in Nbr, sendToNeighbor(p)
      PROVE  TypeOK'
  BY <1>0, <1>4, <1>6 DEF sendToNeighbor
<1> QED
  BY <1>1, <1>2, <1>3, <1>5, <1>6 DEF Start

-----------------------------------------------------------------------------
\* A kcm is on its way only after its key was generated: every other call is
\* of another kind, and the generation of the key never decreases.
LEMMA KcmKeyStep ==
    ASSUME TypeOK, KcmKey, [Next]_vars
    PROVE  KcmKey'
<1>0. key \in Nat /\ call \in [Thread -> Call]
  BY DEF TypeOK, Call, Kind
<1>1. CASE UNCHANGED key /\ UNCHANGED call
  BY <1>1 DEF KcmKey
<1>2. ASSUME NEW t \in Thread, NEW kind, NEW to, NEW ret, UNCHANGED key,
             kind # "kcm", Send(t, kind, to, ret)
      PROVE  KcmKey'
  BY <1>0, <1>2 DEF KcmKey, Send
<1>3. ASSUME NEW t \in Thread, UNCHANGED key, Return(t)
      PROVE  KcmKey'
  BY <1>0, <1>3 DEF KcmKey, Return, NoCall
<1>4. CASE KeysRotate
  <2>1. key' = key + 1
    BY <1>4 DEF KeysRotate
  <2> QED
    BY <1>0, <2>1 DEF KcmKey
<1>5. ASSUME NEW t \in Thread, Step(t)
      PROVE  KcmKey'
  <2>1. CASE Wait(t) \/ SendClear(t)
    BY <1>1, <2>1, Zenon DEF Wait, SendClear, ClearAt, keyVars
  <2>2. CASE Flood(t) \/ FloodUnknown(t)
    BY <1>3, <2>2, Zenon DEF Flood, FloodUnknown, keyVars
  <2>3. CASE Forwarder
    BY <1>1, <2>3, Zenon DEF Forwarder, FwdTakeOwn, FwdOwnPublish, FwdOwnDrop, ClearAt,
         FwdUnknown, FwdPublish, FwdPause, FwdRetry, FwdRescan, keyVars
  <2>4. CASE Receiver
    <3>1. CASE RxTake
      <4>1. UNCHANGED key
        BY <3>1 DEF RxTake, keyVars
      <4>2. UNCHANGED call \/ Send("rx", "nuk", Head(rx).from, "home")
        BY <3>1 DEF RxTake
      <4>3. "rx" \in Thread /\ "nuk" # "kcm"
        BY DEF Thread
      <4> QED
        BY <1>1, <1>2, <4>1, <4>2, <4>3, Zenon
    <3>2. CASE ~RxTake
      BY <1>1, <2>4, <3>2, Zenon DEF Receiver, RxSkip, ClearAt, RxKcm, RxRescan,
           threadVars, keyVars
    <3> QED
      BY <3>1, <3>2
  <2>5. CASE KeyChanger
    BY <1>1, <1>4, <2>5, Zenon DEF KeyChanger, ClearAt, KeysExpire, keyVars
  <2>6. CASE Prober
    <3>1. CASE ProbeJoin
      <4>1. UNCHANGED key
        BY <3>1 DEF ProbeJoin, keyVars
      <4>2. UNCHANGED call \/ Send("probe", "ruk", peer["probe"], "joined")
        BY <3>1 DEF ProbeJoin
      <4>3. "probe" \in Thread /\ "ruk" # "kcm"
        BY DEF Thread
      <4> QED
        BY <1>1, <1>2, <4>1, <4>2, <4>3, Zenon
    <3>2. CASE ~ProbeJoin
      BY <1>1, <2>6, <3>2, Zenon DEF Prober, ClearAt, ProbeDone, keyVars
    <3> QED
      BY <3>1, <3>2
  <2> QED
    BY <1>5, <2>1, <2>2, <2>3, <2>4, <2>5, <2>6 DEF Step
<1>6. CASE Start
  <2>1. ASSUME NEW kind, NEW to, kind # "kcm", AppCall(kind, to)
        PROVE  KcmKey'
    <3>1. UNCHANGED key /\ Send("app", kind, to, "home")
      BY <2>1 DEF AppCall, keyVars
    <3>2. "app" \in Thread
      BY DEF Thread
    <3> QED
      BY <1>2, <2>1, <3>1, <3>2, Zenon
  <2>2. CASE sendToNeighbors
    BY <2>1, <2>2 DEF sendToNeighbors
  <2>3. ASSUME NEW p \in Nbr, sendToNeighbor(p)
        PROVE  KcmKey'
    BY <2>1, <2>3 DEF sendToNeighbor
  <2>4. CASE \/ \E p \in Nbr, a \in Arrivals : FwdTakeNbr(p, a)
             \/ KeysWake
             \/ \E p \in Nbr : ProbeArrives(p)
    BY <1>1, <2>4, Zenon DEF FwdTakeNbr, KeysWake, ProbeArrives, keyVars
  <2> QED
    BY <1>6, <2>2, <2>3, <2>4 DEF Start
<1>7. CASE UNCHANGED vars
  BY <1>1, <1>7 DEF vars, threadVars, keyVars
<1> QED
  BY <1>5, <1>6, <1>7 DEF Next

\* Every thread of the agent keeps values of the right kind in all the
\* variables, whatever arrives and however the threads interleave.
THEOREM TypeCorrect == Spec => []TypeOK
<1>1. Init => TypeOK /\ KcmKey
  <2> SUFFICES ASSUME Init PROVE TypeOK /\ KcmKey
    OBVIOUS
  <2>1. NoCall \in Call
    BY DEF NoCall, Call, Kind, Label
  <2>2. call \in [Thread -> Call]
    BY <2>1 DEF Init
  <2>3. KcmKey
    BY DEF Init, KcmKey, NoCall
  <2>4. hand \in [good : BOOLEAN, kind : {"data", "kcm", "ruk"}, key : Nat]
    BY DEF Init
  <2>5. ev \in [Event -> BOOLEAN] /\ lostMessages \in [Nbr -> Nat]
    BY DEF Init
  <2>6. pc \in [Thread -> Label] /\ todo \in [Thread -> Seq(Event)]
    BY DEF Init, Label
  <2>7. peer \in [Thread -> Nbr]
    BY DEF Init
  <2> QED
    BY <2>2, <2>3, <2>4, <2>5, <2>6, <2>7 DEF Init, TypeOK, Call, Kind
<1>2. TypeOK /\ KcmKey /\ [Next]_vars => (TypeOK /\ KcmKey)'
  <2> SUFFICES ASSUME TypeOK, KcmKey, [Next]_vars PROVE TypeOK'
    BY KcmKeyStep
  <2>1. ASSUME NEW t \in Thread, Step(t) PROVE TypeOK'
    BY <2>1, CommonType, ForwarderType, ReceiverType, KeyChangerType, ProberType
      DEF Step
  <2>2. CASE UNCHANGED vars
    BY <2>2, Zenon DEF TypeOK, vars, threadVars, listVars, keyVars
  <2> QED
    BY <2>1, <2>2, StartType DEF Next
<1> QED
  BY <1>1, <1>2, PTL DEF Spec

-----------------------------------------------------------------------------
\* What setting does to one event.
LEMMA SetFacts ==
    ASSUME TypeOK, NEW E, Set(E)
    PROVE  \A e \in Event : (ev[e] => ev'[e]) /\ (e \in E => ev'[e])
BY Zenon DEF Set

\* Where the threads are after one of them goes on.
LEMMA GoFacts ==
    ASSUME TypeOK, NEW t \in Thread, NEW label, NEW waits, Go(t, label, waits)
    PROVE  pc'[t] = label /\ \A u \in Thread \ {t} : pc'[u] = pc[u]
BY DEF TypeOK, Go

\* The three events that EventsHeld is about.
Holdable == {"UserSpace", "ProbeRequest", "ChangeKeys"}

\* A step that clears none of the three keeps EventsHeld, if no thread moves
\* and nothing leaves the queue of own messages.
LEMMA StillHeld ==
    ASSUME EventsHeld, \A e \in Holdable : ev[e] => ev'[e], UNCHANGED <<pc, snd>>
    PROVE  EventsHeld'
BY Zenon DEF EventsHeld, OwnPending, Holdable

\* A step of thread t that clears none of the three keeps EventsHeld, if t
\* leaves the place of somebody who will set an event only once it is set: an
\* own message is still queued or in the hands of the forwarder or UserSpace
\* is set, and likewise for the probe and the key change thread.
LEMMA MoveHeld ==
    ASSUME TypeOK, EventsHeld, NEW t \in Thread, NEW label, NEW waits,
           Go(t, label, waits),
           \A e \in Holdable : ev[e] => ev'[e],
           \/ ev'["UserSpace"]
           \/ snd' # <<>>
           \/ t = "fwd" /\ label = "own"
           \/ pc[t] \notin {"flood", "own"} /\ snd' = snd,
           \/ t # "probe"
           \/ ev'["ProbeRequest"]
           \/ pc[t] \notin {"joinRun", "joined"}
           \/ label \in {"joinRun", "joined"},
           \/ t # "keys"
           \/ ev'["ChangeKeys"]
           \/ pc[t] # "newKey"
    PROVE  EventsHeld'
<1>0. /\ pc'[t] = label
      /\ \A u \in Thread : u # t => pc'[u] = pc[u]
      /\ {"fwd", "probe", "keys"} \subseteq Thread
  BY GoFacts DEF Thread
<1>1. ~ev'["UserSpace"] => OwnPending'
  <2> SUFFICES ASSUME ~ev'["UserSpace"] PROVE OwnPending'
    OBVIOUS
  <2>1. OwnPending
    BY DEF EventsHeld, Holdable
  <2>2. CASE snd' # <<>>
    BY <2>2 DEF OwnPending
  <2>3. CASE t = "fwd" /\ label = "own"
    BY <1>0, <2>3 DEF OwnPending
  <2>4. CASE pc[t] \notin {"flood", "own"} /\ snd' = snd
    BY <1>0, <2>1, <2>4 DEF OwnPending
  <2> QED
    BY <2>2, <2>3, <2>4
<1>2. ~ev'["ProbeRequest"] => pc'["probe"] \in {"joinRun", "joined"}
  BY <1>0 DEF EventsHeld, Holdable
<1>3. ~ev'["ChangeKeys"] => pc'["keys"] = "newKey"
  BY <1>0 DEF EventsHeld, Holdable
<1> QED
  BY <1>1, <1>2, <1>3 DEF EventsHeld

\* Clearing one of the other events.
LEMMA ClearAtHeld ==
    ASSUME TypeOK, EventsHeld, NEW t \in Thread, NEW at, NEW e \in Event \ Holdable,
           NEW label, ClearAt(t, at, e, label),
           at \notin {"flood", "own", "joinRun", "joined", "newKey"}
    PROVE  EventsHeld'
<1>1. \A f \in Holdable : ev[f] => ev'[f]
  BY Zenon DEF TypeOK, ClearAt, Clear, Holdable, Event
<1>2. Go(t, label, <<>>) /\ pc[t] = at /\ snd' = snd
  BY DEF ClearAt, At
<1> QED
  BY <1>1, <1>2, MoveHeld

\* The waiting and sending steps: UserSpace is cleared before the message is
\* made, and the message is there before the thread goes on.
LEMMA CommonHeld ==
    ASSUME TypeOK, EventsHeld, NEW t \in Thread,
           Wait(t) \/ SendClear(t) \/ Flood(t) \/ FloodUnknown(t)
    PROVE  EventsHeld'
<1>1. CASE Wait(t)
  BY <1>1, StillHeld, Zenon DEF Wait
<1>2. CASE SendClear(t)
  <2>1. CASE ClearAt(t, "ctrl", "UserCtrl", "flood")
    BY <2>1, ClearAtHeld DEF Event, Holdable
  <2>2. CASE ClearAt(t, "data", "UserSpace", "flood")
    <3>1. /\ pc[t] = "data" /\ Go(t, "flood", <<>>)
          /\ ev' = [ev EXCEPT !["UserSpace"] = FALSE]
      BY <2>2 DEF ClearAt, At, Clear
    <3>2. pc'[t] = "flood" /\ \A u \in Thread \ {t} : pc'[u] = pc[u]
      BY <3>1, GoFacts
    <3>3. /\ ev'["ProbeRequest"] = ev["ProbeRequest"]
          /\ ev'["ChangeKeys"] = ev["ChangeKeys"]
      BY <3>1 DEF TypeOK, Event
    <3>4. OwnPending'
      BY <3>2 DEF OwnPending
    <3>5. "probe" \in Thread /\ "keys" \in Thread
      BY DEF Thread
    <3> QED
      BY <3>1, <3>2, <3>3, <3>4, <3>5 DEF EventsHeld
  <2> QED
    BY <1>2, <2>1, <2>2 DEF SendClear
<1>3. CASE FloodUnknown(t) \/ Flood(t)
  <2>1. PICK waits : Go(t, call[t].ret, waits)
    BY <1>3 DEF FloodUnknown, Flood, Return
  <2>2. pc[t] = "flood"
    BY <1>3 DEF FloodUnknown, Flood, At
  <2>3. \A e \in Holdable : ev[e] => ev'[e]
    BY <1>3, SetFacts, Zenon DEF FloodUnknown, Flood, Holdable, Event
  <2>4. ev'["UserSpace"] \/ snd' # <<>>
    <3>1. CASE FloodUnknown(t)
      BY <3>1, SetFacts, Zenon DEF FloodUnknown, Event
    <3>2. CASE Flood(t)
      <4>1. PICK m : snd' = Append(snd, m)
        BY <3>2 DEF Flood
      <4>2. snd \in Seq(OwnMessage)
        BY DEF TypeOK
      <4> QED
        BY <4>1, <4>2
    <3> QED
      BY <1>3, <3>1, <3>2
  <2> QED
    BY <2>1, <2>2, <2>3, <2>4, MoveHeld
<1> QED
  BY <1>1, <1>2, <1>3

\* rescan_neighbor is called far from the places that hold the three events.
LEMMA RescanHeld ==
    ASSUME TypeOK, EventsHeld, NEW t \in Thread, Rescan(t), UNCHANGED snd,
           pc[t] \in {"rescanRun", "kcmScan"}
    PROVE  EventsHeld'
<1>1. PICK label, waits : Go(t, label, waits)
  BY DEF Rescan
<1>2. \A e \in Holdable : ev[e] => ev'[e]
  BY SetFacts, Zenon DEF Rescan, Holdable, Event
<1> QED
  BY <1>1, <1>2, MoveHeld

\* The forwarder lets go of an own message only after it has set UserSpace,
\* whether it could decode the message or not.
LEMMA ForwarderHeld ==
    ASSUME TypeOK, EventsHeld, Forwarder
    PROVE  EventsHeld'
<1>0. "fwd" \in Thread /\ {"UserSpace", "NeighborMessage", "NeighborUpdate"} \subseteq Event
  BY DEF Thread, Event
<1>1. CASE FwdTakeOwn
  <2>1. Go("fwd", "own", <<"ProbeRequest", "ChangeKeys", "NeighborUpdate">>)
        /\ UNCHANGED ev
    BY <1>1 DEF FwdTakeOwn
  <2> QED
    BY <1>0, <2>1, MoveHeld
<1>2. CASE FwdOwnPublish \/ FwdOwnDrop
  <2>1. Go("fwd", "home", <<>>) /\ Set({"UserSpace", "UserCtrl"})
    BY <1>2 DEF FwdOwnPublish, FwdOwnDrop
  <2>2. ev'["UserSpace"] /\ \A e \in Holdable : ev[e] => ev'[e]
    BY <1>0, <2>1, SetFacts, Zenon DEF Holdable, Event
  <2> QED
    BY <1>0, <2>1, <2>2, MoveHeld
<1>3. CASE \/ ClearAt("fwd", "nbr", "NeighborMessage", "nbrRun")
           \/ ClearAt("fwd", "retry", "NeighborMessage", "retryRun")
           \/ ClearAt("fwd", "rescan", "NeighborUpdate", "rescanRun")
  BY <1>0, <1>3, ClearAtHeld DEF Holdable
<1>4. CASE FwdUnknown \/ FwdPublish \/ FwdPause \/ FwdRetry
  <2>1. PICK label, waits : Go("fwd", label, waits)
    BY <1>4 DEF FwdUnknown, FwdPublish, FwdPause, FwdRetry
  <2>2. pc["fwd"] \in {"nbrRun", "retryRun"} /\ snd' = snd
    BY <1>4 DEF FwdUnknown, FwdPublish, FwdPause, FwdRetry, At
  <2>3. \A e \in Holdable : ev[e] => ev'[e]
    BY <1>4, SetFacts, Zenon
      DEF FwdUnknown, FwdPublish, FwdPause, FwdRetry, Holdable, Event
  <2> QED
    BY <1>0, <2>1, <2>2, <2>3, MoveHeld
<1>5. CASE FwdRescan
  BY <1>0, <1>5, RescanHeld DEF FwdRescan, At
<1> QED
  BY <1>1, <1>2, <1>3, <1>4, <1>5 DEF Forwarder

\* The receive thread holds none of the three between its steps.
LEMMA ReceiverHeld ==
    ASSUME TypeOK, EventsHeld, Receiver
    PROVE  EventsHeld'
<1>0. "rx" \in Thread /\ "NeighborUpdate" \in Event
  BY DEF Thread, Event
<1>1. CASE RxSkip
  BY <1>1, StillHeld, Zenon DEF RxSkip, threadVars
<1>2. CASE RxTake
  <2>1. \A e \in Holdable : ev[e] => ev'[e]
    BY <1>2, SetFacts, Zenon DEF RxTake, Holdable, Event
  <2>2. pc["rx"] = "home" /\ snd' = snd
    BY <1>2 DEF RxTake, At
  <2>3. CASE UNCHANGED pc
    BY <2>1, <2>2, <2>3, StillHeld
  <2>4. CASE \E label, waits : Go("rx", label, waits)
    <3>1. PICK label, waits : Go("rx", label, waits)
      BY <2>4
    <3> QED
      BY <1>0, <2>1, <2>2, <3>1, MoveHeld
  <2> QED
    BY <1>2, <2>3, <2>4, Zenon DEF RxTake, Send
<1>3. CASE ClearAt("rx", "kcm", "NeighborUpdate", "kcmRun")
  BY <1>0, <1>3, ClearAtHeld DEF Holdable
<1>4. CASE RxKcm
  <2>1. PICK label, waits : Go("rx", label, waits)
    BY <1>4 DEF RxKcm
  <2>2. pc["rx"] = "kcmRun" /\ snd' = snd
    BY <1>4 DEF RxKcm, At
  <2>3. \A e \in Holdable : ev[e] => ev'[e]
    BY <1>4, SetFacts, Zenon DEF RxKcm, Holdable, Event
  <2> QED
    BY <1>0, <2>1, <2>2, <2>3, MoveHeld
<1>5. CASE RxRescan
  BY <1>0, <1>5, RescanHeld DEF RxRescan, At
<1> QED
  BY <1>1, <1>2, <1>3, <1>4, <1>5 DEF Receiver

\* ChangeKeys is cleared on the way to the new key and set with it.
LEMMA KeyChangerHeld ==
    ASSUME TypeOK, EventsHeld, KeyChanger
    PROVE  EventsHeld'
<1>0. /\ {"keys", "probe", "fwd"} \subseteq Thread
      /\ {"ChangeKeys", "NeighborUpdate"} \subseteq Event
  BY DEF Thread, Event
<1>1. CASE ClearAt("keys", "rotate", "ChangeKeys", "newKey")
  <2>1. /\ pc["keys"] = "rotate" /\ Go("keys", "newKey", <<>>) /\ snd' = snd
        /\ ev' = [ev EXCEPT !["ChangeKeys"] = FALSE]
    BY <1>1 DEF ClearAt, At, Clear
  <2>2. pc'["keys"] = "newKey" /\ \A u \in Thread \ {"keys"} : pc'[u] = pc[u]
    BY <1>0, <2>1, GoFacts
  <2>3. /\ ev'["ProbeRequest"] = ev["ProbeRequest"]
        /\ ev'["UserSpace"] = ev["UserSpace"]
    BY <2>1 DEF TypeOK, Event
  <2>4. OwnPending => OwnPending'
    BY <1>0, <2>1, <2>2 DEF OwnPending
  <2> QED
    BY <1>0, <2>1, <2>2, <2>3, <2>4 DEF EventsHeld
<1>2. CASE KeysRotate
  <2>1. Set({"ChangeKeys"}) /\ pc["keys"] = "newKey" /\ snd' = snd
    BY <1>2 DEF KeysRotate, At
  <2>2. PICK label, waits : Go("keys", label, waits)
    BY <1>2 DEF KeysRotate, Send
  <2>3. ev'["ChangeKeys"] /\ \A e \in Holdable : ev[e] => ev'[e]
    BY <1>0, <2>1, SetFacts, Zenon DEF Holdable, Event
  <2> QED
    BY <1>0, <2>1, <2>2, <2>3, MoveHeld
<1>3. CASE ClearAt("keys", "validate", "NeighborUpdate", "expire")
  BY <1>0, <1>3, ClearAtHeld DEF Holdable
<1>4. CASE KeysExpire
  <2>1. PICK label, waits : Go("keys", label, waits)
    BY <1>4 DEF KeysExpire
  <2>2. pc["keys"] = "expire" /\ snd' = snd
    BY <1>4 DEF KeysExpire, At
  <2>3. \A e \in Holdable : ev[e] => ev'[e]
    BY <1>4, SetFacts, Zenon DEF KeysExpire, Holdable, Event
  <2> QED
    BY <1>0, <2>1, <2>2, <2>3, MoveHeld
<1> QED
  BY <1>1, <1>2, <1>3, <1>4 DEF KeyChanger

\* ProbeRequest is set before the application is told of a new neighbour, and
\* in any case before the probe thread is back at its loop.
LEMMA ProberHeld ==
    ASSUME TypeOK, EventsHeld, Prober
    PROVE  EventsHeld'
<1>0. {"keys", "probe", "fwd"} \subseteq Thread /\ "ProbeRequest" \in Event
  BY DEF Thread, Event
<1>1. CASE ClearAt("probe", "join", "ProbeRequest", "joinRun")
  <2>1. /\ pc["probe"] = "join" /\ Go("probe", "joinRun", <<>>) /\ snd' = snd
        /\ ev' = [ev EXCEPT !["ProbeRequest"] = FALSE]
    BY <1>1 DEF ClearAt, At, Clear
  <2>2. pc'["probe"] = "joinRun" /\ \A u \in Thread \ {"probe"} : pc'[u] = pc[u]
    BY <1>0, <2>1, GoFacts
  <2>3. /\ ev'["ChangeKeys"] = ev["ChangeKeys"]
        /\ ev'["UserSpace"] = ev["UserSpace"]
    BY <2>1 DEF TypeOK, Event
  <2>4. OwnPending => OwnPending'
    BY <1>0, <2>1, <2>2 DEF OwnPending
  <2> QED
    BY <1>0, <2>1, <2>2, <2>3, <2>4 DEF EventsHeld
<1>2. CASE ProbeJoin
  <2>1. pc["probe"] = "joinRun" /\ snd' = snd
    BY <1>2 DEF ProbeJoin, At
  <2>2. CASE Set({"ProbeRequest"}) /\ Send("probe", "ruk", peer["probe"], "joined")
    <3>1. PICK label, waits : Go("probe", label, waits)
      BY <2>2 DEF Send
    <3>2. ev'["ProbeRequest"] /\ \A e \in Holdable : ev[e] => ev'[e]
      BY <1>0, <2>2, SetFacts, Zenon DEF Holdable, Event
    <3> QED
      BY <1>0, <2>1, <3>1, <3>2, MoveHeld
  <2>3. CASE UNCHANGED ev /\ Go("probe", "joined", <<>>)
    BY <1>0, <2>1, <2>3, MoveHeld
  <2> QED
    BY <1>2, <2>2, <2>3 DEF ProbeJoin
<1>3. CASE ProbeDone
  <2>1. /\ pc["probe"] = "joined" /\ snd' = snd
        /\ Go("probe", "home", <<>>) /\ Set({"ProbeRequest"})
    BY <1>3 DEF ProbeDone, At
  <2>2. ev'["ProbeRequest"] /\ \A e \in Holdable : ev[e] => ev'[e]
    BY <1>0, <2>1, SetFacts, Zenon DEF Holdable, Event
  <2> QED
    BY <1>0, <2>1, <2>2, MoveHeld
<1> QED
  BY <1>1, <1>2, <1>3 DEF Prober

\* What starts a thread finds it at home.
LEMMA StartHeld ==
    ASSUME TypeOK, EventsHeld, Start
    PROVE  EventsHeld'
<1>0. {"fwd", "keys", "probe", "app"} \subseteq Thread
  BY DEF Thread
<1>1. ASSUME NEW t \in Thread, pc[t] = "home", UNCHANGED <<ev, snd>>,
             NEW label, NEW waits, Go(t, label, waits)
      PROVE  EventsHeld'
  BY <1>1, MoveHeld
<1>2. ASSUME NEW p, NEW a, FwdTakeNbr(p, a) PROVE EventsHeld'
  BY <1>0, <1>1, <1>2 DEF FwdTakeNbr, At
<1>3. CASE KeysWake
  BY <1>0, <1>1, <1>3 DEF KeysWake, At
<1>4. ASSUME NEW p, ProbeArrives(p) PROVE EventsHeld'
  BY <1>0, <1>1, <1>4 DEF ProbeArrives, At
<1>5. ASSUME NEW kind, NEW to, AppCall(kind, to) PROVE EventsHeld'
  BY <1>0, <1>1, <1>5 DEF AppCall, At, Send
<1> QED
  BY <1>2, <1>3, <1>4, <1>5 DEF Start, sendToNeighbors, sendToNeighbor

\* Whatever arrives and however the threads interleave, a cleared UserSpace,
\* ProbeRequest or ChangeKeys has somebody on the way to set it: the lock
\* that the agent builds of events is never lost on an early return.
THEOREM LocksHeld == Spec => []EventsHeld
<1>1. Init => EventsHeld
  BY DEF Init, EventsHeld, Event
<1>2. TypeOK /\ EventsHeld /\ [Next]_vars => EventsHeld'
  <2> SUFFICES ASSUME TypeOK, EventsHeld, [Next]_vars PROVE EventsHeld'
    OBVIOUS
  <2>1. ASSUME NEW t \in Thread, Step(t) PROVE EventsHeld'
    BY <2>1, CommonHeld, ForwarderHeld, ReceiverHeld, KeyChangerHeld, ProberHeld
      DEF Step
  <2>2. CASE UNCHANGED vars
    BY <2>2, StillHeld, Zenon DEF vars, threadVars
  <2> QED
    BY <2>1, <2>2, StartHeld DEF Next
<1> QED
  BY <1>1, <1>2, TypeCorrect, PTL DEF Spec

-----------------------------------------------------------------------------
\* Somebody who will set NeighborUpdate, or a forwarder that has ended.  The
\* receive thread counts while the neighbour it scans for is in the list:
\* it ends with an exception, and sets nothing, when it is not.
UpdateHolder ==
    \/ pc["fwd"] \in {"rescanRun", "dead"}
    \/ pc["keys"] = "expire"
    \/ pc["rx"] = "kcmRun"
    \/ pc["rx"] = "kcmScan" /\ peer["rx"] \in globalNeighborList

UpdateInv ==
    (Registered \/ NoFreq = {}) /\ ~ev["NeighborUpdate"] => UpdateHolder

\* A step of thread t that does not clear NeighborUpdate and removes no
\* neighbour keeps UpdateInv, if t does not leave the place of a holder.
LEMMA MoveUpdate ==
    ASSUME TypeOK, UpdateInv, NEW t \in Thread, NEW label, NEW waits,
           Go(t, label, waits),
           ev["NeighborUpdate"] => ev'["NeighborUpdate"],
           globalNeighborList \subseteq globalNeighborList',
           UNCHANGED peer \/ pc["rx"] = "home" \/ (t # "rx" /\ peer'["rx"] = peer["rx"]),
           pc[t] \notin {"rescanRun", "dead", "expire", "kcmRun", "kcmScan"}
    PROVE  UpdateInv'
<1>1. pc'[t] = label /\ \A u \in Thread \ {t} : pc'[u] = pc[u]
  BY GoFacts
<1>2. {"fwd", "keys", "rx"} \subseteq Thread
  BY DEF Thread
<1>3. UpdateHolder => UpdateHolder'
  BY <1>1, <1>2 DEF UpdateHolder
<1> QED
  BY <1>3, Zenon DEF UpdateInv

\* A step in which no thread moves and that clears nothing.
LEMMA StillUpdate ==
    ASSUME UpdateInv, UNCHANGED <<pc, globalNeighborList>>,
           ev["NeighborUpdate"] => ev'["NeighborUpdate"],
           UNCHANGED peer \/ pc["rx"] = "home"
    PROVE  UpdateInv'
<1>1. UpdateHolder => UpdateHolder'
  BY DEF UpdateHolder
<1> QED
  BY <1>1, Zenon DEF UpdateInv

\* Clearing another event.
LEMMA ClearOther ==
    ASSUME TypeOK, UpdateInv, NEW t \in Thread, NEW at, NEW label,
           NEW e \in Event \ {"NeighborUpdate"}, ClearAt(t, at, e, label),
           at \notin {"rescanRun", "dead", "expire", "kcmRun", "kcmScan"}
    PROVE  UpdateInv'
<1>1. ev["NeighborUpdate"] => ev'["NeighborUpdate"]
  BY Zenon DEF TypeOK, ClearAt, Clear, Event
<1>2. /\ Go(t, label, <<>>) /\ pc[t] = at
      /\ UNCHANGED peer /\ UNCHANGED globalNeighborList
  BY DEF ClearAt, At, listVars
<1> QED
  BY <1>1, <1>2, MoveUpdate

\* The waiting and sending steps leave NeighborUpdate and the list alone.
LEMMA CommonUpdate ==
    ASSUME TypeOK, UpdateInv, NEW t \in Thread,
           Wait(t) \/ SendClear(t) \/ Flood(t) \/ FloodUnknown(t)
    PROVE  UpdateInv'
<1>1. CASE Wait(t)
  BY <1>1, StillUpdate DEF Wait, listVars
<1>2. CASE SendClear(t)
  BY <1>2, ClearOther DEF SendClear, Event
<1>3. CASE FloodUnknown(t) \/ Flood(t)
  <2>1. PICK waits : Go(t, call[t].ret, waits)
    BY <1>3 DEF FloodUnknown, Flood, Return
  <2>2. pc[t] = "flood" /\ UNCHANGED peer /\ UNCHANGED globalNeighborList
    BY <1>3 DEF FloodUnknown, Flood, At, listVars
  <2>3. ev["NeighborUpdate"] => ev'["NeighborUpdate"]
    BY <1>3, SetFacts, Zenon DEF FloodUnknown, Flood, Event
  <2> QED
    BY <2>1, <2>2, <2>3, MoveUpdate
<1> QED
  BY <1>1, <1>2, <1>3

\* rescan_neighbor sets NeighborUpdate, or its thread ends with an exception
\* and sets nothing.
LEMMA RescanEnds ==
    ASSUME TypeOK, NEW t \in Thread, Rescan(t)
    PROVE  \/ ev'["NeighborUpdate"]
           \/ /\ peer[t] \notin globalNeighborList \/ ~Connected
              /\ Go(t, "dead", <<>>)
              /\ UNCHANGED <<ev, globalNeighborList>>
<1>1. CASE Set({"NeighborUpdate"})
  BY <1>1, SetFacts, Zenon DEF Event
<1> QED
  BY <1>1, Zenon DEF Rescan

\* The forwarder rescans after it has cleared NeighborUpdate; it removes a
\* neighbour on its own only when the application is told, with the event.
LEMMA ForwarderUpdate ==
    ASSUME TypeOK, UpdateInv, Forwarder
    PROVE  UpdateInv'
<1>0. "fwd" \in Thread /\ {"NeighborMessage", "NeighborUpdate"} \subseteq Event
  BY DEF Thread, Event
<1>1. CASE \/ FwdTakeOwn \/ FwdOwnPublish \/ FwdOwnDrop
           \/ FwdUnknown \/ FwdPublish \/ FwdPause
  <2>1. PICK label, waits : Go("fwd", label, waits)
    BY <1>1 DEF FwdTakeOwn, FwdOwnPublish, FwdOwnDrop, FwdUnknown, FwdPublish, FwdPause
  <2>2. /\ pc["fwd"] \in {"home", "own", "nbrRun"}
        /\ UNCHANGED peer /\ UNCHANGED globalNeighborList
    BY <1>1 DEF FwdTakeOwn, FwdOwnPublish, FwdOwnDrop, FwdUnknown, FwdPublish,
                FwdPause, At, listVars
  <2>3. ev["NeighborUpdate"] => ev'["NeighborUpdate"]
    BY <1>0, <1>1, SetFacts, Zenon
      DEF FwdTakeOwn, FwdOwnPublish, FwdOwnDrop, FwdUnknown, FwdPublish, FwdPause, Event
  <2> QED
    BY <1>0, <2>1, <2>2, <2>3, MoveUpdate
<1>2. CASE \/ ClearAt("fwd", "nbr", "NeighborMessage", "nbrRun")
           \/ ClearAt("fwd", "retry", "NeighborMessage", "retryRun")
  BY <1>0, <1>2, ClearOther
<1>3. CASE ClearAt("fwd", "rescan", "NeighborUpdate", "rescanRun")
  <2>1. Go("fwd", "rescanRun", <<>>)
    BY <1>3 DEF ClearAt
  <2>2. pc'["fwd"] = "rescanRun"
    BY <1>0, <2>1, GoFacts
  <2> QED
    BY <2>2 DEF UpdateInv, UpdateHolder
<1>4. CASE FwdRetry
  <2>1. PICK label, waits : Go("fwd", label, waits)
    BY <1>4 DEF FwdRetry
  <2>2. pc["fwd"] = "retryRun" /\ UNCHANGED peer
    BY <1>4 DEF FwdRetry, At
  <2>3. ev["NeighborUpdate"] => ev'["NeighborUpdate"]
    BY <1>0, <1>4, SetFacts, Zenon DEF FwdRetry, Event
  <2>4. CASE UNCHANGED globalNeighborList
    BY <1>0, <2>1, <2>2, <2>3, <2>4, MoveUpdate
  <2>5. CASE Set({"NeighborMessage"} \cup LeftEvents) /\ peer["fwd"] \in NoFreq
    <3>1. CASE Registered
      <4>1. "NeighborUpdate" \in {"NeighborMessage"} \cup LeftEvents
        BY <3>1 DEF LeftEvents
      <4>2. ev'["NeighborUpdate"]
        BY <1>0, <2>5, <4>1, SetFacts, Zenon
      <4> QED
        BY <4>2, Zenon DEF UpdateInv
    <3>2. CASE ~Registered
      BY <2>5, <3>2, Zenon DEF UpdateInv
    <3> QED
      BY <3>1, <3>2
  <2> QED
    BY <1>4, <2>4, <2>5 DEF FwdRetry, listVars
<1>5. CASE FwdRescan
  <2>1. Rescan("fwd")
    BY <1>5 DEF FwdRescan
  <2>2. CASE ev'["NeighborUpdate"]
    BY <2>2, Zenon DEF UpdateInv
  <2>3. CASE Go("fwd", "dead", <<>>)
    <3>1. pc'["fwd"] = "dead"
      BY <1>0, <2>3, GoFacts
    <3> QED
      BY <3>1 DEF UpdateInv, UpdateHolder
  <2> QED
    BY <1>0, <2>1, <2>2, <2>3, RescanEnds
<1> QED
  BY <1>1, <1>2, <1>3, <1>4, <1>5 DEF Forwarder

\* The receive thread: the neighbour it looked up is still in the list when
\* it scans, unless somebody removed it and set NeighborUpdate.
LEMMA ReceiverUpdate ==
    ASSUME TypeOK, UpdateInv, Receiver
    PROVE  UpdateInv'
<1>0. {"rx", "fwd", "keys"} \subseteq Thread /\ "NeighborUpdate" \in Event
  BY DEF Thread, Event
<1>1. CASE RxSkip
  BY <1>1, StillUpdate DEF RxSkip, threadVars, listVars
<1>2. CASE RxTake
  <2>1. ev["NeighborUpdate"] => ev'["NeighborUpdate"]
    BY <1>0, <1>2, SetFacts, Zenon DEF RxTake
  <2>2. pc["rx"] = "home" /\ UNCHANGED globalNeighborList
    BY <1>2 DEF RxTake, At, listVars
  <2>3. CASE UNCHANGED pc
    BY <2>1, <2>2, <2>3, StillUpdate
  <2>4. CASE \E label, waits : Go("rx", label, waits)
    <3>1. PICK label, waits : Go("rx", label, waits)
      BY <2>4
    <3> QED
      BY <1>0, <2>1, <2>2, <3>1, MoveUpdate
  <2> QED
    BY <1>2, <2>3, <2>4, Zenon DEF RxTake, Send
<1>3. CASE ClearAt("rx", "kcm", "NeighborUpdate", "kcmRun")
  <2>1. Go("rx", "kcmRun", <<>>)
    BY <1>3 DEF ClearAt
  <2>2. pc'["rx"] = "kcmRun"
    BY <1>0, <2>1, GoFacts
  <2> QED
    BY <2>2 DEF UpdateInv, UpdateHolder
<1>4. CASE RxKcm
  <2>1. CASE peer["rx"] \in globalNeighborList
    <3>1. /\ Go("rx", "kcmScan", <<>>)
          /\ UNCHANGED peer /\ UNCHANGED globalNeighborList
      BY <1>4, <2>1 DEF RxKcm, listVars
    <3>2. pc'["rx"] = "kcmScan"
      BY <1>0, <3>1, GoFacts
    <3> QED
      BY <2>1, <3>1, <3>2 DEF UpdateInv, UpdateHolder
  <2>2. CASE peer["rx"] \notin globalNeighborList
    <3>1. Set({"NeighborUpdate"})
      BY <1>4, <2>2 DEF RxKcm
    <3>2. ev'["NeighborUpdate"]
      BY <1>0, <3>1, SetFacts, Zenon
    <3> QED
      BY <3>2, Zenon DEF UpdateInv
  <2> QED
    BY <2>1, <2>2
<1>5. CASE RxRescan
  <2>1. Rescan("rx") /\ pc["rx"] = "kcmScan"
    BY <1>5 DEF RxRescan, At
  <2>2. CASE ev'["NeighborUpdate"]
    BY <2>2, Zenon DEF UpdateInv
  <2>3. CASE /\ peer["rx"] \notin globalNeighborList \/ ~Connected
             /\ Go("rx", "dead", <<>>)
             /\ UNCHANGED <<ev, globalNeighborList>>
    <3>1. pc'["fwd"] = pc["fwd"] /\ pc'["keys"] = pc["keys"]
      BY <1>0, <2>3, GoFacts
    <3>2. UpdateHolder => UpdateHolder'
      BY <2>1, <2>3, <3>1 DEF UpdateHolder, Connected
    <3> QED
      BY <2>3, <3>2, Zenon DEF UpdateInv
  <2> QED
    BY <1>0, <2>1, <2>2, <2>3, RescanEnds
<1> QED
  BY <1>1, <1>2, <1>3, <1>4, <1>5 DEF Receiver

\* The key change thread ends its validation with NeighborUpdate set, or
\* fails on the sockets of a forwarder that has ended.
LEMMA KeyChangerUpdate ==
    ASSUME TypeOK, UpdateInv, KeyChanger
    PROVE  UpdateInv'
<1>0. {"keys", "fwd"} \subseteq Thread /\ {"ChangeKeys", "NeighborUpdate"} \subseteq Event
  BY DEF Thread, Event
<1>1. CASE ClearAt("keys", "rotate", "ChangeKeys", "newKey")
  BY <1>0, <1>1, ClearOther
<1>2. CASE KeysRotate
  <2>1. /\ Set({"ChangeKeys"}) /\ pc["keys"] = "newKey"
        /\ UNCHANGED peer /\ UNCHANGED globalNeighborList
    BY <1>2 DEF KeysRotate, At, listVars
  <2>2. PICK label, waits : Go("keys", label, waits)
    BY <1>2 DEF KeysRotate, Send
  <2>3. ev["NeighborUpdate"] => ev'["NeighborUpdate"]
    BY <1>0, <2>1, SetFacts, Zenon
  <2> QED
    BY <1>0, <2>1, <2>2, <2>3, MoveUpdate
<1>3. CASE ClearAt("keys", "validate", "NeighborUpdate", "expire")
  <2>1. Go("keys", "expire", <<>>)
    BY <1>3 DEF ClearAt
  <2>2. pc'["keys"] = "expire"
    BY <1>0, <2>1, GoFacts
  <2> QED
    BY <2>2 DEF UpdateInv, UpdateHolder
<1>4. CASE KeysExpire
  <2>1. CASE Set({"NeighborUpdate"})
    <3>1. ev'["NeighborUpdate"]
      BY <1>0, <2>1, SetFacts, Zenon
    <3> QED
      BY <3>1, Zenon DEF UpdateInv
  <2>2. CASE ~Connected /\ Go("keys", "dead", <<>>)
    <3>1. pc'["fwd"] = "dead"
      BY <1>0, <2>2, GoFacts DEF Connected
    <3> QED
      BY <3>1 DEF UpdateInv, UpdateHolder
  <2> QED
    BY <1>4, <2>1, <2>2, Zenon DEF KeysExpire
<1> QED
  BY <1>1, <1>2, <1>3, <1>4 DEF KeyChanger

\* The probe thread only adds neighbours.
LEMMA ProberUpdate ==
    ASSUME TypeOK, UpdateInv, Prober
    PROVE  UpdateInv'
<1>0. "probe" \in Thread /\ {"ProbeRequest", "NeighborUpdate"} \subseteq Event
  BY DEF Thread, Event
<1>1. CASE ClearAt("probe", "join", "ProbeRequest", "joinRun")
  BY <1>0, <1>1, ClearOther
<1>2. CASE ProbeJoin \/ ProbeDone
  <2>1. PICK label, waits : Go("probe", label, waits)
    BY <1>2 DEF ProbeJoin, ProbeDone, Send
  <2>2. pc["probe"] \in {"joinRun", "joined"} /\ UNCHANGED peer
    BY <1>2 DEF ProbeJoin, ProbeDone, At
  <2>3. globalNeighborList \subseteq globalNeighborList'
    BY <1>2 DEF ProbeJoin, ProbeDone, listVars
  <2>4. ev["NeighborUpdate"] => ev'["NeighborUpdate"]
    BY <1>0, <1>2, SetFacts, Zenon DEF ProbeJoin, ProbeDone
  <2> QED
    BY <1>0, <2>1, <2>2, <2>3, <2>4, MoveUpdate
<1> QED
  BY <1>1, <1>2 DEF Prober

\* What starts a thread finds it at home, and the receive thread is not one
\* of those that are started.
LEMMA StartUpdate ==
    ASSUME TypeOK, UpdateInv, Start
    PROVE  UpdateInv'
<1>0. {"fwd", "keys", "probe", "app", "rx"} \subseteq Thread
  BY DEF Thread
<1>1. ASSUME NEW t \in Thread \ {"rx"}, pc[t] = "home", UNCHANGED ev,
             UNCHANGED globalNeighborList, peer'["rx"] = peer["rx"],
             NEW label, NEW waits, Go(t, label, waits)
      PROVE  UpdateInv'
  BY <1>1, MoveUpdate
<1>2. ASSUME NEW p, NEW a, FwdTakeNbr(p, a) PROVE UpdateInv'
  <2>1. peer'["rx"] = peer["rx"]
    BY <1>0, <1>2 DEF TypeOK, FwdTakeNbr
  <2> QED
    BY <1>0, <1>1, <1>2, <2>1 DEF FwdTakeNbr, At, listVars
<1>3. CASE KeysWake
  BY <1>0, <1>1, <1>3 DEF KeysWake, At, listVars
<1>4. ASSUME NEW p, ProbeArrives(p) PROVE UpdateInv'
  <2>1. peer'["rx"] = peer["rx"]
    BY <1>0, <1>4 DEF TypeOK, ProbeArrives
  <2> QED
    BY <1>0, <1>1, <1>4, <2>1 DEF ProbeArrives, At, listVars
<1>5. ASSUME NEW kind, NEW to, AppCall(kind, to) PROVE UpdateInv'
  BY <1>0, <1>1, <1>5 DEF AppCall, At, Send, listVars
<1> QED
  BY <1>2, <1>3, <1>4, <1>5 DEF Start, sendToNeighbors, sendToNeighbor

\* However the rescans of the forwarder, the kcm handling of the receive
\* thread and the validation of the key change thread overlap, all of which
\* clear NeighborUpdate and may remove the neighbour another one works on,
\* the event is not left cleared by an agent whose forwarder is alive.
THEOREM UpdateLockHeld == Spec => []UpdateHeld
<1>1. Init => UpdateInv
  BY DEF Init, UpdateInv, Event
<1>2. TypeOK /\ UpdateInv /\ [Next]_vars => UpdateInv'
  <2> SUFFICES ASSUME TypeOK, UpdateInv, [Next]_vars PROVE UpdateInv'
    OBVIOUS
  <2>1. ASSUME NEW t \in Thread, Step(t) PROVE UpdateInv'
    BY <2>1, CommonUpdate, ForwarderUpdate, ReceiverUpdate, KeyChangerUpdate, ProberUpdate
      DEF Step
  <2>2. CASE UNCHANGED vars
    BY <2>2, StillUpdate, Zenon DEF vars, threadVars, listVars
  <2> QED
    BY <2>1, <2>2, StartUpdate DEF Next
<1>3. UpdateInv => UpdateHeld
  <2>1. {"fwd", "keys", "rx"} \subseteq Thread
    BY DEF Thread
  <2>2. UpdateHolder => Updaters # {} \/ pc["fwd"] = "dead"
    BY <2>1 DEF UpdateHolder, Updaters
  <2> QED
    BY <2>2, Zenon DEF UpdateInv, UpdateHeld
<1> QED
  BY <1>1, <1>2, <1>3, TypeCorrect, PTL DEF Spec
=============================================================================
