----------------------------- MODULE AgentEvents -----------------------------
(***************************************************************************)
(* The threads inside one ResFi agent (framework/agent.py) and the events  *)
(* they use as locks.  threading.Event has no test-and-clear: a thread     *)
(* waits for a list of events one after the other and then clears its own, *)
(* so every wait() and every clear() is a step of its own here.            *)
(*                                                                         *)
(* What the neighbours do is an environment: any message of Arrivals may   *)
(* come, and a scan may or may not find a neighbour.  One round of the     *)
(* ruk loop of sendToNeighbor is one call here.                            *)
(***************************************************************************)
EXTENDS Integers, Sequences

CONSTANTS
    Nbr,            \* the neighbouring agents
    NoFreq,         \* neighbours whose frequency is not known (freq = 0)
    Arrivals,       \* the messages neighbours may send: <<kind, good>>
    Calls,          \* the calls the application makes
    Registered,     \* an application with a newLink_cb is registered
    LostLimit,      \* undecodable messages that trigger a rescan (5)
    MaxIn,          \* bound: messages that arrive from neighbours
    MaxCalls,       \* bound: calls of the application
    MaxRotations,   \* bound: rounds of the key change thread
    MaxProbes       \* bound: ResFi probe requests received

ASSUME AgentAssumption ==
    /\ NoFreq \subseteq Nbr
    /\ Arrivals \subseteq {"data", "kcm", "ruk"} \X BOOLEAN
    /\ Calls \subseteq {"broadcast", "unicast", "ruk"}
    /\ Registered \in BOOLEAN
    /\ LostLimit \in Nat \ {0}
    /\ MaxIn \in Nat /\ MaxCalls \in Nat /\ MaxRotations \in Nat /\ MaxProbes \in Nat

Event == {"ProbeRequest", "ChangeKeys", "UserSpace", "UserCtrl",
          "NeighborUpdate", "NeighborMessage"}

Thread == {"fwd", "rx", "keys", "probe", "app"}

Bcast == "255.255.255.255"

VARIABLES
    ev,                 \* the events that are set
    pc,                 \* where each thread is
    todo,               \* the events it waits for before it goes on
    call,               \* its call of sendFloodingMessage, with the return label
    peer,               \* the neighbour the thread is working on
    globalNeighborList, \* the neighbours, the own and the old_keys entry left out
    lostMessages,       \* counter of each neighbour
    key, old_key,       \* generation of the group key, and of the old_keys entry
    snd,                \* own messages on their way to the forwarder
    hand,               \* what the forwarder knows of the message it works on
    rx,                 \* messages of neighbours for the receive thread
    ins, calls, rotations, probes   \* how often the bounded actions happened

threadVars == <<pc, todo, call, peer>>
listVars == <<globalNeighborList, lostMessages>>
keyVars == <<key, old_key>>
bounds == <<ins, calls, rotations, probes>>
vars == <<ev, threadVars, listVars, keyVars, snd, hand, rx, bounds>>

\* An own message, with the generation of the key it is encrypted with; and
\* one of a neighbour, which arrives decodable or not and is published again
\* under the own key.
OwnMessage == [kind : {"data", "kcm"}, key : Nat]
NbrMessage == [kind : {"data", "kcm", "ruk"}, from : Nbr, key : Nat]

NoCall == [kind |-> "none", to |-> Bcast, ret |-> "home"]

\* A thread that has ended with an exception stays at "dead".
Label == {"home", "data", "ctrl", "flood", "own", "nbr", "nbrRun", "retry",
          "retryRun", "rescan", "rescanRun", "kcm", "kcmRun", "kcmScan",
          "rotate", "newKey", "validate", "expire", "join", "joinRun",
          "joined", "dead"}

Init ==
    /\ ev = [e \in Event |-> TRUE]
    /\ pc = [t \in Thread |-> "home"]
    /\ todo = [t \in Thread |-> <<>>]
    /\ call = [t \in Thread |-> NoCall]
    /\ peer \in {[t \in Thread |-> p] : p \in Nbr}
    /\ globalNeighborList \in SUBSET Nbr
    /\ lostMessages = [p \in Nbr |-> 0]
    /\ key = 0 /\ old_key = 0
    /\ snd = <<>> /\ rx = <<>>
    /\ hand = [good |-> TRUE, kind |-> "data", key |-> 0]
    /\ ins = 0 /\ calls = 0 /\ rotations = 0 /\ probes = 0

-----------------------------------------------------------------------------
(* The steps threads are made of                                           *)

At(t, label) == pc[t] = label /\ todo[t] = <<>>

Go(t, label, waits) ==
    /\ pc' = [pc EXCEPT ![t] = label]
    /\ todo' = [todo EXCEPT ![t] = waits]

Set(E) == ev' = [e \in Event |-> ev[e] \/ e \in E]

Clear(e) == ev' = [ev EXCEPT ![e] = FALSE]

\* The next wait() of thread t returns.
Wait(t) ==
    /\ todo[t] # <<>>
    /\ ev[Head(todo[t])]
    /\ todo' = [todo EXCEPT ![t] = Tail(@)]
    /\ UNCHANGED <<ev, pc, call, peer, listVars, keyVars, snd, hand, rx, bounds>>

\* t clears its event and goes on at label.
ClearAt(t, at, e, label) ==
    /\ At(t, at)
    /\ Clear(e)
    /\ Go(t, label, <<>>)
    /\ UNCHANGED <<call, peer, listVars, keyVars, snd, hand, rx, bounds>>

Update == <<"NeighborUpdate", "ProbeRequest", "ChangeKeys">>

-----------------------------------------------------------------------------
(* Sending: sendToInternal for data, sendCtrlToNeighbors for control       *)

\* Thread t calls one of them and will continue at ret.
Send(t, kind, to, ret) ==
    /\ call' = [call EXCEPT ![t] = [kind |-> kind, to |-> to, ret |-> ret]]
    /\ IF kind \in {"data", "uni"}
       THEN Go(t, "data", <<"ProbeRequest", "ChangeKeys", "UserCtrl">>)
       ELSE Go(t, "ctrl", <<"ProbeRequest", "ChangeKeys", "UserSpace">>)

SendClear(t) ==
    \/ ClearAt(t, "data", "UserSpace", "flood")
    \/ ClearAt(t, "ctrl", "UserCtrl", "flood")

\* The call returns; after the kcm the key change thread validates its list.
Return(t) ==
    /\ call' = [call EXCEPT ![t] = NoCall]
    /\ Go(t, call[t].ret,
          IF call[t].ret = "validate"
          THEN <<"ProbeRequest", "UserSpace", "UserCtrl", "NeighborMessage">>
          ELSE <<>>)

\* Whatever was cleared, only UserSpace is set when the receiver is unknown.
FloodUnknown(t) ==
    /\ At(t, "flood")
    /\ call[t].to # Bcast /\ call[t].to \notin globalNeighborList
    /\ Set({"UserSpace"})
    /\ Return(t)
    /\ UNCHANGED <<peer, listVars, keyVars, snd, hand, rx, bounds>>

\* Mutant: every message is encrypted with the key before.
FloodOldKey(t) ==
    /\ At(t, "flood")
    /\ call[t].to \in {Bcast} \cup globalNeighborList
    /\ snd' = Append(snd, [kind |-> "data", key |-> key - 1])
    /\ Return(t)
    /\ UNCHANGED <<ev, peer, listVars, keyVars, hand, rx, bounds>>

\* The kcm alone is encrypted with the key before, which its old_keys entry
\* lets the own forwarder find.
Flood(t) ==
    LET k == IF call[t].kind = "kcm" THEN key - 1 ELSE key
    IN  /\ At(t, "flood")
        /\ call[t].to \in {Bcast} \cup globalNeighborList
        /\ snd' = Append(snd, [kind |-> IF call[t].kind = "kcm" THEN "kcm" ELSE "data",
                               key |-> k])
        /\ old_key' = IF call[t].kind = "kcm" THEN k ELSE old_key
        /\ Return(t)
        /\ UNCHANGED <<ev, peer, listVars, key, hand, rx, bounds>>

-----------------------------------------------------------------------------
(* Neighbours                                                              *)

\* The sockets of the agent are closed when the forwarder ends.
Connected == pc["fwd"] # "dead"

onAPLeft(P) == globalNeighborList' = globalNeighborList \ P

\* NeighborUpdate is set for the linkFailure_cb of an application.
LeftEvents == IF Registered THEN {"NeighborUpdate"} ELSE {}

\* rescan_neighbor by thread t: the neighbour is found with a new key, or is
\* removed.  If it is no longer in the list, or there is no socket to take it
\* from, the thread ends with an exception.
Rescan(t) ==
    \/ /\ peer[t] \in globalNeighborList
       /\ \/ UNCHANGED globalNeighborList
          \/ Connected /\ onAPLeft({peer[t]})
       /\ Set({"NeighborUpdate"})
       /\ Go(t, "home", <<>>)
    \/ /\ peer[t] \notin globalNeighborList \/ ~Connected
       /\ Go(t, "dead", <<>>)
       /\ UNCHANGED <<ev, globalNeighborList>>

-----------------------------------------------------------------------------
(* The forwarder thread (initForwardingTTL)                                *)

FwdTakeOwn ==
    /\ At("fwd", "home")
    /\ snd # <<>>
    /\ hand' = [good |-> TRUE, kind |-> Head(snd).kind, key |-> Head(snd).key]
    /\ snd' = Tail(snd)
    /\ Go("fwd", "own", <<"ProbeRequest", "ChangeKeys", "NeighborUpdate">>)
    /\ UNCHANGED <<ev, call, peer, listVars, keyVars, rx, bounds>>

FwdTakeNbr(p, a) ==
    /\ At("fwd", "home")
    /\ ins < MaxIn
    /\ ins' = ins + 1
    /\ hand' = [good |-> a[2], kind |-> a[1], key |-> 0]
    /\ peer' = [peer EXCEPT !["fwd"] = p]
    /\ Go("fwd", "nbr", <<"ProbeRequest", "ChangeKeys", "NeighborUpdate">>)
    /\ UNCHANGED <<ev, call, listVars, keyVars, snd, rx, calls, rotations, probes>>

\* An own message is decrypted with the key of its entry.
OwnDecodable == hand.key = IF hand.kind = "kcm" THEN old_key ELSE key

\* Mutant: only the event of the applications is set.
FwdOwnPublishSpace ==
    /\ At("fwd", "own")
    /\ OwnDecodable
    /\ Set({"UserSpace"})
    /\ Go("fwd", "home", <<>>)
    /\ UNCHANGED <<call, peer, listVars, keyVars, snd, hand, rx, bounds>>

\* An own message is published; the receive thread skips it.
FwdOwnPublish ==
    /\ At("fwd", "own")
    /\ OwnDecodable
    /\ Set({"UserSpace", "UserCtrl"})
    /\ Go("fwd", "home", <<>>)
    /\ UNCHANGED <<call, peer, listVars, keyVars, snd, hand, rx, bounds>>

\* Mutant: the message is dropped and its sender forgotten.
FwdOwnDropHolding ==
    /\ At("fwd", "own")
    /\ ~OwnDecodable
    /\ Go("fwd", "home", <<>>)
    /\ UNCHANGED <<ev, call, peer, listVars, keyVars, snd, hand, rx, bounds>>

\* It was encrypted before the key changed: dropped, and the senders may go on.
FwdOwnDrop ==
    /\ At("fwd", "own")
    /\ ~OwnDecodable
    /\ Set({"UserSpace", "UserCtrl"})
    /\ Go("fwd", "home", <<>>)
    /\ UNCHANGED <<call, peer, listVars, keyVars, snd, hand, rx, bounds>>

FwdUnknown ==
    /\ At("fwd", "nbrRun")
    /\ peer["fwd"] \notin globalNeighborList
    /\ Go("fwd", "home", <<>>)
    /\ UNCHANGED <<ev, call, peer, listVars, keyVars, snd, hand, rx, bounds>>

FwdPublish ==
    /\ At("fwd", "nbrRun")
    /\ peer["fwd"] \in globalNeighborList
    /\ hand.good
    /\ rx' = Append(rx, [kind |-> hand.kind, from |-> peer["fwd"], key |-> key])
    /\ lostMessages' = [lostMessages EXCEPT ![peer["fwd"]] = 0]
    /\ Go("fwd", "home", <<>>)
    /\ UNCHANGED <<ev, call, peer, globalNeighborList, keyVars, snd, hand, bounds>>

\* Neither key verifies the signature: let a key change finish, try again.
FwdPause ==
    /\ At("fwd", "nbrRun")
    /\ peer["fwd"] \in globalNeighborList
    /\ ~hand.good
    /\ Set({"NeighborMessage"})
    /\ Go("fwd", "retry", Update)
    /\ UNCHANGED <<call, peer, listVars, keyVars, snd, hand, rx, bounds>>

\* The second try uses the same key.  The counter decides what follows.
FwdRetry ==
    LET p == peer["fwd"]
        lost == lostMessages[p] + 1
    IN  /\ At("fwd", "retryRun")
        /\ IF p \notin globalNeighborList
           THEN Go("fwd", "dead", <<>>) /\ UNCHANGED <<ev, listVars>>
           ELSE /\ lostMessages' = [lostMessages EXCEPT ![p] =
                                      IF lost >= LostLimit THEN 0 ELSE lost]
                /\ IF lost >= LostLimit /\ p \in NoFreq
                   THEN Set({"NeighborMessage"} \cup LeftEvents) /\ onAPLeft({p})
                   ELSE Set({"NeighborMessage"}) /\ UNCHANGED globalNeighborList
                /\ IF lost >= LostLimit /\ p \notin NoFreq
                   THEN Go("fwd", "rescan", Update)
                   ELSE Go("fwd", "home", <<>>)
        /\ UNCHANGED <<call, peer, keyVars, snd, hand, rx, bounds>>

FwdRescan ==
    /\ At("fwd", "rescanRun")
    /\ Rescan("fwd")
    /\ UNCHANGED <<call, peer, lostMessages, keyVars, snd, hand, rx, bounds>>

Forwarder ==
    \/ FwdTakeOwn
    \/ FwdOwnPublish
    \/ FwdOwnDrop
    \/ ClearAt("fwd", "nbr", "NeighborMessage", "nbrRun")
    \/ FwdUnknown
    \/ FwdPublish
    \/ FwdPause
    \/ ClearAt("fwd", "retry", "NeighborMessage", "retryRun")
    \/ FwdRetry
    \/ ClearAt("fwd", "rescan", "NeighborUpdate", "rescanRun")
    \/ FwdRescan

-----------------------------------------------------------------------------
(* The receive thread (receiveMessage)                                     *)

\* The key changed after the forwarder encrypted the message.
RxSkip ==
    /\ At("rx", "home")
    /\ rx # <<>>
    /\ Head(rx).key # key
    /\ rx' = Tail(rx)
    /\ UNCHANGED <<ev, threadVars, listVars, keyVars, snd, hand, bounds>>

RxTake ==
    /\ At("rx", "home")
    /\ rx # <<>>
    /\ Head(rx).key = key
    /\ rx' = Tail(rx)
    /\ Set({"NeighborMessage"})
    /\ peer' = [peer EXCEPT !["rx"] = Head(rx).from]
    /\ CASE Head(rx).kind = "kcm" ->
              /\ Go("rx", "kcm", <<"UserSpace", "UserCtrl", "ProbeRequest",
                                   "ChangeKeys", "NeighborMessage">>)
              /\ UNCHANGED call
         [] Head(rx).kind = "ruk" /\ Head(rx).from \in globalNeighborList ->
              Send("rx", "nuk", Head(rx).from, "home")
         [] OTHER -> UNCHANGED <<pc, todo, call>>
    /\ UNCHANGED <<listVars, keyVars, snd, hand, bounds>>

\* Mutant: nothing is set for a kcm of a host that left the list.
RxKcmHolding ==
    /\ At("rx", "kcmRun")
    /\ UNCHANGED ev
    /\ IF peer["rx"] \in globalNeighborList
       THEN Go("rx", "kcmScan", <<>>) ELSE Go("rx", "home", <<>>)
    /\ UNCHANGED <<call, peer, listVars, keyVars, snd, hand, rx, bounds>>

\* The host of a kcm is looked up, and scanned for if it is there.
RxKcm ==
    /\ At("rx", "kcmRun")
    /\ IF peer["rx"] \in globalNeighborList
       THEN Go("rx", "kcmScan", <<>>) /\ UNCHANGED ev
       ELSE Go("rx", "home", <<>>) /\ Set({"NeighborUpdate"})
    /\ UNCHANGED <<call, peer, listVars, keyVars, snd, hand, rx, bounds>>

RxRescan ==
    /\ At("rx", "kcmScan")
    /\ Rescan("rx")
    /\ UNCHANGED <<call, peer, lostMessages, keyVars, snd, hand, rx, bounds>>

Receiver ==
    \/ RxSkip
    \/ RxTake
    \/ ClearAt("rx", "kcm", "NeighborUpdate", "kcmRun")
    \/ RxKcm
    \/ RxRescan

-----------------------------------------------------------------------------
(* The key change thread (changeKeys, validateCurrentNeighborList)         *)

\* The sleep of keyChangeInterval is over.
KeysWake ==
    /\ At("keys", "home")
    /\ rotations < MaxRotations
    /\ rotations' = rotations + 1
    /\ Go("keys", "rotate", <<"UserSpace", "UserCtrl", "ProbeRequest">>)
    /\ UNCHANGED <<ev, call, peer, listVars, keyVars, snd, hand, rx, ins, calls, probes>>

KeysRotate ==
    /\ At("keys", "newKey")
    /\ key' = key + 1
    /\ Set({"ChangeKeys"})
    /\ Send("keys", "kcm", Bcast, "validate")
    /\ UNCHANGED <<old_key, peer, listVars, snd, hand, rx, bounds>>

\* The neighbours without a recent kcm are removed, whichever they are.
KeysExpire ==
    /\ At("keys", "expire")
    /\ \E P \in SUBSET globalNeighborList :
          \/ /\ Connected \/ P = {}
             /\ onAPLeft(P)
             /\ Set({"NeighborUpdate"})
             /\ Go("keys", "home", <<>>)
          \/ /\ ~Connected /\ P # {}
             /\ Go("keys", "dead", <<>>)
             /\ UNCHANGED <<ev, globalNeighborList>>
    /\ UNCHANGED <<call, peer, lostMessages, keyVars, snd, hand, rx, bounds>>

KeyChanger ==
    \/ ClearAt("keys", "rotate", "ChangeKeys", "newKey")
    \/ KeysRotate
    \/ ClearAt("keys", "validate", "NeighborUpdate", "expire")
    \/ KeysExpire

-----------------------------------------------------------------------------
(* The probe request thread (handle_incoming_probe_requests, onAPJoined)   *)

ProbeArrives(p) ==
    /\ At("probe", "home")
    /\ probes < MaxProbes
    /\ probes' = probes + 1
    /\ peer' = [peer EXCEPT !["probe"] = p]
    /\ Go("probe", "join", <<"ChangeKeys", "NeighborUpdate", "UserSpace", "UserCtrl">>)
    /\ UNCHANGED <<ev, call, listVars, keyVars, snd, hand, rx, ins, calls, rotations>>

\* A new neighbour is announced to the application, whose newLink_cb asks it
\* for a session key; ProbeRequest is set before, for the call to get through.
ProbeJoin ==
    LET p == peer["probe"]
        new == p \notin globalNeighborList /\ Connected
    IN  /\ At("probe", "joinRun")
        /\ IF new
           THEN /\ globalNeighborList' = globalNeighborList \cup {p}
                /\ lostMessages' = [lostMessages EXCEPT ![p] = 0]
           ELSE UNCHANGED listVars
        /\ IF new /\ Registered
           THEN Set({"ProbeRequest"}) /\ Send("probe", "ruk", p, "joined")
           ELSE UNCHANGED <<ev, call>> /\ Go("probe", "joined", <<>>)
        /\ UNCHANGED <<peer, keyVars, snd, hand, rx, bounds>>

ProbeDone ==
    /\ At("probe", "joined")
    /\ Set({"ProbeRequest"})
    /\ Go("probe", "home", <<>>)
    /\ UNCHANGED <<call, peer, listVars, keyVars, snd, hand, rx, bounds>>

Prober ==
    \/ ClearAt("probe", "join", "ProbeRequest", "joinRun")
    \/ ProbeJoin
    \/ ProbeDone

-----------------------------------------------------------------------------
(* The application                                                         *)

AppCall(kind, to) ==
    /\ At("app", "home")
    /\ calls < MaxCalls
    /\ calls' = calls + 1
    /\ Send("app", kind, to, "home")
    /\ UNCHANGED <<ev, peer, listVars, keyVars, snd, hand, rx, ins, rotations, probes>>

sendToNeighbors == "broadcast" \in Calls /\ AppCall("data", Bcast)

\* The neighbour was in the list, with its session key or without it.
sendToNeighbor(p) ==
    /\ p \in globalNeighborList
    /\ \/ "unicast" \in Calls /\ AppCall("uni", p)
       \/ "ruk" \in Calls /\ AppCall("ruk", p)

-----------------------------------------------------------------------------
\* What each thread does once it has started on something.
Step(t) ==
    \/ Wait(t)
    \/ SendClear(t) \/ Flood(t) \/ FloodUnknown(t)
    \/ t = "fwd" /\ Forwarder
    \/ t = "rx" /\ Receiver
    \/ t = "keys" /\ KeyChanger
    \/ t = "probe" /\ Prober

\* What starts it.
Start ==
    \/ \E p \in Nbr, a \in Arrivals : FwdTakeNbr(p, a)
    \/ KeysWake
    \/ \E p \in Nbr : ProbeArrives(p)
    \/ sendToNeighbors
    \/ \E p \in Nbr : sendToNeighbor(p)

Next == Start \/ \E t \in Thread : Step(t)

Spec == Init /\ [][Next]_vars

\* Every thread is scheduled by the interpreter whenever it can run.
Fairness == \A t \in Thread : WF_vars(Step(t))

FairSpec == Spec /\ Fairness

-----------------------------------------------------------------------------
(* Properties                                                              *)

\* Each variable holds values of the kind the agent gives it.
TypeOK ==
    /\ ev \in [Event -> BOOLEAN]
    /\ pc \in [Thread -> Label]
    /\ todo \in [Thread -> Seq(Event)]
    /\ call \in [Thread -> [kind : {"none", "data", "uni", "ruk", "nuk", "kcm"},
                            to : Nbr \cup {Bcast}, ret : Label]]
    /\ peer \in [Thread -> Nbr]
    /\ globalNeighborList \in SUBSET Nbr
    /\ lostMessages \in [Nbr -> Nat]
    /\ key \in Nat /\ old_key \in Nat
    /\ snd \in Seq(OwnMessage)
    /\ hand \in [good : BOOLEAN, kind : {"data", "kcm", "ruk"}, key : Nat]
    /\ rx \in Seq(NbrMessage)

\* Some own message is between the clear() of its sender and the forwarder.
OwnPending ==
    \/ \E t \in Thread : pc[t] = "flood"
    \/ snd # <<>>
    \/ pc["fwd"] = "own"

\* An event that is cleared has someone on the way to set it: UserSpace a
\* message that the own forwarder has not finished, ProbeRequest the probe
\* thread between joining and done, ChangeKeys the key change thread while
\* it replaces the key.  No path, with an early return or a message that
\* cannot be decoded in it, leaves one of these three cleared for ever.
EventsHeld ==
    /\ ~ev["UserSpace"] => OwnPending
    /\ ~ev["ProbeRequest"] => pc["probe"] \in {"joinRun", "joined"}
    /\ ~ev["ChangeKeys"] => pc["keys"] = "newKey"

\* The threads that rescan or remove neighbours.
Updaters == {t \in Thread : pc[t] \in {"rescanRun", "kcmRun", "kcmScan", "expire"}}

\* NeighborUpdate, which the forwarder and the probe requests wait for, is
\* left cleared by nobody but a forwarder that has ended: not by a receive
\* thread that dies because another thread removed the neighbour it was
\* scanning for, and not when the host of a kcm is unknown.  It takes an
\* application, or the frequencies of all neighbours: the removal of one
\* without a frequency sets the event only for an application.
UpdateHeld ==
    (Registered \/ NoFreq = {}) /\ ~ev["NeighborUpdate"]
       => Updaters # {} \/ pc["fwd"] = "dead"

\* A call of the application into the agent returns (sendToNeighbors and
\* sendToNeighbor are synchronous up to the publication of the message) as long
\* as there is a forwarder: every path through it, whatever it does with the
\* message, lets the senders go on.
SendReturns == (pc["app"] # "home") ~> (pc["app"] = "home" \/ pc["fwd"] = "dead")

\* The receive thread in the middle of a kcm and the key change thread before
\* it validates its list wait for four or five events in a row.  The one that
\* can keep them for ever is NeighborMessage, which the forwarder clears for
\* each message of a neighbour and leaves cleared when its host is unknown:
\* each of the others comes, in whatever order the senders clear them again.
StuckOnlyOnMessage ==
    \A t \in {"rx", "keys"} :
        <>[](pc[t] \in {"kcm", "validate"})
           => <>[](~ev["NeighborMessage"]) \/ <>(pc["fwd"] = "dead")
=============================================================================
