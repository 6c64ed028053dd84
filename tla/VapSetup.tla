------------------------------ MODULE VapSetup -------------------------------
(***************************************************************************)
(* The nxWLAN application (framework/apps/cran.py).  Every access point    *)
(* has a home network and extends it to its neighbours: it enters a local  *)
(* VAP, asks the neighbour to set up the termination point (a remote VAP), *)
(* and completes the VAP when the neighbour sends its half of the tunnel   *)
(* configuration.  Each side then adds the tunnel to its P4 switch and     *)
(* wires the port: to hwsim0 (port 0) for a local VAP, to inject0 (port 1) *)
(* for a remote one.                                                       *)
(*                                                                         *)
(* Three threads of an agent run this code: the application's own (run),   *)
(* the receive thread (rx_cb) and the probe request thread (newLink_cb).   *)
(* The tunnel, session and UDP port numbers of a VAP come from counters    *)
(* that advance together; one number stands for them.  A generate call     *)
(* reads its counter and then writes it: a thread may be suspended between *)
(* the two (SuspendGenerate).                                              *)
(***************************************************************************)
EXTENDS Integers, Sequences

CONSTANTS
    Node,
    Linked,         \* pairs <<n, p>> in the neighbour lists at the start
    Keyed,          \* pairs <<n, p>> such that n has a session key for p
    MaxLinks,       \* bound: neighbours found later
    MaxLoss,        \* bound: calls of sendToNeighbor that fail, messages lost
    MaxLeaves,      \* bound: neighbours that disappear
    MaxBoots,       \* bound: restarts
    MaxSuspends     \* bound: thread switches in the middle of a generate call

ASSUME VapAssumption ==
    /\ Linked \subseteq Node \X Node /\ \A n \in Node : <<n, n>> \notin Linked
    /\ Keyed \subseteq {l \in Linked : <<l[2], l[1]>> \in Linked}
    /\ MaxLinks \in Nat /\ MaxLoss \in Nat /\ MaxLeaves \in Nat /\ MaxBoots \in Nat
    /\ MaxSuspends \in Nat

Thread == {"run", "rx", "probe"}
None == 0
HWSIM0 == 0
INJECT0 == 1

VARIABLES
    neighbors,      \* getNeighbors() of each agent
    session,        \* pairs <<n, p>> such that n has a session key for p,
    accepted,       \* and those such that p can decrypt what n sends with it
    local_vaps, remote_vaps,    \* the lists of each VapManager
    generator,      \* the next number of each VapManager
    port_id_generator, table_wire_ports,    \* of each P4 switch
    started, msgQueue, drained,     \* drained: messages run() has processed
    todo,           \* the neighbours run() has still to initialize
    job,            \* what each thread is doing
    chan,           \* chan[n][p]: unicast messages from n to p
    links, losses, leaves, boots, suspends

keys == <<session, accepted>>
bounds == <<links, losses, leaves, boots, suspends>>
vapVars == <<local_vaps, remote_vaps, generator>>
p4Vars == <<port_id_generator, table_wire_ports>>
runVars == <<started, msgQueue, drained, todo>>
vars == <<neighbors, keys, vapVars, p4Vars, runVars, job, chan, bounds>>

\* A VAP: its neighbour, its own number and the neighbour's, its port.
Vap == [neighbor : Node, id : Nat, peer : Nat, port : Nat]
Message == [type : {"request", "completed"}, id : Nat]

\* The job of a thread: where it is, with whom, the number it works with, and
\* the value a suspended generate call has read.
Job(pc, p, id) == [pc |-> pc, with |-> p, id |-> id, read |-> None]

Boot(n) == [t \in Thread |-> Job(IF t = "run" THEN "sleep" ELSE "idle", n, None)]

Init ==
    /\ neighbors = [n \in Node |-> {p \in Node : <<n, p>> \in Linked}]
    /\ session = Keyed /\ accepted = Keyed
    /\ local_vaps = [n \in Node |-> <<>>]
    /\ remote_vaps = [n \in Node |-> <<>>]
    /\ generator = [n \in Node |-> 1]
    /\ port_id_generator = [n \in Node |-> 2]
    /\ table_wire_ports = [n \in Node |-> {}]
    /\ started = [n \in Node |-> FALSE]
    /\ msgQueue = [n \in Node |-> <<>>]
    /\ drained = [n \in Node |-> 0]
    /\ todo = [n \in Node |-> {}]
    /\ job = [n \in Node |-> Boot(n)]
    /\ chan = [n \in Node |-> [p \in Node |-> <<>>]]
    /\ links = 0 /\ losses = 0 /\ leaves = 0 /\ boots = 0 /\ suspends = 0

-----------------------------------------------------------------------------
Doing(n, t, pc) == job[n][t].pc = pc

Become(n, t, pc, p, id) == job' = [job EXCEPT ![n][t] = Job(pc, p, id)]

\* Mutant: every thread goes on with the loop of run().
HomeLoop(t) == "loop"

\* Where a thread goes on after a call: run() has a loop of its own.
Home(t) == IF t = "run" THEN "loop" ELSE "idle"

Done(n, t) == Become(n, t, Home(t), n, None)

\* The positions of p in a list of VAPs; the first one is what the lookups find.
Places(vaps, p) == {i \in DOMAIN vaps : vaps[i].neighbor = p}
First(vaps, p) == CHOOSE i \in Places(vaps, p) : \A j \in Places(vaps, p) : i <= j

\* sendToNeighbor by thread t: the message gets on its way, after a session
\* key was obtained from p when there was none, which takes p to know n; or no
\* key is obtained; or p is no neighbour.  The receive thread never obtains a
\* key: the answer to its request waits for itself.
sendToNeighbor(n, t, p, msg) ==
    \/ /\ p \in neighbors[n]
       /\ <<n, p>> \in session
       /\ chan' = [chan EXCEPT ![n][p] = Append(@, msg)]
       /\ UNCHANGED <<keys, losses>>
    \/ /\ p \in neighbors[n] /\ n \in neighbors[p]
       /\ <<n, p>> \notin session /\ t # "rx"
       /\ session' = session \cup {<<n, p>>}
       /\ accepted' = accepted \cup {<<n, p>>}
       /\ chan' = [chan EXCEPT ![n][p] = Append(@, msg)]
       /\ UNCHANGED losses
    \/ /\ p \in neighbors[n]
       /\ <<n, p>> \notin session
       /\ IF t = "rx" \/ n \notin neighbors[p] THEN UNCHANGED losses
          ELSE losses < MaxLoss /\ losses' = losses + 1
       /\ UNCHANGED <<keys, chan>>
    \/ /\ p \notin neighbors[n]
       /\ UNCHANGED <<keys, chan, losses>>

\* table_add table_wire_ports send_to_port in => out; the switch refuses a
\* second entry for the same key.
Wire(table, in, out) ==
    IF \E e \in table : e[1] = in THEN table ELSE table \cup {<<in, out>>}

\* What a generate call returns: the value read before a suspension, or the
\* counter.  It then writes that value plus one.
Generated(n, t, counter) ==
    IF job[n][t].read = None THEN counter[n] ELSE job[n][t].read

\* Mutant: the counter is not written.
GenerateOnly(n, t, counter) == counter' = counter

Generate(n, t, counter) == counter' = [counter EXCEPT ![n] = Generated(n, t, counter) + 1]

\* A generate call has read its counter and is suspended before it writes.
SuspendGenerate(n, t) ==
    /\ suspends < MaxSuspends
    /\ job[n][t].pc \in {"enter", "admit", "terminate", "connect"}
    /\ job[n][t].read = None
    /\ suspends' = suspends + 1
    /\ job' = [job EXCEPT ![n][t].read =
                  IF job[n][t].pc \in {"enter", "admit"} THEN generator[n]
                  ELSE port_id_generator[n]]
    /\ UNCHANGED <<neighbors, keys, vapVars, p4Vars, runVars, chan, links, losses,
                   leaves, boots>>

\* Mutant: the entries name the port after the one that was added.
ConnectNext(n, t, radio) ==
    LET port == Generated(n, t, port_id_generator) + 1
    IN  /\ Generate(n, t, port_id_generator)
        /\ table_wire_ports' = [table_wire_ports EXCEPT ![n] =
                                  Wire(Wire(@, radio, port), port, radio)]

\* setup_local_tunnel, add_tunnel_port and start_forwarding_frames
Connect(n, t, radio) ==
    LET port == Generated(n, t, port_id_generator)
    IN  /\ Generate(n, t, port_id_generator)
        /\ table_wire_ports' = [table_wire_ports EXCEPT ![n] =
                                  Wire(Wire(@, radio, port), port, radio)]

\* The VAP a thread works on keeps its port, if it is still listed.
WithPort(n, t, vaps) ==
    LET mine == {i \in Places(vaps, job[n][t].with) : vaps[i].id = job[n][t].id}
    IN  [i \in DOMAIN vaps |->
           IF i \in mine /\ \A j \in mine : i <= j
           THEN [vaps[i] EXCEPT !.port = Generated(n, t, port_id_generator)]
           ELSE vaps[i]]

-----------------------------------------------------------------------------
(* VapManager.initialize_local_vap                                         *)

CheckLocal(n, t) ==
    LET p == job[n][t].with
    IN  /\ Doing(n, t, "initialize")
        /\ IF Places(local_vaps[n], p) # {} THEN Done(n, t)
           ELSE Become(n, t, "enter", p, None)
        /\ UNCHANGED <<neighbors, keys, vapVars, p4Vars, runVars, chan, bounds>>

EnterLocal(n, t) ==
    LET p == job[n][t].with
    IN  /\ Doing(n, t, "enter")
        /\ Generate(n, t, generator)
        /\ local_vaps' = [local_vaps EXCEPT ![n] =
                            Append(@, [neighbor |-> p, id |-> Generated(n, t, generator),
                                       peer |-> None, port |-> None])]
        /\ Become(n, t, "request", p, Generated(n, t, generator))
        /\ UNCHANGED <<neighbors, keys, remote_vaps, p4Vars, runVars, chan, bounds>>

request_remote_vap_setup(n, t) ==
    /\ Doing(n, t, "request")
    /\ sendToNeighbor(n, t, job[n][t].with, [type |-> "request", id |-> job[n][t].id])
    /\ Done(n, t)
    /\ UNCHANGED <<neighbors, vapVars, p4Vars, runVars, links, leaves, boots, suspends>>

-----------------------------------------------------------------------------
(* VapManager.create_remote_vap                                            *)

\* A second request of a neighbour is not answered.
CheckRemote(n, t) ==
    LET p == job[n][t].with
    IN  /\ Doing(n, t, "create")
        /\ IF Places(remote_vaps[n], p) # {} THEN Done(n, t)
           ELSE Become(n, t, "admit", p, job[n][t].id)
        /\ UNCHANGED <<neighbors, keys, vapVars, p4Vars, runVars, chan, bounds>>

\* Mutant: the own number is entered for the neighbour's.
EnterRemoteOwn(n, t) ==
    LET p == job[n][t].with
    IN  /\ Doing(n, t, "admit")
        /\ Generate(n, t, generator)
        /\ remote_vaps' = [remote_vaps EXCEPT ![n] =
                             Append(@, [neighbor |-> p, id |-> Generated(n, t, generator),
                                        peer |-> Generated(n, t, generator), port |-> None])]
        /\ Become(n, t, "answer", p, Generated(n, t, generator))
        /\ UNCHANGED <<neighbors, keys, local_vaps, p4Vars, runVars, chan, bounds>>

EnterRemote(n, t) ==
    LET p == job[n][t].with
    IN  /\ Doing(n, t, "admit")
        /\ Generate(n, t, generator)
        /\ remote_vaps' = [remote_vaps EXCEPT ![n] =
                             Append(@, [neighbor |-> p, id |-> Generated(n, t, generator),
                                        peer |-> job[n][t].id, port |-> None])]
        /\ Become(n, t, "answer", p, Generated(n, t, generator))
        /\ UNCHANGED <<neighbors, keys, local_vaps, p4Vars, runVars, chan, bounds>>

\* sent_config_to_local_vap; what follows does not depend on its result.
sent_config_to_local_vap(n, t) ==
    /\ Doing(n, t, "answer")
    /\ sendToNeighbor(n, t, job[n][t].with, [type |-> "completed", id |-> job[n][t].id])
    /\ Become(n, t, "terminate", job[n][t].with, job[n][t].id)
    /\ UNCHANGED <<neighbors, vapVars, p4Vars, runVars, links, leaves, boots, suspends>>

ConnectRemote(n, t) ==
    /\ Doing(n, t, "terminate")
    /\ Connect(n, t, INJECT0)
    /\ remote_vaps' = [remote_vaps EXCEPT ![n] = WithPort(n, t, @)]
    /\ Done(n, t)
    /\ UNCHANGED <<neighbors, keys, local_vaps, generator, runVars, chan, bounds>>

-----------------------------------------------------------------------------
(* VapManager.complete_local_vap, remove_vap                               *)

\* The lookup, and the neighbour's half of the configuration.
complete_local_vap(n, t) ==
    LET p == job[n][t].with
        i == First(local_vaps[n], p)
    IN  /\ Doing(n, t, "complete")
        /\ IF Places(local_vaps[n], p) = {}
           THEN Done(n, t) /\ UNCHANGED local_vaps
           ELSE /\ local_vaps' = [local_vaps EXCEPT ![n][i].peer = job[n][t].id]
                /\ Become(n, t, "connect", p, local_vaps[n][i].id)
        /\ UNCHANGED <<neighbors, keys, remote_vaps, generator, p4Vars, runVars,
                       chan, bounds>>

\* The tunnel takes seconds to set up; the VAP may be removed meanwhile.
ConnectLocal(n, t) ==
    /\ Doing(n, t, "connect")
    /\ Connect(n, t, HWSIM0)
    /\ local_vaps' = [local_vaps EXCEPT ![n] = WithPort(n, t, @)]
    /\ Done(n, t)
    /\ UNCHANGED <<neighbors, keys, remote_vaps, generator, runVars, chan, bounds>>

Without(vaps, i) == SubSeq(vaps, 1, i - 1) \o SubSeq(vaps, i + 1, Len(vaps))

\* onAPLeft and linkFailure_cb: the first local VAP of p goes, nothing else.
linkFailure_cb(n, p) ==
    /\ leaves < MaxLeaves
    /\ p \in neighbors[n]
    /\ leaves' = leaves + 1
    /\ neighbors' = [neighbors EXCEPT ![n] = @ \ {p}]
    /\ session' = session \ {<<n, p>>}
    /\ accepted' = accepted \ {<<p, n>>}
    /\ local_vaps' = IF Places(local_vaps[n], p) = {} THEN local_vaps
                     ELSE [local_vaps EXCEPT ![n] = Without(@, First(@, p))]
    /\ UNCHANGED <<remote_vaps, generator, p4Vars, runVars, job, chan, links,
                   losses, boots, suspends>>

\* onAPJoined and newLink_cb, in the probe request thread
newLink_cb(n, p) ==
    /\ links < MaxLinks
    /\ n # p /\ p \notin neighbors[n]
    /\ Doing(n, "probe", "idle")
    /\ links' = links + 1
    /\ neighbors' = [neighbors EXCEPT ![n] = @ \cup {p}]
    /\ Become(n, "probe", "initialize", p, None)
    /\ UNCHANGED <<keys, vapVars, p4Vars, runVars, chan, losses, leaves, boots,
                   suspends>>

-----------------------------------------------------------------------------
(* ResFiApp.run, process_msg and rx_cb                                     *)

process_msg(n, t, p, msg) ==
    Become(n, t, IF msg.type = "request" THEN "create" ELSE "complete", p, msg.id)

\* After the 30 s: the neighbours there are now.
RunNeighbors(n) ==
    /\ Doing(n, "run", "sleep")
    /\ todo' = [todo EXCEPT ![n] = neighbors[n]]
    /\ Done(n, "run")
    /\ UNCHANGED <<neighbors, keys, vapVars, p4Vars, started, msgQueue, drained,
                   chan, bounds>>

RunInitialize(n, p) ==
    /\ Doing(n, "run", "loop")
    /\ p \in todo[n]
    /\ todo' = [todo EXCEPT ![n] = @ \ {p}]
    /\ Become(n, "run", "initialize", p, None)
    /\ UNCHANGED <<neighbors, keys, vapVars, p4Vars, started, msgQueue, drained,
                   chan, bounds>>

RunStarted(n) ==
    /\ Doing(n, "run", "loop")
    /\ todo[n] = {} /\ ~started[n]
    /\ started' = [started EXCEPT ![n] = TRUE]
    /\ UNCHANGED <<neighbors, keys, vapVars, p4Vars, msgQueue, drained, todo,
                   job, chan, bounds>>

\* Mutant: the loop over the queue does not advance.
RunDrainStay(n) ==
    /\ Doing(n, "run", "loop")
    /\ started[n] /\ drained[n] < Len(msgQueue[n])
    /\ process_msg(n, "run", msgQueue[n][drained[n] + 1].from,
                   msgQueue[n][drained[n] + 1].msg)
    /\ UNCHANGED <<neighbors, keys, vapVars, p4Vars, runVars, chan, bounds>>

RunDrain(n) ==
    /\ Doing(n, "run", "loop")
    /\ started[n] /\ drained[n] < Len(msgQueue[n])
    /\ drained' = [drained EXCEPT ![n] = @ + 1]
    /\ process_msg(n, "run", msgQueue[n][drained[n] + 1].from,
                   msgQueue[n][drained[n] + 1].msg)
    /\ UNCHANGED <<neighbors, keys, vapVars, p4Vars, started, msgQueue, todo,
                   chan, bounds>>

\* The queue is empty: from here on run() only announces its backhaul.
RunDrained(n) ==
    /\ Doing(n, "run", "loop")
    /\ started[n] /\ drained[n] = Len(msgQueue[n])
    /\ Become(n, "run", "control", n, None)
    /\ UNCHANGED <<neighbors, keys, vapVars, p4Vars, runVars, chan, bounds>>

\* rx_cb looks at started, then appends to the queue or processes.
rx_cb(n, p) ==
    /\ Doing(n, "rx", "idle")
    /\ chan[p][n] # <<>> /\ <<p, n>> \in accepted
    /\ chan' = [chan EXCEPT ![p][n] = Tail(@)]
    /\ IF started[n] THEN process_msg(n, "rx", p, Head(chan[p][n]))
       ELSE Become(n, "rx", IF Head(chan[p][n]).type = "request"
                            THEN "queueRequest" ELSE "queueCompleted",
                   p, Head(chan[p][n]).id)
    /\ UNCHANGED <<neighbors, keys, vapVars, p4Vars, runVars, bounds>>

\* The agent of n does not know p, or has lost its session key.
RxDrop(n, p) ==
    /\ Doing(n, "rx", "idle")
    /\ chan[p][n] # <<>> /\ <<p, n>> \notin accepted
    /\ chan' = [chan EXCEPT ![p][n] = Tail(@)]
    /\ losses' = losses + 1
    /\ UNCHANGED <<neighbors, keys, vapVars, p4Vars, runVars, job, links, leaves,
                   boots, suspends>>

\* Mutant: a message that arrives too early is thrown away.
RxQueueNot(n) ==
    /\ Doing(n, "rx", "queueRequest") \/ Doing(n, "rx", "queueCompleted")
    /\ Done(n, "rx")
    /\ UNCHANGED <<neighbors, keys, vapVars, p4Vars, runVars, chan, bounds>>

RxQueue(n) ==
    /\ Doing(n, "rx", "queueRequest") \/ Doing(n, "rx", "queueCompleted")
    /\ msgQueue' = [msgQueue EXCEPT ![n] =
           Append(@, [from |-> job[n]["rx"].with,
                      msg |-> [type |-> IF Doing(n, "rx", "queueRequest")
                                        THEN "request" ELSE "completed",
                               id |-> job[n]["rx"].id]])]
    /\ Done(n, "rx")
    /\ UNCHANGED <<neighbors, keys, vapVars, p4Vars, started, drained, todo,
                   chan, bounds>>

-----------------------------------------------------------------------------
(* Failures                                                                *)

Lose(n, p) ==
    /\ losses < MaxLoss
    /\ chan[n][p] # <<>>
    /\ losses' = losses + 1
    /\ chan' = [chan EXCEPT ![n][p] = Tail(@)]
    /\ UNCHANGED <<neighbors, keys, vapVars, p4Vars, runVars, job, links,
                   leaves, boots, suspends>>

\* n starts again and finds the neighbours it had; theirs still list n.
Restart(n) ==
    /\ boots < MaxBoots
    /\ boots' = boots + 1
    /\ session' = {s \in session : s[1] # n}
    /\ accepted' = {s \in accepted : s[2] # n}
    /\ local_vaps' = [local_vaps EXCEPT ![n] = <<>>]
    /\ remote_vaps' = [remote_vaps EXCEPT ![n] = <<>>]
    /\ generator' = [generator EXCEPT ![n] = 1]
    /\ port_id_generator' = [port_id_generator EXCEPT ![n] = 2]
    /\ table_wire_ports' = [table_wire_ports EXCEPT ![n] = {}]
    /\ started' = [started EXCEPT ![n] = FALSE]
    /\ msgQueue' = [msgQueue EXCEPT ![n] = <<>>]
    /\ drained' = [drained EXCEPT ![n] = 0]
    /\ todo' = [todo EXCEPT ![n] = {}]
    /\ job' = [job EXCEPT ![n] = Boot(n)]
    /\ chan' = [q \in Node |-> [p \in Node |-> IF n \in {p, q} THEN <<>> ELSE chan[q][p]]]
    /\ UNCHANGED <<neighbors, links, losses, leaves, suspends>>

-----------------------------------------------------------------------------
Work(n, t) ==
    \/ CheckLocal(n, t) \/ EnterLocal(n, t) \/ request_remote_vap_setup(n, t)
    \/ CheckRemote(n, t) \/ EnterRemote(n, t) \/ sent_config_to_local_vap(n, t)
    \/ ConnectRemote(n, t) \/ complete_local_vap(n, t) \/ ConnectLocal(n, t)

Run(n) ==
    \/ RunNeighbors(n) \/ RunStarted(n) \/ RunDrain(n) \/ RunDrained(n)
    \/ \E p \in Node : RunInitialize(n, p)

Receive(n) == RxQueue(n) \/ \E p \in Node : rx_cb(n, p) \/ RxDrop(n, p)

Next ==
    \E n \in Node :
        \/ \E t \in Thread : Work(n, t) \/ SuspendGenerate(n, t)
        \/ Run(n)
        \/ Receive(n)
        \/ \E p \in Node : newLink_cb(n, p) \/ linkFailure_cb(n, p) \/ Lose(n, p)
        \/ Restart(n)

Spec == Init /\ [][Next]_vars

\* Threads run.
Fairness ==
    \A n \in Node : WF_vars(Run(n)) /\ WF_vars(Receive(n))
                    /\ \A t \in Thread : WF_vars(Work(n, t))

FairSpec == Spec /\ Fairness

-----------------------------------------------------------------------------
(* Properties                                                              *)

\* Where a thread may be: the three share the operations of the VapManager.
Place(t) ==
    {"initialize", "enter", "request", "create", "admit", "answer", "terminate",
     "complete", "connect"}
    \cup CASE t = "run"   -> {"sleep", "loop", "control"}
           [] t = "rx"    -> {"idle", "queueRequest", "queueCompleted"}
           [] t = "probe" -> {"idle"}

\* Each variable holds values of the kind the application gives it.
TypeOK ==
    /\ neighbors \in [Node -> SUBSET Node]
    /\ session \subseteq Node \X Node /\ accepted \subseteq Node \X Node
    /\ local_vaps \in [Node -> Seq(Vap)] /\ remote_vaps \in [Node -> Seq(Vap)]
    /\ generator \in [Node -> Nat] /\ port_id_generator \in [Node -> Nat]
    /\ table_wire_ports \in [Node -> SUBSET (Nat \X Nat)]
    /\ started \in [Node -> BOOLEAN] /\ drained \in [Node -> Nat]
    /\ msgQueue \in [Node -> Seq([from : Node, msg : Message])]
    /\ todo \in [Node -> SUBSET Node]
    /\ \A n \in Node, t \in Thread :
          job[n][t] \in [pc : Place(t), with : Node, id : Nat, read : Nat]
    /\ chan \in [Node -> [Node -> Seq(Message)]]

\* The two ends of a tunnel fit: the number a completed local VAP has for its
\* neighbour is the one of a remote VAP there, which has been set up for this
\* access point; and the number that one has for this side is that of the local
\* VAP.  The former lasts until an access point restarts, the latter also until
\* a neighbour is found, since its VAP may be entered twice then, or again.
EndsMatch ==
    boots = 0 =>
    \A n \in Node : \A i \in DOMAIN local_vaps[n] :
        LET v == local_vaps[n][i]
        IN  v.peer # None =>
              \E j \in DOMAIN remote_vaps[v.neighbor] :
                  LET w == remote_vaps[v.neighbor][j]
                  IN  w.neighbor = n /\ w.id = v.peer /\ (links = 0 => w.peer = v.id)

\* Nothing is under way: every thread waits, nothing is in the air, and run()
\* has processed the queue.
Quiet ==
    /\ \A n \in Node : /\ Doing(n, "run", "control") /\ Doing(n, "rx", "idle")
                       /\ Doing(n, "probe", "idle")
                       /\ drained[n] = Len(msgQueue[n])
    /\ \A n, p \in Node : chan[n][p] = <<>>

\* Once the setup is over, two agents that know each other have each a local
\* VAP whose tunnel is connected to a remote VAP of the other, provided that no
\* call or message was lost and none of them restarted.
VapsComplete ==
    Quiet /\ losses = 0 /\ boots = 0 =>
        \A n \in Node : \A p \in {q \in neighbors[n] : n \in neighbors[q]} :
            \E i \in Places(local_vaps[n], p), j \in Places(remote_vaps[p], n) :
                /\ local_vaps[n][i].peer = remote_vaps[p][j].id
                /\ remote_vaps[p][j].peer = local_vaps[n][i].id
                /\ local_vaps[n][i].port # None /\ remote_vaps[p][j].port # None

\* The exchange of requests and answers ends: from some point on every thread
\* has returned to its loop and no message is in the air.
SetupSettles ==
    <>[](\A n \in Node : /\ Doing(n, "run", "control") /\ Doing(n, "rx", "idle")
                          /\ Doing(n, "probe", "idle")
                          /\ \A p \in Node : chan[n][p] = <<>>)

\* A port of the P4 switch belongs to one VAP, and is wired to one radio:
\* frames of one tunnel never reach another VAP.
PortsApart ==
    \A n \in Node :
        /\ \A e, f \in table_wire_ports[n] : e[1] = f[1] => e = f
        /\ \A i, j \in DOMAIN local_vaps[n] :
              i # j /\ local_vaps[n][i].port # None =>
                  local_vaps[n][i].port # local_vaps[n][j].port
        /\ \A i \in DOMAIN local_vaps[n], j \in DOMAIN remote_vaps[n] :
              local_vaps[n][i].port # None =>
                  local_vaps[n][i].port # remote_vaps[n][j].port

\* The frames of every connected tunnel reach its radio, and the one tunnel that
\* gets the frames of a radio is a tunnel of that radio: the switch has room for
\* one entry per radio and refuses the others, and entries are never removed, so
\* whichever tunnel comes first, and whatever becomes of it, the pair stays.
WiringPaired ==
    \A n \in Node :
        /\ \A i \in DOMAIN local_vaps[n] : local_vaps[n][i].port # None =>
              <<local_vaps[n][i].port, HWSIM0>> \in table_wire_ports[n]
        /\ \A i \in DOMAIN remote_vaps[n] : remote_vaps[n][i].port # None =>
              <<remote_vaps[n][i].port, INJECT0>> \in table_wire_ports[n]
        /\ \A e \in table_wire_ports[n] : e[1] \in {HWSIM0, INJECT0} =>
              <<e[2], e[1]>> \in table_wire_ports[n]

=============================================================================
