----------------------------- MODULE Forwarding -----------------------------
(***************************************************************************)
(* The flooding layer of the ResFi agent (framework/agent.py): a message   *)
(* is published on the sender's SND socket, picked up by its own forwarder *)
(* thread, re-published on its FWD socket, and taken from there by the     *)
(* forwarders of the neighbours (who re-publish it in turn) and by the     *)
(* receive thread of every node that re-published it.                      *)
(*                                                                         *)
(* Keys are left to GroupKeys: here a message whose signature does not     *)
(* verify is one of the losses, bounded by MaxLoss.  The events the        *)
(* threads use as locks are left to AgentEvents: here the forwarder may    *)
(* hold a message for any time between taking it from its socket and       *)
(* handling it, which is what waiting for the events amounts to.           *)
(***************************************************************************)
EXTENDS Integers, Sequences

CONSTANTS
    Node,       \* the access points, identified by their host name
    Bcast,      \* the receiver "255.255.255.255"
    Adj,        \* the pairs <<n, p>> such that n can hear p on the radio
    Thread,     \* the threads of one agent that send (apps, callbacks, keys)
    Scopes,     \* the "ttl" arguments the applications use
    MaxSends,   \* bound: messages each node sends in a behaviour
    MaxLoss,    \* bound: undecodable messages and messages lost on a link
    MaxLeaves,  \* bound: neighbours removed by onAPLeft
    MaxBoots    \* bound: restarts of an agent

ASSUME ForwardingAssumption ==
    /\ Bcast \notin Node
    /\ Adj \subseteq Node \X Node
    /\ \A n \in Node : <<n, n>> \notin Adj
    /\ Scopes \subseteq Nat
    /\ MaxSends \in [Node -> Nat]
    /\ MaxLoss \in Nat /\ MaxLeaves \in Nat /\ MaxBoots \in Nat

None == [none |-> TRUE]     \* the forwarder is waiting in recv_json

\* json_data, without the payload; k is the position of the message in the
\* host's log of sends, which the program does not have.
Message == [host : Node, k : Nat, id : Nat, rec : Node \cup {Bcast},
            ttl : Nat, lasthop : Node]

VARIABLES
    globalNeighborList, \* the neighbours of each node, its own entry left out
    local_id,           \* next message id of each node
    sender,             \* progress of each thread through sendFloodingMessage
    snd,                \* SND socket of a node, read by its own forwarder
    link,               \* link[n][p]: from the FWD socket of p to n's forwarder
    rx,                 \* from the FWD socket of n to its own receive thread
    fwd_cache,          \* highest id forwarded of each host, 0 if there is none
    hand,               \* the message the forwarder is working on
    delivered,          \* history: what the receive thread passed on
    log,                \* history: every send, with the nodes it should reach
    losses, leaves, boots   \* how often the bounded actions have happened

nodeVars == <<globalNeighborList, local_id, sender, fwd_cache, hand>>
netVars == <<snd, link, rx>>
histVars == <<delivered, log>>
bounds == <<losses, leaves, boots>>
vars == <<nodeVars, netVars, histVars, bounds>>

\* An entry of the log: the direct neighbours the message should reach, its
\* receiver and id, and the hops it may travel.
Send == [to : SUBSET Node, rec : Node \cup {Bcast}, scope : Int, id : Nat]

\* The log, when the nodes in S no longer have to receive what it lists.
Strike(sends, S) ==
    [k \in DOMAIN sends |-> [to |-> sends[k].to \ S, rec |-> sends[k].rec,
                             scope |-> sends[k].scope, id |-> sends[k].id]]

Idle == [pc |-> "idle", tmp |-> 0]

Init ==
    /\ globalNeighborList = [n \in Node |-> {}]
    /\ local_id = [n \in Node |-> 1]
    /\ sender = [n \in Node |-> [t \in Thread |-> Idle]]
    /\ snd = [n \in Node |-> <<>>]
    /\ link = [n \in Node |-> [p \in Node |-> <<>>]]
    /\ rx = [n \in Node |-> <<>>]
    /\ fwd_cache = [n \in Node |-> [h \in Node |-> 0]]
    /\ hand = [n \in Node |-> None]
    /\ delivered = [n \in Node |-> <<>>]
    /\ log = [n \in Node |-> <<>>]
    /\ losses = 0 /\ leaves = 0 /\ boots = 0

-----------------------------------------------------------------------------
(* Neighbours.  Connecting the frontend to p's FWD socket and entering p   *)
(* in the list are one operation, and so are disconnecting and deleting.   *)

onAPJoined(n, p) ==
    /\ <<n, p>> \in Adj
    /\ p \notin globalNeighborList[n]
    /\ globalNeighborList' = [globalNeighborList EXCEPT ![n] = @ \cup {p}]
    /\ UNCHANGED <<local_id, sender, fwd_cache, hand, netVars, histVars, bounds>>

\* What the node had not yet read from the socket is discarded with it.
onAPLeft(n, p) ==
    /\ leaves < MaxLeaves
    /\ p \in globalNeighborList[n]
    /\ globalNeighborList' = [globalNeighborList EXCEPT ![n] = @ \ {p}]
    /\ link' = [link EXCEPT ![n][p] = <<>>]
    /\ log' = [log EXCEPT ![p] = Strike(@, {n})]
    /\ leaves' = leaves + 1
    /\ UNCHANGED <<local_id, sender, fwd_cache, hand, snd, rx, delivered,
                   losses, boots>>

-----------------------------------------------------------------------------
(* Sending                                                                 *)

\* The nodes that are to receive a message n sends now: the direct neighbours
\* that listen to n, or the addressed one of them.  The own forwarder and the
\* neighbour's each take one from the ttl before testing it.
Audience(n, rec, max_ttl) ==
    {p \in Node : /\ n \in globalNeighborList[p]
                  /\ rec \in {Bcast, p}
                  /\ max_ttl - 2 > 0}

\* A unicast message to a node that is not in the list is not sent.  The id
\* is read when the message is built, and incremented after it is sent.
sendFloodingMessage(n, t, rec, max_ttl) ==
    /\ Len(log[n]) < MaxSends[n]
    /\ sender[n][t].pc = "idle"
    /\ rec \in {Bcast} \cup globalNeighborList[n]
    /\ snd' = [snd EXCEPT ![n] =
                 Append(@, [host |-> n, k |-> Len(log[n]) + 1,
                            id |-> local_id[n], rec |-> rec,
                            ttl |-> max_ttl, lasthop |-> n])]
    /\ log' = [log EXCEPT ![n] =
                 Append(@, [to |-> Audience(n, rec, max_ttl), rec |-> rec,
                            scope |-> max_ttl - 2, id |-> local_id[n]])]
    /\ sender' = [sender EXCEPT ![n][t] = [pc |-> "sent", tmp |-> 0]]
    /\ UNCHANGED <<globalNeighborList, local_id, fwd_cache, hand, link, rx,
                   delivered, bounds>>

\* Broadcasts of the applications; a control broadcast has the ttl of scope 1.
sendToNeighbors(n, t, scope) == sendFloodingMessage(n, t, Bcast, scope + 2)

\* Unicast, data once the session key is there and control alike.
sendToNeighbor(n, t, p) == sendFloodingMessage(n, t, p, 3)

\* self.local_id = self.local_id + 1, a load and a store without a lock.
LoadId(n, t) ==
    /\ sender[n][t].pc = "sent"
    /\ sender' = [sender EXCEPT ![n][t] = [pc |-> "loaded", tmp |-> local_id[n]]]
    /\ UNCHANGED <<globalNeighborList, local_id, fwd_cache, hand, netVars,
                   histVars, bounds>>

StoreId(n, t) ==
    /\ sender[n][t].pc = "loaded"
    /\ local_id' = [local_id EXCEPT ![n] = sender[n][t].tmp + 1]
    /\ sender' = [sender EXCEPT ![n][t] = Idle]
    /\ UNCHANGED <<globalNeighborList, fwd_cache, hand, netVars, histVars, bounds>>

-----------------------------------------------------------------------------
(* The forwarder thread (initForwardingTTL)                                *)

\* The tests made on a message before the forwarder waits for the events; the
\* decremented ttl is the one that is tested and sent on.
ExpiredLate(m) == m.ttl - 1 < 0       \* mutant: one hop too far

ExpiredEarly(m) == m.ttl - 1 <= 1     \* mutant: one hop too short

Expired(m) == m.ttl - 1 <= 0

SeenNewer(n, m) == fwd_cache[n][m.host] > m.id   \* mutant: equal id passes

Seen(n, m) == fwd_cache[n][m.host] >= m.id

ForAnyone(n, m) == TRUE               \* mutant: receiver not compared

ForMe(n, m) == m.host = n \/ m.rec \in {Bcast, n}

Take(n, m) ==
    hand' = [hand EXCEPT ![n] =
               IF Expired(m) \/ Seen(n, m) \/ ~ForMe(n, m)
               THEN None ELSE [m EXCEPT !.ttl = @ - 1]]

FwdRecvOwn(n) ==
    /\ hand[n] = None
    /\ snd[n] # <<>>
    /\ Take(n, Head(snd[n]))
    /\ snd' = [snd EXCEPT ![n] = Tail(@)]
    /\ UNCHANGED <<globalNeighborList, local_id, sender, fwd_cache, link, rx,
                   histVars, bounds>>

FwdRecv(n, p) ==
    /\ hand[n] = None
    /\ link[n][p] # <<>>
    /\ Take(n, Head(link[n][p]))
    /\ link' = [link EXCEPT ![n][p] = Tail(@)]
    /\ UNCHANGED <<globalNeighborList, local_id, sender, fwd_cache, snd, rx,
                   histVars, bounds>>

\* Mutant: the host is remembered in place of the id.
ForwardCachingHost(n) ==
    LET out == [hand[n] EXCEPT !.lasthop = n]
    IN  /\ hand[n] # None
        /\ hand[n].lasthop \in globalNeighborList[n] \cup {n}
        /\ link' = [p \in Node |->
                      IF n \in globalNeighborList[p]
                      THEN [link[p] EXCEPT ![n] = Append(@, out)]
                      ELSE link[p]]
        /\ rx' = [rx EXCEPT ![n] = Append(@, out)]
        /\ fwd_cache' = [fwd_cache EXCEPT ![n][hand[n].host] = hand[n].host]
        /\ hand' = [hand EXCEPT ![n] = None]
        /\ UNCHANGED <<globalNeighborList, local_id, sender, snd, histVars, bounds>>

\* Known last hop and valid signature: publish and remember the id.
Forward(n) ==
    LET out == [hand[n] EXCEPT !.lasthop = n]
    IN  /\ hand[n] # None
        /\ hand[n].lasthop \in globalNeighborList[n] \cup {n}
        /\ link' = [p \in Node |->
                      IF n \in globalNeighborList[p]
                      THEN [link[p] EXCEPT ![n] = Append(@, out)]
                      ELSE link[p]]
        /\ rx' = [rx EXCEPT ![n] = Append(@, out)]
        /\ fwd_cache' = [fwd_cache EXCEPT ![n][hand[n].host] = hand[n].id]
        /\ hand' = [hand EXCEPT ![n] = None]
        /\ UNCHANGED <<globalNeighborList, local_id, sender, snd, histVars, bounds>>

\* The last hop left the list while the forwarder was waiting.
DropUnknown(n) ==
    /\ hand[n] # None
    /\ hand[n].lasthop \notin globalNeighborList[n] \cup {n}
    /\ hand' = [hand EXCEPT ![n] = None]
    /\ UNCHANGED <<globalNeighborList, local_id, sender, fwd_cache, netVars,
                   histVars, bounds>>

\* No key at hand verifies the signature.
DropUndecodable(n) ==
    /\ losses < MaxLoss
    /\ hand[n] # None
    /\ hand[n].lasthop \in globalNeighborList[n] \cup {n}
    /\ hand' = [hand EXCEPT ![n] = None]
    /\ losses' = losses + 1
    /\ UNCHANGED <<globalNeighborList, local_id, sender, fwd_cache, netVars,
                   histVars, leaves, boots>>

-----------------------------------------------------------------------------
(* The receive thread (receiveMessage)                                     *)

\* Mutant: a node takes its own messages for another's.
receiveMessageOwn(n) ==
    /\ rx[n] # <<>>
    /\ rx' = [rx EXCEPT ![n] = Tail(@)]
    /\ delivered' = [delivered EXCEPT ![n] = Append(@, Head(rx[n]))]
    /\ UNCHANGED <<nodeVars, snd, link, log, bounds>>

receiveMessage(n) ==
    LET m == Head(rx[n])
    IN  /\ rx[n] # <<>>
        /\ rx' = [rx EXCEPT ![n] = Tail(@)]
        /\ delivered' = IF m.host = n THEN delivered
                        ELSE [delivered EXCEPT ![n] = Append(@, m)]
        /\ UNCHANGED <<nodeVars, snd, link, log, bounds>>

\* The group key changed after the forwarder encrypted the message with it.
RxUndecodable(n) ==
    /\ losses < MaxLoss
    /\ rx[n] # <<>>
    /\ rx' = [rx EXCEPT ![n] = Tail(@)]
    /\ losses' = losses + 1
    /\ UNCHANGED <<nodeVars, snd, link, histVars, leaves, boots>>

-----------------------------------------------------------------------------
(* Failures                                                                *)

\* A PUB socket drops what it cannot queue or had not sent when TCP broke.
LinkLoss(n, p) ==
    /\ losses < MaxLoss
    /\ link[n][p] # <<>>
    /\ link' = [link EXCEPT ![n][p] = SubSeq(@, 1, Len(@) - 1)]
    /\ losses' = losses + 1
    /\ UNCHANGED <<nodeVars, snd, rx, histVars, leaves, boots>>

\* The agent of n is started again.  Nothing it keeps survives; what its
\* neighbours keep about it, fwd_cache included, does.
Restart(n) ==
    /\ boots < MaxBoots
    /\ boots' = boots + 1
    /\ globalNeighborList' = [globalNeighborList EXCEPT ![n] = {}]
    /\ local_id' = [local_id EXCEPT ![n] = 1]
    /\ sender' = [sender EXCEPT ![n] = [t \in Thread |-> Idle]]
    /\ fwd_cache' = [fwd_cache EXCEPT ![n] = [h \in Node |-> 0]]
    /\ hand' = [hand EXCEPT ![n] = None]
    /\ snd' = [snd EXCEPT ![n] = <<>>]
    /\ link' = [link EXCEPT ![n] = [p \in Node |-> <<>>]]
    /\ rx' = [rx EXCEPT ![n] = <<>>]
    /\ delivered' = [delivered EXCEPT ![n] = <<>>]
    /\ log' = [h \in Node |-> Strike(log[h], IF h = n THEN Node ELSE {n})]
    /\ UNCHANGED <<losses, leaves>>

-----------------------------------------------------------------------------
Forwarder(n) ==
    \/ FwdRecvOwn(n)
    \/ \E p \in Node : FwdRecv(n, p)
    \/ Forward(n)
    \/ DropUnknown(n)

Next ==
    \E n \in Node :
        \/ \E p \in Node : onAPJoined(n, p) \/ onAPLeft(n, p) \/ LinkLoss(n, p)
        \/ \E t \in Thread, scope \in Scopes : sendToNeighbors(n, t, scope)
        \/ \E t \in Thread, p \in Node : sendToNeighbor(n, t, p)
        \/ \E t \in Thread : LoadId(n, t) \/ StoreId(n, t)
        \/ Forwarder(n)
        \/ DropUndecodable(n)
        \/ receiveMessage(n)
        \/ RxUndecodable(n)
        \/ Restart(n)

Spec == Init /\ [][Next]_vars

\* The forwarder and the receive thread are loops that never return, so each
\* of them takes a step whenever one is possible; so does the thread that is
\* inside sendFloodingMessage.
Fairness ==
    \A n \in Node :
        /\ WF_vars(Forwarder(n))
        /\ WF_vars(receiveMessage(n))
        /\ \A t \in Thread : WF_vars(LoadId(n, t) \/ StoreId(n, t))

FairSpec == Spec /\ Fairness

-----------------------------------------------------------------------------
(* Properties                                                              *)

\* Each variable holds values of the kind the agent gives it.
TypeOK ==
    /\ globalNeighborList \in [Node -> SUBSET Node]
    /\ local_id \in [Node -> Nat]
    /\ sender \in [Node -> [Thread -> [pc : {"idle", "sent", "loaded"}, tmp : Nat]]]
    /\ snd \in [Node -> Seq(Message)]
    /\ link \in [Node -> [Node -> Seq(Message)]]
    /\ rx \in [Node -> Seq(Message)]
    /\ fwd_cache \in [Node -> [Node -> Nat]]
    /\ hand \in [Node -> Message \cup {None}]
    /\ delivered \in [Node -> Seq(Message)]
    /\ log \in [Node -> Seq(Send)]
    /\ losses \in Nat /\ leaves \in Nat /\ boots \in Nat

\* The ids of each host grow along s.
Growing(s) ==
    \A i, j \in DOMAIN s : i < j /\ s[i].host = s[j].host => s[i].id < s[j].id

\* No id in s is above the one kept for its host.
Below(s, cache) == \A i \in DOMAIN s : s[i].id <= cache[s[i].host]

\* Of each host, the ids in s are smaller than the ones in r.
Before(s, r) ==
    \A i \in DOMAIN s, j \in DOMAIN r : s[i].host = r[j].host => s[i].id < r[j].id

\* Between two restarts of the receiver, the messages of one host reach the
\* applications in the order of their ids and none of them twice, however
\* many paths the copies take: the purpose of fwd_cache in initForwardingTTL.
InOrderOnce == \A n \in Node : Growing(delivered[n])

\* The strengthening of InOrderOnce that every step preserves, for node n:
\* ids grow along what the receive thread passed on followed by what waits in
\* its socket, none of them is above the cache, and the message the forwarder
\* has in hand is above it.
OrderAt(n) ==
    /\ hand[n] # None => fwd_cache[n][hand[n].host] < hand[n].id
    /\ Below(rx[n], fwd_cache[n])
    /\ Below(delivered[n], fwd_cache[n])
    /\ Growing(rx[n])
    /\ Before(delivered[n], rx[n])
    /\ Growing(delivered[n])

OrderInv == \A n \in Node : OrderAt(n)

\* A unicast message is given to the applications of its receiver only, on
\* whatever path the flooding carried it, and no node is given its own: the
\* test of the receiver is made by the forwarder, the receive thread relies
\* on it.
OnlyToReceiver ==
    \A n \in Node : \A i \in DOMAIN delivered[n] :
        delivered[n][i].host # n /\ delivered[n][i].rec \in {Bcast, n}

\* m is a message its host has sent, according to the log sends, unchanged but
\* for the ttl and the last hop.
Genuine(m, sends) ==
    /\ m.k \in DOMAIN sends[m.host]
    /\ sends[m.host][m.k].rec = m.rec
    /\ sends[m.host][m.k].id = m.id

AllGenuine(s, sends) == \A i \in DOMAIN s : Genuine(s[i], sends)

\* Every message in a socket, in hand or delivered is genuine, for node n.
GenuineAt(n) ==
    /\ AllGenuine(snd[n], log)
    /\ \A p \in Node : AllGenuine(link[n][p], log)
    /\ hand[n] # None => Genuine(hand[n], log)
    /\ AllGenuine(rx[n], log)
    /\ AllGenuine(delivered[n], log)

GenuineInv == \A n \in Node : GenuineAt(n)

\* What the applications see of the state.
Posts ==
    [h \in Node |-> [k \in DOMAIN log[h] |-> [rec |-> log[h][k].rec,
                                             id |-> log[h][k].id]]]
Inbox ==
    [n \in Node |-> [i \in DOMAIN delivered[n] |-> [host |-> delivered[n][i].host,
                                                    k |-> delivered[n][i].k]]]

Service == INSTANCE FloodService WITH posts <- Posts, inbox <- Inbox

\* Sockets, forwarders and caches together implement the service: an application
\* is given nothing that was not sent, nothing of its own, nothing addressed to
\* another node, and of each host nothing out of order or twice, although copies
\* take several paths, neighbours leave, messages are lost and agents restart.
ImplementsService == Service!Spec

\* The nodes at most d hops from h, in the direction messages travel.
Ball(h) ==
    LET within[d \in Nat] ==
            IF d = 0 THEN {h}
            ELSE within[d - 1] \cup
                 {n \in Node : \E p \in within[d - 1] : <<n, p>> \in Adj}
    IN within

\* A message is given to the applications of nodes at most as many hops from
\* its host as the ttl asked for, over all paths and after any change of
\* neighbours (decrement and test of the ttl in every forwarder).
WithinScope ==
    \A n \in Node : \A i \in DOMAIN delivered[n] :
        LET m == delivered[n][i]
        IN  n \in Ball(m.host)[log[m.host][m.k].scope]

Reached(p, h, k) == \E i \in DOMAIN delivered[p] :
                        delivered[p][i].host = h /\ delivered[p][i].k = k

Pending(p, h, k) ==
    k \in DOMAIN log[h] /\ p \in log[h][k].to /\ ~Reached(p, h, k)

\* As long as nothing is lost, every message is eventually given to the
\* applications of the neighbours it was meant for that have neither left nor
\* restarted in the meantime.
EventuallyDelivered ==
    \A h, p \in Node : \A k \in 1..MaxSends[h] :
        Pending(p, h, k) ~> (~Pending(p, h, k) \/ losses > 0)

=============================================================================
