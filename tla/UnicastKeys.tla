----------------------------- MODULE UnicastKeys -----------------------------
(***************************************************************************)
(* Session keys for unicast messages (framework/agent.py).  The first      *)
(* sendToNeighbor asks the neighbour for a key with a ruk message, again   *)
(* every half second and five times at most; the neighbour draws a key,    *)
(* keeps it and answers every ruk with it in a nuk.  The keys live in the  *)
(* entry the two agents have of each other and go with it.                 *)
(*                                                                         *)
(* Several threads of an agent call sendToNeighbor.  One of them may be    *)
(* the receive thread itself, which runs the callbacks of applications.    *)
(***************************************************************************)
EXTENDS Integers, Sequences

CONSTANTS
    Node,
    Caller,         \* the threads that call sendToNeighbor, "rx" maybe among them
    MaxRetries,     \* max_retries (5)
    MaxCalls,       \* bound: calls of each node
    MaxLoss,        \* bound: messages lost between the nodes
    MaxLeaves,      \* bound: entries removed
    MaxBoots        \* bound: restarts

ASSUME UnicastAssumption ==
    /\ MaxRetries \in Nat \ {0}
    /\ MaxCalls \in [Node -> Nat]
    /\ MaxLoss \in Nat /\ MaxLeaves \in Nat /\ MaxBoots \in Nat

NoKey == 0

VARIABLES
    entry,      \* entry[n][p]: what n keeps of p, or Absent
    rsaKey,     \* the RSA key pair of each node, numbered by its restarts
    caller,     \* progress of each thread through sendToNeighbor
    chan,       \* chan[n][p]: unicast messages from n to p
    probed,     \* probe requests of n that p has not handled: <<p, n>>
    rx,         \* is the receive thread of n alive?
    fresh,      \* keys drawn so far
    calls, losses, leaves, boots

vars == <<entry, rsaKey, caller, chan, probed, rx, fresh, calls,
          losses, leaves, boots>>
bounds == <<calls, losses, leaves, boots>>

Absent == [absent |-> TRUE]

\* A Neighbor object, as far as session keys go.
Neighbor == [send : Nat, rec : Nat, waiting : BOOLEAN, pubKey : Nat]
NewNeighbor(p) == [send |-> NoKey, rec |-> NoKey, waiting |-> FALSE, pubKey |-> rsaKey[p]]

Known(n, p) == entry[n][p] # Absent

Idle == [pc |-> "idle", to |-> CHOOSE n \in Node : TRUE, retries |-> 0, result |-> "none"]

Init ==
    /\ rsaKey = [n \in Node |-> 0]
    /\ entry = [n \in Node |-> [p \in Node |-> IF p = n THEN Absent ELSE NewNeighbor(p)]]
    /\ caller = [n \in Node |-> [t \in Caller |-> Idle]]
    /\ chan = [n \in Node |-> [p \in Node |-> <<>>]]
    /\ probed = {}
    /\ rx = [n \in Node |-> "alive"]
    /\ fresh = 0
    /\ calls = [n \in Node |-> 0] /\ losses = 0 /\ leaves = 0 /\ boots = 0

-----------------------------------------------------------------------------
(* sendToNeighbor                                                          *)

Become(n, t, pc, result) ==
    caller' = [caller EXCEPT ![n][t] = [@ EXCEPT !.pc = pc, !.result = result]]

\* The call is made; an unknown neighbour is refused.
sendToNeighbor(n, t, p) ==
    /\ n # p
    /\ caller[n][t].pc = "idle"
    /\ t = "rx" => rx[n] = "alive"
    /\ calls[n] < MaxCalls[n]
    /\ calls' = [calls EXCEPT ![n] = @ + 1]
    /\ caller' = [caller EXCEPT ![n][t] =
                    [pc |-> IF ~Known(n, p) THEN "idle"
                            ELSE IF entry[n][p].send # NoKey THEN "send" ELSE "loop",
                     to |-> p, retries |-> 0,
                     result |-> IF Known(n, p) THEN "none" ELSE "unknown"]]
    /\ entry' = IF Known(n, p) /\ entry[n][p].send = NoKey
                THEN [entry EXCEPT ![n][p].waiting = FALSE] ELSE entry
    /\ UNCHANGED <<probed, rsaKey, chan, rx, fresh, losses, leaves, boots>>

\* The loop condition, and one more ruk.  Without the entry the thread ends.
Ask(n, t) ==
    LET p == caller[n][t].to
    IN  /\ caller[n][t].pc = "loop"
        /\ \/ ~Known(n, p) /\ Become(n, t, "dead", "none") /\ UNCHANGED chan
           \/ /\ Known(n, p) /\ entry[n][p].waiting
              /\ Become(n, t, "send", "none")
              /\ UNCHANGED chan
           \/ /\ Known(n, p) /\ ~entry[n][p].waiting
              /\ chan' = [chan EXCEPT ![n][p] =
                            Append(@, [type |-> "ruk", key |-> NoKey,
                                       pubKey |-> entry[n][p].pubKey])]
              /\ caller' = [caller EXCEPT ![n][t] =
                     [@ EXCEPT !.pc = "asked", !.retries = caller[n][t].retries + 1]]
        /\ UNCHANGED <<probed, entry, rsaKey, rx, fresh, bounds>>

\* Mutant: one ruk too many.
AskedOnceMore(n, t) ==
    LET p == caller[n][t].to
    IN  /\ caller[n][t].pc = "asked"
        /\ IF caller[n][t].retries <= MaxRetries
           THEN Become(n, t, "loop", "none") /\ UNCHANGED entry
           ELSE IF Known(n, p)
           THEN /\ Become(n, t, "idle", "max retries")
                /\ entry' = [entry EXCEPT ![n][p].waiting = TRUE]
           ELSE Become(n, t, "dead", "none") /\ UNCHANGED entry
        /\ UNCHANGED <<probed, rsaKey, chan, rx, fresh, bounds>>

\* Mutant: after the last ruk it waits for the event.
AskedWaits(n, t) ==
    LET p == caller[n][t].to
    IN  /\ caller[n][t].pc = "asked"
        /\ caller[n][t].retries < MaxRetries \/ (Known(n, p) /\ entry[n][p].waiting)
        /\ Become(n, t, "loop", "none")
        /\ UNCHANGED <<probed, entry, rsaKey, chan, rx, fresh, bounds>>

\* Half a second later.  Giving up sets the event other callers look at.
Asked(n, t) ==
    LET p == caller[n][t].to
    IN  /\ caller[n][t].pc = "asked"
        /\ IF caller[n][t].retries < MaxRetries
           THEN Become(n, t, "loop", "none") /\ UNCHANGED entry
           ELSE IF Known(n, p)
           THEN /\ Become(n, t, "idle", "max retries")
                /\ entry' = [entry EXCEPT ![n][p].waiting = TRUE]
           ELSE Become(n, t, "dead", "none") /\ UNCHANGED entry
        /\ UNCHANGED <<probed, rsaKey, chan, rx, fresh, bounds>>

\* Without the entry nothing is sent and the call still succeeds; without a
\* key there is no cipher and the thread ends.
SendData(n, t) ==
    LET p == caller[n][t].to
    IN  /\ caller[n][t].pc = "send"
        /\ \/ ~Known(n, p) /\ Become(n, t, "idle", "success") /\ UNCHANGED chan
           \/ /\ Known(n, p) /\ entry[n][p].send = NoKey
              /\ Become(n, t, "dead", "none")
              /\ UNCHANGED chan
           \/ /\ Known(n, p) /\ entry[n][p].send # NoKey
              /\ chan' = [chan EXCEPT ![n][p] =
                            Append(@, [type |-> "data", key |-> entry[n][p].send,
                                       pubKey |-> 0])]
              /\ Become(n, t, "idle", "success")
        /\ UNCHANGED <<probed, entry, rsaKey, rx, fresh, bounds>>

-----------------------------------------------------------------------------
(* receiveMessage of p, for the next message of n                          *)

\* The receive thread runs, and is not inside a callback that sends.
Listening(p) ==
    /\ rx[p] = "alive"
    /\ "rx" \in Caller => caller[p]["rx"].pc = "idle"

Take(n, p, type) ==
    /\ Listening(p)
    /\ chan[n][p] # <<>>
    /\ Head(chan[n][p]).type = type

\* The forwarder of p does not pass on what comes from outside its list.
DropUnknown(n, p) ==
    /\ chan[n][p] # <<>>
    /\ ~Known(p, n)
    /\ chan' = [chan EXCEPT ![n][p] = Tail(@)]
    /\ UNCHANGED <<probed, entry, rsaKey, caller, rx, fresh, bounds>>

\* A control message for another key pair than p has now cannot be decrypted.
RxWrongPair(n, p) ==
    /\ Take(n, p, "ruk") \/ Take(n, p, "nuk")
    /\ Known(p, n)
    /\ Head(chan[n][p]).pubKey # rsaKey[p]
    /\ rx' = [rx EXCEPT ![p] = "dead"]
    /\ chan' = [chan EXCEPT ![n][p] = Tail(@)]
    /\ UNCHANGED <<probed, entry, rsaKey, caller, fresh, bounds>>

\* The ruk of n is taken and a nuk goes back.
Answer(n, p, k) ==
    LET taken == [chan EXCEPT ![n][p] = Tail(@)]
        nuk == [type |-> "nuk", key |-> k, pubKey |-> entry[p][n].pubKey]
    IN  chan' = [taken EXCEPT ![p][n] = Append(@, nuk)]

\* Mutant: every ruk draws a key.
RxRukFresh(n, p) ==
    /\ Take(n, p, "ruk")
    /\ Known(p, n)
    /\ Head(chan[n][p]).pubKey = rsaKey[p]
    /\ fresh' = fresh + 1
    /\ Answer(n, p, fresh + 1)
    /\ entry' = [entry EXCEPT ![p][n].rec = fresh + 1]
    /\ UNCHANGED <<probed, rsaKey, caller, rx, bounds>>

\* Mutant: the key is sent and not kept.
RxRukForget(n, p) ==
    /\ Take(n, p, "ruk")
    /\ Known(p, n)
    /\ Head(chan[n][p]).pubKey = rsaKey[p]
    /\ fresh' = fresh + 1
    /\ Answer(n, p, fresh + 1)
    /\ UNCHANGED <<probed, entry, rsaKey, caller, rx, bounds>>

\* The key that is there is sent again, or a new one is drawn, sent and kept.
RxRuk(n, p) ==
    /\ Take(n, p, "ruk")
    /\ Known(p, n)
    /\ Head(chan[n][p]).pubKey = rsaKey[p]
    /\ IF entry[p][n].rec # NoKey
       THEN Answer(n, p, entry[p][n].rec) /\ UNCHANGED <<entry, fresh>>
       ELSE /\ fresh' = fresh + 1
            /\ Answer(n, p, fresh + 1)
            /\ entry' = [entry EXCEPT ![p][n].rec = fresh + 1]
    /\ UNCHANGED <<probed, rsaKey, caller, rx, bounds>>

RxNuk(n, p) ==
    /\ Take(n, p, "nuk")
    /\ Known(p, n)
    /\ Head(chan[n][p]).pubKey = rsaKey[p]
    /\ entry' = [entry EXCEPT ![p][n] =
                    [@ EXCEPT !.send = Head(chan[n][p]).key, !.waiting = TRUE]]
    /\ chan' = [chan EXCEPT ![n][p] = Tail(@)]
    /\ UNCHANGED <<probed, rsaKey, caller, rx, fresh, bounds>>

\* Data: without a key a warning; with another key than the sender's the
\* payload does not parse and the thread ends.
RxData(n, p) ==
    LET k == entry[p][n].rec
        good == k = Head(chan[n][p]).key
    IN  /\ Take(n, p, "data")
        /\ Known(p, n)
        /\ rx' = IF k # NoKey /\ ~good THEN [rx EXCEPT ![p] = "dead"] ELSE rx
        /\ chan' = [chan EXCEPT ![n][p] = Tail(@)]
        /\ UNCHANGED <<probed, entry, rsaKey, caller, fresh, bounds>>

-----------------------------------------------------------------------------
(* The environment: losses, entries that go, restarts                      *)

Lose(n, p) ==
    /\ losses < MaxLoss
    /\ chan[n][p] # <<>>
    /\ losses' = losses + 1
    /\ chan' = [chan EXCEPT ![n][p] = Tail(@)]
    /\ UNCHANGED <<probed, entry, rsaKey, caller, rx, fresh, calls,
                   leaves, boots>>

onAPLeft(n, p) ==
    /\ leaves < MaxLeaves
    /\ Known(n, p)
    /\ leaves' = leaves + 1
    /\ entry' = [entry EXCEPT ![n][p] = Absent]
    /\ UNCHANGED <<probed, rsaKey, caller, chan, rx, fresh, calls,
                   losses, boots>>

\* n starts again with a new key pair and scans: it enters all it hears, and
\* its probe request goes to them.  Nothing that was on the way to n or from
\* n gets through: it is encrypted and signed with keys that are replaced.
Restart(n) ==
    /\ boots < MaxBoots
    /\ boots' = boots + 1
    /\ rsaKey' = [rsaKey EXCEPT ![n] = @ + 1]
    /\ entry' = [entry EXCEPT ![n] =
                   [p \in Node |-> IF p = n THEN Absent ELSE NewNeighbor(p)]]
    /\ caller' = [caller EXCEPT ![n] = [t \in Caller |-> Idle]]
    /\ chan' = [q \in Node |-> [p \in Node |-> IF n \in {p, q} THEN <<>> ELSE chan[q][p]]]
    /\ rx' = [rx EXCEPT ![n] = "alive"]
    /\ probed' = (probed \ ({n} \X Node)) \cup ((Node \ {n}) \X {n})
    /\ UNCHANGED <<fresh, calls, losses, leaves>>

\* p handles the probe request of n: a new entry, or a new public key in the
\* one there is.
handle_incoming_probe_requests(p, n) ==
    /\ <<p, n>> \in probed
    /\ probed' = probed \ {<<p, n>>}
    /\ entry' = IF Known(p, n)
                THEN [entry EXCEPT ![p][n].pubKey = rsaKey[n]]
                ELSE [entry EXCEPT ![p][n] = NewNeighbor(n)]
    /\ UNCHANGED <<rsaKey, caller, chan, rx, fresh, bounds>>

-----------------------------------------------------------------------------
Calling(n, t) == Ask(n, t) \/ Asked(n, t) \/ SendData(n, t)

Receive(p) ==
    \E n \in Node : \/ DropUnknown(n, p) \/ RxWrongPair(n, p)
                    \/ RxRuk(n, p) \/ RxNuk(n, p) \/ RxData(n, p)

Next ==
    \E n \in Node :
        \/ \E t \in Caller, p \in Node : sendToNeighbor(n, t, p)
        \/ \E t \in Caller : Calling(n, t)
        \/ Receive(n)
        \/ \E p \in Node : \/ Lose(n, p) \/ onAPLeft(n, p)
                          \/ handle_incoming_probe_requests(n, p)
        \/ Restart(n)

Spec == Init /\ [][Next]_vars

\* Threads run.
Fairness ==
    \A n \in Node : WF_vars(Receive(n)) /\ \A t \in Caller : WF_vars(Calling(n, t))

FairSpec == Spec /\ Fairness

-----------------------------------------------------------------------------
(* Properties                                                              *)

Message == [type : {"ruk", "nuk", "data"}, key : Nat, pubKey : Nat]

\* Each variable holds values of the kind the agent gives it.
TypeOK ==
    /\ entry \in [Node -> [Node -> Neighbor \cup {Absent}]]
    /\ rsaKey \in [Node -> Nat]
    /\ caller \in [Node -> [Caller ->
           [pc : {"idle", "loop", "asked", "send", "dead"}, to : Node,
            retries : 0 .. MaxRetries,
            result : {"none", "unknown", "max retries", "success"}]]]
    /\ chan \in [Node -> [Node -> Seq(Message)]]
    /\ probed \subseteq Node \X Node
    /\ rx \in [Node -> {"alive", "dead"}]
    /\ fresh \in Nat

\* No data is ever decrypted with another key than the one it was encrypted
\* with: not after retries, late answers and losses, and not after restarts
\* and removed entries (the receive thread would end in rxCbInternal).
NoGarbage ==
    \A n, p \in Node :
        /\ chan[n][p] # <<>> /\ Head(chan[n][p]).type = "data" /\ Known(p, n)
        => entry[p][n].rec \in {NoKey, Head(chan[n][p]).key}

\* As long as no entry goes and no agent restarts, whatever data is on its way
\* finds its key at the receiver, however many ruk and nuk were lost, repeated
\* or answered too late.
KeyIsThere ==
    leaves = 0 /\ boots = 0 =>
        \A n, p \in Node : \A i \in DOMAIN chan[n][p] :
            chan[n][p][i].type = "data" => entry[p][n].rec = chan[n][p][i].key

\* A call of sendToNeighbor ends, with a result or, when the entry of the
\* neighbour is gone, with an exception: whether the neighbour answers or not,
\* and also when the caller is the receive thread, which would have to take
\* the answer itself.
CallReturns ==
    \A n \in Node, t \in Caller :
        caller[n][t].pc \in {"loop", "asked", "send"} ~> caller[n][t].pc \in {"idle", "dead"}
=============================================================================
