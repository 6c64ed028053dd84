-------------------------- MODULE ForwardingProofs --------------------------
(***************************************************************************)
(* Proofs about the flooding layer, for any topology, number of nodes and  *)
(* threads and any number of losses, departures and restarts.              *)
(***************************************************************************)
EXTENDS Forwarding, WellFoundedInduction, TLAPS

\* The message sendFloodingMessage puts on the SND socket is a message.
LEMMA SendType ==
    ASSUME TypeOK, NEW n \in Node, NEW t \in Thread,
           NEW rec \in Node \cup {Bcast}, NEW max_ttl \in Nat,
           sendFloodingMessage(n, t, rec, max_ttl)
    PROVE  TypeOK'
<1>1. Len(log[n]) + 1 \in Nat
  BY DEF TypeOK
<1>2. [host |-> n, k |-> Len(log[n]) + 1, id |-> local_id[n], rec |-> rec,
       ttl |-> max_ttl, lasthop |-> n] \in Message
  BY <1>1 DEF TypeOK, Message
<1>3. snd' \in [Node -> Seq(Message)]
  BY <1>2 DEF TypeOK, sendFloodingMessage
<1>4. [to |-> Audience(n, rec, max_ttl), rec |-> rec, scope |-> max_ttl - 2,
       id |-> local_id[n]] \in Send
  BY DEF TypeOK, Audience, Send
<1>5. log' \in [Node -> Seq(Send)]
  BY <1>4 DEF TypeOK, sendFloodingMessage
<1>6. sender' \in [Node -> [Thread -> [pc : {"idle", "sent", "loaded"}, tmp : Nat]]]
  BY DEF TypeOK, sendFloodingMessage
<1> QED
  BY <1>3, <1>5, <1>6 DEF TypeOK, sendFloodingMessage, bounds

\* What the forwarder keeps of a message it takes is a message.
LEMMA TakeType ==
    ASSUME TypeOK, NEW n \in Node, NEW m \in Message, Take(n, m)
    PROVE  hand' \in [Node -> Message \cup {None}]
<1>1. CASE Expired(m) \/ Seen(n, m) \/ ~ForMe(n, m)
  BY <1>1 DEF TypeOK, Take
<1>2. CASE ~(Expired(m) \/ Seen(n, m) \/ ~ForMe(n, m))
  <2>1. m.ttl - 1 \in Nat
    BY <1>2 DEF Expired, Message
  <2>2. [m EXCEPT !.ttl = @ - 1] \in Message
    BY <2>1 DEF Message
  <2> QED
    BY <1>2, <2>2 DEF TypeOK, Take
<1> QED
  BY <1>1, <1>2

\* Striking nodes from the audiences leaves a log a log.
LEMMA StrikeType ==
    ASSUME NEW sends \in Seq(Send), NEW S
    PROVE  Strike(sends, S) \in Seq(Send)
<1>1. PICK len \in Nat : DOMAIN sends = 1..len
  OBVIOUS
<1>2. \A k \in 1..len : Strike(sends, S)[k] \in Send
  <2> TAKE k \in 1..len
  <2>1. sends[k] \in Send
    BY <1>1
  <2>2. Strike(sends, S)[k] = [to |-> sends[k].to \ S, rec |-> sends[k].rec,
                               scope |-> sends[k].scope, id |-> sends[k].id]
    BY <1>1 DEF Strike
  <2> QED
    BY <2>1, <2>2 DEF Send
<1>3. Strike(sends, S) \in [1..len -> Send]
  BY <1>1, <1>2 DEF Strike
<1> QED
  BY <1>3

\* The agents keep values of the right kind in all their variables: every
\* action of the flooding layer preserves TypeOK.
THEOREM TypeCorrect == Spec => []TypeOK
<1>1. Init => TypeOK
  BY ForwardingAssumption DEF Init, TypeOK, Idle
<1>2. TypeOK /\ [Next]_vars => TypeOK'
  <2> SUFFICES ASSUME TypeOK, [Next]_vars PROVE TypeOK'
    OBVIOUS
  <2> USE ForwardingAssumption
  <2>1. ASSUME NEW n \in Node, NEW p \in Node, onAPJoined(n, p) PROVE TypeOK'
    BY <2>1 DEF TypeOK, onAPJoined, netVars, histVars, bounds
  <2>2. ASSUME NEW n \in Node, NEW p \in Node, onAPLeft(n, p) PROVE TypeOK'
    <3>1. log' \in [Node -> Seq(Send)]
      BY <2>2, StrikeType DEF TypeOK, onAPLeft
    <3>0. link' = [link EXCEPT ![n][p] = <<>>]
      BY <2>2 DEF onAPLeft
    <3>2. /\ globalNeighborList' = [globalNeighborList EXCEPT ![n] = @ \ {p}]
          /\ leaves' = leaves + 1
          /\ UNCHANGED <<local_id, sender, fwd_cache, hand, snd, rx, delivered,
                         losses, boots>>
      BY <2>2 DEF onAPLeft
    <3>3. <<>> \in Seq(Message)
      OBVIOUS
    <3>4. link' \in [Node -> [Node -> Seq(Message)]]
      BY <3>0, <3>3 DEF TypeOK
    <3>5. globalNeighborList[n] \ {p} \in SUBSET Node
      BY DEF TypeOK
    <3>6. globalNeighborList' \in [Node -> SUBSET Node]
      BY <3>2, <3>5 DEF TypeOK
    <3>7. leaves' \in Nat
      BY <3>2 DEF TypeOK
    <3> QED
      BY <3>1, <3>2, <3>4, <3>6, <3>7, Zenon DEF TypeOK
  <2>3. ASSUME NEW n \in Node, NEW p \in Node, LinkLoss(n, p) PROVE TypeOK'
    <3>0. /\ link[n][p] # <<>>
          /\ link' = [link EXCEPT ![n][p] = SubSeq(@, 1, Len(@) - 1)]
      BY <2>3 DEF LinkLoss
    <3>1. /\ losses' = losses + 1
          /\ UNCHANGED <<globalNeighborList, local_id, sender, fwd_cache, hand,
                         snd, rx, delivered, log, leaves, boots>>
      BY <2>3 DEF LinkLoss, nodeVars, histVars
    <3>2. link[n][p] \in Seq(Message)
      BY DEF TypeOK
    <3>3. SubSeq(link[n][p], 1, Len(link[n][p]) - 1) \in Seq(Message)
      BY <3>0, <3>2
    <3>4. link' \in [Node -> [Node -> Seq(Message)]]
      BY <3>0, <3>3 DEF TypeOK
    <3>5. losses' \in Nat
      BY <3>1 DEF TypeOK
    <3> QED
      BY <3>1, <3>4, <3>5, Zenon DEF TypeOK
  <2>4. ASSUME NEW n \in Node, NEW t \in Thread, NEW scope \in Scopes,
               sendToNeighbors(n, t, scope)
        PROVE TypeOK'
    BY <2>4, SendType DEF sendToNeighbors
  <2>5. ASSUME NEW n \in Node, NEW t \in Thread, NEW p \in Node,
               sendToNeighbor(n, t, p)
        PROVE TypeOK'
    BY <2>5, SendType DEF sendToNeighbor
  <2>6. ASSUME NEW n \in Node, NEW t \in Thread, LoadId(n, t) PROVE TypeOK'
    BY <2>6 DEF TypeOK, LoadId, netVars, histVars, bounds
  <2>7. ASSUME NEW n \in Node, NEW t \in Thread, StoreId(n, t) PROVE TypeOK'
    BY <2>7 DEF TypeOK, StoreId, Idle, netVars, histVars, bounds
  <2>8. ASSUME NEW n \in Node, FwdRecvOwn(n) PROVE TypeOK'
    <3>1. Head(snd[n]) \in Message
      BY <2>8 DEF TypeOK, FwdRecvOwn
    <3>2. hand' \in [Node -> Message \cup {None}]
      BY <2>8, <3>1, TakeType DEF FwdRecvOwn
    <3>3. snd' \in [Node -> Seq(Message)]
      BY <2>8 DEF TypeOK, FwdRecvOwn
    <3> QED
      BY <2>8, <3>2, <3>3 DEF TypeOK, FwdRecvOwn, histVars, bounds
  <2>9. ASSUME NEW n \in Node, NEW p \in Node, FwdRecv(n, p) PROVE TypeOK'
    <3>0. link[n][p] \in Seq(Message) /\ link[n][p] # <<>>
      BY <2>9 DEF TypeOK, FwdRecv
    <3>1. Head(link[n][p]) \in Message /\ Tail(link[n][p]) \in Seq(Message)
      BY <3>0
    <3>2. hand' \in [Node -> Message \cup {None}]
      BY <2>9, <3>1, TakeType DEF FwdRecv
    <3>3. link' \in [Node -> [Node -> Seq(Message)]]
      BY <2>9, <3>1 DEF TypeOK, FwdRecv
    <3> QED
      BY <2>9, <3>2, <3>3 DEF TypeOK, FwdRecv, histVars, bounds
  <2>10. ASSUME NEW n \in Node, Forward(n) PROVE TypeOK'
    <3> DEFINE out == [hand[n] EXCEPT !.lasthop = n]
    <3>1. hand[n] \in Message
      BY <2>10 DEF TypeOK, Forward
    <3>2. out \in Message
      BY <3>1 DEF Message
    <3> HIDE DEF out
    <3>3. \A p \in Node : Append(link[p][n], out) \in Seq(Message)
      BY <3>2 DEF TypeOK
    <3>4. \A p \in Node : [link[p] EXCEPT ![n] = Append(@, out)] \in [Node -> Seq(Message)]
      BY <3>3 DEF TypeOK
    <3>5. link' = [p \in Node |-> IF n \in globalNeighborList[p]
                                  THEN [link[p] EXCEPT ![n] = Append(@, out)]
                                  ELSE link[p]]
      BY <2>10 DEF Forward, out
    <3>6. link' \in [Node -> [Node -> Seq(Message)]]
      BY <3>4, <3>5 DEF TypeOK
    <3>7. rx' = [rx EXCEPT ![n] = Append(@, out)]
      BY <2>10 DEF Forward, out
    <3>8. rx' \in [Node -> Seq(Message)]
      BY <3>2, <3>7 DEF TypeOK
    <3>9. hand[n].host \in Node /\ hand[n].id \in Nat
      BY <3>1 DEF Message
    <3>10. fwd_cache' \in [Node -> [Node -> Nat]]
      BY <2>10, <3>9 DEF TypeOK, Forward
    <3> QED
      BY <2>10, <3>6, <3>8, <3>10 DEF TypeOK, Forward, histVars, bounds
  <2>11. ASSUME NEW n \in Node, DropUnknown(n) PROVE TypeOK'
    BY <2>11 DEF TypeOK, DropUnknown, netVars, histVars, bounds
  <2>12. ASSUME NEW n \in Node, DropUndecodable(n) PROVE TypeOK'
    BY <2>12 DEF TypeOK, DropUndecodable, netVars, histVars
  <2>13. ASSUME NEW n \in Node, receiveMessage(n) PROVE TypeOK'
    BY <2>13 DEF TypeOK, receiveMessage, nodeVars, bounds
  <2>14. ASSUME NEW n \in Node, RxUndecodable(n) PROVE TypeOK'
    BY <2>14 DEF TypeOK, RxUndecodable, nodeVars, histVars
  <2>15. ASSUME NEW n \in Node, Restart(n) PROVE TypeOK'
    <3>1. log' \in [Node -> Seq(Send)]
      BY <2>15, StrikeType DEF TypeOK, Restart
    <3>2. sender' \in [Node -> [Thread -> [pc : {"idle", "sent", "loaded"}, tmp : Nat]]]
      BY <2>15 DEF TypeOK, Restart, Idle
    <3>3. link' \in [Node -> [Node -> Seq(Message)]]
      BY <2>15 DEF TypeOK, Restart
    <3>4. fwd_cache' \in [Node -> [Node -> Nat]]
      BY <2>15 DEF TypeOK, Restart
    <3>5. /\ snd' \in [Node -> Seq(Message)]
          /\ rx' \in [Node -> Seq(Message)]
          /\ delivered' \in [Node -> Seq(Message)]
      BY <2>15 DEF TypeOK, Restart
    <3>6. /\ globalNeighborList' \in [Node -> SUBSET Node]
          /\ local_id' \in [Node -> Nat]
          /\ hand' \in [Node -> Message \cup {None}]
          /\ boots' \in Nat /\ losses' \in Nat /\ leaves' \in Nat
      BY <2>15 DEF TypeOK, Restart
    <3> QED
      BY <3>1, <3>2, <3>3, <3>4, <3>5, <3>6 DEF TypeOK
  <2>16. CASE UNCHANGED vars
    BY <2>16 DEF TypeOK, vars, nodeVars, netVars, histVars, bounds
  <2> QED
    BY <2>1, <2>2, <2>3, <2>4, <2>5, <2>6, <2>7, <2>8, <2>9, <2>10, <2>11,
       <2>12, <2>13, <2>14, <2>15, <2>16 DEF Next, Forwarder
<1> QED
  BY <1>1, <1>2, PTL DEF Spec

\* Where the elements of Append(s, e) come from.
LEMMA AppendAt ==
    ASSUME NEW s \in Seq(Message), NEW e \in Message
    PROVE  /\ DOMAIN s = 1..Len(s) /\ Len(s) \in Nat
           /\ DOMAIN Append(s, e) = 1..(Len(s) + 1)
           /\ \A i \in 1..Len(s) : Append(s, e)[i] = s[i]
           /\ Append(s, e)[Len(s) + 1] = e
  OBVIOUS

\* Where the elements of Tail(s) come from.
LEMMA TailAt ==
    ASSUME NEW s \in Seq(Message), s # <<>>
    PROVE  /\ DOMAIN s = 1..Len(s) /\ Len(s) \in Nat /\ 1 \in DOMAIN s
           /\ Head(s) = s[1] /\ s[1] \in Message /\ Tail(s) \in Seq(Message)
           /\ DOMAIN Tail(s) = 1..(Len(s) - 1)
           /\ \A i \in 1..(Len(s) - 1) : Tail(s)[i] = s[i + 1] /\ i + 1 \in DOMAIN s
  OBVIOUS

\* Nothing is out of order in empty sequences.
LEMMA EmptyOrder ==
    ASSUME NEW cache
    PROVE  Growing(<<>>) /\ Below(<<>>, cache) /\ Before(<<>>, <<>>)
  BY DEF Growing, Below, Before

\* The fields of a message that the order is about.
LEMMA Fields ==
    ASSUME NEW m \in Message
    PROVE  m.host \in Node /\ m.id \in Nat
  BY DEF Message

\* Appending a message with a higher id than any of its host keeps ids growing.
LEMMA AppendGrowing ==
    ASSUME NEW s \in Seq(Message), NEW e \in Message, Growing(s),
           \A i \in DOMAIN s : s[i].host = e.host => s[i].id < e.id
    PROVE  Growing(Append(s, e))
<1> SUFFICES ASSUME NEW i \in DOMAIN Append(s, e), NEW j \in DOMAIN Append(s, e),
                    i < j, Append(s, e)[i].host = Append(s, e)[j].host
             PROVE  Append(s, e)[i].id < Append(s, e)[j].id
  BY DEF Growing
<1>1. i \in 1..Len(s) /\ Append(s, e)[i] = s[i] /\ i \in DOMAIN s
  BY AppendAt
<1>2. CASE j \in 1..Len(s)
  <2>1. Append(s, e)[j] = s[j] /\ j \in DOMAIN s
    BY <1>2, AppendAt
  <2> QED
    BY <1>1, <2>1 DEF Growing
<1>3. CASE j = Len(s) + 1
  <2>1. Append(s, e)[j] = e
    BY <1>3, AppendAt
  <2> QED
    BY <1>1, <2>1
<1> QED
  BY <1>2, <1>3, AppendAt

\* Below holds of Append(s, e) when it holds of s and of e.
LEMMA AppendBelow ==
    ASSUME NEW s \in Seq(Message), NEW e \in Message, NEW cache,
           Below(s, cache), e.id <= cache[e.host]
    PROVE  Below(Append(s, e), cache)
<1> SUFFICES ASSUME NEW i \in DOMAIN Append(s, e)
             PROVE  Append(s, e)[i].id <= cache[Append(s, e)[i].host]
  BY DEF Below
<1>1. CASE i \in 1..Len(s)
  <2>1. Append(s, e)[i] = s[i] /\ i \in DOMAIN s
    BY <1>1, AppendAt
  <2> QED
    BY <2>1 DEF Below
<1>2. CASE i = Len(s) + 1
  BY <1>2, AppendAt
<1> QED
  BY <1>1, <1>2, AppendAt

\* Before(s, r) survives a message at the end of r that is above s.
LEMMA AppendBefore ==
    ASSUME NEW s, NEW r \in Seq(Message), NEW e \in Message, Before(s, r),
           \A i \in DOMAIN s : s[i].host = e.host => s[i].id < e.id
    PROVE  Before(s, Append(r, e))
<1> SUFFICES ASSUME NEW i \in DOMAIN s, NEW j \in DOMAIN Append(r, e),
                    s[i].host = Append(r, e)[j].host
             PROVE  s[i].id < Append(r, e)[j].id
  BY DEF Before
<1>1. CASE j \in 1..Len(r)
  <2>1. Append(r, e)[j] = r[j] /\ j \in DOMAIN r
    BY <1>1, AppendAt
  <2> QED
    BY <2>1 DEF Before
<1>2. CASE j = Len(r) + 1
  <2>1. Append(r, e)[j] = e
    BY <1>2, AppendAt
  <2> QED
    BY <2>1
<1> QED
  BY <1>1, <1>2, AppendAt

\* Without its head, a growing sequence is growing and above its head.
LEMMA TailOrder ==
    ASSUME NEW s, NEW r \in Seq(Message), r # <<>>, NEW cache,
           Growing(r), Below(r, cache), Before(s, r)
    PROVE  /\ Growing(Tail(r)) /\ Below(Tail(r), cache) /\ Before(s, Tail(r))
           /\ \A j \in DOMAIN Tail(r) :
                 Head(r).host = Tail(r)[j].host => Head(r).id < Tail(r)[j].id
           /\ Head(r).id <= cache[Head(r).host]
           /\ \A i \in DOMAIN s : s[i].host = Head(r).host => s[i].id < Head(r).id
<1>1. \A j \in DOMAIN Tail(r) : /\ Tail(r)[j] = r[j + 1] /\ j + 1 \in DOMAIN r
                                /\ j \in Int /\ 1 < j + 1
  BY TailAt
<1>2. Head(r) = r[1] /\ 1 \in DOMAIN r
  BY TailAt
<1>3. Growing(Tail(r))
  BY <1>1 DEF Growing
<1>4. Below(Tail(r), cache)
  BY <1>1 DEF Below
<1>5. Before(s, Tail(r))
  BY <1>1 DEF Before
<1>6. \A j \in DOMAIN Tail(r) :
         Head(r).host = Tail(r)[j].host => Head(r).id < Tail(r)[j].id
  BY <1>1, <1>2 DEF Growing
<1>7. Head(r).id <= cache[Head(r).host]
  BY <1>2 DEF Below
<1>8. \A i \in DOMAIN s : s[i].host = Head(r).host => s[i].id < Head(r).id
  BY <1>2 DEF Before
<1> QED
  BY <1>3, <1>4, <1>5, <1>6, <1>7, <1>8

\* Before(s, r) survives a message at the end of s that is below r.
LEMMA PrefixBefore ==
    ASSUME NEW s \in Seq(Message), NEW r, NEW e \in Message, Before(s, r),
           \A j \in DOMAIN r : e.host = r[j].host => e.id < r[j].id
    PROVE  Before(Append(s, e), r)
<1> SUFFICES ASSUME NEW i \in DOMAIN Append(s, e), NEW j \in DOMAIN r,
                    Append(s, e)[i].host = r[j].host
             PROVE  Append(s, e)[i].id < r[j].id
  BY DEF Before
<1>1. CASE i \in 1..Len(s)
  <2>1. Append(s, e)[i] = s[i] /\ i \in DOMAIN s
    BY <1>1, AppendAt
  <2> QED
    BY <2>1 DEF Before
<1>2. CASE i = Len(s) + 1
  <2>1. Append(s, e)[i] = e
    BY <1>2, AppendAt
  <2> QED
    BY <2>1
<1> QED
  BY <1>1, <1>2, AppendAt

\* Raising the kept id of one host keeps a sequence below, and what has that
\* host is below the new id.
LEMMA RaiseBelow ==
    ASSUME NEW s \in Seq(Message), NEW cache \in [Node -> Nat], NEW h \in Node,
           NEW id \in Nat, cache[h] < id, Below(s, cache)
    PROVE  /\ Below(s, [cache EXCEPT ![h] = id])
           /\ \A i \in DOMAIN s : s[i].host = h => s[i].id < id
<1>1. \A i \in DOMAIN s : s[i].host \in Node /\ s[i].id \in Nat
  <2> TAKE i \in DOMAIN s
  <2>1. s[i] \in Message
    OBVIOUS
  <2> QED
    BY <2>1, Fields
<1>2. \A i \in DOMAIN s : s[i].host = h => s[i].id < id
  BY <1>1 DEF Below
<1>3. \A i \in DOMAIN s : s[i].id <= [cache EXCEPT ![h] = id][s[i].host]
  BY <1>1, <1>2 DEF Below
<1> QED
  BY <1>2, <1>3 DEF Below

\* A message the forwarder takes has an id above the cache, or it is dropped.
LEMMA TakeOrder ==
    ASSUME TypeOK, OrderInv, NEW n \in Node, NEW m \in Message, Take(n, m),
           UNCHANGED <<fwd_cache, rx, delivered>>
    PROVE  OrderInv'
<1> SUFFICES ASSUME NEW q \in Node PROVE OrderAt(q)'
  BY DEF OrderInv
<1>1. OrderAt(q)
  BY DEF OrderInv
<1>2. CASE q = n
  <2>1. CASE Expired(m) \/ Seen(n, m) \/ ~ForMe(n, m)
    <3>1. hand'[q] = None
      BY <1>2, <2>1 DEF Take, TypeOK
    <3> QED
      BY <1>1, <3>1 DEF OrderAt
  <2>2. CASE ~(Expired(m) \/ Seen(n, m) \/ ~ForMe(n, m))
    <3>1. hand'[q] = [m EXCEPT !.ttl = @ - 1]
      BY <1>2, <2>2 DEF Take, TypeOK
    <3>2. hand'[q].host = m.host /\ hand'[q].id = m.id
      BY <3>1 DEF Message
    <3>3. m.host \in Node /\ m.id \in Nat /\ fwd_cache[n][m.host] \in Nat
      BY DEF Message, TypeOK
    <3>4. fwd_cache[n][m.host] < m.id
      BY <2>2, <3>3 DEF Seen
    <3> QED
      BY <1>1, <1>2, <3>2, <3>4 DEF OrderAt
  <2> QED
    BY <2>1, <2>2
<1>3. CASE q # n
  <2>1. hand'[q] = hand[q]
    BY <1>3 DEF Take, TypeOK
  <2> QED
    BY <1>1, <2>1 DEF OrderAt
<1> QED
  BY <1>2, <1>3

\* Forwarding puts the id in hand on top of the cache and at the end of what
\* the receive thread will read.
LEMMA ForwardOrder ==
    ASSUME TypeOK, OrderInv, NEW n \in Node, Forward(n)
    PROVE  OrderInv'
<1> SUFFICES ASSUME NEW q \in Node PROVE OrderAt(q)'
  BY DEF OrderInv
<1>1. OrderAt(q) /\ OrderAt(n)
  BY DEF OrderInv
<1> DEFINE m == hand[n]
           out == [m EXCEPT !.lasthop = n]
<1>2. m \in Message /\ m # None
  BY DEF TypeOK, Forward
<1>3. out \in Message /\ out.host = m.host /\ out.id = m.id /\ m.host \in Node /\ m.id \in Nat
  BY <1>2 DEF Message
<1>4. /\ rx' = [rx EXCEPT ![n] = Append(@, out)]
      /\ fwd_cache' = [fwd_cache EXCEPT ![n][m.host] = m.id]
      /\ hand' = [hand EXCEPT ![n] = None]
      /\ delivered' = delivered
  BY DEF Forward, histVars
<1>5. fwd_cache[n][m.host] < m.id
  BY <1>1, <1>2 DEF OrderAt
<1>6. CASE q # n
  <2>1. /\ rx'[q] = rx[q] /\ fwd_cache'[q] = fwd_cache[q] /\ hand'[q] = hand[q]
        /\ delivered'[q] = delivered[q]
    BY <1>4, <1>6 DEF TypeOK
  <2> QED
    BY <1>1, <2>1 DEF OrderAt
<1>7. CASE q = n
  <2> HIDE DEF out, m
  <2>1. /\ rx[n] \in Seq(Message) /\ delivered[n] \in Seq(Message)
        /\ fwd_cache[n] \in [Node -> Nat]
    BY DEF TypeOK
  <2>2. /\ rx'[n] = Append(rx[n], out) /\ delivered'[n] = delivered[n]
        /\ hand'[n] = None
        /\ fwd_cache'[n] = [fwd_cache[n] EXCEPT ![m.host] = m.id]
    BY <1>4 DEF TypeOK
  <2>3. /\ Below(rx[n], fwd_cache'[n])
        /\ \A i \in DOMAIN rx[n] : rx[n][i].host = m.host => rx[n][i].id < m.id
    <3>1. Below(rx[n], fwd_cache[n])
      BY <1>1 DEF OrderAt
    <3>2. /\ Below(rx[n], [fwd_cache[n] EXCEPT ![m.host] = m.id])
          /\ \A i \in DOMAIN rx[n] : rx[n][i].host = m.host => rx[n][i].id < m.id
      BY <1>3, <1>5, <2>1, <3>1, RaiseBelow, Zenon
    <3> QED
      BY <2>2, <3>2, Zenon
  <2>4. /\ Below(delivered[n], fwd_cache'[n])
        /\ \A i \in DOMAIN delivered[n] :
              delivered[n][i].host = m.host => delivered[n][i].id < m.id
    <3>1. Below(delivered[n], fwd_cache[n])
      BY <1>1 DEF OrderAt
    <3>2. /\ Below(delivered[n], [fwd_cache[n] EXCEPT ![m.host] = m.id])
          /\ \A i \in DOMAIN delivered[n] :
                delivered[n][i].host = m.host => delivered[n][i].id < m.id
      BY <1>3, <1>5, <2>1, <3>1, RaiseBelow, Zenon
    <3> QED
      BY <2>2, <3>2, Zenon
  <2>5. out.id <= fwd_cache'[n][out.host]
    BY <1>3, <2>1, <2>2
  <2>6. Below(rx'[n], fwd_cache'[n])
    BY <1>3, <2>1, <2>2, <2>3, <2>5, AppendBelow
  <2>7. Growing(rx'[n])
    BY <1>1, <1>3, <2>1, <2>2, <2>3, AppendGrowing DEF OrderAt
  <2>8. Before(delivered[n], rx'[n])
    <3>1. Before(delivered[n], rx[n])
      BY <1>1 DEF OrderAt
    <3>2. \A i \in DOMAIN delivered[n] :
             delivered[n][i].host = out.host => delivered[n][i].id < out.id
      BY <1>3, <2>4
    <3>3. Before(delivered[n], Append(rx[n], out))
      BY <1>3, <2>1, <3>1, <3>2, AppendBefore
    <3> QED
      BY <2>2, <3>3
  <2> QED
    BY <1>1, <1>7, <2>2, <2>4, <2>6, <2>7, <2>8 DEF OrderAt
<1> QED
  BY <1>6, <1>7

\* Moving the head of the receive thread's socket to the end of what was
\* passed on, or losing it, keeps the order.
LEMMA ReceiveOrder ==
    ASSUME TypeOK, OrderInv, NEW n \in Node, rx[n] # <<>>,
           rx' = [rx EXCEPT ![n] = Tail(@)],
           \/ delivered' = delivered
           \/ delivered' = [delivered EXCEPT ![n] = Append(@, Head(rx[n]))],
           UNCHANGED <<fwd_cache, hand>>
    PROVE  OrderInv'
<1> SUFFICES ASSUME NEW q \in Node PROVE OrderAt(q)'
  BY DEF OrderInv
<1>1. OrderAt(q) /\ OrderAt(n)
  BY DEF OrderInv
<1>2. fwd_cache'[q] = fwd_cache[q] /\ hand'[q] = hand[q]
  OBVIOUS
<1>3. CASE q # n
  <2>1. rx'[q] = rx[q] /\ delivered'[q] = delivered[q]
    BY <1>3 DEF TypeOK
  <2> QED
    BY <1>1, <1>2, <2>1 DEF OrderAt
<1>4. CASE q = n
  <2>1. rx[n] \in Seq(Message) /\ delivered[n] \in Seq(Message)
    BY DEF TypeOK
  <2>2. rx'[n] = Tail(rx[n])
    BY DEF TypeOK
  <2>3. /\ Growing(rx'[n]) /\ Below(rx'[n], fwd_cache[n])
        /\ Before(delivered[n], rx'[n])
        /\ \A j \in DOMAIN rx'[n] :
              Head(rx[n]).host = rx'[n][j].host => Head(rx[n]).id < rx'[n][j].id
        /\ Head(rx[n]).id <= fwd_cache[n][Head(rx[n]).host]
        /\ \A i \in DOMAIN delivered[n] :
              delivered[n][i].host = Head(rx[n]).host
                 => delivered[n][i].id < Head(rx[n]).id
    BY <1>1, <2>1, <2>2, TailOrder DEF OrderAt
  <2>4. CASE delivered' = delivered
    <3>1. delivered'[n] = delivered[n]
      BY <2>4
    <3> QED
      BY <1>1, <1>2, <1>4, <2>3, <3>1 DEF OrderAt
  <2>5. CASE delivered' = [delivered EXCEPT ![n] = Append(@, Head(rx[n]))]
    <3>1. Head(rx[n]) \in Message
      BY <2>1, TailAt
    <3>2. delivered'[n] = Append(delivered[n], Head(rx[n]))
      BY <2>5 DEF TypeOK
    <3>3. Below(delivered'[n], fwd_cache[n])
      BY <1>1, <2>1, <2>3, <3>1, <3>2, AppendBelow DEF OrderAt
    <3>4. Growing(delivered'[n])
      BY <1>1, <2>1, <2>3, <3>1, <3>2, AppendGrowing DEF OrderAt
    <3>5. Before(delivered'[n], rx'[n])
      BY <2>1, <2>3, <3>1, <3>2, PrefixBefore
    <3> QED
      BY <1>1, <1>2, <1>4, <2>3, <3>3, <3>4, <3>5 DEF OrderAt
  <2> QED
    BY <2>4, <2>5
<1> QED
  BY <1>3, <1>4

\* The order of ids at every node is preserved by every step.
LEMMA OrderKept == Spec => []OrderInv
<1>1. Init => OrderInv
  <2> SUFFICES ASSUME Init, NEW n \in Node PROVE OrderAt(n)
    BY DEF OrderInv
  <2>1. hand[n] = None /\ rx[n] = <<>> /\ delivered[n] = <<>>
    BY DEF Init
  <2> QED
    BY <2>1, EmptyOrder DEF OrderAt
<1>2. TypeOK /\ OrderInv /\ [Next]_vars => OrderInv'
  <2> SUFFICES ASSUME TypeOK, OrderInv, [Next]_vars PROVE OrderInv'
    OBVIOUS
  <2>1. CASE UNCHANGED <<fwd_cache, hand, rx, delivered>>
    BY <2>1 DEF OrderInv, OrderAt
  <2>2. ASSUME NEW n \in Node, FwdRecvOwn(n) PROVE OrderInv'
    <3>1. Head(snd[n]) \in Message
      BY <2>2 DEF TypeOK, FwdRecvOwn
    <3> QED
      BY <2>2, <3>1, TakeOrder DEF FwdRecvOwn, histVars
  <2>3. ASSUME NEW n \in Node, NEW p \in Node, FwdRecv(n, p) PROVE OrderInv'
    <3>1. link[n][p] \in Seq(Message) /\ link[n][p] # <<>>
      BY <2>3 DEF TypeOK, FwdRecv
    <3>2. Head(link[n][p]) \in Message
      BY <3>1
    <3> QED
      BY <2>3, <3>2, TakeOrder DEF FwdRecv, histVars
  <2>4. ASSUME NEW n \in Node, hand' = [hand EXCEPT ![n] = None],
               UNCHANGED <<fwd_cache, rx, delivered>>
        PROVE  OrderInv'
    BY <2>4 DEF OrderInv, OrderAt, TypeOK
  <2>5. ASSUME NEW n \in Node, receiveMessage(n) \/ RxUndecodable(n)
        PROVE  OrderInv'
    BY <2>5, ReceiveOrder DEF receiveMessage, RxUndecodable, nodeVars, histVars
  <2>6. ASSUME NEW n \in Node, Restart(n) PROVE OrderInv'
    <3> SUFFICES ASSUME NEW q \in Node PROVE OrderAt(q)'
      BY DEF OrderInv
    <3>1. CASE q = n
      <4>1. hand'[n] = None /\ rx'[n] = <<>> /\ delivered'[n] = <<>>
        BY <2>6 DEF Restart, TypeOK
      <4> QED
        BY <3>1, <4>1, EmptyOrder DEF OrderAt
    <3>2. CASE q # n
      <4>1. /\ hand'[q] = hand[q] /\ rx'[q] = rx[q] /\ delivered'[q] = delivered[q]
            /\ fwd_cache'[q] = fwd_cache[q]
        BY <2>6, <3>2 DEF Restart, TypeOK
      <4> QED
        BY <4>1 DEF OrderInv, OrderAt
    <3> QED
      BY <3>1, <3>2
  <2>7. ASSUME NEW n \in Node, DropUnknown(n) \/ DropUndecodable(n)
        PROVE  OrderInv'
    BY <2>7, <2>4 DEF DropUnknown, DropUndecodable, netVars, histVars
  <2>8. ASSUME NEW n \in Node, NEW p \in Node,
               onAPJoined(n, p) \/ onAPLeft(n, p) \/ LinkLoss(n, p)
        PROVE  OrderInv'
    BY <2>8, <2>1 DEF onAPJoined, onAPLeft, LinkLoss, nodeVars, netVars, histVars
  <2>9. ASSUME NEW n \in Node, NEW t \in Thread, NEW rec, NEW max_ttl,
               sendFloodingMessage(n, t, rec, max_ttl)
        PROVE  OrderInv'
    BY <2>9, <2>1 DEF sendFloodingMessage
  <2>10. ASSUME NEW n \in Node, NEW t \in Thread, LoadId(n, t) \/ StoreId(n, t)
         PROVE  OrderInv'
    BY <2>10, <2>1 DEF LoadId, StoreId, netVars, histVars
  <2>11. CASE UNCHANGED vars
    BY <2>11, <2>1 DEF vars, nodeVars, netVars, histVars
  <2>12. ASSUME NEW n \in Node, Forwarder(n) PROVE OrderInv'
    BY <2>2, <2>3, <2>7, <2>12, ForwardOrder DEF Forwarder
  <2> QED
    BY <2>5, <2>6, <2>7, <2>8, <2>9, <2>10, <2>11, <2>12
       DEF Next, sendToNeighbors, sendToNeighbor
<1> QED
  BY <1>1, <1>2, TypeCorrect, PTL DEF Spec

\* Per host, the receive thread passes on strictly growing ids, so every
\* message at most once and in the order it was sent, in every topology and
\* under any losses, departures and restarts: what fwd_cache is for.
THEOREM OrderedDelivery == Spec => []InOrderOnce
<1>1. OrderInv => InOrderOnce
  BY DEF OrderInv, OrderAt, InOrderOnce
<1> QED
  BY <1>1, OrderKept, PTL

-----------------------------------------------------------------------------
\* What the forwarder has in hand or has published is its own or addressed to
\* its node, and what the receive thread has passed on is not its own: the
\* strengthening of OnlyToReceiver that every step preserves, for node n.
AddressedAt(n) ==
    /\ hand[n] # None => ForMe(n, hand[n])
    /\ \A i \in DOMAIN rx[n] : ForMe(n, rx[n][i])
    /\ \A i \in DOMAIN delivered[n] :
          delivered[n][i].host # n /\ ForMe(n, delivered[n][i])

AddressedInv == \A n \in Node : AddressedAt(n)

\* A message that is taken has passed the test of the receiver.
LEMMA TakeAddressed ==
    ASSUME TypeOK, AddressedInv, NEW n \in Node, NEW m \in Message, Take(n, m),
           UNCHANGED <<rx, delivered>>
    PROVE  AddressedInv'
<1> SUFFICES ASSUME NEW q \in Node PROVE AddressedAt(q)'
  BY DEF AddressedInv
<1>1. AddressedAt(q)
  BY DEF AddressedInv
<1>2. hand'[q] # None => ForMe(q, hand'[q])
  <2>1. CASE q # n
    BY <1>1, <2>1 DEF Take, TypeOK, AddressedAt
  <2>2. CASE q = n /\ (Expired(m) \/ Seen(n, m) \/ ~ForMe(n, m))
    BY <2>2 DEF Take, TypeOK
  <2>3. CASE q = n /\ ~(Expired(m) \/ Seen(n, m) \/ ~ForMe(n, m))
    <3>1. hand'[q] = [m EXCEPT !.ttl = @ - 1]
      BY <2>3 DEF Take, TypeOK
    <3>2. hand'[q].host = m.host /\ hand'[q].rec = m.rec
      BY <3>1 DEF Message
    <3> QED
      BY <2>3, <3>2 DEF ForMe
  <2> QED
    BY <2>1, <2>2, <2>3
<1> QED
  BY <1>1, <1>2 DEF AddressedAt, ForMe

\* Forwarding changes the last hop, not the host or the receiver.
LEMMA ForwardAddressed ==
    ASSUME TypeOK, AddressedInv, NEW n \in Node, Forward(n)
    PROVE  AddressedInv'
<1> DEFINE out == [hand[n] EXCEPT !.lasthop = n]
<1> SUFFICES ASSUME NEW q \in Node PROVE AddressedAt(q)'
  BY DEF AddressedInv
<1>1. AddressedAt(q) /\ AddressedAt(n)
  BY DEF AddressedInv
<1>2. hand[n] \in Message /\ rx[n] \in Seq(Message)
  BY DEF TypeOK, Forward
<1>3. out \in Message /\ out.host = hand[n].host /\ out.rec = hand[n].rec
  BY <1>2 DEF Message
<1>4. ForMe(n, out)
  BY <1>1, <1>3 DEF AddressedAt, ForMe, Forward
<1>5. delivered' = delivered
  BY DEF Forward, histVars
<1>6. CASE q # n
  <2>1. hand'[q] = hand[q] /\ rx'[q] = rx[q]
    BY <1>6 DEF Forward, TypeOK
  <2> QED
    BY <1>1, <1>5, <2>1 DEF AddressedAt, ForMe
<1>7. CASE q = n
  <2>1. hand'[n] = None /\ rx'[n] = Append(rx[n], out)
    BY DEF Forward, TypeOK
  <2> HIDE DEF out
  <2>2. \A i \in DOMAIN rx'[n] : ForMe(n, rx'[n][i])
    <3> SUFFICES ASSUME NEW i \in DOMAIN rx'[n] PROVE ForMe(n, rx'[n][i])
      OBVIOUS
    <3>1. (i \in DOMAIN rx[n] /\ rx'[n][i] = rx[n][i]) \/ rx'[n][i] = out
      BY <1>2, <1>3, <2>1
    <3> QED
      BY <1>1, <1>4, <3>1 DEF AddressedAt
  <2> QED
    BY <1>1, <1>5, <1>7, <2>1, <2>2 DEF AddressedAt, ForMe
<1> QED
  BY <1>6, <1>7

\* The receive thread does not pass on what is its own.
LEMMA ReceiveAddressed ==
    ASSUME TypeOK, AddressedInv, NEW n \in Node, rx[n] # <<>>,
           rx' = [rx EXCEPT ![n] = Tail(@)],
           \/ delivered' = delivered
           \/ /\ Head(rx[n]).host # n
              /\ delivered' = [delivered EXCEPT ![n] = Append(@, Head(rx[n]))],
           UNCHANGED hand
    PROVE  AddressedInv'
<1> SUFFICES ASSUME NEW q \in Node PROVE AddressedAt(q)'
  BY DEF AddressedInv
<1>1. AddressedAt(q) /\ AddressedAt(n)
  BY DEF AddressedInv
<1>2. CASE q # n
  <2>1. rx'[q] = rx[q] /\ delivered'[q] = delivered[q] /\ hand'[q] = hand[q]
    BY <1>2 DEF TypeOK
  <2> QED
    BY <1>1, <2>1 DEF AddressedAt, ForMe
<1>3. CASE q = n
  <2>1. rx[n] \in Seq(Message) /\ delivered[n] \in Seq(Message)
    BY DEF TypeOK
  <2>2. rx'[n] = Tail(rx[n]) /\ hand'[n] = hand[n]
    BY DEF TypeOK
  <2>3. Head(rx[n]) \in Message /\ Head(rx[n]) = rx[n][1] /\ 1 \in DOMAIN rx[n]
    BY <2>1
  <2>4. \A i \in DOMAIN rx'[n] : ForMe(n, rx'[n][i])
    <3> SUFFICES ASSUME NEW i \in DOMAIN rx'[n] PROVE ForMe(n, rx'[n][i])
      OBVIOUS
    <3>1. i + 1 \in DOMAIN rx[n] /\ rx'[n][i] = rx[n][i + 1]
      BY <2>1, <2>2, TailAt
    <3> QED
      BY <1>1, <3>1 DEF AddressedAt
  <2>5. CASE delivered' = delivered
    BY <1>1, <1>3, <2>2, <2>4, <2>5 DEF AddressedAt, ForMe
  <2>6. CASE /\ Head(rx[n]).host # n
             /\ delivered' = [delivered EXCEPT ![n] = Append(@, Head(rx[n]))]
    <3>1. delivered'[n] = Append(delivered[n], Head(rx[n]))
      BY <2>6 DEF TypeOK
    <3>2. ForMe(n, Head(rx[n]))
      BY <1>1, <2>3 DEF AddressedAt
    <3>3. ASSUME NEW i \in DOMAIN delivered'[n]
          PROVE  delivered'[n][i].host # n /\ ForMe(n, delivered'[n][i])
      <4>1. \/ i \in DOMAIN delivered[n] /\ delivered'[n][i] = delivered[n][i]
            \/ delivered'[n][i] = Head(rx[n])
        BY <2>1, <2>3, <3>1, <3>3
      <4> QED
        BY <1>1, <2>6, <3>2, <4>1 DEF AddressedAt
    <3> QED
      BY <1>1, <1>3, <2>2, <2>4, <3>3 DEF AddressedAt, ForMe
  <2> QED
    BY <2>5, <2>6
<1> QED
  BY <1>2, <1>3

\* Every step keeps the messages a node holds its own or addressed to it.
LEMMA AddressedKept == Spec => []AddressedInv
<1>1. Init => AddressedInv
  <2> SUFFICES ASSUME Init, NEW n \in Node PROVE AddressedAt(n)
    BY DEF AddressedInv
  <2>1. hand[n] = None /\ rx[n] = <<>> /\ delivered[n] = <<>>
    BY DEF Init
  <2> QED
    BY <2>1 DEF AddressedAt
<1>2. TypeOK /\ AddressedInv /\ [Next]_vars => AddressedInv'
  <2> SUFFICES ASSUME TypeOK, AddressedInv, [Next]_vars PROVE AddressedInv'
    OBVIOUS
  <2>1. CASE UNCHANGED <<hand, rx, delivered>>
    BY <2>1 DEF AddressedInv, AddressedAt, ForMe
  <2>2. ASSUME NEW n \in Node, FwdRecvOwn(n) PROVE AddressedInv'
    <3>1. Head(snd[n]) \in Message
      BY <2>2 DEF TypeOK, FwdRecvOwn
    <3> QED
      BY <2>2, <3>1, TakeAddressed DEF FwdRecvOwn, histVars
  <2>3. ASSUME NEW n \in Node, NEW p \in Node, FwdRecv(n, p) PROVE AddressedInv'
    <3>1. link[n][p] \in Seq(Message) /\ link[n][p] # <<>>
      BY <2>3 DEF TypeOK, FwdRecv
    <3>2. Head(link[n][p]) \in Message
      BY <3>1
    <3> QED
      BY <2>3, <3>2, TakeAddressed DEF FwdRecv, histVars
  <2>4. ASSUME NEW n \in Node, DropUnknown(n) \/ DropUndecodable(n)
        PROVE  AddressedInv'
    <3>1. hand' = [hand EXCEPT ![n] = None] /\ UNCHANGED <<rx, delivered>>
      BY <2>4 DEF DropUnknown, DropUndecodable, netVars, histVars
    <3> QED
      BY <3>1 DEF AddressedInv, AddressedAt, ForMe, TypeOK
  <2>5. ASSUME NEW n \in Node, receiveMessage(n) \/ RxUndecodable(n)
        PROVE  AddressedInv'
    BY <2>5, ReceiveAddressed DEF receiveMessage, RxUndecodable, nodeVars, histVars
  <2>6. ASSUME NEW n \in Node, Restart(n) PROVE AddressedInv'
    <3> SUFFICES ASSUME NEW q \in Node PROVE AddressedAt(q)'
      BY DEF AddressedInv
    <3>1. CASE q = n
      <4>1. hand'[n] = None /\ rx'[n] = <<>> /\ delivered'[n] = <<>>
        BY <2>6 DEF Restart, TypeOK
      <4> QED
        BY <3>1, <4>1 DEF AddressedAt
    <3>2. CASE q # n
      <4>1. hand'[q] = hand[q] /\ rx'[q] = rx[q] /\ delivered'[q] = delivered[q]
        BY <2>6, <3>2 DEF Restart, TypeOK
      <4> QED
        BY <4>1 DEF AddressedInv, AddressedAt, ForMe
    <3> QED
      BY <3>1, <3>2
  <2>7. ASSUME NEW n \in Node, NEW p \in Node,
               onAPJoined(n, p) \/ onAPLeft(n, p) \/ LinkLoss(n, p)
        PROVE  AddressedInv'
    BY <2>7, <2>1 DEF onAPJoined, onAPLeft, LinkLoss, nodeVars, netVars, histVars
  <2>8. ASSUME NEW n \in Node, NEW t \in Thread, NEW rec, NEW max_ttl,
               sendFloodingMessage(n, t, rec, max_ttl)
        PROVE  AddressedInv'
    BY <2>8, <2>1 DEF sendFloodingMessage
  <2>9. ASSUME NEW n \in Node, NEW t \in Thread, LoadId(n, t) \/ StoreId(n, t)
        PROVE  AddressedInv'
    BY <2>9, <2>1 DEF LoadId, StoreId, netVars, histVars
  <2>10. CASE UNCHANGED vars
    BY <2>10, <2>1 DEF vars, nodeVars, netVars, histVars
  <2>11. ASSUME NEW n \in Node, Forwarder(n) PROVE AddressedInv'
    BY <2>2, <2>3, <2>4, <2>11, ForwardAddressed DEF Forwarder
  <2> QED
    BY <2>4, <2>5, <2>6, <2>7, <2>8, <2>9, <2>10, <2>11
       DEF Next, sendToNeighbors, sendToNeighbor
<1> QED
  BY <1>1, <1>2, TypeCorrect, PTL DEF Spec

\* In every topology and whatever is lost, leaves or restarts, a unicast message
\* is given to the applications of its receiver only, and no node is given what
\* it sent itself: the receiver test of the forwarder is enough.
THEOREM PrivateDelivery == Spec => []OnlyToReceiver
<1>1. AddressedInv => OnlyToReceiver
  BY DEF AddressedInv, AddressedAt, OnlyToReceiver, ForMe
<1> QED
  BY <1>1, AddressedKept, PTL

-----------------------------------------------------------------------------
(* The flooding layer implements FloodService                              *)

\* The log l2 has every entry of l, with the same receiver and id.
LogKept(l, l2) ==
    \A h \in Node : \A k \in DOMAIN l[h] :
        /\ k \in DOMAIN l2[h]
        /\ l2[h][k].rec = l[h][k].rec
        /\ l2[h][k].id = l[h][k].id

\* A genuine message put at the end of genuine ones.
LEMMA AppendGenuine ==
    ASSUME NEW l, NEW s \in Seq(Message), NEW e \in Message,
           AllGenuine(s, l), Genuine(e, l)
    PROVE  AllGenuine(Append(s, e), l)
<1> SUFFICES ASSUME NEW i \in DOMAIN Append(s, e)
             PROVE  Genuine(Append(s, e)[i], l)
  BY DEF AllGenuine
<1>1. \/ i \in DOMAIN s /\ Append(s, e)[i] = s[i]
      \/ Append(s, e)[i] = e
  BY AppendAt
<1> QED
  BY <1>1 DEF AllGenuine

\* The first of a sequence of genuine messages, and the others.
LEMMA TailGenuine ==
    ASSUME NEW l, NEW s \in Seq(Message), s # <<>>, AllGenuine(s, l)
    PROVE  Genuine(Head(s), l) /\ AllGenuine(Tail(s), l)
<1>1. Head(s) = s[1] /\ 1 \in DOMAIN s
  BY TailAt
<1>2. ASSUME NEW i \in DOMAIN Tail(s) PROVE Genuine(Tail(s)[i], l)
  <2>1. i + 1 \in DOMAIN s /\ Tail(s)[i] = s[i + 1]
    BY TailAt
  <2> QED
    BY <2>1 DEF AllGenuine
<1> QED
  BY <1>1, <1>2 DEF AllGenuine

\* All but the last of a sequence of genuine messages.
LEMMA FrontGenuine ==
    ASSUME NEW l, NEW s \in Seq(Message), s # <<>>, AllGenuine(s, l)
    PROVE  AllGenuine(SubSeq(s, 1, Len(s) - 1), l)
<1> SUFFICES ASSUME NEW i \in DOMAIN SubSeq(s, 1, Len(s) - 1)
             PROVE  Genuine(SubSeq(s, 1, Len(s) - 1)[i], l)
  BY DEF AllGenuine
<1>1. i \in DOMAIN s /\ SubSeq(s, 1, Len(s) - 1)[i] = s[i]
  OBVIOUS
<1> QED
  BY <1>1 DEF AllGenuine

\* Genuine messages stay genuine when the log grows or audiences shrink.
LEMMA KeptGenuine ==
    ASSUME NEW l, NEW l2, LogKept(l, l2)
    PROVE  /\ \A m \in Message : Genuine(m, l) => Genuine(m, l2)
           /\ \A s \in Seq(Message) : AllGenuine(s, l) => AllGenuine(s, l2)
<1>1. \A m \in Message : Genuine(m, l) => Genuine(m, l2)
  BY DEF Genuine, LogKept, Message
<1>2. ASSUME NEW s \in Seq(Message), AllGenuine(s, l), NEW i \in DOMAIN s
      PROVE  Genuine(s[i], l2)
  <2>1. s[i] \in Message
    OBVIOUS
  <2> QED
    BY <1>1, <1>2, <2>1 DEF AllGenuine
<1> QED
  BY <1>1, <1>2 DEF AllGenuine

\* Striking nodes from the audiences keeps the log.
LEMMA StrikeKept ==
    ASSUME NEW sends \in Seq(Send), NEW S
    PROVE  /\ DOMAIN Strike(sends, S) = DOMAIN sends
           /\ \A k \in DOMAIN sends : /\ Strike(sends, S)[k].rec = sends[k].rec
                                      /\ Strike(sends, S)[k].id = sends[k].id
  BY DEF Strike

-----------------------------------------------------------------------------
(* Every message under way is genuine                                      *)

\* A step that keeps the log, takes no message up and puts none anywhere.
LEMMA KeepGenuine ==
    ASSUME TypeOK, GenuineInv, LogKept(log, log'),
           \A n \in Node : /\ snd'[n] \in {snd[n], <<>>}
                           /\ \A p \in Node : link'[n][p] \in {link[n][p], <<>>}
                           /\ hand'[n] \in {hand[n], None}
                           /\ rx'[n] \in {rx[n], <<>>}
                           /\ delivered'[n] \in {delivered[n], <<>>}
    PROVE  GenuineInv'
<1> SUFFICES ASSUME NEW n \in Node PROVE GenuineAt(n)'
  BY DEF GenuineInv
<1>1. GenuineAt(n)
  BY DEF GenuineInv
<1>2. /\ snd[n] \in Seq(Message) /\ rx[n] \in Seq(Message)
      /\ delivered[n] \in Seq(Message)
      /\ \A p \in Node : link[n][p] \in Seq(Message)
      /\ hand[n] # None => hand[n] \in Message
  BY DEF TypeOK
<1>3. AllGenuine(<<>>, log')
  BY DEF AllGenuine
<1>4. /\ AllGenuine(snd[n], log') /\ AllGenuine(rx[n], log')
      /\ AllGenuine(delivered[n], log')
      /\ \A p \in Node : AllGenuine(link[n][p], log')
      /\ hand[n] # None => Genuine(hand[n], log')
  BY <1>1, <1>2, KeptGenuine DEF GenuineAt
<1>5. AllGenuine(snd'[n], log') /\ AllGenuine(rx'[n], log')
      /\ AllGenuine(delivered'[n], log')
  BY <1>3, <1>4
<1>6. \A p \in Node : AllGenuine(link'[n][p], log')
  BY <1>3, <1>4
<1>7. hand'[n] # None => Genuine(hand'[n], log')
  BY <1>4
<1> QED
  BY <1>5, <1>6, <1>7 DEF GenuineAt

\* The log is kept by a step that does not change it.
LEMMA SameLogKept == ASSUME UNCHANGED log PROVE LogKept(log, log')
  BY DEF LogKept

\* A message that is taken in hand differs only in its ttl.
LEMMA TakeGenuine ==
    ASSUME TypeOK, NEW n \in Node, NEW m \in Message, Genuine(m, log), Take(n, m)
    PROVE  /\ \A q \in Node : q # n => hand'[q] = hand[q]
           /\ hand'[n] # None => Genuine(hand'[n], log)
<1>1. \A q \in Node : q # n => hand'[q] = hand[q]
  BY DEF Take, TypeOK
<1>2. CASE Expired(m) \/ Seen(n, m) \/ ~ForMe(n, m)
  BY <1>1, <1>2 DEF Take, TypeOK
<1>3. CASE ~(Expired(m) \/ Seen(n, m) \/ ~ForMe(n, m))
  <2>1. hand'[n] = [m EXCEPT !.ttl = @ - 1]
    BY <1>3 DEF Take, TypeOK
  <2>2. /\ hand'[n].host = m.host /\ hand'[n].k = m.k
        /\ hand'[n].rec = m.rec /\ hand'[n].id = m.id
    BY <2>1 DEF Message
  <2> QED
    BY <1>1, <2>2 DEF Genuine
<1> QED
  BY <1>2, <1>3

\* What appending to a log does.
LEMMA AppendEntry ==
    ASSUME NEW s \in Seq(Send), NEW e \in Send
    PROVE  /\ DOMAIN Append(s, e) = 1..(Len(s) + 1) /\ DOMAIN s = 1..Len(s)
           /\ \A k \in DOMAIN s : Append(s, e)[k] = s[k]
           /\ Append(s, e)[Len(s) + 1] = e
  OBVIOUS

\* The message put on the SND socket is in the log.
LEMMA SendGenuine ==
    ASSUME TypeOK, GenuineInv, NEW n \in Node, NEW t \in Thread,
           NEW rec \in Node \cup {Bcast}, NEW max_ttl \in Nat,
           sendFloodingMessage(n, t, rec, max_ttl)
    PROVE  GenuineInv'
<1> DEFINE new == [host |-> n, k |-> Len(log[n]) + 1, id |-> local_id[n],
                   rec |-> rec, ttl |-> max_ttl, lasthop |-> n]
           entry == [to |-> Audience(n, rec, max_ttl), rec |-> rec,
                     scope |-> max_ttl - 2, id |-> local_id[n]]
<1>1. log[n] \in Seq(Send) /\ entry \in Send /\ new \in Message
  <2>1. log[n] \in Seq(Send) /\ local_id[n] \in Nat
    BY DEF TypeOK
  <2>2. Len(log[n]) + 1 \in Nat
    BY <2>1
  <2>3. entry \in Send
    BY <2>1 DEF Audience, Send
  <2>4. new \in Message
    BY <2>1, <2>2 DEF Message
  <2> QED
    BY <2>1, <2>3, <2>4
<1>2. log'[n] = Append(log[n], entry) /\ \A h \in Node : h # n => log'[h] = log[h]
  BY DEF sendFloodingMessage, TypeOK
<1>3. /\ DOMAIN log'[n] = 1..(Len(log[n]) + 1) /\ DOMAIN log[n] = 1..Len(log[n])
      /\ \A k \in DOMAIN log[n] : log'[n][k] = log[n][k]
      /\ log'[n][Len(log[n]) + 1] = entry
  <2> HIDE DEF new, entry
  <2> QED
    BY <1>1, <1>2, AppendEntry
<1>4. LogKept(log, log')
  <2> SUFFICES ASSUME NEW h \in Node, NEW k \in DOMAIN log[h]
               PROVE  k \in DOMAIN log'[h] /\ log'[h][k] = log[h][k]
    BY DEF LogKept
  <2>1. CASE h = n
    <3>1. Len(log[n]) \in Nat
      BY DEF TypeOK
    <3> QED
      BY <1>3, <2>1, <3>1
  <2> QED
    BY <1>2, <2>1
<1>5. Genuine(new, log')
  <2>1. new.host = n /\ new.k = Len(log[n]) + 1 /\ new.rec = rec /\ new.id = local_id[n]
    OBVIOUS
  <2>2. entry.rec = rec /\ entry.id = local_id[n]
    OBVIOUS
  <2>3. Len(log[n]) + 1 \in DOMAIN log'[n]
    BY <1>1, <1>3
  <2> QED
    BY <1>3, <2>1, <2>2, <2>3 DEF Genuine
<1> HIDE DEF new, entry
<1> SUFFICES ASSUME NEW q \in Node PROVE GenuineAt(q)'
  BY DEF GenuineInv
<1>6. GenuineAt(q)
  BY DEF GenuineInv
<1>7. UNCHANGED <<link, hand, rx, delivered>>
  BY DEF sendFloodingMessage
<1>8. /\ snd[q] \in Seq(Message) /\ rx[q] \in Seq(Message)
      /\ delivered[q] \in Seq(Message)
      /\ \A p \in Node : link[q][p] \in Seq(Message)
      /\ hand[q] # None => hand[q] \in Message
  BY DEF TypeOK
<1>9. /\ AllGenuine(snd[q], log') /\ AllGenuine(rx[q], log')
      /\ AllGenuine(delivered[q], log')
      /\ \A p \in Node : AllGenuine(link[q][p], log')
      /\ hand[q] # None => Genuine(hand[q], log')
  BY <1>4, <1>6, <1>8, KeptGenuine DEF GenuineAt
<1>10. snd'[q] = IF q = n THEN Append(snd[n], new) ELSE snd[q]
  BY DEF sendFloodingMessage, TypeOK, new
<1>11. AllGenuine(snd'[q], log')
  BY <1>1, <1>5, <1>8, <1>9, <1>10, AppendGenuine
<1> QED
  BY <1>7, <1>9, <1>11 DEF GenuineAt

\* The forwarder publishes what it has in hand, with itself as the last hop.
LEMMA ForwardGenuine ==
    ASSUME TypeOK, GenuineInv, NEW n \in Node, Forward(n)
    PROVE  GenuineInv'
<1> DEFINE out == [hand[n] EXCEPT !.lasthop = n]
<1>1. hand[n] \in Message
  BY DEF TypeOK, Forward
<1>2. out \in Message /\ Genuine(out, log)
  <2>1. out \in Message
    BY <1>1 DEF Message
  <2>2. /\ out.host = hand[n].host /\ out.k = hand[n].k
        /\ out.rec = hand[n].rec /\ out.id = hand[n].id
    BY <1>1 DEF Message
  <2>3. Genuine(hand[n], log)
    BY DEF Forward, GenuineInv, GenuineAt
  <2> QED
    BY <2>1, <2>2, <2>3 DEF Genuine
<1>3. UNCHANGED <<snd, delivered, log>>
  BY DEF Forward, histVars
<1> SUFFICES ASSUME NEW q \in Node PROVE GenuineAt(q)'
  BY DEF GenuineInv
<1>4. GenuineAt(q)
  BY DEF GenuineInv
<1>5. \A p \in Node : link'[q][p] \in {link[q][p], Append(link[q][p], out)}
  BY DEF Forward, TypeOK
<1>6. rx'[q] \in {rx[q], Append(rx[q], out)}
  BY DEF Forward, TypeOK
<1>7. hand'[q] \in {hand[q], None}
  BY DEF Forward, TypeOK
<1> HIDE DEF out
<1>8. ASSUME NEW p \in Node PROVE AllGenuine(link'[q][p], log)
  <2>1. link[q][p] \in Seq(Message) /\ AllGenuine(link[q][p], log)
    BY <1>4 DEF GenuineAt, TypeOK
  <2>2. AllGenuine(Append(link[q][p], out), log)
    BY <1>2, <2>1, AppendGenuine
  <2> QED
    BY <1>5, <2>1, <2>2
<1>9. AllGenuine(rx'[q], log)
  <2>1. rx[q] \in Seq(Message) /\ AllGenuine(rx[q], log)
    BY <1>4 DEF GenuineAt, TypeOK
  <2>2. AllGenuine(Append(rx[q], out), log)
    BY <1>2, <2>1, AppendGenuine
  <2> QED
    BY <1>6, <2>1, <2>2
<1>10. hand'[q] # None => Genuine(hand'[q], log)
  BY <1>4, <1>7 DEF GenuineAt
<1> QED
  BY <1>3, <1>4, <1>8, <1>9, <1>10 DEF GenuineAt

\* The receive thread passes on a message of its socket or not.
LEMMA ReceiveGenuine ==
    ASSUME TypeOK, GenuineInv, NEW n \in Node, rx[n] # <<>>,
           rx' = [rx EXCEPT ![n] = Tail(@)],
           \/ delivered' = delivered
           \/ delivered' = [delivered EXCEPT ![n] = Append(@, Head(rx[n]))],
           UNCHANGED <<hand, snd, link, log>>
    PROVE  GenuineInv'
<1> SUFFICES ASSUME NEW q \in Node PROVE GenuineAt(q)'
  BY DEF GenuineInv
<1>1. GenuineAt(q) /\ GenuineAt(n)
  BY DEF GenuineInv
<1>2. rx[n] \in Seq(Message) /\ delivered[n] \in Seq(Message)
  BY DEF TypeOK
<1>3. Head(rx[n]) \in Message
  BY <1>2
<1>4. Genuine(Head(rx[n]), log) /\ AllGenuine(Tail(rx[n]), log)
  BY <1>1, <1>2, TailGenuine DEF GenuineAt
<1>5. AllGenuine(Append(delivered[n], Head(rx[n])), log)
  BY <1>1, <1>2, <1>3, <1>4, AppendGenuine DEF GenuineAt
<1>6. rx'[q] = IF q = n THEN Tail(rx[n]) ELSE rx[q]
  BY DEF TypeOK
<1>7. delivered'[q] \in {delivered[q], IF q = n THEN Append(delivered[n], Head(rx[n]))
                                        ELSE delivered[q]}
  BY DEF TypeOK
<1>8. AllGenuine(rx'[q], log)
  BY <1>1, <1>4, <1>6 DEF GenuineAt
<1>9. AllGenuine(delivered'[q], log)
  BY <1>1, <1>5, <1>7 DEF GenuineAt
<1> QED
  BY <1>1, <1>8, <1>9 DEF GenuineAt

\* A message is taken from the SND socket of the node or from one of its links.
LEMMA FwdGenuine ==
    ASSUME TypeOK, GenuineInv, NEW n \in Node,
           FwdRecvOwn(n) \/ \E p \in Node : FwdRecv(n, p)
    PROVE  GenuineInv'
<1>1. CASE FwdRecvOwn(n)
  <2>1. snd[n] \in Seq(Message) /\ snd[n] # <<>> /\ AllGenuine(snd[n], log)
    BY <1>1 DEF FwdRecvOwn, TypeOK, GenuineInv, GenuineAt
  <2>2. Head(snd[n]) \in Message
    BY <2>1
  <2>3. Genuine(Head(snd[n]), log) /\ AllGenuine(Tail(snd[n]), log)
    BY <2>1, TailGenuine
  <2>4. Take(n, Head(snd[n])) /\ UNCHANGED <<link, rx, delivered, log>>
    BY <1>1 DEF FwdRecvOwn, histVars
  <2>5. \A q \in Node : hand'[q] # None => Genuine(hand'[q], log)
    BY <2>2, <2>3, <2>4, TakeGenuine DEF GenuineInv, GenuineAt
  <2>6. \A q \in Node : snd'[q] = IF q = n THEN Tail(snd[n]) ELSE snd[q]
    BY <1>1 DEF FwdRecvOwn, TypeOK
  <2> QED
    BY <2>3, <2>4, <2>5, <2>6 DEF GenuineInv, GenuineAt
<1>2. ASSUME NEW p \in Node, FwdRecv(n, p) PROVE GenuineInv'
  <2>1. link[n][p] \in Seq(Message) /\ link[n][p] # <<>> /\ AllGenuine(link[n][p], log)
    BY <1>2 DEF FwdRecv, TypeOK, GenuineInv, GenuineAt
  <2>2. Head(link[n][p]) \in Message
    BY <2>1
  <2>3. Genuine(Head(link[n][p]), log) /\ AllGenuine(Tail(link[n][p]), log)
    BY <2>1, TailGenuine
  <2>4. Take(n, Head(link[n][p])) /\ UNCHANGED <<snd, rx, delivered, log>>
    BY <1>2 DEF FwdRecv, histVars
  <2>5. \A q \in Node : hand'[q] # None => Genuine(hand'[q], log)
    BY <2>2, <2>3, <2>4, TakeGenuine DEF GenuineInv, GenuineAt
  <2>6. \A q, r \in Node : link'[q][r] = IF q = n /\ r = p THEN Tail(link[n][p])
                                         ELSE link[q][r]
    BY <1>2, ZenonT(30) DEF FwdRecv, TypeOK
  <2> QED
    BY <2>3, <2>4, <2>5, <2>6 DEF GenuineInv, GenuineAt
<1> QED
  BY <1>1, <1>2

\* Whatever is sent, forwarded, lost or restarted, every message under way and
\* every message delivered is one its host has sent.
LEMMA GenuineKept == Spec => []GenuineInv
<1>1. Init => GenuineInv
  <2> SUFFICES ASSUME Init, NEW n \in Node PROVE GenuineAt(n)
    BY DEF GenuineInv
  <2>1. /\ snd[n] = <<>> /\ rx[n] = <<>> /\ delivered[n] = <<>> /\ hand[n] = None
        /\ \A p \in Node : link[n][p] = <<>>
    BY DEF Init
  <2>2. AllGenuine(<<>>, log)
    BY DEF AllGenuine
  <2> QED
    BY <2>1, <2>2 DEF GenuineAt
<1>2. TypeOK /\ GenuineInv /\ [Next]_vars => GenuineInv'
  <2> SUFFICES ASSUME TypeOK, GenuineInv, [Next]_vars PROVE GenuineInv'
    OBVIOUS
  <2>1. CASE UNCHANGED <<snd, link, hand, rx, delivered, log>>
    BY <2>1, KeepGenuine, SameLogKept
  <2>2. ASSUME NEW n \in Node, DropUnknown(n) \/ DropUndecodable(n)
        PROVE  GenuineInv'
    <3>1. hand' = [hand EXCEPT ![n] = None]
          /\ UNCHANGED <<snd, link, rx, delivered, log>>
      BY <2>2 DEF DropUnknown, DropUndecodable, netVars, histVars
    <3>2. \A q \in Node : hand'[q] \in {hand[q], None}
      BY <3>1 DEF TypeOK
    <3> QED
      BY <3>1, <3>2, KeepGenuine, SameLogKept
  <2>3. ASSUME NEW n \in Node, receiveMessage(n) \/ RxUndecodable(n)
        PROVE  GenuineInv'
    BY <2>3, ReceiveGenuine DEF receiveMessage, RxUndecodable, nodeVars, histVars
  <2>4. ASSUME NEW n \in Node, Restart(n) PROVE GenuineInv'
    <3>1. LogKept(log, log')
      <4>1. \A h \in Node : log[h] \in Seq(Send)
        BY DEF TypeOK
      <4>2. \A h \in Node : log'[h] = Strike(log[h], IF h = n THEN Node ELSE {n})
        BY <2>4 DEF Restart
      <4> QED
        BY <4>1, <4>2, StrikeKept DEF LogKept
    <3>2. \A q \in Node : /\ snd'[q] \in {snd[q], <<>>}
                          /\ hand'[q] \in {hand[q], None}
                          /\ rx'[q] \in {rx[q], <<>>}
                          /\ delivered'[q] \in {delivered[q], <<>>}
      BY <2>4 DEF Restart, TypeOK
    <3>3. \A q, p \in Node : link'[q][p] \in {link[q][p], <<>>}
      BY <2>4 DEF Restart, TypeOK
    <3> QED
      BY <3>1, <3>2, <3>3, KeepGenuine
  <2>5. ASSUME NEW n \in Node, NEW p \in Node, onAPLeft(n, p) PROVE GenuineInv'
    <3>1. LogKept(log, log')
      <4>1. \A h \in Node : log[h] \in Seq(Send)
        BY DEF TypeOK
      <4>2. \A h \in Node : log'[h] = IF h = p THEN Strike(log[p], {n}) ELSE log[h]
        BY <2>5 DEF onAPLeft, TypeOK
      <4> QED
        BY <4>1, <4>2, StrikeKept DEF LogKept
    <3>2. UNCHANGED <<snd, hand, rx, delivered>>
      BY <2>5 DEF onAPLeft
    <3>3. \A q, r \in Node : link'[q][r] \in {link[q][r], <<>>}
      BY <2>5 DEF onAPLeft, TypeOK
    <3> QED
      BY <3>1, <3>2, <3>3, KeepGenuine
  <2>6. ASSUME NEW n \in Node, NEW p \in Node, LinkLoss(n, p) PROVE GenuineInv'
    <3>1. UNCHANGED <<snd, hand, rx, delivered, log>>
      BY <2>6 DEF LinkLoss, nodeVars, histVars
    <3>2. link[n][p] \in Seq(Message) /\ link[n][p] # <<>> /\ AllGenuine(link[n][p], log)
      BY <2>6 DEF LinkLoss, TypeOK, GenuineInv, GenuineAt
    <3>3. AllGenuine(SubSeq(link[n][p], 1, Len(link[n][p]) - 1), log)
      BY <3>2, FrontGenuine
    <3>4. \A q, r \in Node : link'[q][r] = IF q = n /\ r = p
                                           THEN SubSeq(link[n][p], 1, Len(link[n][p]) - 1)
                                           ELSE link[q][r]
      BY <2>6 DEF LinkLoss, TypeOK
    <3> QED
      BY <3>1, <3>3, <3>4 DEF GenuineInv, GenuineAt
  <2>7. ASSUME NEW n \in Node, NEW p \in Node, onAPJoined(n, p) PROVE GenuineInv'
    BY <2>7, <2>1 DEF onAPJoined, netVars, histVars
  <2>8. ASSUME NEW n \in Node, NEW t \in Thread, NEW scope \in Scopes,
               sendToNeighbors(n, t, scope)
        PROVE  GenuineInv'
    <3>1. scope + 2 \in Nat
      BY ForwardingAssumption
    <3> QED
      BY <2>8, <3>1, SendGenuine DEF sendToNeighbors
  <2>9. ASSUME NEW n \in Node, NEW t \in Thread, NEW p \in Node, sendToNeighbor(n, t, p)
        PROVE  GenuineInv'
    BY <2>9, SendGenuine DEF sendToNeighbor
  <2>10. ASSUME NEW n \in Node, NEW t \in Thread, LoadId(n, t) \/ StoreId(n, t)
         PROVE  GenuineInv'
    BY <2>10, <2>1 DEF LoadId, StoreId, netVars, histVars
  <2>11. CASE UNCHANGED vars
    BY <2>11, <2>1 DEF vars, nodeVars, netVars, histVars
  <2>12. ASSUME NEW n \in Node, Forwarder(n) PROVE GenuineInv'
    BY <2>2, <2>12, ForwardGenuine, FwdGenuine DEF Forwarder
  <2> QED
    BY <2>2, <2>3, <2>4, <2>5, <2>6, <2>7, <2>8, <2>9, <2>10, <2>11, <2>12 DEF Next
<1> QED
  BY <1>1, <1>2, TypeCorrect, PTL DEF Spec

-----------------------------------------------------------------------------
(* Every step is one of the service, or none                               *)

\* The posts of a node are its log without the audiences and scopes.
LEMMA PostsAt ==
    ASSUME TypeOK, NEW h \in Node
    PROVE  /\ DOMAIN Posts[h] = DOMAIN log[h]
           /\ \A k \in DOMAIN log[h] : Posts[h][k] = [rec |-> log[h][k].rec,
                                                     id |-> log[h][k].id]
           /\ Posts[h] \in Seq(Service!Letter) /\ Len(Posts[h]) = Len(log[h])
<1>1. log[h] \in Seq(Send)
  BY DEF TypeOK
<1>2. Posts[h] = [k \in 1..Len(log[h]) |-> [rec |-> log[h][k].rec, id |-> log[h][k].id]]
  BY <1>1 DEF Posts
<1>3. ASSUME NEW k \in 1..Len(log[h])
      PROVE  [rec |-> log[h][k].rec, id |-> log[h][k].id] \in Service!Letter
  <2>1. log[h][k] \in Send
    BY <1>1
  <2> QED
    BY <2>1 DEF Send, Service!Letter
<1>4. Len(log[h]) \in Nat /\ DOMAIN log[h] = 1..Len(log[h])
  BY <1>1
<1> QED
  BY <1>2, <1>3, <1>4

\* A log that is kept and does not grow leaves the posts as they are.
LEMMA PostsSame ==
    ASSUME TypeOK, LogKept(log, log'),
           \A h \in Node : DOMAIN log'[h] = DOMAIN log[h]
    PROVE  UNCHANGED Posts
<1>1. ASSUME NEW h \in Node
      PROVE  [k \in DOMAIN log[h] |-> [rec |-> log[h][k].rec, id |-> log[h][k].id]]
           = [k \in DOMAIN log'[h] |-> [rec |-> log'[h][k].rec, id |-> log'[h][k].id]]
  BY DEF LogKept
<1> QED
  BY <1>1 DEF Posts

\* sendFloodingMessage posts a letter.
LEMMA SendPosts ==
    ASSUME TypeOK, TypeOK', NEW n \in Node, NEW t \in Thread,
           NEW rec \in Node \cup {Bcast}, NEW max_ttl \in Nat,
           sendFloodingMessage(n, t, rec, max_ttl)
    PROVE  Service!Post(n)
<1> DEFINE entry == [to |-> Audience(n, rec, max_ttl), rec |-> rec,
                     scope |-> max_ttl - 2, id |-> local_id[n]]
           letter == [rec |-> rec, id |-> local_id[n]]
           k == Len(log[n]) + 1
<1>1. log[n] \in Seq(Send) /\ entry \in Send
  <2>1. log[n] \in Seq(Send) /\ local_id[n] \in Nat
    BY DEF TypeOK
  <2> QED
    BY <2>1 DEF Audience, Send
<1>2. log'[n] = Append(log[n], entry) /\ \A h \in Node : h # n => log'[h] = log[h]
  BY DEF sendFloodingMessage, TypeOK
<1>3. entry.rec = rec /\ entry.id = local_id[n]
  OBVIOUS
<1> HIDE DEF entry
<1>4. /\ DOMAIN log'[n] = 1..k /\ DOMAIN log[n] = 1..Len(log[n])
      /\ \A j \in DOMAIN log[n] : log'[n][j] = log[n][j]
      /\ log'[n][k] = entry
      /\ Len(log[n]) \in Nat
  BY <1>1, <1>2, AppendEntry
<1>5. letter \in Service!Letter
  BY DEF TypeOK, Service!Letter
<1>6. Posts'[n] = [j \in 1..k |-> [rec |-> log'[n][j].rec, id |-> log'[n][j].id]]
  BY <1>4 DEF Posts
<1>7. /\ Posts[n] = [j \in 1..Len(log[n]) |-> [rec |-> log[n][j].rec, id |-> log[n][j].id]]
      /\ Posts[n] \in Seq(Service!Letter) /\ Len(Posts[n]) = Len(log[n])
  BY <1>4, PostsAt DEF Posts
<1>8. k \in DOMAIN Posts'[n] /\ Posts'[n][k] = letter
  BY <1>3, <1>4, <1>6
<1>9. Posts'[n] = Append(Posts[n], letter)
  <2>1. DOMAIN Posts'[n] = 1..k /\ DOMAIN Append(Posts[n], letter) = 1..k
    BY <1>4, <1>5, <1>6, <1>7
  <2>2. ASSUME NEW j \in 1..k PROVE Posts'[n][j] = Append(Posts[n], letter)[j]
    <3>1. CASE j = k
      BY <1>4, <1>5, <1>7, <1>8, <3>1
    <3>2. CASE j # k
      <4>1. j \in 1..Len(log[n])
        BY <1>4, <3>2
      <4>2. Append(Posts[n], letter)[j] = Posts[n][j]
        BY <1>4, <1>5, <1>7, <4>1
      <4>3. log'[n][j] = log[n][j]
        BY <1>4, <4>1
      <4>4. Posts'[n][j] = [rec |-> log[n][j].rec, id |-> log[n][j].id]
        BY <1>6, <4>3
      <4>5. Posts'[n][j] = Posts[n][j]
        BY <1>7, <4>1, <4>4
      <4> QED
        BY <4>2, <4>5
    <3> QED
      BY <3>1, <3>2
  <2>3. Posts'[n] = [j \in 1..k |-> Posts'[n][j]]
    BY <1>6
  <2>4. Append(Posts[n], letter) = [j \in 1..k |-> Append(Posts[n], letter)[j]]
    BY <1>4, <1>5, <1>7, <2>1
  <2> QED
    BY <2>2, <2>3, <2>4
<1>10. Posts' = [Posts EXCEPT ![n] = Append(@, letter)]
  <2>1. \A h \in Node : h # n => Posts'[h] = Posts[h]
    BY <1>2 DEF Posts
  <2> QED
    BY <1>9, <2>1 DEF Posts
<1>11. UNCHANGED Inbox
  BY DEF sendFloodingMessage, Inbox
<1> QED
  BY <1>5, <1>7, <1>8, <1>10, <1>11 DEF Service!Post

\* What the application of a node has been given, place by place.
LEMMA InboxAt ==
    ASSUME TypeOK, NEW n \in Node
    PROVE  /\ DOMAIN Inbox[n] = DOMAIN delivered[n]
           /\ \A i \in DOMAIN delivered[n] : Inbox[n][i] = [host |-> delivered[n][i].host,
                                                           k |-> delivered[n][i].k]
           /\ Inbox[n] \in Seq([host : Node, k : Nat])
           /\ Len(Inbox[n]) = Len(delivered[n])
<1>1. delivered[n] \in Seq(Message)
  BY DEF TypeOK
<1>2. Inbox[n] = [i \in 1..Len(delivered[n]) |-> [host |-> delivered[n][i].host,
                                                 k |-> delivered[n][i].k]]
  BY <1>1 DEF Inbox
<1>3. ASSUME NEW i \in 1..Len(delivered[n])
      PROVE  [host |-> delivered[n][i].host, k |-> delivered[n][i].k]
                \in [host : Node, k : Nat]
  <2>1. delivered[n][i] \in Message
    BY <1>1
  <2> QED
    BY <2>1 DEF Message
<1>4. Len(delivered[n]) \in Nat /\ DOMAIN delivered[n] = 1..Len(delivered[n])
  BY <1>1
<1> QED
  BY <1>2, <1>3, <1>4

\* A genuine message is the letter at its place.
LEMMA GenuinePost ==
    ASSUME TypeOK, NEW m, m.host \in Node, Genuine(m, log)
    PROVE  /\ m.k \in DOMAIN Posts[m.host]
           /\ Posts[m.host][m.k].rec = m.rec /\ Posts[m.host][m.k].id = m.id
<1>1. /\ m.k \in DOMAIN log[m.host]
      /\ log[m.host][m.k].rec = m.rec /\ log[m.host][m.k].id = m.id
  BY DEF Genuine
<1>2. Posts[m.host][m.k] = [rec |-> log[m.host][m.k].rec, id |-> log[m.host][m.k].id]
  BY <1>1, PostsAt
<1>3. DOMAIN Posts[m.host] = DOMAIN log[m.host]
  BY PostsAt
<1>4. /\ Posts[m.host][m.k].rec = log[m.host][m.k].rec
      /\ Posts[m.host][m.k].id = log[m.host][m.k].id
  BY <1>2
<1> QED
  BY <1>1, <1>3, <1>4

\* An entry of the inbox names a message that was delivered.
LEMMA InboxEntry ==
    ASSUME TypeOK, NEW n \in Node, NEW i \in DOMAIN Inbox[n]
    PROVE  /\ i \in DOMAIN delivered[n] /\ delivered[n][i].host \in Node
           /\ Inbox[n][i].host = delivered[n][i].host
           /\ Inbox[n][i].k = delivered[n][i].k
<1>1. i \in DOMAIN delivered[n]
  BY InboxAt
<1>2. Inbox[n][i] = [host |-> delivered[n][i].host, k |-> delivered[n][i].k]
  BY <1>1, InboxAt
<1>3. delivered[n][i] \in Message
  BY <1>1 DEF TypeOK
<1>4. delivered[n][i].host \in Node
  BY <1>3 DEF Message
<1>5. Inbox[n][i].host = delivered[n][i].host /\ Inbox[n][i].k = delivered[n][i].k
  BY <1>2
<1> QED
  BY <1>1, <1>4, <1>5

\* Passing a message on puts its place at the end of the inbox.
LEMMA InboxAppend ==
    ASSUME TypeOK, NEW n \in Node, NEW m \in Message,
           delivered' = [delivered EXCEPT ![n] = Append(@, m)]
    PROVE  Inbox' = [Inbox EXCEPT ![n] = Append(@, [host |-> m.host, k |-> m.k])]
<1> DEFINE place == [host |-> m.host, k |-> m.k]
           len == Len(delivered[n])
<1>1. delivered[n] \in Seq(Message) /\ len \in Nat
  BY DEF TypeOK
<1>2. delivered'[n] = Append(delivered[n], m)
  BY DEF TypeOK
<1>3. /\ DOMAIN delivered'[n] = 1..(len + 1)
      /\ \A i \in 1..len : delivered'[n][i] = delivered[n][i]
      /\ delivered'[n][len + 1] = m
  BY <1>1, <1>2, AppendAt
<1>4. Inbox'[n] = [i \in 1..(len + 1) |-> [host |-> delivered'[n][i].host,
                                          k |-> delivered'[n][i].k]]
  BY <1>3 DEF Inbox
<1>5. /\ Inbox[n] \in Seq([host : Node, k : Nat]) /\ Len(Inbox[n]) = len
      /\ \A i \in 1..len : Inbox[n][i] = [host |-> delivered[n][i].host,
                                          k |-> delivered[n][i].k]
  <2>1. DOMAIN delivered[n] = 1..len
    BY <1>1
  <2>2. Inbox[n] \in Seq([host : Node, k : Nat]) /\ Len(Inbox[n]) = len
    BY InboxAt
  <2>3. \A i \in DOMAIN delivered[n] : Inbox[n][i] = [host |-> delivered[n][i].host,
                                                     k |-> delivered[n][i].k]
    BY InboxAt
  <2> QED
    BY <2>1, <2>2, <2>3
<1>6. place \in [host : Node, k : Nat]
  <2>1. m.host \in Node /\ m.k \in Nat
    BY DEF Message
  <2> QED
    BY <2>1
<1>7. Inbox'[n] = Append(Inbox[n], place)
  <2>1. /\ DOMAIN Append(Inbox[n], place) = 1..(len + 1)
        /\ \A i \in 1..len : Append(Inbox[n], place)[i] = Inbox[n][i]
        /\ Append(Inbox[n], place)[len + 1] = place
        /\ Append(Inbox[n], place) = [i \in 1..(len + 1) |-> Append(Inbox[n], place)[i]]
    <3> HIDE DEF place, len
    <3> QED
      BY <1>1, <1>5, <1>6
  <2>2. ASSUME NEW i \in 1..(len + 1)
        PROVE  Append(Inbox[n], place)[i] = [host |-> delivered'[n][i].host,
                                             k |-> delivered'[n][i].k]
    <3>1. CASE i = len + 1
      BY <1>3, <2>1, <3>1
    <3>2. CASE i # len + 1
      <4>1. i \in 1..len
        BY <1>1, <3>2
      <4>2. delivered'[n][i] = delivered[n][i]
        BY <1>3, <4>1
      <4> QED
        BY <1>5, <2>1, <4>1, <4>2
    <3> QED
      BY <3>1, <3>2
  <2> QED
    BY <1>4, <2>1, <2>2
<1>8. \A q \in Node : q # n => Inbox'[q] = Inbox[q]
  BY DEF Inbox, TypeOK
<1> QED
  BY <1>7, <1>8 DEF Inbox

\* The receive thread delivers a letter that is due, or drops its own message.
LEMMA ReceiveDelivers ==
    ASSUME TypeOK, OrderInv, AddressedInv, GenuineInv, NEW n \in Node, receiveMessage(n)
    PROVE  UNCHANGED <<Posts, Inbox>> \/ Service!Next
<1> DEFINE m == Head(rx[n])
<1>1. rx[n] \in Seq(Message) /\ rx[n] # <<>>
  BY DEF receiveMessage, TypeOK
<1>2. m \in Message /\ m = rx[n][1] /\ 1 \in DOMAIN rx[n]
  BY <1>1, TailAt
<1>3. UNCHANGED Posts
  BY DEF receiveMessage, Posts
<1>4. CASE m.host = n
  <2>1. delivered' = delivered
    BY <1>4 DEF receiveMessage
  <2> QED
    BY <1>3, <2>1 DEF Inbox
<1>5. CASE m.host # n
  <2>1. Inbox' = [Inbox EXCEPT ![n] = Append(@, [host |-> m.host, k |-> m.k])]
    <3>1. delivered' = [delivered EXCEPT ![n] = Append(@, m)]
      BY <1>5 DEF receiveMessage
    <3> HIDE DEF m
    <3> QED
      BY <1>2, <3>1, InboxAppend
  <2>2. Genuine(m, log) /\ m.host \in Node
    BY <1>2 DEF GenuineInv, GenuineAt, AllGenuine, Message
  <2>3. /\ m.k \in DOMAIN Posts[m.host]
        /\ Posts[m.host][m.k].rec = m.rec /\ Posts[m.host][m.k].id = m.id
    <3> HIDE DEF m
    <3> QED
      BY <2>2, GenuinePost
  <2>4. m.rec \in {Bcast, n}
    BY <1>2, <1>5 DEF AddressedInv, AddressedAt, ForMe
  <2>5. ASSUME NEW i \in DOMAIN Inbox[n], Inbox[n][i].host = m.host
        PROVE  Posts[m.host][Inbox[n][i].k].id < Posts[m.host][m.k].id
    <3>1. /\ i \in DOMAIN delivered[n] /\ Inbox[n][i].host = delivered[n][i].host
          /\ Inbox[n][i].k = delivered[n][i].k /\ delivered[n][i].host \in Node
      BY <2>5, InboxEntry
    <3>2. Genuine(delivered[n][i], log) /\ delivered[n][i].host = m.host
      BY <2>5, <3>1 DEF GenuineInv, GenuineAt, AllGenuine
    <3>3. Posts[m.host][Inbox[n][i].k].id = delivered[n][i].id
      <4> HIDE DEF m
      <4>1. Posts[delivered[n][i].host][delivered[n][i].k].id = delivered[n][i].id
        BY <3>1, <3>2, GenuinePost
      <4> QED
        BY <3>1, <3>2, <4>1
    <3>4. delivered[n][i].id < m.id
      BY <1>2, <3>1, <3>2 DEF OrderInv, OrderAt, Before
    <3> QED
      BY <2>3, <3>3, <3>4
  <2>6. Service!Deliver(n, m.host, m.k)
    <3> HIDE DEF m
    <3> QED
      BY <1>3, <1>5, <2>1, <2>3, <2>4, <2>5 DEF Service!Deliver, Service!Due
  <2> QED
    BY <2>2, <2>3, <2>6 DEF Service!Next
<1> QED
  BY <1>4, <1>5

\* A restart empties the inbox of its node and takes back no letter.
LEMMA RestartResets ==
    ASSUME TypeOK, NEW n \in Node, Restart(n)
    PROVE  Service!Reset(n)
<1>1. \A h \in Node : log[h] \in Seq(Send)
  BY DEF TypeOK
<1>2. \A h \in Node : log'[h] = Strike(log[h], IF h = n THEN Node ELSE {n})
  BY DEF Restart
<1>3. LogKept(log, log')
  BY <1>1, <1>2, StrikeKept DEF LogKept
<1>4. \A h \in Node : DOMAIN log'[h] = DOMAIN log[h]
  BY <1>2 DEF Strike
<1>5. UNCHANGED Posts
  BY <1>3, <1>4, PostsSame
<1>6. \A q \in Node : delivered'[q] = IF q = n THEN <<>> ELSE delivered[q]
  BY DEF Restart, TypeOK
<1>7. Inbox'[n] = <<>>
  <2>1. DOMAIN delivered'[n] = {}
    BY <1>6
  <2>2. Inbox'[n] = [i \in {} |-> [host |-> delivered'[n][i].host, k |-> delivered'[n][i].k]]
    BY <2>1 DEF Inbox
  <2> QED
    BY <2>2
<1>8. \A q \in Node : q # n => Inbox'[q] = Inbox[q]
  BY <1>6 DEF Inbox
<1>9. Inbox' = [Inbox EXCEPT ![n] = <<>>]
  BY <1>7, <1>8 DEF Inbox
<1> QED
  BY <1>5, <1>9 DEF Service!Reset

\* Removing a neighbour is nothing the service knows of.
LEMMA LeaveStutters ==
    ASSUME TypeOK, NEW n \in Node, NEW p \in Node, onAPLeft(n, p)
    PROVE  UNCHANGED <<Posts, Inbox>>
<1>1. \A h \in Node : log[h] \in Seq(Send)
  BY DEF TypeOK
<1>2. \A h \in Node : log'[h] = IF h = p THEN Strike(log[p], {n}) ELSE log[h]
  BY DEF onAPLeft, TypeOK
<1>3. LogKept(log, log')
  BY <1>1, <1>2, StrikeKept DEF LogKept
<1>4. \A h \in Node : DOMAIN log'[h] = DOMAIN log[h]
  BY <1>2 DEF Strike
<1>5. UNCHANGED Inbox
  BY DEF onAPLeft, Inbox
<1> QED
  BY <1>3, <1>4, <1>5, PostsSame

\* The flooding layer implements the service, for any set of access points, any
\* graph, any number of sends, losses, departures and restarts: every step of the
\* sockets, the threads and the failures is a step of FloodService on the letters
\* sent and given, or none.
THEOREM FloodImplementsService == Spec => ImplementsService
<1>1. Init => Service!Init
  <2> SUFFICES ASSUME Init PROVE Service!Init
    OBVIOUS
  <2>1. \A h \in Node : DOMAIN log[h] = {} /\ DOMAIN delivered[h] = {}
    BY DEF Init
  <2>2. ASSUME NEW h \in Node PROVE Posts[h] = <<>>
    <3>1. Posts[h] = [k \in {} |-> [rec |-> log[h][k].rec, id |-> log[h][k].id]]
      BY <2>1 DEF Posts
    <3> QED
      BY <3>1
  <2>3. ASSUME NEW n \in Node PROVE Inbox[n] = <<>>
    <3>1. Inbox[n] = [i \in {} |-> [host |-> delivered[n][i].host,
                                    k |-> delivered[n][i].k]]
      BY <2>1 DEF Inbox
    <3> QED
      BY <3>1
  <2> QED
    BY <2>2, <2>3 DEF Posts, Inbox, Service!Init
<1>2. TypeOK /\ TypeOK' /\ OrderInv /\ AddressedInv /\ GenuineInv /\ [Next]_vars
        => [Service!Next]_(Service!vars)
  <2> SUFFICES ASSUME TypeOK, TypeOK', OrderInv, AddressedInv, GenuineInv, [Next]_vars
               PROVE  UNCHANGED <<Posts, Inbox>> \/ Service!Next
    BY DEF Service!vars
  <2>1. ASSUME UNCHANGED <<log, delivered>>
        PROVE  UNCHANGED <<Posts, Inbox>>
    BY <2>1 DEF Posts, Inbox
  <2>2. CASE UNCHANGED vars
    BY <2>1, <2>2 DEF vars, histVars
  <2>3. ASSUME NEW n \in Node, NEW p \in Node, onAPJoined(n, p) \/ LinkLoss(n, p)
        PROVE  UNCHANGED <<Posts, Inbox>>
    BY <2>1, <2>3 DEF onAPJoined, LinkLoss, histVars
  <2>4. ASSUME NEW n \in Node, NEW p \in Node, onAPLeft(n, p)
        PROVE  UNCHANGED <<Posts, Inbox>>
    BY <2>4, LeaveStutters
  <2>5. ASSUME NEW n \in Node, NEW t \in Thread, NEW scope \in Scopes,
               sendToNeighbors(n, t, scope)
        PROVE  Service!Next
    <3>1. scope + 2 \in Nat
      BY ForwardingAssumption
    <3>2. Service!Post(n)
      BY <2>5, <3>1, SendPosts DEF sendToNeighbors
    <3> QED
      BY <3>2 DEF Service!Next
  <2>6. ASSUME NEW n \in Node, NEW t \in Thread, NEW p \in Node, sendToNeighbor(n, t, p)
        PROVE  Service!Next
    <3>1. Service!Post(n)
      BY <2>6, SendPosts DEF sendToNeighbor
    <3> QED
      BY <3>1 DEF Service!Next
  <2>7. ASSUME NEW n \in Node, NEW t \in Thread, LoadId(n, t) \/ StoreId(n, t)
        PROVE  UNCHANGED <<Posts, Inbox>>
    BY <2>1, <2>7 DEF LoadId, StoreId, histVars
  <2>8. ASSUME NEW n \in Node, Forwarder(n) \/ DropUndecodable(n) \/ RxUndecodable(n)
        PROVE  UNCHANGED <<Posts, Inbox>>
    BY <2>1, <2>8 DEF Forwarder, FwdRecvOwn, FwdRecv, Forward, DropUnknown,
                      DropUndecodable, RxUndecodable, histVars
  <2>9. ASSUME NEW n \in Node, receiveMessage(n)
        PROVE  UNCHANGED <<Posts, Inbox>> \/ Service!Next
    BY <2>9, ReceiveDelivers
  <2>10. ASSUME NEW n \in Node, Restart(n) PROVE Service!Next
    <3>1. Service!Reset(n)
      BY <2>10, RestartResets
    <3> QED
      BY <3>1 DEF Service!Next
  <2> QED
    BY <2>2, <2>3, <2>4, <2>5, <2>6, <2>7, <2>8, <2>9, <2>10 DEF Next
<1> QED
  BY <1>1, <1>2, TypeCorrect, OrderKept, AddressedKept, GenuineKept, PTL
     DEF Spec, ImplementsService, Service!Spec

-----------------------------------------------------------------------------
(* Messages stay within their scope                                        *)

\* A walk of d steps from h to n, each of them to a node that hears the one
\* before, or no step at all.
Walk(h, n, d) ==
    \E s \in [0..d -> Node] :
        /\ s[0] = h /\ s[d] = n
        /\ \A i \in 0..(d - 1) : s[i + 1] = s[i] \/ <<s[i + 1], s[i]>> \in Adj

\* A walk of no steps ends where it starts.
LEMMA WalkNowhere ==
    ASSUME NEW h \in Node, NEW n \in Node
    PROVE  Walk(h, n, 0) <=> n = h
<1>1. ASSUME n = h PROVE Walk(h, n, 0)
  <2> DEFINE s == [i \in 0..0 |-> h]
  <2>1. s \in [0..0 -> Node] /\ s[0] = h
    OBVIOUS
  <2>2. \A i \in 0..(0 - 1) : FALSE
    OBVIOUS
  <2> HIDE DEF s
  <2> QED
    BY <1>1, <2>1, <2>2 DEF Walk
<1> QED
  BY <1>1 DEF Walk

\* A walk goes on.
LEMMA WalkOn ==
    ASSUME NEW h \in Node, NEW p \in Node, NEW n \in Node, NEW d \in Nat, Walk(h, p, d),
           n = p \/ <<n, p>> \in Adj
    PROVE  Walk(h, n, d + 1)
<1>1. PICK s \in [0..d -> Node] :
        /\ s[0] = h /\ s[d] = p
        /\ \A i \in 0..(d - 1) : s[i + 1] = s[i] \/ <<s[i + 1], s[i]>> \in Adj
  BY DEF Walk
<1> DEFINE r == [i \in 0..(d + 1) |-> IF i = d + 1 THEN n ELSE s[i]]
<1>2. r \in [0..(d + 1) -> Node] /\ r[0] = h /\ r[d + 1] = n
  BY <1>1
<1>3. ASSUME NEW i \in 0..(d + 1 - 1)
      PROVE  r[i + 1] = r[i] \/ <<r[i + 1], r[i]>> \in Adj
  BY <1>1
<1> HIDE DEF r
<1> QED
  BY <1>2, <1>3 DEF Walk

\* The last step of a walk.
LEMMA WalkBack ==
    ASSUME NEW h \in Node, NEW n \in Node, NEW d \in Nat, Walk(h, n, d + 1)
    PROVE  \E p \in Node : Walk(h, p, d) /\ (n = p \/ <<n, p>> \in Adj)
<1>1. PICK s \in [0..(d + 1) -> Node] :
        /\ s[0] = h /\ s[d + 1] = n
        /\ \A i \in 0..(d + 1 - 1) : s[i + 1] = s[i] \/ <<s[i + 1], s[i]>> \in Adj
  BY DEF Walk
<1> DEFINE r == [i \in 0..d |-> s[i]]
<1>2. r \in [0..d -> Node] /\ r[0] = h /\ r[d] = s[d] /\ s[d] \in Node
  BY <1>1
<1>3. \A i \in 0..(d - 1) : r[i + 1] = r[i] \/ <<r[i + 1], r[i]>> \in Adj
  BY <1>1
<1> HIDE DEF r
<1>4. Walk(h, s[d], d)
  BY <1>2, <1>3 DEF Walk
<1>5. n = s[d] \/ <<n, s[d]>> \in Adj
  BY <1>1
<1> QED
  BY <1>2, <1>4, <1>5

\* A walk may take longer.
LEMMA WalkLonger ==
    ASSUME NEW h \in Node, NEW n \in Node, NEW d \in Nat, NEW e \in Nat, d <= e, Walk(h, n, d)
    PROVE  Walk(h, n, e)
<1>1. PICK s \in [0..d -> Node] :
        /\ s[0] = h /\ s[d] = n
        /\ \A i \in 0..(d - 1) : s[i + 1] = s[i] \/ <<s[i + 1], s[i]>> \in Adj
  BY DEF Walk
<1> DEFINE r == [i \in 0..e |-> IF i <= d THEN s[i] ELSE n]
<1>2. r \in [0..e -> Node] /\ r[0] = h /\ r[e] = n
  BY <1>1
<1>3. \A i \in 0..(e - 1) : r[i + 1] = r[i] \/ <<r[i + 1], r[i]>> \in Adj
  BY <1>1
<1> HIDE DEF r
<1> QED
  BY <1>2, <1>3 DEF Walk

\* A set of natural numbers has a least element.
LEMMA LeastNumber ==
    ASSUME NEW S \in SUBSET Nat, S # {}
    PROVE  \E a \in S : \A o \in S : a <= o
<1>1. PICK a \in S : \A o \in S : <<o, a>> \notin OpToRel(<, Nat)
  BY NatLessThanWellFounded, WFMin, Zenon
<1>2. \A o \in S : ~(o < a)
  BY <1>1 DEF OpToRel
<1> QED
  BY <1>2

\* What Ball computes: the nodes within d hops are those that a walk of d steps
\* leads to.
LEMMA BallIsWalks ==
    ASSUME NEW h \in Node, NEW d \in Nat
    PROVE  Ball(h)[d] = {n \in Node : Walk(h, n, d)}
<1> DEFINE Step(f) == [c \in Nat |-> IF c = 0 THEN {h}
                                     ELSE f[c - 1] \cup
                                          {n \in Node : \E p \in f[c - 1] : <<n, p>> \in Adj}]
           W == [c \in Nat |-> {n \in Node : Walk(h, n, c)}]
           B == CHOOSE f : f = Step(f)
<1>1. Ball(h) = B
  BY Zenon DEF Ball
<1>2. W = Step(W)
  <2> SUFFICES ASSUME NEW c \in Nat
               PROVE  W[c] = IF c = 0 THEN {h}
                             ELSE W[c - 1] \cup
                                  {n \in Node : \E p \in W[c - 1] : <<n, p>> \in Adj}
    OBVIOUS
  <2>1. CASE c = 0
    BY <2>1, WalkNowhere
  <2>2. CASE c # 0
    <3>1. c - 1 \in Nat /\ (c - 1) + 1 = c
      BY <2>2
    <3>2. \A n \in Node : Walk(h, n, c) <=>
             \E p \in Node : Walk(h, p, c - 1) /\ (n = p \/ <<n, p>> \in Adj)
      BY <3>1, WalkOn, WalkBack
    <3> QED
      BY <2>2, <3>1, <3>2
  <2> QED
    BY <2>1, <2>2
<1>3. B = Step(B)
  <2> HIDE DEF W
  <2>1. \E f : f = Step(f)
    BY <1>2, Zenon
  <2> HIDE DEF Step
  <2> QED
    BY <2>1, Zenon
<1> HIDE DEF B
<1>4. \A c \in Nat : B[c] = IF c = 0 THEN {h}
                            ELSE B[c - 1] \cup
                                 {n \in Node : \E p \in B[c - 1] : <<n, p>> \in Adj}
  BY <1>3
<1>5. \A c \in Nat : W[c] = IF c = 0 THEN {h}
                            ELSE W[c - 1] \cup
                                 {n \in Node : \E p \in W[c - 1] : <<n, p>> \in Adj}
  <2> HIDE DEF W
  <2> QED
    BY <1>2
<1> DEFINE T == {c \in Nat : B[c] # W[c]}
<1>6. W[d] = {n \in Node : Walk(h, n, d)}
  OBVIOUS
<1> HIDE DEF W
<1>7. T = {}
  <2> SUFFICES ASSUME T # {} PROVE FALSE
    OBVIOUS
  <2>1. PICK c \in T : \A o \in T : c <= o
    BY LeastNumber
  <2>2. CASE c = 0
    BY <2>2, <1>4, <1>5
  <2>3. CASE c # 0
    <3>1. c - 1 \in Nat /\ c - 1 \notin T
      BY <2>1, <2>3
    <3>2. B[c - 1] = W[c - 1]
      BY <3>1
    <3>3. B[c] = B[c - 1] \cup {n \in Node : \E p \in B[c - 1] : <<n, p>> \in Adj}
      BY <2>3, <1>4
    <3>4. W[c] = W[c - 1] \cup {n \in Node : \E p \in W[c - 1] : <<n, p>> \in Adj}
      BY <2>3, <1>5
    <3>5. B[c] # W[c]
      BY <2>1
    <3> HIDE DEF T
    <3> QED
      BY <3>2, <3>3, <3>4, <3>5, Zenon
  <2> QED
    BY <2>2, <2>3
<1> QED
  BY <1>1, <1>6, <1>7

\* The messages the forwarder of n may have in hand or put on the FWD socket: what
\* is left of the ttl and the way they have come add up to the scope.
Carried(n, l) ==
    {m \in Message :
        /\ m.k \in DOMAIN l[m.host] /\ m.ttl >= 1
        /\ l[m.host][m.k].scope + 1 - m.ttl \in Nat
        /\ Walk(m.host, n, l[m.host][m.k].scope + 1 - m.ttl)}

\* Those on the way from p to n, on the SND socket of n, and given to n.
OnLink(n, p, l) == {m \in Carried(p, l) : <<n, p>> \in Adj}

Posted(n, l) ==
    {m \in Message : /\ m.host = n /\ m.k \in DOMAIN l[n]
                     /\ m.ttl = l[n][m.k].scope + 2}

Given(n, l) ==
    {m \in Message : /\ m.k \in DOMAIN l[m.host]
                     /\ l[m.host][m.k].scope \in Nat
                     /\ Walk(m.host, n, l[m.host][m.k].scope)}

ScopeAt(n) ==
    /\ \A p \in globalNeighborList[n] : <<n, p>> \in Adj
    /\ snd[n] \in Seq(Posted(n, log))
    /\ \A p \in Node : link[n][p] \in Seq(OnLink(n, p, log))
    /\ hand[n] \in Carried(n, log) \cup {None}
    /\ rx[n] \in Seq(Carried(n, log))
    /\ delivered[n] \in Seq(Given(n, log))

ScopeInv == \A n \in Node : ScopeAt(n)

\* The log l2 has every entry of l, with the same scope.
ScopesKept(l, l2) ==
    \A h \in Node : \A k \in DOMAIN l[h] :
        k \in DOMAIN l2[h] /\ l2[h][k].scope = l[h][k].scope

\* Such a log explains as many messages.
LEMMA KeptScope ==
    ASSUME NEW l, NEW l2, ScopesKept(l, l2), NEW n \in Node
    PROVE  /\ Carried(n, l) \subseteq Carried(n, l2)
           /\ Posted(n, l) \subseteq Posted(n, l2)
           /\ Given(n, l) \subseteq Given(n, l2)
           /\ \A p \in Node : OnLink(n, p, l) \subseteq OnLink(n, p, l2)
<1>1. \A m \in Message : m.host \in Node
  BY DEF Message
<1>2. \A q \in Node : Carried(q, l) \subseteq Carried(q, l2)
  BY <1>1 DEF Carried, ScopesKept
<1>3. Posted(n, l) \subseteq Posted(n, l2)
  BY <1>1 DEF Posted, ScopesKept
<1>4. Given(n, l) \subseteq Given(n, l2)
  BY <1>1 DEF Given, ScopesKept
<1> QED
  BY <1>2, <1>3, <1>4 DEF OnLink

\* A list with entries of a set is one with entries of a larger set.
LEMMA SeqWider ==
    ASSUME NEW A, NEW B, A \subseteq B, NEW s \in Seq(A)
    PROVE  s \in Seq(B)
OBVIOUS

\* A step that keeps the log, takes no message up and puts none anywhere.
LEMMA KeepScope ==
    ASSUME TypeOK, ScopeInv, ScopesKept(log, log'),
           \A n \in Node : /\ globalNeighborList'[n] \subseteq
                                  globalNeighborList[n] \cup {p \in Node : <<n, p>> \in Adj}
                           /\ snd'[n] \in {snd[n], <<>>}
                           /\ \A p \in Node : link'[n][p] \in {link[n][p], <<>>}
                           /\ hand'[n] \in {hand[n], None}
                           /\ rx'[n] \in {rx[n], <<>>}
                           /\ delivered'[n] \in {delivered[n], <<>>}
    PROVE  ScopeInv'
<1> SUFFICES ASSUME NEW n \in Node PROVE ScopeAt(n)'
  BY DEF ScopeInv
<1>1. ScopeAt(n)
  BY DEF ScopeInv
<1>2. /\ Carried(n, log) \subseteq Carried(n, log')
      /\ Posted(n, log) \subseteq Posted(n, log')
      /\ Given(n, log) \subseteq Given(n, log')
      /\ \A p \in Node : OnLink(n, p, log) \subseteq OnLink(n, p, log')
  BY KeptScope
<1>3. \A A : <<>> \in Seq(A)
  OBVIOUS
<1>4. snd'[n] \in Seq(Posted(n, log'))
  BY <1>1, <1>2, <1>3, SeqWider DEF ScopeAt
<1>5. ASSUME NEW p \in Node PROVE link'[n][p] \in Seq(OnLink(n, p, log'))
  <2>1. link[n][p] \in Seq(OnLink(n, p, log)) /\ link'[n][p] \in {link[n][p], <<>>}
    BY <1>1 DEF ScopeAt
  <2>2. link[n][p] \in Seq(OnLink(n, p, log'))
    BY <1>2, <2>1, SeqWider
  <2> QED
    BY <2>1, <2>2, <1>3
<1>6. rx'[n] \in Seq(Carried(n, log')) /\ delivered'[n] \in Seq(Given(n, log'))
  BY <1>1, <1>2, <1>3, SeqWider DEF ScopeAt
<1>7. hand'[n] \in Carried(n, log') \cup {None}
  BY <1>1, <1>2 DEF ScopeAt
<1>8. \A p \in globalNeighborList'[n] : <<n, p>> \in Adj
  BY <1>1 DEF ScopeAt
<1> QED
  BY <1>4, <1>5, <1>6, <1>7, <1>8 DEF ScopeAt

\* The message put on the SND socket has two hops more than its scope.
LEMMA SendScope ==
    ASSUME TypeOK, ScopeInv, NEW n \in Node, NEW t \in Thread,
           NEW rec \in Node \cup {Bcast}, NEW max_ttl \in Nat,
           sendFloodingMessage(n, t, rec, max_ttl)
    PROVE  ScopeInv'
<1> DEFINE new == [host |-> n, k |-> Len(log[n]) + 1, id |-> local_id[n],
                   rec |-> rec, ttl |-> max_ttl, lasthop |-> n]
           entry == [to |-> Audience(n, rec, max_ttl), rec |-> rec,
                     scope |-> max_ttl - 2, id |-> local_id[n]]
<1>1. log[n] \in Seq(Send) /\ entry \in Send /\ new \in Message /\ Len(log[n]) \in Nat
  <2>1. log[n] \in Seq(Send) /\ local_id[n] \in Nat
    BY DEF TypeOK
  <2>2. Len(log[n]) + 1 \in Nat /\ Len(log[n]) \in Nat
    BY <2>1
  <2>3. entry \in Send
    BY <2>1 DEF Audience, Send
  <2>4. new \in Message
    BY <2>1, <2>2 DEF Message
  <2> QED
    BY <2>1, <2>2, <2>3, <2>4
<1>2. log'[n] = Append(log[n], entry) /\ \A h \in Node : h # n => log'[h] = log[h]
  BY DEF sendFloodingMessage, TypeOK
<1>3. /\ DOMAIN log'[n] = 1..(Len(log[n]) + 1) /\ DOMAIN log[n] = 1..Len(log[n])
      /\ \A k \in DOMAIN log[n] : log'[n][k] = log[n][k]
      /\ log'[n][Len(log[n]) + 1] = entry
  <2> HIDE DEF new, entry
  <2> QED
    BY <1>1, <1>2, AppendEntry
<1>4. ScopesKept(log, log')
  <2> SUFFICES ASSUME NEW h \in Node, NEW k \in DOMAIN log[h]
               PROVE  k \in DOMAIN log'[h] /\ log'[h][k] = log[h][k]
    BY DEF ScopesKept
  <2>1. CASE h = n
    BY <1>1, <1>3, <2>1
  <2> QED
    BY <1>2, <2>1
<1>5. new \in Posted(n, log')
  <2>1. new.host = n /\ new.k = Len(log[n]) + 1 /\ new.ttl = max_ttl
    OBVIOUS
  <2>2. entry.scope + 2 = max_ttl
    OBVIOUS
  <2>3. Len(log[n]) + 1 \in DOMAIN log'[n]
    BY <1>1, <1>3
  <2> HIDE DEF new, entry
  <2> QED
    BY <1>1, <1>3, <2>1, <2>2, <2>3 DEF Posted
<1>6. \A q \in Node : snd'[q] = IF q = n THEN Append(snd[n], new) ELSE snd[q]
  BY DEF sendFloodingMessage, TypeOK
<1> HIDE DEF new, entry
<1>7. UNCHANGED <<globalNeighborList, link, hand, rx, delivered>>
  BY DEF sendFloodingMessage
<1> SUFFICES ASSUME NEW q \in Node PROVE ScopeAt(q)'
  BY DEF ScopeInv
<1>8. ScopeAt(q)
  BY DEF ScopeInv
<1>9. /\ Carried(q, log) \subseteq Carried(q, log')
      /\ Posted(q, log) \subseteq Posted(q, log')
      /\ Given(q, log) \subseteq Given(q, log')
      /\ \A p \in Node : OnLink(q, p, log) \subseteq OnLink(q, p, log')
  BY <1>4, KeptScope
<1>10. snd[q] \in Seq(Posted(q, log'))
  BY <1>8, <1>9, SeqWider DEF ScopeAt
<1>11. snd'[q] \in Seq(Posted(q, log'))
  <2>1. CASE q = n
    <3>1. Append(snd[n], new) \in Seq(Posted(n, log'))
      BY <1>5, <1>10, <2>1
    <3> QED
      BY <1>6, <2>1, <3>1
  <2> QED
    BY <1>6, <1>10, <2>1
<1>12. \A p \in Node : link'[q][p] \in Seq(OnLink(q, p, log'))
  BY <1>7, <1>8, <1>9, SeqWider DEF ScopeAt
<1>13. rx'[q] \in Seq(Carried(q, log')) /\ delivered'[q] \in Seq(Given(q, log'))
  BY <1>7, <1>8, <1>9, SeqWider DEF ScopeAt
<1> QED
  BY <1>7, <1>8, <1>9, <1>11, <1>12, <1>13 DEF ScopeAt

\* A forwarder that takes a message up has come one hop further with it, or is
\* where it was sent; the decremented ttl accounts for that.
LEMMA TakeScope ==
    ASSUME TypeOK, NEW n \in Node, NEW m, Take(n, m),
           m \in Posted(n, log) \/ \E p \in Node : m \in OnLink(n, p, log)
    PROVE  /\ \A q \in Node : q # n => hand'[q] = hand[q]
           /\ hand'[n] \in Carried(n, log) \cup {None}
<1>1. \A q \in Node : q # n => hand'[q] = hand[q]
  BY DEF Take, TypeOK
<1>2. CASE Expired(m) \/ Seen(n, m) \/ ~ForMe(n, m)
  BY <1>1, <1>2 DEF Take, TypeOK
<1>3. CASE ~(Expired(m) \/ Seen(n, m) \/ ~ForMe(n, m))
  <2> DEFINE r == [m EXCEPT !.ttl = @ - 1]
             scope == log[m.host][m.k].scope
  <2>1. hand'[n] = r
    BY <1>3 DEF Take, TypeOK
  <2>2. m \in Message /\ m.k \in DOMAIN log[m.host]
    BY DEF Posted, OnLink, Carried
  <2>3. m.ttl \in Nat /\ m.host \in Node
    BY <2>2 DEF Message
  <2>4. m.ttl - 1 >= 1 /\ m.ttl - 1 \in Nat
    BY <1>3, <2>3 DEF Expired
  <2>5. /\ r \in Message /\ r.host = m.host /\ r.k = m.k /\ r.ttl = m.ttl - 1
    BY <2>2, <2>4 DEF Message
  <2>6. scope \in Int
    <3>1. log[m.host] \in Seq(Send)
      BY <2>3 DEF TypeOK
    <3>2. log[m.host][m.k] \in Send
      BY <2>2, <3>1
    <3> QED
      BY <3>2 DEF Send
  <2>7. scope + 1 - (m.ttl - 1) \in Nat /\ Walk(m.host, n, scope + 1 - (m.ttl - 1))
    <3>1. CASE m \in Posted(n, log)
      <4>1. m.host = n /\ m.ttl = scope + 2
        BY <3>1 DEF Posted
      <4> HIDE DEF scope
      <4>2. scope + 1 - (m.ttl - 1) = 0
        BY <2>6, <4>1
      <4>3. Walk(n, n, 0)
        BY WalkNowhere
      <4> QED
        BY <4>1, <4>2, <4>3
    <3>2. ASSUME NEW p \in Node, m \in OnLink(n, p, log)
          PROVE  scope + 1 - (m.ttl - 1) \in Nat /\ Walk(m.host, n, scope + 1 - (m.ttl - 1))
      <4> DEFINE d == scope + 1 - m.ttl
      <4>1. d \in Nat /\ Walk(m.host, p, d) /\ <<n, p>> \in Adj
        BY <3>2 DEF OnLink, Carried
      <4>2. scope + 1 - (m.ttl - 1) = d + 1
        <5> HIDE DEF scope
        <5> QED
          BY <2>3, <2>6
      <4> HIDE DEF d, scope
      <4>3. Walk(m.host, n, d + 1)
        BY <2>3, <4>1, WalkOn
      <4> QED
        BY <4>1, <4>2, <4>3
    <3> QED
      BY <3>1, <3>2
  <2>8. r \in Carried(n, log)
    <3> HIDE DEF r
    <3> QED
      BY <2>2, <2>4, <2>5, <2>7 DEF Carried
  <2> HIDE DEF r
  <2> QED
    BY <1>1, <2>1, <2>8
<1> QED
  BY <1>2, <1>3

\* What is left of a queue after its first or its last entry is taken away.
LEMMA QueueRest ==
    ASSUME NEW S, NEW s \in Seq(S), s # <<>>
    PROVE  /\ Head(s) \in S /\ Tail(s) \in Seq(S)
           /\ SubSeq(s, 1, Len(s) - 1) \in Seq(S)
  OBVIOUS

\* A message is taken from the SND socket of the node or from one of its links.
LEMMA FwdScope ==
    ASSUME TypeOK, ScopeInv, NEW n \in Node,
           FwdRecvOwn(n) \/ \E p \in Node : FwdRecv(n, p)
    PROVE  ScopeInv'
<1>1. CASE FwdRecvOwn(n)
  <2>1. snd[n] \in Seq(Posted(n, log)) /\ snd[n] # <<>>
    BY <1>1 DEF FwdRecvOwn, ScopeInv, ScopeAt
  <2>2. Head(snd[n]) \in Posted(n, log) /\ Tail(snd[n]) \in Seq(Posted(n, log))
    BY <2>1, QueueRest
  <2>3. Take(n, Head(snd[n])) /\ UNCHANGED <<globalNeighborList, link, rx, delivered, log>>
    BY <1>1 DEF FwdRecvOwn, histVars
  <2>4. \A q \in Node : hand'[q] \in Carried(q, log) \cup {None}
    BY <2>2, <2>3, TakeScope DEF ScopeInv, ScopeAt
  <2>5. \A q \in Node : snd'[q] = IF q = n THEN Tail(snd[n]) ELSE snd[q]
    BY <1>1 DEF FwdRecvOwn, TypeOK
  <2> QED
    BY <2>2, <2>3, <2>4, <2>5 DEF ScopeInv, ScopeAt
<1>2. ASSUME NEW p \in Node, FwdRecv(n, p) PROVE ScopeInv'
  <2>1. link[n][p] \in Seq(OnLink(n, p, log)) /\ link[n][p] # <<>>
    BY <1>2 DEF FwdRecv, ScopeInv, ScopeAt
  <2>2. /\ Head(link[n][p]) \in OnLink(n, p, log)
        /\ Tail(link[n][p]) \in Seq(OnLink(n, p, log))
    BY <2>1, QueueRest
  <2>3. Take(n, Head(link[n][p])) /\ UNCHANGED <<globalNeighborList, snd, rx, delivered, log>>
    BY <1>2 DEF FwdRecv, histVars
  <2>4. \A q \in Node : hand'[q] \in Carried(q, log) \cup {None}
    BY <2>2, <2>3, TakeScope DEF ScopeInv, ScopeAt
  <2>5. \A q, r \in Node : link'[q][r] = IF q = n /\ r = p THEN Tail(link[n][p])
                                         ELSE link[q][r]
    BY <1>2, ZenonT(30) DEF FwdRecv, TypeOK
  <2> QED
    BY <2>2, <2>3, <2>4, <2>5 DEF ScopeInv, ScopeAt
<1> QED
  BY <1>1, <1>2

\* What the forwarder publishes goes to nodes that hear it, and to its own
\* receive thread.
LEMMA ForwardScope ==
    ASSUME TypeOK, ScopeInv, NEW n \in Node, Forward(n)
    PROVE  ScopeInv'
<1> DEFINE out == [hand[n] EXCEPT !.lasthop = n]
<1>1. hand[n] \in Carried(n, log)
  BY DEF Forward, ScopeInv, ScopeAt
<1>2. out \in Carried(n, log)
  <2>1. hand[n] \in Message
    BY <1>1 DEF Carried
  <2>2. /\ out \in Message /\ out.host = hand[n].host /\ out.k = hand[n].k
        /\ out.ttl = hand[n].ttl
    BY <2>1 DEF Message
  <2> HIDE DEF out
  <2> QED
    BY <1>1, <2>2 DEF Carried
<1>3. UNCHANGED <<globalNeighborList, snd, delivered, log>>
  BY DEF Forward, histVars
<1> SUFFICES ASSUME NEW q \in Node PROVE ScopeAt(q)'
  BY DEF ScopeInv
<1>4. ScopeAt(q)
  BY DEF ScopeInv
<1>5. \A p \in Node : link'[q][p] = IF p = n /\ n \in globalNeighborList[q]
                                    THEN Append(link[q][p], out) ELSE link[q][p]
  BY DEF Forward, TypeOK
<1>6. rx'[q] = IF q = n THEN Append(rx[q], out) ELSE rx[q]
  BY DEF Forward, TypeOK
<1>7. hand'[q] \in {hand[q], None}
  BY DEF Forward, TypeOK
<1> HIDE DEF out
<1>8. ASSUME NEW p \in Node PROVE link'[q][p] \in Seq(OnLink(q, p, log))
  <2>1. link[q][p] \in Seq(OnLink(q, p, log))
    BY <1>4 DEF ScopeAt
  <2>2. CASE p = n /\ n \in globalNeighborList[q]
    <3>1. out \in OnLink(q, p, log)
      BY <1>2, <1>4, <2>2 DEF OnLink, ScopeAt
    <3>2. Append(link[q][p], out) \in Seq(OnLink(q, p, log))
      BY <2>1, <3>1
    <3> QED
      BY <1>5, <2>2, <3>2
  <2> QED
    BY <1>5, <2>1, <2>2
<1>9. rx'[q] \in Seq(Carried(q, log))
  <2>1. rx[q] \in Seq(Carried(q, log))
    BY <1>4 DEF ScopeAt
  <2>2. CASE q = n
    <3>1. Append(rx[q], out) \in Seq(Carried(q, log))
      BY <1>2, <2>1, <2>2
    <3> QED
      BY <1>6, <2>2, <3>1
  <2> QED
    BY <1>6, <2>1, <2>2
<1> QED
  BY <1>3, <1>4, <1>7, <1>8, <1>9 DEF ScopeAt

\* A message that is carried to n has not come further than its scope.
LEMMA CarriedGiven ==
    ASSUME TypeOK, NEW n \in Node, NEW m \in Carried(n, log)
    PROVE  m \in Given(n, log)
<1> DEFINE scope == log[m.host][m.k].scope
<1>1. /\ m \in Message /\ m.k \in DOMAIN log[m.host] /\ m.ttl >= 1
      /\ scope + 1 - m.ttl \in Nat /\ Walk(m.host, n, scope + 1 - m.ttl)
  BY DEF Carried
<1>2. m.ttl \in Nat /\ m.host \in Node
  BY <1>1 DEF Message
<1>3. scope \in Int
  <2>1. log[m.host] \in Seq(Send)
    BY <1>2 DEF TypeOK
  <2>2. log[m.host][m.k] \in Send
    BY <1>1, <2>1
  <2> QED
    BY <2>2 DEF Send
<1>4. scope \in Nat /\ Walk(m.host, n, scope)
  <2> HIDE DEF scope
  <2>1. scope \in Nat /\ scope + 1 - m.ttl <= scope
    BY <1>1, <1>2, <1>3
  <2> QED
    BY <1>1, <1>2, <2>1, WalkLonger
<1> QED
  BY <1>1, <1>4 DEF Given

\* The receive thread passes on a message of its socket or not.
LEMMA ReceiveScope ==
    ASSUME TypeOK, ScopeInv, NEW n \in Node, rx[n] # <<>>,
           rx' = [rx EXCEPT ![n] = Tail(@)],
           \/ delivered' = delivered
           \/ delivered' = [delivered EXCEPT ![n] = Append(@, Head(rx[n]))],
           UNCHANGED <<globalNeighborList, hand, snd, link, log>>
    PROVE  ScopeInv'
<1> SUFFICES ASSUME NEW q \in Node PROVE ScopeAt(q)'
  BY DEF ScopeInv
<1>1. ScopeAt(q) /\ ScopeAt(n)
  BY DEF ScopeInv
<1>2. Head(rx[n]) \in Carried(n, log) /\ Tail(rx[n]) \in Seq(Carried(n, log))
  BY <1>1, QueueRest DEF ScopeAt
<1>3. Head(rx[n]) \in Given(n, log) /\ delivered[n] \in Seq(Given(n, log))
  BY <1>1, <1>2, CarriedGiven DEF ScopeAt
<1>4. Append(delivered[n], Head(rx[n])) \in Seq(Given(n, log))
  BY <1>3
<1>5. rx'[q] = IF q = n THEN Tail(rx[n]) ELSE rx[q]
  BY DEF TypeOK
<1>6. delivered'[q] \in {delivered[q], IF q = n THEN Append(delivered[n], Head(rx[n]))
                                        ELSE delivered[q]}
  BY DEF TypeOK
<1>7. rx'[q] \in Seq(Carried(q, log))
  BY <1>1, <1>2, <1>5 DEF ScopeAt
<1>8. delivered'[q] \in Seq(Given(q, log))
  BY <1>1, <1>4, <1>6 DEF ScopeAt
<1> QED
  BY <1>1, <1>7, <1>8 DEF ScopeAt

\* Striking nodes from the audiences keeps the scopes.
LEMMA StrikeScopes ==
    ASSUME NEW sends, NEW S
    PROVE  /\ DOMAIN Strike(sends, S) = DOMAIN sends
           /\ \A k \in DOMAIN sends : Strike(sends, S)[k].scope = sends[k].scope
  BY DEF Strike

\* So does leaving the log alone.
LEMMA SameScopesKept == ASSUME UNCHANGED log PROVE ScopesKept(log, log')
  BY DEF ScopesKept

\* Whatever is sent, forwarded, lost or restarted, and whoever joins or leaves,
\* no message has gone further than its ttl allows.
LEMMA ScopeKept == Spec => []ScopeInv
<1>1. Init => ScopeInv
  <2> SUFFICES ASSUME Init, NEW n \in Node PROVE ScopeAt(n)
    BY DEF ScopeInv
  <2>1. /\ snd[n] = <<>> /\ rx[n] = <<>> /\ delivered[n] = <<>> /\ hand[n] = None
        /\ globalNeighborList[n] = {}
        /\ \A p \in Node : link[n][p] = <<>>
    BY DEF Init
  <2>2. \A A : <<>> \in Seq(A)
    OBVIOUS
  <2> QED
    BY <2>1, <2>2 DEF ScopeAt
<1>2. TypeOK /\ ScopeInv /\ [Next]_vars => ScopeInv'
  <2> SUFFICES ASSUME TypeOK, ScopeInv, [Next]_vars PROVE ScopeInv'
    OBVIOUS
  <2>1. CASE UNCHANGED <<globalNeighborList, snd, link, hand, rx, delivered, log>>
    BY <2>1, KeepScope, SameScopesKept
  <2>2. ASSUME NEW n \in Node, DropUnknown(n) \/ DropUndecodable(n)
        PROVE  ScopeInv'
    <3>1. hand' = [hand EXCEPT ![n] = None]
          /\ UNCHANGED <<globalNeighborList, snd, link, rx, delivered, log>>
      BY <2>2 DEF DropUnknown, DropUndecodable, netVars, histVars
    <3>2. \A q \in Node : hand'[q] \in {hand[q], None}
      BY <3>1 DEF TypeOK
    <3> QED
      BY <3>1, <3>2, KeepScope, SameScopesKept
  <2>3. ASSUME NEW n \in Node, receiveMessage(n) \/ RxUndecodable(n)
        PROVE  ScopeInv'
    BY <2>3, ReceiveScope DEF receiveMessage, RxUndecodable, nodeVars, histVars
  <2>4. ASSUME NEW n \in Node, Restart(n) PROVE ScopeInv'
    <3>1. ScopesKept(log, log')
      <4>1. \A h \in Node : log'[h] = Strike(log[h], IF h = n THEN Node ELSE {n})
        BY <2>4 DEF Restart
      <4> QED
        BY <4>1, StrikeScopes DEF ScopesKept
    <3>2. \A q \in Node : /\ globalNeighborList'[q] \subseteq globalNeighborList[q]
                          /\ snd'[q] \in {snd[q], <<>>}
                          /\ hand'[q] \in {hand[q], None}
                          /\ rx'[q] \in {rx[q], <<>>}
                          /\ delivered'[q] \in {delivered[q], <<>>}
      BY <2>4 DEF Restart, TypeOK
    <3>3. \A q, p \in Node : link'[q][p] \in {link[q][p], <<>>}
      BY <2>4 DEF Restart, TypeOK
    <3> QED
      BY <3>1, <3>2, <3>3, KeepScope
  <2>5. ASSUME NEW n \in Node, NEW p \in Node, onAPLeft(n, p) PROVE ScopeInv'
    <3>1. ScopesKept(log, log')
      <4>1. \A h \in Node : log'[h] = IF h = p THEN Strike(log[p], {n}) ELSE log[h]
        BY <2>5 DEF onAPLeft, TypeOK
      <4> QED
        BY <4>1, StrikeScopes DEF ScopesKept
    <3>2. UNCHANGED <<snd, hand, rx, delivered>>
      BY <2>5 DEF onAPLeft
    <3>3. \A q, r \in Node : link'[q][r] \in {link[q][r], <<>>}
      BY <2>5 DEF onAPLeft, TypeOK
    <3>4. \A q \in Node : globalNeighborList'[q] \subseteq globalNeighborList[q]
      BY <2>5 DEF onAPLeft, TypeOK
    <3> QED
      BY <3>1, <3>2, <3>3, <3>4, KeepScope
  <2>6. ASSUME NEW n \in Node, NEW p \in Node, LinkLoss(n, p) PROVE ScopeInv'
    <3>1. UNCHANGED <<globalNeighborList, snd, hand, rx, delivered, log>>
      BY <2>6 DEF LinkLoss, nodeVars, histVars
    <3>2. link[n][p] \in Seq(OnLink(n, p, log)) /\ link[n][p] # <<>>
      BY <2>6 DEF LinkLoss, ScopeInv, ScopeAt
    <3>3. SubSeq(link[n][p], 1, Len(link[n][p]) - 1) \in Seq(OnLink(n, p, log))
      BY <3>2, QueueRest
    <3>4. \A q, r \in Node : link'[q][r] = IF q = n /\ r = p
                                           THEN SubSeq(link[n][p], 1, Len(link[n][p]) - 1)
                                           ELSE link[q][r]
      BY <2>6 DEF LinkLoss, TypeOK
    <3> QED
      BY <3>1, <3>3, <3>4 DEF ScopeInv, ScopeAt
  <2>7. ASSUME NEW n \in Node, NEW p \in Node, onAPJoined(n, p) PROVE ScopeInv'
    <3>1. UNCHANGED <<snd, link, hand, rx, delivered, log>>
      BY <2>7 DEF onAPJoined, netVars, histVars
    <3>2. \A q \in Node : globalNeighborList'[q] \subseteq
                             globalNeighborList[q] \cup {r \in Node : <<q, r>> \in Adj}
      BY <2>7 DEF onAPJoined, TypeOK
    <3> QED
      BY <3>1, <3>2, KeepScope, SameScopesKept
  <2>8. ASSUME NEW n \in Node, NEW t \in Thread, NEW scope \in Scopes,
               sendToNeighbors(n, t, scope)
        PROVE  ScopeInv'
    <3>1. scope + 2 \in Nat
      BY ForwardingAssumption
    <3> QED
      BY <2>8, <3>1, SendScope DEF sendToNeighbors
  <2>9. ASSUME NEW n \in Node, NEW t \in Thread, NEW p \in Node, sendToNeighbor(n, t, p)
        PROVE  ScopeInv'
    BY <2>9, SendScope DEF sendToNeighbor
  <2>10. ASSUME NEW n \in Node, NEW t \in Thread, LoadId(n, t) \/ StoreId(n, t)
         PROVE  ScopeInv'
    BY <2>10, <2>1 DEF LoadId, StoreId, netVars, histVars
  <2>11. CASE UNCHANGED vars
    BY <2>11, <2>1 DEF vars, nodeVars, netVars, histVars
  <2>12. ASSUME NEW n \in Node, Forwarder(n) PROVE ScopeInv'
    BY <2>2, <2>12, ForwardScope, FwdScope DEF Forwarder
  <2> QED
    BY <2>2, <2>3, <2>4, <2>5, <2>6, <2>7, <2>8, <2>9, <2>10, <2>11, <2>12 DEF Next
<1> QED
  BY <1>1, <1>2, TypeCorrect, PTL DEF Spec

\* A message is given to the applications of nodes at most as many hops from its
\* host as the sender asked for: the decrement and the test of the ttl in every
\* forwarder (initForwardingTTL) bound the flooding on every topology, over all
\* paths, although neighbours join, leave and restart on the way.
THEOREM ScopedDelivery == Spec => []WithinScope
<1>1. ScopeInv => WithinScope
  <2> SUFFICES ASSUME ScopeInv, NEW n \in Node, NEW i \in DOMAIN delivered[n]
               PROVE  n \in Ball(delivered[n][i].host)
                              [log[delivered[n][i].host][delivered[n][i].k].scope]
    BY DEF WithinScope
  <2> DEFINE m == delivered[n][i]
             scope == log[m.host][m.k].scope
  <2>1. m \in Given(n, log)
    <3>1. delivered[n] \in Seq(Given(n, log))
      BY DEF ScopeInv, ScopeAt
    <3> QED
      BY <3>1
  <2>2. m.host \in Node /\ scope \in Nat /\ Walk(m.host, n, scope)
    BY <2>1 DEF Given, Message
  <2> HIDE DEF m, scope
  <2>3. n \in Ball(m.host)[scope]
    BY <2>2, BallIsWalks
  <2> QED
    BY <2>3 DEF m, scope
<1> QED
  BY <1>1, ScopeKept, PTL

=============================================================================
