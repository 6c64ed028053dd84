------------------------- MODULE UnicastKeysProofs -------------------------
(***************************************************************************)
(* Proofs about the session keys of unicast messages, for any number of    *)
(* agents, calling threads, retries, losses, removed entries and restarts. *)
(*                                                                         *)
(* The argument is about one direction at a time, data from n to p.  It    *)
(* speaks of s, the messages from n to p; r, those from p to n; k, the     *)
(* key pair n has; e, the entry p has of n; f, the entry n has of p.       *)
(***************************************************************************)
EXTENDS UnicastKeys, TLAPS

\* A nuk that n can decrypt with the key pair it has.
ValidNuk(m, k) == m.type = "nuk" /\ m.pubKey = k

\* Key n would encrypt with.
NoSendKey(f) == f # Absent => f.send = NoKey

\* Keys that travel are keys that were drawn; a key to send with sets the
\* event; p never has a public key of n from the future.
Basic(s, r, k, e, f) ==
    /\ \A i \in DOMAIN s : s[i].type = "data" => s[i].key # NoKey
    /\ \A i \in DOMAIN r : r[i].type = "nuk" => r[i].key # NoKey
    /\ f # Absent /\ f.send # NoKey => f.waiting
    /\ e # Absent => e.pubKey <= k

\* p has drawn a key: there is no other one in use between the two.
Agreed(s, r, k, e, f) ==
    /\ \A i \in DOMAIN s : s[i].type = "data" => s[i].key = e.rec
    /\ \A i \in DOMAIN r : ValidNuk(r[i], k) => r[i].key = e.rec
    /\ f # Absent => f.send \in {NoKey, e.rec}

\* p has drawn none: a ruk that asks for one has no data behind it, and the
\* one who asked still has no key.
Undrawn(s, r, k, f) ==
    /\ \A i \in DOMAIN r : ~ValidNuk(r[i], k)
    /\ \A i \in DOMAIN s : s[i].type = "ruk" =>
          /\ NoSendKey(f)
          /\ \A j \in DOMAIN s : j > i => s[j].type # "data"

\* n has restarted and p does not know: nothing p answers can be read.
Pending(s, r, k, e, f) ==
    /\ e # Absent => e.pubKey # k
    /\ \A i \in DOMAIN r : ~ValidNuk(r[i], k)
    /\ \A i \in DOMAIN s : s[i].type # "data"
    /\ NoSendKey(f)

\* No entry has gone and no agent has restarted: who has a key to send with,
\* or has sent with it, has it from p, and p keeps it.
Early(s, e, f) ==
    /\ e # Absent /\ f # Absent
    /\ e.rec = NoKey => f.send = NoKey /\ \A i \in DOMAIN s : s[i].type # "data"

Pair(s, r, k, e, f) ==
    /\ Basic(s, r, k, e, f)
    /\ e # Absent /\ e.rec # NoKey => Agreed(s, r, k, e, f)
    /\ e # Absent /\ e.rec = NoKey => Undrawn(s, r, k, f)

Calm == leaves = 0 /\ boots = 0

At(n, p) ==
    /\ Pair(chan[n][p], chan[p][n], rsaKey[n], entry[p][n], entry[n][p])
    /\ <<p, n>> \in probed =>
          Pending(chan[n][p], chan[p][n], rsaKey[n], entry[p][n], entry[n][p])
    /\ Calm /\ n # p => Early(chan[n][p], entry[p][n], entry[n][p])

PairInv == \A n, p \in Node : At(n, p)

\* No agent is its own neighbour.
SelfInv ==
    /\ \A n \in Node : entry[n][n] = Absent /\ chan[n][n] = <<>>
    /\ \A n \in Node : <<n, n>> \notin probed
    /\ Calm => probed = {}
    /\ leaves \in Nat /\ boots \in Nat

\* One more ruk is sent only if there are retries left.
RetryInv ==
    \A n \in Node, t \in Caller : caller[n][t].pc = "loop" => caller[n][t].retries < MaxRetries

\* The inductive invariant, together with RetryInv.
KeyInv == TypeOK /\ PairInv /\ SelfInv

-----------------------------------------------------------------------------
(* One direction: what a change of the channels or entries preserves       *)

Entry == Neighbor \cup {Absent}

\* The absent entry is not a neighbour.
LEMMA AbsentApart ==
    ASSUME NEW e \in Neighbor
    PROVE  e # Absent
<1>1. SUFFICES ASSUME e = Absent PROVE FALSE
  OBVIOUS
<1>2. DOMAIN e = {"send", "rec", "waiting", "pubKey"}
  BY DEF Neighbor
<1>3. DOMAIN Absent = {"absent"}
  BY DEF Absent
<1> QED
  BY <1>1, <1>2, <1>3

\* A message taken or lost from n to p.
LEMMA PairTailS ==
    ASSUME NEW s \in Seq(Message), s # <<>>, NEW r, NEW k, NEW e, NEW f,
           Pair(s, r, k, e, f)
    PROVE  /\ Pair(Tail(s), r, k, e, f)
           /\ Pending(s, r, k, e, f) => Pending(Tail(s), r, k, e, f)
           /\ Early(s, e, f) => Early(Tail(s), e, f)
<1>1. \A i \in DOMAIN Tail(s) : i + 1 \in DOMAIN s /\ Tail(s)[i] = s[i + 1]
  OBVIOUS
<1>2. DOMAIN Tail(s) \subseteq Nat
  OBVIOUS
<1>3. Basic(Tail(s), r, k, e, f)
  BY <1>1 DEF Pair, Basic
<1>4. Agreed(s, r, k, e, f) => Agreed(Tail(s), r, k, e, f)
  BY <1>1 DEF Agreed
<1>5. Undrawn(s, r, k, f) => Undrawn(Tail(s), r, k, f)
  BY <1>1, <1>2 DEF Undrawn
<1>6. Pending(s, r, k, e, f) => Pending(Tail(s), r, k, e, f)
  BY <1>1 DEF Pending
<1>7. Early(s, e, f) => Early(Tail(s), e, f)
  BY <1>1 DEF Early
<1> QED
  BY <1>3, <1>4, <1>5, <1>6, <1>7 DEF Pair

\* A message taken or lost from p to n.
LEMMA PairTailR ==
    ASSUME NEW s, NEW r \in Seq(Message), r # <<>>, NEW k, NEW e, NEW f,
           Pair(s, r, k, e, f)
    PROVE  /\ Pair(s, Tail(r), k, e, f)
           /\ Pending(s, r, k, e, f) => Pending(s, Tail(r), k, e, f)
<1>1. \A i \in DOMAIN Tail(r) : i + 1 \in DOMAIN r /\ Tail(r)[i] = r[i + 1]
  OBVIOUS
<1>3. Basic(s, Tail(r), k, e, f)
  BY <1>1 DEF Pair, Basic
<1>4. Agreed(s, r, k, e, f) => Agreed(s, Tail(r), k, e, f)
  BY <1>1 DEF Agreed
<1>5. Undrawn(s, r, k, f) => Undrawn(s, Tail(r), k, f)
  BY <1>1 DEF Undrawn
<1>6. Pending(s, r, k, e, f) => Pending(s, Tail(r), k, e, f)
  BY <1>1 DEF Pending
<1> QED
  BY <1>3, <1>4, <1>5, <1>6 DEF Pair

\* A message from n to p that is neither data nor a ruk, or that is a ruk of
\* an n without a key, or data with the key of n.
LEMMA PairSend ==
    ASSUME NEW s \in Seq(Message), NEW r, NEW k, NEW e, NEW f,
           NEW m \in Message,
           \/ m.type = "nuk"
           \/ m.type = "ruk" /\ f # Absent /\ f.send = NoKey
           \/ m.type = "data" /\ f # Absent /\ f.send # NoKey /\ m.key = f.send,
           Pair(s, r, k, e, f)
    PROVE  /\ Pair(Append(s, m), r, k, e, f)
           /\ Pending(s, r, k, e, f) => Pending(Append(s, m), r, k, e, f)
           /\ Early(s, e, f) => Early(Append(s, m), e, f)
<1> DEFINE s2 == Append(s, m)
<1>1. \A i \in DOMAIN s2 : \/ i \in DOMAIN s /\ s2[i] = s[i]
                           \/ i = Len(s) + 1 /\ s2[i] = m
  OBVIOUS
<1>2. DOMAIN s2 \subseteq Nat /\ \A i \in DOMAIN s : i <= Len(s) /\ i \in Nat
  OBVIOUS
<1>3. Len(s) \in Nat
  OBVIOUS
<1> HIDE DEF s2
<1>4. Basic(s2, r, k, e, f)
  BY <1>1 DEF Pair, Basic
<1>5. Agreed(s, r, k, e, f) => Agreed(s2, r, k, e, f)
  BY <1>1 DEF Agreed
<1>6. Undrawn(s, r, k, f) => Undrawn(s2, r, k, f)
  <2>1. SUFFICES ASSUME Undrawn(s, r, k, f), NEW i \in DOMAIN s2, s2[i].type = "ruk"
                 PROVE  /\ NoSendKey(f)
                        /\ \A j \in DOMAIN s2 : j > i => s2[j].type # "data"
    BY DEF Undrawn
  <2>2. NoSendKey(f)
    BY <1>1, <2>1 DEF Undrawn, NoSendKey
  <2>3. m.type # "data"
    BY <2>2 DEF NoSendKey
  <2> QED
    BY <1>1, <1>2, <1>3, <2>1, <2>2, <2>3 DEF Undrawn
<1>7. Pending(s, r, k, e, f) => Pending(s2, r, k, e, f)
  BY <1>1 DEF Pending, NoSendKey
<1>8. Early(s, e, f) => Early(s2, e, f)
  BY <1>1 DEF Early
<1> QED
  BY <1>4, <1>5, <1>6, <1>7, <1>8 DEF Pair, s2

\* A message from p to n that is not a nuk.
LEMMA PairHear ==
    ASSUME NEW s, NEW r \in Seq(Message), NEW k, NEW e, NEW f,
           NEW m \in Message, m.type # "nuk",
           Pair(s, r, k, e, f)
    PROVE  /\ Pair(s, Append(r, m), k, e, f)
           /\ Pending(s, r, k, e, f) => Pending(s, Append(r, m), k, e, f)
<1> DEFINE r2 == Append(r, m)
<1>1. \A i \in DOMAIN r2 : \/ i \in DOMAIN r /\ r2[i] = r[i]
                           \/ r2[i] = m
  OBVIOUS
<1> HIDE DEF r2
<1>2. Basic(s, r2, k, e, f)
  BY <1>1 DEF Pair, Basic
<1>3. Agreed(s, r, k, e, f) => Agreed(s, r2, k, e, f)
  BY <1>1 DEF Agreed, ValidNuk
<1>4. Undrawn(s, r, k, f) => Undrawn(s, r2, k, f)
  BY <1>1 DEF Undrawn, ValidNuk
<1>5. Pending(s, r, k, e, f) => Pending(s, r2, k, e, f)
  BY <1>1 DEF Pending, ValidNuk
<1> QED
  BY <1>2, <1>3, <1>4, <1>5 DEF Pair, r2

\* The entry of p loses or keeps what the direction is about, or is gone.
LEMMA PairReceiver ==
    ASSUME NEW s, NEW r, NEW k, NEW e, NEW f, NEW e2,
           \/ e2 = Absent
           \/ e # Absent /\ e2.rec = e.rec /\ e2.pubKey = e.pubKey,
           Pair(s, r, k, e, f)
    PROVE  /\ Pair(s, r, k, e2, f)
           /\ Pending(s, r, k, e, f) => Pending(s, r, k, e2, f)
           /\ Early(s, e, f) /\ e2 # Absent => Early(s, e2, f)
BY DEF Pair, Basic, Agreed, Undrawn, Pending, Early

\* The same for the entry of n.
LEMMA PairSender ==
    ASSUME NEW s, NEW r, NEW k, NEW e, NEW f, NEW f2,
           \/ f2 = Absent
           \/ f2.send = NoKey
           \/ f # Absent /\ f2.send = f.send /\ f2.waiting,
           Pair(s, r, k, e, f)
    PROVE  /\ Pair(s, r, k, e, f2)
           /\ Pending(s, r, k, e, f) => Pending(s, r, k, e, f2)
           /\ Early(s, e, f) /\ f2 # Absent => Early(s, e, f2)
BY DEF Pair, Basic, Agreed, Undrawn, Pending, NoSendKey, Early

\* p answers a ruk with the key it has.
LEMMA PairAnswerOld ==
    ASSUME NEW s, NEW r \in Seq(Message), NEW k, NEW e, NEW f,
           NEW m \in Message,
           e # Absent, e.rec # NoKey,
           m.type = "nuk", m.key = e.rec, m.pubKey = e.pubKey,
           Pair(s, r, k, e, f)
    PROVE  /\ Pair(s, Append(r, m), k, e, f)
           /\ Pending(s, r, k, e, f) => Pending(s, Append(r, m), k, e, f)
<1> DEFINE r2 == Append(r, m)
<1>1. \A i \in DOMAIN r2 : \/ i \in DOMAIN r /\ r2[i] = r[i]
                           \/ r2[i] = m
  OBVIOUS
<1> HIDE DEF r2
<1>2. Basic(s, r2, k, e, f)
  BY <1>1 DEF Pair, Basic
<1>3. Agreed(s, r, k, e, f) => Agreed(s, r2, k, e, f)
  BY <1>1 DEF Agreed, ValidNuk
<1>4. Pending(s, r, k, e, f) => Pending(s, r2, k, e, f)
  BY <1>1 DEF Pending, ValidNuk
<1> QED
  BY <1>2, <1>3, <1>4 DEF Pair, r2

\* p takes a ruk, draws a key and answers with it.
LEMMA PairAnswerNew ==
    ASSUME NEW s \in Seq(Message), NEW r \in Seq(Message), NEW k, NEW e, NEW f,
           NEW m \in Message, NEW e2,
           e # Absent, e.rec = NoKey, s # <<>>, Head(s).type = "ruk",
           m.type = "nuk", m.key # NoKey, m.pubKey = e.pubKey,
           e2 # Absent, e2.rec = m.key, e2.pubKey = e.pubKey,
           Pair(s, r, k, e, f)
    PROVE  /\ Pair(Tail(s), Append(r, m), k, e2, f)
           /\ Pending(s, r, k, e, f) => Pending(Tail(s), Append(r, m), k, e2, f)
           /\ Early(s, e, f) => Early(Tail(s), e2, f)
<1> DEFINE r2 == Append(r, m)
           s2 == Tail(s)
<1>1. \A i \in DOMAIN r2 : \/ i \in DOMAIN r /\ r2[i] = r[i]
                           \/ r2[i] = m
  OBVIOUS
<1>2. \A i \in DOMAIN s2 : i + 1 \in DOMAIN s /\ s2[i] = s[i + 1] /\ i + 1 > 1
  OBVIOUS
<1>3. 1 \in DOMAIN s /\ s[1] = Head(s)
  OBVIOUS
<1> HIDE DEF r2, s2
<1>4. Undrawn(s, r, k, f)
  BY DEF Pair
<1>5. \A i \in DOMAIN s2 : s2[i].type # "data"
  BY <1>2, <1>3, <1>4 DEF Undrawn
<1>6. NoSendKey(f)
  BY <1>3, <1>4 DEF Undrawn
<1>7. Basic(s2, r2, k, e2, f)
  BY <1>1, <1>5 DEF Pair, Basic
<1>8. Agreed(s2, r2, k, e2, f)
  BY <1>1, <1>4, <1>5, <1>6 DEF Undrawn, Agreed, ValidNuk, NoSendKey
<1>9. Pending(s, r, k, e, f) => Pending(s2, r2, k, e2, f)
  BY <1>1, <1>5 DEF Pending, ValidNuk
<1>10. Early(s, e, f) => Early(s2, e2, f)
  BY DEF Early
<1> QED
  BY <1>7, <1>8, <1>9, <1>10 DEF Pair, r2, s2

\* n takes the nuk.
LEMMA PairNuk ==
    ASSUME NEW s, NEW r \in Seq(Message), NEW k, NEW e, NEW f, NEW f2,
           r # <<>>, ValidNuk(Head(r), k),
           f2 # Absent, f2.send = Head(r).key, f2.waiting = TRUE,
           Pair(s, r, k, e, f)
    PROVE  /\ Pair(s, Tail(r), k, e, f2)
           /\ Pending(s, r, k, e, f) => Pending(s, Tail(r), k, e, f2)
           /\ Early(s, e, f) => Early(s, e, f2)
<1>1. 1 \in DOMAIN r /\ r[1] = Head(r)
  OBVIOUS
<1>2. \A i \in DOMAIN Tail(r) : i + 1 \in DOMAIN r /\ Tail(r)[i] = r[i + 1]
  OBVIOUS
<1>3. Basic(s, Tail(r), k, e, f2)
  BY <1>2 DEF Pair, Basic
<1>4. Agreed(s, r, k, e, f) => Agreed(s, Tail(r), k, e, f2)
  BY <1>1, <1>2 DEF Agreed
<1>5. ~Undrawn(s, r, k, f) /\ ~Pending(s, r, k, e, f)
  BY <1>1 DEF Undrawn, Pending
<1>6. Early(s, e, f) => Early(s, e, f2)
  BY <1>5 DEF Early, Pair
<1> QED
  BY <1>3, <1>4, <1>5, <1>6 DEF Pair

\* p handles the probe request of n.
LEMMA PairProbe ==
    ASSUME NEW s, NEW r, NEW k \in Nat, NEW e, NEW f, NEW e2, 
           e2.pubKey = k,
           IF e # Absent THEN e2.rec = e.rec ELSE e2.rec = NoKey,
           Pair(s, r, k, e, f), Pending(s, r, k, e, f)
    PROVE  Pair(s, r, k, e2, f)
BY DEF Pair, Basic, Agreed, Undrawn, Pending

-----------------------------------------------------------------------------
(* Types                                                                   *)

CallerState ==
    [pc : {"idle", "loop", "asked", "send", "dead"}, to : Node,
     retries : 0 .. MaxRetries,
     result : {"none", "unknown", "max retries", "success"}]

Table(S) == [Node -> [Node -> S]]

\* The types of the tables and of what is in them.
LEMMA Types ==
    ASSUME TypeOK
    PROVE  /\ entry \in Table(Entry) /\ \A n, p \in Node : entry[n][p] \in Entry
           /\ chan \in Table(Seq(Message)) /\ \A n, p \in Node : chan[n][p] \in Seq(Message)
           /\ caller \in [Node -> [Caller -> CallerState]]
           /\ \A n \in Node, t \in Caller : caller[n][t] \in CallerState
<1>1. /\ entry \in Table(Entry)
      /\ chan \in Table(Seq(Message))
      /\ caller \in [Node -> [Caller -> CallerState]]
  BY DEF TypeOK, Table, Entry, CallerState
<1> QED
  BY <1>1 DEF Table

\* An entry that is there is a neighbour.
LEMMA KnownType ==
    ASSUME TypeOK, NEW n \in Node, NEW p \in Node
    PROVE  /\ Known(n, p) <=> entry[n][p] \in Neighbor
           /\ Known(n, p) <=> entry[n][p] # Absent
<1>1. entry[n][p] \in Entry
  BY Types
<1> QED
  BY <1>1, AbsentApart DEF Known, Entry

\* A thread that calls nothing is in a state threads can be in.
LEMMA IdleType ==
    ASSUME Node # {}
    PROVE  Idle \in CallerState
<1>1. (CHOOSE n \in Node : TRUE) \in Node
  OBVIOUS
<1> QED
  BY <1>1, UnicastAssumption DEF Idle, CallerState

\* A new entry is one.
LEMMA NewNeighborType ==
    ASSUME TypeOK, NEW p \in Node
    PROVE  NewNeighbor(p) \in Neighbor
BY DEF TypeOK, NewNeighbor, Neighbor, NoKey

\* Updating one cell of a table.
LEMMA Cell ==
    ASSUME NEW A, NEW B, NEW S, NEW g \in [A -> [B -> S]], NEW a \in A, NEW b \in B, NEW v \in S
    PROVE  /\ [g EXCEPT ![a][b] = v] \in [A -> [B -> S]]
           /\ [g EXCEPT ![a][b] = v][a][b] = v
           /\ \A c \in A, d \in B :
                 <<c, d>> # <<a, b>> => [g EXCEPT ![a][b] = v][c][d] = g[c][d]
<1> DEFINE h == [g EXCEPT ![a][b] = v]
<1>1. h = [g EXCEPT ![a] = [g[a] EXCEPT ![b] = v]]
  OBVIOUS
<1>2. g[a] \in [B -> S]
  OBVIOUS
<1>3. [g[a] EXCEPT ![b] = v] \in [B -> S]
  BY <1>2
<1> QED
  BY <1>1, <1>2, <1>3

\* Tail and Append keep sequences of messages.
LEMMA SeqType ==
    ASSUME NEW S, NEW s \in Seq(S)
    PROVE  /\ s # <<>> => Tail(s) \in Seq(S) /\ Head(s) \in S
           /\ \A m \in S : Append(s, m) \in Seq(S)
OBVIOUS

\* A channel that loses its first message is one of messages.
LEMMA TailType ==
    ASSUME TypeOK, NEW n \in Node, NEW p \in Node, chan[n][p] # <<>>
    PROVE  [chan EXCEPT ![n][p] = Tail(@)] \in [Node -> [Node -> Seq(Message)]]
<1>2. chan \in [Node -> [Node -> Seq(Message)]]
  BY DEF TypeOK
<1>1. Tail(chan[n][p]) \in Seq(Message)
  BY <1>2, SeqType
<1> QED
  BY <1>1, <1>2, Cell

\* So is one that gets a message.
LEMMA AppendType ==
    ASSUME TypeOK, NEW n \in Node, NEW p \in Node, NEW m \in Message
    PROVE  [chan EXCEPT ![n][p] = Append(@, m)] \in [Node -> [Node -> Seq(Message)]]
<1>2. chan \in [Node -> [Node -> Seq(Message)]]
  BY DEF TypeOK
<1>1. Append(chan[n][p], m) \in Seq(Message)
  BY <1>2, SeqType
<1> QED
  BY <1>1, <1>2, Cell

\* So are the two channels after a ruk was answered.
LEMMA AnswerType ==
    ASSUME TypeOK, NEW n \in Node, NEW p \in Node, NEW k \in Nat,
           Known(p, n), chan[n][p] # <<>>, Answer(n, p, k)
    PROVE  chan' \in [Node -> [Node -> Seq(Message)]]
<1> DEFINE m == [type |-> "nuk", key |-> k, pubKey |-> entry[p][n].pubKey]
           c == [chan EXCEPT ![n][p] = Tail(@)]
<1>1. entry[p][n] \in Neighbor
  BY KnownType
<1>2. m \in Message
  BY <1>1 DEF Neighbor, Message
<1>3. c \in [Node -> [Node -> Seq(Message)]]
  BY TailType
<1>4. chan' = [c EXCEPT ![p][n] = Append(@, m)]
  BY DEF Answer
<1> HIDE DEF c, m
<1>5. Append(c[p][n], m) \in Seq(Message)
  BY <1>2, <1>3, SeqType
<1> QED
  BY <1>3, <1>4, <1>5, Cell

\* What a step of a thread makes of its state, field by field.
LEMMA CallerStep ==
    ASSUME NEW c \in CallerState, NEW l, NEW result, NEW d,
           d = [c EXCEPT !.pc = l, !.result = result]
    PROVE  d = [pc |-> l, to |-> c.to, retries |-> c.retries, result |-> result]
BY DEF CallerState

\* The record of a caller that has asked for a key.
LEMMA CallerAsk ==
    ASSUME NEW c \in CallerState, NEW d,
           d = [c EXCEPT !.pc = "asked", !.retries = c.retries + 1]
    PROVE  d = [pc |-> "asked", to |-> c.to, retries |-> c.retries + 1, result |-> c.result]
BY DEF CallerState

\* Steps of a calling thread.
LEMMA BecomeType ==
    ASSUME TypeOK, NEW n \in Node, NEW t \in Caller,
           NEW l \in {"idle", "loop", "asked", "send", "dead"},
           NEW result \in {"none", "unknown", "max retries", "success"},
           Become(n, t, l, result)
    PROVE  /\ caller' \in [Node -> [Caller -> CallerState]]
           /\ RetryInv /\ (l = "loop" => caller[n][t].retries < MaxRetries) => RetryInv'
<1> DEFINE d == [pc |-> l, to |-> caller[n][t].to, retries |-> caller[n][t].retries,
                 result |-> result]
<1>1. caller \in [Node -> [Caller -> CallerState]] /\ caller[n][t] \in CallerState
  BY Types
<1>2. [caller[n][t] EXCEPT !.pc = l, !.result = result] = d
  BY <1>1, CallerStep, Zenon
<1>3. caller' = [caller EXCEPT ![n][t] = d]
  BY <1>2, Zenon DEF Become
<1>4. d \in CallerState /\ d.pc = l /\ d.retries = caller[n][t].retries
  BY <1>1 DEF CallerState
<1> HIDE DEF d
<1>5. /\ caller' \in [Node -> [Caller -> CallerState]]
      /\ caller'[n][t] = d
      /\ \A a \in Node, u \in Caller : ~(a = n /\ u = t) => caller'[a][u] = caller[a][u]
  BY <1>1, <1>3, <1>4
<1> QED
  BY <1>4, <1>5 DEF RetryInv

-----------------------------------------------------------------------------
(* Steps that concern two agents                                           *)

\* A step that is not the first one to remove an entry or restart an agent,
\* or that is one of these.
Steady == (Calm' => Calm) /\ leaves' \in Nat /\ boots' \in Nat

\* Where nothing between two agents changes, what holds of them still does.
LEMMA PairFrame ==
    ASSUME PairInv, SelfInv, NEW n \in Node, NEW p \in Node, n # p,
           rsaKey' = rsaKey, Steady, probed' \subseteq probed,
           \A a, b \in Node : ~(a = n /\ b = p) /\ ~(a = p /\ b = n) =>
               /\ chan'[a][b] = chan[a][b]
               /\ entry'[a][b] = entry[a][b]
               /\ <<a, b>> \in probed' <=> <<a, b>> \in probed,
           At(n, p)', At(p, n)'
    PROVE  PairInv' /\ SelfInv'
<1>1. ASSUME NEW a \in Node, NEW b \in Node
      PROVE  At(a, b)'
  <2>1. CASE (a = n /\ b = p) \/ (a = p /\ b = n)
    BY <2>1
  <2>2. CASE ~(a = n /\ b = p) /\ ~(a = p /\ b = n)
    <3>1. /\ chan'[a][b] = chan[a][b] /\ chan'[b][a] = chan[b][a]
          /\ entry'[a][b] = entry[a][b] /\ entry'[b][a] = entry[b][a]
          /\ <<b, a>> \in probed' <=> <<b, a>> \in probed
      BY <2>2
    <3>2. At(a, b)
      BY DEF PairInv
    <3> QED
      BY <3>1, <3>2 DEF At, Steady
  <2> QED
    BY <2>1, <2>2
<1>2. SelfInv'
  <2>1. ASSUME NEW a \in Node PROVE entry'[a][a] = Absent /\ chan'[a][a] = <<>>
    <3>1. entry[a][a] = Absent /\ chan[a][a] = <<>>
      BY DEF SelfInv
    <3>2. entry'[a][a] = entry[a][a] /\ chan'[a][a] = chan[a][a]
      OBVIOUS
    <3> QED
      BY <3>1, <3>2
  <2>2. ASSUME NEW a \in Node PROVE <<a, a>> \notin probed'
    <3>1. <<a, a>> \notin probed
      BY DEF SelfInv
    <3> QED
      BY <3>1
  <2>3. Calm' => probed' = {}
    <3>1. Calm' => probed = {}
      BY DEF SelfInv, Steady
    <3> QED
      BY <3>1
  <2> QED
    BY <2>1, <2>2, <2>3 DEF SelfInv, Steady
<1> QED
  BY <1>1, <1>2 DEF PairInv

\* A step that removes no entry and restarts no agent.
LEMMA SteadyStep ==
    ASSUME KeyInv, UNCHANGED <<leaves, boots>>
    PROVE  Steady
BY DEF KeyInv, SelfInv, Steady, Calm

\* So is one that changes nothing of what the keys depend on.
LEMMA SameStep ==
    ASSUME KeyInv, UNCHANGED <<chan, entry, rsaKey, probed, leaves, boots>>
    PROVE  PairInv' /\ SelfInv'
<1>1. ASSUME NEW n \in Node, NEW p \in Node
      PROVE  At(n, p)'
  <2>1. At(n, p)
    BY DEF KeyInv, PairInv
  <2> QED
    BY <2>1 DEF At, Calm
<1>2. SelfInv'
  BY DEF KeyInv, SelfInv, Calm
<1> QED
  BY <1>1, <1>2 DEF PairInv

\* One cell of the channels or of the entries.
LEMMA ChanCell ==
    ASSUME TypeOK, NEW n \in Node, NEW p \in Node, NEW s \in Seq(Message),
           chan' = [chan EXCEPT ![n][p] = s]
    PROVE  /\ chan' \in Table(Seq(Message)) /\ chan'[n][p] = s
           /\ \A a, b \in Node : ~(a = n /\ b = p) => chan'[a][b] = chan[a][b]
<1>1. chan \in [Node -> [Node -> Seq(Message)]]
  BY Types DEF Table
<1> QED
  BY <1>1 DEF Table

\* What writing one entry of the neighbour lists changes.
LEMMA EntryCell ==
    ASSUME TypeOK, NEW n \in Node, NEW p \in Node, NEW e \in Entry,
           entry' = [entry EXCEPT ![n][p] = e]
    PROVE  /\ entry' \in Table(Entry) /\ entry'[n][p] = e
           /\ \A a, b \in Node : ~(a = n /\ b = p) => entry'[a][b] = entry[a][b]
<1>1. entry \in [Node -> [Node -> Entry]]
  BY Types DEF Table
<1> QED
  BY <1>1 DEF Table

\* A message is taken or lost.
LEMMA TakeStep ==
    ASSUME KeyInv, NEW n \in Node, NEW p \in Node, chan[n][p] # <<>>,
           chan' = [chan EXCEPT ![n][p] = Tail(@)],
           UNCHANGED <<entry, rsaKey, probed>>, Steady
    PROVE  chan' \in Table(Seq(Message)) /\ PairInv' /\ SelfInv'
<1>1. n # p
  BY DEF KeyInv, SelfInv
<1>2. chan[n][p] \in Seq(Message)
  BY Types DEF KeyInv
<1>3. Tail(chan[n][p]) \in Seq(Message)
  BY <1>2, SeqType
<1>4. /\ chan' \in Table(Seq(Message)) /\ chan'[n][p] = Tail(chan[n][p])
      /\ \A a, b \in Node : ~(a = n /\ b = p) => chan'[a][b] = chan[a][b]
  <2> DEFINE s == Tail(chan[n][p])
  <2>1. s \in Seq(Message) /\ chan' = [chan EXCEPT ![n][p] = s]
    BY <1>3
  <2> HIDE DEF s
  <2>2. /\ chan' \in Table(Seq(Message)) /\ chan'[n][p] = s
        /\ \A a, b \in Node : ~(a = n /\ b = p) => chan'[a][b] = chan[a][b]
    BY <2>1, ChanCell DEF KeyInv
  <2> QED
    BY <2>2 DEF s
<1>5. At(n, p) /\ At(p, n)
  BY DEF KeyInv, PairInv
<1>6. chan'[p][n] = chan[p][n]
  BY <1>1, <1>4
<1>7. At(n, p)'
  BY <1>1, <1>2, <1>4, <1>5, <1>6, PairTailS DEF At, Steady
<1>8. At(p, n)'
  BY <1>1, <1>2, <1>4, <1>5, <1>6, PairTailR DEF At, Steady
<1> QED
  BY <1>1, <1>4, <1>7, <1>8, PairFrame DEF KeyInv

\* A ruk or data is sent.
LEMMA PutStep ==
    ASSUME KeyInv, NEW n \in Node, NEW p \in Node, NEW m \in Message, Known(n, p),
           chan' = [chan EXCEPT ![n][p] = Append(@, m)],
           \/ m.type = "ruk" /\ entry[n][p].send = NoKey
           \/ m.type = "data" /\ entry[n][p].send # NoKey /\ m.key = entry[n][p].send,
           UNCHANGED <<entry, rsaKey, probed>>, Steady
    PROVE  chan' \in Table(Seq(Message)) /\ PairInv' /\ SelfInv'
<1>1. n # p /\ entry[n][p] # Absent
  BY DEF KeyInv, SelfInv, Known
<1>2. chan[n][p] \in Seq(Message)
  BY Types DEF KeyInv
<1>3. Append(chan[n][p], m) \in Seq(Message)
  BY <1>2, SeqType
<1>4. /\ chan' \in Table(Seq(Message)) /\ chan'[n][p] = Append(chan[n][p], m)
      /\ \A a, b \in Node : ~(a = n /\ b = p) => chan'[a][b] = chan[a][b]
  BY <1>3, ChanCell DEF KeyInv
<1>5. At(n, p) /\ At(p, n)
  BY DEF KeyInv, PairInv
<1>6. chan'[p][n] = chan[p][n]
  BY <1>1, <1>4
<1>7. At(n, p)'
  <2>1. LET s == Append(chan[n][p], m)
        IN  /\ Pair(s, chan[p][n], rsaKey[n], entry[p][n], entry[n][p])
            /\ Pending(chan[n][p], chan[p][n], rsaKey[n], entry[p][n], entry[n][p]) =>
                 Pending(s, chan[p][n], rsaKey[n], entry[p][n], entry[n][p])
            /\ Early(chan[n][p], entry[p][n], entry[n][p]) =>
                 Early(s, entry[p][n], entry[n][p])
    BY <1>1, <1>2, <1>5, PairSend DEF At
  <2> QED
    BY <1>1, <1>4, <1>5, <1>6, <2>1 DEF At, Steady
<1>8. At(p, n)'
  BY <1>1, <1>2, <1>4, <1>5, <1>6, PairHear DEF At, Steady
<1> QED
  BY <1>1, <1>4, <1>7, <1>8, PairFrame DEF KeyInv

\* An entry is removed, or its event is set or cleared.
LEMMA EntryStep ==
    ASSUME KeyInv, NEW n \in Node, NEW p \in Node, NEW e \in Entry, Known(n, p),
           entry' = [entry EXCEPT ![n][p] = e],
           \/ e = Absent
           \/ /\ e.send = entry[n][p].send
              /\ e.rec = entry[n][p].rec
              /\ e.pubKey = entry[n][p].pubKey
              /\ e.send = NoKey \/ e.waiting,
           UNCHANGED <<chan, rsaKey, probed>>, Steady, e = Absent => ~Calm'
    PROVE  entry' \in Table(Entry) /\ PairInv' /\ SelfInv'
<1>1. n # p /\ entry[n][p] # Absent
  BY DEF KeyInv, SelfInv, Known
<1>2. /\ entry' \in Table(Entry) /\ entry'[n][p] = e
      /\ \A a, b \in Node : ~(a = n /\ b = p) => entry'[a][b] = entry[a][b]
  BY EntryCell DEF KeyInv
<1>3. entry'[p][n] = entry[p][n]
  BY <1>1, <1>2
<1>4. At(n, p) /\ At(p, n)
  BY DEF KeyInv, PairInv
<1> DEFINE f == entry[n][p]
<1>5. /\ \/ e = Absent \/ e.send = NoKey
         \/ f # Absent /\ e.send = f.send /\ e.waiting
      /\ \/ e = Absent
         \/ f # Absent /\ e.rec = f.rec /\ e.pubKey = f.pubKey
  BY <1>1
<1> HIDE DEF f
<1>6. At(n, p)'
  <2>1. Pair(chan[n][p], chan[p][n], rsaKey[n], entry[p][n], f)
    BY <1>4 DEF At, f
  <2>2. /\ Pair(chan[n][p], chan[p][n], rsaKey[n], entry[p][n], e)
        /\ Pending(chan[n][p], chan[p][n], rsaKey[n], entry[p][n], f) =>
             Pending(chan[n][p], chan[p][n], rsaKey[n], entry[p][n], e)
        /\ Early(chan[n][p], entry[p][n], f) /\ e # Absent =>
             Early(chan[n][p], entry[p][n], e)
    BY <1>5, <2>1, PairSender, Zenon
  <2> QED
    BY <1>2, <1>3, <1>4, <2>2 DEF At, f, Steady
<1>7. At(p, n)'
  <2>1. Pair(chan[p][n], chan[n][p], rsaKey[p], f, entry[p][n])
    BY <1>4 DEF At, f
  <2>2. /\ Pair(chan[p][n], chan[n][p], rsaKey[p], e, entry[p][n])
        /\ Pending(chan[p][n], chan[n][p], rsaKey[p], f, entry[p][n]) =>
             Pending(chan[p][n], chan[n][p], rsaKey[p], e, entry[p][n])
        /\ Early(chan[p][n], f, entry[p][n]) /\ e # Absent =>
             Early(chan[p][n], e, entry[p][n])
    BY <1>5, <2>1, PairReceiver, Zenon
  <2> QED
    BY <1>2, <1>3, <1>4, <2>2 DEF At, f, Steady
<1> QED
  BY <1>1, <1>2, <1>6, <1>7, PairFrame DEF KeyInv

\* What writing a field of an entry makes of it.
LEMMA Fields ==
    ASSUME NEW e \in Neighbor, NEW v
    PROVE  /\ v \in BOOLEAN =>
                /\ [e EXCEPT !.waiting = v] \in Neighbor
                /\ [e EXCEPT !.waiting = v].waiting = v
                /\ [e EXCEPT !.waiting = v].send = e.send
                /\ [e EXCEPT !.waiting = v].rec = e.rec
                /\ [e EXCEPT !.waiting = v].pubKey = e.pubKey
           /\ v \in Nat =>
                /\ [e EXCEPT !.rec = v] \in Neighbor
                /\ [e EXCEPT !.rec = v].waiting = e.waiting
                /\ [e EXCEPT !.rec = v].send = e.send
                /\ [e EXCEPT !.rec = v].rec = v
                /\ [e EXCEPT !.rec = v].pubKey = e.pubKey
                /\ [e EXCEPT !.pubKey = v] \in Neighbor
                /\ [e EXCEPT !.pubKey = v].waiting = e.waiting
                /\ [e EXCEPT !.pubKey = v].send = e.send
                /\ [e EXCEPT !.pubKey = v].rec = e.rec
                /\ [e EXCEPT !.pubKey = v].pubKey = v
BY DEF Neighbor

-----------------------------------------------------------------------------
(* The actions                                                             *)

\* The call of sendToNeighbor.
LEMMA SendToNeighborStep ==
    ASSUME KeyInv, RetryInv, NEW n \in Node, NEW t \in Caller, NEW p \in Node,
           sendToNeighbor(n, t, p)
    PROVE  KeyInv' /\ RetryInv'
<1>1. caller' \in [Node -> [Caller -> CallerState]] /\ RetryInv'
  <2> DEFINE c == [pc |-> IF ~Known(n, p) THEN "idle"
                          ELSE IF entry[n][p].send # NoKey THEN "send" ELSE "loop",
                   to |-> p, retries |-> 0,
                   result |-> IF Known(n, p) THEN "none" ELSE "unknown"]
  <2>1. c \in CallerState /\ c.retries < MaxRetries
    BY UnicastAssumption DEF CallerState
  <2>2. caller' = [caller EXCEPT ![n][t] = c]
    BY DEF sendToNeighbor
  <2>3. caller \in [Node -> [Caller -> CallerState]]
    BY Types DEF KeyInv
  <2> HIDE DEF c
  <2>4. /\ caller' \in [Node -> [Caller -> CallerState]]
        /\ caller'[n][t] = c
        /\ \A a \in Node, u \in Caller : ~(a = n /\ u = t) => caller'[a][u] = caller[a][u]
    BY <2>1, <2>2, <2>3
  <2> QED
    BY <2>1, <2>4 DEF RetryInv
<1>2. UNCHANGED <<probed, rsaKey, chan, rx, fresh, leaves, boots>> /\ Steady
  BY SteadyStep DEF sendToNeighbor
<1>3. entry' \in Table(Entry) /\ PairInv' /\ SelfInv'
  <2>1. CASE Known(n, p) /\ entry[n][p].send = NoKey
    <3> DEFINE e == [entry[n][p] EXCEPT !.waiting = FALSE]
    <3>1. entry' = [entry EXCEPT ![n][p] = e]
      BY <2>1 DEF sendToNeighbor
    <3>2. entry[n][p] \in Neighbor
      BY <2>1, KnownType DEF KeyInv
    <3>3. /\ e \in Neighbor /\ e.send = entry[n][p].send
          /\ e.rec = entry[n][p].rec /\ e.pubKey = entry[n][p].pubKey
      BY <3>2, Fields
    <3> HIDE DEF e
    <3>4. e \in Entry /\ e # Absent
      BY <3>3, AbsentApart DEF Entry
    <3> QED
      BY <1>2, <2>1, <3>1, <3>3, <3>4, EntryStep
  <2>2. CASE ~(Known(n, p) /\ entry[n][p].send = NoKey)
    <3>1. UNCHANGED entry
      BY <2>2 DEF sendToNeighbor
    <3>2. PairInv' /\ SelfInv'
      BY <1>2, <3>1, SameStep
    <3> QED
      BY <3>1, <3>2, Types DEF KeyInv
  <2> QED
    BY <2>1, <2>2
<1> QED
  BY <1>1, <1>2, <1>3 DEF KeyInv, TypeOK, Table, Entry, CallerState

\* The loop of sendToNeighbor.
LEMMA AskStep ==
    ASSUME KeyInv, RetryInv, NEW n \in Node, NEW t \in Caller, Ask(n, t)
    PROVE  KeyInv' /\ RetryInv'
<1> DEFINE p == caller[n][t].to
<1>1. caller \in [Node -> [Caller -> CallerState]] /\ caller[n][t] \in CallerState
  BY Types DEF KeyInv
<1>2. p \in Node
  BY <1>1 DEF CallerState
<1>3. UNCHANGED <<probed, entry, rsaKey, rx, fresh, leaves, boots>> /\ Steady
  BY SteadyStep DEF Ask, bounds
<1>4. CASE \/ Become(n, t, "dead", "none") /\ UNCHANGED chan
           \/ Become(n, t, "send", "none") /\ UNCHANGED chan
  <2>1. caller' \in [Node -> [Caller -> CallerState]] /\ RetryInv'
    BY <1>4, BecomeType DEF KeyInv
  <2>2. PairInv' /\ SelfInv'
    BY <1>3, <1>4, SameStep
  <2> QED
    BY <1>3, <1>4, <2>1, <2>2 DEF KeyInv, TypeOK, CallerState
<1>5. CASE /\ Known(n, p) /\ ~entry[n][p].waiting
           /\ chan' = [chan EXCEPT ![n][p] =
                         Append(@, [type |-> "ruk", key |-> NoKey,
                                    pubKey |-> entry[n][p].pubKey])]
           /\ caller' = [caller EXCEPT ![n][t] =
                  [@ EXCEPT !.pc = "asked", !.retries = caller[n][t].retries + 1]]
  <2> DEFINE c == [pc |-> "asked", to |-> p, retries |-> caller[n][t].retries + 1,
                   result |-> caller[n][t].result]
             m == [type |-> "ruk", key |-> NoKey, pubKey |-> entry[n][p].pubKey]
  <2>1. caller[n][t].pc = "loop"
    BY DEF Ask
  <2>2. c \in CallerState /\ c.pc # "loop"
    <3>1. caller[n][t].retries < MaxRetries
      BY <2>1 DEF RetryInv
    <3>0. caller[n][t].retries \in 0 .. MaxRetries
      BY <1>1 DEF CallerState
    <3>2. caller[n][t].retries + 1 \in 0 .. MaxRetries
      BY <3>0, <3>1, UnicastAssumption
    <3> QED
      BY <1>1, <3>2 DEF CallerState
  <2>3. caller' = [caller EXCEPT ![n][t] = c]
    <3>1. [caller[n][t] EXCEPT !.pc = "asked", !.retries = caller[n][t].retries + 1] = c
      BY <1>1, CallerAsk, Zenon
    <3> QED
      BY <1>5, <3>1, Zenon
  <2>4. entry[n][p] \in Neighbor
    BY <1>2, <1>5, KnownType DEF KeyInv
  <2>5. m \in Message /\ m.type = "ruk"
    BY <2>4 DEF Neighbor, Message, NoKey
  <2>6. entry[n][p].send = NoKey
    BY <1>2, <1>5 DEF KeyInv, PairInv, At, Pair, Basic, Known
  <2> HIDE DEF c, m, p
  <2>7. /\ caller' \in [Node -> [Caller -> CallerState]]
        /\ caller'[n][t] = c
        /\ \A a \in Node, u \in Caller : ~(a = n /\ u = t) => caller'[a][u] = caller[a][u]
    BY <1>1, <2>2, <2>3
  <2>8. RetryInv'
    BY <2>2, <2>7 DEF RetryInv
  <2>9. chan' = [chan EXCEPT ![n][p] = Append(@, m)]
    BY <1>5 DEF m
  <2>10. chan' \in Table(Seq(Message)) /\ PairInv' /\ SelfInv'
    BY <1>2, <1>3, <1>5, <2>5, <2>6, <2>9, PutStep
  <2> QED
    BY <1>3, <2>7, <2>8, <2>10 DEF KeyInv, TypeOK, CallerState, Table
<1> QED
  BY <1>4, <1>5 DEF Ask

\* Half a second after a ruk.
LEMMA AskedStep ==
    ASSUME KeyInv, RetryInv, NEW n \in Node, NEW t \in Caller, Asked(n, t)
    PROVE  KeyInv' /\ RetryInv'
<1> DEFINE p == caller[n][t].to
<1>1. caller[n][t] \in CallerState
  BY Types DEF KeyInv
<1>2. p \in Node
  BY <1>1 DEF CallerState
<1>3. UNCHANGED <<probed, chan, rsaKey, rx, fresh, leaves, boots>> /\ Steady
  BY SteadyStep DEF Asked, bounds
<1>4. CASE \/ Become(n, t, "dead", "none") /\ UNCHANGED entry
           \/ /\ Become(n, t, "loop", "none") /\ UNCHANGED entry
              /\ caller[n][t].retries < MaxRetries
  <2>1. caller' \in [Node -> [Caller -> CallerState]] /\ RetryInv'
    BY <1>4, BecomeType DEF KeyInv
  <2>2. PairInv' /\ SelfInv'
    BY <1>3, <1>4, SameStep
  <2> QED
    BY <1>3, <1>4, <2>1, <2>2 DEF KeyInv, TypeOK, CallerState
<1>5. CASE /\ Known(n, p) /\ Become(n, t, "idle", "max retries")
           /\ entry' = [entry EXCEPT ![n][p].waiting = TRUE]
  <2> DEFINE e == [entry[n][p] EXCEPT !.waiting = TRUE]
  <2>1. caller' \in [Node -> [Caller -> CallerState]] /\ RetryInv'
    BY <1>5, BecomeType DEF KeyInv
  <2>2. entry' = [entry EXCEPT ![n][p] = e]
    BY <1>5
  <2>3. entry[n][p] \in Neighbor
    BY <1>2, <1>5, KnownType DEF KeyInv
  <2>4. /\ e \in Neighbor /\ e.send = entry[n][p].send /\ e.waiting
        /\ e.rec = entry[n][p].rec /\ e.pubKey = entry[n][p].pubKey
    BY <2>3, Fields
  <2> HIDE DEF e, p
  <2>6. e \in Entry /\ e # Absent
    BY <2>4, AbsentApart DEF Entry
  <2>5. entry' \in Table(Entry) /\ PairInv' /\ SelfInv'
    BY <1>2, <1>3, <1>5, <2>2, <2>4, <2>6, EntryStep
  <2> QED
    BY <1>3, <2>1, <2>5 DEF KeyInv, TypeOK, Table, Entry, CallerState
<1> QED
  BY <1>4, <1>5 DEF Asked

\* The data message itself.
LEMMA SendDataStep ==
    ASSUME KeyInv, RetryInv, NEW n \in Node, NEW t \in Caller, SendData(n, t)
    PROVE  KeyInv' /\ RetryInv'
<1> DEFINE p == caller[n][t].to
<1>1. caller[n][t] \in CallerState
  BY Types DEF KeyInv
<1>2. p \in Node
  BY <1>1 DEF CallerState
<1>3. UNCHANGED <<probed, entry, rsaKey, rx, fresh, leaves, boots>> /\ Steady
  BY SteadyStep DEF SendData, bounds
<1>4. CASE \/ Become(n, t, "idle", "success") /\ UNCHANGED chan
           \/ Become(n, t, "dead", "none") /\ UNCHANGED chan
  <2>1. caller' \in [Node -> [Caller -> CallerState]] /\ RetryInv'
    BY <1>4, BecomeType DEF KeyInv
  <2>2. PairInv' /\ SelfInv'
    BY <1>3, <1>4, SameStep
  <2> QED
    BY <1>3, <1>4, <2>1, <2>2 DEF KeyInv, TypeOK, CallerState
<1>5. CASE /\ Known(n, p) /\ entry[n][p].send # NoKey
           /\ chan' = [chan EXCEPT ![n][p] =
                         Append(@, [type |-> "data", key |-> entry[n][p].send,
                                    pubKey |-> 0])]
           /\ Become(n, t, "idle", "success")
  <2> DEFINE m == [type |-> "data", key |-> entry[n][p].send, pubKey |-> 0]
  <2>1. caller' \in [Node -> [Caller -> CallerState]] /\ RetryInv'
    BY <1>5, BecomeType DEF KeyInv
  <2>2. entry[n][p] \in Neighbor
    BY <1>2, <1>5, KnownType DEF KeyInv
  <2>3. m \in Message /\ m.type = "data" /\ m.key = entry[n][p].send
    BY <2>2 DEF Neighbor, Message
  <2> HIDE DEF m, p
  <2>4. chan' = [chan EXCEPT ![n][p] = Append(@, m)]
    BY <1>5 DEF m
  <2>5. chan' \in Table(Seq(Message)) /\ PairInv' /\ SelfInv'
    BY <1>2, <1>3, <1>5, <2>3, <2>4, PutStep
  <2> QED
    BY <1>3, <2>1, <2>5 DEF KeyInv, TypeOK, CallerState, Table
<1> QED
  BY <1>4, <1>5 DEF SendData

\* Messages that are dropped, lost or read without effect on the keys.
LEMMA DropStep ==
    ASSUME KeyInv, RetryInv, NEW n \in Node, NEW p \in Node,
           \/ DropUnknown(n, p) \/ RxWrongPair(n, p) \/ RxData(n, p) \/ Lose(n, p)
    PROVE  KeyInv' /\ RetryInv'
<1>1. /\ chan[n][p] # <<>>
      /\ chan' = [chan EXCEPT ![n][p] = Tail(@)]
      /\ UNCHANGED <<entry, rsaKey, probed, caller, fresh, leaves, boots>>
  BY DEF bounds, DropUnknown, RxWrongPair, RxData, Lose, Take
<1>2. rx' \in [Node -> {"alive", "dead"}]
  BY DEF KeyInv, TypeOK, DropUnknown, RxWrongPair, RxData, Lose
<1>3. chan' \in Table(Seq(Message)) /\ PairInv' /\ SelfInv'
  BY <1>1, TakeStep, SteadyStep
<1> QED
  BY <1>1, <1>2, <1>3 DEF KeyInv, TypeOK, Table, RetryInv

\* An entry goes.
LEMMA LeftStep ==
    ASSUME KeyInv, RetryInv, NEW n \in Node, NEW p \in Node, onAPLeft(n, p)
    PROVE  KeyInv' /\ RetryInv'
<1>2. Steady /\ ~Calm'
  BY DEF onAPLeft, KeyInv, SelfInv, Steady, Calm
<1>1. entry' \in Table(Entry) /\ PairInv' /\ SelfInv'
  BY <1>2, EntryStep DEF onAPLeft, Entry
<1> QED
  BY <1>1 DEF onAPLeft, KeyInv, TypeOK, Table, Entry, RetryInv

\* What writing the two fields of a nuk makes of an entry.
LEMMA NukFields ==
    ASSUME NEW e \in Neighbor, NEW k \in Nat, NEW d,
           d = [e EXCEPT !.send = k, !.waiting = TRUE]
    PROVE  d = [send |-> k, rec |-> e.rec, waiting |-> TRUE, pubKey |-> e.pubKey]
BY DEF Neighbor

\* The key is received.
LEMMA RxNukStep ==
    ASSUME KeyInv, RetryInv, NEW n \in Node, NEW p \in Node, RxNuk(n, p)
    PROVE  KeyInv' /\ RetryInv'
<1> DEFINE m == Head(chan[n][p])
           e == [send |-> m.key, rec |-> entry[p][n].rec, waiting |-> TRUE,
                 pubKey |-> entry[p][n].pubKey]
           s == Tail(chan[n][p])
<1>1. /\ chan[n][p] # <<>> /\ m.type = "nuk" /\ m.pubKey = rsaKey[p] /\ Known(p, n)
      /\ UNCHANGED <<probed, rsaKey, caller, rx, fresh, leaves, boots>>
      /\ Steady
  BY SteadyStep DEF RxNuk, Take, bounds
<1>2. n # p
  BY <1>1 DEF KeyInv, SelfInv
<1>3. chan[n][p] \in Seq(Message) /\ chan[p][n] \in Seq(Message) /\ entry[p][n] \in Neighbor
  BY <1>1, Types, KnownType DEF KeyInv
<1>4. m \in Message /\ s \in Seq(Message)
  BY <1>1, <1>3, SeqType
<1>5. m.key \in Nat
  BY <1>4 DEF Message
<1>6. [entry[p][n] EXCEPT !.send = m.key, !.waiting = TRUE] = e
  BY <1>3, <1>5, NukFields, Zenon
<1>7. entry' = [entry EXCEPT ![p][n] = e]
  BY <1>6, Zenon DEF RxNuk
<1>8. /\ e \in Neighbor /\ e.send = m.key /\ e.waiting = TRUE
      /\ e.rec = entry[p][n].rec /\ e.pubKey = entry[p][n].pubKey
  BY <1>3, <1>5 DEF Neighbor
<1>9. chan' = [chan EXCEPT ![n][p] = s]
  BY DEF RxNuk
<1> HIDE DEF e, s
<1>10. /\ chan' \in Table(Seq(Message)) /\ chan'[n][p] = s
       /\ \A a, b \in Node : ~(a = n /\ b = p) => chan'[a][b] = chan[a][b]
  <2>1. chan \in [Node -> [Node -> Seq(Message)]] /\ s \in Seq(Message)
    BY <1>4, Types DEF KeyInv, Table
  <2> QED
    BY <1>9, <2>1 DEF Table
<1>11. /\ entry' \in Table(Entry) /\ entry'[p][n] = e
       /\ \A a, b \in Node : ~(a = p /\ b = n) => entry'[a][b] = entry[a][b]
  <2>1. entry \in [Node -> [Node -> Entry]] /\ e \in Entry
    BY <1>8, Types DEF KeyInv, Entry, Table
  <2> QED
    BY <1>7, <2>1 DEF Table
<1>12. chan'[p][n] = chan[p][n] /\ entry'[n][p] = entry[n][p]
  BY <1>2, <1>10, <1>11
<1>13. At(n, p) /\ At(p, n)
  BY DEF KeyInv, PairInv
<1>14. At(n, p)'
  <2>1. /\ Pair(s, chan[p][n], rsaKey[n], entry[p][n], entry[n][p])
        /\ <<p, n>> \in probed => Pending(s, chan[p][n], rsaKey[n], entry[p][n], entry[n][p])
        /\ Calm => Early(s, entry[p][n], entry[n][p])
    BY <1>1, <1>2, <1>3, <1>13, PairTailS DEF At, s
  <2>2. /\ Pair(s, chan[p][n], rsaKey[n], e, entry[n][p])
        /\ <<p, n>> \in probed => Pending(s, chan[p][n], rsaKey[n], e, entry[n][p])
        /\ Calm => Early(s, e, entry[n][p])
    BY <1>1, <1>8, <2>1, AbsentApart, PairReceiver DEF Known
  <2> QED
    BY <1>1, <1>10, <1>11, <1>12, <2>2 DEF At, Steady
<1>15. At(p, n)'
  <2>1. ValidNuk(m, rsaKey[p])
    BY <1>1 DEF ValidNuk
  <2>2. /\ Pair(chan[p][n], s, rsaKey[p], entry[n][p], e)
        /\ <<n, p>> \in probed => Pending(chan[p][n], s, rsaKey[p], entry[n][p], e)
        /\ Calm => Early(chan[p][n], entry[n][p], e)
    BY <1>1, <1>2, <1>3, <1>8, <1>13, <2>1, AbsentApart, PairNuk DEF At, s
  <2> QED
    BY <1>1, <1>10, <1>11, <1>12, <2>2 DEF At, Steady
<1>16. PairInv' /\ SelfInv'
  BY <1>1, <1>2, <1>10, <1>11, <1>14, <1>15, PairFrame DEF KeyInv
<1> QED
  BY <1>1, <1>10, <1>11, <1>16 DEF KeyInv, TypeOK, Table, Entry, RetryInv

\* A ruk is answered.
LEMMA RxRukStep ==
    ASSUME KeyInv, RetryInv, NEW n \in Node, NEW p \in Node, RxRuk(n, p)
    PROVE  KeyInv' /\ RetryInv'
<1> DEFINE f == entry[p][n]
           k == IF f.rec # NoKey THEN f.rec ELSE fresh + 1
           e == IF f.rec # NoKey THEN f ELSE [f EXCEPT !.rec = fresh + 1]
           m == [type |-> "nuk", key |-> k, pubKey |-> f.pubKey]
           s == Tail(chan[n][p])
           r == Append(chan[p][n], m)
           taken == [chan EXCEPT ![n][p] = s]
<1>1. /\ chan[n][p] # <<>> /\ Head(chan[n][p]).type = "ruk" /\ Known(p, n)
      /\ UNCHANGED <<probed, rsaKey, caller, rx, leaves, boots>>
      /\ Steady
  BY SteadyStep DEF RxRuk, Take, bounds
<1>2. n # p
  BY <1>1 DEF KeyInv, SelfInv
<1>3. /\ chan[n][p] \in Seq(Message) /\ chan[p][n] \in Seq(Message)
      /\ f \in Neighbor /\ f # Absent /\ fresh \in Nat
  BY <1>1, Types, KnownType DEF KeyInv, TypeOK
<1>4. k \in Nat /\ k # NoKey /\ fresh' \in Nat
  BY <1>3 DEF Neighbor, NoKey, RxRuk
<1>5. /\ e \in Neighbor /\ e.rec = k /\ e.pubKey = f.pubKey /\ e.send = f.send
      /\ e.waiting = f.waiting
  <2>1. CASE f.rec # NoKey
    BY <1>3, <2>1
  <2>2. CASE f.rec = NoKey
    <3>1. e = [f EXCEPT !.rec = fresh + 1] /\ k = fresh + 1 /\ fresh + 1 \in Nat
      BY <1>3, <2>2
    <3> HIDE DEF f, e, k
    <3> QED
      BY <1>3, <3>1, Fields
  <2> QED
    BY <2>1, <2>2
<1>6. m \in Message /\ m.type = "nuk" /\ m.key = k /\ m.pubKey = f.pubKey
  BY <1>3, <1>4 DEF Message, Neighbor
<1>7. s \in Seq(Message) /\ r \in Seq(Message)
  BY <1>1, <1>3, <1>6, SeqType
<1>8. /\ taken \in Table(Seq(Message)) /\ taken[n][p] = s
      /\ \A a, b \in Node : ~(a = n /\ b = p) => taken[a][b] = chan[a][b]
  <2>1. chan \in [Node -> [Node -> Seq(Message)]]
    BY Types DEF KeyInv, Table
  <2> HIDE DEF s
  <2> QED
    BY <1>7, <2>1 DEF Table
<1>9. chan' = [taken EXCEPT ![p][n] = r]
  <2>1. taken[p][n] = chan[p][n]
    BY <1>2, <1>8
  <2>2. Answer(n, p, k)
    BY DEF RxRuk
  <2>3. chan' = [taken EXCEPT ![p][n] = Append(taken[p][n], m)]
    BY <2>2 DEF Answer
  <2> QED
    BY <2>1, <2>3
<1>10. entry' = [entry EXCEPT ![p][n] = e]
  <2>1. CASE f.rec # NoKey
    <3>1. entry' = entry /\ entry \in [Node -> [Node -> Entry]]
      BY <2>1, Types DEF RxRuk, KeyInv, Table
    <3> QED
      BY <2>1, <3>1
  <2>2. CASE f.rec = NoKey
    BY <2>2 DEF RxRuk
  <2> QED
    BY <2>1, <2>2
<1> HIDE DEF e, s, r, m, k, taken, f
<1>11. /\ chan' \in Table(Seq(Message)) /\ chan'[n][p] = s /\ chan'[p][n] = r
       /\ \A a, b \in Node : ~(a = n /\ b = p) /\ ~(a = p /\ b = n) =>
             chan'[a][b] = chan[a][b]
  BY <1>2, <1>7, <1>8, <1>9 DEF Table
<1>12. /\ entry' \in Table(Entry) /\ entry'[p][n] = e /\ entry'[n][p] = entry[n][p]
       /\ \A a, b \in Node : ~(a = p /\ b = n) => entry'[a][b] = entry[a][b]
  <2>1. entry \in [Node -> [Node -> Entry]] /\ e \in Entry
    BY <1>5, Types DEF KeyInv, Entry, Table
  <2>2. /\ entry' \in Table(Entry) /\ entry'[p][n] = e
        /\ \A a, b \in Node : ~(a = p /\ b = n) => entry'[a][b] = entry[a][b]
    BY <1>10, <2>1 DEF Table
  <2> QED
    BY <1>2, <2>2
<1>13. At(n, p) /\ At(p, n)
  BY DEF KeyInv, PairInv
<1>14. At(n, p)'
  <2>1. /\ Pair(chan[n][p], chan[p][n], rsaKey[n], f, entry[n][p])
        /\ <<p, n>> \in probed => Pending(chan[n][p], chan[p][n], rsaKey[n], f, entry[n][p])
        /\ Calm => Early(chan[n][p], f, entry[n][p])
    BY <1>2, <1>13 DEF At, f
  <2>2. /\ Pair(s, r, rsaKey[n], e, entry[n][p])
        /\ <<p, n>> \in probed => Pending(s, r, rsaKey[n], e, entry[n][p])
        /\ Calm => Early(s, e, entry[n][p])
    <3>1. CASE f.rec # NoKey
      <4>1. e = f /\ k = f.rec
        BY <3>1 DEF e, k
      <4>2. /\ Pair(s, chan[p][n], rsaKey[n], f, entry[n][p])
            /\ <<p, n>> \in probed => Pending(s, chan[p][n], rsaKey[n], f, entry[n][p])
            /\ Calm => Early(s, f, entry[n][p])
        BY <1>1, <1>3, <2>1, PairTailS DEF s
      <4> QED
        BY <1>3, <1>6, <3>1, <4>1, <4>2, PairAnswerOld DEF r
    <3>2. CASE f.rec = NoKey
      BY <1>1, <1>3, <1>4, <1>5, <1>6, <2>1, <3>2, AbsentApart, PairAnswerNew DEF s, r
    <3> QED
      BY <3>1, <3>2
  <2> QED
    BY <1>1, <1>11, <1>12, <2>2 DEF At, Steady
<1>15. At(p, n)'
  <2>1. /\ Pair(chan[p][n], chan[n][p], rsaKey[p], entry[n][p], f)
        /\ <<n, p>> \in probed => Pending(chan[p][n], chan[n][p], rsaKey[p], entry[n][p], f)
        /\ Calm => Early(chan[p][n], entry[n][p], f)
    BY <1>2, <1>13 DEF At, f
  <2>2. /\ Pair(chan[p][n], s, rsaKey[p], entry[n][p], f)
        /\ <<n, p>> \in probed => Pending(chan[p][n], s, rsaKey[p], entry[n][p], f)
        /\ Calm => Early(chan[p][n], entry[n][p], f)
    BY <1>1, <1>3, <2>1, PairTailR DEF s
  <2>3. /\ Pair(r, s, rsaKey[p], entry[n][p], f)
        /\ <<n, p>> \in probed => Pending(r, s, rsaKey[p], entry[n][p], f)
        /\ Calm => Early(r, entry[n][p], f)
    BY <1>3, <1>6, <2>2, PairSend DEF r
  <2>4. f.send # NoKey => f.waiting
    BY <1>3, <2>1 DEF Pair, Basic
  <2>5. /\ Pair(r, s, rsaKey[p], entry[n][p], e)
        /\ <<n, p>> \in probed => Pending(r, s, rsaKey[p], entry[n][p], e)
        /\ Calm => Early(r, entry[n][p], e)
    BY <1>3, <1>5, <2>3, <2>4, AbsentApart, PairSender
  <2> QED
    BY <1>1, <1>11, <1>12, <2>5 DEF At, Steady
<1>16. PairInv' /\ SelfInv'
  BY <1>1, <1>2, <1>11, <1>12, <1>14, <1>15, PairFrame DEF KeyInv
<1> QED
  BY <1>1, <1>4, <1>11, <1>12, <1>16 DEF KeyInv, TypeOK, Table, Entry, RetryInv

\* The probe request of a restarted neighbour is handled.
LEMMA ProbeStep ==
    ASSUME KeyInv, RetryInv, NEW p \in Node, NEW n \in Node,
           handle_incoming_probe_requests(p, n)
    PROVE  KeyInv' /\ RetryInv'
<1> DEFINE f == entry[p][n]
           e == IF Known(p, n) THEN [f EXCEPT !.pubKey = rsaKey[n]] ELSE NewNeighbor(n)
<1>1. /\ <<p, n>> \in probed /\ probed' = probed \ {<<p, n>>}
      /\ UNCHANGED <<rsaKey, caller, chan, rx, fresh, leaves, boots>>
      /\ Steady /\ ~Calm /\ ~Calm'
  BY SteadyStep DEF handle_incoming_probe_requests, bounds, KeyInv, SelfInv, Calm
<1>2. n # p
  BY <1>1 DEF KeyInv, SelfInv
<1>3. f \in Entry /\ rsaKey[n] \in Nat
  BY Types DEF KeyInv, TypeOK
<1>4. /\ e \in Neighbor /\ e.pubKey = rsaKey[n]
      /\ IF f # Absent THEN e.rec = f.rec ELSE e.rec = NoKey
      /\ e.send = NoKey \/ (f # Absent /\ e.send = f.send /\ e.waiting = f.waiting)
  <2>1. CASE Known(p, n)
    <3>1. f \in Neighbor /\ f # Absent
      BY <2>1, KnownType DEF KeyInv
    <3>2. e = [f EXCEPT !.pubKey = rsaKey[n]]
      BY <2>1
    <3> HIDE DEF e, f
    <3> QED
      BY <1>3, <3>1, <3>2, Fields
  <2>2. CASE ~Known(p, n)
    <3>1. f = Absent /\ e = NewNeighbor(n) /\ NewNeighbor(n) \in Neighbor
      BY <2>2, NewNeighborType DEF Known, KeyInv
    <3> HIDE DEF e, f
    <3> QED
      BY <3>1 DEF NewNeighbor
  <2> QED
    BY <2>1, <2>2
<1>5. entry' = [entry EXCEPT ![p][n] = e]
  BY DEF handle_incoming_probe_requests
<1> HIDE DEF e, f
<1>6. /\ entry' \in Table(Entry) /\ entry'[p][n] = e /\ entry'[n][p] = entry[n][p]
      /\ \A a, b \in Node : ~(a = p /\ b = n) => entry'[a][b] = entry[a][b]
  <2>1. entry \in [Node -> [Node -> Entry]] /\ e \in Entry
    BY <1>4, Types DEF KeyInv, Entry, Table
  <2>2. /\ entry' \in Table(Entry) /\ entry'[p][n] = e
        /\ \A a, b \in Node : ~(a = p /\ b = n) => entry'[a][b] = entry[a][b]
    BY <1>5, <2>1 DEF Table
  <2> QED
    BY <1>2, <2>2
<1>7. At(n, p) /\ At(p, n)
  BY DEF KeyInv, PairInv
<1>8. At(n, p)'
  <2>1. /\ Pair(chan[n][p], chan[p][n], rsaKey[n], f, entry[n][p])
        /\ Pending(chan[n][p], chan[p][n], rsaKey[n], f, entry[n][p])
    BY <1>1, <1>7 DEF At, f
  <2>2. Pair(chan[n][p], chan[p][n], rsaKey[n], e, entry[n][p])
    BY <1>3, <1>4, <2>1, PairProbe
  <2>3. <<p, n>> \notin probed'
    BY <1>1
  <2> QED
    BY <1>1, <1>6, <2>2, <2>3 DEF At
<1>9. At(p, n)'
  <2>1. /\ Pair(chan[p][n], chan[n][p], rsaKey[p], entry[n][p], f)
        /\ <<n, p>> \in probed => Pending(chan[p][n], chan[n][p], rsaKey[p], entry[n][p], f)
    BY <1>7 DEF At, f
  <2>2. f # Absent /\ f.send # NoKey => f.waiting
    BY <2>1 DEF Pair, Basic
  <2>3. e.send = NoKey \/ (f # Absent /\ e.send = f.send /\ e.waiting)
    BY <1>4, <2>2
  <2>4. /\ Pair(chan[p][n], chan[n][p], rsaKey[p], entry[n][p], e)
        /\ <<n, p>> \in probed => Pending(chan[p][n], chan[n][p], rsaKey[p], entry[n][p], e)
    BY <2>1, <2>3, PairSender
  <2>5. <<n, p>> \in probed' => <<n, p>> \in probed
    BY <1>1
  <2> QED
    BY <1>1, <1>6, <2>4, <2>5 DEF At
<1>10. PairInv' /\ SelfInv'
  <2>1. ASSUME NEW a \in Node, NEW b \in Node, ~(a = n /\ b = p), ~(a = p /\ b = n)
        PROVE  /\ chan'[a][b] = chan[a][b] /\ entry'[a][b] = entry[a][b]
               /\ <<a, b>> \in probed' <=> <<a, b>> \in probed
    BY <1>1, <1>6, <2>1
  <2>2. probed' \subseteq probed
    BY <1>1
  <2> QED
    BY <1>1, <1>2, <1>8, <1>9, <2>1, <2>2, PairFrame DEF KeyInv
<1> QED
  BY <1>1, <1>6, <1>10 DEF KeyInv, TypeOK, Table, Entry, RetryInv

\* An agent restarts: nothing is on its way to or from it, and no public key
\* others have of it is the new one.
LEMMA RestartStep ==
    ASSUME KeyInv, RetryInv, NEW n \in Node, Restart(n)
    PROVE  KeyInv' /\ RetryInv'
<1>1. Steady /\ ~Calm'
  BY DEF Restart, KeyInv, SelfInv, Steady, Calm
<1>2. caller' \in [Node -> [Caller -> CallerState]] /\ RetryInv'
  <2>1. [t \in Caller |-> Idle] \in [Caller -> CallerState] /\ Idle.pc # "loop"
    BY IdleType DEF Idle
  <2>2. caller \in [Node -> [Caller -> CallerState]]
    BY Types DEF KeyInv
  <2>3. caller' = [caller EXCEPT ![n] = [t \in Caller |-> Idle]]
    BY DEF Restart
  <2>4. caller' \in [Node -> [Caller -> CallerState]]
    BY <2>1, <2>2, <2>3
  <2>5. \A a \in Node, t \in Caller : caller'[a][t] = IF a = n THEN Idle ELSE caller[a][t]
    BY <2>2, <2>3
  <2> QED
    BY <2>1, <2>4, <2>5 DEF RetryInv
<1>3. /\ chan' \in Table(Seq(Message))
      /\ \A a, b \in Node : chan'[a][b] = IF n \in {a, b} THEN <<>> ELSE chan[a][b]
  <2>1. \A a, b \in Node : (IF n \in {b, a} THEN <<>> ELSE chan[a][b]) \in Seq(Message)
    BY Types DEF KeyInv
  <2> QED
    BY <2>1 DEF Restart, Table
<1>4. /\ entry' \in Table(Entry)
      /\ \A a, b \in Node : entry'[a][b] =
            IF a = n THEN IF b = n THEN Absent ELSE NewNeighbor(b) ELSE entry[a][b]
  <2>1. \A b \in Node : (IF b = n THEN Absent ELSE NewNeighbor(b)) \in Entry
    BY NewNeighborType DEF Entry, KeyInv
  <2>2. entry \in [Node -> [Node -> Entry]]
    BY Types DEF KeyInv, Table
  <2>3. entry' = [entry EXCEPT ![n] =
                    [p \in Node |-> IF p = n THEN Absent ELSE NewNeighbor(p)]]
    BY DEF Restart
  <2> QED
    BY <2>1, <2>2, <2>3 DEF Table
<1>5. /\ rsaKey' \in [Node -> Nat] /\ rsaKey'[n] = rsaKey[n] + 1
      /\ \A a \in Node : a # n => rsaKey'[a] = rsaKey[a]
  <2>1. rsaKey \in [Node -> Nat] /\ rsaKey' = [rsaKey EXCEPT ![n] = @ + 1]
    BY DEF Restart, KeyInv, TypeOK
  <2> QED
    BY <2>1
<1>6. rx' \in [Node -> {"alive", "dead"}] /\ fresh' \in Nat
  BY DEF Restart, KeyInv, TypeOK
<1>7. /\ probed' \subseteq Node \X Node
      /\ \A a, b \in Node : <<a, b>> \in probed' =>
            (b = n /\ a # n) \/ (a # n /\ b # n /\ <<a, b>> \in probed)
  <2>1. probed' = (probed \ ({n} \X Node)) \cup ((Node \ {n}) \X {n})
    BY DEF Restart
  <2>2. probed \subseteq Node \X Node
    BY DEF KeyInv, TypeOK
  <2>3. \A a, b \in Node : <<a, b>> \in probed' => a # n
    BY <2>1
  <2> QED
    BY <2>1, <2>2, <2>3
<1>8. ASSUME NEW a \in Node, NEW b \in Node
      PROVE  At(a, b)'
  <2>0. At(a, b)
    BY DEF KeyInv, PairInv
  <2>1. CASE a = n /\ b = n
    <3>1. chan'[a][b] = <<>> /\ entry'[a][b] = Absent /\ <<b, a>> \notin probed'
      BY <1>3, <1>4, <1>7, <2>1
    <3> QED
      BY <1>1, <2>1, <3>1 DEF At, Pair, Basic
  <2>2. CASE a = n /\ b # n
    <3> DEFINE e == entry[b][a]
               k == rsaKey[a]
               f == NewNeighbor(b)
    <3>1. /\ chan'[a][b] = <<>> /\ chan'[b][a] = <<>>
          /\ entry'[b][a] = e /\ entry'[a][b] = f /\ rsaKey'[a] = k + 1
      BY <1>3, <1>4, <1>5, <2>2
    <3>2. f.send = NoKey
      BY DEF NewNeighbor
    <3>3. e # Absent => e.pubKey <= k /\ e.pubKey \in Nat
      BY <2>0, Types DEF At, Pair, Basic, KeyInv, Entry, Neighbor
    <3>4. k \in Nat
      BY DEF KeyInv, TypeOK
    <3> HIDE DEF e, k, f
    <3>5. e # Absent => e.pubKey <= k + 1 /\ e.pubKey # k + 1
      BY <3>3, <3>4
    <3>6. Pair(<<>>, <<>>, k + 1, e, f) /\ Pending(<<>>, <<>>, k + 1, e, f)
      BY <3>2, <3>5 DEF Pair, Basic, Agreed, Undrawn, Pending, NoSendKey
    <3> QED
      BY <1>1, <3>1, <3>6 DEF At
  <2>3. CASE a # n /\ b = n
    <3> DEFINE f == entry[a][b]
               e == NewNeighbor(a)
               k == rsaKey[a]
    <3>1. /\ chan'[a][b] = <<>> /\ chan'[b][a] = <<>>
          /\ entry'[b][a] = e /\ entry'[a][b] = f /\ rsaKey'[a] = k
          /\ <<b, a>> \notin probed'
      BY <1>3, <1>4, <1>5, <1>7, <2>3
    <3>2. e.rec = NoKey /\ e.pubKey = k
      BY DEF NewNeighbor
    <3>3. f # Absent /\ f.send # NoKey => f.waiting
      BY <2>0 DEF At, Pair, Basic
    <3>4. k \in Nat
      BY DEF KeyInv, TypeOK
    <3> HIDE DEF e, k, f
    <3>5. Pair(<<>>, <<>>, k, e, f)
      BY <3>2, <3>3, <3>4 DEF Pair, Basic, Undrawn
    <3> QED
      BY <1>1, <3>1, <3>5 DEF At
  <2>4. CASE a # n /\ b # n
    <3>1. /\ chan'[a][b] = chan[a][b] /\ chan'[b][a] = chan[b][a]
          /\ entry'[a][b] = entry[a][b] /\ entry'[b][a] = entry[b][a]
          /\ rsaKey'[a] = rsaKey[a]
          /\ <<b, a>> \in probed' => <<b, a>> \in probed
      BY <1>3, <1>4, <1>5, <1>7, <2>4
    <3> QED
      BY <1>1, <2>0, <3>1 DEF At
  <2> QED
    BY <2>1, <2>2, <2>3, <2>4
<1>9. SelfInv'
  <2>1. leaves' \in Nat /\ boots' \in Nat
    BY <1>1 DEF Steady
  <2>2. ASSUME NEW a \in Node
        PROVE  entry'[a][a] = Absent /\ chan'[a][a] = <<>> /\ <<a, a>> \notin probed'
    <3>1. entry[a][a] = Absent /\ chan[a][a] = <<>> /\ <<a, a>> \notin probed
      BY DEF KeyInv, SelfInv
    <3> QED
      BY <1>3, <1>4, <1>7, <3>1
  <2> QED
    BY <1>1, <2>1, <2>2 DEF SelfInv
<1>10. TypeOK'
  BY <1>2, <1>3, <1>4, <1>5, <1>6, <1>7 DEF TypeOK, Table, Entry, CallerState
<1> QED
  BY <1>2, <1>8, <1>9, <1>10 DEF KeyInv, PairInv

-----------------------------------------------------------------------------
(* The theorems                                                            *)

\* No key is given out at the start.
LEMMA KeyInit ==
    ASSUME Init
    PROVE  KeyInv /\ RetryInv
<1>1. rsaKey \in [Node -> Nat] /\ fresh \in Nat /\ rx \in [Node -> {"alive", "dead"}]
  BY DEF Init
<1>2. \A p \in Node : NewNeighbor(p) \in Neighbor
  BY <1>1 DEF NewNeighbor, Neighbor, NoKey
<1>3. /\ entry \in Table(Entry)
      /\ \A n, p \in Node : entry[n][p] = IF p = n THEN Absent ELSE NewNeighbor(p)
  BY <1>2 DEF Init, Table, Entry
<1>4. chan \in Table(Seq(Message)) /\ \A n, p \in Node : chan[n][p] = <<>>
  BY DEF Init, Table
<1>5. caller \in [Node -> [Caller -> CallerState]] /\ RetryInv
  <2>1. caller = [n \in Node |-> [t \in Caller |-> Idle]]
    BY DEF Init
  <2>2. Node # {} => Idle \in CallerState
    BY IdleType
  <2>3. Idle.pc # "loop"
    BY DEF Idle
  <2> QED
    BY <2>1, <2>2, <2>3 DEF RetryInv
<1>6. probed = {}
  BY DEF Init
<1>7. TypeOK
  BY <1>1, <1>3, <1>4, <1>5, <1>6 DEF TypeOK, Table, Entry, CallerState
<1>8. SelfInv
  BY <1>3, <1>4, <1>6 DEF Init, SelfInv
<1>9. ASSUME NEW n \in Node, NEW p \in Node
      PROVE  At(n, p)
  <2> DEFINE e == entry[p][n]
             f == entry[n][p]
             k == rsaKey[n]
  <2>1. chan[n][p] = <<>> /\ chan[p][n] = <<>> /\ <<p, n>> \notin probed
    BY <1>4, <1>6
  <2>6. \A q \in Node : /\ NewNeighbor(q).rec = NoKey /\ NewNeighbor(q).send = NoKey
                         /\ NewNeighbor(q).pubKey = rsaKey[q]
    BY DEF NewNeighbor
  <2>7. e \in {Absent, NewNeighbor(n)} /\ f \in {Absent, NewNeighbor(p)}
    BY <1>3
  <2>2. k \in Nat /\ (e # Absent => e.rec = NoKey /\ e.pubKey = k)
    <3>1. k \in Nat
      BY <1>1
    <3> HIDE DEF e
    <3> QED
      BY <2>6, <2>7, <3>1
  <2>3. f # Absent => f.send = NoKey
    <3> HIDE DEF f
    <3> QED
      BY <2>6, <2>7
  <2>4. n # p => e # Absent /\ f # Absent
    BY <1>2, <1>3, AbsentApart
  <2> HIDE DEF e, f, k
  <2>5. Pair(<<>>, <<>>, k, e, f) /\ (n # p => Early(<<>>, e, f))
    BY <2>2, <2>3, <2>4 DEF Pair, Basic, Undrawn, Early
  <2> QED
    BY <2>1, <2>5 DEF At, e, f, k
<1> QED
  BY <1>5, <1>7, <1>8, <1>9 DEF KeyInv, PairInv

\* Every step keeps the invariant.
LEMMA KeyNext ==
    ASSUME KeyInv, RetryInv, [Next]_vars
    PROVE  KeyInv' /\ RetryInv'
<1>1. ASSUME NEW n \in Node, NEW t \in Caller, NEW p \in Node, sendToNeighbor(n, t, p)
      PROVE  KeyInv' /\ RetryInv'
  BY <1>1, SendToNeighborStep
<1>2. ASSUME NEW n \in Node, NEW t \in Caller, Calling(n, t)
      PROVE  KeyInv' /\ RetryInv'
  BY <1>2, AskStep, AskedStep, SendDataStep DEF Calling
<1>3. ASSUME NEW p \in Node, Receive(p)
      PROVE  KeyInv' /\ RetryInv'
  BY <1>3, DropStep, RxRukStep, RxNukStep DEF Receive
<1>4. ASSUME NEW n \in Node, NEW p \in Node,
             Lose(n, p) \/ onAPLeft(n, p) \/ handle_incoming_probe_requests(n, p)
      PROVE  KeyInv' /\ RetryInv'
  BY <1>4, DropStep, LeftStep, ProbeStep
<1>5. ASSUME NEW n \in Node, Restart(n)
      PROVE  KeyInv' /\ RetryInv'
  BY <1>5, RestartStep
<1>6. CASE UNCHANGED vars
  <2>1. UNCHANGED <<entry, rsaKey, caller, chan, probed, rx, fresh, leaves, boots>>
    BY <1>6 DEF vars
  <2>2. PairInv' /\ SelfInv'
    BY <2>1, SameStep
  <2> QED
    BY <2>1, <2>2 DEF KeyInv, TypeOK, RetryInv
<1> QED
  BY <1>1, <1>2, <1>3, <1>4, <1>5, <1>6 DEF Next

\* The invariant holds throughout.
LEMMA KeyInvariant == Spec => [](KeyInv /\ RetryInv)
BY KeyInit, KeyNext, PTL DEF Spec

\* Each variable holds values of the kind the agent gives it; no thread counts
\* more retries than max_retries.
THEOREM UnicastTypeCorrect == Spec => []TypeOK
<1>1. KeyInv => TypeOK
  BY DEF KeyInv
<1> QED
  BY <1>1, KeyInvariant, PTL

\* No data is decrypted with another key than the one it was encrypted with,
\* whatever is lost, repeated, answered late, removed or restarted: the
\* receive thread never ends in rxCbInternal because of a session key.
THEOREM UnicastNoGarbage == Spec => []NoGarbage
<1>1. KeyInv => NoGarbage
  <2>1. SUFFICES ASSUME KeyInv, NEW n \in Node, NEW p \in Node, chan[n][p] # <<>>,
                        Head(chan[n][p]).type = "data", Known(p, n)
                 PROVE  entry[p][n].rec \in {NoKey, Head(chan[n][p]).key}
    BY DEF NoGarbage
  <2>2. chan[n][p] \in Seq(Message)
    BY <2>1, Types DEF KeyInv
  <2>3. 1 \in DOMAIN chan[n][p] /\ chan[n][p][1] = Head(chan[n][p])
    <3> DEFINE s == chan[n][p]
    <3>1. s \in Seq(Message) /\ s # <<>>
      BY <2>1, <2>2
    <3> HIDE DEF s
    <3>2. 1 \in DOMAIN s /\ s[1] = Head(s)
      BY <3>1
    <3> QED
      BY <3>2 DEF s
  <2>4. At(n, p)
    BY <2>1 DEF KeyInv, PairInv
  <2>5. entry[p][n].rec # NoKey => Agreed(chan[n][p], chan[p][n], rsaKey[n], entry[p][n], entry[n][p])
    BY <2>1, <2>4 DEF At, Pair, Known
  <2> QED
    BY <2>1, <2>3, <2>5 DEF Agreed
<1> QED
  BY <1>1, KeyInvariant, PTL

\* As long as no entry goes and no agent restarts, data on its way finds its
\* key at the receiver, however many ruk and nuk were lost, repeated or late.
THEOREM UnicastKeyIsThere == Spec => []KeyIsThere
<1>1. KeyInv => KeyIsThere
  <2>1. SUFFICES ASSUME KeyInv, Calm, NEW n \in Node, NEW p \in Node,
                        NEW i \in DOMAIN chan[n][p], chan[n][p][i].type = "data"
                 PROVE  entry[p][n].rec = chan[n][p][i].key
    BY DEF KeyIsThere, Calm
  <2>2. n # p
    <3>1. SUFFICES ASSUME n = p PROVE FALSE
      OBVIOUS
    <3>2. chan[n][p] = <<>>
      BY <2>1, <3>1 DEF KeyInv, SelfInv
    <3> QED
      BY <2>1, <3>2
  <2>3. At(n, p)
    BY <2>1 DEF KeyInv, PairInv
  <2>4. Early(chan[n][p], entry[p][n], entry[n][p])
    BY <2>1, <2>2, <2>3 DEF At
  <2>5. entry[p][n] # Absent /\ entry[p][n].rec # NoKey
    BY <2>1, <2>4 DEF Early
  <2> QED
    BY <2>1, <2>3, <2>5 DEF At, Pair, Agreed
<1> QED
  BY <1>1, KeyInvariant, PTL
=============================================================================
