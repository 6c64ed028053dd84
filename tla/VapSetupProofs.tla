--------------------------- MODULE VapSetupProofs ---------------------------
(***************************************************************************)
(* Proofs about VapSetup: the type invariant, the wiring of the P4 switch  *)
(* while no thread is switched inside a generate call, the ends of the     *)
(* tunnels, and the setups that have come to rest.                         *)
(***************************************************************************)
EXTENDS VapSetup, SequenceTheorems, WellFoundedInduction, TLAPS

-----------------------------------------------------------------------------
(* Lists of VAPs                                                           *)

\* A set of natural numbers has a least element.
LEMMA LeastNumber ==
    ASSUME NEW S \in SUBSET Nat, S # {}
    PROVE  \E a \in S : \A o \in S : a <= o
<1>1. PICK a \in S : \A o \in S : <<o, a>> \notin OpToRel(<, Nat)
  BY NatLessThanWellFounded, WFMin, Zenon
<1>2. \A o \in S : ~(o < a)
  BY <1>1 DEF OpToRel
<1> QED
  BY <1>2

\* The lookup finds an entry of the neighbour when there is one.
LEMMA FirstFound ==
    ASSUME NEW vaps \in Seq(Vap), NEW p, Places(vaps, p) # {}
    PROVE  First(vaps, p) \in DOMAIN vaps /\ vaps[First(vaps, p)].neighbor = p
<1>1. Places(vaps, p) \in SUBSET Nat
  BY DEF Places
<1>2. \E i \in Places(vaps, p) : \A j \in Places(vaps, p) : i <= j
  BY <1>1, LeastNumber
<1>3. First(vaps, p) \in Places(vaps, p)
  BY <1>2 DEF First
<1> QED
  BY <1>3 DEF Places

\* An entry that is changed stays in the list.
LEMMA ListChanged ==
    ASSUME NEW A, NEW s \in Seq(A), NEW i \in DOMAIN s, NEW e \in A
    PROVE  /\ [s EXCEPT ![i] = e] \in Seq(A)
           /\ DOMAIN [s EXCEPT ![i] = e] = DOMAIN s
           /\ \A j \in DOMAIN s : [s EXCEPT ![i] = e][j] = IF j = i THEN e ELSE s[j]
  OBVIOUS

\* A list that is as long as another one.
LEMMA ListMapped ==
    ASSUME NEW A, NEW B, NEW s \in Seq(A), NEW r, r = [i \in DOMAIN s |-> r[i]],
           \A i \in DOMAIN s : r[i] \in B
    PROVE  r \in Seq(B) /\ DOMAIN r = DOMAIN s
<1>1. DOMAIN s = 1..Len(s) /\ Len(s) \in Nat
  OBVIOUS
<1>2. r \in [1..Len(s) -> B]
  BY <1>1
<1> QED
  BY <1>1, <1>2

\* What a list is after an entry is appended.
LEMMA ListAppended ==
    ASSUME NEW A, NEW s \in Seq(A), NEW e \in A
    PROVE  /\ DOMAIN Append(s, e) = 1..(Len(s) + 1) /\ Len(s) \in Nat
           /\ DOMAIN s = 1..Len(s)
           /\ \A i \in 1..Len(s) : Append(s, e)[i] = s[i]
           /\ Append(s, e)[Len(s) + 1] = e
  OBVIOUS

\* What is left when an entry is removed.
LEMMA WithoutEntry ==
    ASSUME NEW A, NEW s \in Seq(A), NEW i \in DOMAIN s
    PROVE  /\ Without(s, i) \in Seq(A)
           /\ DOMAIN Without(s, i) = 1..(Len(s) - 1)
           /\ \A j \in 1..(Len(s) - 1) :
                 Without(s, i)[j] = IF j < i THEN s[j] ELSE s[j + 1]
<1>1. DOMAIN s = 1..Len(s) /\ Len(s) \in Nat
  OBVIOUS
<1> DEFINE a == SubSeq(s, 1, i - 1)
           b == SubSeq(s, i + 1, Len(s))
<1>2. a \in Seq(A) /\ Len(a) = i - 1 /\ \A j \in 1..(i - 1) : a[j] = s[j]
  BY <1>1
<1>3. b \in Seq(A) /\ Len(b) = Len(s) - i /\ \A j \in 1..(Len(s) - i) : b[j] = s[i + j]
  BY <1>1
<1>4. Without(s, i) = a \o b
  BY DEF Without
<1> HIDE DEF a, b
<1>5. /\ a \o b \in Seq(A)
      /\ Len(a \o b) = Len(a) + Len(b)
      /\ \A j \in 1 .. Len(a) + Len(b) : (a \o b)[j] =
                  IF j <= Len(a) THEN a[j] ELSE b[j - Len(a)]
  BY <1>2, <1>3, ConcatProperties, Zenon
<1>6. a \o b \in Seq(A) /\ Len(a \o b) = Len(s) - 1
  BY <1>1, <1>2, <1>3, <1>5
<1>7. ASSUME NEW j \in 1..(Len(s) - 1) PROVE (a \o b)[j] = IF j < i THEN s[j] ELSE s[j + 1]
  <2>1. CASE j < i
    BY <1>1, <1>2, <1>3, <2>1, <1>5
  <2>2. CASE ~(j < i)
    <3>1. (a \o b)[j] = b[j - (i - 1)]
      BY <1>1, <1>2, <1>3, <2>2, <1>5, SMTT(30)
    <3>2. j - (i - 1) \in 1..(Len(s) - i) /\ i + (j - (i - 1)) = j + 1
      BY <1>1, <2>2
    <3> QED
      BY <1>3, <2>2, <3>1, <3>2
  <2> QED
    BY <2>1, <2>2
<1>8. DOMAIN (a \o b) = 1..(Len(s) - 1)
  BY <1>6
<1> QED
  BY <1>4, <1>6, <1>7, <1>8

-----------------------------------------------------------------------------
(* Types                                                                   *)

\* Everywhere a thread may be, and the jobs there.
Everywhere == UNION {Place(t) : t \in Thread}
AnyJob == [pc : Everywhere, with : Node, id : Nat, read : Nat]

\* The type invariant with the domain of job, which TypeOK leaves open.
TypeInv == TypeOK /\ job \in [Node -> [Thread -> AnyJob]]

\* The places of each thread.
LEMMA Places3 ==
    /\ Place("run") = {"initialize", "enter", "request", "create", "admit", "answer",
                       "terminate", "complete", "connect", "sleep", "loop", "control"}
    /\ Place("rx") = {"initialize", "enter", "request", "create", "admit", "answer",
                      "terminate", "complete", "connect", "idle", "queueRequest",
                      "queueCompleted"}
    /\ Place("probe") = {"initialize", "enter", "request", "create", "admit", "answer",
                         "terminate", "complete", "connect", "idle"}
  BY DEF Place

\* The operations of the VapManager are done by any thread, which then goes home.
LEMMA SharedPlaces ==
    ASSUME NEW t \in Thread
    PROVE  /\ Place(t) \subseteq Everywhere
           /\ {"initialize", "enter", "request", "create", "admit", "answer",
               "terminate", "complete", "connect"} \subseteq Place(t)
           /\ Home(t) \in Place(t)
<1>1. t \in {"run", "rx", "probe"}
  BY DEF Thread
<1>2. Place(t) \subseteq Everywhere
  BY DEF Everywhere
<1>3. {"initialize", "enter", "request", "create", "admit", "answer",
               "terminate", "complete", "connect"} \subseteq Place(t)
  BY DEF Place
<1>4. Home(t) \in Place(t)
  BY <1>1, Places3 DEF Home
<1> QED
  BY <1>2, <1>3, <1>4

\* What a thread does next is a job of that thread; the others go on.
LEMMA BecomeJob ==
    ASSUME TypeInv, NEW n \in Node, NEW t \in Thread, NEW pc \in Place(t),
           NEW p \in Node, NEW id \in Nat, Become(n, t, pc, p, id)
    PROVE  /\ job' \in [Node -> [Thread -> AnyJob]]
           /\ \A m \in Node, u \in Thread :
                 /\ job'[m][u] = IF m = n /\ u = t THEN Job(pc, p, id) ELSE job[m][u]
                 /\ job'[m][u] \in [pc : Place(u), with : Node, id : Nat, read : Nat]
<1>1. job \in [Node -> [Thread -> AnyJob]]
  BY DEF TypeInv
<1>2. pc \in Everywhere
  BY SharedPlaces
<1>3. Job(pc, p, id) \in AnyJob
        /\ Job(pc, p, id) \in [pc : Place(t), with : Node, id : Nat, read : Nat]
  BY <1>2 DEF Job, AnyJob, None
<1> DEFINE j == Job(pc, p, id)
<1>4. job' = [job EXCEPT ![n][t] = j]
  BY DEF Become
<1> HIDE DEF j
<1>5. j \in AnyJob
  BY <1>3 DEF j
<1>6. job' \in [Node -> [Thread -> AnyJob]]
  BY <1>1, <1>4, <1>5
<1>7. \A m \in Node, u \in Thread : job'[m][u] = IF m = n /\ u = t THEN j ELSE job[m][u]
  BY <1>1, <1>4
<1>8. \A m \in Node, u \in Thread :
         job[m][u] \in [pc : Place(u), with : Node, id : Nat, read : Nat]
  BY DEF TypeInv, TypeOK
<1> QED
  BY <1>3, <1>6, <1>7, <1>8 DEF j

\* The fields of a job.
LEMMA JobFields ==
    ASSUME TypeInv, NEW n \in Node, NEW t \in Thread
    PROVE  /\ job[n][t].pc \in Place(t) /\ job[n][t].with \in Node
           /\ job[n][t].id \in Nat /\ job[n][t].read \in Nat
  BY DEF TypeInv, TypeOK

\* So is going home.
LEMMA DoneJob ==
    ASSUME TypeInv, NEW n \in Node, NEW t \in Thread, Done(n, t)
    PROVE  /\ job' \in [Node -> [Thread -> AnyJob]]
           /\ \A m \in Node, u \in Thread :
                 /\ job'[m][u] = IF m = n /\ u = t THEN Job(Home(t), n, None) ELSE job[m][u]
                 /\ job'[m][u] \in [pc : Place(u), with : Node, id : Nat, read : Nat]
<1>1. Home(t) \in Place(t) /\ None \in Nat
  BY SharedPlaces DEF None
<1> QED
  BY <1>1, BecomeJob DEF Done

\* Generated numbers are numbers, and so are the counters.
LEMMA GenerateType ==
    ASSUME TypeInv, NEW n \in Node, NEW t \in Thread
    PROVE  /\ Generated(n, t, generator) \in Nat
           /\ Generated(n, t, port_id_generator) \in Nat
           /\ Generate(n, t, generator) => generator' \in [Node -> Nat]
           /\ Generate(n, t, port_id_generator) => port_id_generator' \in [Node -> Nat]
<1>1. generator \in [Node -> Nat] /\ port_id_generator \in [Node -> Nat]
  BY DEF TypeInv, TypeOK
<1>2. Generated(n, t, generator) \in Nat /\ Generated(n, t, port_id_generator) \in Nat
  BY <1>1, JobFields DEF Generated
<1> QED
  BY <1>1, <1>2 DEF Generate

\* A message that is sent is at the end of its channel, or nowhere.
LEMMA SendStep ==
    ASSUME TypeInv, NEW n \in Node, NEW t \in Thread, NEW p \in Node, NEW msg \in Message,
           sendToNeighbor(n, t, p, msg)
    PROVE  /\ chan' \in [Node -> [Node -> Seq(Message)]]
           /\ session' \subseteq Node \X Node /\ accepted' \subseteq Node \X Node
           /\ \A q, r \in Node : \/ chan'[q][r] = chan[q][r]
                                 \/ /\ q = n /\ r = p
                                    /\ chan'[q][r] = Append(chan[q][r], msg)
<1>1. /\ chan \in [Node -> [Node -> Seq(Message)]]
      /\ session \subseteq Node \X Node /\ accepted \subseteq Node \X Node
  BY DEF TypeInv, TypeOK
<1>2. chan' = chan \/ chan' = [chan EXCEPT ![n][p] = Append(@, msg)]
  BY DEF sendToNeighbor
<1>3. /\ session' = session \/ session' = session \cup {<<n, p>>}
      /\ accepted' = accepted \/ accepted' = accepted \cup {<<n, p>>}
  BY DEF sendToNeighbor, keys
<1>4. session' \subseteq Node \X Node /\ accepted' \subseteq Node \X Node
  BY <1>1, <1>3
<1>5. CASE chan' = chan
  BY <1>1, <1>4, <1>5
<1>6. CASE chan' = [chan EXCEPT ![n][p] = Append(@, msg)]
  <2>1. Append(chan[n][p], msg) \in Seq(Message)
    BY <1>1
  <2>2. chan' \in [Node -> [Node -> Seq(Message)]]
    BY <1>1, <1>6, <2>1
  <2>3. \A q, r \in Node : chan'[q][r] = IF q = n /\ r = p THEN Append(chan[q][r], msg)
                                         ELSE chan[q][r]
    BY <1>1, <1>6
  <2> QED
    BY <1>4, <2>2, <2>3
<1> QED
  BY <1>2, <1>5, <1>6

\* A VAP that was entered or looked up keeps the shape of a VAP.
LEMMA WithPortType ==
    ASSUME TypeInv, NEW n \in Node, NEW t \in Thread, NEW vaps \in Seq(Vap)
    PROVE  /\ WithPort(n, t, vaps) \in Seq(Vap)
           /\ DOMAIN WithPort(n, t, vaps) = DOMAIN vaps
           /\ \A i \in DOMAIN vaps :
                 /\ WithPort(n, t, vaps)[i].neighbor = vaps[i].neighbor
                 /\ WithPort(n, t, vaps)[i].id = vaps[i].id
                 /\ WithPort(n, t, vaps)[i].peer = vaps[i].peer
                 /\ WithPort(n, t, vaps)[i].port \in
                       {vaps[i].port, Generated(n, t, port_id_generator)}
           /\ \A i, j \in DOMAIN vaps :
                 /\ WithPort(n, t, vaps)[i].port # vaps[i].port
                 /\ WithPort(n, t, vaps)[j].port # vaps[j].port
                 => i = j
<1> DEFINE g == Generated(n, t, port_id_generator)
           mine == {i \in Places(vaps, job[n][t].with) : vaps[i].id = job[n][t].id}
           r == WithPort(n, t, vaps)
<1>1. g \in Nat
  BY GenerateType
<1>2. r = [i \in DOMAIN vaps |-> IF i \in mine /\ \A j \in mine : i <= j
                                 THEN [vaps[i] EXCEPT !.port = g] ELSE vaps[i]]
  BY DEF WithPort
<1>3. mine \subseteq DOMAIN vaps /\ DOMAIN vaps \subseteq Nat
  BY DEF Places
<1> HIDE DEF g, mine, r
<1>4. \A i \in DOMAIN vaps : vaps[i] \in Vap
  OBVIOUS
<1>5. ASSUME NEW i \in DOMAIN vaps
      PROVE  /\ r[i] \in Vap /\ r[i].neighbor = vaps[i].neighbor /\ r[i].id = vaps[i].id
             /\ r[i].peer = vaps[i].peer /\ r[i].port \in {vaps[i].port, g}
             /\ r[i].port # vaps[i].port => i \in mine /\ \A j \in mine : i <= j
  <2>1. CASE i \in mine /\ \A j \in mine : i <= j
    <3>1. r[i] = [vaps[i] EXCEPT !.port = g]
      BY <1>2, <2>1
    <3> QED
      BY <1>1, <1>4, <2>1, <3>1 DEF Vap
  <2>2. CASE ~(i \in mine /\ \A j \in mine : i <= j)
    <3>1. r[i] = vaps[i]
      BY <1>2, <2>2
    <3> QED
      BY <1>4, <3>1
  <2> QED
    BY <2>1, <2>2
<1>6. r = [i \in DOMAIN vaps |-> r[i]]
  BY <1>2
<1>7. r \in Seq(Vap) /\ DOMAIN r = DOMAIN vaps
  BY <1>5, <1>6, ListMapped
<1>8. ASSUME NEW i \in DOMAIN vaps, NEW j \in DOMAIN vaps,
             r[i].port # vaps[i].port, r[j].port # vaps[j].port
      PROVE  i = j
  <2>1. i <= j /\ j <= i
    BY <1>5, <1>8
  <2> QED
    BY <1>3, <2>1
<1> QED
  BY <1>5, <1>7, <1>8 DEF r, g

\* The tables stay sets of pairs of ports.
LEMMA ConnectType ==
    ASSUME TypeInv, NEW n \in Node, NEW t \in Thread, NEW radio \in Nat,
           Connect(n, t, radio)
    PROVE  /\ port_id_generator' \in [Node -> Nat]
           /\ table_wire_ports' \in [Node -> SUBSET (Nat \X Nat)]
<1> DEFINE g == Generated(n, t, port_id_generator)
           T == Wire(Wire(table_wire_ports[n], radio, g), g, radio)
<1>1. g \in Nat /\ port_id_generator' \in [Node -> Nat]
  BY GenerateType DEF Connect
<1>2. table_wire_ports \in [Node -> SUBSET (Nat \X Nat)]
  BY DEF TypeInv, TypeOK
<1>3. table_wire_ports' = [table_wire_ports EXCEPT ![n] = T]
  BY DEF Connect
<1> HIDE DEF g
<1>4. T \in SUBSET (Nat \X Nat)
  BY <1>1, <1>2 DEF Wire
<1> HIDE DEF T
<1> QED
  BY <1>1, <1>2, <1>3, <1>4

\* A local VAP is entered at the end of the list.
LEMMA EnterLocalStep ==
    ASSUME TypeInv, NEW n \in Node, NEW t \in Thread, EnterLocal(n, t)
    PROVE  \E v \in Vap :
              /\ v.neighbor = job[n][t].with /\ v.id = Generated(n, t, generator)
              /\ v.peer = None /\ v.port = None
              /\ local_vaps' \in [Node -> Seq(Vap)]
              /\ \A m \in Node : local_vaps'[m] = IF m = n THEN Append(local_vaps[n], v)
                                                  ELSE local_vaps[m]
<1> DEFINE v == [neighbor |-> job[n][t].with, id |-> Generated(n, t, generator),
                 peer |-> None, port |-> None]
<1>1. local_vaps \in [Node -> Seq(Vap)]
  BY DEF TypeInv, TypeOK
<1>2. /\ job[n][t].with \in Node /\ Generated(n, t, generator) \in Nat
      /\ job[n][t].id \in Nat /\ None \in Nat
  BY JobFields, GenerateType DEF None
<1>3. /\ v \in Vap /\ v.neighbor = job[n][t].with /\ v.id = Generated(n, t, generator)
      /\ v.peer = None /\ v.port = None
  BY <1>2 DEF Vap
<1>4. local_vaps' = [local_vaps EXCEPT ![n] = Append(local_vaps[n], v)]
  BY <1>1 DEF EnterLocal
<1> HIDE DEF v
<1>5. Append(local_vaps[n], v) \in Seq(Vap)
  BY <1>1, <1>3
<1> QED
  BY <1>1, <1>3, <1>4, <1>5

\* So is a remote one, with the number in the request.
LEMMA EnterRemoteStep ==
    ASSUME TypeInv, NEW n \in Node, NEW t \in Thread, EnterRemote(n, t)
    PROVE  \E v \in Vap :
              /\ v.neighbor = job[n][t].with /\ v.id = Generated(n, t, generator)
              /\ v.peer = job[n][t].id /\ v.port = None
              /\ remote_vaps' \in [Node -> Seq(Vap)]
              /\ \A m \in Node : remote_vaps'[m] = IF m = n THEN Append(remote_vaps[n], v)
                                                  ELSE remote_vaps[m]
<1> DEFINE v == [neighbor |-> job[n][t].with, id |-> Generated(n, t, generator),
                 peer |-> job[n][t].id, port |-> None]
<1>1. remote_vaps \in [Node -> Seq(Vap)]
  BY DEF TypeInv, TypeOK
<1>2. /\ job[n][t].with \in Node /\ Generated(n, t, generator) \in Nat
      /\ job[n][t].id \in Nat /\ None \in Nat
  BY JobFields, GenerateType DEF None
<1>3. /\ v \in Vap /\ v.neighbor = job[n][t].with /\ v.id = Generated(n, t, generator)
      /\ v.peer = job[n][t].id /\ v.port = None
  BY <1>2 DEF Vap
<1>4. remote_vaps' = [remote_vaps EXCEPT ![n] = Append(remote_vaps[n], v)]
  BY <1>1 DEF EnterRemote
<1> HIDE DEF v
<1>5. Append(remote_vaps[n], v) \in Seq(Vap)
  BY <1>1, <1>3
<1> QED
  BY <1>1, <1>3, <1>4, <1>5

\* The neighbour's number is filled in for the VAP that is looked up.
LEMMA CompleteStep ==
    ASSUME TypeInv, NEW n \in Node, NEW t \in Thread, complete_local_vap(n, t),
           Places(local_vaps[n], job[n][t].with) # {}
    PROVE  \E i \in DOMAIN local_vaps[n], v \in Vap :
              /\ local_vaps[n][i].neighbor = job[n][t].with
              /\ v.neighbor = local_vaps[n][i].neighbor /\ v.id = local_vaps[n][i].id
              /\ v.port = local_vaps[n][i].port /\ v.peer = job[n][t].id
              /\ local_vaps' \in [Node -> Seq(Vap)]
              /\ \A m \in Node : m # n => local_vaps'[m] = local_vaps[m]
              /\ DOMAIN local_vaps'[n] = DOMAIN local_vaps[n]
              /\ \A j \in DOMAIN local_vaps[n] :
                    local_vaps'[n][j] = IF j = i THEN v ELSE local_vaps[n][j]
              /\ Become(n, t, "connect", job[n][t].with, local_vaps[n][i].id)
<1> DEFINE p == job[n][t].with
           i == First(local_vaps[n], p)
           v == [local_vaps[n][i] EXCEPT !.peer = job[n][t].id]
<1>1. local_vaps \in [Node -> Seq(Vap)] /\ local_vaps[n] \in Seq(Vap)
  BY DEF TypeInv, TypeOK
<1>2. i \in DOMAIN local_vaps[n] /\ local_vaps[n][i].neighbor = p
  BY <1>1, FirstFound
<1>3. /\ local_vaps' = [local_vaps EXCEPT ![n][i].peer = job[n][t].id]
      /\ Become(n, t, "connect", p, local_vaps[n][i].id)
  BY DEF complete_local_vap
<1>4. local_vaps' = [local_vaps EXCEPT ![n] = [local_vaps[n] EXCEPT ![i] = v]]
  BY <1>1, <1>2, <1>3
<1> HIDE DEF i, p
<1>5. local_vaps[n][i] \in Vap /\ job[n][t].id \in Nat
  BY <1>1, <1>2, JobFields
<1>6. /\ v \in Vap /\ v.neighbor = local_vaps[n][i].neighbor /\ v.id = local_vaps[n][i].id
      /\ v.port = local_vaps[n][i].port /\ v.peer = job[n][t].id
  BY <1>5 DEF Vap
<1> HIDE DEF v
<1> DEFINE r == [local_vaps[n] EXCEPT ![i] = v]
<1>7. /\ r \in Seq(Vap) /\ DOMAIN r = DOMAIN local_vaps[n]
      /\ \A j \in DOMAIN local_vaps[n] : r[j] = IF j = i THEN v ELSE local_vaps[n][j]
  BY <1>1, <1>2, <1>6, ListChanged
<1> HIDE DEF r
<1>8. local_vaps' = [local_vaps EXCEPT ![n] = r]
  BY <1>4 DEF r
<1>9. /\ local_vaps' \in [Node -> Seq(Vap)] /\ local_vaps'[n] = r
      /\ \A m \in Node : m # n => local_vaps'[m] = local_vaps[m]
  BY <1>1, <1>7, <1>8
<1> QED
  BY <1>2, <1>3, <1>6, <1>7, <1>9 DEF p

\* The first local VAP of the neighbour that is lost is removed.
LEMMA FailureStep ==
    ASSUME TypeInv, NEW n \in Node, NEW p \in Node, linkFailure_cb(n, p)
    PROVE  /\ local_vaps' \in [Node -> Seq(Vap)]
           /\ \A m \in Node : m # n => local_vaps'[m] = local_vaps[m]
           /\ \/ local_vaps'[n] = local_vaps[n]
              \/ \E i \in DOMAIN local_vaps[n] : local_vaps'[n] = Without(local_vaps[n], i)
<1>1. local_vaps \in [Node -> Seq(Vap)] /\ local_vaps[n] \in Seq(Vap)
  BY DEF TypeInv, TypeOK
<1>2. CASE Places(local_vaps[n], p) = {}
  BY <1>1, <1>2 DEF linkFailure_cb
<1>3. CASE Places(local_vaps[n], p) # {}
  <2> DEFINE i == First(local_vaps[n], p)
             r == Without(local_vaps[n], i)
  <2>1. i \in DOMAIN local_vaps[n]
    BY <1>1, <1>3, FirstFound
  <2>2. local_vaps' = [local_vaps EXCEPT ![n] = r]
    BY <1>3 DEF linkFailure_cb
  <2> HIDE DEF i
  <2>3. r \in Seq(Vap)
    BY <1>1, <2>1, WithoutEntry
  <2>4. \E k \in DOMAIN local_vaps[n] : r = Without(local_vaps[n], k)
    BY <2>1
  <2> HIDE DEF r
  <2> QED
    BY <1>1, <2>2, <2>3, <2>4
<1> QED
  BY <1>2, <1>3

\* A message is processed by the thread that took it.
LEMMA ProcessStep ==
    ASSUME TypeInv, NEW n \in Node, NEW t \in Thread, NEW p \in Node, NEW msg \in Message,
           process_msg(n, t, p, msg)
    PROVE  \E pc \in {"create", "complete"} :
              /\ pc = IF msg.type = "request" THEN "create" ELSE "complete"
              /\ pc \in Place(t) /\ msg.id \in Nat
              /\ Become(n, t, pc, p, msg.id)
  BY SharedPlaces DEF process_msg, Message

\* The steps of the VapManager keep the types.
LEMMA TypeWork ==
    ASSUME TypeInv, NEW n \in Node, NEW t \in Thread, Work(n, t)
    PROVE  TypeInv'
<1> DEFINE p == job[n][t].with
<1>1. p \in Node /\ job[n][t].id \in Nat /\ None \in Nat
  BY JobFields DEF None
<1>2. {"initialize", "enter", "request", "create", "admit", "answer", "terminate",
       "complete", "connect"} \subseteq Place(t)
  BY SharedPlaces
<1>3. /\ Generated(n, t, generator) \in Nat
      /\ Generate(n, t, generator) => generator' \in [Node -> Nat]
  BY GenerateType
<1>4. CASE CheckLocal(n, t)
  <2>1. Done(n, t) \/ Become(n, t, "enter", p, None)
    BY <1>4 DEF CheckLocal
  <2>2. "enter" \in Place(t)
    BY <1>2
  <2> HIDE DEF p
  <2>3. /\ job' \in [Node -> [Thread -> AnyJob]]
        /\ \A m \in Node, u \in Thread :
              job'[m][u] \in [pc : Place(u), with : Node, id : Nat, read : Nat]
    BY <1>1, <2>1, <2>2, DoneJob, BecomeJob
  <2>4. UNCHANGED <<neighbors, keys, vapVars, p4Vars, runVars, chan>>
    BY <1>4 DEF CheckLocal
  <2> QED
    BY <2>3, <2>4 DEF TypeInv, TypeOK, keys, vapVars, p4Vars, runVars
<1>5. CASE CheckRemote(n, t)
  <2>1. Done(n, t) \/ Become(n, t, "admit", p, job[n][t].id)
    BY <1>5 DEF CheckRemote
  <2>2. "admit" \in Place(t)
    BY <1>2
  <2> HIDE DEF p
  <2>3. /\ job' \in [Node -> [Thread -> AnyJob]]
        /\ \A m \in Node, u \in Thread :
              job'[m][u] \in [pc : Place(u), with : Node, id : Nat, read : Nat]
    BY <1>1, <2>1, <2>2, DoneJob, BecomeJob
  <2>4. UNCHANGED <<neighbors, keys, vapVars, p4Vars, runVars, chan>>
    BY <1>5 DEF CheckRemote
  <2> QED
    BY <2>3, <2>4 DEF TypeInv, TypeOK, keys, vapVars, p4Vars, runVars
<1>6. CASE EnterLocal(n, t)
  <2>1. Become(n, t, "request", p, Generated(n, t, generator))
    BY <1>6 DEF EnterLocal
  <2>2. "request" \in Place(t)
    BY <1>2
  <2>3. local_vaps' \in [Node -> Seq(Vap)]
    BY <1>6, EnterLocalStep
  <2> HIDE DEF p
  <2>4. /\ job' \in [Node -> [Thread -> AnyJob]]
        /\ \A m \in Node, u \in Thread :
              job'[m][u] \in [pc : Place(u), with : Node, id : Nat, read : Nat]
    BY <1>1, <1>3, <2>1, <2>2, BecomeJob
  <2>5. UNCHANGED <<neighbors, keys, remote_vaps, p4Vars, runVars, chan>>
    BY <1>6 DEF EnterLocal
  <2>6. generator' \in [Node -> Nat]
    BY <1>3, <1>6 DEF EnterLocal
  <2> QED
    BY <2>3, <2>4, <2>5, <2>6 DEF TypeInv, TypeOK, keys, p4Vars, runVars
<1>7. CASE EnterRemote(n, t)
  <2>1. Become(n, t, "answer", p, Generated(n, t, generator))
    BY <1>7 DEF EnterRemote
  <2>2. "answer" \in Place(t)
    BY <1>2
  <2>3. remote_vaps' \in [Node -> Seq(Vap)]
    BY <1>7, EnterRemoteStep
  <2> HIDE DEF p
  <2>4. /\ job' \in [Node -> [Thread -> AnyJob]]
        /\ \A m \in Node, u \in Thread :
              job'[m][u] \in [pc : Place(u), with : Node, id : Nat, read : Nat]
    BY <1>1, <1>3, <2>1, <2>2, BecomeJob
  <2>5. UNCHANGED <<neighbors, keys, local_vaps, p4Vars, runVars, chan>>
    BY <1>7 DEF EnterRemote
  <2>6. generator' \in [Node -> Nat]
    BY <1>3, <1>7 DEF EnterRemote
  <2> QED
    BY <2>3, <2>4, <2>5, <2>6 DEF TypeInv, TypeOK, keys, p4Vars, runVars
<1>8. CASE request_remote_vap_setup(n, t) \/ sent_config_to_local_vap(n, t)
  <2>1. /\ Done(n, t) \/ Become(n, t, "terminate", p, job[n][t].id)
        /\ \E msg \in Message : sendToNeighbor(n, t, p, msg)
    BY <1>1, <1>8 DEF request_remote_vap_setup, sent_config_to_local_vap, Message
  <2>2. "terminate" \in Place(t)
    BY <1>2
  <2> HIDE DEF p
  <2>3. /\ job' \in [Node -> [Thread -> AnyJob]]
        /\ \A m \in Node, u \in Thread :
              job'[m][u] \in [pc : Place(u), with : Node, id : Nat, read : Nat]
    BY <1>1, <2>1, <2>2, DoneJob, BecomeJob
  <2>4. /\ chan' \in [Node -> [Node -> Seq(Message)]]
        /\ session' \subseteq Node \X Node /\ accepted' \subseteq Node \X Node
    BY <1>1, <2>1, SendStep
  <2>5. UNCHANGED <<neighbors, vapVars, p4Vars, runVars>>
    BY <1>8 DEF request_remote_vap_setup, sent_config_to_local_vap
  <2> QED
    BY <2>3, <2>4, <2>5 DEF TypeInv, TypeOK, vapVars, p4Vars, runVars
<1>9. CASE ConnectRemote(n, t) \/ ConnectLocal(n, t)
  <2>1. /\ Done(n, t) /\ \E radio \in Nat : Connect(n, t, radio)
        /\ UNCHANGED <<neighbors, keys, generator, runVars, chan>>
    BY <1>9 DEF ConnectRemote, ConnectLocal, HWSIM0, INJECT0
  <2>2. local_vaps \in [Node -> Seq(Vap)] /\ remote_vaps \in [Node -> Seq(Vap)]
    BY DEF TypeInv, TypeOK
  <2>3. /\ WithPort(n, t, local_vaps[n]) \in Seq(Vap)
        /\ WithPort(n, t, remote_vaps[n]) \in Seq(Vap)
    BY <2>2, WithPortType
  <2>4. local_vaps' \in [Node -> Seq(Vap)] /\ remote_vaps' \in [Node -> Seq(Vap)]
    BY <1>9, <2>2, <2>3 DEF ConnectRemote, ConnectLocal
  <2>5. /\ port_id_generator' \in [Node -> Nat]
        /\ table_wire_ports' \in [Node -> SUBSET (Nat \X Nat)]
    BY <2>1, ConnectType
  <2>6. /\ job' \in [Node -> [Thread -> AnyJob]]
        /\ \A m \in Node, u \in Thread :
              job'[m][u] \in [pc : Place(u), with : Node, id : Nat, read : Nat]
    BY <2>1, DoneJob
  <2> QED
    BY <2>1, <2>4, <2>5, <2>6 DEF TypeInv, TypeOK, keys, runVars
<1>10. CASE complete_local_vap(n, t)
  <2>1. UNCHANGED <<neighbors, keys, remote_vaps, generator, p4Vars, runVars, chan>>
    BY <1>10 DEF complete_local_vap
  <2>2. /\ local_vaps' \in [Node -> Seq(Vap)]
        /\ job' \in [Node -> [Thread -> AnyJob]]
        /\ \A m \in Node, u \in Thread :
              job'[m][u] \in [pc : Place(u), with : Node, id : Nat, read : Nat]
    <3>1. CASE Places(local_vaps[n], p) = {}
      <4>1. Done(n, t) /\ local_vaps' = local_vaps
        BY <1>10, <3>1 DEF complete_local_vap
      <4> QED
        BY <4>1, DoneJob DEF TypeInv, TypeOK
    <3>2. CASE Places(local_vaps[n], p) # {}
      <4>1. PICK i \in DOMAIN local_vaps[n] :
               /\ local_vaps' \in [Node -> Seq(Vap)]
               /\ Become(n, t, "connect", p, local_vaps[n][i].id)
        BY <1>10, <3>2, CompleteStep
      <4>2. local_vaps[n][i].id \in Nat
        <5>1. local_vaps[n] \in Seq(Vap)
          BY DEF TypeInv, TypeOK
        <5>2. local_vaps[n][i] \in Vap
          BY <5>1
        <5> QED
          BY <5>2 DEF Vap
      <4>3. "connect" \in Place(t)
        BY <1>2
      <4> HIDE DEF p
      <4> QED
        BY <1>1, <4>1, <4>2, <4>3, BecomeJob
    <3> QED
      BY <3>1, <3>2
  <2> QED
    BY <2>1, <2>2 DEF TypeInv, TypeOK, keys, p4Vars, runVars
<1> QED
  BY <1>4, <1>5, <1>6, <1>7, <1>8, <1>9, <1>10 DEF Work

\* A generate call that is suspended has read a number.
LEMMA SuspendStep ==
    ASSUME TypeInv, NEW n \in Node, NEW t \in Thread, SuspendGenerate(n, t)
    PROVE  /\ job' \in [Node -> [Thread -> AnyJob]]
           /\ \A m \in Node, u \in Thread :
                 /\ job'[m][u].pc = job[m][u].pc /\ job'[m][u].with = job[m][u].with
                 /\ job'[m][u].id = job[m][u].id
                 /\ job'[m][u] \in [pc : Place(u), with : Node, id : Nat, read : Nat]
<1> DEFINE x == IF job[n][t].pc \in {"enter", "admit"} THEN generator[n]
                ELSE port_id_generator[n]
           j == [job[n][t] EXCEPT !.read = x]
<1>1. job \in [Node -> [Thread -> AnyJob]]
  BY DEF TypeInv
<1>2. job' = [job EXCEPT ![n] = [job[n] EXCEPT ![t] = j]]
  BY <1>1 DEF SuspendGenerate
<1>3. x \in Nat
  BY DEF TypeInv, TypeOK
<1>4. job[n][t] \in [pc : Place(t), with : Node, id : Nat, read : Nat]
      /\ job[n][t] \in AnyJob
  BY <1>1 DEF TypeInv, TypeOK
<1> HIDE DEF x
<1>5. /\ j \in [pc : Place(t), with : Node, id : Nat, read : Nat] /\ j \in AnyJob
      /\ j.pc = job[n][t].pc /\ j.with = job[n][t].with /\ j.id = job[n][t].id
  BY <1>3, <1>4 DEF AnyJob
<1> HIDE DEF j
<1>6. job' \in [Node -> [Thread -> AnyJob]]
  BY <1>1, <1>2, <1>5
<1>7. \A m \in Node, u \in Thread : job'[m][u] = IF m = n /\ u = t THEN j ELSE job[m][u]
  BY <1>1, <1>2
<1>8. \A m \in Node, u \in Thread :
         job[m][u] \in [pc : Place(u), with : Node, id : Nat, read : Nat]
  BY DEF TypeInv, TypeOK
<1> QED
  BY <1>5, <1>6, <1>7, <1>8

\* The first message of a channel is taken.
LEMMA ChannelTail ==
    ASSUME TypeInv, NEW p \in Node, NEW n \in Node, chan[p][n] # <<>>,
           chan' = [chan EXCEPT ![p][n] = Tail(@)]
    PROVE  /\ Head(chan[p][n]) \in Message
           /\ chan' \in [Node -> [Node -> Seq(Message)]]
           /\ \A q, r \in Node : chan'[q][r] = IF q = p /\ r = n THEN Tail(chan[q][r])
                                               ELSE chan[q][r]
<1>1. chan \in [Node -> [Node -> Seq(Message)]]
  BY DEF TypeInv, TypeOK
<1>2. Head(chan[p][n]) \in Message /\ Tail(chan[p][n]) \in Seq(Message)
  BY <1>1
<1>3. chan' \in [Node -> [Node -> Seq(Message)]]
  BY <1>1, <1>2
<1>4. \A q, r \in Node : chan'[q][r] = IF q = p /\ r = n THEN Tail(chan[q][r])
                                       ELSE chan[q][r]
  BY <1>1
<1> QED
  BY <1>2, <1>3, <1>4

\* An entry of the queue: who it is from, and what it says.
Queued == [from : Node, msg : Message]

\* run() takes the next message of the queue.
LEMMA DrainStep ==
    ASSUME TypeInv, NEW n \in Node, RunDrain(n)
    PROVE  \E e \in Queued, i \in DOMAIN msgQueue[n] :
              /\ e = msgQueue[n][i]
              /\ process_msg(n, "run", e.from, e.msg)
              /\ drained' \in [Node -> Nat]
<1>1. msgQueue[n] \in Seq(Queued) /\ drained \in [Node -> Nat]
  BY DEF TypeInv, TypeOK, Queued
<1>2. drained[n] + 1 \in DOMAIN msgQueue[n]
  BY <1>1 DEF RunDrain
<1>3. msgQueue[n][drained[n] + 1] \in Queued
  BY <1>1, <1>2
<1>4. drained' \in [Node -> Nat]
  BY <1>1 DEF RunDrain
<1> QED
  BY <1>2, <1>3, <1>4 DEF RunDrain

\* The receive thread looks at a message.
LEMMA RxStep ==
    ASSUME TypeInv, NEW n \in Node, NEW p \in Node, rx_cb(n, p)
    PROVE  \E msg \in Message :
              /\ chan[p][n] # <<>> /\ msg = Head(chan[p][n])
              /\ \E pc \in Place("rx") :
                    /\ msg.type = "request" => pc \in {"create", "queueRequest"}
                    /\ msg.type # "request" => pc \in {"complete", "queueCompleted"}
                    /\ Become(n, "rx", pc, p, msg.id)
<1> DEFINE msg == Head(chan[p][n])
<1>1. msg \in Message /\ chan[p][n] # <<>>
  BY ChannelTail DEF rx_cb
<1>2. \/ process_msg(n, "rx", p, msg)
      \/ Become(n, "rx", IF msg.type = "request" THEN "queueRequest" ELSE "queueCompleted",
                p, msg.id)
  BY DEF rx_cb
<1>3. {"create", "complete", "queueRequest", "queueCompleted"} \subseteq Place("rx")
  BY Places3
<1> HIDE DEF msg
<1>4. \E pc \in Place("rx") :
         /\ msg.type = "request" => pc \in {"create", "queueRequest"}
         /\ msg.type # "request" => pc \in {"complete", "queueCompleted"}
         /\ Become(n, "rx", pc, p, msg.id)
  <2>1. CASE msg.type = "request"
    BY <1>2, <1>3, <2>1 DEF process_msg
  <2>2. CASE msg.type # "request"
    BY <1>2, <1>3, <2>2 DEF process_msg
  <2> QED
    BY <2>1, <2>2
<1> QED
  BY <1>1, <1>4 DEF msg

\* A message that arrives too early is put in the queue.
LEMMA QueueStep ==
    ASSUME TypeInv, NEW n \in Node, RxQueue(n)
    PROVE  /\ \E e \in Queued :
                 /\ e.from = job[n]["rx"].with /\ e.msg.id = job[n]["rx"].id
                 /\ e.msg.type = "request" <=> job[n]["rx"].pc = "queueRequest"
                 /\ \A m \in Node : msgQueue'[m] = IF m = n THEN Append(msgQueue[n], e)
                                                   ELSE msgQueue[m]
           /\ msgQueue' \in [Node -> Seq(Queued)]
<1> DEFINE type == IF Doing(n, "rx", "queueRequest") THEN "request" ELSE "completed"
           e == [from |-> job[n]["rx"].with, msg |-> [type |-> type, id |-> job[n]["rx"].id]]
<1>1. msgQueue \in [Node -> Seq(Queued)]
  BY DEF TypeInv, TypeOK, Queued
<1>2. msgQueue' = [msgQueue EXCEPT ![n] = Append(msgQueue[n], e)]
  BY <1>1 DEF RxQueue
<1>3. type \in {"request", "completed"}
      /\ (type = "request" <=> job[n]["rx"].pc = "queueRequest")
  BY DEF Doing
<1>4. job[n]["rx"].with \in Node /\ job[n]["rx"].id \in Nat
  BY JobFields DEF Thread
<1> HIDE DEF type
<1>5. /\ e \in Queued /\ e.from = job[n]["rx"].with /\ e.msg.id = job[n]["rx"].id
      /\ e.msg.type = type
  BY <1>3, <1>4 DEF Queued, Message
<1> HIDE DEF e
<1>6. Append(msgQueue[n], e) \in Seq(Queued)
  BY <1>1, <1>5
<1>7. /\ msgQueue' \in [Node -> Seq(Queued)]
      /\ \A m \in Node : msgQueue'[m] = IF m = n THEN Append(msgQueue[n], e) ELSE msgQueue[m]
  BY <1>1, <1>2, <1>6
<1> QED
  BY <1>3, <1>5, <1>7

\* An access point that starts waits in run().
LEMMA BootJob ==
    ASSUME NEW n \in Node, NEW t \in Thread
    PROVE  /\ Boot(n)[t] \in [pc : Place(t), with : Node, id : Nat, read : Nat]
           /\ Boot(n)[t] \in AnyJob
           /\ Boot(n)[t].pc = IF t = "run" THEN "sleep" ELSE "idle"
           /\ Boot(n)[t].read = None
<1> DEFINE pc == IF t = "run" THEN "sleep" ELSE "idle"
<1>1. pc \in Place(t)
  BY Places3 DEF Thread
<1>2. pc \in Everywhere
  BY <1>1, SharedPlaces
<1>3. Boot(n)[t] = Job(pc, n, None)
  BY DEF Boot
<1> HIDE DEF pc
<1>4. /\ Job(pc, n, None) \in [pc : Place(t), with : Node, id : Nat, read : Nat]
      /\ Job(pc, n, None) \in AnyJob
      /\ Job(pc, n, None).pc = pc /\ Job(pc, n, None).read = None
  BY <1>1, <1>2 DEF Job, None, AnyJob
<1> QED
  BY <1>3, <1>4 DEF pc

\* A step that only moves a thread.
LEMMA TypeMove ==
    ASSUME TypeInv, UNCHANGED <<neighbors, keys, vapVars, p4Vars>>,
           started' \in [Node -> BOOLEAN], drained' \in [Node -> Nat],
           msgQueue' \in [Node -> Seq([from : Node, msg : Message])],
           todo' \in [Node -> SUBSET Node], chan' \in [Node -> [Node -> Seq(Message)]],
           job' \in [Node -> [Thread -> AnyJob]],
           \A m \in Node, u \in Thread :
              job'[m][u] \in [pc : Place(u), with : Node, id : Nat, read : Nat]
    PROVE  TypeInv'
  BY DEF TypeInv, TypeOK, keys, vapVars, p4Vars

\* run() and the receive thread keep the types.
LEMMA TypeRun ==
    ASSUME TypeInv, NEW n \in Node, Run(n) \/ Receive(n)
    PROVE  TypeInv'
<1> "run" \in Thread /\ "rx" \in Thread
  BY DEF Thread
<1>1. /\ started \in [Node -> BOOLEAN] /\ drained \in [Node -> Nat]
      /\ msgQueue \in [Node -> Seq([from : Node, msg : Message])]
      /\ todo \in [Node -> SUBSET Node] /\ chan \in [Node -> [Node -> Seq(Message)]]
      /\ neighbors \in [Node -> SUBSET Node]
      /\ job \in [Node -> [Thread -> AnyJob]]
      /\ \A m \in Node, u \in Thread :
              job[m][u] \in [pc : Place(u), with : Node, id : Nat, read : Nat]
  BY DEF TypeInv, TypeOK
<1>2. "initialize" \in Place("run") /\ "control" \in Place("run") /\ None \in Nat
  BY Places3 DEF None
<1>3. CASE RunNeighbors(n)
  <2>1. Done(n, "run") /\ todo' = [todo EXCEPT ![n] = neighbors[n]]
        /\ UNCHANGED <<neighbors, keys, vapVars, p4Vars, started, msgQueue, drained, chan>>
    BY <1>3 DEF RunNeighbors
  <2>2. todo' \in [Node -> SUBSET Node]
    BY <1>1, <2>1
  <2> QED
    BY <1>1, <2>1, <2>2, DoneJob, TypeMove
<1>4. ASSUME NEW p \in Node, RunInitialize(n, p) PROVE TypeInv'
  <2>1. Become(n, "run", "initialize", p, None) /\ todo' = [todo EXCEPT ![n] = @ \ {p}]
        /\ UNCHANGED <<neighbors, keys, vapVars, p4Vars, started, msgQueue, drained, chan>>
    BY <1>4 DEF RunInitialize
  <2>2. todo' \in [Node -> SUBSET Node]
    BY <1>1, <2>1
  <2> QED
    BY <1>1, <1>2, <2>1, <2>2, BecomeJob, TypeMove
<1>5. CASE RunStarted(n)
  <2>1. /\ started' = [started EXCEPT ![n] = TRUE]
        /\ UNCHANGED <<neighbors, keys, vapVars, p4Vars, msgQueue, drained, todo, job, chan>>
    BY <1>5 DEF RunStarted
  <2>2. started' \in [Node -> BOOLEAN]
    BY <1>1, <2>1
  <2> QED
    BY <1>1, <2>1, <2>2, TypeMove
<1>6. CASE RunDrain(n)
  <2>1. UNCHANGED <<neighbors, keys, vapVars, p4Vars, started, msgQueue, todo, chan>>
    BY <1>6 DEF RunDrain
  <2>2. PICK e \in Queued : process_msg(n, "run", e.from, e.msg)
    BY <1>6, DrainStep
  <2>3. drained' \in [Node -> Nat]
    BY <1>6, DrainStep
  <2>4. e.from \in Node /\ e.msg \in Message
    BY DEF Queued
  <2>5. PICK pc \in Place("run") : e.msg.id \in Nat /\ Become(n, "run", pc, e.from, e.msg.id)
    BY <2>2, <2>4, ProcessStep
  <2>6. /\ job' \in [Node -> [Thread -> AnyJob]]
        /\ \A m \in Node, u \in Thread :
              job'[m][u] \in [pc : Place(u), with : Node, id : Nat, read : Nat]
    BY <2>4, <2>5, BecomeJob
  <2> QED
    BY <1>1, <2>1, <2>3, <2>6, TypeMove
<1>7. CASE RunDrained(n)
  <2>1. Become(n, "run", "control", n, None)
        /\ UNCHANGED <<neighbors, keys, vapVars, p4Vars, runVars, chan>>
    BY <1>7 DEF RunDrained
  <2> QED
    BY <1>1, <1>2, <2>1, BecomeJob, TypeMove DEF runVars
<1>8. CASE RxQueue(n)
  <2>1. Done(n, "rx")
        /\ UNCHANGED <<neighbors, keys, vapVars, p4Vars, started, drained, todo, chan>>
    BY <1>8 DEF RxQueue
  <2>2. msgQueue' \in [Node -> Seq([from : Node, msg : Message])]
    BY <1>8, QueueStep DEF Queued
  <2> QED
    BY <1>1, <2>1, <2>2, DoneJob, TypeMove
<1>9. ASSUME NEW p \in Node, rx_cb(n, p) PROVE TypeInv'
  <2>1. chan[p][n] # <<>> /\ chan' = [chan EXCEPT ![p][n] = Tail(@)]
        /\ UNCHANGED <<neighbors, keys, vapVars, p4Vars, runVars>>
    BY <1>9 DEF rx_cb
  <2>2. PICK msg \in Message, pc \in Place("rx") : Become(n, "rx", pc, p, msg.id)
    BY <1>9, RxStep
  <2>3. msg.id \in Nat
    BY DEF Message
  <2>4. chan' \in [Node -> [Node -> Seq(Message)]]
    BY <2>1, ChannelTail
  <2>5. /\ job' \in [Node -> [Thread -> AnyJob]]
        /\ \A m \in Node, u \in Thread :
              job'[m][u] \in [pc : Place(u), with : Node, id : Nat, read : Nat]
    BY <2>2, <2>3, BecomeJob
  <2> QED
    BY <1>1, <2>1, <2>4, <2>5, TypeMove DEF runVars
<1>10. ASSUME NEW p \in Node, RxDrop(n, p) PROVE TypeInv'
  <2>1. chan[p][n] # <<>> /\ chan' = [chan EXCEPT ![p][n] = Tail(@)]
        /\ UNCHANGED <<neighbors, keys, vapVars, p4Vars, runVars, job>>
    BY <1>10 DEF RxDrop
  <2>2. chan' \in [Node -> [Node -> Seq(Message)]]
    BY <2>1, ChannelTail
  <2> QED
    BY <1>1, <2>1, <2>2, TypeMove DEF runVars
<1> QED
  BY <1>3, <1>4, <1>5, <1>6, <1>7, <1>8, <1>9, <1>10 DEF Run, Receive

\* So do suspensions, links and failures.
LEMMA TypeRest ==
    ASSUME TypeInv, NEW n \in Node, NEW p \in Node, NEW t \in Thread,
           \/ SuspendGenerate(n, t) \/ newLink_cb(n, p) \/ linkFailure_cb(n, p)
           \/ Lose(n, p) \/ Restart(n)
    PROVE  TypeInv'
<1> "probe" \in Thread
  BY DEF Thread
<1>1. CASE SuspendGenerate(n, t)
  <2>1. UNCHANGED <<neighbors, keys, vapVars, p4Vars, runVars, chan>>
    BY <1>1 DEF SuspendGenerate
  <2> QED
    BY <1>1, <2>1, SuspendStep DEF TypeInv, TypeOK, keys, vapVars, p4Vars, runVars
<1>2. CASE newLink_cb(n, p)
  <2>1. Become(n, "probe", "initialize", p, None)
        /\ UNCHANGED <<keys, vapVars, p4Vars, runVars, chan>>
    BY <1>2 DEF newLink_cb
  <2>2. "initialize" \in Place("probe") /\ None \in Nat
    BY Places3 DEF None
  <2>3. neighbors' \in [Node -> SUBSET Node]
    BY <1>2 DEF newLink_cb, TypeInv, TypeOK
  <2> QED
    BY <2>1, <2>2, <2>3, BecomeJob DEF TypeInv, TypeOK, keys, vapVars, p4Vars, runVars
<1>3. CASE linkFailure_cb(n, p)
  <2>1. UNCHANGED <<remote_vaps, generator, p4Vars, runVars, job, chan>>
    BY <1>3 DEF linkFailure_cb
  <2>2. neighbors' \in [Node -> SUBSET Node]
    BY <1>3 DEF linkFailure_cb, TypeInv, TypeOK
  <2>3. session' \subseteq Node \X Node /\ accepted' \subseteq Node \X Node
    BY <1>3 DEF linkFailure_cb, TypeInv, TypeOK
  <2>4. local_vaps' \in [Node -> Seq(Vap)]
    BY <1>3, FailureStep
  <2> QED
    BY <2>1, <2>2, <2>3, <2>4 DEF TypeInv, TypeOK, p4Vars, runVars
<1>4. CASE Lose(n, p)
  <2>1. chan[n][p] # <<>> /\ chan' = [chan EXCEPT ![n][p] = Tail(@)]
        /\ UNCHANGED <<neighbors, keys, vapVars, p4Vars, runVars, job>>
    BY <1>4 DEF Lose
  <2>2. chan' \in [Node -> [Node -> Seq(Message)]]
    BY <2>1, ChannelTail
  <2> QED
    BY <2>1, <2>2 DEF TypeInv, TypeOK, keys, vapVars, p4Vars, runVars
<1>5. CASE Restart(n)
  <2>1. /\ neighbors' \in [Node -> SUBSET Node]
        /\ session' \subseteq Node \X Node /\ accepted' \subseteq Node \X Node
    BY <1>5 DEF Restart, TypeInv, TypeOK
  <2>2. /\ local_vaps' \in [Node -> Seq(Vap)] /\ remote_vaps' \in [Node -> Seq(Vap)]
        /\ msgQueue' \in [Node -> Seq([from : Node, msg : Message])]
    <3>1. <<>> \in Seq(Vap) /\ <<>> \in Seq([from : Node, msg : Message])
      OBVIOUS
    <3>2. /\ local_vaps' = [local_vaps EXCEPT ![n] = <<>>]
          /\ remote_vaps' = [remote_vaps EXCEPT ![n] = <<>>]
          /\ msgQueue' = [msgQueue EXCEPT ![n] = <<>>]
      BY <1>5 DEF Restart
    <3> QED
      BY <3>1, <3>2 DEF TypeInv, TypeOK
  <2>3. /\ generator' \in [Node -> Nat] /\ port_id_generator' \in [Node -> Nat]
        /\ table_wire_ports' \in [Node -> SUBSET (Nat \X Nat)]
        /\ started' \in [Node -> BOOLEAN] /\ drained' \in [Node -> Nat]
        /\ todo' \in [Node -> SUBSET Node]
    BY <1>5 DEF Restart, TypeInv, TypeOK
  <2>4. chan' \in [Node -> [Node -> Seq(Message)]]
    <3>1. \A q, r \in Node : chan[q][r] \in Seq(Message) /\ <<>> \in Seq(Message)
      BY DEF TypeInv, TypeOK
    <3>2. chan' = [q \in Node |-> [r \in Node |-> IF n \in {r, q} THEN <<>> ELSE chan[q][r]]]
      BY <1>5 DEF Restart
    <3> QED
      BY <3>1, <3>2
  <2>5. /\ job' \in [Node -> [Thread -> AnyJob]]
        /\ \A m \in Node, u \in Thread :
              job'[m][u] \in [pc : Place(u), with : Node, id : Nat, read : Nat]
    <3>1. job \in [Node -> [Thread -> AnyJob]] /\ job' = [job EXCEPT ![n] = Boot(n)]
      BY <1>5 DEF Restart, TypeInv
    <3>2. Boot(n) \in [Thread -> AnyJob]
      <4>1. Boot(n) = [u \in Thread |-> Boot(n)[u]]
        BY DEF Boot
      <4> QED
        BY <4>1, BootJob
    <3>3. \A m \in Node, u \in Thread : job'[m][u] = IF m = n THEN Boot(n)[u] ELSE job[m][u]
      BY <3>1
    <3>4. job' \in [Node -> [Thread -> AnyJob]]
      BY <3>1, <3>2
    <3>5. \A m \in Node, u \in Thread :
             job[m][u] \in [pc : Place(u), with : Node, id : Nat, read : Nat]
      BY DEF TypeInv, TypeOK
    <3> QED
      BY <3>3, <3>4, <3>5, BootJob
  <2> QED
    BY <2>1, <2>2, <2>3, <2>4, <2>5 DEF TypeInv, TypeOK
<1> QED
  BY <1>1, <1>2, <1>3, <1>4, <1>5

\* The initial state has the types.
LEMMA TypeInit == Init => TypeInv
<1> SUFFICES ASSUME Init PROVE TypeInv
  OBVIOUS
<1>1. /\ job \in [Node -> [Thread -> AnyJob]]
      /\ \A m \in Node, u \in Thread :
            job[m][u] \in [pc : Place(u), with : Node, id : Nat, read : Nat]
  <2>1. \A m \in Node, u \in Thread : Boot(m)[u] \in AnyJob
    BY BootJob
  <2>2. \A m \in Node : Boot(m) = [u \in Thread |-> Boot(m)[u]]
    BY DEF Boot
  <2>3. \A m \in Node : Boot(m) \in [Thread -> AnyJob]
    BY <2>1, <2>2
  <2> QED
    BY <2>3, BootJob DEF Init
<1>2. session \subseteq Node \X Node /\ accepted \subseteq Node \X Node
  BY VapAssumption DEF Init
<1> QED
  BY <1>1, <1>2 DEF Init, TypeInv, TypeOK

\* Every step keeps the types.
LEMMA TypeNext ==
    ASSUME TypeInv, [Next]_vars
    PROVE  TypeInv'
<1>1. CASE UNCHANGED vars
  BY <1>1 DEF vars, keys, vapVars, p4Vars, runVars, TypeInv, TypeOK
<1>2. ASSUME NEW n \in Node,
             \/ \E t \in Thread : Work(n, t) \/ SuspendGenerate(n, t)
             \/ Run(n)
             \/ Receive(n)
             \/ \E p \in Node : newLink_cb(n, p) \/ linkFailure_cb(n, p) \/ Lose(n, p)
             \/ Restart(n)
      PROVE  TypeInv'
  <2>1. "run" \in Thread
    BY DEF Thread
  <2> QED
    BY <1>2, <2>1, TypeWork, TypeRun, TypeRest
<1> QED
  BY <1>1, <1>2 DEF Next

\* The types are kept.
LEMMA TypeKept == Spec => []TypeInv
  BY TypeInit, TypeNext, PTL DEF Spec

\* Whatever the threads of the application, the network and failures do, every
\* variable holds what the code keeps there: in particular the receive and the
\* probe request thread come back from every VapManager call to where they wait
\* for the next one, and run() to its loop, although the three share that code.
THEOREM VapTypeCorrect == Spec => []TypeOK
<1>1. TypeInv => TypeOK
  BY DEF TypeInv
<1> QED
  BY <1>1, TypeKept, PTL

-----------------------------------------------------------------------------
(* Ports and wires                                                         *)

\* A table of a switch whose next port is g: no entry is for that port or a later
\* one, there is one entry per port, and a radio is paired with a port.
Wires(T, g) ==
    /\ T \subseteq Nat \X Nat
    /\ \A e \in T : e[1] < g
    /\ \A e, f \in T : e[1] = f[1] => e = f
    /\ \A e \in T : e[1] \in {HWSIM0, INJECT0} => <<e[2], e[1]>> \in T

\* While no generate call has been suspended: the ports that are wired or belong
\* to a VAP have all been generated, which makes the next one new.  The rest is
\* PortsApart and WiringPaired, for access point n.
SwitchAt(n) ==
    /\ \A t \in Thread : job[n][t].read = None
    /\ port_id_generator[n] >= 2
    /\ Wires(table_wire_ports[n], port_id_generator[n])
    /\ \A i \in DOMAIN local_vaps[n] :
          /\ local_vaps[n][i].port < port_id_generator[n]
          /\ local_vaps[n][i].port # None =>
                <<local_vaps[n][i].port, HWSIM0>> \in table_wire_ports[n]
    /\ \A i \in DOMAIN remote_vaps[n] :
          /\ remote_vaps[n][i].port < port_id_generator[n]
          /\ remote_vaps[n][i].port # None =>
                <<remote_vaps[n][i].port, INJECT0>> \in table_wire_ports[n]
    /\ \A i, j \in DOMAIN local_vaps[n] :
          i # j /\ local_vaps[n][i].port # None =>
              local_vaps[n][i].port # local_vaps[n][j].port
    /\ \A i \in DOMAIN local_vaps[n], j \in DOMAIN remote_vaps[n] :
          local_vaps[n][i].port # None => local_vaps[n][i].port # remote_vaps[n][j].port

\* The inductive invariant of the wiring.
SwitchInv == suspends \in Nat /\ (suspends = 0 => \A n \in Node : SwitchAt(n))

\* The VAPs listed in new have no port or, each, that of a VAP listed in old: f names
\* a different one for each of them.
PortsFrom(f, new, old) ==
    /\ \A i \in DOMAIN new : new[i].port # None =>
          f[i] \in DOMAIN old /\ new[i].port = old[f[i]].port
    /\ \A i, j \in DOMAIN new : i # j => f[i] # f[j]

\* The same, where two of them may have the port of one.
PortsAmong(new, old) ==
    \A i \in DOMAIN new : new[i].port # None =>
        \E k \in DOMAIN old : new[i].port = old[k].port

\* A step that wires nothing, and after which each VAP has no port or that of a VAP
\* that was listed before.
LEMMA KeepSwitch ==
    ASSUME NEW n \in Node, SwitchAt(n), \A t \in Thread : job'[n][t].read = None,
           port_id_generator[n] \in Nat, port_id_generator'[n] = port_id_generator[n],
           table_wire_ports'[n] = table_wire_ports[n], NEW f,
           PortsFrom(f, local_vaps'[n], local_vaps[n]),
           PortsAmong(remote_vaps'[n], remote_vaps[n])
    PROVE  SwitchAt(n)'
<1> USE DEF PortsFrom, PortsAmong
<1>1. port_id_generator[n] >= 2 /\ None < port_id_generator[n]
  BY DEF SwitchAt, None
<1>2. \A i \in DOMAIN local_vaps'[n] :
         /\ local_vaps'[n][i].port < port_id_generator[n]
         /\ local_vaps'[n][i].port # None =>
                <<local_vaps'[n][i].port, HWSIM0>> \in table_wire_ports[n]
  BY <1>1 DEF SwitchAt
<1>3. \A i \in DOMAIN remote_vaps'[n] :
         /\ remote_vaps'[n][i].port < port_id_generator[n]
         /\ remote_vaps'[n][i].port # None =>
                <<remote_vaps'[n][i].port, INJECT0>> \in table_wire_ports[n]
  BY <1>1 DEF SwitchAt
<1>4. ASSUME NEW i \in DOMAIN local_vaps'[n], NEW j \in DOMAIN local_vaps'[n],
             i # j, local_vaps'[n][i].port # None,
             local_vaps'[n][i].port = local_vaps'[n][j].port
      PROVE  FALSE
  <2>1. f[i] # f[j] /\ f[i] \in DOMAIN local_vaps[n] /\ f[j] \in DOMAIN local_vaps[n]
    BY <1>4
  <2>2. /\ local_vaps[n][f[i]].port # None
        /\ local_vaps[n][f[i]].port = local_vaps[n][f[j]].port
    BY <1>4
  <2> QED
    BY <2>1, <2>2 DEF SwitchAt
<1>5. ASSUME NEW i \in DOMAIN local_vaps'[n], NEW j \in DOMAIN remote_vaps'[n],
             local_vaps'[n][i].port # None,
             local_vaps'[n][i].port = remote_vaps'[n][j].port
      PROVE  FALSE
  <2>1. PICK k \in DOMAIN remote_vaps[n] : remote_vaps'[n][j].port = remote_vaps[n][k].port
    BY <1>5
  <2>2. f[i] \in DOMAIN local_vaps[n] /\ local_vaps'[n][i].port = local_vaps[n][f[i]].port
    BY <1>5
  <2> QED
    BY <1>5, <2>1, <2>2 DEF SwitchAt
<1>6. Wires(table_wire_ports'[n], port_id_generator'[n])
  BY DEF SwitchAt
<1> QED
  BY <1>1, <1>2, <1>3, <1>4, <1>5, <1>6 DEF SwitchAt

\* A step that leaves the VAPs and the switch of n alone.
LEMMA MoveSwitch ==
    ASSUME NEW n \in Node, SwitchAt(n), \A t \in Thread : job'[n][t].read = None,
           port_id_generator'[n] = port_id_generator[n],
           table_wire_ports'[n] = table_wire_ports[n],
           local_vaps'[n] = local_vaps[n], remote_vaps'[n] = remote_vaps[n]
    PROVE  SwitchAt(n)'
  BY DEF SwitchAt

\* Wiring a new port to a radio.
LEMMA WireNew ==
    ASSUME NEW T, NEW g \in Nat, g >= 2, NEW radio, radio \in {HWSIM0, INJECT0},
           Wires(T, g), NEW R, R = Wire(Wire(T, radio, g), g, radio)
    PROVE  T \subseteq R /\ <<g, radio>> \in R /\ Wires(R, g + 1)
<1> USE DEF Wires
<1> DEFINE Q == Wire(T, radio, g)
<1>1. radio \in Nat /\ radio < 2 /\ radio # g
  BY DEF HWSIM0, INJECT0
<1>2. Q = T \/ (Q = T \cup {<<radio, g>>} /\ \A e \in T : e[1] # radio)
  BY DEF Wire
<1>3. T \subseteq Q /\ Q \subseteq T \cup {<<radio, g>>}
  BY <1>2
<1>4. R = Q \cup {<<g, radio>>}
  <2>1. \A e \in Q : e[1] # g
    BY <1>1, <1>3
  <2> QED
    BY <2>1 DEF Wire
<1> HIDE DEF Q
<1>5. \A e \in R : e[1] < g + 1
  BY <1>1, <1>3, <1>4
<1>6. \A e, f \in R : e[1] = f[1] => e = f
  BY <1>1, <1>2, <1>4
<1>7. ASSUME NEW e \in R, e[1] \in {HWSIM0, INJECT0} PROVE <<e[2], e[1]>> \in R
  <2>1. e # <<g, radio>>
    BY <1>7 DEF HWSIM0, INJECT0
  <2>2. e \in T \/ e = <<radio, g>>
    BY <1>3, <1>4, <2>1
  <2> QED
    BY <1>3, <1>4, <1>7, <2>2
<1>8. R \subseteq Nat \X Nat
  BY <1>1, <1>3, <1>4
<1> QED
  BY <1>3, <1>4, <1>5, <1>6, <1>7, <1>8

\* What connecting a tunnel does to the switch.
LEMMA ConnectStep ==
    ASSUME TypeInv, NEW n \in Node, NEW t \in Thread, SwitchAt(n),
           NEW radio \in {HWSIM0, INJECT0}, Connect(n, t, radio)
    PROVE  /\ Generated(n, t, port_id_generator) = port_id_generator[n]
           /\ port_id_generator[n] \in Nat
           /\ port_id_generator'[n] = port_id_generator[n] + 1
           /\ table_wire_ports[n] \subseteq table_wire_ports'[n]
           /\ <<port_id_generator[n], radio>> \in table_wire_ports'[n]
           /\ Wires(table_wire_ports'[n], port_id_generator'[n])
           /\ \A m \in Node : m # n => /\ port_id_generator'[m] = port_id_generator[m]
                                       /\ table_wire_ports'[m] = table_wire_ports[m]
<1> DEFINE g == port_id_generator[n]
           T == table_wire_ports[n]
           R == Wire(Wire(T, radio, g), g, radio)
<1>1. /\ port_id_generator \in [Node -> Nat]
      /\ table_wire_ports \in [Node -> SUBSET (Nat \X Nat)]
  BY DEF TypeInv, TypeOK
<1>2. Generated(n, t, port_id_generator) = g
  BY DEF Generated, SwitchAt
<1>3. /\ port_id_generator' = [port_id_generator EXCEPT ![n] = g + 1]
      /\ table_wire_ports' = [table_wire_ports EXCEPT ![n] = R]
  BY <1>2 DEF Connect, Generate
<1>4. g \in Nat /\ g >= 2 /\ Wires(T, g)
  BY <1>1 DEF SwitchAt
<1> HIDE DEF T, g
<1>5. T \subseteq R /\ <<g, radio>> \in R /\ Wires(R, g + 1)
  <2>1. R = Wire(Wire(T, radio, g), g, radio)
    OBVIOUS
  <2> HIDE DEF R
  <2> QED
    BY <1>4, <2>1, WireNew, SMTT(30)
<1>6. /\ port_id_generator'[n] = g + 1 /\ table_wire_ports'[n] = R
      /\ \A m \in Node : m # n => /\ port_id_generator'[m] = port_id_generator[m]
                                  /\ table_wire_ports'[m] = table_wire_ports[m]
  BY <1>1, <1>3
<1> HIDE DEF R
<1> QED
  BY <1>2, <1>4, <1>5, <1>6 DEF T, g

\* A VAP gets the new port, which no other VAP has, and its radio gets the frames.
LEMMA ConnectSwitch ==
    ASSUME TypeInv, NEW n \in Node, NEW t \in Thread, SwitchAt(n),
           ConnectLocal(n, t) \/ ConnectRemote(n, t),
           \A u \in Thread : job'[n][u].read = None
    PROVE  SwitchAt(n)'
<1> DEFINE g == port_id_generator[n]
<1>1. PICK radio \in {HWSIM0, INJECT0} :
         /\ Connect(n, t, radio)
         /\ local_vaps' = IF radio = HWSIM0
                          THEN [local_vaps EXCEPT ![n] = WithPort(n, t, @)] ELSE local_vaps
         /\ remote_vaps' = IF radio = INJECT0
                           THEN [remote_vaps EXCEPT ![n] = WithPort(n, t, @)] ELSE remote_vaps
  BY DEF ConnectLocal, ConnectRemote, HWSIM0, INJECT0
<1>2. /\ Generated(n, t, port_id_generator) = g /\ g \in Nat
      /\ port_id_generator'[n] = g + 1
      /\ table_wire_ports[n] \subseteq table_wire_ports'[n]
      /\ <<g, radio>> \in table_wire_ports'[n]
      /\ Wires(table_wire_ports'[n], port_id_generator'[n])
  BY <1>1, ConnectStep
<1>3. local_vaps \in [Node -> Seq(Vap)] /\ remote_vaps \in [Node -> Seq(Vap)]
  BY DEF TypeInv, TypeOK
<1>4. /\ \A i \in DOMAIN local_vaps[n] : local_vaps[n][i].port \in Nat
      /\ \A i \in DOMAIN remote_vaps[n] : remote_vaps[n][i].port \in Nat
  <2>1. /\ \A i \in DOMAIN local_vaps[n] : local_vaps[n][i] \in Vap
        /\ \A i \in DOMAIN remote_vaps[n] : remote_vaps[n][i] \in Vap
    BY <1>3
  <2> QED
    BY <2>1 DEF Vap
<1>5. /\ \A i \in DOMAIN local_vaps[n] : local_vaps[n][i].port < g
      /\ \A i \in DOMAIN remote_vaps[n] : remote_vaps[n][i].port < g
  BY DEF SwitchAt
<1>6. g >= 2
  BY DEF SwitchAt
<1>7. /\ DOMAIN local_vaps'[n] = DOMAIN local_vaps[n]
      /\ \A i \in DOMAIN local_vaps[n] :
            \/ local_vaps'[n][i].port = local_vaps[n][i].port
            \/ local_vaps'[n][i].port = g /\ radio = HWSIM0
      /\ \A i, j \in DOMAIN local_vaps[n] :
            /\ local_vaps'[n][i].port # local_vaps[n][i].port
            /\ local_vaps'[n][j].port # local_vaps[n][j].port
            => i = j
  <2>1. CASE radio = HWSIM0
    <3>1. local_vaps'[n] = WithPort(n, t, local_vaps[n])
      BY <1>1, <1>3, <2>1
    <3> QED
      BY <1>2, <1>3, <2>1, <3>1, WithPortType
  <2>2. CASE radio # HWSIM0
    BY <1>1, <2>2
  <2> QED
    BY <2>1, <2>2
<1>8. /\ DOMAIN remote_vaps'[n] = DOMAIN remote_vaps[n]
      /\ \A i \in DOMAIN remote_vaps[n] :
            \/ remote_vaps'[n][i].port = remote_vaps[n][i].port
            \/ remote_vaps'[n][i].port = g /\ radio = INJECT0
  <2>1. CASE radio = INJECT0
    <3>1. remote_vaps'[n] = WithPort(n, t, remote_vaps[n])
      BY <1>1, <1>3, <2>1
    <3> QED
      BY <1>2, <1>3, <2>1, <3>1, WithPortType
  <2>2. CASE radio # INJECT0
    BY <1>1, <2>2
  <2> QED
    BY <2>1, <2>2
<1> HIDE DEF g
<1>9. \A i \in DOMAIN local_vaps'[n] :
         /\ local_vaps'[n][i].port < g + 1
         /\ local_vaps'[n][i].port # None =>
                <<local_vaps'[n][i].port, HWSIM0>> \in table_wire_ports'[n]
  BY <1>2, <1>4, <1>5, <1>7, SMTT(30) DEF SwitchAt
<1>10. \A i \in DOMAIN remote_vaps'[n] :
         /\ remote_vaps'[n][i].port < g + 1
         /\ remote_vaps'[n][i].port # None =>
                <<remote_vaps'[n][i].port, INJECT0>> \in table_wire_ports'[n]
  BY <1>2, <1>4, <1>5, <1>8 DEF SwitchAt
<1>11. ASSUME NEW i \in DOMAIN local_vaps'[n], NEW j \in DOMAIN local_vaps'[n],
              i # j, local_vaps'[n][i].port # None,
              local_vaps'[n][i].port = local_vaps'[n][j].port
       PROVE  FALSE
  <2>1. \/ local_vaps'[n][i].port = local_vaps[n][i].port
        \/ local_vaps'[n][j].port = local_vaps[n][j].port
    BY <1>7, <1>11
  <2>2. /\ local_vaps'[n][i].port = local_vaps[n][i].port
        /\ local_vaps'[n][j].port = local_vaps[n][j].port
    BY <1>2, <1>4, <1>5, <1>7, <1>11, <2>1
  <2> QED
    BY <1>7, <1>11, <2>2, ZenonT(30) DEF SwitchAt
<1>12. ASSUME NEW i \in DOMAIN local_vaps'[n], NEW j \in DOMAIN remote_vaps'[n],
              local_vaps'[n][i].port # None,
              local_vaps'[n][i].port = remote_vaps'[n][j].port
       PROVE  FALSE
  <2>1. HWSIM0 # INJECT0
    BY DEF HWSIM0, INJECT0
  <2>2. /\ local_vaps'[n][i].port = local_vaps[n][i].port
        /\ remote_vaps'[n][j].port = remote_vaps[n][j].port
    BY <1>2, <1>4, <1>5, <1>7, <1>8, <1>12, <2>1
  <2> QED
    BY <1>7, <1>8, <1>12, <2>2, ZenonT(30) DEF SwitchAt
<1>13. port_id_generator'[n] >= 2
  BY <1>2, <1>6
<1> QED
  BY <1>2, <1>9, <1>10, <1>11, <1>12, <1>13 DEF SwitchAt

\* After a step that suspends no generate call, every thread has read nothing.
LEMMA ReadsKept ==
    ASSUME TypeInv, [Next]_vars, suspends' = suspends, suspends \in Nat, NEW n \in Node,
           NEW t \in Thread, job[n][t].read = None
    PROVE  job'[n][t].read = None
<1>1. \A pc, p, id : Job(pc, p, id).read = None
  BY DEF Job
<1>2. job \in [Node -> [Thread -> AnyJob]]
  BY DEF TypeInv
<1>3. ASSUME NEW m \in Node, NEW u \in Thread, NEW pc, NEW p, NEW id, Become(m, u, pc, p, id)
      PROVE  job'[n][t].read = None
  <2> DEFINE j == Job(pc, p, id)
  <2>1. job' = [job EXCEPT ![m][u] = j] /\ j.read = None
    BY <1>1, <1>3 DEF Become
  <2> HIDE DEF j
  <2>2. job'[n][t] = IF n = m /\ t = u THEN j ELSE job[n][t]
    BY <1>2, <2>1
  <2> QED
    BY <2>1, <2>2
<1>4. ASSUME NEW m \in Node, NEW u \in Thread, Work(m, u) PROVE job'[n][t].read = None
  BY <1>3, <1>4 DEF Work, CheckLocal, EnterLocal, request_remote_vap_setup, CheckRemote,
     EnterRemote, sent_config_to_local_vap, ConnectRemote, complete_local_vap,
     ConnectLocal, Done
<1>5. ASSUME NEW m \in Node, Run(m) PROVE job'[n][t].read = None
  <2>1. "run" \in Thread
    BY DEF Thread
  <2> QED
    BY <1>3, <1>5, <2>1 DEF Run, RunNeighbors, RunStarted, RunDrain, RunDrained,
       RunInitialize, Done, process_msg
<1>6. ASSUME NEW m \in Node, Receive(m) PROVE job'[n][t].read = None
  <2>1. "rx" \in Thread
    BY DEF Thread
  <2> QED
    BY <1>3, <1>6, <2>1 DEF Receive, RxQueue, rx_cb, RxDrop, Done, process_msg
<1>7. ASSUME NEW m \in Node, NEW p \in Node,
             newLink_cb(m, p) \/ linkFailure_cb(m, p) \/ Lose(m, p)
      PROVE  job'[n][t].read = None
  <2>1. "probe" \in Thread
    BY DEF Thread
  <2> QED
    BY <1>3, <1>7, <2>1 DEF newLink_cb, linkFailure_cb, Lose
<1>8. ASSUME NEW m \in Node, Restart(m) PROVE job'[n][t].read = None
  <2>1. job'[n] = IF n = m THEN Boot(m) ELSE job[n]
    BY <1>2, <1>8 DEF Restart
  <2> QED
    BY <2>1, BootJob
<1>9. ASSUME NEW m \in Node, NEW u \in Thread, SuspendGenerate(m, u) PROVE FALSE
  BY <1>9 DEF SuspendGenerate
<1>10. CASE UNCHANGED vars
  BY <1>10 DEF vars
<1> QED
  BY <1>4, <1>5, <1>6, <1>7, <1>8, <1>9, <1>10 DEF Next

\* Each step of the VapManager keeps the wiring.
LEMMA WorkSwitch ==
    ASSUME TypeInv, NEW n \in Node, NEW t \in Thread, Work(n, t), NEW m \in Node, SwitchAt(m),
           \A u \in Thread : job'[m][u].read = None
    PROVE  SwitchAt(m)'
<1>1. /\ port_id_generator[m] \in Nat /\ local_vaps[m] \in Seq(Vap)
      /\ remote_vaps[m] \in Seq(Vap)
      /\ local_vaps \in [Node -> Seq(Vap)] /\ remote_vaps \in [Node -> Seq(Vap)]
  BY DEF TypeInv, TypeOK
<1>2. CASE UNCHANGED <<local_vaps, remote_vaps, port_id_generator, table_wire_ports>>
  BY <1>2, MoveSwitch
<1>3. CASE EnterLocal(n, t)
  <2>1. UNCHANGED <<remote_vaps, port_id_generator, table_wire_ports>>
    BY <1>3 DEF EnterLocal, p4Vars
  <2>2. PICK v \in Vap :
           /\ v.port = None
           /\ \A q \in Node : local_vaps'[q] = IF q = n THEN Append(local_vaps[n], v)
                                              ELSE local_vaps[q]
    BY <1>3, EnterLocalStep
  <2>3. CASE m # n
    BY <2>1, <2>2, <2>3, MoveSwitch
  <2>4. CASE m = n
    <3>1. /\ DOMAIN local_vaps'[m] = 1..(Len(local_vaps[m]) + 1) /\ Len(local_vaps[m]) \in Nat
          /\ DOMAIN local_vaps[m] = 1..Len(local_vaps[m])
          /\ \A i \in 1..Len(local_vaps[m]) : local_vaps'[m][i] = local_vaps[m][i]
          /\ local_vaps'[m][Len(local_vaps[m]) + 1] = v
      <4>1. local_vaps'[m] = Append(local_vaps[m], v)
        BY <2>2, <2>4
      <4> QED
        BY <1>1, <4>1, ListAppended
    <3>2. \A i \in DOMAIN local_vaps'[m] : local_vaps'[m][i].port # None =>
              i \in DOMAIN local_vaps[m] /\ local_vaps'[m][i] = local_vaps[m][i]
      BY <2>2, <3>1
    <3>3. DOMAIN local_vaps'[m] \subseteq Nat
      BY <1>1, <3>1
    <3> DEFINE f == [i \in Nat |-> i]
    <3>4. PortsFrom(f, local_vaps'[m], local_vaps[m])
      BY <3>2, <3>3 DEF PortsFrom
    <3>5. PortsAmong(remote_vaps'[m], remote_vaps[m])
      BY <2>1 DEF PortsAmong
    <3> HIDE DEF f
    <3> QED
      BY <1>1, <2>1, <3>4, <3>5, KeepSwitch
  <2> QED
    BY <2>3, <2>4
<1>4. CASE EnterRemote(n, t)
  <2>1. UNCHANGED <<local_vaps, port_id_generator, table_wire_ports>>
    BY <1>4 DEF EnterRemote, p4Vars
  <2>2. PICK v \in Vap :
           /\ v.port = None
           /\ \A q \in Node : remote_vaps'[q] = IF q = n THEN Append(remote_vaps[n], v)
                                               ELSE remote_vaps[q]
    BY <1>4, EnterRemoteStep
  <2>3. CASE m # n
    BY <2>1, <2>2, <2>3, MoveSwitch
  <2>4. CASE m = n
    <3>1. /\ DOMAIN remote_vaps'[m] = 1..(Len(remote_vaps[m]) + 1) /\ Len(remote_vaps[m]) \in Nat
          /\ DOMAIN remote_vaps[m] = 1..Len(remote_vaps[m])
          /\ \A i \in 1..Len(remote_vaps[m]) : remote_vaps'[m][i] = remote_vaps[m][i]
          /\ remote_vaps'[m][Len(remote_vaps[m]) + 1] = v
      <4>1. remote_vaps'[m] = Append(remote_vaps[m], v)
        BY <2>2, <2>4
      <4> QED
        BY <1>1, <4>1, ListAppended
    <3>2. \A i \in DOMAIN remote_vaps'[m] : remote_vaps'[m][i].port # None =>
              i \in DOMAIN remote_vaps[m] /\ remote_vaps'[m][i] = remote_vaps[m][i]
      BY <2>2, <3>1
    <3>3. DOMAIN local_vaps'[m] \subseteq Nat
      BY <1>1, <2>1
    <3> DEFINE f == [i \in Nat |-> i]
    <3>4. PortsFrom(f, local_vaps'[m], local_vaps[m])
      BY <2>1, <3>3 DEF PortsFrom
    <3>5. PortsAmong(remote_vaps'[m], remote_vaps[m])
      BY <3>2 DEF PortsAmong
    <3> HIDE DEF f
    <3> QED
      BY <1>1, <2>1, <3>4, <3>5, KeepSwitch
  <2> QED
    BY <2>3, <2>4
<1>5. CASE complete_local_vap(n, t)
  <2>1. UNCHANGED <<remote_vaps, port_id_generator, table_wire_ports>>
    BY <1>5 DEF complete_local_vap, p4Vars
  <2>2. CASE Places(local_vaps[n], job[n][t].with) = {}
    BY <1>2, <1>5, <2>1, <2>2 DEF complete_local_vap
  <2>3. CASE Places(local_vaps[n], job[n][t].with) # {}
    <3>1. PICK i \in DOMAIN local_vaps[n], v \in Vap :
             /\ v.port = local_vaps[n][i].port
             /\ \A q \in Node : q # n => local_vaps'[q] = local_vaps[q]
             /\ DOMAIN local_vaps'[n] = DOMAIN local_vaps[n]
             /\ \A j \in DOMAIN local_vaps[n] :
                   local_vaps'[n][j] = IF j = i THEN v ELSE local_vaps[n][j]
      BY <1>5, <2>3, CompleteStep
    <3>2. CASE m # n
      BY <2>1, <3>1, <3>2, MoveSwitch
    <3>3. CASE m = n
      <4> DEFINE f == [j \in Nat |-> j]
      <4>1. \A j \in DOMAIN local_vaps'[m] :
               /\ j \in DOMAIN local_vaps[m] /\ j \in Nat
               /\ local_vaps'[m][j].port = local_vaps[m][j].port
        <5>1. DOMAIN local_vaps[m] \subseteq Nat
          BY <1>1
        <5> QED
          BY <3>1, <3>3, <5>1
      <4>2. PortsFrom(f, local_vaps'[m], local_vaps[m])
        BY <4>1 DEF PortsFrom
      <4>3. PortsAmong(remote_vaps'[m], remote_vaps[m])
        BY <2>1 DEF PortsAmong
      <4> HIDE DEF f
      <4> QED
        BY <1>1, <2>1, <4>2, <4>3, KeepSwitch
    <3> QED
      BY <3>2, <3>3
  <2> QED
    BY <2>2, <2>3
<1>6. CASE ConnectLocal(n, t) \/ ConnectRemote(n, t)
  <2>1. CASE m = n
    BY <1>6, <2>1, ConnectSwitch
  <2>2. CASE m # n
    <3>1. /\ port_id_generator'[m] = port_id_generator[m]
          /\ table_wire_ports'[m] = table_wire_ports[m]
      BY <1>6, <2>2 DEF ConnectLocal, ConnectRemote, Connect, Generate, TypeInv, TypeOK
    <3>2. local_vaps'[m] = local_vaps[m] /\ remote_vaps'[m] = remote_vaps[m]
      BY <1>1, <1>6, <2>2 DEF ConnectLocal, ConnectRemote
    <3> QED
      BY <3>1, <3>2, MoveSwitch
  <2> QED
    BY <2>1, <2>2
<1> QED
  BY <1>2, <1>3, <1>4, <1>5, <1>6 DEF Work, CheckLocal, request_remote_vap_setup,
     CheckRemote, sent_config_to_local_vap, vapVars, p4Vars

\* The VAPs that are left when one is removed keep their ports.
LEMMA FailureSwitch ==
    ASSUME TypeInv, NEW n \in Node, NEW p \in Node, linkFailure_cb(n, p), NEW m \in Node,
           SwitchAt(m), \A u \in Thread : job'[m][u].read = None
    PROVE  SwitchAt(m)'
<1>1. UNCHANGED <<remote_vaps, port_id_generator, table_wire_ports>>
  BY DEF linkFailure_cb, p4Vars
<1>2. /\ port_id_generator[m] \in Nat /\ local_vaps[n] \in Seq(Vap)
  BY DEF TypeInv, TypeOK
<1>3. CASE local_vaps'[m] = local_vaps[m]
  BY <1>1, <1>3, MoveSwitch
<1>4. ASSUME m = n, NEW i \in DOMAIN local_vaps[n], local_vaps'[n] = Without(local_vaps[n], i)
      PROVE  SwitchAt(m)'
  <2> DEFINE f == [j \in Nat |-> IF j < i THEN j ELSE j + 1]
  <2>1. /\ DOMAIN local_vaps'[n] = 1..(Len(local_vaps[n]) - 1)
        /\ \A j \in 1..(Len(local_vaps[n]) - 1) :
              local_vaps'[n][j] = IF j < i THEN local_vaps[n][j] ELSE local_vaps[n][j + 1]
    BY <1>2, <1>4, WithoutEntry
  <2>2. DOMAIN local_vaps[n] = 1..Len(local_vaps[n]) /\ Len(local_vaps[n]) \in Nat
    BY <1>2
  <2> DEFINE L == Len(local_vaps[n])
  <2>3. L \in Nat /\ i \in 1..L /\ \A j \in Nat : f[j] = IF j < i THEN j ELSE j + 1
    BY <2>2
  <2> HIDE DEF L, f
  <2>4. ASSUME NEW j \in 1..(L - 1) PROVE f[j] \in 1..L /\ local_vaps'[n][j] = local_vaps[n][f[j]]
    <3>1. j \in Nat /\ j < L
      BY <2>3
    <3>2. f[j] = IF j < i THEN j ELSE j + 1
      BY <2>3, <3>1
    <3>3. local_vaps'[n][j] = IF j < i THEN local_vaps[n][j] ELSE local_vaps[n][j + 1]
      BY <2>1 DEF L
    <3> QED
      BY <2>3, <3>1, <3>2, <3>3
  <2>5. PortsFrom(f, local_vaps'[n], local_vaps[n])
    <3>1. ASSUME NEW j \in 1..(L - 1), NEW k \in 1..(L - 1), j # k PROVE f[j] # f[k]
      <4>1. j \in Nat /\ k \in Nat
        BY <2>3
      <4>2. f[j] = (IF j < i THEN j ELSE j + 1) /\ f[k] = IF k < i THEN k ELSE k + 1
        BY <2>3, <4>1
      <4> QED
        BY <2>3, <3>1, <4>1, <4>2
    <3>2. DOMAIN local_vaps'[n] = 1..(L - 1) /\ DOMAIN local_vaps[n] = 1..L
      BY <2>1, <2>2 DEF L
    <3> QED
      BY <2>4, <3>1, <3>2 DEF PortsFrom
  <2>6. PortsAmong(remote_vaps'[n], remote_vaps[n])
    BY <1>1 DEF PortsAmong
  <2> QED
    BY <1>1, <1>2, <1>4, <2>5, <2>6, KeepSwitch
<1> QED
  BY <1>3, <1>4, FailureStep

\* An access point that starts has nothing wired.
LEMMA RestartSwitch ==
    ASSUME TypeInv, NEW n \in Node, Restart(n), NEW m \in Node, SwitchAt(m),
           \A u \in Thread : job'[m][u].read = None
    PROVE  SwitchAt(m)'
<1>1. CASE m = n
  <2>1. /\ port_id_generator'[m] = 2 /\ table_wire_ports'[m] = {}
        /\ local_vaps'[m] = <<>> /\ remote_vaps'[m] = <<>>
    BY <1>1 DEF Restart, TypeInv, TypeOK
  <2> QED
    BY <2>1 DEF SwitchAt, Wires
<1>2. CASE m # n
  <2>1. /\ port_id_generator'[m] = port_id_generator[m]
        /\ table_wire_ports'[m] = table_wire_ports[m]
        /\ local_vaps'[m] = local_vaps[m] /\ remote_vaps'[m] = remote_vaps[m]
    BY <1>2 DEF Restart, TypeInv, TypeOK
  <2> QED
    BY <2>1, MoveSwitch
<1> QED
  BY <1>1, <1>2

\* Only a suspension is counted as one.
LEMMA OnlySuspend ==
    ASSUME [Next]_vars
    PROVE  suspends' = suspends \/ \E n \in Node, t \in Thread : SuspendGenerate(n, t)
<1>1. ASSUME NEW n \in Node, NEW t \in Thread, Work(n, t) PROVE suspends' = suspends
  BY <1>1 DEF Work, CheckLocal, EnterLocal, request_remote_vap_setup, CheckRemote,
     EnterRemote, sent_config_to_local_vap, ConnectRemote, complete_local_vap,
     ConnectLocal, bounds
<1>2. ASSUME NEW n \in Node, Run(n) \/ Receive(n) PROVE suspends' = suspends
  BY <1>2 DEF Run, RunNeighbors, RunStarted, RunDrain, RunDrained, RunInitialize, Receive,
     RxQueue, rx_cb, RxDrop, bounds
<1>3. ASSUME NEW n \in Node, NEW p \in Node,
             newLink_cb(n, p) \/ linkFailure_cb(n, p) \/ Lose(n, p)
      PROVE  suspends' = suspends
  BY <1>3 DEF newLink_cb, linkFailure_cb, Lose
<1>4. ASSUME NEW n \in Node, Restart(n) PROVE suspends' = suspends
  BY <1>4 DEF Restart
<1>5. CASE UNCHANGED vars
  BY <1>5 DEF vars, bounds
<1> QED
  BY <1>1, <1>2, <1>3, <1>4, <1>5 DEF Next

\* The wiring is kept.
LEMMA SwitchKept == Spec => []SwitchInv
<1>1. Init => SwitchInv
  <2> SUFFICES ASSUME Init, NEW n \in Node PROVE SwitchAt(n) /\ suspends = 0
    BY DEF SwitchInv, Init
  <2>1. /\ port_id_generator[n] = 2 /\ table_wire_ports[n] = {}
        /\ local_vaps[n] = <<>> /\ remote_vaps[n] = <<>> /\ job[n] = Boot(n)
    BY DEF Init
  <2>2. \A t \in Thread : job[n][t].read = None
    BY <2>1, BootJob
  <2> QED
    BY <2>1, <2>2 DEF SwitchAt, Wires, Init
<1>2. TypeInv /\ SwitchInv /\ [Next]_vars
      => SwitchInv'
  <2> SUFFICES ASSUME TypeInv, SwitchInv, [Next]_vars
               PROVE  SwitchInv'
    OBVIOUS
  <2>1. ASSUME NEW n \in Node, NEW t \in Thread, SuspendGenerate(n, t)
        PROVE  SwitchInv'
    <3>1. suspends' = suspends + 1
      BY <2>1 DEF SuspendGenerate
    <3>2. suspends' \in Nat /\ suspends' # 0
      BY <3>1 DEF SwitchInv
    <3> QED
      BY <3>2 DEF SwitchInv
  <2>2. CASE suspends' = suspends
    <3> SUFFICES ASSUME suspends = 0, NEW m \in Node PROVE SwitchAt(m)'
      BY <2>2 DEF SwitchInv
    <3>1. SwitchAt(m)
      BY DEF SwitchInv
    <3>2. \A t \in Thread : job'[m][t].read = None
      BY <2>2, <3>1, ReadsKept DEF SwitchAt, SwitchInv
    <3>3. CASE UNCHANGED <<local_vaps, remote_vaps, port_id_generator, table_wire_ports>>
      BY <3>1, <3>2, <3>3, MoveSwitch
    <3>4. ASSUME NEW n \in Node, NEW t \in Thread, Work(n, t) PROVE SwitchAt(m)'
      BY <3>1, <3>2, <3>4, WorkSwitch
    <3>5. ASSUME NEW n \in Node, Run(n) \/ Receive(n) PROVE SwitchAt(m)'
      BY <3>3, <3>5 DEF Run, Receive, RunNeighbors, RunStarted, RunDrain, RunDrained,
         RunInitialize, RxQueue, rx_cb, RxDrop, vapVars, p4Vars
    <3>6. ASSUME NEW n \in Node, NEW p \in Node, newLink_cb(n, p) \/ Lose(n, p)
          PROVE  SwitchAt(m)'
      BY <3>3, <3>6 DEF newLink_cb, Lose, vapVars, p4Vars
    <3>7. ASSUME NEW n \in Node, NEW p \in Node, linkFailure_cb(n, p) PROVE SwitchAt(m)'
      BY <3>1, <3>2, <3>7, FailureSwitch
    <3>8. ASSUME NEW n \in Node, Restart(n) PROVE SwitchAt(m)'
      BY <3>1, <3>2, <3>8, RestartSwitch
    <3>9. ASSUME NEW n \in Node, NEW t \in Thread, SuspendGenerate(n, t) PROVE FALSE
      BY <2>2, <3>9 DEF SuspendGenerate, SwitchInv
    <3>10. CASE UNCHANGED vars
      BY <3>3, <3>10 DEF vars, vapVars, p4Vars
    <3> QED
      BY <3>4, <3>5, <3>6, <3>7, <3>8, <3>9, <3>10 DEF Next
  <2>3. \/ suspends' = suspends
        \/ \E n \in Node, t \in Thread : SuspendGenerate(n, t)
    BY OnlySuspend
  <2> QED
    BY <2>1, <2>2, <2>3
<1> QED
  BY <1>1, <1>2, TypeKept, PTL DEF Spec

\* As long as no thread switch falls into a generate call, a port of the P4 switch
\* belongs to one VAP and leads to one radio, for any number of neighbours that come,
\* go and restart: generate_port_id never hands out a number that is still wired or
\* noted in a VAP, also of a tunnel whose VAP is gone.
THEOREM VapPortsApart == Spec => [](suspends = 0 => PortsApart)
<1>1. SwitchInv => (suspends = 0 => PortsApart)
  <2> SUFFICES ASSUME SwitchInv, suspends = 0, NEW n \in Node, SwitchAt(n)
               PROVE  /\ \A e, f \in table_wire_ports[n] : e[1] = f[1] => e = f
                      /\ \A i, j \in DOMAIN local_vaps[n] :
                            i # j /\ local_vaps[n][i].port # None =>
                                local_vaps[n][i].port # local_vaps[n][j].port
                      /\ \A i \in DOMAIN local_vaps[n], j \in DOMAIN remote_vaps[n] :
                            local_vaps[n][i].port # None =>
                                local_vaps[n][i].port # remote_vaps[n][j].port
    BY DEF PortsApart, SwitchInv
  <2> QED
    BY DEF SwitchAt, Wires
<1> QED
  BY <1>1, SwitchKept, PTL

\* Under the same condition every connected tunnel is wired to its radio, and the
\* tunnel a radio is wired to is wired to that radio, whichever was connected first
\* and whatever became of it: the switch refuses a second entry for a radio, and
\* start_forwarding_frames never changes one.
THEOREM VapWiringPaired == Spec => [](suspends = 0 => WiringPaired)
<1>1. SwitchInv => (suspends = 0 => WiringPaired)
  <2> SUFFICES ASSUME SwitchInv, suspends = 0, NEW n \in Node, SwitchAt(n)
               PROVE  /\ \A i \in DOMAIN local_vaps[n] : local_vaps[n][i].port # None =>
                            <<local_vaps[n][i].port, HWSIM0>> \in table_wire_ports[n]
                      /\ \A i \in DOMAIN remote_vaps[n] : remote_vaps[n][i].port # None =>
                            <<remote_vaps[n][i].port, INJECT0>> \in table_wire_ports[n]
                      /\ \A e \in table_wire_ports[n] : e[1] \in {HWSIM0, INJECT0} =>
                            <<e[2], e[1]>> \in table_wire_ports[n]
    BY DEF WiringPaired, SwitchInv
  <2> QED
    BY DEF SwitchAt, Wires
<1> QED
  BY <1>1, SwitchKept, PTL

-----------------------------------------------------------------------------
(* The ends of a tunnel                                                    *)

\* Of the requests of n to p only such with a number in R are on their way or have
\* been entered by p, and of the answers of p to n only such with a number in A: in
\* the jobs of the threads, the channels, the queues and the lists of VAPs.
CallerJob(j, p, R, A) ==
    j.with = p => /\ j.pc = "request" => j.id \in R
                  /\ j.pc \in {"queueCompleted", "complete"} => j.id \in A

ServerJob(j, n, R, A) ==
    j.with = n => /\ j.pc \in {"queueRequest", "create", "admit"} => j.id \in R
                  /\ j.pc = "answer" => j.id \in A

RequestMsg(R) == {m \in Message : m.type = "request" => m.id \in R}
AnswerMsg(A) == {m \in Message : m.type # "request" => m.id \in A}
RequestQueue(n, R) == {e \in Queued : e.from = n => e.msg \in RequestMsg(R)}
AnswerQueue(p, A) == {e \in Queued : e.from = p => e.msg \in AnswerMsg(A)}
RequestVap(n, R) == {v \in Vap : v.neighbor = n => v.peer \in R}
AnswerVap(p, A) == {v \in Vap : v.neighbor = p /\ v.peer # None => v.peer \in A}

JobTokens(n, p, R, A) ==
    /\ \A t \in Thread : CallerJob(job[n][t], p, R, A)
    /\ \A t \in Thread : ServerJob(job[p][t], n, R, A)
ChanTokens(n, p, R, A) == chan[n][p] \in Seq(RequestMsg(R)) /\ chan[p][n] \in Seq(AnswerMsg(A))
QueueTokens(n, p, R, A) ==
    msgQueue[p] \in Seq(RequestQueue(n, R)) /\ msgQueue[n] \in Seq(AnswerQueue(p, A))
VapTokens(n, p, R, A) ==
    remote_vaps[p] \in Seq(RequestVap(n, R)) /\ local_vaps[n] \in Seq(AnswerVap(p, A))

Tokens(n, p, R, A) ==
    /\ JobTokens(n, p, R, A)
    /\ ChanTokens(n, p, R, A)
    /\ QueueTokens(n, p, R, A)
    /\ VapTokens(n, p, R, A)

\* A list with entries of a set is one with entries of a larger set.
LEMMA SeqWider ==
    ASSUME NEW S, NEW T, S \subseteq T, NEW s \in Seq(S)
    PROVE  s \in Seq(T)
  OBVIOUS

\* Larger sets of numbers allow more.
LEMMA TokensWider ==
    ASSUME NEW n, NEW p, NEW R, NEW A, NEW R2, NEW A2, R \subseteq R2, A \subseteq A2,
           Tokens(n, p, R, A)
    PROVE  Tokens(n, p, R2, A2)
<1>1. /\ RequestMsg(R) \subseteq RequestMsg(R2) /\ AnswerMsg(A) \subseteq AnswerMsg(A2)
  BY DEF RequestMsg, AnswerMsg
<1>2. /\ RequestQueue(n, R) \subseteq RequestQueue(n, R2)
      /\ AnswerQueue(p, A) \subseteq AnswerQueue(p, A2)
  BY <1>1 DEF RequestQueue, AnswerQueue
<1>3. RequestVap(n, R) \subseteq RequestVap(n, R2) /\ AnswerVap(p, A) \subseteq AnswerVap(p, A2)
  BY DEF RequestVap, AnswerVap
<1>4. JobTokens(n, p, R2, A2)
  BY DEF Tokens, JobTokens, CallerJob, ServerJob
<1>5. ChanTokens(n, p, R2, A2)
  BY <1>1, SeqWider DEF Tokens, ChanTokens
<1>6. QueueTokens(n, p, R2, A2)
  BY <1>2, SeqWider DEF Tokens, QueueTokens
<1>7. VapTokens(n, p, R2, A2)
  BY <1>3, SeqWider DEF Tokens, VapTokens
<1> QED
  BY <1>4, <1>5, <1>6, <1>7 DEF Tokens

\* A thread that takes up a job with allowed numbers.
LEMMA JobsBecome ==
    ASSUME TypeInv, NEW n \in Node, NEW p \in Node, NEW R, NEW A, JobTokens(n, p, R, A),
           NEW m \in Node, NEW u \in Thread, NEW pc \in Place(u), NEW q \in Node,
           NEW id \in Nat, Become(m, u, pc, q, id),
           m = n => CallerJob(Job(pc, q, id), p, R, A),
           m = p => ServerJob(Job(pc, q, id), n, R, A)
    PROVE  JobTokens(n, p, R, A)'
<1>1. \A o \in Node, t \in Thread :
         job'[o][t] = IF o = m /\ t = u THEN Job(pc, q, id) ELSE job[o][t]
  BY BecomeJob
<1>2. ASSUME NEW t \in Thread PROVE CallerJob(job'[n][t], p, R, A)
  BY <1>1 DEF JobTokens
<1>3. ASSUME NEW t \in Thread PROVE ServerJob(job'[p][t], n, R, A)
  BY <1>1 DEF JobTokens
<1> QED
  BY <1>2, <1>3 DEF JobTokens, CallerJob, ServerJob

\* A thread that goes on with a job that has no number of a request or an answer.
LEMMA JobsOther ==
    ASSUME TypeInv, NEW n \in Node, NEW p \in Node, NEW R, NEW A, JobTokens(n, p, R, A),
           NEW m \in Node, NEW u \in Thread,
           \/ Done(m, u)
           \/ \E pc \in Place(u) \cap {"initialize", "enter", "terminate", "connect", "sleep",
                                       "loop", "control", "idle"}, q \in Node, id \in Nat :
                 Become(m, u, pc, q, id)
    PROVE  JobTokens(n, p, R, A)'
<1>1. \E pc \in Place(u) \cap {"initialize", "enter", "terminate", "connect", "sleep",
                               "loop", "control", "idle"}, q \in Node, id \in Nat :
         Become(m, u, pc, q, id)
  <2>1. Home(u) \in {"loop", "idle"} /\ Home(u) \in Place(u) /\ None \in Nat
    BY SharedPlaces DEF Home, None
  <2> QED
    BY <2>1 DEF Done
<1>2. PICK pc \in Place(u) \cap {"initialize", "enter", "terminate", "connect", "sleep",
                                 "loop", "control", "idle"}, q \in Node, id \in Nat :
         Become(m, u, pc, q, id)
  BY <1>1
<1>3. CallerJob(Job(pc, q, id), p, R, A) /\ ServerJob(Job(pc, q, id), n, R, A)
  BY DEF CallerJob, ServerJob, Job
<1> QED
  BY <1>2, <1>3, JobsBecome

\* An entry is appended, or not.
LEMMA SeqAppended ==
    ASSUME NEW S, NEW s \in Seq(S), NEW e, e \in S, NEW r, r = s \/ r = Append(s, e)
    PROVE  r \in Seq(S)
  OBVIOUS

\* The steps of the VapManager pass numbers on: of n to the requests, of p to the
\* answers, and each to the VAP the message is about.
LEMMA WorkTokens ==
    ASSUME TypeInv, NEW n \in Node, NEW p \in Node, NEW R, NEW A, Tokens(n, p, R, A),
           NEW m \in Node, NEW u \in Thread, Work(m, u),
           EnterLocal(m, u) /\ m = n /\ job[m][u].with = p => Generated(m, u, generator) \in R,
           EnterRemote(m, u) /\ m = p /\ job[m][u].with = n => Generated(m, u, generator) \in A
    PROVE  Tokens(n, p, R, A)'
<1> DEFINE q == job[m][u].with
           id == job[m][u].id
<1>1. q \in Node /\ id \in Nat /\ None \in Nat
  BY JobFields DEF None
<1>2. {"initialize", "enter", "request", "create", "admit", "answer", "terminate",
       "complete", "connect"} \subseteq Place(u)
  BY SharedPlaces
<1>3. Generated(m, u, generator) \in Nat
  BY GenerateType
<1>4. /\ JobTokens(n, p, R, A) /\ ChanTokens(n, p, R, A) /\ QueueTokens(n, p, R, A)
      /\ VapTokens(n, p, R, A)
  BY DEF Tokens
<1>5. /\ local_vaps \in [Node -> Seq(Vap)] /\ remote_vaps \in [Node -> Seq(Vap)]
  BY DEF TypeInv, TypeOK
<1>6. QueueTokens(n, p, R, A)'
  <2>1. msgQueue' = msgQueue
    BY DEF Work, CheckLocal, EnterLocal, request_remote_vap_setup, CheckRemote,
     EnterRemote, sent_config_to_local_vap, ConnectRemote, complete_local_vap,
     ConnectLocal, runVars
  <2> QED
    BY <1>4, <2>1 DEF QueueTokens
<1>8. CASE CheckLocal(m, u)
  <2>1. Done(m, u) \/ Become(m, u, "enter", q, None)
    BY <1>8 DEF CheckLocal
  <2>2. "enter" \in Place(u)
    BY <1>2
  <2>3. VapTokens(n, p, R, A)' /\ ChanTokens(n, p, R, A)'
    BY <1>4, <1>8 DEF CheckLocal, VapTokens, vapVars, ChanTokens
  <2> HIDE DEF q
  <2>4. JobTokens(n, p, R, A)'
    BY <1>1, <1>4, <2>1, <2>2, JobsOther
  <2> QED
    BY <1>6, <2>3, <2>4 DEF Tokens
<1>9. CASE CheckRemote(m, u)
  <2>1. /\ Done(m, u) \/ Become(m, u, "admit", q, id)
        /\ job[m][u].pc = "create"
    BY <1>9 DEF CheckRemote, Doing
  <2>2. "admit" \in Place(u)
    BY <1>2
  <2>3. VapTokens(n, p, R, A)' /\ ChanTokens(n, p, R, A)'
    BY <1>4, <1>9 DEF CheckRemote, VapTokens, vapVars, ChanTokens
  <2>4. /\ CallerJob(Job("admit", q, id), p, R, A)
        /\ m = p => ServerJob(Job("admit", q, id), n, R, A)
    BY <1>4, <2>1 DEF CallerJob, ServerJob, Job, JobTokens
  <2> HIDE DEF q, id
  <2>5. CASE Done(m, u)
    <3>1. JobTokens(n, p, R, A)'
      BY <1>4, <2>5, JobsOther
    <3> QED
      BY <1>6, <2>3, <3>1 DEF Tokens
  <2>6. CASE Become(m, u, "admit", q, id)
    <3>1. JobTokens(n, p, R, A)'
      BY <1>1, <1>4, <2>2, <2>4, <2>6, JobsBecome
    <3> QED
      BY <1>6, <2>3, <3>1 DEF Tokens
  <2> QED
    BY <2>1, <2>5, <2>6
<1>10. CASE EnterLocal(m, u)
  <2>1. Become(m, u, "request", q, Generated(m, u, generator))
    BY <1>10 DEF EnterLocal
  <2>2. "request" \in Place(u)
    BY <1>2
  <2>3. PICK v \in Vap :
           /\ v.neighbor = q /\ v.id = Generated(m, u, generator)
           /\ v.peer = None /\ v.port = None
           /\ local_vaps' \in [Node -> Seq(Vap)]
           /\ \A o \in Node : local_vaps'[o] = IF o = m THEN Append(local_vaps[m], v)
                                                        ELSE local_vaps[o]
    BY <1>10, EnterLocalStep
  <2>4. v \in AnswerVap(p, A)
    BY <2>3 DEF AnswerVap
  <2>5. remote_vaps' = remote_vaps
    BY <1>10 DEF EnterLocal
  <2>6. VapTokens(n, p, R, A)'
    <3>1. local_vaps'[n] = local_vaps[n] \/ local_vaps'[n] = Append(local_vaps[n], v)
      BY <2>3
    <3>2. local_vaps'[n] \in Seq(AnswerVap(p, A))
      BY <1>4, <2>4, <3>1, SeqAppended DEF VapTokens
    <3> QED
      BY <1>4, <2>5, <3>2 DEF VapTokens
  <2>7. ChanTokens(n, p, R, A)'
    BY <1>4, <1>10 DEF EnterLocal, ChanTokens
  <2> DEFINE g == Generated(m, u, generator)
  <2>8. /\ m = n => CallerJob(Job("request", q, g), p, R, A)
        /\ ServerJob(Job("request", q, g), n, R, A)
    BY <1>10 DEF CallerJob, ServerJob, Job
  <2> HIDE DEF q, g
  <2>9. JobTokens(n, p, R, A)'
    BY <1>1, <1>3, <1>4, <2>1, <2>2, <2>8, JobsBecome DEF g
  <2> QED
    BY <1>6, <2>6, <2>7, <2>9 DEF Tokens
<1>11. CASE EnterRemote(m, u)
  <2>1. Become(m, u, "answer", q, Generated(m, u, generator)) /\ job[m][u].pc = "admit"
    BY <1>11 DEF EnterRemote, Doing
  <2>2. "answer" \in Place(u)
    BY <1>2
  <2>3. PICK v \in Vap :
           /\ v.neighbor = q /\ v.id = Generated(m, u, generator)
           /\ v.peer = id /\ v.port = None
           /\ remote_vaps' \in [Node -> Seq(Vap)]
           /\ \A o \in Node : remote_vaps'[o] = IF o = m THEN Append(remote_vaps[m], v)
                                                         ELSE remote_vaps[o]
    BY <1>11, EnterRemoteStep
  <2>4. m = p => v \in RequestVap(n, R)
    BY <1>4, <2>1, <2>3 DEF RequestVap, JobTokens, ServerJob
  <2>5. local_vaps' = local_vaps
    BY <1>11 DEF EnterRemote
  <2>6. VapTokens(n, p, R, A)'
    <3>1. \/ remote_vaps'[p] = remote_vaps[p]
          \/ m = p /\ remote_vaps'[p] = Append(remote_vaps[p], v)
      BY <2>3
    <3>2. remote_vaps'[p] \in Seq(RequestVap(n, R))
      BY <1>4, <2>4, <3>1, SeqAppended DEF VapTokens
    <3> QED
      BY <1>4, <2>5, <3>2 DEF VapTokens
  <2>7. ChanTokens(n, p, R, A)'
    BY <1>4, <1>11 DEF EnterRemote, ChanTokens
  <2> DEFINE g == Generated(m, u, generator)
  <2>8. /\ CallerJob(Job("answer", q, g), p, R, A)
        /\ m = p => ServerJob(Job("answer", q, g), n, R, A)
    BY <1>11 DEF CallerJob, ServerJob, Job
  <2> HIDE DEF q, g
  <2>9. JobTokens(n, p, R, A)'
    BY <1>1, <1>3, <1>4, <2>1, <2>2, <2>8, JobsBecome DEF g
  <2> QED
    BY <1>6, <2>6, <2>7, <2>9 DEF Tokens
<1>12. CASE request_remote_vap_setup(m, u)
  <2> DEFINE msg == [type |-> "request", id |-> id]
  <2>1. sendToNeighbor(m, u, q, msg) /\ Done(m, u) /\ job[m][u].pc = "request"
    BY <1>12 DEF request_remote_vap_setup, Doing
  <2>2. /\ msg \in Message /\ msg \in AnswerMsg(A)
        /\ m = n /\ q = p => msg \in RequestMsg(R)
    BY <1>1, <1>4, <2>1 DEF Message, AnswerMsg, RequestMsg, JobTokens, CallerJob
  <2>3. VapTokens(n, p, R, A)'
    BY <1>4, <1>12 DEF request_remote_vap_setup, VapTokens, vapVars
  <2> HIDE DEF msg, q, id
  <2>4. \A a, b \in Node : \/ chan'[a][b] = chan[a][b]
                           \/ /\ a = m /\ b = q
                              /\ chan'[a][b] = Append(chan[a][b], msg)
    BY <1>1, <2>1, <2>2, SendStep
  <2>5. ChanTokens(n, p, R, A)'
    <3>1. chan'[n][p] \in Seq(RequestMsg(R))
      BY <1>4, <2>2, <2>4, SeqAppended DEF ChanTokens
    <3>2. chan'[p][n] \in Seq(AnswerMsg(A))
      BY <1>4, <2>2, <2>4, SeqAppended DEF ChanTokens
    <3> QED
      BY <3>1, <3>2 DEF ChanTokens
  <2>6. JobTokens(n, p, R, A)'
    BY <1>4, <2>1, JobsOther
  <2> QED
    BY <1>6, <2>3, <2>5, <2>6 DEF Tokens
<1>13. CASE sent_config_to_local_vap(m, u)
  <2> DEFINE msg == [type |-> "completed", id |-> id]
  <2>1. /\ sendToNeighbor(m, u, q, msg) /\ Become(m, u, "terminate", q, id)
        /\ job[m][u].pc = "answer"
    BY <1>13 DEF sent_config_to_local_vap, Doing
  <2>2. /\ msg \in Message /\ msg \in RequestMsg(R)
        /\ m = p /\ q = n => msg \in AnswerMsg(A)
    BY <1>1, <1>4, <2>1 DEF Message, AnswerMsg, RequestMsg, JobTokens, ServerJob
  <2>3. VapTokens(n, p, R, A)'
    BY <1>4, <1>13 DEF sent_config_to_local_vap, VapTokens, vapVars
  <2>4. "terminate" \in Place(u)
    BY <1>2
  <2> HIDE DEF msg, q, id
  <2>5. \A a, b \in Node : \/ chan'[a][b] = chan[a][b]
                           \/ /\ a = m /\ b = q
                              /\ chan'[a][b] = Append(chan[a][b], msg)
    BY <1>1, <2>1, <2>2, SendStep
  <2>6. ChanTokens(n, p, R, A)'
    <3>1. chan'[n][p] \in Seq(RequestMsg(R))
      BY <1>4, <2>2, <2>5, SeqAppended DEF ChanTokens
    <3>2. chan'[p][n] \in Seq(AnswerMsg(A))
      BY <1>4, <2>2, <2>5, SeqAppended DEF ChanTokens
    <3> QED
      BY <3>1, <3>2 DEF ChanTokens
  <2>7. JobTokens(n, p, R, A)'
    BY <1>1, <1>4, <2>1, <2>4, JobsOther
  <2> QED
    BY <1>6, <2>3, <2>6, <2>7 DEF Tokens
<1>14. CASE ConnectRemote(m, u)
  <2>1. /\ remote_vaps' = [remote_vaps EXCEPT ![m] = WithPort(m, u, @)]
        /\ local_vaps' = local_vaps /\ chan' = chan /\ Done(m, u)
    BY <1>14 DEF ConnectRemote
  <2>2. /\ WithPort(m, u, remote_vaps[m]) \in Seq(Vap)
        /\ DOMAIN WithPort(m, u, remote_vaps[m]) = DOMAIN remote_vaps[m]
        /\ \A i \in DOMAIN remote_vaps[m] :
              /\ WithPort(m, u, remote_vaps[m])[i].neighbor = remote_vaps[m][i].neighbor
              /\ WithPort(m, u, remote_vaps[m])[i].peer = remote_vaps[m][i].peer
    BY <1>5, WithPortType
  <2>3. remote_vaps'[p] \in Seq(RequestVap(n, R))
    <3>1. CASE m # p
      BY <1>4, <1>5, <2>1, <3>1 DEF VapTokens
    <3>2. CASE m = p
      <4>1. remote_vaps'[p] = WithPort(m, u, remote_vaps[p])
        BY <1>5, <2>1, <3>2
      <4> DEFINE w == WithPort(m, u, remote_vaps[p])
      <4>2. w \in Seq(Vap) /\ DOMAIN w = DOMAIN remote_vaps[p]
        BY <2>2, <3>2
      <4>3. ASSUME NEW i \in DOMAIN w PROVE w[i] \in RequestVap(n, R)
        <5>1. remote_vaps[p][i] \in RequestVap(n, R)
          BY <1>4, <4>2 DEF VapTokens
        <5>2. w[i] \in Vap
          BY <4>2
        <5>3. w[i].neighbor = remote_vaps[p][i].neighbor /\ w[i].peer = remote_vaps[p][i].peer
          BY <2>2, <3>2, <4>2
        <5> HIDE DEF w
        <5> QED
          BY <5>1, <5>2, <5>3 DEF RequestVap
      <4> HIDE DEF w
      <4>4. w \in Seq(RequestVap(n, R))
        BY <4>2, <4>3
      <4> QED
        BY <4>1, <4>4 DEF w
    <3> QED
      BY <3>1, <3>2
  <2>4. VapTokens(n, p, R, A)'
    BY <1>4, <2>1, <2>3 DEF VapTokens
  <2>5. ChanTokens(n, p, R, A)'
    BY <1>4, <2>1 DEF ChanTokens
  <2>6. JobTokens(n, p, R, A)'
    BY <1>4, <2>1, JobsOther
  <2> QED
    BY <1>6, <2>4, <2>5, <2>6 DEF Tokens
<1>15. CASE ConnectLocal(m, u)
  <2>1. /\ local_vaps' = [local_vaps EXCEPT ![m] = WithPort(m, u, @)]
        /\ remote_vaps' = remote_vaps /\ chan' = chan /\ Done(m, u)
    BY <1>15 DEF ConnectLocal
  <2>2. /\ WithPort(m, u, local_vaps[m]) \in Seq(Vap)
        /\ DOMAIN WithPort(m, u, local_vaps[m]) = DOMAIN local_vaps[m]
        /\ \A i \in DOMAIN local_vaps[m] :
              /\ WithPort(m, u, local_vaps[m])[i].neighbor = local_vaps[m][i].neighbor
              /\ WithPort(m, u, local_vaps[m])[i].peer = local_vaps[m][i].peer
    BY <1>5, WithPortType
  <2>3. local_vaps'[n] \in Seq(AnswerVap(p, A))
    <3>1. CASE m # n
      BY <1>4, <1>5, <2>1, <3>1 DEF VapTokens
    <3>2. CASE m = n
      <4>1. local_vaps'[n] = WithPort(m, u, local_vaps[n])
        BY <1>5, <2>1, <3>2
      <4> DEFINE w == WithPort(m, u, local_vaps[n])
      <4>2. w \in Seq(Vap) /\ DOMAIN w = DOMAIN local_vaps[n]
        BY <2>2, <3>2
      <4>3. ASSUME NEW i \in DOMAIN w PROVE w[i] \in AnswerVap(p, A)
        <5>1. local_vaps[n][i] \in AnswerVap(p, A)
          BY <1>4, <4>2 DEF VapTokens
        <5>2. w[i] \in Vap
          BY <4>2
        <5>3. w[i].neighbor = local_vaps[n][i].neighbor /\ w[i].peer = local_vaps[n][i].peer
          BY <2>2, <3>2, <4>2
        <5> HIDE DEF w
        <5> QED
          BY <5>1, <5>2, <5>3 DEF AnswerVap
      <4> HIDE DEF w
      <4>4. w \in Seq(AnswerVap(p, A))
        BY <4>2, <4>3
      <4> QED
        BY <4>1, <4>4 DEF w
    <3> QED
      BY <3>1, <3>2
  <2>4. VapTokens(n, p, R, A)'
    BY <1>4, <2>1, <2>3 DEF VapTokens
  <2>5. ChanTokens(n, p, R, A)'
    BY <1>4, <2>1 DEF ChanTokens
  <2>6. JobTokens(n, p, R, A)'
    BY <1>4, <2>1, JobsOther
  <2> QED
    BY <1>6, <2>4, <2>5, <2>6 DEF Tokens
<1>16. CASE complete_local_vap(m, u)
  <2>1. ChanTokens(n, p, R, A)' /\ remote_vaps' = remote_vaps /\ job[m][u].pc = "complete"
    BY <1>4, <1>16 DEF complete_local_vap, ChanTokens, Doing
  <2>2. CASE Places(local_vaps[m], q) = {}
    <3>1. Done(m, u) /\ local_vaps' = local_vaps
      BY <1>16, <2>2 DEF complete_local_vap
    <3>2. JobTokens(n, p, R, A)'
      BY <1>4, <3>1, JobsOther
    <3>3. VapTokens(n, p, R, A)'
      BY <1>4, <2>1, <3>1 DEF VapTokens
    <3> QED
      BY <1>6, <2>1, <3>2, <3>3 DEF Tokens
  <2>3. CASE Places(local_vaps[m], q) # {}
    <3>1. PICK i \in DOMAIN local_vaps[m], v \in Vap :
              /\ local_vaps[m][i].neighbor = q
              /\ v.neighbor = local_vaps[m][i].neighbor /\ v.id = local_vaps[m][i].id
              /\ v.port = local_vaps[m][i].port /\ v.peer = id
              /\ local_vaps' \in [Node -> Seq(Vap)]
              /\ \A o \in Node : o # m => local_vaps'[o] = local_vaps[o]
              /\ DOMAIN local_vaps'[m] = DOMAIN local_vaps[m]
              /\ \A j \in DOMAIN local_vaps[m] :
                    local_vaps'[m][j] = IF j = i THEN v ELSE local_vaps[m][j]
              /\ Become(m, u, "connect", q, local_vaps[m][i].id)
      BY <1>16, <2>3, CompleteStep
    <3>2. v.id \in Nat /\ "connect" \in Place(u)
      BY <1>2 DEF Vap
    <3>3. m = n => v \in AnswerVap(p, A)
      BY <1>4, <2>1, <3>1 DEF AnswerVap, JobTokens, CallerJob
    <3> HIDE DEF q, id
    <3>4. JobTokens(n, p, R, A)'
      BY <1>1, <1>4, <3>1, <3>2, JobsOther
    <3>5. local_vaps'[n] \in Seq(AnswerVap(p, A))
      <4>1. CASE m # n
        BY <1>4, <3>1, <4>1 DEF VapTokens
      <4>2. CASE m = n
        <5>1. local_vaps[n] \in Seq(AnswerVap(p, A)) /\ local_vaps'[n] \in Seq(Vap)
          BY <1>4, <3>1 DEF VapTokens
        <5>2. \A j \in DOMAIN local_vaps'[n] : local_vaps'[n][j] \in AnswerVap(p, A)
          BY <3>1, <3>3, <4>2, <5>1
        <5> QED
          BY <5>1, <5>2
      <4> QED
        BY <4>1, <4>2
    <3>6. VapTokens(n, p, R, A)'
      BY <1>4, <2>1, <3>5 DEF VapTokens
    <3> QED
      BY <1>6, <2>1, <3>4, <3>6 DEF Tokens
  <2> QED
    BY <2>2, <2>3
<1> QED
  BY <1>8, <1>9, <1>10, <1>11, <1>12, <1>13, <1>14, <1>15, <1>16 DEF Work

\* A channel that loses its first message.
LEMMA TailTokens ==
    ASSUME TypeInv, NEW n \in Node, NEW p \in Node, NEW R, NEW A, ChanTokens(n, p, R, A),
           NEW m \in Node, NEW q \in Node, chan[m][q] # <<>>,
           chan' = [chan EXCEPT ![m][q] = Tail(@)]
    PROVE  ChanTokens(n, p, R, A)'
<1>1. \A a, b \in Node : chan'[a][b] = IF a = m /\ b = q THEN Tail(chan[a][b]) ELSE chan[a][b]
  BY ChannelTail, ZenonT(30)
<1>2. chan'[n][p] \in Seq(RequestMsg(R))
  BY <1>1 DEF ChanTokens
<1>3. chan'[p][n] \in Seq(AnswerMsg(A))
  BY <1>1 DEF ChanTokens
<1> QED
  BY <1>2, <1>3 DEF ChanTokens

\* So do run() and the receive thread, through the queue.
LEMMA MoveTokens ==
    ASSUME TypeInv, NEW n \in Node, NEW p \in Node, NEW R, NEW A, Tokens(n, p, R, A),
           NEW m \in Node, Run(m) \/ Receive(m)
    PROVE  Tokens(n, p, R, A)'
<1>1. /\ JobTokens(n, p, R, A) /\ ChanTokens(n, p, R, A) /\ QueueTokens(n, p, R, A)
      /\ VapTokens(n, p, R, A)
  BY DEF Tokens
<1>2. "run" \in Thread /\ "rx" \in Thread /\ None \in Nat
  BY DEF Thread, None
<1>3. VapTokens(n, p, R, A)'
  <2>1. UNCHANGED <<local_vaps, remote_vaps>>
    BY DEF Run, Receive, RunNeighbors, RunStarted, RunDrain, RunDrained, RunInitialize,
       RxQueue, rx_cb, RxDrop, vapVars
  <2> QED
    BY <1>1, <2>1 DEF VapTokens
<1>4. CASE RunNeighbors(m) \/ RunDrained(m) \/ \E q \in Node : RunInitialize(m, q)
  <2>1. /\ msgQueue' = msgQueue /\ chan' = chan
        /\ \/ Done(m, "run")
           \/ \E q \in Node : Become(m, "run", "initialize", q, None)
           \/ Become(m, "run", "control", m, None)
    BY <1>4 DEF RunNeighbors, RunDrained, RunInitialize, runVars
  <2>2. "initialize" \in Place("run") /\ "control" \in Place("run")
    BY Places3
  <2>3. JobTokens(n, p, R, A)'
    BY <1>1, <1>2, <2>1, <2>2, JobsOther
  <2> QED
    BY <1>1, <1>3, <2>1, <2>3 DEF Tokens, ChanTokens, QueueTokens
<1>5. CASE RunStarted(m)
  <2>1. msgQueue' = msgQueue /\ chan' = chan /\ job' = job
    BY <1>5 DEF RunStarted
  <2> QED
    BY <1>1, <1>3, <2>1 DEF Tokens, ChanTokens, QueueTokens, JobTokens, CallerJob, ServerJob
<1>6. CASE RunDrain(m)
  <2>1. PICK e \in Queued, i \in DOMAIN msgQueue[m] :
           e = msgQueue[m][i] /\ process_msg(m, "run", e.from, e.msg)
    BY <1>6, DrainStep
  <2>2. e.from \in Node /\ e.msg \in Message
    BY DEF Queued
  <2> DEFINE q == e.from
             msg == e.msg
  <2>3. /\ m = p => e \in RequestQueue(n, R)
        /\ m = n => e \in AnswerQueue(p, A)
    BY <1>1, <2>1 DEF QueueTokens
  <2>4. /\ m = p /\ q = n => msg \in RequestMsg(R)
        /\ m = n /\ q = p => msg \in AnswerMsg(A)
    BY <2>3 DEF RequestQueue, AnswerQueue
  <2>5. msgQueue' = msgQueue /\ chan' = chan
    BY <1>6 DEF RunDrain
  <2>6. q \in Node /\ msg \in Message /\ process_msg(m, "run", q, msg)
    BY <2>1, <2>2
  <2> HIDE DEF q, msg
  <2>7. PICK pc \in {"create", "complete"} :
              /\ pc = IF msg.type = "request" THEN "create" ELSE "complete"
              /\ pc \in Place("run") /\ msg.id \in Nat
              /\ Become(m, "run", pc, q, msg.id)
    BY <1>2, <2>6, ProcessStep
  <2> DEFINE id == msg.id
  <2>8. /\ m = n => CallerJob(Job(pc, q, id), p, R, A)
        /\ m = p => ServerJob(Job(pc, q, id), n, R, A)
    BY <2>4, <2>7 DEF CallerJob, ServerJob, Job, RequestMsg, AnswerMsg
  <2>9. pc \in Place("run") /\ id \in Nat /\ Become(m, "run", pc, q, id)
    BY <2>7
  <2> HIDE DEF id
  <2>10. JobTokens(n, p, R, A)'
    BY <1>1, <1>2, <2>6, <2>8, <2>9, JobsBecome
  <2> QED
    BY <1>1, <1>3, <2>5, <2>10 DEF Tokens, ChanTokens, QueueTokens
<1>7. ASSUME NEW q \in Node, rx_cb(m, q) PROVE Tokens(n, p, R, A)'
  <2>1. PICK msg \in Message :
              /\ chan[q][m] # <<>> /\ msg = Head(chan[q][m])
              /\ \E pc \in Place("rx") :
                    /\ msg.type = "request" => pc \in {"create", "queueRequest"}
                    /\ msg.type # "request" => pc \in {"complete", "queueCompleted"}
                    /\ Become(m, "rx", pc, q, msg.id)
    BY <1>7, RxStep
  <2>2. PICK pc \in Place("rx") :
                    /\ msg.type = "request" => pc \in {"create", "queueRequest"}
                    /\ msg.type # "request" => pc \in {"complete", "queueCompleted"}
                    /\ Become(m, "rx", pc, q, msg.id)
    BY <2>1
  <2>3. /\ m = p /\ q = n => msg \in RequestMsg(R)
        /\ m = n /\ q = p => msg \in AnswerMsg(A)
    BY <1>1, <2>1 DEF ChanTokens
  <2>4. msgQueue' = msgQueue /\ chan' = [chan EXCEPT ![q][m] = Tail(@)]
    BY <1>7 DEF rx_cb, runVars
  <2>6. ChanTokens(n, p, R, A)'
    BY <1>1, <2>1, <2>4, TailTokens
  <2> DEFINE id == msg.id
  <2>7. /\ m = n => CallerJob(Job(pc, q, id), p, R, A)
        /\ m = p => ServerJob(Job(pc, q, id), n, R, A)
    BY <2>2, <2>3 DEF CallerJob, ServerJob, Job, RequestMsg, AnswerMsg
  <2>8. id \in Nat /\ Become(m, "rx", pc, q, id)
    BY <2>2 DEF Message
  <2> HIDE DEF id
  <2>9. JobTokens(n, p, R, A)'
    BY <1>1, <1>2, <2>7, <2>8, JobsBecome
  <2> QED
    BY <1>1, <1>3, <2>4, <2>6, <2>9 DEF Tokens, QueueTokens
<1>8. ASSUME NEW q \in Node, RxDrop(m, q) PROVE Tokens(n, p, R, A)'
  <2>1. /\ msgQueue' = msgQueue /\ job' = job /\ chan' = [chan EXCEPT ![q][m] = Tail(@)]
        /\ chan[q][m] # <<>>
    BY <1>8 DEF RxDrop, runVars
  <2>3. ChanTokens(n, p, R, A)'
    BY <1>1, <2>1, TailTokens
  <2> QED
    BY <1>1, <1>3, <2>1, <2>3 DEF Tokens, QueueTokens, JobTokens, CallerJob, ServerJob
<1>9. CASE RxQueue(m)
  <2>1. PICK e \in Queued :
                 /\ e.from = job[m]["rx"].with /\ e.msg.id = job[m]["rx"].id
                 /\ e.msg.type = "request" <=> job[m]["rx"].pc = "queueRequest"
                 /\ \A o \in Node : msgQueue'[o] = IF o = m THEN Append(msgQueue[m], e)
                                                   ELSE msgQueue[o]
    BY <1>9, QueueStep
  <2>2. job[m]["rx"].pc \in {"queueRequest", "queueCompleted"} /\ Done(m, "rx") /\ chan' = chan
    BY <1>9 DEF RxQueue, Doing
  <2>3. e.msg \in Message
    BY DEF Queued
  <2>4. /\ m = p => e \in RequestQueue(n, R)
        /\ m = n => e \in AnswerQueue(p, A)
    BY <1>1, <1>2, <2>1, <2>2, <2>3 DEF RequestQueue, AnswerQueue, RequestMsg, AnswerMsg,
       JobTokens, CallerJob, ServerJob
  <2>5. QueueTokens(n, p, R, A)'
    <3>1. msgQueue'[p] \in Seq(RequestQueue(n, R))
      BY <1>1, <2>1, <2>4, SeqAppended DEF QueueTokens
    <3>2. msgQueue'[n] \in Seq(AnswerQueue(p, A))
      BY <1>1, <2>1, <2>4, SeqAppended DEF QueueTokens
    <3> QED
      BY <3>1, <3>2 DEF QueueTokens
  <2>6. JobTokens(n, p, R, A)'
    BY <1>1, <1>2, <2>2, JobsOther
  <2> QED
    BY <1>1, <1>3, <2>2, <2>5, <2>6 DEF Tokens, ChanTokens
<1> QED
  BY <1>4, <1>5, <1>6, <1>7, <1>8, <1>9 DEF Run, Receive

\* And whatever else may happen short of a restart.
LEMMA RestTokens ==
    ASSUME TypeInv, NEW n \in Node, NEW p \in Node, NEW R, NEW A, Tokens(n, p, R, A),
           NEW m \in Node, NEW u \in Thread, NEW q \in Node,
           SuspendGenerate(m, u) \/ newLink_cb(m, q) \/ linkFailure_cb(m, q) \/ Lose(m, q)
    PROVE  Tokens(n, p, R, A)'
<1>1. /\ JobTokens(n, p, R, A) /\ ChanTokens(n, p, R, A) /\ QueueTokens(n, p, R, A)
      /\ VapTokens(n, p, R, A)
  BY DEF Tokens
<1>2. QueueTokens(n, p, R, A)'
  <2>1. msgQueue' = msgQueue
    BY DEF SuspendGenerate, newLink_cb, linkFailure_cb, Lose, runVars
  <2> QED
    BY <1>1, <2>1 DEF QueueTokens
<1>3. CASE SuspendGenerate(m, u)
  <2>1. \A o \in Node, t \in Thread :
           /\ job'[o][t].pc = job[o][t].pc /\ job'[o][t].with = job[o][t].with
           /\ job'[o][t].id = job[o][t].id
    BY <1>3, SuspendStep
  <2>2. JobTokens(n, p, R, A)'
    BY <1>1, <2>1 DEF JobTokens, CallerJob, ServerJob
  <2>3. UNCHANGED <<local_vaps, remote_vaps, chan>>
    BY <1>3 DEF SuspendGenerate, vapVars
  <2> QED
    BY <1>1, <1>2, <2>2, <2>3 DEF Tokens, ChanTokens, VapTokens
<1>4. CASE newLink_cb(m, q)
  <2>1. Become(m, "probe", "initialize", q, None) /\ UNCHANGED <<local_vaps, remote_vaps, chan>>
    BY <1>4 DEF newLink_cb, vapVars
  <2>2. "initialize" \in Place("probe") /\ "probe" \in Thread /\ None \in Nat
    BY Places3 DEF Thread, None
  <2>3. JobTokens(n, p, R, A)'
    BY <1>1, <2>1, <2>2, JobsOther
  <2> QED
    BY <1>1, <1>2, <2>1, <2>3 DEF Tokens, ChanTokens, VapTokens
<1>5. CASE linkFailure_cb(m, q)
  <2>1. UNCHANGED <<job, remote_vaps, chan>>
    BY <1>5 DEF linkFailure_cb
  <2>2. \/ local_vaps'[n] = local_vaps[n]
        \/ \E i \in DOMAIN local_vaps[n] : local_vaps'[n] = Without(local_vaps[n], i)
    BY <1>5, FailureStep
  <2>3. local_vaps'[n] \in Seq(AnswerVap(p, A))
    BY <1>1, <2>2, WithoutEntry DEF VapTokens
  <2> QED
    BY <1>1, <1>2, <2>1, <2>3 DEF Tokens, ChanTokens, VapTokens, JobTokens, CallerJob, ServerJob
<1>6. CASE Lose(m, q)
  <2>1. /\ UNCHANGED <<job, local_vaps, remote_vaps>> /\ chan' = [chan EXCEPT ![m][q] = Tail(@)]
        /\ chan[m][q] # <<>>
    BY <1>6 DEF Lose, vapVars
  <2>3. ChanTokens(n, p, R, A)'
    BY <1>1, <2>1, TailTokens
  <2> QED
    BY <1>1, <1>2, <2>1, <2>3 DEF Tokens, VapTokens, JobTokens, CallerJob, ServerJob
<1> QED
  BY <1>3, <1>4, <1>5, <1>6

\* The numbers of the remote VAPs p has for n.
RemoteIds(p, n) == {remote_vaps[p][j].id : j \in Places(remote_vaps[p], n)}

\* run() of n has still to enter a VAP for p.
Fresh(n, p) ==
    \/ job[n]["run"].pc = "sleep"
    \/ p \in todo[n]
    \/ job[n]["run"].pc \in {"initialize", "enter"} /\ job[n]["run"].with = p

\* Only run() enters VAPs, each once.
Single(n) == \A t \in Thread : job[n][t].pc \in {"initialize", "enter"} =>
                                  t = "run" /\ job[n][t].with \notin todo[n]

\* The requests of n to p have the number of the local VAP; there are none.
Requested(n, p) ==
    \A i \in Places(local_vaps[n], p) : Tokens(n, p, {local_vaps[n][i].id}, Nat)
Untouched(n, p) == Tokens(n, p, {}, Nat) /\ Places(local_vaps[n], p) = {}

\* Until a restart, an answer that is on its way or filled in has the number of a
\* remote VAP.  Until a neighbour is found, also: the requests have the number of the
\* local VAP, if it is still listed; there are none before run() has entered it; and
\* no other thread enters one.
EndsAt(n, p) ==
    /\ Tokens(n, p, Nat, RemoteIds(p, n))
    /\ links = 0 => Requested(n, p) /\ (Fresh(n, p) => Untouched(n, p)) /\ Single(n)

\* The inductive invariant of the ends.
EndsInv ==
    /\ boots \in Nat /\ links \in Nat
    /\ boots = 0 => \A n, p \in Node : EndsAt(n, p)

\* The steps that neither restart an access point nor find a neighbour.
Ordinary(m, u, q) ==
    \/ Work(m, u) \/ SuspendGenerate(m, u) \/ Run(m) \/ Receive(m)
    \/ linkFailure_cb(m, q) \/ Lose(m, q)

\* Such a step counts as neither.
LEMMA OrdinaryBounds ==
    ASSUME NEW m \in Node, NEW u \in Thread, NEW q \in Node, Ordinary(m, u, q)
    PROVE  links' = links /\ boots' = boots
<1>1. CASE Work(m, u)
  BY <1>1 DEF Work, CheckLocal, EnterLocal, request_remote_vap_setup, CheckRemote,
     EnterRemote, sent_config_to_local_vap, ConnectRemote, complete_local_vap,
     ConnectLocal, bounds
<1>2. CASE Run(m) \/ Receive(m)
  BY <1>2 DEF Run, RunNeighbors, RunStarted, RunDrain, RunDrained, RunInitialize, Receive,
     RxQueue, rx_cb, RxDrop, bounds
<1>3. CASE SuspendGenerate(m, u) \/ linkFailure_cb(m, q) \/ Lose(m, q)
  BY <1>3 DEF SuspendGenerate, linkFailure_cb, Lose
<1> QED
  BY <1>1, <1>2, <1>3 DEF Ordinary

\* Remote VAPs stay, and EnterRemote adds one.
LEMMA RemoteGrow ==
    ASSUME TypeInv, NEW m \in Node, NEW u \in Thread, NEW q \in Node,
           Ordinary(m, u, q) \/ newLink_cb(m, q), NEW p \in Node, NEW n \in Node
    PROVE  /\ RemoteIds(p, n) \subseteq RemoteIds(p, n)'
           /\ EnterRemote(m, u) /\ m = p /\ job[m][u].with = n =>
                 Generated(m, u, generator) \in RemoteIds(p, n)'
<1>1. remote_vaps \in [Node -> Seq(Vap)]
  BY DEF TypeInv, TypeOK
<1>2. \/ EnterRemote(m, u)
      \/ remote_vaps' = remote_vaps /\ ~EnterRemote(m, u)
      \/ ConnectRemote(m, u) /\ ~EnterRemote(m, u)
  <2>1. CASE Work(m, u)
    BY <2>1 DEF Work, CheckLocal, EnterLocal, request_remote_vap_setup, CheckRemote,
       sent_config_to_local_vap, complete_local_vap, ConnectLocal, vapVars
  <2>2. CASE Run(m) \/ Receive(m)
    BY <2>2 DEF Run, RunNeighbors, RunStarted, RunDrain, RunDrained, RunInitialize, Receive,
       RxQueue, rx_cb, RxDrop, vapVars
  <2>3. CASE SuspendGenerate(m, u) \/ linkFailure_cb(m, q) \/ Lose(m, q) \/ newLink_cb(m, q)
    BY <2>3 DEF SuspendGenerate, linkFailure_cb, Lose, newLink_cb, vapVars
  <2> QED
    BY <2>1, <2>2, <2>3 DEF Ordinary
<1>3. CASE remote_vaps' = remote_vaps /\ ~EnterRemote(m, u)
  BY <1>3 DEF RemoteIds, Places
<1>4. CASE EnterRemote(m, u)
  <2>1. PICK v \in Vap :
              /\ v.neighbor = job[m][u].with /\ v.id = Generated(m, u, generator)
              /\ \A o \in Node : remote_vaps'[o] = IF o = m THEN Append(remote_vaps[m], v)
                                                  ELSE remote_vaps[o]
    BY <1>4, EnterRemoteStep
  <2>2. CASE m # p
    BY <2>1, <2>2 DEF RemoteIds, Places
  <2>3. CASE m = p
    <3> DEFINE s == remote_vaps[p]
               r == remote_vaps'[p]
    <3>1. s \in Seq(Vap) /\ r = Append(s, v)
      BY <1>1, <2>1, <2>3
    <3> HIDE DEF s, r
    <3>2. /\ DOMAIN r = 1..(Len(s) + 1) /\ Len(s) \in Nat /\ DOMAIN s = 1..Len(s)
          /\ \A i \in 1..Len(s) : r[i] = s[i]
          /\ r[Len(s) + 1] = v
      BY <3>1, ListAppended
    <3>3. Places(s, n) \subseteq Places(r, n) /\ \A i \in Places(s, n) : r[i].id = s[i].id
      BY <3>2 DEF Places
    <3>4. v.neighbor = n => Len(s) + 1 \in Places(r, n) /\ r[Len(s) + 1].id = v.id
      BY <3>2 DEF Places
    <3>5. RemoteIds(p, n) = {s[j].id : j \in Places(s, n)}
      BY DEF RemoteIds, s
    <3>6. RemoteIds(p, n)' = {r[j].id : j \in Places(r, n)}
      BY DEF RemoteIds, r, Places
    <3>7. \A i \in Places(s, n) : s[i].id \in RemoteIds(p, n)'
      BY <3>3, <3>6
    <3>8. job[m][u].with = n => v.id \in RemoteIds(p, n)'
      BY <2>1, <3>4, <3>6
    <3> QED
      BY <2>1, <3>5, <3>7, <3>8
  <2> QED
    BY <2>2, <2>3
<1>5. CASE ConnectRemote(m, u) /\ ~EnterRemote(m, u)
  <2>1. remote_vaps' = [remote_vaps EXCEPT ![m] = WithPort(m, u, @)]
    BY <1>5 DEF ConnectRemote
  <2>2. CASE m # p
    BY <1>1, <1>5, <2>1, <2>2 DEF RemoteIds, Places
  <2>3. CASE m = p
    <3> DEFINE s == remote_vaps[p]
               r == remote_vaps'[p]
    <3>1. s \in Seq(Vap) /\ r = WithPort(m, u, s)
      BY <1>1, <2>1, <2>3
    <3> HIDE DEF s, r
    <3>2. /\ DOMAIN r = DOMAIN s
          /\ \A i \in DOMAIN s : r[i].neighbor = s[i].neighbor /\ r[i].id = s[i].id
      BY <3>1, WithPortType
    <3>3. Places(s, n) = Places(r, n) /\ \A i \in Places(s, n) : r[i].id = s[i].id
      BY <3>2 DEF Places
    <3>4. RemoteIds(p, n) = {s[j].id : j \in Places(s, n)}
      BY DEF RemoteIds, s
    <3>5. RemoteIds(p, n)' = {r[j].id : j \in Places(r, n)}
      BY DEF RemoteIds, r, Places
    <3> QED
      BY <1>5, <3>3, <3>4, <3>5
  <2> QED
    BY <2>2, <2>3
<1> QED
  BY <1>2, <1>3, <1>4, <1>5

\* A local VAP of p is one n had, or has just been entered.
LEMMA LocalFrom ==
    ASSUME TypeInv, NEW m \in Node, NEW u \in Thread, NEW q \in Node, Ordinary(m, u, q),
           NEW p \in Node, NEW n \in Node, NEW k \in Places(local_vaps'[n], p)
    PROVE  \/ \E i \in Places(local_vaps[n], p) : local_vaps'[n][k].id = local_vaps[n][i].id
           \/ /\ EnterLocal(m, u) /\ m = n /\ job[m][u].with = p
              /\ local_vaps'[n][k].id = Generated(m, u, generator)
<1> DEFINE s == local_vaps[n]
           r == local_vaps'[n]
<1>1. local_vaps \in [Node -> Seq(Vap)] /\ s \in Seq(Vap)
  BY DEF TypeInv, TypeOK
<1>2. \/ EnterLocal(m, u) \/ ConnectLocal(m, u) \/ complete_local_vap(m, u)
      \/ linkFailure_cb(m, q) \/ local_vaps' = local_vaps
  <2>1. CASE Work(m, u)
    BY <2>1 DEF Work, CheckLocal, EnterRemote, request_remote_vap_setup, CheckRemote,
       sent_config_to_local_vap, ConnectRemote, vapVars
  <2>2. CASE Run(m) \/ Receive(m)
    BY <2>2 DEF Run, RunNeighbors, RunStarted, RunDrain, RunDrained, RunInitialize, Receive,
       RxQueue, rx_cb, RxDrop, vapVars
  <2>3. CASE SuspendGenerate(m, u) \/ linkFailure_cb(m, q) \/ Lose(m, q)
    BY <2>3 DEF SuspendGenerate, Lose, vapVars
  <2> QED
    BY <2>1, <2>2, <2>3 DEF Ordinary
<1>3. CASE r = s
  BY <1>3
<1>4. CASE EnterLocal(m, u)
  <2>1. PICK v \in Vap :
              /\ v.neighbor = job[m][u].with /\ v.id = Generated(m, u, generator)
              /\ \A o \in Node : local_vaps'[o] = IF o = m THEN Append(local_vaps[m], v)
                                                  ELSE local_vaps[o]
    BY <1>4, EnterLocalStep
  <2>2. CASE m # n
    BY <1>3, <2>1, <2>2
  <2>3. CASE m = n
    <3>1. r = Append(s, v)
      BY <2>1, <2>3
    <3> HIDE DEF s, r
    <3>2. /\ DOMAIN r = 1..(Len(s) + 1) /\ Len(s) \in Nat /\ DOMAIN s = 1..Len(s)
          /\ \A i \in 1..Len(s) : r[i] = s[i]
          /\ r[Len(s) + 1] = v
      BY <1>1, <3>1, ListAppended
    <3>3. k \in Places(r, p)
      BY DEF r
    <3>4. \/ k \in Places(s, p) /\ r[k].id = s[k].id
          \/ k = Len(s) + 1 /\ v.neighbor = p
      <4>1. k \in 1..(Len(s) + 1) /\ r[k].neighbor = p
        BY <3>2, <3>3 DEF Places
      <4>2. k \in 1..Len(s) \/ k = Len(s) + 1
        BY <3>2, <4>1
      <4>3. CASE k \in 1..Len(s)
        BY <3>2, <4>1, <4>3 DEF Places
      <4> QED
        BY <3>2, <4>1, <4>2, <4>3
    <3>5. CASE k \in Places(s, p) /\ r[k].id = s[k].id
      BY <3>5 DEF s, r
    <3>6. CASE k = Len(s) + 1 /\ v.neighbor = p
      BY <1>4, <2>1, <2>3, <3>2, <3>6 DEF r
    <3> QED
      BY <3>4, <3>5, <3>6
  <2> QED
    BY <2>2, <2>3
<1>5. CASE ConnectLocal(m, u)
  <2>1. local_vaps' = [local_vaps EXCEPT ![m] = WithPort(m, u, @)]
    BY <1>5 DEF ConnectLocal
  <2>2. CASE m # n
    BY <1>1, <1>3, <2>1, <2>2
  <2>3. CASE m = n
    <3>1. r = WithPort(m, u, s)
      BY <1>1, <2>1, <2>3
    <3> HIDE DEF s, r
    <3>2. /\ DOMAIN r = DOMAIN s
          /\ \A i \in DOMAIN s : r[i].neighbor = s[i].neighbor /\ r[i].id = s[i].id
      BY <1>1, <3>1, WithPortType
    <3>3. k \in Places(r, p)
      BY DEF r
    <3>4. k \in Places(s, p) /\ r[k].id = s[k].id
      BY <3>2, <3>3 DEF Places
    <3> QED
      BY <3>4 DEF s, r
  <2> QED
    BY <2>2, <2>3
<1>6. CASE complete_local_vap(m, u)
  <2>1. CASE Places(local_vaps[m], job[m][u].with) = {}
    BY <1>3, <1>6, <2>1 DEF complete_local_vap
  <2>2. CASE Places(local_vaps[m], job[m][u].with) # {}
    <3>1. PICK i \in DOMAIN local_vaps[m], v \in Vap :
              /\ v.neighbor = local_vaps[m][i].neighbor /\ v.id = local_vaps[m][i].id
              /\ \A o \in Node : o # m => local_vaps'[o] = local_vaps[o]
              /\ DOMAIN local_vaps'[m] = DOMAIN local_vaps[m]
              /\ \A j \in DOMAIN local_vaps[m] :
                    local_vaps'[m][j] = IF j = i THEN v ELSE local_vaps[m][j]
      BY <1>6, <2>2, CompleteStep, ZenonT(30)
    <3>2. CASE m # n
      BY <1>3, <3>1, <3>2
    <3>3. CASE m = n
      <4>1. /\ DOMAIN r = DOMAIN s
            /\ \A j \in DOMAIN s : r[j].neighbor = s[j].neighbor /\ r[j].id = s[j].id
        BY <3>1, <3>3
      <4> HIDE DEF s, r
      <4>2. k \in Places(r, p)
        BY DEF r
      <4>3. k \in Places(s, p) /\ r[k].id = s[k].id
        BY <4>1, <4>2 DEF Places
      <4> QED
        BY <4>3 DEF s, r
    <3> QED
      BY <3>2, <3>3
  <2> QED
    BY <2>1, <2>2
<1>7. CASE linkFailure_cb(m, q)
  <2>1. r = s \/ \E i \in DOMAIN s : r = Without(s, i)
    BY <1>7, FailureStep
  <2>2. ASSUME NEW i \in DOMAIN s, r = Without(s, i)
        PROVE  \E j \in Places(s, p) : r[k].id = s[j].id
    <3> HIDE DEF s, r
    <3>1. /\ DOMAIN r = 1..(Len(s) - 1)
          /\ \A j \in 1..(Len(s) - 1) : r[j] = IF j < i THEN s[j] ELSE s[j + 1]
      BY <1>1, <2>2, WithoutEntry
    <3>2. DOMAIN s = 1..Len(s) /\ Len(s) \in Nat
      BY <1>1
    <3>3. k \in Places(r, p)
      BY DEF r
    <3>4. k \in 1..(Len(s) - 1) /\ r[k].neighbor = p
      BY <3>1, <3>3 DEF Places
    <3>5. CASE k < i
      <4>1. k \in Places(s, p) /\ r[k].id = s[k].id
        BY <3>1, <3>2, <3>4, <3>5 DEF Places
      <4> QED
        BY <4>1
    <3>6. CASE ~(k < i)
      <4>1. k + 1 \in Places(s, p) /\ r[k].id = s[k + 1].id
        BY <3>1, <3>2, <3>4, <3>6 DEF Places
      <4> QED
        BY <4>1
    <3> QED
      BY <3>5, <3>6
  <2> QED
    BY <1>3, <2>1, <2>2
<1> QED
  BY <1>2, <1>3, <1>4, <1>5, <1>6, <1>7

\* How the jobs of n and what run() has still to do move along.
Moves(n) ==
    /\ \A t \in Thread :
          \/ job'[n][t].pc = job[n][t].pc /\ job'[n][t].with = job[n][t].with
          \/ job'[n][t].pc \notin {"sleep", "initialize", "enter"}
          \/ /\ job[n][t].pc = "initialize" /\ job'[n][t].pc = "enter"
             /\ job'[n][t].with = job[n][t].with
          \/ /\ t = "run" /\ job'[n][t].pc = "initialize" /\ job'[n][t].with \in todo[n]
             /\ todo'[n] = todo[n] \ {job'[n][t].with}
    /\ \/ todo'[n] \subseteq todo[n]
       \/ /\ job[n]["run"].pc = "sleep"
          /\ \A t \in Thread : t # "run" => job'[n][t] = job[n][t]
          /\ job'[n]["run"].pc = "loop"

\* Every such step moves them along.
LEMMA OrdinaryMoves ==
    ASSUME TypeInv, NEW m \in Node, NEW u \in Thread, NEW q \in Node, Ordinary(m, u, q),
           NEW n \in Node
    PROVE  Moves(n)
<1>1. "run" \in Thread /\ "rx" \in Thread /\ None \in Nat
  BY DEF Thread, None
<1>2. job[m][u].with \in Node /\ job[m][u].id \in Nat /\ Generated(m, u, generator) \in Nat
  BY JobFields, GenerateType
<1>3. {"initialize", "enter", "request", "create", "admit", "answer", "terminate",
       "complete", "connect"} \subseteq Place(u)
  BY SharedPlaces
<1>4. todo \in [Node -> SUBSET Node]
  BY DEF TypeInv, TypeOK
<1>5. ASSUME NEW t \in Thread, NEW pc \in Place(t), NEW o \in Node, NEW id \in Nat,
             Become(m, t, pc, o, id), pc \notin {"sleep", "initialize", "enter"},
             todo' = todo
      PROVE  Moves(n)
  <2>1. \A x \in Node, y \in Thread :
           job'[x][y] = IF x = m /\ y = t THEN Job(pc, o, id) ELSE job[x][y]
    BY <1>5, BecomeJob
  <2>2. ASSUME NEW y \in Thread
        PROVE  \/ job'[n][y].pc = job[n][y].pc /\ job'[n][y].with = job[n][y].with
               \/ job'[n][y].pc \notin {"sleep", "initialize", "enter"}
    BY <1>5, <2>1 DEF Job
  <2> QED
    BY <1>5, <2>2 DEF Moves
<1>6. ASSUME NEW t \in Thread, Done(m, t), todo' = todo PROVE Moves(n)
  <2>1. Home(t) \in Place(t) /\ Home(t) \notin {"sleep", "initialize", "enter"}
    BY SharedPlaces DEF Home
  <2>2. Become(m, t, Home(t), m, None)
    BY <1>6 DEF Done
  <2> QED
    BY <1>1, <1>5, <1>6, <2>1, <2>2
<1>7. CASE Work(m, u)
  <2> DEFINE p == job[m][u].with
  <2>1. todo' = todo
    BY <1>7 DEF Work, CheckLocal, EnterLocal, request_remote_vap_setup, CheckRemote,
       EnterRemote, sent_config_to_local_vap, ConnectRemote, complete_local_vap,
       ConnectLocal, runVars
  <2>2. \/ CheckLocal(m, u)
        \/ Done(m, u)
        \/ \E pc \in {"request", "admit", "answer", "terminate", "connect"}, id \in Nat :
              Become(m, u, pc, p, id)
    <3>1. CASE complete_local_vap(m, u) /\ Places(local_vaps[m], p) # {}
      <4>1. PICK i \in DOMAIN local_vaps[m], v \in Vap :
               v.id = local_vaps[m][i].id /\ Become(m, u, "connect", p, local_vaps[m][i].id)
        BY <3>1, CompleteStep, ZenonT(30)
      <4>2. v.id \in Nat
        BY DEF Vap
      <4> QED
        BY <4>1, <4>2
    <3>2. CASE complete_local_vap(m, u) /\ Places(local_vaps[m], p) = {}
      BY <3>2 DEF complete_local_vap
    <3>3. CASE EnterLocal(m, u) \/ EnterRemote(m, u) \/ CheckRemote(m, u)
               \/ sent_config_to_local_vap(m, u)
      BY <1>2, <3>3 DEF EnterLocal, EnterRemote, CheckRemote, sent_config_to_local_vap
    <3>4. CASE request_remote_vap_setup(m, u) \/ ConnectLocal(m, u) \/ ConnectRemote(m, u)
      BY <3>4 DEF request_remote_vap_setup, ConnectLocal, ConnectRemote
    <3> QED
      BY <1>7, <3>1, <3>2, <3>3, <3>4 DEF Work
  <2>3. CASE CheckLocal(m, u)
    <3>1. Done(m, u) \/ Become(m, u, "enter", p, None)
      BY <2>3 DEF CheckLocal
    <3>2. job[m][u].pc = "initialize" /\ "enter" \in Place(u)
      BY <1>3, <2>3 DEF CheckLocal, Doing
    <3>3. CASE Become(m, u, "enter", p, None)
      <4> HIDE DEF p
      <4>1. \A x \in Node, y \in Thread :
               job'[x][y] = IF x = m /\ y = u THEN Job("enter", p, None) ELSE job[x][y]
        BY <1>1, <1>2, <3>2, <3>3, BecomeJob DEF p
      <4>2. ASSUME NEW y \in Thread
            PROVE  \/ job'[n][y].pc = job[n][y].pc /\ job'[n][y].with = job[n][y].with
                   \/ /\ job[n][y].pc = "initialize" /\ job'[n][y].pc = "enter"
                      /\ job'[n][y].with = job[n][y].with
        BY <3>2, <4>1 DEF Job, p
      <4> QED
        BY <2>1, <4>2 DEF Moves
    <3> QED
      BY <1>6, <2>1, <3>1, <3>3
  <2> HIDE DEF p
  <2>4. ASSUME NEW pc \in {"request", "admit", "answer", "terminate", "connect"}, NEW id \in Nat,
               Become(m, u, pc, p, id)
        PROVE  Moves(n)
    <3>1. pc \in Place(u) /\ pc \notin {"sleep", "initialize", "enter"}
      BY <1>3
    <3> QED
      BY <1>2, <1>5, <2>1, <2>4, <3>1 DEF p
  <2> QED
    BY <1>6, <2>1, <2>2, <2>3, <2>4
<1>8. CASE SuspendGenerate(m, u)
  <2>1. /\ \A x \in Node, y \in Thread : /\ job'[x][y].pc = job[x][y].pc
                                         /\ job'[x][y].with = job[x][y].with
        /\ todo' = todo
    BY <1>8, SuspendStep DEF SuspendGenerate, runVars
  <2> QED
    BY <2>1 DEF Moves
<1>9. CASE linkFailure_cb(m, q) \/ Lose(m, q)
  <2>1. job' = job /\ todo' = todo
    BY <1>9 DEF linkFailure_cb, Lose, runVars
  <2> QED
    BY <2>1 DEF Moves
<1>10. CASE RunNeighbors(m)
  <2>1. /\ Done(m, "run") /\ job[m]["run"].pc = "sleep"
        /\ todo' = [todo EXCEPT ![m] = neighbors[m]]
    BY <1>10 DEF RunNeighbors, Doing
  <2>2. \A x \in Node, y \in Thread :
           job'[x][y] = IF x = m /\ y = "run" THEN Job("loop", m, None) ELSE job[x][y]
    BY <1>1, <2>1, DoneJob DEF Home
  <2>3. CASE n = m
    BY <1>1, <2>1, <2>2, <2>3 DEF Moves, Job
  <2>4. CASE n # m
    BY <1>1, <1>4, <2>1, <2>2, <2>4 DEF Moves
  <2> QED
    BY <2>3, <2>4
<1>11. ASSUME NEW p \in Node, RunInitialize(m, p) PROVE Moves(n)
  <2>1. /\ Become(m, "run", "initialize", p, None) /\ p \in todo[m]
        /\ todo' = [todo EXCEPT ![m] = @ \ {p}]
    BY <1>11 DEF RunInitialize
  <2>2. "initialize" \in Place("run")
    BY Places3
  <2>3. \A x \in Node, y \in Thread :
           job'[x][y] = IF x = m /\ y = "run" THEN Job("initialize", p, None) ELSE job[x][y]
    <3> DEFINE id == None
    <3>1. Become(m, "run", "initialize", p, id) /\ id \in Nat
      BY <1>1, <2>1
    <3> HIDE DEF id
    <3>2. \A x \in Node, y \in Thread :
             job'[x][y] = IF x = m /\ y = "run" THEN Job("initialize", p, id) ELSE job[x][y]
      BY <1>1, <2>2, <3>1, BecomeJob
    <3> QED
      BY <3>2 DEF id
  <2>4. CASE n = m
    <3>1. todo'[n] = todo[n] \ {p}
      BY <1>4, <2>1, <2>4
    <3>2. job'[n]["run"].pc = "initialize" /\ job'[n]["run"].with = p
      BY <1>1, <2>3, <2>4 DEF Job
    <3> QED
      BY <2>1, <2>3, <2>4, <3>1, <3>2 DEF Moves
  <2>5. CASE n # m
    BY <1>1, <1>4, <2>1, <2>3, <2>5 DEF Moves
  <2> QED
    BY <2>4, <2>5
<1>12. CASE RunStarted(m) \/ \E p \in Node : RxDrop(m, p)
  <2>1. job' = job /\ todo' = todo
    BY <1>12 DEF RunStarted, RxDrop, runVars
  <2> QED
    BY <2>1 DEF Moves
<1>13. CASE RunDrained(m)
  <2>1. Become(m, "run", "control", m, None) /\ todo' = todo
    BY <1>13 DEF RunDrained, runVars
  <2>2. "control" \in Place("run")
    BY Places3
  <2> QED
    BY <1>1, <1>5, <2>1, <2>2
<1>14. CASE RunDrain(m)
  <2>1. PICK e \in Queued : process_msg(m, "run", e.from, e.msg)
    BY <1>14, DrainStep
  <2>2. e.from \in Node /\ e.msg \in Message
    BY DEF Queued
  <2>3. \E pc \in {"create", "complete"} :
           pc \in Place("run") /\ e.msg.id \in Nat /\ Become(m, "run", pc, e.from, e.msg.id)
    BY <1>1, <2>1, <2>2, ProcessStep
  <2>4. todo' = todo
    BY <1>14 DEF RunDrain
  <2> QED
    BY <1>1, <1>5, <2>2, <2>3, <2>4
<1>15. ASSUME NEW p \in Node, rx_cb(m, p) PROVE Moves(n)
  <2>1. PICK msg \in Message :
              \E pc \in Place("rx") :
                    /\ msg.type = "request" => pc \in {"create", "queueRequest"}
                    /\ msg.type # "request" => pc \in {"complete", "queueCompleted"}
                    /\ Become(m, "rx", pc, p, msg.id)
    BY <1>15, RxStep
  <2>2. PICK pc \in Place("rx") :
              /\ pc \in {"create", "queueRequest", "complete", "queueCompleted"}
              /\ Become(m, "rx", pc, p, msg.id)
    BY <2>1
  <2>3. msg.id \in Nat /\ todo' = todo
    BY <1>15 DEF Message, rx_cb, runVars
  <2> QED
    BY <1>1, <1>5, <2>2, <2>3
<1>16. CASE RxQueue(m)
  <2>1. Done(m, "rx") /\ todo' = todo
    BY <1>16 DEF RxQueue
  <2> QED
    BY <1>1, <1>6, <2>1
<1> QED
  BY <1>7, <1>8, <1>9, <1>10, <1>11, <1>12, <1>13, <1>14, <1>15, <1>16 DEF Ordinary, Run, Receive

\* No step but a restart brings other numbers than those just generated.
LEMMA TokensStep ==
    ASSUME TypeInv, NEW n \in Node, NEW p \in Node, NEW R, NEW A, Tokens(n, p, R, A),
           NEW m \in Node, NEW u \in Thread, NEW q \in Node,
           Ordinary(m, u, q) \/ newLink_cb(m, q),
           EnterLocal(m, u) /\ m = n /\ job[m][u].with = p => Generated(m, u, generator) \in R,
           EnterRemote(m, u) /\ m = p /\ job[m][u].with = n => Generated(m, u, generator) \in A
    PROVE  Tokens(n, p, R, A)'
<1>1. CASE Work(m, u)
  BY <1>1, WorkTokens
<1>2. CASE Run(m) \/ Receive(m)
  BY <1>2, MoveTokens
<1>3. CASE SuspendGenerate(m, u) \/ newLink_cb(m, q) \/ linkFailure_cb(m, q) \/ Lose(m, q)
  BY <1>3, RestTokens
<1> QED
  BY <1>1, <1>2, <1>3 DEF Ordinary

\* The answers on their way stay numbers of remote VAPs.
LEMMA AnswersKept ==
    ASSUME TypeInv, NEW n \in Node, NEW p \in Node, Tokens(n, p, Nat, RemoteIds(p, n)),
           NEW m \in Node, NEW u \in Thread, NEW q \in Node,
           Ordinary(m, u, q) \/ newLink_cb(m, q)
    PROVE  Tokens(n, p, Nat, RemoteIds(p, n))'
<1> SUFFICES ASSUME NEW A, A = RemoteIds(p, n), NEW A2, A2 = RemoteIds(p, n)'
             PROVE  Tokens(n, p, Nat, A2)'
  BY DEF Tokens, JobTokens, ChanTokens, QueueTokens, VapTokens, CallerJob, ServerJob
<1>1. /\ A \subseteq A2
      /\ EnterRemote(m, u) /\ m = p /\ job[m][u].with = n => Generated(m, u, generator) \in A2
  BY RemoteGrow
<1>2. Generated(m, u, generator) \in Nat
  BY GenerateType
<1>3. Tokens(n, p, Nat, A)
  OBVIOUS
<1>4. Tokens(n, p, Nat, A2)
  BY <1>1, <1>3, TokensWider
<1> QED
  BY <1>1, <1>2, <1>4, TokensStep

\* run() enters the VAPs one after the other and comes back to none.
LEMMA FreshStep ==
    ASSUME TypeInv, NEW n \in Node, NEW p \in Node, Moves(n), Single(n)
    PROVE  Single(n)' /\ (Fresh(n, p)' => Fresh(n, p))
<1>1. "run" \in Thread
  BY DEF Thread
<1>2. Single(n)'
  BY <1>1 DEF Moves, Single
<1>3. Fresh(n, p)' => Fresh(n, p)
  BY <1>1 DEF Moves, Fresh
<1> QED
  BY <1>2, <1>3

\* When run() enters one, that was still to be done, and is done then.
LEMMA EnterFresh ==
    ASSUME TypeInv, NEW n \in Node, NEW u \in Thread, Single(n), EnterLocal(n, u),
           NEW p, p = job[n][u].with
    PROVE  Fresh(n, p) /\ ~Fresh(n, p)'
<1> DEFINE g == Generated(n, u, generator)
<1>1. /\ job[n][u].pc = "enter" /\ Become(n, u, "request", p, g) /\ todo' = todo
  BY DEF EnterLocal, Doing, runVars
<1>2. u = "run" /\ p \notin todo[n]
  BY <1>1 DEF Single
<1>3. p \in Node /\ g \in Nat /\ "request" \in Place(u)
  BY JobFields, GenerateType, SharedPlaces
<1> HIDE DEF g
<1>4. job'[n][u] = Job("request", p, g)
  BY <1>1, <1>3, BecomeJob
<1>5. Fresh(n, p)
  BY <1>1, <1>2 DEF Fresh
<1>6. ~Fresh(n, p)'
  BY <1>1, <1>2, <1>4 DEF Fresh, Job
<1> QED
  BY <1>5, <1>6

\* Requested in terms of the numbers of the local VAPs.
LEMMA RequestedNext ==
    ASSUME NEW n \in Node, NEW p \in Node,
           ASSUME NEW k \in Places(local_vaps'[n], p), NEW g, g = local_vaps'[n][k].id
           PROVE  Tokens(n, p, {g}, Nat)'
    PROVE  Requested(n, p)'
  BY DEF Requested, Places, Tokens, JobTokens, ChanTokens, QueueTokens, VapTokens, CallerJob,
     ServerJob

\* The requests on their way stay those of the one VAP.
LEMMA RequestsKept ==
    ASSUME TypeInv, NEW n \in Node, NEW p \in Node, EndsAt(n, p), links = 0,
           NEW m \in Node, NEW u \in Thread, NEW q \in Node, Ordinary(m, u, q)
    PROVE  Requested(n, p)' /\ (Fresh(n, p)' => Untouched(n, p)') /\ Single(n)'
<1>1. Requested(n, p) /\ (Fresh(n, p) => Untouched(n, p)) /\ Single(n)
  BY DEF EndsAt
<1>2. Single(n)' /\ (Fresh(n, p)' => Fresh(n, p))
  BY <1>1, OrdinaryMoves, FreshStep
<1>3. Generated(m, u, generator) \in Nat
  BY GenerateType
<1>4. CASE EnterLocal(m, u) /\ m = n /\ job[m][u].with = p
  <2>1. Fresh(n, p) /\ ~Fresh(n, p)'
    BY <1>1, <1>4, EnterFresh
  <2>2. ASSUME NEW k \in Places(local_vaps'[n], p), NEW g, g = local_vaps'[n][k].id
        PROVE  Tokens(n, p, {g}, Nat)'
    <3>1. g = Generated(m, u, generator)
      BY <1>1, <2>1, <2>2, LocalFrom DEF Untouched
    <3>2. Tokens(n, p, {g}, Nat)
      BY <1>1, <2>1, TokensWider DEF Untouched
    <3> QED
      BY <1>3, <3>1, <3>2, TokensStep
  <2>3. Requested(n, p)'
    BY <2>2, RequestedNext
  <2> QED
    BY <1>2, <2>1, <2>3
<1>5. CASE ~(EnterLocal(m, u) /\ m = n /\ job[m][u].with = p)
  <2>1. ASSUME NEW k \in Places(local_vaps'[n], p), NEW g, g = local_vaps'[n][k].id
        PROVE  Tokens(n, p, {g}, Nat)'
    <3>1. PICK j \in Places(local_vaps[n], p) : g = local_vaps[n][j].id
      BY <1>5, <2>1, LocalFrom
    <3>2. Tokens(n, p, {g}, Nat)
      BY <1>1, <3>1 DEF Requested
    <3> QED
      BY <1>3, <1>5, <3>2, TokensStep
  <2>2. Requested(n, p)'
    BY <2>1, RequestedNext
  <2>3. ASSUME Fresh(n, p)' PROVE Untouched(n, p)'
    <3>1. Tokens(n, p, {}, Nat) /\ Places(local_vaps[n], p) = {}
      BY <1>1, <1>2, <2>3 DEF Untouched
    <3>2. Tokens(n, p, {}, Nat)'
      BY <1>3, <1>5, <3>1, TokensStep
    <3>3. \A k \in Places(local_vaps'[n], p) : FALSE
      BY <1>5, <3>1, LocalFrom
    <3>4. Places(local_vaps[n], p)' = {}
      BY <3>3 DEF Places
    <3> QED
      BY <3>2, <3>4 DEF Untouched
  <2> QED
    BY <1>2, <2>2, <2>3
<1> QED
  BY <1>4, <1>5

\* Nothing has been entered or sent at the start.
LEMMA EndsInit == Init => EndsInv
<1> SUFFICES ASSUME Init, NEW n \in Node, NEW p \in Node PROVE EndsAt(n, p)
  BY DEF EndsInv, Init
<1>1. /\ job[n] = Boot(n) /\ job[p] = Boot(p)
      /\ chan[n][p] = <<>> /\ chan[p][n] = <<>> /\ msgQueue[p] = <<>> /\ msgQueue[n] = <<>>
      /\ remote_vaps[p] = <<>> /\ local_vaps[n] = <<>>
  BY DEF Init
<1>2. \A t \in Thread : job[n][t].pc \in {"sleep", "idle"} /\ job[p][t].pc \in {"sleep", "idle"}
  BY <1>1, BootJob
<1>3. \A S : <<>> \in Seq(S)
  OBVIOUS
<1>4. ASSUME NEW R, NEW A PROVE Tokens(n, p, R, A)
  BY <1>1, <1>2, <1>3 DEF Tokens, JobTokens, ChanTokens, QueueTokens, VapTokens, CallerJob,
     ServerJob
<1>5. Places(local_vaps[n], p) = {}
  BY <1>1 DEF Places
<1>6. Single(n)
  BY <1>2 DEF Single
<1>7. Tokens(n, p, Nat, RemoteIds(p, n)) /\ Tokens(n, p, {}, Nat)
  BY <1>4
<1> QED
  BY <1>5, <1>6, <1>7 DEF EndsAt, Requested, Untouched

\* The ends are kept together by every step.
LEMMA EndsNext == TypeInv /\ EndsInv /\ [Next]_vars => EndsInv'
<1> SUFFICES ASSUME TypeInv, EndsInv, [Next]_vars PROVE EndsInv'
  OBVIOUS
<1>1. ASSUME NEW m \in Node, NEW u \in Thread, NEW q \in Node, Ordinary(m, u, q)
      PROVE  EndsInv'
  <2>1. links' = links /\ boots' = boots
    BY <1>1, OrdinaryBounds
  <2>2. ASSUME boots = 0, NEW n \in Node, NEW p \in Node PROVE EndsAt(n, p)'
    <3>1. EndsAt(n, p)
      BY <2>2 DEF EndsInv
    <3>2. Tokens(n, p, Nat, RemoteIds(p, n))'
      BY <1>1, <3>1, AnswersKept DEF EndsAt
    <3>3. links = 0 => Requested(n, p)' /\ (Fresh(n, p)' => Untouched(n, p)') /\ Single(n)'
      BY <1>1, <3>1, RequestsKept
    <3> QED
      BY <2>1, <3>2, <3>3 DEF EndsAt
  <2> QED
    BY <2>1, <2>2 DEF EndsInv
<1>2. ASSUME NEW m \in Node, NEW q \in Node, newLink_cb(m, q) PROVE EndsInv'
  <2>1. links' = links + 1 /\ boots' = boots /\ links' # 0 /\ links' \in Nat
    BY <1>2 DEF newLink_cb, EndsInv
  <2>2. ASSUME boots = 0, NEW n \in Node, NEW p \in Node PROVE EndsAt(n, p)'
    <3>1. EndsAt(n, p)
      BY <2>2 DEF EndsInv
    <3>2. "rx" \in Thread
      BY DEF Thread
    <3>3. Tokens(n, p, Nat, RemoteIds(p, n))'
      BY <1>2, <3>1, <3>2, AnswersKept DEF EndsAt
    <3> QED
      BY <2>1, <3>3 DEF EndsAt
  <2> QED
    BY <2>1, <2>2 DEF EndsInv
<1>3. ASSUME NEW m \in Node, Restart(m) PROVE EndsInv'
  <2>1. boots' = boots + 1 /\ links' = links
    BY <1>3 DEF Restart
  <2>2. boots' \in Nat /\ boots' # 0
    BY <2>1 DEF EndsInv
  <2> QED
    BY <2>1, <2>2 DEF EndsInv
<1>4. CASE UNCHANGED vars
  <2>1. UNCHANGED <<job, chan, msgQueue, local_vaps, remote_vaps, todo, links, boots>>
    BY <1>4 DEF vars, vapVars, runVars, bounds
  <2>2. ASSUME NEW n \in Node, NEW p \in Node, EndsAt(n, p) PROVE EndsAt(n, p)'
    <3>1. ASSUME NEW R, NEW A, Tokens(n, p, R, A) PROVE Tokens(n, p, R, A)'
      BY <2>1, <3>1 DEF Tokens, JobTokens, ChanTokens, QueueTokens, VapTokens, CallerJob,
         ServerJob
    <3>2. Tokens(n, p, Nat, RemoteIds(p, n))'
      <4> SUFFICES ASSUME NEW A, A = RemoteIds(p, n)' PROVE Tokens(n, p, Nat, A)'
        BY DEF Tokens, JobTokens, ChanTokens, QueueTokens, VapTokens, CallerJob, ServerJob
      <4>1. A = RemoteIds(p, n)
        BY <2>1 DEF RemoteIds, Places
      <4> QED
        BY <2>2, <3>1, <4>1 DEF EndsAt
    <3>3. ASSUME Requested(n, p) PROVE Requested(n, p)'
      <4>1. ASSUME NEW k \in Places(local_vaps'[n], p), NEW g, g = local_vaps'[n][k].id
            PROVE  Tokens(n, p, {g}, Nat)'
        BY <2>1, <3>1, <3>3, <4>1 DEF Requested
      <4> QED
        BY <4>1, RequestedNext
    <3>4. ASSUME Untouched(n, p) PROVE Untouched(n, p)'
      BY <2>1, <3>1, <3>4 DEF Untouched, Places
    <3>5. (Fresh(n, p)' <=> Fresh(n, p)) /\ (Single(n)' <=> Single(n)) /\ links' = links
      BY <2>1 DEF Fresh, Single
    <3> QED
      BY <2>2, <3>2, <3>3, <3>4, <3>5 DEF EndsAt
  <2> QED
    BY <2>1, <2>2 DEF EndsInv
<1>5. "rx" \in Thread
  BY DEF Thread
<1>6. CASE Next
  <2>1. PICK m \in Node :
           \/ \E t \in Thread : Work(m, t) \/ SuspendGenerate(m, t)
           \/ Run(m)
           \/ Receive(m)
           \/ \E p \in Node : newLink_cb(m, p) \/ linkFailure_cb(m, p) \/ Lose(m, p)
           \/ Restart(m)
    BY <1>6 DEF Next
  <2>2. \/ \E u \in Thread, q \in Node : Ordinary(m, u, q)
        \/ \E q \in Node : newLink_cb(m, q)
        \/ Restart(m)
    BY <1>5, <2>1 DEF Ordinary
  <2> QED
    BY <1>1, <1>2, <1>3, <2>2
<1> QED
  BY <1>4, <1>6

\* The ends stay together.
LEMMA EndsKept == Spec => []EndsInv
  BY EndsInit, EndsNext, TypeKept, PTL DEF Spec

\* The two ends of every tunnel fit, for any number of access points, however their
\* threads and messages interleave, whichever messages are lost and whichever
\* neighbours leave: the number a completed local VAP has for the other end is that
\* of a remote VAP which the neighbour has set up for this access point, and, until a
\* neighbour is found late, that VAP's number for this end is the local VAP's own.
THEOREM VapEndsMatch == Spec => []EndsMatch
<1>1. TypeInv /\ EndsInv => EndsMatch
  <2> SUFFICES ASSUME TypeInv, EndsInv, boots = 0, NEW n \in Node,
                      NEW i \in DOMAIN local_vaps[n], local_vaps[n][i].peer # None
               PROVE  \E j \in DOMAIN remote_vaps[local_vaps[n][i].neighbor] :
                         LET w == remote_vaps[local_vaps[n][i].neighbor][j]
                         IN  /\ w.neighbor = n /\ w.id = local_vaps[n][i].peer
                             /\ links = 0 => w.peer = local_vaps[n][i].id
    BY DEF EndsMatch
  <2> DEFINE v == local_vaps[n][i]
             p == v.neighbor
  <2>1. v \in Vap
    BY DEF TypeInv, TypeOK
  <2>2. p \in Node
    BY <2>1 DEF Vap
  <2>3. EndsAt(n, p)
    BY <2>2 DEF EndsInv
  <2>4. v \in AnswerVap(p, RemoteIds(p, n))
    BY <2>3 DEF EndsAt, Tokens, VapTokens
  <2>5. v.peer \in RemoteIds(p, n)
    BY <2>4 DEF AnswerVap
  <2>6. PICK j \in Places(remote_vaps[p], n) : remote_vaps[p][j].id = v.peer
    BY <2>5 DEF RemoteIds
  <2>7. j \in DOMAIN remote_vaps[p] /\ remote_vaps[p][j].neighbor = n
    BY DEF Places
  <2>8. ASSUME links = 0 PROVE remote_vaps[p][j].peer = v.id
    <3>1. i \in Places(local_vaps[n], p)
      BY DEF Places
    <3>2. Tokens(n, p, {v.id}, Nat)
      BY <2>3, <2>8, <3>1 DEF EndsAt, Requested
    <3>3. remote_vaps[p] \in Seq(RequestVap(n, {v.id}))
      BY <3>2 DEF Tokens, VapTokens
    <3>4. remote_vaps[p][j] \in RequestVap(n, {v.id})
      BY <2>7, <3>3
    <3> QED
      BY <2>7, <3>4 DEF RequestVap
  <2> QED
    BY <2>6, <2>7, <2>8
<1> QED
  BY <1>1, EndsKept, TypeKept, PTL

-----------------------------------------------------------------------------
(* Setups that come to rest                                                *)

\* Where the request of n to p is: with a thread of n, on the channel, with a thread
\* of p, in p's queue; and the remote VAP that p has set up for it.
Calling(n, p) == {t \in Thread : job[n][t].pc = "request" /\ job[n][t].with = p}
InAir(n, p) == {i \in DOMAIN chan[n][p] : chan[n][p][i].type = "request"}
Serving(n, p) == {t \in Thread : /\ job[p][t].pc \in {"queueRequest", "create", "admit"}
                                 /\ job[p][t].with = n}
Late(s, k, n) == {i \in DOMAIN s : i > k /\ s[i].from = n /\ s[i].msg.type = "request"}
Waiting(n, p) == Late(msgQueue[p], drained[p], n)
Granted(n, p) == Places(remote_vaps[p], n)

\* At most one of the five sets has an element, and not more than one.
AtMostOne(S) == \A x, y \in S : x = y
OneOf(a, b, c, d, e) ==
    /\ AtMostOne(a) /\ AtMostOne(b) /\ AtMostOne(c) /\ AtMostOne(d) /\ AtMostOne(e)
    /\ a # {} => b = {} /\ c = {} /\ d = {} /\ e = {}
    /\ b # {} => c = {} /\ d = {} /\ e = {}
    /\ c # {} => d = {} /\ e = {}
    /\ d # {} => e = {}

\* S becomes T: there is as much in it as before, what was in it is gone, or something
\* has come into it.
Like(S, T) == (S = {} <=> T = {}) /\ (AtMostOne(S) => AtMostOne(T))
Gone(S, T) == S # {} /\ (AtMostOne(S) => T = {})
Come(S, T) == T # {} /\ (S = {} => AtMostOne(T))

\* A set that does not change.
LEMMA LikeSelf == ASSUME NEW S PROVE Like(S, S)
  BY DEF Like

\* An element is taken out or put in.
LEMMA OneChanged ==
    ASSUME NEW S, NEW T, NEW x, \A y : y # x => (y \in S <=> y \in T)
    PROVE  /\ (x \in S <=> x \in T) => Like(S, T)
           /\ x \in S /\ x \notin T => Gone(S, T)
           /\ x \notin S /\ x \in T => Come(S, T)
<1>1. ASSUME x \in S <=> x \in T PROVE Like(S, T)
  <2>1. S = T
    BY <1>1
  <2> QED
    BY <2>1, LikeSelf
<1>2. ASSUME x \in S, x \notin T PROVE Gone(S, T)
  BY <1>2 DEF Gone, AtMostOne
<1>3. ASSUME x \notin S, x \in T PROVE Come(S, T)
  BY <1>3 DEF Come, AtMostOne
<1> QED
  BY <1>1, <1>2, <1>3

\* One thread moves, and the others stay.
LEMMA MovedJob ==
    ASSUME TypeInv, NEW m \in Node, NEW u \in Thread, NEW pc \in Place(u), NEW q \in Node,
           NEW id \in Nat, Become(m, u, pc, q, id)
    PROVE  \A o \in Node, t \in Thread :
              job'[o][t] = IF o = m /\ t = u THEN Job(pc, q, id) ELSE job[o][t]
<1> SUFFICES ASSUME NEW o \in Node, NEW t \in Thread
             PROVE  job'[o][t] = IF o = m /\ t = u THEN Job(pc, q, id) ELSE job[o][t]
  OBVIOUS
<1> QED
  BY BecomeJob

\* The thread that a step moves is the only one that gains or loses the request.
LEMMA CallingMoves ==
    ASSUME TypeInv, NEW n \in Node, NEW p \in Node, NEW m \in Node, NEW u \in Thread,
           NEW pc \in Place(u), NEW q \in Node, NEW id \in Nat, Become(m, u, pc, q, id),
           NEW old, old <=> m = n /\ job[m][u].pc = "request" /\ job[m][u].with = p,
           NEW new, new <=> m = n /\ pc = "request" /\ q = p
    PROVE  /\ (old <=> new) => Like(Calling(n, p), Calling(n, p)')
           /\ old /\ ~new => Gone(Calling(n, p), Calling(n, p)')
           /\ ~old /\ new => Come(Calling(n, p), Calling(n, p)')
<1>1. \A o \in Node, t \in Thread :
         job'[o][t] = IF o = m /\ t = u THEN Job(pc, q, id) ELSE job[o][t]
  BY MovedJob
<1>2. Job(pc, q, id).pc = pc /\ Job(pc, q, id).with = q
  BY DEF Job
<1>3. \A t : t # u => (t \in Calling(n, p) <=> t \in Calling(n, p)')
  BY <1>1 DEF Calling
<1>4. m # n => (u \in Calling(n, p) <=> u \in Calling(n, p)')
  BY <1>1 DEF Calling
<1>5. m = n => (u \in Calling(n, p) <=> old) /\ (u \in Calling(n, p)' <=> new)
  BY <1>1, <1>2 DEF Calling
<1> QED
  BY <1>3, <1>4, <1>5, OneChanged

\* The same on the other side.
LEMMA ServingMoves ==
    ASSUME TypeInv, NEW n \in Node, NEW p \in Node, NEW m \in Node, NEW u \in Thread,
           NEW pc \in Place(u), NEW q \in Node, NEW id \in Nat, Become(m, u, pc, q, id),
           NEW old, old <=> /\ m = p /\ job[m][u].pc \in {"queueRequest", "create", "admit"}
                            /\ job[m][u].with = n,
           NEW new, new <=> /\ m = p /\ pc \in {"queueRequest", "create", "admit"} /\ q = n
    PROVE  /\ (old <=> new) => Like(Serving(n, p), Serving(n, p)')
           /\ old /\ ~new => Gone(Serving(n, p), Serving(n, p)')
           /\ ~old /\ new => Come(Serving(n, p), Serving(n, p)')
<1>1. \A o \in Node, t \in Thread :
         job'[o][t] = IF o = m /\ t = u THEN Job(pc, q, id) ELSE job[o][t]
  BY MovedJob
<1>2. Job(pc, q, id).pc = pc /\ Job(pc, q, id).with = q
  BY DEF Job
<1>3. \A t : t # u => (t \in Serving(n, p) <=> t \in Serving(n, p)')
  BY <1>1 DEF Serving
<1>4. m # p => (u \in Serving(n, p) <=> u \in Serving(n, p)')
  BY <1>1 DEF Serving
<1>5. m = p => (u \in Serving(n, p) <=> old) /\ (u \in Serving(n, p)' <=> new)
  BY <1>1, <1>2 DEF Serving
<1> QED
  BY <1>3, <1>4, <1>5, OneChanged

\* A message is sent.
LEMMA AirAppend ==
    ASSUME NEW s \in Seq(Message), NEW msg \in Message, NEW S, NEW T,
           S = {i \in DOMAIN s : s[i].type = "request"},
           T = {i \in DOMAIN Append(s, msg) : Append(s, msg)[i].type = "request"}
    PROVE  /\ msg.type = "request" => Come(S, T)
           /\ msg.type # "request" => Like(S, T)
<1>1. /\ DOMAIN Append(s, msg) = 1..(Len(s) + 1) /\ Len(s) \in Nat
      /\ DOMAIN s = 1..Len(s)
      /\ \A i \in 1..Len(s) : Append(s, msg)[i] = s[i]
      /\ Append(s, msg)[Len(s) + 1] = msg
  BY ListAppended
<1>2. \A i : i # Len(s) + 1 => (i \in S <=> i \in T)
  BY <1>1
<1> DEFINE x == Len(s) + 1
<1>3. x \notin S /\ (x \in T <=> msg.type = "request")
  BY <1>1
<1>4. \A i : i # x => (i \in S <=> i \in T)
  BY <1>2
<1> HIDE DEF x
<1>5. (x \notin T => Like(S, T)) /\ (x \in T => Come(S, T))
  BY <1>3, <1>4, OneChanged, Zenon
<1> QED
  BY <1>3, <1>5

\* A message is taken.
LEMMA AirTail ==
    ASSUME NEW s \in Seq(Message), s # <<>>, NEW S, NEW T,
           S = {i \in DOMAIN s : s[i].type = "request"},
           T = {i \in DOMAIN Tail(s) : Tail(s)[i].type = "request"}
    PROVE  /\ Head(s).type = "request" => Gone(S, T)
           /\ Head(s).type # "request" => Like(S, T)
<1>1. /\ Len(s) \in Nat \ {0} /\ DOMAIN s = 1..Len(s) /\ Head(s) = s[1]
      /\ DOMAIN Tail(s) = 1..(Len(s) - 1)
      /\ \A i \in 1..(Len(s) - 1) : Tail(s)[i] = s[i + 1]
  OBVIOUS
<1>2. \A i \in T : i \in Int /\ i >= 1 /\ i + 1 \in S
  BY <1>1
<1>3. \A i \in S : i \in Int /\ (i = 1 \/ i - 1 \in T)
  BY <1>1
<1>4. 1 \in S <=> Head(s).type = "request"
  BY <1>1
<1>5. ASSUME 1 \in S PROVE Gone(S, T)
  <2>1. ASSUME AtMostOne(S), NEW i \in T PROVE FALSE
    <3>1. i + 1 \in S /\ i + 1 # 1
      BY <1>2
    <3> QED
      BY <1>5, <2>1, <3>1 DEF AtMostOne
  <2> QED
    BY <1>5, <2>1 DEF Gone
<1>6. ASSUME 1 \notin S PROVE Like(S, T)
  <2>1. S = {} <=> T = {}
    BY <1>2, <1>3, <1>6
  <2>2. ASSUME AtMostOne(S), NEW i \in T, NEW j \in T PROVE i = j
    <3>1. i + 1 = j + 1
      BY <1>2, <2>2 DEF AtMostOne
    <3> QED
      BY <1>2, <3>1
  <2> QED
    BY <2>1, <2>2 DEF Like, AtMostOne
<1> QED
  BY <1>4, <1>5, <1>6

\* A message is put in the queue.
LEMMA QueueAppend ==
    ASSUME NEW s \in Seq(Queued), NEW e \in Queued, NEW k \in Nat, k <= Len(s), NEW n
    PROVE  /\ e.from = n /\ e.msg.type = "request" => Come(Late(s, k, n), Late(Append(s, e), k, n))
           /\ ~(e.from = n /\ e.msg.type = "request") => Like(Late(s, k, n), Late(Append(s, e), k, n))
<1> DEFINE S == Late(s, k, n)
           T == Late(Append(s, e), k, n)
<1>1. /\ DOMAIN Append(s, e) = 1..(Len(s) + 1) /\ Len(s) \in Nat
      /\ DOMAIN s = 1..Len(s)
      /\ \A i \in 1..Len(s) : Append(s, e)[i] = s[i]
      /\ Append(s, e)[Len(s) + 1] = e
  BY ListAppended
<1>2. \A i : i # Len(s) + 1 => (i \in S <=> i \in T)
  BY <1>1 DEF Late
<1>3. Len(s) + 1 \notin S
  BY <1>1 DEF Late
<1>4. Len(s) + 1 \in T <=> e.from = n /\ e.msg.type = "request"
  BY <1>1 DEF Late
<1> DEFINE x == Len(s) + 1
<1>5. (\A i : i # x => (i \in S <=> i \in T)) /\ x \notin S
  BY <1>2, <1>3
<1> HIDE DEF x, S, T
<1>6. (x \notin T => Like(S, T)) /\ (x \in T => Come(S, T))
  BY <1>5, OneChanged, Zenon
<1> QED
  BY <1>4, <1>6 DEF x, S, T

\* The next message of the queue is processed.
LEMMA QueueDrain ==
    ASSUME NEW s \in Seq(Queued), NEW k \in Nat, k < Len(s), NEW n
    PROVE  /\ s[k + 1].from = n /\ s[k + 1].msg.type = "request" =>
                 Gone(Late(s, k, n), Late(s, k + 1, n))
           /\ ~(s[k + 1].from = n /\ s[k + 1].msg.type = "request") =>
                 Like(Late(s, k, n), Late(s, k + 1, n))
<1> DEFINE S == Late(s, k, n)
           T == Late(s, k + 1, n)
<1>1. DOMAIN s = 1..Len(s) /\ Len(s) \in Nat /\ k + 1 \in DOMAIN s
  OBVIOUS
<1>2. \A i : i # k + 1 => (i \in S <=> i \in T)
  BY <1>1 DEF Late
<1>3. k + 1 \notin T /\ (k + 1 \in S <=> s[k + 1].from = n /\ s[k + 1].msg.type = "request")
  BY <1>1 DEF Late
<1> HIDE DEF S, T
<1> QED
  BY <1>2, <1>3, OneChanged DEF S, T

\* A remote VAP is entered.
LEMMA GrantAppend ==
    ASSUME NEW s \in Seq(Vap), NEW v \in Vap, NEW n
    PROVE  /\ v.neighbor = n => Come(Places(s, n), Places(Append(s, v), n))
           /\ v.neighbor # n => Like(Places(s, n), Places(Append(s, v), n))
<1> DEFINE S == Places(s, n)
           T == Places(Append(s, v), n)
<1>1. /\ DOMAIN Append(s, v) = 1..(Len(s) + 1) /\ Len(s) \in Nat
      /\ DOMAIN s = 1..Len(s)
      /\ \A i \in 1..Len(s) : Append(s, v)[i] = s[i]
      /\ Append(s, v)[Len(s) + 1] = v
  BY ListAppended
<1>2. \A i : i # Len(s) + 1 => (i \in S <=> i \in T)
  BY <1>1 DEF Places
<1>3. Len(s) + 1 \notin S /\ (Len(s) + 1 \in T <=> v.neighbor = n)
  BY <1>1 DEF Places
<1> HIDE DEF S, T
<1> QED
  BY <1>2, <1>3, OneChanged DEF S, T

\* Two agents list each other.
Mutual(n, p) == p \in neighbors[n] /\ n \in neighbors[p]

\* What a step does to the request of n to p.  It comes into being when run() enters
\* the VAP, and moves on from place to place: it can get lost on its way to the channel
\* or on it, and is dropped when there is a remote VAP.
RequestMoves(n, p) ==
    LET call == Like(Calling(n, p), Calling(n, p)')
        air == Like(InAir(n, p), InAir(n, p)')
        serve == Like(Serving(n, p), Serving(n, p)')
        wait == Like(Waiting(n, p), Waiting(n, p)')
        grant == Like(Granted(n, p), Granted(n, p)')
    IN  \/ call /\ air /\ serve /\ wait /\ grant
        \/ Fresh(n, p) /\ Come(Calling(n, p), Calling(n, p)') /\ air /\ serve /\ wait /\ grant
        \/ /\ Gone(Calling(n, p), Calling(n, p)') /\ serve /\ wait /\ grant
           /\ \/ Come(InAir(n, p), InAir(n, p)')
              \/ air /\ (p \notin neighbors[n] \/ <<n, p>> \notin session)
        \/ Gone(InAir(n, p), InAir(n, p)') /\ call /\ serve /\ wait /\ grant /\ losses' # 0
        \/ /\ Gone(InAir(n, p), InAir(n, p)') /\ Come(Serving(n, p), Serving(n, p)')
           /\ call /\ wait /\ grant
        \/ /\ Gone(Serving(n, p), Serving(n, p)') /\ Come(Waiting(n, p), Waiting(n, p)')
           /\ call /\ air /\ grant
        \/ /\ Gone(Waiting(n, p), Waiting(n, p)') /\ Come(Serving(n, p), Serving(n, p)')
           /\ call /\ air /\ grant
        \/ /\ Gone(Serving(n, p), Serving(n, p)') /\ Granted(n, p) # {}
           /\ call /\ air /\ wait /\ grant
        \/ /\ Gone(Serving(n, p), Serving(n, p)') /\ Come(Granted(n, p), Granted(n, p)')
           /\ call /\ air /\ wait

\* The request is in one of the places; it is not in two.
Somewhere(n, p) ==
    \/ Calling(n, p) # {} \/ InAir(n, p) # {} \/ Serving(n, p) # {} \/ Waiting(n, p) # {}
    \/ Granted(n, p) # {}
Once(n, p) ==
    OneOf(Calling(n, p), InAir(n, p), Serving(n, p), Waiting(n, p), Granted(n, p))

\* So the request is never in two places, and does not vanish from one.
LEMMA RequestOnce ==
    ASSUME NEW n \in Node, NEW p \in Node, Once(n, p), RequestMoves(n, p),
           Fresh(n, p) => ~Somewhere(n, p)
    PROVE  /\ Once(n, p)'
           /\ Somewhere(n, p) => \/ Somewhere(n, p)' \/ losses' # 0
                                 \/ p \notin neighbors[n] \/ <<n, p>> \notin session
<1> DEFINE a == Calling(n, p)   aa == Calling(n, p)'
           b == InAir(n, p)     bb == InAir(n, p)'
           c == Serving(n, p)   cc == Serving(n, p)'
           d == Waiting(n, p)   dd == Waiting(n, p)'
           e == Granted(n, p)   ee == Granted(n, p)'
<1>1. OneOf(a, b, c, d, e)
  BY DEF Once
<1>2. Fresh(n, p) => a = {} /\ b = {} /\ c = {} /\ d = {} /\ e = {}
  BY DEF Somewhere
<1>3. \/ Like(a, aa) /\ Like(b, bb) /\ Like(c, cc) /\ Like(d, dd) /\ Like(e, ee)
      \/ Fresh(n, p) /\ Come(a, aa) /\ Like(b, bb) /\ Like(c, cc) /\ Like(d, dd) /\ Like(e, ee)
      \/ /\ Gone(a, aa) /\ Like(c, cc) /\ Like(d, dd) /\ Like(e, ee)
         /\ \/ Come(b, bb)
            \/ Like(b, bb) /\ (p \notin neighbors[n] \/ <<n, p>> \notin session)
      \/ Gone(b, bb) /\ Like(a, aa) /\ Like(c, cc) /\ Like(d, dd) /\ Like(e, ee) /\ losses' # 0
      \/ Gone(b, bb) /\ Come(c, cc) /\ Like(a, aa) /\ Like(d, dd) /\ Like(e, ee)
      \/ Gone(c, cc) /\ Come(d, dd) /\ Like(a, aa) /\ Like(b, bb) /\ Like(e, ee)
      \/ Gone(d, dd) /\ Come(c, cc) /\ Like(a, aa) /\ Like(b, bb) /\ Like(e, ee)
      \/ Gone(c, cc) /\ e # {} /\ Like(a, aa) /\ Like(b, bb) /\ Like(d, dd) /\ Like(e, ee)
      \/ Gone(c, cc) /\ Come(e, ee) /\ Like(a, aa) /\ Like(b, bb) /\ Like(d, dd)
  BY Zenon DEF RequestMoves
<1> HIDE DEF a, aa, b, bb, c, cc, d, dd, e, ee
<1>4. OneOf(aa, bb, cc, dd, ee)
  BY <1>1, <1>2, <1>3 DEF OneOf, Like, Gone, Come, AtMostOne
<1>5. \/ a # {} \/ b # {} \/ c # {} \/ d # {} \/ e # {}
      => \/ aa # {} \/ bb # {} \/ cc # {} \/ dd # {} \/ ee # {} \/ losses' # 0
         \/ p \notin neighbors[n] \/ <<n, p>> \notin session
  BY <1>1, <1>3 DEF OneOf, Like, Gone, Come
<1>6. Once(n, p)'
  BY <1>4 DEF Once, a, aa, b, bb, c, cc, d, dd, e, ee, OneOf, AtMostOne
<1> QED
  BY <1>5, <1>6 DEF Somewhere, a, aa, b, bb, c, cc, d, dd, e, ee

\* Places a step does not touch.
LEMMA PlacesSame ==
    ASSUME NEW n \in Node, NEW p \in Node
    PROVE  /\ chan'[n][p] = chan[n][p] => Like(InAir(n, p), InAir(n, p)')
           /\ msgQueue'[p] = msgQueue[p] /\ drained'[p] = drained[p] =>
                 Like(Waiting(n, p), Waiting(n, p)')
           /\ remote_vaps'[p] = remote_vaps[p] => Like(Granted(n, p), Granted(n, p)')
<1>1. ASSUME chan'[n][p] = chan[n][p] PROVE Like(InAir(n, p), InAir(n, p)')
  <2>1. InAir(n, p)' = InAir(n, p)
    BY <1>1 DEF InAir
  <2> QED
    BY <2>1, LikeSelf
<1>2. ASSUME msgQueue'[p] = msgQueue[p] /\ drained'[p] = drained[p]
      PROVE  Like(Waiting(n, p), Waiting(n, p)')
  <2>1. Waiting(n, p)' = Waiting(n, p)
    BY <1>2 DEF Waiting, Late
  <2> QED
    BY <2>1, LikeSelf
<1>3. ASSUME remote_vaps'[p] = remote_vaps[p] PROVE Like(Granted(n, p), Granted(n, p)')
  <2>1. Granted(n, p)' = Granted(n, p)
    BY <1>3 DEF Granted, Places
  <2> QED
    BY <2>1, LikeSelf
<1> QED
  BY <1>1, <1>2, <1>3

\* Threads that neither have a request nor get one.
LEMMA JobsSame ==
    ASSUME NEW n \in Node, NEW p \in Node,
           \A m \in Node, t \in Thread : /\ job'[m][t].pc = job[m][t].pc
                                         /\ job'[m][t].with = job[m][t].with
    PROVE  Like(Calling(n, p), Calling(n, p)') /\ Like(Serving(n, p), Serving(n, p)')
<1>1. Calling(n, p)' = Calling(n, p) /\ Serving(n, p)' = Serving(n, p)
  BY DEF Calling, Serving
<1> QED
  BY <1>1, LikeSelf

\* A thread that goes from one place outside the exchange of requests to another.
LEMMA JobsLike ==
    ASSUME TypeInv, NEW n \in Node, NEW p \in Node, NEW m \in Node, NEW u \in Thread,
           NEW pc \in Place(u), NEW q \in Node, NEW id \in Nat, Become(m, u, pc, q, id),
           job[m][u].pc \notin {"request", "queueRequest", "create", "admit"},
           pc \notin {"request", "queueRequest", "create", "admit"}
    PROVE  Like(Calling(n, p), Calling(n, p)') /\ Like(Serving(n, p), Serving(n, p)')
<1>1. Like(Calling(n, p), Calling(n, p)')
  BY CallingMoves
<1>2. Like(Serving(n, p), Serving(n, p)')
  BY ServingMoves
<1> QED
  BY <1>1, <1>2

\* Going home is one way to be done with a job.
LEMMA DoneBecome ==
    ASSUME NEW m \in Node, NEW u \in Thread, Done(m, u)
    PROVE  \E pc \in Place(u) : /\ pc = Home(u) /\ pc \in {"loop", "idle"} /\ None \in Nat
                                /\ Become(m, u, pc, m, None)
  BY SharedPlaces DEF Done, Home, None

\* A step of the VapManager.
LEMMA WorkRequest ==
    ASSUME TypeInv, NEW n \in Node, NEW p \in Node, NEW m \in Node, NEW u \in Thread,
           Work(m, u), Single(n)
    PROVE  RequestMoves(n, p)
<1> DEFINE q == job[m][u].with
           id == job[m][u].id
           call == Like(Calling(n, p), Calling(n, p)')
           air == Like(InAir(n, p), InAir(n, p)')
           serve == Like(Serving(n, p), Serving(n, p)')
           wait == Like(Waiting(n, p), Waiting(n, p)')
           grant == Like(Granted(n, p), Granted(n, p)')
           pcs == {"initialize", "enter", "request", "create", "admit", "answer", "terminate",
                   "complete", "connect"}
<1>1. q \in Node /\ id \in Nat /\ None \in Nat
  BY JobFields DEF None
<1>2. pcs \subseteq Place(u)
  BY SharedPlaces
<1>3. Generated(m, u, generator) \in Nat
  BY GenerateType
<1>4. /\ local_vaps \in [Node -> Seq(Vap)] /\ remote_vaps \in [Node -> Seq(Vap)]
      /\ chan \in [Node -> [Node -> Seq(Message)]]
  BY DEF TypeInv, TypeOK
<1>5. wait
  <2>1. msgQueue' = msgQueue /\ drained' = drained
    BY DEF Work, CheckLocal, EnterLocal, request_remote_vap_setup, CheckRemote,
     EnterRemote, sent_config_to_local_vap, ConnectRemote, complete_local_vap,
     ConnectLocal, runVars
  <2> QED
    BY <2>1, PlacesSame
<1>6. call /\ air /\ serve /\ grant => RequestMoves(n, p)
  BY <1>5 DEF RequestMoves
<1>7. CASE CheckLocal(m, u)
  <2>1. /\ Done(m, u) \/ Become(m, u, "enter", q, None)
        /\ job[m][u].pc = "initialize" /\ chan' = chan /\ remote_vaps' = remote_vaps
    BY <1>7 DEF CheckLocal, Doing, vapVars
  <2>2. air /\ grant
    BY <2>1, PlacesSame
  <2> HIDE DEF q, id
  <2>3. PICK pc \in Place(u), o \in Node : pc \in {"loop", "idle", "enter"} /\ Become(m, u, pc, o, None)
    BY <1>1, <1>2, <2>1, DoneBecome
  <2>4. call /\ serve
    BY <1>1, <2>1, <2>3, JobsLike
  <2> QED
    BY <1>6, <2>2, <2>4
<1>8. CASE EnterLocal(m, u)
  <2> DEFINE g == Generated(m, u, generator)
  <2>1. /\ Become(m, u, "request", q, g) /\ "request" \in Place(u)
        /\ job[m][u].pc = "enter" /\ chan' = chan /\ remote_vaps' = remote_vaps
    BY <1>2, <1>8 DEF EnterLocal, Doing, vapVars
  <2>2. air /\ grant
    BY <2>1, PlacesSame
  <2>3. m = n /\ q = p => Fresh(n, p)
    BY <1>8, EnterFresh
  <2>4. g \in Nat
    BY <1>3
  <2> HIDE DEF q, id, g
  <2>5. serve
    BY <1>1, <2>1, <2>4, ServingMoves
  <2>6. /\ ~(m = n /\ q = p) => call
        /\ m = n /\ q = p => Come(Calling(n, p), Calling(n, p)')
    BY <1>1, <2>1, <2>4, CallingMoves
  <2> QED
    BY <1>5, <1>6, <2>2, <2>3, <2>5, <2>6 DEF RequestMoves
<1>9. CASE request_remote_vap_setup(m, u)
  <2> DEFINE msg == [type |-> "request", id |-> id]
  <2>1. /\ sendToNeighbor(m, u, q, msg) /\ Done(m, u) /\ job[m][u].pc = "request"
        /\ remote_vaps' = remote_vaps
    BY <1>9 DEF request_remote_vap_setup, Doing, vapVars
  <2>2. msg \in Message /\ msg.type = "request"
    BY <1>1 DEF Message
  <2>3. grant
    BY <2>1, PlacesSame
  <2>4. \/ chan' = [chan EXCEPT ![m][q] = Append(@, msg)]
        \/ chan' = chan /\ (q \notin neighbors[m] \/ <<m, q>> \notin session)
    BY <2>1 DEF sendToNeighbor
  <2>5. PICK pc \in Place(u) : pc \in {"loop", "idle"} /\ Become(m, u, pc, m, None)
    BY <2>1, DoneBecome
  <2> HIDE DEF q, id, msg
  <2>6. \/ chan'[m][q] = Append(chan[m][q], msg)
        \/ chan'[m][q] = chan[m][q] /\ (q \notin neighbors[m] \/ <<m, q>> \notin session)
    <3>1. chan \in [Node -> [Node -> Seq(Message)]] /\ q \in Node
      BY <1>1, <1>4
    <3>2. ASSUME chan' = [chan EXCEPT ![m][q] = Append(@, msg)]
          PROVE  chan'[m][q] = Append(chan[m][q], msg)
      BY <3>1, <3>2
    <3> QED
      BY <2>4, <3>2
  <2>7. ~(m = n /\ q = p) => chan'[n][p] = chan[n][p]
    BY <1>1, <2>1, <2>2, SendStep
  <2>8. serve
    BY <1>1, <2>1, <2>5, ServingMoves
  <2>9. CASE ~(m = n /\ q = p)
    <3>1. call
      BY <1>1, <2>1, <2>5, <2>9, CallingMoves DEF q
    <3>2. air
      BY <2>7, <2>9, PlacesSame
    <3> QED
      BY <1>6, <2>3, <2>8, <3>1, <3>2
  <2>10. CASE m = n /\ q = p
    <3>1. Gone(Calling(n, p), Calling(n, p)')
      BY <1>1, <2>1, <2>5, <2>10, CallingMoves DEF q
    <3>2. chan'[n][p] = Append(chan[n][p], msg) => Come(InAir(n, p), InAir(n, p)')
      <4> HAVE chan'[n][p] = Append(chan[n][p], msg)
      <4>1. chan[n][p] \in Seq(Message)
        BY <1>4
      <4>2. InAir(n, p)' = {i \in DOMAIN Append(chan[n][p], msg) :
                              Append(chan[n][p], msg)[i].type = "request"}
        BY DEF InAir
      <4> QED
        BY <2>2, <4>1, <4>2, AirAppend DEF InAir
    <3>3. chan'[n][p] = chan[n][p] => air
      BY PlacesSame
    <3>4. \/ Come(InAir(n, p), InAir(n, p)')
          \/ air /\ (p \notin neighbors[n] \/ <<n, p>> \notin session)
      BY <2>6, <2>10, <3>2, <3>3
    <3> QED
      BY <1>5, <2>3, <2>8, <3>1, <3>4 DEF RequestMoves
  <2> QED
    BY <2>9, <2>10
<1>10. CASE CheckRemote(m, u)
  <2>1. /\ \/ Done(m, u) /\ Places(remote_vaps[m], q) # {}
           \/ Become(m, u, "admit", q, id)
        /\ job[m][u].pc = "create" /\ chan' = chan /\ remote_vaps' = remote_vaps
    BY <1>10 DEF CheckRemote, Doing, vapVars
  <2>2. air /\ grant
    BY <2>1, PlacesSame
  <2> HIDE DEF id
  <2>3. CASE Become(m, u, "admit", q, id)
    <3>1. "admit" \in Place(u)
      BY <1>2
    <3>2. call
      BY <1>1, <2>1, <2>3, <3>1, CallingMoves
    <3>3. serve
      BY <1>1, <2>1, <2>3, <3>1, ServingMoves
    <3> QED
      BY <1>6, <2>2, <3>2, <3>3
  <2>4. CASE Done(m, u) /\ Places(remote_vaps[m], q) # {}
    <3>1. PICK pc \in Place(u) : pc \in {"loop", "idle"} /\ Become(m, u, pc, m, None)
      BY <2>4, DoneBecome
    <3>2. call
      BY <1>1, <2>1, <3>1, CallingMoves
    <3>3. /\ ~(m = p /\ q = n) => serve
          /\ m = p /\ q = n => Gone(Serving(n, p), Serving(n, p)')
      BY <1>1, <2>1, <3>1, ServingMoves
    <3>4. m = p /\ q = n => Granted(n, p) # {}
      BY <2>4 DEF Granted
    <3> QED
      BY <1>5, <1>6, <2>2, <3>2, <3>3, <3>4 DEF RequestMoves
  <2> QED
    BY <2>1, <2>3, <2>4
<1>11. CASE EnterRemote(m, u)
  <2> DEFINE g == Generated(m, u, generator)
  <2>1. /\ Become(m, u, "answer", q, g) /\ "answer" \in Place(u)
        /\ job[m][u].pc = "admit" /\ chan' = chan
    BY <1>2, <1>11 DEF EnterRemote, Doing
  <2>2. PICK v \in Vap :
           /\ v.neighbor = q
           /\ \A o \in Node : remote_vaps'[o] = IF o = m THEN Append(remote_vaps[m], v)
                                                         ELSE remote_vaps[o]
    BY <1>11, EnterRemoteStep
  <2>3. air
    BY <2>1, PlacesSame
  <2>4. g \in Nat
    BY <1>3
  <2>5. call
    BY <1>1, <2>1, <2>4, CallingMoves
  <2>6. /\ ~(m = p /\ q = n) => serve
        /\ m = p /\ q = n => Gone(Serving(n, p), Serving(n, p)')
    BY <1>1, <2>1, <2>4, ServingMoves
  <2>7. m # p => grant
    BY <2>2, PlacesSame
  <2>8. m = p => /\ q = n => Come(Granted(n, p), Granted(n, p)')
                 /\ q # n => grant
    <3> HAVE m = p
    <3>1. Granted(n, p)' = Places(Append(remote_vaps[p], v), n) /\ remote_vaps[p] \in Seq(Vap)
      BY <1>4, <2>2 DEF Granted, Places
    <3> QED
      BY <2>2, <3>1, GrantAppend DEF Granted
  <2> QED
    BY <1>5, <1>6, <2>3, <2>5, <2>6, <2>7, <2>8 DEF RequestMoves
<1>12. CASE sent_config_to_local_vap(m, u)
  <2> DEFINE msg == [type |-> "completed", id |-> id]
  <2>1. /\ sendToNeighbor(m, u, q, msg) /\ Become(m, u, "terminate", q, id)
        /\ job[m][u].pc = "answer" /\ remote_vaps' = remote_vaps
    BY <1>12 DEF sent_config_to_local_vap, Doing, vapVars
  <2>2. msg \in Message /\ msg.type # "request"
    BY <1>1 DEF Message
  <2>3. grant
    BY <2>1, PlacesSame
  <2>4. "terminate" \in Place(u)
    BY <1>2
  <2> HIDE DEF msg, q, id
  <2>5. chan'[n][p] = chan[n][p] \/ chan'[n][p] = Append(chan[n][p], msg)
    BY <1>1, <2>1, <2>2, SendStep
  <2>6. air
    <3>1. ASSUME chan'[n][p] = Append(chan[n][p], msg) PROVE air
      <4>1. chan[n][p] \in Seq(Message)
        BY <1>4
      <4>2. InAir(n, p)' = {i \in DOMAIN Append(chan[n][p], msg) :
                              Append(chan[n][p], msg)[i].type = "request"}
        BY <3>1 DEF InAir
      <4> QED
        BY <2>2, <4>1, <4>2, AirAppend DEF InAir
    <3> QED
      BY <2>5, <3>1, PlacesSame
  <2>7. call /\ serve
    BY <1>1, <2>1, <2>4, JobsLike
  <2> QED
    BY <1>6, <2>3, <2>6, <2>7
<1>13. CASE ConnectRemote(m, u)
  <2>1. /\ remote_vaps' = [remote_vaps EXCEPT ![m] = WithPort(m, u, @)]
        /\ chan' = chan /\ Done(m, u) /\ job[m][u].pc = "terminate"
    BY <1>13 DEF ConnectRemote, Doing
  <2>2. /\ DOMAIN WithPort(m, u, remote_vaps[m]) = DOMAIN remote_vaps[m]
        /\ \A i \in DOMAIN remote_vaps[m] :
              WithPort(m, u, remote_vaps[m])[i].neighbor = remote_vaps[m][i].neighbor
    BY <1>4, WithPortType
  <2>3. m # p => remote_vaps'[p] = remote_vaps[p]
    BY <1>4, <2>1
  <2>4. m = p => remote_vaps'[p] = WithPort(m, u, remote_vaps[p])
    BY <1>4, <2>1
  <2>5. Granted(n, p)' = Granted(n, p)
    BY <2>2, <2>3, <2>4 DEF Granted, Places
  <2>6. grant /\ air
    BY <2>1, <2>5, LikeSelf, PlacesSame
  <2>7. PICK pc \in Place(u) : pc \in {"loop", "idle"} /\ Become(m, u, pc, m, None)
    BY <2>1, DoneBecome
  <2>8. call /\ serve
    BY <1>1, <2>1, <2>7, JobsLike
  <2> QED
    BY <1>6, <2>6, <2>8
<1>14. CASE complete_local_vap(m, u)
  <2>1. /\ Done(m, u) \/ Become(m, u, "connect", q, local_vaps[m][First(local_vaps[m], q)].id)
        /\ chan' = chan /\ remote_vaps' = remote_vaps /\ job[m][u].pc = "complete"
    BY <1>14 DEF complete_local_vap, Doing
  <2>2. grant /\ air
    BY <2>1, PlacesSame
  <2>3. CASE Places(local_vaps[m], q) = {}
    <3>1. Done(m, u)
      BY <1>14, <2>3 DEF complete_local_vap
    <3>2. PICK pc \in Place(u) : pc \in {"loop", "idle"} /\ Become(m, u, pc, m, None)
      BY <3>1, DoneBecome
    <3>3. call /\ serve
      BY <1>1, <2>1, <3>2, JobsLike
    <3> QED
      BY <1>6, <2>2, <3>3
  <2>4. CASE Places(local_vaps[m], q) # {}
    <3>1. PICK i \in DOMAIN local_vaps[m] : Become(m, u, "connect", q, local_vaps[m][i].id)
      BY <1>14, <2>4, CompleteStep
    <3> DEFINE k == local_vaps[m][i].id
    <3>2. "connect" \in Place(u)
      BY <1>2
    <3>3. local_vaps[m] \in Seq(Vap)
      BY <1>4
    <3>4. k \in Nat
      <4>1. local_vaps[m][i] \in Vap
        BY <3>3
      <4> QED
        BY <4>1 DEF Vap
    <3>5. Become(m, u, "connect", q, k)
      BY <3>1
    <3> HIDE DEF q, id, k
    <3>6. call /\ serve
      BY <1>1, <2>1, <3>2, <3>4, <3>5, JobsLike
    <3> QED
      BY <1>6, <2>2, <3>6
  <2> QED
    BY <2>3, <2>4
<1>15. CASE ConnectLocal(m, u)
  <2>1. Done(m, u) /\ chan' = chan /\ remote_vaps' = remote_vaps /\ job[m][u].pc = "connect"
    BY <1>15 DEF ConnectLocal, Doing
  <2>2. grant /\ air
    BY <2>1, PlacesSame
  <2>3. PICK pc \in Place(u) : pc \in {"loop", "idle"} /\ Become(m, u, pc, m, None)
    BY <2>1, DoneBecome
  <2>4. call /\ serve
    BY <1>1, <2>1, <2>3, JobsLike
  <2> QED
    BY <1>6, <2>2, <2>4
<1> QED
  BY <1>7, <1>8, <1>9, <1>10, <1>11, <1>12, <1>13, <1>14, <1>15 DEF Work

\* A message is taken from a channel.
LEMMA TailRequest ==
    ASSUME TypeInv, NEW n \in Node, NEW p \in Node, NEW m \in Node, NEW q \in Node,
           chan[q][m] # <<>>, chan' = [chan EXCEPT ![q][m] = Tail(@)]
    PROVE  /\ q = n /\ m = p /\ Head(chan[q][m]).type = "request" =>
                 Gone(InAir(n, p), InAir(n, p)')
           /\ ~(q = n /\ m = p /\ Head(chan[q][m]).type = "request") =>
                 Like(InAir(n, p), InAir(n, p)')
<1>1. chan'[n][p] = IF n = q /\ p = m THEN Tail(chan[n][p]) ELSE chan[n][p]
  <2>1. chan \in [Node -> [Node -> Seq(Message)]]
    BY DEF TypeInv, TypeOK
  <2> QED
    BY <2>1
<1>2. CASE ~(q = n /\ m = p)
  <2>1. chan'[n][p] = chan[n][p]
    BY <1>1, <1>2
  <2> QED
    BY <1>2, <2>1, PlacesSame
<1>3. CASE q = n /\ m = p
  <2> DEFINE s == chan[n][p]
  <2>1. chan'[n][p] = Tail(s) /\ s # <<>>
    BY <1>1, <1>3
  <2>2. s \in Seq(Message)
    BY DEF TypeInv, TypeOK
  <2>3. InAir(n, p)' = {i \in DOMAIN Tail(s) : Tail(s)[i].type = "request"}
    BY <2>1 DEF InAir
  <2>4. InAir(n, p) = {i \in DOMAIN s : s[i].type = "request"}
    BY DEF InAir
  <2> HIDE DEF s
  <2>5. /\ Head(s).type = "request" => Gone(InAir(n, p), InAir(n, p)')
        /\ Head(s).type # "request" => Like(InAir(n, p), InAir(n, p)')
    BY <2>1, <2>2, <2>3, <2>4, AirTail
  <2> QED
    BY <1>3, <2>5 DEF s
<1> QED
  BY <1>2, <1>3

\* A step of the application's own thread.
LEMMA RunRequest ==
    ASSUME TypeInv, NEW n \in Node, NEW p \in Node, NEW m \in Node, Run(m)
    PROVE  RequestMoves(n, p)
<1> DEFINE call == Like(Calling(n, p), Calling(n, p)')
           air == Like(InAir(n, p), InAir(n, p)')
           serve == Like(Serving(n, p), Serving(n, p)')
           wait == Like(Waiting(n, p), Waiting(n, p)')
           grant == Like(Granted(n, p), Granted(n, p)')
<1>1. air /\ grant
  <2>1. chan' = chan /\ remote_vaps' = remote_vaps
    BY DEF Run, RunNeighbors, RunStarted, RunDrain, RunDrained, RunInitialize, vapVars
  <2> QED
    BY <2>1, PlacesSame
<1>2. call /\ serve /\ wait => RequestMoves(n, p)
  BY <1>1 DEF RequestMoves
<1>3. "run" \in Thread /\ None \in Nat /\ {"loop", "initialize", "control"} \subseteq Place("run")
  BY Places3 DEF Thread, None
<1>4. ASSUME NEW pc \in {"loop", "initialize", "control"}, NEW q \in Node,
             job[m]["run"].pc \in {"sleep", "loop"}, Become(m, "run", pc, q, None),
             UNCHANGED <<msgQueue, drained>>
      PROVE  RequestMoves(n, p)
  <2>1. pc \in Place("run")
    BY <1>3
  <2>2. call /\ serve
    BY <1>3, <1>4, <2>1, JobsLike
  <2>3. wait
    BY <1>4, PlacesSame
  <2> QED
    BY <1>2, <2>2, <2>3
<1>5. CASE RunNeighbors(m)
  <2>1. job[m]["run"].pc = "sleep" /\ Become(m, "run", "loop", m, None)
    BY <1>5 DEF RunNeighbors, Doing, Done, Home
  <2>2. UNCHANGED <<msgQueue, drained>>
    BY <1>5 DEF RunNeighbors
  <2> QED
    BY <1>4, <2>1, <2>2
<1>6. CASE RunStarted(m)
  <2>1. UNCHANGED <<msgQueue, drained, job>>
    BY <1>6 DEF RunStarted
  <2> QED
    BY <1>2, <2>1, PlacesSame, JobsSame
<1>7. CASE RunDrained(m)
  <2>1. job[m]["run"].pc = "loop" /\ Become(m, "run", "control", m, None)
    BY <1>7 DEF RunDrained, Doing
  <2>2. UNCHANGED <<msgQueue, drained>>
    BY <1>7 DEF RunDrained, runVars
  <2> QED
    BY <1>4, <2>1, <2>2
<1>8. ASSUME NEW q \in Node, RunInitialize(m, q) PROVE RequestMoves(n, p)
  <2>1. job[m]["run"].pc = "loop" /\ Become(m, "run", "initialize", q, None)
    BY <1>8 DEF RunInitialize, Doing
  <2>2. UNCHANGED <<msgQueue, drained>>
    BY <1>8 DEF RunInitialize
  <2> QED
    BY <1>4, <2>1, <2>2
<1>9. CASE RunDrain(m)
  <2> DEFINE s == msgQueue[m]
             k == drained[m]
             e == s[k + 1]
             pc == IF e.msg.type = "request" THEN "create" ELSE "complete"
  <2>1. /\ s \in Seq(Queued) /\ k \in Nat /\ drained \in [Node -> Nat]
        /\ msgQueue \in [Node -> Seq(Queued)]
    BY DEF TypeInv, TypeOK, Queued
  <2>2. /\ job[m]["run"].pc = "loop" /\ k < Len(s) /\ msgQueue' = msgQueue
        /\ drained' = [drained EXCEPT ![m] = @ + 1]
        /\ Become(m, "run", pc, e.from, e.msg.id)
    BY <1>9 DEF RunDrain, Doing, process_msg
  <2>3. e \in Queued
    BY <2>1, <2>2
  <2>4. e.from \in Node /\ e.msg.id \in Nat
    BY <2>3 DEF Queued, Message
  <2>5. pc \in Place("run") /\ pc \in {"create", "complete"}
    BY Places3
  <2>6. pc = "create" <=> e.msg.type = "request"
    OBVIOUS
  <2>7. m # p => wait
    <3> HAVE m # p
    <3>1. msgQueue'[p] = msgQueue[p] /\ drained'[p] = drained[p]
      BY <2>1, <2>2
    <3> QED
      BY <3>1, PlacesSame
  <2>8. m = p => /\ e.from = n /\ e.msg.type = "request" => Gone(Waiting(n, p), Waiting(n, p)')
                 /\ ~(e.from = n /\ e.msg.type = "request") => wait
    <3> HAVE m = p
    <3>1. Waiting(n, p) = Late(s, k, n)
      BY DEF Waiting
    <3>2. drained'[p] = k + 1 /\ msgQueue'[p] = s
      BY <2>1, <2>2
    <3>3. Waiting(n, p)' = Late(s, k + 1, n)
      BY <3>2 DEF Waiting, Late
    <3>4. /\ s[k + 1].from = n /\ s[k + 1].msg.type = "request" =>
                Gone(Late(s, k, n), Late(s, k + 1, n))
          /\ ~(s[k + 1].from = n /\ s[k + 1].msg.type = "request") =>
                Like(Late(s, k, n), Late(s, k + 1, n))
      <4> HIDE DEF s, k
      <4> QED
        BY <2>1, <2>2, QueueDrain
    <3> QED
      BY <3>1, <3>3, <3>4
  <2> HIDE DEF s, k, e, pc
  <2> DEFINE f == e.from
             id == e.msg.id
  <2>9. f \in Node /\ id \in Nat /\ Become(m, "run", pc, f, id)
    BY <2>2, <2>4
  <2> HIDE DEF f, id
  <2>10. call
    BY <1>3, <2>2, <2>5, <2>9, CallingMoves
  <2>11. /\ ~(m = p /\ pc = "create" /\ f = n) => serve
         /\ m = p /\ pc = "create" /\ f = n => Come(Serving(n, p), Serving(n, p)')
    BY <1>3, <2>2, <2>5, <2>9, ServingMoves
  <2> QED
    BY <1>1, <1>2, <2>6, <2>7, <2>8, <2>10, <2>11 DEF RequestMoves, f
<1> QED
  BY <1>5, <1>6, <1>7, <1>8, <1>9 DEF Run

\* A step of the receive thread.
LEMMA ReceiveRequest ==
    ASSUME TypeInv, NEW n \in Node, NEW p \in Node, NEW m \in Node, Receive(m),
           losses \in Nat, drained[p] <= Len(msgQueue[p])
    PROVE  RequestMoves(n, p)
<1> DEFINE call == Like(Calling(n, p), Calling(n, p)')
           air == Like(InAir(n, p), InAir(n, p)')
           serve == Like(Serving(n, p), Serving(n, p)')
           wait == Like(Waiting(n, p), Waiting(n, p)')
           grant == Like(Granted(n, p), Granted(n, p)')
<1>1. grant
  <2>1. remote_vaps' = remote_vaps
    BY DEF Receive, RxQueue, rx_cb, RxDrop, vapVars
  <2> QED
    BY <2>1, PlacesSame
<1>2. "rx" \in Thread /\ None \in Nat /\ "idle" \in Place("rx")
  BY Places3 DEF Thread, None
<1>3. CASE RxQueue(m)
  <2> DEFINE pc == job[m]["rx"].pc
             f == job[m]["rx"].with
  <2>1. PICK e \in Queued :
                 /\ e.from = f
                 /\ e.msg.type = "request" <=> pc = "queueRequest"
                 /\ \A o \in Node : msgQueue'[o] = IF o = m THEN Append(msgQueue[m], e)
                                                   ELSE msgQueue[o]
    BY <1>3, QueueStep
  <2>2. /\ Become(m, "rx", "idle", m, None) /\ chan' = chan /\ drained' = drained
        /\ pc \in {"queueRequest", "queueCompleted"}
    BY <1>3 DEF RxQueue, Done, Home, Doing
  <2>3. air
    BY <2>2, PlacesSame
  <2>4. m # p => wait
    BY <2>1, <2>2, PlacesSame
  <2>5. m = p => /\ f = n /\ pc = "queueRequest" => Come(Waiting(n, p), Waiting(n, p)')
                 /\ ~(f = n /\ pc = "queueRequest") => wait
    <3> HAVE m = p
    <3> DEFINE s == msgQueue[p]
               k == drained[p]
    <3>1. Waiting(n, p) = Late(s, k, n)
      BY DEF Waiting
    <3>2. Waiting(n, p)' = Late(Append(s, e), k, n)
      <4>1. msgQueue'[p] = Append(s, e) /\ drained'[p] = k
        BY <2>1, <2>2
      <4> QED
        BY <4>1 DEF Waiting, Late
    <3>3. s \in Seq(Queued) /\ k \in Nat /\ k <= Len(s)
      BY DEF TypeInv, TypeOK, Queued
    <3> HIDE DEF s, k, f, pc
    <3>4. /\ e.from = n /\ e.msg.type = "request" => Come(Late(s, k, n), Late(Append(s, e), k, n))
          /\ ~(e.from = n /\ e.msg.type = "request") => Like(Late(s, k, n), Late(Append(s, e), k, n))
      BY <3>3, QueueAppend
    <3> QED
      BY <2>1, <3>1, <3>2, <3>4
  <2>6. call
    BY <1>2, <2>2, CallingMoves
  <2>7. /\ m = p /\ f = n /\ pc = "queueRequest" => Gone(Serving(n, p), Serving(n, p)')
        /\ ~(m = p /\ f = n /\ pc = "queueRequest") => serve
    BY <1>2, <2>2, ServingMoves
  <2> HIDE DEF f, pc
  <2> QED
    BY <1>1, <2>3, <2>4, <2>5, <2>6, <2>7 DEF RequestMoves
<1>4. ASSUME NEW q \in Node, rx_cb(m, q) PROVE RequestMoves(n, p)
  <2>1. PICK msg \in Message :
            /\ chan[q][m] # <<>> /\ msg = Head(chan[q][m])
            /\ \E pc \in Place("rx") :
                     /\ msg.type = "request" => pc \in {"create", "queueRequest"}
                     /\ msg.type # "request" => pc \in {"complete", "queueCompleted"}
                     /\ Become(m, "rx", pc, q, msg.id)
    BY <1>4, RxStep
  <2>2. PICK pc \in Place("rx") :
                     /\ msg.type = "request" => pc \in {"create", "queueRequest"}
                     /\ msg.type # "request" => pc \in {"complete", "queueCompleted"}
                     /\ Become(m, "rx", pc, q, msg.id)
    BY <2>1
  <2>3. /\ chan' = [chan EXCEPT ![q][m] = Tail(@)] /\ UNCHANGED <<msgQueue, drained>>
        /\ job[m]["rx"].pc = "idle"
    BY <1>4 DEF rx_cb, runVars, Doing
  <2> DEFINE id == msg.id
  <2>4. id \in Nat
    BY DEF Message
  <2>5. Become(m, "rx", pc, q, id)
    BY <2>2
  <2> HIDE DEF id
  <2>6. wait
    BY <2>3, PlacesSame
  <2>7. call
    BY <1>2, <2>2, <2>3, <2>4, <2>5, CallingMoves
  <2>8. /\ m = p /\ q = n /\ msg.type = "request" => Come(Serving(n, p), Serving(n, p)')
        /\ ~(m = p /\ q = n /\ msg.type = "request") => serve
    <3>1. job[m]["rx"].pc \notin {"queueRequest", "create", "admit"}
      BY <2>3
    <3>2. pc \in {"queueRequest", "create", "admit"} <=> msg.type = "request"
      BY <2>2
    <3>3. "rx" \in Thread
      BY <1>2
    <3> QED
      BY <2>4, <2>5, <3>1, <3>2, <3>3, ServingMoves
  <2>9. /\ m = p /\ q = n /\ msg.type = "request" => Gone(InAir(n, p), InAir(n, p)')
        /\ ~(m = p /\ q = n /\ msg.type = "request") => air
    BY <2>1, <2>3, TailRequest
  <2> QED
    BY <1>1, <2>6, <2>7, <2>8, <2>9 DEF RequestMoves
<1>5. ASSUME NEW q \in Node, RxDrop(m, q) PROVE RequestMoves(n, p)
  <2>1. /\ chan[q][m] # <<>> /\ chan' = [chan EXCEPT ![q][m] = Tail(@)]
        /\ UNCHANGED <<msgQueue, drained, job>> /\ losses' = losses + 1
    BY <1>5 DEF RxDrop, runVars
  <2>2. call /\ serve /\ wait
    BY <2>1, PlacesSame, JobsSame
  <2>3. air \/ Gone(InAir(n, p), InAir(n, p)')
    BY <2>1, TailRequest
  <2>4. losses' # 0
    BY <2>1
  <2> QED
    BY <1>1, <2>2, <2>3, <2>4 DEF RequestMoves
<1> QED
  BY <1>3, <1>4, <1>5 DEF Receive

\* Any step but a restart and a new neighbour.
LEMMA OrdinaryRequest ==
    ASSUME TypeInv, NEW n \in Node, NEW p \in Node, NEW m \in Node, NEW u \in Thread,
           NEW q \in Node, Ordinary(m, u, q), Single(n), losses \in Nat,
           drained[p] <= Len(msgQueue[p])
    PROVE  RequestMoves(n, p)
<1> DEFINE call == Like(Calling(n, p), Calling(n, p)')
           air == Like(InAir(n, p), InAir(n, p)')
           serve == Like(Serving(n, p), Serving(n, p)')
           wait == Like(Waiting(n, p), Waiting(n, p)')
           grant == Like(Granted(n, p), Granted(n, p)')
<1>1. CASE SuspendGenerate(m, u)
  <2>1. UNCHANGED <<remote_vaps, msgQueue, drained, chan>>
    BY <1>1 DEF SuspendGenerate, vapVars, runVars
  <2>2. \A o \in Node, t \in Thread : /\ job'[o][t].pc = job[o][t].pc
                                      /\ job'[o][t].with = job[o][t].with
    BY <1>1, SuspendStep
  <2>3. call /\ serve /\ wait /\ air /\ grant
    BY <2>1, <2>2, PlacesSame, JobsSame
  <2> QED
    BY <2>3 DEF RequestMoves
<1>2. CASE linkFailure_cb(m, q)
  <2>1. UNCHANGED <<remote_vaps, msgQueue, drained, chan, job>>
    BY <1>2 DEF linkFailure_cb, runVars
  <2>2. call /\ serve /\ wait /\ air /\ grant
    BY <2>1, PlacesSame, JobsSame
  <2> QED
    BY <2>2 DEF RequestMoves
<1>3. CASE Lose(m, q)
  <2>1. /\ chan[m][q] # <<>> /\ chan' = [chan EXCEPT ![m][q] = Tail(@)]
        /\ UNCHANGED <<remote_vaps, msgQueue, drained, job>> /\ losses' = losses + 1
    BY <1>3 DEF Lose, runVars, vapVars
  <2>2. call /\ serve /\ wait /\ grant
    BY <2>1, PlacesSame, JobsSame
  <2>3. air \/ Gone(InAir(n, p), InAir(n, p)')
    BY <2>1, TailRequest
  <2>4. losses' # 0
    BY <2>1
  <2> QED
    BY <2>2, <2>3, <2>4 DEF RequestMoves
<1> QED
  BY <1>1, <1>2, <1>3, WorkRequest, RunRequest, ReceiveRequest DEF Ordinary

\* What holds of every agent whatever happens.  run() is past its queue only when it has
\* started, and has then gone through the neighbours; numbers of VAPs and ports are not
\* the one that stands for none.
Phases(n) ==
    /\ drained[n] <= Len(msgQueue[n])
    /\ started[n] => todo[n] = {} /\ job[n]["run"].pc # "sleep"
    /\ job[n]["run"].pc = "control" => started[n]
Numbers(n) ==
    /\ generator[n] > 0 /\ port_id_generator[n] > 0
    /\ \A j \in DOMAIN remote_vaps[n] : remote_vaps[n][j].id # None
BaseInv == losses \in Nat /\ \A n \in Node : Phases(n) /\ Numbers(n)

\* Where the VapManager leads a thread.
LEMMA WorkBecomes ==
    ASSUME TypeInv, NEW m \in Node, NEW u \in Thread, Work(m, u)
    PROVE  \E pc \in Place(u), o \in Node, id \in Nat :
              /\ pc \in {"loop", "idle", "enter", "request", "admit", "answer", "terminate",
                         "connect"}
              /\ Become(m, u, pc, o, id)
<1> DEFINE p == job[m][u].with
<1>1. p \in Node /\ job[m][u].id \in Nat /\ Generated(m, u, generator) \in Nat /\ None \in Nat
  BY JobFields, GenerateType DEF None
<1>2. {"enter", "request", "admit", "answer", "terminate", "connect"} \subseteq Place(u)
  BY SharedPlaces
<1>3. \/ Done(m, u)
      \/ \E pc \in {"enter", "request", "admit", "answer", "terminate", "connect"}, id \in Nat :
            Become(m, u, pc, p, id)
  <2>1. CASE complete_local_vap(m, u) /\ Places(local_vaps[m], p) # {}
    <3>1. PICK i \in DOMAIN local_vaps[m], v \in Vap :
             v.id = local_vaps[m][i].id /\ Become(m, u, "connect", p, local_vaps[m][i].id)
      BY <2>1, CompleteStep, ZenonT(30)
    <3>2. v.id \in Nat
      BY DEF Vap
    <3> QED
      BY <3>1, <3>2
  <2>2. CASE complete_local_vap(m, u) /\ Places(local_vaps[m], p) = {}
    BY <2>2 DEF complete_local_vap
  <2>3. CASE EnterLocal(m, u) \/ EnterRemote(m, u) \/ CheckRemote(m, u) \/ CheckLocal(m, u)
             \/ sent_config_to_local_vap(m, u)
    BY <1>1, <2>3 DEF EnterLocal, EnterRemote, CheckRemote, CheckLocal,
       sent_config_to_local_vap
  <2>4. CASE request_remote_vap_setup(m, u) \/ ConnectLocal(m, u) \/ ConnectRemote(m, u)
    BY <2>4 DEF request_remote_vap_setup, ConnectLocal, ConnectRemote
  <2> QED
    BY <2>1, <2>2, <2>3, <2>4 DEF Work
<1> HIDE DEF p
<1>4. ASSUME Done(m, u)
      PROVE  \E pc \in Place(u) : /\ pc \in {"loop", "idle"} /\ Become(m, u, pc, m, None)
  BY <1>4, DoneBecome
<1> QED
  BY <1>1, <1>2, <1>3, <1>4

\* No step but those of run() and the receive thread moves the queue, and none of the
\* others takes run() to the end.
LEMMA PhasesSame ==
    ASSUME NEW n \in Node, Phases(n),
           started'[n] = started[n], todo'[n] = todo[n], msgQueue'[n] = msgQueue[n],
           drained'[n] = drained[n],
           \/ job'[n]["run"].pc = job[n]["run"].pc
           \/ job'[n]["run"].pc \notin {"sleep", "control"}
    PROVE  Phases(n)'
  BY DEF Phases

\* The phases of run().
LEMMA PhasesNext ==
    ASSUME TypeInv, NEW n \in Node, Phases(n), [Next]_vars
    PROVE  Phases(n)'
<1>1. /\ "run" \in Thread /\ "rx" \in Thread /\ "probe" \in Thread /\ None \in Nat
      /\ "run" # "rx" /\ "run" # "probe"
  BY DEF Thread, None
<1>2. /\ todo \in [Node -> SUBSET Node] /\ started \in [Node -> BOOLEAN]
      /\ drained \in [Node -> Nat] /\ msgQueue \in [Node -> Seq(Queued)]
  BY DEF TypeInv, TypeOK, Queued
<1>3. ASSUME NEW m \in Node, NEW u \in Thread, NEW pc \in Place(u), NEW o \in Node,
             NEW id \in Nat, Become(m, u, pc, o, id)
      PROVE  job'[n]["run"].pc = IF m = n /\ u = "run" THEN pc ELSE job[n]["run"].pc
  <2>1. job'[n]["run"] = IF m = n /\ u = "run" THEN Job(pc, o, id) ELSE job[n]["run"]
    BY <1>1, <1>3, MovedJob
  <2>2. Job(pc, o, id).pc = pc
    BY DEF Job
  <2> QED
    BY <2>1, <2>2
<1>4. ASSUME NEW m \in Node, NEW u \in Thread, Work(m, u) PROVE Phases(n)'
  <2>1. UNCHANGED <<started, todo, msgQueue, drained>>
    BY <1>4 DEF Work, CheckLocal, EnterLocal, request_remote_vap_setup, CheckRemote,
       EnterRemote, sent_config_to_local_vap, ConnectRemote, complete_local_vap,
       ConnectLocal, runVars
  <2>2. PICK pc \in Place(u), o \in Node, id \in Nat :
              /\ pc \in {"loop", "idle", "enter", "request", "admit", "answer", "terminate",
                         "connect"}
              /\ Become(m, u, pc, o, id)
    BY <1>4, WorkBecomes
  <2>3. \/ job'[n]["run"].pc = job[n]["run"].pc
        \/ job'[n]["run"].pc \notin {"sleep", "control"}
    BY <1>3, <2>2
  <2> QED
    BY <2>1, <2>3, PhasesSame
<1>5. ASSUME NEW m \in Node, RunNeighbors(m) PROVE Phases(n)'
  <2>1. /\ Become(m, "run", "loop", m, None) /\ job[m]["run"].pc = "sleep"
        /\ UNCHANGED <<started, msgQueue, drained>>
        /\ todo' = [todo EXCEPT ![m] = neighbors[m]] /\ "loop" \in Place("run")
    BY <1>5, Places3 DEF RunNeighbors, Done, Home, Doing
  <2>2. job'[n]["run"].pc = IF m = n THEN "loop" ELSE job[n]["run"].pc
    BY <1>1, <1>3, <2>1
  <2>3. m # n => todo'[n] = todo[n]
    BY <1>2, <2>1
  <2> QED
    BY <2>1, <2>2, <2>3 DEF Phases
<1>6. ASSUME NEW m \in Node, NEW q \in Node, RunInitialize(m, q) PROVE Phases(n)'
  <2>1. /\ Become(m, "run", "initialize", q, None) /\ q \in todo[m]
        /\ UNCHANGED <<started, msgQueue, drained>>
        /\ todo' = [todo EXCEPT ![m] = @ \ {q}] /\ "initialize" \in Place("run")
    BY <1>6, Places3 DEF RunInitialize
  <2>2. job'[n]["run"].pc = IF m = n THEN "initialize" ELSE job[n]["run"].pc
    BY <1>1, <1>3, <2>1
  <2>3. todo'[n] = IF m = n THEN todo[n] \ {q} ELSE todo[n]
    BY <1>2, <2>1
  <2> QED
    BY <2>1, <2>2, <2>3 DEF Phases
<1>7. ASSUME NEW m \in Node, RunStarted(m) PROVE Phases(n)'
  <2>1. /\ UNCHANGED <<job, todo, msgQueue, drained>> /\ todo[m] = {}
        /\ job[m]["run"].pc = "loop" /\ started' = [started EXCEPT ![m] = TRUE]
    BY <1>7 DEF RunStarted, Doing
  <2>2. started'[n] = IF m = n THEN TRUE ELSE started[n]
    BY <1>2, <2>1
  <2> QED
    BY <2>1, <2>2 DEF Phases
<1>8. ASSUME NEW m \in Node, RunDrained(m) PROVE Phases(n)'
  <2>1. /\ UNCHANGED <<started, todo, msgQueue, drained>> /\ started[m]
        /\ Become(m, "run", "control", m, None) /\ "control" \in Place("run")
    BY <1>8, Places3 DEF RunDrained, runVars
  <2>2. job'[n]["run"].pc = IF m = n THEN "control" ELSE job[n]["run"].pc
    BY <1>1, <1>3, <2>1
  <2> QED
    BY <2>1, <2>2 DEF Phases
<1>9. ASSUME NEW m \in Node, RunDrain(m) PROVE Phases(n)'
  <2>1. PICK e \in Queued : process_msg(m, "run", e.from, e.msg)
    BY <1>9, DrainStep
  <2>2. e.from \in Node /\ e.msg \in Message
    BY DEF Queued
  <2>3. PICK pc \in {"create", "complete"} :
           pc \in Place("run") /\ e.msg.id \in Nat /\ Become(m, "run", pc, e.from, e.msg.id)
    BY <1>1, <2>1, <2>2, ProcessStep
  <2>4. job'[n]["run"].pc = IF m = n THEN pc ELSE job[n]["run"].pc
    BY <1>1, <1>3, <2>2, <2>3
  <2>5. /\ drained' = [drained EXCEPT ![m] = @ + 1] /\ drained[m] < Len(msgQueue[m])
        /\ UNCHANGED <<started, todo, msgQueue>>
    BY <1>9 DEF RunDrain
  <2>6. drained'[n] = IF m = n THEN drained[n] + 1 ELSE drained[n]
    BY <1>2, <2>5
  <2>7. drained[n] \in Nat /\ Len(msgQueue[n]) \in Nat
    BY <1>2
  <2>8. drained'[n] <= Len(msgQueue'[n])
    BY <2>5, <2>6, <2>7 DEF Phases
  <2> QED
    BY <2>4, <2>5, <2>8 DEF Phases
<1>10. ASSUME NEW m \in Node, RxQueue(m) PROVE Phases(n)'
  <2>1. PICK e \in Queued :
           \A o \in Node : msgQueue'[o] = IF o = m THEN Append(msgQueue[m], e) ELSE msgQueue[o]
    BY <1>10, QueueStep
  <2>2. /\ UNCHANGED <<started, todo, drained>> /\ Become(m, "rx", "idle", m, None)
        /\ "idle" \in Place("rx")
    BY <1>10, Places3 DEF RxQueue, Done, Home
  <2>3. job'[n]["run"].pc = job[n]["run"].pc
    BY <1>1, <1>3, <2>2
  <2>4. Len(Append(msgQueue[n], e)) = Len(msgQueue[n]) + 1 /\ Len(msgQueue[n]) \in Nat
        /\ drained[n] \in Nat
    <3>1. msgQueue[n] \in Seq(Queued) /\ drained[n] \in Nat
      BY <1>2
    <3> QED
      BY <3>1
  <2>5. drained'[n] <= Len(msgQueue'[n])
    <3>1. msgQueue'[n] = msgQueue[n] \/ msgQueue'[n] = Append(msgQueue[n], e)
      BY <2>1
    <3>2. Len(msgQueue'[n]) = Len(msgQueue[n]) \/ Len(msgQueue'[n]) = Len(msgQueue[n]) + 1
      BY <2>4, <3>1
    <3>3. drained'[n] = drained[n] /\ drained[n] <= Len(msgQueue[n])
      BY <2>2 DEF Phases
    <3> QED
      BY <2>4, <3>2, <3>3
  <2> QED
    BY <2>2, <2>3, <2>5 DEF Phases
<1>11. ASSUME NEW m \in Node, NEW q \in Node, rx_cb(m, q) PROVE Phases(n)'
  <2>1. UNCHANGED <<started, todo, msgQueue, drained>>
    BY <1>11 DEF rx_cb, runVars
  <2>2. PICK msg \in Message, pc \in Place("rx") : Become(m, "rx", pc, q, msg.id)
    BY <1>11, RxStep, ZenonT(30)
  <2>3. msg.id \in Nat
    BY DEF Message
  <2>4. job'[n]["run"].pc = job[n]["run"].pc
    BY <1>1, <1>3, <2>2, <2>3
  <2> QED
    BY <2>1, <2>4, PhasesSame
<1>12. ASSUME NEW m \in Node, NEW u \in Thread, SuspendGenerate(m, u) PROVE Phases(n)'
  <2>1. UNCHANGED <<started, todo, msgQueue, drained>>
    BY <1>12 DEF SuspendGenerate, runVars
  <2>2. job'[n]["run"].pc = job[n]["run"].pc
    BY <1>1, <1>12, SuspendStep
  <2> QED
    BY <2>1, <2>2, PhasesSame
<1>13. ASSUME NEW m \in Node, NEW q \in Node, newLink_cb(m, q) PROVE Phases(n)'
  <2>1. UNCHANGED <<started, todo, msgQueue, drained>>
    BY <1>13 DEF newLink_cb, runVars
  <2>2. Become(m, "probe", "initialize", q, None) /\ "initialize" \in Place("probe")
    BY <1>13, Places3 DEF newLink_cb
  <2>3. job'[n]["run"].pc = job[n]["run"].pc
    BY <1>1, <1>3, <2>2
  <2> QED
    BY <2>1, <2>3, PhasesSame
<1>14. ASSUME NEW m \in Node, NEW q \in Node,
              RxDrop(m, q) \/ linkFailure_cb(m, q) \/ Lose(m, q)
       PROVE  Phases(n)'
  BY <1>14, PhasesSame DEF RxDrop, linkFailure_cb, Lose, runVars
<1>15. ASSUME NEW m \in Node, Restart(m) PROVE Phases(n)'
  <2>1. /\ job' = [job EXCEPT ![m] = Boot(m)] /\ started' = [started EXCEPT ![m] = FALSE]
        /\ todo' = [todo EXCEPT ![m] = {}] /\ drained' = [drained EXCEPT ![m] = 0]
        /\ msgQueue' = [msgQueue EXCEPT ![m] = <<>>]
    BY <1>15 DEF Restart
  <2>2. job \in [Node -> [Thread -> AnyJob]]
    BY DEF TypeInv
  <2>3. Boot(m)["run"].pc = "sleep"
    BY <1>1, BootJob
  <2>4. CASE m = n
    <3>1. /\ job'[n]["run"].pc = "sleep" /\ started'[n] = FALSE /\ drained'[n] = 0
          /\ msgQueue'[n] = <<>>
      BY <1>2, <2>1, <2>2, <2>3, <2>4
    <3> QED
      BY <3>1 DEF Phases
  <2>5. CASE m # n
    <3>1. /\ job'[n] = job[n] /\ started'[n] = started[n] /\ drained'[n] = drained[n]
          /\ msgQueue'[n] = msgQueue[n] /\ todo'[n] = todo[n]
      BY <1>2, <2>1, <2>2, <2>5
    <3> QED
      BY <3>1, PhasesSame
  <2> QED
    BY <2>4, <2>5
<1>16. CASE UNCHANGED vars
  BY <1>16, PhasesSame DEF vars, runVars
<1>17. ASSUME NEW m \in Node, Run(m) \/ Receive(m) PROVE Phases(n)'
  BY <1>5, <1>6, <1>7, <1>8, <1>9, <1>10, <1>11, <1>14, <1>17 DEF Run, Receive
<1> QED
  BY <1>4, <1>12, <1>13, <1>14, <1>15, <1>16, <1>17 DEF Next

\* The counters, and the numbers of the remote VAPs.
LEMMA NumbersNext ==
    ASSUME TypeInv, NEW n \in Node, \A m \in Node : Numbers(m), [Next]_vars
    PROVE  Numbers(n)'
<1>1. /\ generator \in [Node -> Nat] /\ port_id_generator \in [Node -> Nat]
      /\ remote_vaps \in [Node -> Seq(Vap)]
  BY DEF TypeInv, TypeOK
<1>2. CASE UNCHANGED <<generator, port_id_generator, remote_vaps>>
  BY <1>2 DEF Numbers
<1>3. ASSUME NEW m \in Node, NEW u \in Thread
      PROVE  /\ Generated(m, u, generator) \in Nat /\ Generated(m, u, generator) > 0
             /\ Generated(m, u, port_id_generator) \in Nat
             /\ Generated(m, u, generator) # None
  <2>1. job[m][u].read \in Nat /\ generator[m] > 0 /\ generator[m] \in Nat
    BY <1>1, JobFields DEF Numbers
  <2> QED
    BY <2>1, GenerateType DEF Generated, None
<1>4. ASSUME NEW m \in Node, NEW u \in Thread, Work(m, u) PROVE Numbers(n)'
  <2>1. CASE EnterLocal(m, u)
    <3>1. /\ generator' = [generator EXCEPT ![m] = Generated(m, u, generator) + 1]
          /\ UNCHANGED <<port_id_generator, remote_vaps>>
      BY <2>1 DEF EnterLocal, Generate, p4Vars
    <3>2. generator'[n] > 0
      BY <1>1, <1>3, <3>1 DEF Numbers
    <3> QED
      BY <3>1, <3>2 DEF Numbers
  <2>2. CASE EnterRemote(m, u)
    <3>1. /\ generator' = [generator EXCEPT ![m] = Generated(m, u, generator) + 1]
          /\ UNCHANGED port_id_generator
      BY <2>2 DEF EnterRemote, Generate, p4Vars
    <3>2. generator'[n] > 0
      BY <1>1, <1>3, <3>1 DEF Numbers
    <3>3. PICK v \in Vap :
             /\ v.id = Generated(m, u, generator)
             /\ \A o \in Node : remote_vaps'[o] = IF o = m THEN Append(remote_vaps[m], v)
                                                  ELSE remote_vaps[o]
      BY <2>2, EnterRemoteStep
    <3>4. ASSUME NEW j \in DOMAIN remote_vaps'[n] PROVE remote_vaps'[n][j].id # None
      <4>1. CASE m = n
        <5>1. remote_vaps[n] \in Seq(Vap)
          BY <1>1
        <5>2. /\ DOMAIN Append(remote_vaps[n], v) = 1..(Len(remote_vaps[n]) + 1)
              /\ Len(remote_vaps[n]) \in Nat /\ DOMAIN remote_vaps[n] = 1..Len(remote_vaps[n])
              /\ \A i \in 1..Len(remote_vaps[n]) : Append(remote_vaps[n], v)[i] = remote_vaps[n][i]
              /\ Append(remote_vaps[n], v)[Len(remote_vaps[n]) + 1] = v
          BY <5>1, ListAppended
        <5>3. j \in DOMAIN remote_vaps[n] \/ j = Len(remote_vaps[n]) + 1
          <6>1. j \in 1..(Len(remote_vaps[n]) + 1)
            BY <3>3, <4>1, <5>2
          <6> QED
            BY <5>2, <6>1
        <5>4. v.id # None
          BY <1>3, <3>3
        <5> QED
          BY <3>3, <4>1, <5>2, <5>3, <5>4 DEF Numbers
      <4>2. CASE m # n
        BY <3>3, <4>2 DEF Numbers
      <4> QED
        BY <4>1, <4>2
    <3> QED
      BY <3>1, <3>2, <3>4 DEF Numbers
  <2>3. CASE ConnectLocal(m, u) \/ ConnectRemote(m, u)
    <3>1. /\ port_id_generator' = [port_id_generator EXCEPT ![m] =
                                     Generated(m, u, port_id_generator) + 1]
          /\ UNCHANGED generator
          /\ \/ remote_vaps' = remote_vaps
             \/ remote_vaps' = [remote_vaps EXCEPT ![m] = WithPort(m, u, @)]
      BY <2>3 DEF ConnectLocal, ConnectRemote, Connect, Generate
    <3>2. port_id_generator'[n] > 0
      <4>1. Generated(m, u, port_id_generator) + 1 > 0
        BY <1>3
      <4> QED
        BY <1>1, <3>1, <4>1 DEF Numbers
    <3>3. \/ remote_vaps'[n] = remote_vaps[n]
          \/ remote_vaps'[n] = WithPort(m, u, remote_vaps[n])
      BY <1>1, <3>1
    <3>4. /\ DOMAIN WithPort(m, u, remote_vaps[n]) = DOMAIN remote_vaps[n]
          /\ \A i \in DOMAIN remote_vaps[n] :
                WithPort(m, u, remote_vaps[n])[i].id = remote_vaps[n][i].id
      BY <1>1, WithPortType
    <3> QED
      BY <3>1, <3>2, <3>3, <3>4 DEF Numbers
  <2>4. CASE CheckLocal(m, u) \/ request_remote_vap_setup(m, u) \/ CheckRemote(m, u)
             \/ sent_config_to_local_vap(m, u) \/ complete_local_vap(m, u)
    BY <1>2, <2>4 DEF CheckLocal, request_remote_vap_setup, CheckRemote,
       sent_config_to_local_vap, complete_local_vap, vapVars, p4Vars
  <2> QED
    BY <1>4, <2>1, <2>2, <2>3, <2>4 DEF Work
<1>5. ASSUME NEW m \in Node, Run(m) \/ Receive(m) PROVE Numbers(n)'
  BY <1>2, <1>5 DEF Run, Receive, RunNeighbors, RunStarted, RunDrain, RunDrained,
     RunInitialize, RxQueue, rx_cb, RxDrop, vapVars, p4Vars
<1>6. ASSUME NEW m \in Node, NEW q \in Node, newLink_cb(m, q) \/ Lose(m, q) \/ linkFailure_cb(m, q)
      PROVE  Numbers(n)'
  BY <1>2, <1>6 DEF newLink_cb, Lose, linkFailure_cb, vapVars, p4Vars
<1>7. ASSUME NEW m \in Node, NEW u \in Thread, SuspendGenerate(m, u) PROVE Numbers(n)'
  BY <1>2, <1>7 DEF SuspendGenerate, vapVars, p4Vars
<1>8. ASSUME NEW m \in Node, Restart(m) PROVE Numbers(n)'
  BY <1>1, <1>8 DEF Restart, Numbers
<1>9. CASE UNCHANGED vars
  BY <1>2, <1>9 DEF vars, vapVars, p4Vars
<1> QED
  BY <1>4, <1>5, <1>6, <1>7, <1>8, <1>9 DEF Next

\* A step counts what it loses.
LEMMA LossesNext ==
    ASSUME losses \in Nat, [Next]_vars
    PROVE  losses' \in Nat /\ (losses' = 0 => losses = 0)
<1>1. losses' = losses \/ losses' = losses + 1
  <2>1. ASSUME NEW m \in Node, NEW u \in Thread, Work(m, u) PROVE losses' = losses \/ losses' = losses + 1
    BY <2>1 DEF Work, CheckLocal, EnterLocal, request_remote_vap_setup, CheckRemote,
       EnterRemote, sent_config_to_local_vap, ConnectRemote, complete_local_vap,
       ConnectLocal, sendToNeighbor, bounds
  <2>2. ASSUME NEW m \in Node, Run(m) \/ Receive(m) PROVE losses' = losses \/ losses' = losses + 1
    BY <2>2 DEF Run, Receive, RunNeighbors, RunStarted, RunDrain, RunDrained,
       RunInitialize, RxQueue, rx_cb, RxDrop, bounds
  <2>3. ASSUME NEW m \in Node, NEW u \in Thread, NEW q \in Node,
               \/ newLink_cb(m, q) \/ Lose(m, q) \/ linkFailure_cb(m, q) \/ Restart(m)
               \/ SuspendGenerate(m, u)
        PROVE  losses' = losses \/ losses' = losses + 1
    BY <2>3 DEF newLink_cb, Lose, linkFailure_cb, Restart, SuspendGenerate
  <2>4. CASE UNCHANGED vars
    BY <2>4 DEF vars, bounds
  <2>5. "run" \in Thread
    BY DEF Thread
  <2> QED
    BY <2>1, <2>2, <2>3, <2>4, <2>5 DEF Next
<1> QED
  BY <1>1

\* So the phases, the numbers and the count hold throughout.
LEMMA BaseKept == Spec => []BaseInv
<1>1. Init => BaseInv
  <2> SUFFICES ASSUME Init, NEW n \in Node PROVE Phases(n) /\ Numbers(n) /\ losses \in Nat
    BY DEF BaseInv, Init
  <2>1. /\ started[n] = FALSE /\ msgQueue[n] = <<>> /\ drained[n] = 0 /\ job[n] = Boot(n)
        /\ generator[n] = 1 /\ port_id_generator[n] = 2 /\ remote_vaps[n] = <<>> /\ losses = 0
    BY DEF Init
  <2>2. job[n]["run"].pc = "sleep"
    BY <2>1, BootJob DEF Thread
  <2> QED
    BY <2>1, <2>2 DEF Phases, Numbers
<1>2. TypeInv /\ BaseInv /\ [Next]_vars => BaseInv'
  BY PhasesNext, NumbersNext, LossesNext DEF BaseInv
<1> QED
  BY <1>1, <1>2, TypeKept, PTL DEF Spec

\* Agents that list each other have a session key, and can decrypt what they receive.
KeyAt(n, p) == Mutual(n, p) => <<n, p>> \in session /\ <<n, p>> \in accepted

\* A key goes with the neighbour.
LEMMA KeysStep ==
    ASSUME TypeInv, NEW m \in Node, NEW u \in Thread, NEW q \in Node, Ordinary(m, u, q),
           NEW n \in Node, NEW p \in Node, KeyAt(n, p)
    PROVE  /\ KeyAt(n, p)' /\ (Mutual(n, p)' => Mutual(n, p))
           /\ linkFailure_cb(m, q) /\ m = n /\ q = p => ~Mutual(n, p)'
<1>1. CASE neighbors' = neighbors /\ session \subseteq session' /\ accepted \subseteq accepted'
           /\ ~linkFailure_cb(m, q)
  BY <1>1 DEF KeyAt, Mutual
<1>2. CASE linkFailure_cb(m, q)
  <2>1. /\ neighbors' = [neighbors EXCEPT ![m] = @ \ {q}]
        /\ session' = session \ {<<m, q>>} /\ accepted' = accepted \ {<<q, m>>}
    BY <1>2 DEF linkFailure_cb
  <2>2. \A o \in Node : neighbors'[o] = IF o = m THEN neighbors[o] \ {q} ELSE neighbors[o]
    BY <2>1 DEF TypeInv, TypeOK
  <2>3. Mutual(n, p)' => Mutual(n, p) /\ ~(m = n /\ q = p) /\ ~(m = p /\ q = n)
    BY <2>2 DEF Mutual
  <2>4. ~(m = n /\ q = p) => (<<n, p>> \in session => <<n, p>> \in session')
    BY <2>1
  <2>5. ~(m = p /\ q = n) => (<<n, p>> \in accepted => <<n, p>> \in accepted')
    BY <2>1
  <2> QED
    BY <2>3, <2>4, <2>5 DEF KeyAt
<1>3. ASSUME ~linkFailure_cb(m, q)
      PROVE  neighbors' = neighbors /\ session \subseteq session' /\ accepted \subseteq accepted'
  <2>1. CASE Work(m, u)
    <3>1. neighbors' = neighbors
      BY <2>1 DEF Work, CheckLocal, EnterLocal, request_remote_vap_setup, CheckRemote,
         EnterRemote, sent_config_to_local_vap, ConnectRemote, complete_local_vap, ConnectLocal
    <3>2. session \subseteq session' /\ accepted \subseteq accepted'
      BY <2>1 DEF Work, CheckLocal, EnterLocal, request_remote_vap_setup, CheckRemote,
         EnterRemote, sent_config_to_local_vap, ConnectRemote, complete_local_vap,
         ConnectLocal, sendToNeighbor, keys
    <3> QED
      BY <3>1, <3>2
  <2>2. CASE Run(m) \/ Receive(m)
    BY <2>2 DEF Run, RunNeighbors, RunStarted, RunDrain, RunDrained, RunInitialize, Receive,
       RxQueue, rx_cb, RxDrop, keys
  <2>3. CASE SuspendGenerate(m, u) \/ Lose(m, q)
    BY <2>3 DEF SuspendGenerate, Lose, keys
  <2> QED
    BY <1>3, <2>1, <2>2, <2>3 DEF Ordinary
<1> QED
  BY <1>1, <1>2, <1>3

\* Who moves a thread: the VapManager that it runs, run() from its loop, or the
\* receive thread between two messages.
LEMMA JobStays ==
    ASSUME TypeInv, NEW m \in Node, NEW u \in Thread, NEW q \in Node, Ordinary(m, u, q),
           NEW n \in Node, NEW t \in Thread
    PROVE  \/ /\ job'[n][t].pc = job[n][t].pc /\ job'[n][t].with = job[n][t].with
              /\ job'[n][t].id = job[n][t].id
           \/ m = n /\ u = t /\ Work(m, u)
           \/ m = n /\ t = "run" /\ Run(m) /\ job[n][t].pc \in {"sleep", "loop"}
           \/ /\ m = n /\ t = "rx" /\ Receive(m)
              /\ job[n][t].pc \in {"idle", "queueRequest", "queueCompleted"}
<1>1. "run" \in Thread /\ "rx" \in Thread /\ None \in Nat
  BY DEF Thread, None
<1>2. CASE Work(m, u)
  <2>1. PICK pc \in Place(u), o \in Node, id \in Nat : Become(m, u, pc, o, id)
    BY <1>2, WorkBecomes
  <2>2. (m = n /\ u = t) \/ job'[n][t] = job[n][t]
    BY <2>1, BecomeJob
  <2> QED
    BY <1>2, <2>2
<1>3. CASE Run(m)
  <2>1. job[m]["run"].pc \in {"sleep", "loop"}
    BY <1>3 DEF Run, RunNeighbors, RunStarted, RunDrain, RunDrained, RunInitialize, Doing
  <2>2. job' = job \/ \E pc \in Place("run"), o \in Node, id \in Nat : Become(m, "run", pc, o, id)
    <3>1. CASE RunDrain(m)
      <4>1. PICK e \in Queued : process_msg(m, "run", e.from, e.msg)
        BY <3>1, DrainStep
      <4>2. e.from \in Node /\ e.msg \in Message
        BY DEF Queued
      <4>3. PICK pc \in {"create", "complete"} :
               pc \in Place("run") /\ e.msg.id \in Nat /\ Become(m, "run", pc, e.from, e.msg.id)
        BY <1>1, <4>1, <4>2, ProcessStep
      <4> QED
        BY <4>2, <4>3
    <3>2. CASE RunNeighbors(m)
      BY <1>1, <3>2, Places3 DEF RunNeighbors, Done, Home
    <3>3. CASE RunStarted(m)
      BY <3>3 DEF RunStarted
    <3>4. CASE RunDrained(m)
      BY <1>1, <3>4, Places3 DEF RunDrained
    <3>5. ASSUME NEW o \in Node, RunInitialize(m, o)
          PROVE  \E pc \in Place("run"), r \in Node, id \in Nat : Become(m, "run", pc, r, id)
      BY <1>1, <3>5, Places3 DEF RunInitialize
    <3> QED
      BY <1>3, <3>1, <3>2, <3>3, <3>4, <3>5 DEF Run
  <2>3. (m = n /\ t = "run") \/ job'[n][t] = job[n][t]
    BY <1>1, <2>2, BecomeJob
  <2> QED
    BY <1>3, <2>1, <2>3
<1>4. CASE Receive(m)
  <2>1. \/ job' = job
        \/ /\ job[m]["rx"].pc \in {"idle", "queueRequest", "queueCompleted"}
           /\ \E pc \in Place("rx"), o \in Node, id \in Nat : Become(m, "rx", pc, o, id)
    <3>1. CASE RxQueue(m)
      BY <1>1, <3>1, Places3 DEF RxQueue, Done, Home, Doing
    <3>2. ASSUME NEW o \in Node, rx_cb(m, o)
          PROVE  /\ job[m]["rx"].pc = "idle"
                 /\ \E pc \in Place("rx"), r \in Node, id \in Nat : Become(m, "rx", pc, r, id)
      <4>1. PICK msg \in Message, pc \in Place("rx") : Become(m, "rx", pc, o, msg.id)
        BY <3>2, RxStep, ZenonT(30)
      <4>2. msg.id \in Nat
        BY DEF Message
      <4> QED
        BY <3>2, <4>1, <4>2 DEF rx_cb, Doing
    <3>3. ASSUME NEW o \in Node, RxDrop(m, o) PROVE job' = job
      BY <3>3 DEF RxDrop
    <3> QED
      BY <1>4, <3>1, <3>2, <3>3 DEF Receive
  <2>2. job' = job \/ (m = n /\ t = "rx") \/ job'[n][t] = job[n][t]
    BY <1>1, <2>1, BecomeJob
  <2> QED
    BY <1>4, <2>1, <2>2
<1>5. CASE SuspendGenerate(m, u)
  BY <1>5, SuspendStep
<1>6. CASE linkFailure_cb(m, q) \/ Lose(m, q)
  BY <1>6 DEF linkFailure_cb, Lose
<1> QED
  BY <1>2, <1>3, <1>4, <1>5, <1>6 DEF Ordinary

\* run() does not finish with a neighbour before the VAP is entered.
LEMMA FreshEnds ==
    ASSUME TypeInv, NEW m \in Node, NEW u \in Thread, NEW q \in Node, Ordinary(m, u, q),
           NEW n \in Node, NEW p \in Node, p \in neighbors[n], Places(local_vaps[n], p) = {},
           Fresh(n, p), ~Fresh(n, p)'
    PROVE  EnterLocal(m, u) /\ m = n /\ job[m][u].with = p
<1>1. "run" \in Thread /\ None \in Nat
  BY DEF Thread, None
<1>2. todo \in [Node -> SUBSET Node]
  BY DEF TypeInv, TypeOK
<1>3. todo' = todo \/ Run(m)
  BY DEF Ordinary, Work, CheckLocal, EnterLocal, request_remote_vap_setup, CheckRemote,
     EnterRemote, sent_config_to_local_vap, ConnectRemote, complete_local_vap,
     ConnectLocal, SuspendGenerate, Receive, RxQueue, rx_cb, RxDrop, linkFailure_cb, Lose,
     runVars
<1>4. \/ /\ job'[n]["run"].pc = job[n]["run"].pc
         /\ job'[n]["run"].with = job[n]["run"].with
      \/ m = n /\ u = "run" /\ Work(m, u)
      \/ m = n /\ Run(m)
  BY <1>1, JobStays
<1>5. CASE m = n /\ u = "run" /\ Work(m, u)
  <2>1. job[n]["run"].pc \in {"initialize", "enter", "request", "create", "admit", "answer",
                              "terminate", "complete", "connect"}
    BY <1>5 DEF Work, CheckLocal, EnterLocal, request_remote_vap_setup, CheckRemote,
     EnterRemote, sent_config_to_local_vap, ConnectRemote, complete_local_vap,
     ConnectLocal, Doing
  <2>2. todo' = todo
    BY <1>5 DEF Work, CheckLocal, EnterLocal, request_remote_vap_setup, CheckRemote,
     EnterRemote, sent_config_to_local_vap, ConnectRemote, complete_local_vap,
     ConnectLocal, runVars
  <2>3. job[n]["run"].pc \in {"initialize", "enter"} /\ job[n]["run"].with = p
    BY <2>1, <2>2 DEF Fresh
  <2>4. CASE CheckLocal(m, u)
    <3>1. Become(n, "run", "enter", p, None) /\ "enter" \in Place("run")
      BY <1>5, <2>3, <2>4, Places3 DEF CheckLocal
    <3>2. job'[n]["run"] = Job("enter", p, None)
      BY <1>1, <3>1, BecomeJob
    <3>3. job'[n]["run"].pc = "enter" /\ job'[n]["run"].with = p
      BY <3>2 DEF Job
    <3> QED
      BY <3>3 DEF Fresh
  <2>5. CASE EnterLocal(m, u)
    BY <1>5, <2>3, <2>5
  <2> QED
    BY <1>5, <2>3, <2>4, <2>5 DEF Work, request_remote_vap_setup, CheckRemote,
     EnterRemote, sent_config_to_local_vap, ConnectRemote, complete_local_vap,
     ConnectLocal, Doing
<1>6. CASE Run(m)
  <2>1. CASE RunNeighbors(m)
    <3>1. CASE m = n
      <4>1. todo'[n] = neighbors[n]
        BY <1>2, <2>1, <3>1 DEF RunNeighbors
      <4> QED
        BY <4>1 DEF Fresh
    <3>2. CASE m # n
      <4>1. todo'[n] = todo[n]
        BY <1>2, <2>1, <3>2 DEF RunNeighbors
      <4> QED
        BY <1>4, <3>2, <4>1 DEF Fresh
    <3> QED
      BY <3>1, <3>2
  <2>2. ASSUME NEW o \in Node, RunInitialize(m, o) PROVE FALSE
    <3>1. CASE m = n
      <4>1. /\ job[n]["run"].pc = "loop" /\ todo'[n] = todo[n] \ {o}
            /\ Become(n, "run", "initialize", o, None) /\ "initialize" \in Place("run")
        BY <1>2, <2>2, <3>1, Places3 DEF RunInitialize, Doing
      <4>2. job'[n]["run"] = Job("initialize", o, None)
        BY <1>1, <4>1, BecomeJob
      <4>3. job'[n]["run"].pc = "initialize" /\ job'[n]["run"].with = o
        BY <4>2 DEF Job
      <4>4. p \in todo[n]
        BY <4>1 DEF Fresh
      <4> QED
        BY <4>1, <4>3, <4>4 DEF Fresh
    <3>2. CASE m # n
      <4>1. todo'[n] = todo[n]
        BY <1>2, <2>2, <3>2 DEF RunInitialize
      <4> QED
        BY <1>4, <3>2, <4>1 DEF Fresh
    <3> QED
      BY <3>1, <3>2
  <2>3. CASE RunStarted(m)
    BY <2>3 DEF RunStarted, Fresh
  <2>4. CASE RunDrained(m) \/ RunDrain(m)
    <3>1. todo' = todo /\ job[m]["run"].pc = "loop"
      BY <2>4 DEF RunDrained, RunDrain, Doing, runVars
    <3>2. m # n
      BY <3>1 DEF Fresh
    <3> QED
      BY <1>4, <3>1, <3>2 DEF Fresh
  <2> QED
    BY <1>6, <2>1, <2>2, <2>3, <2>4 DEF Run
<1>7. CASE /\ job'[n]["run"].pc = job[n]["run"].pc /\ todo' = todo
           /\ job'[n]["run"].with = job[n]["run"].with
  BY <1>7 DEF Fresh
<1> QED
  BY <1>3, <1>4, <1>5, <1>6, <1>7

\* What a step does to the list of local VAPs of n: it was s, and is r.
LocalChange(m, u, q, n, s, r) ==
    \/ /\ r = s /\ ~(m = n /\ ConnectLocal(m, u)) /\ ~(m = n /\ EnterLocal(m, u))
       /\ ~(m = n /\ complete_local_vap(m, u) /\ Places(s, job[m][u].with) # {})
    \/ /\ m = n /\ EnterLocal(m, u)
       /\ \E v \in Vap : /\ v.neighbor = job[m][u].with /\ v.peer = None
                         /\ r = Append(s, v)
    \/ m = n /\ ConnectLocal(m, u) /\ r = WithPort(m, u, s)
    \/ /\ m = n /\ complete_local_vap(m, u)
       /\ \E i \in Places(s, job[m][u].with), v \in Vap :
             /\ v.neighbor = s[i].neighbor /\ v.id = s[i].id /\ v.peer = job[m][u].id
             /\ DOMAIN r = DOMAIN s
             /\ \A j \in DOMAIN s : r[j] = IF j = i THEN v ELSE s[j]
             /\ Become(m, u, "connect", job[m][u].with, s[i].id)
    \/ /\ m = n /\ linkFailure_cb(m, q)
       /\ \E i \in Places(s, q) : r = Without(s, i)

\* Every step but a restart and a new neighbour is one of these.
LEMMA LocalStep ==
    ASSUME TypeInv, NEW m \in Node, NEW u \in Thread, NEW q \in Node, Ordinary(m, u, q),
           NEW n \in Node
    PROVE  LocalChange(m, u, q, n, local_vaps[n], local_vaps'[n])
<1> DEFINE s == local_vaps[n]
           r == local_vaps'[n]
<1>1. local_vaps \in [Node -> Seq(Vap)] /\ s \in Seq(Vap)
  BY DEF TypeInv, TypeOK
<1>2. \/ EnterLocal(m, u) \/ ConnectLocal(m, u) \/ complete_local_vap(m, u)
      \/ linkFailure_cb(m, q)
      \/ /\ local_vaps' = local_vaps /\ ~ConnectLocal(m, u) /\ ~complete_local_vap(m, u)
         /\ ~EnterLocal(m, u)
  <2>1. CASE Work(m, u)
    BY <2>1 DEF Work, CheckLocal, EnterRemote, request_remote_vap_setup, CheckRemote,
       sent_config_to_local_vap, ConnectRemote, vapVars
  <2>2. CASE Run(m) \/ Receive(m)
    BY <2>2 DEF Run, RunNeighbors, RunStarted, RunDrain, RunDrained, RunInitialize, Receive,
       RxQueue, rx_cb, RxDrop, vapVars
  <2>3. CASE SuspendGenerate(m, u) \/ linkFailure_cb(m, q) \/ Lose(m, q)
    BY <2>3 DEF SuspendGenerate, Lose, vapVars
  <2> QED
    BY <2>1, <2>2, <2>3 DEF Ordinary
<1>3. CASE EnterLocal(m, u)
  <2>1. PICK v \in Vap :
              /\ v.neighbor = job[m][u].with /\ v.peer = None
              /\ \A o \in Node : local_vaps'[o] = IF o = m THEN Append(local_vaps[m], v)
                                                  ELSE local_vaps[o]
    BY <1>3, EnterLocalStep
  <2>2. ~ConnectLocal(m, u) /\ ~complete_local_vap(m, u)
    BY <1>3 DEF EnterLocal, ConnectLocal, complete_local_vap, Doing
  <2> QED
    BY <1>3, <2>1, <2>2 DEF LocalChange
<1>4. CASE ConnectLocal(m, u)
  <2>1. local_vaps' = [local_vaps EXCEPT ![m] = WithPort(m, u, @)]
    BY <1>4 DEF ConnectLocal
  <2>2. ~complete_local_vap(m, u) /\ ~EnterLocal(m, u)
    BY <1>4 DEF ConnectLocal, complete_local_vap, EnterLocal, Doing
  <2>3. r = IF m = n THEN WithPort(m, u, s) ELSE s
    BY <1>1, <2>1
  <2> QED
    BY <1>4, <2>2, <2>3 DEF LocalChange
<1>5. CASE complete_local_vap(m, u)
  <2>1. ~ConnectLocal(m, u) /\ ~EnterLocal(m, u)
    BY <1>5 DEF ConnectLocal, complete_local_vap, EnterLocal, Doing
  <2>2. CASE Places(local_vaps[m], job[m][u].with) = {}
    BY <1>5, <2>1, <2>2 DEF complete_local_vap, LocalChange
  <2>3. CASE Places(local_vaps[m], job[m][u].with) # {}
    <3>1. PICK i \in DOMAIN local_vaps[m], v \in Vap :
              /\ local_vaps[m][i].neighbor = job[m][u].with
              /\ v.neighbor = local_vaps[m][i].neighbor /\ v.id = local_vaps[m][i].id
              /\ v.peer = job[m][u].id
              /\ \A o \in Node : o # m => local_vaps'[o] = local_vaps[o]
              /\ DOMAIN local_vaps'[m] = DOMAIN local_vaps[m]
              /\ \A j \in DOMAIN local_vaps[m] :
                    local_vaps'[m][j] = IF j = i THEN v ELSE local_vaps[m][j]
              /\ Become(m, u, "connect", job[m][u].with, local_vaps[m][i].id)
      BY <1>5, <2>3, CompleteStep, ZenonT(60)
    <3>2. i \in Places(local_vaps[m], job[m][u].with)
      BY <3>1 DEF Places
    <3> QED
      BY <1>5, <2>1, <3>1, <3>2 DEF LocalChange
  <2> QED
    BY <2>2, <2>3
<1>6. CASE linkFailure_cb(m, q)
  <2>1. neighbors'[m] # neighbors[m]
    BY <1>6 DEF linkFailure_cb, TypeInv, TypeOK
  <2>2. ~ConnectLocal(m, u) /\ ~complete_local_vap(m, u) /\ ~EnterLocal(m, u)
    BY <2>1 DEF ConnectLocal, complete_local_vap, EnterLocal
  <2>3. CASE Places(local_vaps[m], q) = {}
    <3>1. local_vaps' = local_vaps
      BY <1>6, <2>3 DEF linkFailure_cb
    <3> QED
      BY <2>2, <3>1 DEF LocalChange
  <2>4. CASE Places(local_vaps[m], q) # {}
    <3> DEFINE i == First(local_vaps[m], q)
    <3>1. i \in DOMAIN local_vaps[m] /\ local_vaps[m][i].neighbor = q
      BY <1>1, <2>4, FirstFound
    <3>2. i \in Places(local_vaps[m], q)
      BY <3>1 DEF Places
    <3>3. local_vaps' = [local_vaps EXCEPT ![m] = Without(@, i)]
      BY <1>6, <2>4 DEF linkFailure_cb
    <3> HIDE DEF i
    <3>4. r = IF m = n THEN Without(s, i) ELSE s
      BY <1>1, <3>3
    <3> QED
      BY <1>6, <2>2, <3>2, <3>4 DEF LocalChange
  <2> QED
    BY <2>3, <2>4
<1>7. CASE /\ local_vaps' = local_vaps /\ ~ConnectLocal(m, u) /\ ~complete_local_vap(m, u)
           /\ ~EnterLocal(m, u)
  BY <1>7 DEF LocalChange
<1> QED
  BY <1>2, <1>3, <1>4, <1>5, <1>6, <1>7

\* What is in a list after an entry is removed.
LEMMA PlacesWithout ==
    ASSUME NEW s \in Seq(Vap), NEW i \in DOMAIN s, NEW p, NEW r, r = Without(s, i)
    PROVE  /\ \A k \in Places(r, p) : \E j \in Places(s, p) : r[k] = s[j]
           /\ \A j \in Places(s, p) : j # i => \E k \in Places(r, p) : r[k] = s[j]
           /\ AtMostOne(Places(s, p)) => AtMostOne(Places(r, p))
<1>1. /\ DOMAIN r = 1..(Len(s) - 1) /\ DOMAIN s = 1..Len(s) /\ Len(s) \in Nat
      /\ \A j \in 1..(Len(s) - 1) : r[j] = IF j < i THEN s[j] ELSE s[j + 1]
  BY WithoutEntry
<1> DEFINE f(k) == IF k < i THEN k ELSE k + 1
<1>2. \A k \in Places(r, p) : k \in 1..(Len(s) - 1) /\ f(k) \in Places(s, p) /\ r[k] = s[f(k)]
  BY <1>1 DEF Places
<1>3. ASSUME NEW j \in Places(s, p), j # i PROVE \E k \in Places(r, p) : r[k] = s[j]
  <2>1. j \in 1..Len(s) /\ s[j].neighbor = p
    BY <1>1 DEF Places
  <2>2. CASE j < i
    <3>1. j \in 1..(Len(s) - 1) /\ r[j] = s[j]
      BY <1>1, <2>1, <2>2
    <3> QED
      BY <1>1, <2>1, <3>1 DEF Places
  <2>3. CASE ~(j < i)
    <3>1. j - 1 \in 1..(Len(s) - 1) /\ ~(j - 1 < i) /\ (j - 1) + 1 = j
      BY <1>1, <1>3, <2>1, <2>3
    <3>2. r[j - 1] = s[j]
      BY <1>1, <3>1
    <3> QED
      BY <1>1, <2>1, <3>1, <3>2 DEF Places
  <2> QED
    BY <2>2, <2>3
<1>4. ASSUME AtMostOne(Places(s, p)), NEW k \in Places(r, p), NEW l \in Places(r, p)
      PROVE  k = l
  <2>1. f(k) = f(l)
    BY <1>2, <1>4 DEF AtMostOne
  <2>2. k \in Int /\ l \in Int /\ i \in Int
    BY <1>1, <1>2
  <2> QED
    BY <2>1, <2>2
<1>5. \A k \in Places(r, p) : \E j \in Places(s, p) : r[k] = s[j]
  BY <1>2
<1> HIDE DEF f
<1> QED
  BY <1>3, <1>4, <1>5 DEF AtMostOne

\* A local VAP has got its neighbour's half of the configuration.
Full(vaps, p) == \E i \in Places(vaps, p) : vaps[i].peer # None
Filled(n, p) == Full(local_vaps[n], p)

\* The local VAP of p is the only one, and stays until p is lost.
LEMMA LocalKept ==
    ASSUME TypeInv, NEW m \in Node, NEW u \in Thread, NEW q \in Node, Ordinary(m, u, q),
           NEW n \in Node, NEW p \in Node, AtMostOne(Places(local_vaps[n], p)),
           EnterLocal(m, u) /\ m = n /\ job[m][u].with = p => Places(local_vaps[n], p) = {},
           complete_local_vap(m, u) /\ m = n /\ job[m][u].with = p => job[m][u].id # None
    PROVE  /\ AtMostOne(Places(local_vaps'[n], p))
           /\ ~(linkFailure_cb(m, q) /\ m = n /\ q = p) =>
                 /\ Places(local_vaps[n], p) # {} => Places(local_vaps'[n], p) # {}
                 /\ Filled(n, p) => Filled(n, p)'
           /\ EnterLocal(m, u) /\ m = n /\ job[m][u].with = p => Places(local_vaps'[n], p) # {}
           /\ complete_local_vap(m, u) /\ m = n /\ job[m][u].with = p
              /\ Places(local_vaps[n], p) # {} => Filled(n, p)'
<1> DEFINE s == local_vaps[n]
           r == local_vaps'[n]
           o == job[m][u].with
<1>1. s \in Seq(Vap)
  BY DEF TypeInv, TypeOK
<1>2. (Filled(n, p) <=> Full(s, p)) /\ (Filled(n, p)' <=> Full(r, p))
  BY DEF Filled, Full, Places
<1>3. EnterLocal(m, u) => ~complete_local_vap(m, u)
  BY DEF EnterLocal, complete_local_vap, Doing
<1>4. EnterLocal(m, u) \/ complete_local_vap(m, u) => neighbors' = neighbors
  BY DEF EnterLocal, complete_local_vap
<1>5. linkFailure_cb(m, q) => neighbors'[m] # neighbors[m]
  BY DEF linkFailure_cb, TypeInv, TypeOK
<1>6. LocalChange(m, u, q, n, s, r)
  BY LocalStep
<1>7. AtMostOne(Places(s, p)) /\ (EnterLocal(m, u) /\ m = n /\ o = p => Places(s, p) = {})
  OBVIOUS
<1> HIDE DEF s, r, o
<1> DEFINE Goal == /\ AtMostOne(Places(r, p))
                   /\ ~(linkFailure_cb(m, q) /\ m = n /\ q = p) =>
                        /\ Places(s, p) # {} => Places(r, p) # {}
                        /\ Full(s, p) => Full(r, p)
                   /\ EnterLocal(m, u) /\ m = n /\ o = p => Places(r, p) # {}
                   /\ complete_local_vap(m, u) /\ m = n /\ o = p /\ Places(s, p) # {} => Full(r, p)
<1>8. ASSUME r = s, ~(m = n /\ EnterLocal(m, u)),
             ~(m = n /\ complete_local_vap(m, u) /\ Places(s, o) # {})
      PROVE  Goal
  BY <1>7, <1>8
<1>9. ASSUME m = n, EnterLocal(m, u), NEW v \in Vap, v.neighbor = o, v.peer = None, r = Append(s, v)
      PROVE  Goal
  <2>1. /\ DOMAIN r = 1..(Len(s) + 1) /\ Len(s) \in Nat /\ DOMAIN s = 1..Len(s)
        /\ \A i \in 1..Len(s) : r[i] = s[i]
    BY <1>1, <1>9, ListAppended
  <2>2. \A i \in Places(s, p) : i \in Places(r, p) /\ r[i] = s[i]
    BY <2>1 DEF Places
  <2>3. /\ o = p => Come(Places(s, p), Places(r, p))
        /\ o # p => Like(Places(s, p), Places(r, p))
    BY <1>1, <1>9, GrantAppend
  <2> QED
    BY <1>3, <1>7, <1>9, <2>2, <2>3 DEF Come, Like, Full
<1>10. ASSUME m = n, ConnectLocal(m, u), r = WithPort(m, u, s) PROVE Goal
  <2>1. /\ DOMAIN r = DOMAIN s
        /\ \A i \in DOMAIN s : r[i].neighbor = s[i].neighbor /\ r[i].peer = s[i].peer
    BY <1>1, <1>10, WithPortType
  <2>2. Places(r, p) = Places(s, p) /\ (Full(s, p) => Full(r, p))
    BY <2>1 DEF Places, Full
  <2>3. ~EnterLocal(m, u) /\ ~complete_local_vap(m, u)
    BY <1>10 DEF EnterLocal, complete_local_vap, ConnectLocal, Doing
  <2> QED
    BY <1>7, <2>2, <2>3
<1>11. ASSUME m = n, complete_local_vap(m, u), NEW i \in Places(s, o), NEW v \in Vap,
              v.neighbor = s[i].neighbor, v.peer = job[m][u].id, DOMAIN r = DOMAIN s,
              \A j \in DOMAIN s : r[j] = IF j = i THEN v ELSE s[j]
       PROVE  Goal
  <2>1. i \in DOMAIN s /\ s[i].neighbor = o
    BY DEF Places
  <2>2. \A j \in DOMAIN s : r[j].neighbor = s[j].neighbor
    BY <1>11
  <2>3. Places(r, p) = Places(s, p)
    BY <1>11, <2>2 DEF Places
  <2>4. o = p => i \in Places(r, p) /\ r[i].peer # None
    BY <1>11, <2>1, <2>3 DEF Places, o
  <2>5. o # p => i \notin Places(s, p)
    BY <2>1 DEF Places
  <2>6. Full(s, p) => Full(r, p)
    <3> SUFFICES ASSUME NEW j \in Places(s, p), s[j].peer # None PROVE Full(r, p)
      BY DEF Full
    <3>1. j \in DOMAIN s
      BY DEF Places
    <3>2. j # i => r[j].peer = s[j].peer
      BY <1>11, <3>1
    <3> QED
      BY <2>3, <2>4, <2>5, <3>2 DEF Full
  <2> QED
    BY <1>3, <1>7, <1>11, <2>3, <2>4, <2>6 DEF Full
<1>12. ASSUME m = n, linkFailure_cb(m, q), NEW i \in Places(s, q), r = Without(s, i)
       PROVE  Goal
  <2>1. i \in DOMAIN s /\ s[i].neighbor = q
    BY DEF Places
  <2>2. /\ \A j \in Places(s, p) : j # i => \E k \in Places(r, p) : r[k] = s[j]
        /\ AtMostOne(Places(s, p)) => AtMostOne(Places(r, p))
    BY <1>1, <1>12, <2>1, PlacesWithout
  <2>3. q # p => i \notin Places(s, p)
    BY <2>1 DEF Places
  <2>4. q # p => \A j \in Places(s, p) : \E k \in Places(r, p) : r[k] = s[j]
    BY <2>2, <2>3
  <2> QED
    BY <1>4, <1>5, <1>7, <1>12, <2>2, <2>4 DEF Full
<1>13. Goal
  <2> HIDE DEF Goal
  <2> QED
    BY <1>6, <1>8, <1>9, <1>10, <1>11, <1>12 DEF LocalChange, o
<1> QED
  BY <1>2, <1>13 DEF s, r, o

\* What a step does to the list of remote VAPs of p: it was s, and is r.
RemoteChange(m, u, p, s, r) ==
    \/ r = s /\ ~(m = p /\ ConnectRemote(m, u))
    \/ /\ m = p /\ EnterRemote(m, u)
       /\ \E v \in Vap : /\ v.neighbor = job[m][u].with /\ r = Append(s, v)
                         /\ Become(m, u, "answer", job[m][u].with, v.id)
    \/ m = p /\ ConnectRemote(m, u) /\ r = WithPort(m, u, s)

\* Every step but a restart is one of these.
LEMMA RemoteStep ==
    ASSUME TypeInv, NEW m \in Node, NEW u \in Thread, NEW q \in Node, Ordinary(m, u, q),
           NEW p \in Node
    PROVE  RemoteChange(m, u, p, remote_vaps[p], remote_vaps'[p])
<1>1. remote_vaps \in [Node -> Seq(Vap)]
  BY DEF TypeInv, TypeOK
<1>2. \/ EnterRemote(m, u) \/ ConnectRemote(m, u)
      \/ remote_vaps' = remote_vaps /\ ~ConnectRemote(m, u)
  BY DEF Ordinary, Work, CheckLocal, EnterLocal, request_remote_vap_setup, CheckRemote,
     sent_config_to_local_vap, complete_local_vap, ConnectLocal, SuspendGenerate, Run,
     RunNeighbors, RunStarted, RunDrain, RunDrained, RunInitialize, Receive, RxQueue, rx_cb,
     RxDrop, linkFailure_cb, Lose, vapVars
<1>3. CASE EnterRemote(m, u)
  <2>1. PICK v \in Vap :
              /\ v.neighbor = job[m][u].with /\ v.id = Generated(m, u, generator)
              /\ \A o \in Node : remote_vaps'[o] = IF o = m THEN Append(remote_vaps[m], v)
                                                   ELSE remote_vaps[o]
    BY <1>3, EnterRemoteStep
  <2>2. Become(m, u, "answer", job[m][u].with, v.id)
    BY <1>3, <2>1 DEF EnterRemote
  <2>3. ~ConnectRemote(m, u)
    BY <1>3 DEF EnterRemote, ConnectRemote, Doing
  <2> QED
    BY <1>3, <2>1, <2>2, <2>3 DEF RemoteChange
<1>4. CASE ConnectRemote(m, u)
  <2>1. remote_vaps' = [remote_vaps EXCEPT ![m] = WithPort(m, u, @)]
    BY <1>4 DEF ConnectRemote
  <2>2. remote_vaps'[p] = IF m = p THEN WithPort(m, u, remote_vaps[p]) ELSE remote_vaps[p]
    BY <1>1, <2>1
  <2> QED
    BY <1>4, <2>2 DEF RemoteChange
<1> QED
  BY <1>2, <1>3, <1>4 DEF RemoteChange

\* A thread has still to connect the VAP with that number.
Connecting(n, p, id) ==
    \E t \in Thread : job[n][t].pc = "connect" /\ job[n][t].with = p /\ job[n][t].id = id
Terminating(n, p, id) ==
    \E t \in Thread : /\ job[p][t].pc \in {"answer", "terminate"} /\ job[p][t].with = n
                      /\ job[p][t].id = id

\* It does so before it does anything else.
LEMMA ConnectingStays ==
    ASSUME TypeInv, NEW m \in Node, NEW u \in Thread, NEW q \in Node, Ordinary(m, u, q),
           NEW n \in Node, NEW p \in Node, NEW id, Connecting(n, p, id)
    PROVE  \/ Connecting(n, p, id)'
           \/ m = n /\ ConnectLocal(m, u) /\ job[m][u].with = p /\ job[m][u].id = id
<1>1. PICK t \in Thread :
         job[n][t].pc = "connect" /\ job[n][t].with = p /\ job[n][t].id = id
  BY DEF Connecting
<1>2. \/ /\ job'[n][t].pc = job[n][t].pc /\ job'[n][t].with = job[n][t].with
         /\ job'[n][t].id = job[n][t].id
      \/ m = n /\ u = t /\ Work(m, u)
  BY <1>1, JobStays
<1>3. CASE m = n /\ u = t /\ Work(m, u)
  <2>1. ConnectLocal(m, u)
    BY <1>1, <1>3 DEF Work, CheckLocal, EnterLocal, request_remote_vap_setup, CheckRemote,
       EnterRemote, sent_config_to_local_vap, ConnectRemote, complete_local_vap, Doing
  <2> QED
    BY <1>1, <1>3, <2>1
<1> QED
  BY <1>1, <1>2, <1>3 DEF Connecting

\* So does the thread that answers a request.
LEMMA TerminatingStays ==
    ASSUME TypeInv, NEW m \in Node, NEW u \in Thread, NEW q \in Node, Ordinary(m, u, q),
           NEW n \in Node, NEW p \in Node, NEW id, Terminating(n, p, id)
    PROVE  \/ Terminating(n, p, id)'
           \/ m = p /\ ConnectRemote(m, u) /\ job[m][u].with = n /\ job[m][u].id = id
<1>1. PICK t \in Thread : /\ job[p][t].pc \in {"answer", "terminate"} /\ job[p][t].with = n
                          /\ job[p][t].id = id
  BY DEF Terminating
<1>2. \/ /\ job'[p][t].pc = job[p][t].pc /\ job'[p][t].with = job[p][t].with
         /\ job'[p][t].id = job[p][t].id
      \/ m = p /\ u = t /\ Work(m, u)
  BY <1>1, JobStays
<1>3. CASE m = p /\ u = t /\ Work(m, u)
  <2>1. ConnectRemote(m, u) \/ sent_config_to_local_vap(m, u)
    BY <1>1, <1>3 DEF Work, CheckLocal, EnterLocal, request_remote_vap_setup, CheckRemote,
       EnterRemote, ConnectLocal, complete_local_vap, Doing
  <2>2. CASE sent_config_to_local_vap(m, u)
    <3>1. Become(p, t, "terminate", n, id) /\ "terminate" \in Place(t) /\ id \in Nat
      BY <1>1, <1>3, <2>2, SharedPlaces, JobFields DEF sent_config_to_local_vap
    <3>2. job'[p][t] = Job("terminate", n, id)
      BY <3>1, BecomeJob
    <3>3. /\ job'[p][t].pc = "terminate" /\ job'[p][t].with = n /\ job'[p][t].id = id
      BY <3>2 DEF Job
    <3> QED
      BY <3>3 DEF Terminating
  <2> QED
    BY <1>1, <1>3, <2>1, <2>2
<1> QED
  BY <1>1, <1>2, <1>3 DEF Terminating

\* The port is noted in the VAP, and is one.
LEMMA PortNoted ==
    ASSUME TypeInv, NEW n \in Node, NEW t \in Thread, Numbers(n), NEW s \in Seq(Vap),
           AtMostOne(Places(s, job[n][t].with))
    PROVE  \A k \in DOMAIN s :
              /\ \/ WithPort(n, t, s)[k].port # None
                 \/ WithPort(n, t, s)[k].port = s[k].port
              /\ s[k].neighbor = job[n][t].with /\ s[k].id = job[n][t].id =>
                    WithPort(n, t, s)[k].port # None
<1> DEFINE g == Generated(n, t, port_id_generator)
           mine == {i \in Places(s, job[n][t].with) : s[i].id = job[n][t].id}
           r == WithPort(n, t, s)
<1>1. g # None
  BY DEF Numbers, Generated, None
<1>2. r = [i \in DOMAIN s |-> IF i \in mine /\ \A j \in mine : i <= j
                              THEN [s[i] EXCEPT !.port = g] ELSE s[i]]
  BY DEF WithPort
<1>3. \A i, j \in mine : i = j
  BY DEF AtMostOne
<1>4. \A i \in mine : i \in DOMAIN s /\ i \in Int
  BY DEF Places
<1>5. \A k \in DOMAIN s : s[k].neighbor = job[n][t].with /\ s[k].id = job[n][t].id => k \in mine
  BY DEF Places
<1>6. \A k \in DOMAIN s : r[k].port \in {s[k].port, g}
  BY WithPortType
<1> HIDE DEF g, mine, r
<1>7. ASSUME NEW k \in DOMAIN s, k \in mine PROVE r[k].port = g
  <2>1. \A j \in mine : k <= j
    BY <1>3, <1>4, <1>7
  <2>2. r[k] = [s[k] EXCEPT !.port = g]
    BY <1>2, <1>7, <2>1
  <2>3. s[k] \in Vap
    OBVIOUS
  <2> QED
    BY <2>2, <2>3 DEF Vap
<1> QED
  BY <1>1, <1>5, <1>6, <1>7 DEF r

\* A completed local VAP has its port, or a thread connects it.
LocalPorts(n, p) ==
    \A i \in Places(local_vaps[n], p) : local_vaps[n][i].peer # None =>
        local_vaps[n][i].port # None \/ Connecting(n, p, local_vaps[n][i].id)
\* A remote VAP has its port, or the thread that entered it is about to connect it.
RemotePorts(n, p) ==
    \A j \in Granted(n, p) :
        remote_vaps[p][j].port # None \/ Terminating(n, p, remote_vaps[p][j].id)

\* The same of a list before or after a step.
LEMMA LocalPortsNext ==
    ASSUME NEW n \in Node, NEW p \in Node,
           ASSUME NEW i \in Places(local_vaps'[n], p), local_vaps'[n][i].peer # None,
                  local_vaps'[n][i].port = None, NEW id, id = local_vaps'[n][i].id
           PROVE  Connecting(n, p, id)'
    PROVE  LocalPorts(n, p)'
<1> SUFFICES ASSUME NEW i \in Places(local_vaps'[n], p), local_vaps'[n][i].peer # None,
                    local_vaps'[n][i].port = None
             PROVE  Connecting(n, p, local_vaps[n][i].id)'
  BY DEF LocalPorts, Places
<1>1. PICK id : id = local_vaps'[n][i].id
  OBVIOUS
<1>2. Connecting(n, p, id)'
  BY <1>1
<1> QED
  BY <1>1, <1>2 DEF Connecting

\* The other side.
LEMMA RemotePortsNext ==
    ASSUME NEW n \in Node, NEW p \in Node,
           ASSUME NEW i \in Places(remote_vaps'[p], n), remote_vaps'[p][i].port = None,
                  NEW id, id = remote_vaps'[p][i].id
           PROVE  Terminating(n, p, id)'
    PROVE  RemotePorts(n, p)'
<1> SUFFICES ASSUME NEW i \in Places(remote_vaps'[p], n), remote_vaps'[p][i].port = None
             PROVE  Terminating(n, p, remote_vaps[p][i].id)'
  BY DEF RemotePorts, Granted, Places
<1>1. PICK id : id = remote_vaps'[p][i].id
  OBVIOUS
<1>2. Terminating(n, p, id)'
  BY <1>1
<1> QED
  BY <1>1, <1>2 DEF Terminating

\* Every local VAP that is completed is connected.
LEMMA LocalPortsKept ==
    ASSUME TypeInv, NEW m \in Node, NEW u \in Thread, NEW q \in Node, Ordinary(m, u, q),
           NEW n \in Node, NEW p \in Node, Numbers(n), AtMostOne(Places(local_vaps[n], p)),
           LocalPorts(n, p)
    PROVE  LocalPorts(n, p)'
<1> DEFINE s == local_vaps[n]
           r == local_vaps'[n]
           o == job[m][u].with
<1> SUFFICES ASSUME NEW k \in Places(r, p), r[k].peer # None, r[k].port = None,
                    NEW id, id = r[k].id
             PROVE  Connecting(n, p, id)'
  BY LocalPortsNext
<1>1. s \in Seq(Vap) /\ o \in Node /\ k \in DOMAIN r /\ r[k].neighbor = p
  BY JobFields DEF TypeInv, TypeOK, Places
<1>2. LocalChange(m, u, q, n, s, r)
  BY LocalStep
<1>3. ASSUME NEW j \in DOMAIN s, s[j].neighbor = p, s[j].peer # None, s[j].port = None,
             s[j].id = id
      PROVE  Connecting(n, p, id)' \/ (m = n /\ ConnectLocal(m, u) /\ o = p /\ job[m][u].id = id)
  <2>1. j \in Places(s, p)
    BY <1>3 DEF Places
  <2>2. Connecting(n, p, id)
    BY <1>3, <2>1 DEF LocalPorts
  <2> QED
    BY <2>2, ConnectingStays
<1>4. AtMostOne(Places(s, p))
  OBVIOUS
<1> HIDE DEF s, r
<1>5. ASSUME r = s, ~(m = n /\ ConnectLocal(m, u)) PROVE Connecting(n, p, id)'
  BY <1>1, <1>3, <1>5
<1>6. ASSUME m = n, EnterLocal(m, u), NEW v \in Vap, v.peer = None, r = Append(s, v)
      PROVE  Connecting(n, p, id)'
  <2>1. /\ DOMAIN r = 1..(Len(s) + 1) /\ Len(s) \in Nat /\ DOMAIN s = 1..Len(s)
        /\ \A i \in 1..Len(s) : r[i] = s[i]
        /\ r[Len(s) + 1] = v
    BY <1>1, <1>6, ListAppended
  <2>2. k # Len(s) + 1
    BY <1>6, <2>1
  <2>3. k \in DOMAIN s /\ r[k] = s[k]
    BY <1>1, <2>1, <2>2
  <2>4. ~ConnectLocal(m, u)
    BY <1>6 DEF EnterLocal, ConnectLocal, Doing
  <2> QED
    BY <1>1, <1>3, <2>3, <2>4
<1>7. ASSUME m = n, ConnectLocal(m, u), r = WithPort(m, u, s)
      PROVE  Connecting(n, p, id)'
  <2>1. k \in DOMAIN s /\ s[k].neighbor = p /\ s[k].peer # None /\ s[k].id = id
    BY <1>1, <1>7, WithPortType
  <2>2. CASE o = p
    <3>1. /\ s[k].port = None
          /\ ~(s[k].neighbor = o /\ s[k].id = job[m][u].id)
      BY <1>1, <1>4, <1>7, <2>1, <2>2, PortNoted
    <3> QED
      BY <1>3, <2>1, <2>2, <3>1
  <2>3. CASE o # p
    <3>1. s[k].port = None
      <4> DEFINE mine == {i \in Places(s, o) : s[i].id = job[m][u].id}
      <4>1. k \notin mine
        BY <2>1, <2>3 DEF Places
      <4>2. r = [i \in DOMAIN s |-> IF i \in mine /\ \A j \in mine : i <= j
                              THEN [s[i] EXCEPT !.port = Generated(m, u, port_id_generator)]
                              ELSE s[i]]
        BY <1>7 DEF WithPort
      <4> HIDE DEF mine
      <4>3. r[k] = s[k]
        BY <2>1, <4>1, <4>2
      <4> QED
        BY <4>3
    <3> QED
      BY <1>3, <2>1, <2>3, <3>1
  <2> QED
    BY <2>2, <2>3
<1>8. ASSUME m = n, complete_local_vap(m, u), NEW i \in Places(s, o), NEW v \in Vap,
             v.neighbor = s[i].neighbor, v.id = s[i].id, DOMAIN r = DOMAIN s,
             \A j \in DOMAIN s : r[j] = IF j = i THEN v ELSE s[j],
             Become(m, u, "connect", o, s[i].id)
      PROVE  Connecting(n, p, id)'
  <2>1. i \in DOMAIN s /\ s[i].neighbor = o
    BY DEF Places
  <2>2. CASE k = i
    <3>1. o = p /\ s[i].id = id
      BY <1>1, <1>8, <2>1, <2>2
    <3>2. id \in Nat
      BY <1>8, <3>1 DEF Vap
    <3>3. Become(n, u, "connect", p, id) /\ "connect" \in Place(u)
      BY <1>8, <3>1, SharedPlaces
    <3>4. job'[n][u] = Job("connect", p, id)
      BY <3>2, <3>3, BecomeJob
    <3>5. job'[n][u].pc = "connect" /\ job'[n][u].with = p /\ job'[n][u].id = id
      BY <3>4 DEF Job
    <3> QED
      BY <3>5 DEF Connecting
  <2>3. CASE k # i
    <3>1. k \in DOMAIN s /\ r[k] = s[k]
      BY <1>1, <1>8, <2>3
    <3>2. ~ConnectLocal(m, u)
      BY <1>8 DEF complete_local_vap, ConnectLocal, Doing
    <3> QED
      BY <1>1, <1>3, <3>1, <3>2
  <2> QED
    BY <2>2, <2>3
<1>9. ASSUME m = n, linkFailure_cb(m, q), NEW i \in Places(s, q), r = Without(s, i)
      PROVE  Connecting(n, p, id)'
  <2>1. i \in DOMAIN s
    BY DEF Places
  <2>2. PICK j \in Places(s, p) : r[k] = s[j]
    BY <1>1, <1>9, <2>1, PlacesWithout
  <2>3. j \in DOMAIN s /\ s[j].neighbor = p
    BY DEF Places
  <2>4. neighbors'[m] # neighbors[m]
    BY <1>9 DEF linkFailure_cb, TypeInv, TypeOK
  <2>5. ~ConnectLocal(m, u)
    BY <2>4 DEF ConnectLocal
  <2> QED
    BY <1>3, <2>2, <2>3, <2>5
<1> QED
  BY <1>2, <1>5, <1>6, <1>7, <1>8, <1>9 DEF LocalChange

\* So is every remote VAP.
LEMMA RemotePortsKept ==
    ASSUME TypeInv, NEW m \in Node, NEW u \in Thread, NEW q \in Node, Ordinary(m, u, q),
           NEW n \in Node, NEW p \in Node, Numbers(p), AtMostOne(Granted(n, p)),
           RemotePorts(n, p)
    PROVE  RemotePorts(n, p)'
<1> DEFINE s == remote_vaps[p]
           r == remote_vaps'[p]
           o == job[m][u].with
<1> SUFFICES ASSUME NEW k \in Places(r, n), r[k].port = None, NEW id, id = r[k].id
             PROVE  Terminating(n, p, id)'
  BY RemotePortsNext
<1>1. s \in Seq(Vap) /\ o \in Node /\ k \in DOMAIN r /\ r[k].neighbor = n
  BY JobFields DEF TypeInv, TypeOK, Places
<1>2. RemoteChange(m, u, p, s, r)
  BY RemoteStep
<1>3. ASSUME NEW j \in DOMAIN s, s[j].neighbor = n, s[j].port = None, s[j].id = id
      PROVE  Terminating(n, p, id)' \/ (m = p /\ ConnectRemote(m, u) /\ o = n /\ job[m][u].id = id)
  <2>1. j \in Granted(n, p)
    BY <1>3 DEF Places, Granted
  <2>2. Terminating(n, p, id)
    BY <1>3, <2>1 DEF RemotePorts
  <2> QED
    BY <2>2, TerminatingStays
<1>4. AtMostOne(Places(s, n))
  BY DEF Granted
<1> HIDE DEF s, r
<1>5. ASSUME r = s, ~(m = p /\ ConnectRemote(m, u)) PROVE Terminating(n, p, id)'
  BY <1>1, <1>3, <1>5
<1>6. ASSUME m = p, EnterRemote(m, u), NEW v \in Vap, v.neighbor = o, r = Append(s, v),
             Become(m, u, "answer", o, v.id)
      PROVE  Terminating(n, p, id)'
  <2>1. /\ DOMAIN r = 1..(Len(s) + 1) /\ Len(s) \in Nat /\ DOMAIN s = 1..Len(s)
        /\ \A i \in 1..Len(s) : r[i] = s[i]
        /\ r[Len(s) + 1] = v
    BY <1>1, <1>6, ListAppended
  <2>2. CASE k = Len(s) + 1
    <3>1. o = n /\ v.id = id
      BY <1>1, <1>6, <2>1, <2>2
    <3>2. id \in Nat
      BY <3>1 DEF Vap
    <3>3. Become(p, u, "answer", n, id) /\ "answer" \in Place(u)
      BY <1>6, <3>1, SharedPlaces
    <3>4. job'[p][u] = Job("answer", n, id)
      BY <3>2, <3>3, BecomeJob
    <3>5. job'[p][u].pc = "answer" /\ job'[p][u].with = n /\ job'[p][u].id = id
      BY <3>4 DEF Job
    <3> QED
      BY <3>5 DEF Terminating
  <2>3. CASE k # Len(s) + 1
    <3>1. k \in DOMAIN s /\ r[k] = s[k]
      BY <1>1, <2>1, <2>3
    <3>2. ~ConnectRemote(m, u)
      BY <1>6 DEF EnterRemote, ConnectRemote, Doing
    <3> QED
      BY <1>1, <1>3, <3>1, <3>2
  <2> QED
    BY <2>2, <2>3
<1>7. ASSUME m = p, ConnectRemote(m, u), r = WithPort(m, u, s)
      PROVE  Terminating(n, p, id)'
  <2>1. k \in DOMAIN s /\ s[k].neighbor = n /\ s[k].id = id
    BY <1>1, <1>7, WithPortType
  <2>2. CASE o = n
    <3>1. /\ s[k].port = None
          /\ ~(s[k].neighbor = o /\ s[k].id = job[m][u].id)
      BY <1>1, <1>4, <1>7, <2>1, <2>2, PortNoted
    <3> QED
      BY <1>3, <2>1, <2>2, <3>1
  <2>3. CASE o # n
    <3>1. s[k].port = None
      <4> DEFINE mine == {i \in Places(s, o) : s[i].id = job[m][u].id}
      <4>1. k \notin mine
        BY <2>1, <2>3 DEF Places
      <4>2. r = [i \in DOMAIN s |-> IF i \in mine /\ \A j \in mine : i <= j
                              THEN [s[i] EXCEPT !.port = Generated(m, u, port_id_generator)]
                              ELSE s[i]]
        BY <1>7 DEF WithPort
      <4> HIDE DEF mine
      <4>3. r[k] = s[k]
        BY <2>1, <4>1, <4>2
      <4> QED
        BY <4>3
    <3> QED
      BY <1>3, <2>1, <2>3, <3>1
  <2> QED
    BY <2>2, <2>3
<1> QED
  BY <1>2, <1>5, <1>6, <1>7 DEF RemoteChange

\* The answer of p to n is on its way: with a thread of p, on the channel, with a thread
\* of n, or in the queue of n.
AnswerAir(n, p) == \E i \in DOMAIN chan[p][n] : chan[p][n][i].type # "request"
AnswerTaken(n, p) ==
    \E t \in Thread : job[n][t].pc \in {"queueCompleted", "complete"} /\ job[n][t].with = p
AnswerWaits(n, p) ==
    \E i \in DOMAIN msgQueue[n] : /\ i > drained[n] /\ msgQueue[n][i].from = p
                                  /\ msgQueue[n][i].msg.type # "request"
Answering(n, p) ==
    \/ \E t \in Thread : job[p][t].pc = "answer" /\ job[p][t].with = n
    \/ AnswerAir(n, p) \/ AnswerTaken(n, p) \/ AnswerWaits(n, p)

\* An agent that has the key and knows its neighbour sends the answer.
LEMMA AnswerSent ==
    ASSUME TypeInv, NEW m \in Node, NEW u \in Thread, NEW q \in Node, Ordinary(m, u, q),
           NEW n \in Node, NEW p \in Node, Mutual(p, n), KeyAt(p, n),
           NEW t \in Thread, job[p][t].pc = "answer", job[p][t].with = n
    PROVE  Answering(n, p)'
<1>1. \/ job'[p][t].pc = "answer" /\ job'[p][t].with = n
      \/ m = p /\ u = t /\ Work(m, u)
  BY JobStays
<1>2. CASE m = p /\ u = t /\ Work(m, u)
  <2>1. sent_config_to_local_vap(p, t)
    BY <1>2 DEF Work, CheckLocal, EnterLocal, request_remote_vap_setup, CheckRemote,
       EnterRemote, ConnectRemote, ConnectLocal, complete_local_vap, Doing
  <2> DEFINE msg == [type |-> "completed", id |-> job[p][t].id]
             s == chan[p][n]
  <2>2. sendToNeighbor(p, t, n, msg)
    BY <2>1 DEF sent_config_to_local_vap
  <2>3. n \in neighbors[p] /\ <<p, n>> \in session
    BY DEF Mutual, KeyAt
  <2>4. chan' = [chan EXCEPT ![p][n] = Append(@, msg)]
    BY <2>2, <2>3 DEF sendToNeighbor
  <2>5. msg \in Message /\ msg.type # "request"
    BY JobFields DEF Message
  <2>6. chan \in [Node -> [Node -> Seq(Message)]]
    BY DEF TypeInv, TypeOK
  <2> HIDE DEF msg
  <2>7. chan'[p][n] = Append(s, msg) /\ s \in Seq(Message)
    BY <2>4, <2>6
  <2> HIDE DEF s
  <2>8. /\ DOMAIN Append(s, msg) = 1..(Len(s) + 1) /\ Len(s) \in Nat
        /\ Append(s, msg)[Len(s) + 1] = msg
    BY <2>5, <2>7, ListAppended
  <2>9. Len(s) + 1 \in DOMAIN chan'[p][n] /\ chan'[p][n][Len(s) + 1].type # "request"
    BY <2>5, <2>7, <2>8
  <2>10. AnswerAir(n, p)'
    BY <2>9 DEF AnswerAir
  <2> QED
    BY <2>10 DEF Answering
<1> QED
  BY <1>1, <1>2 DEF Answering

\* It arrives.
LEMMA AnswerArrives ==
    ASSUME TypeInv, NEW m \in Node, NEW u \in Thread, NEW q \in Node, Ordinary(m, u, q),
           NEW n \in Node, NEW p \in Node, losses \in Nat, losses' = 0, AnswerAir(n, p)
    PROVE  Answering(n, p)'
<1> DEFINE s == chan[p][n]
<1>1. s \in Seq(Message) /\ DOMAIN s = 1..Len(s) /\ Len(s) \in Nat
  <2>1. chan \in [Node -> [Node -> Seq(Message)]]
    BY DEF TypeInv, TypeOK
  <2>2. s \in Seq(Message)
    BY <2>1
  <2> HIDE DEF s
  <2> QED
    BY <2>2
<1>2. PICK i \in DOMAIN s : s[i].type # "request"
  BY DEF AnswerAir
<1>3. CASE chan'[p][n] = s
  BY <1>3 DEF AnswerAir, Answering
<1>4. ASSUME NEW msg \in Message, chan'[p][n] = Append(s, msg) PROVE Answering(n, p)'
  <2> HIDE DEF s
  <2>1. i \in DOMAIN Append(s, msg) /\ Append(s, msg)[i] = s[i]
    BY <1>1, <1>2, ListAppended
  <2>2. i \in DOMAIN chan'[p][n] /\ chan'[p][n][i].type # "request"
    BY <1>2, <1>4, <2>1
  <2>3. AnswerAir(n, p)'
    BY <2>2 DEF AnswerAir
  <2> QED
    BY <2>3 DEF Answering
<1>5. CASE Work(m, u)
  <2>1. CASE request_remote_vap_setup(m, u) \/ sent_config_to_local_vap(m, u)
    <3>1. PICK msg \in Message : sendToNeighbor(m, u, job[m][u].with, msg)
      <4>1. [type |-> "request", id |-> job[m][u].id] \in Message
        BY JobFields DEF Message
      <4>2. [type |-> "completed", id |-> job[m][u].id] \in Message
        BY JobFields DEF Message
      <4> QED
        BY <2>1, <4>1, <4>2 DEF request_remote_vap_setup, sent_config_to_local_vap
    <3>2. chan'[p][n] = s \/ chan'[p][n] = Append(s, msg)
      BY <3>1, SendStep, JobFields
    <3> QED
      BY <1>3, <1>4, <3>2
  <2>2. CASE \/ CheckLocal(m, u) \/ EnterLocal(m, u) \/ CheckRemote(m, u) \/ EnterRemote(m, u)
             \/ ConnectRemote(m, u) \/ complete_local_vap(m, u) \/ ConnectLocal(m, u)
    <3>1. chan' = chan
      BY <2>2 DEF CheckLocal, EnterLocal, CheckRemote, EnterRemote, ConnectRemote,
         complete_local_vap, ConnectLocal
    <3> QED
      BY <1>3, <3>1
  <2> QED
    BY <1>5, <2>1, <2>2 DEF Work
<1>6. CASE Run(m) \/ SuspendGenerate(m, u) \/ linkFailure_cb(m, q) \/ RxQueue(m)
  <2>1. chan' = chan
    BY <1>6 DEF Run, RunNeighbors, RunStarted, RunDrain, RunDrained, RunInitialize,
       SuspendGenerate, linkFailure_cb, RxQueue
  <2> QED
    BY <1>3, <2>1
<1>7. CASE Lose(m, q)
  BY <1>7 DEF Lose
<1>8. ASSUME NEW o \in Node, RxDrop(m, o) PROVE FALSE
  BY <1>8 DEF RxDrop
<1>9. ASSUME NEW o \in Node, rx_cb(m, o) PROVE Answering(n, p)'
  <2>1. chan[o][m] # <<>> /\ chan' = [chan EXCEPT ![o][m] = Tail(@)]
    BY <1>9 DEF rx_cb
  <2>2. chan'[p][n] = IF p = o /\ n = m THEN Tail(chan[p][n]) ELSE chan[p][n]
    <3>1. chan \in [Node -> [Node -> Seq(Message)]]
      BY DEF TypeInv, TypeOK
    <3> QED
      BY <2>1, <3>1
  <2>3. CASE ~(p = o /\ n = m)
    BY <1>3, <2>2, <2>3
  <2>4. CASE p = o /\ n = m /\ i # 1
    <3>1. chan'[p][n] = Tail(s) /\ s # <<>>
      BY <2>1, <2>2, <2>4
    <3> HIDE DEF s
    <3>2. i - 1 \in DOMAIN Tail(s) /\ Tail(s)[i - 1] = s[i]
      BY <1>1, <2>4, <3>1
    <3>3. i - 1 \in DOMAIN chan'[p][n] /\ chan'[p][n][i - 1].type # "request"
      BY <1>2, <3>1, <3>2
    <3>4. AnswerAir(n, p)'
      BY <3>3 DEF AnswerAir
    <3> QED
      BY <3>4 DEF Answering
  <2>5. CASE p = o /\ n = m /\ i = 1
    <3>1. PICK msg \in Message :
               /\ msg = Head(chan[o][m])
               /\ \E pc \in Place("rx") :
                     /\ msg.type # "request" => pc \in {"complete", "queueCompleted"}
                     /\ Become(m, "rx", pc, o, msg.id)
      BY <1>9, RxStep
    <3>2. msg.type # "request"
      BY <1>1, <1>2, <2>1, <2>5, <3>1
    <3>3. PICK pc \in Place("rx") :
             pc \in {"complete", "queueCompleted"} /\ Become(m, "rx", pc, o, msg.id)
      BY <3>1, <3>2
    <3>4. msg.id \in Nat /\ "rx" \in Thread
      BY DEF Message, Thread
    <3>5. job'[n]["rx"] = Job(pc, p, msg.id)
      BY <2>5, <3>3, <3>4, BecomeJob
    <3>6. job'[n]["rx"].pc = pc /\ job'[n]["rx"].with = p
      BY <3>5 DEF Job
    <3>7. AnswerTaken(n, p)'
      BY <3>3, <3>4, <3>6 DEF AnswerTaken
    <3> QED
      BY <3>7 DEF Answering
  <2> QED
    BY <2>3, <2>4, <2>5
<1> QED
  BY <1>5, <1>6, <1>7, <1>8, <1>9 DEF Ordinary, Receive

\* It is processed at once or queued.
LEMMA AnswerProcessed ==
    ASSUME TypeInv, NEW m \in Node, NEW u \in Thread, NEW q \in Node, Ordinary(m, u, q),
           NEW n \in Node, NEW p \in Node, drained[n] <= Len(msgQueue[n]),
           NEW t \in Thread, job[n][t].pc \in {"queueCompleted", "complete"}, job[n][t].with = p
    PROVE  Answering(n, p)' \/ (complete_local_vap(m, u) /\ m = n /\ job[m][u].with = p)
<1>1. \/ job'[n][t].pc = job[n][t].pc /\ job'[n][t].with = job[n][t].with
      \/ m = n /\ u = t /\ Work(m, u)
      \/ m = n /\ t = "rx" /\ Receive(m) /\ job[n][t].pc = "queueCompleted"
  BY JobStays
<1>2. CASE job'[n][t].pc = job[n][t].pc /\ job'[n][t].with = job[n][t].with
  BY <1>2 DEF AnswerTaken, Answering
<1>3. CASE m = n /\ u = t /\ Work(m, u)
  BY <1>3 DEF Work, CheckLocal, EnterLocal, request_remote_vap_setup, CheckRemote,
     EnterRemote, sent_config_to_local_vap, ConnectRemote, ConnectLocal, Doing
<1>4. CASE m = n /\ t = "rx" /\ Receive(m) /\ job[n][t].pc = "queueCompleted"
  <2>1. RxQueue(n)
    BY <1>4 DEF Receive, rx_cb, RxDrop, Doing
  <2>2. PICK e \in Queued :
                 /\ e.from = job[n]["rx"].with
                 /\ e.msg.type = "request" <=> job[n]["rx"].pc = "queueRequest"
                 /\ msgQueue'[n] = Append(msgQueue[n], e)
    BY <2>1, QueueStep
  <2>3. e.from = p /\ e.msg.type # "request"
    BY <1>4, <2>2
  <2> DEFINE s == msgQueue[n]
  <2>4. s \in Seq(Queued) /\ Len(s) \in Nat /\ drained[n] \in Nat
    <3>1. s \in Seq(Queued) /\ drained[n] \in Nat
      BY DEF TypeInv, TypeOK, Queued
    <3> HIDE DEF s
    <3> QED
      BY <3>1
  <2>5. /\ DOMAIN Append(s, e) = 1..(Len(s) + 1)
        /\ Append(s, e)[Len(s) + 1] = e
    BY <2>4, ListAppended
  <2>6. drained' = drained
    BY <2>1 DEF RxQueue
  <2>7. /\ Len(s) + 1 \in DOMAIN msgQueue'[n] /\ msgQueue'[n][Len(s) + 1] = e
        /\ Len(s) + 1 > drained'[n]
    BY <2>2, <2>4, <2>5, <2>6
  <2>8. AnswerWaits(n, p)'
    BY <2>3, <2>7 DEF AnswerWaits
  <2> QED
    BY <2>8 DEF Answering
<1> QED
  BY <1>1, <1>2, <1>3, <1>4

\* The queue is processed in the end.
LEMMA AnswerWaited ==
    ASSUME TypeInv, NEW m \in Node, NEW u \in Thread, NEW q \in Node, Ordinary(m, u, q),
           NEW n \in Node, NEW p \in Node, AnswerWaits(n, p)
    PROVE  Answering(n, p)'
<1> DEFINE s == msgQueue[n]
<1>1. s \in Seq(Queued) /\ DOMAIN s = 1..Len(s) /\ Len(s) \in Nat /\ drained[n] \in Nat
  <2>1. s \in Seq(Queued) /\ drained[n] \in Nat
    BY DEF TypeInv, TypeOK, Queued
  <2> HIDE DEF s
  <2> QED
    BY <2>1
<1>2. PICK i \in DOMAIN s : /\ i > drained[n] /\ s[i].from = p /\ s[i].msg.type # "request"
  BY DEF AnswerWaits
<1>3. CASE msgQueue'[n] = s /\ drained'[n] = drained[n]
  BY <1>2, <1>3 DEF AnswerWaits, Answering
<1>4. CASE RunDrain(m)
  <2>1. /\ drained' = [drained EXCEPT ![m] = @ + 1] /\ msgQueue' = msgQueue
        /\ process_msg(m, "run", msgQueue[m][drained[m] + 1].from, msgQueue[m][drained[m] + 1].msg)
    BY <1>4 DEF RunDrain
  <2>2. drained'[n] = IF m = n THEN drained[n] + 1 ELSE drained[n]
    BY <2>1 DEF TypeInv, TypeOK
  <2>3. CASE m # n
    BY <1>3, <2>1, <2>2, <2>3
  <2>4. CASE m = n /\ i # drained[n] + 1
    <3>1. i > drained'[n]
      BY <1>1, <1>2, <2>2, <2>4
    <3>2. AnswerWaits(n, p)'
      BY <1>2, <2>1, <3>1 DEF AnswerWaits
    <3> QED
      BY <3>2 DEF Answering
  <2>5. CASE m = n /\ i = drained[n] + 1
    <3> DEFINE msg == s[i].msg
    <3>1. s[i] \in Queued
      BY <1>1, <1>2
    <3>2. msg \in Message /\ msg.id \in Nat
      BY <3>1 DEF Queued, Message
    <3>3. process_msg(n, "run", p, msg)
      BY <1>2, <2>1, <2>5
    <3>4. msg.type # "request"
      BY <1>2
    <3> HIDE DEF msg
    <3>5. Become(n, "run", "complete", p, msg.id)
      BY <3>3, <3>4 DEF process_msg
    <3>6. "run" \in Thread /\ "complete" \in Place("run")
      BY Places3 DEF Thread
    <3>7. job'[n]["run"] = Job("complete", p, msg.id)
      BY <3>2, <3>5, <3>6, BecomeJob
    <3>8. job'[n]["run"].pc = "complete" /\ job'[n]["run"].with = p
      BY <3>7 DEF Job
    <3>9. AnswerTaken(n, p)'
      BY <3>6, <3>8 DEF AnswerTaken
    <3> QED
      BY <3>9 DEF Answering
  <2> QED
    BY <2>3, <2>4, <2>5
<1>5. CASE RxQueue(m)
  <2>1. drained' = drained
    BY <1>5 DEF RxQueue
  <2>2. PICK e \in Queued :
           msgQueue'[n] = s \/ msgQueue'[n] = Append(s, e)
    BY <1>5, QueueStep
  <2>3. CASE msgQueue'[n] = Append(s, e)
    <3> HIDE DEF s
    <3>1. i \in DOMAIN Append(s, e) /\ Append(s, e)[i] = s[i]
      BY <1>1, <1>2, ListAppended
    <3>2. i \in DOMAIN msgQueue'[n] /\ msgQueue'[n][i] = s[i]
      BY <2>3, <3>1
    <3>3. AnswerWaits(n, p)'
      BY <1>2, <2>1, <3>2 DEF AnswerWaits
    <3> QED
      BY <3>3 DEF Answering
  <2> QED
    BY <1>3, <2>1, <2>2, <2>3
<1>6. CASE ~RunDrain(m) /\ ~RxQueue(m)
  <2>1. msgQueue' = msgQueue /\ drained' = drained
    BY <1>6 DEF Ordinary, Work, CheckLocal, EnterLocal, request_remote_vap_setup, CheckRemote,
     EnterRemote, sent_config_to_local_vap, ConnectRemote, complete_local_vap,
     ConnectLocal, SuspendGenerate, Run, RunNeighbors, RunStarted, RunDrained, RunInitialize,
     Receive, rx_cb, RxDrop, linkFailure_cb, Lose, runVars
  <2> QED
    BY <1>3, <2>1
<1> QED
  BY <1>4, <1>5, <1>6

\* An answer is under way until the local VAP is completed.
LEMMA AnsweringStep ==
    ASSUME TypeInv, NEW m \in Node, NEW u \in Thread, NEW q \in Node, Ordinary(m, u, q),
           NEW n \in Node, NEW p \in Node, losses \in Nat, losses' = 0,
           drained[n] <= Len(msgQueue[n]), Mutual(p, n), KeyAt(p, n), Answering(n, p)
    PROVE  Answering(n, p)' \/ (complete_local_vap(m, u) /\ m = n /\ job[m][u].with = p)
<1>1. ASSUME NEW t \in Thread, job[p][t].pc = "answer", job[p][t].with = n
      PROVE  Answering(n, p)'
  BY <1>1, AnswerSent
<1>2. CASE AnswerAir(n, p)
  BY <1>2, AnswerArrives
<1>3. CASE AnswerTaken(n, p)
  BY <1>3, AnswerProcessed DEF AnswerTaken
<1>4. CASE AnswerWaits(n, p)
  BY <1>4, AnswerWaited
<1> QED
  BY <1>1, <1>2, <1>3, <1>4 DEF Answering

\* Before run() has entered the VAP no request is on its way, and none has been served.
LEMMA UntouchedNowhere ==
    ASSUME TypeInv, NEW n \in Node, NEW p \in Node, Untouched(n, p)
    PROVE  ~Somewhere(n, p)
<1>1. /\ JobTokens(n, p, {}, Nat) /\ ChanTokens(n, p, {}, Nat) /\ QueueTokens(n, p, {}, Nat)
      /\ VapTokens(n, p, {}, Nat)
  BY DEF Untouched, Tokens
<1>2. Calling(n, p) = {}
  BY <1>1 DEF JobTokens, CallerJob, Calling
<1>3. Serving(n, p) = {}
  BY <1>1 DEF JobTokens, ServerJob, Serving
<1>4. InAir(n, p) = {}
  <2>1. chan[n][p] \in Seq(RequestMsg({}))
    BY <1>1 DEF ChanTokens
  <2>2. ASSUME NEW i \in DOMAIN chan[n][p] PROVE chan[n][p][i].type # "request"
    <3>1. chan[n][p][i] \in RequestMsg({})
      BY <2>1, <2>2
    <3> QED
      BY <3>1 DEF RequestMsg
  <2> QED
    BY <2>2 DEF InAir
<1>5. Waiting(n, p) = {}
  <2>1. msgQueue[p] \in Seq(RequestQueue(n, {}))
    BY <1>1 DEF QueueTokens
  <2>2. ASSUME NEW i \in DOMAIN msgQueue[p]
        PROVE  ~(msgQueue[p][i].from = n /\ msgQueue[p][i].msg.type = "request")
    <3>1. msgQueue[p][i] \in RequestQueue(n, {})
      BY <2>1, <2>2
    <3> QED
      BY <3>1 DEF RequestQueue, RequestMsg
  <2> QED
    BY <2>2 DEF Waiting, Late
<1>6. Granted(n, p) = {}
  <2>1. remote_vaps[p] \in Seq(RequestVap(n, {}))
    BY <1>1 DEF VapTokens
  <2>2. ASSUME NEW i \in DOMAIN remote_vaps[p] PROVE remote_vaps[p][i].neighbor # n
    <3>1. remote_vaps[p][i] \in RequestVap(n, {})
      BY <2>1, <2>2
    <3> QED
      BY <3>1 DEF RequestVap
  <2> QED
    BY <2>2 DEF Granted, Places
<1> QED
  BY <1>2, <1>3, <1>4, <1>5, <1>6 DEF Somewhere

\* How far the setup of the VAP of n at p has got: the VAP has been entered once run()
\* is through with p; the request is in one place, from the entry of the local VAP to
\* that of the remote one; from then on the answer is on its way or has been filled in.
EnteredAt(n, p) == Mutual(n, p) /\ ~Fresh(n, p) => Places(local_vaps[n], p) # {}
RequestedAt(n, p) == Mutual(n, p) /\ losses = 0 => Fresh(n, p) \/ Somewhere(n, p)
AnsweredAt(n, p) ==
    Mutual(n, p) /\ losses = 0 /\ Granted(n, p) # {} => Answering(n, p) \/ Filled(n, p)

SetupAt(n, p) ==
    /\ Once(n, p) /\ AtMostOne(Places(local_vaps[n], p)) /\ KeyAt(n, p)
    /\ LocalPorts(n, p) /\ RemotePorts(n, p)
    /\ EnteredAt(n, p) /\ RequestedAt(n, p) /\ AnsweredAt(n, p)

\* The inductive invariant of the setup.
SetupInv == boots = 0 /\ links = 0 => \A n, p \in Node : SetupAt(n, p)

\* What fills in an answer has the number of a remote VAP, which is one.
LEMMA AnswerNumber ==
    ASSUME TypeInv, NEW n \in Node, NEW p \in Node, EndsAt(n, p), Numbers(p),
           NEW u \in Thread, complete_local_vap(n, u), job[n][u].with = p
    PROVE  job[n][u].id # None
<1>1. job[n][u].pc = "complete"
  BY DEF complete_local_vap, Doing
<1>2. CallerJob(job[n][u], p, Nat, RemoteIds(p, n))
  BY DEF EndsAt, Tokens, JobTokens
<1>3. job[n][u].id \in RemoteIds(p, n)
  BY <1>1, <1>2 DEF CallerJob
<1> QED
  BY <1>3 DEF RemoteIds, Places, Numbers

\* The request that goes out with a new VAP.
LEMMA EnterCalls ==
    ASSUME TypeInv, NEW n \in Node, NEW p \in Node, NEW u \in Thread,
           EnterLocal(n, u), job[n][u].with = p
    PROVE  Calling(n, p)' # {}
<1>1. PICK id : id = Generated(n, u, generator)
  OBVIOUS
<1>2. id \in Nat /\ "request" \in Place(u)
  BY <1>1, GenerateType, SharedPlaces
<1>3. Become(n, u, "request", p, id)
  BY <1>1 DEF EnterLocal
<1>4. job'[n][u] = Job("request", p, id)
  BY <1>2, <1>3, BecomeJob
<1> QED
  BY <1>4 DEF Calling, Job

\* The answer that goes out with a new remote VAP.
LEMMA GrantAnswers ==
    ASSUME TypeInv, NEW m \in Node, NEW u \in Thread, NEW q \in Node, Ordinary(m, u, q),
           NEW n \in Node, NEW p \in Node, Granted(n, p) = {}, Granted(n, p)' # {}
    PROVE  Answering(n, p)'
<1> DEFINE s == remote_vaps[p]
           r == remote_vaps'[p]
<1>1. remote_vaps \in [Node -> Seq(Vap)]
  BY DEF TypeInv, TypeOK
<1>2. s \in Seq(Vap)
  BY <1>1
<1>3. RemoteChange(m, u, p, s, r)
  BY RemoteStep
<1>4. Places(s, n) = {} /\ Places(r, n) # {}
  BY DEF Granted, Places
<1> HIDE DEF s, r
<1>5. r # s
  BY <1>4
<1>6. r # WithPort(m, u, s)
  <2>1. ASSUME r = WithPort(m, u, s) PROVE FALSE
    <3>1. DOMAIN r = DOMAIN s /\ \A i \in DOMAIN s : r[i].neighbor = s[i].neighbor
      BY <1>2, <2>1, WithPortType
    <3> QED
      BY <1>4, <3>1 DEF Places
  <2> QED
    BY <2>1
<1>7. /\ m = p /\ EnterRemote(m, u)
      /\ \E v \in Vap : /\ v.neighbor = job[m][u].with /\ r = Append(s, v)
                        /\ Become(m, u, "answer", job[m][u].with, v.id)
  BY <1>3, <1>5, <1>6 DEF RemoteChange
<1>8. PICK v \in Vap : /\ v.neighbor = job[m][u].with /\ r = Append(s, v)
                       /\ Become(m, u, "answer", job[m][u].with, v.id)
  BY <1>7
<1>9. v.neighbor = n
  BY <1>2, <1>4, <1>8, GrantAppend DEF Like
<1>10. v.id \in Nat /\ "answer" \in Place(u)
  BY SharedPlaces DEF Vap
<1>11. job'[p][u] = Job("answer", n, v.id)
  BY <1>7, <1>8, <1>9, <1>10, BecomeJob
<1> QED
  BY <1>11 DEF Answering, Job

\* An ordinary step takes the setup of the VAP of n at p forward, if it changes it.
LEMMA SetupStep ==
    ASSUME TypeInv, NEW m \in Node, NEW u \in Thread, NEW q \in Node, Ordinary(m, u, q),
           NEW n \in Node, NEW p \in Node, links = 0, losses \in Nat, losses' = 0 => losses = 0,
           Phases(n), Phases(p), Numbers(n), Numbers(p), EndsAt(n, p), SetupAt(n, p),
           KeyAt(p, n)
    PROVE  SetupAt(n, p)'
<1> DEFINE enter == EnterLocal(m, u) /\ m = n /\ job[m][u].with = p
           fill == complete_local_vap(m, u) /\ m = n /\ job[m][u].with = p
           leave == linkFailure_cb(m, q) /\ m = n /\ q = p
<1>1. /\ Once(n, p) /\ AtMostOne(Places(local_vaps[n], p)) /\ KeyAt(n, p)
      /\ LocalPorts(n, p) /\ RemotePorts(n, p)
      /\ EnteredAt(n, p) /\ RequestedAt(n, p) /\ AnsweredAt(n, p)
  BY DEF SetupAt
<1>2. (Fresh(n, p) => Untouched(n, p)) /\ Single(n)
  BY DEF EndsAt
<1>3. Fresh(n, p) => ~Somewhere(n, p) /\ Places(local_vaps[n], p) = {}
  BY <1>2, UntouchedNowhere DEF Untouched
<1>4. /\ drained[p] <= Len(msgQueue[p]) /\ drained[n] <= Len(msgQueue[n])
  BY DEF Phases
<1>5. /\ Once(n, p)'
      /\ Somewhere(n, p) => \/ Somewhere(n, p)' \/ losses' # 0
                            \/ p \notin neighbors[n] \/ <<n, p>> \notin session
  <2>1. RequestMoves(n, p)
    BY <1>2, <1>4, OrdinaryRequest
  <2> QED
    BY <1>1, <1>3, <2>1, RequestOnce
<1>6. KeyAt(n, p)' /\ (Mutual(n, p)' => Mutual(n, p)) /\ (leave => ~Mutual(n, p)')
  BY <1>1, KeysStep
<1>7. enter => Fresh(n, p)
  BY <1>2, EnterFresh
<1>8. fill => job[m][u].id # None
  BY AnswerNumber
<1>9. /\ AtMostOne(Places(local_vaps'[n], p))
      /\ ~leave => /\ Places(local_vaps[n], p) # {} => Places(local_vaps'[n], p) # {}
                   /\ Filled(n, p) => Filled(n, p)'
      /\ enter => Places(local_vaps'[n], p) # {}
      /\ fill /\ Places(local_vaps[n], p) # {} => Filled(n, p)'
  BY <1>1, <1>3, <1>7, <1>8, LocalKept
<1>10. LocalPorts(n, p)'
  BY <1>1, LocalPortsKept
<1>11. RemotePorts(n, p)'
  <2>1. AtMostOne(Granted(n, p))
    BY <1>1 DEF Once, OneOf
  <2> QED
    BY <1>1, <2>1, RemotePortsKept
<1>12. Mutual(n, p) => p \in neighbors[n] /\ Mutual(p, n) /\ <<n, p>> \in session
  BY <1>1 DEF Mutual, KeyAt
<1>13. Fresh(n, p) /\ ~Fresh(n, p)' /\ Mutual(n, p) => enter
  BY <1>3, <1>12, FreshEnds
<1>14. enter => Somewhere(n, p)'
  <2>1. enter => Calling(n, p)' # {}
    BY EnterCalls
  <2> QED
    BY <2>1 DEF Somewhere
<1>15. Granted(n, p) = {} /\ Granted(n, p)' # {} => Answering(n, p)'
  BY GrantAnswers
<1>16. Mutual(n, p) /\ losses' = 0 /\ Answering(n, p) => Answering(n, p)' \/ fill
  BY <1>4, <1>12, AnsweringStep
<1>17. Granted(n, p) # {} => Somewhere(n, p)
  BY DEF Somewhere
<1> HIDE DEF enter, fill, leave
<1>18. EnteredAt(n, p)'
  <2>1. ASSUME Mutual(n, p)', ~Fresh(n, p)' PROVE Places(local_vaps'[n], p) # {}
    BY <1>1, <1>6, <1>9, <1>13, <2>1 DEF EnteredAt
  <2> QED
    BY <2>1 DEF EnteredAt, Places
<1>19. RequestedAt(n, p)'
  <2>1. ASSUME Mutual(n, p)', losses' = 0 PROVE Fresh(n, p)' \/ Somewhere(n, p)'
    BY <1>1, <1>5, <1>6, <1>12, <1>13, <1>14, <2>1 DEF RequestedAt
  <2> QED
    BY <2>1 DEF RequestedAt
<1>20. AnsweredAt(n, p)'
  <2>1. ASSUME Mutual(n, p)', losses' = 0, Granted(n, p)' # {}
        PROVE  Answering(n, p)' \/ Filled(n, p)'
    <3>1. ASSUME Granted(n, p) # {} PROVE Answering(n, p)' \/ Filled(n, p)'
      <4>1. ~Fresh(n, p)
        BY <1>3, <1>17, <3>1
      <4>2. Mutual(n, p) /\ ~leave
        BY <1>6, <2>1
      <4>3. Places(local_vaps[n], p) # {}
        BY <1>1, <4>1, <4>2 DEF EnteredAt
      <4> QED
        BY <1>1, <1>9, <1>16, <2>1, <3>1, <4>2, <4>3 DEF AnsweredAt
    <3> QED
      BY <1>15, <2>1, <3>1
  <2> QED
    BY <2>1 DEF AnsweredAt
<1>21. AtMostOne(Places(local_vaps[n], p))'
  BY <1>9 DEF AtMostOne, Places
<1> QED
  BY <1>5, <1>6, <1>10, <1>11, <1>18, <1>19, <1>20, <1>21 DEF SetupAt

\* At the start nothing has been entered, and the keys are there.
LEMMA SetupInit ==
    ASSUME Keyed = {l \in Linked : <<l[2], l[1]>> \in Linked}
    PROVE  Init => SetupInv
<1> SUFFICES ASSUME Init, NEW n \in Node, NEW p \in Node PROVE SetupAt(n, p)
  BY DEF SetupInv
<1>1. /\ job[n] = Boot(n) /\ job[p] = Boot(p) /\ chan[n][p] = <<>> /\ msgQueue[p] = <<>>
      /\ remote_vaps[p] = <<>> /\ local_vaps[n] = <<>>
      /\ session = Keyed /\ accepted = Keyed
      /\ neighbors[n] = {o \in Node : <<n, o>> \in Linked}
      /\ neighbors[p] = {o \in Node : <<p, o>> \in Linked}
  BY DEF Init
<1>2. \A t \in Thread : job[n][t].pc \in {"sleep", "idle"} /\ job[p][t].pc \in {"sleep", "idle"}
  BY <1>1, BootJob
<1>3. Calling(n, p) = {} /\ Serving(n, p) = {}
  BY <1>2 DEF Calling, Serving
<1>4. InAir(n, p) = {} /\ Waiting(n, p) = {}
  BY <1>1 DEF InAir, Waiting, Late
<1>5. Granted(n, p) = {} /\ Places(local_vaps[n], p) = {}
  BY <1>1 DEF Granted, Places
<1>6. Once(n, p)
  BY <1>3, <1>4, <1>5 DEF Once, OneOf, AtMostOne
<1>7. KeyAt(n, p)
  BY <1>1 DEF KeyAt, Mutual
<1>8. job[n]["run"].pc = "sleep"
  BY <1>1, BootJob DEF Thread
<1>9. Fresh(n, p)
  BY <1>8 DEF Fresh
<1> QED
  BY <1>5, <1>6, <1>7, <1>9 DEF SetupAt, AtMostOne, LocalPorts, RemotePorts, EnteredAt,
     RequestedAt, AnsweredAt

\* A step that changes nothing.
LEMMA SetupSame ==
    ASSUME UNCHANGED vars, NEW n \in Node, NEW p \in Node, SetupAt(n, p)
    PROVE  SetupAt(n, p)'
<1>1. UNCHANGED <<neighbors, session, accepted, job, chan, msgQueue, drained, local_vaps,
                  remote_vaps, todo, losses>>
  BY DEF vars, keys, vapVars, runVars, bounds
<1>2. /\ (Calling(n, p) = {})' <=> Calling(n, p) = {}
      /\ (InAir(n, p) = {})' <=> InAir(n, p) = {}
      /\ (Serving(n, p) = {})' <=> Serving(n, p) = {}
      /\ (Waiting(n, p) = {})' <=> Waiting(n, p) = {}
      /\ (Granted(n, p) = {})' <=> Granted(n, p) = {}
  BY <1>1 DEF Calling, InAir, Serving, Waiting, Late, Granted, Places
<1>3. /\ AtMostOne(Calling(n, p)) => AtMostOne(Calling(n, p))'
      /\ AtMostOne(InAir(n, p)) => AtMostOne(InAir(n, p))'
      /\ AtMostOne(Serving(n, p)) => AtMostOne(Serving(n, p))'
      /\ AtMostOne(Waiting(n, p)) => AtMostOne(Waiting(n, p))'
      /\ AtMostOne(Granted(n, p)) => AtMostOne(Granted(n, p))'
  BY <1>1 DEF AtMostOne, Calling, InAir, Serving, Waiting, Late, Granted, Places
<1>4. Once(n, p) => Once(n, p)'
  BY <1>2, <1>3 DEF Once, OneOf
<1>5. AtMostOne(Places(local_vaps[n], p)) => AtMostOne(Places(local_vaps[n], p))'
  BY <1>1 DEF AtMostOne, Places
<1>6. KeyAt(n, p) => KeyAt(n, p)'
  BY <1>1 DEF KeyAt, Mutual
<1>7. LocalPorts(n, p) => LocalPorts(n, p)'
  BY <1>1 DEF LocalPorts, Places, Connecting
<1>8. RemotePorts(n, p) => RemotePorts(n, p)'
  BY <1>1 DEF RemotePorts, Granted, Places, Terminating
<1>9. EnteredAt(n, p) => EnteredAt(n, p)'
  BY <1>1 DEF EnteredAt, Mutual, Fresh, Places
<1>10. (Mutual(n, p)' <=> Mutual(n, p)) /\ (Fresh(n, p)' <=> Fresh(n, p))
  BY <1>1 DEF Mutual, Fresh
<1>11. RequestedAt(n, p) => RequestedAt(n, p)'
  BY <1>1, <1>2, <1>10 DEF RequestedAt, Somewhere
<1>12. Answering(n, p) => Answering(n, p)'
  BY <1>1 DEF Answering, AnswerAir, AnswerTaken, AnswerWaits
<1>13. Filled(n, p) => Filled(n, p)'
  BY <1>1 DEF Filled, Full, Places
<1>14. AnsweredAt(n, p) => AnsweredAt(n, p)'
  BY <1>1, <1>2, <1>10, <1>12, <1>13 DEF AnsweredAt
<1> QED
  BY <1>4, <1>5, <1>6, <1>7, <1>8, <1>9, <1>11, <1>14 DEF SetupAt

\* The setups are kept by every step.
LEMMA SetupNext == TypeInv /\ BaseInv /\ EndsInv /\ SetupInv /\ [Next]_vars => SetupInv'
<1> SUFFICES ASSUME TypeInv, BaseInv, EndsInv, SetupInv, [Next]_vars PROVE SetupInv'
  OBVIOUS
<1>1. losses \in Nat /\ (losses' = 0 => losses = 0)
  BY LossesNext DEF BaseInv
<1>2. ASSUME NEW m \in Node, NEW u \in Thread, NEW q \in Node, Ordinary(m, u, q)
      PROVE  SetupInv'
  <2>1. links' = links /\ boots' = boots
    BY <1>2, OrdinaryBounds
  <2>2. ASSUME boots = 0, links = 0, NEW n \in Node, NEW p \in Node PROVE SetupAt(n, p)'
    <3>1. EndsAt(n, p)
      BY <2>2 DEF EndsInv
    <3>2. SetupAt(n, p) /\ SetupAt(p, n)
      BY <2>2 DEF SetupInv
    <3>3. KeyAt(p, n)
      BY <3>2 DEF SetupAt
    <3>4. Phases(n) /\ Phases(p) /\ Numbers(n) /\ Numbers(p)
      BY DEF BaseInv
    <3> QED
      BY <1>1, <1>2, <2>2, <3>1, <3>2, <3>3, <3>4, SetupStep
  <2> QED
    BY <2>1, <2>2 DEF SetupInv
<1>3. ASSUME NEW m \in Node, NEW q \in Node, newLink_cb(m, q) PROVE SetupInv'
  <2>1. links' # 0
    BY <1>3 DEF newLink_cb, EndsInv
  <2> QED
    BY <2>1 DEF SetupInv
<1>4. ASSUME NEW m \in Node, Restart(m) PROVE SetupInv'
  <2>1. boots' # 0
    BY <1>4 DEF Restart, EndsInv
  <2> QED
    BY <2>1 DEF SetupInv
<1>5. CASE UNCHANGED vars
  <2>1. links' = links /\ boots' = boots
    BY <1>5 DEF vars, bounds
  <2>2. ASSUME boots = 0, links = 0, NEW n \in Node, NEW p \in Node PROVE SetupAt(n, p)'
    BY <1>5, <2>2, SetupSame DEF SetupInv
  <2> QED
    BY <2>1, <2>2 DEF SetupInv
<1>6. "rx" \in Thread
  BY DEF Thread
<1>7. CASE Next
  <2>1. PICK m \in Node :
           \/ \E t \in Thread : Work(m, t) \/ SuspendGenerate(m, t)
           \/ Run(m)
           \/ Receive(m)
           \/ \E p \in Node : newLink_cb(m, p) \/ linkFailure_cb(m, p) \/ Lose(m, p)
           \/ Restart(m)
    BY <1>7 DEF Next
  <2>2. \/ \E u \in Thread, q \in Node : Ordinary(m, u, q)
        \/ \E q \in Node : newLink_cb(m, q)
        \/ Restart(m)
    BY <1>6, <2>1 DEF Ordinary
  <2> QED
    BY <1>2, <1>3, <1>4, <2>2
<1> QED
  BY <1>5, <1>7

\* When everything is at rest, the setup of n and p has come to its end.
LEMMA SetupOver ==
    ASSUME TypeInv, BaseInv, EndsInv, SetupInv, EndsMatch, Quiet,
           losses = 0, boots = 0, links = 0,
           NEW n \in Node, NEW p \in Node, Mutual(n, p)
    PROVE  \E i \in Places(local_vaps[n], p), j \in Places(remote_vaps[p], n) :
              /\ local_vaps[n][i].peer = remote_vaps[p][j].id
              /\ remote_vaps[p][j].peer = local_vaps[n][i].id
              /\ local_vaps[n][i].port # None /\ remote_vaps[p][j].port # None
<1>1. SetupAt(n, p) /\ EndsAt(n, p) /\ Phases(n)
  BY DEF SetupInv, EndsInv, BaseInv
<1>2. \A o \in Node, t \in Thread : job[o][t].pc \in {"control", "idle"}
  BY DEF Quiet, Doing, Thread
<1>3. chan[n][p] = <<>> /\ chan[p][n] = <<>>
  BY DEF Quiet
<1>4. /\ drained[p] = Len(msgQueue[p]) /\ drained[n] = Len(msgQueue[n])
      /\ job[n]["run"].pc = "control"
  BY DEF Quiet, Doing
<1>5. /\ DOMAIN msgQueue[p] = 1..Len(msgQueue[p]) /\ DOMAIN msgQueue[n] = 1..Len(msgQueue[n])
      /\ Len(msgQueue[p]) \in Nat /\ Len(msgQueue[n]) \in Nat
  <2>1. msgQueue \in [Node -> Seq([from : Node, msg : Message])]
    BY DEF TypeInv, TypeOK
  <2>2. msgQueue[p] \in Seq([from : Node, msg : Message])
        /\ msgQueue[n] \in Seq([from : Node, msg : Message])
    BY <2>1
  <2> QED
    BY <2>2
<1>6. ~Fresh(n, p)
  BY <1>1, <1>4 DEF Fresh, Phases
<1>7. Calling(n, p) = {} /\ Serving(n, p) = {}
  BY <1>2 DEF Calling, Serving
<1>8. InAir(n, p) = {}
  BY <1>3 DEF InAir
<1>9. Waiting(n, p) = {}
  BY <1>4, <1>5 DEF Waiting, Late
<1>10. Granted(n, p) # {}
  BY <1>1, <1>6, <1>7, <1>8, <1>9 DEF SetupAt, RequestedAt, Somewhere
<1>11. ~Answering(n, p)
  <2>1. ~AnswerAir(n, p)
    BY <1>3 DEF AnswerAir
  <2>2. ~AnswerTaken(n, p)
    BY <1>2 DEF AnswerTaken
  <2>3. ~AnswerWaits(n, p)
    BY <1>4, <1>5 DEF AnswerWaits
  <2> QED
    BY <1>2, <2>1, <2>2, <2>3 DEF Answering
<1>12. Filled(n, p)
  BY <1>1, <1>10, <1>11 DEF SetupAt, AnsweredAt
<1>13. PICK i \in Places(local_vaps[n], p) : local_vaps[n][i].peer # None
  BY <1>12 DEF Filled, Full
<1>14. i \in DOMAIN local_vaps[n] /\ local_vaps[n][i].neighbor = p
  BY DEF Places
<1>15. PICK j \in DOMAIN remote_vaps[p] :
          /\ remote_vaps[p][j].neighbor = n /\ remote_vaps[p][j].id = local_vaps[n][i].peer
          /\ remote_vaps[p][j].peer = local_vaps[n][i].id
  BY <1>13, <1>14 DEF EndsMatch
<1>16. j \in Places(remote_vaps[p], n)
  BY <1>15 DEF Places
<1>17. local_vaps[n][i].port # None
  <2>1. ~Connecting(n, p, local_vaps[n][i].id)
    BY <1>2 DEF Connecting
  <2> QED
    BY <1>1, <1>13, <2>1 DEF SetupAt, LocalPorts
<1>18. remote_vaps[p][j].port # None
  <2>1. ~Terminating(n, p, remote_vaps[p][j].id)
    BY <1>2 DEF Terminating
  <2> QED
    BY <1>1, <1>16, <2>1 DEF SetupAt, RemotePorts, Granted
<1> QED
  BY <1>13, <1>15, <1>16, <1>17, <1>18

\* Setups that come to rest are complete, for any number of access points, however
\* their threads and messages interleave and whichever neighbours leave: when nothing
\* is under way any more and nothing was lost, two agents that list each other have
\* each a local VAP whose tunnel is connected to a remote VAP of the other.  It takes
\* that the agents which know each other at the start have their session keys, because
\* the receive thread cannot obtain one, and holds until a neighbour is found late.
THEOREM VapVapsComplete ==
    ASSUME Keyed = {l \in Linked : <<l[2], l[1]>> \in Linked}
    PROVE  Spec => [](links = 0 => VapsComplete)
<1>1. Init => SetupInv
  BY SetupInit
<1>2. TypeInv /\ BaseInv /\ EndsInv /\ SetupInv /\ EndsMatch =>
         (links = 0 => VapsComplete)
  <2> SUFFICES ASSUME TypeInv, BaseInv, EndsInv, SetupInv, EndsMatch, links = 0,
                      Quiet, losses = 0, boots = 0,
                      NEW n \in Node, NEW p \in {q \in neighbors[n] : n \in neighbors[q]}
               PROVE  \E i \in Places(local_vaps[n], p), j \in Places(remote_vaps[p], n) :
                         /\ local_vaps[n][i].peer = remote_vaps[p][j].id
                         /\ remote_vaps[p][j].peer = local_vaps[n][i].id
                         /\ local_vaps[n][i].port # None /\ remote_vaps[p][j].port # None
    BY DEF VapsComplete
  <2>1. p \in Node /\ Mutual(n, p)
    <3>1. neighbors \in [Node -> SUBSET Node]
      BY DEF TypeInv, TypeOK
    <3> QED
      BY <3>1 DEF Mutual
  <2> QED
    BY <2>1, SetupOver
<1>3. Spec => []SetupInv
  BY <1>1, SetupNext, TypeKept, BaseKept, EndsKept, PTL DEF Spec
<1> QED
  BY <1>2, <1>3, TypeKept, BaseKept, EndsKept, VapEndsMatch, PTL
=============================================================================
