-------------------------- MODULE ProbeReplyProofs --------------------------
(***************************************************************************)
(* Proofs about the transmit power of probe responses, for any clients,    *)
(* neighbours, signal strengths and bit rates.                             *)
(***************************************************************************)
EXTENDS ProbeReply, FiniteSetTheorems, TLAPS

\* Something went wrong that the threads do not catch.
Fault == leaves > 0 \/ fails > 0

\* A client in the table is associated, unless it has left.
ListInv == DOMAIN tbl \subseteq associated \/ leaves > 0

\* A table that has not grown has the size its iteration began with, and a
\* rate of 0 is that of a client that has left or for which iw failed.
LoopInv ==
    /\ probe.pc = "clients" /\ ~grown => probe.size = Cardinality(DOMAIN tbl)
    /\ probe.pc = "neighbors" /\ ~grown => probe.size = Cardinality(infoAvBackhaulMap)
    /\ probe.zero => Fault

HomePowers == 2 .. MAX_TX_POWER
NeighborPowers == (2 .. MAX_TX_POWER) \cup {40}

\* What was worked out is in its range.
RangeInv ==
    /\ probe.pc = "neighbors" => probe.load > 0
    /\ probe.pc \in {"neighbors", "home"} => probe.home \in HomePowers
    /\ probe.pc \in {"home", "write"} => probe.neighbor \in NeighborPowers
    /\ per_flow_txpower[HOME] \in HomePowers \cup {NoEntry}
    /\ per_flow_txpower[NEIGHBOR] \in NeighborPowers \cup {NoEntry}

\* What is still to be written is what was last worked out.
LastInv ==
    /\ probe.pc = "home" => last.home = probe.home
    /\ probe.pc \in {"home", "write"} => last.neighbor = probe.neighbor

\* What is not to be written any more is in the driver's list, or was removed.
EntryInv ==
    /\ probe.pc # "home" =>
          \/ per_flow_txpower[HOME] = last.home
          \/ resets > 0 /\ per_flow_txpower[HOME] = NoEntry
    /\ probe.pc \notin {"home", "write"} =>
          \/ per_flow_txpower[NEIGHBOR] = last.neighbor
          \/ resets > 0 /\ per_flow_txpower[NEIGHBOR] = NoEntry

\* The inductive invariant.
PowerInv ==
    /\ TypeOK /\ ListInv /\ LoopInv /\ RangeInv /\ LastInv /\ EntryInv
    /\ DeathsExplained

ProbeState == [pc : {"recv", "clients", "neighbors", "home", "write", "dead"},
               rssi : Rssi \cup {0}, seen : SUBSET Client, size : Nat,
               load : Nat, zero : BOOLEAN, home : 0..255, neighbor : 0..255]

-----------------------------------------------------------------------------
(* Numbers                                                                 *)

\* Quotients of natural numbers.
LEMMA Quotient ==
    ASSUME NEW n \in Nat, NEW d \in Nat, d > 0
    PROVE  n \div d \in Nat
OBVIOUS

\* A client takes some time for its data.
LEMMA SharePositive ==
    ASSUME NEW r \in 1 .. 54
    PROVE  Share(r) \in Nat /\ Share(r) > 0
BY DEF Share, Unit

\* The table of sensitivities, entry by entry.
LEMMA SensitivityValues ==
    /\ DOMAIN data_rate_sensitivity_tbl = {6, 9, 12, 18, 24, 36, 48, 54}
    /\ data_rate_sensitivity_tbl[6] = -86 /\ data_rate_sensitivity_tbl[9] = -84
    /\ data_rate_sensitivity_tbl[12] = -82 /\ data_rate_sensitivity_tbl[18] = -80
    /\ data_rate_sensitivity_tbl[24] = -77 /\ data_rate_sensitivity_tbl[36] = -74
    /\ data_rate_sensitivity_tbl[48] = -72 /\ data_rate_sensitivity_tbl[54] = -70
BY DEF data_rate_sensitivity_tbl

\* The bit rate at any signal strength is one of the table, or the lowest.
LEMMA BitrateValues ==
    ASSUME NEW rssi \in Int
    PROVE  get_phy_bitrate(rssi) \in 1 .. 54
<1> DEFINE usable == {1} \cup {r \in DOMAIN data_rate_sensitivity_tbl :
                                 data_rate_sensitivity_tbl[r] <= rssi}
<1>1. usable \subseteq 1 .. 54
  BY SensitivityValues
<1>2. \E r \in usable : \A o \in usable : o <= r
  BY SensitivityValues
<1>3. get_phy_bitrate(rssi) = CHOOSE r \in usable : \A o \in usable : o <= r
  BY DEF get_phy_bitrate
<1> HIDE DEF usable
<1> QED
  BY <1>1, <1>2, <1>3

\* Over a loaded cell there is less capacity, and never less than none.
LEMMA NormalizedRange ==
    ASSUME NEW load \in Nat, load > 0
    PROVE  get_normalized80(load) \in Nat
<1>1. 35 * load \in Nat /\ 35 * load > 0
  OBVIOUS
<1>2. (80 * Unit) \div (35 * load) \in Nat
  BY <1>1, Quotient DEF Unit
<1>3. (80 * 50) \div 35 \in Nat
  BY Quotient
<1> QED
  BY <1>2, <1>3 DEF get_normalized80, Lesser

\* The power of a response is at least 1 dBm, and at most max_tx_power_dbm.
LEMMA PowerRange ==
    ASSUME NEW rssi \in Int, NEW load \in Nat, load > 0
    PROVE  calc_tx_power(rssi, load) \in 2 .. MAX_TX_POWER
<1>1. get_normalized80(load) \in Nat
  BY NormalizedRange
<1> QED
  BY <1>1 DEF calc_tx_power, Lesser, Greater, MAX_TX_POWER

-----------------------------------------------------------------------------
(* Types                                                                   *)

\* The constants.
LEMMA Constants ==
    /\ IsFiniteSet(Client) /\ IsFiniteSet(Neighbor)
    /\ Rssi \subseteq Int /\ Rates \subseteq 1..54
    /\ oldPower \in 0..63 /\ MaxRequests \in Nat /\ MaxFaults \in Nat
BY ProbeAssumption, Zenon

\* The counters of the bounded actions.
LEMMA Counters ==
    ASSUME TypeOK
    PROVE  /\ leaves \in Nat /\ fails \in Nat /\ resets \in Nat /\ requests \in Nat
           /\ MaxFaults \in Nat /\ MaxRequests \in Nat
BY Constants DEF TypeOK

\* Tables are finite.
LEMMA TableSizes ==
    ASSUME TypeOK
    PROVE  Cardinality(DOMAIN tbl) \in Nat /\ Cardinality(infoAvBackhaulMap) \in Nat
<1>1. IsFiniteSet(DOMAIN tbl) /\ IsFiniteSet(infoAvBackhaulMap)
  BY Constants, FS_Subset DEF TypeOK
<1> QED
  BY <1>1, FS_CardinalityType

\* The probe request thread, field by field.
LEMMA ProbeFields ==
    ASSUME TypeOK
    PROVE  /\ probe \in ProbeState
           /\ probe.pc \in {"recv", "clients", "neighbors", "home", "write", "dead"}
           /\ probe.rssi \in Int /\ probe.rssi \in Rssi \cup {0}
           /\ probe.seen \in SUBSET Client /\ probe.size \in Nat
           /\ probe.load \in Nat /\ probe.zero \in BOOLEAN
           /\ probe.home \in 0..255 /\ probe.neighbor \in 0..255
<1>1. probe \in ProbeState
  BY DEF TypeOK, ProbeState
<1>2. /\ probe.pc \in {"recv", "clients", "neighbors", "home", "write", "dead"}
      /\ probe.seen \in SUBSET Client /\ probe.size \in Nat
      /\ probe.load \in Nat
      /\ probe.home \in 0..255 /\ probe.neighbor \in 0..255
  BY <1>1 DEF ProbeState
<1>3. probe.rssi \in Rssi \cup {0}
  BY <1>1 DEF ProbeState
<1>4. (\A r \in Rssi : r \in Int) => probe.rssi \in Int
  BY <1>3
<1>5. \A r \in Rssi : r \in Int
  BY Constants, Zenon
<1>6. probe.zero \in BOOLEAN
  BY <1>1 DEF ProbeState
<1> QED
  BY <1>1, <1>2, <1>3, <1>4, <1>5, <1>6

\* The thread while it waits, and when it has ended.
LEMMA WaitingFields ==
    /\ Waiting \in ProbeState /\ Waiting.pc = "recv" /\ ~Waiting.zero
    /\ Dead \in ProbeState /\ Dead.pc = "dead" /\ ~Dead.zero
<1>1. Waiting \in ProbeState
  BY DEF Waiting, ProbeState
<1>2. Waiting.pc = "recv" /\ ~Waiting.zero
  BY DEF Waiting
<1>3. Dead \in ProbeState
  BY <1>1 DEF Dead, ProbeState
<1>4. Dead.pc = "dead"
  BY <1>1 DEF Dead, ProbeState
<1>5. ~Dead.zero
  BY <1>1, <1>2 DEF Dead, ProbeState
<1> QED
  BY <1>1, <1>2, <1>3, <1>4, <1>5

-----------------------------------------------------------------------------
(* Stations, neighbours, tables and requests                               *)

\* A step of the other threads: it can disturb the tables and the counters.
LEMMA OtherStep ==
    ASSUME PowerInv, TypeOK', ListInv',
           UNCHANGED <<probe, per_flow_txpower, last, resets>>,
           leaves' >= leaves, fails' >= fails, grown => grown',
           rts'.pc = "dead" => rts.pc = "dead" \/ Fault',
           ~grown' => /\ probe.pc = "clients" => DOMAIN tbl' = DOMAIN tbl
                      /\ probe.pc = "neighbors" => infoAvBackhaulMap' = infoAvBackhaulMap
    PROVE  PowerInv'
<1>1. Fault => Fault'
  BY Counters DEF PowerInv, Fault, TypeOK
<1>2. RangeInv' /\ LastInv' /\ EntryInv'
  BY DEF PowerInv, RangeInv, LastInv, EntryInv
<1>3. DeathsExplained'
  BY <1>1 DEF PowerInv, DeathsExplained, Fault
<1>4. ASSUME ~grown' PROVE ~grown
  BY <1>4
<1>5. probe.pc = "clients" /\ ~grown' => probe.size = Cardinality(DOMAIN tbl')
  BY <1>4 DEF PowerInv, LoopInv
<1>6. probe.pc = "neighbors" /\ ~grown' => probe.size = Cardinality(infoAvBackhaulMap')
  BY <1>4 DEF PowerInv, LoopInv
<1>7. probe.zero => Fault'
  BY <1>1 DEF PowerInv, LoopInv
<1>8. LoopInv'
  BY <1>5, <1>6, <1>7 DEF LoopInv
<1> QED
  BY <1>2, <1>3, <1>8 DEF PowerInv

\* A client associates.
LEMMA JoinStep ==
    ASSUME PowerInv, NEW c \in Client, Join(c)
    PROVE  PowerInv'
<1>1. /\ associated' = associated \cup {c}
      /\ UNCHANGED <<tbl, infoAvBackhaulMap, rts, up, queue, probe, per_flow_txpower, last,
                     grown, requests, leaves, fails, resets>>
  BY DEF Join, history, bounds
<1>2. TypeOK'
  BY <1>1 DEF PowerInv, TypeOK
<1>3. ListInv'
  BY <1>1 DEF PowerInv, ListInv
<1> QED
  BY <1>1, <1>2, <1>3, Counters, OtherStep DEF PowerInv, Fault

\* A client leaves.
LEMMA LeaveStep ==
    ASSUME PowerInv, NEW c \in Client, Leave(c)
    PROVE  PowerInv'
<1>1. /\ associated' = associated \ {c} /\ leaves' = leaves + 1 /\ Faulty
      /\ UNCHANGED <<tbl, infoAvBackhaulMap, rts, up, queue, probe, per_flow_txpower, last,
                     grown, requests, fails, resets>>
  BY DEF Leave, history
<1>2. leaves \in Nat /\ fails \in Nat /\ resets \in Nat /\ MaxFaults \in Nat
  BY Counters DEF PowerInv
<1>3. leaves' \in Nat /\ leaves' > 0 /\ leaves' + fails + resets <= MaxFaults
  BY <1>1, <1>2 DEF Faulty
<1>4. TypeOK'
  BY <1>1, <1>3 DEF PowerInv, TypeOK
<1>5. ListInv'
  BY <1>3 DEF ListInv
<1> QED
  BY <1>1, <1>2, <1>4, <1>5, OtherStep DEF PowerInv

\* A neighbour announces its back-haul.
LEMMA AnnounceStep ==
    ASSUME PowerInv, NEW p \in Neighbor, Announce(p)
    PROVE  PowerInv'
<1>1. /\ infoAvBackhaulMap' = infoAvBackhaulMap \cup {p}
      /\ grown' = (grown \/ probe.pc = "neighbors")
      /\ UNCHANGED <<associated, tbl, rts, up, queue, probe, per_flow_txpower, last,
                     requests, leaves, fails, resets>>
  BY DEF Announce, bounds
<1>2. grown' \in BOOLEAN /\ (grown => grown') /\ (~grown' => probe.pc # "neighbors")
  BY <1>1, Zenon
<1>3. TypeOK'
  BY <1>1, <1>2 DEF PowerInv, TypeOK
<1>4. ListInv'
  BY <1>1 DEF PowerInv, ListInv
<1> QED
  BY <1>1, <1>2, <1>3, <1>4, Counters, OtherStep DEF PowerInv, Fault

\* The application starts, a probe request arrives.
LEMMA ArriveStep ==
    ASSUME PowerInv,
           StartUp \/ \E rssi \in Rssi \cup {Other} : handle_probe_req(rssi)
    PROVE  PowerInv'
<1>1. /\ UNCHANGED <<associated, tbl, infoAvBackhaulMap, rts, probe, per_flow_txpower, last,
                     grown, leaves, fails, resets>>
      /\ up' \in BOOLEAN /\ queue' \in Seq(Rssi \cup {Other})
      /\ requests' \in 0 .. MaxRequests
  <2>1. CASE StartUp
    BY <2>1 DEF StartUp, tables, history, bounds, PowerInv, TypeOK
  <2>2. ASSUME NEW rssi \in Rssi \cup {Other}, handle_probe_req(rssi)
        PROVE  /\ UNCHANGED <<associated, tbl, infoAvBackhaulMap, rts, probe,
                              per_flow_txpower, last, grown, leaves, fails, resets>>
               /\ up' \in BOOLEAN /\ queue' \in Seq(Rssi \cup {Other})
               /\ requests' \in 0 .. MaxRequests
    <3>1. /\ requests < MaxRequests /\ queue' = Append(queue, rssi) /\ up' = up
          /\ requests' = requests + 1 /\ requests \in Nat /\ MaxRequests \in Nat
          /\ queue \in Seq(Rssi \cup {Other}) /\ up \in BOOLEAN
          /\ UNCHANGED <<associated, tbl, infoAvBackhaulMap, rts, probe,
                         per_flow_txpower, last, grown, leaves, fails, resets>>
      BY <2>2, Counters DEF handle_probe_req, tables, history, PowerInv, TypeOK
    <3> QED
      BY <3>1
  <2> QED
    BY <2>1, <2>2
<1>2. TypeOK'
  BY <1>1 DEF PowerInv, TypeOK
<1>3. ListInv'
  BY <1>1 DEF PowerInv, ListInv
<1> QED
  BY <1>1, <1>2, <1>3, Counters, OtherStep DEF PowerInv, Fault

\* iw works, or its failure is counted.
LEMMA IwCounted ==
    ASSUME TypeOK, NEW ok \in BOOLEAN, Iw(ok)
    PROVE  /\ fails' \in Nat /\ fails' >= fails /\ (~ok => fails' > 0)
           /\ leaves + fails' + resets <= MaxFaults
<1>1. leaves \in Nat /\ fails \in Nat /\ resets \in Nat /\ MaxFaults \in Nat
      /\ leaves + fails + resets <= MaxFaults
  BY Counters DEF TypeOK
<1>2. CASE ok
  BY <1>1, <1>2 DEF Iw
<1>3. CASE ~ok
  BY <1>1, <1>3 DEF Iw, Faulty
<1> QED
  BY <1>2, <1>3

\* The clients are listed.
LEMMA RtsListStep ==
    ASSUME PowerInv, NEW ok \in BOOLEAN, RtsList(ok)
    PROVE  PowerInv'
<1>1. /\ Iw(ok)
      /\ UNCHANGED <<associated, infoAvBackhaulMap, up, queue, probe, per_flow_txpower, last,
                     requests, leaves, resets>>
  BY DEF RtsList
<1>2. /\ fails' \in Nat /\ fails' >= fails /\ (~ok => fails' > 0)
      /\ leaves + fails' + resets <= MaxFaults
  BY <1>1, IwCounted DEF PowerInv
<1>3. leaves \in Nat
  BY Counters DEF PowerInv
<1>4. CASE ok
  <2>1. /\ rts' = [pc |-> "sample", addrs |-> associated] /\ tbl' = Entered
        /\ grown' = (grown \/ (probe.pc = "clients" /\ associated \ DOMAIN tbl # {}))
    BY <1>4 DEF RtsList
  <2>2. /\ grown' \in BOOLEAN /\ (grown => grown')
        /\ ~grown' /\ probe.pc = "clients" => associated \ DOMAIN tbl = {}
    BY <2>1, Zenon
  <2>3. /\ DOMAIN tbl' = DOMAIN tbl \cup associated
        /\ \A c \in DOMAIN tbl' : tbl'[c] \in 0 .. MinSamples
    BY <2>1 DEF Entered, MinSamples, PowerInv, TypeOK
  <2>4. TypeOK'
    BY <1>1, <1>2, <2>1, <2>2, <2>3 DEF PowerInv, TypeOK
  <2>5. ListInv'
    BY <1>1, <2>3 DEF PowerInv, ListInv
  <2>6. ~grown' /\ probe.pc = "clients" => DOMAIN tbl' = DOMAIN tbl
    BY <2>2, <2>3
  <2>7. rts'.pc # "dead"
    BY <2>1
  <2> QED
    BY <1>1, <1>2, <1>3, <2>2, <2>4, <2>5, <2>6, <2>7, OtherStep
<1>5. CASE ~ok
  <2>1. rts' = [rts EXCEPT !.pc = "dead"] /\ UNCHANGED <<tbl, grown>>
    BY <1>5 DEF RtsList
  <2>2. rts' \in [pc : {"list", "sample", "dead"}, addrs : SUBSET Client] /\ rts'.pc = "dead"
    BY <2>1 DEF PowerInv, TypeOK
  <2>3. TypeOK'
    BY <1>1, <1>2, <2>1, <2>2 DEF PowerInv, TypeOK
  <2>4. ListInv' /\ Fault'
    BY <1>1, <1>2, <1>5, <2>1 DEF PowerInv, ListInv, Fault
  <2> QED
    BY <1>1, <1>2, <1>3, <2>1, <2>3, <2>4, OtherStep
<1> QED
  BY <1>4, <1>5

\* A client is sampled.
LEMMA RtsSampleStep ==
    ASSUME PowerInv, NEW ok \in BOOLEAN, NEW c \in Client, RtsSample(c, ok)
    PROVE  PowerInv'
<1>1. /\ Iw(ok) /\ rts.pc = "sample" /\ c \in rts.addrs
      /\ UNCHANGED <<associated, infoAvBackhaulMap, up, queue, probe, per_flow_txpower, last,
                     grown, requests, leaves, resets>>
      /\ rts \in [pc : {"list", "sample", "dead"}, addrs : SUBSET Client]
  BY DEF RtsSample, history, PowerInv, TypeOK
<1>2. /\ fails' \in Nat /\ fails' >= fails
      /\ leaves + fails' + resets <= MaxFaults
  BY <1>1, IwCounted DEF PowerInv
<1>3. leaves \in Nat
  BY Counters DEF PowerInv
<1>4. c \in DOMAIN tbl /\ rts.addrs \subseteq DOMAIN tbl
  BY <1>1 DEF PowerInv, TypeOK
<1>5. CASE ok /\ c \notin associated
  <2>1. rts' = [rts EXCEPT !.pc = "dead"] /\ UNCHANGED tbl
    BY <1>5 DEF RtsSample
  <2>2. rts' \in [pc : {"list", "sample", "dead"}, addrs : SUBSET Client] /\ rts'.pc = "dead"
    BY <1>1, <2>1
  <2>3. TypeOK'
    BY <1>1, <1>2, <2>1, <2>2 DEF PowerInv, TypeOK
  <2>4. ListInv' /\ Fault'
    BY <1>1, <1>4, <1>5, <2>1 DEF PowerInv, ListInv, Fault
  <2> QED
    BY <1>1, <1>2, <1>3, <2>1, <2>3, <2>4, OtherStep
<1>6. CASE ~(ok /\ c \notin associated)
  <2>1. /\ rts' = [rts EXCEPT !.addrs = rts.addrs \ {c}]
        /\ tbl' = [tbl EXCEPT ![c] = Lesser(MinSamples, tbl[c] + 1)]
    BY <1>6 DEF RtsSample
  <2>2. /\ rts' \in [pc : {"list", "sample", "dead"}, addrs : SUBSET Client]
        /\ rts'.pc = "sample" /\ rts'.addrs \subseteq rts.addrs
    BY <1>1, <2>1
  <2>3. tbl[c] \in 0 .. MinSamples
    BY <1>4 DEF PowerInv, TypeOK
  <2>4. Lesser(MinSamples, tbl[c] + 1) \in 0 .. MinSamples
    BY <2>3 DEF Lesser, MinSamples
  <2>5. /\ DOMAIN tbl' = DOMAIN tbl
        /\ \A d \in DOMAIN tbl' : tbl'[d] \in 0 .. MinSamples
    BY <1>4, <2>1, <2>4 DEF PowerInv, TypeOK
  <2>6. TypeOK'
    BY <1>1, <1>2, <1>4, <2>2, <2>5 DEF PowerInv, TypeOK
  <2>7. ListInv'
    BY <1>1, <2>5 DEF PowerInv, ListInv
  <2> QED
    BY <1>1, <1>2, <1>3, <2>2, <2>5, <2>6, <2>7, OtherStep
<1> QED
  BY <1>5, <1>6

\* The thread sleeps.
LEMMA RtsSleepStep ==
    ASSUME PowerInv, RtsSleep
    PROVE  PowerInv'
<1>1. /\ rts' = [rts EXCEPT !.pc = "list"]
      /\ rts \in [pc : {"list", "sample", "dead"}, addrs : SUBSET Client]
      /\ UNCHANGED <<associated, tbl, infoAvBackhaulMap, up, queue, probe,
                     per_flow_txpower, last, grown, requests, leaves, fails, resets>>
  BY DEF RtsSleep, tables, history, bounds, PowerInv, TypeOK
<1>2. rts' \in [pc : {"list", "sample", "dead"}, addrs : SUBSET Client] /\ rts'.pc = "list"
  BY <1>1
<1>3. TypeOK'
  BY <1>1, <1>2 DEF PowerInv, TypeOK
<1>4. ListInv'
  BY <1>1 DEF PowerInv, ListInv
<1> QED
  BY <1>1, <1>2, <1>3, <1>4, Counters, OtherStep DEF PowerInv

-----------------------------------------------------------------------------
(* The driver                                                              *)

\* Entries are removed from the driver's list.
LEMMA RemoveStep ==
    ASSUME PowerInv, NEW M, RemoveFlows(M)
    PROVE  PowerInv'
<1>1. /\ per_flow_txpower' = [m \in Mark |-> IF m \in M THEN NoEntry
                                             ELSE per_flow_txpower[m]]
      /\ resets' = resets + 1 /\ Faulty
      /\ UNCHANGED <<associated, tbl, infoAvBackhaulMap, rts, up, queue, probe, last, grown,
                     requests, leaves, fails>>
  BY DEF RemoveFlows, tables, history
<1>2. leaves \in Nat /\ fails \in Nat /\ resets \in Nat /\ MaxFaults \in Nat
  BY Counters DEF PowerInv
<1>3. resets' \in Nat /\ resets' > 0 /\ leaves + fails + resets' <= MaxFaults
  BY <1>1, <1>2 DEF Faulty
<1>4. \A m \in Mark : per_flow_txpower'[m] = NoEntry
                        \/ per_flow_txpower'[m] = per_flow_txpower[m]
  BY <1>1
<1>5. per_flow_txpower' \in [Mark -> 0..255 \cup {NoEntry}]
  BY <1>1 DEF PowerInv, TypeOK
<1>6. TypeOK'
  BY <1>1, <1>3, <1>5 DEF PowerInv, TypeOK
<1>7. ListInv' /\ LoopInv' /\ LastInv'
  BY <1>1 DEF PowerInv, ListInv, LoopInv, LastInv, Fault
<1>8. DeathsExplained'
  BY <1>1 DEF PowerInv, DeathsExplained
<1>9. HOME \in Mark /\ NEIGHBOR \in Mark
  BY DEF Mark
<1>10. RangeInv'
  BY <1>1, <1>4, <1>9 DEF PowerInv, RangeInv
<1>11. EntryInv'
  BY <1>1, <1>2, <1>3, <1>4, <1>9 DEF PowerInv, EntryInv
<1> QED
  BY <1>6, <1>7, <1>8, <1>10, <1>11 DEF PowerInv

-----------------------------------------------------------------------------
(* The probe request thread                                                *)

\* A step of the thread that leaves the driver's list alone.
LEMMA ThreadStep ==
    ASSUME PowerInv, probe' \in ProbeState, queue' \in Seq(Rssi \cup {Other}),
           UNCHANGED <<associated, tbl, infoAvBackhaulMap, rts, up, per_flow_txpower, last,
                       grown, requests, leaves, resets>>,
           fails' \in Nat, fails' >= fails, leaves + fails' + resets <= MaxFaults,
           probe.pc \notin {"home", "write"}, probe'.pc \notin {"home", "write"},
           probe'.pc = "clients" /\ ~grown => probe'.size = Cardinality(DOMAIN tbl),
           probe'.pc = "neighbors" /\ ~grown =>
               probe'.size = Cardinality(infoAvBackhaulMap),
           probe'.zero => Fault',
           probe'.pc = "neighbors" => probe'.load > 0 /\ probe'.home \in HomePowers,
           probe'.pc = "dead" => Fault' \/ grown
    PROVE  PowerInv'
<1>1. TypeOK'
  BY DEF PowerInv, TypeOK, ProbeState
<1>2. ListInv'
  BY DEF PowerInv, ListInv
<1>3. LoopInv'
  BY DEF LoopInv
<1>4. RangeInv'
  BY DEF PowerInv, RangeInv
<1>5. LastInv'
  BY DEF LastInv
<1>6. EntryInv'
  BY DEF PowerInv, EntryInv
<1>7. Fault => Fault'
  BY Counters DEF PowerInv, Fault
<1>8. DeathsExplained'
  BY <1>7 DEF PowerInv, DeathsExplained, Fault
<1> QED
  BY <1>1, <1>2, <1>3, <1>4, <1>5, <1>6, <1>8 DEF PowerInv

\* A request is taken up.
LEMMA RequestFields ==
    ASSUME NEW c \in ProbeState, NEW m, NEW n, NEW d,
           d = [c EXCEPT !.pc = "clients", !.rssi = m, !.size = n]
    PROVE  d = [pc |-> "clients", rssi |-> m, seen |-> c.seen, size |-> n, load |-> c.load,
                zero |-> c.zero, home |-> c.home, neighbor |-> c.neighbor]
BY DEF ProbeState

\* A probe request arrives.
LEMMA RequestStep ==
    ASSUME PowerInv, probeReqRec_cb
    PROVE  PowerInv'
<1> DEFINE m == Head(queue)
           n == Cardinality(DOMAIN tbl)
<1>1. /\ probe.pc = "recv" /\ queue # <<>> /\ queue' = Tail(queue)
      /\ \/ m # Other /\ probe' = [Waiting EXCEPT !.pc = "clients", !.rssi = m, !.size = n]
         \/ probe' = Waiting
      /\ UNCHANGED <<associated, tbl, infoAvBackhaulMap, rts, up, per_flow_txpower, last,
                     grown, requests, leaves, fails, resets>>
  BY DEF probeReqRec_cb, tables, history, bounds
<1>2. queue \in Seq(Rssi \cup {Other}) /\ m \in Rssi \cup {Other}
      /\ queue' \in Seq(Rssi \cup {Other})
  BY <1>1 DEF PowerInv, TypeOK
<1>3. n \in Nat
  BY TableSizes DEF PowerInv
<1> HIDE DEF m, n
<1>4. /\ probe' \in ProbeState /\ probe'.pc \in {"recv", "clients"} /\ ~probe'.zero
      /\ probe'.pc = "clients" => probe'.size = n
  <2>1. CASE probe' = Waiting
    BY <2>1, WaitingFields
  <2>2. CASE m # Other /\ probe' = [Waiting EXCEPT !.pc = "clients", !.rssi = m, !.size = n]
    <3> DEFINE r == [pc |-> "clients", rssi |-> m, seen |-> Waiting.seen, size |-> n,
                     load |-> Waiting.load, zero |-> Waiting.zero, home |-> Waiting.home,
                     neighbor |-> Waiting.neighbor]
    <3>1. probe' = r
      BY <2>2, WaitingFields, RequestFields, Zenon
    <3>2. m \in Rssi
      BY <1>2, <2>2
    <3>3. r = [pc |-> "clients", rssi |-> m, seen |-> {}, size |-> n, load |-> 0,
               zero |-> FALSE, home |-> 0, neighbor |-> 0]
      BY DEF Waiting
    <3>4. r \in ProbeState
      <4>1. [pc |-> "clients", rssi |-> m, seen |-> {}, size |-> n, load |-> 0,
             zero |-> FALSE, home |-> 0, neighbor |-> 0] \in ProbeState
        BY <1>3, <3>2 DEF ProbeState
      <4> QED
        BY <3>3, <4>1, Zenon
    <3>5. r.pc = "clients" /\ r.size = n /\ ~r.zero
      BY <3>3
    <3> QED
      BY <3>1, <3>4, <3>5, Zenon
  <2> QED
    BY <1>1, <2>1, <2>2
<1>5. /\ fails \in Nat /\ leaves + fails + resets <= MaxFaults
  BY DEF PowerInv, TypeOK
<1>6. n = Cardinality(DOMAIN tbl)
  BY DEF n
<1> QED
  BY <1>1, <1>2, <1>4, <1>5, <1>6, ThreadStep

\* The thread ends in the middle of an iteration: the table has grown.
LEMMA IterationFailsStep ==
    ASSUME PowerInv, IterationFails
    PROVE  PowerInv'
<1>1. /\ probe' = Dead
      /\ UNCHANGED <<associated, tbl, infoAvBackhaulMap, rts, up, queue, per_flow_txpower,
                     last, grown, requests, leaves, fails, resets>>
      /\ \/ probe.pc = "clients" /\ Cardinality(DOMAIN tbl) # probe.size
         \/ probe.pc = "neighbors" /\ Cardinality(infoAvBackhaulMap) # probe.size
  BY DEF IterationFails, Resized, tables, history, bounds
<1>2. grown
  BY <1>1 DEF PowerInv, LoopInv
<1>3. fails \in Nat /\ leaves + fails + resets <= MaxFaults
      /\ queue \in Seq(Rssi \cup {Other})
  BY DEF PowerInv, TypeOK
<1>4. probe' \in ProbeState /\ probe'.pc = "dead" /\ ~probe'.zero
  BY <1>1, WaitingFields
<1> QED
  BY <1>1, <1>2, <1>3, <1>4, ThreadStep

\* A client is looked at.
Looked(p, s, l, z) == [p EXCEPT !.seen = s, !.load = l, !.zero = z]

\* The record of the probe request thread after it has looked at a client.
LEMMA ClientFields ==
    ASSUME NEW p \in ProbeState, NEW s, NEW l, NEW z
    PROVE  Looked(p, s, l, z) =
             [pc |-> p.pc, rssi |-> p.rssi, seen |-> s, size |-> p.size, load |-> l,
              zero |-> z, home |-> p.home, neighbor |-> p.neighbor]
<1>1. ASSUME NEW d, d = Looked(p, s, l, z)
      PROVE  d = [pc |-> p.pc, rssi |-> p.rssi, seen |-> s, size |-> p.size, load |-> l,
                  zero |-> z, home |-> p.home, neighbor |-> p.neighbor]
  BY <1>1 DEF ProbeState, Looked
<1> QED
  BY <1>1, Zenon

\* The probe request thread looks at the next client.
LEMMA NextClientStep ==
    ASSUME PowerInv, NEW c \in Client, NEW ok \in BOOLEAN, NEW rate \in Rates \cup {0},
           NextClient(c, ok, rate)
    PROVE  PowerInv'
<1>1. /\ probe.pc = "clients" /\ c \in DOMAIN tbl
      /\ UNCHANGED <<associated, tbl, infoAvBackhaulMap, rts, up, queue, per_flow_txpower,
                     last, grown, requests, leaves, resets>>
      /\ queue \in Seq(Rssi \cup {Other})
  BY DEF NextClient, tables, history, PowerInv, TypeOK
<1>2. /\ probe \in ProbeState /\ probe.seen \in SUBSET Client /\ probe.load \in Nat
      /\ probe.zero \in BOOLEAN /\ TypeOK
  BY ProbeFields DEF PowerInv
<1>3. leaves \in Nat /\ fails \in Nat /\ leaves + fails + resets <= MaxFaults
  BY DEF PowerInv, TypeOK
<1>4. ~grown => probe.size = Cardinality(DOMAIN tbl)
  BY <1>1 DEF PowerInv, LoopInv
<1>5. probe.zero => Fault
  BY DEF PowerInv, LoopInv
<1> DEFINE seen == probe.seen \cup {c}
           load == IF rate > 0 THEN probe.load + Share(rate) ELSE probe.load
           zero == probe.zero \/ rate = 0
<1>6. CASE /\ Iw(ok) /\ rate \in Bitrate(c, ok)
           /\ probe' = [probe EXCEPT !.seen = seen, !.load = load, !.zero = zero]
  <2>1. /\ fails' \in Nat /\ fails' >= fails /\ (~ok => fails' > 0)
        /\ leaves + fails' + resets <= MaxFaults
    BY <1>2, <1>6, IwCounted
  <2>2. seen \in SUBSET Client
    BY <1>2
  <2>3. load \in Nat
    <3>1. rate = 0 \/ rate \in 1 .. 54
      BY Constants
    <3> QED
      BY <1>2, <3>1, SharePositive
  <2>4. zero \in BOOLEAN
    BY Zenon
  <2>5. zero => Fault'
    <3>1. CASE probe.zero
      BY <1>1, <1>3, <1>5, <2>1, <3>1 DEF Fault
    <3>2. CASE rate = 0
      <4>1. ~ok \/ c \notin associated
        BY <1>6, <3>2, Constants DEF Bitrate
      <4>2. c \notin associated => leaves > 0
        BY <1>1 DEF PowerInv, ListInv
      <4> QED
        BY <1>1, <2>1, <4>1, <4>2 DEF Fault
    <3> QED
      BY <3>1, <3>2, Zenon
  <2> HIDE DEF seen, load, zero
  <2> DEFINE r == [pc |-> probe.pc, rssi |-> probe.rssi, seen |-> seen, size |-> probe.size,
                   load |-> load, zero |-> zero, home |-> probe.home,
                   neighbor |-> probe.neighbor]
  <2>6. probe' = r
    <3>1. probe' = Looked(probe, seen, load, zero)
      BY <1>6, Zenon DEF Looked
    <3>2. probe \in ProbeState
      BY <1>2
    <3>3. Looked(probe, seen, load, zero) = r
      BY <3>2, ClientFields
    <3> QED
      BY <3>1, <3>3
  <2>7. r \in ProbeState
    BY <1>2, <2>2, <2>3, <2>4 DEF ProbeState
  <2>8. r.pc = probe.pc /\ r.size = probe.size /\ r.zero = zero
    OBVIOUS
  <2> HIDE DEF r
  <2>9. probe' \in ProbeState /\ probe'.pc = "clients" /\ probe'.size = probe.size
    BY <1>1, <2>6, <2>7, <2>8
  <2>10. probe'.zero => Fault'
    BY <2>5, <2>6, <2>8, Zenon
  <2> QED
    BY <1>1, <1>4, <2>1, <2>9, <2>10, ThreadStep
<1>7. CASE probe' = [probe EXCEPT !.seen = seen] /\ UNCHANGED fails
  <2>1. seen \in SUBSET Client
    BY <1>2
  <2> HIDE DEF seen
  <2>2. probe' \in ProbeState /\ probe'.pc = "clients" /\ probe'.size = probe.size
    BY <1>1, <1>2, <1>7, <2>1 DEF ProbeState
  <2>3. probe'.zero = probe.zero
    BY <1>2, <1>7 DEF ProbeState
  <2>4. probe'.zero => Fault'
    BY <1>1, <1>5, <1>7, <2>3 DEF Fault
  <2> QED
    BY <1>1, <1>3, <1>4, <1>7, <2>2, <2>4, ThreadStep
<1> QED
  BY <1>6, <1>7 DEF NextClient

\* The power of the home AP is worked out: it is in its range, so that only a
\* rate of 0 ends the thread.
LEMMA HomeFields ==
    ASSUME NEW c \in ProbeState, NEW l, NEW h, NEW n, NEW d,
           d = [c EXCEPT !.pc = "neighbors", !.load = l, !.home = h, !.size = n]
    PROVE  d = [pc |-> "neighbors", rssi |-> c.rssi, seen |-> c.seen, size |-> n, load |-> l,
                zero |-> c.zero, home |-> h, neighbor |-> c.neighbor]
BY DEF ProbeState

\* The power for the home network is worked out.
LEMMA HomePowerStep ==
    ASSUME PowerInv, HomePower
    PROVE  PowerInv'
<1> DEFINE load == probe.load + Share(get_phy_bitrate(probe.rssi))
           power == calc_tx_power(probe.rssi, load)
           size == Cardinality(infoAvBackhaulMap)
<1>1. /\ probe.pc = "clients"
      /\ UNCHANGED <<associated, tbl, infoAvBackhaulMap, rts, up, queue, per_flow_txpower,
                     last, grown, requests, leaves, fails, resets>>
      /\ probe' = IF probe.zero \/ power \notin 0..MAX_TX_POWER THEN Dead
                  ELSE [probe EXCEPT !.pc = "neighbors", !.load = load, !.home = power,
                                     !.size = size]
  BY DEF HomePower, tables, history, bounds
<1>2. /\ probe \in ProbeState /\ probe.load \in Nat /\ probe.rssi \in Int
      /\ queue \in Seq(Rssi \cup {Other})
      /\ fails \in Nat /\ leaves + fails + resets <= MaxFaults
  BY ProbeFields DEF PowerInv, TypeOK
<1>3. load \in Nat /\ load > 0
  <2>1. Share(get_phy_bitrate(probe.rssi)) \in Nat /\ Share(get_phy_bitrate(probe.rssi)) > 0
    BY <1>2, BitrateValues, SharePositive
  <2> QED
    BY <1>2, <2>1
<1> HIDE DEF load
<1>4. power \in 2 .. MAX_TX_POWER
  BY <1>2, <1>3, PowerRange
<1>5. size \in Nat
  BY TableSizes DEF PowerInv
<1> HIDE DEF power
<1>6. power \in HomePowers /\ power \in 0..MAX_TX_POWER /\ power \in 0..255
  BY <1>4 DEF HomePowers, MAX_TX_POWER
<1>7. size = Cardinality(infoAvBackhaulMap)
  OBVIOUS
<1> HIDE DEF size
<1>8. CASE probe.zero
  <2>1. probe' = Dead
    BY <1>1, <1>8, Zenon
  <2>2. probe' \in ProbeState /\ probe'.pc = "dead" /\ ~probe'.zero
    BY <2>1, WaitingFields
  <2>3. Fault'
    BY <1>1, <1>8 DEF PowerInv, LoopInv, Fault
  <2> QED
    BY <1>1, <1>2, <2>2, <2>3, ThreadStep
<1>9. CASE ~probe.zero
  <2> DEFINE r == [pc |-> "neighbors", rssi |-> probe.rssi, seen |-> probe.seen,
                   size |-> size, load |-> load, zero |-> probe.zero, home |-> power,
                   neighbor |-> probe.neighbor]
  <2>1. probe' = [probe EXCEPT !.pc = "neighbors", !.load = load, !.home = power,
                               !.size = size]
    BY <1>1, <1>6, <1>9, Zenon
  <2>2. probe' = r
    BY <1>2, <2>1, HomeFields, ZenonT(30)
  <2>3. r \in ProbeState
    BY <1>2, <1>3, <1>5, <1>6 DEF ProbeState
  <2>4. r.pc = "neighbors" /\ r.load = load /\ r.home = power /\ r.size = size
        /\ r.zero = probe.zero
    OBVIOUS
  <2> HIDE DEF r
  <2>5. /\ probe' \in ProbeState /\ probe'.pc = "neighbors" /\ probe'.load > 0
        /\ probe'.home \in HomePowers /\ probe'.size = Cardinality(infoAvBackhaulMap)
    BY <1>3, <1>6, <1>7, <2>2, <2>3, <2>4
  <2>6. ~probe'.zero
    BY <1>9, <2>2, <2>4, Zenon
  <2> QED
    BY <1>1, <1>2, <2>5, <2>6, ThreadStep
<1> QED
  BY <1>8, <1>9

\* The power of the neighbours is worked out.
LEMMA NeighborFields ==
    ASSUME NEW p \in ProbeState, NEW n, NEW d,
           d = [p EXCEPT !.pc = "home", !.neighbor = n]
    PROVE  d = [pc |-> "home", rssi |-> p.rssi, seen |-> p.seen, size |-> p.size,
                load |-> p.load, zero |-> p.zero, home |-> p.home, neighbor |-> n]
BY DEF ProbeState

\* The power for the neighbours is worked out.
LEMMA NeighborPowerStep ==
    ASSUME PowerInv, NeighborPower
    PROVE  PowerInv'
<1> DEFINE n == IF infoAvBackhaulMap = {} THEN 40 ELSE calc_tx_power(probe.rssi, probe.load)
<1>1. /\ probe.pc = "neighbors"
      /\ probe' = [probe EXCEPT !.pc = "home", !.neighbor = n]
      /\ last' = [home |-> probe.home, neighbor |-> n]
      /\ UNCHANGED <<associated, tbl, infoAvBackhaulMap, rts, up, queue, per_flow_txpower,
                     grown, requests, leaves, fails, resets>>
  BY DEF NeighborPower, tables, bounds
<1>2. probe \in ProbeState /\ probe.load \in Nat /\ probe.rssi \in Int /\ probe.zero \in BOOLEAN
  BY ProbeFields DEF PowerInv
<1>3. probe.load > 0 /\ probe.home \in HomePowers
  BY <1>1 DEF PowerInv, RangeInv
<1>4. n \in NeighborPowers
  <2>1. calc_tx_power(probe.rssi, probe.load) \in 2 .. MAX_TX_POWER
    BY <1>2, <1>3, PowerRange
  <2> QED
    BY <2>1 DEF NeighborPowers
<1> HIDE DEF n
<1>5. n \in 0..255
  BY <1>4 DEF NeighborPowers, MAX_TX_POWER
<1> DEFINE r == [pc |-> "home", rssi |-> probe.rssi, seen |-> probe.seen,
                 size |-> probe.size, load |-> probe.load, zero |-> probe.zero,
                 home |-> probe.home, neighbor |-> n]
<1>6. probe' = r
  BY <1>1, <1>2, NeighborFields, Zenon
<1>7. r \in ProbeState
  BY <1>2, <1>5 DEF ProbeState
<1>8. r.pc = "home" /\ r.home = probe.home /\ r.neighbor = n /\ r.zero = probe.zero
  OBVIOUS
<1> HIDE DEF r
<1>9. probe' \in ProbeState /\ probe'.pc = "home" /\ probe'.home = probe.home
      /\ probe'.neighbor = n
  BY <1>6, <1>7, <1>8
<1>10. TypeOK'
  BY <1>1, <1>9 DEF PowerInv, TypeOK, ProbeState
<1>11. ListInv' /\ DeathsExplained'
  BY <1>1, <1>9 DEF PowerInv, ListInv, DeathsExplained
<1>12. LoopInv'
  <2>1. probe'.zero => Fault
    BY <1>6, <1>8 DEF PowerInv, LoopInv
  <2> QED
    BY <1>1, <1>9, <2>1 DEF LoopInv, Fault
<1>13. RangeInv'
  BY <1>1, <1>3, <1>4, <1>9 DEF PowerInv, RangeInv
<1>14. LastInv' /\ EntryInv'
  BY <1>1, <1>9 DEF LastInv, EntryInv
<1> QED
  BY <1>10, <1>11, <1>12, <1>13, <1>14 DEF PowerInv

\* A power in its range is not truncated.
LEMMA NotTruncated ==
    ASSUME NEW power \in 0..255
    PROVE  power % 256 = power
OBVIOUS

\* The first entry is written.
LEMMA WriteHomeStep ==
    ASSUME PowerInv, WriteHome
    PROVE  PowerInv'
<1>1. /\ probe.pc = "home" /\ probe' = [probe EXCEPT !.pc = "write"]
      /\ per_flow_txpower' = Written(HOME, probe.home)
      /\ UNCHANGED <<associated, tbl, infoAvBackhaulMap, rts, up, queue, last, grown, requests,
                     leaves, fails, resets>>
  BY DEF WriteHome, tables, history, bounds
<1>2. probe \in ProbeState /\ probe.home \in 0..255
  BY ProbeFields DEF PowerInv
<1>3. probe' \in ProbeState /\ probe'.pc = "write" /\ probe'.neighbor = probe.neighbor
  BY <1>1, <1>2 DEF ProbeState
<1>4. probe'.zero = probe.zero
  BY <1>1, <1>2 DEF ProbeState
<1>5. HOME \in Mark /\ NEIGHBOR \in Mark /\ HOME # NEIGHBOR
  BY DEF Mark, HOME, NEIGHBOR
<1>6. /\ per_flow_txpower' \in [Mark -> 0..255 \cup {NoEntry}]
      /\ per_flow_txpower'[HOME] = probe.home
      /\ per_flow_txpower'[NEIGHBOR] = per_flow_txpower[NEIGHBOR]
  <2>1. per_flow_txpower \in [Mark -> 0..255 \cup {NoEntry}]
    BY DEF PowerInv, TypeOK
  <2>2. probe.home % 256 = probe.home
    BY <1>2, NotTruncated
  <2>3. per_flow_txpower' = [per_flow_txpower EXCEPT ![HOME] = probe.home]
    BY <1>1, <2>2 DEF Written
  <2> QED
    BY <1>2, <1>5, <2>1, <2>3
<1>7. TypeOK'
  BY <1>1, <1>3, <1>6 DEF PowerInv, TypeOK, ProbeState
<1>8. ListInv' /\ DeathsExplained'
  BY <1>1, <1>3 DEF PowerInv, ListInv, DeathsExplained
<1>9. LoopInv'
  <2>1. probe'.zero => Fault
    BY <1>4 DEF PowerInv, LoopInv
  <2> QED
    BY <1>1, <1>3, <2>1 DEF LoopInv, Fault
<1>10. RangeInv'
  BY <1>1, <1>3, <1>6 DEF PowerInv, RangeInv
<1>11. LastInv' /\ EntryInv'
  BY <1>1, <1>3, <1>6 DEF PowerInv, LastInv, EntryInv
<1> QED
  BY <1>7, <1>8, <1>9, <1>10, <1>11 DEF PowerInv

\* And the second one.
LEMMA WriteNeighborStep ==
    ASSUME PowerInv, WriteNeighbor
    PROVE  PowerInv'
<1>1. /\ probe.pc = "write" /\ probe' = Waiting
      /\ per_flow_txpower' = Written(NEIGHBOR, probe.neighbor)
      /\ UNCHANGED <<associated, tbl, infoAvBackhaulMap, rts, up, queue, last, grown, requests,
                     leaves, fails, resets>>
  BY DEF WriteNeighbor, tables, history, bounds
<1>2. probe.neighbor \in 0..255
  BY ProbeFields DEF PowerInv
<1>3. probe' \in ProbeState /\ probe'.pc = "recv" /\ ~probe'.zero
  BY <1>1, WaitingFields
<1>4. HOME \in Mark /\ NEIGHBOR \in Mark /\ HOME # NEIGHBOR
  BY DEF Mark, HOME, NEIGHBOR
<1>5. /\ per_flow_txpower' \in [Mark -> 0..255 \cup {NoEntry}]
      /\ per_flow_txpower'[NEIGHBOR] = probe.neighbor
      /\ per_flow_txpower'[HOME] = per_flow_txpower[HOME]
  <2>1. per_flow_txpower \in [Mark -> 0..255 \cup {NoEntry}]
    BY DEF PowerInv, TypeOK
  <2>2. probe.neighbor % 256 = probe.neighbor
    BY <1>2, NotTruncated
  <2>3. per_flow_txpower' = [per_flow_txpower EXCEPT ![NEIGHBOR] = probe.neighbor]
    BY <1>1, <2>2 DEF Written
  <2> QED
    BY <1>2, <1>4, <2>1, <2>3
<1>6. TypeOK'
  BY <1>1, <1>3, <1>5 DEF PowerInv, TypeOK, ProbeState
<1>7. ListInv' /\ DeathsExplained' /\ LoopInv'
  BY <1>1, <1>3 DEF PowerInv, ListInv, DeathsExplained, LoopInv
<1>8. RangeInv'
  BY <1>1, <1>3, <1>5 DEF PowerInv, RangeInv
<1>9. LastInv' /\ EntryInv'
  BY <1>1, <1>3, <1>5 DEF PowerInv, LastInv, EntryInv
<1> QED
  BY <1>6, <1>7, <1>8, <1>9 DEF PowerInv

-----------------------------------------------------------------------------
(* The invariant and the theorems                                          *)

\* At the start the driver's list and the tables are empty.
LEMMA PowerInit == Init => PowerInv
<1> SUFFICES ASSUME Init PROVE PowerInv
  OBVIOUS
<1>1. probe \in ProbeState /\ probe.pc = "recv" /\ ~probe.zero
  BY WaitingFields DEF Init
<1>2. /\ per_flow_txpower \in [Mark -> 0..255 \cup {NoEntry}]
      /\ per_flow_txpower[HOME] = NoEntry /\ per_flow_txpower[NEIGHBOR] = NoEntry
  BY DEF Init, Mark
<1>3. DOMAIN tbl = {} /\ tbl = [c \in {} |-> 0]
  BY DEF Init
<1>4. TypeOK
  <2>1. /\ rts \in [pc : {"list", "sample", "dead"}, addrs : SUBSET Client] /\ rts.pc = "list"
        /\ queue \in Seq(Rssi \cup {Other})
    BY DEF Init
  <2>2. requests \in 0..MaxRequests /\ leaves + fails + resets <= MaxFaults
        /\ leaves \in Nat /\ fails \in Nat /\ resets \in Nat
    BY Constants DEF Init
  <2> QED
    BY <1>1, <1>2, <1>3, <2>1, <2>2 DEF Init, TypeOK, ProbeState
<1>5. ListInv /\ LoopInv
  BY <1>1, <1>3 DEF ListInv, LoopInv
<1>6. RangeInv /\ LastInv
  BY <1>1, <1>2 DEF RangeInv, LastInv
<1>7. EntryInv
  BY <1>2 DEF EntryInv, Init
<1>8. DeathsExplained
  BY <1>1 DEF Init, DeathsExplained
<1> QED
  BY <1>4, <1>5, <1>6, <1>7, <1>8 DEF PowerInv

\* Every step keeps the invariant.
LEMMA PowerNext == PowerInv /\ [Next]_vars => PowerInv'
<1> SUFFICES ASSUME PowerInv, [Next]_vars PROVE PowerInv'
  OBVIOUS
<1>1. CASE \E c \in Client : Join(c) \/ Leave(c)
  BY <1>1, JoinStep, LeaveStep
<1>2. CASE \E p \in Neighbor : Announce(p)
  BY <1>2, AnnounceStep
<1>3. CASE StartUp \/ \E rssi \in Rssi \cup {Other} : handle_probe_req(rssi)
  BY <1>3, ArriveStep
<1>4. CASE ReadinessToServe
  BY <1>4, RtsListStep, RtsSampleStep, RtsSleepStep DEF ReadinessToServe
<1>5. CASE \E M \in {Mark, {HOME}, {NEIGHBOR}} : RemoveFlows(M)
  BY <1>5, RemoveStep
<1>6. CASE ProbeThread
  BY <1>6, RequestStep, NextClientStep, IterationFailsStep, HomePowerStep,
     NeighborPowerStep, WriteHomeStep, WriteNeighborStep DEF ProbeThread
<1>7. CASE UNCHANGED vars
  <2>1. UNCHANGED <<associated, tbl, infoAvBackhaulMap, rts, up, queue, probe,
                    per_flow_txpower, last, grown, requests, leaves, fails, resets>>
    BY <1>7 DEF vars, tables, history, bounds
  <2>2. TypeOK' /\ ListInv'
    BY <2>1 DEF PowerInv, TypeOK, ListInv
  <2> QED
    BY <2>1, <2>2, Counters, OtherStep DEF PowerInv
<1> QED
  BY <1>1, <1>2, <1>3, <1>4, <1>5, <1>6, <1>7 DEF Next

\* The invariant holds in every state.
LEMMA PowerInvariant == Spec => []PowerInv
BY PowerInit, PowerNext, PTL DEF Spec

\* Each variable keeps values of the kind the code gives it: every power fits
\* the driver's u8, and every client that is sampled has an entry in the table
\* (ReadinessToServe.run, set_proberesponse_TXPWR).
THEOREM ProbeTypeCorrect == Spec => []TypeOK
<1>1. PowerInv => TypeOK
  BY DEF PowerInv
<1> QED
  BY <1>1, PowerInvariant, PTL

\* Whatever the clients, their rates and the signal strength, a probe response
\* goes out with the power the driver would use anyway, with full power if it
\* does not control it, with one from 1 to 16 dBm, or, injected and without a
\* neighbour, with 20 dBm (calculate_preply_tx_power, calc_tx_power,
\* ath_overwrite_rate_txpower).
THEOREM ProbeRepliesInRange == Spec => []RepliesInRange
<1>1. PowerInv => RepliesInRange
  <2> SUFFICES ASSUME PowerInv, NEW m \in Mark
               PROVE  \/ ath_overwrite_rate_txpower(m)
                           \in {oldPower, MAX_RATE_POWER} \cup 2..MAX_TX_POWER
                      \/ m = NEIGHBOR /\ ath_overwrite_rate_txpower(m) = 40
    BY DEF RepliesInRange
  <2>1. m = HOME \/ m = NEIGHBOR
    BY DEF Mark
  <2>2. \/ per_flow_txpower[m] \in (2..MAX_TX_POWER) \cup {NoEntry}
        \/ m = NEIGHBOR /\ per_flow_txpower[m] = 40
    BY <2>1 DEF PowerInv, RangeInv, HomePowers, NeighborPowers
  <2> QED
    BY <2>2 DEF ath_overwrite_rate_txpower
<1> QED
  BY <1>1, PowerInvariant, PTL

\* Except between the two writes of set_proberesponse_TXPWR the entries of the
\* driver's list are those of the last request that was worked out, or were
\* removed since.
THEOREM ProbeEntriesMatch == Spec => []EntriesMatch
<1>1. PowerInv => EntriesMatch
  <2> SUFFICES ASSUME PowerInv PROVE EntriesMatch
    OBVIOUS
  <2>1. EntryInv /\ HOME # NEIGHBOR /\ Mark = {HOME, NEIGHBOR}
    BY DEF PowerInv, HOME, NEIGHBOR, Mark
  <2>2. CASE probe.pc = "home"
    BY <2>2 DEF EntriesMatch
  <2>3. CASE probe.pc = "write"
    BY <2>1, <2>3 DEF EntriesMatch, EntryInv
  <2>4. CASE probe.pc \notin {"home", "write"}
    BY <2>1, <2>4 DEF EntriesMatch, EntryInv
  <2> QED
    BY <2>2, <2>3, <2>4
<1> QED
  BY <1>1, PowerInvariant, PTL

\* The probe request thread ends only after a client has left, iw has failed or
\* a table has grown under its iteration: not for a power out of its range,
\* which calculate_preply_tx_power asserts, and not for a division by 0 in an
\* empty cell.  The thread of ReadinessToServe ends only after one of the
\* first two.
THEOREM ProbeDeathsExplained == Spec => []DeathsExplained
<1>1. PowerInv => DeathsExplained
  BY DEF PowerInv
<1> QED
  BY <1>1, PowerInvariant, PTL
=============================================================================
