----------------------------- MODULE ProbeReply -----------------------------
(***************************************************************************)
(* The transmit power of probe responses (framework/apps/cran.py), from    *)
(* the probe request to the frame that answers it:                         *)
(*   - hostapd publishes a probe request, waits some 10 ms and answers     *)
(*     (hostapd/src/ap/beacon.c);                                          *)
(*   - the probe request thread of the agent reads the request, works out  *)
(*     a power for the home AP and for its neighbours from the clients     *)
(*     served now, and writes the two to the driver one after the other;   *)
(*   - the thread of ReadinessToServe keeps the table of clients, and the  *)
(*     receive thread the neighbours that have announced their backhaul;   *)
(*   - the driver (ath9k xmit.c, debug.c) looks up the power of a frame by *)
(*     its mark, a special one for probe responses.                        *)
(*                                                                         *)
(* Power is in steps of 0.5 dBm, the unit of the driver, and the rates of  *)
(* clients are Mbps.  Division is exact, where the code has floats.        *)
(***************************************************************************)
EXTENDS Integers, Sequences, FiniteSets

CONSTANTS
    Client,         \* stations that may associate with the home AP
    Neighbor,       \* neighbours that may announce their backhaul
    Rssi,           \* signal strengths of probe requests, dBm
    Rates,          \* tx bitrates of clients
    oldPower,       \* the power the driver would use anyway
    tpc_enabled,    \* whether the driver controls the power per frame
    MaxRequests,    \* bound: probe requests
    MaxFaults       \* bound: clients that leave, calls of iw that fail and
                    \* removals of entries from the driver's list

Unit == 432     \* a multiple of every rate
Other == 0      \* a probe request of a device that is not steered

ASSUME ProbeAssumption ==
    /\ IsFiniteSet(Client) /\ IsFiniteSet(Neighbor)
    /\ Rssi \subseteq Int \ {Other}
    /\ Rates \subseteq {r \in 1..54 : Unit % r = 0}
    /\ oldPower \in 0..63
    /\ tpc_enabled \in BOOLEAN
    /\ MaxRequests \in Nat /\ MaxFaults \in Nat

VARIABLES
    associated,     \* what iw station dump lists
    tbl,            \* ReadinessToServe.tbl: samples of each client
    infoAvBackhaulMap,
    rts,            \* the ReadinessToServe thread
    up,             \* 30 s have passed since the application started
    queue,          \* probe requests published by hostapd
    probe,          \* the probe request thread
    per_flow_txpower,   \* the driver's list, by mark
    last,           \* history: the request the powers were last worked out for
    grown,          \* history: a table has grown under an iteration
    requests, leaves, fails, resets     \* how often the bounded actions happened

bounds == <<requests, leaves, fails, resets>>
history == <<last, grown>>
tables == <<associated, tbl, infoAvBackhaulMap>>
vars == <<tables, rts, up, queue, probe, per_flow_txpower, history, bounds>>

HOME == 10002           \* mark of probe responses that were not injected
NEIGHBOR == 10001       \* mark of injected ones
Mark == {HOME, NEIGHBOR}
NoEntry == -1
MAX_RATE_POWER == 63    \* of the hardware
MAX_TX_POWER == 32      \* max_tx_power_dbm, 16 dBm
MinSamples == 2         \* two samples make one throughput value

Waiting == [pc |-> "recv", rssi |-> 0, seen |-> {}, size |-> 0, load |-> 0,
            zero |-> FALSE, home |-> 0, neighbor |-> 0]

Init ==
    /\ associated = {} /\ tbl = [c \in {} |-> 0] /\ infoAvBackhaulMap = {}
    /\ rts = [pc |-> "list", addrs |-> {}]
    /\ up = FALSE /\ queue = <<>> /\ probe = Waiting
    /\ per_flow_txpower = [m \in Mark |-> NoEntry]
    /\ last = [home |-> NoEntry, neighbor |-> NoEntry]
    /\ grown = FALSE
    /\ requests = 0 /\ leaves = 0 /\ fails = 0 /\ resets = 0

Faulty == leaves + fails + resets < MaxFaults

Lesser(x, y) == IF x < y THEN x ELSE y
Greater(x, y) == IF x > y THEN x ELSE y

-----------------------------------------------------------------------------
(* The power of a probe response                                           *)

\* PhyDataRateCalculator: the weakest signal at which a rate can be used.
data_rate_sensitivity_tbl ==
    [r \in {6, 9, 12, 18, 24, 36, 48, 54} |->
        CASE r = 6 -> -86 [] r = 9 -> -84 [] r = 12 -> -82 [] r = 18 -> -80
          [] r = 24 -> -77 [] r = 36 -> -74 [] r = 48 -> -72 [] r = 54 -> -70]

get_phy_bitrate(rssi) ==
    LET usable == {1} \cup {r \in DOMAIN data_rate_sensitivity_tbl :
                              data_rate_sensitivity_tbl[r] <= rssi}
    IN  CHOOSE r \in usable : \A o \in usable : o <= r

\* The time a client takes for a fixed amount of data.
Share(rate) == Unit \div rate

\* WifiCapacityEstimator.get_normalized, times 80: the throughput each client
\* gets when all have an equal share, relative to 35 Mbps and at most 1, over
\* a backhaul of 50 Mbps.
get_normalized80(load) ==
    LET wifi == (80 * Unit) \div (35 * load)
        backhaul == (80 * 50) \div 35
    IN  Lesser(80, Lesser(wifi, backhaul))

\* ProbeReplyTxPowerCtrl.calc_tx_power, in steps of 0.5 dBm: the nearer the
\* station, the less power is needed; the more capacity, the more is used.
calc_tx_power(rssi, load) ==
    LET tx_power_low == Greater(1, 16 - (rssi + 90))
    IN  Lesser(MAX_TX_POWER, 2 * tx_power_low + get_normalized80(load))

-----------------------------------------------------------------------------
(* Stations, neighbours and time                                           *)

Join(c) ==
    /\ c \notin associated
    /\ associated' = associated \cup {c}
    /\ UNCHANGED <<tbl, infoAvBackhaulMap, rts, up, queue, probe, per_flow_txpower, history, bounds>>

Leave(c) ==
    /\ Faulty
    /\ c \in associated
    /\ associated' = associated \ {c}
    /\ leaves' = leaves + 1
    /\ UNCHANGED <<tbl, infoAvBackhaulMap, rts, up, queue, probe, per_flow_txpower,
                   history, requests, fails, resets>>

\* process_msg for an av_backhaul_announcement, in the receive thread.  The
\* numbers announced are kept, and not used.
Announce(p) ==
    /\ p \notin infoAvBackhaulMap
    /\ infoAvBackhaulMap' = infoAvBackhaulMap \cup {p}
    /\ grown' = (grown \/ probe.pc = "neighbors")
    /\ UNCHANGED <<associated, tbl, rts, up, queue, probe, per_flow_txpower,
                   last, bounds>>

StartUp ==
    /\ ~up
    /\ up' = TRUE
    /\ UNCHANGED <<tables, rts, queue, probe, per_flow_txpower, history, bounds>>

\* iw may fail: getInfoOfAssociatedSTAs then returns None.
Iw(ok) ==
    /\ ok \/ Faulty
    /\ fails' = IF ok THEN fails ELSE fails + 1

-----------------------------------------------------------------------------
(* ReadinessToServe.run                                                    *)

EnteredNot == tbl       \* mutant: new clients are sampled without an entry

Entered ==
    [c \in DOMAIN tbl \cup associated |-> IF c \in DOMAIN tbl THEN tbl[c] ELSE 0]

\* New clients are entered.  Iterating over None ends the thread.
RtsList(ok) ==
    /\ rts.pc = "list"
    /\ Iw(ok)
    /\ IF ok
       THEN /\ rts' = [pc |-> "sample", addrs |-> associated]
            /\ tbl' = Entered
            /\ grown' = (grown \/ (probe.pc = "clients" /\ associated \ DOMAIN tbl # {}))
       ELSE /\ rts' = [rts EXCEPT !.pc = "dead"]
            /\ UNCHANGED <<tbl, grown>>
    /\ UNCHANGED <<associated, infoAvBackhaulMap, up, queue, probe, per_flow_txpower, last,
                   requests, leaves, resets>>

\* getMACTxBytesStation returns 0 if iw fails and raises KeyError if the
\* client has left since; it never returns None, so nothing is ever deleted.
RtsSample(c, ok) ==
    /\ rts.pc = "sample"
    /\ c \in rts.addrs
    /\ Iw(ok)
    /\ IF ok /\ c \notin associated
       THEN /\ rts' = [rts EXCEPT !.pc = "dead"]
            /\ UNCHANGED tbl
       ELSE /\ rts' = [rts EXCEPT !.addrs = @ \ {c}]
            /\ tbl' = [tbl EXCEPT ![c] = Lesser(MinSamples, @ + 1)]
    /\ UNCHANGED <<associated, infoAvBackhaulMap, up, queue, probe, per_flow_txpower, history,
                   requests, leaves, resets>>

RtsSleep ==
    /\ rts.pc = "sample" /\ rts.addrs = {}
    /\ rts' = [rts EXCEPT !.pc = "list"]
    /\ UNCHANGED <<tables, up, queue, probe, per_flow_txpower, history, bounds>>

-----------------------------------------------------------------------------
(* hostapd and the driver                                                  *)

\* handle_probe_req: the request is published, and answered some 10 ms later,
\* whether or not its power has been worked out by then.
handle_probe_req(rssi) ==
    /\ requests < MaxRequests
    /\ queue' = Append(queue, rssi)
    /\ requests' = requests + 1
    /\ UNCHANGED <<tables, rts, up, probe, per_flow_txpower, history,
                   leaves, fails, resets>>

\* ath_overwrite_rate_txpower: the power of a probe response that goes out now,
\* of the home AP or, injected, of a neighbour's.
ath_overwrite_rate_txpower(mark) ==
    IF ~tpc_enabled THEN MAX_RATE_POWER
    ELSE IF per_flow_txpower[mark] = NoEntry THEN oldPower
    ELSE per_flow_txpower[mark]

\* write_file_per_flow_tx_power for a positive mark: an entry is updated, or a
\* new one inserted.  The power is a u8.
Written(mark, power) == [per_flow_txpower EXCEPT ![mark] = power % 256]

\* A negative mark removes its entry, mark 0 all entries.
RemoveFlows(M) ==
    /\ Faulty
    /\ per_flow_txpower' = [m \in Mark |-> IF m \in M THEN NoEntry
                                           ELSE per_flow_txpower[m]]
    /\ resets' = resets + 1
    /\ UNCHANGED <<tables, rts, up, queue, probe, history,
                   requests, leaves, fails>>

-----------------------------------------------------------------------------
(* The probe request thread: subscribeToProbeRequests, probeReqRec_cb,     *)
(* calculate_preply_tx_power, set_proberesponse_TXPWR.  No exception is    *)
(* caught, so one ends the thread.                                         *)

Dead == [Waiting EXCEPT !.pc = "dead"]

probeReqRec_cb ==
    LET m == Head(queue)
    IN  /\ probe.pc = "recv" /\ queue # <<>>
        /\ queue' = Tail(queue)
        /\ probe' = IF m # Other /\ up
                    THEN [Waiting EXCEPT !.pc = "clients", !.rssi = m,
                                         !.size = Cardinality(DOMAIN tbl)]
                    ELSE Waiting
        /\ UNCHANGED <<tables, rts, up, per_flow_txpower, history, bounds>>

\* getTxBitrateStation: 0 for a client that has left, and if iw fails.
Bitrate(c, ok) == IF ok /\ c \in associated THEN Rates ELSE {0}

\* One client of the table.  It is left out if it has too few samples, or if its
\* byte count has dropped between the first and the last one: it has associated
\* anew, or iw has failed and 0 was taken for the count.  A rate of 0 is divided
\* by later.
NextClient(c, ok, rate) ==
    /\ probe.pc = "clients"
    /\ c \in DOMAIN tbl \ probe.seen
    /\ Cardinality(DOMAIN tbl) = probe.size
    /\ \/ /\ tbl[c] >= MinSamples
          /\ Iw(ok)
          /\ rate \in Bitrate(c, ok)
          /\ probe' = [probe EXCEPT
                         !.seen = probe.seen \cup {c},
                         !.load = IF rate > 0 THEN probe.load + Share(rate) ELSE probe.load,
                         !.zero = probe.zero \/ rate = 0]
       \/ /\ tbl[c] < MinSamples \/ leaves > 0 \/ fails > 0
          /\ ok /\ rate = 0
          /\ probe' = [probe EXCEPT !.seen = @ \cup {c}]
          /\ UNCHANGED fails
    /\ UNCHANGED <<tables, rts, up, queue, per_flow_txpower, history, requests, leaves, resets>>

\* Python notices when the next element is asked for, also after the last one.
Resized == probe.pc = "clients" /\ Cardinality(DOMAIN tbl) # probe.size

IterationFails ==
    /\ Resized \/ (probe.pc = "neighbors" /\ Cardinality(infoAvBackhaulMap) # probe.size)
    /\ probe' = Dead
    /\ UNCHANGED <<tables, rts, up, queue, per_flow_txpower, history, bounds>>

\* Mutant: the new client itself is not counted, and the cell may be empty.
HomePowerAlone ==
    /\ probe.pc = "clients" /\ ~Resized
    /\ DOMAIN tbl \subseteq probe.seen
    /\ probe' = IF probe.zero \/ probe.load = 0 THEN Dead
                ELSE [probe EXCEPT
                        !.pc = "neighbors", !.size = Cardinality(infoAvBackhaulMap),
                        !.home = calc_tx_power(probe.rssi, probe.load)]
    /\ UNCHANGED <<tables, rts, up, queue, per_flow_txpower, history, bounds>>

\* The power of the home AP; a rate of 0 is a ZeroDivisionError, and the result
\* is asserted to be between 0 and max_tx_power_dbm.
HomePower ==
    /\ probe.pc = "clients" /\ ~Resized
    /\ DOMAIN tbl \subseteq probe.seen
    /\ LET load == probe.load + Share(get_phy_bitrate(probe.rssi))
           power == calc_tx_power(probe.rssi, load)
       IN  probe' = IF probe.zero \/ power \notin 0..MAX_TX_POWER THEN Dead
                    ELSE [probe EXCEPT
                            !.pc = "neighbors", !.load = load, !.home = power,
                            !.size = Cardinality(infoAvBackhaulMap)]
    /\ UNCHANGED <<tables, rts, up, queue, per_flow_txpower, history, bounds>>

\* The power of the neighbours is that of the last of them, and the rates are
\* the same for all; without one it is 20 dBm.
NeighborPower ==
    /\ probe.pc = "neighbors"
    /\ Cardinality(infoAvBackhaulMap) = probe.size
    /\ LET neighbor == IF infoAvBackhaulMap = {} THEN 40
                       ELSE calc_tx_power(probe.rssi, probe.load)
       IN  /\ probe' = [probe EXCEPT !.pc = "home", !.neighbor = neighbor]
           /\ last' = [home |-> probe.home, neighbor |-> neighbor]
    /\ UNCHANGED <<tables, rts, up, queue, per_flow_txpower, grown, bounds>>

\* Mutant: the two powers are swapped.
WriteHomeSwapped ==
    /\ probe.pc = "home"
    /\ per_flow_txpower' = Written(HOME, probe.neighbor)
    /\ probe' = [probe EXCEPT !.pc = "write"]
    /\ UNCHANGED <<tables, rts, up, queue, history, bounds>>

\* Mutant: the second command is left out.
WriteHomeOnly ==
    /\ probe.pc = "home"
    /\ per_flow_txpower' = Written(HOME, probe.home)
    /\ probe' = Waiting
    /\ UNCHANGED <<tables, rts, up, queue, history, bounds>>

\* set_proberesponse_TXPWR: two commands, one after the other.
WriteHome ==
    /\ probe.pc = "home"
    /\ per_flow_txpower' = Written(HOME, probe.home)
    /\ probe' = [probe EXCEPT !.pc = "write"]
    /\ UNCHANGED <<tables, rts, up, queue, history, bounds>>

WriteNeighbor ==
    /\ probe.pc = "write"
    /\ per_flow_txpower' = Written(NEIGHBOR, probe.neighbor)
    /\ probe' = Waiting
    /\ UNCHANGED <<tables, rts, up, queue, history, bounds>>

-----------------------------------------------------------------------------
ReadinessToServe ==
    \/ \E ok \in BOOLEAN : RtsList(ok) \/ \E c \in Client : RtsSample(c, ok)
    \/ RtsSleep

ProbeThread ==
    \/ probeReqRec_cb
    \/ \E c \in Client, ok \in BOOLEAN, rate \in Rates \cup {0} : NextClient(c, ok, rate)
    \/ IterationFails
    \/ HomePower
    \/ NeighborPower
    \/ WriteHome
    \/ WriteNeighbor

Next ==
    \/ \E c \in Client : Join(c) \/ Leave(c)
    \/ \E p \in Neighbor : Announce(p)
    \/ StartUp
    \/ ReadinessToServe
    \/ \E rssi \in Rssi \cup {Other} : handle_probe_req(rssi)
    \/ \E M \in {Mark, {HOME}, {NEIGHBOR}} : RemoveFlows(M)
    \/ ProbeThread

Spec == Init /\ [][Next]_vars

-----------------------------------------------------------------------------
(* Properties                                                              *)

\* Each variable holds values of the kind the code gives it; every client that is
\* being sampled has an entry in the table.
TypeOK ==
    /\ associated \subseteq Client
    /\ DOMAIN tbl \subseteq Client /\ \A c \in DOMAIN tbl : tbl[c] \in 0..MinSamples
    /\ infoAvBackhaulMap \subseteq Neighbor
    /\ rts \in [pc : {"list", "sample", "dead"}, addrs : SUBSET Client]
    /\ rts.pc = "sample" => rts.addrs \subseteq DOMAIN tbl
    /\ up \in BOOLEAN /\ queue \in Seq(Rssi \cup {Other})
    /\ probe \in [pc : {"recv", "clients", "neighbors", "home", "write", "dead"},
                   rssi : Rssi \cup {0}, seen : SUBSET Client, size : Nat,
                   load : Nat, zero : BOOLEAN, home : 0..255, neighbor : 0..255]
    /\ per_flow_txpower \in [Mark -> 0..255 \cup {NoEntry}]
    /\ grown \in BOOLEAN
    /\ requests \in 0..MaxRequests
    /\ leaves \in Nat /\ fails \in Nat /\ resets \in Nat
    /\ leaves + fails + resets <= MaxFaults

\* However loaded the cell is and however near the station, a power that was
\* worked out lies between 1 and 16 dBm: a response never goes out with 0, which
\* the hardware takes for full power ("0 -> max power", cran.py), and only an
\* injected one with the 20 dBm that stand for no neighbour.
RepliesInRange ==
    \A m \in Mark :
        \/ ath_overwrite_rate_txpower(m) \in {oldPower, MAX_RATE_POWER} \cup 2..MAX_TX_POWER
        \/ m = NEIGHBOR /\ ath_overwrite_rate_txpower(m) = 40

\* Except between the two writes of set_proberesponse_TXPWR, the entries of the
\* driver's list belong to one and the same request, the last one that was
\* worked out, or were removed since, whichever thread has ended.
EntriesMatch ==
    LET new == [m \in Mark |-> IF m = HOME THEN last.home ELSE last.neighbor]
        writing == CASE probe.pc = "home" -> Mark
                     [] probe.pc = "write" -> {NEIGHBOR}
                     [] OTHER -> {}
    IN  \A m \in Mark \ writing :
            \/ per_flow_txpower[m] = new[m]
            \/ resets > 0 /\ per_flow_txpower[m] = NoEntry

\* The probe request thread ends only after a client has left, iw has failed,
\* or a table has grown while the thread was going through it; the thread of
\* ReadinessToServe only after one of the first two.
DeathsExplained ==
    /\ probe.pc = "dead" => leaves > 0 \/ fails > 0 \/ grown
    /\ rts.pc = "dead" => leaves > 0 \/ fails > 0

=============================================================================
