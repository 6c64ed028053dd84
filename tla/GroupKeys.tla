------------------------------ MODULE GroupKeys ------------------------------
(***************************************************************************)
(* The group key of an agent A as a neighbour B follows it.  A replaces    *)
(* its key every interval, puts the new one in its probe responses and     *)
(* floods a key change message (kcm) under the old key (changeKeys).  B    *)
(* decrypts what A publishes with the key of A's entry or the one before,  *)
(* rescans A on a kcm and after several undecodable messages, and removes  *)
(* A if no kcm came for three intervals (initForwardingTTL,                *)
(* receiveMessage, rescan_neighbor, validateCurrentNeighborList).          *)
(*                                                                         *)
(* Keys are numbered.  Of B's events only NeighborUpdate is kept, the one  *)
(* that separates its forwarder from an update of the entry.               *)
(***************************************************************************)
EXTENDS Integers, Sequences

CONSTANTS
    LostLimit,      \* undecodable messages that trigger a rescan (5)
    Retries,        \* scans in one rescan (10)
    ExpireAfter,    \* intervals without a kcm before A is removed (3)
    Capacity,       \* bound: messages on the link
    MaxTime,        \* bound: key change intervals
    MaxLoss         \* bound: messages lost on the link

ASSUME KeysAssumption ==
    /\ LostLimit \in Nat \ {0} /\ Retries \in Nat \ {0} /\ ExpireAfter \in Nat \ {0}
    /\ Capacity \in Nat \ {0} /\ MaxTime \in Nat /\ MaxLoss \in Nat

VARIABLES
    now,            \* the current interval
    key,            \* A's group key
    beacon,         \* the key in A's probe responses
    a,              \* A's key change thread: asleep, or what it does next
    link,           \* from A's FWD socket to B's forwarder
    entry,          \* A's entry in B's list, or Gone
    fwd, hand, capt,    \* B's forwarder, its message and its lasthop_key
    rxq, rx,        \* B's receive thread
    cc,      \* the scan each of the two threads is at, and its success
    NeighborUpdate, \* B's event
    kcmSeen,        \* history: when B last dealt with a kcm
    validated,      \* the last interval in which B checked its list
    losses

vars == <<now, key, beacon, a, link, entry, fwd, hand, capt, rxq, rx, cc,
          NeighborUpdate, kcmSeen, validated, losses>>
aVars == <<now, key, beacon, a>>
bVars == <<entry, fwd, hand, capt, rxq, rx, cc, NeighborUpdate, kcmSeen,
           validated>>

Gone == [gone |-> TRUE]
Present == entry # Gone

Message == [kind : {"data", "kcm"}, key : Nat]

\* No old key: oldEncryptionKey = 0.
NoKey == -1

Entry == [enc : Nat, old : Nat \cup {NoKey}, lost : Nat, ts : Nat]

Init ==
    /\ now = 0 /\ key = 0 /\ beacon = 0 /\ a = "asleep"
    /\ link = <<>>
    /\ entry = [enc |-> 0, old |-> NoKey, lost |-> 0, ts |-> 0]
    /\ fwd = "home" /\ hand = [kind |-> "data", key |-> 0] /\ capt = 0
    /\ rxq = <<>> /\ rx = "home"
    /\ cc = [t \in {"fwd", "rx"} |-> 0]
    /\ NeighborUpdate = TRUE
    /\ kcmSeen = 0 /\ validated = 0 /\ losses = 0

-----------------------------------------------------------------------------
(* Agent A                                                                 *)

\* Nothing of the last change is under way.
Settled ==
    /\ a = "asleep"
    /\ fwd = "dead" \/ (fwd = "home" /\ link = <<>>)
    /\ rx = "dead" \/ (rx = "home" /\ rxq = <<>>)

\* The interval is over: changeKeys wakes up and draws a key.  An interval
\* (6000 s) is longer than it takes to handle what was sent in it.
NewKey ==
    /\ Settled /\ now < MaxTime
    /\ now' = now + 1
    /\ key' = key + 1
    /\ a' = "drawn"
    /\ UNCHANGED <<beacon, link, bVars, losses>>

\* addIEtoProbeResponses
Announce ==
    /\ a = "drawn"
    /\ beacon' = key
    /\ a' = "announced"
    /\ UNCHANGED <<now, key, link, bVars, losses>>

\* Mutant: the kcm goes out under the new key.
SendKcmNew ==
    /\ a = "announced"
    /\ Len(link) < Capacity
    /\ link' = Append(link, [kind |-> "kcm", key |-> key])
    /\ a' = "asleep"
    /\ UNCHANGED <<now, key, beacon, bVars, losses>>

\* sendCtrlToNeighbors, with the old key
SendKcm ==
    /\ a = "announced"
    /\ Len(link) < Capacity
    /\ link' = Append(link, [kind |-> "kcm", key |-> key - 1])
    /\ a' = "asleep"
    /\ UNCHANGED <<now, key, beacon, bVars, losses>>

\* Anything else A publishes or forwards, at any time.
SendData ==
    /\ Len(link) < Capacity
    /\ link' = Append(link, [kind |-> "data", key |-> key])
    /\ UNCHANGED <<aVars, bVars, losses>>

Lose ==
    /\ losses < MaxLoss
    /\ link # <<>>
    /\ link' = Tail(link)
    /\ losses' = losses + 1
    /\ UNCHANGED <<aVars, bVars>>

-----------------------------------------------------------------------------
(* B rescans A, in its forwarder or in its receive thread                  *)

\* Mutant: the entry keeps its time stamp.
UpdatedUntimed == [enc |-> beacon, old |-> entry.enc, lost |-> entry.lost, ts |-> entry.ts]

\* The entry after a scan that found another key (parse_existing_neighbor).
Updated == [enc |-> beacon, old |-> entry.enc, lost |-> entry.lost, ts |-> now]

At(t, label) == IF t = "fwd" THEN fwd = label ELSE rx = label

Go(t, label) ==
    IF t = "fwd" THEN fwd' = label /\ UNCHANGED rx ELSE rx' = label /\ UNCHANGED fwd

\* clear() and the first lines of rescan_neighbor
BeginScan(t) ==
    /\ NeighborUpdate' = FALSE
    /\ cc' = [cc EXCEPT ![t] = 0]

\* Mutant: one scan too many.
ScanPastEnd(t, heard) ==
    LET new == heard /\ Present /\ beacon # entry.enc
        last == cc[t] = Retries
    IN  /\ At(t, "scan")
        /\ entry' = IF new THEN Updated ELSE entry
        /\ cc' = [cc EXCEPT ![t] = IF new \/ last THEN @ ELSE @ + 1]
        /\ Go(t, IF heard /\ ~Present THEN "dead"
                 ELSE IF new \/ last THEN "scanned" ELSE "scan")
        /\ UNCHANGED <<aVars, link, hand, capt, rxq, NeighborUpdate, kcmSeen,
                       validated, losses>>

\* One scan, which hears A or not.  The key B has already does not count.  If
\* the entry is gone, a thread that looks at it ends with an exception.
Scan(t, heard) ==
    LET new == heard /\ Present /\ beacon # entry.enc
        last == cc[t] = Retries - 1
    IN  /\ At(t, "scan")
        /\ entry' = IF new THEN Updated ELSE entry
        /\ cc' = [cc EXCEPT ![t] = IF new \/ last THEN @ ELSE @ + 1]
        /\ Go(t, IF heard /\ ~Present THEN "dead"
                 ELSE IF new \/ last THEN "scanned" ELSE "scan")
        /\ UNCHANGED <<aVars, link, hand, capt, rxq, NeighborUpdate, kcmSeen,
                       validated, losses>>

\* After the loop: the number of the last scan decides.
Scanned(t) ==
    LET remove == cc[t] = Retries - 1
    IN  /\ At(t, "scanned")
        /\ IF remove /\ ~Present
           THEN Go(t, "dead") /\ UNCHANGED <<entry, NeighborUpdate>>
           ELSE /\ Go(t, "home")
                /\ entry' = IF remove THEN Gone ELSE entry
                /\ NeighborUpdate' = TRUE
        /\ UNCHANGED <<aVars, link, hand, capt, rxq, cc, kcmSeen,
                       validated, losses>>

-----------------------------------------------------------------------------
(* B's forwarder                                                           *)

FwdTake ==
    /\ fwd = "home" /\ link # <<>>
    /\ hand' = Head(link)
    /\ link' = Tail(link)
    /\ fwd' = "wait"
    /\ UNCHANGED <<aVars, entry, capt, rxq, rx, cc, NeighborUpdate, kcmSeen,
                   validated, losses>>

\* The forwarder's wait for NeighborUpdate returns.
FwdWait ==
    /\ NeighborUpdate
    /\ \/ fwd = "wait" /\ fwd' = "decode"
       \/ fwd = "pause" /\ fwd' = "again"
       \/ fwd = "ask" /\ fwd' = "clear"
    /\ UNCHANGED <<aVars, link, entry, hand, capt, rxq, rx, cc, NeighborUpdate,
                   kcmSeen, validated, losses>>

Verifies(k) == k \in {entry.enc, entry.old}

\* The receive thread gets the message; data it gives to the application.
Pass ==
    /\ rxq' = IF hand.kind = "kcm" THEN Append(rxq, hand.kind) ELSE rxq
    /\ entry' = [entry EXCEPT !.lost = 0]
    /\ fwd' = "home"

\* First try: the key of the entry, which is remembered, and the one before.
FwdDecode ==
    /\ fwd = "decode"
    /\ \/ ~Present /\ fwd' = "home" /\ UNCHANGED <<entry, capt, rxq>>
       \/ Present /\ Verifies(hand.key) /\ Pass /\ capt' = entry.enc
       \/ /\ Present /\ ~Verifies(hand.key)
          /\ capt' = entry.enc
          /\ fwd' = "pause"
          /\ UNCHANGED <<entry, rxq>>
    /\ UNCHANGED <<aVars, link, hand, rx, cc, NeighborUpdate, kcmSeen, validated, losses>>

\* Mutant: a lost message is not counted.
FwdRetryUncounted ==
    /\ fwd = "again"
    /\ fwd' = "home"
    /\ UNCHANGED <<aVars, link, entry, hand, capt, rxq, rx, cc, NeighborUpdate,
                   kcmSeen, validated, losses>>

\* Second try, with the key remembered from the first.
FwdRetry ==
    /\ fwd = "again"
    /\ \/ ~Present /\ fwd' = "dead" /\ UNCHANGED <<entry, rxq>>
       \/ Present /\ hand.key = capt /\ Pass
       \/ /\ Present /\ hand.key # capt
          /\ UNCHANGED rxq
          /\ IF entry.lost + 1 >= LostLimit
             THEN fwd' = "ask" /\ entry' = [entry EXCEPT !.lost = 0]
             ELSE fwd' = "home" /\ entry' = [entry EXCEPT !.lost = @ + 1]
    /\ UNCHANGED <<aVars, link, hand, capt, rx, cc, NeighborUpdate, kcmSeen,
                   validated, losses>>

FwdRescan ==
    /\ fwd = "clear"
    /\ BeginScan("fwd")
    /\ fwd' = IF Present THEN "scan" ELSE "dead"
    /\ UNCHANGED <<aVars, link, entry, hand, capt, rxq, rx, kcmSeen, validated, losses>>

-----------------------------------------------------------------------------
(* B's receive and key change threads                                      *)

RxTake ==
    /\ rx = "home" /\ rxq # <<>>
    /\ rxq' = Tail(rxq)
    /\ rx' = "kcm"
    /\ UNCHANGED <<aVars, link, entry, fwd, hand, capt, cc, NeighborUpdate,
                   kcmSeen, validated, losses>>

\* receiveMessage clears the event, and looks A up.
RxKcm ==
    /\ rx = "kcm"
    /\ IF Present
       THEN BeginScan("rx") /\ rx' = "scan" /\ kcmSeen' = now
       ELSE NeighborUpdate' = TRUE /\ rx' = "home" /\ UNCHANGED <<cc, kcmSeen>>
    /\ UNCHANGED <<aVars, link, entry, fwd, hand, capt, rxq, validated, losses>>

\* validateCurrentNeighborList, in B's round of the same interval
Validate ==
    /\ validated < now
    /\ validated' = now
    /\ NeighborUpdate' = TRUE
    /\ entry' = IF Present /\ now - entry.ts > ExpireAfter THEN Gone ELSE entry
    /\ UNCHANGED <<aVars, link, fwd, hand, capt, rxq, rx, cc, kcmSeen, losses>>

-----------------------------------------------------------------------------
StepA == Announce \/ SendKcm
StepFwd == FwdTake \/ FwdWait \/ FwdDecode \/ FwdRetry \/ FwdRescan
              \/ Scanned("fwd") \/ \E heard \in BOOLEAN : Scan("fwd", heard)
StepRx == RxTake \/ RxKcm \/ Scanned("rx") \/ \E heard \in BOOLEAN : Scan("rx", heard)

Next ==
    \/ NewKey \/ StepA \/ SendData \/ Lose
    \/ StepFwd \/ StepRx
    \/ Validate

Spec == Init /\ [][Next]_vars

\* The threads run, and A keeps publishing.
Fairness == WF_vars(StepA) /\ WF_vars(StepFwd) /\ WF_vars(StepRx) /\ WF_vars(SendData)

FairSpec == Spec /\ Fairness

-----------------------------------------------------------------------------
(* Properties                                                              *)

\* Each variable holds values of the kind the agents give it.
TypeOK ==
    /\ now \in Nat /\ key \in Nat /\ beacon \in Nat
    /\ a \in {"asleep", "drawn", "announced"}
    /\ link \in Seq(Message)
    /\ entry \in Entry \cup {Gone}
    /\ fwd \in {"home", "wait", "decode", "pause", "again", "ask", "clear", "scan",
               "scanned", "dead"}
    /\ hand \in Message /\ capt \in Nat
    /\ rxq \in Seq({"kcm"})
    /\ rx \in {"home", "kcm", "scan", "scanned", "dead"}
    /\ cc \in [{"fwd", "rx"} -> 0 .. Retries - 1]
    /\ NeighborUpdate \in BOOLEAN
    /\ kcmSeen \in Nat /\ validated \in Nat /\ losses \in Nat

\* When the handling of a change is over, with no message lost on the way
\* and both threads of B alive, B has the key A uses or has given A up:
\* whatever A published between the change and its kcm, whichever of B's
\* threads rescanned first, and at whatever point B read the entry.
AgreeWhenSettled ==
    Settled /\ losses = 0 /\ Present /\ fwd # "dead" /\ rx # "dead" =>
        entry.enc = key /\ beacon = key

\* After a change B comes to the new key, or gives A up: by the kcm, and when
\* the kcm is lost by the messages it cannot read.
Heals == <>[](entry = Gone \/ entry.enc = key \/ fwd = "dead")

\* A neighbour whose kcm B dealt with in the last ExpireAfter intervals is
\* not removed by validateCurrentNeighborList.
HeardNotExpired ==
    [][Validate /\ entry # entry' => now - kcmSeen > ExpireAfter]_vars
=============================================================================
