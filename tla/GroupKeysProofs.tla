--------------------------- MODULE GroupKeysProofs ---------------------------
(***************************************************************************)
(* Proofs about the group key, for every number of retries, every limit    *)
(* of lost messages and of silent intervals, and links of any capacity.    *)
(***************************************************************************)
EXTENDS GroupKeys, SequenceTheorems, TLAPS

\* Key and clock move together, and the probe responses follow.
ClockInv ==
    /\ now = key /\ kcmSeen <= now
    /\ a # "asleep" => key > 0
    /\ a = "drawn" => beacon = key - 1
    /\ a # "drawn" => beacon = key

\* The entry's keys are old ones, no newer than its time stamp.
OrderInv ==
    /\ entry.old <= entry.enc /\ entry.enc <= beacon /\ entry.enc <= entry.ts
    /\ capt <= entry.enc

\* Every kcm on its way is that of the last change.
Recent(m) == m.kind = "kcm" => m.key = key - 1

WayInv ==
    /\ \A i \in 1 .. Len(link) : Recent(link[i])
    /\ fwd # "home" => Recent(hand)

\* B dealt with a kcm, and has the key it announced or will remove A; until
\* then its entry is at most an interval old.
HeardInv ==
    /\ rxq # <<>> \/ rx = "kcm" => entry.ts >= now - 1
    /\ \/ kcmSeen <= entry.ts
       \/ /\ entry.ts >= now - 1
          /\ rx = "scan" \/ (rx = "scanned" /\ cc["rx"] = Retries - 1)

\* A kcm that B can read is on its way, or being dealt with.
KcmComing ==
    \/ \E i \in 1 .. Len(link) : link[i] = [kind |-> "kcm", key |-> key - 1]
    \/ fwd \in {"wait", "decode"} /\ hand = [kind |-> "kcm", key |-> key - 1]
    \/ rxq # <<>>
    \/ rx \in {"kcm", "scan"}
    \/ rx = "scanned" /\ cc["rx"] = Retries - 1

FollowInv ==
    losses = 0 =>
        /\ a = "drawn" => entry.enc = key - 1
        /\ a = "announced" => entry.enc \in {key - 1, key}
        /\ a = "asleep" => entry.enc = key \/ (entry.enc = key - 1 /\ KcmComing)

\* A thread of B ends only when A's entry is gone, and a removed entry stays so.
EntryInv ==
    Present => /\ fwd # "dead" /\ rx # "dead"
               /\ OrderInv /\ WayInv /\ HeardInv /\ FollowInv

\* The inductive invariant.
KeyInv == TypeOK /\ ClockInv /\ EntryInv

-----------------------------------------------------------------------------
(* Types                                                                   *)

\* What an entry that is there holds.
LEMMA EntryFields ==
    ASSUME TypeOK, Present
    PROVE  /\ entry \in Entry /\ entry.enc \in Nat /\ entry.old \in Int
           /\ entry.old \in Nat \cup {NoKey} /\ entry.lost \in Nat /\ entry.ts \in Nat
BY DEF TypeOK, Present, Entry, NoKey

\* A message joins a queue, or leaves it at the other end.
LEMMA LinkAppend ==
    ASSUME NEW s \in Seq(Message), NEW m \in Message
    PROVE  /\ Append(s, m) \in Seq(Message) /\ Len(Append(s, m)) = Len(s) + 1
           /\ \A i \in 1 .. Len(s) : Append(s, m)[i] = s[i]
           /\ Append(s, m)[Len(s) + 1] = m /\ Len(s) \in Nat
BY AppendProperties, LenProperties

\* What is left of the link when its first message is taken.
LEMMA LinkTail ==
    ASSUME NEW s \in Seq(Message), s # <<>>
    PROVE  /\ Tail(s) \in Seq(Message) /\ Len(s) \in Nat \ {0}
           /\ Len(Tail(s)) = Len(s) - 1
           /\ \A i \in 1 .. Len(s) - 1 : Tail(s)[i] = s[i + 1]
           /\ Head(s) = s[1] /\ Head(s) \in Message
<1>1. Len(s) \in Nat \ {0} /\ Len(Tail(s)) = Len(s) - 1 /\ Tail(s) \in Seq(Message)
      /\ \A i \in 1 .. Len(s) - 1 : Tail(s)[i] = s[i + 1]
  BY HeadTailProperties, EmptySeq, LenProperties
<1>2. Head(s) = s[1] /\ Head(s) \in Message
  BY <1>1, HeadTailProperties
<1> QED
  BY <1>1, <1>2

\* A kcm joins or leaves the receive queue.
LEMMA RxqTypes ==
    ASSUME NEW s \in Seq({"kcm"})
    PROVE  /\ Append(s, "kcm") \in Seq({"kcm"}) /\ Append(s, "kcm") # <<>>
           /\ s # <<>> => Tail(s) \in Seq({"kcm"})
<1>1. Append(s, "kcm") \in Seq({"kcm"}) /\ Len(Append(s, "kcm")) = Len(s) + 1 /\ Len(s) \in Nat
  BY AppendProperties, LenProperties
<1>2. Append(s, "kcm") # <<>>
  BY <1>1, EmptySeq
<1>3. s # <<>> => Tail(s) \in Seq({"kcm"})
  BY HeadTailProperties
<1> QED
  BY <1>1, <1>2, <1>3

-----------------------------------------------------------------------------
(* Agent A                                                                 *)

\* A new key is drawn when B is done with the last one.
LEMMA NewKeyStep ==
    ASSUME KeyInv, NewKey
    PROVE  KeyInv'
<1>1. /\ now' = now + 1 /\ key' = key + 1 /\ a' = "drawn" /\ a = "asleep" /\ Settled
      /\ UNCHANGED <<beacon, link, entry, fwd, hand, capt, rxq, rx, cc, NeighborUpdate,
                     kcmSeen, validated, losses>>
  BY DEF NewKey, Settled, bVars
<1>2. TypeOK'
  BY <1>1 DEF KeyInv, TypeOK
<1>3. now \in Nat /\ key \in Nat /\ kcmSeen \in Nat
  BY DEF KeyInv, TypeOK
<1>4. ClockInv'
  BY <1>1, <1>3 DEF KeyInv, ClockInv
<1>5. ASSUME Present' PROVE EntryInv'
  <2>1. Present /\ EntryInv
    BY <1>1, <1>5 DEF KeyInv, Present
  <2>2. /\ fwd = "home" /\ link = <<>> /\ rx = "home" /\ rxq = <<>>
        /\ OrderInv /\ HeardInv /\ FollowInv
    BY <1>1, <2>1 DEF EntryInv, Settled
  <2>3. entry.enc \in Nat /\ entry.ts \in Nat
    BY <2>1, EntryFields DEF KeyInv
  <2>4. losses = 0 => entry.enc = key
    BY <1>1, <2>2 DEF FollowInv, KcmComing
  <2>5. OrderInv'
    BY <1>1, <2>2 DEF OrderInv
  <2>6. WayInv'
    BY <1>1, <2>2 DEF WayInv
  <2>7. HeardInv'
    BY <1>1, <2>2 DEF HeardInv
  <2>8. FollowInv'
    BY <1>1, <1>3, <2>4 DEF FollowInv
  <2> QED
    BY <1>1, <2>2, <2>5, <2>6, <2>7, <2>8 DEF EntryInv
<1> QED
  BY <1>2, <1>4, <1>5 DEF KeyInv, EntryInv

\* The probe responses have the new key.
LEMMA AnnounceStep ==
    ASSUME KeyInv, Announce
    PROVE  KeyInv'
<1>1. /\ a = "drawn" /\ beacon' = key /\ a' = "announced"
      /\ UNCHANGED <<now, key, link, entry, fwd, hand, capt, rxq, rx, cc, NeighborUpdate,
                     kcmSeen, validated, losses>>
  BY DEF Announce, bVars
<1>2. TypeOK' /\ key \in Nat /\ beacon \in Nat
  BY <1>1 DEF KeyInv, TypeOK
<1>3. ClockInv'
  BY <1>1 DEF KeyInv, ClockInv
<1>4. ASSUME Present' PROVE EntryInv'
  <2>1. Present /\ EntryInv /\ fwd # "dead" /\ rx # "dead"
        /\ OrderInv /\ WayInv /\ HeardInv /\ FollowInv
    BY <1>1, <1>4 DEF KeyInv, Present, EntryInv
  <2>2. entry.enc \in Nat
    BY <2>1, EntryFields DEF KeyInv
  <2>3. OrderInv'
    BY <1>1, <1>2, <2>1, <2>2 DEF OrderInv, KeyInv, ClockInv
  <2>4. WayInv' /\ HeardInv'
    BY <1>1, <2>1 DEF WayInv, Recent, HeardInv
  <2>5. FollowInv'
    BY <1>1, <2>1 DEF FollowInv
  <2> QED
    BY <1>1, <2>1, <2>3, <2>4, <2>5 DEF EntryInv
<1> QED
  BY <1>2, <1>3, <1>4 DEF KeyInv, EntryInv

\* A publishes: a kcm under the old key, or anything else under the new one.
LEMMA SendStep ==
    ASSUME KeyInv, SendKcm \/ SendData
    PROVE  KeyInv'
<1>1. PICK m : /\ link' = Append(link, m) /\ m \in Message /\ Recent(m)
               /\ \/ a' = a
                  \/ /\ a = "announced" /\ a' = "asleep"
                     /\ m = [kind |-> "kcm", key |-> key - 1]
               /\ UNCHANGED <<now, key, beacon, entry, fwd, hand, capt, rxq, rx, cc,
                              NeighborUpdate, kcmSeen, validated, losses>>
  <2>1. CASE SendKcm
    <3>1. [kind |-> "kcm", key |-> key - 1] \in Message
      BY <2>1 DEF SendKcm, Message, KeyInv, TypeOK, ClockInv
    <3>2. Recent([kind |-> "kcm", key |-> key - 1])
      BY DEF Recent
    <3> QED
      BY <2>1, <3>1, <3>2 DEF SendKcm, bVars
  <2>2. CASE SendData
    <3>1. [kind |-> "data", key |-> key] \in Message
      BY DEF Message, KeyInv, TypeOK
    <3>2. Recent([kind |-> "data", key |-> key])
      BY DEF Recent
    <3> QED
      BY <2>2, <3>1, <3>2 DEF SendData, aVars, bVars
  <2> QED
    BY <2>1, <2>2
<1>2. /\ link \in Seq(Message) /\ link' \in Seq(Message) /\ Len(link) \in Nat
      /\ Len(link') = Len(link) + 1
      /\ \A i \in 1 .. Len(link) : link'[i] = link[i]
      /\ link'[Len(link) + 1] = m
  <2>1. link \in Seq(Message)
    BY DEF KeyInv, TypeOK
  <2> QED
    BY <1>1, <2>1, LinkAppend
<1>3. TypeOK'
  BY <1>1, <1>2 DEF KeyInv, TypeOK
<1>4. ClockInv'
  BY <1>1 DEF KeyInv, ClockInv
<1>5. ASSUME Present' PROVE EntryInv'
  <2>1. Present /\ fwd # "dead" /\ rx # "dead"
        /\ OrderInv /\ WayInv /\ HeardInv /\ FollowInv
    BY <1>1, <1>5 DEF KeyInv, Present, EntryInv
  <2>2. OrderInv'
    BY <1>1, <2>1 DEF OrderInv
  <2>3. \A i \in 1 .. Len(link') : Recent(link[i])'
    BY <1>1, <1>2, <2>1 DEF WayInv, Recent
  <2>4. WayInv' /\ HeardInv'
    BY <1>1, <2>1, <2>3 DEF WayInv, HeardInv, Recent
  <2>5. KcmComing => KcmComing'
    BY <1>1, <1>2 DEF KcmComing
  <2>6. m = [kind |-> "kcm", key |-> key - 1] => KcmComing'
    BY <1>1, <1>2 DEF KcmComing
  <2>7. FollowInv'
    BY <1>1, <2>1, <2>5, <2>6 DEF FollowInv
  <2> QED
    BY <1>1, <2>1, <2>2, <2>4, <2>7 DEF EntryInv
<1> QED
  BY <1>3, <1>4, <1>5 DEF KeyInv, EntryInv

\* A message is lost.
LEMMA LoseStep ==
    ASSUME KeyInv, Lose
    PROVE  KeyInv'
<1>1. /\ link # <<>> /\ link' = Tail(link) /\ losses' = losses + 1
      /\ UNCHANGED <<now, key, beacon, a, entry, fwd, hand, capt, rxq, rx, cc,
                     NeighborUpdate, kcmSeen, validated>>
  BY DEF Lose, aVars, bVars
<1>2. /\ link' \in Seq(Message) /\ Len(link) \in Nat \ {0} /\ Len(link') = Len(link) - 1
      /\ \A i \in 1 .. Len(link') : link'[i] = link[i + 1]
  BY <1>1, LinkTail DEF KeyInv, TypeOK
<1>3. TypeOK' /\ losses \in Nat
  BY <1>1, <1>2 DEF KeyInv, TypeOK
<1>4. ClockInv'
  BY <1>1 DEF KeyInv, ClockInv
<1>5. ASSUME Present' PROVE EntryInv'
  <2>1. Present /\ fwd # "dead" /\ rx # "dead" /\ OrderInv /\ WayInv /\ HeardInv
    BY <1>1, <1>5 DEF KeyInv, Present, EntryInv
  <2>2. OrderInv' /\ HeardInv'
    BY <1>1, <2>1 DEF OrderInv, HeardInv
  <2>3. WayInv'
    BY <1>1, <1>2, <2>1 DEF WayInv, Recent
  <2>4. FollowInv'
    BY <1>1, <1>3 DEF FollowInv
  <2> QED
    BY <1>1, <2>1, <2>2, <2>3, <2>4 DEF EntryInv
<1> QED
  BY <1>3, <1>4, <1>5 DEF KeyInv, EntryInv

-----------------------------------------------------------------------------
(* B rescans A                                                             *)

\* A scan finds a new key, is the last one, is repeated, or ends the thread.
LEMMA ScanCases ==
    ASSUME TypeOK, NEW t \in {"fwd", "rx"}, NEW heard \in BOOLEAN, Scan(t, heard)
    PROVE  /\ At(t, "scan") /\ cc' \in [{"fwd", "rx"} -> 0 .. Retries - 1]
           /\ \A u \in {"fwd", "rx"} : u # t => cc'[u] = cc[u]
           /\ UNCHANGED <<now, key, beacon, a, link, hand, capt, rxq, NeighborUpdate,
                          kcmSeen, validated, losses>>
           /\ \/ Present /\ entry' = Updated /\ Go(t, "scanned")
              \/ entry' = entry /\ cc'[t] = Retries - 1 /\ Go(t, "scanned")
              \/ entry' = entry /\ Go(t, "scan")
              \/ entry' = entry /\ ~Present /\ Go(t, "dead")
<1> DEFINE new == heard /\ Present /\ beacon # entry.enc
           last == cc[t] = Retries - 1
<1>1. /\ At(t, "scan") /\ entry' = IF new THEN Updated ELSE entry
      /\ cc' = [cc EXCEPT ![t] = IF new \/ last THEN cc[t] ELSE cc[t] + 1]
      /\ Go(t, IF heard /\ ~Present THEN "dead"
               ELSE IF new \/ last THEN "scanned" ELSE "scan")
      /\ UNCHANGED <<now, key, beacon, a, link, hand, capt, rxq, NeighborUpdate,
                     kcmSeen, validated, losses>>
  BY DEF Scan, aVars
<1>2. cc \in [{"fwd", "rx"} -> 0 .. Retries - 1] /\ Retries \in Nat \ {0}
  BY KeysAssumption DEF TypeOK
<1>3. CASE new
  <2>1. /\ cc' = [cc EXCEPT ![t] = cc[t]] /\ Present /\ entry' = Updated
        /\ Go(t, "scanned")
    BY <1>1, <1>3, Zenon
  <2> QED
    BY <1>1, <1>2, <2>1
<1>4. CASE ~new /\ last
  <2>1. /\ cc' = [cc EXCEPT ![t] = cc[t]] /\ entry' = entry
        /\ Go(t, "scanned") \/ (~Present /\ Go(t, "dead"))
    BY <1>1, <1>4, Zenon
  <2> QED
    BY <1>1, <1>2, <1>4, <2>1
<1>5. CASE ~new /\ ~last
  <2>1. /\ cc' = [cc EXCEPT ![t] = cc[t] + 1] /\ entry' = entry
        /\ Go(t, "scan") \/ (~Present /\ Go(t, "dead"))
    BY <1>1, <1>5, Zenon
  <2>2. cc[t] + 1 \in 0 .. Retries - 1
    BY <1>2, <1>5
  <2> QED
    BY <1>1, <1>2, <2>1, <2>2
<1> QED
  BY <1>3, <1>4, <1>5, Zenon

\* What a rescan writes.
LEMMA UpdatedFields ==
    ASSUME TypeOK, Present
    PROVE  /\ Updated \in Entry /\ Updated.enc = beacon /\ Updated.old = entry.enc
           /\ Updated.ts = now
BY EntryFields DEF Updated, Entry, TypeOK

\* A scan, in either thread.
LEMMA ScanStep ==
    ASSUME KeyInv, NEW t \in {"fwd", "rx"}, NEW heard \in BOOLEAN, Scan(t, heard)
    PROVE  KeyInv'
<1>1. /\ At(t, "scan") /\ cc' \in [{"fwd", "rx"} -> 0 .. Retries - 1]
      /\ \A u \in {"fwd", "rx"} : u # t => cc'[u] = cc[u]
      /\ UNCHANGED <<now, key, beacon, a, link, hand, capt, rxq, NeighborUpdate,
                     kcmSeen, validated, losses>>
      /\ \/ Present /\ entry' = Updated /\ Go(t, "scanned")
         \/ entry' = entry /\ cc'[t] = Retries - 1 /\ Go(t, "scanned")
         \/ entry' = entry /\ Go(t, "scan")
         \/ entry' = entry /\ ~Present /\ Go(t, "dead")
  BY ScanCases DEF KeyInv
<1>2. TypeOK'
  <2>1. entry' \in Entry \cup {Gone}
    BY <1>1, UpdatedFields DEF KeyInv, TypeOK
  <2>2. /\ fwd' \in {"home", "wait", "decode", "pause", "again", "ask", "clear", "scan",
                     "scanned", "dead"}
        /\ rx' \in {"home", "kcm", "scan", "scanned", "dead"}
    BY <1>1 DEF Go, KeyInv, TypeOK
  <2> QED
    BY <1>1, <2>1, <2>2 DEF KeyInv, TypeOK
<1>3. ClockInv'
  BY <1>1 DEF KeyInv, ClockInv
<1>4. ASSUME Present' PROVE EntryInv'
  <2>1. Present /\ fwd # "dead" /\ rx # "dead"
        /\ OrderInv /\ WayInv /\ HeardInv /\ FollowInv
    BY <1>1, <1>4 DEF KeyInv, Present, EntryInv
  <2>2. /\ entry.enc \in Nat /\ entry.ts \in Nat /\ entry.old \in Int
        /\ now \in Nat /\ key \in Nat /\ beacon \in Nat /\ kcmSeen \in Nat /\ capt \in Nat
    BY <2>1, EntryFields DEF KeyInv, TypeOK
  <2>3. now = key /\ kcmSeen <= now /\ beacon <= key
    BY <2>2 DEF KeyInv, ClockInv
  <2>4. fwd' # "dead" /\ rx' # "dead" /\ (fwd' # "home" => fwd # "home")
        /\ (rx' = "kcm" => rx = "kcm") /\ (rx = "kcm" => rx' = "kcm")
        /\ (fwd \in {"wait", "decode"} => fwd' = fwd)
    BY <1>1, <2>1 DEF Go, At
  <2>5. WayInv'
    BY <1>1, <2>1, <2>4 DEF WayInv, Recent
  <2>6. CASE entry' = Updated
    <3>1. entry'.enc = beacon /\ entry'.old = entry.enc /\ entry'.ts = now
      BY <2>1, <2>6, UpdatedFields DEF KeyInv
    <3>2. OrderInv'
      BY <1>1, <2>1, <2>2, <2>3, <3>1 DEF OrderInv
    <3>3. HeardInv'
      BY <1>1, <2>2, <2>3, <3>1 DEF HeardInv
    <3>4. FollowInv'
      BY <1>1, <3>1 DEF FollowInv, KeyInv, ClockInv
    <3> QED
      BY <2>4, <2>5, <3>2, <3>3, <3>4 DEF EntryInv
  <2>7. CASE entry' = entry /\ cc'[t] = Retries - 1 /\ Go(t, "scanned")
    <3>1. OrderInv'
      BY <1>1, <2>1, <2>7 DEF OrderInv
    <3>2. rx = "scan" => rx' = "scan" \/ (rx' = "scanned" /\ cc'["rx"] = Retries - 1)
      BY <2>7 DEF Go
    <3>3. rx = "scanned" => rx' = "scanned" /\ cc'["rx"] = cc["rx"]
      BY <1>1, <2>7 DEF Go, At
    <3>4. HeardInv'
      BY <1>1, <2>1, <2>4, <2>7, <3>2, <3>3 DEF HeardInv
    <3>5. KcmComing => KcmComing'
      BY <1>1, <2>4, <3>2, <3>3 DEF KcmComing
    <3>6. FollowInv'
      BY <1>1, <2>1, <2>7, <3>5 DEF FollowInv
    <3> QED
      BY <2>4, <2>5, <3>1, <3>4, <3>6 DEF EntryInv
  <2>8. CASE entry' = entry /\ Go(t, "scan")
    <3>1. OrderInv'
      BY <1>1, <2>1, <2>8 DEF OrderInv
    <3>2. rx = "scan" => rx' = "scan"
      BY <2>8 DEF Go
    <3>3. rx = "scanned" => rx' = "scanned" /\ cc'["rx"] = cc["rx"]
      BY <1>1, <2>8 DEF Go, At
    <3>4. HeardInv'
      BY <1>1, <2>1, <2>4, <2>8, <3>2, <3>3 DEF HeardInv
    <3>5. KcmComing => KcmComing'
      BY <1>1, <2>4, <3>2, <3>3 DEF KcmComing
    <3>6. FollowInv'
      BY <1>1, <2>1, <2>8, <3>5 DEF FollowInv
    <3> QED
      BY <2>4, <2>5, <3>1, <3>4, <3>6 DEF EntryInv
  <2> QED
    BY <1>1, <2>1, <2>6, <2>7, <2>8
<1> QED
  BY <1>2, <1>3, <1>4 DEF KeyInv, EntryInv

\* A rescan ends, and removes A after its last scan.
LEMMA ScannedStep ==
    ASSUME KeyInv, NEW t \in {"fwd", "rx"}, Scanned(t)
    PROVE  KeyInv'
<1>1. /\ At(t, "scanned")
      /\ UNCHANGED <<now, key, beacon, a, link, hand, capt, rxq, cc, kcmSeen, validated,
                     losses>>
      /\ \/ ~Present /\ Go(t, "dead") /\ UNCHANGED <<entry, NeighborUpdate>>
         \/ Go(t, "home") /\ entry' = Gone /\ NeighborUpdate' = TRUE
         \/ /\ Go(t, "home") /\ entry' = entry /\ NeighborUpdate' = TRUE
            /\ cc[t] # Retries - 1
  BY DEF Scanned, aVars
<1>2. TypeOK'
  BY <1>1 DEF KeyInv, TypeOK, Go
<1>3. ClockInv'
  BY <1>1 DEF KeyInv, ClockInv
<1>4. ASSUME Present' PROVE EntryInv'
  <2>1. /\ Present /\ fwd # "dead" /\ rx # "dead"
        /\ OrderInv /\ WayInv /\ HeardInv /\ FollowInv
        /\ Go(t, "home") /\ entry' = entry /\ cc[t] # Retries - 1
    BY <1>1, <1>4 DEF KeyInv, Present, EntryInv
  <2>2. fwd' # "dead" /\ rx' # "dead" /\ (fwd' # "home" => fwd' = fwd)
        /\ (fwd \in {"wait", "decode"} => fwd' = fwd)
        /\ (rx # "scanned" \/ cc["rx"] = Retries - 1 => rx' = rx)
        /\ (rx' # "home" => rx' = rx)
    BY <1>1, <2>1 DEF Go, At
  <2>3. OrderInv' /\ WayInv'
    BY <1>1, <2>1, <2>2 DEF OrderInv, WayInv, Recent
  <2>4. HeardInv'
    BY <1>1, <2>1, <2>2 DEF HeardInv
  <2>5. KcmComing => KcmComing'
    BY <1>1, <2>2 DEF KcmComing
  <2>6. FollowInv'
    BY <1>1, <2>1, <2>5 DEF FollowInv
  <2> QED
    BY <2>2, <2>3, <2>4, <2>6 DEF EntryInv
<1> QED
  BY <1>2, <1>3, <1>4 DEF KeyInv, EntryInv

-----------------------------------------------------------------------------
(* B's forwarder                                                           *)

\* A message is taken from the link.
LEMMA FwdTakeStep ==
    ASSUME KeyInv, FwdTake
    PROVE  KeyInv'
<1>1. /\ fwd = "home" /\ link # <<>> /\ hand' = Head(link) /\ link' = Tail(link)
      /\ fwd' = "wait"
      /\ UNCHANGED <<now, key, beacon, a, entry, capt, rxq, rx, cc, NeighborUpdate,
                     kcmSeen, validated, losses>>
  BY DEF FwdTake, aVars
<1>2. /\ link' \in Seq(Message) /\ Len(link) \in Nat \ {0} /\ Len(link') = Len(link) - 1
      /\ \A i \in 1 .. Len(link') : link'[i] = link[i + 1]
      /\ hand' = link[1] /\ hand' \in Message
  BY <1>1, LinkTail DEF KeyInv, TypeOK
<1>3. TypeOK'
  BY <1>1, <1>2 DEF KeyInv, TypeOK
<1>4. ClockInv'
  BY <1>1 DEF KeyInv, ClockInv
<1>5. ASSUME Present' PROVE EntryInv'
  <2>1. /\ Present /\ fwd # "dead" /\ rx # "dead"
        /\ OrderInv /\ WayInv /\ HeardInv /\ FollowInv
    BY <1>1, <1>5 DEF KeyInv, Present, EntryInv
  <2>2. OrderInv' /\ HeardInv'
    BY <1>1, <2>1 DEF OrderInv, HeardInv
  <2>3. WayInv'
    BY <1>1, <1>2, <2>1 DEF WayInv, Recent
  <2>4. KcmComing => KcmComing'
    <3>1. CASE \E i \in 1 .. Len(link) : link[i] = [kind |-> "kcm", key |-> key - 1]
      <4>1. PICK i \in 1 .. Len(link) : link[i] = [kind |-> "kcm", key |-> key - 1]
        BY <3>1
      <4>2. CASE i = 1
        BY <1>1, <1>2, <4>1, <4>2 DEF KcmComing
      <4>3. CASE i # 1
        <5>1. i - 1 \in 1 .. Len(link') /\ link'[i - 1] = link[i]
          BY <1>2, <4>3
        <5> QED
          BY <1>1, <4>1, <5>1 DEF KcmComing
      <4> QED
        BY <4>2, <4>3
    <3>2. CASE rxq # <<>> \/ rx \in {"kcm", "scan"} \/ (rx = "scanned" /\ cc["rx"] = Retries - 1)
      BY <1>1, <3>2 DEF KcmComing
    <3> QED
      BY <1>1, <3>1, <3>2 DEF KcmComing
  <2>5. FollowInv'
    BY <1>1, <2>1, <2>4 DEF FollowInv
  <2> QED
    BY <1>1, <2>1, <2>2, <2>3, <2>5 DEF EntryInv
<1> QED
  BY <1>3, <1>4, <1>5 DEF KeyInv, EntryInv

\* A step of the forwarder that leaves the keys of the entry and the queues
\* alone, and gives a kcm up only if B would not need it.
LEMMA ForwardStep ==
    ASSUME KeyInv,
           UNCHANGED <<now, key, beacon, a, link, hand, rxq, rx, kcmSeen, validated, losses>>,
           TypeOK', cc'["rx"] = cc["rx"], fwd # "home",
           Present' => /\ Present /\ fwd' # "dead" /\ capt' <= entry.enc
                       /\ entry'.enc = entry.enc /\ entry'.old = entry.old
                       /\ entry'.ts = entry.ts
                       /\ \/ fwd \notin {"wait", "decode"}
                          \/ fwd' \in {"wait", "decode"}
                          \/ hand # [kind |-> "kcm", key |-> entry.enc]
    PROVE  KeyInv'
<1>1. ClockInv'
  BY DEF KeyInv, ClockInv
<1>2. ASSUME Present' PROVE EntryInv'
  <2>1. /\ Present /\ fwd # "dead" /\ rx # "dead"
        /\ OrderInv /\ WayInv /\ HeardInv /\ FollowInv
    BY <1>2 DEF KeyInv, EntryInv
  <2>2. OrderInv'
    BY <1>2, <2>1 DEF OrderInv
  <2>3. WayInv' /\ HeardInv'
    BY <1>2, <2>1 DEF WayInv, Recent, HeardInv
  <2>4. entry.enc = key - 1 /\ KcmComing => KcmComing'
    BY <1>2 DEF KcmComing
  <2>5. FollowInv'
    BY <1>2, <2>1, <2>4 DEF FollowInv
  <2> QED
    BY <1>2, <2>1, <2>2, <2>3, <2>5 DEF EntryInv
<1> QED
  BY <1>1, <1>2 DEF KeyInv, EntryInv

\* The forwarder waited.
LEMMA FwdWaitStep ==
    ASSUME KeyInv, FwdWait
    PROVE  KeyInv'
<1>1. /\ \/ fwd = "wait" /\ fwd' = "decode"
         \/ fwd = "pause" /\ fwd' = "again"
         \/ fwd = "ask" /\ fwd' = "clear"
      /\ UNCHANGED <<now, key, beacon, a, link, entry, hand, capt, rxq, rx, cc,
                     NeighborUpdate, kcmSeen, validated, losses>>
  BY DEF FwdWait, aVars
<1>2. TypeOK'
  BY <1>1 DEF KeyInv, TypeOK
<1>3. Present' => Present /\ capt' <= entry.enc
  BY <1>1 DEF KeyInv, EntryInv, OrderInv, Present
<1> QED
  BY <1>1, <1>2, <1>3, ForwardStep

\* A rescan begins in the forwarder.
LEMMA FwdRescanStep ==
    ASSUME KeyInv, FwdRescan
    PROVE  KeyInv'
<1>1. /\ fwd = "clear" /\ fwd' = (IF Present THEN "scan" ELSE "dead")
      /\ NeighborUpdate' = FALSE /\ cc' = [cc EXCEPT !["fwd"] = 0]
      /\ UNCHANGED <<now, key, beacon, a, link, entry, hand, capt, rxq, rx,
                     kcmSeen, validated, losses>>
  BY DEF FwdRescan, BeginScan, aVars
<1>2. cc' \in [{"fwd", "rx"} -> 0 .. Retries - 1] /\ cc'["rx"] = cc["rx"]
  BY <1>1, KeysAssumption DEF KeyInv, TypeOK
<1>3. TypeOK'
  BY <1>1, <1>2 DEF KeyInv, TypeOK
<1>4. Present' => Present /\ capt' <= entry.enc
  BY <1>1 DEF KeyInv, EntryInv, OrderInv, Present
<1> QED
  BY <1>1, <1>2, <1>3, <1>4, ForwardStep

\* A counter of an entry changes, and nothing else of it.
LEMMA LostFields ==
    ASSUME NEW e \in Entry, NEW n \in Nat, NEW d, d = [e EXCEPT !.lost = n]
    PROVE  /\ d \in Entry /\ d.enc = e.enc /\ d.old = e.old /\ d.ts = e.ts
BY DEF Entry

\* A message is passed on: a kcm that could be read was sent in this interval.
LEMMA PassStep ==
    ASSUME KeyInv, Present, Pass, fwd # "home", capt' \in Nat,
           capt' <= entry.enc, hand.key <= entry.enc,
           UNCHANGED <<now, key, beacon, a, link, hand, rx, cc, NeighborUpdate, kcmSeen,
                       validated, losses>>
    PROVE  KeyInv'
<1>1. entry' = [entry EXCEPT !.lost = 0] /\ fwd' = "home"
      /\ rxq' = IF hand.kind = "kcm" THEN Append(rxq, hand.kind) ELSE rxq
  BY DEF Pass
<1>2. entry \in Entry /\ entry.enc \in Nat /\ entry.ts \in Nat
  BY EntryFields DEF KeyInv
<1>3. entry' \in Entry /\ entry'.enc = entry.enc /\ entry'.old = entry.old
      /\ entry'.ts = entry.ts
  BY <1>1, <1>2, LostFields
<1>4. rxq' \in Seq({"kcm"}) /\ (rxq # <<>> => rxq' # <<>>)
      /\ (hand.kind = "kcm" => rxq' # <<>>) /\ (hand.kind # "kcm" => rxq' = rxq)
  BY <1>1, RxqTypes DEF KeyInv, TypeOK
<1>5. TypeOK'
  BY <1>1, <1>3, <1>4 DEF KeyInv, TypeOK
<1>6. ClockInv'
  BY DEF KeyInv, ClockInv
<1>7. fwd # "dead" /\ rx # "dead" /\ OrderInv /\ WayInv /\ HeardInv /\ FollowInv
  BY DEF KeyInv, EntryInv
<1>8. OrderInv'
  BY <1>3, <1>7 DEF OrderInv
<1>9. WayInv'
  BY <1>1, <1>7 DEF WayInv, Recent
<1>10. hand.kind = "kcm" => entry.ts >= now - 1
  <2>1. hand.kind = "kcm" => hand.key = key - 1
    BY <1>7 DEF WayInv, Recent
  <2>2. key = now /\ now \in Nat
    BY DEF KeyInv, ClockInv, TypeOK
  <2>3. entry.enc <= entry.ts
    BY <1>7 DEF OrderInv
  <2> QED
    BY <1>2, <2>1, <2>2, <2>3
<1>11. HeardInv'
  BY <1>3, <1>4, <1>7, <1>10 DEF HeardInv
<1>12. KcmComing => KcmComing'
  BY <1>4 DEF KcmComing
<1>13. FollowInv'
  BY <1>3, <1>7, <1>12 DEF FollowInv
<1> QED
  BY <1>1, <1>5, <1>6, <1>7, <1>8, <1>9, <1>11, <1>13 DEF KeyInv, EntryInv

\* The first try to read a message.
LEMMA FwdDecodeStep ==
    ASSUME KeyInv, FwdDecode
    PROVE  KeyInv'
<1>1. /\ fwd = "decode"
      /\ UNCHANGED <<now, key, beacon, a, link, hand, rx, cc, NeighborUpdate, kcmSeen,
                     validated, losses>>
  BY DEF FwdDecode, aVars
<1>2. CASE ~Present /\ fwd' = "home" /\ UNCHANGED <<entry, capt, rxq>>
  <2>1. TypeOK'
    BY <1>1, <1>2 DEF KeyInv, TypeOK
  <2>2. ~Present'
    BY <1>2 DEF Present
  <2> QED
    BY <1>1, <1>2, <2>1, <2>2, ForwardStep
<1>3. CASE Present /\ Verifies(hand.key) /\ Pass /\ capt' = entry.enc
  <2>1. entry.enc \in Nat /\ entry.old <= entry.enc
    BY <1>3, EntryFields DEF KeyInv, EntryInv, OrderInv
  <2>2. hand.key <= entry.enc
    BY <1>3, <2>1 DEF Verifies
  <2> QED
    BY <1>1, <1>3, <2>1, <2>2, PassStep
<1>4. CASE /\ Present /\ ~Verifies(hand.key) /\ capt' = entry.enc /\ fwd' = "pause"
           /\ UNCHANGED <<entry, rxq>>
  <2>1. entry.enc \in Nat
    BY <1>4, EntryFields DEF KeyInv
  <2>2. TypeOK'
    BY <1>1, <1>4, <2>1 DEF KeyInv, TypeOK
  <2>3. hand # [kind |-> "kcm", key |-> entry.enc]
    BY <1>4 DEF Verifies
  <2> QED
    BY <1>1, <1>4, <2>1, <2>2, <2>3, ForwardStep
<1> QED
  BY <1>2, <1>3, <1>4 DEF FwdDecode

\* The second try.
LEMMA FwdRetryStep ==
    ASSUME KeyInv, FwdRetry
    PROVE  KeyInv'
<1>1. /\ fwd = "again"
      /\ UNCHANGED <<now, key, beacon, a, link, hand, capt, rx, cc, NeighborUpdate,
                     kcmSeen, validated, losses>>
  BY DEF FwdRetry, aVars
<1>2. CASE ~Present /\ fwd' = "dead" /\ UNCHANGED <<entry, rxq>>
  <2>1. TypeOK'
    BY <1>1, <1>2 DEF KeyInv, TypeOK
  <2>2. ~Present'
    BY <1>2 DEF Present
  <2> QED
    BY <1>1, <1>2, <2>1, <2>2, ForwardStep
<1>3. CASE Present /\ hand.key = capt /\ Pass
  <2>1. capt \in Nat /\ capt <= entry.enc
    BY <1>3 DEF KeyInv, EntryInv, OrderInv, TypeOK
  <2> QED
    BY <1>1, <1>3, <2>1, PassStep
<1>4. CASE /\ Present /\ UNCHANGED rxq
           /\ \/ fwd' = "ask" /\ entry' = [entry EXCEPT !.lost = 0]
              \/ fwd' = "home" /\ entry' = [entry EXCEPT !.lost = entry.lost + 1]
  <2>1. entry \in Entry /\ entry.lost \in Nat
    BY <1>4, EntryFields DEF KeyInv
  <2>2. entry' \in Entry /\ entry'.enc = entry.enc /\ entry'.old = entry.old
        /\ entry'.ts = entry.ts
    BY <1>4, <2>1, LostFields
  <2>3. TypeOK'
    BY <1>1, <1>4, <2>2 DEF KeyInv, TypeOK
  <2>4. capt <= entry.enc
    BY <1>4 DEF KeyInv, EntryInv, OrderInv
  <2> QED
    BY <1>1, <1>4, <2>2, <2>3, <2>4, ForwardStep
<1> QED
  BY <1>2, <1>3, <1>4 DEF FwdRetry

-----------------------------------------------------------------------------
(* B's receive and key change threads                                      *)

\* A kcm is taken.
LEMMA RxTakeStep ==
    ASSUME KeyInv, RxTake
    PROVE  KeyInv'
<1>1. /\ rx = "home" /\ rxq # <<>> /\ rxq' = Tail(rxq) /\ rx' = "kcm"
      /\ UNCHANGED <<now, key, beacon, a, link, entry, fwd, hand, capt, cc,
                     NeighborUpdate, kcmSeen, validated, losses>>
  BY DEF RxTake, aVars
<1>2. TypeOK'
  BY <1>1, RxqTypes DEF KeyInv, TypeOK
<1>3. ClockInv'
  BY <1>1 DEF KeyInv, ClockInv
<1>4. ASSUME Present' PROVE EntryInv'
  <2>1. /\ fwd # "dead" /\ OrderInv /\ WayInv /\ HeardInv /\ FollowInv
    BY <1>1, <1>4 DEF KeyInv, Present, EntryInv
  <2>2. OrderInv' /\ WayInv' /\ HeardInv'
    BY <1>1, <2>1 DEF OrderInv, WayInv, Recent, HeardInv
  <2>3. FollowInv'
    BY <1>1, <2>1 DEF FollowInv, KcmComing
  <2> QED
    BY <1>1, <2>1, <2>2, <2>3 DEF EntryInv
<1> QED
  BY <1>2, <1>3, <1>4 DEF KeyInv, EntryInv

\* A is looked up for a kcm.
LEMMA RxKcmStep ==
    ASSUME KeyInv, RxKcm
    PROVE  KeyInv'
<1>1. /\ rx = "kcm"
      /\ UNCHANGED <<now, key, beacon, a, link, entry, fwd, hand, capt, rxq, validated,
                     losses>>
      /\ \/ /\ Present /\ NeighborUpdate' = FALSE /\ cc' = [cc EXCEPT !["rx"] = 0]
            /\ rx' = "scan" /\ kcmSeen' = now
         \/ ~Present /\ NeighborUpdate' = TRUE /\ rx' = "home" /\ UNCHANGED <<cc, kcmSeen>>
  BY DEF RxKcm, BeginScan, aVars
<1>2. cc' \in [{"fwd", "rx"} -> 0 .. Retries - 1]
  BY <1>1, KeysAssumption DEF KeyInv, TypeOK
<1>3. TypeOK'
  BY <1>1, <1>2 DEF KeyInv, TypeOK
<1>4. ClockInv'
  BY <1>1 DEF KeyInv, ClockInv, TypeOK
<1>5. ASSUME Present' PROVE EntryInv'
  <2>1. /\ Present /\ rx' = "scan" /\ kcmSeen' = now
        /\ fwd # "dead" /\ OrderInv /\ WayInv /\ HeardInv /\ FollowInv
    BY <1>1, <1>5 DEF KeyInv, Present, EntryInv
  <2>2. OrderInv' /\ WayInv'
    BY <1>1, <2>1 DEF OrderInv, WayInv, Recent
  <2>3. HeardInv'
    BY <1>1, <2>1 DEF HeardInv
  <2>4. FollowInv'
    BY <1>1, <2>1 DEF FollowInv, KcmComing
  <2> QED
    BY <1>1, <2>1, <2>2, <2>3, <2>4 DEF EntryInv
<1> QED
  BY <1>3, <1>4, <1>5 DEF KeyInv, EntryInv

\* B looks for entries that are too old.
LEMMA ValidateStep ==
    ASSUME KeyInv, Validate
    PROVE  KeyInv'
<1>1. /\ entry' = Gone \/ entry' = entry
      /\ validated' = now /\ NeighborUpdate' = TRUE
      /\ UNCHANGED <<now, key, beacon, a, link, fwd, hand, capt, rxq, rx, cc, kcmSeen, losses>>
  BY DEF Validate, aVars
<1>2. TypeOK'
  BY <1>1 DEF KeyInv, TypeOK
<1>3. ClockInv'
  BY <1>1 DEF KeyInv, ClockInv
<1>4. ASSUME Present' PROVE EntryInv'
  <2>1. /\ entry' = entry /\ fwd # "dead" /\ rx # "dead"
        /\ OrderInv /\ WayInv /\ HeardInv /\ FollowInv
    BY <1>1, <1>4 DEF KeyInv, Present, EntryInv
  <2>2. OrderInv' /\ WayInv' /\ HeardInv'
    BY <1>1, <2>1 DEF OrderInv, WayInv, Recent, HeardInv
  <2>3. FollowInv'
    BY <1>1, <2>1 DEF FollowInv, KcmComing
  <2> QED
    BY <1>1, <2>1, <2>2, <2>3 DEF EntryInv
<1> QED
  BY <1>2, <1>3, <1>4 DEF KeyInv, EntryInv

-----------------------------------------------------------------------------
(* The invariant and the theorems                                          *)

\* At the start B has A's key.
LEMMA KeyInit == Init => KeyInv
<1> SUFFICES ASSUME Init PROVE KeyInv
  OBVIOUS
<1>1. TypeOK
  <2>1. entry \in Entry
    BY DEF Init, Entry, NoKey
  <2>2. hand \in Message /\ link \in Seq(Message) /\ rxq \in Seq({"kcm"})
    BY DEF Init, Message
  <2>3. cc \in [{"fwd", "rx"} -> 0 .. Retries - 1]
    BY KeysAssumption DEF Init
  <2> QED
    BY <2>1, <2>2, <2>3 DEF Init, TypeOK
<1>2. ClockInv
  BY DEF Init, ClockInv
<1>3. OrderInv
  BY DEF Init, OrderInv, NoKey
<1>4. WayInv
  BY DEF Init, WayInv
<1>5. HeardInv
  BY DEF Init, HeardInv
<1>6. FollowInv
  BY DEF Init, FollowInv
<1> QED
  BY <1>1, <1>2, <1>3, <1>4, <1>5, <1>6 DEF Init, KeyInv, EntryInv

\* Every step keeps the invariant.
LEMMA KeyNext == KeyInv /\ [Next]_vars => KeyInv'
<1> SUFFICES ASSUME KeyInv, [Next]_vars PROVE KeyInv'
  OBVIOUS
<1>1. CASE NewKey \/ StepA \/ SendData \/ Lose
  BY <1>1, NewKeyStep, AnnounceStep, SendStep, LoseStep DEF StepA
<1>2. CASE StepFwd
  BY <1>2, FwdTakeStep, FwdWaitStep, FwdDecodeStep, FwdRetryStep, FwdRescanStep,
     ScannedStep, ScanStep DEF StepFwd
<1>3. CASE StepRx
  BY <1>3, RxTakeStep, RxKcmStep, ScannedStep, ScanStep DEF StepRx
<1>4. CASE Validate
  BY <1>4, ValidateStep
<1>5. CASE UNCHANGED vars
  <2>1. UNCHANGED <<now, key, beacon, a, link, entry, fwd, hand, capt, rxq, rx, cc,
                    NeighborUpdate, kcmSeen, validated, losses>>
    BY <1>5 DEF vars
  <2>2. TypeOK' /\ ClockInv'
    BY <2>1 DEF KeyInv, TypeOK, ClockInv
  <2>3. EntryInv'
    BY <2>1 DEF KeyInv, EntryInv, Present, OrderInv, WayInv, Recent, HeardInv,
                FollowInv, KcmComing
  <2> QED
    BY <2>2, <2>3 DEF KeyInv
<1> QED
  BY <1>1, <1>2, <1>3, <1>4, <1>5 DEF Next

\* The invariant holds in every state.
LEMMA KeyInvariant == Spec => []KeyInv
BY KeyInit, KeyNext, PTL DEF Spec

\* Each variable keeps values of the kind the agents give it: the number of a
\* scan stays below the retries (rescan_neighbor), and a kcm is never sent
\* under a key that there was not (changeKeys).
THEOREM GroupTypeCorrect == Spec => []TypeOK
<1>1. KeyInv => TypeOK
  BY DEF KeyInv
<1> QED
  BY <1>1, KeyInvariant, PTL

\* When a key change is dealt with and no message was lost, B has the key A
\* uses or has removed A, whichever of B's threads rescanned, and whatever A
\* published in between (changeKeys, initForwardingTTL, receiveMessage,
\* rescan_neighbor).
THEOREM GroupAgreeWhenSettled == Spec => []AgreeWhenSettled
<1>1. KeyInv => AgreeWhenSettled
  <2> SUFFICES ASSUME KeyInv, Settled, losses = 0, Present, fwd # "dead", rx # "dead"
               PROVE  entry.enc = key /\ beacon = key
    BY DEF AgreeWhenSettled
  <2>1. FollowInv /\ a = "asleep" /\ fwd = "home" /\ link = <<>> /\ rx = "home" /\ rxq = <<>>
    BY DEF KeyInv, EntryInv, Settled
  <2>2. ~KcmComing
    BY <2>1 DEF KcmComing
  <2> QED
    BY <2>1, <2>2 DEF FollowInv, KeyInv, ClockInv
<1> QED
  BY <1>1, KeyInvariant, PTL

\* A neighbour whose kcm was dealt with in the last ExpireAfter intervals is
\* not removed for its age (validateCurrentNeighborList), also when other
\* messages are lost and when the check runs in the middle of a rescan.
THEOREM GroupHeardNotExpired == Spec => HeardNotExpired
<1>1. KeyInv /\ [Next]_vars
        => [Validate /\ entry # entry' => now - kcmSeen > ExpireAfter]_vars
  <2> SUFFICES ASSUME KeyInv, Validate, entry # entry'
               PROVE  now - kcmSeen > ExpireAfter
    OBVIOUS
  <2>1. Present /\ now - entry.ts > ExpireAfter
    BY DEF Validate
  <2>2. HeardInv /\ entry.ts \in Nat /\ now \in Nat /\ kcmSeen \in Nat
    BY <2>1, EntryFields DEF KeyInv, EntryInv, TypeOK
  <2>3. ~(entry.ts >= now - 1)
    BY <2>1, <2>2, KeysAssumption
  <2>4. kcmSeen <= entry.ts
    BY <2>2, <2>3 DEF HeardInv
  <2> QED
    BY <2>1, <2>2, <2>4, KeysAssumption
<1> QED
  BY <1>1, KeyInvariant, PTL DEF Spec, HeardNotExpired
=============================================================================
