----------------------- MODULE HostapdStationsProofs -----------------------
(***************************************************************************)
(* Proofs about the station table of hostapd, for any BSSs, processes and  *)
(* stations: the timers, the counters, the association ids and the driver  *)
(* agree with the table, and a station is associated with one BSS.         *)
(***************************************************************************)
EXTENDS HostapdStations, FiniteSetTheorems, NaturalsInduction, TLAPS

\* The entries of b.
Here(h, b) == {p \in Reach : p[1] = b /\ Known(h, p)}

\* One registration of ap_handle_timer per entry, and none without an entry.
TimerInv(h) ==
    \A p \in Reach : IF Known(h, p) THEN h.timer[p] = 1
                     ELSE h.timer[p] = 0 /\ h.cb[p] = {}

\* num_sta counts the entries and stays within the limit.
CountInv(h) ==
    \A b \in Bss : /\ h.num_sta[b] = Cardinality(Here(h, b))
                   /\ h.num_sta[b] <= MaxSta[b]

\* The ids of the BSSs that are not in M.
AidInv(h, M) ==
    /\ \A p \in Reach : p[1] \notin M /\ Known(h, p) /\ h.sta[p].aid > 0 =>
          h.sta[p].aid \in h.sta_aid[p[1]]
    /\ \A b \in Bss \ M : \A a \in h.sta_aid[b] :
          \E p \in Here(h, b) : h.sta[p].aid = a
    /\ \A p, q \in Reach :
          /\ p[1] = q[1] /\ p[1] \notin M /\ Known(h, p) /\ Known(h, q)
          /\ h.sta[p].aid > 0 /\ h.sta[p].aid = h.sta[q].aid
          => p = q

\* L: the stations a late completion has removed from the driver.
DriverInv(h, L) ==
    \A p \in Reach : /\ Has(h, p, "ASSOC") => p \in h.drv \cup L
                     /\ p \in h.drv => Known(h, p)
                     /\ Has(h, p, "AUTHORIZED") => Has(h, p, "ASSOC")

Near(p, q) == p[2] = q[2] /\ Proc[p[1]] = Proc[q[1]]

\* A station is associated with one BSS of a process.
OneInv(h) ==
    \A p, q \in Reach : Near(p, q) /\ Has(h, p, "ASSOC") /\ Has(h, q, "ASSOC") => p = q

\* The table a C function leaves behind when it has returned to the event loop.
Good(h, L, M) ==
    /\ h \in State
    /\ TimerInv(h) /\ CountInv(h) /\ AidInv(h, M) /\ DriverInv(h, L) /\ OneInv(h)

\* From h to g no station comes or goes, and ids change in the BSSs of M only.
Follows(h, g, M) ==
    /\ g.num_sta = h.num_sta /\ g.sta_aid = h.sta_aid
    /\ \A p \in Reach :
         /\ Known(g, p) <=> Known(h, p)
         /\ Known(h, p) /\ p[1] \notin M => g.sta[p].aid = h.sta[p].aid
         /\ g.timer[p] = h.timer[p] \/ (Known(h, p) /\ g.timer[p] = 1)
         /\ ~Known(h, p) => g.cb[p] = h.cb[p]

\* From h to g, and from L to K: no new association, no new entry of the driver,
\* and who loses the one in the driver while it is associated is in K.
Weaker(h, g, L, K) ==
    \A p \in Reach :
        /\ Has(g, p, "ASSOC") => Has(h, p, "ASSOC")
        /\ Has(g, p, "ASSOC") /\ p \in h.drv \cup L => p \in g.drv \cup K
        /\ p \in g.drv => p \in h.drv
        /\ Has(g, p, "AUTHORIZED") =>
              Has(g, p, "ASSOC") \/ (Has(h, p, "AUTHORIZED") /\ ~Has(h, p, "ASSOC"))

-----------------------------------------------------------------------------
(* Entries and tables                                                      *)

\* An entry is not the mark for its absence.
LEMMA EntryIsSta ==
    ASSUME NEW e \in Entry
    PROVE  e # NoSta
BY DEF Entry, NoSta

\* The fields of an entry.
LEMMA EntryFields ==
    ASSUME NEW e \in Entry
    PROVE  /\ e.flags \subseteq Flag /\ e.aid \in 0..MaxAid
           /\ e.timeout_next \in Timeout /\ e.wpa_sm \in BOOLEAN
BY DEF Entry

\* The parts of a pair of BSS and station.
LEMMA PairType ==
    ASSUME NEW p \in Reach
    PROVE  p[1] \in Bss /\ p[2] \in Sta /\ p = <<p[1], p[2]>>
BY StationsAssumption

\* The fields of the state of hostapd.
LEMMA Fields ==
    ASSUME NEW h \in State
    PROVE  /\ h.sta \in [Reach -> Entry \cup {NoSta}]
           /\ h.sta_aid \in [Bss -> SUBSET (1..MaxAid)]
           /\ h.num_sta \in [Bss -> Nat]
           /\ h.timer \in [Reach -> Nat]
           /\ h.cb \in [Reach -> SUBSET {"deauth", "disassoc"}]
           /\ h.drv \subseteq Reach /\ h.tx \subseteq Reach \X Frame
BY DEF State

\* An entry that is disassociated stays one, with its association id.
LEMMA EntryDisassociated ==
    ASSUME NEW e \in Entry, NEW d,
           d = [e EXCEPT !.flags = (@ \ {"ASSOC", "AUTHORIZED"})
                                     \cup {"PENDING_DISASSOC_CB"},
                         !.timeout_next = "DEAUTH"]
    PROVE  /\ d \in Entry /\ d.aid = e.aid /\ "ASSOC" \notin d.flags 
           /\ "AUTHORIZED" \notin d.flags
BY DEF Entry, Flag, Timeout

\* So does one that is deauthenticated.
LEMMA EntryDeauthenticated ==
    ASSUME NEW e \in Entry, NEW event \in BOOLEAN, NEW d,
           d = [e EXCEPT !.flags = (@ \ {"AUTH", "ASSOC", "AUTHORIZED"})
                                     \cup {"PENDING_DEAUTH_CB"},
                         !.timeout_next = "REMOVE",
                         !.wpa_sm = @ /\ ~event]
    PROVE  /\ d \in Entry /\ d.aid = e.aid /\ "ASSOC" \notin d.flags
           /\ "AUTHORIZED" \notin d.flags
BY DEF Entry, Flag, Timeout

\* No station comes or goes: the timers, counters and ids stay in order.
LEMMA TablesFollow ==
    ASSUME NEW h, NEW g, NEW M, Follows(h, g, M),
           TimerInv(h), CountInv(h), AidInv(h, M)
    PROVE  TimerInv(g) /\ CountInv(g) /\ AidInv(g, M)
<1>1. TimerInv(g)
  BY DEF TimerInv, Follows
<1>2. \A b \in Bss : Here(g, b) = Here(h, b)
  BY DEF Here, Follows
<1>3. CountInv(g)
  BY <1>2 DEF CountInv, Follows
<1>4. AidInv(g, M)
  <2>1. \A p \in Reach : Known(h, p) /\ p[1] \notin M => g.sta[p].aid = h.sta[p].aid
    BY DEF Follows
  <2>2. g.sta_aid = h.sta_aid /\ \A p \in Reach : Known(h, p) <=> Known(g, p)
    BY DEF Follows
  <2>3. \A b \in Bss : \A p \in Here(h, b) : p \in Reach /\ Known(h, p) /\ p[1] = b
    BY DEF Here
  <2> QED
    BY <1>2, <2>1, <2>2, <2>3 DEF AidInv
<1> QED
  BY <1>1, <1>3, <1>4

\* A table that gives something up stays as good as it was.
LEMMA GoodFollows ==
    ASSUME NEW h, NEW g \in State, NEW L, NEW K, NEW M, Good(h, L, M),
           Follows(h, g, M), Weaker(h, g, L, K)
    PROVE  Good(g, K, M)
<1>1. TimerInv(g) /\ CountInv(g) /\ AidInv(g, M)
  BY TablesFollow DEF Good
<1>2. DriverInv(g, K)
  BY DEF Good, DriverInv, Follows, Weaker
<1>3. OneInv(g)
  BY DEF Good, OneInv, Weaker
<1> QED
  BY <1>1, <1>2, <1>3 DEF Good

\* ap_sta_disassociate
LEMMA DisassociateFields ==
    ASSUME NEW h \in State, NEW Q \in SUBSET Reach, \A p \in Q : Known(h, p), NEW M,
           NEW g, g = Disassociate(h, Q)
    PROVE  /\ g \in State /\ g.drv = h.drv
           /\ Follows(h, g, M)
           /\ \A p \in Reach \ Q : g.sta[p] = h.sta[p]
           /\ \A p \in Q : ~Has(g, p, "ASSOC") /\ ~Has(g, p, "AUTHORIZED")
<1> DEFINE sta == [p \in Reach |->
                 IF p \notin Q THEN h.sta[p]
                 ELSE [h.sta[p] EXCEPT
                         !.flags = (@ \ {"ASSOC", "AUTHORIZED"})
                                     \cup {"PENDING_DISASSOC_CB"},
                         !.timeout_next = "DEAUTH"]]
           timer == [p \in Reach |-> IF p \in Q THEN 1 ELSE h.timer[p]]
           cb == [p \in Reach |-> h.cb[p] \cup IF p \in Q THEN {"disassoc"} ELSE {}]
<1>1. \A p \in Q : /\ sta[p] \in Entry /\ sta[p].aid = h.sta[p].aid
                   /\ "ASSOC" \notin sta[p].flags /\ "AUTHORIZED" \notin sta[p].flags
  <2> TAKE p \in Q
  <2>1. h.sta[p] \in Entry
    BY Fields DEF Known
  <2> QED
    BY <2>1, EntryDisassociated
<1>2. sta \in [Reach -> Entry \cup {NoSta}]
  BY <1>1, Fields
<1>3. timer \in [Reach -> Nat] /\ cb \in [Reach -> SUBSET {"deauth", "disassoc"}]
  BY Fields
<1>4. g = [h EXCEPT !.sta = sta, !.timer = timer, !.cb = cb]
  BY DEF Disassociate
<1>5. \A p \in Reach \ Q : sta[p] = h.sta[p] /\ timer[p] = h.timer[p] /\ cb[p] = h.cb[p]
  BY Fields
<1>6. \A p \in Q : timer[p] = 1
  OBVIOUS
<1> HIDE DEF sta, timer, cb
<1>7. /\ g.sta = sta /\ g.timer = timer /\ g.cb = cb /\ g.num_sta = h.num_sta
      /\ g.sta_aid = h.sta_aid /\ g.drv = h.drv /\ g \in State
  BY <1>2, <1>3, <1>4 DEF State
<1>8. \A p \in Q : Known(g, p)
  BY <1>1, <1>7, EntryIsSta DEF Known
<1>9. Follows(h, g, M)
  BY <1>1, <1>5, <1>6, <1>7, <1>8 DEF Follows, Known
<1> QED
  BY <1>1, <1>5, <1>7, <1>9 DEF Has

\* ap_sta_deauthenticate, ap_sta_disconnect
LEMMA DeauthenticateFields ==
    ASSUME NEW h \in State, NEW Q \in SUBSET Reach, \A p \in Q : Known(h, p), NEW M,
           NEW event \in BOOLEAN, NEW g, g = Deauthenticate(h, Q, event)
    PROVE  /\ g \in State /\ g.drv = h.drv
           /\ Follows(h, g, M)
           /\ \A p \in Reach \ Q : g.sta[p] = h.sta[p]
           /\ \A p \in Q : ~Has(g, p, "ASSOC") /\ ~Has(g, p, "AUTHORIZED")
<1> DEFINE sta == [p \in Reach |->
                 IF p \notin Q THEN h.sta[p]
                 ELSE [h.sta[p] EXCEPT
                         !.flags = (@ \ {"AUTH", "ASSOC", "AUTHORIZED"})
                                     \cup {"PENDING_DEAUTH_CB"},
                         !.timeout_next = "REMOVE",
                         !.wpa_sm = @ /\ ~event]]
           timer == [p \in Reach |-> IF p \in Q THEN 1 ELSE h.timer[p]]
           cb == [p \in Reach |-> h.cb[p] \cup IF p \in Q THEN {"deauth"} ELSE {}]
<1>1. \A p \in Q : /\ sta[p] \in Entry /\ sta[p].aid = h.sta[p].aid
                   /\ "ASSOC" \notin sta[p].flags /\ "AUTHORIZED" \notin sta[p].flags
  <2> TAKE p \in Q
  <2>1. h.sta[p] \in Entry
    BY Fields DEF Known
  <2> QED
    BY <2>1, EntryDeauthenticated
<1>2. sta \in [Reach -> Entry \cup {NoSta}]
  BY <1>1, Fields, ZenonT(30)
<1>3. timer \in [Reach -> Nat] /\ cb \in [Reach -> SUBSET {"deauth", "disassoc"}]
  BY Fields
<1>4. g = [h EXCEPT !.sta = sta, !.timer = timer, !.cb = cb]
  BY DEF Deauthenticate
<1>5. \A p \in Reach \ Q : sta[p] = h.sta[p] /\ timer[p] = h.timer[p] /\ cb[p] = h.cb[p]
  BY Fields
<1>6. \A p \in Q : timer[p] = 1
  OBVIOUS
<1> HIDE DEF sta, timer, cb
<1>7. /\ g.sta = sta /\ g.timer = timer /\ g.cb = cb /\ g.num_sta = h.num_sta
      /\ g.sta_aid = h.sta_aid /\ g.drv = h.drv /\ g \in State
  BY <1>2, <1>3, <1>4 DEF State
<1>8. \A p \in Q : Known(g, p)
  BY <1>1, <1>7, EntryIsSta DEF Known
<1>9. Follows(h, g, M)
  BY <1>1, <1>5, <1>6, <1>7, <1>8 DEF Follows, Known
<1> QED
  BY <1>1, <1>5, <1>7, <1>9 DEF Has

\* The frame of a disconnection, and a TX status.
LEMMA SentFields ==
    ASSUME NEW h \in State, NEW T \in SUBSET (Reach \X Frame), NEW g,
           g = [h EXCEPT !.tx = T]
    PROVE  /\ g \in State /\ g.sta = h.sta /\ g.sta_aid = h.sta_aid
           /\ g.num_sta = h.num_sta /\ g.timer = h.timer /\ g.cb = h.cb
           /\ g.drv = h.drv
BY DEF State

\* Frames under way do not matter to the table.
LEMMA GoodSent ==
    ASSUME NEW h, NEW T \in SUBSET (Reach \X Frame), NEW g,
           g = [h EXCEPT !.tx = T], NEW L, NEW M, Good(h, L, M)
    PROVE  Good(g, L, M)
<1>1. h \in State
  BY DEF Good
<1>2. /\ g \in State /\ g.sta = h.sta /\ g.sta_aid = h.sta_aid
      /\ g.num_sta = h.num_sta /\ g.timer = h.timer /\ g.cb = h.cb
      /\ g.drv = h.drv
  BY <1>1, SentFields
<1>3. Follows(h, g, M)
  BY <1>2 DEF Follows, Known
<1>4. Weaker(h, g, L, L)
  BY <1>2 DEF Weaker, Known, Has
<1> QED
  BY <1>2, <1>3, <1>4, GoodFollows

\* Disassociating stations keeps the table in order.
LEMMA GoodDisassociate ==
    ASSUME NEW h, NEW Q \in SUBSET Reach, \A p \in Q : Known(h, p), NEW L, NEW M,
           Good(h, L, M)
    PROVE  Good(Disassociate(h, Q), L, M)
<1> DEFINE g == Disassociate(h, Q)
<1>1. h \in State
  BY DEF Good
<1> HIDE DEF g
<1>2. /\ g \in State /\ g.drv = h.drv
      /\ Follows(h, g, M)
      /\ \A p \in Reach \ Q : g.sta[p] = h.sta[p]
      /\ \A p \in Q : ~Has(g, p, "ASSOC") /\ ~Has(g, p, "AUTHORIZED")
  BY <1>1, DisassociateFields DEF g
<1>3. Weaker(h, g, L, L)
  BY <1>2 DEF Weaker, Known, Has
<1>4. Good(g, L, M)
  BY <1>2, <1>3, GoodFollows
<1> QED
  BY <1>4 DEF g

\* So does deauthenticating them.
LEMMA GoodDeauthenticate ==
    ASSUME NEW h, NEW Q \in SUBSET Reach, \A p \in Q : Known(h, p), NEW L, NEW M,
           NEW event \in BOOLEAN, Good(h, L, M)
    PROVE  Good(Deauthenticate(h, Q, event), L, M)
<1> DEFINE g == Deauthenticate(h, Q, event)
<1>1. h \in State
  BY DEF Good
<1> HIDE DEF g
<1>2. /\ g \in State /\ g.drv = h.drv
      /\ Follows(h, g, M)
      /\ \A p \in Reach \ Q : g.sta[p] = h.sta[p]
      /\ \A p \in Q : ~Has(g, p, "ASSOC") /\ ~Has(g, p, "AUTHORIZED")
  BY <1>1, DeauthenticateFields, SMTT(30) DEF g
<1>3. Weaker(h, g, L, L)
  BY <1>2 DEF Weaker, Known, Has
<1>4. Good(g, L, M)
  BY <1>2, <1>3, GoodFollows
<1> QED
  BY <1>4 DEF g

\* ap_sta_disconnect
LEMMA DisconnectFields ==
    ASSUME NEW h \in State, NEW Q \in SUBSET Reach, \A p \in Q : Known(h, p), NEW M,
           NEW g, g = Disconnect(h, Q)
    PROVE  /\ g \in State /\ g.drv = h.drv
           /\ Follows(h, g, M)
           /\ \A p \in Reach \ Q : g.sta[p] = h.sta[p]
           /\ \A p \in Q : ~Has(g, p, "ASSOC") /\ ~Has(g, p, "AUTHORIZED")
<1> DEFINE d == Deauthenticate(h, Q, TRUE)
           T == d.tx \cup (Q \X {"deauth"})
<1>1. /\ d \in State /\ d.drv = h.drv
      /\ Follows(h, d, M)
      /\ \A p \in Reach \ Q : d.sta[p] = h.sta[p]
      /\ \A p \in Q : ~Has(d, p, "ASSOC") /\ ~Has(d, p, "AUTHORIZED")
  BY DeauthenticateFields
<1>2. g = [d EXCEPT !.tx = T]
  BY DEF Disconnect
<1> HIDE DEF d
<1>3. T \in SUBSET (Reach \X Frame)
  BY <1>1, Fields DEF Frame
<1> HIDE DEF T
<1>4. /\ g \in State /\ g.sta = d.sta /\ g.sta_aid = d.sta_aid
      /\ g.num_sta = d.num_sta /\ g.timer = d.timer /\ g.cb = d.cb
      /\ g.drv = d.drv
  BY <1>1, <1>2, <1>3, SentFields
<1>5. Follows(h, g, M)
  BY <1>1, <1>4 DEF Follows, Known
<1> QED
  BY <1>1, <1>4, <1>5 DEF Has, Known

\* So does disconnecting them.
LEMMA GoodDisconnect ==
    ASSUME NEW h, NEW Q \in SUBSET Reach, \A p \in Q : Known(h, p), NEW L, NEW M,
           Good(h, L, M)
    PROVE  Good(Disconnect(h, Q), L, M)
<1> DEFINE g == Deauthenticate(h, Q, TRUE)
<1>1. Good(g, L, M)
  BY GoodDeauthenticate
<1> HIDE DEF g
<1>2. g.tx \cup (Q \X {"deauth"}) \in SUBSET (Reach \X Frame)
  BY <1>1, Fields DEF Good, Frame
<1>3. Good([g EXCEPT !.tx = g.tx \cup (Q \X {"deauth"})], L, M)
  BY <1>1, <1>2, GoodSent
<1> QED
  BY <1>3 DEF Disconnect, g

-----------------------------------------------------------------------------
(* Stations that come and go                                               *)

\* A table is finite.
LEMMA HereFinite ==
    ASSUME NEW h, NEW b
    PROVE  IsFiniteSet(Here(h, b)) /\ Cardinality(Here(h, b)) \in Nat
BY StationsAssumption, FS_Subset, FS_CardinalityType DEF Here

\* What ap_sta_add changes.
LEMMA AddEntryFields ==
    ASSUME NEW h \in State, NEW p \in Reach, NEW g, g = AddEntry(h, p), NEW e,
           e = [flags |-> {}, aid |-> 0, timeout_next |-> "NULLFUNC", wpa_sm |-> FALSE]
    PROVE  /\ g \in State /\ e \in Entry
           /\ g.sta = [h.sta EXCEPT ![p] = e]
           /\ g.num_sta = [h.num_sta EXCEPT ![p[1]] = h.num_sta[p[1]] + 1]
           /\ g.timer = [h.timer EXCEPT ![p] = h.timer[p] + 1]
           /\ g.sta_aid = h.sta_aid /\ g.cb = h.cb /\ g.drv = h.drv
<1>1. e \in Entry
  BY StationsAssumption DEF Entry, Flag, Timeout
<1>2. p[1] \in Bss
  BY PairType
<1>3. /\ [h.sta EXCEPT ![p] = e] \in [Reach -> Entry \cup {NoSta}]
      /\ [h.num_sta EXCEPT ![p[1]] = h.num_sta[p[1]] + 1] \in [Bss -> Nat]
      /\ [h.timer EXCEPT ![p] = h.timer[p] + 1] \in [Reach -> Nat]
  BY <1>1, <1>2, Fields
<1>4. g = [h EXCEPT !.sta = [h.sta EXCEPT ![p] = e],
                    !.num_sta = [h.num_sta EXCEPT ![p[1]] = h.num_sta[p[1]] + 1],
                    !.timer = [h.timer EXCEPT ![p] = h.timer[p] + 1]]
  BY DEF AddEntry
<1> QED
  BY <1>1, <1>3, <1>4 DEF State

\* ap_sta_add makes an entry.
LEMMA GoodAddEntry ==
    ASSUME NEW h, NEW p \in Reach, NEW L, NEW M, Good(h, L, M), ~Known(h, p),
           h.num_sta[p[1]] < MaxSta[p[1]]
    PROVE  Good(AddEntry(h, p), L, M)
<1> DEFINE g == AddEntry(h, p)
           e == [flags |-> {}, aid |-> 0, timeout_next |-> "NULLFUNC", wpa_sm |-> FALSE]
<1>1. h \in State /\ TimerInv(h) /\ CountInv(h) /\ AidInv(h, M) /\ DriverInv(h, L)
      /\ OneInv(h)
  BY DEF Good
<1>2. /\ g \in State /\ e \in Entry
      /\ g.sta = [h.sta EXCEPT ![p] = e]
      /\ g.num_sta = [h.num_sta EXCEPT ![p[1]] = h.num_sta[p[1]] + 1]
      /\ g.timer = [h.timer EXCEPT ![p] = h.timer[p] + 1]
      /\ g.sta_aid = h.sta_aid /\ g.cb = h.cb /\ g.drv = h.drv
  BY <1>1, AddEntryFields
<1>3. e.flags = {} /\ e.aid = 0
  OBVIOUS
<1> HIDE DEF g, e
<1>4. /\ g.sta[p] = e /\ g.timer[p] = h.timer[p] + 1
      /\ \A q \in Reach \ {p} : g.sta[q] = h.sta[q] /\ g.timer[q] = h.timer[q]
  BY <1>1, <1>2, Fields
<1>5. Known(g, p) /\ ~Has(g, p, "ASSOC") /\ ~Has(g, p, "AUTHORIZED")
  BY <1>2, <1>3, <1>4, EntryIsSta DEF Known, Has
<1>6. \A q \in Reach \ {p} : Known(g, q) <=> Known(h, q)
  BY <1>4 DEF Known
<1>7. TimerInv(g)
  BY <1>1, <1>2, <1>4, <1>5, <1>6 DEF TimerInv
<1>8. CountInv(g)
  <2> SUFFICES ASSUME NEW b \in Bss
               PROVE  /\ g.num_sta[b] = Cardinality(Here(g, b))
                      /\ g.num_sta[b] <= MaxSta[b]
    BY DEF CountInv
  <2>1. CASE b = p[1]
    <3>1. Here(g, b) = Here(h, b) \cup {p} /\ p \notin Here(h, b)
      BY <2>1, <1>5, <1>6 DEF Here
    <3>2. Cardinality(Here(g, b)) = Cardinality(Here(h, b)) + 1
      BY <3>1, HereFinite, FS_AddElement
    <3>3. g.num_sta[b] = h.num_sta[b] + 1 /\ h.num_sta[b] \in Nat /\ MaxSta[b] \in Nat
      BY <2>1, <1>1, <1>2, Fields, StationsAssumption
    <3> QED
      BY <2>1, <3>2, <3>3, <1>1, HereFinite DEF CountInv
  <2>2. CASE b # p[1]
    <3>1. Here(g, b) = Here(h, b)
      BY <2>2, <1>6 DEF Here
    <3>2. g.num_sta[b] = h.num_sta[b]
      BY <2>2, <1>1, <1>2, Fields
    <3> QED
      BY <3>1, <3>2, <1>1 DEF CountInv
  <2> QED
    BY <2>1, <2>2
<1>9. AidInv(g, M)
  <2>1. \A q \in Reach : Known(g, q) /\ g.sta[q].aid > 0 =>
           q # p /\ Known(h, q) /\ g.sta[q] = h.sta[q]
    BY <1>3, <1>4, <1>6
  <2>2. \A b \in Bss : \A q \in Here(h, b) : q \in Here(g, b) /\ g.sta[q].aid = h.sta[q].aid
    BY <1>4, <1>6 DEF Here
  <2> QED
    BY <2>1, <2>2, <1>1, <1>2 DEF AidInv
<1>10. DriverInv(g, L)
  BY <1>1, <1>2, <1>4, <1>5, <1>6 DEF DriverInv, Has
<1>11. OneInv(g)
  BY <1>1, <1>4, <1>5, <1>6 DEF OneInv, Has
<1>12. Good(g, L, M)
  BY <1>2, <1>7, <1>8, <1>9, <1>10, <1>11 DEF Good
<1> QED
  BY <1>12 DEF g

\* ap_sta_add: the new entry, and the other BSSs.
LEMMA GoodAddSta ==
    ASSUME NEW h, NEW p \in Reach, NEW L, NEW M, Good(h, L, M), Room(h, p)
    PROVE  Good(AddSta(h, p), L, M) /\ Known(AddSta(h, p), p)
<1>1. CASE Known(h, p)
  BY <1>1 DEF AddSta
<1>2. CASE ~Known(h, p)
  <2> DEFINE g == AddEntry(h, p)
             Q == Elsewhere(h, p)
             e == [flags |-> {}, aid |-> 0, timeout_next |-> "NULLFUNC", wpa_sm |-> FALSE]
  <2>1. Good(g, L, M)
    BY <1>2, GoodAddEntry DEF Room
  <2>0. h \in State
    BY DEF Good
  <2>2. /\ g \in State /\ e \in Entry
        /\ g.sta = [h.sta EXCEPT ![p] = e]
        /\ g.num_sta = [h.num_sta EXCEPT ![p[1]] = h.num_sta[p[1]] + 1]
        /\ g.timer = [h.timer EXCEPT ![p] = h.timer[p] + 1]
        /\ g.sta_aid = h.sta_aid /\ g.cb = h.cb /\ g.drv = h.drv
    BY <2>0, AddEntryFields
  <2>3. AddSta(h, p) = Disconnect(g, Q)
    BY <1>2 DEF AddSta
  <2> HIDE DEF g, e
  <2>4. Known(g, p) /\ \A q \in Q : Known(g, q)
    BY <2>0, <2>2, EntryIsSta, Fields DEF Known, Elsewhere
  <2>5. Q \in SUBSET Reach /\ p \notin Q
    BY DEF Elsewhere
  <2> HIDE DEF Q
  <2>6. Good(Disconnect(g, Q), L, M)
    BY <2>1, <2>4, <2>5, GoodDisconnect
  <2>7. Known(Disconnect(g, Q), p)
    BY <2>1, <2>4, <2>5, DisconnectFields DEF Good, Follows
  <2> QED
    BY <2>3, <2>6, <2>7
<1> QED
  BY <1>1, <1>2

\* What ap_free_sta changes.
LEMMA FreeStaFields ==
    ASSUME NEW h \in State, NEW p \in Reach, NEW g, g = FreeSta(h, p),
           h.num_sta[p[1]] > 0
    PROVE  /\ g \in State
           /\ g.sta = [h.sta EXCEPT ![p] = NoSta]
           /\ g.sta_aid = [h.sta_aid EXCEPT ![p[1]] = h.sta_aid[p[1]] \ {h.sta[p].aid}]
           /\ g.num_sta = [h.num_sta EXCEPT ![p[1]] = h.num_sta[p[1]] - 1]
           /\ g.timer = [h.timer EXCEPT ![p] = 0]
           /\ g.cb = [h.cb EXCEPT ![p] = {}]
           /\ g.drv = h.drv \ {p}
<1> DEFINE sta == [h.sta EXCEPT ![p] = NoSta]
           sta_aid == [h.sta_aid EXCEPT ![p[1]] = h.sta_aid[p[1]] \ {h.sta[p].aid}]
           num_sta == [h.num_sta EXCEPT ![p[1]] = h.num_sta[p[1]] - 1]
           timer == [h.timer EXCEPT ![p] = 0]
           cb == [h.cb EXCEPT ![p] = {}]
           drv == h.drv \ {p}
<1>1. p[1] \in Bss
  BY PairType
<1>2. sta \in [Reach -> Entry \cup {NoSta}] /\ timer \in [Reach -> Nat]
      /\ cb \in [Reach -> SUBSET {"deauth", "disassoc"}] /\ drv \subseteq Reach
  BY Fields
<1>3. sta_aid \in [Bss -> SUBSET (1..MaxAid)] /\ num_sta \in [Bss -> Nat]
  BY <1>1, Fields
<1>4. g = [h EXCEPT !.sta = sta, !.sta_aid = sta_aid, !.num_sta = num_sta,
                    !.timer = timer, !.cb = cb, !.drv = drv]
  BY DEF FreeSta
<1> HIDE DEF sta, sta_aid, num_sta, timer, cb, drv
<1>5. /\ g \in State /\ g.sta = sta /\ g.sta_aid = sta_aid /\ g.num_sta = num_sta
      /\ g.timer = timer /\ g.cb = cb /\ g.drv = drv
  BY <1>2, <1>3, <1>4 DEF State
<1> QED
  BY <1>5 DEF sta, sta_aid, num_sta, timer, cb, drv

\* ap_free_sta; the timer of the entry may have fired.
LEMMA GoodFreeSta ==
    ASSUME NEW h \in State, NEW p \in Reach, NEW L, NEW M, Known(h, p),
           CountInv(h), AidInv(h, M), DriverInv(h, L), OneInv(h),
           \A q \in Reach \ {p} : IF Known(h, q) THEN h.timer[q] = 1
                                  ELSE h.timer[q] = 0 /\ h.cb[q] = {}
    PROVE  Good(FreeSta(h, p), L \ {p}, M)
<1> DEFINE g == FreeSta(h, p)
<1>0. p[1] \in Bss /\ p \in Here(h, p[1])
  BY PairType DEF Here
<1>1. h.num_sta[p[1]] > 0
  <2>1. Cardinality(Here(h, p[1])) > 0
    BY <1>0, HereFinite, FS_EmptySet
  <2> QED
    BY <1>0, <2>1 DEF CountInv
<1>2. /\ g \in State
      /\ g.sta = [h.sta EXCEPT ![p] = NoSta]
      /\ g.sta_aid = [h.sta_aid EXCEPT ![p[1]] = h.sta_aid[p[1]] \ {h.sta[p].aid}]
      /\ g.num_sta = [h.num_sta EXCEPT ![p[1]] = h.num_sta[p[1]] - 1]
      /\ g.timer = [h.timer EXCEPT ![p] = 0]
      /\ g.cb = [h.cb EXCEPT ![p] = {}]
      /\ g.drv = h.drv \ {p}
  BY <1>1, FreeStaFields
<1> HIDE DEF g
<1>3. /\ g.sta[p] = NoSta /\ g.timer[p] = 0 /\ g.cb[p] = {}
      /\ \A q \in Reach \ {p} : /\ g.sta[q] = h.sta[q] /\ g.timer[q] = h.timer[q]
                                /\ g.cb[q] = h.cb[q]
  BY <1>2, Fields
<1>4. ~Known(g, p) /\ \A q \in Reach \ {p} : Known(g, q) <=> Known(h, q)
  BY <1>3 DEF Known
<1>5. TimerInv(g)
  BY <1>3, <1>4 DEF TimerInv
<1>6. CountInv(g)
  <2> SUFFICES ASSUME NEW b \in Bss
               PROVE  /\ g.num_sta[b] = Cardinality(Here(g, b))
                      /\ g.num_sta[b] <= MaxSta[b]
    BY DEF CountInv
  <2>1. CASE b = p[1]
    <3>1. Here(g, b) = Here(h, b) \ {p}
      BY <2>1, <1>4 DEF Here
    <3>2. Cardinality(Here(g, b)) = Cardinality(Here(h, b)) - 1
      <4>1. p \in Here(h, b) /\ IsFiniteSet(Here(h, b))
        BY <2>1, <1>0, HereFinite
      <4> QED
        BY <3>1, <4>1, FS_RemoveElement
    <3>3. g.num_sta[b] = h.num_sta[b] - 1 /\ h.num_sta[b] \in Nat /\ MaxSta[b] \in Nat
      BY <2>1, <1>2, Fields, StationsAssumption
    <3> QED
      BY <3>2, <3>3, HereFinite DEF CountInv
  <2>2. CASE b # p[1]
    <3>1. Here(g, b) = Here(h, b)
      BY <2>2, <1>4 DEF Here
    <3>2. g.num_sta[b] = h.num_sta[b]
      BY <2>2, <1>2, Fields
    <3> QED
      BY <3>1, <3>2 DEF CountInv
  <2> QED
    BY <2>1, <2>2
<1>7. AidInv(g, M)
  <2>1. /\ g.sta_aid[p[1]] = h.sta_aid[p[1]] \ {h.sta[p].aid}
        /\ \A b \in Bss \ {p[1]} : g.sta_aid[b] = h.sta_aid[b]
    BY <1>2, <1>0, Fields
  <2>2. \A q \in Reach : Known(g, q) => q # p /\ Known(h, q) /\ g.sta[q] = h.sta[q]
    BY <1>3, <1>4
  <2>3. ASSUME NEW q \in Reach, q[1] \notin M, Known(g, q), g.sta[q].aid > 0
        PROVE  g.sta[q].aid \in g.sta_aid[q[1]]
    <3>1. g.sta[q].aid \in h.sta_aid[q[1]]
      BY <2>2, <2>3 DEF AidInv
    <3>2. q[1] = p[1] => h.sta[q].aid # h.sta[p].aid
      BY <2>2, <2>3 DEF AidInv
    <3>3. q[1] \in Bss /\ g.sta[q] = h.sta[q]
      BY <2>2, <2>3, PairType
    <3> QED
      BY <2>1, <3>1, <3>2, <3>3
  <2>4. ASSUME NEW b \in Bss \ M, NEW a \in g.sta_aid[b]
        PROVE  \E q \in Here(g, b) : g.sta[q].aid = a
    <3>1. a \in h.sta_aid[b] /\ (b = p[1] => a # h.sta[p].aid)
      BY <2>1, <2>4
    <3>2. PICK q \in Here(h, b) : h.sta[q].aid = a
      BY <3>1 DEF AidInv
    <3>3. q # p
      BY <3>1, <3>2 DEF Here
    <3> QED
      BY <3>2, <3>3, <1>3, <1>4 DEF Here
  <2> QED
    BY <2>2, <2>3, <2>4 DEF AidInv
<1>8. DriverInv(g, L \ {p})
  BY <1>2, <1>3, <1>4 DEF DriverInv, Has
<1>9. OneInv(g)
  BY <1>3, <1>4 DEF OneInv, Has
<1>10. Good(g, L \ {p}, M)
  BY <1>2, <1>5, <1>6, <1>7, <1>8, <1>9 DEF Good
<1> QED
  BY <1>10 DEF g

\* hostapd_free_stas
LEMMA GoodFreeStas ==
    ASSUME NEW h, NEW b \in Bss, NEW L, NEW M, Good(h, L, M)
    PROVE  Good(FreeStas(h, b), {p \in L : p[1] # b}, M)
<1> DEFINE g == FreeStas(h, b)
           sta == [p \in Reach |-> IF p[1] = b THEN NoSta ELSE h.sta[p]]
           ids == {h.sta[p].aid : p \in {q \in Reach : q[1] = b /\ Known(h, q)}}
           sta_aid == [h.sta_aid EXCEPT ![b] = h.sta_aid[b] \ ids]
           num_sta == [h.num_sta EXCEPT ![b] = h.num_sta[b]
                          - Cardinality({p \in Reach : p[1] = b /\ Known(h, p)})]
           timer == [p \in Reach |-> IF p[1] = b THEN 0 ELSE h.timer[p]]
           cb == [p \in Reach |-> IF p[1] = b THEN {} ELSE h.cb[p]]
           drv == {p \in h.drv : p[1] # b}
<1>1. h \in State /\ TimerInv(h) /\ CountInv(h) /\ AidInv(h, M) /\ DriverInv(h, L)
      /\ OneInv(h)
  BY DEF Good
<1>2. /\ sta \in [Reach -> Entry \cup {NoSta}] /\ timer \in [Reach -> Nat]
      /\ cb \in [Reach -> SUBSET {"deauth", "disassoc"}] /\ drv \subseteq Reach
  BY <1>1, Fields
<1>3. /\ sta_aid \in [Bss -> SUBSET (1..MaxAid)]
      /\ sta_aid[b] = h.sta_aid[b] \ ids
      /\ \A c \in Bss \ {b} : sta_aid[c] = h.sta_aid[c]
  <2> HIDE DEF ids
  <2> QED
    BY <1>1, Fields
<1>4. num_sta \in [Bss -> Nat] /\ num_sta[b] = 0 /\ \A c \in Bss \ {b} : num_sta[c] = h.num_sta[c]
  <2>1. h.num_sta[b] = Cardinality(Here(h, b)) /\ h.num_sta \in [Bss -> Nat]
    BY <1>1, Fields DEF CountInv
  <2>2. num_sta = [h.num_sta EXCEPT ![b] = h.num_sta[b] - Cardinality(Here(h, b))]
    BY DEF Here
  <2>3. h.num_sta[b] - Cardinality(Here(h, b)) = 0
    BY <2>1
  <2> HIDE DEF num_sta
  <2> QED
    BY <2>1, <2>2, <2>3
<1>5. g = [h EXCEPT !.sta = sta, !.sta_aid = sta_aid, !.num_sta = num_sta,
                    !.timer = timer, !.cb = cb, !.drv = drv]
  BY DEF FreeStas
<1>6. \A p \in Reach : /\ p[1] = b => sta[p] = NoSta /\ timer[p] = 0 /\ cb[p] = {}
                       /\ p[1] # b => sta[p] = h.sta[p] /\ timer[p] = h.timer[p]
                                      /\ cb[p] = h.cb[p]
  OBVIOUS
<1>7. \A p \in drv : p \in h.drv /\ p[1] # b
  OBVIOUS
<1>8. \A p \in h.drv : p[1] # b => p \in drv
  OBVIOUS
<1>9. b \notin M => h.sta_aid[b] \ ids = {}
  <2>1. \A a \in h.sta_aid[b] : b \notin M => \E p \in Here(h, b) : h.sta[p].aid = a
    BY <1>1 DEF AidInv
  <2> QED
    BY <2>1 DEF Here
<1> HIDE DEF sta, sta_aid, num_sta, timer, cb, drv, ids, g
<1>10. /\ g \in State /\ g.sta = sta /\ g.sta_aid = sta_aid /\ g.num_sta = num_sta
       /\ g.timer = timer /\ g.cb = cb /\ g.drv = drv
  BY <1>1, <1>2, <1>3, <1>4, <1>5 DEF State
<1>11. \A p \in Reach : Known(g, p) <=> Known(h, p) /\ p[1] # b
  BY <1>6, <1>10 DEF Known
<1>12. TimerInv(g)
  BY <1>1, <1>6, <1>10, <1>11 DEF TimerInv
<1>13. CountInv(g)
  <2> SUFFICES ASSUME NEW c \in Bss
               PROVE  /\ g.num_sta[c] = Cardinality(Here(g, c))
                      /\ g.num_sta[c] <= MaxSta[c]
    BY DEF CountInv
  <2>1. CASE c = b
    <3>1. Here(g, c) = {}
      BY <2>1, <1>11 DEF Here
    <3> QED
      BY <2>1, <3>1, <1>4, <1>10, FS_EmptySet, StationsAssumption
  <2>2. CASE c # b
    <3>1. Here(g, c) = Here(h, c)
      BY <2>2, <1>11 DEF Here
    <3> QED
      BY <2>2, <3>1, <1>1, <1>4, <1>10 DEF CountInv
  <2> QED
    BY <2>1, <2>2
<1>14. AidInv(g, M)
  <2>1. \A q \in Reach : Known(g, q) => q[1] # b /\ q[1] \in Bss /\ Known(h, q) /\ g.sta[q] = h.sta[q]
    BY <1>6, <1>10, <1>11, PairType
  <2>2. ASSUME NEW c \in Bss \ M, NEW a \in g.sta_aid[c]
        PROVE  \E q \in Here(g, c) : g.sta[q].aid = a
    <3>1. c # b /\ a \in h.sta_aid[c]
      BY <2>2, <1>3, <1>9, <1>10
    <3>2. PICK q \in Here(h, c) : h.sta[q].aid = a
      BY <3>1, <1>1 DEF AidInv
    <3> QED
      BY <3>1, <3>2, <1>6, <1>10, <1>11 DEF Here
  <2>3. \A q \in Reach : Known(g, q) => g.sta_aid[q[1]] = h.sta_aid[q[1]]
    BY <2>1, <1>3, <1>10
  <2> QED
    BY <2>1, <2>2, <2>3, <1>1 DEF AidInv
<1>15. DriverInv(g, {p \in L : p[1] # b})
  BY <1>1, <1>6, <1>7, <1>8, <1>10, <1>11 DEF DriverInv, Has
<1>16. OneInv(g)
  BY <1>1, <1>6, <1>10, <1>11 DEF OneInv, Has
<1>17. Good(g, {p \in L : p[1] # b}, M)
  BY <1>10, <1>12, <1>13, <1>14, <1>15, <1>16 DEF Good
<1> QED
  BY <1>17 DEF g

-----------------------------------------------------------------------------
(* Entries that change                                                     *)

\* The table with e for the entry of p.
SetEntry(h, p, e) == [h EXCEPT !.sta = [h.sta EXCEPT ![p] = e]]

\* What changing one entry changes.
LEMMA SetEntryFields ==
    ASSUME NEW h \in State, NEW p \in Reach, NEW e \in Entry, NEW g,
           g = SetEntry(h, p, e)
    PROVE  /\ g \in State /\ g.sta[p] = e
           /\ \A q \in Reach \ {p} : g.sta[q] = h.sta[q]
           /\ g.sta_aid = h.sta_aid /\ g.num_sta = h.num_sta /\ g.timer = h.timer
           /\ g.cb = h.cb /\ g.drv = h.drv /\ g.tx = h.tx
<1>1. [h.sta EXCEPT ![p] = e] \in [Reach -> Entry \cup {NoSta}]
  BY Fields
<1>2. /\ g \in State /\ g.sta = [h.sta EXCEPT ![p] = e]
      /\ g.sta_aid = h.sta_aid /\ g.num_sta = h.num_sta /\ g.timer = h.timer
      /\ g.cb = h.cb /\ g.drv = h.drv /\ g.tx = h.tx
  BY <1>1 DEF State, SetEntry
<1> QED
  BY <1>2, Fields

\* An entry changes without a new association.
LEMMA GoodSetEntry ==
    ASSUME NEW h, NEW p \in Reach, NEW e \in Entry, NEW g, NEW L, NEW M,
           Good(h, L, M), Known(h, p), e.aid = h.sta[p].aid,
           "ASSOC" \in e.flags => "ASSOC" \in h.sta[p].flags,
           "AUTHORIZED" \in e.flags => "ASSOC" \in e.flags,
           g = SetEntry(h, p, e)
    PROVE  Good(g, L, M)
<1>1. h \in State
  BY DEF Good
<1>2. /\ g \in State /\ g.sta[p] = e
      /\ \A q \in Reach \ {p} : g.sta[q] = h.sta[q]
      /\ g.sta_aid = h.sta_aid /\ g.num_sta = h.num_sta /\ g.timer = h.timer
      /\ g.cb = h.cb /\ g.drv = h.drv
  BY <1>1, SetEntryFields
<1>3. Known(g, p) /\ \A q \in Reach \ {p} : Known(g, q) <=> Known(h, q)
  BY <1>2, EntryIsSta DEF Known
<1>4. Follows(h, g, M)
  BY <1>2, <1>3 DEF Follows
<1>5. Weaker(h, g, L, L)
  BY <1>2, <1>3 DEF Weaker, Has
<1> QED
  BY <1>2, <1>4, <1>5, GoodFollows

\* A set of natural numbers has a least element.
LEMMA LeastNumber ==
    ASSUME NEW S \in SUBSET Nat, S # {}
    PROVE  \E a \in S : \A o \in S : a <= o
<1>1. PICK a \in S : \A o \in S : <<o, a>> \notin OpToRel(<, Nat)
  BY NatLessThanWellFounded, WFMin, Zenon
<1>2. \A o \in S : ~(o < a)
  BY <1>1 DEF OpToRel
<1> QED
  BY <1>2

\* hostapd_get_aid takes an id that is free.
LEMMA GoodGetAid ==
    ASSUME NEW h, NEW p \in Reach, NEW L, NEW M, Good(h, L, M), Known(h, p),
           h.sta[p].aid > 0 \/ FreeAids(h, p[1]) # {}
    PROVE  Good(GetAid(h, p), L, M) /\ Known(GetAid(h, p), p)
<1>1. h \in State /\ TimerInv(h) /\ CountInv(h) /\ AidInv(h, M) /\ DriverInv(h, L)
      /\ OneInv(h)
  BY DEF Good
<1>2. p[1] \in Bss /\ h.sta[p] \in Entry
  BY <1>1, Fields, PairType DEF Known
<1>3. CASE h.sta[p].aid > 0
  BY <1>3 DEF GetAid
<1>4. CASE ~(h.sta[p].aid > 0)
  <2> DEFINE b == p[1]
             aid == CHOOSE a \in FreeAids(h, b) : \A o \in FreeAids(h, b) : a <= o
             e == [h.sta[p] EXCEPT !.aid = aid]
             ids == [h.sta_aid EXCEPT ![b] = h.sta_aid[b] \cup {aid}]
             sta == [h.sta EXCEPT ![p] = e]
             g == GetAid(h, p)
  <2>1. aid \in FreeAids(h, b)
    <3>1. FreeAids(h, b) \in SUBSET Nat /\ FreeAids(h, b) # {}
      BY <1>4 DEF FreeAids
    <3>2. \E a \in FreeAids(h, b) : \A o \in FreeAids(h, b) : a <= o
      BY <3>1, LeastNumber
    <3> QED
      BY <3>2
  <2>2. g = [h EXCEPT !.sta = sta, !.sta_aid = ids]
    BY <1>4 DEF GetAid
  <2> HIDE DEF aid
  <2>3. aid \in 1..MaxAid /\ aid \notin h.sta_aid[b]
    BY <2>1 DEF FreeAids
  <2>4. e \in Entry /\ e.aid = aid /\ e.flags = h.sta[p].flags
    BY <1>2, <2>3, StationsAssumption DEF Entry
  <2> HIDE DEF e
  <2>5. /\ sta \in [Reach -> Entry \cup {NoSta}] /\ sta[p] = e
        /\ \A q \in Reach \ {p} : sta[q] = h.sta[q]
    BY <1>1, <2>4, Fields
  <2>6. /\ ids \in [Bss -> SUBSET (1..MaxAid)] /\ ids[b] = h.sta_aid[b] \cup {aid}
        /\ \A c \in Bss \ {b} : ids[c] = h.sta_aid[c]
    BY <1>1, <1>2, <2>3, Fields
  <2> HIDE DEF ids, sta, g
  <2>7. /\ g \in State /\ g.sta = sta /\ g.sta_aid = ids /\ g.num_sta = h.num_sta
        /\ g.timer = h.timer /\ g.cb = h.cb /\ g.drv = h.drv
    BY <1>1, <2>2, <2>5, <2>6 DEF State
  <2>8. \A q \in Reach : Known(g, q) <=> Known(h, q)
    BY <2>4, <2>5, <2>7, EntryIsSta DEF Known
  <2>9. \A q \in Reach, f \in {"ASSOC", "AUTHORIZED"} : Has(g, q, f) <=> Has(h, q, f)
    BY <2>4, <2>5, <2>7, <2>8 DEF Has
  <2>10. TimerInv(g)
    BY <1>1, <2>7, <2>8 DEF TimerInv
  <2>11. CountInv(g)
    <3>1. \A c \in Bss : Here(g, c) = Here(h, c)
      BY <2>8 DEF Here
    <3> QED
      BY <3>1, <1>1, <2>7 DEF CountInv
  <2>12. AidInv(g, M)
    <3>1. \A q \in Reach \ {p} : g.sta[q] = h.sta[q]
      BY <2>5, <2>7
    <3>2. g.sta[p].aid = aid
      BY <2>4, <2>5, <2>7
    <3>3. ASSUME NEW q \in Reach, q[1] \notin M, Known(g, q), g.sta[q].aid > 0
          PROVE  g.sta[q].aid \in g.sta_aid[q[1]]
      <4>1. CASE q = p
        BY <4>1, <3>2, <2>6, <2>7
      <4>2. CASE q # p
        <5>1. g.sta[q].aid \in h.sta_aid[q[1]]
          BY <4>2, <3>1, <3>3, <2>8, <1>1 DEF AidInv
        <5> QED
          BY <5>1, <2>6, <2>7, PairType
      <4> QED
        BY <4>1, <4>2
    <3>4. ASSUME NEW c \in Bss \ M, NEW a \in g.sta_aid[c]
          PROVE  \E q \in Here(g, c) : g.sta[q].aid = a
      <4>1. CASE c = b /\ a = aid
        <5>1. p \in Here(g, c)
          BY <4>1, <2>8 DEF Here
        <5> QED
          BY <5>1, <4>1, <3>2
      <4>2. CASE ~(c = b /\ a = aid)
        <5>1. a \in h.sta_aid[c]
          BY <4>2, <3>4, <2>6, <2>7
        <5>2. PICK q \in Here(h, c) : h.sta[q].aid = a
          BY <5>1, <1>1 DEF AidInv
        <5>3. a > 0
          BY <5>1, <1>1, Fields
        <5>4. q # p /\ q \in Here(g, c)
          BY <5>2, <5>3, <1>4, <2>8 DEF Here
        <5> QED
          BY <5>2, <5>4, <3>1 DEF Here
      <4> QED
        BY <4>1, <4>2
    <3>5. ASSUME NEW q \in Reach, NEW r \in Reach, q[1] = r[1], q[1] \notin M,
                 Known(g, q), Known(g, r), g.sta[q].aid > 0, g.sta[q].aid = g.sta[r].aid
          PROVE  q = r
      <4>1. ASSUME NEW s \in Reach, s # p, s[1] = b, b \notin M, Known(g, s), g.sta[s].aid = aid
            PROVE  FALSE
        <5>1. aid \in h.sta_aid[s[1]]
          BY <4>1, <3>1, <2>3, <2>8, <1>1 DEF AidInv
        <5> QED
          BY <5>1, <4>1, <2>3
      <4>2. CASE q # p /\ r # p
        BY <4>2, <3>5, <3>1, <2>8, <1>1 DEF AidInv
      <4> QED
        BY <4>1, <4>2, <3>2, <3>5
    <3> QED
      BY <3>3, <3>4, <3>5 DEF AidInv
  <2>13. DriverInv(g, L)
    BY <1>1, <2>7, <2>8, <2>9 DEF DriverInv
  <2>14. OneInv(g)
    BY <1>1, <2>9 DEF OneInv
  <2>15. Good(g, L, M)
    BY <2>7, <2>10, <2>11, <2>12, <2>13, <2>14 DEF Good
  <2> QED
    BY <2>8, <2>15 DEF g
<1> QED
  BY <1>3, <1>4

\* Entries with other flags, and with another next timeout.
LEMMA WithFlags ==
    ASSUME NEW e \in Entry, NEW F \in SUBSET Flag, NEW d, d = [e EXCEPT !.flags = F]
    PROVE  d \in Entry /\ d.flags = F /\ d.aid = e.aid
BY DEF Entry

\* An entry with another next timeout.
LEMMA WithTimeout ==
    ASSUME NEW e \in Entry, NEW x \in Timeout, NEW d, d = [e EXCEPT !.timeout_next = x]
    PROVE  d \in Entry /\ d.flags = e.flags /\ d.aid = e.aid
BY DEF Entry

\* The flags of an entry are replaced by F.
SetFlags(h, p, F) == [h EXCEPT !.sta[p].flags = F]

\* Flags may be set as long as none but an associated station is authorized.
LEMMA GoodSetFlags ==
    ASSUME NEW h, NEW p \in Reach, NEW F \in SUBSET Flag, NEW L, NEW M,
           Good(h, L, M), Known(h, p),
           "ASSOC" \in F => "ASSOC" \in h.sta[p].flags,
           "AUTHORIZED" \in F => "ASSOC" \in F
    PROVE  Good(SetFlags(h, p, F), L, M) /\ Known(SetFlags(h, p, F), p)
<1> DEFINE e == [h.sta[p] EXCEPT !.flags = F]
<1>1. h \in State /\ h.sta[p] \in Entry
  BY Fields DEF Good, Known
<1>2. e \in Entry /\ e.flags = F /\ e.aid = h.sta[p].aid
  BY <1>1 DEF Entry
<1>3. SetFlags(h, p, F) = SetEntry(h, p, e)
  BY DEF SetFlags, SetEntry
<1> HIDE DEF e
<1>4. Good(SetEntry(h, p, e), L, M)
  BY <1>2, GoodSetEntry
<1>5. Known(SetEntry(h, p, e), p)
  BY <1>1, <1>2, SetEntryFields, EntryIsSta DEF Known
<1> QED
  BY <1>3, <1>4, <1>5

\* The next timeout of an entry is replaced by x.
SetTimeout(h, p, x) == [h EXCEPT !.sta[p].timeout_next = x]

\* The next timeout of an entry may be set.
LEMMA GoodSetTimeout ==
    ASSUME NEW h, NEW p \in Reach, NEW x \in Timeout, NEW L, NEW M,
           Good(h, L, M), Known(h, p)
    PROVE  Good(SetTimeout(h, p, x), L, M) /\ Known(SetTimeout(h, p, x), p)
<1> DEFINE e == [h.sta[p] EXCEPT !.timeout_next = x]
<1>1. h \in State /\ h.sta[p] \in Entry
  BY Fields DEF Good, Known
<1>2. e \in Entry /\ e.flags = h.sta[p].flags /\ e.aid = h.sta[p].aid
  BY <1>1, WithTimeout
<1>3. SetTimeout(h, p, x) = SetEntry(h, p, e)
  BY DEF SetTimeout, SetEntry
<1> HIDE DEF e
<1>4. "AUTHORIZED" \in h.sta[p].flags => "ASSOC" \in h.sta[p].flags
  BY DEF Good, DriverInv, Has
<1>5. Good(SetEntry(h, p, e), L, M)
  BY <1>2, <1>4, GoodSetEntry
<1>6. Known(SetEntry(h, p, e), p)
  BY <1>1, <1>2, SetEntryFields, EntryIsSta DEF Known
<1> QED
  BY <1>3, <1>5, <1>6

\* Flags other than those of an association come and go.
LEMMA GoodFlags ==
    ASSUME NEW h, NEW p \in Reach, NEW F \in SUBSET Flag, NEW L, NEW M,
           Good(h, L, M), Known(h, p),
           \A f \in {"ASSOC", "AUTHORIZED"} : f \in F <=> f \in h.sta[p].flags
    PROVE  Good(SetFlags(h, p, F), L, M) /\ Known(SetFlags(h, p, F), p)
<1>1. "AUTHORIZED" \in h.sta[p].flags => "ASSOC" \in h.sta[p].flags
  BY DEF Good, DriverInv, Has
<1> QED
  BY <1>1, GoodSetFlags

\* The entry of a known station and its fields.
LEMMA FlagsType ==
    ASSUME NEW h, NEW p \in Reach, NEW L, NEW M, Good(h, L, M), Known(h, p)
    PROVE  /\ h.sta[p] \in Entry /\ h.sta[p].flags \in SUBSET Flag
           /\ h.sta[p].timeout_next \in Timeout
<1>1. h.sta[p] \in Entry
  BY Fields DEF Good, Known
<1> QED
  BY <1>1, EntryFields

\* handle_auth
LEMMA GoodAuthenticated ==
    ASSUME NEW h, NEW p \in Reach, NEW L, NEW M, Good(h, L, M)
    PROVE  Good(Authenticated(h, p), L, M)
<1>1. CASE Room(h, p)
  <2> DEFINE a == AddSta(h, p)
             F == a.sta[p].flags \cup {"AUTH"}
  <2>1. Good(a, L, M) /\ Known(a, p)
    BY <1>1, GoodAddSta
  <2>2. Authenticated(h, p) = SetFlags(a, p, F)
    BY <1>1 DEF Authenticated, SetFlags
  <2> HIDE DEF a
  <2>3. F \in SUBSET Flag
    BY <2>1, FlagsType DEF Flag
  <2>4. \A f \in {"ASSOC", "AUTHORIZED"} : f \in F <=> f \in a.sta[p].flags
    OBVIOUS
  <2> HIDE DEF F
  <2> QED
    BY <2>1, <2>2, <2>3, <2>4, GoodFlags
<1>2. CASE ~Room(h, p)
  BY <1>2 DEF Authenticated
<1> QED
  BY <1>1, <1>2

\* handle_assoc
LEMMA GoodAssociating ==
    ASSUME NEW h, NEW p \in Reach, NEW ies, NEW L, NEW M, Good(h, L, M), Known(h, p)
    PROVE  Good(Associating(h, p, ies), L, M) /\ Known(Associating(h, p, ies), p)
<1>1. CASE Granted(h, p, ies)
  <2> DEFINE a == GetAid(h, p)
  <2>1. Good(a, L, M) /\ Known(a, p)
    BY <1>1, GoodGetAid DEF Granted
  <2>2. Associating(h, p, ies) = SetTimeout(a, p, "NULLFUNC")
    BY <1>1 DEF Associating, SetTimeout
  <2> HIDE DEF a
  <2> QED
    BY <2>1, <2>2, GoodSetTimeout DEF Timeout
<1>2. CASE ~Granted(h, p, ies)
  BY <1>2 DEF Associating
<1> QED
  BY <1>1, <1>2

\* A BSS that NEW_STA is used on.
LEMMA GoodMoved ==
    ASSUME NEW h, NEW L, NEW M, NEW N, M \subseteq N, Good(h, L, M)
    PROVE  Good(h, L, N)
<1>1. AidInv(h, M)
  BY DEF Good
<1>2. AidInv(h, N)
  BY <1>1 DEF AidInv
<1> QED
  BY <1>2 DEF Good

-----------------------------------------------------------------------------
(* A station is associated                                                 *)

\* The entry handle_assoc_cb makes before it asks the driver, and the one it
\* makes when the driver has taken the station; the table in either case.
AssocEntry(d, cli, open) ==
    [d EXCEPT !.flags = IF cli THEN {"AUTH", "ASSOC"}
                        ELSE @ \cup {"ASSOC"} \cup IF open THEN {"AUTHORIZED"} ELSE {},
              !.aid = IF cli THEN 1 ELSE @]

AdmitEntry(e, cli, w) ==
    [e EXCEPT !.flags = @ \cup IF cli THEN {"AUTHORIZED"} ELSE {}, !.wpa_sm = w]

Admit(h, p, n) == [h EXCEPT !.sta[p] = n, !.drv = @ \cup {p}, !.timer[p] = 1]

Refuse(h, p, e) == [h EXCEPT !.sta[p] = e, !.drv = @ \ {p}]

\* The entry of a station that has associated.
LEMMA EntryAssociated ==
    ASSUME NEW d \in Entry, NEW cli \in BOOLEAN, NEW open \in BOOLEAN, NEW e,
           e = AssocEntry(d, cli, open)
    PROVE  /\ e \in Entry /\ "ASSOC" \in e.flags
           /\ ~cli => e.aid = d.aid
<1>1. d.flags \subseteq Flag /\ d.aid \in 0..MaxAid
  BY EntryFields
<1>2. 1 \in 0..MaxAid
  BY StationsAssumption
<1> DEFINE F == IF cli THEN {"AUTH", "ASSOC"}
                ELSE d.flags \cup {"ASSOC"}
                       \cup IF open THEN {"AUTHORIZED"} ELSE {}
           a == IF cli THEN 1 ELSE d.aid
<1>3. F \in SUBSET Flag /\ a \in 0..MaxAid /\ "ASSOC" \in F
  BY <1>1, <1>2 DEF Flag
<1>4. e = [d EXCEPT !.flags = F, !.aid = a]
  BY DEF AssocEntry
<1>5. ~cli => a = d.aid
  OBVIOUS
<1> HIDE DEF F, a
<1>6. e \in Entry /\ e.flags = F /\ e.aid = a
  BY <1>3, <1>4 DEF Entry
<1> QED
  BY <1>3, <1>5, <1>6

\* The entry of an associated station the driver has taken.
LEMMA EntryAdmitted ==
    ASSUME NEW e \in Entry, "ASSOC" \in e.flags, NEW cli \in BOOLEAN,
           NEW w \in BOOLEAN, NEW n,
           n = AdmitEntry(e, cli, w)
    PROVE  n \in Entry /\ "ASSOC" \in n.flags /\ n.aid = e.aid
<1> DEFINE F == e.flags \cup IF cli THEN {"AUTHORIZED"} ELSE {}
<1>1. F \in SUBSET Flag /\ "ASSOC" \in F
  BY EntryFields DEF Flag
<1>2. n = [e EXCEPT !.flags = F, !.wpa_sm = w]
  BY DEF AdmitEntry
<1> HIDE DEF F
<1> QED
  BY <1>1, <1>2 DEF Entry

\* The driver takes the station: its new entry, before the other BSSs are told.
LEMMA AdmittedFields ==
    ASSUME NEW h \in State, NEW p \in Reach, NEW n \in Entry, NEW g,
           g = Admit(h, p, n)
    PROVE  /\ g \in State /\ g.sta[p] = n /\ g.timer[p] = 1
           /\ \A q \in Reach \ {p} : g.sta[q] = h.sta[q] /\ g.timer[q] = h.timer[q]
           /\ g.drv = h.drv \cup {p}
           /\ g.sta_aid = h.sta_aid /\ g.num_sta = h.num_sta /\ g.cb = h.cb
<1> DEFINE sta == [h.sta EXCEPT ![p] = n]
           timer == [h.timer EXCEPT ![p] = 1]
           drv == h.drv \cup {p}
<1>1. /\ sta \in [Reach -> Entry \cup {NoSta}] /\ timer \in [Reach -> Nat]
      /\ drv \subseteq Reach
      /\ sta[p] = n /\ timer[p] = 1
      /\ \A q \in Reach \ {p} : sta[q] = h.sta[q] /\ timer[q] = h.timer[q]
  BY Fields
<1>2. g = [h EXCEPT !.sta = sta, !.drv = drv, !.timer = timer]
  BY DEF Admit
<1> HIDE DEF sta, timer
<1>3. /\ g \in State /\ g.sta = sta /\ g.timer = timer /\ g.drv = drv
      /\ g.sta_aid = h.sta_aid /\ g.num_sta = h.num_sta /\ g.cb = h.cb
  BY <1>1, <1>2 DEF State
<1> QED
  BY <1>1, <1>3

\* The driver refuses it.
LEMMA RefusedFields ==
    ASSUME NEW h \in State, NEW p \in Reach, NEW e \in Entry, NEW g,
           g = Refuse(h, p, e)
    PROVE  /\ g \in State /\ g.sta[p] = e
           /\ \A q \in Reach \ {p} : g.sta[q] = h.sta[q]
           /\ g.drv = h.drv \ {p} /\ g.timer = h.timer
           /\ g.sta_aid = h.sta_aid /\ g.num_sta = h.num_sta /\ g.cb = h.cb
<1> DEFINE sta == [h.sta EXCEPT ![p] = e]
           drv == h.drv \ {p}
<1>1. /\ sta \in [Reach -> Entry \cup {NoSta}] /\ drv \subseteq Reach
      /\ sta[p] = e /\ \A q \in Reach \ {p} : sta[q] = h.sta[q]
  BY Fields
<1>2. g = [h EXCEPT !.sta = sta, !.drv = drv]
  BY DEF Refuse
<1> HIDE DEF sta
<1>3. /\ g \in State /\ g.sta = sta /\ g.drv = drv /\ g.timer = h.timer
      /\ g.sta_aid = h.sta_aid /\ g.num_sta = h.num_sta /\ g.cb = h.cb
  BY <1>1, <1>2 DEF State
<1> QED
  BY <1>1, <1>3

\* hostapd_prune_associations: the station is associated with one BSS.
LEMMA GoodPrune ==
    ASSUME NEW h, NEW g \in State, NEW p \in Reach, NEW L, NEW K, NEW M,
           Good(h, L, M), Follows(h, g, M), DriverInv(g, K), Known(h, p),
           \A q \in Reach \ {p} : g.sta[q] = h.sta[q]
    PROVE  Good(Prune(g, p), K, M)
<1> DEFINE d == Prune(g, p)
           Q == Elsewhere(g, p)
<1>1. TimerInv(g) /\ CountInv(g) /\ AidInv(g, M)
  BY TablesFollow DEF Good
<1>2. Q \in SUBSET Reach /\ p \notin Q /\ \A q \in Q : Known(g, q)
  BY DEF Elsewhere
<1>3. \A q \in Reach : q # p /\ Near(p, q) /\ Known(g, q) => q \in Q
  BY DEF Elsewhere, Near
<1>4. d = Disassociate(g, Q)
  BY DEF Prune
<1> HIDE DEF d, Q
<1>5. /\ d \in State /\ d.drv = g.drv
      /\ Follows(g, d, M)
      /\ \A q \in Reach \ Q : d.sta[q] = g.sta[q]
      /\ \A q \in Q : ~Has(d, q, "ASSOC") /\ ~Has(d, q, "AUTHORIZED")
  BY <1>2, <1>4, DisassociateFields
<1>6. TimerInv(d) /\ CountInv(d) /\ AidInv(d, M)
  BY <1>1, <1>5, TablesFollow
<1>7. \A q \in Reach : Known(d, q) <=> Known(g, q)
  BY <1>5 DEF Follows
<1>8. DriverInv(d, K)
  BY <1>5, <1>7 DEF DriverInv, Has
<1>9. OneInv(d)
  <2>1. \A q \in Reach : q # p /\ Has(d, q, "ASSOC") => Has(h, q, "ASSOC") /\ ~Near(p, q)
    BY <1>3, <1>5, <1>7 DEF Has, Known
  <2>2. \A q, r \in Reach : Near(q, r) => Near(r, q)
    BY DEF Near
  <2> QED
    BY <2>1, <2>2 DEF OneInv, Good
<1>10. Good(d, K, M)
  BY <1>5, <1>6, <1>8, <1>9 DEF Good
<1> QED
  BY <1>10 DEF d

\* handle_assoc_cb
LEMMA GoodAssociated ==
    ASSUME NEW h, NEW p \in Reach, NEW cli \in BOOLEAN, NEW added \in BOOLEAN,
           NEW L, NEW M, Good(h, L, M), Known(h, p), cli => p[1] \in M
    PROVE  Good(Associated(h, p, cli, added), L \ {p}, M)
<1> DEFINE open == p[1] \notin Wpa
           e == AssocEntry(h.sta[p], cli, open)
           n == AdmitEntry(e, cli, ~open /\ ~cli)
           new == Admit(h, p, n)
           old == Refuse(h, p, e)
<1>1. h \in State /\ h.sta[p] \in Entry
  BY Fields DEF Good, Known
<1>2. Associated(h, p, cli, added) = IF added THEN Prune(new, p) ELSE Disconnect(old, {p})
  BY DEF Associated, AssocEntry, AdmitEntry, Admit, Refuse
<1> HIDE DEF open
<1>3. /\ e \in Entry /\ "ASSOC" \in e.flags
      /\ ~cli => e.aid = h.sta[p].aid
  <2>1. open \in BOOLEAN
    BY DEF open
  <2> QED
    BY <1>1, <2>1, EntryAssociated
<1> HIDE DEF e
<1>4. n \in Entry /\ "ASSOC" \in n.flags /\ n.aid = e.aid
  <2>1. (~open /\ ~cli) \in BOOLEAN
    OBVIOUS
  <2> QED
    BY <1>3, <2>1, EntryAdmitted
<1> HIDE DEF n
<1>5. CASE added
  <2>1. /\ new \in State /\ new.sta[p] = n /\ new.timer[p] = 1
        /\ \A q \in Reach \ {p} : new.sta[q] = h.sta[q] /\ new.timer[q] = h.timer[q]
        /\ new.drv = h.drv \cup {p}
        /\ new.sta_aid = h.sta_aid /\ new.num_sta = h.num_sta /\ new.cb = h.cb
    BY <1>1, <1>4, AdmittedFields
  <2> HIDE DEF new
  <2>2. Known(new, p) /\ \A q \in Reach \ {p} : Known(new, q) <=> Known(h, q)
    BY <2>1, <1>4, EntryIsSta DEF Known
  <2>3. Follows(h, new, M)
    BY <2>1, <2>2, <1>3, <1>4 DEF Follows
  <2>4. DriverInv(new, L \ {p})
    BY <2>1, <2>2, <1>4 DEF DriverInv, Has, Good
  <2> QED
    BY <2>1, <2>3, <2>4, <1>2, <1>5, GoodPrune
<1>6. CASE ~added
  <2> DEFINE d == Disconnect(old, {p})
  <2>1. /\ old \in State /\ old.sta[p] = e
        /\ \A q \in Reach \ {p} : old.sta[q] = h.sta[q]
        /\ old.drv = h.drv \ {p} /\ old.timer = h.timer
        /\ old.sta_aid = h.sta_aid /\ old.num_sta = h.num_sta /\ old.cb = h.cb
    BY <1>1, <1>3, RefusedFields
  <2> HIDE DEF old
  <2>2. Known(old, p) /\ \A q \in Reach \ {p} : Known(old, q) <=> Known(h, q)
    BY <2>1, <1>3, EntryIsSta DEF Known
  <2>3. Follows(h, old, M)
    BY <2>1, <2>2, <1>3 DEF Follows
  <2>4. /\ d \in State /\ d.drv = old.drv
        /\ Follows(old, d, M)
        /\ \A q \in Reach \ {p} : d.sta[q] = old.sta[q]
        /\ \A q \in {p} : ~Has(d, q, "ASSOC") /\ ~Has(d, q, "AUTHORIZED")
    <3>1. {p} \in SUBSET Reach /\ \A q \in {p} : Known(old, q)
      BY <2>2
    <3> QED
      BY <2>1, <3>1, DisconnectFields
  <2> HIDE DEF d
  <2>5. TimerInv(d) /\ CountInv(d) /\ AidInv(d, M)
    <3>1. TimerInv(old) /\ CountInv(old) /\ AidInv(old, M)
      BY <2>3, TablesFollow DEF Good
    <3> QED
      BY <3>1, <2>4, TablesFollow
  <2>6. \A q \in Reach : Known(d, q) <=> Known(h, q)
    BY <2>2, <2>4 DEF Follows
  <2>7. DriverInv(d, L \ {p})
    BY <2>1, <2>4, <2>6 DEF DriverInv, Has, Good
  <2>8. OneInv(d)
    BY <2>1, <2>4, <2>6 DEF OneInv, Has, Good
  <2>9. Good(d, L \ {p}, M)
    BY <2>4, <2>5, <2>7, <2>8 DEF Good
  <2> QED
    BY <2>9, <1>2, <1>6 DEF d
<1> QED
  BY <1>5, <1>6

-----------------------------------------------------------------------------
(* Frames, completions and timers                                          *)

\* Sending a frame keeps the table in order.
LEMMA GoodSend ==
    ASSUME NEW h, NEW p \in Reach, NEW f \in Frame, NEW L, NEW M, Good(h, L, M)
    PROVE  Good(Sent(h, p, f), L, M)
<1> DEFINE T == h.tx \cup {<<p, f>>}
<1>1. T \in SUBSET (Reach \X Frame)
  BY Fields DEF Good
<1>2. Sent(h, p, f) = [h EXCEPT !.tx = T]
  BY DEF Sent
<1> HIDE DEF T
<1> QED
  BY <1>1, <1>2, GoodSent

\* So does the report of a TX status.
LEMMA GoodReport ==
    ASSUME NEW p, NEW f, NEW L, NEW M, Good(hapd, L, M)
    PROVE  Good(Report(p, f), L, M) /\ Report(p, f).sta = hapd.sta
                                    /\ Report(p, f).cb = hapd.cb
<1> DEFINE T == hapd.tx \ {<<p, f>>}
<1>1. hapd \in State
  BY DEF Good
<1>2. T \in SUBSET (Reach \X Frame)
  BY <1>1, Fields
<1>3. Report(p, f) = [hapd EXCEPT !.tx = T]
  BY DEF Report
<1> HIDE DEF T
<1>4. Good(Report(p, f), L, M)
  BY <1>2, <1>3, GoodSent
<1> QED
  BY <1>1, <1>2, <1>3, <1>4, SentFields

\* ap_sta_deauth_cb_timeout: the driver forgets the station.
LEMMA GoodComplete ==
    ASSUME NEW h, NEW p \in Reach, NEW L, NEW K, NEW M, Good(h, L, M), L \subseteq K,
           Has(h, p, "ASSOC") => p \in K
    PROVE  Good(Complete(h, p), K, M) /\ Complete(h, p).sta = h.sta
                                      /\ Complete(h, p).cb = h.cb
<1> DEFINE g == Complete(h, p)
<1>1. h \in State
  BY DEF Good
<1>2. /\ g \in State /\ g.sta = h.sta /\ g.sta_aid = h.sta_aid /\ g.cb = h.cb
      /\ g.num_sta = h.num_sta /\ g.timer = h.timer /\ g.drv = h.drv \ {p}
  BY <1>1 DEF State, Complete
<1> HIDE DEF g
<1>3. Follows(h, g, M)
  BY <1>2 DEF Follows, Known
<1>4. Weaker(h, g, L, K)
  BY <1>2 DEF Weaker, Known, Has
<1>5. Good(g, K, M)
  BY <1>2, <1>3, <1>4, GoodFollows
<1> QED
  BY <1>2, <1>5 DEF g

\* A completion timer is cancelled or has fired.
SetCb(h, p, C) == [h EXCEPT !.cb[p] = C]

\* A completion may be struck off.
LEMMA GoodSetCb ==
    ASSUME NEW h, NEW p \in Reach, NEW C, NEW L, NEW M, Good(h, L, M), C \subseteq h.cb[p]
    PROVE  Good(SetCb(h, p, C), L, M)
<1> DEFINE g == SetCb(h, p, C)
           cb == [h.cb EXCEPT ![p] = C]
<1>1. h \in State
  BY DEF Good
<1>2. /\ cb \in [Reach -> SUBSET {"deauth", "disassoc"}] /\ cb[p] = C
      /\ \A q \in Reach \ {p} : cb[q] = h.cb[q]
  BY <1>1, Fields
<1>3. g = [h EXCEPT !.cb = cb]
  BY DEF SetCb
<1> HIDE DEF cb, g
<1>4. /\ g \in State /\ g.sta = h.sta /\ g.sta_aid = h.sta_aid /\ g.cb = cb
      /\ g.num_sta = h.num_sta /\ g.timer = h.timer /\ g.drv = h.drv
  BY <1>1, <1>2, <1>3 DEF State
<1>5. ~Known(h, p) => C = h.cb[p]
  BY DEF Good, TimerInv
<1>6. Follows(h, g, M)
  BY <1>2, <1>4, <1>5 DEF Follows, Known
<1>7. Weaker(h, g, L, L)
  BY <1>4 DEF Weaker, Known, Has
<1>8. Good(g, L, M)
  BY <1>4, <1>6, <1>7, GoodFollows
<1> QED
  BY <1>8 DEF g

\* A timer that fires and is registered again.
LEMMA RearmFired ==
    ASSUME NEW p \in Reach, NEW x \in Timeout, NEW L, NEW M, Good(hapd, L, M),
           Known(hapd, p)
    PROVE  Rearm(Fired(p), p, x) = SetTimeout(hapd, p, x)
<1>1. hapd \in State /\ hapd.timer[p] = 1 /\ hapd.timer \in [Reach -> Nat]
  BY Fields DEF Good, TimerInv
<1> DEFINE t == [hapd.timer EXCEPT ![p] = hapd.timer[p] - 1]
           h == [hapd EXCEPT !.timer = t]
<1>2. Fired(p) = h
  BY DEF Fired
<1>3. t[p] = 0 /\ [t EXCEPT ![p] = t[p] + 1] = hapd.timer
  BY <1>1
<1> HIDE DEF t
<1>4. h.timer = t /\ h.sta = hapd.sta
  BY <1>1 DEF State
<1>5. Rearm(h, p, x) = [h EXCEPT !.timer = [h.timer EXCEPT ![p] = h.timer[p] + 1],
                                 !.sta = [h.sta EXCEPT ![p] = [h.sta[p] EXCEPT !.timeout_next = x]]]
  BY DEF Rearm
<1>6. Rearm(h, p, x) = [h EXCEPT !.timer = hapd.timer,
                                 !.sta = [hapd.sta EXCEPT ![p] = [hapd.sta[p] EXCEPT !.timeout_next = x]]]
  BY <1>3, <1>4, <1>5
<1> DEFINE s == [hapd.sta EXCEPT ![p] = [hapd.sta[p] EXCEPT !.timeout_next = x]]
<1> HIDE DEF s
<1>7. [h EXCEPT !.timer = hapd.timer, !.sta = s] = [hapd EXCEPT !.sta = s]
  BY <1>1 DEF State
<1>8. SetTimeout(hapd, p, x) = [hapd EXCEPT !.sta = s]
  BY DEF SetTimeout, s
<1> QED
  BY <1>2, <1>6, <1>7, <1>8 DEF s

\* A timer that fires and frees the entry.
LEMMA FreeFired ==
    ASSUME NEW p \in Reach, NEW L, NEW M, Good(hapd, L, M), Known(hapd, p)
    PROVE  Good(FreeSta(Fired(p), p), L \ {p}, M)
<1> DEFINE t == [hapd.timer EXCEPT ![p] = hapd.timer[p] - 1]
           h == Fired(p)
<1>1. hapd \in State /\ hapd.timer[p] = 1 /\ hapd.timer \in [Reach -> Nat]
  BY Fields DEF Good, TimerInv
<1>2. t \in [Reach -> Nat] /\ \A q \in Reach \ {p} : t[q] = hapd.timer[q]
  BY <1>1
<1>3. h = [hapd EXCEPT !.timer = t]
  BY DEF Fired
<1> HIDE DEF t, h
<1>4. /\ h \in State /\ h.sta = hapd.sta /\ h.sta_aid = hapd.sta_aid /\ h.cb = hapd.cb
      /\ h.num_sta = hapd.num_sta /\ h.timer = t /\ h.drv = hapd.drv
  BY <1>1, <1>2, <1>3 DEF State
<1>5. \A q \in Reach : Known(h, q) <=> Known(hapd, q)
  BY <1>4 DEF Known
<1>6. \A b \in Bss : Here(h, b) = Here(hapd, b)
  BY <1>5 DEF Here
<1>7. CountInv(h)
  BY <1>4, <1>6 DEF Good, CountInv
<1>8. AidInv(h, M)
  BY <1>4, <1>5, <1>6 DEF Good, AidInv
<1>9. DriverInv(h, L) /\ OneInv(h)
  BY <1>4, <1>5 DEF Good, DriverInv, OneInv, Has
<1>10. \A q \in Reach \ {p} : IF Known(h, q) THEN h.timer[q] = 1
                              ELSE h.timer[q] = 0 /\ h.cb[q] = {}
  BY <1>2, <1>4, <1>5 DEF Good, TimerInv
<1>11. Good(FreeSta(h, p), L \ {p}, M)
  BY <1>4, <1>5, <1>7, <1>8, <1>9, <1>10, GoodFreeSta
<1> QED
  BY <1>11 DEF h

-----------------------------------------------------------------------------
(* The actions, on the table                                               *)

\* The table of the running process is in order.
Fine == Good(hapd, late, moved)

\* Frames that arrive keep the table in order.
LEMMA StepReceive ==
    ASSUME NEW p \in Reach, Fine, Receive(p)
    PROVE  Fine'
<1>1. CASE handle_auth(p)
  <2>1. Good(Authenticated(hapd, p), late, moved)
    BY GoodAuthenticated DEF Fine
  <2>2. Good(Sent(Authenticated(hapd, p), p, "auth"), late, moved)
    BY <2>1, GoodSend DEF Frame
  <2> QED
    BY <1>1, <2>2 DEF handle_auth, Fine
<1>2. ASSUME NEW ies \in BOOLEAN, handle_assoc(p, ies)
      PROVE  Fine'
  <2>1. CASE ~Has(hapd, p, "AUTH")
    <3>1. Good(Sent(hapd, p, "deauth"), late, moved)
      BY GoodSend DEF Fine, Frame
    <3> QED
      BY <1>2, <2>1, <3>1 DEF handle_assoc, Fine
  <2>2. CASE Has(hapd, p, "AUTH") /\ Granted(hapd, p, ies)
    <3>1. Good(Associating(hapd, p, ies), late, moved)
      BY <2>2, GoodAssociating DEF Fine, Has
    <3>2. Good(Sent(Associating(hapd, p, ies), p, "assoc"), late, moved)
      BY <3>1, GoodSend DEF Frame
    <3> QED
      BY <1>2, <2>2, <3>2 DEF handle_assoc, Fine
  <2>3. CASE Has(hapd, p, "AUTH") /\ ~Granted(hapd, p, ies)
    BY <1>2, <2>3 DEF handle_assoc, Fine
  <2> QED
    BY <2>1, <2>2, <2>3
<1>3. CASE handle_disassoc(p)
  <2> DEFINE reset == hapd.sta[p].timeout_next \in {"NULLFUNC", "DISASSOC"}
             F == hapd.sta[p].flags \ {"ASSOC", "AUTHORIZED"}
             x == IF reset THEN "DEAUTH" ELSE hapd.sta[p].timeout_next
             e == [hapd.sta[p] EXCEPT !.flags = F, !.wpa_sm = FALSE, !.timeout_next = x]
             sta == [hapd.sta EXCEPT ![p] = e]
             timer == [hapd.timer EXCEPT ![p] = IF reset THEN 1 ELSE hapd.timer[p]]
             drv == hapd.drv \ {p}
             g == [hapd EXCEPT !.sta = sta, !.timer = timer, !.drv = drv]
  <2>1. hapd \in State /\ Known(hapd, p) /\ hapd.timer[p] = 1
    BY <1>3 DEF Fine, Good, TimerInv, handle_disassoc
  <2>2. hapd.sta[p] \in Entry /\ hapd.sta[p].flags \in SUBSET Flag
        /\ hapd.sta[p].timeout_next \in Timeout
    BY <2>1, FlagsType DEF Fine
  <2>3. F \in SUBSET Flag /\ x \in Timeout
    BY <2>2 DEF Timeout
  <2>4. hapd' = g /\ late' = late /\ moved' = moved
    BY <1>3 DEF handle_disassoc
  <2>5. ~("ASSOC" \in F) /\ ~("AUTHORIZED" \in F)
    OBVIOUS
  <2>6. timer = hapd.timer
    BY <2>1, Fields
  <2> HIDE DEF F, x, timer
  <2>7. e \in Entry /\ e.flags = F /\ e.aid = hapd.sta[p].aid
    BY <2>2, <2>3 DEF Entry
  <2> HIDE DEF e
  <2>8. /\ sta \in [Reach -> Entry \cup {NoSta}] /\ drv \subseteq Reach /\ sta[p] = e
        /\ \A q \in Reach \ {p} : sta[q] = hapd.sta[q]
    BY <2>1, <2>7, Fields
  <2>9. drv = hapd.drv \ {p}
    OBVIOUS
  <2> HIDE DEF sta, drv
  <2>10. /\ g \in State /\ g.sta = sta /\ g.sta_aid = hapd.sta_aid /\ g.cb = hapd.cb
         /\ g.num_sta = hapd.num_sta /\ g.timer = hapd.timer /\ g.drv = drv
    BY <2>1, <2>6, <2>8 DEF State
  <2> HIDE DEF g
  <2>11. Known(g, p) /\ \A q \in Reach \ {p} : Known(g, q) <=> Known(hapd, q)
    BY <2>7, <2>8, <2>10, EntryIsSta DEF Known
  <2>12. Follows(hapd, g, moved)
    BY <2>1, <2>7, <2>8, <2>10, <2>11 DEF Follows
  <2>13. Weaker(hapd, g, late, late)
    BY <2>5, <2>7, <2>8, <2>9, <2>10, <2>11 DEF Weaker, Has
  <2>14. Good(g, late, moved)
    BY <2>10, <2>12, <2>13, GoodFollows DEF Fine
  <2> QED
    BY <2>4, <2>14 DEF Fine
<1>4. CASE handle_deauth(p)
  <2>1. Good(FreeSta(hapd, p), late \ {p}, moved)
    BY <1>4, GoodFreeSta DEF handle_deauth, Fine, Good, TimerInv
  <2> QED
    BY <1>4, <2>1 DEF handle_deauth, Fine
<1>5. CASE WpaAuthorize(p)
  <2> DEFINE F == hapd.sta[p].flags \cup {"AUTHORIZED"}
  <2>1. Known(hapd, p) /\ "ASSOC" \in hapd.sta[p].flags
    BY <1>5 DEF WpaAuthorize, Has
  <2>2. F \in SUBSET Flag /\ "ASSOC" \in F
    BY <2>1, FlagsType DEF Fine, Flag
  <2>3. hapd' = SetFlags(hapd, p, F) /\ late' = late /\ moved' = moved
    BY <1>5 DEF WpaAuthorize, SetFlags
  <2> HIDE DEF F
  <2>4. Good(SetFlags(hapd, p, F), late, moved)
    BY <2>1, <2>2, GoodSetFlags DEF Fine
  <2> QED
    BY <2>3, <2>4 DEF Fine
<1> QED
  BY <1>1, <1>2, <1>3, <1>4, <1>5 DEF Receive

\* So do TX statuses, with the completions they trigger.
LEMMA StepTxStatus ==
    ASSUME NEW p \in Reach, Fine, TxStatus(p)
    PROVE  Fine'
<1>1. ASSUME NEW ack \in BOOLEAN, handle_auth_cb(p, ack)
      PROVE  Fine'
  <2> DEFINE h == Report(p, "auth")
             F == h.sta[p].flags \cup {"AUTH"}
  <2>1. Good(h, late, moved) /\ h.sta = hapd.sta
    BY GoodReport DEF Fine
  <2>2. CASE ack /\ Known(hapd, p)
    <3>1. hapd' = SetFlags(h, p, F)
      BY <1>1, <2>2 DEF handle_auth_cb, SetFlags
    <3> HIDE DEF h
    <3>2. Known(h, p)
      BY <2>1, <2>2 DEF Known
    <3>3. F \in SUBSET Flag
      BY <2>1, <3>2, FlagsType DEF Flag
    <3>4. \A f \in {"ASSOC", "AUTHORIZED"} : f \in F <=> f \in h.sta[p].flags
      OBVIOUS
    <3> HIDE DEF F
    <3>5. Good(SetFlags(h, p, F), late, moved)
      BY <2>1, <3>2, <3>3, <3>4, GoodFlags
    <3> QED
      BY <1>1, <3>1, <3>5 DEF handle_auth_cb, Fine
  <2>3. CASE ~(ack /\ Known(hapd, p))
    BY <1>1, <2>1, <2>3 DEF handle_auth_cb, Fine
  <2> QED
    BY <2>2, <2>3
<1>2. ASSUME NEW ack \in BOOLEAN, NEW added \in BOOLEAN, handle_assoc_cb(p, ack, added)
      PROVE  Fine'
  <2> DEFINE h == Report(p, "assoc")
  <2>1. Good(h, late, moved) /\ h.sta = hapd.sta
    BY GoodReport DEF Fine
  <2>2. CASE ack /\ Known(hapd, p)
    <3>1. hapd' = Associated(h, p, FALSE, added) /\ late' = late \ {p} /\ moved' = moved
      BY <1>2, <2>2 DEF handle_assoc_cb
    <3> HIDE DEF h
    <3>2. Known(h, p)
      BY <2>1, <2>2 DEF Known
    <3>3. Good(Associated(h, p, FALSE, added), late \ {p}, moved)
      BY <2>1, <3>2, GoodAssociated
    <3> QED
      BY <3>1, <3>3 DEF Fine
  <2>3. CASE ~(ack /\ Known(hapd, p))
    BY <1>2, <2>1, <2>3 DEF handle_assoc_cb, Fine
  <2> QED
    BY <2>2, <2>3
<1>3. ASSUME NEW kind \in {"deauth", "disassoc"}, handle_gone_cb(p, kind)
      PROVE  Fine'
  <2> DEFINE h == Report(p, kind)
             c == Complete(h, p)
             K == late \cup IF Has(hapd, p, "ASSOC") THEN {p} ELSE {}
             F == c.sta[p].flags \ {PendingCb(kind)}
             f == SetFlags(c, p, F)
             C == c.cb[p] \ {kind}
  <2>1. Good(h, late, moved) /\ h.sta = hapd.sta /\ h.cb = hapd.cb
    BY GoodReport DEF Fine
  <2>2. CASE Has(hapd, p, PendingCb(kind))
    <3>1. hapd' = [c EXCEPT !.sta[p].flags = F, !.cb[p] = C] /\ late' = K /\ moved' = moved
      BY <1>3, <2>2 DEF handle_gone_cb, NoteLate
    <3> HIDE DEF h
    <3>2. Known(h, p) /\ (Has(h, p, "ASSOC") => p \in K) /\ late \subseteq K
      BY <2>1, <2>2 DEF Known, Has
    <3> HIDE DEF K
    <3>3. Good(c, K, moved) /\ c.sta = h.sta /\ c.cb = h.cb
      BY <2>1, <3>2, GoodComplete
    <3> HIDE DEF c
    <3>4. Known(c, p)
      BY <3>2, <3>3 DEF Known
    <3>5. F \in SUBSET Flag
      BY <3>3, <3>4, FlagsType
    <3>6. \A x \in {"ASSOC", "AUTHORIZED"} : x \in F <=> x \in c.sta[p].flags
      BY DEF PendingCb
    <3> HIDE DEF F
    <3>7. Good(f, K, moved)
      BY <3>3, <3>4, <3>5, <3>6, GoodFlags
    <3>8. f.cb = c.cb
      BY <3>3 DEF Good, State, SetFlags
    <3>9. [c EXCEPT !.sta[p].flags = F, !.cb[p] = C] = SetCb(f, p, C)
      BY <3>3 DEF SetCb, SetFlags, Good, State
    <3>10. C \subseteq f.cb[p]
      BY <3>8
    <3> HIDE DEF f, C
    <3>11. Good(SetCb(f, p, C), K, moved)
      BY <3>7, <3>10, GoodSetCb
    <3> QED
      BY <3>1, <3>9, <3>11 DEF Fine
  <2>3. CASE ~Has(hapd, p, PendingCb(kind))
    BY <1>3, <2>1, <2>3 DEF handle_gone_cb, Fine
  <2> QED
    BY <2>2, <2>3
<1>4. ASSUME NEW ack \in BOOLEAN, hostapd_tx_status(p, ack)
      PROVE  Fine'
  <2> DEFINE h == Report(p, "poll")
             F == h.sta[p].flags \ {"PENDING_POLL"}
  <2>1. Good(h, late, moved) /\ h.sta = hapd.sta
    BY GoodReport DEF Fine
  <2>2. CASE ack /\ Has(hapd, p, "ASSOC")
    <3>1. hapd' = SetFlags(h, p, F)
      BY <1>4, <2>2 DEF hostapd_tx_status, SetFlags
    <3> HIDE DEF h
    <3>2. Known(h, p)
      BY <2>1, <2>2 DEF Known, Has
    <3>3. F \in SUBSET Flag
      BY <2>1, <3>2, FlagsType
    <3>4. \A f \in {"ASSOC", "AUTHORIZED"} : f \in F <=> f \in h.sta[p].flags
      OBVIOUS
    <3> HIDE DEF F
    <3>5. Good(SetFlags(h, p, F), late, moved)
      BY <2>1, <3>2, <3>3, <3>4, GoodFlags
    <3> QED
      BY <1>4, <3>1, <3>5 DEF hostapd_tx_status, Fine
  <2>3. CASE ~(ack /\ Has(hapd, p, "ASSOC"))
    BY <1>4, <2>1, <2>3 DEF hostapd_tx_status, Fine
  <2> QED
    BY <2>2, <2>3
<1> QED
  BY <1>1, <1>2, <1>3, <1>4 DEF TxStatus

\* So do timers.
LEMMA StepTimers ==
    ASSUME NEW p \in Reach, Fine, Timers(p)
    PROVE  Fine'
<1>0. ASSUME TimerSet(p)
      PROVE  Known(hapd, p) /\ moved' = moved
  BY <1>0 DEF TimerSet, Fine, Good, TimerInv
<1>1. ASSUME NEW active \in BOOLEAN, TimerAgain(p, active)
      PROVE  Fine'
  <2> DEFINE x == IF active \/ PollAcked(p) THEN "NULLFUNC" ELSE hapd.sta[p].timeout_next
  <2>1. Known(hapd, p) /\ moved' = moved /\ late' = late
    BY <1>0, <1>1 DEF TimerAgain
  <2>2. x \in Timeout
    BY <2>1, FlagsType DEF Fine, Timeout
  <2>3. hapd' = Rearm(Fired(p), p, x)
    BY <1>1 DEF TimerAgain
  <2> HIDE DEF x
  <2>4. hapd' = SetTimeout(hapd, p, x)
    BY <2>1, <2>2, <2>3, RearmFired DEF Fine
  <2>5. Good(SetTimeout(hapd, p, x), late, moved)
    BY <2>1, <2>2, GoodSetTimeout DEF Fine
  <2> QED
    BY <2>1, <2>4, <2>5 DEF Fine
<1>2. CASE TimerNullfunc(p)
  <2> DEFINE h == SetTimeout(hapd, p, "DISASSOC")
             F == h.sta[p].flags \cup {"PENDING_POLL"}
  <2>1. Known(hapd, p) /\ moved' = moved /\ late' = late
    BY <1>0, <1>2 DEF TimerNullfunc
  <2>2. Rearm(Fired(p), p, "DISASSOC") = h
    BY <2>1, RearmFired DEF Fine, Timeout
  <2>3. Good(h, late, moved) /\ Known(h, p)
    BY <2>1, GoodSetTimeout DEF Fine, Timeout
  <2>4. hapd' = IF Has(hapd, p, "ASSOC") THEN Sent(SetFlags(h, p, F), p, "poll")
                ELSE Sent(h, p, "disassoc")
    BY <1>2, <2>2 DEF TimerNullfunc, SetFlags
  <2> HIDE DEF h
  <2>5. F \in SUBSET Flag
    BY <2>3, FlagsType DEF Flag
  <2>6. \A f \in {"ASSOC", "AUTHORIZED"} : f \in F <=> f \in h.sta[p].flags
    OBVIOUS
  <2> HIDE DEF F
  <2>7. Good(SetFlags(h, p, F), late, moved)
    BY <2>3, <2>5, <2>6, GoodFlags
  <2>8. Good(Sent(SetFlags(h, p, F), p, "poll"), late, moved)
    BY <2>7, GoodSend DEF Frame
  <2>9. Good(Sent(h, p, "disassoc"), late, moved)
    BY <2>3, GoodSend DEF Frame
  <2> QED
    BY <2>1, <2>4, <2>8, <2>9 DEF Fine
<1>3. CASE TimerDisassoc(p)
  <2> DEFINE h == SetTimeout(hapd, p, "DEAUTH")
             F == h.sta[p].flags \ {"ASSOC", "AUTHORIZED"}
  <2>1. Known(hapd, p) /\ moved' = moved /\ late' = late
    BY <1>0, <1>3 DEF TimerDisassoc
  <2>2. Rearm(Fired(p), p, "DEAUTH") = h
    BY <2>1, RearmFired DEF Fine, Timeout
  <2>3. Good(h, late, moved) /\ Known(h, p)
    BY <2>1, GoodSetTimeout DEF Fine, Timeout
  <2>4. hapd' = Sent(SetFlags(h, p, F), p, "disassoc")
    BY <1>3, <2>2 DEF TimerDisassoc, SetFlags
  <2> HIDE DEF h
  <2>5. F \in SUBSET Flag /\ "ASSOC" \notin F /\ "AUTHORIZED" \notin F
    BY <2>3, FlagsType
  <2> HIDE DEF F
  <2>6. Good(SetFlags(h, p, F), late, moved)
    BY <2>3, <2>5, GoodSetFlags
  <2>7. Good(Sent(SetFlags(h, p, F), p, "disassoc"), late, moved)
    BY <2>6, GoodSend DEF Frame
  <2> QED
    BY <2>1, <2>4, <2>7 DEF Fine
<1>4. CASE TimerFree(p)
  <2>1. Known(hapd, p) /\ moved' = moved /\ late' = late \ {p}
    BY <1>0, <1>4 DEF TimerFree
  <2>2. Good(FreeSta(Fired(p), p), late \ {p}, moved)
    BY <2>1, FreeFired DEF Fine
  <2>3. Good(Sent(FreeSta(Fired(p), p), p, "deauth"), late \ {p}, moved)
    BY <2>2, GoodSend DEF Frame
  <2> QED
    BY <1>4, <2>1, <2>2, <2>3 DEF TimerFree, Fine
<1>5. ASSUME NEW kind \in {"deauth", "disassoc"}, CbTimeout(p, kind)
      PROVE  Fine'
  <2> DEFINE c == Complete(hapd, p)
             K == late \cup IF Has(hapd, p, "ASSOC") THEN {p} ELSE {}
             C == c.cb[p] \ {kind}
  <2>1. hapd' = SetCb(c, p, C) /\ late' = K /\ moved' = moved
    BY <1>5 DEF CbTimeout, NoteLate, SetCb
  <2>2. (Has(hapd, p, "ASSOC") => p \in K) /\ late \subseteq K
    OBVIOUS
  <2> HIDE DEF K
  <2>3. Good(c, K, moved)
    BY <2>2, GoodComplete DEF Fine
  <2>4. C \subseteq c.cb[p]
    OBVIOUS
  <2> HIDE DEF c, C
  <2>5. Good(SetCb(c, p, C), K, moved)
    BY <2>3, <2>4, GoodSetCb
  <2> QED
    BY <2>1, <2>5 DEF Fine
<1> QED
  BY <1>1, <1>2, <1>3, <1>4, <1>5 DEF Timers, ap_handle_timer

\* So do commands over the control interface.
LEMMA StepCommand ==
    ASSUME NEW p \in Reach, Fine, Command(p)
    PROVE  Fine'
<1>0. {p} \in SUBSET Reach /\ (Known(hapd, p) => \A q \in {p} : Known(hapd, q))
  OBVIOUS
<1>1. CASE WpaDisconnect(p)
  <2>1. Good(Disconnect(hapd, {p}), late, moved)
    BY <1>0, <1>1, GoodDisconnect DEF WpaDisconnect, Fine
  <2> QED
    BY <1>1, <2>1 DEF WpaDisconnect, Fine
<1>2. CASE ctrl_iface_deauthenticate(p)
  <2> DEFINE h == IF Known(hapd, p) THEN Deauthenticate(hapd, {p}, FALSE) ELSE hapd
  <2>1. hapd' = Sent(h, p, "deauth") /\ late' = late /\ moved' = moved
    BY <1>2 DEF ctrl_iface_deauthenticate
  <2>2. Good(h, late, moved)
    BY <1>0, GoodDeauthenticate DEF Fine
  <2> HIDE DEF h
  <2>3. Good(Sent(h, p, "deauth"), late, moved)
    BY <2>2, GoodSend DEF Frame
  <2> QED
    BY <2>1, <2>3 DEF Fine
<1>3. CASE ctrl_iface_disassociate(p)
  <2> DEFINE h == IF Known(hapd, p) THEN Disassociate(hapd, {p}) ELSE hapd
  <2>1. hapd' = Sent(h, p, "disassoc") /\ late' = late /\ moved' = moved
    BY <1>3 DEF ctrl_iface_disassociate
  <2>2. Good(h, late, moved)
    BY <1>0, GoodDisassociate DEF Fine
  <2> HIDE DEF h
  <2>3. Good(Sent(h, p, "disassoc"), late, moved)
    BY <2>2, GoodSend DEF Frame
  <2> QED
    BY <2>1, <2>3 DEF Fine
<1>4. CASE ctrl_iface_deauthenticate_all(p[1])
  <2>1. Good(FreeStas(hapd, p[1]), {q \in late : q[1] # p[1]}, moved)
    BY PairType, GoodFreeStas DEF Fine
  <2> QED
    BY <1>4, <2>1 DEF ctrl_iface_deauthenticate_all, Fine
<1>5. ASSUME NEW ies \in BOOLEAN, NEW added \in BOOLEAN, ctrl_iface_new_sta(p, ies, added)
      PROVE  Fine'
  <2> DEFINE auth == Authenticated(hapd, p)
             req == Associating(auth, p, ies)
             M == moved \cup {p[1]}
  <2>1. /\ hapd' = IF Known(auth, p) THEN Associated(req, p, TRUE, added)
                   ELSE Sent(auth, p, "deauth")
        /\ late' = late \ {p} /\ moved' = M
    BY <1>5 DEF ctrl_iface_new_sta
  <2>2. moved \subseteq M /\ p[1] \in M
    OBVIOUS
  <2> HIDE DEF M
  <2>3. Good(auth, late, M)
    <3>1. Good(auth, late, moved)
      BY GoodAuthenticated DEF Fine
    <3> HIDE DEF auth
    <3> QED
      BY <3>1, <2>2, GoodMoved
  <2> HIDE DEF auth
  <2>4. CASE Known(auth, p)
    <3>1. Good(req, late, M) /\ Known(req, p)
      BY <2>3, <2>4, GoodAssociating
    <3> HIDE DEF req
    <3>2. Good(Associated(req, p, TRUE, added), late \ {p}, M)
      BY <2>2, <3>1, GoodAssociated
    <3> QED
      BY <2>1, <2>4, <3>2 DEF Fine
  <2>5. CASE ~Known(auth, p)
    <3>1. auth \in State
      BY <2>3 DEF Good
    <3>2. Follows(auth, auth, M)
      BY DEF Follows
    <3>3. Weaker(auth, auth, late, late \ {p})
      BY <2>5 DEF Weaker, Has
    <3>4. Good(auth, late \ {p}, M)
      BY <2>3, <3>1, <3>2, <3>3, GoodFollows
    <3>5. Good(Sent(auth, p, "deauth"), late \ {p}, M)
      BY <3>4, GoodSend DEF Frame
    <3> QED
      BY <2>1, <2>5, <3>5 DEF Fine
  <2> QED
    BY <2>4, <2>5
<1>6. CASE blacklist_client(p) \/ unblacklist_client(p)
  BY <1>6 DEF blacklist_client, unblacklist_client, Fine
<1> QED
  BY <1>1, <1>2, <1>3, <1>4, <1>5, <1>6 DEF Command

-----------------------------------------------------------------------------
(* The rest of the state, and the theorems                                 *)

\* What the bounds, the blacklists and the histories hold.
RestOK ==
    /\ blacklisted_macs_list \in [Bss -> SUBSET Sta]
    /\ range \in Ranges
    /\ silent \subseteq Sta /\ late \subseteq Reach /\ moved \subseteq Bss
    /\ frames \in [Sta -> Nat] /\ \A s \in Sta : frames[s] <= MaxFrames[s]
    /\ orders \in 0..MaxOrders /\ fails \in 0..MaxFails

\* The inductive invariant.
TableInv == Fine /\ RestOK

\* The table is empty at the start.
LEMMA InitInv == Init => TableInv
<1> SUFFICES ASSUME Init
             PROVE  TableInv
  OBVIOUS
<1>1. hapd = [sta |-> [p \in Reach |-> NoSta],
              sta_aid |-> [b \in Bss |-> {}],
              num_sta |-> [b \in Bss |-> 0],
              timer |-> [p \in Reach |-> 0],
              cb |-> [p \in Reach |-> {}],
              drv |-> {}, tx |-> {}]
      /\ late = {} /\ moved = {}
  BY DEF Init
<1>2. hapd \in State
  BY <1>1 DEF State
<1>3. \A p \in Reach : ~Known(hapd, p) /\ hapd.timer[p] = 0 /\ hapd.cb[p] = {}
  BY <1>1 DEF Known
<1>4. \A b \in Bss : Here(hapd, b) = {} /\ hapd.num_sta[b] = 0 /\ hapd.sta_aid[b] = {}
  BY <1>1, <1>3 DEF Here
<1>5. CountInv(hapd)
  <2>1. \A b \in Bss : MaxSta[b] \in Nat
    BY StationsAssumption
  <2> QED
    BY <1>4, <2>1, FS_EmptySet DEF CountInv
<1>6. TimerInv(hapd) /\ AidInv(hapd, moved) /\ OneInv(hapd)
  BY <1>3, <1>4 DEF TimerInv, AidInv, OneInv, Has
<1>7. DriverInv(hapd, late)
  BY <1>1, <1>3 DEF DriverInv, Has
<1>8. RestOK
  BY StationsAssumption DEF Init, RestOK
<1> QED
  BY <1>2, <1>5, <1>6, <1>7, <1>8 DEF TableInv, Fine, Good

\* A frame of a station counts.
LEMMA HeardRest ==
    ASSUME NEW p \in Reach, RestOK, Heard(p), Quiet, UNCHANGED <<orders, fails>>,
           late' \subseteq Reach, moved' = moved
    PROVE  RestOK'
<1>1. p[2] \in Sta /\ MaxFrames[p[2]] \in Nat
  BY PairType, StationsAssumption
<1>2. frames' \in [Sta -> Nat] /\ \A s \in Sta : frames'[s] <= MaxFrames[s]
  BY <1>1 DEF RestOK, Heard
<1> QED
  BY <1>2 DEF RestOK, Quiet

\* A command or a refusal counts.
LEMMA QuietRest ==
    ASSUME RestOK, Quiet, UNCHANGED frames, late' \subseteq Reach, moved' \subseteq Bss,
           orders' \in 0..MaxOrders, fails' \in 0..MaxFails
    PROVE  RestOK'
BY DEF RestOK, Quiet

\* Every step keeps the types of the variables around the table.
LEMMA StepRest ==
    ASSUME TableInv, Next
    PROVE  RestOK'
<1>0. RestOK /\ late \subseteq Reach /\ moved \subseteq Bss /\ MaxOrders \in Nat
      /\ MaxFails \in Nat /\ orders \in 0..MaxOrders /\ fails \in 0..MaxFails
  BY StationsAssumption DEF TableInv, RestOK
<1>1. ASSUME NEW p \in Reach, Receive(p)
      PROVE  RestOK'
  <2>1. CASE WpaAuthorize(p)
    BY <1>0, <2>1, QuietRest DEF WpaAuthorize, bounds
  <2>2. CASE ~WpaAuthorize(p)
    <3>1. Heard(p) /\ Quiet /\ UNCHANGED <<orders, fails>> /\ moved' = moved
          /\ late' \subseteq late
      BY <1>1, <2>2 DEF Receive, handle_auth, handle_assoc, handle_disassoc, handle_deauth
    <3> QED
      BY <1>0, <3>1, HeardRest
  <2> QED
    BY <2>1, <2>2
<1>2. ASSUME NEW p \in Reach, TxStatus(p) \/ Timers(p)
      PROVE  RestOK'
  <2>1. /\ Quiet /\ UNCHANGED <<frames, orders>> /\ moved' = moved
        /\ late' \subseteq late \cup {p}
        /\ fails' = fails \/ (fails < MaxFails /\ fails' = fails + 1)
    BY <1>2 DEF TxStatus, Timers, handle_auth_cb, handle_assoc_cb, handle_gone_cb,
         hostapd_tx_status, NoteLate, ap_handle_timer, TimerAgain, TimerNullfunc,
         TimerDisassoc, TimerFree, TimerSet, CbTimeout, bounds
  <2> QED
    BY <1>0, <2>1, QuietRest
<1>3. ASSUME NEW p \in Reach, Command(p)
      PROVE  RestOK'
  <2>1. p[1] \in Bss /\ p[2] \in Sta
    BY PairType
  <2>2. CASE blacklist_client(p) \/ unblacklist_client(p)
    BY <1>0, <2>1, <2>2 DEF blacklist_client, unblacklist_client, Order, RestOK
  <2>3. CASE ~(blacklist_client(p) \/ unblacklist_client(p))
    <3>1. /\ Quiet /\ UNCHANGED frames /\ moved' \subseteq moved \cup {p[1]}
          /\ late' \subseteq late /\ Order
          /\ fails' = fails \/ (fails < MaxFails /\ fails' = fails + 1)
      BY <1>3, <2>3 DEF Command, WpaDisconnect, ctrl_iface_deauthenticate,
           ctrl_iface_disassociate, ctrl_iface_deauthenticate_all, ctrl_iface_new_sta
    <3> QED
      BY <1>0, <2>1, <3>1, QuietRest DEF Order
  <2> QED
    BY <2>2, <2>3
<1>4. ASSUME NEW s \in Quits, FallSilent(s)
      PROVE  RestOK'
  BY <1>0, <1>4, StationsAssumption DEF FallSilent, RestOK, bounds
<1>5. \A p \in range : p \in Reach
  BY <1>0, StationsAssumption DEF RestOK
<1> QED
  BY <1>1, <1>2, <1>3, <1>4, <1>5 DEF Next

\* Every step keeps the invariant.
LEMMA StepInv == TableInv /\ [Next]_vars => TableInv'
<1> SUFFICES ASSUME TableInv, [Next]_vars
             PROVE  TableInv'
  OBVIOUS
<1>1. CASE Next
  <2>1. \A p \in range : p \in Reach
    BY StationsAssumption DEF TableInv, RestOK
  <2>2. ASSUME NEW s \in Quits, FallSilent(s)
        PROVE  Fine'
    BY <2>2 DEF TableInv, Fine, FallSilent
  <2>3. Fine'
    BY <1>1, <2>1, <2>2, StepReceive, StepTxStatus, StepTimers, StepCommand
       DEF Next, TableInv
  <2> QED
    BY <1>1, <2>3, StepRest DEF TableInv
<1>2. CASE UNCHANGED vars
  BY <1>2 DEF TableInv, Fine, RestOK, vars, bounds
<1> QED
  BY <1>1, <1>2

\* The invariant holds throughout.
LEMMA TableInvariant == Spec => []TableInv
<1> QED
  BY InitInv, StepInv, PTL DEF Spec

\* Every variable of the model of hostapd keeps its type; in particular the
\* counters of stations never go below zero and every association id is one of
\* the bitmap hostapd_get_aid searches.
THEOREM StationsTypeCorrect == Spec => []TypeOK
<1>1. TableInv => TypeOK
  BY StationsAssumption DEF TableInv, Fine, Good, RestOK, TypeOK
<1> QED
  BY <1>1, TableInvariant, PTL

\* Every entry of the station table has exactly one ap_handle_timer, and no timer
\* refers to an entry that ap_free_sta has freed.
THEOREM StationsTimersMatch == Spec => []TimersMatch
<1>1. TableInv => TimersMatch
  BY DEF TableInv, Fine, Good, TimerInv, TimersMatch
<1> QED
  BY <1>1, TableInvariant, PTL

\* The driver has the associated stations and no station without an entry, except
\* after a late completion of a disconnection, and open ports are associated.
THEOREM StationsDriverAgrees == Spec => []DriverAgrees
<1>1. TableInv => DriverAgrees
  BY DEF TableInv, Fine, Good, DriverInv, DriverAgrees
<1> QED
  BY <1>1, TableInvariant, PTL

\* A station is associated with at most one BSS of a process.
THEOREM StationsOneAssociation == Spec => []OneAssociation
<1>1. TableInv => OneAssociation
  BY DEF TableInv, Fine, Good, OneInv, OneAssociation, Near
<1> QED
  BY <1>1, TableInvariant, PTL

\* num_sta is the size of the table and within max_num_sta, and the ids that
\* hostapd_get_aid has given out are those of the entries, without a double, in
\* every BSS that NEW_STA has not been used on.
THEOREM StationsTablesAgree == Spec => []TablesAgree
<1>1. ASSUME TableInv, NEW b \in Bss
      PROVE  LET known == {p \in Reach : p[1] = b /\ Known(hapd, p)}
                 ids == {p \in known : hapd.sta[p].aid > 0}
             IN  /\ hapd.num_sta[b] = Cardinality(known)
                 /\ hapd.num_sta[b] <= MaxSta[b]
                 /\ b \notin moved =>
                      /\ hapd.sta_aid[b] = {hapd.sta[p].aid : p \in ids}
                      /\ Cardinality(hapd.sta_aid[b]) = Cardinality(ids)
  <2> DEFINE known == {p \in Reach : p[1] = b /\ Known(hapd, p)}
             ids == {p \in known : hapd.sta[p].aid > 0}
             f == [p \in ids |-> hapd.sta[p].aid]
  <2>1. known = Here(hapd, b) /\ hapd \in State /\ CountInv(hapd) /\ AidInv(hapd, moved)
    BY <1>1 DEF TableInv, Fine, Good, Here
  <2>2. hapd.num_sta[b] = Cardinality(known) /\ hapd.num_sta[b] <= MaxSta[b]
    BY <2>1 DEF CountInv
  <2>3. IsFiniteSet(ids)
    BY <2>1, HereFinite, FS_Subset
  <2>4. ASSUME b \notin moved
        PROVE  /\ hapd.sta_aid[b] = {hapd.sta[p].aid : p \in ids}
               /\ Cardinality(hapd.sta_aid[b]) = Cardinality(ids)
    <3>1. \A a \in hapd.sta_aid[b] : \E p \in ids : hapd.sta[p].aid = a
      <4> TAKE a \in hapd.sta_aid[b]
      <4>1. PICK p \in Here(hapd, b) : hapd.sta[p].aid = a
        BY <2>1, <2>4 DEF AidInv
      <4>2. a > 0
        BY <2>1, Fields
      <4> QED
        BY <2>1, <4>1, <4>2
    <3>2. \A p \in ids : hapd.sta[p].aid \in hapd.sta_aid[b]
      BY <2>1, <2>4 DEF AidInv
    <3>3. \A p, q \in ids : hapd.sta[p].aid = hapd.sta[q].aid => p = q
      BY <2>1, <2>4 DEF AidInv
    <3> HIDE DEF ids
    <3>4. f \in Bijection(ids, hapd.sta_aid[b])
      BY <3>1, <3>2, <3>3 DEF Bijection, Injection, Surjection, IsInjective
    <3>5. ExistsBijection(ids, hapd.sta_aid[b])
      BY <3>4 DEF ExistsBijection
    <3> QED
      BY <2>3, <3>1, <3>2, <3>5, FS_Bijection
  <2> QED
    BY <2>2, <2>4
<1>2. TableInv => TablesAgree
  BY <1>1 DEF TablesAgree
<1> QED
  BY <1>2, TableInvariant, PTL
=============================================================================
