--------------------------- MODULE HostapdStations ---------------------------
(***************************************************************************)
(* The station table of hostapd (hostapd/src/ap/sta_info.c, ieee802_11.c,  *)
(* hostapd/hostapd/ctrl_iface.c) with the nxWLAN patches: stations that    *)
(* are moved in over the control interface (STA_MOVING_ENABLED) and the    *)
(* blacklist (CLIENT_BLACKLISTING).  A BSS of simple-hostapd, which serves *)
(* the VAPs, ignores the frames of stations (DUMB_HOSTAPD), so that every  *)
(* station it has was moved in.                                            *)
(*                                                                         *)
(* hostapd is one event loop: a received frame, a TX status, a command or  *)
(* a timer runs to completion, so each is one action.  Every C function    *)
(* that changes the table is an operator from the state of the process to  *)
(* its next state, and actions compose them as the C code does.  Timers    *)
(* fire in any order: their delays are not modelled.                       *)
(***************************************************************************)
EXTENDS Integers, FiniteSets

CONSTANTS
    Bss,        \* the BSSs (struct hostapd_data)
    Sta,        \* the stations, by address
    Reach,      \* the pairs <<b, s>> such that s may use b
    Ranges,     \* the sets of pairs that may be in range of each other
    Proc,       \* Proc[b]: the hostapd process that runs b
    Dumb,       \* the BSSs of simple-hostapd
    Wpa,        \* the BSSs with wpa=2 in their configuration
    MaxSta,     \* max_num_sta of each BSS
    MaxAid,     \* the largest association id (2007)
    Quits,      \* the stations that may fall silent
    MaxFrames,  \* bound: frames each station sends
    MaxOrders,  \* bound: commands, and disconnections by the WPA state machine
    MaxFails,   \* bound: stations the driver refuses
    MaxTx       \* bound: frames to a station whose TX status is outstanding

ASSUME StationsAssumption ==
    /\ Reach \subseteq Bss \X Sta /\ IsFiniteSet(Reach)
    /\ Ranges \subseteq SUBSET Reach
    /\ Dumb \subseteq Bss /\ Wpa \subseteq Bss
    /\ MaxSta \in [Bss -> Nat]
    /\ MaxAid \in Nat \ {0}
    /\ Quits \subseteq Sta
    /\ MaxFrames \in [Sta -> Nat] /\ MaxOrders \in Nat /\ MaxFails \in Nat
    /\ MaxTx \in [Reach -> Nat]

VARIABLES
    hapd,       \* the processes and the driver below them, see State
    blacklisted_macs_list,
    range,      \* the pairs that are in range, in this behaviour
    silent,     \* stations that have fallen silent for good, for longer
                \* than ap_max_inactivity
    late,       \* history: associated stations that a late completion of an
                \* earlier disconnection has removed from the driver
    moved,      \* history: BSSs that NEW_STA has been used on
    frames, orders, fails   \* how often the bounded actions have happened

bounds == <<frames, orders, fails>>
vars == <<hapd, blacklisted_macs_list, range, silent, late, moved, bounds>>

Flag == {"AUTH", "ASSOC", "AUTHORIZED", "PENDING_POLL", "PENDING_DEAUTH_CB",
         "PENDING_DISASSOC_CB"}

Timeout == {"NULLFUNC", "DISASSOC", "DEAUTH", "REMOVE"}

\* struct sta_info; wpa_sm tells whether the WPA state machine is running.
Entry == [flags : SUBSET Flag, aid : 0..MaxAid, timeout_next : Timeout,
          wpa_sm : BOOLEAN]

NoSta == [none |-> TRUE]

\* Frames to a station whose TX status changes the table.
Frame == {"auth", "assoc", "deauth", "disassoc", "poll"}

\* The tables and counters of each BSS; the registered timers, ap_handle_timer
\* by number, since registering it twice would make two of them, and the two
\* completion timers of a disconnection; the stations the kernel driver has;
\* the frames sent whose TX status has not been reported.
State == [sta : [Reach -> Entry \cup {NoSta}],
          sta_aid : [Bss -> SUBSET (1..MaxAid)],
          num_sta : [Bss -> Nat],
          timer : [Reach -> Nat],
          cb : [Reach -> SUBSET {"deauth", "disassoc"}],
          drv : SUBSET Reach,
          tx : SUBSET (Reach \X Frame)]

Init ==
    /\ hapd = [sta |-> [p \in Reach |-> NoSta],
               sta_aid |-> [b \in Bss |-> {}],
               num_sta |-> [b \in Bss |-> 0],
               timer |-> [p \in Reach |-> 0],
               cb |-> [p \in Reach |-> {}],
               drv |-> {}, tx |-> {}]
    /\ blacklisted_macs_list = [b \in Bss |-> {}]
    /\ range \in Ranges
    /\ silent = {} /\ late = {} /\ moved = {}
    /\ frames = [s \in Sta |-> 0] /\ orders = 0 /\ fails = 0

-----------------------------------------------------------------------------
(* The station table (sta_info.c).  h is the state the function starts in. *)

Known(h, p) == h.sta[p] # NoSta         \* ap_get_sta

Has(h, p, f) == Known(h, p) /\ f \in h.sta[p].flags

\* The entries of p's station in the other BSSs of the same process.
Elsewhere(h, p) ==
    {q \in Reach : /\ q # p /\ q[2] = p[2]
                   /\ Proc[q[1]] = Proc[p[1]]
                   /\ Known(h, q)}

\* ap_sta_disassociate on the entries in Q.
Disassociate(h, Q) ==
    [h EXCEPT
      !.sta = [p \in Reach |->
                 IF p \notin Q THEN h.sta[p]
                 ELSE [h.sta[p] EXCEPT
                         !.flags = (@ \ {"ASSOC", "AUTHORIZED"})
                                     \cup {"PENDING_DISASSOC_CB"},
                         !.timeout_next = "DEAUTH"]],
      !.timer = [p \in Reach |-> IF p \in Q THEN 1 ELSE h.timer[p]],
      !.cb = [p \in Reach |-> h.cb[p] \cup IF p \in Q THEN {"disassoc"} ELSE {}]]

\* What ap_sta_deauthenticate and ap_sta_disconnect do to the entries in Q.
\* Only the latter tells the WPA state machine.
Deauthenticate(h, Q, event) ==
    [h EXCEPT
      !.sta = [p \in Reach |->
                 IF p \notin Q THEN h.sta[p]
                 ELSE [h.sta[p] EXCEPT
                         !.flags = (@ \ {"AUTH", "ASSOC", "AUTHORIZED"})
                                     \cup {"PENDING_DEAUTH_CB"},
                         !.timeout_next = "REMOVE",
                         !.wpa_sm = @ /\ ~event]],
      !.timer = [p \in Reach |-> IF p \in Q THEN 1 ELSE h.timer[p]],
      !.cb = [p \in Reach |-> h.cb[p] \cup IF p \in Q THEN {"deauth"} ELSE {}]]

Sent(h, p, frame) == [h EXCEPT !.tx = @ \cup {<<p, frame>>}]

\* ap_sta_disconnect sends the frame itself, the callers of the other two do.
Disconnect(h, Q) ==
    [Deauthenticate(h, Q, TRUE) EXCEPT !.tx = @ \cup (Q \X {"deauth"})]

\* A new entry; the caller has seen that there is none, and room for one.
AddEntry(h, p) ==
    [h EXCEPT !.sta[p] = [flags |-> {}, aid |-> 0, timeout_next |-> "NULLFUNC",
                          wpa_sm |-> FALSE],
              !.num_sta[p[1]] = @ + 1,
              !.timer[p] = @ + 1]

Room(h, p) == Known(h, p) \/ h.num_sta[p[1]] < MaxSta[p[1]]

\* ap_sta_add: a new station is disconnected from the other BSSs.
AddSta(h, p) ==
    IF Known(h, p) THEN h ELSE Disconnect(AddEntry(h, p), Elsewhere(h, p))

\* Mutant: the completion timer of a disconnection is not cancelled.
FreeStaKeepCb(h, p) ==
    [h EXCEPT !.sta[p] = NoSta, !.sta_aid[p[1]] = @ \ {h.sta[p].aid},
              !.num_sta[p[1]] = @ - 1, !.timer[p] = 0, !.drv = @ \ {p}]

\* Mutant: the association id stays taken.
FreeStaKeepAid(h, p) ==
    [h EXCEPT !.sta[p] = NoSta, !.num_sta[p[1]] = @ - 1,
              !.timer[p] = 0, !.cb[p] = {}, !.drv = @ \ {p}]

\* ap_free_sta
FreeSta(h, p) ==
    [h EXCEPT !.sta[p] = NoSta,
              !.sta_aid[p[1]] = @ \ {h.sta[p].aid},
              !.num_sta[p[1]] = @ - 1,
              !.timer[p] = 0,
              !.cb[p] = {},
              !.drv = @ \ {p}]

-----------------------------------------------------------------------------
(* Frames of stations and their answers (ieee802_11.c)                     *)

\* handle_auth, open system.  STA_MOVING_ENABLED: the station counts as
\* authenticated before it has acknowledged the reply.
Authenticated(h, p) ==
    IF Room(h, p) THEN [AddSta(h, p) EXCEPT !.sta[p].flags = @ \cup {"AUTH"}]
    ELSE h

\* hostapd_get_aid: an old id is kept, otherwise the lowest free one is taken.
FreeAids(h, b) == (1..MaxAid) \ h.sta_aid[b]

\* Mutant: the ids count from 0.
GetAidFromZero(h, p) ==
    IF h.sta[p].aid > 0 THEN h
    ELSE LET aid == CHOOSE a \in FreeAids(h, p[1]) :
                      \A o \in FreeAids(h, p[1]) : a <= o
         IN  [h EXCEPT !.sta[p].aid = aid - 1, !.sta_aid[p[1]] = @ \cup {aid - 1}]

GetAid(h, p) ==
    IF h.sta[p].aid > 0 THEN h
    ELSE LET aid == CHOOSE a \in FreeAids(h, p[1]) :
                      \A o \in FreeAids(h, p[1]) : a <= o
         IN  [h EXCEPT !.sta[p].aid = aid, !.sta_aid[p[1]] = @ \cup {aid}]

\* handle_assoc up to its answer: TRUE if the request is granted.  ies: what
\* check_assoc_ies says of the elements in the request.
Granted(h, p, ies) ==
    /\ Has(h, p, "AUTH")
    /\ ies
    /\ h.sta[p].aid > 0 \/ FreeAids(h, p[1]) # {}

Associating(h, p, ies) ==
    IF Granted(h, p, ies)
    THEN [GetAid(h, p) EXCEPT !.sta[p].timeout_next = "NULLFUNC"]
    ELSE h

PruneNot(h, p) == h     \* mutant: the other BSSs are not told

\* hostapd_prune_associations: the other BSSs let the station go.
Prune(h, p) == Disassociate(h, Elsewhere(h, p))

\* handle_assoc_cb for an acknowledged, granted association.  cli: the call
\* NEW_STA makes, which overwrites the id and the flags.  added: whether the
\* driver takes the station.
Associated(h, p, cli, added) ==
    LET open == p[1] \notin Wpa
        e == [h.sta[p] EXCEPT
                !.flags = IF cli THEN {"AUTH", "ASSOC"}
                          ELSE @ \cup {"ASSOC"}
                                 \cup IF open THEN {"AUTHORIZED"} ELSE {},
                !.aid = IF cli THEN 1 ELSE @]
        new == [h EXCEPT
                  !.sta[p] = [e EXCEPT
                                !.flags = @ \cup IF cli THEN {"AUTHORIZED"} ELSE {},
                                !.wpa_sm = ~open /\ ~cli],
                  !.drv = @ \cup {p},
                  !.timer[p] = 1]
    IN  IF added THEN Prune(new, p)
        ELSE Disconnect([h EXCEPT !.sta[p] = e, !.drv = @ \ {p}], {p})

\* ieee802_11_mgmt: a BSS takes frames of stations that are not blacklisted,
\* and simple-hostapd none at all.
Heard(p) ==
    /\ frames[p[2]] < MaxFrames[p[2]]
    /\ p[1] \notin Dumb
    /\ p[2] \notin blacklisted_macs_list[p[1]]
    /\ p[2] \notin silent
    /\ frames' = [frames EXCEPT ![p[2]] = @ + 1]

Quiet == UNCHANGED <<blacklisted_macs_list, range, silent>>

handle_auth(p) ==
    /\ Heard(p)
    /\ hapd' = Sent(Authenticated(hapd, p), p, "auth")
    /\ Quiet /\ UNCHANGED <<late, moved, orders, fails>>

\* A station that is not authenticated is told so; a refusal changes nothing.
handle_assoc(p, ies) ==
    /\ Heard(p)
    /\ hapd' = IF ~Has(hapd, p, "AUTH") THEN Sent(hapd, p, "deauth")
               ELSE IF Granted(hapd, p, ies)
                    THEN Sent(Associating(hapd, p, ies), p, "assoc")
                    ELSE hapd
    /\ Quiet /\ UNCHANGED <<late, moved, orders, fails>>

handle_disassoc(p) ==
    /\ Known(hapd, p)
    /\ Heard(p)
    /\ LET reset == hapd.sta[p].timeout_next \in {"NULLFUNC", "DISASSOC"}
       IN  hapd' = [hapd EXCEPT
                      !.sta[p] = [hapd.sta[p] EXCEPT
                                    !.flags = @ \ {"ASSOC", "AUTHORIZED"},
                                    !.wpa_sm = FALSE,
                                    !.timeout_next = IF reset THEN "DEAUTH" ELSE @],
                      !.timer[p] = IF reset THEN 1 ELSE @,
                      !.drv = @ \ {p}]
    /\ Quiet /\ UNCHANGED <<late, moved, orders, fails>>

handle_deauth(p) ==
    /\ Known(hapd, p)
    /\ Heard(p)
    /\ hapd' = FreeSta(hapd, p)
    /\ late' = late \ {p}
    /\ Quiet /\ UNCHANGED <<moved, orders, fails>>

-----------------------------------------------------------------------------
(* TX status of frames (ieee802_11_mgmt_cb, hostapd_tx_status).  A silent  *)
(* station acknowledges nothing.                                           *)

Reported(p, frame, ack) ==
    /\ <<p, frame>> \in hapd.tx
    /\ ack => p[2] \notin silent

Report(p, frame) == [hapd EXCEPT !.tx = @ \ {<<p, frame>>}]

\* The acknowledgement of a reply that was sent before a deauthentication
\* authenticates the station again.
handle_auth_cb(p, ack) ==
    /\ Reported(p, "auth", ack)
    /\ hapd' = IF ack /\ Known(hapd, p)
               THEN [Report(p, "auth") EXCEPT !.sta[p].flags = @ \cup {"AUTH"}]
               ELSE Report(p, "auth")
    /\ Quiet /\ UNCHANGED <<late, moved, bounds>>

handle_assoc_cb(p, ack, added) ==
    /\ Reported(p, "assoc", ack)
    /\ ~added => ack /\ Known(hapd, p) /\ fails < MaxFails
    /\ fails' = IF added THEN fails ELSE fails + 1
    /\ IF ack /\ Known(hapd, p)
       THEN /\ hapd' = Associated(Report(p, "assoc"), p, FALSE, added)
            /\ late' = late \ {p}
       ELSE /\ hapd' = Report(p, "assoc")
            /\ UNCHANGED late
    /\ Quiet /\ UNCHANGED <<moved, frames, orders>>

\* ap_sta_deauth_cb_timeout and ap_sta_disassoc_cb_timeout: the station is
\* removed from the driver, whatever has become of it since.
Complete(h, p) == [h EXCEPT !.drv = @ \ {p}]

NoteLate(p) == late' = late \cup IF Has(hapd, p, "ASSOC") THEN {p} ELSE {}

PendingCb(kind) ==
    IF kind = "deauth" THEN "PENDING_DEAUTH_CB" ELSE "PENDING_DISASSOC_CB"

\* handle_deauth_cb, handle_disassoc_cb
handle_gone_cb(p, kind) ==
    /\ Reported(p, kind, FALSE)
    /\ IF Has(hapd, p, PendingCb(kind))
       THEN /\ hapd' = [Complete(Report(p, kind), p) EXCEPT
                           !.sta[p].flags = @ \ {PendingCb(kind)},
                           !.cb[p] = @ \ {kind}]
            /\ NoteLate(p)
       ELSE /\ hapd' = Report(p, kind)
            /\ UNCHANGED late
    /\ Quiet /\ UNCHANGED <<moved, bounds>>

\* The flag is left set when the timer gets there first.
CbTimeout(p, kind) ==
    /\ kind \in hapd.cb[p]
    /\ hapd' = [Complete(hapd, p) EXCEPT !.cb[p] = @ \ {kind}]
    /\ NoteLate(p)
    /\ Quiet /\ UNCHANGED <<moved, bounds>>

hostapd_tx_status(p, ack) ==
    /\ Reported(p, "poll", ack)
    /\ hapd' = IF ack /\ Has(hapd, p, "ASSOC")
               THEN [Report(p, "poll") EXCEPT !.sta[p].flags = @ \ {"PENDING_POLL"}]
               ELSE Report(p, "poll")
    /\ Quiet /\ UNCHANGED <<late, moved, bounds>>

-----------------------------------------------------------------------------
(* ap_handle_timer                                                         *)

Fired(p) == [hapd EXCEPT !.timer[p] = @ - 1]

Rearm(h, p, next) == [h EXCEPT !.timer[p] = @ + 1, !.sta[p].timeout_next = next]

TimerSet(p) == hapd.timer[p] > 0 /\ Quiet /\ UNCHANGED <<moved, bounds>>

Polled(p) ==    \* the states in which the driver is asked for activity
    /\ Has(hapd, p, "ASSOC")
    /\ hapd.sta[p].timeout_next \in {"NULLFUNC", "DISASSOC"}

\* The poll of the last round did not fail.
PollAcked(p) ==
    /\ Has(hapd, p, "ASSOC")
    /\ hapd.sta[p].timeout_next = "DISASSOC"
    /\ "PENDING_POLL" \notin hapd.sta[p].flags

\* Tried again later: the station is active, the driver does not know it
\* (it is not disconnected then), or it has acknowledged the poll.
TimerAgain(p, active) ==
    /\ TimerSet(p)
    /\ Polled(p)
    /\ active => p \in hapd.drv /\ p[2] \notin silent
    /\ active \/ p \notin hapd.drv \/ PollAcked(p)
    /\ hapd' = Rearm(Fired(p), p, IF active \/ PollAcked(p) THEN "NULLFUNC"
                                  ELSE hapd.sta[p].timeout_next)
    /\ UNCHANGED late

Inactive(p) == ~Polled(p) \/ (p \in hapd.drv /\ ~PollAcked(p))

TimerNullfunc(p) ==
    /\ TimerSet(p)
    /\ Known(hapd, p) /\ hapd.sta[p].timeout_next = "NULLFUNC"
    /\ Inactive(p)
    /\ hapd' = IF Has(hapd, p, "ASSOC")
               THEN Sent([Rearm(Fired(p), p, "DISASSOC") EXCEPT
                            !.sta[p].flags = @ \cup {"PENDING_POLL"}], p, "poll")
               ELSE Sent(Rearm(Fired(p), p, "DISASSOC"), p, "disassoc")
    /\ UNCHANGED late

\* Mutant: the station is polled again in place of being deauthenticated.
TimerDisassocAgain(p) ==
    /\ TimerSet(p)
    /\ Known(hapd, p) /\ hapd.sta[p].timeout_next = "DISASSOC"
    /\ Inactive(p)
    /\ hapd' = Sent([Rearm(Fired(p), p, "NULLFUNC") EXCEPT
                        !.sta[p].flags = @ \ {"ASSOC", "AUTHORIZED"}],
                    p, "disassoc")
    /\ UNCHANGED late

TimerDisassoc(p) ==
    /\ TimerSet(p)
    /\ Known(hapd, p) /\ hapd.sta[p].timeout_next = "DISASSOC"
    /\ Inactive(p)
    /\ hapd' = Sent([Rearm(Fired(p), p, "DEAUTH") EXCEPT
                        !.sta[p].flags = @ \ {"ASSOC", "AUTHORIZED"}],
                    p, "disassoc")
    /\ UNCHANGED late

\* DEAUTH and REMOVE; only the former still tells the station.
TimerFree(p) ==
    /\ TimerSet(p)
    /\ Known(hapd, p) /\ hapd.sta[p].timeout_next \in {"DEAUTH", "REMOVE"}
    /\ hapd' = IF hapd.sta[p].timeout_next = "DEAUTH"
               THEN Sent(FreeSta(Fired(p), p), p, "deauth")
               ELSE FreeSta(Fired(p), p)
    /\ late' = late \ {p}

ap_handle_timer(p) ==
    \/ \E active \in BOOLEAN : TimerAgain(p, active)
    \/ TimerNullfunc(p)
    \/ TimerDisassoc(p)
    \/ TimerFree(p)

-----------------------------------------------------------------------------
(* The WPA state machine (external; EAPOL is taken from associated         *)
(* stations only) and the control interface                                *)

Order == orders < MaxOrders /\ orders' = orders + 1

\* Mutant: EAPOL is taken from any station with a WPA state machine.
WpaAuthorizeAny(p) ==
    /\ Known(hapd, p) /\ hapd.sta[p].wpa_sm
    /\ ~Has(hapd, p, "AUTHORIZED")
    /\ p[2] \notin silent
    /\ hapd' = [hapd EXCEPT !.sta[p].flags = @ \cup {"AUTHORIZED"}]
    /\ Quiet /\ UNCHANGED <<late, moved, bounds>>

\* The 4-way handshake is complete: ieee802_1x_set_sta_authorized.
WpaAuthorize(p) ==
    /\ Has(hapd, p, "ASSOC") /\ hapd.sta[p].wpa_sm
    /\ ~Has(hapd, p, "AUTHORIZED")
    /\ p[2] \notin silent
    /\ hapd' = [hapd EXCEPT !.sta[p].flags = @ \cup {"AUTHORIZED"}]
    /\ Quiet /\ UNCHANGED <<late, moved, bounds>>

\* The handshake or a key update fails: hostapd_wpa_auth_disconnect.
WpaDisconnect(p) ==
    /\ Known(hapd, p) /\ hapd.sta[p].wpa_sm
    /\ Order
    /\ hapd' = Disconnect(hapd, {p})
    /\ Quiet /\ UNCHANGED <<late, moved, frames, fails>>

\* DEAUTHENTICATE, DISASSOCIATE: the frame is sent to an unknown station too.
ctrl_iface_deauthenticate(p) ==
    /\ Order
    /\ hapd' = Sent(IF Known(hapd, p) THEN Deauthenticate(hapd, {p}, FALSE)
                    ELSE hapd, p, "deauth")
    /\ Quiet /\ UNCHANGED <<late, moved, frames, fails>>

ctrl_iface_disassociate(p) ==
    /\ Order
    /\ hapd' = Sent(IF Known(hapd, p) THEN Disassociate(hapd, {p}) ELSE hapd,
                    p, "disassoc")
    /\ Quiet /\ UNCHANGED <<late, moved, frames, fails>>

\* DEAUTHENTICATE of the broadcast address: hostapd_free_stas frees the whole
\* table of b, which FreeSta would do entry by entry.
FreeStas(h, b) ==
    [h EXCEPT
      !.sta = [p \in Reach |-> IF p[1] = b THEN NoSta ELSE h.sta[p]],
      !.sta_aid[b] = @ \ {h.sta[p].aid : p \in {q \in Reach : q[1] = b /\ Known(h, q)}},
      !.num_sta[b] = @ - Cardinality({p \in Reach : p[1] = b /\ Known(h, p)}),
      !.timer = [p \in Reach |-> IF p[1] = b THEN 0 ELSE h.timer[p]],
      !.cb = [p \in Reach |-> IF p[1] = b THEN {} ELSE h.cb[p]],
      !.drv = {p \in @ : p[1] # b}]

ctrl_iface_deauthenticate_all(b) ==
    /\ Order
    /\ hapd' = FreeStas(hapd, b)
    /\ late' = {p \in late : p[1] # b}
    /\ Quiet /\ UNCHANGED <<moved, frames, fails>>

\* NEW_STA: the frames of a station that associates are made up and handled,
\* without answers.  The elements of the made up request have no RSN element,
\* and are followed by whatever the stack holds.
ctrl_iface_new_sta(p, ies, added) ==
    LET auth == Authenticated(hapd, p)
        req == Associating(auth, p, ies)
    IN  /\ Order
        /\ ~Known(hapd, p)
        /\ ies => p[1] \notin Wpa
        /\ ~added => Known(auth, p) /\ fails < MaxFails
        /\ fails' = IF added THEN fails ELSE fails + 1
        /\ hapd' = IF Known(auth, p) THEN Associated(req, p, TRUE, added)
                   ELSE Sent(auth, p, "deauth")
        /\ moved' = moved \cup {p[1]}
        /\ late' = late \ {p}
        /\ Quiet /\ UNCHANGED frames

blacklist_client(p) ==
    /\ Order
    /\ blacklisted_macs_list' =
         [blacklisted_macs_list EXCEPT ![p[1]] = @ \cup {p[2]}]
    /\ UNCHANGED <<hapd, range, silent, late, moved, frames, fails>>

unblacklist_client(p) ==
    /\ Order
    /\ blacklisted_macs_list' =
         [blacklisted_macs_list EXCEPT ![p[1]] = @ \ {p[2]}]
    /\ UNCHANGED <<hapd, range, silent, late, moved, frames, fails>>

FallSilent(s) ==
    /\ s \notin silent
    /\ silent' = silent \cup {s}
    /\ UNCHANGED <<hapd, blacklisted_macs_list, range, late, moved, bounds>>

-----------------------------------------------------------------------------

\* A frame received from the station.
Receive(p) ==
    \/ handle_auth(p)
    \/ \E ies \in BOOLEAN : handle_assoc(p, ies)
    \/ handle_disassoc(p)
    \/ handle_deauth(p)
    \/ WpaAuthorize(p)

TxStatus(p) ==
    \/ \E ack \in BOOLEAN : handle_auth_cb(p, ack)
    \/ \E ack, added \in BOOLEAN : handle_assoc_cb(p, ack, added)
    \/ \E kind \in {"deauth", "disassoc"} : handle_gone_cb(p, kind)
    \/ \E ack \in BOOLEAN : hostapd_tx_status(p, ack)

Timers(p) ==
    \/ ap_handle_timer(p)
    \/ \E kind \in {"deauth", "disassoc"} : CbTimeout(p, kind)

Command(p) ==
    \/ WpaDisconnect(p)
    \/ ctrl_iface_deauthenticate(p)
    \/ ctrl_iface_disassociate(p)
    \/ ctrl_iface_deauthenticate_all(p[1])
    \/ \E ies, added \in BOOLEAN : ctrl_iface_new_sta(p, ies, added)
    \/ blacklist_client(p)
    \/ unblacklist_client(p)

InFlight == \A p \in range : Cardinality({t \in hapd.tx' : t[1] = p}) <= MaxTx[p]

Next ==
    /\ \/ \E p \in range : Receive(p) \/ TxStatus(p) \/ Timers(p) \/ Command(p)
       \/ \E s \in Quits : FallSilent(s)
    /\ InFlight

Spec == Init /\ [][Next]_vars

\* The event loop runs the timers that are due, and the driver reports the TX
\* status of every frame.
FairSpec ==
    /\ Spec
    /\ \A p \in Reach :
         p[2] \in Quits => WF_vars((Timers(p) \/ TxStatus(p)) /\ InFlight)

-----------------------------------------------------------------------------
(* Properties                                                              *)

\* Each variable holds values of the kind hostapd gives it; association ids are
\* never beyond the bitmap they index (hostapd_get_aid).
TypeOK ==
    /\ hapd \in State
    /\ blacklisted_macs_list \in [Bss -> SUBSET Sta]
    /\ range \in Ranges
    /\ silent \subseteq Sta /\ late \subseteq Reach /\ moved \subseteq Bss
    /\ \A s \in Sta : frames[s] \in 0..MaxFrames[s]
    /\ orders \in 0..MaxOrders /\ fails \in 0..MaxFails

\* Every station of the table has exactly one inactivity timer, and no timer
\* refers to an entry that has been freed, whichever of the ways of adding,
\* disconnecting and freeing stations are combined (ap_handle_timer,
\* ap_sta_add, ap_free_sta, hostapd_new_assoc_sta).
TimersMatch ==
    \A p \in Reach :
        IF Known(hapd, p) THEN hapd.timer[p] = 1
        ELSE hapd.timer[p] = 0 /\ hapd.cb[p] = {}

\* The number of stations is the size of the table, never above max_num_sta;
\* as long as no station has been moved into a BSS, the bitmap of association
\* ids holds those of its stations, and no two share one.
TablesAgree ==
    \A b \in Bss :
        LET known == {p \in Reach : p[1] = b /\ Known(hapd, p)}
            ids == {p \in known : hapd.sta[p].aid > 0}
        IN  /\ hapd.num_sta[b] = Cardinality(known)
            /\ hapd.num_sta[b] <= MaxSta[b]
            /\ b \notin moved =>
                 /\ hapd.sta_aid[b] = {hapd.sta[p].aid : p \in ids}
                 /\ Cardinality(hapd.sta_aid[b]) = Cardinality(ids)

\* The driver has an entry for every station that is associated and for no
\* station the table does not have, and an open port belongs to an associated
\* station.  Except: a disconnection may complete after the station has come
\* back (ap_sta_deauth_cb, ap_sta_deauth_cb_timeout).
DriverAgrees ==
    \A p \in Reach :
        /\ Has(hapd, p, "ASSOC") => p \in hapd.drv \cup late
        /\ p \in hapd.drv => Known(hapd, p)
        /\ Has(hapd, p, "AUTHORIZED") => Has(hapd, p, "ASSOC")

\* A station is associated with at most one BSS of a process, although it may
\* be authenticated with several and their answers are acknowledged in any
\* order (ap_sta_remove_in_other_bss, hostapd_prune_associations).
OneAssociation ==
    \A p, q \in Reach :
        /\ p[2] = q[2] /\ Proc[p[1]] = Proc[q[1]]
        /\ Has(hapd, p, "ASSOC") /\ Has(hapd, q, "ASSOC")
        => p = q

\* A silent station is removed, unless a disconnection completed after it had
\* come back: then the driver does not know it, and ap_handle_timer keeps it.
SilentRemovedOrLate ==
    \A p \in {q \in Reach : q[2] \in Quits} :
        p[2] \in silent ~> (~Known(hapd, p) \/ (p \in late /\ Has(hapd, p, "ASSOC")))

=============================================================================
