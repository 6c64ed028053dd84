---------------------------- MODULE ChannelSwitch ----------------------------
(***************************************************************************)
(* Changing the radio channel of an access point (framework/agent.py,      *)
(* ChannelSwitchGuardThread of utils.py, chan_switch of hostapd).  A key   *)
(* change tells the neighbours on which frequency they find the probe      *)
(* responses with the new key, so the radio must stay there for a while:   *)
(* setChannel keeps a guard interval before and after a key change.        *)
(*                                                                         *)
(* Several applications may call setChannel, each in its own thread.  Time *)
(* is in ticks, and clocks are kept as ages that stop counting where no    *)
(* comparison can tell the difference any more.  Commands and messages     *)
(* that are under way take at most Slow ticks, and a command and the       *)
(* switch it announces fit into the guard interval, which is what it is    *)
(* there for.  A guard loop looks at the clock once in every tick (it      *)
(* sleeps for 1 ms).                                                       *)
(***************************************************************************)
EXTENDS Integers

CONSTANTS
    App,                    \* the threads that call setChannel
    Freq,                   \* the frequencies of the supported channels
    KEYCHANGEINTERVAL,      \* 6000 s, at least 10
    CHANNEL_SWITCH_GUARD,   \* 2 s
    Slow                    \* ticks a command or a message takes at most

ASSUME ChannelAssumption ==
    /\ KEYCHANGEINTERVAL \in Nat /\ CHANNEL_SWITCH_GUARD \in Nat
    /\ Freq \subseteq Nat \ {0}
    /\ Slow \in Nat /\ CHANNEL_SWITCH_GUARD > 0
    /\ 2 * Slow <= CHANNEL_SWITCH_GUARD     \* a command, and what it announces
    /\ 2 * CHANNEL_SWITCH_GUARD < KEYCHANGEINTERVAL

VARIABLES
    freq,       \* freq of the agent, with channel
    connFreq,   \* freq of the connector, with channel: what getChannel tells
    radio,      \* the frequency hostapd is on
    csa,        \* cs_freq of hostapd while csa_in_progress, with its age
    keys,       \* the key change thread: pc, the age of its sleep, the
                \* frequency in the kcm it sends
    kcm,        \* the last kcm: its frequency, and since when it is published
    sent,       \* a kcm is on its way to the forwarder (UserCtrl is cleared),
                \* with its age
    lastKCM,    \* age of timestampLastKCM in the own entry
    app,        \* the threads in setChannel
    disturbed   \* history: a switch was refused, or two overlapped

vars == <<freq, connFreq, radio, csa, keys, kcm, sent, lastKCM, app, disturbed>>

None == [freq |-> 0, age |-> 0]     \* no frequency is 0

\* Where the ages of a sleep, of the last kcm and of its publication stop.
TooLate == KEYCHANGEINTERVAL - CHANNEL_SWITCH_GUARD
Over == CHANNEL_SWITCH_GUARD + 1
Older(age, end) == IF age < end THEN age + 1 ELSE age

Idle == [pc |-> "home", freq |-> 0, lastKCM |-> 0, freqOld |-> 0, ret |-> "none",
         age |-> 0]

Init ==
    /\ freq \in Freq /\ connFreq = freq /\ radio = freq
    /\ csa = None /\ sent = None
    /\ keys = [pc |-> "sleep", age |-> 0, freq |-> 0]
    /\ kcm = [freq |-> freq, age |-> Over]
    /\ lastKCM \in 0..TooLate     \* the scan at the start takes some time
    /\ app = [t \in App |-> Idle]
    /\ disturbed = FALSE

-----------------------------------------------------------------------------
(* The key change thread (changeKeys)                                      *)

KeysAt(from, to) ==
    /\ keys.pc = from
    /\ keys' = [keys EXCEPT !.pc = to]

\* The sleep is over and no other thread sends: ChangeKeys is cleared, and the
\* kcm names the frequency the agent has now.
KeysRotate ==
    /\ keys.pc = "sleep" /\ keys.age = KEYCHANGEINTERVAL /\ sent = None
    /\ keys' = [keys EXCEPT !.pc = "rotate", !.freq = freq]
    /\ UNCHANGED <<freq, connFreq, radio, csa, kcm, sent, lastKCM, app, disturbed>>

\* The new key is in the probe responses, ChangeKeys is set.
KeysRotated ==
    /\ KeysAt("rotate", "send")
    /\ UNCHANGED <<freq, connFreq, radio, csa, kcm, sent, lastKCM, app, disturbed>>

\* sendCtrlToNeighbors clears UserCtrl and hands the kcm to the forwarder.
KeysSend ==
    /\ KeysAt("send", "stamp")
    /\ sent' = [freq |-> keys.freq, age |-> 0]
    /\ UNCHANGED <<freq, connFreq, radio, csa, kcm, lastKCM, app, disturbed>>

KeysStamp ==
    /\ KeysAt("stamp", "validate")
    /\ lastKCM' = 0
    /\ UNCHANGED <<freq, connFreq, radio, csa, kcm, sent, app, disturbed>>

\* validateCurrentNeighborList waits for UserCtrl and clears NeighborUpdate.
KeysValidate ==
    /\ sent = None
    /\ KeysAt("validate", "validating")
    /\ UNCHANGED <<freq, connFreq, radio, csa, kcm, sent, lastKCM, app, disturbed>>

KeysSleep ==
    /\ keys.pc = "validating"
    /\ keys' = [pc |-> "sleep", age |-> 0, freq |-> 0]
    /\ UNCHANGED <<freq, connFreq, radio, csa, kcm, sent, lastKCM, app, disturbed>>

\* The forwarder publishes the kcm and sets UserCtrl.
Publish ==
    /\ sent # None
    /\ kcm' = [freq |-> sent.freq, age |-> 0]
    /\ sent' = None
    /\ UNCHANGED <<freq, connFreq, radio, csa, keys, lastKCM, app, disturbed>>

-----------------------------------------------------------------------------
(* setChannel                                                              *)

Switching(t) == app[t].pc \in {"command", "finish", "assign"}

AppAt(t, from, to) ==
    /\ app[t].pc = from
    /\ app' = [app EXCEPT ![t].pc = to]

setChannel(t, f) ==
    /\ app[t].pc = "home"
    /\ app' = [app EXCEPT ![t] = [Idle EXCEPT !.pc = "keys", !.freq = f]]
    /\ UNCHANGED <<freq, connFreq, radio, csa, keys, kcm, sent, lastKCM, disturbed>>

\* The waits for ChangeKeys, UserCtrl and NeighborUpdate.
AppWait(t) ==
    /\ \/ keys.pc # "rotate" /\ AppAt(t, "keys", "ctrl")
       \/ sent = None /\ AppAt(t, "ctrl", "update")
       \/ keys.pc # "validating" /\ AppAt(t, "update", "run")
    /\ UNCHANGED <<freq, connFreq, radio, csa, keys, kcm, sent, lastKCM, disturbed>>

\* Mutant: the old frequency is not handed over.
AppRunForgets(t) ==
    /\ app[t].pc = "run"
    /\ app' = [app EXCEPT ![t].pc = "guard", ![t].lastKCM = lastKCM]
    /\ UNCHANGED <<freq, connFreq, radio, csa, keys, kcm, sent, lastKCM, disturbed>>

\* The arguments of ChannelSwitchGuardThread.run, fixed for its whole loop.
AppRun(t) ==
    /\ app[t].pc = "run"
    /\ app' = [app EXCEPT ![t] = [@ EXCEPT !.pc = "guard", !.lastKCM = lastKCM,
                                           !.freqOld = freq]]
    /\ UNCHANGED <<freq, connFreq, radio, csa, keys, kcm, sent, lastKCM, disturbed>>

\* Mutants: the guard ends a tick early, is missing before a key change, or
\* counts twice.
GuardedFrom(t) ==
    /\ app[t].lastKCM >= CHANNEL_SWITCH_GUARD
    /\ app[t].lastKCM < TooLate

GuardedAfter(t) == app[t].lastKCM > CHANNEL_SWITCH_GUARD

GuardedTwice(t) ==
    /\ app[t].lastKCM > 2 * CHANNEL_SWITCH_GUARD
    /\ app[t].lastKCM < TooLate - CHANNEL_SWITCH_GUARD

Guarded(t) ==
    /\ app[t].lastKCM > CHANNEL_SWITCH_GUARD
    /\ app[t].lastKCM < TooLate         \* kcmInter - guard

AppGuard(t) ==
    /\ Guarded(t)
    /\ AppAt(t, "guard", "command")
    /\ disturbed' = (disturbed \/ \E u \in App \ {t} : Switching(u))
    /\ UNCHANGED <<freq, connFreq, radio, csa, keys, kcm, sent, lastKCM>>

\* Mutant: the connector does not look at the answer.
CommandAnyway(t, ok) ==
    /\ app[t].pc = "command"
    /\ ok => csa = None
    /\ app' = [app EXCEPT ![t].pc = "finish",
                          ![t].ret = IF ok THEN "OK" ELSE "FAIL"]
    /\ disturbed' = (disturbed \/ ~ok)
    /\ connFreq' = app[t].freq
    /\ IF ok THEN csa' = [freq |-> app[t].freq, age |-> 0] ELSE UNCHANGED csa
    /\ UNCHANGED <<freq, radio, keys, kcm, sent, lastKCM>>

\* connector.setChannel: hostapd refuses while it announces another switch, and
\* may refuse for reasons of its own.  On OK the connector takes the frequency.
Command(t, ok) ==
    /\ app[t].pc = "command"
    /\ ok => csa = None
    /\ app' = [app EXCEPT ![t] = [@ EXCEPT !.pc = "finish",
                                           !.ret = IF ok THEN "OK" ELSE "FAIL"]]
    /\ disturbed' = (disturbed \/ ~ok)
    /\ IF ok THEN connFreq' = app[t].freq /\ csa' = [freq |-> app[t].freq, age |-> 0]
       ELSE UNCHANGED <<connFreq, csa>>
    /\ UNCHANGED <<freq, radio, keys, kcm, sent, lastKCM>>

\* After the beacons that announce the switch hostapd moves.
SwitchRadio ==
    /\ csa # None
    /\ radio' = csa.freq
    /\ csa' = None
    /\ UNCHANGED <<freq, connFreq, keys, kcm, sent, lastKCM, app, disturbed>>

setChannelFinished(t) ==
    /\ AppAt(t, "finish", "assign")
    /\ freq' = IF app[t].ret = "OK" THEN app[t].freq ELSE app[t].freqOld
    /\ UNCHANGED <<connFreq, radio, csa, keys, kcm, sent, lastKCM, disturbed>>

\* setChannel assigns the frequency once more, whatever was returned.
AppAssign(t) ==
    /\ app[t].pc = "assign"
    /\ freq' = app[t].freq
    /\ app' = [app EXCEPT ![t] = Idle]
    /\ UNCHANGED <<connFreq, radio, csa, keys, kcm, sent, lastKCM, disturbed>>

-----------------------------------------------------------------------------
(* Time                                                                    *)

\* What must happen before the next tick.
Due ==
    \/ csa # None /\ csa.age = Slow
    \/ sent # None /\ sent.age = Slow
    \/ \E t \in App :
         \/ app[t].pc = "guard" /\ Guarded(t)
         \/ Switching(t) /\ app[t].age = Slow

Tick ==
    /\ ~Due
    /\ csa' = IF csa = None THEN csa ELSE [csa EXCEPT !.age = @ + 1]
    /\ sent' = IF sent = None THEN sent ELSE [sent EXCEPT !.age = @ + 1]
    /\ keys' = IF keys.pc = "sleep" THEN [keys EXCEPT !.age = Older(@, KEYCHANGEINTERVAL)] ELSE keys
    /\ kcm' = [kcm EXCEPT !.age = Older(@, Over)]
    /\ lastKCM' = Older(lastKCM, TooLate)
    /\ app' = [t \in App |->
                 CASE app[t].pc = "guard" ->
                        [app[t] EXCEPT !.lastKCM = Older(@, TooLate)]
                   [] Switching(t) ->
                        [app[t] EXCEPT !.age = @ + 1]
                   [] OTHER -> app[t]]
    /\ UNCHANGED <<freq, connFreq, radio, disturbed>>

-----------------------------------------------------------------------------
changeKeys ==
    \/ KeysRotate \/ KeysRotated \/ KeysSend \/ KeysStamp
    \/ KeysValidate \/ KeysSleep

AppStep(t) ==
    \/ AppWait(t)
    \/ AppRun(t)
    \/ AppGuard(t)
    \/ \E ok \in BOOLEAN : Command(t, ok)
    \/ setChannelFinished(t)
    \/ AppAssign(t)

Next ==
    \/ changeKeys
    \/ Publish
    \/ SwitchRadio
    \/ \E t \in App : AppStep(t) \/ \E f \in Freq : setChannel(t, f)
    \/ Tick

Spec == Init /\ [][Next]_vars

\* Time passes, and threads, forwarder and hostapd go on.
FairSpec ==
    /\ Spec
    /\ WF_vars(Tick) /\ WF_vars(changeKeys) /\ WF_vars(Publish) /\ WF_vars(SwitchRadio)
    /\ \A t \in App : WF_vars(AppStep(t))

-----------------------------------------------------------------------------
(* Properties                                                              *)

\* Each variable holds values of the kind the agent gives it; an application that
\* is beyond its waits has the frequency to roll back to.
TypeOK ==
    /\ freq \in Freq /\ connFreq \in Freq /\ radio \in Freq
    /\ csa \in {None} \cup [freq : Freq, age : 0..Slow]
    /\ sent \in {None} \cup [freq : Freq, age : 0..Slow]
    /\ keys \in [pc : {"sleep", "rotate", "send", "stamp", "validate", "validating"},
                 age : 0..KEYCHANGEINTERVAL, freq : Freq \cup {0}]
    /\ kcm \in [freq : Freq, age : 0..Over]
    /\ lastKCM \in 0..TooLate
    /\ app \in [App -> [pc : {"home", "keys", "ctrl", "update", "run", "guard",
                              "command", "finish", "assign"},
                        freq : Freq \cup {0}, lastKCM : 0..TooLate,
                        freqOld : Freq \cup {0}, ret : {"none", "OK", "FAIL"},
                        age : 0..Slow]]
    /\ disturbed \in BOOLEAN

\* A neighbour that scans on the frequency a kcm names finds the access point
\* there: from its publication until the guard interval is over the radio is on
\* it, whoever calls setChannel and whenever, unless a switch was refused or
\* two overlapped (ChannelSwitchGuardThread.run, changeKeys).
KcmFindsRadio ==
    kcm.age <= CHANNEL_SWITCH_GUARD - Slow /\ ~disturbed => radio = kcm.freq

\* No switch is commanded, announced or made while a key change is between
\* reading the frequency and the publication of its kcm, also with refused
\* and overlapping switches.
SwitchesApart ==
    (keys.pc \in {"rotate", "send"} \/ sent # None) =>
        /\ csa = None
        /\ \A t \in App : app[t].pc # "command"

\* getChannel, the frequency of the agent and the radio agree when no call and
\* no announcement is under way, unless a switch was refused or two overlapped.
ViewsAgree ==
    csa = None /\ (\A t \in App : ~Switching(t))
      => /\ connFreq = radio
         /\ ~disturbed => freq = radio

\* A call that enters the guard loop early enough after a key change returns.
\* Later in the interval it does not: the loop keeps the lastKCM it was given.
SwitchReturns ==
    \A t \in App :
        app[t].pc = "guard" /\ app[t].lastKCM < TooLate
            ~> app[t].pc = "home"

=============================================================================
