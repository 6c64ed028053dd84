------------------------ MODULE ChannelSwitchProofs ------------------------
(***************************************************************************)
(* Proofs about changing the radio channel, for any number of calling      *)
(* applications, any frequencies, and any key change interval, guard       *)
(* interval and delays that ChannelAssumption allows.                      *)
(***************************************************************************)
EXTENDS ChannelSwitch, TLAPS

Label == {"home", "keys", "ctrl", "update", "run", "guard", "command", "finish", "assign"}
AppState == [pc : Label, freq : Freq \cup {0}, lastKCM : 0..TooLate,
             freqOld : Freq \cup {0}, ret : {"none", "OK", "FAIL"}, age : 0..Slow]

\* A key change is between its beginning and the publication of its kcm.
Changing == keys.pc \in {"rotate", "send", "stamp"} \/ sent # None

\* A neighbour may be scanning for the access point.
Window == kcm.age <= CHANNEL_SWITCH_GUARD - Slow

\* The time since the key change a thread counts from, if that was the last
\* one: the sleep that followed it is not longer.
Asleep(limit) ==
    \/ keys.pc \in {"validate", "validating"}
    \/ keys.pc = "sleep" /\ keys.age <= limit

\* A thread beyond its waits has the frequencies it was called with and finds.
ArgsOK ==
    \A t \in App : /\ app[t].pc # "home" => app[t].freq \in Freq
                   /\ app[t].pc \in {"guard"} \/ Switching(t) => app[t].freqOld \in Freq

\* The own time stamp is as old as the sleep, or too old to switch.
StampInv ==
    /\ keys.pc = "sleep" => lastKCM = TooLate \/ keys.age <= lastKCM
    /\ keys.pc \in {"rotate", "send", "stamp"} => lastKCM = TooLate

\* So is the copy of it that a guard loop counts with.
GuardInv ==
    \A t \in App : app[t].pc = "guard" =>
        app[t].lastKCM = TooLate \/ Asleep(app[t].lastKCM)

\* A switch starts early enough in the sleep, and so does the announcement.
SwitchInv ==
    /\ \A t \in App : Switching(t) =>
          /\ app[t].lastKCM < TooLate
          /\ Asleep(app[t].lastKCM + app[t].age)
    /\ csa # None => Asleep(TooLate - 1 + Slow + csa.age)

\* During a key change nobody switches, the kcm names the frequency of the
\* agent, and what is counted since the stamp is less than what it travels.
ChangeInv ==
    /\ sent # None => keys.pc \in {"stamp", "validate"} /\ sent.freq = freq
    /\ keys.pc \in {"rotate", "send"} => keys.freq = freq
    /\ Changing => csa = None /\ \A t \in App : ~Switching(t)
    /\ sent # None /\ keys.pc = "validate" =>
          /\ lastKCM <= sent.age
          /\ \A t \in App : app[t].pc = "guard" =>
                app[t].lastKCM = TooLate \/ app[t].lastKCM <= sent.age

\* After its publication nobody switches for as long as neighbours may scan.
WindowInv ==
    Window =>
        /\ keys.pc # "stamp" => lastKCM <= kcm.age + Slow
        /\ \A t \in App : app[t].pc = "guard" =>
              app[t].lastKCM = TooLate \/ app[t].lastKCM <= kcm.age + Slow
        /\ csa = None /\ \A t \in App : ~Switching(t)
        /\ ~disturbed => radio = kcm.freq

\* The connector knows where the radio is or will be, and without refused or
\* overlapping switches the agent does, before and after its own switch.
ViewInv ==
    /\ connFreq = IF csa = None THEN radio ELSE csa.freq
    /\ ~disturbed =>
          /\ \A t, u \in App : Switching(t) /\ Switching(u) => t = u
          /\ (\A t \in App : app[t].pc # "finish") => freq = connFreq
          /\ \A t \in App : app[t].pc \in {"finish", "assign"} => app[t].freq = connFreq
          /\ \A t \in App : app[t].pc = "finish" => app[t].ret = "OK"

\* The inductive invariant.
SafeInv ==
    /\ TypeOK /\ ArgsOK /\ StampInv /\ GuardInv /\ SwitchInv
    /\ ChangeInv /\ WindowInv /\ ViewInv

-----------------------------------------------------------------------------
(* Types and numbers                                                       *)

\* The constants, as numbers.
LEMMA Numbers ==
    /\ Slow \in Nat /\ CHANNEL_SWITCH_GUARD \in Nat /\ KEYCHANGEINTERVAL \in Nat
    /\ TooLate \in Nat /\ TooLate = KEYCHANGEINTERVAL - CHANNEL_SWITCH_GUARD
    /\ TooLate > CHANNEL_SWITCH_GUARD
    /\ Over \in Nat /\ Over = CHANNEL_SWITCH_GUARD + 1
    /\ 2 * Slow <= CHANNEL_SWITCH_GUARD /\ CHANNEL_SWITCH_GUARD > 0
    /\ \A f \in Freq : f \in Nat /\ f # 0
BY ChannelAssumption DEF TooLate, Over

\* No message and no announcement is None.
LEMMA NotNone ==
    ASSUME NEW f \in Freq, NEW age
    PROVE  [freq |-> f, age |-> age] # None
BY Numbers DEF None

Travelling == [freq : Freq, age : 0..Slow]
KeyState == [pc : {"sleep", "rotate", "send", "stamp", "validate", "validating"},
             age : 0..KEYCHANGEINTERVAL, freq : Freq \cup {0}]

\* What a key change and a call keep, field by field.
LEMMA Fields ==
    ASSUME TypeOK
    PROVE  /\ keys \in KeyState /\ keys.age \in 0..KEYCHANGEINTERVAL
           /\ keys.pc \in {"sleep", "rotate", "send", "stamp", "validate", "validating"}
           /\ kcm.freq \in Freq /\ kcm.age \in 0..Over
           /\ lastKCM \in 0..TooLate
           /\ csa # None => csa \in Travelling /\ csa.freq \in Freq /\ csa.age \in 0..Slow
           /\ sent # None => sent \in Travelling /\ sent.freq \in Freq /\ sent.age \in 0..Slow
           /\ app \in [App -> AppState]
BY DEF TypeOK, KeyState, Travelling, AppState, Label

\* What TypeOK says of the record of one call.
LEMMA AppFields ==
    ASSUME TypeOK, NEW t \in App
    PROVE  /\ app[t] \in AppState
           /\ app[t].pc \in Label /\ app[t].lastKCM \in 0..TooLate /\ app[t].age \in 0..Slow
           /\ app[t].freq \in Freq \cup {0} /\ app[t].freqOld \in Freq \cup {0}
           /\ app[t].ret \in {"none", "OK", "FAIL"}
<1>1. app[t] \in AppState
  BY Fields
<1> QED
  BY <1>1 DEF AppState

\* The types, once more, from those of the parts.
LEMMA TypeParts ==
    ASSUME freq \in Freq, connFreq \in Freq, radio \in Freq,
           csa = None \/ csa \in Travelling, sent = None \/ sent \in Travelling,
           keys \in KeyState, kcm \in [freq : Freq, age : 0..Over],
           lastKCM \in 0..TooLate, app \in [App -> AppState], disturbed \in BOOLEAN
    PROVE  TypeOK
BY DEF TypeOK, KeyState, Travelling, AppState, Label

-----------------------------------------------------------------------------
(* The key change                                                          *)

\* Moving on.
LEMMA KeysAtStep ==
    ASSUME TypeOK, NEW from,
           NEW to \in {"sleep", "rotate", "send", "stamp", "validate", "validating"},
           KeysAt(from, to)
    PROVE  /\ keys.pc = from /\ keys' \in KeyState
           /\ keys'.pc = to /\ keys'.age = keys.age /\ keys'.freq = keys.freq
BY Fields DEF KeysAt, KeyState

\* The record of the key change thread after it has read the frequency.
LEMMA RotateFields ==
    ASSUME NEW k \in KeyState, NEW f, NEW d, d = [k EXCEPT !.pc = "rotate", !.freq = f]
    PROVE  d = [pc |-> "rotate", age |-> k.age, freq |-> f]
BY DEF KeyState

\* The frequency is read.
LEMMA KeysRotateStep ==
    ASSUME SafeInv, KeysRotate
    PROVE  SafeInv'
<1>1. /\ keys.pc = "sleep" /\ keys.age = KEYCHANGEINTERVAL /\ sent = None
      /\ UNCHANGED <<freq, connFreq, radio, csa, kcm, sent, lastKCM, app, disturbed>>
  BY DEF KeysRotate
<1>2. keys \in KeyState /\ TypeOK
  BY Fields DEF SafeInv
<1>3. keys' = [pc |-> "rotate", age |-> keys.age, freq |-> freq]
  <2>1. keys' = [keys EXCEPT !.pc = "rotate", !.freq = freq]
    BY DEF KeysRotate
  <2> QED
    BY <1>2, <2>1, RotateFields
<1>4. keys' \in KeyState /\ keys'.pc = "rotate" /\ keys'.freq = freq
  BY <1>2, <1>3 DEF KeyState, TypeOK
<1>5. TypeOK'
  BY <1>1, <1>2, <1>4 DEF TypeOK, KeyState
<1>6. lastKCM = TooLate
  BY <1>1, Numbers, Fields DEF SafeInv, StampInv
<1>7. csa = None /\ \A t \in App : ~Switching(t)
  <2>1. csa = None
    BY <1>1, <1>2, Numbers, Fields DEF SafeInv, SwitchInv, Asleep
  <2>2. ASSUME NEW t \in App PROVE ~Switching(t)
    <3>1. app[t].lastKCM \in 0..TooLate /\ app[t].age \in 0..Slow
      BY <1>2, AppFields
    <3> QED
      BY <1>1, <3>1, Numbers DEF SafeInv, SwitchInv, Asleep
  <2> QED
    BY <2>1, <2>2
<1>8. ~Window
  BY <1>1, <1>2, <1>6, Fields, Numbers DEF SafeInv, WindowInv, Window
<1>9. ASSUME NEW t \in App, app[t].pc = "guard"
      PROVE  app[t].lastKCM = TooLate
  <2>1. app[t].lastKCM \in 0..TooLate
    BY <1>2, AppFields
  <2> QED
    BY <1>1, <1>9, <2>1, Numbers DEF SafeInv, GuardInv, Asleep
<1>10. ArgsOK' /\ StampInv' /\ GuardInv'
  BY <1>1, <1>4, <1>6, <1>9 DEF SafeInv, ArgsOK, StampInv, GuardInv, Switching
<1>11. SwitchInv'
  BY <1>1, <1>7 DEF SwitchInv, Switching
<1>12. ChangeInv'
  BY <1>1, <1>4, <1>7 DEF ChangeInv, Switching
<1>13. WindowInv'
  BY <1>1, <1>8 DEF WindowInv, Window
<1>14. ViewInv'
  BY <1>1 DEF SafeInv, ViewInv, Switching
<1> QED
  BY <1>5, <1>10, <1>11, <1>12, <1>13, <1>14 DEF SafeInv

\* The steps of the key change that leave the messages and clocks alone.
LEMMA KeysRotatedStep ==
    ASSUME SafeInv, KeysRotated
    PROVE  SafeInv'
<1>1. /\ UNCHANGED <<freq, connFreq, radio, csa, kcm, sent, lastKCM, app, disturbed>>
      /\ keys.pc = "rotate" /\ keys' \in KeyState
      /\ keys'.pc = "send" /\ keys'.age = keys.age /\ keys'.freq = keys.freq
  BY KeysAtStep DEF KeysRotated, SafeInv
<1>2. TypeOK'
  BY <1>1 DEF SafeInv, TypeOK, KeyState
<1>3. ArgsOK' /\ StampInv' /\ GuardInv'
  BY <1>1 DEF SafeInv, ArgsOK, StampInv, GuardInv, Asleep, Switching
<1>4. SwitchInv'
  BY <1>1 DEF SafeInv, SwitchInv, Asleep, Switching
<1>5. ChangeInv'
  BY <1>1 DEF SafeInv, ChangeInv, Changing, Switching
<1>6. WindowInv'
  BY <1>1 DEF SafeInv, WindowInv, Window, Switching
<1>7. ViewInv'
  BY <1>1 DEF SafeInv, ViewInv, Switching
<1> QED
  BY <1>2, <1>3, <1>4, <1>5, <1>6, <1>7 DEF SafeInv

\* The kcm goes to the forwarder.
LEMMA KeysSendStep ==
    ASSUME SafeInv, KeysSend
    PROVE  SafeInv'
<1>1. /\ UNCHANGED <<freq, connFreq, radio, csa, kcm, lastKCM, app, disturbed>>
      /\ keys.pc = "send" /\ keys' \in KeyState
      /\ keys'.pc = "stamp" /\ keys'.age = keys.age /\ keys'.freq = keys.freq
  BY KeysAtStep DEF KeysSend, SafeInv
<1>2. keys.freq = freq /\ freq \in Freq
  BY <1>1 DEF SafeInv, ChangeInv, TypeOK
<1>3. sent' \in Travelling /\ sent' # None /\ sent'.freq = freq /\ sent'.age = 0
  BY <1>2, NotNone, Numbers DEF KeysSend, Travelling
<1>4. TypeOK'
  BY <1>1, <1>3 DEF SafeInv, TypeOK, KeyState, Travelling
<1>5. ArgsOK' /\ StampInv' /\ GuardInv'
  BY <1>1 DEF SafeInv, ArgsOK, StampInv, GuardInv, Asleep, Switching
<1>6. SwitchInv'
  BY <1>1 DEF SafeInv, SwitchInv, Asleep, Switching
<1>7. ChangeInv'
  BY <1>1, <1>2, <1>3 DEF SafeInv, ChangeInv, Changing, Switching
<1>8. WindowInv'
  BY <1>1 DEF SafeInv, WindowInv, Window, Switching
<1>9. ViewInv'
  BY <1>1 DEF SafeInv, ViewInv, Switching
<1> QED
  BY <1>4, <1>5, <1>6, <1>7, <1>8, <1>9 DEF SafeInv

\* The own entry is stamped.
LEMMA KeysStampStep ==
    ASSUME SafeInv, KeysStamp
    PROVE  SafeInv'
<1>1. /\ UNCHANGED <<freq, connFreq, radio, csa, kcm, sent, app, disturbed>>
      /\ keys.pc = "stamp" /\ keys' \in KeyState
      /\ keys'.pc = "validate" /\ keys'.age = keys.age /\ keys'.freq = keys.freq
      /\ lastKCM' = 0
  BY KeysAtStep DEF KeysStamp, SafeInv
<1>2. TypeOK'
  BY <1>1, Numbers DEF SafeInv, TypeOK, KeyState
<1>3. ASSUME NEW t \in App, app[t].pc = "guard"
      PROVE  app[t].lastKCM = TooLate
  BY <1>1, <1>3 DEF SafeInv, GuardInv, Asleep
<1>4. ArgsOK' /\ StampInv' /\ GuardInv'
  BY <1>1, <1>3 DEF SafeInv, ArgsOK, StampInv, GuardInv, Switching
<1>5. SwitchInv'
  BY <1>1 DEF SafeInv, SwitchInv, ChangeInv, Changing, Switching
<1>6. ChangeInv'
  <2>1. sent # None => sent.age \in Nat
    BY Fields, Numbers DEF SafeInv
  <2> QED
    BY <1>1, <1>3, <2>1 DEF SafeInv, ChangeInv, Changing, Switching
<1>7. WindowInv'
  <2>1. kcm.age \in Nat
    BY Fields DEF SafeInv
  <2> QED
    BY <1>1, <2>1, Numbers DEF SafeInv, WindowInv, Window, Switching
<1>8. ViewInv'
  BY <1>1 DEF SafeInv, ViewInv, Switching
<1> QED
  BY <1>2, <1>4, <1>5, <1>6, <1>7, <1>8 DEF SafeInv

\* The list is validated, and the thread sleeps again.
LEMMA KeysValidateStep ==
    ASSUME SafeInv, KeysValidate \/ KeysSleep
    PROVE  SafeInv'
<1>1. /\ UNCHANGED <<freq, connFreq, radio, csa, kcm, sent, lastKCM, app, disturbed>>
      /\ sent = None /\ keys' \in KeyState
      /\ keys.pc \in {"validate", "validating"}
      /\ \/ keys'.pc = "validating"
         \/ keys'.pc = "sleep" /\ keys'.age = 0
  <2>1. CASE KeysValidate
    BY <2>1, KeysAtStep DEF KeysValidate, SafeInv
  <2>2. CASE KeysSleep
    BY <2>2, Numbers DEF KeysSleep, KeyState, SafeInv, ChangeInv
  <2> QED
    BY <2>1, <2>2
<1>2. TypeOK'
  BY <1>1 DEF SafeInv, TypeOK, KeyState
<1>3. \A limit \in Nat : Asleep(limit)'
  BY <1>1 DEF Asleep
<1>4. ArgsOK' /\ StampInv'
  BY <1>1, Fields, Numbers DEF SafeInv, ArgsOK, StampInv, Switching
<1>5. GuardInv' /\ SwitchInv'
  <2>1. ASSUME NEW t \in App
        PROVE  app[t].lastKCM \in Nat /\ app[t].lastKCM + app[t].age \in Nat
    BY AppFields, Numbers DEF SafeInv
  <2>2. csa # None => TooLate - 1 + Slow + csa.age \in Nat
    BY Fields, Numbers DEF SafeInv
  <2>3. GuardInv'
    BY <1>1, <1>3, <2>1 DEF GuardInv
  <2>4. SwitchInv'
    BY <1>1, <1>3, <2>1, <2>2 DEF SafeInv, SwitchInv, Switching
  <2> QED
    BY <2>3, <2>4
<1>6. ChangeInv'
  BY <1>1 DEF SafeInv, ChangeInv, Changing, Switching
<1>7. WindowInv'
  BY <1>1 DEF SafeInv, WindowInv, Window, Switching
<1>8. ViewInv'
  BY <1>1 DEF SafeInv, ViewInv, Switching
<1> QED
  BY <1>2, <1>4, <1>5, <1>6, <1>7, <1>8 DEF SafeInv

\* The kcm is published: the radio is where it says.
LEMMA PublishStep ==
    ASSUME SafeInv, Publish
    PROVE  SafeInv'
<1>1. /\ UNCHANGED <<freq, connFreq, radio, csa, keys, lastKCM, app, disturbed>>
      /\ sent # None /\ sent' = None
      /\ kcm' = [freq |-> sent.freq, age |-> 0]
  BY DEF Publish
<1>2. /\ csa = None /\ (\A t \in App : ~Switching(t)) /\ sent.freq = freq
      /\ sent.age \in 0..Slow /\ keys.pc \in {"stamp", "validate"} /\ freq \in Freq
  BY <1>1, Fields DEF SafeInv, ChangeInv, Changing, TypeOK
<1>3. kcm' \in [freq : Freq, age : 0..Over] /\ kcm'.freq = freq /\ kcm'.age = 0
  BY <1>1, <1>2, Numbers
<1>4. TypeOK'
  BY <1>1, <1>3 DEF SafeInv, TypeOK
<1>5. ArgsOK' /\ StampInv' /\ GuardInv'
  BY <1>1 DEF SafeInv, ArgsOK, StampInv, GuardInv, Asleep, Switching
<1>6. SwitchInv'
  BY <1>1 DEF SafeInv, SwitchInv, Asleep, Switching
<1>7. ChangeInv'
  BY <1>1, <1>2 DEF SafeInv, ChangeInv, Changing, Switching
<1>8. WindowInv'
  <2>1. keys.pc # "stamp" => lastKCM <= Slow
    BY <1>1, <1>2, Fields, Numbers DEF SafeInv, ChangeInv
  <2>2. ASSUME NEW t \in App, app[t].pc = "guard"
        PROVE  app[t].lastKCM = TooLate \/ app[t].lastKCM <= Slow
    <3>1. app[t].lastKCM \in Nat
      BY AppFields, Numbers DEF SafeInv
    <3> QED
      BY <1>1, <1>2, <2>2, <3>1, Numbers DEF SafeInv, ChangeInv, GuardInv, Asleep
  <2>3. ~disturbed => radio = freq
    BY <1>2 DEF SafeInv, ViewInv, Switching
  <2> QED
    BY <1>1, <1>2, <1>3, <2>1, <2>2, <2>3, Numbers DEF WindowInv, Switching
<1>9. ViewInv'
  BY <1>1 DEF SafeInv, ViewInv, Switching
<1> QED
  BY <1>4, <1>5, <1>6, <1>7, <1>8, <1>9 DEF SafeInv

\* The radio moves: no neighbour scans, and no key change is under way.
LEMMA SwitchRadioStep ==
    ASSUME SafeInv, SwitchRadio
    PROVE  SafeInv'
<1>1. /\ UNCHANGED <<freq, connFreq, keys, kcm, sent, lastKCM, app, disturbed>>
      /\ csa # None /\ csa' = None /\ radio' = csa.freq /\ csa.freq \in Freq
  BY Fields DEF SwitchRadio, SafeInv
<1>2. TypeOK'
  BY <1>1 DEF SafeInv, TypeOK
<1>3. ArgsOK' /\ StampInv' /\ GuardInv'
  BY <1>1 DEF SafeInv, ArgsOK, StampInv, GuardInv, Asleep, Switching
<1>4. SwitchInv'
  BY <1>1 DEF SafeInv, SwitchInv, Asleep, Switching
<1>5. ChangeInv'
  BY <1>1 DEF SafeInv, ChangeInv, Changing, Switching
<1>6. WindowInv'
  BY <1>1 DEF SafeInv, WindowInv, Window
<1>7. ViewInv'
  BY <1>1 DEF SafeInv, ViewInv, Switching
<1> QED
  BY <1>2, <1>3, <1>4, <1>5, <1>6, <1>7 DEF SafeInv

-----------------------------------------------------------------------------
(* The calls of setChannel                                                 *)

\* A thread moves, and the others do not.
LEMMA AppSet ==
    ASSUME TypeOK, NEW t \in App, NEW r \in AppState, app' = [app EXCEPT ![t] = r]
    PROVE  /\ app' \in [App -> AppState] /\ app'[t] = r
           /\ \A u \in App : u # t => app'[u] = app[u]
BY Fields

\* The same when only its place changes.
LEMMA AppAtStep ==
    ASSUME TypeOK, NEW t \in App, NEW from, NEW to \in Label, AppAt(t, from, to)
    PROVE  /\ app[t].pc = from /\ app' \in [App -> AppState]
           /\ app'[t].pc = to /\ app'[t].freq = app[t].freq
           /\ app'[t].lastKCM = app[t].lastKCM /\ app'[t].freqOld = app[t].freqOld
           /\ app'[t].ret = app[t].ret /\ app'[t].age = app[t].age
           /\ \A u \in App : u # t => app'[u] = app[u]
<1>1. app \in [App -> AppState]
  BY Fields
<1>2. app[t] \in AppState
  BY <1>1
<1> DEFINE r == [app[t] EXCEPT !.pc = to]
<1>3. /\ r \in AppState /\ r.pc = to /\ r.freq = app[t].freq
      /\ r.lastKCM = app[t].lastKCM /\ r.freqOld = app[t].freqOld
      /\ r.ret = app[t].ret /\ r.age = app[t].age
  BY <1>2 DEF AppState
<1>4. app' = [app EXCEPT ![t] = r] /\ app[t].pc = from
  BY DEF AppAt
<1> HIDE DEF r
<1> QED
  BY <1>3, <1>4, AppSet

\* A thread that is before its guard loop, and stays there, disturbs nothing.
LEMMA WaitingStep ==
    ASSUME SafeInv, NEW t \in App, app' \in [App -> AppState],
           app[t].pc # "guard", ~Switching(t),
           app'[t].pc # "guard", ~Switching(t)',
           app'[t].pc # "home" => app'[t].freq \in Freq,
           \A u \in App : u # t => app'[u] = app[u],
           UNCHANGED <<freq, connFreq, radio, csa, keys, kcm, sent, lastKCM, disturbed>>
    PROVE  SafeInv'
<1>1. \A u \in App : Switching(u)' => Switching(u) /\ app'[u] = app[u]
  BY DEF Switching
<1>2. \A u \in App : app'[u].pc = "guard" => app'[u] = app[u]
  OBVIOUS
<1>3. \A u \in App : Switching(u) => Switching(u)'
  BY DEF Switching
<1>4. TypeOK'
  BY DEF SafeInv, TypeOK, AppState, Label
<1>5. ArgsOK'
  BY <1>1, <1>2 DEF SafeInv, ArgsOK
<1>6. StampInv' /\ GuardInv'
  BY <1>2 DEF SafeInv, StampInv, GuardInv, Asleep
<1>7. SwitchInv'
  BY <1>1 DEF SafeInv, SwitchInv, Asleep
<1>8. ChangeInv'
  BY <1>1, <1>2 DEF SafeInv, ChangeInv, Changing
<1>9. WindowInv'
  BY <1>1, <1>2 DEF SafeInv, WindowInv, Window
<1>10. ViewInv'
  <2>1. \A u \in App : app[u].pc = "finish" => app'[u].pc = "finish"
    BY DEF Switching
  <2>2. \A u \in App : app'[u].pc \in {"finish", "assign"} => app'[u] = app[u]
    BY <1>1 DEF Switching
  <2> QED
    BY <1>1, <2>1, <2>2 DEF SafeInv, ViewInv
<1> QED
  BY <1>4, <1>5, <1>6, <1>7, <1>8, <1>9, <1>10 DEF SafeInv

\* A call.
LEMMA CallFields ==
    ASSUME NEW c \in AppState, NEW f, NEW d, d = [c EXCEPT !.pc = "keys", !.freq = f]
    PROVE  d = [pc |-> "keys", freq |-> f, lastKCM |-> c.lastKCM,
                freqOld |-> c.freqOld, ret |-> c.ret, age |-> c.age]
BY DEF AppState

\* An application calls setChannel.
LEMMA SetChannelStep ==
    ASSUME SafeInv, NEW t \in App, NEW f \in Freq, setChannel(t, f)
    PROVE  SafeInv'
<1> DEFINE r == [pc |-> "keys", freq |-> f, lastKCM |-> 0, freqOld |-> 0,
                 ret |-> "none", age |-> 0]
<1>1. app' = [app EXCEPT ![t] = r]
  <2>1. Idle \in AppState
    BY Numbers DEF Idle, AppState, Label
  <2>2. [Idle EXCEPT !.pc = "keys", !.freq = f]
          = [pc |-> "keys", freq |-> f, lastKCM |-> Idle.lastKCM,
             freqOld |-> Idle.freqOld, ret |-> Idle.ret, age |-> Idle.age]
    BY <2>1, CallFields, Zenon
  <2>3. r = [Idle EXCEPT !.pc = "keys", !.freq = f]
    BY <2>2 DEF Idle
  <2> QED
    BY <2>3, Zenon DEF setChannel
<1>2. r \in AppState /\ r.pc = "keys" /\ r.freq = f
  BY Numbers DEF AppState, Label
<1> HIDE DEF r
<1>3. /\ app' \in [App -> AppState] /\ app'[t] = r
      /\ \A u \in App : u # t => app'[u] = app[u]
  BY <1>1, <1>2, AppSet DEF SafeInv
<1> QED
  BY <1>2, <1>3, WaitingStep DEF setChannel, Switching

\* The waits.
LEMMA AppWaitStep ==
    ASSUME SafeInv, NEW t \in App, AppWait(t)
    PROVE  SafeInv'
<1>1. PICK from \in {"keys", "ctrl", "update"}, to \in {"ctrl", "update", "run"} :
        AppAt(t, from, to)
  BY DEF AppWait
<1>2. to \in Label
  BY DEF Label
<1>3. /\ app[t].pc = from /\ app' \in [App -> AppState]
      /\ app'[t].pc = to /\ app'[t].freq = app[t].freq
      /\ \A u \in App : u # t => app'[u] = app[u]
  BY <1>1, <1>2, AppAtStep DEF SafeInv
<1>4. app[t].freq \in Freq
  BY <1>3 DEF SafeInv, ArgsOK
<1>5. UNCHANGED <<freq, connFreq, radio, csa, keys, kcm, sent, lastKCM, disturbed>>
  BY DEF AppWait
<1>6. ~Switching(t) /\ ~Switching(t)' /\ app[t].pc # "guard" /\ app'[t].pc # "guard"
  BY <1>3 DEF Switching
<1> QED
  BY <1>3, <1>4, <1>5, <1>6, WaitingStep

\* The guard loop gets its arguments.
LEMMA RunFields ==
    ASSUME NEW c \in AppState, NEW x, NEW f, NEW d,
           d = [c EXCEPT !.pc = "guard", !.lastKCM = x, !.freqOld = f]
    PROVE  d = [pc |-> "guard", freq |-> c.freq, lastKCM |-> x,
                freqOld |-> f, ret |-> c.ret, age |-> c.age]
BY DEF AppState

\* The guard takes its arguments.
LEMMA AppRunStep ==
    ASSUME SafeInv, NEW t \in App, AppRun(t)
    PROVE  SafeInv'
<1> DEFINE r == [pc |-> "guard", freq |-> app[t].freq, lastKCM |-> lastKCM,
                 freqOld |-> freq, ret |-> app[t].ret, age |-> app[t].age]
<1>1. /\ app[t].pc = "run" /\ app[t] \in AppState
      /\ UNCHANGED <<freq, connFreq, radio, csa, keys, kcm, sent, lastKCM, disturbed>>
  BY AppFields DEF AppRun, SafeInv
<1>2. app' = [app EXCEPT ![t] = r]
  <2>1. app' = [app EXCEPT ![t] = [app[t] EXCEPT !.pc = "guard", !.lastKCM = lastKCM,
                                                 !.freqOld = freq]]
    BY DEF AppRun
  <2>2. [app[t] EXCEPT !.pc = "guard", !.lastKCM = lastKCM, !.freqOld = freq] = r
    BY <1>1, RunFields, Zenon
  <2> QED
    BY <2>1, <2>2, Zenon
<1>3. /\ r \in AppState /\ r.pc = "guard" /\ r.freq = app[t].freq
      /\ r.lastKCM = lastKCM /\ r.freqOld = freq
  BY <1>1, Fields DEF SafeInv, AppState, Label, TypeOK
<1> HIDE DEF r
<1>4. /\ app' \in [App -> AppState] /\ app'[t] = r
      /\ \A u \in App : u # t => app'[u] = app[u]
  BY <1>2, <1>3, AppSet DEF SafeInv
<1>5. \A u \in App : Switching(u)' <=> Switching(u)
  BY <1>1, <1>3, <1>4 DEF Switching
<1>6. \A u \in App : Switching(u)' => app'[u] = app[u]
  BY <1>3, <1>4 DEF Switching
<1>7. \A u \in App : app'[u].pc = "guard" /\ u # t => app'[u] = app[u]
  BY <1>4
<1>8. TypeOK'
  BY <1>1, <1>4 DEF SafeInv, TypeOK, AppState, Label
<1>9. ArgsOK'
  <2>1. app[t].freq \in Freq /\ freq \in Freq
    BY <1>1 DEF SafeInv, ArgsOK, TypeOK
  <2> QED
    BY <1>1, <1>3, <1>4, <1>5, <2>1 DEF SafeInv, ArgsOK
<1>10. StampInv'
  BY <1>1 DEF SafeInv, StampInv
<1>11. lastKCM = TooLate \/ Asleep(lastKCM)
  BY Fields DEF SafeInv, StampInv, Asleep
<1>12. GuardInv'
  BY <1>1, <1>3, <1>4, <1>11 DEF SafeInv, GuardInv, Asleep
<1>13. SwitchInv'
  BY <1>1, <1>5, <1>6 DEF SafeInv, SwitchInv, Asleep
<1>14. ChangeInv'
  BY <1>1, <1>3, <1>4, <1>5 DEF SafeInv, ChangeInv, Changing
<1>15. WindowInv'
  BY <1>1, <1>3, <1>4, <1>5 DEF SafeInv, WindowInv, Window, StampInv
<1>16. ViewInv'
  <2>1. \A u \in App : app[u].pc \in {"finish", "assign"} => app'[u] = app[u]
    BY <1>1, <1>4
  <2>2. \A u \in App : app'[u].pc \in {"finish", "assign"} => app'[u] = app[u]
    BY <1>3, <1>4
  <2>3. ~disturbed => \A u, v \in App : Switching(u)' /\ Switching(v)' => u = v
    BY <1>5 DEF SafeInv, ViewInv
  <2>4. (\A u \in App : app'[u].pc # "finish") => \A u \in App : app[u].pc # "finish"
    BY <2>1
  <2>5. ~disturbed /\ (\A u \in App : app'[u].pc # "finish") => freq = connFreq
    BY <2>4 DEF SafeInv, ViewInv
  <2>6. ASSUME NEW u \in App, ~disturbed, app'[u].pc \in {"finish", "assign"}
        PROVE  app'[u].freq = connFreq /\ (app'[u].pc = "finish" => app'[u].ret = "OK")
    BY <2>2, <2>6 DEF SafeInv, ViewInv
  <2>7. connFreq = IF csa = None THEN radio ELSE csa.freq
    BY DEF SafeInv, ViewInv
  <2> QED
    BY <1>1, <2>3, <2>5, <2>6, <2>7 DEF ViewInv
<1> QED
  BY <1>8, <1>9, <1>10, <1>12, <1>13, <1>14, <1>15, <1>16 DEF SafeInv

\* The loop ends early enough before the next key change, and late enough
\* after the last one.
LEMMA GuardedLate ==
    ASSUME SafeInv, NEW t \in App, app[t].pc = "guard", Guarded(t)
    PROVE  /\ Asleep(app[t].lastKCM) /\ app[t].lastKCM < TooLate
           /\ ~Changing /\ ~Window
<1>1. app[t].lastKCM \in Nat /\ kcm.age \in Nat /\ (sent # None => sent.age \in 0..Slow)
  BY AppFields, Fields, Numbers DEF SafeInv
<1>2. app[t].lastKCM < TooLate /\ app[t].lastKCM > CHANNEL_SWITCH_GUARD
  BY DEF Guarded
<1>3. app[t].lastKCM # TooLate
  BY <1>1, <1>2, Numbers
<1>4. Asleep(app[t].lastKCM)
  BY <1>3 DEF SafeInv, GuardInv
<1>5. ~Changing
  BY <1>1, <1>2, <1>3, <1>4, Numbers DEF SafeInv, ChangeInv, Changing, Asleep
<1>6. ~Window
  BY <1>1, <1>2, <1>3, Numbers DEF SafeInv, WindowInv, Window
<1> QED
  BY <1>2, <1>4, <1>5, <1>6

\* Outside of key changes and scans a step of a switching thread can only
\* disturb its own clock, the announcement and the views.
LEMMA OwnStep ==
    ASSUME SafeInv, NEW t \in App, app' \in [App -> AppState],
           \A u \in App : u # t => app'[u] = app[u],
           UNCHANGED <<keys, kcm, sent, lastKCM>>,
           ~Changing, ~Window, app'[t].pc # "guard",
           app'[t].pc # "home" => app'[t].freq \in Freq /\ app'[t].freqOld \in Freq,
           Switching(t)' => /\ app'[t].lastKCM < TooLate
                            /\ Asleep(app'[t].lastKCM + app'[t].age),
           csa' # None => Asleep(TooLate - 1 + Slow + csa'.age)
    PROVE  ArgsOK' /\ StampInv' /\ GuardInv' /\ SwitchInv' /\ ChangeInv' /\ WindowInv'
<1>1. ~Changing' /\ ~Window' /\ sent' = None /\ keys.pc \notin {"rotate", "send"}
  BY DEF Changing, Window
<1>2. \A u \in App : u # t => (Switching(u)' <=> Switching(u))
  BY DEF Switching
<1>3. ArgsOK'
  <2>1. ASSUME NEW u \in App, u # t
        PROVE  /\ app'[u].pc # "home" => app'[u].freq \in Freq
               /\ app'[u].pc \in {"guard"} \/ Switching(u)' => app'[u].freqOld \in Freq
    BY <1>2, <2>1 DEF SafeInv, ArgsOK
  <2>2. /\ app'[t].pc # "home" => app'[t].freq \in Freq
        /\ app'[t].pc \in {"guard"} \/ Switching(t)' => app'[t].freqOld \in Freq
    BY DEF Switching
  <2> QED
    BY <2>1, <2>2 DEF ArgsOK
<1>4. StampInv'
  BY DEF SafeInv, StampInv
<1>5. GuardInv'
  BY DEF SafeInv, GuardInv, Asleep
<1>6. SwitchInv'
  <2>1. ASSUME NEW u \in App, Switching(u)'
        PROVE  app'[u].lastKCM < TooLate /\ Asleep(app'[u].lastKCM + app'[u].age)
    BY <1>2, <2>1 DEF SafeInv, SwitchInv
  <2> QED
    BY <2>1 DEF SwitchInv, Asleep
<1>7. ChangeInv'
  BY <1>1 DEF ChangeInv
<1>8. WindowInv'
  BY <1>1 DEF WindowInv
<1> QED
  BY <1>3, <1>4, <1>5, <1>6, <1>7, <1>8

\* Who switches, does so apart from key changes and scans.
LEMMA SwitchingApart ==
    ASSUME SafeInv, NEW t \in App, Switching(t)
    PROVE  /\ ~Changing /\ ~Window /\ app[t].freq \in Freq /\ app[t].freqOld \in Freq
           /\ app[t].lastKCM < TooLate /\ Asleep(app[t].lastKCM + app[t].age)
<1>1. ~Changing /\ ~Window
  BY DEF SafeInv, ChangeInv, WindowInv
<1>2. app[t].freq \in Freq /\ app[t].freqOld \in Freq
  BY DEF SafeInv, ArgsOK, Switching
<1> QED
  BY <1>1, <1>2 DEF SafeInv, SwitchInv

\* The switch begins.
LEMMA AppGuardStep ==
    ASSUME SafeInv, NEW t \in App, AppGuard(t)
    PROVE  SafeInv'
<1>1. /\ UNCHANGED <<freq, connFreq, radio, csa, keys, kcm, sent, lastKCM>>
      /\ Guarded(t) /\ app[t].pc = "guard" /\ app' \in [App -> AppState]
      /\ app'[t].pc = "command" /\ app'[t].freq = app[t].freq
      /\ app'[t].lastKCM = app[t].lastKCM /\ app'[t].freqOld = app[t].freqOld
      /\ app'[t].age = app[t].age
      /\ \A u \in App : u # t => app'[u] = app[u]
  <2>1. AppAt(t, "guard", "command") /\ "command" \in Label
    BY DEF AppGuard, Label
  <2> QED
    BY <2>1, AppAtStep DEF AppGuard, SafeInv
<1>2. disturbed' \in BOOLEAN /\ (~disturbed' => ~disturbed /\ \A u \in App : Switching(u) => u = t)
  <2>1. disturbed' = (disturbed \/ \E u \in App \ {t} : Switching(u))
    BY DEF AppGuard
  <2> QED
    BY <2>1, Zenon DEF SafeInv, TypeOK
<1>3. /\ Asleep(app[t].lastKCM) /\ app[t].lastKCM < TooLate
      /\ ~Changing /\ ~Window
  BY <1>1, GuardedLate
<1>4. Asleep(app[t].lastKCM + app[t].age)
  <2>1. app[t].lastKCM \in Nat /\ app[t].age \in Nat /\ keys.age \in Nat
    BY AppFields, Fields, Numbers DEF SafeInv
  <2> QED
    BY <1>3, <2>1 DEF Asleep
<1>5. app[t].freq \in Freq /\ app[t].freqOld \in Freq
  BY <1>1 DEF SafeInv, ArgsOK
<1>6. csa # None => Asleep(TooLate - 1 + Slow + csa.age)
  BY DEF SafeInv, SwitchInv
<1>7. ArgsOK' /\ StampInv' /\ GuardInv' /\ SwitchInv' /\ ChangeInv' /\ WindowInv'
  BY <1>1, <1>3, <1>4, <1>5, <1>6, OwnStep
<1>8. TypeOK'
  BY <1>1, <1>2 DEF SafeInv, TypeOK, AppState, Label
<1>9. ViewInv'
  <2>1. connFreq' = IF csa' = None THEN radio' ELSE csa'.freq
    BY <1>1 DEF SafeInv, ViewInv
  <2>2. ASSUME ~disturbed', NEW u \in App, NEW v \in App, Switching(u)', Switching(v)'
        PROVE  u = v
    BY <1>1, <1>2, <2>2 DEF Switching
  <2>3. \A u \in App : app'[u].pc \in {"finish", "assign"} => app'[u] = app[u]
    BY <1>1
  <2>4. \A u \in App : app[u].pc = "finish" => app'[u].pc = "finish"
    BY <1>1
  <2>5. ASSUME ~disturbed', \A u \in App : app'[u].pc # "finish"
        PROVE  freq' = connFreq'
    BY <1>1, <1>2, <2>4, <2>5 DEF SafeInv, ViewInv
  <2>6. ASSUME NEW u \in App, ~disturbed', app'[u].pc \in {"finish", "assign"}
        PROVE  app'[u].freq = connFreq' /\ (app'[u].pc = "finish" => app'[u].ret = "OK")
    BY <1>1, <1>2, <2>3, <2>6 DEF SafeInv, ViewInv
  <2> QED
    BY <2>1, <2>2, <2>5, <2>6 DEF ViewInv
<1> QED
  BY <1>7, <1>8, <1>9 DEF SafeInv

\* hostapd answers the command.
LEMMA CommandFields ==
    ASSUME NEW c \in AppState, NEW x, NEW d, d = [c EXCEPT !.pc = "finish", !.ret = x]
    PROVE  d = [pc |-> "finish", freq |-> c.freq, lastKCM |-> c.lastKCM,
                freqOld |-> c.freqOld, ret |-> x, age |-> c.age]
BY DEF AppState

\* The guard lets the call pass, and hostapd is told.
LEMMA CommandStep ==
    ASSUME SafeInv, NEW t \in App, NEW ok \in BOOLEAN, Command(t, ok)
    PROVE  SafeInv'
<1> DEFINE x == IF ok THEN "OK" ELSE "FAIL"
           r == [pc |-> "finish", freq |-> app[t].freq, lastKCM |-> app[t].lastKCM,
                 freqOld |-> app[t].freqOld, ret |-> x, age |-> app[t].age]
<1>1. /\ app[t].pc = "command" /\ app[t] \in AppState
      /\ UNCHANGED <<freq, radio, keys, kcm, sent, lastKCM>>
  BY AppFields DEF Command, SafeInv
<1>2. app' = [app EXCEPT ![t] = r]
  <2>1. app' = [app EXCEPT ![t] = [app[t] EXCEPT !.pc = "finish", !.ret = x]]
    BY DEF Command
  <2>2. [app[t] EXCEPT !.pc = "finish", !.ret = x] = r
    BY <1>1, CommandFields, Zenon
  <2> QED
    BY <2>1, <2>2, Zenon
<1>3. x \in {"none", "OK", "FAIL"} /\ (ok => x = "OK")
  OBVIOUS
<1> HIDE DEF x
<1>4. /\ r \in AppState /\ r.pc = "finish" /\ r.freq = app[t].freq /\ r.ret = x
      /\ r.lastKCM = app[t].lastKCM /\ r.freqOld = app[t].freqOld /\ r.age = app[t].age
  BY <1>1, <1>3 DEF AppState, Label
<1> HIDE DEF r
<1>5. /\ app' \in [App -> AppState] /\ app'[t] = r
      /\ \A u \in App : u # t => app'[u] = app[u]
  BY <1>2, <1>4, AppSet DEF SafeInv
<1>6. Switching(t)
  BY <1>1 DEF Switching
<1>7. /\ ~Changing /\ ~Window /\ app[t].freq \in Freq /\ app[t].freqOld \in Freq
      /\ app[t].lastKCM < TooLate /\ Asleep(app[t].lastKCM + app[t].age)
  BY <1>6, SwitchingApart
<1>8. disturbed' \in BOOLEAN /\ (~disturbed' => ~disturbed /\ ok)
  BY Zenon DEF Command, SafeInv, TypeOK
<1>9. \/ ok /\ connFreq' = app[t].freq /\ csa' = [freq |-> app[t].freq, age |-> 0]
      \/ ~ok /\ UNCHANGED <<connFreq, csa>>
  BY DEF Command
<1>10. \/ csa' = csa /\ connFreq' = connFreq
       \/ /\ csa' \in Travelling /\ csa' # None /\ csa'.freq = app[t].freq
          /\ csa'.age = 0 /\ connFreq' = app[t].freq
  BY <1>7, <1>9, NotNone, Numbers DEF Travelling
<1>11. csa' # None => Asleep(TooLate - 1 + Slow + csa'.age)
  <2>1. app[t].lastKCM \in Nat /\ app[t].age \in 0..Slow /\ keys.age \in Nat
    BY AppFields, Fields, Numbers DEF SafeInv
  <2>2. Asleep(TooLate - 1 + Slow + 0)
    BY <1>7, <2>1, Numbers DEF Asleep
  <2> QED
    BY <1>10, <2>2 DEF SafeInv, SwitchInv
<1>12. ArgsOK' /\ StampInv' /\ GuardInv' /\ SwitchInv' /\ ChangeInv' /\ WindowInv'
  BY <1>1, <1>4, <1>5, <1>7, <1>11, OwnStep
<1>13. TypeOK'
  <2>1. csa' = None \/ csa' \in Travelling
    BY <1>10, Fields DEF SafeInv
  <2>2. connFreq' \in Freq
    BY <1>7, <1>10 DEF SafeInv, TypeOK
  <2> QED
    BY <1>1, <1>5, <1>8, <2>1, <2>2 DEF SafeInv, TypeOK, AppState, Label, Travelling
<1>14. ViewInv'
  <2>1. connFreq' = IF csa' = None THEN radio' ELSE csa'.freq
    BY <1>1, <1>10 DEF SafeInv, ViewInv
  <2>2. ASSUME ~disturbed', NEW u \in App, Switching(u)'
        PROVE  u = t
    <3>1. Switching(u)
      BY <1>5, <1>6, <2>2 DEF Switching
    <3> QED
      BY <1>6, <1>8, <2>2, <3>1 DEF SafeInv, ViewInv
  <2>3. app'[t].pc = "finish"
    BY <1>4, <1>5
  <2>4. ASSUME NEW u \in App, ~disturbed', app'[u].pc \in {"finish", "assign"}
        PROVE  app'[u].freq = connFreq' /\ app'[u].ret = "OK"
    <3>1. u = t
      BY <2>2, <2>4 DEF Switching
    <3> QED
      BY <1>3, <1>4, <1>5, <1>8, <1>9, <2>4, <3>1
  <2> QED
    BY <2>1, <2>2, <2>3, <2>4 DEF ViewInv
<1> QED
  BY <1>12, <1>13, <1>14 DEF SafeInv

\* The agent takes the frequency, or the old one.
LEMMA FinishedStep ==
    ASSUME SafeInv, NEW t \in App, setChannelFinished(t)
    PROVE  SafeInv'
<1>1. /\ UNCHANGED <<connFreq, radio, csa, keys, kcm, sent, lastKCM, disturbed>>
      /\ app[t].pc = "finish" /\ app' \in [App -> AppState]
      /\ app'[t].pc = "assign" /\ app'[t].freq = app[t].freq
      /\ app'[t].lastKCM = app[t].lastKCM /\ app'[t].freqOld = app[t].freqOld
      /\ app'[t].age = app[t].age
      /\ \A u \in App : u # t => app'[u] = app[u]
  <2>1. AppAt(t, "finish", "assign") /\ "assign" \in Label
    BY DEF setChannelFinished, Label
  <2> QED
    BY <2>1, AppAtStep DEF setChannelFinished, SafeInv
<1>2. Switching(t)
  BY <1>1 DEF Switching
<1>3. /\ ~Changing /\ ~Window /\ app[t].freq \in Freq /\ app[t].freqOld \in Freq
      /\ app[t].lastKCM < TooLate /\ Asleep(app[t].lastKCM + app[t].age)
  BY <1>2, SwitchingApart
<1>4. freq' \in Freq /\ (app[t].ret = "OK" => freq' = app[t].freq)
  BY <1>3 DEF setChannelFinished
<1>5. csa # None => Asleep(TooLate - 1 + Slow + csa.age)
  BY DEF SafeInv, SwitchInv
<1>6. ArgsOK' /\ StampInv' /\ GuardInv' /\ SwitchInv' /\ ChangeInv' /\ WindowInv'
  BY <1>1, <1>3, <1>5, OwnStep
<1>7. TypeOK'
  BY <1>1, <1>4 DEF SafeInv, TypeOK, AppState, Label
<1>8. ViewInv'
  <2>1. connFreq' = IF csa' = None THEN radio' ELSE csa'.freq
    BY <1>1 DEF SafeInv, ViewInv
  <2>2. ASSUME ~disturbed', NEW u \in App, Switching(u)'
        PROVE  u = t
    <3>1. Switching(u)
      BY <1>1, <1>2, <2>2 DEF Switching
    <3> QED
      BY <1>1, <1>2, <2>2, <3>1 DEF SafeInv, ViewInv
  <2>3. ~disturbed' => freq' = connFreq' /\ app'[t].freq = connFreq'
    BY <1>1, <1>4 DEF SafeInv, ViewInv
  <2>4. ASSUME NEW u \in App, ~disturbed', app'[u].pc \in {"finish", "assign"}
        PROVE  app'[u].freq = connFreq' /\ app'[u].pc # "finish"
    <3>1. u = t
      BY <2>2, <2>4 DEF Switching
    <3> QED
      BY <1>1, <2>3, <2>4, <3>1
  <2> QED
    BY <2>1, <2>2, <2>3, <2>4 DEF ViewInv
<1> QED
  BY <1>6, <1>7, <1>8 DEF SafeInv

\* setChannel returns.
LEMMA AssignStep ==
    ASSUME SafeInv, NEW t \in App, AppAssign(t)
    PROVE  SafeInv'
<1>1. /\ UNCHANGED <<connFreq, radio, csa, keys, kcm, sent, lastKCM, disturbed>>
      /\ app[t].pc = "assign" /\ freq' = app[t].freq /\ app' = [app EXCEPT ![t] = Idle]
  BY DEF AppAssign
<1>2. Idle \in AppState /\ Idle.pc = "home"
  BY Numbers DEF Idle, AppState, Label
<1>3. /\ app' \in [App -> AppState] /\ app'[t] = Idle
      /\ \A u \in App : u # t => app'[u] = app[u]
  BY <1>1, <1>2, AppSet DEF SafeInv
<1>4. Switching(t) /\ ~Switching(t)' /\ app'[t].pc = "home"
  BY <1>1, <1>2, <1>3 DEF Switching
<1>5. ~Changing /\ ~Window /\ app[t].freq \in Freq
  BY <1>4, SwitchingApart
<1>6. csa # None => Asleep(TooLate - 1 + Slow + csa.age)
  BY DEF SafeInv, SwitchInv
<1>7. ArgsOK' /\ StampInv' /\ GuardInv' /\ SwitchInv' /\ ChangeInv' /\ WindowInv'
  BY <1>1, <1>3, <1>4, <1>5, <1>6, OwnStep
<1>8. TypeOK'
  BY <1>1, <1>3, <1>5 DEF SafeInv, TypeOK, AppState, Label
<1>9. ViewInv'
  <2>1. connFreq' = IF csa' = None THEN radio' ELSE csa'.freq
    BY <1>1 DEF SafeInv, ViewInv
  <2>2. ASSUME ~disturbed', NEW u \in App
        PROVE  ~Switching(u)'
    <3>1. Switching(u)' => Switching(u) /\ u # t
      BY <1>3, <1>4 DEF Switching
    <3> QED
      BY <1>1, <1>4, <2>2, <3>1 DEF SafeInv, ViewInv
  <2>3. ~disturbed' => freq' = connFreq'
    BY <1>1 DEF SafeInv, ViewInv
  <2>4. ASSUME NEW u \in App, ~disturbed'
        PROVE  app'[u].pc \notin {"finish", "assign"}
    BY <2>2, <2>4 DEF Switching
  <2> QED
    BY <2>1, <2>2, <2>3, <2>4 DEF ViewInv
<1> QED
  BY <1>7, <1>8, <1>9 DEF SafeInv

-----------------------------------------------------------------------------
(* Time                                                                    *)

\* An age that stops counting.
LEMMA OlderAge ==
    ASSUME NEW end \in Nat, NEW age \in 0..end
    PROVE  /\ Older(age, end) \in 0..end /\ Older(age, end) <= age + 1
           /\ age <= Older(age, end)
           /\ Older(age, end) = end \/ Older(age, end) = age + 1
BY DEF Older

\* A command or a message that is not due.
LEMMA TravelTick ==
    ASSUME NEW m, m = None \/ m \in Travelling, m # None => m.age # Slow,
           NEW n, n = IF m = None THEN m ELSE [m EXCEPT !.age = @ + 1]
    PROVE  /\ n = None \/ n \in Travelling
           /\ n = None <=> m = None
           /\ m # None => n.freq = m.freq /\ n.age = m.age + 1
<1>1. CASE m = None
  BY <1>1
<1>2. CASE m # None
  <2>1. m \in Travelling /\ m.age \in 0..Slow /\ m.age # Slow /\ m.freq \in Freq
    BY <1>2 DEF Travelling
  <2>2. n \in Travelling /\ n.freq = m.freq /\ n.age = m.age + 1
    BY <1>2, <2>1, Numbers DEF Travelling
  <2>3. n # None
    BY <2>1, <2>2, Numbers DEF None
  <2> QED
    BY <1>2, <2>2, <2>3
<1> QED
  BY <1>1, <1>2

\* A thread gets older in its guard loop, or while it switches.
LEMMA AppTick ==
    ASSUME TypeOK, Tick, NEW t \in App
    PROVE  /\ app'[t] \in AppState
           /\ app'[t].pc = app[t].pc /\ app'[t].freq = app[t].freq
           /\ app'[t].freqOld = app[t].freqOld /\ app'[t].ret = app[t].ret
           /\ app[t].pc = "guard" => app'[t].lastKCM = Older(app[t].lastKCM, TooLate)
           /\ Switching(t) => /\ app'[t].lastKCM = app[t].lastKCM
                              /\ app'[t].age = app[t].age + 1
<1>1. /\ app[t] \in AppState /\ app[t].lastKCM \in 0..TooLate /\ app[t].age \in 0..Slow
      /\ TooLate \in Nat /\ Slow \in Nat
  BY AppFields, Numbers
<1>2. app'[t] = CASE app[t].pc = "guard" ->
                        [app[t] EXCEPT !.lastKCM = Older(@, TooLate)]
                   [] Switching(t) -> [app[t] EXCEPT !.age = @ + 1]
                   [] OTHER -> app[t]
  BY DEF Tick
<1>3. CASE app[t].pc = "guard"
  <2>1. ~Switching(t)
    BY <1>3 DEF Switching
  <2>2. app'[t] = [app[t] EXCEPT !.lastKCM = Older(app[t].lastKCM, TooLate)]
    BY <1>2, <1>3, <2>1
  <2>3. Older(app[t].lastKCM, TooLate) \in 0..TooLate
    BY <1>1, OlderAge
  <2> QED
    BY <1>1, <1>3, <2>1, <2>2, <2>3 DEF AppState
<1>4. CASE Switching(t)
  <2>1. app[t].pc # "guard"
    BY <1>4 DEF Switching
  <2>2. app'[t] = [app[t] EXCEPT !.age = app[t].age + 1]
    BY <1>2, <1>4, <2>1
  <2>3. app[t].age + 1 \in 0..Slow
    BY <1>1, <1>4, SMTT(30) DEF Tick, Due
  <2> QED
    BY <1>1, <2>1, <2>2, <2>3 DEF AppState
<1>5. CASE app[t].pc # "guard" /\ ~Switching(t)
  BY <1>1, <1>2, <1>5
<1> QED
  BY <1>3, <1>4, <1>5

\* The sleep and the publication get older.
LEMMA KeysTick ==
    ASSUME TypeOK, Tick
    PROVE  /\ keys' \in KeyState /\ keys'.pc = keys.pc /\ keys'.freq = keys.freq
           /\ keys'.age <= keys.age + 1 /\ keys'.age \in Nat
           /\ kcm' \in [freq : Freq, age : 0..Over] /\ kcm'.freq = kcm.freq
           /\ kcm'.age = Older(kcm.age, Over)
<1>1. /\ keys \in KeyState /\ keys.age \in 0..KEYCHANGEINTERVAL
      /\ kcm \in [freq : Freq, age : 0..Over] /\ kcm.age \in 0..Over
  BY Fields DEF TypeOK
<1>2. /\ Older(keys.age, KEYCHANGEINTERVAL) \in 0..KEYCHANGEINTERVAL
      /\ Older(keys.age, KEYCHANGEINTERVAL) <= keys.age + 1
      /\ Older(kcm.age, Over) \in 0..Over
  BY <1>1, OlderAge, Numbers
<1>3. /\ keys' = [keys EXCEPT !.age = Older(keys.age, KEYCHANGEINTERVAL)] \/ keys' = keys
      /\ kcm' = [kcm EXCEPT !.age = Older(kcm.age, Over)]
  BY DEF Tick
<1>4. keys' \in KeyState /\ keys'.pc = keys.pc /\ keys'.freq = keys.freq
      /\ (keys'.age = Older(keys.age, KEYCHANGEINTERVAL) \/ keys'.age = keys.age)
  BY <1>1, <1>2, <1>3 DEF KeyState
<1>5. keys'.age <= keys.age + 1 /\ keys'.age \in Nat
  BY <1>1, <1>2, <1>4
<1>6. /\ kcm' \in [freq : Freq, age : 0..Over] /\ kcm'.freq = kcm.freq
      /\ kcm'.age = Older(kcm.age, Over)
  BY <1>1, <1>2, <1>3
<1> QED
  BY <1>4, <1>5, <1>6

\* A tick: what is compared gets older together.
LEMMA TickStep ==
    ASSUME SafeInv, Tick
    PROVE  SafeInv'
<1>1. TypeOK /\ UNCHANGED <<freq, connFreq, radio, disturbed>>
  BY DEF SafeInv, Tick
<1>2. /\ csa' = None \/ csa' \in Travelling
      /\ csa' = None <=> csa = None
      /\ csa # None => csa'.freq = csa.freq /\ csa'.age = csa.age + 1
  <2>1. /\ csa = None \/ csa \in Travelling
        /\ csa # None => csa.age # Slow
        /\ csa' = IF csa = None THEN csa ELSE [csa EXCEPT !.age = @ + 1]
    BY <1>1, Fields DEF Tick, Due
  <2> QED
    BY <2>1, TravelTick
<1>3. /\ sent' = None \/ sent' \in Travelling
      /\ sent' = None <=> sent = None
      /\ sent # None => sent'.freq = sent.freq /\ sent'.age = sent.age + 1
  <2>1. /\ sent = None \/ sent \in Travelling
        /\ sent # None => sent.age # Slow
        /\ sent' = IF sent = None THEN sent ELSE [sent EXCEPT !.age = @ + 1]
    BY <1>1, Fields DEF Tick, Due
  <2> QED
    BY <2>1, TravelTick
<1>4. /\ keys' \in KeyState /\ keys'.pc = keys.pc /\ keys'.freq = keys.freq
      /\ keys'.age <= keys.age + 1 /\ keys'.age \in Nat
      /\ kcm' \in [freq : Freq, age : 0..Over] /\ kcm'.freq = kcm.freq
      /\ kcm'.age = Older(kcm.age, Over)
  BY <1>1, KeysTick
<1>5. /\ lastKCM' \in 0..TooLate /\ lastKCM' <= lastKCM + 1
      /\ lastKCM' = TooLate \/ lastKCM' = lastKCM + 1
      /\ lastKCM = TooLate => lastKCM' = TooLate
  <2>1. lastKCM' = Older(lastKCM, TooLate) /\ lastKCM \in 0..TooLate /\ TooLate \in Nat
    BY <1>1, Fields, Numbers DEF Tick
  <2> QED
    BY <2>1 DEF Older
<1>6. ASSUME NEW t \in App
      PROVE  /\ app'[t] \in AppState
             /\ app'[t].pc = app[t].pc /\ app'[t].freq = app[t].freq
             /\ app'[t].freqOld = app[t].freqOld /\ app'[t].ret = app[t].ret
             /\ Switching(t)' <=> Switching(t)
             /\ app[t].pc = "guard" =>
                  /\ app[t].lastKCM = TooLate => app'[t].lastKCM = TooLate
                  /\ app'[t].lastKCM = TooLate \/ app'[t].lastKCM = app[t].lastKCM + 1
             /\ Switching(t) => /\ app'[t].lastKCM = app[t].lastKCM
                                /\ app'[t].age = app[t].age + 1
             /\ app[t].lastKCM \in 0..TooLate /\ app[t].age \in 0..Slow
  <2>1. /\ app'[t] \in AppState
        /\ app'[t].pc = app[t].pc /\ app'[t].freq = app[t].freq
        /\ app'[t].freqOld = app[t].freqOld /\ app'[t].ret = app[t].ret
        /\ app[t].pc = "guard" => app'[t].lastKCM = Older(app[t].lastKCM, TooLate)
        /\ Switching(t) => /\ app'[t].lastKCM = app[t].lastKCM
                           /\ app'[t].age = app[t].age + 1
    BY <1>1, AppTick
  <2>2. app[t].lastKCM \in 0..TooLate /\ app[t].age \in 0..Slow
    BY <1>1, AppFields
  <2>3. /\ app[t].lastKCM = TooLate => Older(app[t].lastKCM, TooLate) = TooLate
        /\ \/ Older(app[t].lastKCM, TooLate) = TooLate
           \/ Older(app[t].lastKCM, TooLate) = app[t].lastKCM + 1
    BY <2>2, Numbers DEF Older
  <2>4. Switching(t)' <=> Switching(t)
    BY <2>1 DEF Switching
  <2> QED
    BY <2>1, <2>2, <2>3, <2>4
<1>7. ASSUME NEW limit \in Nat, Asleep(limit)
      PROVE  \/ keys'.pc \in {"validate", "validating"}
             \/ keys'.pc = "sleep" /\ keys'.age <= limit + 1
  <2>1. keys.age \in Nat
    BY <1>1, Fields
  <2> QED
    BY <1>4, <1>7, <2>1 DEF Asleep
<1>8. TypeOK'
  <2>1. app' \in [App -> AppState]
    <3>1. app' = [t \in App |-> app'[t]]
      BY DEF Tick
    <3> QED
      BY <1>6, <3>1
  <2> QED
    BY <1>1, <1>2, <1>3, <1>4, <1>5, <2>1
    DEF TypeOK, AppState, Label, Travelling, KeyState
<1>9. ArgsOK'
  BY <1>6 DEF SafeInv, ArgsOK
<1>10. StampInv'
  BY <1>1, <1>4, <1>5, Fields, Numbers DEF SafeInv, StampInv
<1>11. GuardInv'
  <2>1. ASSUME NEW t \in App, app'[t].pc = "guard", app'[t].lastKCM # TooLate
        PROVE  Asleep(app[t].lastKCM)'
    <3>1. app[t].lastKCM \in Nat /\ app'[t].lastKCM = app[t].lastKCM + 1
      BY <1>6, <2>1, Numbers
    <3>2. Asleep(app[t].lastKCM)
      BY <1>6, <2>1 DEF SafeInv, GuardInv
    <3> QED
      BY <1>7, <3>1, <3>2 DEF Asleep
  <2> QED
    BY <2>1 DEF GuardInv
<1>12. SwitchInv'
  <2>1. ASSUME NEW t \in App, Switching(t)'
        PROVE  app'[t].lastKCM < TooLate /\ Asleep(app[t].lastKCM + app[t].age)'
    <3>1. /\ app[t].lastKCM < TooLate /\ Asleep(app[t].lastKCM + app[t].age)
          /\ app'[t].lastKCM = app[t].lastKCM /\ app'[t].age = app[t].age + 1
      BY <1>6, <2>1 DEF SafeInv, SwitchInv
    <3>2. /\ app[t].lastKCM \in Nat /\ app[t].age \in Nat
          /\ app[t].lastKCM + app[t].age \in Nat
          /\ app'[t].lastKCM + app'[t].age = (app[t].lastKCM + app[t].age) + 1
      BY <1>6, <3>1, Numbers
    <3> QED
      BY <1>7, <3>1, <3>2 DEF Asleep
  <2>2. ASSUME csa' # None PROVE Asleep(TooLate - 1 + Slow + csa.age)'
    <3>1. Asleep(TooLate - 1 + Slow + csa.age) /\ csa'.age = csa.age + 1
      BY <1>2, <2>2 DEF SafeInv, SwitchInv
    <3>2. /\ TooLate - 1 + Slow + csa.age \in Nat
          /\ TooLate - 1 + Slow + csa'.age = (TooLate - 1 + Slow + csa.age) + 1
      BY <1>1, <1>2, <2>2, <3>1, Fields, Numbers
    <3> QED
      BY <1>7, <3>1, <3>2 DEF Asleep
  <2> QED
    BY <2>1, <2>2 DEF SwitchInv
<1>13. Changing' <=> Changing
  BY <1>3, <1>4 DEF Changing
<1>14. ChangeInv'
  <2>1. sent' # None => keys'.pc \in {"stamp", "validate"} /\ sent'.freq = freq'
    BY <1>1, <1>3, <1>4 DEF SafeInv, ChangeInv
  <2>2. keys'.pc \in {"rotate", "send"} => keys'.freq = freq'
    BY <1>1, <1>4 DEF SafeInv, ChangeInv
  <2>3. Changing' => csa' = None /\ \A t \in App : ~Switching(t)'
    BY <1>2, <1>6, <1>13 DEF SafeInv, ChangeInv
  <2>4. ASSUME sent' # None, keys'.pc = "validate"
        PROVE  /\ lastKCM' <= sent'.age
               /\ \A t \in App : app'[t].pc = "guard" =>
                     app'[t].lastKCM = TooLate \/ app'[t].lastKCM <= sent'.age
    <3>1. /\ sent.age \in Nat /\ sent'.age = sent.age + 1 /\ lastKCM \in Nat
          /\ lastKCM <= sent.age
      BY <1>1, <1>3, <1>4, <2>4, Fields, Numbers DEF SafeInv, ChangeInv
    <3>2. ASSUME NEW t \in App, app'[t].pc = "guard"
          PROVE  app'[t].lastKCM = TooLate \/ app'[t].lastKCM <= sent'.age
      <4>1. app[t].lastKCM = TooLate \/ app[t].lastKCM <= sent.age
        BY <1>3, <1>4, <1>6, <2>4, <3>2 DEF SafeInv, ChangeInv
      <4> QED
        BY <1>6, <3>1, <3>2, <4>1, Numbers
    <3> QED
      BY <1>5, <3>1, <3>2, Numbers
  <2> QED
    BY <2>1, <2>2, <2>3, <2>4 DEF ChangeInv
<1>15. WindowInv'
  <2> SUFFICES ASSUME Window' PROVE WindowInv'
    BY DEF WindowInv
  <2>1. Window /\ kcm.age \in Nat /\ kcm'.age = kcm.age + 1
    <3>1. kcm.age \in 0..Over /\ kcm'.age <= CHANNEL_SWITCH_GUARD - Slow
      BY <1>1, Fields DEF Window
    <3> QED
      BY <1>4, <3>1, Numbers DEF Older, Window
  <2>2. keys'.pc # "stamp" => lastKCM' <= kcm'.age + Slow
    BY <1>1, <1>4, <1>5, <2>1, Fields, Numbers DEF SafeInv, WindowInv
  <2>3. ASSUME NEW t \in App, app'[t].pc = "guard"
        PROVE  app'[t].lastKCM = TooLate \/ app'[t].lastKCM <= kcm'.age + Slow
    <3>1. app[t].lastKCM = TooLate \/ app[t].lastKCM <= kcm.age + Slow
      BY <1>6, <2>1, <2>3 DEF SafeInv, WindowInv
    <3> QED
      BY <1>6, <2>1, <2>3, <3>1, Numbers
  <2>4. /\ csa' = None /\ \A t \in App : ~Switching(t)'
        /\ ~disturbed' => radio' = kcm'.freq
    BY <1>1, <1>2, <1>4, <1>6, <2>1 DEF SafeInv, WindowInv
  <2> QED
    BY <2>2, <2>3, <2>4 DEF WindowInv
<1>16. ViewInv'
  <2>1. connFreq' = IF csa' = None THEN radio' ELSE csa'.freq
    BY <1>1, <1>2 DEF SafeInv, ViewInv
  <2>2. ~disturbed' => \A u, v \in App : Switching(u)' /\ Switching(v)' => u = v
    BY <1>1, <1>6 DEF SafeInv, ViewInv
  <2>3. ~disturbed' /\ (\A u \in App : app'[u].pc # "finish") => freq' = connFreq'
    BY <1>1, <1>6 DEF SafeInv, ViewInv
  <2>4. ASSUME NEW u \in App, ~disturbed', app'[u].pc \in {"finish", "assign"}
        PROVE  app'[u].freq = connFreq' /\ (app'[u].pc = "finish" => app'[u].ret = "OK")
    BY <1>1, <1>6, <2>4 DEF SafeInv, ViewInv
  <2> QED
    BY <2>1, <2>2, <2>3, <2>4 DEF ViewInv
<1> QED
  BY <1>8, <1>9, <1>10, <1>11, <1>12, <1>14, <1>15, <1>16 DEF SafeInv

-----------------------------------------------------------------------------
(* The invariant and the theorems                                          *)

\* At the start no call and no key change is under way.
LEMMA SafeInit == Init => SafeInv
<1> SUFFICES ASSUME Init PROVE SafeInv
  OBVIOUS
<1>1. /\ freq \in Freq /\ connFreq = freq /\ radio = freq /\ csa = None /\ sent = None
      /\ keys = [pc |-> "sleep", age |-> 0, freq |-> 0]
      /\ kcm = [freq |-> freq, age |-> Over]
      /\ lastKCM \in 0..TooLate /\ app = [t \in App |-> Idle] /\ disturbed = FALSE
  BY DEF Init
<1>2. Idle \in AppState /\ Idle.pc = "home"
  BY Numbers DEF Idle, AppState, Label
<1>3. app \in [App -> AppState] /\ \A t \in App : app[t].pc = "home" /\ ~Switching(t)
  BY <1>1, <1>2 DEF Switching
<1>4. TypeOK
  <2>1. keys \in KeyState
    BY <1>1, Numbers DEF KeyState
  <2>2. kcm \in [freq : Freq, age : 0..Over]
    BY <1>1, Numbers
  <2> QED
    BY <1>1, <1>3, <2>1, <2>2, TypeParts
<1>5. ArgsOK /\ GuardInv
  BY <1>3 DEF ArgsOK, GuardInv
<1>6. StampInv /\ SwitchInv
  BY <1>1, <1>3, Numbers DEF StampInv, SwitchInv
<1>7. ChangeInv
  BY <1>1, <1>3 DEF ChangeInv, Changing
<1>8. WindowInv
  BY <1>1, Numbers DEF WindowInv, Window
<1>9. ViewInv
  BY <1>1, <1>3 DEF ViewInv
<1> QED
  BY <1>4, <1>5, <1>6, <1>7, <1>8, <1>9 DEF SafeInv

\* Every step keeps the invariant.
LEMMA SafeNext == SafeInv /\ [Next]_vars => SafeInv'
<1> SUFFICES ASSUME SafeInv, [Next]_vars PROVE SafeInv'
  OBVIOUS
<1>1. CASE changeKeys
  BY <1>1, KeysRotateStep, KeysRotatedStep, KeysSendStep, KeysStampStep,
     KeysValidateStep DEF changeKeys
<1>2. CASE Publish
  BY <1>2, PublishStep
<1>3. CASE SwitchRadio
  BY <1>3, SwitchRadioStep
<1>4. CASE \E t \in App : AppStep(t)
  BY <1>4, AppWaitStep, AppRunStep, AppGuardStep, CommandStep, FinishedStep,
     AssignStep DEF AppStep
<1>5. CASE \E t \in App, f \in Freq : setChannel(t, f)
  BY <1>5, SetChannelStep
<1>6. CASE Tick
  BY <1>6, TickStep
<1>7. CASE UNCHANGED vars
  <2>1. UNCHANGED <<freq, connFreq, radio, csa, keys, kcm, sent, lastKCM, app, disturbed>>
    BY <1>7 DEF vars
  <2>2. TypeOK' /\ ArgsOK' /\ StampInv'
    BY <2>1 DEF SafeInv, TypeOK, ArgsOK, StampInv, Switching
  <2>3. GuardInv' /\ SwitchInv'
    BY <2>1 DEF SafeInv, GuardInv, SwitchInv, Asleep, Switching
  <2>4. ChangeInv' /\ WindowInv'
    BY <2>1 DEF SafeInv, ChangeInv, WindowInv, Changing, Window, Switching
  <2>5. ViewInv'
    BY <2>1 DEF SafeInv, ViewInv, Switching
  <2> QED
    BY <2>2, <2>3, <2>4, <2>5 DEF SafeInv
<1> QED
  BY <1>1, <1>2, <1>3, <1>4, <1>5, <1>6, <1>7 DEF Next

\* The invariant holds in every state.
LEMMA SafeInvariant == Spec => []SafeInv
BY SafeInit, SafeNext, PTL DEF Spec

\* Each variable keeps values of the kind the agent gives it: every age stays
\* within its bound, also those of a command and of a kcm that are under way.
THEOREM ChannelTypeCorrect == Spec => []TypeOK
<1>1. SafeInv => TypeOK
  BY DEF SafeInv
<1> QED
  BY <1>1, SafeInvariant, PTL

\* No switch is commanded, announced or made while a key change is between
\* reading the frequency and the publication of its kcm (changeKeys and
\* ChannelSwitchGuardThread.run), also when switches are refused or overlap.
THEOREM ChannelSwitchesApart == Spec => []SwitchesApart
<1>1. SafeInv => SwitchesApart
  BY DEF SafeInv, ChangeInv, Changing, SwitchesApart, Switching
<1> QED
  BY <1>1, SafeInvariant, PTL

\* For the guard interval, less the time a command takes, the radio is on the
\* frequency that the published kcm names, unless a switch was refused or two
\* overlapped (changeKeys and ChannelSwitchGuardThread.run).
THEOREM ChannelKcmFindsRadio == Spec => []KcmFindsRadio
<1>1. SafeInv => KcmFindsRadio
  BY DEF SafeInv, WindowInv, Window, KcmFindsRadio
<1> QED
  BY <1>1, SafeInvariant, PTL

\* getChannel, the frequency of the agent and the radio agree when no call and
\* no announcement is under way, unless a switch was refused or two overlapped
\* (setChannel, setChannelFinished and the connector's setChannel).
THEOREM ChannelViewsAgree == Spec => []ViewsAgree
<1>1. SafeInv => ViewsAgree
  <2> SUFFICES ASSUME SafeInv, csa = None, \A t \in App : ~Switching(t)
               PROVE  connFreq = radio /\ (~disturbed => freq = radio)
    BY DEF ViewsAgree
  <2>1. connFreq = radio
    BY DEF SafeInv, ViewInv
  <2>2. ~disturbed => freq = connFreq
    BY DEF SafeInv, ViewInv, Switching
  <2> QED
    BY <2>1, <2>2
<1> QED
  BY <1>1, SafeInvariant, PTL
=============================================================================
