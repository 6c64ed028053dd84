\* Two applications, two channels.
CONSTANTS
    App = {"a1", "a2"}
    Freq = {5180, 5200}
    KEYCHANGEINTERVAL = 6
    CHANNEL_SWITCH_GUARD = 2
    Slow = 1
SPECIFICATION FairSpec
INVARIANTS TypeOK   ViewsAgree
PROPERTY SwitchReturns
CHECK_DEADLOCK FALSE
