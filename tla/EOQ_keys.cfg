\* A key, a dropped key, a KeyToKey item with two keys, two modifiers.
CONSTANTS
    a = a
    tab = tab
    shift = shift
    command = command
    NUMPAD = NUMPAD
    NoKey = NoKey
    Keys = {a, tab}
    Keypads = {}
    Modifiers <- TwoModifiers
    Consumers = {}
    Repeatable = {}
    Buttons = {}
    Macros <- OneMacro
    Drop <- DropTab
    wait_before_and_after_a_modifier_key_event = 4
    wait_before_and_after_a_click_event = 3
    WaitMilliseconds = 2
    MAX_KEYBOARDREPEATID = 1
    RequestFlags <- NoneOrBoth
    MaxQueue = 1
SPECIFICATION Spec
INVARIANTS TimerArmed FlagsInStep KeysInStep RepeatWhileHeld
\* Nothing is pressed and nothing is queued: the system rests.
CHECK_DEADLOCK FALSE
