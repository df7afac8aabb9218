\* A keypad key, a consumer key, a button, two modifiers.
CONSTANTS
    a = a
    tab = tab
    shift = shift
    command = command
    NUMPAD = NUMPAD
    NoKey = NoKey
    Keys = {a}
    Keypads = {a}
    Modifiers <- TwoModifiers
    Consumers = {volume}
    Repeatable = {volume}
    Buttons = {left}
    Macros = {}
    Drop <- DropNothing
    wait_before_and_after_a_modifier_key_event = 4
    wait_before_and_after_a_click_event = 3
    WaitMilliseconds = 2
    MAX_KEYBOARDREPEATID = 0
    RequestFlags <- NoneOrBoth
    MaxQueue = 2
SPECIFICATION Spec
INVARIANTS TypeOK FlagsInStep KeysInStep RepeatWhileHeld WaitKept
\* Nothing is pressed and nothing is queued: the system rests.
CHECK_DEADLOCK FALSE
