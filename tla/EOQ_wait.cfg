\* A key and a button: the wait after a click.
CONSTANTS
    a = a
    tab = tab
    shift = shift
    command = command
    NUMPAD = NUMPAD
    NoKey = NoKey
    Keys = {a}
    Keypads = {}
    Modifiers <- TwoModifiers
    Consumers = {}
    Repeatable = {}
    Buttons = {left}
    Macros = {}
    Drop <- DropNothing
    wait_before_and_after_a_modifier_key_event = 4
    wait_before_and_after_a_click_event = 3
    WaitMilliseconds = 2
    MAX_KEYBOARDREPEATID = 0
    RequestFlags <- NoneOrBoth
    MaxQueue = 2
SPECIFICATION Spec
INVARIANT WaitAfterClick
\* Nothing is pressed and nothing is queued: the system rests.
CHECK_DEADLOCK FALSE
