----------------------------- MODULE MCRemapper -----------------------------
(***************************************************************************)
(* Small configurations for Remapper, each around one part of it, written  *)
(* like the autogen lines of the XML files.                                *)
(***************************************************************************)
EXTENDS Remapper

MCModifiers == <<"CAPSLOCK", "SHIFT_L", "CONTROL_L">>

key(v)  == Token("code", Code("key", v))
mod(f)  == Token("code", Code("mod", f))
vk(t, v) == Token("code", Code(t, v))
flag(f) == Token("flag", f)
opt(o)  == Token("option", o)

item(type, class, tokens) ==
    [type |-> type, class |-> class, tokens |-> tokens, wait |-> TRUE, filters |-> {},
     ignorePassThrough |-> FALSE]

filter(type, isnot, targets) == [type |-> type, isnot |-> isnot, targets |-> targets]

Pressed(codes, dev) == {[code |-> c, dev |-> dev] : c \in codes}
K(v) == Code("key", v)
M(f) == Code("mod", f)

configuration(items, keys) ==
    [items |-> items, keys |-> keys, enabled |-> {items[i].class : i \in DOMAIN items},
     pointing |-> {}, lazyMouse |-> FALSE, backlog |-> BOOLEAN, late |-> {FALSE}, elapsed |-> {0},
     switched |-> {}, workspaces |-> {}, log |-> FALSE]

\* Shift-A to Control-Shift, B to a sequence that repeats, Control to Shift,
\* and a key that switches the first of them on while it is held.
Keys1 == configuration(
    << item("KEYTOKEY", "c1", <<key("A"), flag("SHIFT_L"), mod("CONTROL_L"), flag("SHIFT_L")>>),
       item("KEYTOKEY", "c2", <<key("B"), key("X"), key("Y"), flag("SHIFT_L")>>),
       item("KEYTOKEY", "c3", <<mod("CONTROL_L"), mod("SHIFT_L")>>),
       item("KEYTOKEY", "c4", <<key("C"), vk("VK_CONFIG_SYNC_KEYDOWNUP", "c1")>>) >>,
    Pressed({K("A"), K("B"), K("C"), M("SHIFT_L"), M("CONTROL_L")}, "k1"))

\* Keys before and after, added modifiers, a sequence that ends in a modifier.
Keys2 == configuration(
    << item("KEYTOKEY", "c1", <<key("A"), flag("SHIFT_L"), key("X"), flag("CONTROL_L"), opt("NOREPEAT"),
                             opt("KEYTOKEY_BEFORE_KEYDOWN"), key("P"), flag("CONTROL_L"),
                             opt("KEYTOKEY_AFTER_KEYUP"), flag("CONTROL_L"), key("Q"),
                             opt("KEYTOKEY_AFTER_KEYUP"), key("R"),
                             opt("KEYTOKEY_INCREASE_MODIFIER_FLAGS"), flag("CONTROL_L")>>),
       item("KEYTOKEY", "c2", <<key("B"), flag("SHIFT_L"), key("X"), mod("CONTROL_L"), flag("SHIFT_L")>>) >>,
    Pressed({K("A"), K("B"), K("C"), M("SHIFT_L")}, "k1"))

\* Delayed actions.
Delayed == [configuration(
    << item("KEYTOKEY", "c1", <<key("A"), flag("SHIFT_L"), key("X"), opt("KEYTOKEY_DELAYED_ACTION"), key("Y"),
                             flag("CONTROL_L")>>),
       item("KEYTOKEY", "c2", <<key("B"), key("VK_B"), opt("KEYTOKEY_DELAYED_ACTION"), key("P"),
                             opt("KEYTOKEY_DELAYED_ACTION_CANCELED_DEFAULT"), key("Q"),
                             opt("KEYTOKEY_DELAYED_ACTION_CANCELED_BY"), key("C"), flag("SHIFT_L"), vk("drop", "drop"), key("R")>>) >>,
    Pressed({K("A"), K("B"), K("C"), M("SHIFT_L")}, "k1")) EXCEPT !.log = TRUE]

\* Two overlaid modifiers, one of them with its repetition.
Overlaid == [configuration(
    << item("KEYOVERLAIDMODIFIER", "c1", <<key("A"), mod("CONTROL_L"), key("X"), opt("KEYOVERLAIDMODIFIER_REPEAT")>>),
       [item("KEYOVERLAIDMODIFIER", "c2", <<key("B"), mod("SHIFT_L"), key("Y")>>) EXCEPT !.wait = FALSE] >>,
    Pressed({K("A"), K("B"), K("C"), M("SHIFT_L")}, "k1")) EXCEPT !.late = BOOLEAN]

\* Overlaid keys with modifiers of their own, keys before and after and a
\* sequence for the repetition.
OverlaidFlags == [configuration(
    << item("KEYOVERLAIDMODIFIER", "c1", <<key("A"), flag("SHIFT_L"), mod("CONTROL_L"), key("X"), flag("CONTROL_L"),
                                        opt("KEYOVERLAIDMODIFIER_REPEAT"), opt("KEYOVERLAIDMODIFIER_REPEAT_TOKEYS"),
                                        key("R"), key("S"), opt("NOREPEAT"),
                                        opt("KEYTOKEY_BEFORE_KEYDOWN"), key("P"), opt("KEYTOKEY_AFTER_KEYUP"), key("Q")>>),
       item("KEYOVERLAIDMODIFIER", "c2", <<opt("USE_SEPARATOR"), mod("CONTROL_L"), mod("SHIFT_L"), flag("CONTROL_L"),
                                        opt("SEPARATOR"), key("Y"), opt("NOREPEAT"), opt("UNKNOWN")>>) >>,
    Pressed({K("A"), K("C"), M("SHIFT_L"), M("CONTROL_L")}, "k1")) EXCEPT !.late = BOOLEAN]

\* Keys that send others when they are held, with delayed actions.
Holding == [configuration(
    << item("HOLDINGKEYTOKEY", "c1", <<opt("USE_SEPARATOR"), key("A"), flag("SHIFT_L"), key("X"),
                                    opt("KEYTOKEY_DELAYED_ACTION"), key("Y"), opt("SEPARATOR"), key("P"),
                                    opt("UNINTERRUPTIBLE_BY_SCROLL_WHEEL"),
                                    opt("KEYTOKEY_BEFORE_KEYDOWN"), key("Q"), opt("KEYTOKEY_AFTER_KEYUP"), key("R")>>),
       item("HOLDINGKEYTOKEY", "c2", <<vk("button", "LEFT"), mod("CONTROL_L"), opt("KEYTOKEY_DELAYED_ACTION"), key("Z"),
                                    vk("none", "none"), vk("button", "LEFT")>>) >>,
    Pressed({K("A"), K("C"), M("SHIFT_L"), Code("button", "LEFT")}, "k1"))
        EXCEPT !.log = TRUE, !.pointing = {"scroll"}]

\* KeyDownUpToKey, DoublePressModifier and IgnoreMultipleSameKeyPress.
Presses == [configuration(
    << item("IGNOREMULTIPLESAMEKEYPRESS", "c1", <<key("A"), flag("SHIFT_L")>>),
       item("KEYDOWNUPTOKEY", "c2", <<key("A"), flag("SHIFT_L"), key("X"), flag("CONTROL_L"), opt("USE_SEPARATOR"),
                                   opt("SEPARATOR"), mod("CONTROL_L"), flag("SHIFT_L")>>),
       item("DOUBLEPRESSMODIFIER", "c3", <<mod("CONTROL_L"), flag("SHIFT_L"), mod("SHIFT_L"), flag("CONTROL_L"), key("Y")>>),
       item("DOUBLEPRESSMODIFIER", "c4", <<opt("USE_SEPARATOR"), key("B"), mod("CONTROL_L"), opt("SEPARATOR"), key("Z")>>) >>,
    Pressed({K("A"), K("B"), M("SHIFT_L"), M("CONTROL_L")}, "k1"))
        EXCEPT !.late = BOOLEAN, !.backlog = {FALSE}, !.pointing = {"move"}]

\* Virtual keys: locks, stickies, lazy modifiers and classes switched by keys.
Virtual == [configuration(
    << item("KEYTOKEY", "c1", <<key("A"), vk("VK_LOCK", "SHIFT_L")>>),
       item("KEYTOKEY", "c2", <<key("B"), vk("VK_STICKY", "CONTROL_L")>>),
       item("KEYTOKEY", "c3", <<key("C"), vk("VK_LAZY", "CONTROL_L")>>),
       item("KEYTOKEY", "c4", <<key("D"), vk("VK_NEGATIVE_LOCK", "SHIFT_L"), vk("VK_CONFIG_TOGGLE", "c3"),
                             vk("VK_STICKY_ACTIVE_MODIFIERS_TOGGLE", "none"), vk("VK_LOCK_ALL_FORCE_OFF", "none")>>) >>,
    Pressed({K("A"), K("B"), K("C"), K("D")}, "k1")) EXCEPT !.backlog = {FALSE}]

\* The other virtual keys.
Forced == configuration(
    << item("KEYTOKEY", "c1", <<key("A"), vk("VK_LOCK_FORCE_ON", "SHIFT_L"), vk("VK_NEGATIVE_LOCK_FORCE_OFF", "SHIFT_L"),
                             vk("VK_STICKY_FORCE_ON", "CONTROL_L"), vk("VK_CONFIG_FORCE_OFF", "c3")>>),
       item("KEYTOKEY", "c2", <<key("B"), vk("VK_LOCK_FORCE_OFF", "SHIFT_L"), vk("VK_NEGATIVE_LOCK_FORCE_ON", "SHIFT_L"),
                             vk("VK_STICKY_FORCE_OFF", "CONTROL_L"), vk("VK_CONFIG_FORCE_ON", "c3")>>),
       item("KEYTOKEY", "c3", <<key("C"), key("X"), vk("VK_STICKY_ACTIVE_MODIFIERS_FORCE_ON", "none")>>),
       item("KEYTOKEY", "c4", <<key("D"), vk("VK_STICKY_ACTIVE_MODIFIERS_FORCE_OFF", "none"), vk("VK_STICKY_ALL_FORCE_OFF", "none"),
                             vk("VK_NEGATIVE_LOCK_ALL_FORCE_OFF", "none")>>) >>,
    Pressed({K("A"), K("B"), K("C"), K("D"), M("SHIFT_L")}, "k1"))

\* Buttons, the cursor and the wheel, with lazy modifiers for the mouse.
Mouse == [configuration(
    << item("KEYTOKEY", "c1", <<vk("button", "LEFT"), flag("SHIFT_L"), mod("CONTROL_L")>>),
       item("KEYTOKEY", "c2", <<key("A"), vk("button", "LEFT"), flag("CONTROL_L")>>),
       item("KEYTOKEY", "c3", <<key("B"), key("X"), vk("button", "RIGHT"), key("Y"), vk("button", "LEFT")>>),
       item("KEYTOKEY", "c4", <<key("C"), vk("VK_LAZY", "CONTROL_L")>>) >>,
    Pressed({Code("button", "LEFT"), K("A"), K("B"), K("C"), M("SHIFT_L")}, "k1"))
        EXCEPT !.lazyMouse = TRUE, !.pointing = {"scroll", "move"}]

\* Filters, PassThrough, classes and the front application changed while keys
\* are held, the same key on two keyboards.
Filters == [configuration(
    << [item("KEYTOKEY", "c1", <<key("A"), mod("CONTROL_L")>>) EXCEPT !.filters = {filter("DEVICE", FALSE, {"k1"})}],
       [item("KEYTOKEY", "c2", <<key("A"), key("X")>>) EXCEPT !.filters = {filter("APPLICATION", FALSE, {"app"})},
                                                            !.ignorePassThrough = TRUE],
       [item("KEYTOKEY", "c3", <<key("A"), key("Y"), key("Z")>>) EXCEPT !.filters = {filter("CONFIG", TRUE, {"c4"})}],
       [item("PASSTHROUGH", "c4", <<>>) EXCEPT !.filters = {filter("MODIFIER", FALSE, {{"SHIFT_L"}})}] >>,
    Pressed({K("A"), M("SHIFT_L")}, "k1") \cup Pressed({K("A")}, "k2"))
        EXCEPT !.switched = {"c1", "c3", "c4"}, !.workspaces = {{}, {"app"}}, !.enabled = {"c1", "c2", "c3"}]

\* The filters that look back, count or compare times.
History == [configuration(
    << [item("KEYTOKEY", "c1", <<key("A"), key("X")>>) EXCEPT !.filters = {filter("LASTPRESSEDPHYSICALKEY", FALSE, {K("B")})}],
       [item("KEYTOKEY", "c2", <<key("A"), mod("CONTROL_L")>>) EXCEPT !.filters = {filter("LASTRELEASEDPHYSICALKEY", TRUE, {K("B")}),
                                                                                filter("PRESSINGPHYSICALKEYS", FALSE, {1})}],
       [item("KEYTOKEY", "c3", <<key("B"), key("Y")>>) EXCEPT !.filters = {filter("LASTSENTEVENT", FALSE, {[code |-> K("X"), type |-> "NONE"]}),
                                                                        filter("ELAPSEDTIMESINCELASTPRESSED", TRUE, {2})}],
       [item("KEYTOKEY", "c4", <<key("B"), key("Z")>>) EXCEPT !.filters = {filter("MODIFIER_LOCKED", FALSE, {{"CAPSLOCK"}}),
                                                                        filter("ELAPSEDTIMESINCELASTRELEASED", FALSE, {2})}],
       [item("KEYTOKEY", "c5", <<key("C"), vk("VK_STICKY", "SHIFT_L")>>) EXCEPT !.filters = {filter("MODIFIER_STUCK", TRUE, {{"SHIFT_L"}})}] >>,
    Pressed({K("A"), K("B"), K("C"), M("CAPSLOCK")}, "k1")) EXCEPT !.elapsed = {1, 2}]

\* A key that sends another one when it is held, and CapsLock.
CapsLockHeld == configuration(
    << item("HOLDINGKEYTOKEY", "c1", <<key("A"), key("X"), key("Y")>>) >>,
    Pressed({K("A"), M("CAPSLOCK")}, "k1"))

MCConfigurations == <<Keys1, Keys2, Delayed, Overlaid, OverlaidFlags, Holding, Presses, Virtual, Forced, Mouse, Filters, History>>

MCCapsLock == <<CapsLockHeld>>
=============================================================================
