\* One keyboard with the blocking key s, which stops or starts being one once.
SPECIFICATION FairSpec
CONSTANTS
  a = a
  b = b
  fn = fn
  builtin = builtin
  vk1 = vk1
  vk2 = vk2
  button1 = button1
  Motion = Motion
  VK_NONE = VK_NONE
  Keyboards = {kbd1}
  Pointings = {}
  Internal = {}
  Keys = {s, t}
  Buttons <- NoButtons
  CapsLock = {}
  Ignored = {}
  Items <- NoItems
  BlockKeys = {s}
  ignore_bouncing_events = FALSE
  allow_devices_multiple_same_key = FALSE
  disable_internal_keyboard = FALSE
  MaxEvents = 8
  MaxPlugs = 0
  MaxToggles = 1
INVARIANTS TypeOK TimersArmed BlockedWhilePressing KeyOrder Conservation
PROPERTIES ResetOnlyWhenReleased ResetWhenReleased EventuallyHandled
\* The hardware may stop producing events.
CHECK_DEADLOCK FALSE
