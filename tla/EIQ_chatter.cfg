\* The blocking key s, chattering events removed.
SPECIFICATION Spec
CONSTANTS
  a = a
  b = b
  fn = fn
  builtin = builtin
  vk1 = vk1
  vk2 = vk2
  button1 = button1
  Motion = Motion
  VK_NONE = VK_NONE
  Keyboards = {kbd1}
  Pointings = {}
  Internal = {}
  Keys = {s, t}
  Buttons <- NoButtons
  CapsLock = {}
  Ignored = {}
  Items <- NoItems
  BlockKeys = {s}
  ignore_bouncing_events = TRUE
  allow_devices_multiple_same_key = FALSE
  disable_internal_keyboard = FALSE
  MaxEvents = 7
  MaxPlugs = 0
  MaxToggles = 0
PROPERTIES ResetOnlyWhenReleased
\* The hardware may stop producing events.
CHECK_DEADLOCK FALSE
