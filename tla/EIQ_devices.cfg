\* The built-in keyboard is disabled while the external one is there, which is
\* unplugged once, or the built-in is; caps lock is not counted, a device hack drops the built-in fn.
SPECIFICATION Spec
CONSTANTS
  a = a
  b = b
  fn = fn
  builtin = builtin
  vk1 = vk1
  vk2 = vk2
  button1 = button1
  Motion = Motion
  VK_NONE = VK_NONE
  Keyboards = {builtin, external}
  Pointings = {}
  Internal = {builtin}
  Keys = {s, caps, fn}
  Buttons <- NoButtons
  CapsLock = {caps}
  Ignored <- FnIgnored
  Items <- NoItems
  BlockKeys = {s}
  ignore_bouncing_events = FALSE
  allow_devices_multiple_same_key = FALSE
  disable_internal_keyboard = TRUE
  MaxEvents = 4
  MaxPlugs = 1
  MaxToggles = 0
INVARIANTS KeyOrder Settled
\* The hardware may stop producing events.
CHECK_DEADLOCK FALSE
