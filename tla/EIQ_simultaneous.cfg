\* A keyboard and a mouse, two items that share a key, one of them with strict
\* key order and a button of the mouse; one item is switched once.
SPECIFICATION Spec
CONSTANTS
  a = a
  b = b
  fn = fn
  builtin = builtin
  vk1 = vk1
  vk2 = vk2
  button1 = button1
  Motion = Motion
  VK_NONE = VK_NONE
  Keyboards = {kbd1}
  Pointings = {mouse}
  Internal = {}
  Keys = {a, b}
  Buttons <- OneButton
  CapsLock = {}
  Ignored = {}
  Items <- TwoItems
  BlockKeys = {}
  ignore_bouncing_events = FALSE
  allow_devices_multiple_same_key = FALSE
  disable_internal_keyboard = FALSE
  MaxEvents = 7
  MaxPlugs = 0
  MaxToggles = 1
INVARIANTS Conservation Settled VirtualKeysSettled
\* The hardware may stop producing events.
CHECK_DEADLOCK FALSE
