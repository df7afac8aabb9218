CONSTANTS
  Modifiers <- MCModifiers
  CAPSLOCK = "CAPSLOCK"
  NONE = "NONE"
  Buttons = {"LEFT", "RIGHT"}
  MaxActive = 3
  Configurations <- MCCapsLock
SPECIFICATION Spec
INVARIANT CapsLockFollowsHardware
