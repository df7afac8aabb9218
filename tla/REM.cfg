CONSTANTS
  Modifiers <- MCModifiers
  CAPSLOCK = "CAPSLOCK"
  NONE = "NONE"
  Buttons = {"LEFT", "RIGHT"}
  MaxActive = 3
  Configurations <- MCConfigurations
SPECIFICATION Spec
INVARIANTS
  TypeOK
  CountsAccounted
  KeysHaveCause
  PeriodsSettled
  PrepareWalk
PROPERTIES
  DelayedKeysFirst
  PeriodsRefined
