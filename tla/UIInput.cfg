CONSTANTS
  Keys = {"LEFT_SHIFT", "RIGHT_SHIFT", "LEFT_ALT", "RIGHT_ALT", "ENTER", "KP_ENTER", "A"}
  Buttons = {"Left", "Middle", "Right", "Button4"}
SPECIFICATION Spec
INVARIANTS
  KeysAgree
  MovesAgree
