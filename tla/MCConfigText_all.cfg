SPECIFICATION Spec
CONSTANTS
  Written <- MCBoth
  Edited <- MCEdited
  Typed <- MCTyped
  MaxEdits = 2
INVARIANTS TypeOK ReadBackOrRefused PlainIsCorrected
PROPERTIES ParserEnds
CHECK_DEADLOCK FALSE
