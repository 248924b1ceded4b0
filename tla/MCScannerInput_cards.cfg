\* One scan, by a reader that has the device open and loses nothing.
CONSTANTS
  Keystrokes <- CardWithHyphen
  Capacity = 4
  MaxSessions = 1
  MaxScans = 1
SPECIFICATION Spec
INVARIANT
  ScansAsPrinted
CHECK_DEADLOCK FALSE
