\* Two connections, two scans, and a kernel queue that holds one of them.
CONSTANTS
  Keystrokes <- EveryKind
  Capacity = 7
  MaxSessions = 2
  MaxScans = 2
SPECIFICATION FairSpec
INVARIANTS
  TypeOK
  OneConnection
  WholeLines
PROPERTIES
  PluggedIsOpened
  ScanBecomesLine
