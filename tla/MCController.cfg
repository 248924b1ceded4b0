\* Three scans in a window of one second, with one restart.
CONSTANTS
  song = song
  record = record
  Media <- TwoPayloads
  KindOf <- Kinds
  Deck <- HouseholdDeck
  Window = 1
  Debounce = 1
  MaxTime = 3
  MaxScans = 3
  MaxRestarts = 1
SPECIFICATION Spec
INVARIANTS
  TypeOK
  NoAccidentalReplay
  FailedCardMayRetry
  ActionRunsOnce
