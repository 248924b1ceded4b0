\* The scan loop and one background thread, with crashes and readings that
\* fail.
CONSTANTS
  main = main
  side = side
  Threads <- TwoThreads
  Calls <- ProgramCalls
  MayCrash = TRUE
  MayFail = TRUE
SPECIFICATION Spec
INVARIANTS
  TypeOK
  StartedNeverUnrequested
PROPERTY CallsInTurnAreAtomic
