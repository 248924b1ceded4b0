SPECIFICATION FairSpec
CONSTANTS
  Environments <- MCEnvironments
  MaxStops = 2
  MaxDeeds = 1
INVARIANTS
  TypeOK
  SetupRemembered
  AcceptedConfigurationBuilds
PROPERTIES
  ApOnlyWhenDue
  ReachableAfterBoot
CHECK_DEADLOCK FALSE
