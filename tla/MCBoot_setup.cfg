SPECIFICATION Spec
CONSTANTS
  Environments <- MCEnvironments
  MaxStops = 1
  MaxDeeds = 1
PROPERTIES
  SavedNetworkGetsGrace
CHECK_DEADLOCK FALSE
