SPECIFICATION FairSpec
CONSTANTS
  Lifetime = 3
  Reports = {3, 1}
  Margin = 2
  MaxWait = 1
  ConfirmTimeout = 2
  ConfirmInterval = 1
  ProbeRetries = 1
  ProbeInterval = 1
INVARIANTS
  TypeOK
  RequestsCarryLiveToken
PROPERTIES
  SuccessIsReal
  ImplementsContract
  CallsEnd
  WithdrawnTokenForgotten
