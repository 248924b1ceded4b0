\* The health monitor and one HTTP thread, with one restart of the service.
CONSTANTS
  health = health
  web = web
  web2 = web2
  w1 = w1
  w2 = w2
  Callers <- BothCallers
  Workers <- TwoWorkers
  Tasks <- PollAndServe
  MaxRestarts = 1
SPECIFICATION FairSpec
INVARIANT TypeOK

PROPERTIES
  FreshSuccessClearsInTurn
  SuccessClears
  RequestIsPublished
