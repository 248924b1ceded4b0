\* The health monitor and one HTTP thread, with no restart: can the success of
\* an earlier flow clear the request of a later one?
CONSTANTS
  health = health
  web = web
  web2 = web2
  w1 = w1
  w2 = w2
  Callers <- BothCallers
  Workers <- TwoWorkers
  Tasks <- PollAndServe
  MaxRestarts = 0
SPECIFICATION Spec
PROPERTY FreshSuccessClears
