\* Two browsers that start the flow at any time, with one restart.
CONSTANTS
  health = health
  web = web
  web2 = web2
  w1 = w1
  w2 = w2
  Callers <- BothBrowsers
  Workers <- TwoWorkers
  Tasks <- BothStart
  MaxRestarts = 1
SPECIFICATION Spec
INVARIANTS
  ProgressIsRealUntilRestart
  OneFlowAtATime
