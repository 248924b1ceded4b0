\* Two connections, two trials and one stop: a trial on top of a trial, a shell
\* that outlives its trial, and a stop at every step of either.
CONSTANTS
  home = home
  cafe = cafe
  web = web
  main = main
  homeNet = homeNet
  home_net = home_net
  cafeNet = cafeNet
  Networks = {homeNet, home_net, cafeNet}
  Connections = {home, cafe}
  NameOf <- SharedName
  Callers <- TwoCallers
  Commands <- ThreadCommands
  MaxCalls = 3
  MaxTrials = 2
  MaxStops = 1
SPECIFICATION Spec
INVARIANT TypeOK
INVARIANT AppliedStays
PROPERTY LastNetworkKept
PROPERTY PriorRemembered
PROPERTY DueTrialEnds
CHECK_DEADLOCK FALSE
