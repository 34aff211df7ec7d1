SPECIFICATION FairSpec
CHECK_DEADLOCK FALSE
CONSTANTS
  h1 = h1
  h2 = h2
  r1 = r1
  w1 = w1
  w2 = w2
  Hosts = {h1, h2}
  Requests = {r1}
  Workers = {w1, w2}
  HostOf <- TwoHosts
  JobRetries = 1
  DefaultPassword = FALSE
  MaxRuns = 2
  MaxFaults = 1
INVARIANTS CompletedIsReady InProgressIsWorkedOn
PROPERTIES CompletedStays SettledInTheEnd
