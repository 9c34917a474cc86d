CONSTANTS
  c1 = c1
  c2 = c2
  f1 = f1
  f2 = f2
  g1 = g1
  g2 = g2
  h1 = h1
  h2 = h2
  h3 = h3
  Clients <- MCClients
  Owner = owner
  Worker = worker
  Nobody = nobody
  Functors <- MCFunctors
  Stop = stop
  Script <- MCScript
  Body <- MCBody
SPECIFICATION FairSpec
CHECK_DEADLOCK FALSE
INVARIANTS
  FirstInFirstOut
  AllBeforeStopHaveRun
PROPERTIES
  EverythingEnds
