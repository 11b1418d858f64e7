CONSTANTS
  arp = arp
  dns = dns
  tcp = tcp
  app1 = app1
  app2 = app2
  InitOrder <- MCInitOrder
  Tcp = tcp
  App = {app1, app2}
  Interval <- MCInterval
  AppMsecs = {0, 3}
  PoolSize = 4
  U32 = 64
  MaxBacklog = 1
SPECIFICATION FairSpec
INVARIANTS
  TimeoutsSound
PROPERTIES
  OthersUndisturbed
  FiresWhenQuiet
CHECK_DEADLOCK FALSE
