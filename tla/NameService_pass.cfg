\* Two servers, one failure of any kind, one election; limits of one period.
CONSTANTS
  s1 = s1  s2 = s2
  Servers <- TwoServers
  Services <- KVServices
  Inactivity = 1
  Offline = 0
  MaxStarts = 2
  MaxElections = 1
  MaxFaults = 1
  None = None
SPECIFICATION FairSpec
INVARIANTS TypeOK CalmServersStay ConnectedToCallee
PROPERTIES ForgottenServersExit DeadServersForgotten
CHECK_DEADLOCK FALSE
