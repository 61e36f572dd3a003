SPECIFICATION FairSpec
CONSTANTS
  s1 = s1
  s2 = s2
  Servers <- MCServers
  NoServer = NoServer
  Ranges = {r24h, r7d}
  FirstRange = r24h
  PageSize = 1
  MaxFailures = 2
  MaxProbes <- MCMaxProbes
  MaxClicks = 2
 
INVARIANT StripIsOfChoice
INVARIANT WaitIsFollowed
PROPERTY WaitEnds
CHECK_DEADLOCK FALSE
