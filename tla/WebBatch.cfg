SPECIFICATION FairSpec
CONSTANTS
  Ranges = {r24h}
  FirstRange = r24h
  NoRange = NoRange
  MaxFailures = 2
  MaxLogins = 2
  MaxBatches = 2
  MaxClicks = 2
  MaxSleeping = 0
  MaxRestarts = 0
INVARIANT OnePoll
PROPERTY FollowedToItsEnd
 
CHECK_DEADLOCK FALSE
