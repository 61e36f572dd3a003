SPECIFICATION FairSpec
CONSTANTS
  c1 = c1
  c2 = c2
  raw = raw
  blank = blank
  Configs <- MCConfigs
  Drafts <- MCDrafts
  Canon <- MCCanon
  Blank = blank
  NoConfig = NoConfig
 
INVARIANT EditsAreSeen
PROPERTY DraftKept
PROPERTY FormCatchesUp
CHECK_DEADLOCK FALSE
