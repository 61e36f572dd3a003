SPECIFICATION ImportSpec
CONSTANTS
  a = a
  b = b
  x = x
  y = y
  Keys = {a, b}
  BadKey = BadKey
  Contents = {x, y}
  Files <- MCFiles
  NoFile = NoFile
  InitialLists <- MCLists
  FirstID = 2
  MaxEdits = 1
  MaxTries = 2
INVARIANT NeverRefused
PROPERTY AppliesToWhatWasShown
PROPERTY StoresWhatWasDecided
CHECK_DEADLOCK FALSE
