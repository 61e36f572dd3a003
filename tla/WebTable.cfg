SPECIFICATION TableSpec
CONSTANTS
  Protocols = {"udp", "https"}
  Servers <- MCServers
  Lists <- MCLists
  NoData = NoData
  Words = {"resolver"}
  NoSearch = "none"
  Stored <- MCStored
  MaxTicks = 2
INVARIANT OrderIsTotal
INVARIANT OptionsCountRows
INVARIANT ScreenIsState
PROPERTY TurnsOnlyValues
CHECK_DEADLOCK FALSE
