SPECIFICATION FairSpec
CONSTANTS
  Addr = {host, fan}
  Host = host
  Nation = {mm, br}
  TxHash = {h1}
  Amount = {1}
  NoNation = NoNation
  NoReceipt = NoReceipt
  nationA = mm
  nationB = br
  Cap = 0
  Cent = 2
  NoRoom = NoRoom
  Reliable = FALSE
  MaxReload = 1
  MaxExpiry = 0
  None = None
PROPERTIES
  EveryPageCatchesUp
  BusyEnds
CHECK_DEADLOCK FALSE
