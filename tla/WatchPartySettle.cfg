SPECIFICATION StubbornHost
CONSTANTS
  Addr = {host, fan}
  Host = host
  Nation = {mm, br}
  TxHash = {h1, h2}
  Amount = {1}
  NoNation = NoNation
  NoReceipt = NoReceipt
  nationA = mm
  nationB = br
  Cap = 0
  Cent = 2
  NoRoom = NoRoom
  Reliable = FALSE
  MaxReload = 0
  MaxExpiry = 0
  None = None
PROPERTY
  SettledMatchLocks
CHECK_DEADLOCK FALSE
