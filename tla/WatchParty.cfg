SPECIFICATION Spec
CONSTANTS
  Addr = {host, fan}
  Host = host
  Nation = {mm, br}
  TxHash = {h1, h2}
  Amount = {1}
  NoNation = NoNation
  NoReceipt = NoReceipt
  nationA = mm
  nationB = br
  Cap = 1
  Cent = 2
  NoRoom = NoRoom
  Reliable = FALSE
  MaxReload = 1
  MaxExpiry = 1
  None = None
SYMMETRY Symmetry
INVARIANTS
  TypeOK
  ScoreIsTrue
  LockShownIsTrue
CHECK_DEADLOCK FALSE
