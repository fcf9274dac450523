SPECIFICATION Spec
CONSTANTS
  Addr = {host, fan}
  Host = host
  Nation = {mm, br, zz}
  TxHash = {h1, h2, h3}
  Amount = {1}
  NoNation = NoNation
  NoReceipt = NoReceipt
  nationA = mm
  nationB = br
  Cap = 1
  Cent = 2
  NoRoom = NoRoom
  Req = {r1, r2}
  Memory = TRUE
  MaxExpiry = 1
  NoBody = NoBody
SYMMETRY Symmetry
INVARIANT
  AcceptedStays
PROPERTIES
  LockIsFinal
  ImplementsBoard
CHECK_DEADLOCK FALSE
