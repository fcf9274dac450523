SPECIFICATION Spec
CONSTANTS
  Addr = {host, fan}
  Host = host
  Nation = {mm, br}
  TxHash = {h1, h2}
  Amount = {1}
  NoNation = NoNation
  NoReceipt = NoReceipt
  nationA = mm
  nationB = br
  Cap = 0
  Cent = 2
  NoRoom = NoRoom
  Req = {r1, r2}
  Memory = FALSE
  MaxExpiry = 0
  NoBody = NoBody
SYMMETRY Symmetry
PROPERTY
  AppendKeepsAccepted
CHECK_DEADLOCK FALSE
