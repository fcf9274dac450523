SPECIFICATION Spec
CONSTANTS
  Addr = {host, fan}
  Host = host
  Nation = {mm, br}
  TxHash = {h1, h2, h3}
  Amount = {1}
  NoNation = NoNation
  NoReceipt = NoReceipt
  nationA = mm
  nationB = br
  Cap = 2
  Cent = 2
  NoRoom = NoRoom
  Req = {r1, r2}
  Memory = FALSE
  MaxExpiry = 1
  NoBody = NoBody
SYMMETRY Symmetry
INVARIANTS
  TypeOK
  BoardProven
  CapHolds
  LockIsOutcome
  BoardCovered
CHECK_DEADLOCK FALSE
