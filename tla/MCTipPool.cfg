SPECIFICATION Spec
CONSTANTS
  Addr = {host, fan}
  Host = host
  Nation = {mm, br}
  TxHash = {h1, h2, h3, h4}
  Amount = {0, 1}
  Approval = {2}
  Minted = 2
  NoNation = NoNation
  NoTx = NoTx
SYMMETRY Symmetry
INVARIANTS
  TypeOK
  EveryTipPaidOut
  SettleReceiptIsOutcome
  MoneyAddsUp
PROPERTIES
  SettlementFinal
  ImplementsLedger
CHECK_DEADLOCK FALSE
