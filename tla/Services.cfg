SPECIFICATION MCSpec
CONSTANTS
  n1 = n1  n2 = n2  t1 = t1  t2 = t2  s1 = s1  s2 = s2  r1 = r1  r2 = r2  r3 = r3
  NoTip = NoTip
  Nodes = {n1, n2}
  Tips = {t1, t2}
  Requests <- JoinsAndTips
  Reach <- OneAnother
  Recent = 2
  MaxSwarms = 2
  MaxFaults = 1
  Txs = {t1, t2}
  Pollable = {t1, t2}
  MaxRounds = 3
  StatusFaults = 1
  Subs = {s1, s2}
  Filters <- EvmFirst
  MaxConns = 2
  MaxReconnects = 1
  MaxEvents = 2
  MaxQuestions = 3
  CoachFaults = 2
  Reads = {r1, r2, r3}
  Op <- ThreeReads
  Burst = 2
  Period = 2
  Attempts = 3
  Base = 1
  Cap = 2
  Slip = 3
  MaxSlips = 1
  MaxErrors = 3
  Limit = 2
  FromBlock = 2
  Older = 4
  MaxTx = 9
  MaxRead = 15
  HistoryFaults = 4
INVARIANTS TypesOK GossipIsSound NoticesAreWanted ReadsAreSound ShownIsTrue
PROPERTIES EverythingArrives
CHECK_DEADLOCK FALSE
