SPECIFICATION SSpec
SYMMETRY Interchangeable
CONSTANTS
  c1 = c1  c2 = c2  c3 = c3  c4 = c4  s1 = s1  s2 = s2  junk = junk  p1 = p1  p2 = p2  ch1 = ch1  ch2 = ch2
  Calls = {c1, c2, c3, c4}
  Seeds = {s1, s2}
  Junk = {}
  Passwords = {p1, p2}
  Chains = {ch1}
  Unknown = ch2
  None = None
INVARIANTS STypeOK KeysInHand SignedByCallersSeed BridgeIsWhole ShownLockedIsLocked OpenWalletIsStored
PROPERTIES NothingOverwritten
CHECK_DEADLOCK FALSE
