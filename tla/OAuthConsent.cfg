SPECIFICATION Spec
CONSTANTS
  Code = {c1}
  Family = {f1}
  Pair = {p1, p2}
  Tool = {t1, t2}
  Entry = {e1, e2}
  Exchange = {x1}
  Revocation = {}
  Bearer = {}
  NoCode = NoCode
  NoFamily = NoFamily
  NoPair = NoPair
  NoEntry = NoEntry
  CodeTTL = 1
  AccessTTL = 2
  GrantTTL = {1, 2}
  Grace = 1
  CacheMax = 1
  MaxNow = 1
  Admin = {"account", "allowance", "setting", "grant"}
SYMMETRY Symmetry
INVARIANTS WithinConsent
