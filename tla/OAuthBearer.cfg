SPECIFICATION Spec
CONSTANTS
  Code = {c1}
  Family = {f1}
  Pair = {p1, p2, p3}
  Tool = {t1}
  Entry = {e1, e2}
  Exchange = {x1}
  Revocation = {v1}
  Bearer = {b1}
  NoCode = NoCode
  NoFamily = NoFamily
  NoPair = NoPair
  NoEntry = NoEntry
  CodeTTL = 1
  AccessTTL = 1
  GrantTTL = {3}
  Grace = 0
  CacheMax = 1
  MaxNow = 2
  Admin = {"account"}
SYMMETRY Symmetry
PROPERTIES AdmitsOnlyCurrent KeepsPromise
