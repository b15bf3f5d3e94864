SPECIFICATION Spec
CONSTANTS
  Code = {c1, c2}
  Family = {f1, f2}
  Pair = {p1, p2, p3}
  Tool = {t1}
  Entry = {e1, e2}
  Exchange = {x1, x2}
  Revocation = {v1}
  Bearer = {}
  NoCode = NoCode
  NoFamily = NoFamily
  NoPair = NoPair
  NoEntry = NoEntry
  CodeTTL = 1
  AccessTTL = 1
  GrantTTL = {3}
  Grace = 1
  CacheMax = 1
  MaxNow = 2
  Admin = {}
SYMMETRY Symmetry
INVARIANTS IInv OneBranch RevokedFamilyIsDead OneReplacement CodeOpensOneFamily
PROPERTIES RevocationIsFinal 

