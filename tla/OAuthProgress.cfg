SPECIFICATION FairSpec
CONSTANTS
  Code = {c1}
  Family = {f1}
  Pair = {p1, p2}
  Tool = {t1}
  Entry = {e1, e2}
  Exchange = {x1, x2}
  Revocation = {v1}
  Bearer = {}
  NoCode = NoCode
  NoFamily = NoFamily
  NoPair = NoPair
  NoEntry = NoEntry
  CodeTTL = 1
  AccessTTL = 1
  GrantTTL = {3}
  Grace = 1
  CacheMax = 1
  MaxNow = 1
  Admin = {}
PROPERTIES EveryExchangeEnds EveryRevocationEnds
