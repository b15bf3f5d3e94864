SPECIFICATION FairSpec
CONSTANTS
  Call = {k1, k2}
  Admin = {"token", "allowance"}
PROPERTIES DrainEnds
