SPECIFICATION Spec
CONSTANTS
  Session = {s1}
  Flow = {f1, f2}
  Cred = {c1, c2}
  Link = {l1, l2}
  Use = {}
  Url = {"https://a", "https://b"}
  Client = {"k1"}
  Name = {"ann", "bob"}
  None = None
  FirstUrl = "https://a"
  FirstClient = "k1"
  FirstName = "ann"
  Stored = TRUE
  MaxRev = 1
  MaxGen = 2
  Admin = {"user", "name", "config", "session"}
SYMMETRY Symmetry
INVARIANTS TypeOK IInv CodePresentedOnce
PROPERTY StoredUnderCurrentSettings
