SPECIFICATION Spec
CONSTANTS
  Session = {s1}
  Flow = {f1}
  Cred = {c1, c2}
  Link = {l1}
  Use = {u1, u2}
  Url = {"https://a", "https://b"}
  Client = {"k1"}
  Name = {"ann"}
  None = None
  FirstUrl = "https://a"
  FirstClient = "k1"
  FirstName = "ann"
  Stored = TRUE
  MaxRev = 1
  MaxGen = 2
  Admin = {"instance", "credential"}
SYMMETRY Symmetry
INVARIANTS IInv TokenStaysHome RefreshSerialized LatestKept
