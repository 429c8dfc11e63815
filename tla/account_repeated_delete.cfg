\* One request at a time: a deletion sent twice.
SPECIFICATION Spec
CONSTANTS
  Procs = {p1}
  Sessions = {s1}
  Handles = {h1, h2}
  Challenges = {c1, c2}
  MaxCounter = 1
  Ops <- KeyOps
  WithBasicAuth = {"login"}
  StoreMayFail = FALSE
  StartUser <- VerifiedAccount
  None = None
SYMMETRY Symmetry
PROPERTIES LiftsForLastOnly
