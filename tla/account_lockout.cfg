\* Two requests at a time: registering, deleting and requiring.
SPECIFICATION Spec
CONSTANTS
  Procs = {p1, p2}
  Sessions = {s1}
  Handles = {h1, h2}
  Challenges = {c1, c2}
  MaxCounter = 1
  Ops <- KeyOps
  WithBasicAuth = {"login"}
  StoreMayFail = FALSE
  StartUser <- VerifiedAccount
  None = None
SYMMETRY Symmetry
INVARIANTS NoLockout
