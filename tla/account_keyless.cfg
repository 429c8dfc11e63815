\* One sign-up at a time; no call fails.
SPECIFICATION Spec
CONSTANTS
  Procs = {p1}
  Sessions = {s1}
  Handles = {h1, h2}
  Challenges = {c1, c2}
  MaxCounter = 1
  Ops <- EntryOps
  WithBasicAuth = {"login"}
  StoreMayFail = FALSE
  StartUser <- NoAccount
  None = None
SYMMETRY Symmetry
INVARIANTS AccountHasKeypair
