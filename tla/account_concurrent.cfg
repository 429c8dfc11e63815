\* Two requests at a time on one session of a user not verified yet; sign-up is done.
SPECIFICATION Spec
CONSTANTS
  Procs = {p1, p2}
  Sessions = {s1}
  Handles = {h1, h2}
  Challenges = {c1, c2}
  MaxCounter = 0
  Ops <- SettledOps
  WithBasicAuth = {"login", "resend", "signReq", "signResp"}
  StoreMayFail = FALSE
  StartUser <- NewAccount
  None = None
SYMMETRY Symmetry
INVARIANTS ScopesEarned
PROPERTIES VerificationKept OnlyVerifiedChange
