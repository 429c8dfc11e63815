\* One request at a time, any call may fail, from an empty store.
SPECIFICATION FairSpec
CONSTANTS
  Procs = {p1}
  Sessions = {s1}
  Handles = {h1, h2}
  Challenges = {c1, c2}
  MaxCounter = 1
  Ops <- AllOps
  WithBasicAuth = {"login", "resend", "delReg", "signReq", "signResp"}
  StoreMayFail = TRUE
  StartUser <- NoAccount
  None = None
INVARIANTS TypeOK NoLockout
PROPERTIES EnforcementKept CounterMonotone RequestsWhole Answered
