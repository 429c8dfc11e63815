----------------------------- MODULE MCAccount -----------------------------
(* Small instances of Account.                                             *)
EXTENDS Account, TLC

NoAccount       == NoUser
NewAccount      == NewUser
VerifiedAccount == VerifiedUser

SettledOps == AllOps \ {"signup"}
EntryOps == {"signup", "login", "verify", "resend"}
KeyOps   == {"login", "delReg", "require", "regReq", "regResp"}

Symmetry == Permutations(Procs) \cup Permutations(Sessions)
            \cup Permutations(Handles) \cup Permutations(Challenges)
=============================================================================
