------------------------------ MODULE Account ------------------------------
(***************************************************************************)
(* The account server: the handlers of users/ and auth/u2f behind the      *)
(* middlewares of auth/, served by the processes Procs over one store.     *)
(***************************************************************************)
EXTENDS Users, U2f

(* What a browser may do.                                                  *)
Send(p, s) ==
  \/ Signup(p, s)
  \/ Login(p, s)
  \/ Verify(p, s)
  \/ Resend(p, s)
  \/ RegisterRequest(p, s)
  \/ RegisterResponse(p, s)
  \/ SignRequest(p, s)
  \/ SignResponse(p, s)
  \/ Delete(p, s)
  \/ Require(p, s)

(* What the server does with the request of process p.                     *)
Serve(p) ==
  \/ AuthStep(p)
  \/ UsersStep(p)
  \/ U2fStep(p)
  \/ StoreFails(p)

Next ==
  \/ \E p \in Procs, s \in Sessions : Send(p, s)
  \/ \E p \in Procs : Serve(p)
  \/ \E s \in Sessions : ExpireSession(s)
  \/ \E i \in issued : Abandon(i)

Spec == Init /\ [][Next]_vars

(* Go runs every handler to its end and every call of the stores returns,  *)
(* if only with an error; nothing obliges a store to fail, nor a browser   *)
(* to send a request.                                                      *)
FairSpec ==
  Spec /\ \A p \in Procs : WF_vars(AuthStep(p) \/ UsersStep(p) \/ U2fStep(p))

-----------------------------------------------------------------------------
(* The doc comment of auth/auth.go: WRITE requires the password, and the   *)
(* token too if U2F is required of the user; READ requires either.  It is  *)
(* said of the scope a session has and of the one a handler is about to    *)
(* save, so a session that logged out while a request was in flight counts.*)
Earned(scope, earned) ==
  /\ scope \in {"U2fForWrite", "Write"} => "password" \in earned
  /\ scope = "Write" => "u2f" \in earned \/ "exempt" \in earned
  /\ scope = "Read" => "u2f" \in earned \/ "password" \in earned

ScopesEarned ==
  /\ \A s \in Sessions : Earned(session[s].scope, session[s].earned)
  /\ \A p \in Procs : Earned(req[p].scope, req[p].earned)

(* u2f.go:262 and 304, "so the user doesnt get permanently locked out":    *)
(* U2F is never required of a user who has no registration.                *)
NoLockout == user.enforced => regs # {}

(* u2f.go:262, "if this is their only registration, first disable u2f": a  *)
(* deletion lifts the requirement only if it deletes the last registration.*)
LiftsForLastOnly ==
  [][\A p \in Procs : DeleteSaveUser(p) => regs \subseteq {req[p].handle}]_vars

(* users.go:49, "Registrations must contain a keypair": an account has the *)
(* key pair of its sign-up, unless the sign-up is between its Puts.        *)
AccountHasKeypair ==
  user.exists => keypair \/ \E p \in Procs : At(p, "signup", "saveKeys")

(* u2f.go:121, "force u2f for the user": only a request to lift it, or the *)
(* deletion of a registration, lifts the requirement.                      *)
EnforcementKept ==
  [][user.enforced /\ ~user'.enforced =>
       \E p \in Procs : DeleteSaveUser(p) \/ RequireSaveUser(p)]_vars

(* Registrations and the requirement change for verified users only: the   *)
(* check is made at the start of the request, the change calls later.      *)
OnlyVerifiedChange ==
  [][regs' # regs \/ user'.enforced # user.enforced => user.verified]_vars

(* A verified address stays verified, whatever copies of the user entity   *)
(* are saved meanwhile.                                                    *)
VerificationKept == [][user.verified => user'.verified]_vars

(* A stored signature counter never goes back.                             *)
CounterMonotone == [][\A h \in Handles : counter'[h] >= counter[h]]_vars

(* Every request is answered.                                              *)
Answered == \A p \in Procs : req[p].pc # "idle" ~> req[p].pc = "idle"

(* Every request takes effect on required U2F in one piece, unless one of  *)
(* its calls fails: a registration counts once its request requires U2F    *)
(* (u2f.go:101-133), and a deletion that lifts the requirement first does  *)
(* both when the entity is gone (u2f.go:262-283).  The copy a deletion made *)
(* of the user says what was required before it.                           *)
Policy == INSTANCE AccountPolicy WITH
  enrolled <- regs \ {req[p].handle : p \in {q \in Procs : req[q].op = "regResp"}},
  enforced <- user.enforced \/ \E p \in Procs : At(p, "delReg", "delete") /\ req[p].user.enforced

RequestsWhole ==
  /\ Policy!Init
  /\ [][Policy!Next \/ \E p \in Procs : StoreFails(p)]_(Policy!vars)
=============================================================================
