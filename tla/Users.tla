------------------------------- MODULE Users -------------------------------
(***************************************************************************)
(* users/users.go and users/verification.go: sign-up, login, e-mail        *)
(* verification.  One action per Datastore, memcache or mail call.         *)
(***************************************************************************)
EXTENDS Auth

(* RegisterHandler (no authentication).  `want`: the body is a key pair    *)
(* that keystore.Put accepts; it is looked at only there.                  *)
Signup(p, s) ==
  /\ \E w \in BOOLEAN : Accept(p, s, "signup", "exists", [NoArgs EXCEPT !.want = w])
  /\ UNCHANGED <<store, session, browser>>

(* The query by e-mail, then the new entity is put in one call later.      *)
SignupCheck(p) ==
  /\ At(p, "signup", "exists")
  /\ IF user.exists THEN Answer(p) ELSE Goto(p, "saveUser")
  /\ UNCHANGED <<store, session, browser>>

SignupSave(p) ==
  /\ At(p, "signup", "saveUser")
  /\ Save(NewUser)
  /\ Goto(p, "saveKeys")
  /\ UNCHANGED <<keypair, mailed, regs, counter, challenge, session, browser>>

SignupKeys(p) ==
  /\ At(p, "signup", "saveKeys")
  /\ keypair' = (keypair \/ req[p].want)
  /\ IF req[p].want THEN Goto(p, "mail") ELSE Answer(p)
  /\ UNCHANGED <<user, mailed, regs, counter, challenge, session, browser>>

(* requestVerification, for sign-up and for ResendVerificationHandler; the *)
(* former opens a session with Read scope next.                            *)
RequestVerification(p) ==
  /\ req[p].pc = "mail"
  /\ mailed' = TRUE
  /\ IF req[p].op = "signup"
     THEN SetScope(p, "Read", {"password"}, "grant")
     ELSE Answer(p)
  /\ UNCHANGED <<user, keypair, regs, counter, challenge, session, browser>>

(* LoginHandler only reads; its middlewares do the work.                   *)
Login(p, s) ==
  /\ AcceptWrite(p, s, "login", NoArgs)
  /\ UNCHANGED <<store, session, browser>>

Resend(p, s) ==
  /\ AcceptRead(p, s, "resend")
  /\ UNCHANGED <<store, session, browser>>

(* VerifyUserHandler: anyone who has the mailed link, with any session.    *)
Verify(p, s) ==
  /\ mailed
  /\ Accept(p, s, "verify", "getUser", NoArgs)
  /\ UNCHANGED <<store, session, browser>>

(* GetUserByKey on behalf of a handler that goes on to use the copy.       *)
GetUserByKey(p) ==
  /\ req[p].pc = "getUser"
  /\ \/ /\ user.exists
        /\ req' = [req EXCEPT ![p].user = user,
                     ![p].pc = IF req[p].op = "resend" THEN "mail" ELSE "saveUser"]
     \/ /\ ~user.exists
        /\ Answer(p)
  /\ UNCHANGED <<store, session, browser>>

VerifiedCopy_Rebuilt(u) == VerifiedUser

VerifiedCopy(u) == [u EXCEPT !.verified = TRUE]

VerifySave(p) ==
  /\ At(p, "verify", "saveUser")
  /\ Save(VerifiedCopy(req[p].user))
  /\ Goto(p, "expire")
  /\ UNCHANGED <<keypair, mailed, regs, counter, challenge, session, browser>>

(* The session of the browser that opened the link ends; an error is       *)
(* dropped.                                                                *)
VerifyExpire(p) ==
  /\ At(p, "verify", "expire")
  /\ \/ session' = [session EXCEPT ![req[p].sess] = NoSession]
     \/ /\ StoreMayFail
        /\ session' = session
  /\ Answer(p)
  /\ UNCHANGED <<store, browser>>

UsersStep(p) ==
  \/ SignupCheck(p)
  \/ SignupSave(p)
  \/ SignupKeys(p)
  \/ RequestVerification(p)
  \/ GetUserByKey(p)
  \/ VerifySave(p)
  \/ VerifyExpire(p)
=============================================================================
