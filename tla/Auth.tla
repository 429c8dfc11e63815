-------------------------------- MODULE Auth --------------------------------
(***************************************************************************)
(* auth/auth.go and auth/sessions: the middlewares every request passes    *)
(* before its handler, and the session they save.                          *)
(***************************************************************************)
EXTENDS AccountStore

(* AuthWriteMiddlewares and AuthWriteFallBackToReadMiddlewares.  A request *)
(* without Write scope and without an Authorization header is answered 400 *)
(* by basicAuthMiddlewareWrite and touches nothing: it is not accepted.    *)
AcceptWrite(p, s, op, args) ==
  \/ /\ session[s].scope = "Write"
     /\ op \in WriteOps
     /\ Accept(p, s, op, "verified", args)
  \/ /\ session[s].scope # "Write"
     /\ op \in WithBasicAuth
     /\ Accept(p, s, op, "password", args)

(* AuthReadMiddlewares.                                                    *)
AcceptRead(p, s, op) ==
  \/ /\ session[s].scope \in {"Read", "Write"}
     /\ Accept(p, s, op, "getUser", NoArgs)
  \/ /\ session[s].scope \notin {"Read", "Write"}
     /\ op \in WithBasicAuth
     /\ Accept(p, s, op, "password", NoArgs)

(* AddUserKeyMiddleware: a session that names its user goes on to the      *)
(* handler; any other request must name the user by e-mail.                *)
AcceptIdentified(p, s, op, label, args) ==
  \/ /\ session[s].scope # "None"
     /\ Accept(p, s, op, label, args)
  \/ /\ session[s].scope = "None"
     /\ op \in WithBasicAuth
     /\ Accept(p, s, op, "identify", args)

(* The scope basicAuthMiddlewareWrite (write) or basicAuthMiddlewareRead   *)
(* puts in the session after the right password, and what was shown for it.*)
PasswordScope(op, enforced) ==
  IF op = "resend" THEN "Read" ELSE IF enforced THEN "U2fForWrite" ELSE "Write"

PasswordEvidence(op, enforced) ==
  {"password"} \cup (IF enforced \/ op = "resend" THEN {} ELSE {"exempt"})

(* basicAuthMiddlewareWrite/Read with a header: look the user up, compare  *)
(* the password, read U2fEnforced.  A wrong password leaves no trace.      *)
CheckPassword(p) ==
  LET op == req[p].op IN
  /\ req[p].pc = "password"
  /\ \/ /\ user.exists
        /\ SetScope(p, PasswordScope(op, user.enforced),
                    PasswordEvidence(op, user.enforced), "grant")
     \/ Answer(p)
  /\ UNCHANGED <<store, session, browser>>

(* AddUserKeyMiddleware finding the user by e-mail.                        *)
Identify(p) ==
  /\ req[p].pc = "identify"
  /\ \/ /\ user.exists
        /\ SetScope(p, "U2fForRead", {}, "grant")
     \/ /\ ~user.exists
        /\ Answer(p)
  /\ UNCHANGED <<store, session, browser>>

(* What follows a sess.Save: "U2F required" (401) after U2fForWrite, the   *)
(* rest of the chain for a request authenticated on its way, the answer    *)
(* for sign-up, login and an accepted signature.                           *)
AfterGrant(p) ==
  LET r == req[p] IN
  IF r.scope = "U2fForWrite" THEN Answer(p)
  ELSE IF r.op \in WriteOps THEN Goto(p, "verified")
  ELSE IF r.op = "resend" THEN Goto(p, "getUser")
  ELSE IF r.scope = "U2fForRead"
       THEN Goto(p, IF r.op = "signReq" THEN "fetchRegs" ELSE "fetchChallenge")
  ELSE Answer(p)

(* sessions.UpdateSession.                                                 *)
UpdateSession(p) ==
  /\ req[p].pc = "grant"
  /\ session' = [session EXCEPT ![req[p].sess] =
                   [scope |-> req[p].scope, earned |-> req[p].earned]]
  /\ AfterGrant(p)
  /\ UNCHANGED <<store, browser>>

(* Every caller drops the error of UpdateSession and goes on.              *)
SessionSaveFails(p) ==
  /\ StoreMayFail
  /\ req[p].pc = "grant"
  /\ AfterGrant(p)
  /\ UNCHANGED <<store, session, browser>>

(* The first call of each handler behind writeAuthCheckMiddleware;         *)
(* EnableDisableHandler counts the registrations only to enable.           *)
FirstCall(r) ==
  CASE r.op = "regReq"  -> "saveChallenge"
    [] r.op = "regResp" -> "fetchChallenge"
    [] r.op = "delReg"  -> "countRegs"
    [] OTHER (* "require" *) -> IF r.want THEN "countRegs" ELSE "getUser"

(* writeAuthCheckMiddleware.                                               *)
MayWrite_Unverified(r) == user.exists /\ r.scope = "Write"

MayWrite(r) == user.exists /\ user.verified /\ r.scope = "Write"

CheckWrite(p) ==
  /\ req[p].pc = "verified"
  /\ IF MayWrite(req[p]) THEN Goto(p, FirstCall(req[p])) ELSE Answer(p)
  /\ UNCHANGED <<store, session, browser>>

(* LogoutHandler, and a session that is gone because its ten minutes are   *)
(* over or memcache evicted it.                                            *)
ExpireSession(s) ==
  /\ session[s] # NoSession
  /\ session' = [session EXCEPT ![s] = NoSession]
  /\ UNCHANGED <<store, req, browser>>

AuthStep(p) ==
  \/ CheckPassword(p)
  \/ Identify(p)
  \/ UpdateSession(p)
  \/ SessionSaveFails(p)
  \/ CheckWrite(p)
=============================================================================
