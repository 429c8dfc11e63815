-------------------------------- MODULE U2f --------------------------------
(***************************************************************************)
(* auth/u2f/u2f.go: registering and using tokens, deleting registrations,  *)
(* requiring U2F.  One action per Datastore call.  A registration entity   *)
(* is identified with its key handle: each accepted response creates one   *)
(* entity, and a token makes a new handle for each registration.  Nothing  *)
(* deletes a challenge: within its five minutes, and until the next one is *)
(* saved over it, it may be answered again.                                *)
(***************************************************************************)
EXTENDS Auth

(* RegisterRequestHandler: save a new challenge over the previous one,     *)
(* then list the registrations and hand the challenge out.                 *)
RegisterRequest(p, s) ==
  /\ \E c \in Challenges :
       /\ Fresh(c)
       /\ AcceptWrite(p, s, "regReq", [NoArgs EXCEPT !.chal = c])
  /\ UNCHANGED <<store, session, browser>>

RegisterSaveChallenge(p) ==
  /\ At(p, "regReq", "saveChallenge")
  /\ challenge' = req[p].chal
  /\ Goto(p, "fetchRegs")
  /\ UNCHANGED <<user, keypair, mailed, regs, counter, session, browser>>

RegisterHandOut(p) ==
  /\ At(p, "regReq", "fetchRegs")
  /\ issued' = issued \cup {[kind |-> "register", chal |-> req[p].chal, handles |-> {}]}
  /\ Answer(p)
  /\ UNCHANGED <<store, session, made>>

(* RegisterResponseHandler.  The browser answers a challenge with a new    *)
(* key handle; the response may arrive at any later time.                  *)
RegisterResponse(p, s) ==
  /\ \E i \in issued, h \in Handles :
       /\ i.kind = "register"
       /\ h \notin made
       /\ AcceptWrite(p, s, "regResp", [NoArgs EXCEPT !.chal = i.chal, !.handle = h])
       /\ made' = made \cup {h}
  /\ UNCHANGED <<store, session, issued>>

(* fetchChallenge, then u2f.Register or Authenticate compares it with the  *)
(* one that was signed; a mismatch or a challenge older than five minutes  *)
(* is an error.                                                            *)
FetchChallenge(p, op, next) ==
  /\ At(p, op, "fetchChallenge")
  /\ \/ /\ challenge = req[p].chal
        /\ Goto(p, next)
     \/ Answer(p)
  /\ UNCHANGED <<store, session, browser>>

RegisterFetchChallenge(p) == FetchChallenge(p, "regResp", "saveReg")

RegisterSaveRegistration(p) ==
  /\ At(p, "regResp", "saveReg")
  /\ regs' = regs \cup {req[p].handle}
  /\ Goto(p, "saveCounter")
  /\ UNCHANGED <<user, keypair, mailed, counter, challenge, session, browser>>

RegisterSaveCounter(p) ==
  /\ At(p, "regResp", "saveCounter")
  /\ counter' = [counter EXCEPT ![req[p].handle] = 0]
  /\ Goto(p, "getUser")
  /\ UNCHANGED <<user, keypair, mailed, regs, challenge, session, browser>>

RegisterSaveUser(p) ==
  /\ At(p, "regResp", "saveUser")
  /\ Save([req[p].user EXCEPT !.enforced = TRUE])
  /\ Answer(p)
  /\ UNCHANGED <<keypair, mailed, regs, counter, challenge, session, browser>>

-----------------------------------------------------------------------------
(* SignRequestHandler: the registrations first (none is an error), then    *)
(* the challenge, handed out with the handles that were listed.            *)
SignRequest(p, s) ==
  /\ \E c \in Challenges :
       /\ Fresh(c)
       /\ AcceptIdentified(p, s, "signReq", "fetchRegs", [NoArgs EXCEPT !.chal = c])
  /\ UNCHANGED <<store, session, browser>>

SignList(p) ==
  /\ At(p, "signReq", "fetchRegs")
  /\ IF regs = {} THEN Answer(p)
     ELSE req' = [req EXCEPT ![p].seen = regs, ![p].pc = "saveChallenge"]
  /\ UNCHANGED <<store, session, browser>>

SignSaveChallenge(p) ==
  /\ At(p, "signReq", "saveChallenge")
  /\ challenge' = req[p].chal
  /\ issued' = issued \cup {[kind |-> "sign", chal |-> req[p].chal, handles |-> req[p].seen]}
  /\ Answer(p)
  /\ UNCHANGED <<user, keypair, mailed, regs, counter, session, made>>

(* SignResponseHandler.  The token signs with one of the handles listed and *)
(* sends its counter: any number, for a response may be late and a token   *)
(* may be a copy that counts on its own.  VerifyU2fInProgress turns away a *)
(* session that has Read or Write scope already.                           *)
SignResponse(p, s) ==
  /\ session[s].scope \notin {"Read", "Write"}
  /\ \E i \in issued : \E h \in i.handles, n \in 0..MaxCounter :
       /\ i.kind = "sign"
       /\ AcceptIdentified(p, s, "signResp", "fetchChallenge",
            [NoArgs EXCEPT !.chal = i.chal, !.handle = h, !.ctr = n])
  /\ UNCHANGED <<store, session, browser>>

SignFetchChallenge(p) == FetchChallenge(p, "signResp", "fetchRegs")

(* No registration with the signing handle: "Unable to verify".            *)
SignMatch(p) ==
  /\ At(p, "signResp", "fetchRegs")
  /\ IF req[p].handle \in regs THEN Goto(p, "readCounter") ELSE Answer(p)
  /\ UNCHANGED <<store, session, browser>>

(* fetchCounter and Authenticate: a missing counter skips the registration, *)
(* a counter below the stored one is rejected.                             *)
CounterAccepted_Any(stored, got) == stored # -1

CounterAccepted(stored, got) == stored # -1 /\ got >= stored

SignReadCounter_Retries(p) ==
  /\ At(p, "signResp", "readCounter")
  /\ IF CounterAccepted(counter[req[p].handle], req[p].ctr)
     THEN Goto(p, "saveCounter") ELSE Goto(p, "readCounter")
  /\ UNCHANGED <<store, session, browser>>

SignReadCounter(p) ==
  /\ At(p, "signResp", "readCounter")
  /\ IF CounterAccepted(counter[req[p].handle], req[p].ctr)
     THEN Goto(p, "saveCounter") ELSE Answer(p)
  /\ UNCHANGED <<store, session, browser>>

(* The scope an accepted signature turns a session's scope into.           *)
RaisedScope_AlwaysWrite(scope) == "Write"

RaisedScope(scope) == IF scope = "U2fForRead" THEN "Read" ELSE "Write"

SignSaveCounter_OffByOne(p) ==
  LET r == req[p] IN
  /\ At(p, "signResp", "saveCounter")
  /\ counter' = [counter EXCEPT ![r.handle] = r.ctr + 1]
  /\ SetScope(p, RaisedScope(r.scope), r.earned \cup {"u2f"}, "grant")
  /\ UNCHANGED <<user, keypair, mailed, regs, challenge, session, browser>>

SignSaveCounter(p) ==
  LET r == req[p] IN
  /\ At(p, "signResp", "saveCounter")
  /\ counter' = [counter EXCEPT ![r.handle] = r.ctr]
  /\ SetScope(p, RaisedScope(r.scope), r.earned \cup {"u2f"}, "grant")
  /\ UNCHANGED <<user, keypair, mailed, regs, challenge, session, browser>>

-----------------------------------------------------------------------------
(* DeleteRegistrationHandler: any registration whose id the browser knows, *)
(* including one that was deleted meanwhile.                               *)
Delete(p, s) ==
  /\ \E h \in Handles :
       /\ h \in regs \/ counter[h] # -1
       /\ AcceptWrite(p, s, "delReg", [NoArgs EXCEPT !.handle = h])
  /\ UNCHANGED <<store, session, browser>>

(* "if this is their only registration, first disable u2f"                 *)
OnlyRegistration_Never(rs) == FALSE

OnlyRegistration_OrTwo(rs) == Cardinality(rs) \in 1..2

OnlyRegistration(rs) == Cardinality(rs) = 1

DeleteCount(p) ==
  /\ At(p, "delReg", "countRegs")
  /\ Goto(p, IF OnlyRegistration(regs) THEN "getUser" ELSE "delete")
  /\ UNCHANGED <<store, session, browser>>

DeleteSaveUser(p) ==
  /\ At(p, "delReg", "saveUser")
  /\ Save([req[p].user EXCEPT !.enforced = FALSE])
  /\ Goto(p, "delete")
  /\ UNCHANGED <<keypair, mailed, regs, counter, challenge, session, browser>>

DeleteRegistration(p) ==
  /\ At(p, "delReg", "delete")
  /\ regs' = regs \ {req[p].handle}
  /\ Answer(p)
  /\ UNCHANGED <<user, keypair, mailed, counter, challenge, session, browser>>

(* EnableDisableHandler.                                                   *)
Require(p, s) ==
  /\ \E w \in BOOLEAN : AcceptWrite(p, s, "require", [NoArgs EXCEPT !.want = w])
  /\ UNCHANGED <<store, session, browser>>

(* "if they dont have any registrations, dont let them enable u2f"         *)
MayEnable_Always(rs) == TRUE

MayEnable(rs) == rs # {}

RequireCount(p) ==
  /\ At(p, "require", "countRegs")
  /\ IF MayEnable(regs) THEN Goto(p, "getUser") ELSE Answer(p)
  /\ UNCHANGED <<store, session, browser>>

RequireSaveUser(p) ==
  /\ At(p, "require", "saveUser")
  /\ Save([req[p].user EXCEPT !.enforced = req[p].want])
  /\ Answer(p)
  /\ UNCHANGED <<keypair, mailed, regs, counter, challenge, session, browser>>

-----------------------------------------------------------------------------
(* A browser forgets a challenge: the tab is closed, the answer was lost,  *)
(* the token was not touched in time.                                      *)
Abandon(i) ==
  /\ issued' = issued \ {i}
  /\ UNCHANGED <<store, session, req, made>>

U2fStep(p) ==
  \/ RegisterSaveChallenge(p)
  \/ RegisterHandOut(p)
  \/ RegisterFetchChallenge(p)
  \/ RegisterSaveRegistration(p)
  \/ RegisterSaveCounter(p)
  \/ RegisterSaveUser(p)
  \/ SignList(p)
  \/ SignSaveChallenge(p)
  \/ SignFetchChallenge(p)
  \/ SignMatch(p)
  \/ SignReadCounter(p)
  \/ SignSaveCounter(p)
  \/ DeleteCount(p)
  \/ DeleteSaveUser(p)
  \/ DeleteRegistration(p)
  \/ RequireCount(p)
  \/ RequireSaveUser(p)
=============================================================================
