------------------------ MODULE AccountKeeps_proofs ------------------------
(***************************************************************************)
(* More theorems about Account: what handlers that overlap do not undo.    *)
(* How a request moves from call to call is stated once (Moves), and who   *)
(* writes what (Writers); the invariants follow from these.                *)
(***************************************************************************)
EXTENDS Account_proofs

LEMMA TypeInvHolds == Spec => []TypeInv
BY InitType, StepType, PTL DEF Spec

(* The calls before a handler behind writeAuthCheckMiddleware begins.      *)
Before == {"idle", "password", "grant", "verified", "identify", "mail"}

(* The calls of a response to a registration until its counter is stored.  *)
Unsaved == (Before \ {"idle", "mail"}) \cup {"fetchChallenge", "saveReg", "saveCounter"}

(* The calls of a sign-up.                                                 *)
SignupCalls == {"exists", "saveUser", "saveKeys", "mail", "grant", "fetchChallenge"}

Starts(q) ==
  /\ req[q].pc = "idle" /\ req'[q].op \in Ops
  /\ req'[q].pc \notin {"idle", "saveUser", "saveCounter"}
  /\ req'[q].user = NoUser
  /\ req'[q].op = "signup" => req'[q].pc = "exists"
  /\ req'[q].op \in WriteOps => req'[q].pc \in {"password", "verified"}
  /\ req'[q].op = "regResp" => req'[q].handle \in made' \ made

SameArgs(q) ==
  /\ req'[q].op = req[q].op /\ req'[q].handle = req[q].handle
  /\ req'[q].ctr = req[q].ctr

(* What request q does not do on its way to the call named label.          *)
MayGo(q, label) ==
  /\ label # "idle"
  /\ label = "saveUser" => req[q].op = "signup" /\ ~user.exists
  /\ req[q].op = "signup" /\ req[q].pc \in SignupCalls => label \in SignupCalls
  /\ req[q].op \in WriteOps /\ label \notin Before => req[q].pc \notin Before \/ user.verified
  /\ req[q].op = "regResp" =>
       \/ label = "getUser"
       \/ label = "saveCounter" /\ req[q].pc \in Unsaved
       \/ label \in Unsaved \ {"saveCounter"} /\ req[q].pc \in Unsaved \ {"saveCounter"}
  /\ req[q].op = "delReg" =>
       \/ label \in Before \cup {"countRegs"} /\ req[q].pc \in Before
       \/ label = "getUser" /\ req[q].pc = "countRegs" /\ OnlyRegistration(regs)
       \/ label = "delete" /\ req[q].pc = "countRegs" /\ ~OnlyRegistration(regs)
       \/ label = "delete" /\ req[q].pc = "saveUser" /\ ~user'.enforced
  /\ req[q].op = "signResp" /\ label = "saveCounter" =>
       CounterAccepted(counter[req[q].handle], req[q].ctr)

Goes(q) == SameArgs(q) /\ req'[q].user = req[q].user /\ MayGo(q, req'[q].pc)

Copies(q) ==
  /\ SameArgs(q) /\ req[q].pc = "getUser"
  /\ req'[q].pc = IF req[q].op = "resend" THEN "mail" ELSE "saveUser"
  /\ user.exists /\ req'[q].user = user

MovesOn(p) ==
  /\ req'[p] = Idle \/ Starts(p) \/ Goes(p) \/ Copies(p)
  /\ \A q \in Procs : q # p => req'[q] = req[q]

Moves == UNCHANGED req \/ \E p \in Procs : MovesOn(p)

LEMMA MovesOf ==
  ASSUME TypeInv, NEW p \in Procs, NEW r, req' = [req EXCEPT ![p] = r],
         r = Idle \/ Starts(p) \/ Goes(p) \/ Copies(p)
  PROVE  MovesOn(p)
BY DEF MovesOn, TypeInv, TypeOK

LEMMA AnswerMoves ==
  ASSUME TypeInv, NEW p \in Procs, Answer(p) PROVE MovesOn(p)
BY MovesOf DEF Answer

LEMMA GotoMoves ==
  ASSUME TypeInv, NEW p \in Procs, NEW label, Goto(p, label), MayGo(p, label) PROVE MovesOn(p)
<1>1. Fields(req'[p], p, label) /\ req'[p].ctr = req[p].ctr
  BY GotoFields DEF Goto, TypeInv, TypeOK, Request
<1>2. Goes(p) BY <1>1 DEF Goes, SameArgs, Fields
<1> QED BY <1>2, MovesOf DEF Goto

LEMMA SetScopeMoves ==
  ASSUME TypeInv, NEW p \in Procs, NEW scope, NEW earned, SetScope(p, scope, earned, "grant"),
         \/ req[p].pc \in {"password", "identify"}
         \/ At(p, "signup", "mail")
         \/ At(p, "signResp", "saveCounter")
  PROVE  MovesOn(p)
<1>1. Fields(req'[p], p, "grant") /\ req'[p].ctr = req[p].ctr
  BY SetScopeFields DEF SetScope, TypeInv, TypeOK, Request
<1>2. MayGo(p, "grant") BY DEF MayGo, Before, Unsaved, SignupCalls, At
<1>3. Goes(p) BY <1>1, <1>2 DEF Goes, SameArgs, Fields
<1> DEFINE r == [req[p] EXCEPT !.scope = scope, !.earned = earned, !.pc = "grant"]
<1>4. req' = [req EXCEPT ![p] = r] BY DEF SetScope
<1> HIDE DEF r
<1> QED BY <1>3, <1>4, MovesOf

LEMMA AcceptMoves ==
  ASSUME TypeInv, NEW p \in Procs, NEW s, NEW op, NEW label, NEW args,
         Accept(p, s, op, label, args),
         label \notin {"idle", "saveUser", "saveCounter"},
         op = "signup" => label = "exists",
         op \in WriteOps => label \in {"password", "verified"},
         op = "regResp" => args.handle \in made' \ made
  PROVE  MovesOn(p)
<1>1. /\ req'[p].op = op /\ req'[p].pc = label /\ req'[p].handle = args.handle
      /\ req[p].pc = "idle" /\ op \in Ops /\ req'[p].user = NoUser
  BY DEF Accept, TypeInv, TypeOK
<1>2. Starts(p) BY <1>1 DEF Starts
<1> QED BY <1>2, MovesOf DEF Accept

LEMMA SendMoves ==
  ASSUME TypeInv, NEW p \in Procs, NEW s \in Sessions, Send(p, s) PROVE MovesOn(p)
<1> USE DEF AcceptWrite, AcceptRead, AcceptIdentified, WriteOps, Before
<1>1. CASE Signup(p, s) BY <1>1, AcceptMoves DEF Signup
<1>2. CASE Login(p, s) BY <1>2, AcceptMoves DEF Login
<1>3. CASE Verify(p, s) BY <1>3, AcceptMoves DEF Verify
<1>4. CASE Resend(p, s) BY <1>4, AcceptMoves DEF Resend
<1>5. CASE RegisterRequest(p, s) BY <1>5, AcceptMoves DEF RegisterRequest
<1>6. CASE RegisterResponse(p, s)
  <2>1. PICK i \in issued, h \in Handles :
          /\ h \notin made
          /\ AcceptWrite(p, s, "regResp", [NoArgs EXCEPT !.chal = i.chal, !.handle = h])
          /\ made' = made \cup {h}
    BY <1>6 DEF RegisterResponse
  <2> DEFINE args == [NoArgs EXCEPT !.chal = i.chal, !.handle = h]
  <2>2. args.handle \in made' \ made BY <2>1 DEF NoArgs
  <2>3. Accept(p, s, "regResp", "verified", args) \/ Accept(p, s, "regResp", "password", args)
    BY <2>1
  <2> HIDE DEF args
  <2> QED BY <2>2, <2>3, AcceptMoves
<1>7. CASE SignRequest(p, s) BY <1>7, AcceptMoves DEF SignRequest
<1>8. CASE SignResponse(p, s) BY <1>8, AcceptMoves DEF SignResponse
<1>9. CASE Delete(p, s) BY <1>9, AcceptMoves DEF Delete
<1>10. CASE Require(p, s) BY <1>10, AcceptMoves DEF Require
<1> QED
  BY <1>1, <1>2, <1>3, <1>4, <1>5, <1>6, <1>7, <1>8, <1>9, <1>10 DEF Send

LEMMA AuthMoves ==
  ASSUME TypeInv, NEW p \in Procs, AuthStep(p) PROVE MovesOn(p)
<1> USE DEF MayGo, Before, Unsaved, SignupCalls, WriteOps
<1>a. req[p].pc = "grant" /\ AfterGrant(p) => MovesOn(p)
  BY GotoMoves, AnswerMoves DEF AfterGrant
<1>1. CASE CheckPassword(p) BY <1>1, SetScopeMoves, AnswerMoves DEF CheckPassword
<1>2. CASE Identify(p) BY <1>2, SetScopeMoves, AnswerMoves DEF Identify
<1>3. CASE UpdateSession(p) BY <1>3, <1>a DEF UpdateSession
<1>4. CASE SessionSaveFails(p) BY <1>4, <1>a DEF SessionSaveFails
<1>5. CASE CheckWrite(p)
  <2>1. MayWrite(req[p]) => MayGo(p, FirstCall(req[p]))
    BY <1>5 DEF CheckWrite, MayWrite, FirstCall
  <2> QED BY <1>5, <2>1, GotoMoves, AnswerMoves DEF CheckWrite
<1> QED BY <1>1, <1>2, <1>3, <1>4, <1>5 DEF AuthStep

LEMMA UsersMoves ==
  ASSUME TypeInv, NEW p \in Procs, UsersStep(p) PROVE MovesOn(p)
<1> USE DEF MayGo, Before, Unsaved, SignupCalls, WriteOps, At
<1>1. CASE SignupCheck(p) BY <1>1, GotoMoves, AnswerMoves DEF SignupCheck
<1>2. CASE SignupSave(p) BY <1>2, GotoMoves DEF SignupSave
<1>3. CASE SignupKeys(p) BY <1>3, GotoMoves, AnswerMoves DEF SignupKeys
<1>4. CASE RequestVerification(p)
  BY <1>4, SetScopeMoves, AnswerMoves DEF RequestVerification
<1>5. CASE GetUserByKey(p)
  <2> DEFINE r == [req[p] EXCEPT !.user = user,
                     !.pc = IF req[p].op = "resend" THEN "mail" ELSE "saveUser"]
  <2>1. CASE user.exists /\ req' = [req EXCEPT ![p] = r]
    <3>1. /\ r.op = req[p].op /\ r.handle = req[p].handle /\ r.ctr = req[p].ctr
          /\ r.user = user
          /\ r.pc = IF req[p].op = "resend" THEN "mail" ELSE "saveUser"
      BY DEF TypeInv, TypeOK, Request
    <3> HIDE DEF r
    <3>2. req'[p] = r BY <2>1 DEF TypeInv, TypeOK
    <3>3. Copies(p) BY <1>5, <2>1, <3>1, <3>2 DEF GetUserByKey, Copies, SameArgs
    <3> QED BY <2>1, <3>3, MovesOf
  <2>2. CASE Answer(p) BY <2>2, AnswerMoves
  <2> QED BY <1>5, <2>1, <2>2 DEF GetUserByKey
<1>6. CASE VerifySave(p) BY <1>6, GotoMoves DEF VerifySave
<1>7. CASE VerifyExpire(p) BY <1>7, AnswerMoves DEF VerifyExpire
<1> QED BY <1>1, <1>2, <1>3, <1>4, <1>5, <1>6, <1>7 DEF UsersStep

LEMMA U2fMoves ==
  ASSUME TypeInv, NEW p \in Procs, U2fStep(p) PROVE MovesOn(p)
<1> USE DEF MayGo, Before, Unsaved, SignupCalls, WriteOps, At
<1>1. CASE RegisterSaveChallenge(p) BY <1>1, GotoMoves DEF RegisterSaveChallenge
<1>2. CASE RegisterHandOut(p) BY <1>2, AnswerMoves DEF RegisterHandOut
<1>3. CASE RegisterFetchChallenge(p)
  BY <1>3, GotoMoves, AnswerMoves DEF RegisterFetchChallenge, FetchChallenge
<1>4. CASE RegisterSaveRegistration(p) BY <1>4, GotoMoves DEF RegisterSaveRegistration
<1>5. CASE RegisterSaveCounter(p) BY <1>5, GotoMoves DEF RegisterSaveCounter
<1>6. CASE RegisterSaveUser(p) BY <1>6, AnswerMoves DEF RegisterSaveUser
<1>7. CASE SignList(p)
  <2> DEFINE r == [req[p] EXCEPT !.seen = regs, !.pc = "saveChallenge"]
  <2>1. CASE req' = [req EXCEPT ![p] = r] /\ At(p, "signReq", "fetchRegs")
    <3>1. /\ r.op = req[p].op /\ r.handle = req[p].handle /\ r.ctr = req[p].ctr
          /\ r.user = req[p].user /\ r.pc = "saveChallenge"
      BY DEF TypeInv, TypeOK, Request
    <3> HIDE DEF r
    <3>2. req'[p] = r BY <2>1 DEF TypeInv, TypeOK
    <3>3. Goes(p) BY <2>1, <3>1, <3>2 DEF Goes, SameArgs
    <3> QED BY <2>1, <3>3, MovesOf
  <2>2. CASE Answer(p) BY <2>2, AnswerMoves
  <2> QED BY <1>7, <2>1, <2>2 DEF SignList
<1>8. CASE SignSaveChallenge(p) BY <1>8, AnswerMoves DEF SignSaveChallenge
<1>9. CASE SignFetchChallenge(p)
  BY <1>9, GotoMoves, AnswerMoves DEF SignFetchChallenge, FetchChallenge
<1>10. CASE SignMatch(p) BY <1>10, GotoMoves, AnswerMoves DEF SignMatch
<1>11. CASE SignReadCounter(p) BY <1>11, GotoMoves, AnswerMoves DEF SignReadCounter
<1>12. CASE SignSaveCounter(p) BY <1>12, SetScopeMoves DEF SignSaveCounter
<1>13. CASE DeleteCount(p) BY <1>13, GotoMoves DEF DeleteCount
<1>14. CASE DeleteSaveUser(p)
  <2>1. req[p].user \in User BY DEF TypeInv, TypeOK, Request
  <2>2. ~user'.enforced BY <1>14, <2>1 DEF DeleteSaveUser, Save, User
  <2> QED BY <1>14, <2>2, GotoMoves DEF DeleteSaveUser
<1>15. CASE DeleteRegistration(p) BY <1>15, AnswerMoves DEF DeleteRegistration
<1>16. CASE RequireCount(p) BY <1>16, GotoMoves, AnswerMoves DEF RequireCount
<1>17. CASE RequireSaveUser(p) BY <1>17, AnswerMoves DEF RequireSaveUser
<1> QED
  BY <1>1, <1>2, <1>3, <1>4, <1>5, <1>6, <1>7, <1>8, <1>9, <1>10, <1>11, <1>12,
     <1>13, <1>14, <1>15, <1>16, <1>17 DEF U2fStep

LEMMA StepMoves == ASSUME TypeInv, [Next]_vars PROVE Moves
<1>1. ASSUME NEW p \in Procs, Serve(p) PROVE MovesOn(p)
  BY <1>1, AuthMoves, UsersMoves, U2fMoves, AnswerMoves DEF Serve, StoreFails
<1> QED BY <1>1, SendMoves DEF Next, ExpireSession, Abandon, vars, Moves

-----------------------------------------------------------------------------
(* Who writes the user entity and the registrations.                       *)
LEMMA UserWriters ==
  ASSUME [Next]_vars
  PROVE  \/ user' = user
         \/ \E p \in Procs :
              /\ req[p].pc = "saveUser"
              /\ \/ req[p].op = "signup" /\ SignupSave(p)
                 \/ req[p].op = "verify" /\ VerifySave(p)
                 \/ /\ req[p].op \in WriteOps
                    /\ DeleteSaveUser(p) \/ RequireSaveUser(p) \/ RegisterSaveUser(p)
                    /\ \E e \in {TRUE, FALSE, req[p].want} :
                         user' = [req[p].user EXCEPT !.enforced = e]
<1> USE DEF store, browser, At, WriteOps, Save
<1>1. ASSUME NEW p \in Procs, UsersStep(p), ~SignupSave(p), ~VerifySave(p) PROVE user' = user
  BY <1>1 DEF UsersStep, SignupCheck, SignupKeys, RequestVerification, GetUserByKey, VerifyExpire
<1>2. ASSUME NEW p \in Procs, U2fStep(p), ~DeleteSaveUser(p), ~RequireSaveUser(p),
             ~RegisterSaveUser(p)
      PROVE  user' = user
  BY <1>2
     DEF U2fStep, RegisterSaveChallenge, RegisterHandOut, RegisterFetchChallenge, FetchChallenge,
         RegisterSaveRegistration, RegisterSaveCounter, SignList, SignSaveChallenge,
         SignFetchChallenge, SignMatch, SignReadCounter, SignSaveCounter, DeleteCount,
         DeleteRegistration, RequireCount
<1>3. ASSUME NEW p \in Procs, AuthStep(p) \/ StoreFails(p) PROVE user' = user
  BY <1>3
     DEF AuthStep, CheckPassword, Identify, UpdateSession, SessionSaveFails, CheckWrite, StoreFails
<1>4. ASSUME NEW p \in Procs, NEW s \in Sessions, Send(p, s) PROVE user' = user
  BY <1>4
     DEF Send, Signup, Login, Verify, Resend, RegisterRequest, RegisterResponse, SignRequest,
         SignResponse, Delete, Require
<1>5. ASSUME NEW p \in Procs, DeleteSaveUser(p) \/ RequireSaveUser(p) \/ RegisterSaveUser(p)
      PROVE  /\ req[p].pc = "saveUser" /\ req[p].op \in WriteOps
             /\ \E e \in {TRUE, FALSE, req[p].want} : user' = [req[p].user EXCEPT !.enforced = e]
  BY <1>5 DEF DeleteSaveUser, RequireSaveUser, RegisterSaveUser
<1>6. ASSUME NEW p \in Procs, SignupSave(p) \/ VerifySave(p)
      PROVE  /\ req[p].pc = "saveUser"
             /\ \/ req[p].op = "signup" /\ SignupSave(p)
                \/ req[p].op = "verify" /\ VerifySave(p)
  BY <1>6 DEF SignupSave, VerifySave
<1> QED
  BY <1>1, <1>2, <1>3, <1>4, <1>5, <1>6 DEF Next, Serve, ExpireSession, Abandon, vars

LEMMA RegsWriters ==
  ASSUME [Next]_vars
  PROVE  \/ regs' = regs
         \/ \E p \in Procs : RegisterSaveRegistration(p) \/ DeleteRegistration(p)
<1> USE DEF store, browser
<1>1. ASSUME NEW p \in Procs, UsersStep(p) PROVE regs' = regs
  BY <1>1
     DEF UsersStep, SignupCheck, SignupSave, SignupKeys, RequestVerification, GetUserByKey,
         VerifySave, VerifyExpire
<1>2. ASSUME NEW p \in Procs, U2fStep(p), ~RegisterSaveRegistration(p), ~DeleteRegistration(p)
      PROVE  regs' = regs
  BY <1>2
     DEF U2fStep, RegisterSaveChallenge, RegisterHandOut, RegisterFetchChallenge, FetchChallenge,
         RegisterSaveUser, RegisterSaveCounter, SignList, SignSaveChallenge, SignFetchChallenge,
         SignMatch, SignReadCounter, SignSaveCounter, DeleteCount, DeleteSaveUser, RequireCount,
         RequireSaveUser
<1>3. ASSUME NEW p \in Procs, AuthStep(p) \/ StoreFails(p) PROVE regs' = regs
  BY <1>3
     DEF AuthStep, CheckPassword, Identify, UpdateSession, SessionSaveFails, CheckWrite, StoreFails
<1>4. ASSUME NEW p \in Procs, NEW s \in Sessions, Send(p, s) PROVE regs' = regs
  BY <1>4
     DEF Send, Signup, Login, Verify, Resend, RegisterRequest, RegisterResponse, SignRequest,
         SignResponse, Delete, Require
<1> QED BY <1>1, <1>2, <1>3, <1>4 DEF Next, Serve, ExpireSession, Abandon, vars

LEMMA CounterWriters ==
  ASSUME [Next]_vars
  PROVE  \/ counter' = counter
         \/ \E p \in Procs : RegisterSaveCounter(p) \/ SignSaveCounter(p)
<1> USE DEF store, browser
<1>1. ASSUME NEW p \in Procs, UsersStep(p) PROVE counter' = counter
  BY <1>1
     DEF UsersStep, SignupCheck, SignupSave, SignupKeys, RequestVerification, GetUserByKey,
         VerifySave, VerifyExpire
<1>2. ASSUME NEW p \in Procs, U2fStep(p), ~RegisterSaveCounter(p), ~SignSaveCounter(p)
      PROVE  counter' = counter
  BY <1>2
     DEF U2fStep, RegisterSaveChallenge, RegisterHandOut, RegisterFetchChallenge, FetchChallenge,
         RegisterSaveUser, RegisterSaveRegistration, SignList, SignSaveChallenge,
         SignFetchChallenge, SignMatch, SignReadCounter, DeleteCount, DeleteSaveUser,
         DeleteRegistration, RequireCount, RequireSaveUser
<1>3. ASSUME NEW p \in Procs, AuthStep(p) \/ StoreFails(p) PROVE counter' = counter
  BY <1>3
     DEF AuthStep, CheckPassword, Identify, UpdateSession, SessionSaveFails, CheckWrite, StoreFails
<1>4. ASSUME NEW p \in Procs, NEW s \in Sessions, Send(p, s) PROVE counter' = counter
  BY <1>4
     DEF Send, Signup, Login, Verify, Resend, RegisterRequest, RegisterResponse, SignRequest,
         SignResponse, Delete, Require
<1> QED BY <1>1, <1>2, <1>3, <1>4 DEF Next, Serve, ExpireSession, Abandon, vars

-----------------------------------------------------------------------------
(* Verified users.  Past writeAuthCheckMiddleware the user is verified, in *)
(* the store and in the copy a handler saves; what a late verification     *)
(* saves does not require U2F of a user who is not verified.  A sign-up    *)
(* that overlaps another would replace the user by one who is not.         *)
Orderly == Serial \/ "signup" \notin Ops

ByVerified(p) ==
  /\ req[p].op \in Ops \cup {"none"}
  /\ req[p].op \in WriteOps /\ req[p].pc \notin Before => user.verified
  /\ req[p].op = "signup" => req[p].pc \in SignupCalls
  /\ req[p].op = "signup" /\ req[p].pc = "saveUser" => ~user.exists
  /\ req[p].op # "signup" /\ req[p].pc = "saveUser" =>
       /\ user.exists /\ req[p].user.exists
       /\ req[p].user.enforced => user.verified
       /\ req[p].op \in WriteOps => req[p].user.verified

Verified ==
  /\ user.enforced => user.verified
  /\ user.verified => user.exists
  /\ \A p \in Procs : ByVerified(p)

(* What a step does to the user of whom Verified holds.                    *)
LEMMA UserMoves ==
  ASSUME Orderly, TypeInv, Verified, [Next]_vars
  PROVE  /\ user.verified => user'.verified
         /\ user.exists => user'.exists
         /\ user'.enforced => user'.verified
         /\ user'.verified => user'.exists
         /\ user'.enforced # user.enforced => user.verified
         /\ user'.exists => user.exists \/ \A p \in Procs : req'[p].pc # "saveUser"
<1>0. user \in User BY DEF TypeInv, TypeOK
<1>1. CASE user' = user BY <1>1 DEF Verified
<1>2. ASSUME NEW p \in Procs, req[p].pc = "saveUser", req[p].op = "signup", SignupSave(p)
      PROVE  /\ ~user.exists /\ ~user.verified /\ ~user.enforced
             /\ \A q \in Procs : req'[q].pc # "saveUser"
             /\ user'.exists /\ user'.verified = FALSE /\ user'.enforced = FALSE
  <2>1. /\ user'.exists /\ user'.verified = FALSE /\ user'.enforced = FALSE
    BY <1>2 DEF SignupSave, Save, NewUser, NoUser
  <2>2. \A q \in Procs : q = p
    BY <1>2 DEF Orderly, Serial, Verified, ByVerified
  <2>3. req'[p].pc = "saveKeys" BY <1>2, GotoFields DEF SignupSave, Fields
  <2> QED BY <1>2, <2>1, <2>2, <2>3 DEF Verified, ByVerified
<1>3. ASSUME NEW p \in Procs, req[p].pc = "saveUser", req[p].op = "verify", VerifySave(p)
      PROVE  user'.verified /\ user'.exists /\ (user'.enforced => user.verified) /\ user.exists
  <2>1. req[p].user \in User BY DEF TypeInv, TypeOK, Request
  <2>2. user'.verified /\ user'.exists = req[p].user.exists /\ user'.enforced = req[p].user.enforced
    BY <1>3, <2>1 DEF VerifySave, Save, VerifiedCopy, User
  <2> QED BY <1>3, <2>2 DEF Verified, ByVerified
<1>4. ASSUME NEW p \in Procs, req[p].pc = "saveUser", req[p].op \in WriteOps,
             NEW e \in {TRUE, FALSE, req[p].want}, user' = [req[p].user EXCEPT !.enforced = e]
      PROVE  user'.verified /\ user'.exists /\ user.verified
  <2>1. req[p].user \in User BY DEF TypeInv, TypeOK, Request
  <2>2. user'.verified = req[p].user.verified /\ user'.exists = req[p].user.exists
    BY <1>4, <2>1 DEF User
  <2>3. req[p].op # "signup" BY <1>4 DEF WriteOps
  <2>4. req[p].user.exists /\ req[p].user.verified /\ user.verified
    BY <1>4, <2>3 DEF Verified, ByVerified, Before
  <2> QED BY <2>2, <2>4
<1>5. user'.enforced \in BOOLEAN /\ user.enforced \in BOOLEAN
  BY <1>0, StepType DEF TypeInv, TypeOK, User
<1>6. CASE user' # user
  <2>1. PICK p \in Procs :
          /\ req[p].pc = "saveUser"
          /\ \/ req[p].op = "signup" /\ SignupSave(p)
             \/ req[p].op = "verify" /\ VerifySave(p)
             \/ /\ req[p].op \in WriteOps
                /\ \E e \in {TRUE, FALSE, req[p].want} : user' = [req[p].user EXCEPT !.enforced = e]
    BY <1>6, UserWriters
  <2>2. CASE req[p].op = "signup" /\ SignupSave(p) BY <1>2, <1>5, <2>1, <2>2
  <2>3. CASE req[p].op = "verify" /\ VerifySave(p)
    BY <1>3, <1>5, <2>1, <2>3 DEF Verified
  <2>4. CASE /\ req[p].op \in WriteOps
             /\ \E e \in {TRUE, FALSE, req[p].want} : user' = [req[p].user EXCEPT !.enforced = e]
    BY <1>4, <2>1, <2>4 DEF Verified
  <2> QED BY <2>1, <2>2, <2>3, <2>4
<1> QED BY <1>1, <1>6

LEMMA StepVerified == ASSUME Orderly PROVE TypeInv /\ Verified /\ [Next]_vars => Verified'
<1> SUFFICES ASSUME TypeInv, Verified, [Next]_vars, NEW q \in Procs PROVE ByVerified(q)'
  BY UserMoves DEF Verified
<1>0. /\ user.verified => user'.verified
      /\ user.exists => user'.exists
      /\ user'.exists => user.exists \/ \A p \in Procs : req'[p].pc # "saveUser"
      /\ ByVerified(q) /\ (user.enforced => user.verified)
  BY UserMoves DEF Verified
<1>1. \/ req'[q] = req[q] \/ req'[q] = Idle \/ Starts(q) \/ Goes(q) \/ Copies(q)
  BY StepMoves DEF Moves, MovesOn
<1>2. CASE req'[q] = req[q] BY <1>0, <1>2 DEF ByVerified
<1>3. CASE req'[q] = Idle BY <1>3 DEF ByVerified, Idle, WriteOps
<1>4. CASE Starts(q) BY <1>4 DEF Starts, ByVerified, SignupCalls, Before
<1>5. CASE Goes(q) BY <1>0, <1>5 DEF Goes, SameArgs, MayGo, ByVerified, WriteOps
<1>6. CASE Copies(q)
  <2>1. req[q].op # "signup" BY <1>0, <1>6 DEF Copies, ByVerified, SignupCalls
  <2> QED BY <1>0, <1>6, <2>1 DEF Copies, SameArgs, ByVerified, Before
<1> QED BY <1>1, <1>2, <1>3, <1>4, <1>5, <1>6

LEMMA VerifiedHolds == ASSUME Orderly PROVE Spec => []Verified
<1>1. Init => Verified
  <2>1. /\ StartUser.enforced = FALSE
        /\ StartUser.verified => StartUser.exists
    <3>1. NoUser.enforced = FALSE /\ NoUser.verified = FALSE BY DEF NoUser
    <3>2. NewUser.enforced = FALSE /\ NewUser.verified = FALSE BY DEF NoUser, NewUser
    <3>3. VerifiedUser.enforced = FALSE /\ VerifiedUser.exists
      BY DEF NoUser, NewUser, VerifiedUser
    <3> QED BY <3>1, <3>2, <3>3, ConstantsAssumption
  <2> QED BY <2>1 DEF Init, Verified, ByVerified, Idle, WriteOps
<1>3. TypeInv /\ Verified /\ [Next]_vars => Verified' BY StepVerified
<1> QED BY <1>1, TypeInvHolds, <1>3, PTL DEF Spec

(* Registrations and the requirement of U2F change for a verified user     *)
(* only, although the check is made calls before the change and any        *)
(* requests overlap (auth.go's writeAuthCheckMiddleware), but for a        *)
(* sign-up that overlaps another request.                                  *)
THEOREM OnlyVerifiedChanges == ASSUME Orderly PROVE Spec => OnlyVerifiedChange
<1>1. ASSUME TypeInv, Verified, [Next]_vars
      PROVE  regs' # regs \/ user'.enforced # user.enforced => user.verified
  <2>1. ASSUME regs' # regs PROVE user.verified
    <3>1. PICK p \in Procs : RegisterSaveRegistration(p) \/ DeleteRegistration(p)
      BY <1>1, <2>1, RegsWriters
    <3>2. req[p].op \in WriteOps /\ req[p].pc \notin Before
      BY <3>1 DEF RegisterSaveRegistration, DeleteRegistration, At, WriteOps, Before
    <3> QED BY <1>1, <3>2 DEF Verified, ByVerified
  <2> QED BY <1>1, <2>1, UserMoves
<1>2. TypeInv /\ Verified /\ [Next]_vars =>
        [regs' # regs \/ user'.enforced # user.enforced => user.verified]_vars
  BY <1>1
<1> QED BY <1>2, TypeInvHolds, VerifiedHolds, PTL DEF Spec, OnlyVerifiedChange

(* A verified address stays verified, whatever copies of the user entity   *)
(* overlapping handlers save (users/verification.go, u2f.go), but for a    *)
(* sign-up that overlaps another request.                                  *)
THEOREM VerificationLasts == ASSUME Orderly PROVE Spec => VerificationKept
<1>1. TypeInv /\ Verified /\ [Next]_vars => [user.verified => user'.verified]_vars
  BY UserMoves
<1> QED BY <1>1, TypeInvHolds, VerifiedHolds, PTL DEF Spec, VerificationKept

-----------------------------------------------------------------------------
(* With one request at a time a verification saves what U2F is required of *)
(* the user at that moment.                                                *)
Current ==
  \A p \in Procs : At(p, "verify", "saveUser") /\ user.enforced => req[p].user.enforced

LEMMA StepCurrent == ASSUME Serial PROVE TypeInv /\ Current /\ [Next]_vars => Current'
<1> SUFFICES ASSUME TypeInv, Current, [Next]_vars, NEW q \in Procs,
                    At(q, "verify", "saveUser")', user'.enforced
             PROVE  req'[q].user.enforced
  BY DEF Current
<1>1. \/ req'[q] = req[q] \/ req'[q] = Idle \/ Starts(q) \/ Goes(q) \/ Copies(q)
  BY StepMoves DEF Moves, MovesOn
<1>2. req'[q] # Idle /\ ~Starts(q) /\ ~Goes(q)
  BY DEF At, Idle, Starts, Goes, SameArgs, MayGo
<1>3. ~VerifySave(q)
  <2>1. VerifySave(q) => req'[q].pc = "expire" BY GotoFields DEF VerifySave, Fields
  <2> QED BY <2>1 DEF At
<1>4. user' = user \/ (req[q].pc = "saveUser" /\ req[q].op # "verify")
  BY <1>3, UserWriters DEF Serial, WriteOps
<1>5. CASE req'[q] = req[q] BY <1>4, <1>5 DEF Current, At
<1>6. CASE Copies(q)
  <2>1. user' = user /\ req'[q].user = user BY <1>4, <1>6 DEF Copies
  <2> QED BY <2>1
<1> QED BY <1>1, <1>2, <1>5, <1>6

(* With one request at a time U2F stops being required of a user only by a *)
(* request to lift it or to delete a registration: no registration,        *)
(* sign-up or verification does so by saving an old copy (u2f.go:121,      *)
(* "force u2f for the user").                                              *)
THEOREM SerialEnforcementKept == ASSUME Serial PROVE Spec => EnforcementKept
<1>0. Orderly BY DEF Orderly
<1>1. ASSUME TypeInv, Verified, Current, [Next]_vars, user.enforced, ~user'.enforced
      PROVE  \E p \in Procs : DeleteSaveUser(p) \/ RequireSaveUser(p)
  <2>0. user' # user BY <1>1
  <2>1. PICK p \in Procs :
          /\ req[p].pc = "saveUser"
          /\ \/ req[p].op = "signup"
             \/ req[p].op = "verify" /\ VerifySave(p)
             \/ DeleteSaveUser(p) \/ RequireSaveUser(p) \/ RegisterSaveUser(p)
    BY <1>1, <2>0, UserWriters
  <2>2. req[p].op # "signup" BY <1>1, <2>1 DEF Verified, ByVerified
  <2>3. req[p].user \in User BY <1>1 DEF TypeInv, TypeOK, Request
  <2>4. ~RegisterSaveUser(p) BY <1>1, <2>3 DEF RegisterSaveUser, Save, User
  <2>5. ~(req[p].op = "verify" /\ VerifySave(p))
    <3>1. VerifySave(p) => user'.enforced = req[p].user.enforced
      BY <2>3 DEF VerifySave, Save, VerifiedCopy, User
    <3> QED BY <1>1, <2>1, <3>1 DEF Current, At
  <2> QED BY <2>1, <2>2, <2>4, <2>5
<1>2. TypeInv /\ Verified /\ Current /\ [Next]_vars =>
        [user.enforced /\ ~user'.enforced =>
           \E p \in Procs : DeleteSaveUser(p) \/ RequireSaveUser(p)]_vars
  BY <1>1
<1>3. Init => Current BY DEF Init, Current, At, Idle
<1>5. TypeInv /\ Current /\ [Next]_vars => Current' BY StepCurrent
<1>6. Spec => []Verified BY <1>0, VerifiedHolds
<1> QED BY <1>2, <1>3, TypeInvHolds, <1>5, <1>6, PTL DEF Spec, EnforcementKept

-----------------------------------------------------------------------------
(* With one request at a time: a handle is new when it is registered, and  *)
(* nothing is stored between reading a counter and writing it.             *)
Counting ==
  /\ \A h \in Handles : counter[h] # -1 => h \in made
  /\ \A p \in Procs :
       /\ req[p].op = "regResp" /\ req[p].pc \in Unsaved =>
            req[p].handle \in made /\ counter[req[p].handle] = -1
       /\ At(p, "signResp", "saveCounter") =>
            CounterAccepted(counter[req[p].handle], req[p].ctr)

LEMMA MadeGrows == ASSUME [Next]_vars PROVE made \subseteq made'
<1> USE DEF browser
<1>1. ASSUME NEW p \in Procs, UsersStep(p) \/ AuthStep(p) \/ StoreFails(p) PROVE made' = made
  BY <1>1
     DEF UsersStep, SignupCheck, SignupSave, SignupKeys, RequestVerification, GetUserByKey,
         VerifySave, VerifyExpire, AuthStep, CheckPassword, Identify, UpdateSession,
         SessionSaveFails, CheckWrite, StoreFails
<1>2. ASSUME NEW p \in Procs, U2fStep(p) PROVE made' = made
  BY <1>2
     DEF U2fStep, RegisterSaveChallenge, RegisterHandOut, RegisterFetchChallenge, FetchChallenge,
         RegisterSaveUser, RegisterSaveRegistration, RegisterSaveCounter, SignList,
         SignSaveChallenge, SignFetchChallenge, SignMatch, SignReadCounter, SignSaveCounter,
         DeleteCount, DeleteSaveUser, DeleteRegistration, RequireCount, RequireSaveUser
<1>3. ASSUME NEW p \in Procs, NEW s \in Sessions, Send(p, s) PROVE made \subseteq made'
  BY <1>3
     DEF Send, Signup, Login, Verify, Resend, RegisterRequest, RegisterResponse, SignRequest,
         SignResponse, Delete, Require
<1> QED BY <1>1, <1>2, <1>3 DEF Next, Serve, ExpireSession, Abandon, vars

LEMMA StepCounting == ASSUME Serial PROVE TypeInv /\ Counting /\ [Next]_vars => Counting'
<1> SUFFICES ASSUME TypeInv, Counting, [Next]_vars PROVE Counting'
  OBVIOUS
<1>0. /\ counter \in [Handles -> -1..MaxCounter] /\ made \subseteq made'
      /\ \A p \in Procs : req[p].op \in {"regResp", "signResp"} => req[p].handle \in Handles
  BY MadeGrows DEF TypeInv, TypeOK, ArgsOK
<1>1. ASSUME NEW h \in Handles, counter'[h] # -1 PROVE h \in made'
  <2>1. ASSUME NEW p \in Procs, RegisterSaveCounter(p) \/ SignSaveCounter(p)
        PROVE  h \in made \/ counter'[h] = counter[h]
    <3>1. req[p].handle \in made
      BY <1>0, <2>1
         DEF Counting, RegisterSaveCounter, SignSaveCounter, CounterAccepted, At, Unsaved
    <3>2. h # req[p].handle => counter'[h] = counter[h]
      BY <1>0, <2>1 DEF RegisterSaveCounter, SignSaveCounter
    <3> QED BY <3>1, <3>2
  <2>2. h \in made \/ counter'[h] = counter[h] BY <2>1, CounterWriters
  <2> QED BY <1>0, <1>1, <2>2 DEF Counting
<1>2. ASSUME NEW q \in Procs
      PROVE  /\ req'[q].op = "regResp" /\ req'[q].pc \in Unsaved =>
                  req'[q].handle \in made' /\ counter'[req'[q].handle] = -1
             /\ At(q, "signResp", "saveCounter")' =>
                  CounterAccepted(counter'[req'[q].handle], req'[q].ctr)
  <2>1. RegisterSaveCounter(q) => req'[q].pc = "getUser"
    BY GotoFields DEF RegisterSaveCounter, Fields
  <2>2. SignSaveCounter(q) => req'[q].pc = "grant" /\ req'[q].op = "signResp"
    BY SetScopeFields DEF SignSaveCounter, Fields, At
  <2>3. CASE RegisterSaveCounter(q) \/ SignSaveCounter(q)
    BY <2>1, <2>2, <2>3 DEF At, Unsaved, Before
  <2>4. CASE counter' = counter
    <3>1. req'[q] \in {req[q], Idle} \/ Starts(q) \/ Goes(q) \/ Copies(q)
      BY StepMoves DEF Moves, MovesOn
    <3>2. CASE req'[q] = req[q] BY <1>0, <2>4, <3>2 DEF Counting, At
    <3>3. CASE req'[q] = Idle BY <3>3 DEF Idle, At
    <3>4. CASE Starts(q)
      <4>1. req'[q].op = "regResp" => req'[q].handle \in Handles BY StepType DEF TypeInv, ArgsOK
      <4> QED BY <2>4, <3>4, <4>1 DEF Starts, Counting, At
    <3>5. CASE Goes(q)
      BY <1>0, <2>4, <3>5 DEF Goes, SameArgs, MayGo, Counting, Unsaved, Before, At
    <3>6. CASE Copies(q) BY <3>6 DEF Copies, Unsaved, Before, At
    <3> QED BY <3>1, <3>2, <3>3, <3>4, <3>5, <3>6
  <2> QED BY <2>3, <2>4, CounterWriters DEF Serial
<1> QED BY <1>1, <1>2 DEF Counting, At

(* With one request at a time the stored counter of a registration never   *)
(* goes back: a response is checked against the counter that it replaces,  *)
(* and a new registration starts at zero (u2f.go:196-204).                 *)
THEOREM SerialCounterMonotone == ASSUME Serial PROVE Spec => CounterMonotone
<1>1. ASSUME TypeInv, Counting, [Next]_vars, NEW h \in Handles PROVE counter'[h] >= counter[h]
  <2>0. counter \in [Handles -> -1..MaxCounter] /\ MaxCounter \in Nat
    BY <1>1, ConstantsAssumption DEF TypeInv, TypeOK
  <2>1. ASSUME NEW p \in Procs, RegisterSaveCounter(p) PROVE counter'[h] >= counter[h]
    <3>1. counter[req[p].handle] = -1
      BY <1>1, <2>1 DEF Counting, RegisterSaveCounter, At, Unsaved
    <3> QED BY <2>0, <2>1, <3>1 DEF RegisterSaveCounter
  <2>2. ASSUME NEW p \in Procs, SignSaveCounter(p) PROVE counter'[h] >= counter[h]
    <3>1. req[p].ctr >= counter[req[p].handle]
      BY <1>1, <2>2 DEF Counting, SignSaveCounter, CounterAccepted
    <3>2. req[p].ctr \in 0..MaxCounter BY <1>1 DEF TypeInv, TypeOK, Request
    <3> QED BY <2>0, <2>2, <3>1, <3>2 DEF SignSaveCounter
  <2> QED BY <1>1, <2>0, <2>1, <2>2, CounterWriters
<1>2. TypeInv /\ Counting /\ [Next]_vars => [\A h \in Handles : counter'[h] >= counter[h]]_vars
  BY <1>1
<1>3. Init => Counting BY DEF Init, Counting, At, Idle
<1> QED BY <1>2, <1>3, TypeInvHolds, StepCounting, PTL DEF Spec, CounterMonotone

-----------------------------------------------------------------------------
(* With one request at a time: where a registration or a deletion stands   *)
(* when it is at a given call, in the terms of AccountPolicy.              *)
RegisterStands(r) ==
  /\ r.op = "regResp" => r.pc \in Unsaved \cup {"getUser", "saveUser"}
  /\ r.op = "regResp" /\ r.pc \in Unsaved \ {"saveCounter"} => r.handle \in made \ regs

DeleteStands(r) ==
  r.op = "delReg" =>
    CASE r.pc = "getUser"  -> OnlyRegistration(regs) /\ ~r.user.enforced
      [] r.pc = "saveUser" -> OnlyRegistration(regs) /\ r.user.enforced = user.enforced
      [] r.pc = "delete"   -> IF OnlyRegistration(regs) THEN ~user.enforced ELSE ~r.user.enforced
      [] OTHER             -> ~r.user.enforced

Stands ==
  /\ regs \subseteq made /\ IsFiniteSet(regs)
  /\ \A p \in Procs :
       /\ req[p].pc = "idle" => req[p].op = "none"
       /\ RegisterStands(req[p])
       /\ DeleteStands(req[p])

(* What AccountPolicy sees of the one request r.                           *)
Enrolled(r, rs) == IF r.op = "regResp" THEN rs \ {r.handle} ELSE rs

Enforced(r, u) == u.enforced \/ (r.op = "delReg" /\ r.pc = "delete" /\ r.user.enforced)

LEMMA View ==
  ASSUME Serial, NEW p \in Procs
  PROVE  /\ Policy!vars = <<Enforced(req[p], user), Enrolled(req[p], regs)>>
         /\ Policy!vars' = <<Enforced(req[p], user)', Enrolled(req[p], regs)'>>
<1>1. Procs = {p} BY DEF Serial
<1>2. /\ regs \ {req[q].handle : q \in {q \in Procs : req[q].op = "regResp"}} = Enrolled(req[p], regs)
      /\ (regs \ {req[q].handle : q \in {q \in Procs : req[q].op = "regResp"}})'
           = Enrolled(req[p], regs)'
  BY <1>1 DEF Enrolled
<1>3. /\ (user.enforced \/ \E q \in Procs : At(q, "delReg", "delete") /\ req[q].user.enforced)
           = Enforced(req[p], user)
      /\ (user.enforced \/ \E q \in Procs : At(q, "delReg", "delete") /\ req[q].user.enforced)'
           = Enforced(req[p], user)'
  BY <1>1 DEF Enforced, At
<1> QED BY <1>2, <1>3 DEF Policy!vars

LEMMA PolicySteps ==
  ASSUME Serial, NEW p \in Procs, NEW a, NEW e \in BOOLEAN, NEW a2, NEW e2 \in BOOLEAN,
         a = Enrolled(req[p], regs), a2 = Enrolled(req[p], regs)',
         e = Enforced(req[p], user), e2 = Enforced(req[p], user)',
         \/ a2 = a /\ e2 = e
         \/ \E h \in Handles : a2 = a \cup {h} /\ e2 = TRUE
         \/ \E h \in Handles : a2 = a \ {h} /\ e2 = (e /\ \A g \in Handles : a # {g})
         \/ a2 = a /\ (e2 => a # {})
  PROVE  [Policy!Next]_(Policy!vars)
<1> DEFINE Abs(x, y) == /\ y = (user.enforced \/ \E q \in Procs :
                                   At(q, "delReg", "delete") /\ req[q].user.enforced)
                        /\ x = regs \ {req[q].handle : q \in {q \in Procs : req[q].op = "regResp"}}
<1>1. Policy!vars = <<e, a>> /\ Policy!vars' = <<e2, a2>> BY View
<1>2. Abs(a, e) /\ Abs(a2, e2)' BY <1>1 DEF Policy!vars
<1>3. CASE a2 = a /\ e2 = e BY <1>1, <1>3
<1>4. CASE \E h \in Handles : a2 = a \cup {h} /\ e2 = TRUE
  BY <1>2, <1>4 DEF Policy!Next, Policy!Register
<1>5. CASE \E h \in Handles : a2 = a \ {h} /\ e2 = (e /\ \A g \in Handles : a # {g})
  BY <1>2, <1>5 DEF Policy!Next, Policy!Remove
<1>6. CASE a2 = a /\ (e2 => a # {})
  BY <1>2, <1>6 DEF Policy!Next, Policy!Require
<1> QED BY <1>3, <1>4, <1>5, <1>6

(* A registration that is stored, or a deletion that has reached its       *)
(* Delete, is not answered before its last call unless a call fails.       *)
LEMMA Endings ==
  ASSUME TypeInv, [Next]_vars, user.exists, NEW p \in Procs, req'[p] = Idle,
         \/ req[p].op = "regResp" /\ req[p].pc \in {"saveCounter", "getUser", "saveUser"}
         \/ At(p, "delReg", "delete")
  PROVE  StoreFails(p) \/ RegisterSaveUser(p) \/ DeleteRegistration(p)
<1> USE DEF At
<1>1. PICK q \in Procs : Serve(q) \/ \E s \in Sessions : Send(q, s)
  BY DEF Next, ExpireSession, Abandon, vars, Idle
<1>2. q = p /\ Serve(p)
  <2>1. q # p => req'[p] = req[p]
    BY <1>1, SendMoves, AuthMoves, UsersMoves, U2fMoves, AnswerMoves
       DEF Serve, StoreFails, MovesOn
  <2>2. q = p BY <2>1 DEF Idle
  <2>3. ASSUME NEW s \in Sessions, Send(p, s) PROVE FALSE
    BY <2>3
       DEF Send, Signup, Login, Verify, Resend, RegisterRequest, RegisterResponse, SignRequest,
           SignResponse, Delete, Require, AcceptWrite, AcceptRead, AcceptIdentified, Accept
  <2> QED BY <1>1, <2>2, <2>3
<1>3. ~AuthStep(p)
  BY DEF AuthStep, CheckPassword, Identify, UpdateSession, SessionSaveFails, CheckWrite
<1>4. ~UsersStep(p)
  <2>1. ~GetUserByKey(p)
    BY DEF GetUserByKey, Idle, TypeInv, TypeOK, Request
  <2> QED
    BY <2>1
       DEF UsersStep, SignupCheck, SignupSave, SignupKeys, RequestVerification, VerifySave,
           VerifyExpire
<1>5. U2fStep(p) => RegisterSaveUser(p) \/ DeleteRegistration(p)
  <2>1. ~RegisterSaveCounter(p)
    BY GotoFields DEF RegisterSaveCounter, Fields, Idle
  <2> QED
    BY <2>1
       DEF U2fStep, RegisterSaveChallenge, RegisterHandOut, RegisterFetchChallenge,
           FetchChallenge, RegisterSaveRegistration, SignList, SignSaveChallenge,
           SignFetchChallenge, SignMatch, SignReadCounter, SignSaveCounter, DeleteCount,
           DeleteSaveUser, RequireCount, RequireSaveUser
<1> QED BY <1>2, <1>3, <1>4, <1>5 DEF Serve

Steady == SerialInv /\ Verified /\ Current /\ Stands

LEMMA StepWhole ==
  ASSUME Serial, Steady, [Next]_vars, NEW p \in Procs
  PROVE  /\ RegisterStands(req[p])' /\ DeleteStands(req[p])'
         /\ (req[p].pc = "idle" => req[p].op = "none")'
         /\ regs' \subseteq made' /\ IsFiniteSet(regs')
         /\ [Policy!Next]_(Policy!vars) \/ StoreFails(p)
<1> USE DEF Steady, SerialInv
<1>0. /\ made \subseteq made' /\ regs \subseteq made /\ IsFiniteSet(regs)
      /\ RegisterStands(req[p]) /\ DeleteStands(req[p]) /\ Established(req[p])
      /\ req[p].pc = "idle" => req[p].op = "none"
      /\ req[p] \in Request /\ req[p].user \in User /\ user \in User
      /\ \A q \in Procs : q = p
  BY MadeGrows DEF Stands, Serial, TypeInv, TypeOK, Request
<1> DEFINE a == Enrolled(req[p], regs)
           e == Enforced(req[p], user)
           Good == /\ RegisterStands(req[p])' /\ DeleteStands(req[p])'
                   /\ (req[p].pc = "idle" => req[p].op = "none")'
                   /\ regs' \subseteq made' /\ IsFiniteSet(regs')
<1>p. /\ a' = a /\ e' = e => [Policy!Next]_(Policy!vars)
      /\ a' = a /\ (e' => a # {}) => [Policy!Next]_(Policy!vars)
      /\ \A h \in Handles : a' = a \cup {h} /\ e' = TRUE => [Policy!Next]_(Policy!vars)
      /\ \A h \in Handles : a' = a \ {h} /\ e' = (e /\ \A g \in Handles : a # {g}) =>
                            [Policy!Next]_(Policy!vars)
  <2>1. e \in BOOLEAN /\ e' \in BOOLEAN BY DEF Enforced
  <2> QED BY <2>1, PolicySteps
<1>i. req'[p] = Idle => /\ RegisterStands(req[p])' /\ DeleteStands(req[p])'
                        /\ (req[p].pc = "idle" => req[p].op = "none")'
                        /\ Enrolled(req[p], regs)' = regs' /\ e' = user'.enforced
  BY StepType DEF RegisterStands, DeleteStands, Idle, Enrolled, Enforced, TypeInv, TypeOK, User
<1>1. CASE SignupSave(p)
  <2>1. /\ Fields(req'[p], p, "saveKeys") /\ req[p].op = "signup" /\ regs' = regs
        /\ ~user'.enforced
    BY <1>1, GotoFields DEF SignupSave, At, Save, NewUser, NoUser
  <2>2. Good BY <1>0, <2>1 DEF Fields, RegisterStands, DeleteStands
  <2>3. a' = a /\ ~e' BY <2>1 DEF Fields, Enrolled, Enforced
  <2> QED BY <1>p, <2>2, <2>3
<1>2. CASE VerifySave(p)
  <2>1. /\ Fields(req'[p], p, "expire") /\ req[p].op = "verify" /\ regs' = regs
        /\ user'.enforced = req[p].user.enforced
    BY <1>0, <1>2, GotoFields DEF VerifySave, At, Save, VerifiedCopy, User
  <2>2. req[p].user.enforced => regs # {} BY <1>0, <1>2 DEF Established, VerifySave, At
  <2>3. Good BY <1>0, <2>1 DEF Fields, RegisterStands, DeleteStands
  <2>4. a' = a /\ (e' => a # {}) BY <2>1, <2>2 DEF Fields, Enrolled, Enforced
  <2> QED BY <1>p, <2>3, <2>4
<1>3. CASE DeleteSaveUser(p)
  <2>1. /\ Fields(req'[p], p, "delete") /\ req[p].op = "delReg" /\ req[p].pc = "saveUser"
        /\ regs' = regs /\ user'.enforced = FALSE
    BY <1>0, <1>3, GotoFields DEF DeleteSaveUser, At, Save, User
  <2>2. OnlyRegistration(regs) /\ req[p].user.enforced = user.enforced
    BY <1>0, <2>1 DEF DeleteStands
  <2>3. Good BY <1>0, <2>1, <2>2 DEF Fields, RegisterStands, DeleteStands
  <2>4. a' = a /\ e' = e BY <2>1, <2>2 DEF Fields, Enrolled, Enforced
  <2> QED BY <1>p, <2>3, <2>4
<1>4. CASE RequireSaveUser(p)
  <2>1. /\ req'[p] = Idle /\ req[p].op = "require" /\ req[p].pc = "saveUser"
        /\ regs' = regs /\ user'.enforced = req[p].want
    BY <1>0, <1>4 DEF RequireSaveUser, At, Save, Answer, User, TypeInv, TypeOK
  <2>2. req[p].want => regs # {} BY <1>0, <2>1 DEF Established
  <2>3. a = regs BY <2>1 DEF Enrolled
  <2>4. Good BY <1>0, <1>i, <2>1
  <2>5. a' = a /\ (e' => a # {}) BY <1>i, <2>1, <2>2, <2>3
  <2> QED BY <1>p, <2>4, <2>5
<1>5. CASE RegisterSaveUser(p)
  <2>1. /\ req'[p] = Idle /\ req[p].op = "regResp" /\ req[p].pc = "saveUser"
        /\ regs' = regs /\ user'.enforced = TRUE
    BY <1>0, <1>5 DEF RegisterSaveUser, At, Save, Answer, User, TypeInv, TypeOK
  <2>2. req[p].handle \in regs /\ regs \subseteq Handles
    BY <1>0, <2>1 DEF Established, TypeInv, TypeOK
  <2>3. a = regs \ {req[p].handle} BY <2>1 DEF Enrolled
  <2>4. Good BY <1>0, <1>i, <2>1
  <2>5. a' = a \cup {req[p].handle} /\ e' = TRUE /\ req[p].handle \in Handles
    BY <1>i, <2>1, <2>2, <2>3
  <2> QED BY <1>p, <2>4, <2>5
<1>6. CASE RegisterSaveRegistration(p)
  <2>1. /\ Fields(req'[p], p, "saveCounter") /\ req[p].op = "regResp" /\ req[p].pc = "saveReg"
        /\ regs' = regs \cup {req[p].handle} /\ user' = user
    BY <1>6, GotoFields DEF RegisterSaveRegistration, At
  <2>2. req[p].handle \in made \ regs
    BY <1>0, <2>1 DEF RegisterStands, Unsaved, Before
  <2>3. Good
    <3>1. IsFiniteSet(regs') BY <1>0, <2>1, FS_AddElement
    <3> QED BY <1>0, <2>1, <2>2, <3>1 DEF Fields, RegisterStands, DeleteStands, Unsaved, Before
  <2>4. a' = a /\ e' = e BY <2>1, <2>2 DEF Fields, Enrolled, Enforced
  <2> QED BY <1>p, <2>3, <2>4
<1>7. CASE DeleteRegistration(p)
  <2>1. /\ req'[p] = Idle /\ req[p].op = "delReg" /\ req[p].pc = "delete"
        /\ regs' = regs \ {req[p].handle} /\ user' = user /\ req[p].handle \in Handles
    BY <1>7 DEF DeleteRegistration, At, Answer, TypeInv, TypeOK, ArgsOK
  <2>2. IF OnlyRegistration(regs) THEN ~user.enforced ELSE ~req[p].user.enforced
    BY <1>0, <2>1 DEF DeleteStands
  <2>3. OnlyRegistration(regs) <=> \E g \in Handles : regs = {g}
    BY <1>0, FS_Singleton DEF OnlyRegistration, TypeInv, TypeOK
  <2>4. a = regs /\ a' = regs' BY <1>i, <2>1 DEF Enrolled
  <2>5. e' = (e /\ \A g \in Handles : a # {g})
    BY <1>0, <1>i, <2>1, <2>2, <2>3, <2>4 DEF Enforced, User
  <2>6. Good
    <3>1. IsFiniteSet(regs') BY <1>0, <2>1, FS_RemoveElement
    <3> QED BY <1>0, <1>i, <2>1, <3>1
  <2> QED BY <1>p, <2>1, <2>4, <2>5, <2>6
<1>8. CASE user' = user /\ regs' = regs /\ ~RegisterSaveUser(p) /\ ~DeleteRegistration(p)
  <2>1. CASE UNCHANGED req
    <3>1. a' = a /\ e' = e BY <1>8, <2>1 DEF Enrolled, Enforced
    <3>2. Good BY <1>0, <1>8, <2>1 DEF RegisterStands, DeleteStands
    <3> QED BY <1>p, <3>1, <3>2
  <2>2. CASE req'[p] = Idle
    <3>1. Good BY <1>0, <1>i, <1>8, <2>2
    <3>2. CASE req[p].op = "regResp" /\ req[p].pc \in Unsaved \ {"saveCounter"}
      <4>1. a' = a /\ e' = e
        BY <1>0, <1>i, <1>8, <2>2, <3>2 DEF RegisterStands, Enrolled, Enforced, User
      <4> QED BY <1>p, <3>1, <4>1
    <3>3. CASE \/ req[p].op = "regResp" /\ req[p].pc \in {"saveCounter", "getUser", "saveUser"}
               \/ At(p, "delReg", "delete")
      <4>1. user.exists
        BY <3>3 DEF Verified, ByVerified, At, WriteOps, Before
      <4> QED BY <1>8, <2>2, <3>1, <3>3, <4>1, Endings
    <3>4. CASE req[p].op # "regResp" /\ ~At(p, "delReg", "delete")
      <4>1. a' = a /\ e' = e
        BY <1>0, <1>i, <1>8, <2>2, <3>4 DEF Enrolled, Enforced, At, User
      <4> QED BY <1>p, <3>1, <4>1
    <3>5. req[p].op = "regResp" => req[p].pc \in Unsaved \cup {"getUser", "saveUser"}
      BY <1>0 DEF RegisterStands
    <3> QED BY <3>2, <3>3, <3>4, <3>5
  <2>3. CASE Starts(p)
    <3>1. /\ ~req'[p].user.enforced
          /\ req'[p].op = "regResp" => req'[p].handle \in made' \ made
          /\ req'[p].op \in {"regResp", "delReg"} => req'[p].pc \in {"password", "verified"}
          /\ req'[p].pc # "idle"
      BY <2>3 DEF Starts, NoUser, WriteOps
    <3>3. Good
      BY <1>0, <1>8, <3>1 DEF RegisterStands, DeleteStands, Unsaved, Before
    <3>4. a' = a /\ e' = e
      BY <1>0, <1>8, <2>3, <3>1 DEF Starts, Enrolled, Enforced, Before
    <3> QED BY <1>p, <3>3, <3>4
  <2>4. CASE Goes(p)
    <3>1. /\ req'[p].op = req[p].op /\ req'[p].handle = req[p].handle
          /\ req'[p].user = req[p].user /\ MayGo(p, req'[p].pc)
      BY <2>4 DEF Goes, SameArgs
    <3>2. RegisterStands(req[p])'
      BY <1>0, <1>8, <3>1 DEF MayGo, RegisterStands, Unsaved, Before
    <3>3. DeleteStands(req[p])' /\ e' = e
      BY <1>0, <1>8, <3>1 DEF MayGo, DeleteStands, Enforced, Before, User
    <3>4. a' = a BY <1>8, <3>1 DEF Enrolled
    <3>5. Good BY <1>0, <1>8, <3>1, <3>2, <3>3 DEF MayGo
    <3> QED BY <1>p, <3>3, <3>4, <3>5
  <2>5. CASE Copies(p)
    <3>1. /\ req'[p].op = req[p].op /\ req'[p].handle = req[p].handle
          /\ req'[p].user = user /\ req[p].pc = "getUser"
          /\ req[p].op # "resend" => req'[p].pc = "saveUser"
          /\ req'[p].pc \in {"mail", "saveUser"}
      BY <2>5 DEF Copies, SameArgs
    <3>2. Good
      BY <1>0, <1>8, <3>1 DEF RegisterStands, DeleteStands, Unsaved, Before
    <3>3. a' = a /\ e' = e BY <1>8, <3>1 DEF Enrolled, Enforced
    <3> QED BY <1>p, <3>2, <3>3
  <2>6. UNCHANGED req \/ req'[p] = Idle \/ Starts(p) \/ Goes(p) \/ Copies(p)
    BY <1>0, StepMoves DEF Moves, MovesOn
  <2> QED BY <2>1, <2>2, <2>3, <2>4, <2>5, <2>6
<1> QED BY <1>1, <1>2, <1>3, <1>4, <1>5, <1>6, <1>7, <1>8, <1>0, UserWriters, RegsWriters

(* With one request at a time every request to register a token, to delete *)
(* a registration or to require U2F takes effect on both in one piece,     *)
(* whatever it does call by call (auth/u2f/u2f.go), until one of its calls *)
(* fails.                                                                  *)
THEOREM SerialRequestsWhole == ASSUME Serial PROVE Spec => RequestsWhole
<1>0. Orderly BY DEF Orderly
<1>1. Steady /\ [Next]_vars => Stands'
  <2> SUFFICES ASSUME Steady, [Next]_vars PROVE Stands'
    OBVIOUS
  <2>1. CASE Procs # {} BY <2>1, StepWhole DEF Stands
  <2>2. CASE Procs = {}
    BY <2>2, RegsWriters, MadeGrows DEF Stands, Steady
  <2> QED BY <2>1, <2>2
<1>2. Steady /\ [Next]_vars => [Policy!Next \/ \E p \in Procs : StoreFails(p)]_(Policy!vars)
  <2> SUFFICES ASSUME Steady, [Next]_vars
               PROVE  [Policy!Next \/ \E p \in Procs : StoreFails(p)]_(Policy!vars)
    OBVIOUS
  <2>1. ASSUME NEW p \in Procs PROVE [Policy!Next]_(Policy!vars) \/ StoreFails(p)
    BY <2>1, StepWhole
  <2>2. CASE Procs # {} BY <2>1, <2>2
  <2>3. CASE Procs = {}
    <3>1. user' = user /\ regs' = regs BY <2>3, UserWriters, RegsWriters
    <3> QED BY <2>3, <3>1 DEF Policy!vars
  <2> QED BY <2>2, <2>3
<1>3. Init => Stands /\ Current /\ Policy!Init
  <2> SUFFICES ASSUME Init PROVE Stands /\ Current /\ Policy!Init
    OBVIOUS
  <2>1. Stands
    BY FS_EmptySet DEF Init, Stands, RegisterStands, DeleteStands, Idle
  <2>2. Current BY DEF Init, Current, At, Idle
  <2>3. user.enforced = FALSE /\ \A p \in Procs : ~At(p, "delReg", "delete")
    <3>1. NoUser.enforced = FALSE BY DEF NoUser
    <3>2. NewUser.enforced = FALSE BY DEF NoUser, NewUser
    <3>3. VerifiedUser.enforced = FALSE BY DEF NoUser, NewUser, VerifiedUser
    <3> QED BY <3>1, <3>2, <3>3, ConstantsAssumption DEF Init, At, Idle
  <2> QED BY <2>1, <2>2, <2>3 DEF Init, Policy!Init
<1>4. SerialInv /\ [Next]_vars => SerialInv' BY StepSerial
<1>5. Init => SerialInv BY InitSerial
<1>6. Spec => []Verified BY <1>0, VerifiedHolds
<1>7. TypeInv /\ Current /\ [Next]_vars => Current' BY StepCurrent
<1>8. SerialInv => TypeInv BY DEF SerialInv
<1>9. SerialInv /\ Verified /\ Current /\ Stands => Steady BY DEF Steady
<1> QED
  BY <1>1, <1>2, <1>3, <1>4, <1>5, <1>6, <1>7, <1>8, <1>9, PTL DEF Spec, RequestsWhole
=============================================================================
