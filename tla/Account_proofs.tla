--------------------------- MODULE Account_proofs ---------------------------
(***************************************************************************)
(* Theorems about Account, for every value of its constants.               *)
(*                                                                         *)
(* The type invariant and the origin of every scope hold whatever requests *)
(* overlap.  That nobody is locked out, and that every request takes       *)
(* effect in one piece, is proved for a server that handles one request at *)
(* a time; with two nobody is safe (the run account_lockout).              *)
(***************************************************************************)
EXTENDS Account, FiniteSetTheorems, TLAPS

(* What TypeOK needs to be inductive: a request carries the arguments its  *)
(* handler will use.                                                       *)
ArgsOK ==
  \A p \in Procs :
    /\ req[p].op \in {"regReq", "signReq"} => req[p].chal \in Challenges
    /\ req[p].op \in {"regResp", "signResp", "delReg"} => req[p].handle \in Handles

TypeInv == TypeOK /\ ArgsOK

(* A record that may stand for the request of a process.                   *)
WellFormed(r) ==
  /\ r \in Request
  /\ r.op \in {"regReq", "signReq"} => r.chal \in Challenges
  /\ r.op \in {"regResp", "signResp", "delReg"} => r.handle \in Handles

LEMMA RequestWellFormed ==
  ASSUME TypeInv, NEW p \in Procs PROVE WellFormed(req[p])
BY DEF TypeInv, TypeOK, ArgsOK, WellFormed

LEMMA UpdateType ==
  ASSUME TypeInv, NEW p \in Procs, NEW r, WellFormed(r), req' = [req EXCEPT ![p] = r]
  PROVE  req' \in [Procs -> Request] /\ ArgsOK'
BY DEF TypeInv, TypeOK, ArgsOK, WellFormed

(* The ways a request moves on, each with what it keeps.                   *)
LEMMA GotoType ==
  ASSUME TypeInv, NEW p \in Procs, NEW label \in Labels, Goto(p, label)
  PROVE  req' \in [Procs -> Request] /\ ArgsOK'
<1> DEFINE r == [req[p] EXCEPT !.pc = label]
<1>1. WellFormed(r) BY RequestWellFormed DEF WellFormed, Request
<1>2. req' = [req EXCEPT ![p] = r] BY DEF Goto
<1> HIDE DEF r
<1> QED BY <1>1, <1>2, UpdateType

LEMMA AnswerType ==
  ASSUME TypeInv, NEW p \in Procs, Answer(p)
  PROVE  req' \in [Procs -> Request] /\ ArgsOK'
<1>1. WellFormed(Idle)
  BY ConstantsAssumption DEF WellFormed, Idle, Request, Labels, Scopes, NoUser, User
<1> QED BY <1>1, UpdateType DEF Answer

LEMMA SetScopeType ==
  ASSUME TypeInv, NEW p \in Procs, NEW scope \in Scopes,
         NEW earned \in SUBSET Evidence, SetScope(p, scope, earned, "grant")
  PROVE  req' \in [Procs -> Request] /\ ArgsOK'
<1> DEFINE r == [req[p] EXCEPT !.scope = scope, !.earned = earned, !.pc = "grant"]
<1>1. WellFormed(r) BY RequestWellFormed DEF WellFormed, Request, Labels
<1>2. req' = [req EXCEPT ![p] = r]
  BY DEF SetScope
<1> HIDE DEF r
<1> QED BY <1>1, <1>2, UpdateType

Args == [chal : Challenges \cup {None}, handle : Handles \cup {None},
         ctr : 0..MaxCounter, want : BOOLEAN]

LEMMA AcceptType ==
  ASSUME TypeInv, NEW p \in Procs, NEW s \in Sessions, NEW op, NEW label \in Labels,
         NEW args \in Args, Accept(p, s, op, label, args),
         op \in {"regReq", "signReq"} => args.chal \in Challenges,
         op \in {"regResp", "signResp", "delReg"} => args.handle \in Handles
  PROVE  req' \in [Procs -> Request] /\ ArgsOK'
<1> DEFINE r == [op |-> op, pc |-> label, sess |-> s,
                 scope |-> session[s].scope, earned |-> session[s].earned,
                 chal |-> args.chal, handle |-> args.handle,
                 ctr |-> args.ctr, want |-> args.want, user |-> NoUser, seen |-> {}]
<1>1. op \in AllOps BY ConstantsAssumption DEF Accept
<1>2. WellFormed(r)
  BY <1>1 DEF WellFormed, Request, TypeInv, TypeOK, Args, NoUser, User
<1>3. req' = [req EXCEPT ![p] = r] BY DEF Accept
<1> HIDE DEF r
<1> QED BY <1>2, <1>3, UpdateType

-----------------------------------------------------------------------------
LEMMA SendType ==
  ASSUME TypeInv, NEW p \in Procs, NEW s \in Sessions, Send(p, s) PROVE TypeInv'
<1> USE DEF Labels, store, browser
<1>0. NoArgs \in Args BY ConstantsAssumption DEF NoArgs, Args
<1>1. CASE Signup(p, s)
  <2>1. PICK w \in BOOLEAN : Accept(p, s, "signup", "exists", [NoArgs EXCEPT !.want = w])
    BY <1>1 DEF Signup
  <2>2. [NoArgs EXCEPT !.want = w] \in Args BY <1>0 DEF Args, NoArgs
  <2> QED BY <1>1, <2>1, <2>2, AcceptType DEF Signup, TypeInv, TypeOK
<1>2. CASE Login(p, s)
  BY <1>0, <1>2, AcceptType DEF Login, AcceptWrite, TypeInv, TypeOK
<1>3. CASE Verify(p, s)
  BY <1>0, <1>3, AcceptType DEF Verify, TypeInv, TypeOK
<1>4. CASE Resend(p, s)
  BY <1>0, <1>4, AcceptType DEF Resend, AcceptRead, TypeInv, TypeOK
<1>5. CASE RegisterRequest(p, s)
  <2>1. PICK c \in Challenges : AcceptWrite(p, s, "regReq", [NoArgs EXCEPT !.chal = c])
    BY <1>5 DEF RegisterRequest
  <2>2. /\ [NoArgs EXCEPT !.chal = c] \in Args
        /\ [NoArgs EXCEPT !.chal = c].chal = c
    BY <1>0 DEF Args, NoArgs
  <2> QED BY <1>5, <2>1, <2>2, AcceptType DEF RegisterRequest, AcceptWrite, TypeInv, TypeOK
<1>6. CASE RegisterResponse(p, s)
  <2>1. PICK i \in issued, h \in Handles :
          /\ AcceptWrite(p, s, "regResp", [NoArgs EXCEPT !.chal = i.chal, !.handle = h])
          /\ made' = made \cup {h}
    BY <1>6 DEF RegisterResponse
  <2>2. i.chal \in Challenges BY DEF TypeInv, TypeOK
  <2>3. /\ [NoArgs EXCEPT !.chal = i.chal, !.handle = h] \in Args
        /\ [NoArgs EXCEPT !.chal = i.chal, !.handle = h].handle = h
    BY <1>0, <2>2 DEF Args, NoArgs
  <2>4. req' \in [Procs -> Request] /\ ArgsOK'
    BY <2>1, <2>3, AcceptType DEF AcceptWrite
  <2> QED BY <1>6, <2>1, <2>4 DEF RegisterResponse, TypeInv, TypeOK
<1>7. CASE SignRequest(p, s)
  <2>1. PICK c \in Challenges :
          AcceptIdentified(p, s, "signReq", "fetchRegs", [NoArgs EXCEPT !.chal = c])
    BY <1>7 DEF SignRequest
  <2>2. /\ [NoArgs EXCEPT !.chal = c] \in Args
        /\ [NoArgs EXCEPT !.chal = c].chal = c
    BY <1>0 DEF Args, NoArgs
  <2>3. req' \in [Procs -> Request] /\ ArgsOK'
    BY <2>1, <2>2, AcceptType DEF AcceptIdentified
  <2> QED BY <1>7, <2>3 DEF SignRequest, TypeInv, TypeOK
<1>8. CASE SignResponse(p, s)
  <2>0. PICK i \in issued : \E h \in i.handles, n \in 0..MaxCounter :
          AcceptIdentified(p, s, "signResp", "fetchChallenge",
            [NoArgs EXCEPT !.chal = i.chal, !.handle = h, !.ctr = n])
    BY <1>8 DEF SignResponse
  <2>1. PICK h \in i.handles, n \in 0..MaxCounter :
          AcceptIdentified(p, s, "signResp", "fetchChallenge",
            [NoArgs EXCEPT !.chal = i.chal, !.handle = h, !.ctr = n])
    BY <2>0
  <2>2. i.chal \in Challenges /\ h \in Handles BY DEF TypeInv, TypeOK
  <2>3. /\ [NoArgs EXCEPT !.chal = i.chal, !.handle = h, !.ctr = n] \in Args
        /\ [NoArgs EXCEPT !.chal = i.chal, !.handle = h, !.ctr = n].handle = h
    BY <1>0, <2>2 DEF Args, NoArgs
  <2>4. req' \in [Procs -> Request] /\ ArgsOK'
    BY <2>1, <2>2, <2>3, AcceptType DEF AcceptIdentified
  <2> QED BY <1>8, <2>1, <2>4 DEF SignResponse, TypeInv, TypeOK
<1>9. CASE Delete(p, s)
  <2>1. PICK h \in Handles : AcceptWrite(p, s, "delReg", [NoArgs EXCEPT !.handle = h])
    BY <1>9 DEF Delete
  <2>2. /\ [NoArgs EXCEPT !.handle = h] \in Args
        /\ [NoArgs EXCEPT !.handle = h].handle = h
    BY <1>0 DEF Args, NoArgs
  <2> QED BY <1>9, <2>1, <2>2, AcceptType DEF Delete, AcceptWrite, TypeInv, TypeOK
<1>10. CASE Require(p, s)
  <2>1. PICK w \in BOOLEAN : AcceptWrite(p, s, "require", [NoArgs EXCEPT !.want = w])
    BY <1>10 DEF Require
  <2>2. [NoArgs EXCEPT !.want = w] \in Args BY <1>0 DEF Args, NoArgs
  <2> QED BY <1>10, <2>1, <2>2, AcceptType DEF Require, AcceptWrite, TypeInv, TypeOK
<1> QED
  BY <1>1, <1>2, <1>3, <1>4, <1>5, <1>6, <1>7, <1>8, <1>9, <1>10 DEF Send

LEMMA AuthType ==
  ASSUME TypeInv, NEW p \in Procs, AuthStep(p) PROVE TypeInv'
<1> USE DEF Labels, store, browser
<1>r. req[p].scope \in Scopes /\ req[p].earned \in SUBSET Evidence
  BY DEF TypeInv, TypeOK, Request
<1>a. AfterGrant(p) => req' \in [Procs -> Request] /\ ArgsOK'
  BY GotoType, AnswerType DEF AfterGrant
<1>1. CASE CheckPassword(p)
  <2> DEFINE op == req[p].op
  <2>1. /\ PasswordScope(op, user.enforced) \in Scopes
        /\ PasswordEvidence(op, user.enforced) \in SUBSET Evidence
    BY DEF PasswordScope, PasswordEvidence, Scopes, Evidence
  <2>2. req' \in [Procs -> Request] /\ ArgsOK'
    BY <1>1, <2>1, SetScopeType, AnswerType DEF CheckPassword
  <2> QED BY <1>1, <2>2 DEF CheckPassword, TypeInv, TypeOK
<1>2. CASE Identify(p)
  <2>1. req' \in [Procs -> Request] /\ ArgsOK'
    BY <1>2, SetScopeType, AnswerType DEF Identify, Scopes
  <2> QED BY <1>2, <2>1 DEF Identify, TypeInv, TypeOK
<1>3. CASE UpdateSession(p)
  <2>1. session' \in [Sessions -> [scope : Scopes, earned : SUBSET Evidence]]
    BY <1>3, <1>r DEF UpdateSession, TypeInv, TypeOK
  <2> QED BY <1>3, <1>a, <2>1 DEF UpdateSession, TypeInv, TypeOK
<1>4. CASE SessionSaveFails(p)
  BY <1>4, <1>a DEF SessionSaveFails, TypeInv, TypeOK
<1>5. CASE CheckWrite(p)
  <2>1. FirstCall(req[p]) \in Labels BY DEF FirstCall
  <2>2. req' \in [Procs -> Request] /\ ArgsOK'
    BY <1>5, <2>1, GotoType, AnswerType DEF CheckWrite
  <2> QED BY <1>5, <2>2 DEF CheckWrite, TypeInv, TypeOK
<1> QED BY <1>1, <1>2, <1>3, <1>4, <1>5 DEF AuthStep

LEMMA UsersType ==
  ASSUME TypeInv, NEW p \in Procs, UsersStep(p) PROVE TypeInv'
<1> USE DEF Labels, browser
<1>r. req[p].user \in User /\ user \in User
  BY DEF TypeInv, TypeOK, Request
<1>1. CASE SignupCheck(p)
  BY <1>1, GotoType, AnswerType DEF SignupCheck, TypeInv, TypeOK, store
<1>2. CASE SignupSave(p)
  <2>1. user' \in User BY <1>2 DEF SignupSave, Save, NewUser, NoUser, User
  <2> QED BY <1>2, <2>1, GotoType DEF SignupSave, TypeInv, TypeOK
<1>3. CASE SignupKeys(p)
  <2>1. keypair' \in BOOLEAN BY <1>3 DEF SignupKeys
  <2> QED BY <1>3, <2>1, GotoType, AnswerType DEF SignupKeys, TypeInv, TypeOK
<1>4. CASE RequestVerification(p)
  <2>1. req' \in [Procs -> Request] /\ ArgsOK'
    BY <1>4, SetScopeType, AnswerType DEF RequestVerification, Scopes, Evidence
  <2> QED BY <1>4, <2>1 DEF RequestVerification, TypeInv, TypeOK
<1>5. CASE GetUserByKey(p)
  <2> DEFINE r == [req[p] EXCEPT !.user = user,
                     !.pc = IF req[p].op = "resend" THEN "mail" ELSE "saveUser"]
  <2>1. WellFormed(r) BY <1>r, RequestWellFormed DEF WellFormed, Request
  <2>2. req' = [req EXCEPT ![p] = r] \/ Answer(p)
    BY <1>5 DEF GetUserByKey
  <2> HIDE DEF r
  <2>3. req' \in [Procs -> Request] /\ ArgsOK'
    BY <2>1, <2>2, UpdateType, AnswerType
  <2> QED BY <1>5, <2>3 DEF GetUserByKey, TypeInv, TypeOK, store
<1>6. CASE VerifySave(p)
  <2>1. user' \in User BY <1>6, <1>r DEF VerifySave, Save, VerifiedCopy, User
  <2> QED BY <1>6, <2>1, GotoType DEF VerifySave, TypeInv, TypeOK
<1>7. CASE VerifyExpire(p)
  <2>1. session' \in [Sessions -> [scope : Scopes, earned : SUBSET Evidence]]
    BY <1>7 DEF VerifyExpire, TypeInv, TypeOK, NoSession, Scopes
  <2> QED BY <1>7, <2>1, AnswerType DEF VerifyExpire, TypeInv, TypeOK, store
<1> QED
  BY <1>1, <1>2, <1>3, <1>4, <1>5, <1>6, <1>7 DEF UsersStep

LEMMA U2fType ==
  ASSUME TypeInv, NEW p \in Procs, U2fStep(p) PROVE TypeInv'
<1> USE DEF Labels, browser
<1>r. /\ req[p].user \in User
      /\ req[p].ctr \in 0..MaxCounter
      /\ req[p].want \in BOOLEAN
      /\ req[p].seen \in SUBSET Handles
      /\ req[p].scope \in Scopes
      /\ req[p].earned \in SUBSET Evidence
      /\ req[p].chal \in Challenges \cup {None}
  BY DEF TypeInv, TypeOK, Request
<1>1. CASE RegisterSaveChallenge(p)
  BY <1>1, <1>r, GotoType DEF RegisterSaveChallenge, TypeInv, TypeOK
<1>2. CASE RegisterHandOut(p)
  <2>1. req[p].chal \in Challenges
    BY <1>2 DEF RegisterHandOut, At, TypeInv, ArgsOK
  <2> QED BY <1>2, <2>1, AnswerType DEF RegisterHandOut, TypeInv, TypeOK, store
<1>3. CASE RegisterFetchChallenge(p)
  BY <1>3, GotoType, AnswerType
  DEF RegisterFetchChallenge, FetchChallenge, TypeInv, TypeOK, store
<1>4. CASE RegisterSaveRegistration(p)
  <2>1. req[p].handle \in Handles
    BY <1>4 DEF RegisterSaveRegistration, At, TypeInv, ArgsOK
  <2> QED BY <1>4, <2>1, GotoType DEF RegisterSaveRegistration, TypeInv, TypeOK
<1>5. CASE RegisterSaveCounter(p)
  <2>1. counter' \in [Handles -> -1..MaxCounter]
    <3>1. 0 \in -1..MaxCounter BY ConstantsAssumption
    <3> QED BY <1>5, <3>1 DEF RegisterSaveCounter, TypeInv, TypeOK
  <2> QED BY <1>5, <2>1, GotoType DEF RegisterSaveCounter, TypeInv, TypeOK
<1>6. CASE RegisterSaveUser(p)
  <2>1. user' \in User BY <1>6, <1>r DEF RegisterSaveUser, Save, User
  <2> QED BY <1>6, <2>1, AnswerType DEF RegisterSaveUser, TypeInv, TypeOK
<1>7. CASE SignList(p)
  <2> DEFINE r == [req[p] EXCEPT !.seen = regs, !.pc = "saveChallenge"]
  <2>1. WellFormed(r)
    <3>1. WellFormed(req[p]) /\ regs \in SUBSET Handles
      BY RequestWellFormed DEF TypeInv, TypeOK
    <3> QED BY <3>1 DEF WellFormed, Request
  <2>2. req' = [req EXCEPT ![p] = r] \/ Answer(p) BY <1>7 DEF SignList
  <2> HIDE DEF r
  <2>3. req' \in [Procs -> Request] /\ ArgsOK'
    BY <2>1, <2>2, UpdateType, AnswerType
  <2> QED BY <1>7, <2>3 DEF SignList, TypeInv, TypeOK, store
<1>8. CASE SignSaveChallenge(p)
  <2>1. req[p].chal \in Challenges
    BY <1>8 DEF SignSaveChallenge, At, TypeInv, ArgsOK
  <2> QED BY <1>8, <1>r, <2>1, AnswerType DEF SignSaveChallenge, TypeInv, TypeOK
<1>9. CASE SignFetchChallenge(p)
  BY <1>9, GotoType, AnswerType
  DEF SignFetchChallenge, FetchChallenge, TypeInv, TypeOK, store
<1>10. CASE SignMatch(p)
  BY <1>10, GotoType, AnswerType DEF SignMatch, TypeInv, TypeOK, store
<1>11. CASE SignReadCounter(p)
  BY <1>11, GotoType, AnswerType DEF SignReadCounter, TypeInv, TypeOK, store
<1>12. CASE SignSaveCounter(p)
  <2>1. counter' \in [Handles -> -1..MaxCounter]
    <3>1. counter' = [counter EXCEPT ![req[p].handle] = req[p].ctr]
      BY <1>12 DEF SignSaveCounter
    <3>2. req[p].ctr \in -1..MaxCounter BY <1>r, ConstantsAssumption
    <3> QED BY <3>1, <3>2 DEF TypeInv, TypeOK
  <2>2. /\ RaisedScope(req[p].scope) \in Scopes
        /\ req[p].earned \cup {"u2f"} \in SUBSET Evidence
    BY <1>r DEF RaisedScope, Scopes, Evidence
  <2>3. req' \in [Procs -> Request] /\ ArgsOK'
    BY <1>12, <2>2, SetScopeType DEF SignSaveCounter
  <2> QED BY <1>12, <2>1, <2>3 DEF SignSaveCounter, TypeInv, TypeOK
<1>13. CASE DeleteCount(p)
  BY <1>13, GotoType DEF DeleteCount, TypeInv, TypeOK, store
<1>14. CASE DeleteSaveUser(p)
  <2>1. user' \in User BY <1>14, <1>r DEF DeleteSaveUser, Save, User
  <2> QED BY <1>14, <2>1, GotoType DEF DeleteSaveUser, TypeInv, TypeOK
<1>15. CASE DeleteRegistration(p)
  BY <1>15, AnswerType DEF DeleteRegistration, TypeInv, TypeOK
<1>16. CASE RequireCount(p)
  BY <1>16, GotoType, AnswerType DEF RequireCount, TypeInv, TypeOK, store
<1>17. CASE RequireSaveUser(p)
  <2>1. user' \in User BY <1>17, <1>r DEF RequireSaveUser, Save, User
  <2> QED BY <1>17, <2>1, AnswerType DEF RequireSaveUser, TypeInv, TypeOK
<1> QED
  BY <1>1, <1>2, <1>3, <1>4, <1>5, <1>6, <1>7, <1>8, <1>9, <1>10, <1>11, <1>12,
     <1>13, <1>14, <1>15, <1>16, <1>17 DEF U2fStep

LEMMA InitType == Init => TypeInv
<1> SUFFICES ASSUME Init PROVE TypeInv OBVIOUS
<1>1. Idle \in Request
  BY ConstantsAssumption DEF Idle, Request, Labels, Scopes, NoUser, User
<1>2. StartUser \in User
  <2>1. NoUser \in User BY DEF User, NoUser
  <2>2. NewUser \in User BY <2>1 DEF User, NewUser
  <2>3. VerifiedUser \in User BY <2>2 DEF User, VerifiedUser
  <2> QED BY <2>1, <2>2, <2>3, ConstantsAssumption
<1>4. StartUser.exists \in BOOLEAN BY <1>2 DEF User
<1>3. ArgsOK BY DEF Init, ArgsOK, Idle
<1> QED
  BY <1>1, <1>2, <1>3, <1>4, ConstantsAssumption
  DEF Init, TypeInv, TypeOK, NoSession, Scopes

LEMMA StepType == TypeInv /\ [Next]_vars => TypeInv'
<1> SUFFICES ASSUME TypeInv, [Next]_vars PROVE TypeInv' OBVIOUS
<1>1. CASE \E p \in Procs, s \in Sessions : Send(p, s)
  BY <1>1, SendType
<1>2. ASSUME NEW p \in Procs, Serve(p) PROVE TypeInv'
  <2>1. CASE StoreFails(p)
    BY <2>1, AnswerType DEF StoreFails, TypeInv, TypeOK, store, browser
  <2> QED BY <1>2, <2>1, AuthType, UsersType, U2fType DEF Serve
<1>3. ASSUME NEW s \in Sessions, ExpireSession(s) PROVE TypeInv'
  <2>1. session' \in [Sessions -> [scope : Scopes, earned : SUBSET Evidence]]
    BY <1>3 DEF ExpireSession, TypeInv, TypeOK, NoSession, Scopes
  <2> QED BY <1>3, <2>1 DEF ExpireSession, TypeInv, TypeOK, ArgsOK, store, browser
<1>4. ASSUME NEW i \in issued, Abandon(i) PROVE TypeInv'
  BY <1>4 DEF Abandon, TypeInv, TypeOK, ArgsOK, store
<1>5. CASE UNCHANGED vars
  BY <1>5 DEF vars, TypeInv, TypeOK, ArgsOK
<1> QED BY <1>1, <1>2, <1>3, <1>4, <1>5 DEF Next

(* The variables keep the types TypeOK gives them, whatever the requests,  *)
(* their number and the calls that fail.                                   *)
THEOREM TypeCorrect == Spec => []TypeOK
<1>1. TypeInv => TypeOK BY DEF TypeInv
<1> QED BY <1>1, InitType, StepType, PTL DEF Spec

-----------------------------------------------------------------------------
(* The origin of scopes.  SignResponseHandler is entered only behind       *)
(* VerifyU2fInProgress, so until it saves the raised scope its request is  *)
(* one that is waiting for U2F.                                            *)
SignsInProgress ==
  \A p \in Procs :
    req[p].op = "signResp" /\ req[p].pc \notin {"identify", "grant"} =>
      req[p].scope \in {"U2fForRead", "U2fForWrite"}

ScopeInv == TypeInv /\ ScopesEarned /\ SignsInProgress

(* A record of which ScopeInv holds.                                       *)
WellScoped(r) ==
  /\ Earned(r.scope, r.earned)
  /\ r.op = "signResp" /\ r.pc \notin {"identify", "grant"} =>
       r.scope \in {"U2fForRead", "U2fForWrite"}

ReqScoped == \A p \in Procs : WellScoped(req[p])

SessionScoped == \A s \in Sessions : Earned(session[s].scope, session[s].earned)

LEMMA ScopeParts ==
  ScopesEarned /\ SignsInProgress <=> ReqScoped /\ SessionScoped
BY DEF ScopesEarned, SignsInProgress, ReqScoped, SessionScoped, WellScoped

LEMMA UpdateScoped ==
  ASSUME TypeInv, ReqScoped, NEW p \in Procs, NEW r, WellScoped(r),
         req' = [req EXCEPT ![p] = r]
  PROVE  ReqScoped'
BY DEF TypeInv, TypeOK, ReqScoped, WellScoped

LEMMA AnswerScoped ==
  ASSUME TypeInv, ReqScoped, NEW p \in Procs, Answer(p) PROVE ReqScoped'
<1>1. WellScoped(Idle) BY DEF WellScoped, Idle, Earned
<1> QED BY <1>1, UpdateScoped DEF Answer

LEMMA GotoScoped ==
  ASSUME TypeInv, ReqScoped, NEW p \in Procs, NEW label, Goto(p, label),
         req[p].pc \notin {"identify", "grant"}
  PROVE  ReqScoped'
<1> DEFINE r == [req[p] EXCEPT !.pc = label]
<1>1. req[p] \in Request BY DEF TypeInv, TypeOK
<1>2. /\ r.op = req[p].op /\ r.scope = req[p].scope /\ r.earned = req[p].earned
      /\ req' = [req EXCEPT ![p] = r]
  BY <1>1 DEF Goto, Request
<1>3. WellScoped(r) BY <1>2 DEF ReqScoped, WellScoped
<1> HIDE DEF r
<1> QED BY <1>2, <1>3, UpdateScoped

LEMMA SetScopeScoped ==
  ASSUME TypeInv, ReqScoped, NEW p \in Procs, NEW scope, NEW earned,
         SetScope(p, scope, earned, "grant"), Earned(scope, earned)
  PROVE  ReqScoped'
<1> DEFINE r == [req[p] EXCEPT !.scope = scope, !.earned = earned, !.pc = "grant"]
<1>1. req[p] \in Request BY DEF TypeInv, TypeOK
<1>2. /\ r.pc = "grant" /\ r.scope = scope /\ r.earned = earned
      /\ req' = [req EXCEPT ![p] = r]
  BY <1>1 DEF SetScope, Request
<1>3. WellScoped(r) BY <1>2 DEF WellScoped
<1> HIDE DEF r
<1> QED BY <1>2, <1>3, UpdateScoped

LEMMA AcceptScoped ==
  ASSUME TypeInv, ReqScoped, SessionScoped, NEW p \in Procs, NEW s \in Sessions,
         NEW op, NEW label, NEW args, Accept(p, s, op, label, args),
         op = "signResp" /\ label # "identify" =>
           session[s].scope \in {"U2fForRead", "U2fForWrite"}
  PROVE  ReqScoped'
<1> DEFINE r == [op |-> op, pc |-> label, sess |-> s,
                 scope |-> session[s].scope, earned |-> session[s].earned,
                 chal |-> args.chal, handle |-> args.handle,
                 ctr |-> args.ctr, want |-> args.want, user |-> NoUser, seen |-> {}]
<1>1. WellScoped(r) BY DEF SessionScoped, WellScoped
<1>2. req' = [req EXCEPT ![p] = r] BY DEF Accept
<1> HIDE DEF r
<1> QED BY <1>1, <1>2, UpdateScoped

LEMMA SendScoped ==
  ASSUME TypeInv, ReqScoped, SessionScoped, NEW p \in Procs, NEW s \in Sessions,
         Send(p, s)
  PROVE  ReqScoped' /\ session' = session
<1> USE DEF AcceptWrite, AcceptRead, AcceptIdentified
<1>1. CASE Signup(p, s) BY <1>1, AcceptScoped DEF Signup
<1>2. CASE Login(p, s) BY <1>2, AcceptScoped DEF Login
<1>3. CASE Verify(p, s) BY <1>3, AcceptScoped DEF Verify
<1>4. CASE Resend(p, s) BY <1>4, AcceptScoped DEF Resend
<1>5. CASE RegisterRequest(p, s) BY <1>5, AcceptScoped DEF RegisterRequest
<1>6. CASE RegisterResponse(p, s) BY <1>6, AcceptScoped DEF RegisterResponse
<1>7. CASE SignRequest(p, s) BY <1>7, AcceptScoped DEF SignRequest
<1>8. CASE SignResponse(p, s)
  <2>1. session[s].scope # "None" =>
          session[s].scope \in {"U2fForRead", "U2fForWrite"}
    BY <1>8 DEF SignResponse, TypeInv, TypeOK, Scopes
  <2> QED BY <1>8, <2>1, AcceptScoped DEF SignResponse
<1>9. CASE Delete(p, s) BY <1>9, AcceptScoped DEF Delete
<1>10. CASE Require(p, s) BY <1>10, AcceptScoped DEF Require
<1> QED
  BY <1>1, <1>2, <1>3, <1>4, <1>5, <1>6, <1>7, <1>8, <1>9, <1>10 DEF Send

LEMMA AuthScoped ==
  ASSUME TypeInv, ReqScoped, SessionScoped, NEW p \in Procs, AuthStep(p)
  PROVE  ReqScoped' /\ SessionScoped'
<1>a. ASSUME req[p].pc = "grant", AfterGrant(p) PROVE ReqScoped'
  <2>1. CASE Answer(p) BY <2>1, AnswerScoped
  <2>2. ASSUME NEW label, Goto(p, label),
               req[p].op = "signResp" => req[p].scope = "U2fForRead"
        PROVE  ReqScoped'
    <3> DEFINE r == [req[p] EXCEPT !.pc = label]
    <3>1. req[p] \in Request BY DEF TypeInv, TypeOK
    <3>2. /\ r.op = req[p].op /\ r.scope = req[p].scope /\ r.earned = req[p].earned
          /\ req' = [req EXCEPT ![p] = r]
      BY <2>2, <3>1 DEF Goto, Request
    <3>3. WellScoped(r) BY <2>2, <3>2 DEF ReqScoped, WellScoped
    <3> HIDE DEF r
    <3> QED BY <3>2, <3>3, UpdateScoped
  <2> QED BY <1>a, <2>1, <2>2 DEF AfterGrant, WriteOps
<1>1. CASE CheckPassword(p)
  <2> DEFINE op == req[p].op
  <2>1. Earned(PasswordScope(op, user.enforced), PasswordEvidence(op, user.enforced))
    BY DEF Earned, PasswordScope, PasswordEvidence
  <2> QED BY <1>1, <2>1, SetScopeScoped, AnswerScoped
          DEF CheckPassword, SessionScoped
<1>2. CASE Identify(p)
  <2>1. Earned("U2fForRead", {}) BY DEF Earned
  <2> QED BY <1>2, <2>1, SetScopeScoped, AnswerScoped DEF Identify, SessionScoped
<1>3. CASE UpdateSession(p)
  <2>1. Earned(req[p].scope, req[p].earned) BY DEF ReqScoped, WellScoped
  <2>2. SessionScoped'
    BY <1>3, <2>1 DEF UpdateSession, SessionScoped, TypeInv, TypeOK
  <2> QED BY <1>3, <1>a, <2>2 DEF UpdateSession
<1>4. CASE SessionSaveFails(p)
  BY <1>4, <1>a DEF SessionSaveFails, SessionScoped
<1>5. CASE CheckWrite(p)
  BY <1>5, GotoScoped, AnswerScoped DEF CheckWrite, SessionScoped
<1> QED BY <1>1, <1>2, <1>3, <1>4, <1>5 DEF AuthStep

LEMMA UsersScoped ==
  ASSUME TypeInv, ReqScoped, SessionScoped, NEW p \in Procs, UsersStep(p)
  PROVE  ReqScoped' /\ SessionScoped'
<1>1. CASE SignupCheck(p)
  BY <1>1, GotoScoped, AnswerScoped DEF SignupCheck, At, SessionScoped
<1>2. CASE SignupSave(p)
  BY <1>2, GotoScoped DEF SignupSave, At, SessionScoped
<1>3. CASE SignupKeys(p)
  BY <1>3, GotoScoped, AnswerScoped DEF SignupKeys, At, SessionScoped
<1>4. CASE RequestVerification(p)
  <2>1. Earned("Read", {"password"}) BY DEF Earned
  <2> QED BY <1>4, <2>1, SetScopeScoped, AnswerScoped
          DEF RequestVerification, SessionScoped
<1>5. CASE GetUserByKey(p)
  <2> DEFINE r == [req[p] EXCEPT !.user = user,
                     !.pc = IF req[p].op = "resend" THEN "mail" ELSE "saveUser"]
  <2>0. req[p] \in Request BY DEF TypeInv, TypeOK
  <2>1. r.op = req[p].op /\ r.scope = req[p].scope /\ r.earned = req[p].earned
    BY <2>0 DEF Request
  <2>2. WellScoped(r) BY <1>5, <2>1 DEF GetUserByKey, ReqScoped, WellScoped
  <2>3. req' = [req EXCEPT ![p] = r] \/ Answer(p) BY <1>5 DEF GetUserByKey
  <2> HIDE DEF r
  <2> QED BY <1>5, <2>2, <2>3, UpdateScoped, AnswerScoped
          DEF GetUserByKey, SessionScoped
<1>6. CASE VerifySave(p)
  BY <1>6, GotoScoped DEF VerifySave, At, SessionScoped
<1>7. CASE VerifyExpire(p)
  <2>1. Earned(NoSession.scope, NoSession.earned) BY DEF Earned, NoSession
  <2>2. SessionScoped'
    BY <1>7, <2>1 DEF VerifyExpire, SessionScoped, TypeInv, TypeOK
  <2> QED BY <1>7, <2>2, AnswerScoped DEF VerifyExpire
<1> QED
  BY <1>1, <1>2, <1>3, <1>4, <1>5, <1>6, <1>7 DEF UsersStep

LEMMA U2fScoped ==
  ASSUME TypeInv, ReqScoped, SessionScoped, NEW p \in Procs, U2fStep(p)
  PROVE  ReqScoped' /\ SessionScoped'
<1> USE DEF At, SessionScoped
<1>1. CASE RegisterSaveChallenge(p) BY <1>1, GotoScoped DEF RegisterSaveChallenge
<1>2. CASE RegisterHandOut(p) BY <1>2, AnswerScoped DEF RegisterHandOut
<1>3. CASE RegisterFetchChallenge(p)
  BY <1>3, GotoScoped, AnswerScoped DEF RegisterFetchChallenge, FetchChallenge
<1>4. CASE RegisterSaveRegistration(p)
  BY <1>4, GotoScoped DEF RegisterSaveRegistration
<1>5. CASE RegisterSaveCounter(p) BY <1>5, GotoScoped DEF RegisterSaveCounter
<1>6. CASE RegisterSaveUser(p) BY <1>6, AnswerScoped DEF RegisterSaveUser
<1>7. CASE SignList(p)
  <2> DEFINE r == [req[p] EXCEPT !.seen = regs, !.pc = "saveChallenge"]
  <2>0. req[p] \in Request BY DEF TypeInv, TypeOK
  <2>1. r.op = req[p].op /\ r.scope = req[p].scope /\ r.earned = req[p].earned
    BY <2>0 DEF Request
  <2>2. WellScoped(r) BY <1>7, <2>1 DEF SignList, ReqScoped, WellScoped
  <2>3. req' = [req EXCEPT ![p] = r] \/ Answer(p) BY <1>7 DEF SignList
  <2> HIDE DEF r
  <2> QED BY <1>7, <2>2, <2>3, UpdateScoped, AnswerScoped DEF SignList
<1>8. CASE SignSaveChallenge(p) BY <1>8, AnswerScoped DEF SignSaveChallenge
<1>9. CASE SignFetchChallenge(p)
  BY <1>9, GotoScoped, AnswerScoped DEF SignFetchChallenge, FetchChallenge
<1>10. CASE SignMatch(p) BY <1>10, GotoScoped, AnswerScoped DEF SignMatch
<1>11. CASE SignReadCounter(p)
  BY <1>11, GotoScoped, AnswerScoped DEF SignReadCounter
<1>12. CASE SignSaveCounter(p)
  <2>1. WellScoped(req[p]) BY DEF ReqScoped
  <2>2. Earned(RaisedScope(req[p].scope), req[p].earned \cup {"u2f"})
    BY <1>12, <2>1 DEF SignSaveCounter, WellScoped, Earned, RaisedScope
  <2> QED BY <1>12, <2>2, SetScopeScoped DEF SignSaveCounter
<1>13. CASE DeleteCount(p) BY <1>13, GotoScoped DEF DeleteCount
<1>14. CASE DeleteSaveUser(p) BY <1>14, GotoScoped DEF DeleteSaveUser
<1>15. CASE DeleteRegistration(p) BY <1>15, AnswerScoped DEF DeleteRegistration
<1>16. CASE RequireCount(p) BY <1>16, GotoScoped, AnswerScoped DEF RequireCount
<1>17. CASE RequireSaveUser(p) BY <1>17, AnswerScoped DEF RequireSaveUser
<1> QED
  BY <1>1, <1>2, <1>3, <1>4, <1>5, <1>6, <1>7, <1>8, <1>9, <1>10, <1>11, <1>12,
     <1>13, <1>14, <1>15, <1>16, <1>17 DEF U2fStep

LEMMA StepScoped == ScopeInv /\ [Next]_vars => ScopeInv'
<1> SUFFICES ASSUME TypeInv, ReqScoped, SessionScoped, [Next]_vars
             PROVE  ReqScoped' /\ SessionScoped'
  <2>1. (ScopesEarned /\ SignsInProgress)' <=> (ReqScoped /\ SessionScoped)'
    BY DEF ScopesEarned, SignsInProgress, ReqScoped, SessionScoped, WellScoped
  <2> QED BY <2>1, StepType, ScopeParts DEF ScopeInv
<1>1. CASE \E p \in Procs, s \in Sessions : Send(p, s)
  BY <1>1, SendScoped DEF SessionScoped
<1>2. ASSUME NEW p \in Procs, Serve(p) PROVE ReqScoped' /\ SessionScoped'
  <2>1. CASE StoreFails(p)
    BY <2>1, AnswerScoped DEF StoreFails, SessionScoped
  <2> QED BY <1>2, <2>1, AuthScoped, UsersScoped, U2fScoped DEF Serve
<1>3. ASSUME NEW s \in Sessions, ExpireSession(s) PROVE ReqScoped' /\ SessionScoped'
  <2>1. Earned(NoSession.scope, NoSession.earned) BY DEF Earned, NoSession
  <2> QED
    BY <1>3, <2>1 DEF ExpireSession, SessionScoped, ReqScoped, TypeInv, TypeOK
<1>4. ASSUME NEW i \in issued, Abandon(i) PROVE ReqScoped' /\ SessionScoped'
  BY <1>4 DEF Abandon, SessionScoped, ReqScoped
<1>5. CASE UNCHANGED vars
  BY <1>5 DEF vars, SessionScoped, ReqScoped
<1> QED BY <1>1, <1>2, <1>3, <1>4, <1>5 DEF Next

(* Write scope was obtained with the password, and with the token unless   *)
(* U2F was not required when the password was checked; Read scope with the *)
(* password or the token: however requests, logouts and answers overlap.   *)
THEOREM ScopesAreEarned == Spec => []ScopesEarned
<1>1. Init => ScopeInv
  <2>1. Init => ScopesEarned /\ SignsInProgress
    BY DEF Init, ScopesEarned, SignsInProgress, Earned, Idle, NoSession
  <2> QED BY <2>1, InitType DEF ScopeInv
<1>2. ScopeInv => ScopesEarned BY DEF ScopeInv
<1> QED BY <1>1, <1>2, StepScoped, PTL DEF Spec

-----------------------------------------------------------------------------
(* One request at a time.  What the request has established by the call it *)
(* makes next; with a second request in between, none of it would last:    *)
(*  - the registration it saved is still there when it requires U2F;       *)
(*  - it counted a registration before enabling;                           *)
(*  - it disabled U2F before deleting the last registration;               *)
(*  - its copy of the user is still the entity it read.                    *)
Established(r) ==
  /\ r.op = "regResp" /\ r.pc \in {"saveCounter", "getUser", "saveUser"} =>
       r.handle \in regs
  /\ r.op = "require" /\ r.want /\ r.pc \in {"getUser", "saveUser"} => regs # {}
  /\ r.op = "delReg" /\ r.pc = "delete" => (user.enforced => regs # {r.handle})
  /\ r.op = "verify" /\ r.pc = "saveUser" => (r.user.enforced => regs # {})

SerialInv == TypeInv /\ NoLockout /\ \A p \in Procs : Established(req[p])

Serial == \A p, q \in Procs : p = q

(* What a step has to show when requests do not overlap.                   *)
Kept == NoLockout' /\ \A p \in Procs : Established(req[p])'

Fields(r, p, label) ==
  /\ r.op = req[p].op
  /\ r.pc = label
  /\ r.handle = req[p].handle
  /\ r.want = req[p].want
  /\ r.user = req[p].user

LEMMA GotoFields ==
  ASSUME TypeInv, NEW p \in Procs, NEW label, Goto(p, label)
  PROVE  Fields(req'[p], p, label)
BY DEF TypeInv, TypeOK, Goto, Request, Fields

LEMMA AnswerFields ==
  ASSUME TypeInv, NEW p \in Procs, Answer(p)
  PROVE  req'[p].op = "none" /\ req'[p].pc = "idle"
BY DEF TypeInv, TypeOK, Answer, Idle

LEMMA SetScopeFields ==
  ASSUME TypeInv, NEW p \in Procs, NEW scope, NEW earned, SetScope(p, scope, earned, "grant")
  PROVE  Fields(req'[p], p, "grant")
BY DEF TypeInv, TypeOK, SetScope, Request, Fields

LEMMA AcceptFields ==
  ASSUME TypeInv, NEW p \in Procs, NEW s, NEW op, NEW label, NEW args,
         Accept(p, s, op, label, args)
  PROVE  req'[p].op = op /\ req'[p].pc = label
BY DEF TypeInv, TypeOK, Accept

(* The calls at which a request relies on what it established.             *)
Relying == {"saveCounter", "getUser", "saveUser", "delete"}

(* A step that leaves the user and the registrations alone, after which    *)
(* the request relies on nothing.                                          *)
LEMMA QuietStep ==
  ASSUME Serial, SerialInv, NEW p \in Procs, user' = user, regs' = regs,
         \/ req'[p].pc \notin Relying
         \/ req'[p].op \notin {"regResp", "require", "delReg", "verify"}
  PROVE  Kept
<1>1. Established(req[p])' BY DEF Established, Relying
<1> QED BY <1>1 DEF Serial, SerialInv, NoLockout, Kept

LEMMA SendSerial ==
  ASSUME Serial, SerialInv, NEW p \in Procs, NEW s \in Sessions, Send(p, s)
  PROVE  Kept
<1> USE DEF AcceptWrite, AcceptRead, AcceptIdentified, Relying, store, SerialInv
<1>1. CASE Signup(p, s) BY <1>1, AcceptFields, QuietStep DEF Signup
<1>2. CASE Login(p, s) BY <1>2, AcceptFields, QuietStep DEF Login
<1>3. CASE Verify(p, s)
  <2>1. req'[p].op = "verify" /\ req'[p].pc = "getUser" /\ user' = user /\ regs' = regs
    BY <1>3, AcceptFields DEF Verify
  <2>2. Established(req[p])' BY <2>1 DEF Established
  <2> QED BY <2>1, <2>2 DEF Serial, NoLockout, Kept
<1>4. CASE Resend(p, s) BY <1>4, AcceptFields, QuietStep DEF Resend
<1>5. CASE RegisterRequest(p, s) BY <1>5, AcceptFields, QuietStep DEF RegisterRequest
<1>6. CASE RegisterResponse(p, s)
  BY <1>6, AcceptFields, QuietStep DEF RegisterResponse
<1>7. CASE SignRequest(p, s) BY <1>7, AcceptFields, QuietStep DEF SignRequest
<1>8. CASE SignResponse(p, s) BY <1>8, AcceptFields, QuietStep DEF SignResponse
<1>9. CASE Delete(p, s) BY <1>9, AcceptFields, QuietStep DEF Delete
<1>10. CASE Require(p, s) BY <1>10, AcceptFields, QuietStep DEF Require
<1> QED
  BY <1>1, <1>2, <1>3, <1>4, <1>5, <1>6, <1>7, <1>8, <1>9, <1>10 DEF Send

LEMMA AuthSerial ==
  ASSUME Serial, SerialInv, NEW p \in Procs, AuthStep(p)
  PROVE  Kept
<1> USE DEF Relying, store, SerialInv, Fields
<1>a. AfterGrant(p) => \/ req'[p].pc \notin Relying
                       \/ req'[p].op \notin {"regResp", "require", "delReg", "verify"}
  BY GotoFields, AnswerFields DEF AfterGrant
<1>1. CASE CheckPassword(p)
  BY <1>1, SetScopeFields, AnswerFields, QuietStep DEF CheckPassword
<1>2. CASE Identify(p)
  BY <1>2, SetScopeFields, AnswerFields, QuietStep DEF Identify
<1>3. CASE UpdateSession(p) BY <1>3, <1>a, QuietStep DEF UpdateSession
<1>4. CASE SessionSaveFails(p) BY <1>4, <1>a, QuietStep DEF SessionSaveFails
<1>5. CASE CheckWrite(p)
  <2>1. /\ user' = user /\ regs' = regs
        /\ Goto(p, FirstCall(req[p])) \/ Answer(p)
    BY <1>5 DEF CheckWrite
  <2>2. CASE Answer(p) BY <2>1, <2>2, AnswerFields, QuietStep
  <2>3. CASE Goto(p, FirstCall(req[p]))
    <3>1. Fields(req'[p], p, FirstCall(req[p])) BY <2>3, GotoFields
    <3>2. Established(req[p])'
      BY <3>1, <2>1 DEF Established, FirstCall
    <3> QED BY <2>1, <3>2 DEF Serial, NoLockout, Kept
  <2> QED BY <2>1, <2>2, <2>3
<1> QED BY <1>1, <1>2, <1>3, <1>4, <1>5 DEF AuthStep

LEMMA UsersSerial ==
  ASSUME Serial, SerialInv, NEW p \in Procs, UsersStep(p)
  PROVE  Kept
<1> USE DEF Relying, SerialInv, Fields, At
<1>1. CASE SignupCheck(p)
  <2>1. /\ user' = user /\ regs' = regs
        /\ req'[p].op \in {"signup", "none"}
    BY <1>1, GotoFields, AnswerFields DEF SignupCheck, store
  <2> QED BY <2>1, QuietStep
<1>2. CASE SignupSave(p)
  <2>1. user'.enforced = FALSE /\ regs' = regs /\ req'[p].op = "signup"
    BY <1>2, GotoFields DEF SignupSave, Save, NewUser, NoUser
  <2>2. Established(req[p])' BY <2>1 DEF Established
  <2> QED BY <2>1, <2>2
          DEF Serial, NoLockout, Kept
<1>3. CASE SignupKeys(p)
  BY <1>3, GotoFields, AnswerFields, QuietStep DEF SignupKeys
<1>4. CASE RequestVerification(p)
  BY <1>4, SetScopeFields, AnswerFields, QuietStep DEF RequestVerification
<1>5. CASE GetUserByKey(p)
  <2>1. user' = user /\ regs' = regs BY <1>5 DEF GetUserByKey, store
  <2>2. CASE Answer(p) BY <2>1, <2>2, AnswerFields, QuietStep
  <2>3. CASE req' = [req EXCEPT ![p].user = user,
                       ![p].pc = IF req[p].op = "resend" THEN "mail" ELSE "saveUser"]
    <3>1. /\ req'[p].op = req[p].op
          /\ req'[p].pc \in {"mail", "saveUser"}
          /\ req'[p].handle = req[p].handle
          /\ req'[p].want = req[p].want
          /\ req'[p].user = user
      BY <2>3 DEF TypeInv, TypeOK, Request
    <3>2. Established(req[p]) /\ req[p].pc = "getUser" BY <1>5 DEF GetUserByKey
    <3>3. Established(req[p])' BY <2>1, <3>1, <3>2 DEF Established, NoLockout
    <3> QED BY <2>1, <3>3 DEF Serial, NoLockout, Kept
  <2> QED BY <1>5, <2>2, <2>3 DEF GetUserByKey
<1>6. CASE VerifySave(p)
  <2>1. /\ user'.enforced = req[p].user.enforced
        /\ regs' = regs
        /\ req'[p].op = "verify" /\ req'[p].pc = "expire"
    BY <1>6, GotoFields DEF VerifySave, Save, VerifiedCopy, TypeInv, TypeOK, Request, User
  <2>2. req[p].user.enforced \in BOOLEAN BY DEF TypeInv, TypeOK, Request, User
  <2>3. req[p].user.enforced => regs # {} BY <1>6 DEF VerifySave, Established
  <2>4. Established(req[p])' BY <2>1 DEF Established
  <2>5. NoLockout' BY <2>1, <2>3 DEF NoLockout
  <2> QED BY <2>4, <2>5 DEF Serial, Kept
<1>7. CASE VerifyExpire(p)
  BY <1>7, AnswerFields, QuietStep DEF VerifyExpire, store
<1> QED
  BY <1>1, <1>2, <1>3, <1>4, <1>5, <1>6, <1>7 DEF UsersStep

LEMMA U2fSerial ==
  ASSUME Serial, SerialInv, NEW p \in Procs, U2fStep(p)
  PROVE  Kept
<1> USE DEF Relying, SerialInv, Fields, At
<1>e. Established(req[p]) /\ NoLockout OBVIOUS
<1>1. CASE RegisterSaveChallenge(p)
  BY <1>1, GotoFields, QuietStep DEF RegisterSaveChallenge
<1>2. CASE RegisterHandOut(p)
  BY <1>2, AnswerFields, QuietStep DEF RegisterHandOut, store
<1>3. CASE RegisterFetchChallenge(p)
  <2>1. /\ user' = user /\ regs' = regs
        /\ req'[p].pc \in {"saveReg", "idle"}
    BY <1>3, GotoFields, AnswerFields DEF RegisterFetchChallenge, FetchChallenge, store
  <2> QED BY <2>1, QuietStep
<1>4. CASE RegisterSaveRegistration(p)
  <2>1. /\ user' = user
        /\ regs' = regs \cup {req[p].handle}
        /\ Fields(req'[p], p, "saveCounter")
        /\ req[p].op = "regResp"
    BY <1>4, GotoFields DEF RegisterSaveRegistration
  <2>2. req[p].handle \in Handles BY <2>1 DEF TypeInv, ArgsOK
  <2>3. Established(req[p])' BY <2>1 DEF Established
  <2> QED BY <2>1, <2>2, <2>3
          DEF Serial, NoLockout, Kept
<1>5. CASE RegisterSaveCounter(p)
  <2>1. /\ user' = user /\ regs' = regs
        /\ Fields(req'[p], p, "getUser")
        /\ req[p].op = "regResp" /\ req[p].pc = "saveCounter"
    BY <1>5, GotoFields DEF RegisterSaveCounter
  <2>2. Established(req[p])' BY <1>e, <2>1 DEF Established
  <2> QED BY <2>1, <2>2 DEF Serial, NoLockout, Kept
<1>6. CASE RegisterSaveUser(p)
  <2>1. /\ user'.enforced = TRUE /\ regs' = regs
        /\ req'[p].op = "none"
    BY <1>6, AnswerFields DEF RegisterSaveUser, Save, TypeInv, TypeOK, Request, User
  <2>2. regs # {} BY <1>6, <1>e DEF RegisterSaveUser, Established
  <2>3. Established(req[p])' BY <2>1 DEF Established
  <2> QED BY <2>1, <2>2, <2>3
          DEF Serial, NoLockout, Kept
<1>7. CASE SignList(p)
  <2>1. CASE Answer(p) BY <1>7, <2>1, AnswerFields, QuietStep DEF SignList, store
  <2>2. CASE req' = [req EXCEPT ![p].seen = regs, ![p].pc = "saveChallenge"]
    <3>1. req'[p].pc = "saveChallenge" BY <2>2 DEF TypeInv, TypeOK, Request
    <3> QED BY <1>7, <3>1, QuietStep DEF SignList, store
  <2> QED BY <1>7, <2>1, <2>2 DEF SignList
<1>8. CASE SignSaveChallenge(p)
  BY <1>8, AnswerFields, QuietStep DEF SignSaveChallenge
<1>9. CASE SignFetchChallenge(p)
  <2>1. /\ user' = user /\ regs' = regs
        /\ req'[p].pc \in {"fetchRegs", "idle"}
    BY <1>9, GotoFields, AnswerFields DEF SignFetchChallenge, FetchChallenge, store
  <2> QED BY <2>1, QuietStep
<1>10. CASE SignMatch(p)
  BY <1>10, GotoFields, AnswerFields, QuietStep DEF SignMatch, store
<1>11. CASE SignReadCounter(p)
  <2>1. /\ user' = user /\ regs' = regs
        /\ req'[p].op \in {"signResp", "none"}
    BY <1>11, GotoFields, AnswerFields DEF SignReadCounter, store
  <2> QED BY <2>1, QuietStep
<1>12. CASE SignSaveCounter(p)
  BY <1>12, SetScopeFields, QuietStep DEF SignSaveCounter
<1>13. CASE DeleteCount(p)
  <2>1. /\ user' = user /\ regs' = regs
        /\ Fields(req'[p], p, IF OnlyRegistration(regs) THEN "getUser" ELSE "delete")
        /\ req[p].op = "delReg"
    BY <1>13, GotoFields DEF DeleteCount, store
  <2>2. ~OnlyRegistration(regs) => regs # {req[p].handle}
    BY FS_Singleton DEF OnlyRegistration
  <2>3. Established(req[p])' BY <2>1, <2>2 DEF Established
  <2> QED BY <1>e, <2>1, <2>3 DEF Serial, NoLockout, Kept
<1>14. CASE DeleteSaveUser(p)
  <2>1. /\ user'.enforced = FALSE /\ regs' = regs
        /\ req'[p].op = "delReg"
    BY <1>14, GotoFields DEF DeleteSaveUser, Save, TypeInv, TypeOK, Request, User
  <2>2. Established(req[p])' BY <2>1 DEF Established
  <2> QED BY <2>1, <2>2
          DEF Serial, NoLockout, Kept
<1>15. CASE DeleteRegistration(p)
  <2>1. /\ user' = user
        /\ regs' = regs \ {req[p].handle}
        /\ req'[p].op = "none"
    BY <1>15, AnswerFields DEF DeleteRegistration
  <2>2. user.enforced => regs # {} /\ regs # {req[p].handle}
    BY <1>15, <1>e DEF DeleteRegistration, Established, NoLockout
  <2>3. req[p].handle \in Handles BY <1>15 DEF DeleteRegistration, TypeInv, ArgsOK
  <2>4. Established(req[p])' BY <2>1 DEF Established
  <2> QED BY <2>1, <2>2, <2>3, <2>4
          DEF Serial, NoLockout, Kept
<1>16. CASE RequireCount(p)
  <2>1. /\ user' = user /\ regs' = regs
        /\ \/ Fields(req'[p], p, "getUser") /\ regs # {}
           \/ req'[p].op = "none"
    BY <1>16, GotoFields, AnswerFields DEF RequireCount, MayEnable, store
  <2>2. Established(req[p])' BY <1>16, <2>1 DEF RequireCount, Established
  <2> QED BY <1>e, <2>1, <2>2 DEF Serial, NoLockout, Kept
<1>17. CASE RequireSaveUser(p)
  <2>1. /\ user'.enforced = req[p].want /\ regs' = regs
        /\ req'[p].op = "none"
    BY <1>17, AnswerFields DEF RequireSaveUser, Save, TypeInv, TypeOK, Request, User
  <2>2. req[p].want \in BOOLEAN BY DEF TypeInv, TypeOK, Request
  <2>3. req[p].want => regs # {} BY <1>17, <1>e DEF RequireSaveUser, Established
  <2>4. Established(req[p])' BY <2>1 DEF Established
  <2> QED BY <2>1, <2>3, <2>4 DEF Serial, NoLockout, Kept
<1> QED
  BY <1>1, <1>2, <1>3, <1>4, <1>5, <1>6, <1>7, <1>8, <1>9, <1>10, <1>11, <1>12,
     <1>13, <1>14, <1>15, <1>16, <1>17 DEF U2fStep

LEMMA StepSerial ==
  ASSUME Serial PROVE SerialInv /\ [Next]_vars => SerialInv'
<1> SUFFICES ASSUME SerialInv, [Next]_vars PROVE Kept
  BY StepType DEF SerialInv, Kept
<1>1. CASE \E p \in Procs, s \in Sessions : Send(p, s)
  BY <1>1, SendSerial
<1>2. ASSUME NEW p \in Procs, Serve(p) PROVE Kept
  <2>1. CASE StoreFails(p)
    BY <2>1, AnswerFields, QuietStep DEF StoreFails, store, SerialInv, Relying
  <2> QED BY <1>2, <2>1, AuthSerial, UsersSerial, U2fSerial DEF Serve
<1>3. ASSUME UNCHANGED <<user, regs, req>> PROVE Kept
  BY <1>3 DEF SerialInv, Kept, NoLockout, Established
<1> QED
  BY <1>1, <1>2, <1>3 DEF Next, ExpireSession, Abandon, vars, store

LEMMA InitSerial == Init => SerialInv
<1> SUFFICES ASSUME Init PROVE SerialInv OBVIOUS
<1>1. StartUser.enforced = FALSE
  <2>1. NoUser.enforced = FALSE BY DEF NoUser
  <2>2. NewUser.enforced = FALSE BY DEF NoUser, NewUser
  <2>3. VerifiedUser.enforced = FALSE BY <2>2 DEF NoUser, NewUser, VerifiedUser
  <2> QED BY <2>1, <2>2, <2>3, ConstantsAssumption
<1>2. \A p \in Procs : Established(req[p]) BY DEF Init, Idle, Established
<1> QED BY <1>1, <1>2, InitType DEF Init, SerialInv, NoLockout

(* With one request at a time no user of whom U2F is required is left      *)
(* without a registration, also when any call of any handler fails.        *)
THEOREM SerialNoLockout ==
  ASSUME Serial PROVE Spec => []NoLockout
<1>1. SerialInv => NoLockout BY DEF SerialInv
<1>2. SerialInv /\ [Next]_vars => SerialInv' BY StepSerial
<1>3. Init => SerialInv BY InitSerial
<1> QED BY <1>1, <1>2, <1>3, PTL DEF Spec
=============================================================================
