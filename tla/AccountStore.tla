---------------------------- MODULE AccountStore ----------------------------
(***************************************************************************)
(* The state behind one account of the server: its Datastore entities (the *)
(* user, its U2F registrations, counters and challenge), the memcache      *)
(* sessions, and the requests App Engine is serving at this moment.        *)
(*                                                                         *)
(* Every Datastore or memcache call is atomic and no handler uses a        *)
(* transaction, so a handler is a sequence of steps, one per call, and     *)
(* `req[p].pc` names the call that request p makes next.  Between two      *)
(* calls of one handler any other request may take its own steps.          *)
(***************************************************************************)
EXTENDS Integers, FiniteSets

CONSTANTS
  Procs,          \* requests the server handles at one time
  Sessions,       \* session cookies
  Handles,        \* key handles that tokens may create
  Challenges,     \* challenge values; recycled once nothing refers to them
  MaxCounter,     \* bound on the signature counters tokens send
  Ops,            \* the endpoints exercised
  WithBasicAuth,  \* the endpoints whose requests carry an Authorization header
  StoreMayFail,   \* whether a Datastore, memcache or mail call may fail
  StartUser,      \* the user entity stored before the first request
  None            \* "no such value"

VARIABLES
  user,       \* entity "user"; user.exists = FALSE: no such entity
  keypair,    \* the account's first key pair is in the key store
  mailed,     \* a verification mail was handed to SparkPost
  regs,       \* entities "u2fRegistration", by key handle
  counter,    \* entities "u2fCounter", by key handle; -1: no such entity
  challenge,  \* the one entity "u2fChallenge" of the user, or None
  session,    \* the memcache session of each cookie
  req,        \* the request each process is serving
  issued,     \* challenges delivered to a browser that still remembers them
  made        \* key handles the tokens have created

store   == <<user, keypair, mailed, regs, counter, challenge>>
browser == <<issued, made>>
vars    == <<user, keypair, mailed, regs, counter, challenge,
             session, req, issued, made>>

-----------------------------------------------------------------------------
(* users.User without the e-mail address and the password hash.            *)
User == [exists : BOOLEAN, enforced : BOOLEAN, verified : BOOLEAN]
NoUser       == [exists |-> FALSE, enforced |-> FALSE, verified |-> FALSE]
NewUser      == [NoUser EXCEPT !.exists = TRUE]
VerifiedUser == [NewUser EXCEPT !.verified = TRUE]

(* auth/scopes; "None" is a session without a scope (and without a user key: *)
(* UpdateSession always sets both).                                        *)
Scopes == {"None", "U2fForRead", "U2fForWrite", "Read", "Write"}

(* `earned` is history, not state of the program: what the holder of the   *)
(* session showed to get its scope.  "password": the right password or the *)
(* sign-up itself; "u2f": an accepted token signature; "exempt": the user  *)
(* entity said U2fEnforced = FALSE when the password was checked.          *)
Evidence == {"password", "u2f", "exempt"}

NoSession == [scope |-> "None", earned |-> {}]

AllOps == {"signup", "login", "verify", "resend", "regReq", "regResp",
           "signReq", "signResp", "delReg", "require"}

(* The endpoints behind auth.AuthWriteMiddlewares.                         *)
WriteOps == {"regReq", "regResp", "delReg", "require"}

Labels == {"idle", "password", "grant", "verified", "identify", "exists",
           "getUser", "saveUser", "saveKeys", "mail", "expire",
           "fetchChallenge", "saveChallenge", "fetchRegs", "countRegs",
           "saveReg", "readCounter", "saveCounter", "delete"}

(* A request: its endpoint and next call, the session it loaded (sess,     *)
(* scope, earned), the arguments of the endpoint (chal, handle, ctr, want) *)
(* and what the handler read and will use: its copy of the user entity and *)
(* the registrations it lists in a sign request.                           *)
Request ==
  [op : AllOps \cup {"none"}, pc : Labels,
   sess : Sessions \cup {None}, scope : Scopes, earned : SUBSET Evidence,
   chal : Challenges \cup {None}, handle : Handles \cup {None},
   ctr : 0..MaxCounter, want : BOOLEAN, user : User, seen : SUBSET Handles]

Idle ==
  [op |-> "none", pc |-> "idle", sess |-> None, scope |-> "None", earned |-> {},
   chal |-> None, handle |-> None, ctr |-> 0, want |-> FALSE, user |-> NoUser, seen |-> {}]

ASSUME ConstantsAssumption ==
  /\ MaxCounter \in Nat
  /\ Ops \subseteq AllOps
  /\ WithBasicAuth \subseteq Ops
  /\ StoreMayFail \in BOOLEAN
  /\ StartUser \in {NoUser, NewUser, VerifiedUser}
  /\ None \notin Procs \cup Sessions \cup Handles \cup Challenges

TypeOK ==
  /\ user \in User
  /\ keypair \in BOOLEAN
  /\ mailed \in BOOLEAN
  /\ regs \subseteq Handles
  /\ counter \in [Handles -> -1..MaxCounter]
  /\ challenge \in Challenges \cup {None}
  /\ session \in [Sessions -> [scope : Scopes, earned : SUBSET Evidence]]
  /\ req \in [Procs -> Request]
  /\ issued \subseteq [kind : {"register", "sign"}, chal : Challenges,
                       handles : SUBSET Handles]
  /\ made \subseteq Handles

Init ==
  /\ user = StartUser
  /\ keypair = StartUser.exists
  /\ mailed = StartUser.exists
  /\ regs = {}
  /\ counter = [h \in Handles |-> -1]
  /\ challenge = None
  /\ session = [s \in Sessions |-> NoSession]
  /\ req = [p \in Procs |-> Idle]
  /\ issued = {}
  /\ made = {}

-----------------------------------------------------------------------------
(* Control of one request.                                                 *)

At(p, op, label) == req[p].op = op /\ req[p].pc = label

Goto(p, label) == req' = [req EXCEPT ![p].pc = label]

Answer(p) == req' = [req EXCEPT ![p] = Idle]

(* SessionProcessingMiddleware: an idle process takes a request, loading   *)
(* the session of its cookie once; later reads of the session see the copy.*)
Accept(p, s, op, label, args) ==
  /\ req[p].pc = "idle"
  /\ op \in Ops
  /\ req' = [req EXCEPT ![p] =
               [op |-> op, pc |-> label, sess |-> s,
                scope |-> session[s].scope, earned |-> session[s].earned,
                chal |-> args.chal, handle |-> args.handle,
                ctr |-> args.ctr, want |-> args.want, user |-> NoUser, seen |-> {}]]

NoArgs == [chal |-> None, handle |-> None, ctr |-> 0, want |-> FALSE]

(* UpdateSession sets the values of the copy and saves it; the Save is the *)
(* call made at the given label.                                           *)
SetScope(p, scope, earned, label) ==
  req' = [req EXCEPT ![p].scope = scope, ![p].earned = earned, ![p].pc = label]

(* u2f.NewChallenge: random, so different from every value still in use.   *)
Fresh(c) ==
  /\ c # challenge
  /\ \A i \in issued : i.chal # c
  /\ \A p \in Procs : req[p].chal # c

(* users.Save: the whole entity is replaced by the handler's copy.         *)
Save(u) == user' = u

(* Any store or mail call may return an error; the handler then answers    *)
(* with it and whatever earlier calls wrote stays.  The Saves of a session *)
(* are the exception: their error is dropped (SessionSaveFails).           *)
StoreFails(p) ==
  /\ StoreMayFail
  /\ req[p].pc \notin {"idle", "grant", "expire"}
  /\ Answer(p)
  /\ UNCHANGED <<store, session, browser>>
=============================================================================
