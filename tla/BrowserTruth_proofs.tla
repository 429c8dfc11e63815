------------------------- MODULE BrowserTruth_proofs -------------------------
(***************************************************************************)
(* Theorems about what the page of Browser shows: a dialog that asks for a *)
(* tap has someone to notice it, and who is shown as signed in, and which  *)
(* devices as registered, is what the server has once the answers are in.  *)
(***************************************************************************)
EXTENDS Browser_proofs

(* A dialog that asks for a tap; the panel's is there only if its list is  *)
(* no Map, so that a registration that is answered reaches it.             *)
SignTap == view.sign = "tapRequired" => asked["sign"] > 0 \/ InFlight({"signFinish"})

RegTap ==
  view.register = "tapRequired" =>
    ~store.regs.isMap /\ (asked["register"] > 0 \/ InFlight({"regFinish"}))

LEMMA SignTapSignIn == TypeOK /\ SignTap /\ SignInNext => SignTap'
<1> SUFFICES ASSUME TypeOK, SignTap, SignInNext PROVE SignTap'
  OBVIOUS
<1>0. /\ asked \in Asks /\ store \in Store /\ view \in View /\ calls \in [Slots -> CallType]
      /\ stale \in BOOLEAN
  BY DEF TypeOK, Asks
<1>1. asked["sign"] \in 0..MaxAsked /\ MaxAsked \in Nat
  BY <1>0, ConstantsAssumption DEF Asks, AskKinds
<1> DEFINE Kept == \A e \in Slots : calls[e].kind = "signFinish" => calls'[e].kind = "signFinish"
<1>2. Kept /\ view'.sign = view.sign /\ asked'["sign"] = asked["sign"] => SignTap'
  BY DEF SignTap, InFlight
<1>3. ASSUME NEW s \in Store, NEW v \in View, NEW a \in Asks, Shows(s, v, a),
             v.sign = "tapRequired" => view.sign = "tapRequired" /\ a["sign"] = asked["sign"],
             Kept
      PROVE  SignTap'
  BY <1>3, ShowsShown DEF Shown, SignTap, InFlight
<1>4. ASSUME NEW s \in Store, NEW v \in View, NEW a \in Asks, Shows(s, v, a),
             v.sign # "tapRequired"
      PROVE  SignTap'
  BY <1>4, ShowsShown DEF Shown, SignTap
<1>5. ASSUME NEW c \in Slots, NEW t \in Store, HandOver(c, t, view),
             calls[c].kind # "signFinish" \/ t.user.received
      PROVE  SignTap'
  <2>1. Handed(c, t, view) BY <1>0, <1>5, HandOverHanded
  <2>2. calls[c].kind # "signFinish" => Kept BY <1>0, <2>1 DEF Handed
  <2> HIDE DEF Kept
  <2> QED BY <1>5, <2>1, <2>2 DEF Handed, SignTap, InFlight, Kept
<1>6. ASSUME NEW c \in Slots, NEW call \in CallType, Send(c, call) PROVE Kept
  BY <1>0, <1>6, CallTypes DEF Send
<1>7. ASSUME NEW c \in Slots, calls[c].kind # "signFinish", Quietly(c) PROVE Kept
  BY <1>0, <1>7 DEF Quietly
<1>8. calls' = calls => Kept OBVIOUS
<1> HIDE DEF Kept
<1>9. CASE SwitchForm
  <2>1. [view EXCEPT !.isRegister = ~@] \in View
        /\ [view EXCEPT !.isRegister = ~@].sign = view.sign
    BY <1>0 DEF View
  <2> QED BY <1>0, <1>3, <1>8, <1>9, <2>1 DEF SwitchForm
<1>10. ToDashboard(store) \in View /\ ToDashboard(store).sign = "off"
  BY AtInView DEF ToDashboard
<1>11. CASE GoToDashboard BY <1>0, <1>4, <1>10, <1>11 DEF GoToDashboard
<1>12. CASE Back BY <1>0, <1>4, <1>12, AtInView DEF Back
<1>13. \A stage \in Dialog :
         SignStage(stage) \in View /\ SignStage(stage).sign \in {"off", stage}
  BY <1>0 DEF SignStage, View
<1>14. ASSUME NEW owner \in {"sign", "signGone"}, SignGivenUp(owner) PROVE SignTap'
  <2>1. [asked EXCEPT ![owner] = @ - 1] \in Asks
        /\ (owner = "signGone" => [asked EXCEPT ![owner] = @ - 1]["sign"] = asked["sign"])
    BY <1>0, <1>14, ConstantsAssumption DEF Asks, AskKinds, SignGivenUp
  <2> QED BY <1>0, <1>3, <1>4, <1>8, <1>13, <1>14, <2>1 DEF SignGivenUp, Dialog
<1>15. ASSUME NEW c \in Slots, NEW d \in Slots, NEW right \in BOOLEAN, SubmitLogin(c, d, right)
       PROVE  SignTap'
  <2> DEFINE t == [store EXCEPT !.login.fetching = TRUE]
             goes == t # store /\ t.login.received
             asks == goes /\ NeedsUser(t)
             v == IF goes THEN ToDashboard(t) ELSE view
             call == [New("login") EXCEPT !.flag = right]
  <2>1. t \in Store BY <1>0 DEF Store
  <2>2. v \in View /\ (v.sign = "tapRequired" => view.sign = "tapRequired")
    BY <1>0, AtInView DEF ToDashboard
  <2>3. /\ Shows(IF asks THEN Asking(t) ELSE t, v, asked)
        /\ calls[c] = Free
        /\ IF asks THEN /\ d # c /\ calls[d] = Free
                        /\ calls' = [calls EXCEPT ![c] = call, ![d] = New("getUser")]
                   ELSE calls' = [calls EXCEPT ![c] = call]
    BY <1>15 DEF SubmitLogin, Send
  <2> HIDE DEF t, goes, asks, v, call
  <2>4. Kept BY <1>0, <2>3, CallTypes DEF Kept
  <2>5. (IF asks THEN Asking(t) ELSE t) \in Store BY <2>1, AskingInStore
  <2> QED BY <1>0, <1>3, <2>2, <2>3, <2>4, <2>5
<1>16. ASSUME NEW c \in Slots, Forward(c) PROVE SignTap'
  <2>1. CASE NeedsUser(store) BY <1>0, <1>4, <1>10, <1>16, <2>1, AskingInStore DEF Forward
  <2>2. CASE ~NeedsUser(store) BY <1>0, <1>4, <1>16, <2>2, AtInView DEF Forward
  <2> QED BY <2>1, <2>2
<1>17. ASSUME NEW c \in Slots, KeyPairMade(c) \/ Resend(c) \/ Logout(c) \/ FetchSign(c)
       PROVE  SignTap'
  <2>1. PICK k \in Kinds : Send(c, New(k))
    BY <1>17 DEF KeyPairMade, Resend, Logout, FetchSign, Kinds
  <2>2. Kept BY <1>6, <2>1, CallTypes
  <2>3. asked'["sign"] = asked["sign"] /\ UNCHANGED view
    BY <1>0, <1>17 DEF KeyPairMade, Resend, Logout, FetchSign, Asks, AskKinds
  <2> QED BY <1>2, <2>2, <2>3
<1>27. CASE SubmitSignup
  <2>1. [view EXCEPT !.loading = TRUE] \in View
        /\ [view EXCEPT !.loading = TRUE].sign = view.sign
    BY <1>0 DEF View
  <2>2. [asked EXCEPT !["keyPair"] = @ + 1] \in Asks
        /\ [asked EXCEPT !["keyPair"] = @ + 1]["sign"] = asked["sign"]
    BY <1>0, <1>27, ConstantsAssumption DEF Asks, AskKinds, SubmitSignup
  <2> QED BY <1>0, <1>3, <1>8, <1>27, <2>1, <2>2 DEF SubmitSignup
<1>18. ASSUME NEW c \in Slots, NEW owner \in {"sign", "signGone"}, SignedTap(c, owner)
       PROVE  SignTap'
  <2>1. calls'[c].kind = "signFinish" BY <1>0, <1>18, CallTypes DEF SignedTap, Send, Kinds
  <2> QED BY <2>1 DEF SignTap, InFlight
<1>19. ASSUME NEW c \in Slots, UserAnswered(c) PROVE SignTap'
  <2>1. PICK u \in {GotUser(calls[c].flag), [NoUser EXCEPT !.error = TRUE]} :
          HandOver(c, [store EXCEPT !.user = u], view)
    BY <1>19 DEF UserAnswered
  <2>2. u \in [enforced : BOOLEAN, fetching : BOOLEAN, received : BOOLEAN,
               error : BOOLEAN, resent : BOOLEAN]
    BY <1>0 DEF GotUser, NoUser, CallType
  <2>3. [store EXCEPT !.user = u] \in Store BY <1>0, <2>2 DEF Store
  <2>4. calls[c].kind = "getUser" BY <1>19 DEF UserAnswered, Arrives
  <2> QED BY <1>5, <2>1, <2>3, <2>4
<1>20. ASSUME NEW c \in Slots, LoginAnswered(c) PROVE SignTap'
  <2> DEFINE t == [store EXCEPT !.login = [NoLogin EXCEPT !.error = TRUE]]
             v == [view EXCEPT !.dialog = TRUE]
  <2>1. t \in Store BY <1>0 DEF Store, NoLogin
  <2>2. calls[c].flag \in BOOLEAN BY <1>0 DEF CallType
  <2>3. calls[c].kind = "login" BY <1>20 DEF LoginAnswered, Arrives
  <2>4. v \in View /\ v.sign = view.sign BY <1>0 DEF View
  <2>5. \/ HandOver(c, SignedIn(calls[c].flag), view) \/ HandOver(c, t, view)
        \/ calls' = [calls EXCEPT ![c] = New("signChallenge")] /\ Shows(t, v, asked)
    BY <1>20 DEF LoginAnswered
  <2> HIDE DEF t, v
  <2>6. CASE HandOver(c, SignedIn(calls[c].flag), view) \/ HandOver(c, t, view)
    BY <1>0, <1>5, <2>1, <2>2, <2>3, <2>6, SignedInStore
  <2>7. CASE calls' = [calls EXCEPT ![c] = New("signChallenge")] /\ Shows(t, v, asked)
    <3>1. Kept BY <1>0, <2>3, <2>7 DEF Kept
    <3> QED BY <1>0, <1>3, <2>1, <2>4, <2>7, <3>1
  <2> QED BY <2>5, <2>6, <2>7
<1>21. ASSUME NEW c \in Slots, SignupAnswered(c) PROVE SignTap'
  <2> DEFINE t == [store EXCEPT !.signup = SignupState(calls[c].phase = "ok")]
             v == [view EXCEPT !.loading = @ /\ ~LoadingOver(store.signup, t.signup)]
  <2>1. t \in Store BY <1>0 DEF Store, SignupState
  <2>2. v \in View /\ v.sign = view.sign BY <1>0 DEF View, LoadingOver
  <2>3. Quietly(c) /\ Shows(t, v, asked) /\ calls[c].kind = "signup"
    BY <1>21 DEF SignupAnswered
  <2> HIDE DEF t, v
  <2>4. Kept BY <1>7, <2>3
  <2> QED BY <1>0, <1>3, <2>1, <2>2, <2>3, <2>4
<1>22. ASSUME NEW c \in Slots, ResendAnswered(c) PROVE SignTap'
  <2>1. [store EXCEPT !.user.resent = TRUE] \in Store BY <1>0 DEF Store
  <2> QED BY <1>5, <1>22, <2>1 DEF ResendAnswered
<1>23. ASSUME NEW c \in Slots, LogoutAnswered(c) PROVE SignTap'
  <2>1. Kept BY <1>7, <1>23 DEF LogoutAnswered, Arrives
  <2>2. CASE UNCHANGED <<store, view, asked, stale>> BY <1>2, <2>1, <2>2
  <2>3. CASE Shows(LoggedOut, IF view.path \in Dashboard THEN At("home") ELSE view, asked)
    BY <1>0, <1>3, <2>1, <2>3, CallTypes, AtInView DEF LoggedOut
  <2> QED BY <1>23, <2>2, <2>3 DEF LogoutAnswered
<1>24. ASSUME NEW c \in Slots, SignChallengeAnswered(c) PROVE SignTap'
  <2>1. Kept BY <1>7, <1>24 DEF SignChallengeAnswered, Arrives
  <2>2. CASE UNCHANGED <<store, view, asked>> BY <1>2, <2>1, <2>2
  <2>3. CASE Shows(store, SignStage("retry"), asked) BY <1>0, <1>4, <1>13, <2>3 DEF Dialog
  <2>4. CASE /\ asked["sign"] < MaxAsked
             /\ Shows(store, SignStage("tapRequired"), [asked EXCEPT !["sign"] = @ + 1])
    <3>1. [asked EXCEPT !["sign"] = @ + 1] \in Asks /\ [asked EXCEPT !["sign"] = @ + 1]["sign"] > 0
      BY <1>0, <1>1, <2>4 DEF Asks, AskKinds
    <3> QED BY <1>0, <1>13, <2>4, <3>1, ShowsShown DEF Shown, SignTap, Dialog
  <2> QED BY <1>24, <2>2, <2>3, <2>4 DEF SignChallengeAnswered
<1>25. ASSUME NEW c \in Slots, SignFinishAnswered(c) PROVE SignTap'
  <2>1. calls[c].flag \in BOOLEAN BY <1>0 DEF CallType
  <2>2. CASE HandOver(c, SignedIn(calls[c].flag), view)
    BY <1>0, <1>5, <2>1, <2>2, SignedInStore
  <2>3. CASE Shows(store, SignStage("retry"), asked) BY <1>0, <1>4, <1>13, <2>3 DEF Dialog
  <2> QED BY <1>25, <2>2, <2>3 DEF SignFinishAnswered
<1>26. ASSUME NEW c \in Slots,
              ServeUser(c) \/ ServeLogin(c) \/ ServeSignup(c) \/ ServeResend(c)
                \/ ServeLogout(c) \/ ServeSign(c)
       PROVE  SignTap'
  <2>1. PICK phase, flag : Reply(c, phase, flag)
    BY <1>26 DEF ServeUser, ServeLogin, ServeSignup, ServeResend, ServeLogout, ServeSign
  <2>2. Kept BY <1>0, <2>1 DEF Reply, CallType, Kept
  <2>3. UNCHANGED <<view, asked>>
    BY <1>26 DEF ServeUser, ServeLogin, ServeSignup, ServeResend, ServeLogout, ServeSign
  <2> QED BY <1>2, <2>2, <2>3
<1> QED BY <1>9, <1>11, <1>12, <1>14, <1>15, <1>16, <1>17, <1>18, <1>19, <1>20, <1>21, <1>22,
           <1>23, <1>24, <1>25, <1>26, <1>27 DEF SignInNext

LEMMA RegTapRegistrations == TypeOK /\ RegTap /\ RegistrationsNext => RegTap'
<1> SUFFICES ASSUME TypeOK, RegTap, RegistrationsNext PROVE RegTap'
  OBVIOUS
<1>0. /\ asked \in Asks /\ store \in Store /\ view \in View /\ calls \in [Slots -> CallType]
      /\ asked["register"] \in 0..MaxAsked /\ MaxAsked \in Nat
  BY ConstantsAssumption DEF TypeOK, Asks, AskKinds
<1> DEFINE Kept == \A e \in Slots : calls[e].kind = "regFinish" => calls'[e].kind = "regFinish"
<1>1. /\ Kept /\ view'.register = view.register /\ asked'["register"] = asked["register"]
      /\ store' = store
      => RegTap'
  BY DEF RegTap, InFlight
<1>2. ASSUME NEW s \in Store, NEW v \in View, NEW a \in Asks, Shows(s, v, a),
             v.register = "tapRequired" =>
               view.register = "tapRequired" /\ a["register"] = asked["register"],
             Kept
      PROVE  RegTap'
  BY <1>2, ShowsShown DEF Shown, RegTap, InFlight
<1>3. ASSUME NEW s \in Store, NEW v \in View, NEW a \in Asks, Shows(s, v, a),
             v.register # "tapRequired"
      PROVE  RegTap'
  BY <1>3, ShowsShown DEF Shown, RegTap
<1>4. ASSUME NEW c \in Slots, NEW t \in Store, NEW v \in View, HandOver(c, t, v),
             v.register = view.register, calls[c].kind # "regFinish"
      PROVE  RegTap'
  <2>1. Handed(c, t, v) BY <1>0, <1>4, HandOverHanded
  <2>2. Kept BY <1>0, <1>4, <2>1 DEF Handed
  <2>3. store'.regs = t.regs BY <1>4, <2>1, AskingInStore DEF Handed
  <2> HIDE DEF Kept
  <2> QED BY <1>4, <2>1, <2>2, <2>3 DEF Handed, RegTap, InFlight, Kept
<1>5. ASSUME NEW c \in Slots, NEW call \in CallType, Send(c, call) PROVE Kept
  BY <1>0, <1>5, CallTypes DEF Send
<1>6. ASSUME NEW c \in Slots, calls[c].kind # "regFinish", Quietly(c) PROVE Kept
  BY <1>0, <1>6 DEF Quietly
<1>7. calls' = calls => Kept OBVIOUS
<1> HIDE DEF Kept
<1>8. CASE ToVault BY <1>0, <1>3, <1>8, AtInView DEF ToVault
<1>9. \A stage \in Dialog :
        RegisterStage(stage) \in View /\ RegisterStage(stage).register \in {"off", stage}
  BY <1>0 DEF RegisterStage, View
<1>10. ASSUME NEW owner \in {"register", "registerGone"}, RegisterGivenUp(owner) PROVE RegTap'
  <2>1. [asked EXCEPT ![owner] = @ - 1] \in Asks
        /\ (owner = "registerGone" =>
              [asked EXCEPT ![owner] = @ - 1]["register"] = asked["register"])
    BY <1>0, <1>10 DEF Asks, AskKinds, RegisterGivenUp
  <2>2. CASE owner = "register" BY <1>0, <1>3, <1>9, <1>10, <2>1, <2>2 DEF RegisterGivenUp, Dialog
  <2>3. CASE owner = "registerGone" BY <1>0, <1>2, <1>7, <1>10, <2>1, <2>3 DEF RegisterGivenUp
  <2> QED BY <2>2, <2>3
<1>11. ASSUME NEW c \in Slots, ToAccount(c) PROVE RegTap'
  <2> DEFINE w == [At("account") EXCEPT !.toggle = store.user.enforced]
             v == Render(w, store)
  <2>1. w \in View /\ w.register = "off" BY <1>0 DEF At, View, Dialog, Store
  <2>2. v \in View /\ v.register # "tapRequired" BY <1>0, <2>1, RenderInView
  <2>3. AskingRegs(store) \in Store BY <1>0 DEF AskingRegs, Store, NoRegs
  <2>4. Shows(AskingRegs(store), v, asked) \/ Shows(store, v, asked) BY <1>11 DEF ToAccount
  <2> HIDE DEF v, w
  <2> QED BY <1>0, <1>3, <2>2, <2>3, <2>4
<1>12. ASSUME NEW c \in Slots, Toggle(c) PROVE RegTap'
  <2>1. [view EXCEPT !.toggle = ~@] \in View
        /\ [view EXCEPT !.toggle = ~@].register = view.register
    BY <1>0 DEF View
  <2>2. [New("require") EXCEPT !.flag = ~view.toggle] \in CallType
    BY <1>0 DEF New, Kinds, CallType, View
  <2>3. Shows(store, [view EXCEPT !.toggle = ~@], asked) BY <1>12 DEF Toggle
  <2>4. Kept BY <1>5, <1>7, <1>12, <2>2 DEF Toggle
  <2> QED BY <1>0, <1>2, <2>1, <2>3, <2>4
<1>13. ASSUME NEW c \in Slots, BeginRegister(c) \/ \E d \in Devices : DeleteU2f(c, d)
       PROVE  RegTap'
  <2>1. UNCHANGED <<store, view, asked>> BY <1>13 DEF BeginRegister, DeleteU2f
  <2>2. PICK call : Send(c, call) BY <1>13 DEF BeginRegister, DeleteU2f
  <2>3. Kept BY <1>0, <2>2, CallTypes DEF Send, Kept
  <2> QED BY <1>1, <2>1, <2>3
<1>14. ASSUME NEW c \in Slots, NEW owner \in {"register", "registerGone"}, NEW d \in Devices,
              RegisteredTap(c, owner, d)
       PROVE  RegTap'
  <2>1. Send(c, [New("regFinish") EXCEPT !.devices = {d}]) /\ UNCHANGED <<store, view>>
    BY <1>14 DEF RegisteredTap
  <2>2. [New("regFinish") EXCEPT !.devices = {d}].kind = "regFinish" BY DEF New
  <2>3. calls'[c].kind = "regFinish" BY <1>0, <2>1, <2>2 DEF Send
  <2> QED BY <2>1, <2>3 DEF RegTap, InFlight
<1>15. FailedRegs(store) \in Store BY <1>0 DEF FailedRegs, Store, NoRegs
<1>16. ASSUME NEW c \in Slots, RegsAnswered(c) \/ DeleteAnswered(c) PROVE RegTap'
  <2>1. /\ [store EXCEPT !.regs = [NoRegs EXCEPT !.list = calls[c].devices,
                                                !.received = TRUE]] \in Store
        /\ [store EXCEPT !.regs.list = @ \ calls[c].devices] \in Store
    BY <1>0 DEF Store, NoRegs, CallType
  <2>2. PICK s \in Store : Shows(s, view, asked)
    BY <1>15, <1>16, <2>1 DEF RegsAnswered, DeleteAnswered
  <2>3. Kept BY <1>6, <1>16 DEF RegsAnswered, DeleteAnswered, Arrives
  <2> QED BY <1>0, <1>2, <2>2, <2>3
<1>17. ASSUME NEW c \in Slots, RequireAnswered(c) PROVE RegTap'
  <2> DEFINE t == [store EXCEPT !.user = [NoUser EXCEPT !.enforced = calls[c].flag,
                                                        !.received = TRUE]]
  <2>1. t \in Store BY <1>0 DEF Store, NoUser, CallType
  <2>2. calls[c].kind = "require" BY <1>17 DEF RequireAnswered, Arrives
  <2>3. HandOver(c, t, view) \/ (Quietly(c) /\ UNCHANGED <<store, view, asked>>)
    BY <1>17 DEF RequireAnswered
  <2> HIDE DEF t
  <2> QED BY <1>0, <1>1, <1>4, <1>6, <2>1, <2>2, <2>3
<1>18. ASSUME NEW c \in Slots, RegisterChallengeAnswered(c) PROVE RegTap'
  <2>1. Kept BY <1>6, <1>18 DEF RegisterChallengeAnswered, Arrives
  <2>2. CASE UNCHANGED <<store, view, asked>> BY <1>1, <2>1, <2>2
  <2>3. CASE Shows(store, RegisterStage("retry"), asked) BY <1>0, <1>3, <1>9, <2>3 DEF Dialog
  <2>4. CASE /\ asked["register"] < MaxAsked
             /\ Shows(store, RegisterStage("tapRequired"), [asked EXCEPT !["register"] = @ + 1])
    <3>1. [asked EXCEPT !["register"] = @ + 1] \in Asks
          /\ [asked EXCEPT !["register"] = @ + 1]["register"] > 0
      BY <1>0, <2>4 DEF Asks, AskKinds
    <3> QED BY <1>0, <1>9, <2>4, <3>1, ShowsShown DEF Shown, RegTap, Dialog
  <2> QED BY <1>18, <2>2, <2>3, <2>4 DEF RegisterChallengeAnswered
<1>19. ASSUME NEW c \in Slots, RegisterFinishAnswered(c) PROVE RegTap'
  <2> DEFINE t == WithDevice(store, calls[c].devices)
             v == RegisterStage("notStarted")
  <2>1. t \in Store BY <1>0 DEF WithDevice, Store, CallType
  <2>2. v \in View /\ v.register # "tapRequired" BY <1>9 DEF Dialog
  <2>3. \/ store.regs.isMap /\ UNCHANGED <<store, view>>
        \/ Shows(t, v, asked) \/ HandOver(c, t, v)
        \/ Shows(store, RegisterStage("retry"), asked)
    BY <1>19 DEF RegisterFinishAnswered
  <2> HIDE DEF t, v
  <2>4. CASE store.regs.isMap /\ UNCHANGED <<store, view>> BY <2>4 DEF RegTap
  <2>5. CASE Shows(t, v, asked) BY <1>0, <1>3, <2>1, <2>2, <2>5
  <2>6. CASE HandOver(c, t, v)
    <3>1. Handed(c, t, v) BY <1>0, <2>1, <2>2, <2>6, HandOverHanded
    <3> QED BY <2>2, <3>1 DEF Handed, RegTap
  <2>7. CASE Shows(store, RegisterStage("retry"), asked) BY <1>0, <1>3, <1>9, <2>7 DEF Dialog
  <2> QED BY <2>3, <2>4, <2>5, <2>6, <2>7
<1>20. ASSUME NEW c \in Slots, ServeRegs(c) \/ ServeRegisterChallenge(c) \/ ServeChange(c)
       PROVE  RegTap'
  <2>1. \A e \in Slots : calls'[e].kind = calls[e].kind
    BY <1>0, <1>20 DEF ServeRegs, ServeRegisterChallenge, ServeChange, Reply, CallType
  <2>2. UNCHANGED <<store, view, asked>>
    BY <1>20 DEF ServeRegs, ServeRegisterChallenge, ServeChange
  <2> QED BY <1>1, <2>1, <2>2 DEF Kept
<1> QED BY <1>8, <1>10, <1>11, <1>12, <1>13, <1>14, <1>16, <1>17, <1>18, <1>19, <1>20
        DEF RegistrationsNext

LEMMA StepTaps == TypeOK /\ SignTap /\ RegTap /\ [Next]_vars => SignTap' /\ RegTap'
<1> SUFFICES ASSUME TypeOK, SignTap, RegTap, [Next]_vars PROVE SignTap' /\ RegTap'
  OBVIOUS
<1>1. CASE SignInNext
  <2>1. PanelAlone BY <1>1, SignInLeavesPanel
  <2>2. ~NoRegs.isMap BY DEF NoRegs
  <2>3. RegTap' BY <2>1, <2>2 DEF PanelAlone, RegTap, InFlight, PanelKinds
  <2> QED BY <1>1, <2>3, SignTapSignIn
<1>2. CASE RegistrationsNext
  <2>1. SignInAlone BY <1>2, PanelLeavesSignIn
  <2>2. SignTap' BY <2>1 DEF SignInAlone, SignTap, InFlight, SignInKinds
  <2> QED BY <1>2, <2>2, RegTapRegistrations
<1>3. ASSUME NEW c \in Slots, Lose(c) PROVE SignTap' /\ RegTap'
  BY <1>3, LoseKinds DEF SignTap, RegTap, InFlight
<1>4. ASSUME NEW c \in Slots, NEW d \in Slots, NEW path \in {"home", "vault", "account"},
             Load(c, d, path)
      PROVE  SignTap' /\ RegTap'
  BY <1>4, LoadStarts, AtInView DEF SignTap, RegTap
<1>5. CASE UNCHANGED vars BY <1>5 DEF vars, SignTap, RegTap, InFlight
<1>6. CASE Expire BY <1>6 DEF Expire, SignTap, RegTap, InFlight
<1> QED BY <1>1, <1>2, <1>3, <1>4, <1>5, <1>6 DEF Next

(* components/U2F/login.js:57 and components/U2F/register.js:54:           *)
(* while a dialog tells the user to tap a device, a call of the U2F API or *)
(* the request that carries the tap is under way, whatever was answered,   *)
(* given up, closed and opened again before.                               *)
THEOREM TapsHaveCall == Spec => []TapHasCall
<1>1. Init => SignTap /\ RegTap BY AtInView DEF Init, SignTap, RegTap
<1>2. SignTap /\ RegTap => TapHasCall BY DEF SignTap, RegTap, TapHasCall
<1> QED BY <1>1, <1>2, TypeCorrect, StepTaps, PTL DEF Spec

-----------------------------------------------------------------------------
(* The actions of signing in that bring no user, and change neither who is *)
(* signed in nor who signed up: what they leave alone.                     *)
Aside ==
  \/ SwitchForm \/ GoToDashboard \/ Back \/ SubmitSignup
  \/ \E owner \in {"sign", "signGone"} : SignGivenUp(owner)
  \/ \E c \in Slots :
       \/ \E d \in Slots, right \in BOOLEAN : SubmitLogin(c, d, right)
       \/ Forward(c) \/ KeyPairMade(c) \/ Resend(c) \/ Logout(c)
       \/ FetchSign(c)
       \/ \E owner \in {"sign", "signGone"} : SignedTap(c, owner)
       \/ ResendAnswered(c) \/ SignChallengeAnswered(c) \/ ServeResend(c)

PassingKinds == {"none", "resend", "signChallenge"}

Passing ==
  /\ UNCHANGED <<server, stale>>
  /\ store'.user.received = store.user.received
  /\ \A e \in Slots :
       /\ calls[e].kind \notin PassingKinds => calls'[e] = calls[e]
       /\ calls'[e].kind \notin PassingKinds /\ calls'[e].phase = "ok" => calls'[e] = calls[e]

LEMMA AsidePasses == TypeOK /\ Aside => Passing
<1> SUFFICES ASSUME TypeOK, Aside PROVE Passing
  OBVIOUS
<1>0. /\ asked \in Asks /\ store \in Store /\ view \in View /\ calls \in [Slots -> CallType]
  BY DEF TypeOK, Asks
<1> DEFINE Kept == \A e \in Slots :
       /\ calls[e].kind \notin PassingKinds => calls'[e] = calls[e]
       /\ calls'[e].kind \notin PassingKinds /\ calls'[e].phase = "ok" => calls'[e] = calls[e]
<1>1. Kept /\ UNCHANGED <<server, stale, store>> => Passing BY DEF Passing
<1>2. ASSUME NEW c \in Slots, NEW call \in CallType, call.phase = "sent", Send(c, call)
      PROVE  Kept
  BY <1>0, <1>2, CallTypes DEF Send, PassingKinds
<1>3. ASSUME NEW c \in Slots, calls[c].kind \in PassingKinds, Quietly(c) PROVE Kept
  BY <1>0, <1>3, CallTypes DEF Quietly, PassingKinds
<1>4. calls' = calls => Kept OBVIOUS
<1> HIDE DEF Kept
<1>5. CASE SwitchForm BY <1>1, <1>4, <1>5 DEF SwitchForm, Shows
<1>6. CASE GoToDashboard BY <1>1, <1>4, <1>6 DEF GoToDashboard, Shows
<1>7. CASE Back BY <1>1, <1>4, <1>7 DEF Back, Shows
<1>15. CASE SubmitSignup BY <1>1, <1>4, <1>15 DEF SubmitSignup, Shows
<1>8. ASSUME NEW owner \in {"sign", "signGone"}, SignGivenUp(owner) PROVE Passing
  BY <1>1, <1>4, <1>8 DEF SignGivenUp, Shows
<1>9. ASSUME NEW c \in Slots, NEW d \in Slots, NEW right \in BOOLEAN, SubmitLogin(c, d, right)
      PROVE  Passing
  <2> DEFINE t == [store EXCEPT !.login.fetching = TRUE]
             goes == t # store /\ t.login.received
             asks == goes /\ NeedsUser(t)
             call == [New("login") EXCEPT !.flag = right]
  <2>1. t \in Store /\ t.user = store.user BY <1>0 DEF Store
  <2>2. /\ store' = (IF asks THEN Asking(t) ELSE t)
        /\ UNCHANGED <<server, stale>> /\ calls[c] = Free
        /\ IF asks THEN /\ d # c /\ calls[d] = Free
                        /\ calls' = [calls EXCEPT ![c] = call, ![d] = New("getUser")]
                   ELSE calls' = [calls EXCEPT ![c] = call]
    BY <1>9 DEF SubmitLogin, Send, Shows
  <2>3. call.phase = "sent" /\ New("getUser").phase = "sent" /\ Free.kind = "none"
    BY CallTypes DEF New, Kinds
  <2> HIDE DEF t, goes, asks, call
  <2>4. Kept BY <1>0, <2>2, <2>3 DEF Kept, PassingKinds
  <2>5. store'.user.received = store.user.received
    BY <2>1, <2>2, AskingInStore
  <2> QED BY <2>2, <2>4, <2>5 DEF Passing, Kept
<1>10. ASSUME NEW c \in Slots, Forward(c) PROVE Passing
  <2>1. Kept BY <1>2, <1>4, <1>10, CallTypes DEF Forward, Kinds
  <2>2. store' = Asking(store) \/ store' = store BY <1>10 DEF Forward, Shows
  <2> QED BY <1>0, <1>10, <2>1, <2>2, AskingInStore DEF Forward, Passing, Kept
<1>11. ASSUME NEW c \in Slots,
              \/ KeyPairMade(c) \/ Resend(c) \/ Logout(c) \/ FetchSign(c)
              \/ \E owner \in {"sign", "signGone"} : SignedTap(c, owner)
       PROVE  Passing
  <2>1. PICK k \in Kinds : Send(c, New(k))
    BY <1>11 DEF KeyPairMade, Resend, Logout, FetchSign, SignedTap, Kinds
  <2>2. Kept BY <1>2, <2>1, CallTypes
  <2> QED BY <1>1, <1>11, <2>2 DEF KeyPairMade, Resend, Logout, FetchSign, SignedTap, Shows
<1>12. ASSUME NEW c \in Slots, ResendAnswered(c) PROVE Passing
  <2> DEFINE t == [store EXCEPT !.user.resent = TRUE]
  <2>1. t \in Store /\ t.user.received = store.user.received
    BY <1>0 DEF Store
  <2>2. HandOver(c, t, view) /\ calls[c].kind = "resend" /\ UNCHANGED <<server, stale>>
    BY <1>12 DEF ResendAnswered
  <2> HIDE DEF t
  <2>3. Handed(c, t, view) BY <1>0, <2>1, <2>2, HandOverHanded
  <2>4. /\ \A e \in Slots : e # c => calls'[e] = calls[e]
        /\ calls'[c].phase = "sent"
    BY <1>0, <2>3, CallTypes DEF Handed, Kinds
  <2>5. Kept BY <2>2, <2>4 DEF Kept, PassingKinds
  <2>6. store'.user.received = t.user.received
    BY <2>1, <2>3, AskingInStore DEF Handed
  <2> QED BY <2>1, <2>2, <2>5, <2>6 DEF Passing, Kept
<1>13. ASSUME NEW c \in Slots, SignChallengeAnswered(c) PROVE Passing
  <2>1. Kept BY <1>3, <1>13 DEF SignChallengeAnswered, Arrives, PassingKinds
  <2> QED BY <1>1, <1>13, <2>1 DEF SignChallengeAnswered, Shows
<1>14. ASSUME NEW c \in Slots, ServeResend(c) PROVE Passing
  <2>1. PICK phase, flag : Reply(c, phase, flag) BY <1>14 DEF ServeResend
  <2>2. calls[c].kind = "resend" BY <1>14 DEF ServeResend, Serves
  <2>3. Kept BY <1>0, <2>1, <2>2 DEF Reply, CallType, Kept, PassingKinds
  <2> QED BY <1>1, <1>14, <2>3 DEF ServeResend
<1> QED BY <1>5, <1>6, <1>7, <1>8, <1>9, <1>10, <1>11, <1>12, <1>13, <1>14,
           <1>15 DEF Aside

(* What the others do: they send no call, and the server answers only what *)
(* it was asked.                                                           *)
SignInRest ==
  \E c \in Slots :
    \/ UserAnswered(c) \/ LoginAnswered(c) \/ SignupAnswered(c)
    \/ LogoutAnswered(c) \/ SignFinishAnswered(c)
    \/ ServeUser(c) \/ ServeLogin(c) \/ ServeSignup(c) \/ ServeLogout(c) \/ ServeSign(c)

LEMMA SignInSplit == SignInNext => Aside \/ SignInRest
BY DEF SignInNext, Aside, SignInRest

BringKinds == {"getUser", "login", "signFinish", "require"}

LEMMA Answers ==
  ASSUME TypeOK, NEW c \in Slots,
         \/ UserAnswered(c) \/ LoginAnswered(c) \/ SignupAnswered(c)
         \/ LogoutAnswered(c) \/ SignFinishAnswered(c)
  PROVE  /\ UNCHANGED server
         /\ \A e \in Slots : e # c => calls'[e] = calls[e]
         /\ calls'[c].phase = "sent"
         /\ store'.user.received =>
              \/ store.user.received
              \/ calls[c].kind \in BringKinds /\ calls[c].phase = "ok"
         /\ IF Arrives(c, "logout", "ok")
              THEN ~store'.user.received /\ stale' = (stale \/ InFlight(BringKinds))
              ELSE stale' = stale
<1>0. /\ asked \in Asks /\ store \in Store /\ view \in View /\ calls \in [Slots -> CallType]
      /\ calls[c].flag \in BOOLEAN
  BY DEF TypeOK, Asks, CallType
<1> DEFINE Frees == /\ \A e \in Slots : e # c => calls'[e] = calls[e]
                    /\ calls'[c].phase = "sent"
<1>1. Quietly(c) => Frees BY <1>0, CallTypes DEF Quietly
<1>2. ASSUME NEW t \in Store, HandOver(c, t, view)
      PROVE  Frees /\ store'.user.received = t.user.received
  <2>1. Handed(c, t, view) BY <1>0, <1>2, HandOverHanded
  <2>2. Frees BY <1>0, <2>1, CallTypes DEF Handed, Kinds
  <2> HIDE DEF Frees
  <2> QED BY <2>1, <2>2, AskingInStore DEF Handed
<1> HIDE DEF Frees
<1>3. CASE UserAnswered(c)
  <2>1. PICK u \in {GotUser(calls[c].flag), [NoUser EXCEPT !.error = TRUE]} :
          /\ HandOver(c, [store EXCEPT !.user = u], view)
          /\ u.received => calls[c].phase = "ok"
    BY <1>3 DEF UserAnswered, Arrives, NoUser
  <2>2. u \in [enforced : BOOLEAN, fetching : BOOLEAN, received : BOOLEAN,
               error : BOOLEAN, resent : BOOLEAN]
    BY <1>0 DEF GotUser, NoUser
  <2> DEFINE t == [store EXCEPT !.user = u]
  <2>3. t \in Store /\ t.user = u BY <1>0, <2>2 DEF Store
  <2>4. calls[c].kind = "getUser" /\ UNCHANGED <<server, stale>> BY <1>3 DEF UserAnswered, Arrives
  <2>5. HandOver(c, t, view) BY <2>1
  <2> HIDE DEF t
  <2>6. Frees /\ store'.user.received = u.received
    BY <1>2, <2>3, <2>5
  <2> QED BY <2>1, <2>4, <2>6 DEF Frees, BringKinds, Arrives
<1>4. CASE LoginAnswered(c)
  <2> DEFINE t == [store EXCEPT !.login = [NoLogin EXCEPT !.error = TRUE]]
             v == [view EXCEPT !.dialog = TRUE]
  <2>1. t \in Store /\ t.user = store.user BY <1>0 DEF Store, NoLogin
  <2>2. calls[c].kind = "login" /\ UNCHANGED <<server, stale>> BY <1>4 DEF LoginAnswered, Arrives
  <2>3. \/ calls[c].phase = "ok" /\ HandOver(c, SignedIn(calls[c].flag), view)
        \/ HandOver(c, t, view)
        \/ calls' = [calls EXCEPT ![c] = New("signChallenge")] /\ store' = t
    BY <1>4 DEF LoginAnswered, Arrives, Shows
  <2> HIDE DEF t
  <2>4. CASE calls[c].phase = "ok" /\ HandOver(c, SignedIn(calls[c].flag), view)
    BY <1>0, <1>2, <2>2, <2>4, SignedInStore DEF Frees, BringKinds, Arrives
  <2>5. CASE HandOver(c, t, view) BY <1>2, <2>1, <2>2, <2>5 DEF Frees, Arrives
  <2>6. CASE calls' = [calls EXCEPT ![c] = New("signChallenge")] /\ store' = t
    BY <1>0, <2>1, <2>2, <2>6, CallTypes DEF Kinds, Arrives
  <2> QED BY <2>3, <2>4, <2>5, <2>6
<1>5. CASE SignupAnswered(c)
  <2>1. store' = [store EXCEPT !.signup = SignupState(calls[c].phase = "ok")]
    BY <1>5 DEF SignupAnswered, Shows
  <2>2. store'.user = store.user BY <1>0, <2>1 DEF Store
  <2>3. calls[c].kind = "signup" /\ Quietly(c) /\ UNCHANGED <<server, stale>>
    BY <1>5 DEF SignupAnswered
  <2> QED BY <1>1, <2>2, <2>3 DEF Frees, Arrives
<1>6. CASE LogoutAnswered(c)
  <2>1. Quietly(c) /\ UNCHANGED server /\ calls[c].kind = "logout"
    BY <1>6 DEF LogoutAnswered, Arrives
  <2>2. CASE Arrives(c, "logout", "ok")
    <3>1. store' = EmptyStore /\ stale' = (stale \/ InFlight(BringKinds))
      BY <1>6, <2>2 DEF LogoutAnswered, Arrives, Shows, LoggedOut, BringKinds
    <3> QED BY <1>1, <2>1, <2>2, <3>1, CallTypes DEF Frees
  <2>3. CASE ~Arrives(c, "logout", "ok")
    <3>1. UNCHANGED <<store, stale>> BY <1>6, <2>3 DEF LogoutAnswered
    <3> QED BY <1>1, <2>1, <2>3, <3>1 DEF Frees
  <2> QED BY <2>2, <2>3
<1>7. CASE SignFinishAnswered(c)
  <2>1. calls[c].kind = "signFinish" /\ UNCHANGED <<server, stale>>
    BY <1>7 DEF SignFinishAnswered, Arrives
  <2>2. \/ calls[c].phase = "ok" /\ HandOver(c, SignedIn(calls[c].flag), view)
        \/ Quietly(c) /\ store' = store
    BY <1>7 DEF SignFinishAnswered, Arrives, Shows
  <2>3. CASE calls[c].phase = "ok" /\ HandOver(c, SignedIn(calls[c].flag), view)
    BY <1>0, <1>2, <2>1, <2>3, SignedInStore DEF Frees, BringKinds, Arrives
  <2>4. CASE Quietly(c) /\ store' = store BY <1>1, <2>1, <2>4 DEF Frees, Arrives
  <2> QED BY <2>2, <2>3, <2>4
<1> QED BY <1>3, <1>4, <1>5, <1>6, <1>7

LEMMA Served ==
  ASSUME TypeOK, NEW c \in Slots,
         ServeUser(c) \/ ServeLogin(c) \/ ServeSignup(c) \/ ServeLogout(c) \/ ServeSign(c)
  PROVE  /\ UNCHANGED <<enforced, devices, store, view, asked, stale>>
         /\ \A e \in Slots : e # c => calls'[e] = calls[e]
         /\ calls'[c].kind = calls[c].kind /\ calls[c].phase = "sent"
         /\ calls[c].kind \in {"getUser", "login", "signup", "logout", "signChallenge", "signFinish"}
         /\ calls[c].kind # "signup" => UNCHANGED account
<1>1. PICK phase, flag : Reply(c, phase, flag)
  BY DEF ServeUser, ServeLogin, ServeSignup, ServeLogout, ServeSign
<1>2. /\ \A e \in Slots : e # c => calls'[e] = calls[e]
      /\ calls'[c].kind = calls[c].kind
  BY <1>1 DEF TypeOK, Reply, CallType
<1> QED BY <1>2 DEF ServeUser, ServeLogin, ServeSignup, ServeLogout, ServeSign, Serves, server

LEMMA RepliedPhase ==
  ASSUME TypeOK, NEW c \in Slots, NEW phase, NEW flag, Reply(c, phase, flag)
  PROVE  calls'[c].phase = phase
BY DEF TypeOK, Reply, CallType

-----------------------------------------------------------------------------
(* Who is shown as signed in.  A user is in the store, or on the way to    *)
(* it, only while the session may read, has run out since, or a logout is  *)
(* about to empty the store.  A sign-in by password takes no session away from a user: one    *)
(* that only reads is of an account too new to have U2F.                   *)
Bringing == \E c \in Slots : calls[c].kind \in BringKinds /\ calls[c].phase = "ok"
Leaving == \E c \in Slots : Arrives(c, "logout", "ok")

Honest ==
  /\ session = "read" => account = "new"
  /\ enforced \/ devices # {} => account = "verified"
  /\ ~stale /\ (store.user.received \/ Bringing) => Readable \/ Leaving \/ over

LEMMA HonestSignIn == TypeOK /\ Honest /\ SignInNext => Honest'
<1> SUFFICES ASSUME TypeOK, Honest, SignInNext PROVE Honest'
  OBVIOUS
<1>0. stale \in BOOLEAN BY DEF TypeOK
<1>1. CASE Aside
  <2>1. Passing BY <1>1, AsidePasses
  <2>2. Bringing' => Bringing BY <2>1 DEF Passing, Bringing, BringKinds, PassingKinds
  <2>3. Leaving => Leaving' BY <2>1 DEF Passing, Leaving, Arrives, PassingKinds
  <2> QED BY <2>1, <2>2, <2>3 DEF Passing, Honest, server, Readable
<1>2. ASSUME NEW c \in Slots,
             \/ UserAnswered(c) \/ LoginAnswered(c) \/ SignupAnswered(c)
             \/ LogoutAnswered(c) \/ SignFinishAnswered(c)
      PROVE  Honest'
  <2>1. /\ UNCHANGED server
        /\ \A e \in Slots : e # c => calls'[e] = calls[e]
        /\ calls'[c].phase = "sent"
    BY <1>2, Answers
  <2>2. Bringing' => Bringing BY <2>1 DEF Bringing
  <2>3. CASE Arrives(c, "logout", "ok")
    <3>1. ~store'.user.received /\ stale' = (stale \/ InFlight(BringKinds))
      BY <1>2, <2>3, Answers
    <3>2. ~stale' => ~Bringing' BY <1>0, <2>2, <3>1 DEF Bringing, InFlight
    <3> QED BY <2>1, <3>1, <3>2 DEF Honest, server
  <2>4. CASE ~Arrives(c, "logout", "ok")
    <3>1. stale' = stale /\ (store'.user.received => store.user.received \/ Bringing)
      BY <1>2, <2>4, Answers DEF Bringing
    <3>2. Leaving => Leaving' BY <2>1, <2>4 DEF Leaving, Arrives
    <3> QED BY <2>1, <2>2, <3>1, <3>2 DEF Honest, server, Readable
  <2> QED BY <2>3, <2>4
<1>3. ASSUME NEW c \in Slots,
             \/ ServeUser(c) \/ ServeLogin(c) \/ ServeSignup(c)
             \/ ServeLogout(c) \/ ServeSign(c)
      PROVE  /\ UNCHANGED <<enforced, devices, store, stale>>
             /\ Bringing' => Bringing \/ (calls[c].kind \in BringKinds /\ calls'[c].phase = "ok")
             /\ Leaving => Leaving'
  BY <1>3, Served DEF Bringing, Leaving, Arrives
<1>4. ASSUME NEW c \in Slots, ServeUser(c) PROVE Honest'
  <2>1. UNCHANGED server BY <1>4 DEF ServeUser
  <2>2. calls'[c].phase = "ok" => Readable BY <1>4, RepliedPhase DEF ServeUser
  <2> QED BY <1>3, <1>4, <2>1, <2>2 DEF Honest, server, Readable
<1>5. ASSUME NEW c \in Slots, ServeLogin(c) PROVE Honest'
  <2>1. UNCHANGED account BY <1>5 DEF ServeLogin
  <2>2. CASE session = "full"
    <3>1. UNCHANGED <<session, over>> BY <1>5, <2>2 DEF ServeLogin
    <3> QED BY <1>3, <1>5, <2>1, <2>2, <3>1 DEF Honest, Readable
  <2>3. CASE session # "full" /\ calls[c].flag /\ account # "none" /\ enforced
    <3>1. session' = "half" /\ over' = over /\ Reply(c, "refused", TRUE)
      BY <1>5, <2>3 DEF ServeLogin, SetSession, TypeOK
    <3>2. ~Readable BY <2>3 DEF Honest, Readable
    <3>3. Bringing' => Bringing BY <1>3, <1>5, <3>1, RepliedPhase
    <3> QED BY <1>3, <1>5, <2>1, <3>1, <3>2, <3>3 DEF Honest
  <2>4. CASE session # "full" /\ calls[c].flag /\ account # "none" /\ ~enforced
    <3>1. session' = "full" BY <1>5, <2>4 DEF ServeLogin, SetSession
    <3> QED BY <1>3, <1>5, <2>1, <3>1 DEF Honest, Readable
  <2>5. CASE session # "full" /\ ~(calls[c].flag /\ account # "none")
    <3>1. UNCHANGED <<session, over>> /\ Reply(c, "refused", FALSE)
      BY <1>5, <2>5 DEF ServeLogin
    <3>2. Bringing' => Bringing BY <1>3, <1>5, <3>1, RepliedPhase
    <3> QED BY <1>3, <1>5, <2>1, <3>1, <3>2 DEF Honest, Readable
  <2> QED BY <2>2, <2>3, <2>4, <2>5
<1>6. ASSUME NEW c \in Slots, ServeSignup(c) PROVE Honest'
  <2>1. calls[c].kind \notin BringKinds BY <1>6 DEF ServeSignup, Serves, BringKinds
  <2>2. CASE account = "none"
    <3>1. account' = "new" /\ (session' = "read" \/ UNCHANGED <<session, over>>)
      BY <1>6, <2>2 DEF ServeSignup, SetSession
    <3>2. ~enforced /\ devices = {} BY <2>2 DEF TypeOK, Honest
    <3> QED BY <1>3, <1>6, <2>1, <3>1, <3>2 DEF Honest, Readable
  <2>3. CASE account # "none"
    <3>1. UNCHANGED <<account, session, over>> BY <1>6, <2>3 DEF ServeSignup
    <3> QED BY <1>3, <1>6, <2>1, <3>1 DEF Honest, Readable
  <2> QED BY <2>2, <2>3
<1>7. ASSUME NEW c \in Slots, ServeLogout(c) PROVE Honest'
  <2>1. session' = "none" /\ UNCHANGED account /\ Reply(c, "ok", FALSE)
    BY <1>7 DEF ServeLogout, SetSession
  <2>2. calls'[c].kind = "logout" BY <1>7, Served DEF ServeLogout, Serves
  <2>3. Leaving' BY <2>1, <2>2, RepliedPhase DEF Leaving, Arrives
  <2> QED BY <1>3, <1>7, <2>1, <2>3 DEF Honest
<1>8. ASSUME NEW c \in Slots, ServeSign(c) PROVE Honest'
  <2>1. UNCHANGED account BY <1>8 DEF ServeSign
  <2>2. CASE session' = "full" BY <1>3, <1>8, <2>1, <2>2 DEF Honest, Readable
  <2>3. CASE UNCHANGED <<session, over>> /\ calls[c].kind \notin BringKinds
    BY <1>3, <1>8, <2>1, <2>3 DEF Honest, Readable
  <2>4. CASE UNCHANGED <<session, over>> /\ Reply(c, "refused", FALSE)
    <3>1. Bringing' => Bringing BY <1>3, <1>8, <2>4, RepliedPhase
    <3> QED BY <1>3, <1>8, <2>1, <2>4, <3>1 DEF Honest, Readable
  <2> QED BY <1>8, <2>2, <2>3, <2>4 DEF ServeSign, Serves, BringKinds, SetSession
<1> QED BY <1>1, <1>2, <1>4, <1>5, <1>6, <1>7, <1>8, SignInSplit DEF SignInRest

LEMMA ServerOnlyChanges == RegistrationsNext => UNCHANGED <<enforced, devices>> \/ Writable
<1>1. \A c \in Slots : ServeChange(c) => UNCHANGED <<enforced, devices>> \/ Writable
  BY DEF ServeChange
<1> QED BY <1>1
        DEF RegistrationsNext, ToVault, RegisterGivenUp, ToAccount, Toggle, BeginRegister,
            DeleteU2f, RegisteredTap, RegsAnswered, DeleteAnswered, RequireAnswered,
            RegisterChallengeAnswered, RegisterFinishAnswered, ServeRegs,
            ServeRegisterChallenge, server

LEMMA StepHonest == TypeOK /\ Honest /\ [Next]_vars => Honest'
<1> SUFFICES ASSUME TypeOK, Honest, [Next]_vars PROVE Honest'
  OBVIOUS
<1>0. stale \in BOOLEAN BY DEF TypeOK
<1>1. CASE RegistrationsNext
  <2>1. SignInAlone BY <1>1, PanelLeavesSignIn
  <2>2. enforced' \/ devices' # {} => account = "verified"
    BY <1>1, ServerOnlyChanges DEF Honest, Writable
  <2>3. Leaving => Leaving' BY <2>1 DEF Leaving, Arrives, SignInAlone, SignInKinds
  <2>4. Bringing' => Bringing \/ Readable
    BY <2>1 DEF Bringing, BringKinds, SignInAlone, SignInKinds
  <2>5. store'.user.received => store.user.received \/ Bringing
    BY <2>1 DEF SignInAlone, Bringing, BringKinds, Arrives
  <2> QED BY <1>0, <2>1, <2>2, <2>3, <2>4, <2>5 DEF Honest, SignInAlone, Readable
<1>2. ASSUME NEW c \in Slots, Lose(c) PROVE Honest'
  <2>1. UNCHANGED <<server, store>> /\ (stale => stale') BY <1>2, LoseKinds
  <2>2. Bringing' => Bringing BY <1>2, LoseKinds DEF Bringing
  <2>3. Leaving => Leaving' \/ Arrives(c, "logout", "ok")
    BY <1>2, LoseKinds DEF Leaving, Arrives
  <2>4. Arrives(c, "logout", "ok") => stale' BY <1>2 DEF Lose, Arrives
  <2> QED BY <1>0, <2>1, <2>2, <2>3, <2>4 DEF Honest, Readable, server
<1>3. ASSUME NEW c \in Slots, NEW d \in Slots, NEW path \in {"home", "vault", "account"},
             Load(c, d, path)
      PROVE  Honest'
  <2>1. ~store'.user.received /\ UNCHANGED <<enforced, devices>> BY <1>3, LoadStarts
  <2>2. ~Bringing' BY <1>3, LoadStarts DEF Bringing
  <2>3. UNCHANGED <<account, session>> \/ (account' = "verified" /\ session' = "none")
    BY <1>3 DEF Load, server, SetSession
  <2> QED BY <2>1, <2>2, <2>3 DEF Honest
<1>4. CASE UNCHANGED vars BY <1>4 DEF vars, Honest, Bringing, Leaving, Readable, Arrives
<1>5. CASE Expire BY <1>5 DEF Expire, Honest
<1> QED BY <1>1, <1>2, <1>3, <1>4, <1>5, HonestSignIn DEF Next

(* reducers/user.js: a page at rest that shows a user has a session that   *)
(* may read, or had one that ran out (auth/sessions) and nobody signed in  *)
(* or out since, unless the answer to a logout was lost or overtaken.      *)
THEOREM SignedInTrue == Spec => []SignedInHonest
<1>1. Init => Honest
  <2> SUFFICES ASSUME Init PROVE Honest
    OBVIOUS
  <2>1. session # "read" /\ (devices # {} => account = "verified") /\ (enforced => devices # {})
          /\ store = EmptyStore
    BY DEF Init
  <2>2. ~Bringing BY CallTypes DEF Init, Bringing
  <2> QED BY <2>1, <2>2, CallTypes DEF Honest
<1>2. Honest => SignedInHonest
  <2> SUFFICES ASSUME Honest, store.user.received, \A c \in Slots : calls[c] = Free, ~stale
               PROVE  session \in {"read", "full"} \/ over
    BY DEF SignedInHonest
  <2>1. ~Leaving BY CallTypes DEF Leaving, Arrives
  <2> QED BY <2>1 DEF Honest, Readable
<1> QED BY <1>1, <1>2, TypeCorrect, StepHonest, PTL DEF Spec

-----------------------------------------------------------------------------
(* The list of the panel.  A change that the server has made and the page  *)
(* was not told of yet: until then the list, and a list that is on its     *)
(* way, is the one of the server once the change is made to it.  With two  *)
(* such changes nothing is claimed: the first that is told of may undo the *)
(* second, which is what `stale` marks.                                    *)
Changing(c) == calls[c].kind \in {"regFinish", "delReg"} /\ calls[c].phase = "ok"

After(S, c) ==
  IF calls[c].kind = "regFinish" THEN S \cup calls[c].devices ELSE S \ calls[c].devices

Told ==
  /\ store.regs.isMap => ~store.regs.received
  /\ ~stale /\ (\A c \in Slots : ~Changing(c)) =>
       /\ store.regs.received => store.regs.list = devices
       /\ \A g \in Slots : Arrives(g, "getRegs", "ok") => calls[g].devices = devices
  /\ \A c \in Slots : ~stale /\ Changing(c) /\ (\A d \in Slots \ {c} : ~Changing(d)) =>
       /\ After(devices, c) = devices
       /\ store.regs.received => After(store.regs.list, c) = devices
       /\ \A g \in Slots : Arrives(g, "getRegs", "ok") => After(calls[g].devices, c) = devices

(* What leaves it alone: nothing was told or served, and of the list at    *)
(* most that it is there is forgotten.                                     *)
Untold ==
  /\ devices' = devices /\ (stale => stale')
  /\ \A e \in Slots :
       \/ calls[e].kind \in PanelKinds /\ calls[e].phase = "ok"
       \/ calls'[e].kind \in PanelKinds /\ calls'[e].phase = "ok"
       => calls'[e] = calls[e]
  /\ store'.regs.isMap => ~store'.regs.received
  /\ store'.regs.received => store.regs.received /\ store'.regs.list = store.regs.list

LEMMA ToldKept == Told /\ Untold /\ stale' \in BOOLEAN => Told'
<1> SUFFICES ASSUME Told, Untold, stale' \in BOOLEAN PROVE Told'
  OBVIOUS
<1>1. \A e \in Slots : /\ Changing(e)' <=> Changing(e)
                       /\ Changing(e) => calls'[e] = calls[e]
  BY DEF Untold, Changing, PanelKinds
<1>2. \A e \in Slots : Arrives(e, "getRegs", "ok")' => /\ Arrives(e, "getRegs", "ok")
                                                       /\ calls'[e] = calls[e]
  BY DEF Untold, Arrives, PanelKinds
<1>3. devices' = devices /\ (~stale' => ~stale)
      /\ (store'.regs.isMap => ~store'.regs.received)
      /\ (store'.regs.received => store.regs.received /\ store'.regs.list = store.regs.list)
  BY DEF Untold
<1>4. ASSUME ~stale', \A c \in Slots : ~Changing(c)'
      PROVE  /\ store'.regs.received => store'.regs.list = devices'
             /\ \A g \in Slots : Arrives(g, "getRegs", "ok")' => calls'[g].devices = devices'
  BY <1>1, <1>2, <1>3, <1>4 DEF Told
<1>5. ASSUME NEW c \in Slots, ~stale', Changing(c)', \A d \in Slots \ {c} : ~Changing(d)'
      PROVE  /\ After(devices, c)' = devices'
             /\ store'.regs.received => After(store.regs.list, c)' = devices'
             /\ \A g \in Slots :
                  Arrives(g, "getRegs", "ok")' => After(calls[g].devices, c)' = devices'
  <2>1. calls'[c] = calls[c] BY <1>1, <1>5
  <2>2. /\ After(devices, c) = devices
        /\ store.regs.received => After(store.regs.list, c) = devices
        /\ \A g \in Slots : Arrives(g, "getRegs", "ok") => After(calls[g].devices, c) = devices
    BY <1>1, <1>3, <1>5 DEF Told
  <2> QED BY <1>2, <1>3, <2>1, <2>2 DEF After
<1> QED BY <1>3, <1>4, <1>5 DEF Told

(* The page is told of the change c.                                       *)
LEMMA ToldOfChange ==
  ASSUME TypeOK, Told, NEW c \in Slots, Changing(c), stale' = Outdated(c), devices' = devices,
         \A e \in Slots : e # c => calls'[e] = calls[e],
         calls'[c].phase = "sent",
         store'.regs.isMap => ~store'.regs.received,
         store'.regs.received => /\ store.regs.received
                                 /\ store'.regs.list = After(store.regs.list, c)
  PROVE  Told'
<1>1. CASE stale' BY <1>1 DEF Told
<1>2. CASE ~stale'
  <2>1. ~stale /\ \A e \in Slots \ {c} :
                    ~(calls[e].kind \in {"getRegs", "regFinish", "delReg"} /\ calls[e].phase = "ok")
    BY <1>2 DEF Outdated, TypeOK
  <2>2. \A e \in Slots \ {c} : ~Changing(e) BY <2>1 DEF Changing
  <2>3. store.regs.received => After(store.regs.list, c) = devices BY <2>1, <2>2 DEF Told
  <2>4. \A e \in Slots : ~Changing(e)' BY <2>2 DEF Changing
  <2>5. \A g \in Slots : ~Arrives(g, "getRegs", "ok")' BY <2>1 DEF Arrives
  <2> QED BY <2>3, <2>4, <2>5 DEF Told
<1> QED BY <1>1, <1>2 DEF Outdated

LEMMA ToldRegistrations == TypeOK /\ Told /\ RegistrationsNext => Told'
<1> SUFFICES ASSUME TypeOK, Told, RegistrationsNext PROVE Told'
  OBVIOUS
<1>0. /\ asked \in Asks /\ store \in Store /\ view \in View /\ calls \in [Slots -> CallType]
      /\ stale \in BOOLEAN /\ (store.regs.isMap => ~store.regs.received)
  BY DEF TypeOK, Asks, Told
<1> DEFINE Kept == \A e \in Slots :
       \/ calls[e].kind \in PanelKinds /\ calls[e].phase = "ok"
       \/ calls'[e].kind \in PanelKinds /\ calls'[e].phase = "ok"
       => calls'[e] = calls[e]
             Regs(r) == /\ r.isMap => ~r.received
                        /\ r.received => store.regs.received /\ r.list = store.regs.list
<1>1. ASSUME Kept, UNCHANGED <<devices, stale>>, Regs(store'.regs) PROVE Told'
  <2>1. Untold BY <1>0, <1>1 DEF Untold
  <2> QED BY <1>0, <1>1, <2>1, ToldKept
<1>2. Regs(store.regs) BY <1>0
<1>3. ASSUME NEW c \in Slots, NEW call \in CallType, call.phase = "sent", Send(c, call)
      PROVE  Kept
  BY <1>0, <1>3, CallTypes DEF Send
<1>4. ASSUME NEW c \in Slots, Quietly(c)
      PROVE  /\ \A e \in Slots : e # c => calls'[e] = calls[e]
             /\ calls'[c].phase = "sent" /\ calls'[c].kind = "none"
  BY <1>0, <1>4, CallTypes DEF Quietly
<1>5. ASSUME NEW c \in Slots, Quietly(c), calls[c].kind \notin PanelKinds \/ calls[c].phase # "ok"
      PROVE  Kept
  BY <1>4, <1>5
<1>6. calls' = calls => Kept OBVIOUS
<1> HIDE DEF Kept
<1>7. ASSUME NEW t \in Store, NEW v \in View, NEW c \in Slots, HandOver(c, t, v)
      PROVE  /\ \A e \in Slots : e # c => calls'[e] = calls[e]
             /\ calls'[c].phase = "sent" /\ calls'[c].kind \in {"none", "getUser"}
             /\ store'.regs = t.regs
  <2>1. Handed(c, t, v) BY <1>0, <1>7, HandOverHanded
  <2>2. /\ \A e \in Slots : e # c => calls'[e] = calls[e]
        /\ calls'[c].phase = "sent" /\ calls'[c].kind \in {"none", "getUser"}
    BY <1>0, <2>1, CallTypes DEF Handed, Kinds
  <2> QED BY <2>1, <2>2, AskingInStore DEF Handed
<1>8. CASE ToVault BY <1>1, <1>2, <1>6, <1>8 DEF ToVault, Shows, server
<1>9. ASSUME NEW owner \in {"register", "registerGone"}, RegisterGivenUp(owner) PROVE Told'
  BY <1>1, <1>2, <1>6, <1>9 DEF RegisterGivenUp, Shows, server
<1>10. ASSUME NEW c \in Slots, ToAccount(c) PROVE Told'
  <2>1. AskingRegs(store).regs = [NoRegs EXCEPT !.fetching = TRUE]
    BY <1>0 DEF AskingRegs, Store
  <2>2. ~AskingRegs(store).regs.received BY <2>1 DEF NoRegs
  <2>3. Kept BY <1>3, <1>6, <1>10, CallTypes DEF ToAccount, Kinds
  <2>4. store' \in {store, AskingRegs(store)} /\ UNCHANGED <<devices, stale>>
    BY <1>10 DEF ToAccount, Shows, server
  <2> QED BY <1>1, <1>2, <2>2, <2>3, <2>4
<1>11. ASSUME NEW c \in Slots, Toggle(c) PROVE Told'
  <2>1. /\ [New("require") EXCEPT !.flag = ~view.toggle] \in CallType
        /\ [New("require") EXCEPT !.flag = ~view.toggle].phase = "sent"
    BY <1>0 DEF New, Kinds, CallType, View
  <2>2. Kept BY <1>3, <1>6, <1>11, <2>1 DEF Toggle
  <2> QED BY <1>1, <1>2, <1>11, <2>2 DEF Toggle, Shows, server
<1>12. ASSUME NEW c \in Slots,
              \/ BeginRegister(c) \/ \E d \in Devices : DeleteU2f(c, d)
              \/ \E owner \in {"register", "registerGone"}, d \in Devices : RegisteredTap(c, owner, d)
       PROVE  Told'
  <2>1. \A k \in Kinds, d \in Devices :
          /\ [New(k) EXCEPT !.devices = {d}] \in CallType
          /\ [New(k) EXCEPT !.devices = {d}].phase = "sent"
    BY DEF New, CallType
  <2>2. PICK call \in CallType : call.phase = "sent" /\ Send(c, call)
    <3>1. CASE BeginRegister(c) BY <3>1, CallTypes DEF BeginRegister, Kinds
    <3>2. CASE \E d \in Devices : DeleteU2f(c, d) BY <2>1, <3>2 DEF DeleteU2f, Kinds
    <3>3. CASE \E owner \in {"register", "registerGone"}, d \in Devices : RegisteredTap(c, owner, d)
      <4>1. PICK d \in Devices : Send(c, [New("regFinish") EXCEPT !.devices = {d}])
        BY <3>3 DEF RegisteredTap
      <4> QED BY <2>1, <4>1 DEF Kinds
    <3> QED BY <1>12, <3>1, <3>2, <3>3
  <2>3. Kept BY <1>3, <2>2
  <2> QED BY <1>1, <1>2, <1>12, <2>3 DEF BeginRegister, DeleteU2f, RegisteredTap, server
<1>13. FailedRegs(store).regs.isMap /\ ~FailedRegs(store).regs.received
  BY <1>0 DEF FailedRegs, Store, NoRegs
<1>14. ASSUME NEW c \in Slots, RegsAnswered(c) PROVE Told'
  <2>1. Quietly(c) /\ UNCHANGED <<devices, stale>> /\ calls[c].kind = "getRegs"
    BY <1>14 DEF RegsAnswered, server, Arrives
  <2>2. CASE /\ Arrives(c, "getRegs", "ok")
             /\ store' = [store EXCEPT !.regs = [NoRegs EXCEPT !.list = calls[c].devices,
                                                              !.received = TRUE]]
    <3>1. store'.regs = [NoRegs EXCEPT !.list = calls[c].devices, !.received = TRUE]
      BY <1>0, <2>2 DEF Store
    <3>2. ~store'.regs.isMap /\ store'.regs.list = calls[c].devices BY <3>1 DEF NoRegs
    <3>3. \A e \in Slots : /\ Changing(e)' <=> Changing(e)
                           /\ Changing(e) => calls'[e] = calls[e]
                           /\ Arrives(e, "getRegs", "ok")' =>
                                Arrives(e, "getRegs", "ok") /\ calls'[e] = calls[e]
      BY <1>4, <2>1 DEF Changing, Arrives
    <3> QED BY <2>1, <2>2, <3>2, <3>3 DEF Told, After
  <2>3. CASE Arrives(c, "getRegs", "refused") /\ store' = FailedRegs(store)
    <3>1. Kept BY <1>5, <2>1, <2>3 DEF Arrives
    <3> QED BY <1>1, <1>13, <2>1, <2>3, <3>1
  <2> QED BY <1>14, <2>2, <2>3 DEF RegsAnswered, Shows
<1>15. ASSUME NEW c \in Slots, DeleteAnswered(c) PROVE Told'
  <2>1. Quietly(c) /\ devices' = devices BY <1>15 DEF DeleteAnswered, server
  <2>2. CASE Arrives(c, "delReg", "ok")
    <3>1. store' = [store EXCEPT !.regs.list = @ \ calls[c].devices] /\ stale' = Outdated(c)
      BY <1>15, <2>2 DEF DeleteAnswered, Arrives, Shows
    <3>2. /\ store'.regs.isMap = store.regs.isMap /\ store'.regs.received = store.regs.received
          /\ store'.regs.list = store.regs.list \ calls[c].devices
      BY <1>0, <3>1 DEF Store
    <3>3. Changing(c) /\ After(store.regs.list, c) = store.regs.list \ calls[c].devices
      BY <2>2 DEF Changing, After, Arrives
    <3> QED BY <1>0, <1>4, <2>1, <3>1, <3>2, <3>3, ToldOfChange
  <2>3. CASE Arrives(c, "delReg", "refused")
    <3>1. store' = FailedRegs(store) /\ stale' = stale
      BY <1>15, <2>3 DEF DeleteAnswered, Arrives, Shows
    <3>2. Kept BY <1>5, <2>1, <2>3 DEF Arrives
    <3> QED BY <1>1, <1>13, <2>1, <3>1, <3>2
  <2> QED BY <1>15, <2>2, <2>3 DEF DeleteAnswered
<1>16. ASSUME NEW c \in Slots, RequireAnswered(c) PROVE Told'
  <2> DEFINE t == [store EXCEPT !.user = [NoUser EXCEPT !.enforced = calls[c].flag,
                                                        !.received = TRUE]]
  <2>1. t \in Store /\ t.regs = store.regs BY <1>0 DEF Store, NoUser, CallType
  <2>2. calls[c].kind = "require" /\ UNCHANGED <<devices, stale>>
    BY <1>16 DEF RequireAnswered, Arrives, server
  <2>3. HandOver(c, t, view) \/ (Quietly(c) /\ UNCHANGED store) BY <1>16 DEF RequireAnswered
  <2> HIDE DEF t
  <2>4. CASE HandOver(c, t, view)
    <3>1. Kept BY <1>0, <1>7, <2>1, <2>2, <2>4 DEF Kept, PanelKinds
    <3> QED BY <1>0, <1>1, <1>2, <1>7, <2>1, <2>2, <2>4, <3>1
  <2>5. CASE Quietly(c) /\ UNCHANGED store
    BY <1>1, <1>2, <1>5, <2>2, <2>5 DEF PanelKinds
  <2> QED BY <2>3, <2>4, <2>5
<1>17. ASSUME NEW c \in Slots, RegisterChallengeAnswered(c) PROVE Told'
  <2>1. Kept BY <1>5, <1>17 DEF RegisterChallengeAnswered, Arrives, PanelKinds
  <2> QED BY <1>1, <1>2, <1>17, <2>1 DEF RegisterChallengeAnswered, Shows, server
<1>18. ASSUME NEW c \in Slots, RegisterFinishAnswered(c) PROVE Told'
  <2> DEFINE t == WithDevice(store, calls[c].devices)
             v == RegisterStage("notStarted")
  <2>1. /\ t \in Store /\ t.regs.isMap = store.regs.isMap
        /\ t.regs.received = store.regs.received
        /\ t.regs.list = store.regs.list \cup calls[c].devices
    BY <1>0 DEF WithDevice, Store, CallType
  <2>2. v \in View BY <1>0 DEF RegisterStage, View, Dialog
  <2>3. devices' = devices BY <1>18 DEF RegisterFinishAnswered, server
  <2>4. \/ /\ Arrives(c, "regFinish", "ok") /\ store.regs.isMap
           /\ Quietly(c) /\ store' = store /\ stale' = Outdated(c)
        \/ /\ Arrives(c, "regFinish", "ok")
           /\ (Quietly(c) /\ store' = t) \/ HandOver(c, t, v)
           /\ stale' = Outdated(c)
        \/ /\ Arrives(c, "regFinish", "refused")
           /\ Quietly(c) /\ store' = store /\ stale' = stale
    BY <1>18 DEF RegisterFinishAnswered, Shows
  <2>5. Arrives(c, "regFinish", "ok") =>
          /\ Changing(c) /\ After(store.regs.list, c) = store.regs.list \cup calls[c].devices
    BY DEF Changing, After, Arrives
  <2> HIDE DEF t, v
  <2>6. CASE /\ Arrives(c, "regFinish", "ok") /\ store.regs.isMap
             /\ Quietly(c) /\ store' = store /\ stale' = Outdated(c)
    BY <1>0, <1>4, <2>3, <2>5, <2>6, ToldOfChange
  <2>7. CASE /\ Arrives(c, "regFinish", "ok")
             /\ (Quietly(c) /\ store' = t) \/ HandOver(c, t, v)
             /\ stale' = Outdated(c)
    <3>1. /\ \A e \in Slots : e # c => calls'[e] = calls[e]
          /\ calls'[c].phase = "sent" /\ store'.regs = t.regs
      BY <1>4, <1>7, <2>1, <2>2, <2>7
    <3> QED BY <1>0, <2>1, <2>3, <2>5, <2>7, <3>1, ToldOfChange
  <2>8. CASE /\ Arrives(c, "regFinish", "refused")
             /\ Quietly(c) /\ store' = store /\ stale' = stale
    <3>1. Kept BY <1>5, <2>8 DEF Arrives
    <3> QED BY <1>1, <1>2, <2>3, <2>8, <3>1
  <2> QED BY <2>4, <2>6, <2>7, <2>8
<1>19. ASSUME NEW c \in Slots, ServeRegs(c) PROVE Told'
  <2>1. /\ \A e \in Slots : e # c => calls'[e] = calls[e]
        /\ calls'[c].kind = "getRegs" /\ calls[c].kind = "getRegs"
        /\ calls'[c].phase = "ok" => calls'[c].devices = devices
    BY <1>0, <1>19 DEF ServeRegs, CallType, Serves
  <2>2. UNCHANGED <<store, devices, stale>> BY <1>19 DEF ServeRegs, server
  <2>3. \A e \in Slots : /\ Changing(e)' <=> Changing(e)
                         /\ Changing(e) => calls'[e] = calls[e]
    BY <2>1 DEF Changing
  <2>4. \A e \in Slots : Arrives(e, "getRegs", "ok")' =>
          \/ calls'[e].devices = devices
          \/ Arrives(e, "getRegs", "ok") /\ calls'[e] = calls[e]
    BY <2>1 DEF Arrives
  <2> QED BY <2>2, <2>3, <2>4 DEF Told, After
<1>20. ASSUME NEW c \in Slots, ServeRegisterChallenge(c) PROVE Told'
  <2>1. calls[c].kind = "regChallenge" /\ UNCHANGED <<store, devices, stale>>
    BY <1>20 DEF ServeRegisterChallenge, Serves, server
  <2>2. PICK phase, flag : Reply(c, phase, flag) BY <1>20 DEF ServeRegisterChallenge
  <2>3. Kept BY <1>0, <2>1, <2>2 DEF Kept, PanelKinds, Reply, CallType
  <2> QED BY <1>1, <1>2, <2>1, <2>3
<1>21. ASSUME NEW c \in Slots, ServeChange(c) PROVE Told'
  <2>0. UNCHANGED <<store, stale>> BY <1>21 DEF ServeChange
  <2>1. PICK phase \in {"ok", "refused"}, flag \in {FALSE, calls[c].flag} :
          /\ Reply(c, phase, flag) /\ calls[c].phase = "sent"
          /\ IF phase = "ok" /\ calls[c].kind \in {"regFinish", "delReg"}
               THEN devices' = After(devices, c)
               ELSE devices' = devices /\ (calls[c].kind = "require" \/ phase = "refused")
    BY <1>21 DEF ServeChange, Serves, After
  <2>2. /\ \A e \in Slots : e # c => calls'[e] = calls[e]
        /\ calls'[c].kind = calls[c].kind /\ calls'[c].phase = phase
        /\ calls'[c].devices = calls[c].devices
    BY <1>0, <2>1 DEF Reply, CallType
  <2>3. CASE phase = "ok" /\ calls[c].kind \in {"regFinish", "delReg"}
    <3>1. Changing(c)' /\ ~Changing(c) BY <2>1, <2>2, <2>3 DEF Changing
    <3>2. devices' = After(devices, c) /\ After(devices', c) = devices'
      BY <2>1, <2>3 DEF After
    <3>3. \A e \in Slots : e # c => (Changing(e)' <=> Changing(e)) BY <2>2 DEF Changing
    <3>4. ASSUME NEW x \in Slots, ~stale', Changing(x)', \A d \in Slots \ {x} : ~Changing(d)'
          PROVE  /\ After(devices, x)' = devices'
                 /\ store'.regs.received => After(store.regs.list, x)' = devices'
                 /\ \A g \in Slots :
                      Arrives(g, "getRegs", "ok")' => After(calls[g].devices, x)' = devices'
      <4>1. x = c BY <3>1, <3>4
      <4>2. \A e \in Slots : ~Changing(e) BY <3>1, <3>3, <3>4, <4>1
      <4>3. store.regs.received => store.regs.list = devices BY <2>0, <3>4, <4>2 DEF Told
      <4>4. \A g \in Slots : Arrives(g, "getRegs", "ok") => calls[g].devices = devices
        BY <2>0, <3>4, <4>2 DEF Told
      <4>5. \A g \in Slots : Arrives(g, "getRegs", "ok")' =>
              Arrives(g, "getRegs", "ok") /\ calls'[g] = calls[g]
        BY <2>2, <2>3 DEF Arrives
      <4> QED BY <2>0, <2>2, <3>2, <4>1, <4>3, <4>4, <4>5 DEF After
    <3> QED BY <1>0, <2>0, <3>1, <3>4 DEF Told
  <2>4. CASE ~(phase = "ok" /\ calls[c].kind \in {"regFinish", "delReg"})
    <3>1. devices' = devices BY <2>1, <2>4
    <3>2. Kept BY <2>1, <2>2, <2>4 DEF Kept, PanelKinds
    <3> QED BY <1>1, <1>2, <2>0, <3>1, <3>2
  <2> QED BY <2>3, <2>4
<1> QED BY <1>8, <1>9, <1>10, <1>11, <1>12, <1>14, <1>15, <1>16, <1>17, <1>18, <1>19, <1>20,
           <1>21 DEF RegistrationsNext

LEMMA StepTold == TypeOK /\ Told /\ [Next]_vars => Told'
<1> SUFFICES ASSUME TypeOK, Told, [Next]_vars PROVE Told'
  OBVIOUS
<1>0. stale \in BOOLEAN /\ (store.regs.isMap => ~store.regs.received) BY DEF TypeOK, Told
<1>1. CASE SignInNext
  <2>1. PanelAlone BY <1>1, SignInLeavesPanel
  <2>2. ~NoRegs.received /\ ~NoRegs.isMap BY DEF NoRegs
  <2>3. Untold BY <1>0, <2>1, <2>2 DEF PanelAlone, Untold
  <2>4. stale' \in BOOLEAN BY <1>1, TypesSignIn DEF TypeOK
  <2> QED BY <2>3, <2>4, ToldKept
<1>2. ASSUME NEW c \in Slots, Lose(c) PROVE Told'
  <2>1. CASE Changing(c)
    <3>1. stale' BY <1>2, <2>1 DEF Lose, Changing
    <3> QED BY <1>0, <1>2, <3>1, LoseKinds DEF Told
  <2>2. CASE ~Changing(c)
    <3>1. UNCHANGED <<store, devices>> /\ (stale => stale') BY <1>2, LoseKinds DEF server
    <3>2. \A e \in Slots : e # c => calls'[e] = calls[e] BY <1>2, LoseKinds
    <3>3. calls'[c].phase # "ok" BY <1>2, LoseKinds
    <3>4. \A e \in Slots : /\ Changing(e)' <=> Changing(e)
                           /\ Changing(e) => calls'[e] = calls[e]
                           /\ Arrives(e, "getRegs", "ok")' =>
                                Arrives(e, "getRegs", "ok") /\ calls'[e] = calls[e]
      BY <2>2, <3>2, <3>3 DEF Changing, Arrives
    <3> QED BY <1>0, <3>1, <3>4 DEF Told, After
  <2> QED BY <2>1, <2>2
<1>3. ASSUME NEW c \in Slots, NEW d \in Slots, NEW path \in {"home", "vault", "account"},
             Load(c, d, path)
      PROVE  Told'
  <2>1. ~store'.regs.received /\ \A e \in Slots : calls'[e].phase = "sent" BY <1>3, LoadStarts
  <2> QED BY <2>1 DEF Told, Changing, Arrives
<1>4. CASE UNCHANGED vars BY <1>4 DEF vars, Told, Changing, After, Arrives
<1>5. CASE Expire BY <1>5 DEF Expire, Told, Changing, After, Arrives
<1> QED BY <1>1, <1>2, <1>3, <1>4, <1>5, ToldRegistrations DEF Next

(* reducers/u2f.js:109: once every call about registrations is answered    *)
(* the panel lists the devices that the server has, in whatever order they *)
(* were registered, deleted and listed, unless an answer was lost or       *)
(* overtaken.                                                              *)
THEOREM ListsTrue == Spec => []ListTrue
<1>1. Init => Told
  <2> SUFFICES ASSUME Init PROVE Told
    OBVIOUS
  <2>1. ~store.regs.received BY DEF Init, EmptyStore, NoRegs
  <2>2. \A c \in Slots : calls[c].phase = "sent" BY CallTypes DEF Init
  <2> QED BY <2>1, <2>2 DEF Told, Changing, Arrives
<1>2. Told => ListTrue
  <2> SUFFICES ASSUME Told, store.regs.received,
                      ~InFlight({"getRegs", "regFinish", "delReg"}), ~stale
               PROVE  store.regs.list = devices
    BY DEF ListTrue
  <2>1. \A c \in Slots : ~Changing(c) BY DEF InFlight, Changing
  <2> QED BY <2>1 DEF Told
<1> QED BY <1>1, <1>2, TypeCorrect, StepTold, PTL DEF Spec
=============================================================================
