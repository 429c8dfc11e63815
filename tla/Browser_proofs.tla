--------------------------- MODULE Browser_proofs ---------------------------
(***************************************************************************)
(* Theorems about Browser, for any number of calls in flight, devices and  *)
(* calls of the U2F API that are not called back.                          *)
(***************************************************************************)
EXTENDS Browser, FiniteSetTheorems, TLAPS

Asks == [AskKinds -> 0..MaxAsked]

-----------------------------------------------------------------------------
(* What rendering can make of a view, and with it of the calls of the U2F  *)
(* API: a dialog that asks for a tap did before, and keeps its calls.      *)
Shown(s, v, a) ==
  /\ store' = s
  /\ view' \in View /\ asked' \in Asks
  /\ view'.path \in {v.path, "none"}
  /\ view'.sign = "tapRequired" =>
       v.sign = "tapRequired" /\ asked'["sign"] = a["sign"] /\ ~s.user.received
  /\ view'.register = "tapRequired" =>
       v.register = "tapRequired" /\ asked'["register"] = a["register"] /\ ~s.regs.isMap

LEMMA AtInView ==
  ASSUME NEW path \in {"none", "home", "vault", "account"}
  PROVE  /\ At(path) \in View /\ At(path).path = path
         /\ At(path).sign = "off" /\ At(path).register = "off"
BY DEF At, View, Dialog

LEMMA RenderInView ==
  ASSUME NEW s \in Store, NEW v \in View
  PROVE  /\ Render(v, s) \in View
         /\ Render(v, s).path \in {v.path, "none"}
         /\ Render(v, s).sign = "tapRequired" => v.sign = "tapRequired" /\ ~s.user.received
         /\ Render(v, s).register = "tapRequired" => v.register = "tapRequired" /\ ~s.regs.isMap
<1>1. CASE Crashes(v, s) BY <1>1, AtInView DEF Render
<1>2. CASE ~Crashes(v, s)
  <2> DEFINE dialog == v.dialog /\ LoginShown(v, s)
             toggle == v.toggle /\ v.path = "account"
  <2>1. Render(v, s) = [v EXCEPT !.isRegister = @ /\ v.path = "home",
               !.dialog = dialog,
               !.loading = @ /\ RegisterShown(v, s),
               !.sign = Opened(dialog, @),
               !.toggle = toggle,
               !.register = Opened(toggle, @)]
    BY <1>2 DEF Render
  <2>2. dialog \in BOOLEAN /\ toggle \in BOOLEAN BY DEF LoginShown, FormsShown
  <2>3. v.sign \in Dialog /\ v.register \in Dialog BY DEF View
  <2>4. Opened(dialog, v.sign) \in Dialog /\ Opened(toggle, v.register) \in Dialog
    BY <2>3 DEF Opened, Dialog
  <2>5. /\ Opened(dialog, v.sign) = "tapRequired" => v.sign = "tapRequired" /\ dialog
        /\ Opened(toggle, v.register) = "tapRequired" => v.register = "tapRequired" /\ toggle
    BY <2>3 DEF Opened
  <2>6. dialog => ~s.user.received BY DEF LoginShown, FormsShown
  <2>7. toggle => ~s.regs.isMap BY <1>2 DEF Crashes
  <2> HIDE DEF dialog, toggle
  <2>8. /\ Render(v, s).sign = Opened(dialog, v.sign)
        /\ Render(v, s).register = Opened(toggle, v.register)
        /\ Render(v, s).path = v.path
    BY <2>1 DEF View
  <2>9. Render(v, s) \in View
    BY <2>1, <2>2, <2>4 DEF View, RegisterShown, FormsShown
  <2> QED BY <2>5, <2>6, <2>7, <2>8, <2>9
<1> QED BY <1>1, <1>2

LEMMA ShowsShown ==
  ASSUME NEW s \in Store, NEW v \in View, NEW a \in Asks, Shows(s, v, a)
  PROVE  Shown(s, v, a)
<1>1. view' = Render(v, s) /\ store' = s /\ asked' = Disowned(a, view') BY DEF Shows
<1>2. MaxAsked \in Nat /\ \A k \in AskKinds : a[k] \in 0..MaxAsked
  BY ConstantsAssumption DEF Asks
<1>3. \A j, k, l \in 0..MaxAsked : /\ j + AtMost(k, MaxAsked - j - l) \in 0..MaxAsked
                                   /\ j + AtMost(k, MaxAsked - l - j) \in 0..MaxAsked
                                   /\ j + 0 \in 0..MaxAsked /\ 0 \in 0..MaxAsked
  BY <1>2 DEF AtMost
<1>4. Disowned(a, view') \in Asks
  <2>1. /\ a["sign"] \in 0..MaxAsked /\ a["signGone"] \in 0..MaxAsked
        /\ a["register"] \in 0..MaxAsked /\ a["registerGone"] \in 0..MaxAsked
    BY <1>2 DEF AskKinds
  <2> DEFINE room == MaxAsked - a["signGone"] - a["registerGone"]
  <2>2. /\ a["signGone"] + AtMost(a["sign"], room) \in 0..MaxAsked
        /\ a["signGone"] + 0 \in 0..MaxAsked /\ 0 \in 0..MaxAsked
    BY <1>3, <2>1
  <2>3. /\ a["registerGone"] + AtMost(a["register"], room) \in 0..MaxAsked
        /\ a["registerGone"] + 0 \in 0..MaxAsked
    BY <1>3, <2>1
  <2>4. \A k \in AskKinds : Disowned(a, view')[k] \in 0..MaxAsked
    BY <1>2, <2>2, <2>3 DEF Disowned, AskKinds
  <2> QED BY <2>4 DEF Disowned, Asks
<1>5. /\ view'.sign # "off" => Disowned(a, view')["sign"] = a["sign"]
      /\ view'.register # "off" => Disowned(a, view')["register"] = a["register"]
  BY DEF Disowned, AskKinds
<1> QED BY <1>1, <1>4, <1>5, RenderInView DEF Shown

(* A handler that changes the login or the user: the page goes to the      *)
(* dashboard, goes home, or stays, and asks for the user if it needs one.  *)
Handed(c, t, v) ==
  LET asks == v.path = "home" /\ t.login.received /\ NeedsUser(t)
  IN /\ calls' = [calls EXCEPT ![c] = IF asks THEN New("getUser") ELSE Free]
     /\ store' = IF asks THEN Asking(t) ELSE t
     /\ store' \in Store /\ view' \in View /\ asked' \in Asks
     /\ view'.path \in Dashboard =>
          ~t.user.error /\ (v.path \in Dashboard \/ (v.path = "home" /\ t.login.received))
     /\ view'.sign = "tapRequired" =>
          v.sign = "tapRequired" /\ asked'["sign"] = asked["sign"] /\ ~t.user.received
     /\ view'.register = "tapRequired" =>
          /\ v.register = "tapRequired" /\ asked'["register"] = asked["register"]
          /\ ~t.regs.isMap

LEMMA AskingInStore ==
  ASSUME NEW s \in Store
  PROVE  /\ Asking(s) \in Store
         /\ Asking(s).user.received = s.user.received /\ Asking(s).user.fetching
         /\ Asking(s).user.error = s.user.error
         /\ Asking(s).regs = s.regs
         /\ Asking(s).login = s.login
BY DEF Asking, Store

LEMMA HandOverHanded ==
  ASSUME NEW c \in Slots, NEW t \in Store, NEW v \in View, asked \in Asks, HandOver(c, t, v)
  PROVE  Handed(c, t, v)
<1> DEFINE asks == v.path = "home" /\ t.login.received /\ NeedsUser(t)
           s == IF asks THEN Asking(t) ELSE t
<1>1. /\ calls' = [calls EXCEPT ![c] = IF asks THEN New("getUser") ELSE Free]
      /\ Shows(s, Routed(t, v), asked)
  BY DEF HandOver
<1>2. s \in Store /\ s.user.received = t.user.received /\ s.regs = t.regs BY AskingInStore
<1>3. /\ Routed(t, v) \in View
      /\ Routed(t, v).path \in Dashboard =>
           ~t.user.error /\ (v.path \in Dashboard \/ (v.path = "home" /\ t.login.received))
      /\ Routed(t, v).sign = "tapRequired" => v.sign = "tapRequired"
      /\ Routed(t, v).register = "tapRequired" => v.register = "tapRequired"
  <2>1. CASE v.path = "home" /\ t.login.received
    BY <2>1, AtInView DEF Routed, ToDashboard, Dashboard
  <2>2. CASE v.path \in Dashboard /\ t.user.error
    BY <2>2, AtInView DEF Routed, Dashboard
  <2>3. CASE ~(v.path = "home" /\ t.login.received) /\ ~(v.path \in Dashboard /\ t.user.error)
    BY <2>3 DEF Routed, View, Dashboard
  <2> QED BY <2>1, <2>2, <2>3
<1>4. Shown(s, Routed(t, v), asked) BY <1>1, <1>2, <1>3, ShowsShown
<1> QED BY <1>1, <1>2, <1>3, <1>4 DEF Shown, Handed, Dashboard

LEMMA CallTypes ==
  /\ \A k \in Kinds : New(k) \in CallType /\ New(k).kind = k /\ New(k).phase = "sent"
  /\ Free \in CallType /\ Free.kind = "none" /\ Free.phase = "sent"
  /\ EmptyStore \in Store /\ ~EmptyStore.user.received
  /\ \A b \in BOOLEAN : [NoUser EXCEPT !.enforced = b, !.received = TRUE] = GotUser(b)
BY DEF New, Kinds, CallType, Free, EmptyStore, Store, NoLogin, NoUser, NoRegs, GotUser

-----------------------------------------------------------------------------
(* The types.                                                              *)
LEMMA QuietlyTypes ==
  ASSUME TypeOK, NEW c \in Slots, Quietly(c) PROVE calls' \in [Slots -> CallType]
BY CallTypes DEF TypeOK, Quietly

LEMMA ShownTypes ==
  ASSUME TypeOK, calls' \in [Slots -> CallType], UNCHANGED server, stale' \in BOOLEAN,
         NEW s \in Store, NEW v \in View, NEW a \in Asks, Shows(s, v, a)
  PROVE  TypeOK'
BY ShowsShown DEF Shown, TypeOK, server, Asks

LEMMA HandedTypes ==
  ASSUME TypeOK, UNCHANGED server, stale' \in BOOLEAN,
         NEW c \in Slots, NEW t \in Store, NEW v \in View, HandOver(c, t, v)
  PROVE  TypeOK'
<1>1. asked \in Asks BY DEF TypeOK, Asks
<1>2. Handed(c, t, v) BY <1>1, HandOverHanded
<1>3. calls' \in [Slots -> CallType] BY <1>2, CallTypes DEF Handed, TypeOK, Kinds
<1> QED BY <1>2, <1>3 DEF Handed, TypeOK, server, Asks

LEMMA SignedInStore ==
  ASSUME NEW flag \in BOOLEAN, store \in Store
  PROVE  /\ SignedIn(flag) \in Store
         /\ SignedIn(flag).user.received /\ SignedIn(flag).login.received
         /\ ~SignedIn(flag).user.fetching /\ ~SignedIn(flag).user.error
         /\ SignedIn(flag).regs = store.regs
BY DEF SignedIn, Store, GotUser, NoUser

LEMMA TypesSignIn == TypeOK /\ SignInNext => TypeOK'
<1> SUFFICES ASSUME TypeOK, SignInNext PROVE TypeOK'
  OBVIOUS
<1>0. /\ asked \in Asks /\ store \in Store /\ view \in View /\ calls \in [Slots -> CallType]
      /\ stale \in BOOLEAN /\ MaxAsked \in Nat
  BY ConstantsAssumption DEF TypeOK, Asks
<1>1. CASE SwitchForm
  <2>1. [view EXCEPT !.isRegister = ~@] \in View BY <1>0 DEF View
  <2> QED BY <1>0, <1>1, <2>1, ShowsShown DEF SwitchForm, Shown, TypeOK, server, Asks
<1>2. CASE GoToDashboard
  <2>1. ToDashboard(store) \in View BY AtInView DEF ToDashboard
  <2> QED BY <1>0, <1>2, <2>1, ShowsShown DEF GoToDashboard, Shown, TypeOK, server, Asks
<1>3. CASE Back
  BY <1>0, <1>3, AtInView, ShowsShown DEF Back, Shown, TypeOK, server, Asks
<1>4. ASSUME NEW owner \in {"sign", "signGone"}, SignGivenUp(owner) PROVE TypeOK'
  <2>1. SignStage("retry") \in View BY <1>0 DEF SignStage, View, Dialog
  <2>2. [asked EXCEPT ![owner] = @ - 1] \in Asks BY <1>0, <1>4 DEF Asks, AskKinds, SignGivenUp
  <2> QED BY <1>0, <1>4, <2>1, <2>2, ShowsShown DEF SignGivenUp, Shown, TypeOK, server, Asks
<1>5. ASSUME NEW c \in Slots, NEW d \in Slots, NEW right \in BOOLEAN, SubmitLogin(c, d, right)
      PROVE  TypeOK'
  <2> DEFINE t == [store EXCEPT !.login.fetching = TRUE]
             goes == t # store /\ t.login.received
             asks == goes /\ NeedsUser(t)
             call == [New("login") EXCEPT !.flag = right]
             v == IF goes THEN ToDashboard(t) ELSE view
  <2>1. t \in Store BY <1>0 DEF Store
  <2>2. (IF asks THEN Asking(t) ELSE t) \in Store BY <2>1, AskingInStore
  <2>3. v \in View BY <1>0, AtInView DEF ToDashboard
  <2>4. call \in CallType BY DEF New, CallType, Kinds
  <2>5. Shows(IF asks THEN Asking(t) ELSE t, v, asked) BY <1>5 DEF SubmitLogin
  <2>6. calls' \in [Slots -> CallType]
    BY <1>0, <1>5, <2>4, CallTypes DEF SubmitLogin, Send, Kinds
  <2>7. UNCHANGED <<server, stale>> BY <1>5 DEF SubmitLogin
  <2> HIDE DEF t, goes, asks, call, v
  <2>8. store' \in Store /\ view' \in View /\ asked' \in Asks
    BY <1>0, <2>2, <2>3, <2>5, ShowsShown DEF Shown
  <2> QED BY <1>0, <2>6, <2>7, <2>8 DEF TypeOK, server, Asks
<1>6. ASSUME NEW c \in Slots, Forward(c) PROVE TypeOK'
  <2>1. ToDashboard(store) \in View BY AtInView DEF ToDashboard
  <2>2. calls' \in [Slots -> CallType] BY <1>0, <1>6, CallTypes DEF Forward, Send, Kinds
  <2>3. store' \in Store /\ view' \in View /\ asked' \in Asks
    BY <1>0, <1>6, <2>1, AtInView, AskingInStore, ShowsShown DEF Shown, Forward
  <2> QED BY <1>0, <1>6, <2>2, <2>3 DEF Forward, TypeOK, server, Asks
<1>7. CASE SubmitSignup
  <2>1. [view EXCEPT !.loading = TRUE] \in View BY <1>0 DEF View
  <2>2. [asked EXCEPT !["keyPair"] = @ + 1] \in Asks
    BY <1>0, <1>7 DEF Asks, AskKinds, SubmitSignup
  <2> QED BY <1>0, <1>7, <2>1, <2>2, ShowsShown DEF SubmitSignup, Shown, TypeOK, server, Asks
<1>18. ASSUME NEW c \in Slots, KeyPairMade(c) PROVE TypeOK'
  <2>1. calls' \in [Slots -> CallType] BY <1>0, <1>18, CallTypes DEF KeyPairMade, Send, Kinds
  <2>2. asked' \in Asks BY <1>0, <1>18 DEF Asks, AskKinds, KeyPairMade
  <2> QED BY <1>0, <1>18, <2>1, <2>2 DEF KeyPairMade, TypeOK, server, Asks
<1>8. ASSUME NEW c \in Slots, Resend(c) \/ Logout(c) \/ FetchSign(c) PROVE TypeOK'
  <2>1. calls' \in [Slots -> CallType]
    BY <1>0, <1>8, CallTypes DEF Resend, Logout, FetchSign, Send, Kinds
  <2> QED BY <1>0, <1>8, <2>1 DEF Resend, Logout, FetchSign, TypeOK, server
<1>9. ASSUME NEW c \in Slots, NEW owner \in {"sign", "signGone"}, SignedTap(c, owner)
      PROVE  TypeOK'
  <2>1. calls' \in [Slots -> CallType] BY <1>0, <1>9, CallTypes DEF SignedTap, Send, Kinds
  <2>2. asked' \in Asks BY <1>0, <1>9 DEF Asks, AskKinds, SignedTap
  <2> QED BY <1>0, <1>9, <2>1, <2>2 DEF SignedTap, TypeOK, server, Asks
<1>10. ASSUME NEW c \in Slots, UserAnswered(c) PROVE TypeOK'
  <2>1. GotUser(calls[c].flag) \in [enforced : BOOLEAN, fetching : BOOLEAN, received : BOOLEAN,
                                   error : BOOLEAN, resent : BOOLEAN]
    BY <1>0 DEF GotUser, NoUser, CallType
  <2>2. /\ [store EXCEPT !.user = GotUser(calls[c].flag)] \in Store
        /\ [store EXCEPT !.user = [NoUser EXCEPT !.error = TRUE]] \in Store
    BY <1>0, <2>1 DEF Store, NoUser
  <2>3. PICK t \in Store : HandOver(c, t, view) /\ UNCHANGED <<server, stale>>
    BY <1>10, <2>2 DEF UserAnswered
  <2> QED BY <1>0, <2>3, HandedTypes
<1>11. ASSUME NEW c \in Slots, LoginAnswered(c) PROVE TypeOK'
  <2> DEFINE t == [store EXCEPT !.login = [NoLogin EXCEPT !.error = TRUE]]
  <2>1. t \in Store BY <1>0 DEF Store, NoLogin
  <2>2. SignedIn(calls[c].flag) \in Store BY <1>0, SignedInStore DEF CallType
  <2>3. [view EXCEPT !.dialog = TRUE] \in View BY <1>0 DEF View
  <2>4. UNCHANGED <<server, stale>> BY <1>11 DEF LoginAnswered
  <2> HIDE DEF t
  <2>5. CASE HandOver(c, SignedIn(calls[c].flag), view) \/ HandOver(c, t, view)
    BY <1>0, <2>1, <2>2, <2>4, <2>5, HandedTypes
  <2>6. CASE /\ calls' = [calls EXCEPT ![c] = New("signChallenge")]
             /\ Shows(t, [view EXCEPT !.dialog = TRUE], asked)
    <3>1. calls' \in [Slots -> CallType] BY <1>0, <2>6, CallTypes DEF Kinds
    <3> QED BY <1>0, <2>1, <2>3, <2>4, <2>6, <3>1, ShowsShown DEF Shown, TypeOK, server, Asks
  <2> QED BY <1>11, <2>5, <2>6 DEF LoginAnswered, t
<1>12. ASSUME NEW c \in Slots, SignupAnswered(c) PROVE TypeOK'
  <2> DEFINE t == [store EXCEPT !.signup = SignupState(calls[c].phase = "ok")]
             v == [view EXCEPT !.loading = @ /\ ~LoadingOver(store.signup, t.signup)]
  <2>1. t \in Store BY <1>0 DEF Store, SignupState
  <2>2. v \in View BY <1>0 DEF View, LoadingOver
  <2>3. Quietly(c) /\ Shows(t, v, asked) /\ UNCHANGED <<server, stale>>
    BY <1>12 DEF SignupAnswered
  <2> HIDE DEF t, v
  <2> QED BY <1>0, <2>1, <2>2, <2>3, ShownTypes, QuietlyTypes
<1>13. ASSUME NEW c \in Slots, ResendAnswered(c) PROVE TypeOK'
  <2>1. [store EXCEPT !.user.resent = TRUE] \in Store BY <1>0 DEF Store
  <2> QED BY <1>0, <1>13, <2>1, HandedTypes DEF ResendAnswered
<1>14. ASSUME NEW c \in Slots, LogoutAnswered(c) PROVE TypeOK'
  <2>1. Quietly(c) /\ UNCHANGED server BY <1>14 DEF LogoutAnswered
  <2>2. CASE UNCHANGED <<store, view, asked, stale>>
    BY <1>0, <2>1, <2>2, QuietlyTypes DEF TypeOK, server
  <2>3. CASE /\ Shows(LoggedOut, IF view.path \in Dashboard THEN At("home") ELSE view, asked)
             /\ stale' = (stale \/ InFlight({"getUser", "login", "signFinish", "require"}))
    <3>1. stale' \in BOOLEAN BY <1>0, <2>3 DEF TypeOK, InFlight
    <3>2. (IF view.path \in Dashboard THEN At("home") ELSE view) \in View BY <1>0, AtInView
    <3> QED BY <1>0, <2>1, <2>3, <3>1, <3>2, CallTypes, QuietlyTypes, ShownTypes DEF LoggedOut
  <2> QED BY <1>14, <2>2, <2>3 DEF LogoutAnswered
<1>15. ASSUME NEW c \in Slots, SignChallengeAnswered(c) PROVE TypeOK'
  <2>1. Quietly(c) /\ UNCHANGED <<server, stale>> BY <1>15 DEF SignChallengeAnswered
  <2>2. SignStage("retry") \in View /\ SignStage("tapRequired") \in View
    BY <1>0 DEF SignStage, View, Dialog
  <2>3. asked["sign"] < MaxAsked => [asked EXCEPT !["sign"] = @ + 1] \in Asks
    BY <1>0 DEF Asks, AskKinds
  <2>4. CASE UNCHANGED <<store, view, asked>>
    BY <1>0, <2>1, <2>4, QuietlyTypes DEF TypeOK, server
  <2> QED BY <1>0, <1>15, <2>1, <2>2, <2>3, <2>4, ShownTypes, QuietlyTypes
          DEF SignChallengeAnswered
<1>16. ASSUME NEW c \in Slots, SignFinishAnswered(c) PROVE TypeOK'
  <2>1. UNCHANGED <<server, stale>> BY <1>16 DEF SignFinishAnswered
  <2>2. SignStage("retry") \in View BY <1>0 DEF SignStage, View, Dialog
  <2>3. SignedIn(calls[c].flag) \in Store BY <1>0, SignedInStore DEF CallType
  <2> QED BY <1>0, <1>16, <2>1, <2>2, <2>3, ShownTypes, QuietlyTypes, HandedTypes
          DEF SignFinishAnswered
<1>17. ASSUME NEW c \in Slots,
              ServeUser(c) \/ ServeLogin(c) \/ ServeSignup(c) \/ ServeResend(c)
                \/ ServeLogout(c) \/ ServeSign(c)
       PROVE  TypeOK'
  <2>1. PICK phase \in {"ok", "refused"}, flag \in BOOLEAN : Reply(c, phase, flag)
    BY <1>17 DEF ServeUser, ServeLogin, ServeSignup, ServeResend, ServeLogout, ServeSign, TypeOK
  <2>2. calls' \in [Slots -> CallType] BY <1>0, <2>1 DEF Reply, CallType
  <2>3. /\ account' \in {"none", "new", "verified"} /\ session' \in {"none", "half", "read", "full"}
        /\ over' \in BOOLEAN
        /\ UNCHANGED <<enforced, devices, store, view, asked, stale>>
    BY <1>17 DEF ServeUser, ServeLogin, ServeSignup, ServeResend, ServeLogout, ServeSign, TypeOK,
                 server, SetSession
  <2> QED BY <2>2, <2>3 DEF TypeOK
<1> QED BY <1>1, <1>2, <1>3, <1>4, <1>5, <1>6, <1>7, <1>8, <1>9, <1>10, <1>11, <1>12,
           <1>13, <1>14, <1>15, <1>16, <1>17, <1>18 DEF SignInNext

LEMMA TypesRegistrations == TypeOK /\ RegistrationsNext => TypeOK'
<1> SUFFICES ASSUME TypeOK, RegistrationsNext PROVE TypeOK'
  OBVIOUS
<1>0. /\ asked \in Asks /\ store \in Store /\ view \in View /\ calls \in [Slots -> CallType]
      /\ stale \in BOOLEAN /\ MaxAsked \in Nat
  BY ConstantsAssumption DEF TypeOK, Asks
<1>1. CASE ToVault
  BY <1>0, <1>1, AtInView, ShowsShown DEF ToVault, Shown, TypeOK, server, Asks
<1>2. ASSUME NEW owner \in {"register", "registerGone"}, RegisterGivenUp(owner) PROVE TypeOK'
  <2>1. RegisterStage("retry") \in View BY <1>0 DEF RegisterStage, View, Dialog
  <2>2. [asked EXCEPT ![owner] = @ - 1] \in Asks
    BY <1>0, <1>2 DEF Asks, AskKinds, RegisterGivenUp
  <2> QED BY <1>0, <1>2, <2>1, <2>2, ShowsShown DEF RegisterGivenUp, Shown, TypeOK, server, Asks
<1>3. ASSUME NEW c \in Slots, ToAccount(c) PROVE TypeOK'
  <2> DEFINE v == Render([At("account") EXCEPT !.toggle = store.user.enforced], store)
  <2>1. [At("account") EXCEPT !.toggle = store.user.enforced] \in View
    BY <1>0 DEF At, View, Dialog, Store
  <2>2. v \in View BY <1>0, <2>1, RenderInView
  <2>3. AskingRegs(store) \in Store BY <1>0 DEF AskingRegs, Store, NoRegs
  <2>4. UNCHANGED <<server, stale>> BY <1>3 DEF ToAccount
  <2>5. calls' \in [Slots -> CallType] BY <1>0, <1>3, CallTypes DEF ToAccount, Send, Kinds
  <2>6. Shows(AskingRegs(store), v, asked) \/ Shows(store, v, asked) BY <1>3 DEF ToAccount
  <2> HIDE DEF v
  <2> QED BY <1>0, <2>2, <2>3, <2>4, <2>5, <2>6, ShownTypes
<1>4. ASSUME NEW c \in Slots, Toggle(c) PROVE TypeOK'
  <2>1. [view EXCEPT !.toggle = ~@] \in View BY <1>0 DEF View
  <2>2. [New("require") EXCEPT !.flag = ~view.toggle] \in CallType
    BY <1>0 DEF New, Kinds, CallType, View
  <2>3. calls' \in [Slots -> CallType] BY <1>0, <1>4, <2>2 DEF Toggle, Send
  <2>4. Shows(store, [view EXCEPT !.toggle = ~@], asked) /\ UNCHANGED <<server, stale>>
    BY <1>4 DEF Toggle
  <2> QED BY <1>0, <2>1, <2>3, <2>4, ShownTypes
<1>5. ASSUME NEW c \in Slots, NEW d \in Devices, DeleteU2f(c, d) PROVE TypeOK'
  <2>1. [New("delReg") EXCEPT !.devices = {d}] \in CallType BY DEF New, Kinds, CallType
  <2>2. calls' \in [Slots -> CallType] BY <1>0, <1>5, <2>1 DEF DeleteU2f, Send
  <2> QED BY <1>5, <2>2 DEF DeleteU2f, TypeOK, server
<1>6. ASSUME NEW c \in Slots, BeginRegister(c) PROVE TypeOK'
  <2>1. calls' \in [Slots -> CallType] BY <1>0, <1>6, CallTypes DEF BeginRegister, Send, Kinds
  <2> QED BY <1>6, <2>1 DEF BeginRegister, TypeOK, server
<1>7. ASSUME NEW c \in Slots, NEW owner \in {"register", "registerGone"}, NEW d \in Devices,
             RegisteredTap(c, owner, d)
      PROVE  TypeOK'
  <2>1. [New("regFinish") EXCEPT !.devices = {d}] \in CallType BY DEF New, Kinds, CallType
  <2>2. calls' \in [Slots -> CallType] BY <1>0, <1>7, <2>1 DEF RegisteredTap, Send
  <2>3. asked' \in Asks BY <1>0, <1>7 DEF Asks, AskKinds, RegisteredTap
  <2> QED BY <1>7, <2>2, <2>3 DEF RegisteredTap, TypeOK, server, Asks
<1>8. FailedRegs(store) \in Store BY <1>0 DEF FailedRegs, Store, NoRegs
<1>9. ASSUME NEW c \in Slots, RegsAnswered(c) PROVE TypeOK'
  <2>1. [store EXCEPT !.regs = [NoRegs EXCEPT !.list = calls[c].devices, !.received = TRUE]]
          \in Store
    BY <1>0 DEF Store, NoRegs, CallType
  <2> QED BY <1>0, <1>8, <1>9, <2>1, ShownTypes, QuietlyTypes DEF RegsAnswered
<1>10. ASSUME NEW c \in Slots, DeleteAnswered(c) PROVE TypeOK'
  <2>1. [store EXCEPT !.regs.list = @ \ calls[c].devices] \in Store BY <1>0 DEF Store
  <2>2. Outdated(c) \in BOOLEAN BY <1>0 DEF Outdated
  <2> QED BY <1>0, <1>8, <1>10, <2>1, <2>2, ShownTypes, QuietlyTypes DEF DeleteAnswered
<1>11. ASSUME NEW c \in Slots, RequireAnswered(c) PROVE TypeOK'
  <2>1. [store EXCEPT !.user = [NoUser EXCEPT !.enforced = calls[c].flag, !.received = TRUE]]
          \in Store
    BY <1>0 DEF Store, NoUser, CallType
  <2>2. CASE Quietly(c) /\ UNCHANGED <<store, view, asked, server, stale>>
    BY <2>2, QuietlyTypes DEF TypeOK, server
  <2> QED BY <1>0, <1>11, <2>1, <2>2, HandedTypes DEF RequireAnswered
<1>12. RegisterStage("retry") \in View /\ RegisterStage("notStarted") \in View
         /\ RegisterStage("tapRequired") \in View
  BY <1>0 DEF RegisterStage, View, Dialog
<1>13. ASSUME NEW c \in Slots, RegisterChallengeAnswered(c) PROVE TypeOK'
  <2>1. Quietly(c) /\ UNCHANGED <<server, stale>> BY <1>13 DEF RegisterChallengeAnswered
  <2>2. asked["register"] < MaxAsked => [asked EXCEPT !["register"] = @ + 1] \in Asks
    BY <1>0 DEF Asks, AskKinds
  <2>3. CASE UNCHANGED <<store, view, asked>>
    BY <2>1, <2>3, QuietlyTypes DEF TypeOK, server
  <2> QED BY <1>0, <1>12, <1>13, <2>1, <2>2, <2>3, ShownTypes, QuietlyTypes
          DEF RegisterChallengeAnswered
<1>14. ASSUME NEW c \in Slots, RegisterFinishAnswered(c) PROVE TypeOK'
  <2> DEFINE t == WithDevice(store, calls[c].devices)
             v == RegisterStage("notStarted")
  <2>1. t \in Store BY <1>0 DEF WithDevice, Store, CallType
  <2>2. stale' \in BOOLEAN /\ UNCHANGED server
    BY <1>0, <1>14 DEF RegisterFinishAnswered, Outdated
  <2>3. \/ Quietly(c) /\ UNCHANGED <<store, view, asked>>
        \/ Quietly(c) /\ Shows(t, v, asked)
        \/ HandOver(c, t, v)
        \/ Quietly(c) /\ Shows(store, RegisterStage("retry"), asked)
    BY <1>14 DEF RegisterFinishAnswered
  <2> HIDE DEF t, v
  <2>4. v \in View BY <1>12 DEF v
  <2>5. CASE Quietly(c) /\ UNCHANGED <<store, view, asked>>
    BY <2>2, <2>5, QuietlyTypes DEF TypeOK, server
  <2>6. CASE HandOver(c, t, v) BY <1>0, <2>1, <2>2, <2>4, <2>6, HandedTypes
  <2> QED BY <1>0, <1>12, <2>1, <2>2, <2>3, <2>4, <2>5, <2>6, ShownTypes, QuietlyTypes
<1>15. ASSUME NEW c \in Slots, ServeRegs(c) \/ ServeRegisterChallenge(c) \/ ServeChange(c)
       PROVE  TypeOK'
  <2>1. calls' \in [Slots -> CallType]
    BY <1>0, <1>15 DEF ServeRegs, ServeRegisterChallenge, ServeChange, Reply, CallType, TypeOK
  <2>2. devices' \subseteq Devices
    BY <1>0, <1>15
       DEF ServeRegs, ServeRegisterChallenge, ServeChange, CallType, TypeOK, server
  <2>3. enforced' \in BOOLEAN
    BY <1>0, <1>15
       DEF ServeRegs, ServeRegisterChallenge, ServeChange, CallType, TypeOK, server
  <2>4. UNCHANGED <<account, session, over, store, view, asked, stale>>
    BY <1>15 DEF ServeRegs, ServeRegisterChallenge, ServeChange, server
  <2> QED BY <2>1, <2>2, <2>3, <2>4 DEF TypeOK
<1> QED BY <1>1, <1>2, <1>3, <1>4, <1>5, <1>6, <1>7, <1>9, <1>10, <1>11, <1>13, <1>14, <1>15
        DEF RegistrationsNext

(* Whatever is answered, refused or lost and whichever buttons are used,   *)
(* the store, the route and the components of the page, its calls and      *)
(* those of the U2F API stay in their types (reducers, components/Login,   *)
(* components/U2F).                                                        *)
THEOREM TypeCorrect == Spec => []TypeOK
<1>1. Init => TypeOK
  <2> SUFFICES ASSUME Init PROVE TypeOK
    OBVIOUS
  <2>1. calls \in [Slots -> CallType] /\ store \in Store /\ view \in View
    BY CallTypes, AtInView DEF Init
  <2>2. asked \in [AskKinds -> 0..MaxAsked] BY ConstantsAssumption DEF Init
  <2> QED BY <2>1, <2>2 DEF Init, TypeOK
<1>2. ASSUME TypeOK, [Next]_vars PROVE TypeOK'
  <2>0. asked \in Asks /\ store \in Store /\ view \in View /\ calls \in [Slots -> CallType]
    BY <1>2 DEF TypeOK, Asks
  <2>1. ASSUME NEW c \in Slots, Lose(c) PROVE TypeOK'
    <3>1. calls' \in [Slots -> CallType] BY <2>0, <2>1 DEF Lose, Reply, CallType
    <3> QED BY <1>2, <2>1, <3>1 DEF Lose, TypeOK, server
  <2>2. ASSUME NEW c \in Slots, NEW d \in Slots, NEW path \in {"home", "vault", "account"},
               Load(c, d, path)
        PROVE  TypeOK'
    <3>1. calls' \in [Slots -> CallType] BY <2>0, <2>2, CallTypes DEF Load, Kinds
    <3>2. store' \in Store
      <4>1. AskingRegs(EmptyStore) \in Store BY CallTypes DEF AskingRegs, Store, NoRegs
      <4> QED BY <2>2, <4>1, CallTypes, AskingInStore DEF Load
    <3>3. view' \in View BY <2>2, AtInView DEF Load
    <3>4. asked' \in Asks BY <2>2, ConstantsAssumption DEF Load, Asks
    <3>6. stale' \in BOOLEAN BY <2>2 DEF Load
    <3>5. /\ account' \in {"none", "new", "verified"}
          /\ session' \in {"none", "half", "read", "full"} /\ over' \in BOOLEAN
          /\ enforced' \in BOOLEAN /\ devices' \subseteq Devices
      BY <1>2, <2>2 DEF Load, TypeOK, server, SetSession
    <3> QED BY <3>1, <3>2, <3>3, <3>4, <3>5, <3>6 DEF TypeOK, Asks
  <2>3. CASE UNCHANGED vars BY <1>2, <2>3 DEF vars, TypeOK, server
  <2>4. CASE Expire BY <1>2, <2>4 DEF Expire, TypeOK
  <2> QED BY <1>2, <2>1, <2>2, <2>3, <2>4, TypesSignIn, TypesRegistrations DEF Next
<1> QED BY <1>1, <1>2, PTL DEF Spec
-----------------------------------------------------------------------------
(* The fetch of the user.  A dashboard has the user or a call that fetches *)
(* it; a store that is marked as fetching has such a call; and, unless a   *)
(* logout overtook a call, there is one such call at most, and it is       *)
(* marked or has been forestalled by a login.                              *)
UserFetch ==
  /\ DashboardHasUser
  /\ store.user.fetching => InFlight({"getUser"})
  /\ ~stale =>
       /\ \A c, d \in Slots : calls[c].kind = "getUser" /\ calls[d].kind = "getUser" => c = d
       /\ InFlight({"getUser"}) => store.user.fetching \/ store.user.received

(* Steps that leave this alone.                                            *)
LEMMA SameUser ==
  ASSUME UserFetch, stale => stale',
         \A e \in Slots : (calls'[e].kind = "getUser") <=> (calls[e].kind = "getUser"),
         store'.user.received <=> store.user.received,
         store'.user.fetching <=> store.user.fetching,
         view'.path \in Dashboard => view.path \in Dashboard \/ store.user.received
  PROVE  UserFetch'
BY DEF UserFetch, DashboardHasUser, InFlight

(* Steps that hand a login or a user over to the components.               *)
LEMMA HandedUser ==
  ASSUME TypeOK, UserFetch, stale => stale', NEW c \in Slots, NEW t \in Store,
         NEW v \in View, v.path = view.path, HandOver(c, t, v),
         t.user.fetching => \E e \in Slots \ {c} : calls[e].kind = "getUser",
         view.path \in Dashboard /\ ~t.user.error =>
           t.user.received \/ \E e \in Slots \ {c} : calls[e].kind = "getUser",
         ~stale => \A e \in Slots \ {c} :
                     calls[e].kind = "getUser" => t.user.fetching \/ t.user.received
  PROVE  UserFetch'
<1> DEFINE asks == v.path = "home" /\ t.login.received /\ NeedsUser(t)
<1>1. Handed(c, t, v) BY HandOverHanded DEF TypeOK, Asks
<1>2. /\ calls' = [calls EXCEPT ![c] = IF asks THEN New("getUser") ELSE Free]
      /\ store' = IF asks THEN Asking(t) ELSE t
      /\ view'.path \in Dashboard =>
           ~t.user.error /\ (view.path \in Dashboard \/ (v.path = "home" /\ t.login.received))
  BY <1>1 DEF Handed
<1>3. /\ \A e \in Slots : e # c => calls'[e] = calls[e]
      /\ calls'[c].kind = IF asks THEN "getUser" ELSE "none"
  BY <1>2, CallTypes DEF TypeOK, Kinds
<1>4. CASE asks
  <2>1. store'.user.fetching /\ ~t.user.received /\ ~t.user.fetching
        /\ store'.user.received = t.user.received
    BY <1>2, <1>4, AskingInStore DEF NeedsUser
  <2>2. ~stale => \A e \in Slots \ {c} : calls[e].kind # "getUser" BY <2>1
  <2> QED BY <1>3, <1>4, <2>1, <2>2 DEF UserFetch, DashboardHasUser, InFlight
<1>5. CASE ~asks
  <2>1. store' = t /\ calls'[c].kind = "none" BY <1>2, <1>3, <1>5
  <2>2. view'.path \in Dashboard => t.user.received \/ InFlight({"getUser"})'
    <3>1. CASE view.path \in Dashboard BY <1>2, <1>3, <3>1 DEF InFlight
    <3>2. CASE v.path = "home" /\ t.login.received
      BY <1>3, <1>5, <3>2 DEF NeedsUser, InFlight
    <3> QED BY <1>2, <3>1, <3>2
  <2>3. t.user.fetching => InFlight({"getUser"})' BY <1>3 DEF InFlight
  <2>4. \A e \in Slots : calls'[e].kind = "getUser" => e # c /\ calls[e].kind = "getUser"
    BY <1>3, <2>1
  <2> QED BY <2>1, <2>2, <2>3, <2>4 DEF UserFetch, DashboardHasUser, InFlight
<1> QED BY <1>4, <1>5

LEMMA UserSignIn == TypeOK /\ UserFetch /\ SignInNext => UserFetch'
<1> SUFFICES ASSUME TypeOK, UserFetch, SignInNext PROVE UserFetch'
  OBVIOUS
<1>0. /\ asked \in Asks /\ store \in Store /\ view \in View /\ calls \in [Slots -> CallType]
      /\ store.user.received \in BOOLEAN /\ store.user.fetching \in BOOLEAN
  BY DEF TypeOK, Asks, Store
<1>1. ASSUME NEW v \in View, NEW a \in Asks, Shows(store, v, a), stale' = stale,
             \A e \in Slots : (calls'[e].kind = "getUser") <=> (calls[e].kind = "getUser"),
             v.path \in Dashboard => view.path \in Dashboard \/ store.user.received
      PROVE  UserFetch'
  BY <1>0, <1>1, ShowsShown, SameUser DEF Shown, Dashboard
<1>2. CASE SwitchForm
  <2>1. [view EXCEPT !.isRegister = ~@] \in View
        /\ [view EXCEPT !.isRegister = ~@].path = view.path
    BY <1>0 DEF View
  <2> QED BY <1>0, <1>1, <1>2, <2>1 DEF SwitchForm
<1>3. CASE GoToDashboard
  <2>1. ToDashboard(store) \in View BY AtInView DEF ToDashboard
  <2> QED BY <1>0, <1>1, <1>3, <2>1 DEF GoToDashboard
<1>4. CASE Back BY <1>0, <1>1, <1>4, AtInView DEF Back, Dashboard
<1>5. \A stage \in Dialog : SignStage(stage) \in View /\ SignStage(stage).path = view.path
  BY <1>0 DEF SignStage, View
<1>6. ASSUME NEW owner \in {"sign", "signGone"}, SignGivenUp(owner) PROVE UserFetch'
  <2>1. [asked EXCEPT ![owner] = @ - 1] \in Asks
    BY <1>0, <1>6, ConstantsAssumption DEF Asks, AskKinds, SignGivenUp
  <2> QED BY <1>0, <1>1, <1>5, <1>6, <2>1 DEF SignGivenUp, Dialog
<1>7. ASSUME NEW c \in Slots, NEW d \in Slots, NEW right \in BOOLEAN, SubmitLogin(c, d, right)
      PROVE  UserFetch'
  <2> DEFINE t == [store EXCEPT !.login.fetching = TRUE]
             goes == t # store /\ t.login.received
             asks == goes /\ NeedsUser(t)
             v == IF goes THEN ToDashboard(t) ELSE view
  <2>1. t \in Store /\ t.user = store.user BY <1>0 DEF Store
  <2>2. v \in View BY <1>0, AtInView DEF ToDashboard
  <2>3. Shows(IF asks THEN Asking(t) ELSE t, v, asked) /\ stale' = stale
    BY <1>7 DEF SubmitLogin
  <2>4. view.path = "home" /\ calls[c] = Free
    BY <1>7 DEF SubmitLogin, LoginShown, FormsShown
  <2>5. IF asks THEN /\ d # c /\ calls[d] = Free /\ calls'[d].kind = "getUser"
                     /\ \A e \in Slots : e # d =>
                          ((calls'[e].kind = "getUser") <=> (calls[e].kind = "getUser"))
                ELSE \A e \in Slots : (calls'[e].kind = "getUser") <=> (calls[e].kind = "getUser")
    <3>1. [New("login") EXCEPT !.flag = right].kind = "login" BY DEF New
    <3>2. calls[c].kind = "none" BY <2>4, CallTypes
    <3> DEFINE call == [New("login") EXCEPT !.flag = right]
    <3>3. IF asks THEN /\ d # c /\ calls[d] = Free
                       /\ calls' = [calls EXCEPT ![c] = call, ![d] = New("getUser")]
                  ELSE calls' = [calls EXCEPT ![c] = call]
      BY <1>7 DEF SubmitLogin, Send
    <3> HIDE DEF asks, call
    <3>4. New("getUser").kind = "getUser" BY CallTypes DEF Kinds
    <3>5. call.kind = "login" BY <3>1 DEF call
    <3> QED BY <1>0, <3>2, <3>3, <3>4, <3>5
  <2> HIDE DEF t, v
  <2>6. /\ store' = (IF asks THEN Asking(t) ELSE t) /\ view'.path \in {v.path, "none"}
    BY <1>0, <2>1, <2>2, <2>3, AskingInStore, ShowsShown DEF Shown
  <2>7. CASE asks
    <3>1. /\ store'.user.fetching /\ store'.user.received = store.user.received
          /\ ~store.user.received /\ ~store.user.fetching
      BY <2>1, <2>6, <2>7, AskingInStore DEF NeedsUser
    <3>2. calls[d].kind = "none" BY <2>5, <2>7, CallTypes
    <3> QED BY <2>3, <2>5, <2>7, <3>1, <3>2 DEF UserFetch, DashboardHasUser, InFlight
  <2>8. CASE ~asks
    <3>1. store'.user = store.user BY <2>1, <2>6, <2>8
    <3>2. view'.path \in Dashboard => store.user.received \/ store.user.fetching
      BY <2>1, <2>4, <2>6, <2>8 DEF v, NeedsUser, Dashboard
    <3> QED BY <2>3, <2>5, <2>8, <3>1, <3>2 DEF UserFetch, DashboardHasUser, InFlight
  <2> QED BY <2>7, <2>8
<1>8. ASSUME NEW c \in Slots, Forward(c) PROVE UserFetch'
  <2>1. ToDashboard(store) \in View BY AtInView DEF ToDashboard
  <2>2. stale' = stale BY <1>8 DEF Forward
  <2>3. CASE NeedsUser(store)
    <3>1. store' = Asking(store)
      BY <1>0, <1>8, <2>1, <2>3, AskingInStore, ShowsShown DEF Forward, Shown
    <3>2. /\ store'.user.fetching /\ store'.user.received = store.user.received
          /\ ~store.user.received /\ ~store.user.fetching
      BY <1>0, <2>3, <3>1, AskingInStore DEF NeedsUser
    <3>3. /\ calls[c].kind = "none" /\ calls'[c].kind = "getUser"
          /\ \A e \in Slots : e # c => calls'[e] = calls[e]
      BY <1>0, <1>8, <2>3, CallTypes DEF Forward, Send, Kinds
    <3> QED BY <2>2, <3>2, <3>3 DEF UserFetch, DashboardHasUser, InFlight
  <2>4. CASE ~NeedsUser(store)
    <3>1. store' = store /\ calls' = calls
      BY <1>0, <1>8, <2>4, AtInView, ShowsShown DEF Forward, Shown
    <3> QED BY <2>2, <2>4, <3>1 DEF UserFetch, DashboardHasUser, InFlight, NeedsUser
  <2> QED BY <2>3, <2>4
<1>9. ASSUME NEW c \in Slots,
             \/ KeyPairMade(c) \/ Resend(c) \/ Logout(c) \/ FetchSign(c)
             \/ \E owner \in {"sign", "signGone"} : SignedTap(c, owner)
      PROVE  UserFetch'
  <2>1. PICK k \in Kinds \ {"getUser"} : Send(c, New(k)) /\ stale' = stale
    BY <1>9 DEF KeyPairMade, Resend, Logout, FetchSign, SignedTap, Kinds
  <2>2. \A e \in Slots : (calls'[e].kind = "getUser") <=> (calls[e].kind = "getUser")
    BY <1>0, <2>1, CallTypes DEF Send
  <2>3. store' = store /\ view' = view
    BY <1>9 DEF KeyPairMade, Resend, Logout, FetchSign, SignedTap
  <2> QED BY <2>1, <2>2, <2>3, SameUser
<1>20. CASE SubmitSignup
  <2>1. [view EXCEPT !.loading = TRUE] \in View
        /\ [view EXCEPT !.loading = TRUE].path = view.path
    BY <1>0 DEF View
  <2>2. [asked EXCEPT !["keyPair"] = @ + 1] \in Asks
    BY <1>0, <1>20, ConstantsAssumption DEF Asks, AskKinds, SubmitSignup
  <2> QED BY <1>0, <1>1, <1>20, <2>1, <2>2 DEF SubmitSignup
<1>10. ASSUME NEW c \in Slots, UserAnswered(c) PROVE UserFetch'
  <2>1. /\ calls[c].kind = "getUser" /\ calls[c].flag \in BOOLEAN /\ stale' = stale
    BY <1>0, <1>10 DEF UserAnswered, Arrives, CallType
  <2>2. PICK u \in {GotUser(calls[c].flag), [NoUser EXCEPT !.error = TRUE]} :
          HandOver(c, [store EXCEPT !.user = u], view)
    BY <1>10 DEF UserAnswered
  <2>3. /\ u \in [enforced : BOOLEAN, fetching : BOOLEAN, received : BOOLEAN,
                  error : BOOLEAN, resent : BOOLEAN]
        /\ ~u.fetching /\ (u.received \/ u.error)
    BY <2>1 DEF GotUser, NoUser
  <2>4. [store EXCEPT !.user = u] \in Store /\ [store EXCEPT !.user = u].user = u
    BY <1>0, <2>3 DEF Store
  <2>5. ~stale => \A e \in Slots \ {c} : calls[e].kind # "getUser" BY <2>1 DEF UserFetch
  <2> QED BY <1>0, <2>1, <2>2, <2>3, <2>4, <2>5, HandedUser
<1>11. /\ store.user.fetching => InFlight({"getUser"})
       /\ ~stale => (InFlight({"getUser"}) => store.user.fetching \/ store.user.received)
       /\ view.path \in Dashboard => store.user.received \/ InFlight({"getUser"})
  BY DEF UserFetch, DashboardHasUser
<1>12. ASSUME NEW c \in Slots, LoginAnswered(c) PROVE UserFetch'
  <2> DEFINE t == [store EXCEPT !.login = [NoLogin EXCEPT !.error = TRUE]]
  <2>1. t \in Store /\ t.user = store.user BY <1>0 DEF Store, NoLogin
  <2>2. calls[c].flag \in BOOLEAN /\ calls[c].kind = "login" /\ stale' = stale
    BY <1>0, <1>12 DEF LoginAnswered, Arrives, CallType
  <2>3. [view EXCEPT !.dialog = TRUE] \in View /\ [view EXCEPT !.dialog = TRUE].path = view.path
    BY <1>0 DEF View
  <2> HIDE DEF t
  <2>4. CASE HandOver(c, SignedIn(calls[c].flag), view)
    BY <1>0, <2>2, <2>4, SignedInStore, HandedUser
  <2>5. CASE HandOver(c, t, view)
    BY <1>0, <1>11, <2>1, <2>2, <2>5, HandedUser DEF InFlight
  <2>6. CASE /\ calls' = [calls EXCEPT ![c] = New("signChallenge")]
             /\ Shows(t, [view EXCEPT !.dialog = TRUE], asked)
    <3>1. \A e \in Slots : (calls'[e].kind = "getUser") <=> (calls[e].kind = "getUser")
      BY <1>0, <2>2, <2>6, CallTypes DEF Kinds
    <3>2. store'.user = store.user /\ view'.path \in {view.path, "none"}
      BY <1>0, <2>1, <2>3, <2>6, ShowsShown DEF Shown
    <3> QED BY <2>2, <3>1, <3>2, SameUser DEF Dashboard
  <2> QED BY <1>12, <2>4, <2>5, <2>6 DEF LoginAnswered, t
<1>13. ASSUME NEW c \in Slots, calls[c].kind # "getUser", Quietly(c)
       PROVE  \A e \in Slots : (calls'[e].kind = "getUser") <=> (calls[e].kind = "getUser")
  BY <1>0, <1>13, CallTypes DEF Quietly
<1>14. ASSUME NEW c \in Slots, SignupAnswered(c) PROVE UserFetch'
  <2> DEFINE t == [store EXCEPT !.signup = SignupState(calls[c].phase = "ok")]
             v == [view EXCEPT !.loading = @ /\ ~LoadingOver(store.signup, t.signup)]
  <2>1. t \in Store /\ t.user = store.user BY <1>0 DEF Store, SignupState
  <2>2. v \in View /\ v.path = view.path BY <1>0 DEF View, LoadingOver
  <2>3. Quietly(c) /\ Shows(t, v, asked) /\ stale' = stale /\ calls[c].kind = "signup"
    BY <1>14 DEF SignupAnswered
  <2> HIDE DEF t, v
  <2>4. store'.user = store.user /\ view'.path \in {view.path, "none"}
    BY <1>0, <2>1, <2>2, <2>3, ShowsShown DEF Shown
  <2> QED BY <1>13, <2>3, <2>4, SameUser DEF Dashboard
<1>15. ASSUME NEW c \in Slots, ResendAnswered(c) PROVE UserFetch'
  <2> DEFINE t == [store EXCEPT !.user.resent = TRUE]
  <2>1. /\ t \in Store /\ t.user.received = store.user.received
        /\ t.user.fetching = store.user.fetching
    BY <1>0 DEF Store
  <2>2. calls[c].kind = "resend" /\ HandOver(c, t, view) /\ stale' = stale
    BY <1>15 DEF ResendAnswered
  <2> HIDE DEF t
  <2> QED BY <1>0, <1>11, <2>1, <2>2, HandedUser DEF InFlight
<1>16. ASSUME NEW c \in Slots, LogoutAnswered(c) PROVE UserFetch'
  <2>1. Quietly(c) /\ calls[c].kind = "logout" BY <1>16 DEF LogoutAnswered, Arrives
  <2>2. CASE UNCHANGED <<store, view, asked, stale>> BY <1>13, <2>1, <2>2, SameUser
  <2>3. CASE /\ Shows(LoggedOut, IF view.path \in Dashboard THEN At("home") ELSE view, asked)
             /\ stale' = (stale \/ InFlight({"getUser", "login", "signFinish", "require"}))
    <3> DEFINE v == IF view.path \in Dashboard THEN At("home") ELSE view
    <3>1. v \in View /\ v.path \notin Dashboard BY <1>0, AtInView DEF Dashboard
    <3> HIDE DEF v
    <3>2. store' = EmptyStore /\ view'.path \notin Dashboard
      BY <1>0, <2>3, <3>1, CallTypes, ShowsShown DEF Shown, LoggedOut, v, Dashboard
    <3>3. ~EmptyStore.user.fetching BY DEF EmptyStore, NoUser
    <3>4. ~stale' => ~InFlight({"getUser"}) BY <2>3 DEF InFlight
    <3>5. ~stale' => ~InFlight({"getUser"})' BY <1>13, <2>1, <3>4 DEF InFlight
    <3> QED BY <3>2, <3>3, <3>5 DEF UserFetch, DashboardHasUser, InFlight
  <2> QED BY <1>16, <2>2, <2>3 DEF LogoutAnswered
<1>17. ASSUME NEW c \in Slots, SignChallengeAnswered(c) PROVE UserFetch'
  <2>1. Quietly(c) /\ stale' = stale /\ calls[c].kind = "signChallenge"
    BY <1>17 DEF SignChallengeAnswered, Arrives
  <2>2. asked["sign"] < MaxAsked => [asked EXCEPT !["sign"] = @ + 1] \in Asks
    BY <1>0, ConstantsAssumption DEF Asks, AskKinds
  <2>3. CASE UNCHANGED <<store, view, asked>> BY <1>13, <2>1, <2>3, SameUser
  <2>4. \A e \in Slots : (calls'[e].kind = "getUser") <=> (calls[e].kind = "getUser")
    BY <1>13, <2>1
  <2> QED BY <1>0, <1>1, <1>5, <1>17, <2>1, <2>2, <2>3, <2>4 DEF SignChallengeAnswered, Dialog
<1>18. ASSUME NEW c \in Slots, SignFinishAnswered(c) PROVE UserFetch'
  <2>1. stale' = stale /\ calls[c].kind = "signFinish" /\ calls[c].flag \in BOOLEAN
    BY <1>0, <1>18 DEF SignFinishAnswered, Arrives, CallType
  <2>2. CASE HandOver(c, SignedIn(calls[c].flag), view)
    BY <1>0, <2>1, <2>2, SignedInStore, HandedUser
  <2>3. CASE Quietly(c) /\ Shows(store, SignStage("retry"), asked)
    BY <1>0, <1>1, <1>5, <1>13, <2>1, <2>3 DEF Dialog
  <2> QED BY <1>18, <2>2, <2>3 DEF SignFinishAnswered
<1>19. ASSUME NEW c \in Slots,
              ServeUser(c) \/ ServeLogin(c) \/ ServeSignup(c) \/ ServeResend(c)
                \/ ServeLogout(c) \/ ServeSign(c)
       PROVE  UserFetch'
  <2>1. PICK phase, flag : Reply(c, phase, flag)
    BY <1>19 DEF ServeUser, ServeLogin, ServeSignup, ServeResend, ServeLogout, ServeSign
  <2>2. \A e \in Slots : calls'[e].kind = calls[e].kind BY <1>0, <2>1 DEF Reply, CallType
  <2>3. UNCHANGED <<store, view, stale>>
    BY <1>19 DEF ServeUser, ServeLogin, ServeSignup, ServeResend, ServeLogout, ServeSign
  <2> QED BY <2>2, <2>3, SameUser
<1> QED BY <1>2, <1>3, <1>4, <1>6, <1>7, <1>8, <1>9, <1>10, <1>12, <1>14, <1>15, <1>16, <1>17,
           <1>18, <1>19, <1>20 DEF SignInNext

LEMMA UserRegistrations == TypeOK /\ UserFetch /\ RegistrationsNext => UserFetch'
<1> SUFFICES ASSUME TypeOK, UserFetch, RegistrationsNext PROVE UserFetch'
  OBVIOUS
<1>0. /\ asked \in Asks /\ store \in Store /\ view \in View /\ calls \in [Slots -> CallType]
      /\ store.user.received \in BOOLEAN /\ store.user.fetching \in BOOLEAN
      /\ stale \in BOOLEAN
  BY DEF TypeOK, Asks, Store
<1>1. ASSUME NEW s \in Store, NEW v \in View, NEW a \in Asks, Shows(s, v, a), stale => stale',
             s.user.received = store.user.received, s.user.fetching = store.user.fetching,
             \A e \in Slots : (calls'[e].kind = "getUser") <=> (calls[e].kind = "getUser"),
             v.path \in Dashboard => view.path \in Dashboard
      PROVE  UserFetch'
  BY <1>0, <1>1, ShowsShown, SameUser DEF Shown, Dashboard
<1>2. CASE ToVault BY <1>0, <1>1, <1>2, AtInView DEF ToVault, Dashboard
<1>3. \A stage \in Dialog :
        RegisterStage(stage) \in View /\ RegisterStage(stage).path = view.path
  BY <1>0 DEF RegisterStage, View
<1>4. ASSUME NEW owner \in {"register", "registerGone"}, RegisterGivenUp(owner) PROVE UserFetch'
  <2>1. [asked EXCEPT ![owner] = @ - 1] \in Asks
    BY <1>0, <1>4, ConstantsAssumption DEF Asks, AskKinds, RegisterGivenUp
  <2> QED BY <1>0, <1>1, <1>3, <1>4, <2>1 DEF RegisterGivenUp, Dialog
<1>5. ASSUME NEW c \in Slots, NEW call \in CallType, call.kind # "getUser",
             Send(c, call) \/ UNCHANGED calls
      PROVE  \A e \in Slots : (calls'[e].kind = "getUser") <=> (calls[e].kind = "getUser")
  BY <1>0, <1>5, CallTypes DEF Send
<1>6. /\ \A k \in Kinds, b \in BOOLEAN :
           /\ [New(k) EXCEPT !.flag = b] \in CallType
           /\ [New(k) EXCEPT !.flag = b].kind = k
      /\ \A k \in Kinds, d \in Devices :
           /\ [New(k) EXCEPT !.devices = {d}] \in CallType
           /\ [New(k) EXCEPT !.devices = {d}].kind = k
  BY DEF New, CallType, Kinds
<1>7. ASSUME NEW c \in Slots, ToAccount(c) PROVE UserFetch'
  <2> DEFINE v == Render([At("account") EXCEPT !.toggle = store.user.enforced], store)
  <2>1. [At("account") EXCEPT !.toggle = store.user.enforced] \in View
    BY <1>0 DEF At, View, Dialog, Store
  <2>2. v \in View BY <1>0, <2>1, RenderInView
  <2>3. AskingRegs(store) \in Store /\ AskingRegs(store).user = store.user
    BY <1>0 DEF AskingRegs, Store, NoRegs
  <2>4. view.path = "vault" /\ stale' = stale BY <1>7 DEF ToAccount
  <2>5. (Send(c, New("getRegs")) /\ Shows(AskingRegs(store), v, asked))
          \/ (UNCHANGED calls /\ Shows(store, v, asked))
    BY <1>7 DEF ToAccount
  <2> HIDE DEF v
  <2>6. \A e \in Slots : (calls'[e].kind = "getUser") <=> (calls[e].kind = "getUser")
    BY <1>5, <2>5, CallTypes DEF Kinds
  <2> QED BY <1>0, <1>1, <2>2, <2>3, <2>4, <2>5, <2>6 DEF Dashboard
<1>8. ASSUME NEW c \in Slots, Toggle(c) PROVE UserFetch'
  <2>1. [view EXCEPT !.toggle = ~@] \in View /\ [view EXCEPT !.toggle = ~@].path = view.path
    BY <1>0 DEF View
  <2>2. Send(c, [New("require") EXCEPT !.flag = ~view.toggle]) \/ UNCHANGED calls
    BY <1>8 DEF Toggle
  <2>3. \A e \in Slots : (calls'[e].kind = "getUser") <=> (calls[e].kind = "getUser")
    <3>1. [New("require") EXCEPT !.flag = ~view.toggle] \in CallType
          /\ [New("require") EXCEPT !.flag = ~view.toggle].kind = "require"
      BY <1>0 DEF New, Kinds, CallType, View
    <3> QED BY <1>5, <2>2, <3>1
  <2>4. Shows(store, [view EXCEPT !.toggle = ~@], asked) /\ stale' = stale BY <1>8 DEF Toggle
  <2> QED BY <1>0, <1>1, <2>1, <2>3, <2>4
<1>9. ASSUME NEW c \in Slots,
             \/ BeginRegister(c) \/ \E d \in Devices : DeleteU2f(c, d)
             \/ \E owner \in {"register", "registerGone"}, d \in Devices : RegisteredTap(c, owner, d)
      PROVE  UserFetch'
  <2>1. UNCHANGED <<store, view, stale>> BY <1>9 DEF BeginRegister, DeleteU2f, RegisteredTap
  <2>2. PICK call \in CallType : call.kind # "getUser" /\ Send(c, call)
    <3>1. CASE BeginRegister(c) BY <3>1, CallTypes DEF BeginRegister, Kinds
    <3>2. CASE \E d \in Devices : DeleteU2f(c, d) BY <1>6, <3>2 DEF DeleteU2f, Kinds
    <3>3. CASE \E owner \in {"register", "registerGone"}, d \in Devices : RegisteredTap(c, owner, d)
      BY <1>6, <3>3 DEF RegisteredTap, Kinds
    <3> QED BY <1>9, <3>1, <3>2, <3>3
  <2>3. \A e \in Slots : (calls'[e].kind = "getUser") <=> (calls[e].kind = "getUser")
    BY <1>5, <2>2
  <2> QED BY <2>1, <2>3, SameUser
<1>10. ASSUME NEW c \in Slots, calls[c].kind # "getUser", Quietly(c)
       PROVE  \A e \in Slots : (calls'[e].kind = "getUser") <=> (calls[e].kind = "getUser")
  BY <1>0, <1>10, CallTypes DEF Quietly
<1>11. FailedRegs(store) \in Store /\ FailedRegs(store).user = store.user
  BY <1>0 DEF FailedRegs, Store, NoRegs
<1>12. ASSUME NEW c \in Slots, RegsAnswered(c) PROVE UserFetch'
  <2> DEFINE s == [store EXCEPT !.regs = [NoRegs EXCEPT !.list = calls[c].devices,
                                                       !.received = TRUE]]
  <2>1. s \in Store /\ s.user = store.user BY <1>0 DEF Store, NoRegs, CallType
  <2>2. (Shows(s, view, asked) \/ Shows(FailedRegs(store), view, asked)) /\ Quietly(c)
          /\ calls[c].kind = "getRegs" /\ stale' = stale
    BY <1>12 DEF RegsAnswered, Arrives
  <2> HIDE DEF s
  <2>3. \A e \in Slots : (calls'[e].kind = "getUser") <=> (calls[e].kind = "getUser")
    BY <1>10, <2>2
  <2> QED BY <1>0, <1>1, <1>11, <2>1, <2>2, <2>3
<1>13. ASSUME NEW c \in Slots, DeleteAnswered(c) PROVE UserFetch'
  <2> DEFINE s == [store EXCEPT !.regs.list = @ \ calls[c].devices]
  <2>1. s \in Store /\ s.user = store.user BY <1>0 DEF Store
  <2>2. (Shows(s, view, asked) \/ Shows(FailedRegs(store), view, asked)) /\ Quietly(c)
          /\ calls[c].kind = "delReg"
    BY <1>13 DEF DeleteAnswered, Arrives
  <2>3. stale => stale' BY <1>13 DEF DeleteAnswered, Outdated
  <2> HIDE DEF s
  <2>4. \A e \in Slots : (calls'[e].kind = "getUser") <=> (calls[e].kind = "getUser")
    BY <1>10, <2>2
  <2> QED BY <1>0, <1>1, <1>11, <2>1, <2>2, <2>3, <2>4
<1>14. /\ store.user.fetching => InFlight({"getUser"})
       /\ ~stale => (InFlight({"getUser"}) => store.user.fetching \/ store.user.received)
       /\ view.path \in Dashboard => store.user.received \/ InFlight({"getUser"})
  BY DEF UserFetch, DashboardHasUser
<1>15. ASSUME NEW c \in Slots, RequireAnswered(c) PROVE UserFetch'
  <2> DEFINE t == [store EXCEPT !.user = [NoUser EXCEPT !.enforced = calls[c].flag,
                                                        !.received = TRUE]]
  <2>1. t \in Store /\ t.user.received /\ ~t.user.fetching
    BY <1>0 DEF Store, NoUser, CallType
  <2>2. calls[c].kind = "require" /\ stale' = stale BY <1>15 DEF RequireAnswered, Arrives
  <2> HIDE DEF t
  <2>3. CASE HandOver(c, t, view) BY <1>0, <2>1, <2>2, <2>3, HandedUser
  <2>4. CASE Quietly(c) /\ UNCHANGED <<store, view, asked>>
    BY <1>10, <2>2, <2>4, SameUser
  <2> QED BY <1>15, <2>3, <2>4 DEF RequireAnswered, t
<1>16. ASSUME NEW c \in Slots, RegisterChallengeAnswered(c) PROVE UserFetch'
  <2>1. Quietly(c) /\ stale' = stale /\ calls[c].kind = "regChallenge"
    BY <1>16 DEF RegisterChallengeAnswered, Arrives
  <2>2. asked["register"] < MaxAsked => [asked EXCEPT !["register"] = @ + 1] \in Asks
    BY <1>0, ConstantsAssumption DEF Asks, AskKinds
  <2>3. CASE UNCHANGED <<store, view, asked>> BY <1>10, <2>1, <2>3, SameUser
  <2>4. \A e \in Slots : (calls'[e].kind = "getUser") <=> (calls[e].kind = "getUser")
    BY <1>10, <2>1
  <2> QED BY <1>0, <1>1, <1>3, <1>16, <2>1, <2>2, <2>3, <2>4
          DEF RegisterChallengeAnswered, Dialog
<1>17. ASSUME NEW c \in Slots, RegisterFinishAnswered(c) PROVE UserFetch'
  <2> DEFINE t == WithDevice(store, calls[c].devices)
             v == RegisterStage("notStarted")
  <2>1. /\ t \in Store /\ t.user.received = store.user.received
        /\ t.user.fetching = store.user.fetching
    BY <1>0 DEF WithDevice, Store, CallType
  <2>2. calls[c].kind = "regFinish" /\ (stale => stale')
    <3>1. calls[c].kind = "regFinish" BY <1>17 DEF RegisterFinishAnswered, Arrives
    <3>2. stale' = Outdated(c) \/ stale' = stale BY <1>17 DEF RegisterFinishAnswered
    <3> QED BY <1>0, <3>1, <3>2 DEF Outdated
  <2>3. \/ Quietly(c) /\ UNCHANGED <<store, view, asked>>
        \/ Quietly(c) /\ Shows(t, v, asked)
        \/ HandOver(c, t, v)
        \/ Quietly(c) /\ Shows(store, RegisterStage("retry"), asked)
    BY <1>17 DEF RegisterFinishAnswered
  <2>4. v \in View /\ v.path = view.path BY <1>3 DEF Dialog
  <2> HIDE DEF t, v
  <2>5. CASE Quietly(c) /\ UNCHANGED <<store, view, asked>> BY <1>10, <2>2, <2>5, SameUser
  <2>6. CASE HandOver(c, t, v)
    BY <1>0, <1>14, <2>1, <2>2, <2>4, <2>6, HandedUser DEF InFlight
  <2>7. CASE Quietly(c) /\ Shows(t, v, asked) BY <1>0, <1>1, <1>10, <2>1, <2>2, <2>4, <2>7
  <2>8. CASE Quietly(c) /\ Shows(store, RegisterStage("retry"), asked)
    BY <1>0, <1>1, <1>3, <1>10, <2>2, <2>8 DEF Dialog
  <2> QED BY <2>3, <2>5, <2>6, <2>7, <2>8
<1>18. ASSUME NEW c \in Slots, ServeRegs(c) \/ ServeRegisterChallenge(c) \/ ServeChange(c)
       PROVE  UserFetch'
  <2>1. \A e \in Slots : calls'[e].kind = calls[e].kind
    BY <1>0, <1>18 DEF ServeRegs, ServeRegisterChallenge, ServeChange, Reply, CallType
  <2>2. UNCHANGED <<store, view, stale>>
    BY <1>18 DEF ServeRegs, ServeRegisterChallenge, ServeChange
  <2> QED BY <2>1, <2>2, SameUser
<1> QED BY <1>2, <1>4, <1>7, <1>8, <1>9, <1>12, <1>13, <1>15, <1>16, <1>17, <1>18
        DEF RegistrationsNext

LEMMA LoseKinds ==
  ASSUME TypeOK, NEW c \in Slots, Lose(c)
  PROVE  /\ \A e \in Slots : calls'[e].kind = calls[e].kind /\ calls'[e].devices = calls[e].devices
         /\ \A e \in Slots : calls'[e].phase = "ok" => e # c /\ calls'[e] = calls[e]
         /\ \A e \in Slots : e # c => calls'[e] = calls[e]
         /\ calls'[c].phase = "refused"
         /\ UNCHANGED <<server, store, view, asked>>
         /\ stale => stale'
<1>1. /\ calls' = [calls EXCEPT ![c].phase = "refused", ![c].flag = FALSE]
      /\ UNCHANGED <<server, store, view, asked>> /\ (stale => stale')
  BY DEF Lose, Reply
<1>2. calls \in [Slots -> CallType] BY DEF TypeOK
<1> QED BY <1>1, <1>2 DEF CallType

(* A page that is loaded starts from nothing but its own calls.            *)
LEMMA LoadStarts ==
  ASSUME TypeOK, NEW c \in Slots, NEW d \in Slots, NEW path \in {"home", "vault", "account"},
         Load(c, d, path)
  PROVE  /\ \A e \in Slots : calls[e].kind = "none" /\ calls'[e].phase = "sent"
         /\ \A e \in Slots : calls'[e].kind \in {"none", "getUser", "getRegs"}
         /\ calls'[c].kind = "getUser" /\ \A e \in Slots : calls'[e].kind = "getUser" => e = c
         /\ store' \in Store /\ store'.user.fetching
         /\ ~store'.user.received /\ ~store'.regs.received
         /\ store'.regs.fetching => calls'[d].kind = "getRegs"
         /\ ~stale' /\ view' = At(path) /\ UNCHANGED devices /\ UNCHANGED enforced
<1>1. /\ \A e \in Slots : calls[e] = Free
      /\ calls' = [calls EXCEPT ![c] = New("getUser"),
                                ![d] = IF path = "account" THEN New("getRegs") ELSE @]
      /\ (path = "account") <=> (c # d)
      /\ store' = Asking(IF path = "account" THEN AskingRegs(EmptyStore) ELSE EmptyStore)
      /\ ~stale' /\ view' = At(path) /\ UNCHANGED devices /\ UNCHANGED enforced
  BY DEF Load, server
<1>2. /\ AskingRegs(EmptyStore) \in Store /\ ~AskingRegs(EmptyStore).user.received
      /\ ~AskingRegs(EmptyStore).regs.received
  BY CallTypes DEF AskingRegs, Store, NoRegs, EmptyStore, NoUser
<1>3. ~EmptyStore.regs.received /\ ~EmptyStore.regs.fetching BY DEF EmptyStore, NoRegs
<1>4. /\ store' \in Store /\ store'.user.fetching
      /\ ~store'.user.received /\ ~store'.regs.received
      /\ store'.regs.fetching => path = "account"
  BY <1>1, <1>2, <1>3, CallTypes, AskingInStore
<1>5. calls \in [Slots -> CallType] BY DEF TypeOK
<1>6. /\ calls'[c] = New("getUser")
      /\ path = "account" => c # d /\ calls'[d] = New("getRegs")
      /\ \A e \in Slots : e # c => calls'[e] = Free \/ (e = d /\ calls'[e] = New("getRegs"))
  BY <1>1, <1>5
<1>7. /\ New("getUser").kind = "getUser" /\ New("getUser").phase = "sent"
      /\ New("getRegs").kind = "getRegs" /\ New("getRegs").phase = "sent"
      /\ Free.kind = "none" /\ Free.phase = "sent"
  BY CallTypes DEF Kinds
<1>8. /\ \A e \in Slots : calls[e].kind = "none" BY <1>1, <1>7
<1>9. /\ \A e \in Slots : calls'[e].kind \in {"none", "getUser", "getRegs"}
      /\ \A e \in Slots : calls'[e].phase = "sent"
      /\ \A e \in Slots : calls'[e].kind = "getUser" => e = c
  BY <1>6, <1>7
<1> QED BY <1>1, <1>4, <1>6, <1>7, <1>8, <1>9

LEMMA StepUser == TypeOK /\ UserFetch /\ [Next]_vars => UserFetch'
<1> SUFFICES ASSUME TypeOK, UserFetch, [Next]_vars PROVE UserFetch'
  OBVIOUS
<1>1. ASSUME NEW c \in Slots, Lose(c) PROVE UserFetch' BY <1>1, LoseKinds, SameUser
<1>2. ASSUME NEW c \in Slots, NEW d \in Slots, NEW path \in {"home", "vault", "account"},
             Load(c, d, path)
      PROVE  UserFetch'
  BY <1>2, LoadStarts DEF UserFetch, DashboardHasUser, InFlight
<1>3. CASE UNCHANGED vars BY <1>3, SameUser DEF vars
<1>4. CASE Expire BY <1>4, SameUser DEF Expire
<1> QED BY <1>1, <1>2, <1>3, <1>4, UserSignIn, UserRegistrations DEF Next

LEMMA InitUser == Init => UserFetch
<1> SUFFICES ASSUME Init PROVE UserFetch
  OBVIOUS
<1>1. ~store.user.fetching BY DEF Init, EmptyStore, NoUser
<1>2. \A c \in Slots : calls[c].kind = "none" BY CallTypes DEF Init
<1>3. view.path \notin Dashboard BY AtInView DEF Init, Dashboard
<1> QED BY <1>1, <1>2, <1>3 DEF UserFetch, DashboardHasUser, InFlight

(* components/Dashboard/index.js:44: nobody stays on a dashboard without a *)
(* user or a call that brings one, whatever is answered or fails.          *)
THEOREM DashboardsHaveUser == Spec => []DashboardHasUser
<1>1. UserFetch => DashboardHasUser BY DEF UserFetch
<1> QED BY <1>1, InitUser, TypeCorrect, StepUser, PTL DEF Spec

(* actions/user.js:32: the user is fetched by one call at a time, unless a *)
(* logout overtook one.                                                    *)
THEOREM UserFetchedOnce == Spec => []OneUserFetch
<1>2. ASSUME UserFetch PROVE OneUserFetch
  <2> DEFINE S == {c \in Slots : calls[c].kind = "getUser"}
  <2>1. SUFFICES ASSUME ~stale PROVE Cardinality(S) <= 1
    BY DEF OneUserFetch
  <2>2. \A c, d \in S : c = d BY <1>2, <2>1 DEF UserFetch
  <2> HIDE DEF S
  <2>3. CASE S = {} BY <2>3, FS_EmptySet
  <2>4. CASE S # {}
    <3>1. PICK c \in S : TRUE BY <2>4
    <3>2. S = {c} BY <2>2, <3>1
    <3>3. Cardinality({c}) = 1 BY FS_Singleton
    <3> QED BY <3>2, <3>3
  <2> QED BY <2>3, <2>4
<1> QED BY <1>2, InitUser, TypeCorrect, StepUser, PTL DEF Spec

-----------------------------------------------------------------------------
(* What the actions of the one module leave alone of what the other's are  *)
(* about: first the panel of the registrations, which a logout may empty.  *)
PanelKinds == {"getRegs", "regFinish", "delReg"}

PanelAlone ==
  /\ devices' = devices /\ (stale => stale')
  /\ store'.regs \in {store.regs, NoRegs}
  /\ \A e \in Slots :
       calls[e].kind \in PanelKinds \/ calls'[e].kind \in PanelKinds => calls'[e] = calls[e]
  /\ view'.register = "tapRequired" =>
       view.register = "tapRequired" /\ asked'["register"] = asked["register"]

LEMMA SignInLeavesPanel == TypeOK /\ SignInNext => PanelAlone
<1> SUFFICES ASSUME TypeOK, SignInNext PROVE PanelAlone
  OBVIOUS
<1>0. /\ asked \in Asks /\ store \in Store /\ view \in View /\ calls \in [Slots -> CallType]
      /\ stale \in BOOLEAN
  BY DEF TypeOK, Asks
<1> DEFINE CallsKept == \A e \in Slots :
             calls[e].kind \in PanelKinds \/ calls'[e].kind \in PanelKinds => calls'[e] = calls[e]
<1>1. ASSUME NEW s \in Store, NEW v \in View, NEW a \in Asks, Shows(s, v, a),
             s.regs \in {store.regs, NoRegs}, CallsKept, stale => stale', UNCHANGED devices,
             v.register = "tapRequired" =>
               view.register = "tapRequired" /\ a["register"] = asked["register"]
      PROVE  PanelAlone
  BY <1>1, ShowsShown DEF Shown, PanelAlone
<1>2. ASSUME NEW c \in Slots, NEW t \in Store, HandOver(c, t, view), t.regs = store.regs,
             calls[c].kind \notin PanelKinds, UNCHANGED <<devices, stale>>
      PROVE  PanelAlone
  <2>1. Handed(c, t, view) BY <1>0, <1>2, HandOverHanded
  <2>2. CallsKept
    <3>1. \A e \in Slots : e # c => calls'[e] = calls[e] BY <1>0, <2>1 DEF Handed
    <3>2. calls'[c].kind \in {"none", "getUser"}
      BY <1>0, <2>1, CallTypes DEF Handed, Kinds
    <3> QED BY <1>2, <3>1, <3>2 DEF PanelKinds
  <2>3. store'.regs = store.regs BY <1>2, <2>1, AskingInStore DEF Handed
  <2> QED BY <1>2, <2>1, <2>2, <2>3 DEF Handed, PanelAlone
<1>3. ASSUME NEW c \in Slots, NEW k \in Kinds \ PanelKinds, NEW call \in CallType,
             call.kind = k, Send(c, call)
      PROVE  CallsKept
  BY <1>0, <1>3, CallTypes DEF Send, PanelKinds
<1>4. ASSUME NEW c \in Slots, calls[c].kind \notin PanelKinds, Quietly(c) PROVE CallsKept
  BY <1>0, <1>4, CallTypes DEF Quietly, PanelKinds
<1>5. calls' = calls => CallsKept OBVIOUS
<1>6. CallsKept /\ store' = store /\ view' = view /\ (stale => stale') /\ devices' = devices
        /\ asked'["register"] = asked["register"] => PanelAlone
  BY DEF PanelAlone
<1> HIDE DEF CallsKept
<1>7. CASE SwitchForm
  <2>1. [view EXCEPT !.isRegister = ~@] \in View
        /\ [view EXCEPT !.isRegister = ~@].register = view.register
    BY <1>0 DEF View
  <2> QED BY <1>0, <1>1, <1>5, <1>7, <2>1 DEF SwitchForm, server
<1>8. ToDashboard(store) \in View /\ ToDashboard(store).register = "off"
  BY AtInView DEF ToDashboard
<1>9. CASE GoToDashboard BY <1>0, <1>1, <1>5, <1>8, <1>9 DEF GoToDashboard, server
<1>10. CASE Back BY <1>0, <1>1, <1>5, <1>10, AtInView DEF Back, server
<1>11. \A stage \in Dialog :
         SignStage(stage) \in View /\ SignStage(stage).register = view.register
  BY <1>0 DEF SignStage, View
<1>12. ASSUME NEW owner \in {"sign", "signGone"}, SignGivenUp(owner) PROVE PanelAlone
  <2>1. [asked EXCEPT ![owner] = @ - 1] \in Asks
        /\ [asked EXCEPT ![owner] = @ - 1]["register"] = asked["register"]
    BY <1>0, <1>12, ConstantsAssumption DEF Asks, AskKinds, SignGivenUp
  <2> QED BY <1>0, <1>1, <1>5, <1>11, <1>12, <2>1 DEF SignGivenUp, Dialog, server
<1>13. ASSUME NEW c \in Slots, NEW d \in Slots, NEW right \in BOOLEAN, SubmitLogin(c, d, right)
       PROVE  PanelAlone
  <2> DEFINE t == [store EXCEPT !.login.fetching = TRUE]
             goes == t # store /\ t.login.received
             asks == goes /\ NeedsUser(t)
             v == IF goes THEN ToDashboard(t) ELSE view
             call == [New("login") EXCEPT !.flag = right]
  <2>1. t \in Store /\ t.regs = store.regs BY <1>0 DEF Store
  <2>2. v \in View /\ (v.register = "tapRequired" => view.register = "tapRequired")
    BY <1>0, AtInView DEF ToDashboard
  <2>3. /\ Shows(IF asks THEN Asking(t) ELSE t, v, asked)
        /\ UNCHANGED <<devices, stale>> /\ calls[c] = Free
        /\ IF asks THEN /\ d # c /\ calls[d] = Free
                        /\ calls' = [calls EXCEPT ![c] = call, ![d] = New("getUser")]
                   ELSE calls' = [calls EXCEPT ![c] = call]
    BY <1>13 DEF SubmitLogin, Send, server
  <2>4. call.kind = "login" /\ New("getUser").kind = "getUser" /\ Free.kind = "none"
    BY CallTypes DEF New, Kinds
  <2> HIDE DEF t, goes, asks, v, call
  <2>5. CallsKept BY <1>0, <2>3, <2>4 DEF CallsKept, PanelKinds
  <2>6. (IF asks THEN Asking(t) ELSE t) \in Store /\ (IF asks THEN Asking(t) ELSE t).regs = store.regs
    BY <2>1, AskingInStore
  <2> QED BY <1>0, <1>1, <2>2, <2>3, <2>5, <2>6
<1>14. ASSUME NEW c \in Slots, Forward(c) PROVE PanelAlone
  <2>1. CASE NeedsUser(store)
    <3>1. CallsKept BY <1>3, <1>14, <2>1, CallTypes DEF Forward, Kinds, PanelKinds
    <3> QED BY <1>0, <1>1, <1>8, <1>14, <2>1, <3>1, AskingInStore DEF Forward, server
  <2>2. CASE ~NeedsUser(store)
    BY <1>0, <1>1, <1>5, <1>14, <2>2, AtInView DEF Forward, server
  <2> QED BY <2>1, <2>2
<1>15. ASSUME NEW c \in Slots,
             \/ KeyPairMade(c) \/ Resend(c) \/ Logout(c) \/ FetchSign(c)
             \/ \E owner \in {"sign", "signGone"} : SignedTap(c, owner)
       PROVE  PanelAlone
  <2>1. PICK k \in Kinds \ PanelKinds : Send(c, New(k))
    BY <1>15 DEF KeyPairMade, Resend, Logout, FetchSign, SignedTap, Kinds, PanelKinds
  <2>2. CallsKept BY <1>3, <2>1, CallTypes
  <2>3. UNCHANGED <<devices, stale>>
    BY <1>15 DEF KeyPairMade, Resend, Logout, FetchSign, SignedTap, server
  <2>5. CASE store' = store /\ view' = view /\ asked'["register"] = asked["register"]
    BY <1>6, <2>2, <2>3, <2>5
  <2>4. CASE KeyPairMade(c)
    <3>1. asked'["register"] = asked["register"] BY <1>0, <2>4 DEF KeyPairMade, Asks, AskKinds
    <3> QED BY <2>4, <2>5, <3>1 DEF KeyPairMade
  <2>6. CASE \E owner \in {"sign", "signGone"} : SignedTap(c, owner)
    <3>1. asked'["register"] = asked["register"] BY <1>0, <2>6 DEF SignedTap, Asks, AskKinds
    <3> QED BY <2>5, <2>6, <3>1 DEF SignedTap
  <2> QED BY <1>15, <2>4, <2>5, <2>6 DEF Resend, Logout, FetchSign
<1>24. CASE SubmitSignup
  <2>1. [view EXCEPT !.loading = TRUE] \in View
        /\ [view EXCEPT !.loading = TRUE].register = view.register
    BY <1>0 DEF View
  <2>2. [asked EXCEPT !["keyPair"] = @ + 1] \in Asks
        /\ [asked EXCEPT !["keyPair"] = @ + 1]["register"] = asked["register"]
    BY <1>0, <1>24, ConstantsAssumption DEF Asks, AskKinds, SubmitSignup
  <2> QED BY <1>0, <1>1, <1>5, <1>24, <2>1, <2>2 DEF SubmitSignup, server
<1>16. ASSUME NEW c \in Slots, UserAnswered(c) PROVE PanelAlone
  <2>1. PICK u \in {GotUser(calls[c].flag), [NoUser EXCEPT !.error = TRUE]} :
          HandOver(c, [store EXCEPT !.user = u], view)
    BY <1>16 DEF UserAnswered
  <2>2. u \in [enforced : BOOLEAN, fetching : BOOLEAN, received : BOOLEAN,
               error : BOOLEAN, resent : BOOLEAN]
    BY <1>0 DEF GotUser, NoUser, CallType
  <2>3. [store EXCEPT !.user = u] \in Store /\ [store EXCEPT !.user = u].regs = store.regs
    BY <1>0, <2>2 DEF Store
  <2>4. calls[c].kind = "getUser" /\ UNCHANGED <<devices, stale>>
    BY <1>16 DEF UserAnswered, Arrives, server
  <2> QED BY <1>2, <2>1, <2>3, <2>4 DEF PanelKinds
<1>17. ASSUME NEW c \in Slots, LoginAnswered(c) PROVE PanelAlone
  <2> DEFINE t == [store EXCEPT !.login = [NoLogin EXCEPT !.error = TRUE]]
             v == [view EXCEPT !.dialog = TRUE]
  <2>1. t \in Store /\ t.regs = store.regs BY <1>0 DEF Store, NoLogin
  <2>2. calls[c].flag \in BOOLEAN BY <1>0 DEF CallType
  <2>3. calls[c].kind = "login" /\ UNCHANGED <<devices, stale>>
    BY <1>17 DEF LoginAnswered, Arrives, server
  <2>4. v \in View /\ v.register = view.register BY <1>0 DEF View
  <2>5. \/ HandOver(c, SignedIn(calls[c].flag), view) \/ HandOver(c, t, view)
        \/ calls' = [calls EXCEPT ![c] = New("signChallenge")] /\ Shows(t, v, asked)
    BY <1>17 DEF LoginAnswered
  <2> HIDE DEF t, v
  <2>6. CASE HandOver(c, SignedIn(calls[c].flag), view)
    BY <1>0, <1>2, <2>2, <2>3, <2>6, SignedInStore DEF PanelKinds
  <2>7. CASE HandOver(c, t, view) BY <1>2, <2>1, <2>3, <2>7 DEF PanelKinds
  <2>8. CASE calls' = [calls EXCEPT ![c] = New("signChallenge")] /\ Shows(t, v, asked)
    <3>1. CallsKept BY <1>0, <2>3, <2>8, CallTypes DEF CallsKept, PanelKinds, Kinds
    <3> QED BY <1>0, <1>1, <2>1, <2>3, <2>4, <2>8, <3>1
  <2> QED BY <2>5, <2>6, <2>7, <2>8
<1>18. ASSUME NEW c \in Slots, SignupAnswered(c) PROVE PanelAlone
  <2> DEFINE t == [store EXCEPT !.signup = SignupState(calls[c].phase = "ok")]
             v == [view EXCEPT !.loading = @ /\ ~LoadingOver(store.signup, t.signup)]
  <2>1. t \in Store /\ t.regs = store.regs BY <1>0 DEF Store, SignupState
  <2>2. v \in View /\ v.register = view.register BY <1>0 DEF View, LoadingOver
  <2>3. Quietly(c) /\ Shows(t, v, asked) /\ UNCHANGED <<devices, stale>> /\ calls[c].kind = "signup"
    BY <1>18 DEF SignupAnswered, server
  <2> HIDE DEF t, v
  <2>4. CallsKept BY <1>4, <2>3 DEF PanelKinds
  <2> QED BY <1>0, <1>1, <2>1, <2>2, <2>3, <2>4
<1>19. ASSUME NEW c \in Slots, ResendAnswered(c) PROVE PanelAlone
  <2>1. [store EXCEPT !.user.resent = TRUE] \in Store
        /\ [store EXCEPT !.user.resent = TRUE].regs = store.regs
    BY <1>0 DEF Store
  <2> QED BY <1>2, <1>19, <2>1 DEF ResendAnswered, PanelKinds, server
<1>20. ASSUME NEW c \in Slots, LogoutAnswered(c) PROVE PanelAlone
  <2>1. Quietly(c) /\ calls[c].kind = "logout" /\ UNCHANGED devices
    BY <1>20 DEF LogoutAnswered, Arrives, server
  <2>2. CallsKept BY <1>4, <2>1 DEF PanelKinds
  <2>3. CASE UNCHANGED <<store, view, asked, stale>> BY <1>6, <2>1, <2>2, <2>3
  <2>4. CASE /\ Shows(LoggedOut, IF view.path \in Dashboard THEN At("home") ELSE view, asked)
             /\ stale' = (stale \/ InFlight({"getUser", "login", "signFinish", "require"}))
    <3>1. EmptyStore.regs = NoRegs BY DEF EmptyStore
    <3>2. stale => stale' BY <2>4
    <3> QED BY <1>0, <1>1, <2>1, <2>2, <2>4, <3>1, <3>2, CallTypes, AtInView DEF LoggedOut
  <2> QED BY <1>20, <2>3, <2>4 DEF LogoutAnswered
<1>21. ASSUME NEW c \in Slots, SignChallengeAnswered(c) PROVE PanelAlone
  <2>1. Quietly(c) /\ UNCHANGED <<devices, stale>> /\ calls[c].kind = "signChallenge"
    BY <1>21 DEF SignChallengeAnswered, Arrives, server
  <2>2. asked["sign"] < MaxAsked =>
          /\ [asked EXCEPT !["sign"] = @ + 1] \in Asks
          /\ [asked EXCEPT !["sign"] = @ + 1]["register"] = asked["register"]
    BY <1>0, ConstantsAssumption DEF Asks, AskKinds
  <2>3. CallsKept BY <1>4, <2>1 DEF PanelKinds
  <2>4. CASE UNCHANGED <<store, view, asked>> BY <1>6, <2>1, <2>3, <2>4
  <2>5. ASSUME NEW v \in View, v.register = view.register, NEW a \in Asks,
               a["register"] = asked["register"], Shows(store, v, a)
        PROVE  PanelAlone
    BY <1>0, <1>1, <2>1, <2>3, <2>5
  <2> QED BY <1>0, <1>11, <1>21, <2>2, <2>4, <2>5 DEF SignChallengeAnswered, Dialog
<1>22. ASSUME NEW c \in Slots, SignFinishAnswered(c) PROVE PanelAlone
  <2>1. UNCHANGED <<devices, stale>> /\ calls[c].kind = "signFinish" /\ calls[c].flag \in BOOLEAN
    BY <1>0, <1>22 DEF SignFinishAnswered, Arrives, CallType, server
  <2>2. CASE HandOver(c, SignedIn(calls[c].flag), view)
    BY <1>0, <1>2, <2>1, <2>2, SignedInStore DEF PanelKinds
  <2>3. CASE Quietly(c) /\ Shows(store, SignStage("retry"), asked)
    <3>1. CallsKept BY <1>4, <2>1, <2>3 DEF PanelKinds
    <3> QED BY <1>0, <1>1, <1>11, <2>1, <2>3, <3>1 DEF Dialog
  <2> QED BY <1>22, <2>2, <2>3 DEF SignFinishAnswered
<1>23. ASSUME NEW c \in Slots,
              ServeUser(c) \/ ServeLogin(c) \/ ServeSignup(c) \/ ServeResend(c)
                \/ ServeLogout(c) \/ ServeSign(c)
       PROVE  PanelAlone
  <2>1. PICK phase, flag : Reply(c, phase, flag)
    BY <1>23 DEF ServeUser, ServeLogin, ServeSignup, ServeResend, ServeLogout, ServeSign
  <2>2. calls[c].kind \notin PanelKinds
    BY <1>23 DEF ServeUser, ServeLogin, ServeSignup, ServeResend, ServeLogout, ServeSign, Serves,
                 PanelKinds
  <2>3. CallsKept BY <1>0, <2>1, <2>2 DEF Reply, CallType, CallsKept
  <2>4. UNCHANGED <<devices, store, view, asked, stale>>
    BY <1>23 DEF ServeUser, ServeLogin, ServeSignup, ServeResend, ServeLogout, ServeSign, server
  <2> QED BY <1>6, <2>3, <2>4
<1> QED BY <1>7, <1>9, <1>10, <1>12, <1>13, <1>14, <1>15, <1>16, <1>17, <1>18, <1>19, <1>20,
           <1>21, <1>22, <1>23, <1>24 DEF SignInNext

(* The other way round: signing in, apart from the user whom the answer to *)
(* a change of what is required brings.                                    *)
SignInKinds == {"signup", "login", "signFinish", "logout"}

SignInAlone ==
  /\ UNCHANGED <<account, session, over>> /\ (stale => stale')
  /\ store'.user.received => store.user.received \/ \E e \in Slots : Arrives(e, "require", "ok")
  /\ view'.sign = "tapRequired" =>
       view.sign = "tapRequired" /\ asked'["sign"] = asked["sign"]
  /\ \A e \in Slots :
       /\ calls[e].kind \in SignInKinds \/ calls'[e].kind \in SignInKinds => calls'[e] = calls[e]
       /\ calls'[e].kind \in {"getUser", "require"} /\ calls'[e].phase = "ok" =>
            calls'[e] = calls[e] \/ (calls'[e].kind = "require" /\ Readable)

LEMMA PanelLeavesSignIn == TypeOK /\ RegistrationsNext => SignInAlone
<1> SUFFICES ASSUME TypeOK, RegistrationsNext PROVE SignInAlone
  OBVIOUS
<1>0. /\ asked \in Asks /\ store \in Store /\ view \in View /\ calls \in [Slots -> CallType]
      /\ stale \in BOOLEAN
  BY DEF TypeOK, Asks
<1> DEFINE CallsKept == \A e \in Slots :
       /\ calls[e].kind \in SignInKinds \/ calls'[e].kind \in SignInKinds => calls'[e] = calls[e]
       /\ calls'[e].kind \in {"getUser", "require"} /\ calls'[e].phase = "ok" =>
            calls'[e] = calls[e] \/ (calls'[e].kind = "require" /\ Readable)
<1>1. ASSUME NEW s \in Store, NEW v \in View, NEW a \in Asks, Shows(s, v, a), CallsKept,
             s.user.received = store.user.received,
             stale => stale', UNCHANGED server,
             v.sign = "tapRequired" => view.sign = "tapRequired" /\ a["sign"] = asked["sign"]
      PROVE  SignInAlone
  BY <1>1, ShowsShown DEF Shown, SignInAlone, server
<1>2. ASSUME NEW c \in Slots, NEW t \in Store, NEW v \in View, HandOver(c, t, v),
             calls[c].kind \notin SignInKinds,
             t.user.received => store.user.received \/ Arrives(c, "require", "ok"),
             UNCHANGED server, stale => stale',
             v.sign = view.sign
      PROVE  SignInAlone
  <2>1. Handed(c, t, v) BY <1>0, <1>2, HandOverHanded
  <2>2. CallsKept
    <3>1. \A e \in Slots : e # c => calls'[e] = calls[e] BY <1>0, <2>1 DEF Handed
    <3>2. calls'[c].kind \in {"none", "getUser"} /\ calls'[c].phase = "sent"
      BY <1>0, <2>1, CallTypes DEF Handed, Kinds
    <3> QED BY <1>2, <3>1, <3>2 DEF SignInKinds
  <2>3. store'.user.received = t.user.received
    BY <1>2, <2>1, AskingInStore DEF Handed
  <2> QED BY <1>2, <2>1, <2>2, <2>3 DEF Handed, SignInAlone, server
<1>3. ASSUME NEW c \in Slots, NEW call \in CallType,
             call.kind \notin SignInKinds, call.phase = "sent", Send(c, call)
      PROVE  CallsKept
  BY <1>0, <1>3, CallTypes DEF Send, SignInKinds
<1>4. ASSUME NEW c \in Slots, calls[c].kind \notin SignInKinds, Quietly(c) PROVE CallsKept
  BY <1>0, <1>4, CallTypes DEF Quietly, SignInKinds
<1>5. calls' = calls => CallsKept OBVIOUS
<1>6. CallsKept /\ store' = store /\ view' = view /\ (stale => stale')
        /\ UNCHANGED <<account, session, over>> /\ asked'["sign"] = asked["sign"] => SignInAlone
  BY DEF SignInAlone
<1>7. /\ \A k \in Kinds, b \in BOOLEAN :
           /\ [New(k) EXCEPT !.flag = b] \in CallType
           /\ [New(k) EXCEPT !.flag = b].kind = k /\ [New(k) EXCEPT !.flag = b].phase = "sent"
      /\ \A k \in Kinds, d \in Devices :
           /\ [New(k) EXCEPT !.devices = {d}] \in CallType
           /\ [New(k) EXCEPT !.devices = {d}].kind = k
           /\ [New(k) EXCEPT !.devices = {d}].phase = "sent"
  BY DEF New, CallType, Kinds
<1> HIDE DEF CallsKept
<1>8. CASE ToVault
  <2>1. Shows(store, At("vault"), asked) /\ UNCHANGED <<server, calls, stale>> BY <1>8 DEF ToVault
  <2> QED BY <1>0, <1>1, <1>5, <2>1, AtInView
<1>9. \A stage \in Dialog :
        /\ RegisterStage(stage) \in View /\ RegisterStage(stage).sign = view.sign
  BY <1>0 DEF RegisterStage, View
<1>10. ASSUME NEW owner \in {"register", "registerGone"}, RegisterGivenUp(owner) PROVE SignInAlone
  <2> DEFINE v == IF owner = "register" THEN RegisterStage("retry") ELSE view
  <2>1. [asked EXCEPT ![owner] = @ - 1] \in Asks
        /\ [asked EXCEPT ![owner] = @ - 1]["sign"] = asked["sign"]
    BY <1>0, <1>10, ConstantsAssumption DEF Asks, AskKinds, RegisterGivenUp
  <2>2. Shows(store, v, [asked EXCEPT ![owner] = @ - 1]) /\ UNCHANGED <<server, calls, stale>>
    BY <1>10 DEF RegisterGivenUp
  <2>3. v \in View /\ v.sign = view.sign BY <1>0, <1>9 DEF Dialog
  <2> HIDE DEF v
  <2> QED BY <1>0, <1>1, <1>5, <2>1, <2>2, <2>3
<1>11. ASSUME NEW c \in Slots, ToAccount(c) PROVE SignInAlone
  <2> DEFINE v == Render([At("account") EXCEPT !.toggle = store.user.enforced], store)
             w == [At("account") EXCEPT !.toggle = store.user.enforced]
  <2>1. w \in View /\ w.sign = "off"
    BY <1>0 DEF At, View, Dialog, Store
  <2>2. v \in View /\ v.sign # "tapRequired" BY <1>0, <2>1, RenderInView
  <2>3. AskingRegs(store) \in Store /\ AskingRegs(store).user = store.user
    BY <1>0 DEF AskingRegs, Store, NoRegs
  <2>4. UNCHANGED <<server, stale>> BY <1>11 DEF ToAccount
  <2>5. (Send(c, New("getRegs")) /\ Shows(AskingRegs(store), v, asked))
          \/ (UNCHANGED calls /\ Shows(store, v, asked))
    BY <1>11 DEF ToAccount
  <2> HIDE DEF v, w
  <2>6. New("getRegs") \in CallType /\ New("getRegs").kind \notin SignInKinds
          /\ New("getRegs").phase = "sent"
    BY CallTypes DEF Kinds, SignInKinds
  <2>7. CallsKept BY <1>3, <1>5, <2>5, <2>6
  <2> QED BY <1>0, <1>1, <2>2, <2>3, <2>4, <2>5, <2>7
<1>12. ASSUME NEW c \in Slots, Toggle(c) PROVE SignInAlone
  <2> DEFINE v == [view EXCEPT !.toggle = ~@]
             call == [New("require") EXCEPT !.flag = ~view.toggle]
  <2>1. v \in View /\ v.sign = view.sign BY <1>0 DEF View
  <2>2. Send(c, call) \/ UNCHANGED calls BY <1>12 DEF Toggle
  <2>3. call \in CallType /\ call.kind \notin SignInKinds /\ call.phase = "sent"
    BY <1>0 DEF New, Kinds, CallType, View, SignInKinds
  <2>4. Shows(store, v, asked) /\ UNCHANGED <<server, stale>> BY <1>12 DEF Toggle
  <2> HIDE DEF v, call
  <2>5. CallsKept BY <1>3, <1>5, <2>2, <2>3
  <2> QED BY <1>0, <1>1, <2>1, <2>4, <2>5
<1>13. ASSUME NEW c \in Slots,
              \/ BeginRegister(c) \/ \E d \in Devices : DeleteU2f(c, d)
              \/ \E owner \in {"register", "registerGone"}, d \in Devices : RegisteredTap(c, owner, d)
       PROVE  SignInAlone
  <2>1. UNCHANGED <<store, view, stale, account, session, over>>
    BY <1>13 DEF BeginRegister, DeleteU2f, RegisteredTap, server
  <2>2. PICK call \in CallType :
          call.kind \notin SignInKinds /\ call.phase = "sent" /\ Send(c, call)
    <3>1. CASE BeginRegister(c) BY <3>1, CallTypes DEF BeginRegister, Kinds, SignInKinds
    <3>2. CASE \E d \in Devices : DeleteU2f(c, d)
      BY <1>7, <3>2 DEF DeleteU2f, Kinds, SignInKinds
    <3>3. CASE \E owner \in {"register", "registerGone"}, d \in Devices : RegisteredTap(c, owner, d)
      <4>1. PICK d \in Devices : Send(c, [New("regFinish") EXCEPT !.devices = {d}])
        BY <3>3 DEF RegisteredTap
      <4> DEFINE call == [New("regFinish") EXCEPT !.devices = {d}]
      <4>2. call \in CallType /\ call.kind = "regFinish" /\ call.phase = "sent"
        BY <1>7 DEF Kinds
      <4> HIDE DEF call
      <4> QED BY <4>1, <4>2 DEF call, SignInKinds
    <3> QED BY <1>13, <3>1, <3>2, <3>3
  <2>3. CallsKept BY <1>3, <2>2
  <2>4. asked'["sign"] = asked["sign"]
    BY <1>0, <1>13 DEF BeginRegister, DeleteU2f, RegisteredTap, Asks, AskKinds
  <2> QED BY <1>6, <2>1, <2>3, <2>4
<1>14. /\ FailedRegs(store) \in Store /\ FailedRegs(store).user = store.user
  BY <1>0 DEF FailedRegs, Store, NoRegs
<1>15. ASSUME NEW c \in Slots, RegsAnswered(c) PROVE SignInAlone
  <2> DEFINE s == [store EXCEPT !.regs = [NoRegs EXCEPT !.list = calls[c].devices,
                                                       !.received = TRUE]]
  <2>1. s \in Store /\ s.user = store.user
    BY <1>0 DEF Store, NoRegs, CallType
  <2>2. (Shows(s, view, asked) \/ Shows(FailedRegs(store), view, asked)) /\ Quietly(c)
          /\ calls[c].kind = "getRegs" /\ UNCHANGED <<server, stale>>
    BY <1>15 DEF RegsAnswered, Arrives
  <2> HIDE DEF s
  <2>3. CallsKept BY <1>4, <2>2 DEF SignInKinds
  <2> QED BY <1>0, <1>1, <1>14, <2>1, <2>2, <2>3
<1>16. ASSUME NEW c \in Slots, DeleteAnswered(c) PROVE SignInAlone
  <2> DEFINE s == [store EXCEPT !.regs.list = @ \ calls[c].devices]
  <2>1. s \in Store /\ s.user = store.user BY <1>0 DEF Store
  <2>2. (Shows(s, view, asked) \/ Shows(FailedRegs(store), view, asked)) /\ Quietly(c)
          /\ calls[c].kind = "delReg" /\ UNCHANGED server
    BY <1>16 DEF DeleteAnswered, Arrives
  <2>3. stale => stale' BY <1>16 DEF DeleteAnswered, Outdated
  <2> HIDE DEF s
  <2>4. CallsKept BY <1>4, <2>2 DEF SignInKinds
  <2> QED BY <1>0, <1>1, <1>14, <2>1, <2>2, <2>3, <2>4
<1>17. ASSUME NEW c \in Slots, RequireAnswered(c) PROVE SignInAlone
  <2> DEFINE t == [store EXCEPT !.user = [NoUser EXCEPT !.enforced = calls[c].flag,
                                                        !.received = TRUE]]
  <2>1. t \in Store BY <1>0 DEF Store, NoUser, CallType
  <2>2. calls[c].kind = "require" /\ UNCHANGED <<server, stale>>
    BY <1>17 DEF RequireAnswered, Arrives
  <2>3. (Arrives(c, "require", "ok") /\ HandOver(c, t, view))
          \/ (Quietly(c) /\ UNCHANGED <<store, view, asked>>)
    BY <1>17 DEF RequireAnswered
  <2> HIDE DEF t
  <2>4. CASE Arrives(c, "require", "ok") /\ HandOver(c, t, view)
    BY <1>0, <1>2, <2>1, <2>2, <2>4 DEF SignInKinds
  <2>5. CASE Quietly(c) /\ UNCHANGED <<store, view, asked>>
    BY <1>4, <1>6, <2>2, <2>5 DEF SignInKinds, server
  <2> QED BY <2>3, <2>4, <2>5
<1>18. ASSUME NEW c \in Slots, RegisterChallengeAnswered(c) PROVE SignInAlone
  <2>1. Quietly(c) /\ UNCHANGED <<server, stale>> /\ calls[c].kind = "regChallenge"
    BY <1>18 DEF RegisterChallengeAnswered, Arrives
  <2>2. asked["register"] < MaxAsked =>
          /\ [asked EXCEPT !["register"] = @ + 1] \in Asks
          /\ [asked EXCEPT !["register"] = @ + 1]["sign"] = asked["sign"]
    BY <1>0, ConstantsAssumption DEF Asks, AskKinds
  <2>3. CallsKept BY <1>4, <2>1 DEF SignInKinds
  <2>4. CASE UNCHANGED <<store, view, asked>> BY <1>6, <2>1, <2>3, <2>4 DEF server
  <2>5. ASSUME NEW v \in View, v.sign = view.sign, NEW a \in Asks,
               a["sign"] = asked["sign"], Shows(store, v, a)
        PROVE  SignInAlone
    BY <1>0, <1>1, <2>1, <2>3, <2>5
  <2> QED BY <1>0, <1>9, <1>18, <2>2, <2>4, <2>5 DEF RegisterChallengeAnswered, Dialog
<1>19. ASSUME NEW c \in Slots, RegisterFinishAnswered(c) PROVE SignInAlone
  <2> DEFINE t == WithDevice(store, calls[c].devices)
             v == RegisterStage("notStarted")
  <2>1. /\ t \in Store /\ t.user.received = store.user.received
    BY <1>0 DEF WithDevice, Store, CallType
  <2>2. calls[c].kind = "regFinish" BY <1>19 DEF RegisterFinishAnswered, Arrives
  <2>3. UNCHANGED server /\ (stale' = Outdated(c) \/ stale' = stale)
    BY <1>19 DEF RegisterFinishAnswered
  <2>4. stale => stale' BY <1>0, <2>3 DEF Outdated
  <2>5. \/ Quietly(c) /\ UNCHANGED <<store, view, asked>>
        \/ Quietly(c) /\ Shows(t, v, asked)
        \/ HandOver(c, t, v)
        \/ Quietly(c) /\ Shows(store, RegisterStage("retry"), asked)
    BY <1>19 DEF RegisterFinishAnswered
  <2>6. v \in View /\ v.sign = view.sign BY <1>9 DEF Dialog
  <2> HIDE DEF t, v
  <2>7. CASE HandOver(c, t, v) BY <1>2, <2>1, <2>2, <2>3, <2>4, <2>6, <2>7 DEF SignInKinds
  <2>8. CASE Quietly(c)
    <3>1. CallsKept BY <1>4, <2>2, <2>8 DEF SignInKinds
    <3>2. CASE UNCHANGED <<store, view, asked>> BY <1>6, <2>3, <2>4, <3>1, <3>2 DEF server
    <3>3. CASE Shows(t, v, asked) BY <1>0, <1>1, <2>1, <2>3, <2>4, <2>6, <3>1, <3>3
    <3>4. CASE Shows(store, RegisterStage("retry"), asked)
      BY <1>0, <1>1, <1>9, <2>3, <2>4, <3>1, <3>4 DEF Dialog
    <3>5. CASE HandOver(c, t, v) BY <2>7, <3>5
    <3> QED BY <2>5, <3>2, <3>3, <3>4, <3>5
  <2> QED BY <2>5, <2>7, <2>8
<1>20. ASSUME NEW c \in Slots, ServeRegs(c) \/ ServeRegisterChallenge(c) PROVE SignInAlone
  <2>1. /\ \A e \in Slots : e # c => calls'[e] = calls[e]
        /\ calls'[c].kind = calls[c].kind /\ calls[c].kind \in {"getRegs", "regChallenge"}
    BY <1>0, <1>20 DEF ServeRegs, ServeRegisterChallenge, Reply, CallType, Serves
  <2>2. CallsKept BY <2>1 DEF CallsKept, SignInKinds
  <2>3. UNCHANGED <<account, session, over, store, view, asked, stale>>
    BY <1>20 DEF ServeRegs, ServeRegisterChallenge, server
  <2> QED BY <1>6, <2>2, <2>3
<1>21. ASSUME NEW c \in Slots, ServeChange(c) PROVE SignInAlone
  <2>1. PICK phase \in {"ok", "refused"}, flag \in {FALSE, calls[c].flag} :
          Reply(c, phase, flag) /\ (phase = "ok" => Writable)
    BY <1>21 DEF ServeChange
  <2>2. /\ \A e \in Slots : e # c => calls'[e] = calls[e]
        /\ calls'[c].kind = calls[c].kind /\ calls'[c].phase = phase
    BY <1>0, <2>1 DEF Reply, CallType
  <2>3. calls[c].kind \in {"regFinish", "delReg", "require"} BY <1>21 DEF ServeChange, Serves
  <2>4. Writable => Readable BY DEF Writable, Readable
  <2>5. CallsKept BY <2>1, <2>2, <2>3, <2>4 DEF CallsKept, SignInKinds
  <2>6. UNCHANGED <<account, session, over, store, view, asked, stale>> BY <1>21 DEF ServeChange
  <2> QED BY <1>6, <2>5, <2>6
<1> QED BY <1>8, <1>10, <1>11, <1>12, <1>13, <1>15, <1>16, <1>17, <1>18, <1>19, <1>20, <1>21
        DEF RegistrationsNext

-----------------------------------------------------------------------------
(* The fetch of the registrations.                                         *)
RegsFetch == store.regs.fetching => InFlight({"getRegs"})

LEMMA RegsRegistrations == TypeOK /\ RegsFetch /\ RegistrationsNext => RegsFetch'
<1> SUFFICES ASSUME TypeOK, RegsFetch, RegistrationsNext PROVE RegsFetch'
  OBVIOUS
<1>0. /\ asked \in Asks /\ store \in Store /\ view \in View /\ calls \in [Slots -> CallType]
      /\ store.regs.fetching \in BOOLEAN
  BY DEF TypeOK, Asks, Store
<1>1. ASSUME NEW s \in Store, NEW v \in View, NEW a \in Asks, Shows(s, v, a),
             s.regs.fetching => InFlight({"getRegs"})'
      PROVE  RegsFetch'
  BY <1>1, ShowsShown DEF Shown, RegsFetch
<1>2. ASSUME UNCHANGED store,
             \A e \in Slots : calls[e].kind = "getRegs" => calls'[e].kind = "getRegs"
      PROVE  RegsFetch'
  BY <1>2 DEF RegsFetch, InFlight
<1>3. ASSUME NEW c \in Slots, calls[c].kind # "getRegs", Quietly(c)
      PROVE  \A e \in Slots : calls[e].kind = "getRegs" => calls'[e].kind = "getRegs"
  BY <1>0, <1>3 DEF Quietly
<1>4. ASSUME NEW c \in Slots, NEW call \in CallType, Send(c, call) \/ UNCHANGED calls
      PROVE  \A e \in Slots : calls[e].kind = "getRegs" => calls'[e].kind = "getRegs"
  BY <1>0, <1>4, CallTypes DEF Send
<1>5. ASSUME \A e \in Slots : calls[e].kind = "getRegs" => calls'[e].kind = "getRegs"
      PROVE  store.regs.fetching => InFlight({"getRegs"})'
  BY <1>5 DEF RegsFetch, InFlight
<1>6. ASSUME UNCHANGED <<store, calls>> PROVE RegsFetch' BY <1>2, <1>6
<1>7. CASE ToVault
  <2>1. Shows(store, At("vault"), asked) /\ UNCHANGED calls BY <1>7 DEF ToVault
  <2> QED BY <1>6, <2>1 DEF Shows
<1>8. ASSUME NEW owner \in {"register", "registerGone"}, RegisterGivenUp(owner) PROVE RegsFetch'
  BY <1>6, <1>8 DEF RegisterGivenUp, Shows
<1>9. ASSUME NEW c \in Slots, ToAccount(c) PROVE RegsFetch'
  <2>1. CASE Send(c, New("getRegs"))
    <3>1. calls'[c].kind = "getRegs" BY <1>0, <2>1, CallTypes DEF Send, Kinds
    <3> QED BY <3>1 DEF RegsFetch, InFlight
  <2>2. CASE UNCHANGED <<calls, store>> BY <1>6, <2>2
  <2> QED BY <1>9, <2>1, <2>2 DEF ToAccount, Shows
<1>10. ASSUME NEW c \in Slots, Toggle(c) PROVE RegsFetch'
  <2>1. [New("require") EXCEPT !.flag = ~view.toggle] \in CallType
    BY <1>0 DEF New, Kinds, CallType, View
  <2>2. Send(c, [New("require") EXCEPT !.flag = ~view.toggle]) \/ UNCHANGED calls
    BY <1>10 DEF Toggle
  <2> QED BY <1>2, <1>4, <1>10, <2>1, <2>2 DEF Toggle, Shows
<1>11. ASSUME NEW c \in Slots,
              \/ BeginRegister(c) \/ \E d \in Devices : DeleteU2f(c, d)
              \/ \E owner \in {"register", "registerGone"}, d \in Devices : RegisteredTap(c, owner, d)
       PROVE  RegsFetch'
  <2>1. UNCHANGED store BY <1>11 DEF BeginRegister, DeleteU2f, RegisteredTap
  <2>2. PICK call : Send(c, call) BY <1>11 DEF BeginRegister, DeleteU2f, RegisteredTap
  <2>3. \A e \in Slots : calls[e].kind = "getRegs" => calls'[e].kind = "getRegs"
    BY <1>0, <2>2, CallTypes DEF Send
  <2> QED BY <1>2, <2>1, <2>3
<1>12. FailedRegs(store) \in Store /\ ~FailedRegs(store).regs.fetching
  BY <1>0 DEF FailedRegs, Store, NoRegs
<1>13. ASSUME NEW c \in Slots, RegsAnswered(c) PROVE RegsFetch'
  <2> DEFINE s == [store EXCEPT !.regs = [NoRegs EXCEPT !.list = calls[c].devices,
                                                       !.received = TRUE]]
  <2>1. s \in Store /\ ~s.regs.fetching BY <1>0 DEF Store, NoRegs, CallType
  <2>2. Shows(s, view, asked) \/ Shows(FailedRegs(store), view, asked) BY <1>13 DEF RegsAnswered
  <2> HIDE DEF s
  <2> QED BY <1>0, <1>1, <1>12, <2>1, <2>2
<1>14. ASSUME NEW c \in Slots, DeleteAnswered(c) PROVE RegsFetch'
  <2> DEFINE s == [store EXCEPT !.regs.list = @ \ calls[c].devices]
  <2>1. s \in Store /\ s.regs.fetching = store.regs.fetching BY <1>0 DEF Store
  <2>2. (Shows(s, view, asked) \/ Shows(FailedRegs(store), view, asked)) /\ Quietly(c)
          /\ calls[c].kind = "delReg"
    BY <1>14 DEF DeleteAnswered, Arrives
  <2> HIDE DEF s
  <2> QED BY <1>0, <1>1, <1>3, <1>5, <1>12, <2>1, <2>2
<1>15. ASSUME NEW c \in Slots, NEW t \in Store, NEW v \in View, HandOver(c, t, v),
              t.regs.fetching = store.regs.fetching, calls[c].kind # "getRegs"
       PROVE  RegsFetch'
  <2>1. Handed(c, t, v) BY <1>0, <1>15, HandOverHanded
  <2>2. \A e \in Slots : calls[e].kind = "getRegs" => calls'[e].kind = "getRegs"
    BY <1>0, <1>15, <2>1 DEF Handed
  <2>3. store'.regs = t.regs BY <1>15, <2>1, AskingInStore DEF Handed
  <2> QED BY <1>5, <1>15, <2>2, <2>3 DEF RegsFetch
<1>16. ASSUME NEW c \in Slots, RequireAnswered(c) PROVE RegsFetch'
  <2> DEFINE t == [store EXCEPT !.user = [NoUser EXCEPT !.enforced = calls[c].flag,
                                                        !.received = TRUE]]
  <2>1. t \in Store /\ t.regs = store.regs BY <1>0 DEF Store, NoUser, CallType
  <2>2. calls[c].kind = "require" BY <1>16 DEF RequireAnswered, Arrives
  <2>3. HandOver(c, t, view) \/ (Quietly(c) /\ UNCHANGED store) BY <1>16 DEF RequireAnswered
  <2> HIDE DEF t
  <2> QED BY <1>0, <1>2, <1>3, <1>15, <2>1, <2>2, <2>3
<1>17. ASSUME NEW c \in Slots, RegisterChallengeAnswered(c) PROVE RegsFetch'
  <2>1. Quietly(c) /\ store' = store /\ calls[c].kind = "regChallenge"
    BY <1>17 DEF RegisterChallengeAnswered, Arrives, Shows
  <2> QED BY <1>2, <1>3, <2>1
<1>18. ASSUME NEW c \in Slots, RegisterFinishAnswered(c) PROVE RegsFetch'
  <2> DEFINE t == WithDevice(store, calls[c].devices)
             v == RegisterStage("notStarted")
  <2>1. t \in Store /\ t.regs.fetching = store.regs.fetching
    BY <1>0 DEF WithDevice, Store, CallType
  <2>2. v \in View BY <1>0 DEF RegisterStage, View, Dialog
  <2>3. calls[c].kind = "regFinish" BY <1>18 DEF RegisterFinishAnswered, Arrives
  <2>4. \/ HandOver(c, t, v)
        \/ Quietly(c) /\ (store' = store \/ Shows(t, v, asked))
    BY <1>18 DEF RegisterFinishAnswered, Shows
  <2> HIDE DEF t, v
  <2> QED BY <1>0, <1>1, <1>2, <1>3, <1>5, <1>15, <2>1, <2>2, <2>3, <2>4
<1>19. ASSUME NEW c \in Slots, ServeRegs(c) \/ ServeRegisterChallenge(c) \/ ServeChange(c)
       PROVE  RegsFetch'
  <2>1. \A e \in Slots : calls'[e].kind = calls[e].kind
    BY <1>0, <1>19 DEF ServeRegs, ServeRegisterChallenge, ServeChange, Reply, CallType
  <2>2. store' = store BY <1>19 DEF ServeRegs, ServeRegisterChallenge, ServeChange
  <2> QED BY <1>2, <2>1, <2>2
<1> QED BY <1>7, <1>8, <1>9, <1>10, <1>11, <1>13, <1>14, <1>16, <1>17, <1>18, <1>19
        DEF RegistrationsNext

LEMMA StepRegs == TypeOK /\ RegsFetch /\ [Next]_vars => RegsFetch'
<1> SUFFICES ASSUME TypeOK, RegsFetch, [Next]_vars PROVE RegsFetch'
  OBVIOUS
<1>1. CASE SignInNext
  <2>1. PanelAlone BY <1>1, SignInLeavesPanel
  <2>2. ~NoRegs.fetching BY DEF NoRegs
  <2> QED BY <2>1, <2>2 DEF PanelAlone, RegsFetch, InFlight, PanelKinds
<1>2. ASSUME NEW c \in Slots, Lose(c) PROVE RegsFetch'
  BY <1>2, LoseKinds DEF RegsFetch, InFlight
<1>3. ASSUME NEW c \in Slots, NEW d \in Slots, NEW path \in {"home", "vault", "account"},
             Load(c, d, path)
      PROVE  RegsFetch'
  BY <1>3, LoadStarts DEF RegsFetch, InFlight
<1>4. CASE UNCHANGED vars BY <1>4 DEF vars, RegsFetch, InFlight
<1>5. CASE Expire BY <1>5 DEF Expire, RegsFetch, InFlight
<1> QED BY <1>1, <1>2, <1>3, <1>4, <1>5, RegsRegistrations DEF Next

(* reducers/user.js and reducers/u2f.js: a part of the store that is       *)
(* marked as being fetched has a call that will answer, across failures    *)
(* and logouts: nothing blocks the next fetch for good.                    *)
THEOREM FetchesAreInFlight == Spec => []FetchingIsInFlight
<1>1. Init => RegsFetch BY DEF Init, RegsFetch, EmptyStore, NoRegs
<1>2. UserFetch /\ RegsFetch => FetchingIsInFlight BY DEF UserFetch, RegsFetch, FetchingIsInFlight
<1> QED BY <1>1, <1>2, InitUser, TypeCorrect, StepUser, StepRegs, PTL DEF Spec
=============================================================================
