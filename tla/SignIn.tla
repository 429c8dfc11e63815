------------------------------- MODULE SignIn -------------------------------
(***************************************************************************)
(* Signing in and out: the home page with its two forms and the U2F dialog *)
(* of the login, the dashboard's need of a user, and the handlers of the   *)
(* server behind them.                                                     *)
(***************************************************************************)
EXTENDS BrowserStore

SwitchForm ==
  /\ FormsShown(view, store)
  /\ Shows(store, [view EXCEPT !.isRegister = ~@], asked)
  /\ UNCHANGED <<server, calls, stale>>

GoToDashboard ==
  /\ view.path = "home" /\ store.user.received
  /\ Shows(store, ToDashboard(store), asked)
  /\ UNCHANGED <<server, calls, stale>>

(* The back and forward buttons of the browser.  A dashboard that mounts   *)
(* asks for the user; the request leaves the error of the last one, which  *)
(* takes it home again, but with a request under way nothing does yet.     *)
Back ==
  /\ view.path \in Dashboard
  /\ Shows(store, At("home"), asked)
  /\ UNCHANGED <<server, calls, stale>>

Forward(c) ==
  /\ view.path = "home"
  /\ IF NeedsUser(store)
       THEN Send(c, New("getUser")) /\ Shows(Asking(store), ToDashboard(store), asked)
       ELSE UNCHANGED calls /\ Shows(store, At("vault"), asked)
  /\ UNCHANGED <<server, stale>>

(* The request is a new login for LoginRegister: with an earlier one that  *)
(* was answered it goes to the dashboard.                                  *)
SubmitLogin(c, d, right) ==
  LET t == [store EXCEPT !.login.fetching = TRUE]
      goes == t # store /\ t.login.received
      asks == goes /\ NeedsUser(t)
      call == [New("login") EXCEPT !.flag = right]
  IN /\ LoginShown(view, store) /\ ~view.dialog
     /\ calls[c] = Free
     /\ IF asks THEN /\ d # c /\ calls[d] = Free
                     /\ calls' = [calls EXCEPT ![c] = call, ![d] = New("getUser")]
                ELSE /\ d = c
                     /\ Send(c, call)
     /\ Shows(IF asks THEN Asking(t) ELSE t, IF goes THEN ToDashboard(t) ELSE view, asked)
     /\ UNCHANGED <<server, stale>>

(* Only who has no verified account signs up.  The form waits for a key    *)
(* pair and then sends it, be it still shown or not.                       *)
SubmitSignup ==
  /\ account # "verified"
  /\ RegisterShown(view, store) /\ ~view.loading /\ ~store.signup.received
  /\ asked["keyPair"] < MaxAsked
  /\ Shows(store, [view EXCEPT !.loading = TRUE], [asked EXCEPT !["keyPair"] = @ + 1])
  /\ UNCHANGED <<server, calls, stale>>

KeyPairMade(c) ==
  /\ asked["keyPair"] > 0
  /\ Send(c, New("signup"))
  /\ asked' = [asked EXCEPT !["keyPair"] = @ - 1]
  /\ UNCHANGED <<server, store, view, stale>>

(* UnverifiedBar: the button is there until the first answer.              *)
Resend(c) ==
  /\ view.path # "none" /\ store.user.received /\ account = "new" /\ ~store.user.resent
  /\ Send(c, New("resend"))
  /\ UNCHANGED <<server, store, view, asked, stale>>

Logout(c) ==
  /\ view.path # "none" /\ store.user.received
  /\ Send(c, New("logout"))
  /\ UNCHANGED <<server, store, view, asked, stale>>

(* SignU2F: the button of a stage that has one.                            *)
FetchSign(c) ==
  /\ view.sign \in {"notStarted", "retry"}
  /\ Send(c, New("signChallenge"))
  /\ UNCHANGED <<server, store, view, asked, stale>>

-----------------------------------------------------------------------------
(* The answers, in the page.                                               *)
GotUser(flag) == [NoUser EXCEPT !.enforced = flag, !.received = TRUE]

UserAnswered(c) ==
  /\ \/ /\ Arrives(c, "getUser", "ok")
        /\ HandOver(c, [store EXCEPT !.user = GotUser(calls[c].flag)], view)
     \/ /\ Arrives(c, "getUser", "refused")
        /\ HandOver(c, [store EXCEPT !.user = [NoUser EXCEPT !.error = TRUE]], view)
  /\ UNCHANGED <<server, stale>>

SignedIn(flag) ==
  [store EXCEPT !.user = GotUser(flag), !.login.received = TRUE, !.login.fetching = FALSE]

(* Login shows the U2F dialog if it is told "U2F required" and was not     *)
(* showing an error; the dialog asks for a challenge when it mounts.       *)
LoginAnswered(c) ==
  LET t == [store EXCEPT !.login = [NoLogin EXCEPT !.error = TRUE]]
      opens == LoginShown(view, store) /\ ~view.dialog
                 /\ ~store.login.error /\ calls[c].flag
  IN /\ \/ /\ Arrives(c, "login", "ok")
           /\ HandOver(c, SignedIn(calls[c].flag), view)
        \/ /\ Arrives(c, "login", "refused") /\ ~opens
           /\ HandOver(c, t, view)
        \/ /\ Arrives(c, "login", "refused") /\ opens
           /\ calls' = [calls EXCEPT ![c] = New("signChallenge")]
           /\ Shows(t, [view EXCEPT !.dialog = TRUE], asked)
     /\ UNCHANGED <<server, stale>>

SignupState(ok) ==
  IF ok THEN [store.signup EXCEPT !.received = TRUE] ELSE [error |-> TRUE, received |-> FALSE]

LoadingOver(old, new) ==
  \/ ~old.error /\ new.error
  \/ ~old.received /\ new.received

SignupAnswered(c) ==
  LET t == [store EXCEPT !.signup = SignupState(calls[c].phase = "ok")]
  IN /\ calls[c].kind = "signup" /\ calls[c].phase # "sent"
     /\ Quietly(c)
     /\ Shows(t, [view EXCEPT !.loading = @ /\ ~LoadingOver(store.signup, t.signup)], asked)
     /\ UNCHANGED <<server, stale>>

ResendAnswered(c) ==
  /\ calls[c].kind = "resend" /\ calls[c].phase # "sent"
  /\ HandOver(c, [store EXCEPT !.user.resent = TRUE], view)
  /\ UNCHANGED <<server, stale>>

LoggedOut_KeepsUser == [EmptyStore EXCEPT !.user = store.user]

LoggedOut == EmptyStore

(* Only a call that succeeded changes the page; Nav then goes home.  A     *)
(* call under way that brings a user is overtaken.                         *)
LogoutAnswered(c) ==
  /\ \/ /\ Arrives(c, "logout", "ok")
        /\ Shows(LoggedOut, IF view.path \in Dashboard THEN At("home") ELSE view, asked)
        /\ stale' = (stale \/ InFlight({"getUser", "login", "signFinish", "require"}))
     \/ /\ Arrives(c, "logout", "refused")
        /\ UNCHANGED <<store, view, asked, stale>>
  /\ Quietly(c)
  /\ UNCHANGED server

(* SignU2F changes its state, if it is there.                              *)
SignStage(stage) == IF view.sign = "off" THEN view ELSE [view EXCEPT !.sign = stage]

SignChallengeAnswered(c) ==
  /\ \/ /\ Arrives(c, "signChallenge", "ok") /\ view.sign # "off"
        /\ asked["sign"] < MaxAsked
        /\ Shows(store, SignStage("tapRequired"), [asked EXCEPT !["sign"] = @ + 1])
     \/ /\ Arrives(c, "signChallenge", "ok") /\ view.sign = "off"
        /\ UNCHANGED <<store, view, asked>>
     \/ /\ Arrives(c, "signChallenge", "refused")
        /\ Shows(store, SignStage("retry"), asked)
  /\ Quietly(c)
  /\ UNCHANGED <<server, stale>>

SignFinishAnswered(c) ==
  /\ \/ /\ Arrives(c, "signFinish", "ok")
        /\ HandOver(c, SignedIn(calls[c].flag), view)
     \/ /\ Arrives(c, "signFinish", "refused")
        /\ Quietly(c)
        /\ Shows(store, SignStage("retry"), asked)
  /\ UNCHANGED <<server, stale>>

(* u2f.sign calls back: the callback of a dialog that is gone sends its    *)
(* answer all the same, but has no state to set.                           *)
SignedTap(c, owner) ==
  /\ asked[owner] > 0
  /\ Send(c, New("signFinish"))
  /\ asked' = [asked EXCEPT ![owner] = @ - 1]
  /\ UNCHANGED <<server, store, view, stale>>

SignGivenUp(owner) ==
  /\ asked[owner] > 0
  /\ Shows(store, IF owner = "sign" THEN SignStage("retry") ELSE view,
           [asked EXCEPT ![owner] = @ - 1])
  /\ UNCHANGED <<server, calls, stale>>

-----------------------------------------------------------------------------
(* The server.                                                             *)
ServeUser(c) ==
  /\ Serves(c, "getUser")
  /\ IF Readable THEN Reply(c, "ok", enforced) ELSE Reply(c, "refused", FALSE)
  /\ UNCHANGED <<server, store, view, asked, stale>>

(* A session that may write is not asked for the password.                 *)
ServeLogin(c) ==
  LET right == calls[c].flag /\ account # "none"
  IN /\ Serves(c, "login")
     /\ CASE session = "full" -> Reply(c, "ok", enforced) /\ UNCHANGED <<session, over>>
          [] session # "full" /\ right /\ enforced ->
               Reply(c, "refused", TRUE) /\ SetSession("half")
          [] session # "full" /\ right /\ ~enforced ->
               Reply(c, "ok", FALSE) /\ SetSession("full")
          [] OTHER -> Reply(c, "refused", FALSE) /\ UNCHANGED <<session, over>>
     /\ UNCHANGED <<account, enforced, devices, store, view, asked, stale>>

(* The mail may fail after the user is saved: an account, but no session.  *)
ServeSignup(c) ==
  /\ Serves(c, "signup")
  /\ \/ /\ account = "none"
        /\ account' = "new" /\ SetSession("read")
        /\ Reply(c, "ok", FALSE)
     \/ /\ account = "none"
        /\ account' = "new"
        /\ Reply(c, "refused", FALSE) /\ UNCHANGED <<session, over>>
     \/ /\ account # "none"
        /\ Reply(c, "refused", FALSE) /\ UNCHANGED <<account, session, over>>
  /\ UNCHANGED <<enforced, devices, store, view, asked, stale>>

(* The mail that verifies is sent again, or the sending fails.             *)
ServeResend(c) ==
  /\ Serves(c, "resend")
  /\ Reply(c, IF Readable THEN "ok" ELSE "refused", FALSE)
  /\ UNCHANGED <<server, store, view, asked, stale>>

ServeLogout(c) ==
  /\ Serves(c, "logout")
  /\ SetSession("none")
  /\ Reply(c, "ok", FALSE)
  /\ UNCHANGED <<account, enforced, devices, store, view, asked, stale>>

ServeSign(c) ==
  /\ \/ /\ Serves(c, "signChallenge")
        /\ Reply(c, IF session # "none" /\ devices # {} THEN "ok" ELSE "refused", FALSE)
        /\ UNCHANGED <<session, over>>
     \/ /\ Serves(c, "signFinish") /\ session = "half" /\ devices # {}
        /\ Reply(c, "ok", enforced)
        /\ SetSession("full")
     \/ /\ Serves(c, "signFinish") /\ ~(session = "half" /\ devices # {})
        /\ Reply(c, "refused", FALSE)
        /\ UNCHANGED <<session, over>>
  /\ UNCHANGED <<account, enforced, devices, store, view, asked, stale>>

(* A call is sent in a free slot, served, and then answered.               *)
SignInNext ==
  \/ SwitchForm \/ GoToDashboard \/ Back \/ SubmitSignup
  \/ \E owner \in {"sign", "signGone"} : SignGivenUp(owner)
  \/ \E c \in Slots :
       \/ Forward(c)
       \/ /\ calls[c] = Free
          /\ \/ \E d \in Slots, right \in BOOLEAN : SubmitLogin(c, d, right)
             \/ KeyPairMade(c) \/ Resend(c) \/ Logout(c) \/ FetchSign(c)
             \/ \E owner \in {"sign", "signGone"} : SignedTap(c, owner)
       \/ /\ calls[c] # Free /\ calls[c].phase = "sent"
          /\ \/ ServeUser(c) \/ ServeLogin(c) \/ ServeSignup(c) \/ ServeResend(c)
             \/ ServeLogout(c) \/ ServeSign(c)
       \/ /\ calls[c].phase # "sent"
          /\ \/ UserAnswered(c) \/ LoginAnswered(c) \/ SignupAnswered(c) \/ ResendAnswered(c)
             \/ LogoutAnswered(c) \/ SignChallengeAnswered(c) \/ SignFinishAnswered(c)
=============================================================================
