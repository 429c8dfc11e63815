---------------------------- MODULE BrowserStore ----------------------------
(***************************************************************************)
(* One page and one account: the parts login, register, user and u2f of    *)
(* the Redux store, the state of the components that show them, the calls  *)
(* in flight, and the server as these calls find it (its handlers one at   *)
(* a time, as Account has them).                                           *)
(***************************************************************************)
EXTENDS Integers, FiniteSets

CONSTANTS
  Slots,      \* calls that may be in flight
  Devices,    \* U2F devices
  MaxAsked    \* bound on calls of u2f.sign, of u2f.register and for a key pair, not called
              \* back, and on those that outlived their dialog

VARIABLES
  account,    \* server: the user, there or not and verified or not
  session,    \* server: what the session of the page may do
  over,       \* history: the session ran out, and nobody signed in or out since
  enforced,   \* server: U2F is required of the user
  devices,    \* server: the devices registered
  store,      \* the Redux store
  view,       \* the components
  calls,      \* calls in flight
  asked,      \* calls of the U2F API, and of openpgp for a key pair, not called back yet
  stale       \* history: an answer that tells of a change was lost, or came too late

server == <<account, session, over, enforced, devices>>
vars == <<account, session, over, enforced, devices, store, view, calls, asked, stale>>

-----------------------------------------------------------------------------
(* The Redux store.  u2f.registrations.registrations is a list, or after a *)
(* failure the Map of reducers/u2f.js:39 (`isMap`).  u2f.sign and          *)
(* u2f.register are read only by their dialogs, when they change: here the *)
(* answers reach the dialogs by themselves.                                *)
Store ==
  [login : [error : BOOLEAN, fetching : BOOLEAN, received : BOOLEAN],
   signup : [error : BOOLEAN, received : BOOLEAN],
   user : [enforced : BOOLEAN, fetching : BOOLEAN, received : BOOLEAN, error : BOOLEAN,
           resent : BOOLEAN],
   regs : [list : SUBSET Devices, isMap : BOOLEAN, fetching : BOOLEAN, received : BOOLEAN]]

NoUser == [enforced |-> FALSE, fetching |-> FALSE, received |-> FALSE, error |-> FALSE,
           resent |-> FALSE]
NoRegs == [list |-> {}, isMap |-> FALSE, fetching |-> FALSE, received |-> FALSE]
NoLogin == [error |-> FALSE, fetching |-> FALSE, received |-> FALSE]

EmptyStore ==
  [login |-> NoLogin, signup |-> [error |-> FALSE, received |-> FALSE], user |-> NoUser,
   regs |-> NoRegs]

(* The components: the route, the state of LoginRegister, Login, Register, *)
(* SignU2F, U2fRegistrations and RegisterU2F.  One that is not mounted has *)
(* its initial state; "off" is a dialog that is not mounted; "none" is the *)
(* route of a page that is not there: not loaded yet, or taken down by an  *)
(* error in a render.  SUCCEEDED of SignU2F never shows: the answer that   *)
(* completes a login leaves the route; TAP_EXPIRED, FAILED and             *)
(* DEVICE_INELIGIBLE all have the one button that tries again: "retry".    *)
Dialog == {"off", "notStarted", "tapRequired", "retry"}

View ==
  [path : {"none", "home", "vault", "account"}, isRegister : BOOLEAN, dialog : BOOLEAN,
   loading : BOOLEAN, sign : Dialog, toggle : BOOLEAN, register : Dialog]

At(path) ==
  [path |-> path, isRegister |-> FALSE, dialog |-> FALSE, loading |-> FALSE,
   sign |-> "off", toggle |-> FALSE, register |-> "off"]

Dashboard == {"vault", "account"}
FormsShown(v, s) == v.path = "home" /\ ~s.user.received
LoginShown(v, s) == FormsShown(v, s) /\ ~v.isRegister
RegisterShown(v, s) == FormsShown(v, s) /\ v.isRegister

(* Rendering: components appear and disappear with what shows them; a list *)
(* that is a Map makes the panel throw, and React takes the page down.     *)
Opened(shown, stage) ==
  IF ~shown THEN "off" ELSE IF stage = "off" THEN "notStarted" ELSE stage

Crashes(v, s) == v.path = "account" /\ v.toggle /\ s.regs.isMap

Render(v, s) ==
  IF Crashes(v, s) THEN At("none") ELSE
  LET dialog == v.dialog /\ LoginShown(v, s)
      toggle == v.toggle /\ v.path = "account"
  IN [v EXCEPT !.isRegister = @ /\ v.path = "home",
               !.dialog = dialog,
               !.loading = @ /\ RegisterShown(v, s),
               !.sign = Opened(dialog, @),
               !.toggle = toggle,
               !.register = Opened(toggle, @)]

-----------------------------------------------------------------------------
(* Calls.  `flag`: the password is right, U2F is to be required, or in an  *)
(* answer: U2F is required.  `devices`: the one a call is about, or all.   *)
Kinds == {"none", "getUser", "login", "signup", "resend", "logout", "signChallenge",
          "signFinish", "regChallenge", "regFinish", "getRegs", "delReg", "require"}

CallType == [kind : Kinds, phase : {"sent", "ok", "refused"}, flag : BOOLEAN,
             devices : SUBSET Devices]

New(kind) == [kind |-> kind, phase |-> "sent", flag |-> FALSE, devices |-> {}]
Free == New("none")
Readable == session \in {"read", "full"}
InFlight(kinds) == \E c \in Slots : calls[c].kind \in kinds

AskKinds == {"sign", "signGone", "register", "registerGone", "keyPair"}

ASSUME ConstantsAssumption == MaxAsked \in Nat /\ IsFiniteSet(Devices)

(* Every variable stays in its type.                                       *)
TypeOK ==
  /\ account \in {"none", "new", "verified"}
  /\ session \in {"none", "half", "read", "full"}
  /\ over \in BOOLEAN
  /\ enforced \in BOOLEAN
  /\ devices \subseteq Devices
  /\ store \in Store
  /\ view \in View
  /\ calls \in [Slots -> CallType]
  /\ asked \in [AskKinds -> 0..MaxAsked]
  /\ stale \in BOOLEAN

(* Nothing is loaded yet; the account may be in any state it gets into.    *)
Init ==
  /\ account \in {"none", "verified"}
  /\ session \in {"none", "full"} /\ (session = "full" => account = "verified")
  /\ over = FALSE
  /\ devices \in SUBSET Devices /\ (devices # {} => account = "verified")
  /\ enforced \in BOOLEAN /\ (enforced => devices # {})
  /\ store = EmptyStore
  /\ view = At("none")
  /\ calls = [c \in Slots |-> Free]
  /\ asked = [k \in AskKinds |-> 0]
  /\ stale = FALSE

-----------------------------------------------------------------------------
(* A component that goes leaves its calls of the U2F API to themselves; no *)
(* more of these than the bound are kept, those of both dialogs together.  *)
AtMost(n, room) == IF n > room THEN room ELSE n

Disowned(a, v) ==
  LET sign == v.sign = "off"
      register == v.register = "off"
      room == MaxAsked - a["signGone"] - a["registerGone"]
  IN [k \in AskKinds |->
        CASE k = "sign" -> IF sign THEN 0 ELSE a[k]
          [] k = "signGone" -> a[k] + IF sign THEN AtMost(a["sign"], room) ELSE 0
          [] k = "register" -> IF register THEN 0 ELSE a[k]
          [] k = "registerGone" -> a[k] + IF register THEN AtMost(a["register"], room) ELSE 0
          [] OTHER -> a[k]]

(* What a handler of the page does to the page: the store, then what the   *)
(* components make of it.                                                  *)
Shows(s, v, a) ==
  /\ store' = s
  /\ view' = Render(v, s)
  /\ asked' = Disowned(a, view')

Send(c, call) ==
  /\ calls[c] = Free
  /\ calls' = [calls EXCEPT ![c] = call]

Quietly(c) == calls' = [calls EXCEPT ![c] = Free]

Arrives(c, kind, phase) == calls[c].kind = kind /\ calls[c].phase = phase

(* The server's answer to call c.                                          *)
Serves(c, kind) == calls[c].kind = kind /\ calls[c].phase = "sent"

Reply(c, phase, flag) ==
  calls' = [calls EXCEPT ![c].phase = phase, ![c].flag = flag]

(* auth/sessions: the session is set or ended by a request.                *)
SetSession(value) == session' = value /\ over' = (over /\ value = "half")

(* Ten minutes after it was last saved a session is gone (sessions.go:21). *)
Expire ==
  /\ session # "none"
  /\ session' = "none" /\ over' = TRUE
  /\ UNCHANGED <<account, enforced, devices, store, view, calls, asked, stale>>

(* A call that fails on its way, is refused for a reason the model has no  *)
(* state for, or whose answer fails on its way back.                       *)
Lose(c) ==
  /\ calls[c].kind # "none" /\ calls[c].phase # "refused"
  /\ Reply(c, "refused", FALSE)
  /\ stale' = (stale \/ (calls[c].phase = "ok"
                           /\ calls[c].kind \in {"logout", "regFinish", "delReg"}))
  /\ UNCHANGED <<server, store, view, asked>>

-----------------------------------------------------------------------------
(* Mounting Dashboard: fetchUserIfNeeded.  If the last fetch failed the    *)
(* request does not clear its error, and the component, which is given it, *)
(* goes home at once.                                                      *)
NeedsUser_Unguarded(s) == ~s.user.received

NeedsUser(s) == ~s.user.received /\ ~s.user.fetching

Asking(s) == [s EXCEPT !.user.fetching = TRUE]

ToDashboard_NoReplace(s) == IF s.user.error THEN At("home") ELSE At("dashboard")

ToDashboard(s) == IF s.user.error THEN At("home") ELSE At("vault")

(* LoginRegister and Dashboard are given a new login or user: they change  *)
(* the route.  U2fRegistrations follows a user who is now asked for U2F.   *)
Routed_Stays(t, v) ==
  IF v.path = "home" /\ t.login.received THEN ToDashboard(t) ELSE v

Routed(t, v) ==
  CASE v.path = "home" /\ t.login.received -> ToDashboard(t)
    [] v.path \in Dashboard /\ t.user.error -> At("home")
    [] OTHER -> [v EXCEPT !.toggle =
                   @ \/ (v.path = "account" /\ t.user.enforced /\ ~store.user.enforced)]

HandOver(c, t, v) ==
  LET asks == v.path = "home" /\ t.login.received /\ NeedsUser(t)
  IN /\ calls' = [calls EXCEPT ![c] = IF asks THEN New("getUser") ELSE Free]
     /\ Shows(IF asks THEN Asking(t) ELSE t, Routed(t, v), asked)
=============================================================================
