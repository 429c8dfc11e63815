------------------------------ MODULE Browser ------------------------------
(***************************************************************************)
(* The page as a whole: signing in and out together with the panel of the  *)
(* registrations, over one store, one router and one server.               *)
(***************************************************************************)
EXTENDS SignIn, Registrations

(* The page is loaded, again or by the link of the mail, which verifies    *)
(* the user and ends the session; Nav asks for the user, an account page   *)
(* for the registrations as well.  Only once nothing is in flight.         *)
Load(c, d, path) ==
  /\ \A e \in Slots : calls[e] = Free
  /\ \/ UNCHANGED server
     \/ /\ account = "new" /\ path = "home"
        /\ account' = "verified" /\ SetSession("none")
        /\ UNCHANGED <<enforced, devices>>
  /\ calls' = [calls EXCEPT ![c] = New("getUser"),
                            ![d] = IF path = "account" THEN New("getRegs") ELSE @]
  /\ (path = "account") <=> (c # d)
  /\ store' = Asking(IF path = "account" THEN AskingRegs(EmptyStore) ELSE EmptyStore)
  /\ view' = At(path)
  /\ asked' = [k \in AskKinds |-> 0]
  /\ stale' = FALSE

Next ==
  \/ SignInNext
  \/ RegistrationsNext
  \/ Expire
  \/ \E c \in Slots : Lose(c)
  \/ \E c, d \in Slots, path \in {"home", "vault", "account"} : Load(c, d, path)

Spec == Init /\ [][Next]_vars

-----------------------------------------------------------------------------
(* Nobody stays on a dashboard without a user: there is one, or the answer *)
(* of GET /api/users that brings one or sends the page home is to come.    *)
DashboardHasUser ==
  view.path \in Dashboard => store.user.received \/ InFlight({"getUser"})

(* Nav, Dashboard and the redirects of LoginRegister all ask for the user, *)
(* across failures, but never twice at a time unless a logout overtook the *)
(* first: it empties the store and with it the mark of the fetch.          *)
OneUserFetch == ~stale => Cardinality({c \in Slots : calls[c].kind = "getUser"}) <= 1

(* A part of the store that says it is being fetched is: nothing blocks    *)
(* the next fetch for good.                                                *)
FetchingIsInFlight ==
  /\ store.user.fetching => InFlight({"getUser"})
  /\ store.regs.fetching => InFlight({"getRegs"})

(* A dialog asks for a tap only while someone is to notice it: a call of   *)
(* the U2F API, or the request with its answer, is under way.              *)
TapHasCall ==
  /\ view.sign = "tapRequired" => asked["sign"] > 0 \/ InFlight({"signFinish"})
  /\ view.register = "tapRequired" => asked["register"] > 0 \/ InFlight({"regFinish"})

(* Once the calls about registrations are answered, and unless an answer   *)
(* was lost or overtaken, the panel lists what the server has, whatever    *)
(* the order in which devices came and went and users left the page.       *)
ListTrue ==
  store.regs.received /\ ~InFlight({"getRegs", "regFinish", "delReg"}) /\ ~stale
    => store.regs.list = devices

(* At rest, and with the same proviso, who is shown as signed in is, or    *)
(* was until the session ran out: the page is not told of that.            *)
SignedInHonest ==
  store.user.received /\ (\A c \in Slots : calls[c] = Free) /\ ~stale
    => session \in {"read", "full"} \/ over

(* "if there is an error or success, loading is done"                      *)
(* (components/Login/register.js:31): the spinner shows only while the key *)
(* pair of a sign-up is made or its answer is to come.                     *)
LoadingDone == view.loading => asked["keyPair"] > 0 \/ InFlight({"signup"})
=============================================================================
