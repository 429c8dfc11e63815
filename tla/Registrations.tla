---------------------------- MODULE Registrations ----------------------------
(***************************************************************************)
(* The account page's panel of U2F registrations with its dialog for a new *)
(* device, and the handlers of the server behind them.                     *)
(***************************************************************************)
EXTENDS BrowserStore

NeedsRegs(s) == ~s.regs.received /\ ~s.regs.fetching

AskingRegs(s) == [s EXCEPT !.regs = [NoRegs EXCEPT !.fetching = TRUE]]

(* The panel asks for the list when it mounts, and is first rendered with  *)
(* the one it had: a Map takes the page down here too.                     *)
ToAccount(c) ==
  LET v == Render([At("account") EXCEPT !.toggle = store.user.enforced], store)
  IN /\ view.path = "vault"
     /\ IF NeedsRegs(store)
          THEN Send(c, New("getRegs")) /\ Shows(AskingRegs(store), v, asked)
          ELSE UNCHANGED calls /\ Shows(store, v, asked)
     /\ UNCHANGED <<server, stale>>

ToVault ==
  /\ view.path = "account"
  /\ Shows(store, At("vault"), asked)
  /\ UNCHANGED <<server, calls, stale>>

(* The server is told only if there are registrations (a Map is not empty).*)
Toggle(c) ==
  /\ view.path = "account"
  /\ IF store.regs.list # {} \/ store.regs.isMap
       THEN Send(c, [New("require") EXCEPT !.flag = ~view.toggle])
       ELSE UNCHANGED calls
  /\ Shows(store, [view EXCEPT !.toggle = ~@], asked)
  /\ UNCHANGED <<server, stale>>

DeleteU2f(c, d) ==
  /\ view.path = "account" /\ view.toggle /\ d \in store.regs.list
  /\ Send(c, [New("delReg") EXCEPT !.devices = {d}])
  /\ UNCHANGED <<server, store, view, asked, stale>>

(* RegisterU2F: the button of a stage that has one.                        *)
BeginRegister(c) ==
  /\ view.register \in {"notStarted", "retry"}
  /\ Send(c, New("regChallenge"))
  /\ UNCHANGED <<server, store, view, asked, stale>>

-----------------------------------------------------------------------------
(* The answers, in the page.  Those about the registrations that fail put  *)
(* the default state of the whole reducer in its part `registrations`.     *)
FailedRegs_Fetching(s) == [s EXCEPT !.regs.isMap = TRUE, !.regs.list = {}]

FailedRegs(s) == [s EXCEPT !.regs = [NoRegs EXCEPT !.isMap = TRUE]]

RegsAnswered(c) ==
  /\ \/ /\ Arrives(c, "getRegs", "ok")
        /\ Shows([store EXCEPT !.regs = [NoRegs EXCEPT !.list = calls[c].devices,
                                                       !.received = TRUE]], view, asked)
     \/ /\ Arrives(c, "getRegs", "refused")
        /\ Shows(FailedRegs(store), view, asked)
  /\ Quietly(c)
  /\ UNCHANGED <<server, stale>>

(* An answer that the server gave before this one may be about to undo it. *)
Outdated(c) ==
  stale \/ \E e \in Slots \ {c} :
             calls[e].kind \in {"getRegs", "regFinish", "delReg"} /\ calls[e].phase = "ok"

(* On a Map the reducer throws, which leaves the store as it is.           *)
DeleteAnswered(c) ==
  /\ \/ /\ Arrives(c, "delReg", "ok")
        /\ Shows([store EXCEPT !.regs.list = @ \ calls[c].devices], view, asked)
        /\ stale' = Outdated(c)
     \/ /\ Arrives(c, "delReg", "refused")
        /\ Shows(FailedRegs(store), view, asked)
        /\ UNCHANGED stale
  /\ Quietly(c)
  /\ UNCHANGED server

(* A refusal only sets an error that nothing shows: the toggle stays.      *)
RequireAnswered(c) ==
  /\ \/ /\ Arrives(c, "require", "ok")
        /\ HandOver(c, [store EXCEPT !.user = [NoUser EXCEPT !.enforced = calls[c].flag,
                                                             !.received = TRUE]],
                    view)
     \/ /\ Arrives(c, "require", "refused")
        /\ Quietly(c)
        /\ UNCHANGED <<store, view, asked>>
  /\ UNCHANGED <<server, stale>>

(* RegisterU2F changes its state, if it is there.                          *)
RegisterStage(stage) == IF view.register = "off" THEN view ELSE [view EXCEPT !.register = stage]

RegisterChallengeAnswered(c) ==
  /\ \/ /\ Arrives(c, "regChallenge", "ok") /\ view.register # "off"
        /\ asked["register"] < MaxAsked
        /\ Shows(store, RegisterStage("tapRequired"), [asked EXCEPT !["register"] = @ + 1])
     \/ /\ Arrives(c, "regChallenge", "ok") /\ view.register = "off"
        /\ UNCHANGED <<store, view, asked>>
     \/ /\ Arrives(c, "regChallenge", "refused")
        /\ Shows(store, RegisterStage("retry"), asked)
  /\ Quietly(c)
  /\ UNCHANGED <<server, stale>>

(* The new device is pushed to the list and the user is asked for U2F; on  *)
(* a Map the reducer throws, which leaves the whole store as it is.        *)
WithDevice_UserOnly(s, ds) == [s EXCEPT !.user.enforced = TRUE]

WithDevice(s, ds) == [s EXCEPT !.user.enforced = TRUE, !.regs.list = @ \cup ds]

RegisterFinishAnswered(c) ==
  LET v == RegisterStage("notStarted")
      t == WithDevice(store, calls[c].devices)
  IN /\ \/ /\ Arrives(c, "regFinish", "ok") /\ store.regs.isMap
           /\ Quietly(c)
           /\ UNCHANGED <<store, view, asked>>
           /\ stale' = Outdated(c)
        \/ /\ Arrives(c, "regFinish", "ok") /\ ~store.regs.isMap
           /\ IF store.user.enforced THEN Quietly(c) /\ Shows(t, v, asked)
                                     ELSE HandOver(c, t, v)
           /\ stale' = Outdated(c)
        \/ /\ Arrives(c, "regFinish", "refused")
           /\ Quietly(c)
           /\ Shows(store, RegisterStage("retry"), asked)
           /\ UNCHANGED stale
     /\ UNCHANGED server

(* u2f.register calls back.  A device makes a new key for a registration.  *)
RegisteredTap(c, owner, d) ==
  /\ asked[owner] > 0
  /\ d \notin devices \cup store.regs.list \cup UNION {calls[e].devices : e \in Slots}
  /\ Send(c, [New("regFinish") EXCEPT !.devices = {d}])
  /\ asked' = [asked EXCEPT ![owner] = @ - 1]
  /\ UNCHANGED <<server, store, view, stale>>

RegisterGivenUp_Silent(owner) ==
  /\ asked[owner] > 0
  /\ asked' = [asked EXCEPT ![owner] = @ - 1]
  /\ UNCHANGED <<server, store, view, calls, stale>>

RegisterGivenUp(owner) ==
  /\ asked[owner] > 0
  /\ Shows(store, IF owner = "register" THEN RegisterStage("retry") ELSE view,
           [asked EXCEPT ![owner] = @ - 1])
  /\ UNCHANGED <<server, calls, stale>>

-----------------------------------------------------------------------------
(* The server.                                                             *)
Writable == session = "full" /\ account = "verified"

ServeRegs(c) ==
  /\ Serves(c, "getRegs")
  /\ calls' = [calls EXCEPT ![c].phase = IF Readable THEN "ok" ELSE "refused",
                            ![c].devices = IF Readable THEN devices ELSE {}]
  /\ UNCHANGED <<server, store, view, asked, stale>>

ServeRegisterChallenge(c) ==
  /\ Serves(c, "regChallenge")
  /\ Reply(c, IF Writable THEN "ok" ELSE "refused", FALSE)
  /\ UNCHANGED <<server, store, view, asked, stale>>

(* The handlers that change the registrations or what is required.         *)
ServeChange(c) ==
  /\ \/ /\ Serves(c, "regFinish") /\ Writable
        /\ devices' = devices \cup calls[c].devices /\ enforced' = TRUE
        /\ Reply(c, "ok", FALSE)
     \/ /\ Serves(c, "delReg") /\ Writable
        /\ devices' = devices \ calls[c].devices
        /\ enforced' = (enforced /\ Cardinality(devices) # 1)
        /\ Reply(c, "ok", FALSE)
     \/ /\ Serves(c, "require") /\ Writable /\ (calls[c].flag => devices # {})
        /\ enforced' = calls[c].flag
        /\ Reply(c, "ok", calls[c].flag)
        /\ UNCHANGED devices
     \/ /\ calls[c].kind \in {"regFinish", "delReg", "require"} /\ calls[c].phase = "sent"
        /\ ~Writable \/ (calls[c].kind = "require" /\ calls[c].flag /\ devices = {})
        /\ Reply(c, "refused", FALSE)
        /\ UNCHANGED <<enforced, devices>>
  /\ UNCHANGED <<account, session, over, store, view, asked, stale>>

RegistrationsNext ==
  \/ ToVault
  \/ \E owner \in {"register", "registerGone"} : RegisterGivenUp(owner)
  \/ \E c \in Slots :
       \/ ToAccount(c) \/ Toggle(c)
       \/ /\ calls[c] = Free
          /\ \/ BeginRegister(c)
             \/ \E d \in Devices : DeleteU2f(c, d)
             \/ \E owner \in {"register", "registerGone"}, d \in Devices :
                  RegisteredTap(c, owner, d)
       \/ /\ calls[c] # Free /\ calls[c].phase = "sent"
          /\ \/ ServeRegs(c) \/ ServeRegisterChallenge(c) \/ ServeChange(c)
       \/ /\ calls[c].phase # "sent"
          /\ \/ RegsAnswered(c) \/ DeleteAnswered(c) \/ RequireAnswered(c)
             \/ RegisterChallengeAnswered(c) \/ RegisterFinishAnswered(c)
=============================================================================
