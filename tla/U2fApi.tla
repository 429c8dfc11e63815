------------------------------- MODULE U2fApi -------------------------------
(***************************************************************************)
(* ui/public/u2f-api.js: one port to whatever answers U2F requests, the    *)
(* callbacks waiting for that port, request ids and the callbacks waiting  *)
(* for their answers.  The other side of the port is not in the repository *)
(* and is taken as the file uses it.                                       *)
(***************************************************************************)
EXTENDS Integers, Sequences, FiniteSets

CONSTANTS
  Calls,    \* calls of u2f.sign and u2f.register
  Repeats,  \* bound on messages that arrive twice
  None      \* "no such value"

VARIABLES
  world,      \* what the page runs on
  getting,    \* what getMessagePort waits for
  port,       \* u2f.port_
  up,         \* the port to the extension is connected
  waiting,    \* u2f.waitingForPort_: the calls whose callbacks are there
  version,    \* js_api_version
  counter,    \* u2f.reqCounter_
  callbacks,  \* u2f.callbackMap_
  posted,     \* requests posted to the other side
  answers,    \* messages on their way back
  kind,       \* what each call is
  repeats,    \* messages that arrived twice
  heard,      \* history: whose answers the callback of a call was given
  lost        \* history: calls that threw, or whose answer nobody read

io == <<counter, callbacks, posted, lost>>
vars == <<world, getting, port, up, waiting, version, counter, callbacks, posted,
          answers, kind, repeats, heard, lost>>

-----------------------------------------------------------------------------
(* A call asks for the version and then sends its request: two ids.        *)
Ids == 0..(2 * Cardinality(Calls))

(* A call names the keys that are registered (u2f.sign does, u2f.register  *)
(* too once there are some), or has null for them: the first registration. *)
Kinds == {"named", "first"}
Steps == {"version", "request"}
Ports == {"runtime", "authenticator", "ios", "iframe"}
Versions == {0, 1}      \* 0 is 1.0 or none at all; 1 is 1.1

Callback == [id : Ids, call : Calls, step : Steps]
Request == [id : Ids, call : Calls, step : Steps, format : Versions]
Message == [id : Ids, call : Calls, value : Versions \cup {None}, data : BOOLEAN]

ASSUME ConstantsAssumption ==
  /\ IsFiniteSet(Calls) /\ Repeats \in Nat
  /\ None \notin Calls \cup Versions /\ None \notin Kinds \cup Ports

(* The way to the other side: chrome.runtime, which may or may not answer  *)
(* this origin, an iframe with a page of the extension, or a phone's app.  *)
(* `installed`: that page exists; `speaks`: the version over there.        *)
Worlds ==
  [browser : {"direct"}, installed : {TRUE}, speaks : Versions]
    \cup [browser : {"refused", "frame"}, installed : BOOLEAN, speaks : Versions]
    \cup [browser : {"android", "ios"}, installed : {TRUE}, speaks : {1}]

TypeOK ==
  /\ world \in Worlds
  /\ getting \in {"no", "probe", "timer", "frame"}
  /\ port \in Ports \cup {None}
  /\ up \in BOOLEAN
  /\ waiting \in Seq(Calls) /\ Len(waiting) <= Cardinality(Calls)
  /\ version \in Versions \cup {None}
  /\ counter \in Ids
  /\ callbacks \subseteq Callback
  /\ posted \subseteq Request
  /\ answers \subseteq Message
  /\ kind \in [Calls -> Kinds \cup {None}]
  /\ repeats \in 0..Repeats
  /\ heard \in [Calls -> Seq(Calls)]
  /\ lost \subseteq Calls

Init ==
  /\ world \in Worlds
  /\ getting = "no" /\ port = None /\ up = TRUE
  /\ waiting = <<>>
  /\ version = None
  /\ counter = 0 /\ callbacks = {} /\ posted = {}
  /\ answers = {}
  /\ kind = [c \in Calls |-> None]
  /\ repeats = 0
  /\ heard = [c \in Calls |-> <<>>]
  /\ lost = {}

-----------------------------------------------------------------------------
(* Posting.  An id is taken and the callback stored before the message is  *)
(* built and posted, and either may throw: a port that is disconnected     *)
(* does, and so does the 1.0 form of a request whose keys are null.  The   *)
(* calls of the sequence cs post one after the other.                      *)
Box == [counter |-> counter, callbacks |-> callbacks, posted |-> posted, lost |-> lost]

Fits(k, step, v) == step = "version" \/ v = 1 \/ k # "first"

NextId_Post(box) == box.counter

NextId(box) == box.counter + 1

SendRequests(box, cs, kinds, step, v) ==
  LET id(i) == NextId(box) + i - 1
      sent == {i \in DOMAIN cs : up /\ Fits(kinds[cs[i]], step, v)}
      request(i) == [id |-> id(i), call |-> cs[i], step |-> step, format |-> v]
  IN  [counter |-> box.counter + Len(cs),
       callbacks |-> {b \in box.callbacks : \A i \in DOMAIN cs : b.id # id(i)}
                       \cup {[id |-> id(i), call |-> cs[i], step |-> step] : i \in DOMAIN cs},
       posted |-> box.posted \cup {request(i) : i \in sent},
       lost |-> box.lost \cup {cs[i] : i \in (DOMAIN cs) \ sent}]

IO(box) ==
  /\ counter' = box.counter
  /\ callbacks' = box.callbacks
  /\ posted' = box.posted
  /\ lost' = box.lost

-----------------------------------------------------------------------------
(* u2f.sign and u2f.register.  The first call without a port sets out to   *)
(* get one; the others wait for it.                                        *)
FirstStage == CASE world.browser \in {"direct", "refused"} -> "probe"
                [] world.browser = "frame" -> "frame"
                [] OTHER -> "timer"

GetPort(c) ==
  /\ waiting' = Append(waiting, c)
  /\ getting' = IF waiting = <<>> THEN FirstStage ELSE getting
  /\ UNCHANGED io

Call(c, k) ==
  /\ kind[c] = None
  /\ kind' = [kind EXCEPT ![c] = k]
  /\ IF port = None
       THEN GetPort(c)
       ELSE /\ IO(SendRequests(Box, <<c>>, [kind EXCEPT ![c] = k],
                               IF version = None THEN "version" ELSE "request",
                               IF version = None THEN 0 ELSE version))
            /\ UNCHANGED <<waiting, getting>>
  /\ UNCHANGED <<world, port, up, version, answers, repeats, heard>>

(* getMessagePort: chrome.runtime is asked whether the extension answers   *)
(* this origin.                                                            *)
Probe ==
  /\ getting = "probe"
  /\ getting' = IF world.browser = "direct" THEN "timer" ELSE "frame"
  /\ UNCHANGED <<world, port, up, waiting, version, io, answers, kind, repeats, heard>>

(* The port is there: everybody who waits for it is called in turn.  The   *)
(* phone apps count as speaking 1.1, without being asked, so their callers *)
(* go on to their requests at once; if a callback throws, those behind it  *)
(* are left waiting.                                                       *)
Mobile(p) == p \in {"authenticator", "ios"}

Called_First == IF waiting = <<>> THEN <<>> ELSE <<Head(waiting)>>

Called == IF up \/ waiting = <<>> THEN waiting ELSE <<Head(waiting)>>

Drain(p) ==
  LET step == IF Mobile(p) THEN "request" ELSE "version"
      v == IF Mobile(p) THEN 1 ELSE 0
  IN  /\ port' = p
      /\ IO(SendRequests(Box, Called, kind, step, v))
      /\ waiting' = SubSeq(waiting, Len(Called) + 1, Len(waiting))
      /\ version' = IF Mobile(p) THEN 1 ELSE version
      /\ getting' = "no"
      /\ UNCHANGED <<world, up, answers, kind, repeats, heard>>

(* setTimeout of getChromeRuntimePort_, getAuthenticatorPort_, getIosPort_. *)
TimerFires ==
  /\ getting = "timer"
  /\ Drain(CASE world.browser = "android" -> "authenticator"
             [] world.browser = "ios"     -> "ios"
             [] OTHER                     -> "runtime")

(* getIframePort_: the extension's page in the iframe says "ready".        *)
FrameReady ==
  /\ getting = "frame" /\ world.installed
  /\ Drain("iframe")

(* The extension is disabled or restarted and its port with it.            *)
Disconnect ==
  /\ up
  /\ port = "runtime" \/ (world.browser = "direct" /\ getting = "timer")
  /\ up' = FALSE
  /\ UNCHANGED <<world, getting, port, waiting, version, io, answers, kind, repeats, heard>>

-----------------------------------------------------------------------------
(* The other side answers a request when the device was touched or its     *)
(* time is over, in any order; a message may arrive again.  An old         *)
(* extension answers a question for its version with an error, a new one   *)
(* may.  The authenticator app may answer with an error code and no data.  *)
Answer(id) ==
  \E r \in posted :
    /\ r.id = id /\ up
    /\ \E v \in {world.speaks, None}, full \in BOOLEAN :
         /\ full \/ port = "authenticator"
         /\ world.speaks = 0 => v = None
         /\ r.step = "request" => v = None
         /\ answers' = answers \cup
              {[id |-> id, call |-> r.call, value |-> v, data |-> full]}
    /\ posted' = posted \ {r}
    /\ UNCHANGED <<world, getting, port, up, waiting, version, counter, callbacks,
                   kind, repeats, heard, lost>>

(* responseHandler_.  Without a version in it, an answer means 1.0.        *)
Known_Raw(m) == m.value

Known_Newest(m) == IF m.value = None THEN 1 ELSE m.value

Known(m) == IF m.value = None THEN 0 ELSE m.value

Kept_All(id) == callbacks

Kept(id) == {b \in callbacks : b.id # id}

(* The iOS port listens to nothing; a message without data makes the       *)
(* handler throw before it has looked for a callback.                      *)
Unread(m) == port = "ios" \/ ~m.data

Receive(id) ==
  \E m \in answers :
    /\ m.id = id
    /\ \/ answers' = answers \ {m} /\ UNCHANGED repeats
       \/ repeats < Repeats /\ repeats' = repeats + 1 /\ UNCHANGED answers
    /\ UNCHANGED <<world, getting, port, up, waiting, kind>>
    /\ \/ /\ Unread(m)
          /\ lost' = lost \cup {m.call}
          /\ UNCHANGED <<version, counter, callbacks, posted, heard>>
       \/ /\ ~Unread(m)
          /\ id = 0 \/ \A b \in callbacks : b.id # id
          /\ UNCHANGED <<version, io, heard>>
       \/ /\ ~Unread(m) /\ id # 0
          /\ \E b \in callbacks :
               /\ b.id = id
               /\ LET box == [Box EXCEPT !.callbacks = Kept(id)] IN
                  IF b.step = "version"
                    THEN /\ version' = Known(m)
                         /\ IO(SendRequests(box, <<b.call>>, kind, "request", Known(m)))
                         /\ UNCHANGED heard
                    ELSE /\ heard' = [heard EXCEPT ![b.call] = Append(@, m.call)]
                         /\ IO(box)
                         /\ UNCHANGED version

-----------------------------------------------------------------------------
Next ==
  \/ \E c \in Calls, k \in Kinds : Call(c, k)
  \/ Probe \/ TimerFires \/ FrameReady \/ Disconnect
  \/ \E id \in Ids : Answer(id) \/ Receive(id)

(* The browser runs timers and delivers messages; a request carries the    *)
(* time after which the other side must answer it, if only with an error.  *)
Spec ==
  /\ Init /\ [][Next]_vars
  /\ WF_vars(Probe) /\ WF_vars(TimerFires) /\ WF_vars(FrameReady)
  /\ \A id \in Ids : WF_vars(Answer(id)) /\ WF_vars(Receive(id))

-----------------------------------------------------------------------------
(* u2f-api.js:550-613: whatever calls overlap, each callback is called once *)
(* at most, with the answer to its own request, although answers come in   *)
(* any order and may come twice.                                           *)
Promise == INSTANCE U2fPromise WITH asked <- {c \in Calls : kind[c] # None}
PromiseSpec == Promise!Spec

(* u2f-api.js:282 and 320, "compliant with the JS API version supported by *)
(* the extension": no request is posted in the form of a version that the  *)
(* other side does not speak, whichever of several answers about the       *)
(* version came last.                                                      *)
Understood ==
  \A r \in posted :
    r.step = "request" /\ r.format = 1 => Mobile(port) \/ world.speaks = 1

(* u2f-api.js:554-566: nobody waits for a port that nobody is getting,     *)
(* unless a callback threw while the queue was emptied.                    *)
NobodyForgotten == waiting # <<>> => getting # "no" \/ ~up

(* What keeps a call from ever being answered.                             *)
Hopeless(c) ==
  \/ ~up
  \/ getting = "frame" /\ ~world.installed
  \/ c \in lost

(* u2f-api.js:603-613: every call is called back, unless its answer comes  *)
(* in a form nobody reads, the other side is not there, or the request     *)
(* could not be built.                                                     *)
CalledBack ==
  \A c \in Calls : kind[c] # None ~> heard[c] # <<>> \/ Hopeless(c)
=============================================================================
