----------------------------- MODULE Page_proofs -----------------------------
(***************************************************************************)
(* Theorems about Page, for any number of calls in flight, entries, keys   *)
(* and versions.  What the page shows of the server is proved for a user   *)
(* who waits for one answer before asking for the next (OneRequest); the   *)
(* types, the fetches and the privacy of keys for one who does not.        *)
(***************************************************************************)
EXTENDS Page, FiniteSetTheorems, TLAPS

(* Keys.addKeySuccess looks for the public key among those posted: there   *)
(* is one.                                                                 *)
AddsPublic == \A c \in Slots : calls[c].kind = "addKeys" => calls[c].ids \ PrivateIds # {}

TypeInv == TypeOK /\ AddsPublic

(* Sending and asking: the call is there, the others are as they were.     *)
LEMMA SendCalls ==
  ASSUME calls \in [Slots -> Call], NEW c \in Slots, NEW call, Send(c, call)
  PROVE  /\ calls[c] = Free /\ calls'[c] = call
         /\ \A d \in Slots : d # c => calls'[d] = calls[d]
         /\ call \in Call => calls' \in [Slots -> Call]
BY DEF Send

LEMMA FreeCall ==
  /\ Free \in Call /\ Free.kind = "none" /\ ~Free.served
  /\ \A k \in Kinds : LET call == [Free EXCEPT !.kind = k]
                      IN  call \in Call /\ call.kind = k /\ ~call.served
  /\ \A k \in Kinds : Unchanging(k) \in Call /\ Unchanging(k).kind = k /\ Unchanging(k).served
BY DEF Free, Call, Unchanging, Kinds, UserKinds

(* The calls a user may ask for, as the actions write them down.           *)
AskedFor(call) ==
  /\ call \in Call /\ call.kind \in UserKinds
  /\ call.served <=> call.kind \in {"getKey", "logout"}
  /\ call.kind = "addKeys" => call.ids \ PrivateIds # {}

Asking(c, call) == AskedFor(call) /\ Ask(c, call)

UserAct(c) ==
  \/ AddEntry(c) \/ Reencrypt(c) \/ DeleteByTitle(c) \/ AddKeys(c) \/ RevokeKey(c)
  \/ FetchKeyByID(c) \/ Logout(c)

LEMMA UserActAsks ==
  ASSUME TypeInv, NEW c \in Slots, UserAct(c) PROVE \E call : Asking(c, call)
<1>0. /\ vault.rows \subseteq Entry /\ keys.rows \subseteq Listed
      /\ newKey \in (KeyIds \ PrivateIds) \cup {None}
  BY DEF TypeInv, TypeOK
<1>1. ASSUME NEW ids \in SUBSET KeyIds, NEW t \in Titles \cup {None}, NEW es \in SUBSET Entry
      PROVE  /\ AskedFor([Free EXCEPT !.kind = "post", !.title = t, !.ids = ids])
             /\ AskedFor([Free EXCEPT !.kind = "post", !.entries = es])
             /\ AskedFor([Free EXCEPT !.kind = "drop", !.title = t])
             /\ AskedFor([Free EXCEPT !.kind = "revoke", !.ids = ids])
             /\ ids \ PrivateIds # {} => AskedFor([Free EXCEPT !.kind = "addKeys", !.ids = ids])
  <2>1. LET call == [Free EXCEPT !.kind = "post", !.title = t, !.ids = ids]
        IN  call \in Call /\ call.kind = "post" /\ ~call.served
    BY DEF Free, Call, Kinds, UserKinds
  <2>2. LET call == [Free EXCEPT !.kind = "post", !.entries = es]
        IN  call \in Call /\ call.kind = "post" /\ ~call.served
    BY DEF Free, Call, Kinds, UserKinds
  <2>3. LET call == [Free EXCEPT !.kind = "drop", !.title = t]
        IN  call \in Call /\ call.kind = "drop" /\ ~call.served
    BY DEF Free, Call, Kinds, UserKinds
  <2>4. LET call == [Free EXCEPT !.kind = "revoke", !.ids = ids]
        IN  call \in Call /\ call.kind = "revoke" /\ ~call.served
    BY DEF Free, Call, Kinds, UserKinds
  <2>5. LET call == [Free EXCEPT !.kind = "addKeys", !.ids = ids]
        IN  call \in Call /\ call.kind = "addKeys" /\ ~call.served /\ call.ids = ids
    BY DEF Free, Call, Kinds, UserKinds
  <2> QED BY <2>1, <2>2, <2>3, <2>4, <2>5 DEF AskedFor, UserKinds
<1>2. AskedFor(Unchanging("getKey")) /\ AskedFor(Unchanging("logout"))
  BY DEF AskedFor, Free, Call, Kinds, UserKinds, Unchanging
<1>3. \A k \in keys.rows : k.id \in KeyIds BY <1>0 DEF Listed
<1>4. ShownTitles \subseteq Titles /\ PublicListed \subseteq KeyIds
  BY <1>0, <1>3 DEF ShownTitles, PublicListed, Entry
<1>5. CASE AddEntry(c)
  <2>1. PICK t \in Titles, ks \in SUBSET PublicListed :
          Ask(c, [Free EXCEPT !.kind = "post", !.title = t, !.ids = ks])
    BY <1>5 DEF AddEntry
  <2> QED BY <1>1, <1>4, <2>1 DEF Asking
<1>6. CASE Reencrypt(c)
  <2>1. PICK old \in PublicListed :
          LET chosen == {e \in NewestShown : e.key = old}
          IN  Ask(c, [Free EXCEPT !.kind = "post",
                                  !.entries = {[e EXCEPT !.key = newKey] : e \in chosen}])
    BY <1>6 DEF Reencrypt
  <2> DEFINE copies == {[e EXCEPT !.key = newKey] : e \in {e \in NewestShown : e.key = old}}
  <2>2. newKey \in KeyIds BY <1>0, <1>6 DEF Reencrypt
  <2>3. NewestShown \subseteq Entry BY <1>0 DEF NewestShown
  <2>4. copies \subseteq Entry BY <2>2, <2>3 DEF Entry
  <2>5. Ask(c, [Free EXCEPT !.kind = "post", !.entries = copies]) BY <2>1
  <2> HIDE DEF copies
  <2> QED BY <1>1, <2>4, <2>5 DEF Asking
<1>7. CASE DeleteByTitle(c) BY <1>1, <1>4, <1>7 DEF DeleteByTitle, Asking
<1>8. CASE AddKeys(c)
  <2>1. PICK public \in FreshIds \ PrivateIds,
             private \in {{}} \cup {{k} : k \in FreshIds \cap PrivateIds} :
          Ask(c, [Free EXCEPT !.kind = "addKeys", !.ids = {public} \cup private])
    BY <1>8 DEF AddKeys
  <2>2. {public} \cup private \in SUBSET KeyIds /\ ({public} \cup private) \ PrivateIds # {}
    BY DEF FreshIds
  <2> QED BY <1>1, <2>1, <2>2 DEF Asking
<1>9. CASE RevokeKey(c)
  <2>1. PICK k \in keys.rows : Ask(c, [Free EXCEPT !.kind = "revoke", !.ids = {k.id}])
    BY <1>9 DEF RevokeKey
  <2> QED BY <1>1, <1>3, <2>1 DEF Asking
<1>10. CASE FetchKeyByID(c) \/ Logout(c) BY <1>2, <1>10 DEF FetchKeyByID, Logout, Asking
<1> QED BY <1>5, <1>6, <1>7, <1>8, <1>9, <1>10 DEF UserAct

LEMMA DoneCalls ==
  ASSUME TypeInv, NEW c \in Slots, Done(c)
  PROVE  /\ calls' \in [Slots -> Call] /\ calls'[c] = Free
         /\ \A d \in Slots : d # c => calls'[d] = calls[d]
BY FreeCall DEF TypeInv, TypeOK, Done

LEMMA ServedCalls ==
  ASSUME TypeInv, NEW c \in Slots, NEW es \in SUBSET Entry, Served(c, es)
  PROVE  /\ calls' \in [Slots -> Call]
         /\ calls'[c].kind = calls[c].kind /\ calls'[c].title = calls[c].title
         /\ calls'[c].ids = calls[c].ids
         /\ calls'[c].served /\ calls'[c].entries = es
         /\ \A d \in Slots : d # c => calls'[d] = calls[d]
BY DEF TypeInv, TypeOK, Served, Call

LEMMA ListServedCalls ==
  ASSUME TypeInv, NEW c \in Slots, ServeGet(c), Unserved(c, "getKeys")
  PROVE  /\ calls' \in [Slots -> Call]
         /\ calls'[c].kind = "getKeys" /\ calls'[c].served /\ calls'[c].ids = live
         /\ \A d \in Slots : d # c => calls'[d] = calls[d]
         /\ UNCHANGED <<server, store, view, history>>
<1>1. /\ calls' = [calls EXCEPT ![c].served = TRUE, ![c].ids = live]
      /\ UNCHANGED <<server, store, view, history>>
  BY DEF ServeGet, Unserved
<1>2. calls \in [Slots -> Call] /\ live \subseteq KeyIds /\ calls[c].kind = "getKeys"
  BY DEF TypeInv, TypeOK, Unserved
<1> QED BY <1>1, <1>2 DEF Call

(* A call that is served: the entries a post stores, with their version.   *)
Stored(c, v) ==
  IF calls[c].title = None THEN calls[c].entries
  ELSE {[title |-> calls[c].title, version |-> v, key |-> k] : k \in calls[c].ids}

LEMMA PostStores ==
  ASSUME TypeInv, NEW c \in Slots, ServePost(c)
  PROVE  \E new \in SUBSET Entry :
           /\ calls[c].kind = "post" /\ ~calls[c].served
           /\ kept' = kept \cup new /\ Served(c, new)
           /\ UNCHANGED <<live, used, store, view, history>>
<1>1. PICK v \in 1..MaxVersion : kept' = kept \cup Stored(c, v) /\ Served(c, Stored(c, v))
  BY DEF ServePost, Stored
<1>2. /\ calls[c].title \in Titles \cup {None} /\ calls[c].ids \in SUBSET KeyIds
      /\ calls[c].entries \in SUBSET Entry
  BY DEF TypeInv, TypeOK, Call
<1>3. Stored(c, v) \in SUBSET Entry
  <2>1. CASE calls[c].title = None BY <1>2, <2>1 DEF Stored
  <2>2. CASE calls[c].title # None BY <1>2, <2>2 DEF Stored, Entry
  <2> QED BY <2>1, <2>2
<1>4. /\ calls[c].kind = "post" /\ ~calls[c].served
      /\ UNCHANGED <<live, used, store, view, history>>
  BY DEF ServePost, Unserved
<1> QED BY <1>1, <1>3, <1>4

LEMMA ServeKinds ==
  ASSUME TypeInv, NEW c \in Slots, Serve(c)
  PROVE  /\ \A d \in Slots : calls'[d].kind = calls[d].kind
         /\ \A d \in Slots : d # c => calls'[d] = calls[d]
         /\ ~calls[c].served /\ calls'[c].served
<1>1. kept \in SUBSET Entry BY DEF TypeInv, TypeOK
<1>2. CASE ServeGet(c)
  <2>1. CASE Unserved(c, "getVault")
    <3>1. Served(c, kept) BY <1>2, <2>1 DEF ServeGet, Unserved
    <3> QED BY <1>1, <2>1, <3>1, ServedCalls DEF Unserved
  <2>2. CASE Unserved(c, "getKeys") BY <1>2, <2>2, ListServedCalls DEF Unserved
  <2> QED BY <1>2, <2>1, <2>2 DEF ServeGet
<1>3. CASE ServePost(c) BY <1>3, PostStores, ServedCalls
<1>4. CASE ServeDelete(c) \/ ServeAddKeys(c)
  <2>1. Served(c, {}) /\ ~calls[c].served BY <1>4 DEF ServeDelete, ServeAddKeys, Unserved
  <2> QED BY <2>1, ServedCalls
<1> QED BY <1>2, <1>3, <1>4 DEF Serve

-----------------------------------------------------------------------------
(* The types.                                                              *)
LEMMA TypesAsk ==
  ASSUME TypeInv, NEW c \in Slots, UserAct(c) PROVE TypeInv'
<1>1. PICK call : Asking(c, call) BY UserActAsks
<1>2. /\ Send(c, call) /\ UNCHANGED <<server, store, view, history>> /\ AskedFor(call)
  BY <1>1 DEF Asking, Ask
<1>3. /\ calls' \in [Slots -> Call] /\ calls'[c] = call
      /\ \A d \in Slots : d # c => calls'[d] = calls[d]
  BY <1>2, SendCalls DEF AskedFor, TypeInv, TypeOK
<1>4. TypeOK' BY <1>2, <1>3 DEF TypeInv, TypeOK, server, store, view, history
<1>5. AddsPublic' BY <1>2, <1>3 DEF TypeInv, AddsPublic, AskedFor
<1> QED BY <1>4, <1>5 DEF TypeInv

LEMMA TypesFetch ==
  ASSUME TypeInv, NEW c \in Slots, FetchVault(c) \/ FetchKeys(c) PROVE TypeInv'
<1>1. PICK kind \in {"getVault", "getKeys"} : Send(c, [Free EXCEPT !.kind = kind])
  BY DEF FetchVault, FetchKeys
<1>2. /\ calls' \in [Slots -> Call] /\ calls'[c].kind = kind
      /\ \A d \in Slots : d # c => calls'[d] = calls[d]
  <2> DEFINE call == [Free EXCEPT !.kind = kind]
  <2>1. call \in Call /\ call.kind = kind BY FreeCall DEF Kinds
  <2>2. Send(c, call) BY <1>1
  <2> HIDE DEF call
  <2> QED BY <2>1, <2>2, SendCalls DEF TypeInv, TypeOK
<1>3. AddsPublic' BY <1>2 DEF TypeInv, AddsPublic
<1>4. UNCHANGED <<server, newKey, history>> BY DEF FetchVault, FetchKeys, view
<1>5. /\ vault' \in [rows : SUBSET Entry, fetching : BOOLEAN, received : BOOLEAN]
      /\ keys' \in [rows : SUBSET Listed, fetching : BOOLEAN, received : BOOLEAN]
      /\ opened' \in BOOLEAN
  BY DEF FetchVault, FetchKeys, view, TypeInv, TypeOK
<1> QED BY <1>2, <1>3, <1>4, <1>5 DEF TypeInv, TypeOK, server, history

LEMMA TypesServe ==
  ASSUME TypeInv, NEW c \in Slots, Serve(c) PROVE TypeInv'
<1>1. ASSUME NEW es \in SUBSET Entry, Served(c, es) PROVE calls' \in [Slots -> Call] /\ AddsPublic'
  <2>1. \A d \in Slots : calls'[d].kind = calls[d].kind /\ calls'[d].ids = calls[d].ids
    BY <1>1, ServedCalls
  <2> QED BY <1>1, <2>1, ServedCalls DEF TypeInv, AddsPublic
<1>2. CASE ServeGet(c)
  <2>1. UNCHANGED <<server, store, view, history>> BY <1>2 DEF ServeGet
  <2>2. CASE Unserved(c, "getVault")
    <3>1. Served(c, kept) BY <1>2, <2>2 DEF ServeGet, Unserved
    <3> QED BY <1>1, <2>1, <3>1 DEF TypeInv, TypeOK, server, store, view, history
  <2>3. CASE Unserved(c, "getKeys")
    <3>1. AddsPublic' BY <1>2, <2>3, ListServedCalls DEF TypeInv, AddsPublic
    <3> QED BY <1>2, <2>1, <2>3, <3>1, ListServedCalls
            DEF TypeInv, TypeOK, server, store, view, history
  <2> QED BY <1>2, <2>2, <2>3 DEF ServeGet
<1>3. CASE ServePost(c)
  BY <1>1, <1>3, PostStores DEF TypeInv, TypeOK, store, view, history
<1>4. CASE ServeDelete(c)
  <2>1. Served(c, {}) /\ UNCHANGED <<used, store, view, history>> BY <1>4 DEF ServeDelete
  <2>2. kept' \subseteq kept /\ live' \subseteq live BY <1>4 DEF ServeDelete
  <2> QED BY <1>1, <2>1, <2>2 DEF TypeInv, TypeOK, store, view, history
<1>5. CASE ServeAddKeys(c)
  <2>1. calls[c].ids \subseteq KeyIds BY DEF TypeInv, TypeOK, Call
  <2> QED BY <1>1, <1>5, <2>1 DEF ServeAddKeys, TypeInv, TypeOK, store, view, history
<1> QED BY <1>2, <1>3, <1>4, <1>5 DEF Serve

LEMMA DeliverNewKey ==
  ASSUME TypeInv, NEW c \in Slots, Deliver(c)
  PROVE  newKey' \in (KeyIds \ PrivateIds) \cup {None}
<1>1. newKey \in (KeyIds \ PrivateIds) \cup {None} BY DEF TypeInv, TypeOK
<1>2. CASE calls[c].kind = "addKeys"
  <2>1. newKey' \in {newKey, IF vault.rows = {} THEN None ELSE NewKey(calls[c].ids)}
    BY <1>2 DEF Deliver
  <2>2. calls[c].ids \subseteq KeyIds /\ \E k \in calls[c].ids : k \notin PrivateIds
    BY <1>2 DEF TypeInv, TypeOK, AddsPublic, Call
  <2>3. NewKey(calls[c].ids) \in KeyIds \ PrivateIds BY <2>2 DEF NewKey
  <2> QED BY <1>1, <2>1, <2>3
<1>3. CASE calls[c].kind # "addKeys"
  <2>1. newKey' \in {None, newKey} BY <1>3 DEF Deliver
  <2> QED BY <1>1, <2>1
<1> QED BY <1>2, <1>3

LEMMA StrippedListed == \A ids \in SUBSET KeyIds : Stripped(ids) \subseteq Listed
<1> SUFFICES ASSUME NEW ids \in SUBSET KeyIds, NEW k \in ids
             PROVE  [id |-> k, armored |-> k \notin PrivateIds] \in Listed
  BY DEF Stripped
<1>1. (k \notin PrivateIds) \in BOOLEAN OBVIOUS
<1> QED BY <1>1 DEF Listed

LEMMA TypesDeliver ==
  ASSUME TypeInv, NEW c \in Slots, Deliver(c) PROVE TypeInv'
<1>1. Done(c) /\ UNCHANGED <<server, opened>> BY DEF Deliver
<1>2. calls[c].entries \in SUBSET Entry /\ calls[c].ids \in SUBSET KeyIds
  BY DEF TypeInv, TypeOK, Call
<1>3. /\ vault \in [rows : SUBSET Entry, fetching : BOOLEAN, received : BOOLEAN]
      /\ keys \in [rows : SUBSET Listed, fetching : BOOLEAN, received : BOOLEAN]
      /\ fetched \in BOOLEAN /\ astray \in BOOLEAN
  BY DEF TypeInv, TypeOK
<1>4. vault' \in [rows : SUBSET Entry, fetching : BOOLEAN, received : BOOLEAN]
  <2>1. CASE calls[c].kind \in {"getVault", "post"}
    <3>1. vault' = [rows |-> vault.rows \cup calls[c].entries, fetching |-> FALSE, received |-> TRUE]
      BY <2>1 DEF Deliver, Merged
    <3> QED BY <1>2, <1>3, <3>1
  <2>2. CASE calls[c].kind = "drop"
    <3>1. vault' = [vault EXCEPT !.rows = {e \in @ : e.title # calls[c].title}]
      BY <2>2 DEF Deliver
    <3> QED BY <1>3, <3>1
  <2>3. CASE calls[c].kind = "revoke"
    <3>1. vault' = [vault EXCEPT !.rows = {e \in @ : e.key \notin calls[c].ids}]
      BY <2>3 DEF Deliver
    <3> QED BY <1>3, <3>1
  <2>4. CASE calls[c].kind \notin {"getVault", "post", "drop", "revoke"}
    <3>1. vault' = vault BY <2>4 DEF Deliver
    <3> QED BY <1>3, <3>1
  <2> QED BY <2>1, <2>2, <2>3, <2>4
<1>5. keys' \in [rows : SUBSET Listed, fetching : BOOLEAN, received : BOOLEAN]
  <2>1. CASE calls[c].kind = "getKeys"
    <3>1. keys' = [rows |-> Stripped(calls[c].ids), fetching |-> FALSE, received |-> TRUE]
      BY <2>1 DEF Deliver
    <3> QED BY <1>2, <3>1, StrippedListed
  <2>2. CASE calls[c].kind = "addKeys"
    <3>1. keys' = [keys EXCEPT !.rows = @ \cup Stripped(calls[c].ids)] BY <2>2 DEF Deliver
    <3>2. Stripped(calls[c].ids) \subseteq Listed BY <1>2, StrippedListed
    <3> QED BY <1>3, <3>1, <3>2
  <2>3. CASE calls[c].kind = "revoke"
    <3>1. keys' = [keys EXCEPT !.rows = {k \in @ : k.id \notin calls[c].ids}]
      BY <2>3 DEF Deliver
    <3> QED BY <1>3, <3>1
  <2>4. CASE calls[c].kind \notin {"getKeys", "addKeys", "revoke"}
    <3>1. keys' = keys BY <2>4 DEF Deliver
    <3> QED BY <1>3, <3>1
  <2> QED BY <2>1, <2>2, <2>3, <2>4
<1>6. fetched' \in BOOLEAN /\ astray' \in BOOLEAN BY DEF Deliver, Outdates
<1>7. newKey' \in (KeyIds \ PrivateIds) \cup {None} BY DeliverNewKey
<1>8. AddsPublic' BY <1>1, DoneCalls, FreeCall DEF TypeInv, AddsPublic
<1>9. calls' \in [Slots -> Call] BY <1>1, DoneCalls
<1> QED BY <1>1, <1>4, <1>5, <1>6, <1>7, <1>8, <1>9 DEF TypeInv, TypeOK, server

LEMMA EmptyType ==
  /\ Empty \in [rows : SUBSET Entry, fetching : BOOLEAN, received : BOOLEAN]
  /\ Empty \in [rows : SUBSET Listed, fetching : BOOLEAN, received : BOOLEAN]
  /\ ~Empty.fetching /\ ~Empty.received /\ Empty.rows = {}
BY DEF Empty

LEMMA TypesRest ==
  ASSUME TypeInv, NEW c \in Slots, LogoutSucceeds(c) \/ Fail(c) PROVE TypeInv'
<1>1. Done(c) /\ UNCHANGED server BY DEF LogoutSucceeds, Fail
<1>2. AddsPublic' BY <1>1, DoneCalls, FreeCall DEF TypeInv, AddsPublic
<1>3. calls' \in [Slots -> Call] BY <1>1, DoneCalls
<1>4. vault' \in {vault, Empty} /\ keys' \in {keys, Empty}
  BY DEF LogoutSucceeds, LoggedOut, Fail, FailedVault, FailedKeys
<1>5. newKey' \in {newKey, None} /\ opened' \in {opened, FALSE}
  BY DEF LogoutSucceeds, Fail, view
<1>6. fetched' \in BOOLEAN /\ astray' \in BOOLEAN BY DEF LogoutSucceeds, Fail
<1> QED BY <1>1, <1>2, <1>3, <1>4, <1>5, <1>6, EmptyType DEF TypeInv, TypeOK, server

LEMMA TypeInvHolds == Spec => []TypeInv
<1>1. Init => TypeInv
  <2> SUFFICES ASSUME Init PROVE TypeInv
    OBVIOUS
  <2>1. calls \in [Slots -> Call] /\ AddsPublic BY FreeCall DEF Init, AddsPublic
  <2>2. StartKept \subseteq Entry BY ConstantsAssumption DEF Entry
  <2> QED BY <2>1, <2>2, ConstantsAssumption, EmptyType DEF Init, TypeInv, TypeOK
<1>2. TypeInv /\ [Next]_vars => TypeInv'
  <2> SUFFICES ASSUME TypeInv, [Next]_vars PROVE TypeInv'
    OBVIOUS
  <2>1. CASE Reload
    BY <2>1, EmptyType DEF Reload, TypeInv, TypeOK, AddsPublic, server
  <2>2. CASE OpenVault \/ Decline
    BY <2>2 DEF OpenVault, Decline, TypeInv, TypeOK, AddsPublic, server, store, history
  <2>3. ASSUME NEW c \in Slots, Act(c) PROVE TypeInv'
    BY <2>3, TypesAsk, TypesFetch DEF Act, UserAct
  <2>4. ASSUME NEW c \in Slots, Settle(c) PROVE TypeInv'
    BY <2>4, TypesServe, TypesDeliver, TypesRest DEF Settle
  <2>5. CASE UNCHANGED vars BY <2>5 DEF vars, TypeInv, TypeOK, AddsPublic
  <2> QED BY <2>1, <2>2, <2>3, <2>4, <2>5 DEF Next
<1> QED BY <1>1, <1>2, PTL DEF Spec

(* Every variable of Page stays in its type; the key to encrypt everything *)
(* with once more, which the page looks for among the keys it posted       *)
(* (keys.js:184), is a public one.                                         *)
THEOREM TypeCorrect == Spec => []TypeOK
<1>1. TypeInv => TypeOK BY DEF TypeInv
<1> QED BY <1>1, TypeInvHolds, PTL

-----------------------------------------------------------------------------
(* The armored private keys stay out of the store.                         *)
LEMMA StrippedPrivate ==
  \A ids \in SUBSET KeyIds : \A k \in Stripped(ids) : k.armored => k.id \notin PrivateIds
<1> SUFFICES ASSUME NEW ids \in SUBSET KeyIds, NEW i \in ids,
                    NEW k, k = [id |-> i, armored |-> i \notin PrivateIds], k.armored
             PROVE  k.id \notin PrivateIds
  BY DEF Stripped
<1>1. k.id = i /\ k.armored = (i \notin PrivateIds) OBVIOUS
<1> QED BY <1>1

LEMMA DeliverPrivate ==
  ASSUME TypeInv, NoPrivateKeyInStore, NEW c \in Slots, Deliver(c) PROVE NoPrivateKeyInStore'
<1>1. calls[c].ids \in SUBSET KeyIds
      /\ keys \in [rows : SUBSET Listed, fetching : BOOLEAN, received : BOOLEAN]
  BY DEF TypeInv, TypeOK, Call
<1>2. \/ keys' = [rows |-> Stripped(calls[c].ids), fetching |-> FALSE, received |-> TRUE]
      \/ keys' = [keys EXCEPT !.rows = @ \cup Stripped(calls[c].ids)]
      \/ keys' = [keys EXCEPT !.rows = {k \in @ : k.id \notin calls[c].ids}]
      \/ keys' = keys
  BY DEF Deliver
<1>3. keys'.rows \subseteq keys.rows \cup Stripped(calls[c].ids)
  <2>1. keys' = [rows |-> Stripped(calls[c].ids), fetching |-> FALSE, received |-> TRUE]
          => keys'.rows = Stripped(calls[c].ids)
    OBVIOUS
  <2>2. keys' = [keys EXCEPT !.rows = @ \cup Stripped(calls[c].ids)]
          => keys'.rows = keys.rows \cup Stripped(calls[c].ids)
    BY <1>1
  <2>3. keys' = [keys EXCEPT !.rows = {k \in @ : k.id \notin calls[c].ids}]
          => keys'.rows = {k \in keys.rows : k.id \notin calls[c].ids}
    BY <1>1
  <2> QED BY <1>2, <2>1, <2>2, <2>3
<1> QED BY <1>1, <1>3, StrippedPrivate DEF NoPrivateKeyInStore

LEMMA KeysKept ==
  ASSUME NoPrivateKeyInStore, keys'.rows = keys.rows PROVE NoPrivateKeyInStore'
BY DEF NoPrivateKeyInStore

(* keys.js:212, "private keys arent saved in redux": neither the list that *)
(* is fetched nor the keys that are added bring an armored private key to  *)
(* the store.                                                              *)
THEOREM PrivateKeysStayOut == Spec => []NoPrivateKeyInStore
<1>1. Init => NoPrivateKeyInStore BY EmptyType DEF Init, NoPrivateKeyInStore
<1>2. TypeInv /\ NoPrivateKeyInStore /\ [Next]_vars => NoPrivateKeyInStore'
  <2> SUFFICES ASSUME TypeInv, NoPrivateKeyInStore, [Next]_vars PROVE NoPrivateKeyInStore'
    OBVIOUS
  <2>1. CASE Reload BY <2>1, EmptyType DEF Reload, NoPrivateKeyInStore
  <2>2. CASE OpenVault \/ Decline \/ UNCHANGED vars
    BY <2>2, KeysKept DEF OpenVault, Decline, vars, store
  <2>3. ASSUME NEW c \in Slots, UserAct(c) PROVE NoPrivateKeyInStore'
    <3>1. PICK call : Asking(c, call) BY <2>3, UserActAsks
    <3> QED BY <3>1, KeysKept DEF Asking, Ask, store
  <2>4. ASSUME NEW c \in Slots, FetchVault(c) \/ FetchKeys(c) PROVE NoPrivateKeyInStore'
    <3>1. keys' \in {keys, [keys EXCEPT !.fetching = TRUE]} BY <2>4 DEF FetchVault, FetchKeys
    <3>2. keys'.rows = keys.rows BY <3>1 DEF TypeInv, TypeOK
    <3> QED BY <3>2, KeysKept
  <2>5. ASSUME NEW c \in Slots, Serve(c) PROVE NoPrivateKeyInStore'
    BY <2>5, KeysKept DEF Serve, ServeGet, ServePost, ServeDelete, ServeAddKeys, store
  <2>6. ASSUME NEW c \in Slots, LogoutSucceeds(c) \/ Fail(c) PROVE NoPrivateKeyInStore'
    <3>1. keys' \in {keys, Empty} BY <2>6 DEF LogoutSucceeds, LoggedOut, Fail, FailedKeys
    <3> QED BY <3>1, EmptyType DEF NoPrivateKeyInStore
  <2> QED BY <2>1, <2>2, <2>3, <2>4, <2>5, <2>6, DeliverPrivate DEF Next, Act, Settle, UserAct
<1> QED BY <1>1, <1>2, TypeInvHolds, PTL DEF Spec

-----------------------------------------------------------------------------
(* The fetch of the vault: only after a logout that overtook one may a     *)
(* fetch be under way that the store does not know of.                     *)
Fetching == \E c \in Slots : calls[c].kind = "getVault"

VaultFetch ==
  /\ FetchingIsInFlight /\ OneFetch
  /\ ~astray /\ Fetching => vault.fetching \/ vault.received

LEMMA VaultFetchKept ==
  ASSUME VaultFetch, UNCHANGED <<vault, astray>>,
         \A d \in Slots : (calls'[d].kind = "getVault") <=> (calls[d].kind = "getVault")
  PROVE  VaultFetch'
BY DEF VaultFetch, FetchingIsInFlight, OneFetch, Fetching

LEMMA VaultFetchFetch ==
  ASSUME TypeInv, VaultFetch, NEW c \in Slots, FetchVault(c) PROVE VaultFetch'
<1> DEFINE call == [Free EXCEPT !.kind = "getVault"]
<1>1. call \in Call /\ call.kind = "getVault" BY FreeCall DEF Kinds
<1>2. /\ Send(c, call) /\ vault' = [vault EXCEPT !.fetching = TRUE]
      /\ astray' = astray /\ ~vault.fetching /\ ~vault.received
  BY DEF FetchVault, history
<1> HIDE DEF call
<1>3. /\ calls'[c].kind = "getVault"
      /\ \A d \in Slots : d # c => calls'[d] = calls[d]
  BY <1>1, <1>2, SendCalls DEF TypeInv, TypeOK
<1>4. vault'.fetching BY <1>2 DEF TypeInv, TypeOK
<1>5. ~astray => ~Fetching BY <1>2 DEF VaultFetch
<1> QED BY <1>2, <1>3, <1>4, <1>5 DEF VaultFetch, FetchingIsInFlight, OneFetch, Fetching

LEMMA VaultFetchDeliver ==
  ASSUME TypeInv, VaultFetch, NEW c \in Slots, Deliver(c) PROVE VaultFetch'
<1>1. Done(c) /\ (~astray' => ~astray) BY DEF Deliver, TypeInv, TypeOK
<1>2. \A d \in Slots : calls'[d].kind = "getVault" <=> d # c /\ calls[d].kind = "getVault"
  BY <1>1, DoneCalls, FreeCall
<1>3. CASE calls[c].kind \in {"getVault", "post"}
  <2>1. vault' = [rows |-> vault.rows \cup calls[c].entries, fetching |-> FALSE, received |-> TRUE]
    BY <1>3 DEF Deliver, Merged
  <2>2. ~vault'.fetching /\ vault'.received BY <2>1
  <2> QED BY <1>1, <1>2, <2>2 DEF VaultFetch, FetchingIsInFlight, OneFetch, Fetching
<1>4. CASE calls[c].kind \notin {"getVault", "post"}
  <2>1. \/ vault' = [vault EXCEPT !.rows = {e \in @ : e.title # calls[c].title}]
        \/ vault' = [vault EXCEPT !.rows = {e \in @ : e.key \notin calls[c].ids}]
        \/ vault' = vault
    BY <1>4 DEF Deliver
  <2>2. vault'.fetching = vault.fetching /\ vault'.received = vault.received
    BY <2>1 DEF TypeInv, TypeOK
  <2>3. \A d \in Slots : calls'[d].kind = "getVault" <=> calls[d].kind = "getVault"
    BY <1>2, <1>4
  <2> QED BY <1>1, <2>2, <2>3 DEF VaultFetch, FetchingIsInFlight, OneFetch, Fetching
<1> QED BY <1>3, <1>4

LEMMA VaultFetchRest ==
  ASSUME TypeInv, VaultFetch, NEW c \in Slots, LogoutSucceeds(c) \/ Fail(c) PROVE VaultFetch'
<1>1. Done(c) BY DEF LogoutSucceeds, Fail
<1>2. \A d \in Slots : calls'[d].kind = "getVault" <=> d # c /\ calls[d].kind = "getVault"
  BY <1>1, DoneCalls, FreeCall
<1>3. CASE LogoutSucceeds(c)
  <2>1. vault' = Empty /\ (~astray' => \A d \in Slots \ {c} : calls[d] = Free)
    BY <1>3 DEF LogoutSucceeds, LoggedOut
  <2>2. ~astray' => \A d \in Slots : calls'[d].kind # "getVault" BY <1>2, <2>1, FreeCall
  <2> QED BY <2>1, <2>2, EmptyType DEF VaultFetch, FetchingIsInFlight, OneFetch, Fetching
<1>4. CASE Fail(c)
  <2>1. ~astray' => ~astray BY <1>4 DEF Fail, TypeInv, TypeOK
  <2>2. CASE calls[c].kind = "getVault"
    <3>1. vault' = Empty BY <1>4, <2>2 DEF Fail, FailedVault
    <3>2. ~astray' => \A d \in Slots : calls'[d].kind # "getVault"
      BY <1>2, <2>1, <2>2 DEF VaultFetch, OneFetch
    <3> QED BY <3>1, <3>2, EmptyType DEF VaultFetch, FetchingIsInFlight, OneFetch, Fetching
  <2>3. CASE calls[c].kind # "getVault"
    <3>1. vault' = vault BY <1>4, <2>3 DEF Fail
    <3> QED BY <1>2, <2>1, <2>3, <3>1 DEF VaultFetch, FetchingIsInFlight, OneFetch, Fetching
  <2> QED BY <2>2, <2>3
<1> QED BY <1>3, <1>4

LEMMA StepVaultFetch == TypeInv /\ VaultFetch /\ [Next]_vars => VaultFetch'
<1> SUFFICES ASSUME TypeInv, VaultFetch, [Next]_vars PROVE VaultFetch'
  OBVIOUS
<1>1. CASE Reload
  <2>1. /\ \A d \in Slots : calls'[d].kind # "getVault"
        /\ ~vault'.fetching
    BY <1>1, FreeCall, EmptyType DEF Reload
  <2> QED BY <2>1 DEF VaultFetch, FetchingIsInFlight, OneFetch, Fetching
<1>2. CASE OpenVault \/ Decline \/ UNCHANGED vars
  BY <1>2, VaultFetchKept DEF OpenVault, Decline, vars, store, history
<1>3. ASSUME NEW c \in Slots, UserAct(c) PROVE VaultFetch'
  <2>1. PICK call : Asking(c, call) BY <1>3, UserActAsks
  <2>2. Send(c, call) /\ UNCHANGED <<vault, astray>> /\ call.kind \in UserKinds
    BY <2>1 DEF Asking, Ask, AskedFor, store, history
  <2>3. \A d \in Slots : (calls'[d].kind = "getVault") <=> (calls[d].kind = "getVault")
    BY <2>2, SendCalls, FreeCall DEF TypeInv, TypeOK, UserKinds
  <2> QED BY <2>2, <2>3, VaultFetchKept
<1>4. ASSUME NEW c \in Slots, FetchKeys(c) PROVE VaultFetch'
  <2> DEFINE call == [Free EXCEPT !.kind = "getKeys"]
  <2>1. call.kind = "getKeys" BY FreeCall DEF Kinds
  <2>2. Send(c, call) /\ UNCHANGED <<vault, astray>> BY <1>4 DEF FetchKeys, history
  <2> HIDE DEF call
  <2>3. \A d \in Slots : (calls'[d].kind = "getVault") <=> (calls[d].kind = "getVault")
    BY <2>1, <2>2, SendCalls, FreeCall DEF TypeInv, TypeOK
  <2> QED BY <2>2, <2>3, VaultFetchKept
<1>5. ASSUME NEW c \in Slots, Serve(c) PROVE VaultFetch'
  <2>1. UNCHANGED <<vault, astray>>
    BY <1>5 DEF Serve, ServeGet, ServePost, ServeDelete, ServeAddKeys, store, history
  <2>2. \A d \in Slots : calls'[d].kind = calls[d].kind BY <1>5, ServeKinds
  <2> QED BY <2>1, <2>2, VaultFetchKept
<1> QED BY <1>1, <1>2, <1>3, <1>4, <1>5, VaultFetchFetch, VaultFetchDeliver, VaultFetchRest
        DEF Next, Act, Settle, UserAct

LEMMA VaultFetchHolds == Spec => []VaultFetch
<1>1. Init => VaultFetch
  BY FreeCall, EmptyType DEF Init, VaultFetch, FetchingIsInFlight, OneFetch, Fetching
<1> QED BY <1>1, StepVaultFetch, TypeInvHolds, PTL DEF Spec

(* actions/vault.js:32: the vault is fetched by one call at a time, unless *)
(* a logout has overtaken the first.                                       *)
THEOREM VaultFetchedOnce == Spec => []OneFetch
<1>1. VaultFetch => OneFetch BY DEF VaultFetch
<1> QED BY <1>1, VaultFetchHolds, PTL

(* actions/vault.js:32: a page that waits for its vault, and so asks for   *)
(* it no more, has a call to wait for, whatever failed or was overtaken.   *)
THEOREM FetchesAreInFlight == Spec => []FetchingIsInFlight
<1>1. VaultFetch => FetchingIsInFlight BY DEF VaultFetch
<1> QED BY <1>1, VaultFetchHolds, PTL

-----------------------------------------------------------------------------
(* What the page shows of the server, for a user who asks for one thing at *)
(* a time.  Two user calls that are answered out of order leave the page   *)
(* with what it deleted, so nothing below holds without it.                *)
OneRequest == UserCalls <= 1

UserCall(c) == calls[c].kind \in UserKinds

Alone == \A c, d \in Slots : UserCall(c) /\ UserCall(d) => c = d

(* The calls of a kind that the server has answered and the page has not   *)
(* heard of.                                                               *)
Changing(kind) == {c \in Slots : calls[c].kind = kind /\ calls[c].served}

(* The step neither serves, answers nor overwrites a call of these kinds.  *)
Unheard(kinds) ==
  \A k \in kinds : Changing(k)' = Changing(k) /\ \A c \in Changing(k) : calls'[c] = calls[c]

(* What a user asks for when another request is under way is not asked.    *)
LEMMA AskAlone ==
  ASSUME OneRequest, TypeInv, Alone, NEW c \in Slots, NEW call, Asking(c, call)
  PROVE  /\ \A d \in Slots : ~UserCall(d)
         /\ Alone'
<1>1. Cardinality({d \in Slots : calls[d].kind \in UserKinds}) < UserCalls /\ Send(c, call)
  BY DEF Asking, Ask
<1>2. \A d \in Slots : ~UserCall(d)
  <2> SUFFICES ASSUME NEW d \in Slots, UserCall(d) PROVE FALSE
    OBVIOUS
  <2> DEFINE asked == {e \in Slots : calls[e].kind \in UserKinds}
  <2>1. asked = {d} BY DEF Alone, UserCall
  <2>2. Cardinality(asked) < UserCalls BY <1>1
  <2>3. Cardinality({d}) = 1 BY FS_Singleton
  <2> HIDE DEF asked
  <2> QED BY <2>1, <2>2, <2>3, ConstantsAssumption DEF OneRequest
<1>3. \A d \in Slots : d # c => calls'[d] = calls[d]
  BY <1>1, SendCalls DEF TypeInv, TypeOK
<1> QED BY <1>2, <1>3 DEF Alone, UserCall

LEMMA AloneKept ==
  ASSUME Alone, \A d \in Slots : UserCall(d)' => UserCall(d) PROVE Alone'
BY DEF Alone

LEMMA StepAlone ==
  ASSUME OneRequest PROVE TypeInv /\ Alone /\ [Next]_vars => Alone'
<1> SUFFICES ASSUME TypeInv, Alone, [Next]_vars PROVE Alone'
  OBVIOUS
<1>1. ASSUME NEW c \in Slots, UserAct(c) PROVE Alone'
  BY <1>1, UserActAsks, AskAlone
<1>2. ASSUME NEW c \in Slots, FetchVault(c) \/ FetchKeys(c) PROVE Alone'
  <2>1. PICK kind \in {"getVault", "getKeys"} : Send(c, [Free EXCEPT !.kind = kind])
    BY <1>2 DEF FetchVault, FetchKeys
  <2> DEFINE call == [Free EXCEPT !.kind = kind]
  <2>2. call.kind = kind BY FreeCall DEF Kinds
  <2>3. Send(c, call) BY <2>1
  <2> HIDE DEF call
  <2>4. \A d \in Slots : UserCall(d)' => UserCall(d)
    BY <2>2, <2>3, SendCalls DEF TypeInv, TypeOK, UserCall, UserKinds
  <2> QED BY <2>4, AloneKept
<1>3. ASSUME NEW c \in Slots, Serve(c) PROVE Alone'
  BY <1>3, ServeKinds, AloneKept DEF UserCall
<1>4. ASSUME NEW c \in Slots, Done(c) PROVE Alone'
  <2>1. \A d \in Slots : UserCall(d)' => UserCall(d)
    BY <1>4, DoneCalls, FreeCall DEF UserCall, UserKinds
  <2> QED BY <2>1, AloneKept
<1>5. CASE calls' = calls BY <1>5, AloneKept DEF UserCall
<1> QED BY <1>1, <1>2, <1>3, <1>4, <1>5
        DEF Next, Act, Settle, UserAct, Reload, OpenVault, Decline, Deliver, LogoutSucceeds, Fail,
            vars

LEMMA AloneHolds ==
  ASSUME OneRequest PROVE Spec => []Alone
<1>1. Init => Alone BY FreeCall DEF Init, Alone, UserCall, UserKinds
<1> QED BY <1>1, StepAlone, TypeInvHolds, PTL DEF Spec

(* Sending, serving and answering, as far as the page has yet to hear of   *)
(* what the server did.                                                    *)
LEMMA SendUnheard ==
  ASSUME TypeInv, NEW c \in Slots, NEW call, Send(c, call),
         call.served => call.kind \in {"getKey", "logout"}
  PROVE  Unheard(Kinds \ {"getKey", "logout"})
<1>1. /\ calls[c] = Free /\ calls'[c] = call
      /\ \A d \in Slots : d # c => calls'[d] = calls[d]
  BY SendCalls DEF TypeInv, TypeOK
<1>2. \A k \in Kinds \ {"getKey", "logout"} : c \notin Changing(k) /\ c \notin Changing(k)'
  BY <1>1, FreeCall DEF Changing
<1> QED BY <1>1, <1>2 DEF Unheard, Changing

LEMMA AskUnheard ==
  ASSUME TypeInv, NEW c \in Slots, UserAct(c)
  PROVE  /\ Unheard(Kinds \ {"getKey", "logout"})
         /\ UNCHANGED <<server, store, view, history>>
<1>1. PICK call : Asking(c, call) BY UserActAsks
<1> QED BY <1>1, SendUnheard DEF Asking, AskedFor, Ask

LEMMA FetchUnheard ==
  ASSUME TypeInv, NEW c \in Slots, FetchVault(c) \/ FetchKeys(c)
  PROVE  Unheard(Kinds \ {"getKey", "logout"})
<1>1. PICK kind \in {"getVault", "getKeys"} : Send(c, [Free EXCEPT !.kind = kind])
  BY DEF FetchVault, FetchKeys
<1> DEFINE call == [Free EXCEPT !.kind = kind]
<1>2. ~call.served BY FreeCall DEF Kinds
<1>3. Send(c, call) BY <1>1
<1> HIDE DEF call
<1> QED BY <1>2, <1>3, SendUnheard

LEMMA ServeHears ==
  ASSUME TypeInv, NEW c \in Slots, Serve(c)
  PROVE  /\ \A k : k # calls[c].kind => Changing(k)' = Changing(k)
         /\ Changing(calls[c].kind)' = Changing(calls[c].kind) \cup {c}
         /\ \A k : \A d \in Changing(k) : d # c /\ calls'[d] = calls[d]
BY ServeKinds DEF Changing

LEMMA DoneHears ==
  ASSUME TypeInv, NEW c \in Slots, Done(c)
  PROVE  /\ \A k : Changing(k)' = Changing(k) \ {c}
         /\ \A k : \A d \in Changing(k) : d # c => calls'[d] = calls[d]
BY DoneCalls, FreeCall DEF Changing

-----------------------------------------------------------------------------
(* What is stored: the page shows it, or is about to be told of it.  What  *)
(* the server has deleted already is stored no more when the page hears of *)
(* it.                                                                     *)
Coming == UNION {calls[c].entries : c \in Changing("post")}

Dropped ==
  /\ \A c \in Changing("drop") : \A e \in kept : e.title # calls[c].title
  /\ \A c \in Changing("revoke") : \A e \in kept : e.key \notin calls[c].ids

Covered ==
  /\ fetched => kept \subseteq vault.rows \cup Coming
  /\ \A g \in Changing("getVault") : kept \subseteq vault.rows \cup Coming \cup calls[g].entries

Shows == Dropped /\ (~astray => Covered)

ShownKinds == {"post", "drop", "revoke", "getVault"}

LEMMA ComingSame == ASSUME Unheard({"post"}) PROVE Coming' = Coming
BY DEF Unheard, Coming

LEMMA ShowsKept ==
  ASSUME Shows, Unheard(ShownKinds), UNCHANGED <<kept, fetched, astray>>, vault'.rows = vault.rows
  PROVE  Shows'
<1>1. Coming' = Coming BY ComingSame DEF Unheard, ShownKinds
<1>2. Dropped' BY DEF Shows, Dropped, Unheard, ShownKinds
<1>3. Covered => Covered' BY <1>1 DEF Covered, Unheard, ShownKinds
<1> QED BY <1>2, <1>3 DEF Shows

LEMMA ShowsServe ==
  ASSUME TypeInv, Alone, Shows, NEW c \in Slots, Serve(c) PROVE Shows'
<1>0. UNCHANGED <<vault, fetched, astray>>
  BY DEF Serve, ServeGet, ServePost, ServeDelete, ServeAddKeys, store, history
<1>1. ASSUME UserCall(c), NEW k \in UserKinds, k # calls[c].kind
      PROVE  Changing(k) = {} /\ Changing(k)' = {}
  <2>1. Changing(k)' = Changing(k) BY <1>1, ServeHears
  <2>2. Changing(k) = {} BY <1>1 DEF Changing, Alone, UserCall
  <2> QED BY <2>1, <2>2
<1>2. CASE ServeGet(c)
  <2>1. UNCHANGED kept BY <1>2 DEF ServeGet, server
  <2>2. CASE Unserved(c, "getKeys")
    <3>1. Unheard(ShownKinds) BY <2>2, ServeHears DEF Unheard, ShownKinds, Unserved
    <3> QED BY <1>0, <2>1, <3>1, ShowsKept
  <2>3. CASE Unserved(c, "getVault")
    <3>1. calls[c].kind = "getVault" /\ Served(c, kept) /\ kept \in SUBSET Entry
      BY <1>2, <2>3 DEF ServeGet, Unserved, TypeInv, TypeOK
    <3>2. calls'[c].entries = kept BY <3>1, ServedCalls
    <3>3. Unheard({"post", "drop", "revoke"}) BY <3>1, ServeHears DEF Unheard
    <3>4. Coming' = Coming BY <3>3, ComingSame DEF Unheard
    <3>5. Dropped' BY <2>1, <3>3 DEF Shows, Dropped, Unheard
    <3>6. Covered => Covered' BY <1>0, <2>1, <3>1, <3>2, <3>4, ServeHears DEF Covered
    <3> QED BY <1>0, <3>5, <3>6 DEF Shows
  <2> QED BY <1>2, <2>2, <2>3 DEF ServeGet
<1>3. CASE ServePost(c)
  <2>1. PICK new \in SUBSET Entry :
          calls[c].kind = "post" /\ kept' = kept \cup new /\ Served(c, new)
    BY <1>3, PostStores
  <2>2. calls'[c].entries = new BY <2>1, ServedCalls
  <2>3. Changing("drop")' = {} /\ Changing("revoke")' = {} BY <1>1, <2>1 DEF UserCall, UserKinds
  <2>4. Dropped' BY <2>3 DEF Dropped
  <2>5. Coming' = Coming \cup new BY <2>1, <2>2, ServeHears DEF Coming
  <2>6. Unheard({"getVault"}) BY <2>1, ServeHears DEF Unheard
  <2>7. Covered => Covered' BY <1>0, <2>1, <2>5, <2>6 DEF Covered, Unheard
  <2> QED BY <1>0, <2>4, <2>7 DEF Shows
<1>4. CASE ServeDelete(c)
  <2>1. kept' \subseteq kept /\ Served(c, {}) /\ calls[c].kind \in {"drop", "revoke"}
    BY <1>4 DEF ServeDelete, Unserved
  <2>2. /\ calls'[c].kind = calls[c].kind /\ calls'[c].title = calls[c].title
        /\ calls'[c].ids = calls[c].ids
    BY <2>1, ServedCalls
  <2>3. Dropped'
    <3>1. CASE calls[c].kind = "drop"
      <4>1. \A e \in kept' : e.title # calls'[c].title
        BY <1>4, <2>2, <3>1 DEF ServeDelete, Unserved
      <4>2. Changing("revoke")' = {} BY <1>1, <3>1 DEF UserCall, UserKinds
      <4> QED BY <2>1, <3>1, <4>1, <4>2, ServeHears DEF Shows, Dropped
    <3>2. CASE calls[c].kind = "revoke"
      <4>1. \A e \in kept' : e.key \notin calls'[c].ids
        BY <1>4, <2>2, <3>2 DEF ServeDelete, Unserved
      <4>2. Changing("drop")' = {} BY <1>1, <3>2 DEF UserCall, UserKinds
      <4> QED BY <2>1, <3>2, <4>1, <4>2, ServeHears DEF Shows, Dropped
    <3> QED BY <2>1, <3>1, <3>2
  <2>4. Unheard({"post", "getVault"}) BY <2>1, ServeHears DEF Unheard
  <2>5. Coming' = Coming BY <2>4, ComingSame DEF Unheard
  <2>6. Covered => Covered' BY <1>0, <2>1, <2>4, <2>5 DEF Covered, Unheard
  <2> QED BY <1>0, <2>3, <2>6 DEF Shows
<1>5. CASE ServeAddKeys(c)
  <2>1. calls[c].kind = "addKeys" /\ UNCHANGED kept BY <1>5 DEF ServeAddKeys, Unserved
  <2>2. Unheard(ShownKinds) BY <2>1, ServeHears DEF Unheard, ShownKinds
  <2> QED BY <1>0, <2>1, <2>2, ShowsKept
<1> QED BY <1>2, <1>3, <1>4, <1>5 DEF Serve

LEMMA ShowsDeliver ==
  ASSUME TypeInv, Shows, NEW c \in Slots, Deliver(c) PROVE Shows'
<1>1. /\ Done(c) /\ UNCHANGED server /\ calls[c].served
      /\ (~astray' => ~astray) /\ fetched' = (fetched \/ calls[c].kind = "getVault")
  BY DEF Deliver, TypeInv, TypeOK
<1>2. kept' = kept BY <1>1 DEF server
<1>3. Dropped' BY <1>1, <1>2, DoneHears DEF Shows, Dropped
<1>4. vault \in [rows : SUBSET Entry, fetching : BOOLEAN, received : BOOLEAN]
  BY DEF TypeInv, TypeOK
<1>5. calls[c].kind # "post" => Coming' = Coming
  BY <1>1, DoneHears DEF Coming, Changing
<1>6. Covered => Covered'
  <2> SUFFICES ASSUME Covered PROVE Covered'
    OBVIOUS
  <2>1. CASE calls[c].kind = "getVault"
    <3>1. vault' = [rows |-> vault.rows \cup calls[c].entries, fetching |-> FALSE, received |-> TRUE]
      BY <2>1 DEF Deliver, Merged
    <3>2. kept \subseteq vault.rows \cup Coming \cup calls[c].entries
      BY <1>1, <2>1 DEF Covered, Changing
    <3> QED BY <1>1, <1>2, <1>5, <2>1, <3>1, <3>2 DEF Covered
  <2>2. CASE calls[c].kind = "post"
    <3>1. vault' = [rows |-> vault.rows \cup calls[c].entries, fetching |-> FALSE, received |-> TRUE]
      BY <2>2 DEF Deliver
    <3>2. Coming \subseteq Coming' \cup calls[c].entries BY <1>1, DoneHears DEF Coming
    <3>3. vault'.rows = vault.rows \cup calls[c].entries BY <3>1
    <3>4. fetched' => fetched BY <1>1, <2>2 DEF TypeInv, TypeOK
    <3>5. fetched' => kept \subseteq vault'.rows \cup Coming' BY <3>2, <3>3, <3>4 DEF Covered
    <3>6. ASSUME NEW g \in Changing("getVault")'
          PROVE  kept \subseteq vault'.rows \cup Coming' \cup calls'[g].entries
      <4>1. g \in Changing("getVault") /\ calls'[g] = calls[g] BY <1>1, DoneHears
      <4> QED BY <3>2, <3>3, <4>1 DEF Covered
    <3> QED BY <1>2, <3>5, <3>6 DEF Covered
  <2>3. CASE calls[c].kind \notin {"getVault", "post"}
    <3>1. \A e \in kept : e \in vault.rows => e \in vault'.rows
      <4>1. CASE calls[c].kind = "drop"
        <5>1. vault' = [vault EXCEPT !.rows = {e \in @ : e.title # calls[c].title}]
          BY <4>1 DEF Deliver
        <5>2. \A e \in kept : e.title # calls[c].title
          BY <1>1, <4>1 DEF Shows, Dropped, Changing
        <5> QED BY <1>4, <5>1, <5>2
      <4>2. CASE calls[c].kind = "revoke"
        <5>1. vault' = [vault EXCEPT !.rows = {e \in @ : e.key \notin calls[c].ids}]
          BY <4>2 DEF Deliver
        <5>2. \A e \in kept : e.key \notin calls[c].ids
          BY <1>1, <4>2 DEF Shows, Dropped, Changing
        <5> QED BY <1>4, <5>1, <5>2
      <4>3. CASE calls[c].kind \notin {"drop", "revoke"}
        <5>1. vault' = vault BY <2>3, <4>3 DEF Deliver
        <5> QED BY <5>1
      <4> QED BY <4>1, <4>2, <4>3
    <3>2. fetched' = fetched BY <1>1, <2>3 DEF TypeInv, TypeOK
    <3> QED BY <1>1, <1>2, <1>5, <2>3, <3>1, <3>2, DoneHears DEF Covered
  <2> QED BY <2>1, <2>2, <2>3
<1> QED BY <1>1, <1>3, <1>6 DEF Shows

LEMMA ShowsFail ==
  ASSUME TypeInv, VaultFetch, Shows, NEW c \in Slots, Fail(c) PROVE Shows'
<1>1. /\ Done(c) /\ kept' = kept /\ (~astray' => ~astray)
      /\ fetched' = (fetched /\ calls[c].kind # "getVault")
  BY DEF Fail, server, TypeInv, TypeOK
<1>2. Dropped' BY <1>1, DoneHears DEF Shows, Dropped
<1>3. ~astray' => calls[c].kind # "post" \/ ~calls[c].served
  BY DEF Fail, TypeInv, TypeOK, Call
<1>4. ~astray' => Coming' = Coming BY <1>1, <1>3, DoneHears DEF Coming, Changing
<1>5. ASSUME ~astray', Covered PROVE Covered'
  <2>1. CASE calls[c].kind = "getVault"
    <3>1. Changing("getVault")' = {}
      BY <1>1, <1>5, <2>1, DoneHears DEF VaultFetch, OneFetch, Changing
    <3> QED BY <1>1, <2>1, <3>1 DEF Covered
  <2>2. CASE calls[c].kind # "getVault"
    <3>1. vault' = vault /\ (fetched' => fetched)
      BY <1>1, <2>2 DEF Fail, TypeInv, TypeOK
    <3> QED BY <1>1, <1>4, <1>5, <3>1, DoneHears DEF Covered
  <2> QED BY <2>1, <2>2
<1> QED BY <1>1, <1>2, <1>5 DEF Shows

LEMMA ShowsLogout ==
  ASSUME TypeInv, Shows, NEW c \in Slots, LogoutSucceeds(c) PROVE Shows'
<1>1. /\ Done(c) /\ kept' = kept /\ ~fetched'
      /\ ~astray' => \A d \in Slots \ {c} : calls[d] = Free
  BY DEF LogoutSucceeds, server
<1>2. Dropped' BY <1>1, DoneHears DEF Shows, Dropped
<1>3. ~astray' => Changing("getVault")' = {} BY <1>1, DoneHears, FreeCall DEF Changing
<1> QED BY <1>1, <1>2, <1>3 DEF Shows, Covered

LEMMA StepShows == TypeInv /\ VaultFetch /\ Alone /\ Shows /\ [Next]_vars => Shows'
<1> SUFFICES ASSUME TypeInv, VaultFetch, Alone, Shows, [Next]_vars PROVE Shows'
  OBVIOUS
<1>1. CASE Reload
  <2>1. ~fetched' /\ \A k : Changing(k)' = {} BY <1>1, FreeCall DEF Reload, Changing
  <2> QED BY <2>1 DEF Shows, Dropped, Covered
<1>2. CASE OpenVault \/ Decline \/ UNCHANGED vars
  <2>1. UNCHANGED <<kept, vault, calls, fetched, astray>>
    BY <1>2 DEF OpenVault, Decline, vars, server, store, history
  <2>2. Unheard(ShownKinds) BY <2>1 DEF Unheard, Changing
  <2> QED BY <2>1, <2>2, ShowsKept
<1>3. ASSUME NEW c \in Slots, UserAct(c) PROVE Shows'
  <2>1. Unheard(ShownKinds) BY <1>3, AskUnheard DEF Unheard, ShownKinds, Kinds, UserKinds
  <2> QED BY <1>3, <2>1, AskUnheard, ShowsKept DEF server, store, history
<1>4. ASSUME NEW c \in Slots, FetchVault(c) \/ FetchKeys(c) PROVE Shows'
  <2>1. Unheard(ShownKinds) BY <1>4, FetchUnheard DEF Unheard, ShownKinds, Kinds, UserKinds
  <2>2. vault' \in {vault, [vault EXCEPT !.fetching = TRUE]}
        /\ UNCHANGED <<kept, fetched, astray>>
    BY <1>4 DEF FetchVault, FetchKeys, server, history
  <2>3. vault'.rows = vault.rows BY <2>2 DEF TypeInv, TypeOK
  <2> QED BY <2>1, <2>2, <2>3, ShowsKept
<1> QED BY <1>1, <1>2, <1>3, <1>4, ShowsServe, ShowsDeliver, ShowsFail, ShowsLogout
        DEF Next, Act, Settle, UserAct

(* reducers/vault.js:26-41: once the vault has been fetched, the page of a *)
(* user who asks for one thing at a time shows every entry that is stored, *)
(* whatever was added, deleted or failed while the fetch was under way.    *)
THEOREM ShowsTheVault ==
  ASSUME OneRequest PROVE Spec => []VaultShowsAll
<1>1. Init => Shows BY FreeCall DEF Init, Shows, Dropped, Covered, Changing
<1>2. Shows => VaultShowsAll
  <2> SUFFICES ASSUME Shows, fetched, ~astray, \A c \in Slots : calls[c].kind \notin UserKinds
               PROVE  kept \subseteq vault.rows
    BY DEF VaultShowsAll
  <2>1. Coming = {} BY DEF Coming, Changing, UserKinds
  <2> QED BY <2>1 DEF Shows, Covered
<1> QED BY <1>1, <1>2, StepShows, AloneHolds, VaultFetchHolds, TypeInvHolds, PTL DEF Spec

-----------------------------------------------------------------------------
(* The keys: a list, with the keys that came and went since it was served  *)
(* and that the page is still to hear of, is what is stored.               *)
Came == UNION {calls[c].ids : c \in Changing("addKeys")}
Went == UNION {calls[c].ids : c \in Changing("revoke")}

ListedIds == {k.id : k \in keys.rows}

Settled == Came \subseteq live /\ Went \cap live = {}

Listing ==
  /\ keys.received => (ListedIds \cup Came) \ Went = live
  /\ \A g \in Changing("getKeys") : (calls[g].ids \cup Came) \ Went = live

Lists == Settled /\ (~astray => Listing)

ListedKinds == {"addKeys", "revoke", "getKeys"}

LEMMA CameSame ==
  /\ Unheard({"addKeys"}) => Came' = Came
  /\ Unheard({"revoke"}) => Went' = Went
BY DEF Unheard, Came, Went

LEMMA ListsKept ==
  ASSUME Lists, Unheard(ListedKinds), UNCHANGED <<live, astray>>,
         keys'.rows = keys.rows, keys'.received = keys.received
  PROVE  Lists'
<1>1. Came' = Came /\ Went' = Went BY CameSame DEF Unheard, ListedKinds
<1>2. ListedIds' = ListedIds BY DEF ListedIds
<1>3. Listing => Listing' BY <1>1, <1>2 DEF Listing, Unheard, ListedKinds
<1> QED BY <1>1, <1>3 DEF Lists, Settled

LEMMA ListsServe ==
  ASSUME TypeInv, Alone, Lists, NEW c \in Slots, Serve(c) PROVE Lists'
<1>0. UNCHANGED <<keys, astray>> /\ ListedIds' = ListedIds
  BY DEF Serve, ServeGet, ServePost, ServeDelete, ServeAddKeys, store, history, ListedIds
<1>1. ASSUME calls[c].kind \in {"addKeys", "revoke"} PROVE Came = {} /\ Went = {}
  <2>1. ~calls[c].served BY ServeKinds
  <2>2. Changing("addKeys") = {} /\ Changing("revoke") = {}
    BY <1>1, <2>1 DEF Changing, Alone, UserCall, UserKinds
  <2> QED BY <2>2 DEF Came, Went
<1>2. ASSUME Served(c, {}), calls[c].kind \in {"addKeys", "revoke"}
      PROVE  /\ calls[c].kind = "addKeys" => Came' = calls[c].ids /\ Went' = {}
             /\ calls[c].kind = "revoke" => Went' = calls[c].ids /\ Came' = {}
             /\ Unheard({"getKeys"})
  <2>1. calls'[c].ids = calls[c].ids /\ ~calls[c].served BY <1>2, ServedCalls, ServeKinds
  <2>2. Changing("addKeys") = {} /\ Changing("revoke") = {}
    BY <1>2, <2>1 DEF Changing, Alone, UserCall, UserKinds
  <2>3. Unheard({"getKeys"}) BY <1>2, ServeHears DEF Unheard
  <2>4. CASE calls[c].kind = "addKeys"
    <3>1. Changing("addKeys")' = {c} /\ Changing("revoke")' = {} BY <2>2, <2>4, ServeHears
    <3> QED BY <2>1, <2>3, <2>4, <3>1 DEF Came, Went
  <2>5. CASE calls[c].kind = "revoke"
    <3>1. Changing("revoke")' = {c} /\ Changing("addKeys")' = {} BY <2>2, <2>5, ServeHears
    <3> QED BY <2>1, <2>3, <2>5, <3>1 DEF Came, Went
  <2> QED BY <1>2, <2>4, <2>5
<1>3. CASE ServeGet(c)
  <2>1. UNCHANGED live BY <1>3 DEF ServeGet, server
  <2>2. CASE Unserved(c, "getVault")
    <3>1. Unheard(ListedKinds) BY <2>2, ServeHears DEF Unheard, ListedKinds, Unserved
    <3> QED BY <1>0, <2>1, <3>1, ListsKept
  <2>3. CASE Unserved(c, "getKeys")
    <3>1. calls[c].kind = "getKeys" /\ calls'[c].ids = live
      BY <1>3, <2>3, ListServedCalls DEF Unserved
    <3>2. Came' = Came /\ Went' = Went
      BY <3>1, ServeHears, CameSame DEF Unheard
    <3>3. Settled' BY <2>1, <3>2 DEF Lists, Settled
    <3>4. Listing => Listing'
      BY <1>0, <2>1, <3>1, <3>2, ServeHears DEF Lists, Settled, Listing
    <3> QED BY <1>0, <3>3, <3>4 DEF Lists
  <2> QED BY <1>3, <2>2, <2>3 DEF ServeGet
<1>4. CASE ServePost(c) \/ (ServeDelete(c) /\ Unserved(c, "drop"))
  <2>1. UNCHANGED live /\ calls[c].kind \in {"post", "drop"}
    BY <1>4 DEF ServePost, ServeDelete, Unserved
  <2>2. Unheard(ListedKinds) BY <2>1, ServeHears DEF Unheard, ListedKinds
  <2> QED BY <1>0, <2>1, <2>2, ListsKept
<1>5. CASE ServeDelete(c) /\ Unserved(c, "revoke")
  <2>1. calls[c].kind = "revoke" /\ Served(c, {}) /\ live' = live \ calls[c].ids
    BY <1>5 DEF ServeDelete, Unserved
  <2>2. Settled' BY <1>2, <2>1 DEF Settled
  <2>3. Listing => Listing' BY <1>0, <1>1, <1>2, <2>1 DEF Listing, Unheard
  <2> QED BY <1>0, <2>2, <2>3 DEF Lists
<1>6. CASE ServeAddKeys(c)
  <2>1. calls[c].kind = "addKeys" /\ Served(c, {}) /\ live' = live \cup calls[c].ids
    BY <1>6 DEF ServeAddKeys, Unserved
  <2>2. Settled' BY <1>2, <2>1 DEF Settled
  <2>3. Listing => Listing' BY <1>0, <1>1, <1>2, <2>1 DEF Listing, Unheard
  <2> QED BY <1>0, <2>2, <2>3 DEF Lists
<1> QED BY <1>3, <1>4, <1>5, <1>6 DEF Serve, ServeDelete

LEMMA StrippedIds == \A ids : {k.id : k \in Stripped(ids)} = ids
<1> SUFFICES ASSUME NEW ids PROVE {k.id : k \in Stripped(ids)} = ids
  OBVIOUS
<1> DEFINE row(k) == [id |-> k, armored |-> k \notin PrivateIds]
<1>1. \A k : row(k).id = k OBVIOUS
<1>2. Stripped(ids) = {row(k) : k \in ids} BY DEF Stripped
<1> HIDE DEF row
<1> QED BY <1>1, <1>2

LEMMA ListsDeliver ==
  ASSUME TypeInv, Alone, Lists, NEW c \in Slots, Deliver(c) PROVE Lists'
<1>1. /\ Done(c) /\ live' = live /\ calls[c].served
      /\ astray' = (astray \/ Outdates(c))
  BY DEF Deliver, server
<1>2. keys \in [rows : SUBSET Listed, fetching : BOOLEAN, received : BOOLEAN]
  BY DEF TypeInv, TypeOK
<1>3. Came' \subseteq Came /\ Went' \subseteq Went BY <1>1, DoneHears DEF Came, Went
<1>4. Settled' BY <1>1, <1>3 DEF Lists, Settled
<1>5. /\ calls[c].kind # "addKeys" => Came' = Came
      /\ calls[c].kind # "revoke" => Went' = Went
  BY <1>1, DoneHears DEF Came, Went, Changing
<1>6. ~astray' => ~astray /\ ~Outdates(c) BY <1>1 DEF TypeInv, TypeOK, Outdates
<1>7. ASSUME ~astray', Listing PROVE Listing'
  <2>1. CASE calls[c].kind = "getKeys"
    <3>1. keys' = [rows |-> Stripped(calls[c].ids), fetching |-> FALSE, received |-> TRUE]
      BY <2>1 DEF Deliver
    <3>2. keys'.rows = Stripped(calls[c].ids) BY <3>1
    <3>3. ListedIds' = calls[c].ids BY <3>2, StrippedIds DEF ListedIds
    <3>4. (calls[c].ids \cup Came) \ Went = live BY <1>1, <1>7, <2>1 DEF Listing, Changing
    <3> QED BY <1>1, <1>5, <1>7, <2>1, <3>3, <3>4, DoneHears DEF Listing
  <2>2. CASE calls[c].kind = "addKeys"
    <3>1. keys' = [keys EXCEPT !.rows = @ \cup Stripped(calls[c].ids)] BY <2>2 DEF Deliver
    <3>2. keys'.rows = keys.rows \cup Stripped(calls[c].ids) /\ keys'.received = keys.received
      BY <1>2, <3>1
    <3>3. ListedIds' = ListedIds \cup calls[c].ids
      <4>1. ListedIds' = ListedIds \cup {k.id : k \in Stripped(calls[c].ids)}
        BY <3>2 DEF ListedIds
      <4> QED BY <4>1, StrippedIds
    <3>4. Came = calls[c].ids /\ Came' = {} /\ Went = {}
      <4>1. Changing("addKeys") = {c} /\ Changing("revoke") = {}
        BY <1>1, <2>2 DEF Changing, Alone, UserCall, UserKinds
      <4> QED BY <1>1, <4>1, DoneHears DEF Came, Went
    <3>5. Changing("getKeys")' = {}
      BY <1>1, <1>6, <1>7, <2>2, DoneHears DEF Outdates, Changing
    <3> QED BY <1>1, <1>5, <1>7, <2>2, <3>2, <3>3, <3>4, <3>5 DEF Listing
  <2>3. CASE calls[c].kind = "revoke"
    <3>1. keys' = [keys EXCEPT !.rows = {k \in @ : k.id \notin calls[c].ids}]
      BY <2>3 DEF Deliver
    <3>2. /\ keys'.rows = {k \in keys.rows : k.id \notin calls[c].ids}
          /\ keys'.received = keys.received
      BY <1>2, <3>1
    <3>3. ListedIds' = ListedIds \ calls[c].ids BY <3>2 DEF ListedIds
    <3>4. Went = calls[c].ids /\ Went' = {} /\ Came = {}
      <4>1. Changing("revoke") = {c} /\ Changing("addKeys") = {}
        BY <1>1, <2>3 DEF Changing, Alone, UserCall, UserKinds
      <4> QED BY <1>1, <4>1, DoneHears DEF Came, Went
    <3>5. Changing("getKeys")' = {}
      BY <1>1, <1>6, <1>7, <2>3, DoneHears DEF Outdates, Changing
    <3> QED BY <1>1, <1>5, <1>7, <2>3, <3>2, <3>3, <3>4, <3>5 DEF Listing
  <2>4. CASE calls[c].kind \notin ListedKinds
    <3>1. keys' = keys BY <2>4 DEF Deliver, ListedKinds
    <3>2. ListedIds' = ListedIds BY <3>1 DEF ListedIds
    <3> QED BY <1>1, <1>5, <1>7, <2>4, <3>1, <3>2, DoneHears DEF Listing, ListedKinds
  <2> QED BY <2>1, <2>2, <2>3, <2>4 DEF ListedKinds
<1> QED BY <1>4, <1>6, <1>7 DEF Lists

LEMMA ListsFail ==
  ASSUME TypeInv, Lists, NEW c \in Slots, Fail(c) PROVE Lists'
<1>1. Done(c) /\ live' = live /\ keys' \in {keys, Empty} /\ (~astray' => ~astray)
  BY DEF Fail, FailedKeys, server, TypeInv, TypeOK
<1>2. Came' \subseteq Came /\ Went' \subseteq Went BY <1>1, DoneHears DEF Came, Went
<1>3. Settled' BY <1>1, <1>2 DEF Lists, Settled
<1>4. ASSUME ~astray', Listing PROVE Listing'
  <2>1. calls[c].kind \notin {"addKeys", "revoke"} \/ ~calls[c].served
    BY <1>4 DEF Fail, TypeInv, TypeOK, Call
  <2>2. Came' = Came /\ Went' = Went BY <1>1, <2>1, DoneHears DEF Came, Went, Changing
  <2>3. keys'.received => keys' = keys BY <1>1, EmptyType
  <2>4. keys'.received => ListedIds' = ListedIds BY <2>3 DEF ListedIds
  <2> QED BY <1>1, <1>4, <2>2, <2>3, <2>4, DoneHears DEF Listing
<1> QED BY <1>1, <1>3, <1>4 DEF Lists

LEMMA ListsLogout ==
  ASSUME TypeInv, Lists, NEW c \in Slots, LogoutSucceeds(c) PROVE Lists'
<1>1. /\ Done(c) /\ live' = live /\ keys' = Empty /\ calls[c].kind = "logout"
      /\ ~astray' => \A d \in Slots \ {c} : calls[d] = Free
  BY DEF LogoutSucceeds, LoggedOut, server
<1>2. Came' \subseteq Came /\ Went' \subseteq Went BY <1>1, DoneHears DEF Came, Went
<1>3. Settled' BY <1>1, <1>2 DEF Lists, Settled
<1>4. ~astray' => Changing("getKeys")' = {} BY <1>1, DoneHears, FreeCall DEF Changing
<1> QED BY <1>1, <1>3, <1>4, EmptyType DEF Lists, Listing

LEMMA StepLists == TypeInv /\ Alone /\ Lists /\ [Next]_vars => Lists'
<1> SUFFICES ASSUME TypeInv, Alone, Lists, [Next]_vars PROVE Lists'
  OBVIOUS
<1>1. CASE Reload
  <2>1. /\ live' = live /\ keys' = Empty
        /\ \A k : Changing(k) = {} /\ Changing(k)' = {}
    BY <1>1, FreeCall DEF Reload, Changing, server
  <2>2. Came' = {} /\ Went' = {} BY <2>1 DEF Came, Went
  <2> QED BY <2>1, <2>2, EmptyType DEF Lists, Settled, Listing
<1>2. CASE OpenVault \/ Decline \/ UNCHANGED vars
  <2>1. UNCHANGED <<live, keys, calls, astray>>
    BY <1>2 DEF OpenVault, Decline, vars, server, store, history
  <2>2. Unheard(ListedKinds) BY <2>1 DEF Unheard, Changing
  <2> QED BY <2>1, <2>2, ListsKept
<1>3. ASSUME NEW c \in Slots, UserAct(c) PROVE Lists'
  <2>1. Unheard(ListedKinds) BY <1>3, AskUnheard DEF Unheard, ListedKinds, Kinds, UserKinds
  <2> QED BY <1>3, <2>1, AskUnheard, ListsKept DEF server, store, history
<1>4. ASSUME NEW c \in Slots, FetchVault(c) \/ FetchKeys(c) PROVE Lists'
  <2>1. Unheard(ListedKinds) BY <1>4, FetchUnheard DEF Unheard, ListedKinds, Kinds, UserKinds
  <2>2. keys' \in {keys, [keys EXCEPT !.fetching = TRUE]} /\ UNCHANGED <<live, astray>>
    BY <1>4 DEF FetchVault, FetchKeys, server, history
  <2>3. keys'.rows = keys.rows /\ keys'.received = keys.received
    BY <2>2 DEF TypeInv, TypeOK
  <2> QED BY <2>1, <2>2, <2>3, ListsKept
<1> QED BY <1>1, <1>2, <1>3, <1>4, ListsServe, ListsDeliver, ListsFail, ListsLogout
        DEF Next, Act, Settle, UserAct

(* reducers/keys.js:26-69: at rest the page of a user who asks for one     *)
(* thing at a time lists the keys that are stored, whatever was added,     *)
(* revoked or failed meanwhile, unless a list came so late that it brought *)
(* back what was there before.                                             *)
THEOREM ListsTheKeys ==
  ASSUME OneRequest PROVE Spec => []KeysTrue
<1>1. Init => Lists
  <2> SUFFICES ASSUME Init PROVE Lists
    OBVIOUS
  <2>1. /\ \A k : Changing(k) = {}
        /\ ~keys.received
    BY FreeCall, EmptyType DEF Init, Changing
  <2> QED BY <2>1 DEF Lists, Settled, Listing, Came, Went
<1>2. Lists => KeysTrue
  <2> SUFFICES ASSUME Lists, keys.received, ~astray, \A c \in Slots : calls[c] = Free
               PROVE  {k.id : k \in keys.rows} = live
    BY DEF KeysTrue
  <2>1. Came = {} /\ Went = {} BY FreeCall DEF Came, Went, Changing
  <2> QED BY <2>1 DEF Lists, Listing, ListedIds
<1> QED BY <1>1, <1>2, StepLists, AloneHolds, TypeInvHolds, PTL DEF Spec
=============================================================================
