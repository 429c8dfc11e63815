-------------------------------- MODULE Page --------------------------------
(***************************************************************************)
(* The Redux store of one browser page (ui/src/reducers vault and keys),   *)
(* the thunks of ui/src/actions that call the server, and the answers that *)
(* come back in any order.  The server is taken as a whole here: a call is *)
(* served in one step.                                                     *)
(***************************************************************************)
EXTENDS Integers, FiniteSets

CONSTANTS
  Slots,         \* calls that may be in flight
  UserCalls,     \* bound on calls in flight that the user asked for
  Titles,        \* titles of entries
  KeyIds,        \* ids of keys
  PrivateIds,    \* those of private keys
  MaxVersion,    \* bound on versions
  StartKept,     \* entries stored when the page is loaded
  StartLive,     \* keys stored when the page is loaded
  None           \* "no such value"

VARIABLES
  kept,     \* server: the entries stored
  live,     \* server: the ids of the keys stored
  vault,    \* store: vault.entries, flattened, with isFetching and receivedAt
  keys,     \* store: keys.keys with isFetching and receivedAt
  calls,    \* calls in flight
  used,     \* server: key ids given out
  newKey,   \* Keys component: the key to encrypt everything with, once more
  opened,   \* the Vault component was mounted since the page was loaded
  fetched,  \* history: vault.entries holds the answer of a GET /api/vault
  astray    \* history: an answer that was lost, or came too late, may have left
            \* the store untrue

store == <<vault, keys>>
view == <<newKey, opened>>
server == <<kept, live, used>>
history == <<fetched, astray>>
vars == <<kept, live, used, vault, keys, calls, newKey, opened, fetched, astray>>

-----------------------------------------------------------------------------
Entry == [title : Titles, version : 1..MaxVersion, key : KeyIds]

(* A key as the store has it; `armored`: armoredKey is not "".             *)
Listed == [id : KeyIds, armored : BOOLEAN]

(* A call: what it asks, and when it is served, what it answers.           *)
UserKinds == {"post", "drop", "addKeys", "revoke", "getKey", "logout"}
Kinds == UserKinds \cup {"none", "getVault", "getKeys"}

Call ==
  [kind : Kinds, served : BOOLEAN, title : Titles \cup {None}, ids : SUBSET KeyIds,
   entries : SUBSET Entry]

Free == [kind |-> "none", served |-> FALSE, title |-> None, ids |-> {}, entries |-> {}]

Empty == [rows |-> {}, fetching |-> FALSE, received |-> FALSE]

ASSUME ConstantsAssumption ==
  /\ UserCalls \in Nat /\ MaxVersion \in Nat
  /\ PrivateIds \subseteq KeyIds
  /\ StartKept \subseteq [title : Titles, version : 1..MaxVersion, key : StartLive \ PrivateIds]
  /\ StartLive \subseteq KeyIds
  /\ None \notin Titles \cup KeyIds

TypeOK ==
  /\ kept \subseteq Entry
  /\ live \subseteq KeyIds /\ used \subseteq KeyIds
  /\ vault \in [rows : SUBSET Entry, fetching : BOOLEAN, received : BOOLEAN]
  /\ keys \in [rows : SUBSET Listed, fetching : BOOLEAN, received : BOOLEAN]
  /\ calls \in [Slots -> Call]
  /\ newKey \in (KeyIds \ PrivateIds) \cup {None}
  /\ opened \in BOOLEAN
  /\ fetched \in BOOLEAN /\ astray \in BOOLEAN

Init ==
  /\ kept = StartKept
  /\ live = StartLive /\ used = StartLive
  /\ vault = Empty
  /\ keys = Empty
  /\ calls = [c \in Slots |-> Free]
  /\ newKey = None
  /\ opened = FALSE
  /\ fetched = FALSE /\ astray = FALSE

-----------------------------------------------------------------------------
(* Sending.  A user may ask for several things before an answer comes.     *)

Send(c, call) ==
  /\ calls[c] = Free
  /\ calls' = [calls EXCEPT ![c] = call]

Ask(c, call) ==
  /\ Cardinality({d \in Slots : calls[d].kind \in UserKinds}) < UserCalls
  /\ Send(c, call)
  /\ UNCHANGED <<server, store, view, history>>

(* A call that changes nothing here on the server, and whose answer is not *)
(* kept: when it is served does not matter.                                *)
Unchanging(kind) == [Free EXCEPT !.kind = kind, !.served = TRUE]

(* fetchAllFromVaultIfNeeded and fetchKeysIfNeeded, called whenever a      *)
(* component that shows entries or keys is mounted.                        *)
FetchVault_Unguarded(c) ==
  /\ Send(c, [Free EXCEPT !.kind = "getVault"])
  /\ vault' = [vault EXCEPT !.fetching = TRUE]
  /\ opened' = TRUE
  /\ UNCHANGED <<server, keys, newKey, history>>

FetchVault(c) ==
  /\ ~vault.fetching /\ ~vault.received
  /\ Send(c, [Free EXCEPT !.kind = "getVault"])
  /\ vault' = [vault EXCEPT !.fetching = TRUE]
  /\ opened' = TRUE
  /\ UNCHANGED <<server, keys, newKey, history>>

(* After a logout an answer may have been faster than the next user.       *)
OpenVault ==
  /\ ~opened /\ (vault.fetching \/ vault.received)
  /\ opened' = TRUE
  /\ UNCHANGED <<server, store, calls, newKey, history>>

FetchKeys(c) ==
  /\ ~keys.fetching /\ ~keys.received
  /\ Send(c, [Free EXCEPT !.kind = "getKeys"])
  /\ keys' = [keys EXCEPT !.fetching = TRUE]
  /\ UNCHANGED <<server, vault, view, history>>

ShownTitles == {e.title : e \in vault.rows}
PublicListed == {k.id : k \in keys.rows} \ PrivateIds

(* The Vault component offers both forms as soon as it is mounted.         *)
(* newVaultEntry refuses a title that is shown; updateVaultEntry is offered *)
(* for one that is.  Both encrypt with public keys of the list.            *)
AddEntry(c) ==
  /\ opened
  /\ \E t \in Titles, ks \in (SUBSET PublicListed) \ {{}} :
       Ask(c, [Free EXCEPT !.kind = "post", !.title = t, !.ids = ks])

(* getAllEntries: the newest version of each title shown; MasterDecrypter  *)
(* offers the keys all of them share, and reencryptWithNewKey posts a copy *)
(* of each under the new key, with its version.  The time that decrypting  *)
(* takes is part of the time the call takes to reach the server.           *)
NewestShown ==
  {e \in vault.rows : \A f \in vault.rows : f.title = e.title => f.version <= e.version}

Reencrypt(c) ==
  /\ newKey # None /\ vault.rows # {}
  /\ \E old \in PublicListed \ {newKey} :
       LET chosen == {e \in NewestShown : e.key = old} IN
       /\ \A t \in ShownTitles : \E e \in chosen : e.title = t
       /\ Ask(c, [Free EXCEPT !.kind = "post",
                              !.entries = {[e EXCEPT !.key = newKey] : e \in chosen}])

(* The user answers No, or leaves the Account page.                        *)
Decline ==
  /\ newKey # None
  /\ newKey' = None
  /\ UNCHANGED <<server, store, calls, opened, history>>

DeleteByTitle(c) ==
  \E t \in ShownTitles : Ask(c, [Free EXCEPT !.kind = "drop", !.title = t])

(* addKeys: a public key, or the two keys of a new password.               *)
FreshIds == KeyIds \ (used \cup UNION {calls[d].ids : d \in Slots})

AddKeys(c) ==
  \E public \in FreshIds \ PrivateIds :
    \E private \in {{}} \cup {{k} : k \in FreshIds \cap PrivateIds} :
      Ask(c, [Free EXCEPT !.kind = "addKeys", !.ids = {public} \cup private])

RevokeKey(c) ==
  \E k \in keys.rows : Ask(c, [Free EXCEPT !.kind = "revoke", !.ids = {k.id}])

(* Keys.show: a private key is not in the store and is fetched by itself.  *)
FetchKeyByID(c) ==
  \E k \in keys.rows :
    /\ ~k.armored
    /\ Ask(c, Unchanging("getKey"))

(* Nav.logout.  The calls in flight stay in flight.                        *)
Logout(c) == Ask(c, Unchanging("logout"))

-----------------------------------------------------------------------------
(* Serving.                                                                *)

NextVersion(v, title) ==
  /\ \A e \in kept : e.title = title => v > e.version
  /\ v = 1 \/ \E e \in kept : e.title = title /\ e.version = v - 1

Served(c, entries) ==
  calls' = [calls EXCEPT ![c].served = TRUE, ![c].entries = entries]

Unserved(c, kind) == calls[c].kind = kind /\ ~calls[c].served

ServeGet(c) ==
  \/ /\ Unserved(c, "getVault")
     /\ Served(c, kept)
     /\ UNCHANGED <<server, store, view, history>>
  \/ /\ Unserved(c, "getKeys")
     /\ calls' = [calls EXCEPT ![c].served = TRUE, ![c].ids = live]
     /\ UNCHANGED <<server, store, view, history>>

ServePost(c) ==
  /\ Unserved(c, "post")
  /\ \E v \in 1..MaxVersion :
       LET call == calls[c]
           new == IF call.title = None THEN call.entries
                  ELSE {[title |-> call.title, version |-> v, key |-> k] : k \in call.ids}
       IN  /\ IF call.title = None THEN v = 1 ELSE NextVersion(v, call.title)
           /\ kept' = kept \cup new
           /\ Served(c, new)
  /\ UNCHANGED <<live, used, store, view, history>>

ServeDelete(c) ==
  \/ /\ Unserved(c, "drop")
     /\ kept' = {e \in kept : e.title # calls[c].title}
     /\ Served(c, {})
     /\ UNCHANGED <<live, used, store, view, history>>
  \/ /\ Unserved(c, "revoke")
     /\ kept' = {e \in kept : e.key \notin calls[c].ids}
     /\ live' = live \ calls[c].ids
     /\ Served(c, {})
     /\ UNCHANGED <<used, store, view, history>>

ServeAddKeys(c) ==
  /\ Unserved(c, "addKeys")
  /\ live' = live \cup calls[c].ids
  /\ used' = used \cup calls[c].ids
  /\ Served(c, {})
  /\ UNCHANGED <<kept, store, view, history>>

Serve(c) == ServeGet(c) \/ ServePost(c) \/ ServeDelete(c) \/ ServeAddKeys(c)

-----------------------------------------------------------------------------
(* Answers: what the reducers vault and keys make of them, and Keys.       *)

Done(c) == calls' = [calls EXCEPT ![c] = Free]

(* FETCH_VAULT_ALL_SUCCESS merges into what is there, for an entry may have *)
(* been added since the call was served; ADD_TO_VAULT_SUCCESS falls through *)
(* to it and so counts as having received the vault.                       *)
Merged_Replaced(rows, answer) == answer

Merged(rows, answer) == rows \cup answer

(* Private keys lose their armoredKey on the way into the store.           *)
Stripped_Whole(ids) == {[id |-> k, armored |-> TRUE] : k \in ids}

Stripped(ids) == {[id |-> k, armored |-> k \notin PrivateIds] : k \in ids}

(* Keys.addKeySuccess: the public key among those posted.                  *)
NewKey_Private(ids) ==
  CHOOSE k \in ids : k \in PrivateIds \/ ids \cap PrivateIds = {}

NewKey(ids) == CHOOSE k \in ids : k \notin PrivateIds

(* FETCH_LOGOUT_SUCCESS resets the store, and the page shows the home page.*)
LoggedOut == vault' = Empty /\ keys' = Empty

LogoutSucceeds(c) ==
  /\ calls[c].kind = "logout" /\ calls[c].served
  /\ Done(c)
  /\ LoggedOut
  /\ newKey' = None /\ opened' = FALSE
  /\ fetched' = FALSE
  /\ astray' = \E d \in Slots \ {c} : calls[d] # Free
  /\ UNCHANGED server

(* A list that was served before a key came or went may be yet to arrive.  *)
Outdates(c) ==
  /\ calls[c].kind \in {"addKeys", "revoke"}
  /\ \E d \in Slots : calls[d].kind = "getKeys" /\ calls[d].served

(* An answer of addKeys that finds Keys gone changes the store only.       *)
Deliver(c) ==
  LET call == calls[c] IN
  /\ call.served /\ call.kind # "logout"
  /\ Done(c)
  /\ vault' =
       CASE call.kind = "getVault" ->
              [rows |-> Merged(vault.rows, call.entries), fetching |-> FALSE, received |-> TRUE]
         [] call.kind = "post" ->
              [rows |-> vault.rows \cup call.entries, fetching |-> FALSE, received |-> TRUE]
         [] call.kind = "drop" ->
              [vault EXCEPT !.rows = {e \in @ : e.title # call.title}]
         [] call.kind = "revoke" ->
              [vault EXCEPT !.rows = {e \in @ : e.key \notin call.ids}]
         [] OTHER -> vault
  /\ keys' =
       CASE call.kind = "getKeys" ->
              [rows |-> Stripped(call.ids), fetching |-> FALSE, received |-> TRUE]
         [] call.kind = "addKeys" ->
              [keys EXCEPT !.rows = @ \cup Stripped(call.ids)]
         [] call.kind = "revoke" ->
              [keys EXCEPT !.rows = {k \in @ : k.id \notin call.ids}]
         [] OTHER -> keys
  /\ newKey' \in
       CASE call.kind = "addKeys" ->
              {newKey, IF vault.rows = {} THEN None ELSE NewKey(call.ids)}
         [] call.kind = "post" /\ call.title = None -> {None}
         [] OTHER -> {newKey}
  /\ fetched' = (fetched \/ call.kind = "getVault")
  /\ astray' = (astray \/ Outdates(c))
  /\ UNCHANGED <<server, opened>>

(* A call fails before it is served, or its answer does not come back: the *)
(* page cannot tell.  A failed fetch resets its part of the store.         *)
FailedVault_Kept == [vault EXCEPT !.received = FALSE]

FailedVault == Empty

FailedKeys_Received == [Empty EXCEPT !.received = keys.received]

FailedKeys == Empty

Fail(c) ==
  LET call == calls[c] IN
  /\ call # Free
  /\ Done(c)
  /\ vault' = IF call.kind = "getVault" THEN FailedVault ELSE vault
  /\ keys' = IF call.kind \in {"getKeys", "getKey"} THEN FailedKeys ELSE keys
  /\ fetched' = (fetched /\ call.kind # "getVault")
  /\ astray' = (astray \/ (call.served /\ call.kind \in {"post", "addKeys", "revoke"}))
  /\ UNCHANGED <<server, view>>

(* The page is loaded again.  Calls it aborts are calls that fail first.   *)
Reload ==
  /\ \A c \in Slots : calls[c] = Free
  /\ vault' = Empty /\ keys' = Empty /\ newKey' = None /\ opened' = FALSE
  /\ fetched' = FALSE /\ astray' = FALSE
  /\ UNCHANGED <<server, calls>>

Act(c) ==
  \/ FetchVault(c)
  \/ FetchKeys(c)
  \/ AddEntry(c)
  \/ Reencrypt(c)
  \/ DeleteByTitle(c)
  \/ AddKeys(c)
  \/ RevokeKey(c)
  \/ FetchKeyByID(c)
  \/ Logout(c)

Settle(c) == Serve(c) \/ Deliver(c) \/ LogoutSucceeds(c) \/ Fail(c)

Next == Reload \/ OpenVault \/ Decline \/ \E c \in Slots : Act(c) \/ Settle(c)

Spec == Init /\ [][Next]_vars

-----------------------------------------------------------------------------
(* reducers/vault.js:26-41: once the vault has been fetched, the page shows *)
(* every entry that is stored, whatever it added or deleted while the      *)
(* fetch was under way.  (An entry whose confirmation was lost is one the  *)
(* page cannot know of; and a logout does not keep the answers of calls    *)
(* that it overtook from filling the store again.)                         *)
VaultShowsAll ==
  (fetched /\ ~astray /\ \A c \in Slots : calls[c].kind \notin UserKinds)
    => kept \subseteq vault.rows

(* keys.js:212, "private keys arent saved in redux".                       *)
NoPrivateKeyInStore == \A k \in keys.rows : k.armored => k.id \notin PrivateIds

(* reducers/keys.js:26-69: at rest the page lists the keys that are stored, *)
(* whatever was added, revoked or failed meanwhile, unless a list came so  *)
(* late that it brought back what was there before.                        *)
KeysTrue ==
  (keys.received /\ ~astray /\ \A c \in Slots : calls[c] = Free)
    => {k.id : k \in keys.rows} = live

(* actions/vault.js:32-35: the vault is fetched by one call at a time,     *)
(* unless a logout has overtaken the first.                                *)
OneFetch == astray \/ \A c, d \in Slots :
  (calls[c].kind = "getVault" /\ calls[d].kind = "getVault") => c = d

(* A page that waits for its vault has a call to wait for.                 *)
FetchingIsInFlight == vault.fetching => \E c \in Slots : calls[c].kind = "getVault"

(* keys.js:475, "encrypt all vault entries with the new key": every title  *)
(* that is stored is among those encrypted again.                          *)
ReencryptsAll ==
  [][\A c \in Slots : Reencrypt(c) =>
       \A e \in kept : \E f \in calls'[c].entries : f.title = e.title]_vars
=============================================================================
