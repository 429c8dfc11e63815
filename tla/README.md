# Vaelt in TLA+

Vaelt is a password manager. Its Go server, on App Engine, keeps one user's
public keys, the private keys of passwords, and vault entries, each encrypted
with one of the public keys; its React page encrypts and decrypts, with a
password or with a YubiKey over WebUSB. A session may read or write the vault;
a second factor (U2F) may be required.

This directory models the parts of the system in which steps of several actors
meet: the handlers of the server over Datastore and memcache, the Redux store of
the page and the calls it has in flight, its dialogs, the browser's U2F API, and
a card that several runs share.

## The system

| part | state | operations | meets |
|---|---|---|---|
| middlewares, scopes (`auth/auth.go`, `auth/scopes`) | none | basic auth for read or write, naming a user for U2F, checks of scope and verification | every handler runs behind them; they read the user and save the session |
| sessions (`auth/sessions`) | a memcache session per cookie: user key, scope | load once per request, `UpdateSession`, logout, expiry | all requests that carry one cookie |
| U2F (`auth/u2f`) | registrations, counters, one challenge per user | register (2 requests), sign (2 requests), delete, require | shares the user entity with the next part |
| users (`users/`) | user entity | sign-up, login, verification, mail again | stores the first keys in the key store |
| vault (`vault/`) | entries, children of a key | put, delete by title, delete by key | `keystore.RevokeHandler` calls it |
| key store (`keystore/`) | keys | put, revoke; read only: look up a password's key, a proxy | |
| page: vault and keys (`ui/src/actions`, `reducers`, `components/Account`, `Dashboard`) | Redux `vault`, `keys` | fetch if needed, add, update, delete, add and revoke keys, encrypt everything again, log out | the server, by calls whose answers come in any order |
| page: decryption (`MasterDecrypter`, `actions/decrypt.js`, `yubikey.js`, `crypto.js`) | component state, Redux `decrypt`, one global device | prompt, decrypt, cancel; ask the card for the URL of its public key | the card, by commands and answers without an owner |
| page: sign-in and U2F (`components/Login`, `U2F`, `App`, `Dashboard/index.js`, `Account/u2fRegistrations.js`) | Redux `login`, `register`, `u2f`, `user`, the route, component state | forms, dialogs, the panel of the registrations, logout | the account server, by calls; the U2F API, by callbacks |
| U2F browser API (`ui/public/u2f-api.js`) | the port, callbacks waiting for it, request ids and their callbacks, the version | `u2f.sign`, `u2f.register` | an extension or app, by messages |
| page: breach check (`actions/hibp.js`) | Redux `hibp` | one query | an outside service |
| presentation, service worker, configuration, scripts | - | - | - |

### What is hard

- No handler uses a transaction. Each is a sequence of Datastore and memcache
  calls, and another request may be served between any two; any call may fail
  and what was written stays.
- A batch (`PutMulti`, `DeleteMulti`) may fail after a part of its work.
- The user entity is read, changed and saved whole.
- A request loads its session once and saves its own copy.
- A challenge, a registration or a link may be used late, twice or never.
- The page asks for the vault and changes it at the same time; a call may be
  served and its answer lost. A logout overtakes calls that are in flight.
- Components decide where to go, what to fetch and when to open a dialog by
  comparing old with new properties, so what was shown before matters.
- A dialog may be gone, or at its second try, when the U2F API calls back.
- Calls of the U2F API wait for one port and one version, and their answers come
  in any order or twice.
- The card answers when the user taps. Decryptions overlap, cards give up, taps
  come late.

`PROJECT.json` lists each such place with its line under `hazards`, and the
properties that would show it going wrong.

### What makes each part correct

- **Middlewares, sessions, U2F**: Write scope was obtained with the password, and
  with the token if U2F was required; Read scope with either (`ScopesEarned`).
  U2F is required only of a user who has a registration (`NoLockout`); nothing
  but a request to do so lifts the requirement (`EnforcementKept`); what a
  request does to both it does in one piece, unless a call of it fails
  (`RequestsWhole`). A stored counter never goes back (`CounterMonotone`).
- **Users**: a verified address stays verified (`VerificationKept`); U2F settings
  change for verified users only, although the check is made calls before the
  change (`OnlyVerifiedChange`). Each request is answered (`Answered`).
- **Vault and key store**: one version of a title is one secret
  (`VersionNamesSecret`) and no key is stored twice (`KeysDistinct`), unless
  requests fought over them; a new secret goes above what was there
  (`BumpedPastOld`); revoking a key leaves none of the entries it found
  (`RevokeLeavesNoneOld`).
- **Page, vault and keys**: it shows all that is stored (`VaultShowsAll`) and
  lists the keys that are (`KeysTrue`), fetches once (`OneFetch`), does not wait
  for a call that is gone (`FetchingIsInFlight`) and keeps no private key
  (`NoPrivateKeyInStore`).
- **Page, sign-in and U2F**: a dashboard has a user or awaits one
  (`DashboardHasUser`), who is fetched by one call at a time (`OneUserFetch`); no
  part of the store waits for a call that is gone (`FetchingIsInFlight`); a
  dialog that asks for a tap will notice it (`TapHasCall`); at rest the panel
  lists the registrations there are (`ListTrue`), and who is shown as signed in
  is, or was until the session expired (`SignedInHonest`). The spinner of the
  sign-up should stop (`LoadingDone`) and does not always: a finding.
- **U2F API**: each caller is called back once at most, with the answer to its
  own request (`PromiseSpec`), and in the end is, unless nobody can answer
  (`CalledBack`); nobody waits for a port that nobody is getting
  (`NobodyForgotten`); a request has a form the other side reads (`Understood`).
- **Decryption**: a component gets the plaintexts of its own messages
  (`OwnPlaintexts`); a lone decryption uses the key of the message it pushed
  (`KeyOfLastPush`); "Tap your Yubikey" does not outlive the decryption, if no
  two runs were ever under way together (`TapHasRun`); what a lone request takes
  for the URL of the card's key is that URL (`UrlOfCard`). The second and the last
  hold while at most four answers of earlier runs are unread when a run starts.

## The modules

**Account server.** `AccountStore` holds the state of one account and the
control of a request: `req[p].pc` names the call request `p` makes next. `Auth`
(middlewares, sessions), `Users` and `U2f` have one action per call of each
handler; `Account` composes them and states the properties. `AccountPolicy` is
required U2F with every request done in one step (register, remove, require);
`Account` reads its two variables off the store and the request in flight
(`Policy`): a registration counts once its request has required U2F, a deletion
that lifts the requirement does both when the entity is gone. A handler
begins with an action that accepts the request (`Login`, `Delete`, ...), loading
the session, and ends with `Answer`. Three actions are shared by handlers: `CheckPassword`,
`UpdateSession` and `GetUserByKey`.

**Vault server.** `VaultStore`, `Vault` and `Keystore`, composed in `Archive`,
in the same way. Of the browser they keep `copies`: what a page has read and
decrypted of the vault, title by title and at different times (`ReadCopies`), until
it posts it, encrypted with another key under the versions it was read with
(`PostCopies`), or is closed (`Forget`). The server may do anything in between.
`contested` remembers the titles that two requests with new secrets were writing
at once, or of which a version was deleted whole while a copy of it was still to
be stored, and the keys that two requests were adding at once. The middlewares
touch none of this state and are left to `Auth`.

**Page.** `Page` has the parts `vault` and `keys` of the Redux store, the thunks
as actions that put a call in `calls`, the server as one step per call (`Serve`)
and the answers (`Deliver`, `LogoutSucceeds`, `Fail`). What requests do to each
other inside the server is `Archive`'s subject, so `Serve` is one step. A logout
empties the store and leaves the calls in flight where they are.

**Sign-in and U2F in the page.** `BrowserStore` has the parts `login`, `register`,
`user` and `u2f.registrations` of the Redux store (`store`), the route and the
states of the components (`view`), the calls in flight and the calls of the U2F
API that were not called back (`asked`; one whose dialog is gone is counted
apart). An answer changes the store; `Routed` then is what
`componentWillReceiveProps` of `LoginRegister`, `Dashboard` and
`U2fRegistrations` does with it, and `Render` what appears and disappears.
`SignIn` has the forms, the U2F dialog of the login and logout, `Registrations`
the panel of the account page with its dialog, each with the handlers of the
server as these calls find them, in one step per call. `Browser` composes them.

**U2F API.** `U2fApi` follows `u2f-api.js`: `world` is what the page runs on (an
extension behind `chrome.runtime` that does or does not answer this origin, its
page in an iframe, a phone's app), `getting` the step `getMessagePort` is at,
`waiting` the callbacks waiting for the port, `callbacks` those waiting for an
answer. `U2fPromise` is what the file promises its callers: called back after the
call, once, with the answer to a request of that call.

**Decryption.** `Decrypter` has the state of each `MasterDecrypter`, its part of
`reducers/decrypt.js`, the decryptions under way, `getPublicKey`, and the card.
What JavaScript runs between two awaits is one action.

`MCAccount`, `MCArchive`, `MCPage`, `MCBrowser`, `MCU2fApi` and `MCDecrypter` give
the constants values.

### What is abstracted

- One account. The e-mail address, password hash and bcrypt are "the right
  password or not"; keys, messages and titles are model values.
- Sequences of keys, registrations and entries are sets. A Datastore query is
  one consistent read; a list in the page does not show a ciphertext twice.
- A registration is its key handle: a token makes a new handle each time.
- `MaxCounter`, `MaxVersion` and the sets of ids bound what grows; ids and
  challenges that nothing refers to are used again. `Room` and `KeyRoom` leave
  out requests that would need more ids or versions than there are.
- `earned`, `began`, `contested`, `fetched`, `astray`, `stale`, `over`, `heard`, `lost`
  and `alone` are history: properties read them. The guard of no action does,
  except that an id in `began` is not used again yet (`FreeEntryIds`).
- The copies of one page are modelled in `Archive`. The key pair of a new password
  is generated, so its materials are new (`Fresh`).
- A challenge stays stored when it was answered and may be answered again, until
  it expires or is overwritten.
- The card and the queue of `transferIn` are not in the repository and are taken
  as `yubikey.js` uses them (external in the map). An abort may or may not drop
  an answer that is ready; the card refuses other commands while it waits for a
  tap. No decryption starts with more than `MaxUnread` answers unread, and one
  request for time is unread at most: bounds.
- In `Page` and `Browser` a page is loaded again (`Reload`, `Load`) with no call in
  flight; an aborted call is a call that failed first.
- In `Browser` the session may expire at any time (`Expire`, ten minutes in the code),
  and any call may be refused for reasons of its own (`Lose`). The key pair of a
  sign-up is made in a step of its own (`KeyPairMade`); that making it fails is not
  modelled. `MaxAsked` bounds the calls of the U2F API of one kind that are not
  called back, those of both kinds that outlived their dialog, and the key pairs
  under way. The stages of a dialog that offer the same button are one stage (`retry`). `u2f.sign` and `u2f.register` of the store are read by their
  dialogs only, when they change, so the answers reach the dialogs directly. A
  panel that is rendered with a Map for a list throws and takes the page down
  (`Crashes`).
- In `U2fApi` the contents of a request are whether it can be built in the 1.0
  form (`Fits`); `Repeats` bounds the messages that arrive twice. The other side
  is external: it answers each request once, in any order.

## The runs

| run | instance | shows |
|---|---|---|
| `account_serial` | 1 request, 2 tokens, 2 challenges, counters 0..1, all endpoints, calls fail, fair | `TypeOK`, `NoLockout`, `EnforcementKept`, `CounterMonotone`; each request is a step of `AccountPolicy` unless a call of it fails (`RequestsWhole`); every request is answered (`Answered`) |
| `account_concurrent` | 2 requests, 2 tokens, 2 challenges, an account not verified yet, all endpoints but sign-up, no failing call, one counter value (none of the three properties looks at counters) | `ScopesEarned`, `VerificationKept`, `OnlyVerifiedChange` under every interleaving |
| `account_lockout` | 2 requests | finding |
| `account_repeated_delete` | 1 request | finding |
| `account_keyless` | 1 request, no failing call | finding |
| `archive` | 2 requests, 1 title, 2 secrets, 3 entries, 2 keys, 1 key material, 3 versions, a page with copies, calls fail half-way | `TypeOK`, `VersionNamesSecret`, `KeysDistinct`, `RevokeLeavesNoneOld`, `BumpedPastOld` |
| `page_load` | 2 calls in flight, 1 of them the user's, 1 title, 3 keys, calls fail | `TypeOK`, `VaultShowsAll`, `KeysTrue`, `NoPrivateKeyInStore`, `OneFetch`, `FetchingIsInFlight`, with logouts among the user's calls |
| `page_reencrypt` | the same with 2 titles | finding |
| `browser` | 2 calls in flight, 1 device, 1 call of each kind of the U2F API not called back, any call may be lost, the session expires | `TypeOK`, `DashboardHasUser`, `OneUserFetch`, `FetchingIsInFlight`, `TapHasCall`, `ListTrue`, `SignedInHonest` |
| `browser_spinner` | the same | finding |
| `u2f_api` | 2 calls, every browser, 2 messages that arrive twice, fair | `TypeOK`, `Understood`, `NobodyForgotten`, `CalledBack`; `u2f-api.js` implements `U2fPromise` |
| `decrypt` | 1 component, 2 messages, 2 runs (decryptions, requests for the URL), 3 polls (20 in the code), 2 answers unread when a run starts | `TypeOK`, `OwnPlaintexts`, `KeyOfLastPush`, `TapHasRun`, `UrlOfCard` |

**Why these bounds are enough to be interesting.** Two requests suffice for every
pair of handlers to interleave at every call, and each hazard of the list
involves two. Two handles tell the last registration from another one. Counters
0..1 have a lower, an equal and a higher one. Three entries hold two versions of
a title and a copy of one under another key. Two keys with one material are one
key stored twice; with one material the pair of a password, which needs two, is
not added in `archive`: the theorems cover all values of the constants. In `page_load` the
initial fetch and a request of the user overlap in every order; three keys are
an old one and the pair of a new password. In `browser` the two calls in flight
are any two of a fetch, a login, a step of U2F, a change of the registrations and
a logout; one device may be there, be added and be deleted. Two calls of the U2F
API queue for the port, ask for the version together and overtake each other.
Three polls are fewer than a key in two parts with a refusal needs, so giving up
is reached both before and after the first half. Symmetry is used for sets of
values that nothing orders and for safety properties only; the runs that check
liveness, `account_serial` and `u2f_api`, have none.

**Fairness.** `account_serial` assumes weak fairness of the steps of a handler, as
Go runs a handler to its end and a call to a store returns, if only with an
error; failing is never assumed. `u2f_api` assumes weak fairness of the browser's
timers and messages (`Probe`, `TimerFires`, `FrameReady`, `Receive`) and of the
answer to a posted request, which carries the time after which the other side
must answer. `CalledBack` excepts a port that is disconnected, an extension that
is not installed, and calls whose request threw or whose answer no code reads
(iOS has no listener). Nothing is assumed of browsers that send requests, users,
tokens or cards.

**Where requests are served one at a time.** `NoLockout`, `EnforcementKept`,
`RequestsWhole` and `CounterMonotone` are checked so because the code has no
transaction: with two requests they are false. For `NoLockout` that contradicts
the comments of the code (below); for the others no document promises more.
`ScopesEarned` is checked with two requests and without failing calls; its proof
has both. Sign-up is left out of `account_concurrent`: of two sign-ups for one
address, both past the query for the address, the later replaces the user entity,
verified or not, so `VerificationKept` is about accounts that exist.

**What requests may fight over.** `VersionNamesSecret` and `KeysDistinct` are checked
with requests that overlap and except what is `contested`, for the code gives up
exactly there: two new secrets for one title both get the next version; a version
that was deleted whole, and written again with another secret, is joined by a
copy that a page or a request had of the old one; a key posted twice at once is
stored twice. No document denies it. Copies of versions that still exist,
revocations, failures half-way and everything else may overlap as they like.

**What the properties of the page leave out.** Each proviso is a behaviour of the
code that was met while modelling, and that no document, comment or test was found
to deny:

- Answers that come after a logout, or after a list was changed that they were
  taken from, fill the store with what is no longer so (`astray` in `Page`,
  `stale` in `Browser`) until the page is loaded again.
- A session expires without the page being told; it shows its user until the next
  call is refused (`over` in `SignedInHonest`).
- A wrong password hides the U2F dialog of the login, which opens only if no error
  was shown before (`components/Login/login.js:35`).
- A decrypter that is submitted twice may keep "Tap your Yubikey" with no run under
  way: its first run fails, the second asks for its tap and then fails too, and with
  an error there already nothing takes the words away
  (`components/MasterDecrypter/index.js:90-95`; `alone` in `TapHasRun`).
- A fetch or deletion of registrations that fails puts a Map where a list is
  expected (`reducers/u2f.js:119`), and the panel that renders it throws.
- Two passwords added under one name cannot be looked up by it any more
  (`keystore.go:305`).
- `yubikey.js` reads the answers an earlier run left as if they were its own. The
  four answers `initDecryption` reads have to be `90 00`, so up to four leftovers
  make the run fail or are used up before the key is read. After five that all
  say `90 00` the key of an earlier message is returned, or something else taken
  for the URL: `KeyOfLastPush` and `UrlOfCard` are about `MaxUnread` up to 4
  (TLC finds both violated from 5 on). `decryptUsingSessionKey` rejects such a
  key, so that `OwnPlaintexts` holds whatever is unread.

### Where the code departs from what it says

1. `account_lockout`. "If this is their only registration, first disable u2f so the
   user doesnt get permanently locked out" (`u2f.go:262-263`). A registration stores
   its entity, its counter and then, in a third call, the user with U2F required
   (`u2f.go:121-133`). If that first and only registration is deleted meanwhile, the
   deletion counts one, lifts the requirement, the registration's request requires
   it again, and the entity is deleted: U2F is required of a user without
   registrations. (A request to require U2F, `u2f.go:306-325`, races a deletion in
   the same way; the run stops at the first trace.)
2. `account_repeated_delete`. "If this is their only registration, first disable
   u2f" (`u2f.go:262`): the handler looks at the number of registrations and not
   at which one is to be deleted. Repeating the deletion of one that is gone
   disables U2F while another remains.
3. `account_keyless`. "Registrations must contain a keypair" (`users.go:49`): the
   user is stored before the key pair is looked at. If it is refused, the account
   exists without keys and the address cannot be registered again.
4. `page_reencrypt`. "Would you like to encrypt all vault entries with the new
   key?" (`components/Account/keys.js:475`): `ADD_TO_VAULT_SUCCESS` falls through
   and marks the vault as received. An entry added while the fetch is pending
   makes it the only entry that is encrypted again.
5. `browser_spinner`. "If there is an error or success, loading is done"
   (`components/Login/register.js:31`): the code looks for an error that was not there
   before (line 33), and a new sign-up does not clear the old one. The second of two
   sign-ups that fail leaves the spinner on, with nothing under way.

## The proofs

Every safety property of a passing run is a theorem, for all values of
the constants that satisfy the `ConstantsAssumption` of the component: any number of
requests, sessions, entries, keys, calls in flight, devices, decryptions and
messages, with any call failing unless a line below says otherwise. Each proof has
the same form: an invariant holds initially, every step keeps it (one lemma per
operation or group of operations), and it implies the property.

| theorem | states | assumes |
|---|---|---|
| `Account_proofs!TypeCorrect` | `TypeOK` | |
| `Account_proofs!ScopesAreEarned` | `ScopesEarned` | |
| `Account_proofs!SerialNoLockout` | `NoLockout` | `Serial` |
| `AccountKeeps_proofs!OnlyVerifiedChanges` | `OnlyVerifiedChange` | `Orderly` |
| `AccountKeeps_proofs!VerificationLasts` | `VerificationKept` | `Orderly` |
| `AccountKeeps_proofs!SerialEnforcementKept` | `EnforcementKept` | `Serial` |
| `AccountKeeps_proofs!SerialCounterMonotone` | `CounterMonotone` | `Serial` |
| `AccountKeeps_proofs!SerialRequestsWhole` | `RequestsWhole` | `Serial` |
| `Archive_proofs!TypeCorrect` | `TypeOK` | |
| `Archive_proofs!RevocationLeavesNone` | `RevokeLeavesNoneOld` | |
| `Archive_proofs!VersionsGrow` | `BumpedPastOld` | |
| `Archive_proofs!VersionNamesOneSecret` | `VersionNamesSecret` | |
| `Archive_proofs!KeysOnce` | `KeysDistinct` | |
| `U2fApi_proofs!TypeCorrect` | `TypeOK` | |
| `U2fApi_proofs!ApiKeepsPromise` | `PromiseSpec` | |
| `U2fApi_proofs!RequestsUnderstood` | `Understood` | |
| `U2fApi_proofs!NobodyIsForgotten` | `NobodyForgotten` | |
| `Browser_proofs!TypeCorrect` | `TypeOK` | |
| `Browser_proofs!DashboardsHaveUser` | `DashboardHasUser` | |
| `Browser_proofs!UserFetchedOnce` | `OneUserFetch` | |
| `Browser_proofs!FetchesAreInFlight` | `FetchingIsInFlight` | |
| `BrowserTruth_proofs!TapsHaveCall` | `TapHasCall` | |
| `BrowserTruth_proofs!SignedInTrue` | `SignedInHonest` | |
| `BrowserTruth_proofs!ListsTrue` | `ListTrue` | |
| `Page_proofs!TypeCorrect` | `TypeOK` | |
| `Page_proofs!PrivateKeysStayOut` | `NoPrivateKeyInStore` | |
| `Page_proofs!VaultFetchedOnce` | `OneFetch` | |
| `Page_proofs!FetchesAreInFlight` | `FetchingIsInFlight` | |
| `Page_proofs!ShowsTheVault` | `VaultShowsAll` | `OneRequest` |
| `Page_proofs!ListsTheKeys` | `KeysTrue` | `OneRequest` |
| `Decrypter_proofs!TypeCorrect` | `TypeOK` | |
| `Decrypter_proofs!PlaintextsAreOwn` | `OwnPlaintexts` | |
| `Decrypter_proofs!TapsHaveRun` | `TapHasRun` | |
| `Decrypter_proofs!KeysAreOfLastPush` | `KeyOfLastPush` | `FewUnread` |
| `Decrypter_proofs!UrlsAreOfCard` | `UrlOfCard` | `FewUnread` |

**The assumptions.** Each is a bound that the conclusion needs, and TLC violates the
conclusion without it.

- `Serial`: any two processes are the same, one request is served at a time. See
  "Where requests are served one at a time".
- `Orderly`: `Serial`, or nobody signs up. Two sign-ups for one address, both past
  the query for the address, end with the later one's user entity, not verified.
- `OneRequest`: `UserCalls <= 1`, the user waits for an answer before asking for
  the next thing; fetches overlap as they like. Of an addition and a deletion in
  flight together the answers may come in the other order than the server saw
  them.
- `FewUnread`: `MaxUnread <= 4`, no more answers are unread when a decryption starts
  than `initDecryption` reads before it asks for the key. After five "90 00" left
  by earlier runs a key that is left too is taken for this one's.

**The invariants.**

- *Account*. `TypeInv` adds to the types that a request carries the challenge or
  handle its handler uses; without that a step could save `None`. `ScopeInv` adds
  that a sign response past `VerifyU2fInProgress` has a U2F scope, which is what
  makes it safe to raise every scope but `U2fForRead` to `Write`. `SerialInv` says
  what the one request has established by its next call: its registration is
  still there when it requires U2F; it counted one before enabling; it disabled
  U2F before deleting the last; its copy of the user does not require U2F in vain.
- *What handlers that overlap do not undo* (`AccountKeeps_proofs`). How a request moves
  from call to call (`Moves`) and which call writes what are lemmas of their own.
  `Verified`: past `writeAuthCheckMiddleware` the user is verified in the store and
  in the copy the handler saves; U2F is required of verified users only, so a
  verification that saves late lifts nothing. `Current` and `Counting`, for one
  request: the copy that a verification saves is up to date; a new handle has no
  counter yet; a counter about to be stored was checked against the one it
  replaces. `Steady` adds `Stands` for `RequestsWhole`: what a registration or a
  deletion has read and done by its next call, so that the step that ends it, and
  only that one, is the request's step of `AccountPolicy`.
- *Archive*. `ReadsHold`: what a handler has read still covers what was there when
  its request came, whoever writes meanwhile. Versions above 0 only are
  stored (`Versioned`). `TitleHolds`, of each title that is not contested: the
  entries of a version have one secret; every copy that is adrift, in a page or in
  a request, has its like in the store (`Backed`), which is why it may be stored at
  any time; one request at most writes a new secret (`OneWriter`), one secret under
  one version above all that are stored by the time it stores it (`WritesOne`).
  `KeyHolds`, of each key that is not contested: it is stored once, one request at
  most is adding it, and that one has found that it is not there.
- *U2fApi*. `Calling`: each call has at most one callback and is either queued for
  the port or has its request out, and ids grow, so that an answer finds the
  callback of its own request; this gives `PromiseSpec`, step by step.
  `VersionTrue`: the page takes the other side for one that speaks 1.1 only if it
  is a phone's app or has said so, and has posted nothing before it has a port. `Counted`: ids used and versions asked
  are at most two per call begun, which bounds the counter in `TypeOK`.
- *Browser*. `UserFetch`: beside the two properties, a call for the user in flight
  is marked in the store or was forestalled by a login. `SignTap`, `RegTap`: a
  dialog that asks for a tap has its call, and the panel's is there only while the
  list is a list. `Honest`: a call that will bring a user means a session that may
  read or expired, or a logout about to empty the store. `Told`: the list, and every list that is about
  to arrive, is what the server has once the one change in flight is applied.
- *Page*. `VaultFetch` as `UserFetch`. `Shows`: what is stored is in the store, in an
  answer to an addition, or in each answer to a fetch that is about to arrive;
  what was deleted is not stored again. `Lists`: the same for keys, as an equation.
- *Decrypter*. `Employed`: a decryption has a message left,
  and polls left unless it sleeps after the last. `Own`: done and to do
  together are the messages of the owner. `Single`: no two runs until `alone` ends.
  `Tended`: a decryption that nobody overtook has its component on screen, with no
  error shown, so that each of its ends takes "Tap your Yubikey" away. `Lone` counts
  the unread answers of a lone run against those it still reads before the key:
  while a command is sent before each answer is read their number stays; an answer
  left over that is not "90 00" makes the run fail; what a late tap answers is
  behind the third "90 00" at the latest, so that it is one of those read before
  the key.

**Only model-checked.** `Answered` and `CalledBack` are liveness. The five violations are
counterexamples of TLC. No module has a `RECURSIVE` operator; what a loop of the
code does to a list, such as sending a request for each waiting caller, is
written as its result (`SendRequests`), so that it can be proved about.

## What is not modelled

- Rendering, the service worker, configuration, the scripts that record USB
  traffic: no state of their own.
- The breach check: one query, and a reducer that keeps its last answer.
- The key proxy (one HTTP answer copied) and the lookup of a password's private
  key: they only read.
- The syntax of armored keys, the formats of the CCID and OpenPGP packets and of
  U2F messages beyond what decides success.
- Several users: the entities of each are under its own key.
- The clipboard and hiding timers of `VaultEntryDecrypt`, the messages shown and
  the task ids of deletions.
- Several requests of the user in flight in `Page`; what becomes of copies that are
  posted late is in `Archive`.
- Two sign responses or two sign-ups at once: `CounterMonotone` and
  `VerificationKept` do not hold of them, and no document promises it.

## Plan

Modelled, in this order: account server (who may do what, and being locked out),
vault server (losing or mixing entries), page, decryption, the U2F API, sign-in
and registrations. Proved: see the table. Next:

1. `NoLockout` and `RequestsWhole` under a weaker assumption than `Serial`, such as that
   only the changes of registrations are served one at a time, once TLC agrees.
2. Lemmas the proof modules state twice, about sequences and about the fields of a
   process, stated once.
