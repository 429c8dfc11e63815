----------------------------- MODULE VaultStore -----------------------------
(***************************************************************************)
(* The rest of one user's Datastore entities: the public and private keys  *)
(* and the vault entries encrypted with the public ones.  An entry is a    *)
(* child of the key it is encrypted with.  As in AccountStore, each call   *)
(* of the Datastore is a step, and `req[p].pc` names the next one.  Of the *)
(* browser the module keeps what a page has read of the vault, for it may  *)
(* post that back much later.                                              *)
(***************************************************************************)
EXTENDS Integers, FiniteSets, Functions

CONSTANTS
  Procs,          \* requests the server handles at one time
  Titles,         \* titles of entries
  Secrets,        \* plaintexts
  EntryIds,       \* Datastore ids of entries; recycled once nothing refers to them
  KeyIds,         \* Datastore ids of keys
  Names,          \* names given to passwords
  Materials,      \* armored keys and key URLs
  MaxVersion,     \* bound on the versions of an entry
  StoreMayFail,   \* whether a Datastore call may fail
  None            \* "no such value"

VARIABLES
  entries,    \* entities "entry", by id
  keys,       \* entities "key", by id
  published,  \* ids of public keys that a browser may know, revoked ones too
  req,        \* the request each process is serving
  copies,     \* the newest entries of titles, as a page has read and decrypted them
  contested   \* history: titles and materials that requests fought over

stored == <<entries, keys, published>>

browser == <<copies, contested>>

vars == <<stored, req, browser>>

-----------------------------------------------------------------------------
(* vault.Entry; the secret stands for the encrypted message.  In the body  *)
(* of a request version 0 means "not given".                               *)
Entry == [title : Titles, version : Nat, key : KeyIds, secret : Secrets]

(* keystore.Key; material is ArmoredKey or URL, whichever is given.        *)
Key == [type : {"public", "private"}, device : {"password", "other"},
        name : Names \cup {None}, material : Materials]

(* A request: its endpoint and next call, its body, and what the handler   *)
(* read and will use: the ids a query returned.  `began` is history: the   *)
(* entries of its title or key that were stored when the request arrived.  *)
Request ==
  [op : {"none", "post", "drop", "addKeys", "revoke"},
   pc : {"idle", "list", "put", "delete", "deleteKey"},
   body : SUBSET Entry, title : Titles \cup {None},
   newKeys : SUBSET Key, key : KeyIds \cup {None},
   list : SUBSET EntryIds, began : SUBSET EntryIds]

Idle ==
  [op |-> "none", pc |-> "idle", body |-> {}, title |-> None, newKeys |-> {},
   key |-> None, list |-> {}, began |-> {}]

ASSUME ConstantsAssumption ==
  /\ MaxVersion \in Nat
  /\ StoreMayFail \in BOOLEAN
  /\ None \notin Procs \cup Titles \cup KeyIds \cup Names

TypeOK ==
  /\ DOMAIN entries \subseteq EntryIds /\ entries \in [DOMAIN entries -> Entry]
  /\ \A i \in DOMAIN entries : entries[i].version > 0
  /\ DOMAIN keys \subseteq KeyIds /\ keys \in [DOMAIN keys -> Key]
  /\ published \subseteq KeyIds
  /\ req \in [Procs -> Request]
  /\ copies \subseteq Entry /\ \A c \in copies : c.version > 0
  /\ contested \subseteq Titles \cup Materials

Init ==
  /\ entries = [i \in {} |-> None]
  /\ keys = [k \in {} |-> None]
  /\ published = {}
  /\ req = [p \in Procs |-> Idle]
  /\ copies = {}
  /\ contested = {}

-----------------------------------------------------------------------------
At(p, op, label) == req[p].op = op /\ req[p].pc = label

Goto(p, label) == req' = [req EXCEPT ![p].pc = label]

Answer(p) == req' = [req EXCEPT ![p] = Idle]

(* A request arrives at a process.                                         *)
Accept(p, args) == req[p].pc = "idle" /\ req' = [req EXCEPT ![p] = args]

(* PutMulti with incomplete keys gives every entity a new id.  A call that *)
(* fails may have stored any part of them.                                 *)
Assignments(ids, entities) ==
  UNION {Injection(I, entities) :
           I \in {J \in SUBSET ids : \/ Cardinality(J) = Cardinality(entities)
                                     \/ StoreMayFail}}

Merge(f, g) ==
  [i \in DOMAIN f \cup DOMAIN g |-> IF i \in DOMAIN g THEN g[i] ELSE f[i]]

Remove(f, ids) == Restrict(f, DOMAIN f \ ids)

(* Ids that no entity and no request in flight refers to.                  *)
FreeEntryIds ==
  EntryIds \ (DOMAIN entries \cup UNION {req[p].list \cup req[p].began : p \in Procs})

FreeKeyIds ==
  KeyIds \ (DOMAIN keys \cup published \cup {req[p].key : p \in Procs})

(* A query or the deletion of a key may return an error; the handler then  *)
(* answers with it.  What a failed PutMulti or DeleteMulti leaves is the   *)
(* business of its own step.                                               *)
StoreFails(p) ==
  /\ StoreMayFail
  /\ req[p].pc \in {"list", "deleteKey"}
  /\ Answer(p)
  /\ UNCHANGED <<stored, browser>>
=============================================================================
