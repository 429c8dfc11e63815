------------------------------ MODULE Archive ------------------------------
(***************************************************************************)
(* The vault server: the handlers of vault/ and keystore/, served by the   *)
(* processes Procs over one store.  All of them pass the middlewares of    *)
(* Auth first, which touch none of these entities.  Between its requests a *)
(* page reads and forgets what it may post back.                           *)
(***************************************************************************)
EXTENDS Keystore

Send(p) == PostSecret(p) \/ PostCopies(p) \/ Drop(p) \/ AddKeys(p) \/ Revoke(p)

Serve(p) == VaultStep(p) \/ KeystoreStep(p) \/ StoreFails(p)

Next ==
  \/ \E p \in Procs : Send(p) \/ Serve(p)
  \/ ReadCopies
  \/ Forget

Spec == Init /\ [][Next]_vars

-----------------------------------------------------------------------------
(* A version of a title is one secret, whatever keys encrypt it: getAll-   *)
(* Entries and getEntries of the browser decrypt any one of the newest.    *)
(* The code keeps to that unless two requests write new secrets under the  *)
(* title at a time, or a version is deleted whole while a page or a        *)
(* request in flight has a copy of it to store; copies, revocations, calls *)
(* that fail half-way and everything else may overlap.                     *)
VersionNamesSecret ==
  \A i, j \in DOMAIN entries :
    /\ entries[i].title = entries[j].title
    /\ entries[i].version = entries[j].version
    /\ entries[i].title \notin contested
    => entries[i].secret = entries[j].secret

(* keystore.go:135, "make sure the entry is not a duplicate": no key is    *)
(* stored twice unless two requests were adding it at a time.              *)
KeysDistinct ==
  \A k, l \in DOMAIN keys :
    keys[k].material = keys[l].material /\ keys[k].material \notin contested => k = l

(* keystore.go:158, "revokes a key, deleting all vault entries encrypted   *)
(* with that key": of the entries that were there when the request         *)
(* arrived none is left when the key goes, whatever is served meanwhile.   *)
RevokeLeavesNoneOld ==
  [][\A p \in Procs : RevokeDeleteKey(p) => WithKey(req[p].key) \cap req[p].began = {}]_vars

(* vault.go:97, "the old version will be bumped": a new secret is stored   *)
(* above every version its title had when the request arrived and has yet. *)
BumpedPastOld ==
  [][\A p \in Procs : PostPut(p) /\ req[p].title # None =>
       \A e \in req[p].body, i \in WithTitle(req[p].title) \cap req[p].began :
         e.version > entries[i].version]_vars
=============================================================================
