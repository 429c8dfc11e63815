------------------------------- MODULE Vault -------------------------------
(***************************************************************************)
(* vault/vault.go: storing the ciphertexts of an entry under a version,    *)
(* deleting entries by title and by key.                                   *)
(***************************************************************************)
EXTENDS VaultStore

Versions(title) == {entries[i].version : i \in {j \in DOMAIN entries : entries[j].title = title}}

(* The ids that GetByTitle's query, and the one by ancestor key, return.   *)
WithTitle(title) == {i \in DOMAIN entries : entries[i].title = title}
WithKey(key) == {i \in DOMAIN entries : entries[i].key = key}

(* Copies that a page has yet to post, or that a request has yet to store. *)
Adrift ==
  copies \cup UNION {req[p].body : p \in {q \in Procs : req[q].op = "post" /\ req[q].title = None}}

(* Room for the versions and ids of every request in flight (a bound).     *)
Room(body) ==
  /\ \A e \in {entries[i] : i \in DOMAIN entries} \cup Adrift :
       e.version + Cardinality(Procs) <= MaxVersion
  /\ Cardinality(body) + Cardinality(UNION {req[p].body \X {p} : p \in Procs})
       + Cardinality(DOMAIN entries \cup UNION {req[p].list \cup req[p].began : p \in Procs})
     <= Cardinality(EntryIds)

(* put bumps the version when an entry comes without one.                  *)
NeedsVersionBump_Negative(body) == \E e \in body : e.version < 0

NeedsVersionBump(body) == \E e \in body : e.version < 1

FirstPostCall(body) == IF NeedsVersionBump(body) THEN "list" ELSE "put"

(* newVaultEntry and updateVaultEntry of the browser: one secret under one *)
(* title, encrypted with some of the keys it knows, no version.  A title   *)
(* that another such request is writing is contested from then on.         *)
BeingWritten == {req[p].title : p \in {q \in Procs : req[q].op = "post"}}

PostSecret(p) ==
  /\ \E t \in Titles, s \in Secrets, ks \in (SUBSET published) \ {{}} :
       LET body == {[title |-> t, version |-> 0, key |-> k, secret |-> s] : k \in ks}
       IN  /\ Accept(p, [Idle EXCEPT !.op = "post", !.pc = FirstPostCall(body),
                                     !.title = t, !.body = body, !.began = WithTitle(t)])
           /\ Room(body)
           /\ contested' = contested \cup ({t} \cap BeingWritten)
  /\ UNCHANGED <<stored, copies>>

(* A page learns what the vault has of a title, or that it is gone, when   *)
(* it fetches the vault, adds to it or deletes from it, and decrypts the   *)
(* newest version with a key that all titles have in common (getAllEntries *)
(* of Account/keys.js).  What it knows of other titles stays as it was.    *)
Newest(t) == {i \in WithTitle(t) : \A v \in Versions(t) : entries[i].version >= v}

ReadCopies ==
  /\ \E t \in Titles, old \in published :
       LET others == {c \in copies : c.title # t}
           found  == Newest(t) \cap WithKey(old)
       IN  /\ found # {} \/ WithTitle(t) = {}
           /\ \A c \in others : c.key = old
           /\ copies' = others \cup {entries[i] : i \in found}
  /\ UNCHANGED <<stored, req, contested>>

(* The page is closed, or its user logs out.                               *)
Forget == copies' = {} /\ UNCHANGED <<stored, req, contested>>

(* reencryptWithNewKey: all of that encrypted with another key, under the  *)
(* versions it was read with, whatever became of them since.               *)
PostCopies(p) ==
  /\ \E new \in published :
       LET body == {[c EXCEPT !.key = new] : c \in copies}
       IN  /\ copies # {} /\ \A c \in copies : c.key # new
           /\ Accept(p, [Idle EXCEPT !.op = "post", !.pc = FirstPostCall(body), !.body = body])
           /\ Room(body)
  /\ UNCHANGED <<stored, browser>>

(* "set the next version": one above every version the query returned.     *)
NextVersion_Same(v, versions) ==
  /\ \A w \in versions : v >= w
  /\ v = 1 \/ v \in versions

NextVersion(v, versions) ==
  /\ \A w \in versions : v > w
  /\ v = 1 \/ v - 1 \in versions

PostList(p) ==
  /\ At(p, "post", "list")
  /\ \E v \in 1..MaxVersion :
       /\ NextVersion(v, Versions(req[p].title))
       /\ req' = [req EXCEPT ![p].pc = "put",
                    ![p].body = {[e EXCEPT !.version = v] : e \in req[p].body}]
  /\ UNCHANGED <<stored, browser>>

PostPut(p) ==
  /\ At(p, "post", "put")
  /\ \E new \in Assignments(FreeEntryIds, req[p].body) : entries' = Merge(entries, new)
  /\ Answer(p)
  /\ UNCHANGED <<keys, published, browser>>

(* DeleteMulti.  A title is contested once the last entry of a version of  *)
(* it goes while a copy of it is adrift.                                   *)
Orphans ==
  {c \in Adrift : \A i \in DOMAIN entries' :
                    entries'[i].title # c.title \/ entries'[i].version # c.version}

DeleteListed(p, done) ==
  /\ \E part \in SUBSET req[p].list :
       /\ done => part = req[p].list
       /\ entries' = Remove(entries, part)
  /\ contested' = contested \cup {c.title : c \in Orphans}
  /\ UNCHANGED <<keys, published, copies>>

(* DeleteByTitleHandler.                                                   *)
Drop(p) ==
  /\ \E t \in Titles : Accept(p, [Idle EXCEPT !.op = "drop", !.pc = "list", !.title = t])
  /\ UNCHANGED <<stored, browser>>

DropList(p) ==
  /\ At(p, "drop", "list")
  /\ req' = [req EXCEPT ![p].pc = "delete", ![p].list = WithTitle(req[p].title)]
  /\ UNCHANGED <<stored, browser>>

DropDelete(p) ==
  /\ At(p, "drop", "delete")
  /\ DeleteListed(p, ~StoreMayFail)
  /\ Answer(p)

(* DeleteByKey, called by keystore.RevokeHandler, which goes on only if    *)
(* both calls succeed.                                                     *)
DeleteByKeyList(p) ==
  /\ At(p, "revoke", "list")
  /\ req' = [req EXCEPT ![p].pc = "delete", ![p].list = WithKey(req[p].key)]
  /\ UNCHANGED <<stored, browser>>

DeleteByKey_DropsError(p) ==
  /\ At(p, "revoke", "delete")
  /\ DeleteListed(p, ~StoreMayFail)
  /\ Goto(p, "deleteKey")

DeleteByKey(p) ==
  /\ At(p, "revoke", "delete")
  /\ \/ DeleteListed(p, TRUE) /\ Goto(p, "deleteKey")
     \/ StoreMayFail /\ DeleteListed(p, FALSE) /\ Answer(p)

VaultStep(p) ==
  \/ PostList(p)
  \/ PostPut(p)
  \/ DropList(p)
  \/ DropDelete(p)
  \/ DeleteByKeyList(p)
  \/ DeleteByKey(p)
=============================================================================
