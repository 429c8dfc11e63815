------------------------------ MODULE Keystore ------------------------------
(***************************************************************************)
(* keystore/keystore.go: adding keys, revoking them together with the      *)
(* entries encrypted with them, finding the private key of a password.     *)
(***************************************************************************)
EXTENDS Vault

(* What the browser posts: a new password is a generated pair of keys with *)
(* one name, anything else is one public key.                              *)
PasswordPair(n, private, public) ==
  {[type |-> "private", device |-> "password", name |-> n, material |-> private],
   [type |-> "public", device |-> "password", name |-> n, material |-> public]}

OtherKey(m) == {[type |-> "public", device |-> "other", name |-> None, material |-> m]}

StoredMaterials == {keys[k].material : k \in DOMAIN keys}

(* Keys that a request in flight is to add; the pair of a password is new. *)
BeingAdded == UNION {{k.material : k \in req[p].newKeys} : p \in Procs}

Fresh == Materials \ (StoredMaterials \cup BeingAdded)

NewKeySets ==
  {OtherKey(m) : m \in Materials}
    \cup {PasswordPair(n, a, b) : n \in Names, a \in Fresh, b \in Fresh}

(* Room for the ids of every request in flight (a bound).                  *)
KeyRoom(newKeys) ==
  Cardinality(newKeys) + Cardinality(UNION {req[p].newKeys \X {p} : p \in Procs})
    <= Cardinality(FreeKeyIds)

(* A key that another request is adding already is contested from then on. *)
AddKeys(p) ==
  /\ \E newKeys \in NewKeySets :
       /\ Accept(p, [Idle EXCEPT !.op = "addKeys", !.pc = "list", !.newKeys = newKeys])
       /\ KeyRoom(newKeys)
       /\ Cardinality({k.material : k \in newKeys}) = Cardinality(newKeys)
       /\ contested' = contested \cup ({k.material : k \in newKeys} \cap BeingAdded)
  /\ UNCHANGED <<stored, copies>>

(* PostHandler: "make sure the entry is not a duplicate".                  *)
Duplicate_Never(newKeys) == FALSE

Duplicate(newKeys) == \E k \in newKeys : k.material \in StoredMaterials

AddKeysList(p) ==
  /\ At(p, "addKeys", "list")
  /\ IF Duplicate(req[p].newKeys) THEN Answer(p) ELSE Goto(p, "put")
  /\ UNCHANGED <<stored, browser>>

AddKeysPut(p) ==
  /\ At(p, "addKeys", "put")
  /\ \E new \in Assignments(FreeKeyIds, req[p].newKeys) :
       /\ keys' = Merge(keys, new)
       /\ published' = published \cup {k \in DOMAIN new : new[k].type = "public"}
  /\ Answer(p)
  /\ UNCHANGED <<entries, browser>>

(* RevokeHandler: the entries first, then the key.  A browser may send it  *)
(* for a key that was revoked meanwhile: deleting nothing is no error.     *)
Revoke(p) ==
  /\ \E k \in DOMAIN keys \cup published :
       Accept(p, [Idle EXCEPT !.op = "revoke", !.pc = "list", !.key = k,
                              !.began = WithKey(k)])
  /\ UNCHANGED <<stored, browser>>

RevokeDeleteKey(p) ==
  /\ At(p, "revoke", "deleteKey")
  /\ keys' = Remove(keys, {req[p].key})
  /\ Answer(p)
  /\ UNCHANGED <<entries, published, browser>>

KeystoreStep(p) ==
  \/ AddKeysList(p)
  \/ AddKeysPut(p)
  \/ RevokeDeleteKey(p)
=============================================================================
