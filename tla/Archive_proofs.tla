--------------------------- MODULE Archive_proofs ---------------------------
(***************************************************************************)
(* Theorems about Archive, for every value of its constants.               *)
(*                                                                         *)
(* All of them hold whatever requests overlap, whatever calls fail and     *)
(* however old the copies are that a page posts.                           *)
(***************************************************************************)
EXTENDS Archive, FiniteSetTheorems, TLAPS

USE DEF stored, browser

-----------------------------------------------------------------------------
(* What the operations on the store do to it.                              *)

(* What PutMulti stores are entities it was given, each once, at free ids. *)
LEMMA AssignmentsStore ==
  ASSUME NEW ids, NEW entities, NEW new \in Assignments(ids, entities)
  PROVE  /\ DOMAIN new \subseteq ids
         /\ \A i \in DOMAIN new : new[i] \in entities
         /\ \A i, j \in DOMAIN new : new[i] = new[j] => i = j
         /\ new = [i \in DOMAIN new |-> new[i]]
<1>1. PICK I \in SUBSET ids : new \in Injection(I, entities)
  BY DEF Assignments
<1>2. new \in [I -> entities] /\ IsInjective(new)
  BY <1>1 DEF Injection
<1> QED BY <1>2 DEF IsInjective

(* The type of a store of entities survives both.                          *)
IsStore(f, Ids, E) == DOMAIN f \subseteq Ids /\ f \in [DOMAIN f -> E]

LEMMA MergeType ==
  ASSUME NEW Ids, NEW E, NEW f, IsStore(f, Ids, E),
         NEW ids \in SUBSET Ids, NEW entities \in SUBSET E,
         NEW new \in Assignments(ids, entities)
  PROVE  IsStore(Merge(f, new), Ids, E)
BY AssignmentsStore DEF Merge, IsStore

LEMMA RemoveType ==
  ASSUME NEW Ids, NEW E, NEW f, IsStore(f, Ids, E), NEW ids
  PROVE  IsStore(Remove(f, ids), Ids, E)
BY DEF Remove, Restrict, IsStore

-----------------------------------------------------------------------------
(* The type invariant, with what it needs to be inductive: the entries a   *)
(* request is about to store have their version.                           *)
Versioned(r) == r.op = "post" /\ r.pc = "put" => \A e \in r.body : e.version > 0

WellFormed(r) == r \in Request /\ Versioned(r)

TypeInv == TypeOK /\ \A p \in Procs : Versioned(req[p])

(* The ways a request moves on, each with what it keeps.                   *)
LEMMA UpdateType ==
  ASSUME TypeInv, NEW p \in Procs, NEW r, WellFormed(r), req' = [req EXCEPT ![p] = r]
  PROVE  req' \in [Procs -> Request] /\ \A q \in Procs : Versioned(req'[q])
BY DEF TypeInv, TypeOK, WellFormed

LEMMA IdleType == WellFormed(Idle)
BY DEF WellFormed, Versioned, Idle, Request

LEMMA AnswerType ==
  ASSUME TypeInv, NEW p \in Procs, Answer(p)
  PROVE  req' \in [Procs -> Request] /\ \A q \in Procs : Versioned(req'[q])
BY IdleType, UpdateType DEF Answer

LEMMA GotoType ==
  ASSUME TypeInv, NEW p \in Procs, req[p].op # "post",
         NEW label \in {"put", "deleteKey"}, Goto(p, label)
  PROVE  req' \in [Procs -> Request] /\ \A q \in Procs : Versioned(req'[q])
<1> DEFINE r == [req[p] EXCEPT !.pc = label]
<1>1. WellFormed(r) BY DEF WellFormed, Versioned, Request, TypeInv, TypeOK
<1>2. req' = [req EXCEPT ![p] = r] BY DEF Goto
<1> HIDE DEF r
<1> QED BY <1>1, <1>2, UpdateType

LEMMA AcceptType ==
  ASSUME TypeInv, NEW p \in Procs, NEW args, WellFormed(args), Accept(p, args)
  PROVE  req' \in [Procs -> Request] /\ \A q \in Procs : Versioned(req'[q])
BY UpdateType DEF Accept

-----------------------------------------------------------------------------
(* A post that goes straight to its write brings versions of its own.      *)
LEMMA FirstPostCallVersioned ==
  ASSUME NEW body \in SUBSET Entry
  PROVE  /\ FirstPostCall(body) \in {"list", "put"}
         /\ FirstPostCall(body) = "put" => \A e \in body : e.version > 0
BY DEF FirstPostCall, NeedsVersionBump, Entry

(* What AddKeys may be asked to store.                                     *)
LEMMA NewKeySetsType == NewKeySets \subseteq SUBSET Key
<1>1. \A m \in Materials : OtherKey(m) \in SUBSET Key BY DEF OtherKey, Key
<1>2. \A n \in Names, a, b \in Materials : PasswordPair(n, a, b) \in SUBSET Key
  BY DEF PasswordPair, Key
<1>3. Fresh \subseteq Materials BY DEF Fresh
<1> QED BY <1>1, <1>2, <1>3, SMT DEF NewKeySets

(* What is adrift are entries.                                             *)
LEMMA AdriftType == TypeInv => Adrift \subseteq Entry
BY DEF Adrift, TypeInv, TypeOK, Request

LEMMA SendType == ASSUME TypeInv, NEW p \in Procs, Send(p) PROVE TypeInv'
<1> SUFFICES /\ req' \in [Procs -> Request] /\ \A q \in Procs : Versioned(req'[q])
             /\ UNCHANGED <<stored, copies>>
             /\ contested' \subseteq Titles \cup Materials
  BY DEF TypeInv, TypeOK
<1>0. contested \subseteq Titles \cup Materials BY DEF TypeInv, TypeOK
<1>1. CASE PostSecret(p)
  <2>1. PICK t \in Titles, s \in Secrets, ks \in (SUBSET published) \ {{}} :
          LET body == {[title |-> t, version |-> 0, key |-> k, secret |-> s] : k \in ks}
          IN  /\ Accept(p, [Idle EXCEPT !.op = "post", !.pc = FirstPostCall(body),
                                        !.title = t, !.body = body, !.began = WithTitle(t)])
              /\ contested' = contested \cup ({t} \cap BeingWritten)
    BY <1>1 DEF PostSecret
  <2> DEFINE body == {[title |-> t, version |-> 0, key |-> k, secret |-> s] : k \in ks}
             args == [Idle EXCEPT !.op = "post", !.pc = FirstPostCall(body),
                                  !.title = t, !.body = body, !.began = WithTitle(t)]
  <2>2. body \in SUBSET Entry BY DEF Entry, TypeInv, TypeOK
  <2>3. Accept(p, args) BY <2>1
  <2>4. WithTitle(t) \in SUBSET EntryIds BY DEF WithTitle, TypeInv, TypeOK
  <2> HIDE DEF body
  <2>5. WellFormed(args)
    BY <2>2, <2>4, IdleType, FirstPostCallVersioned DEF WellFormed, Versioned, Request, Idle
  <2> HIDE DEF args
  <2> QED BY <1>0, <1>1, <2>1, <2>3, <2>5, AcceptType DEF PostSecret
<1>2. CASE PostCopies(p)
  <2>1. PICK new \in published :
          LET body == {[c EXCEPT !.key = new] : c \in copies}
          IN  Accept(p, [Idle EXCEPT !.op = "post", !.pc = FirstPostCall(body), !.body = body])
    BY <1>2 DEF PostCopies
  <2> DEFINE body == {[c EXCEPT !.key = new] : c \in copies}
             args == [Idle EXCEPT !.op = "post", !.pc = FirstPostCall(body), !.body = body]
  <2>2. body \in SUBSET Entry BY DEF Entry, TypeInv, TypeOK
  <2>3. Accept(p, args) BY <2>1
  <2> HIDE DEF body
  <2>4. WellFormed(args)
    BY <2>2, IdleType, FirstPostCallVersioned DEF WellFormed, Versioned, Request, Idle
  <2> HIDE DEF args
  <2> QED BY <1>0, <1>2, <2>3, <2>4, AcceptType DEF PostCopies
<1>3. CASE Drop(p)
  <2>1. PICK t \in Titles :
          Accept(p, [Idle EXCEPT !.op = "drop", !.pc = "list", !.title = t])
    BY <1>3 DEF Drop
  <2>2. WellFormed([Idle EXCEPT !.op = "drop", !.pc = "list", !.title = t])
    BY DEF WellFormed, Versioned, Request, Idle
  <2> QED BY <1>0, <1>3, <2>1, <2>2, AcceptType DEF Drop
<1>4. CASE AddKeys(p)
  <2>1. PICK new : /\ new \in NewKeySets
                   /\ Cardinality({k.material : k \in new}) = Cardinality(new)
                   /\ Accept(p, [Idle EXCEPT !.op = "addKeys", !.pc = "list", !.newKeys = new])
                   /\ contested' = contested \cup ({k.material : k \in new} \cap BeingAdded)
    BY <1>4 DEF AddKeys
  <2>2. new \in SUBSET Key BY <2>1, NewKeySetsType
  <2>3. WellFormed([Idle EXCEPT !.op = "addKeys", !.pc = "list", !.newKeys = new])
    BY <2>2, IdleType DEF WellFormed, Versioned, Request, Idle
  <2>4. {k.material : k \in new} \subseteq Materials BY <2>2 DEF Key
  <2> QED BY <1>0, <1>4, <2>1, <2>3, <2>4, AcceptType DEF AddKeys
<1>5. CASE Revoke(p)
  <2>1. PICK k \in DOMAIN keys \cup published :
          Accept(p, [Idle EXCEPT !.op = "revoke", !.pc = "list", !.key = k,
                                 !.began = WithKey(k)])
    BY <1>5 DEF Revoke
  <2>2. WellFormed([Idle EXCEPT !.op = "revoke", !.pc = "list", !.key = k,
                                !.began = WithKey(k)])
    BY DEF WellFormed, Versioned, Request, Idle, WithKey, TypeInv, TypeOK
  <2> QED BY <1>0, <1>5, <2>1, <2>2, AcceptType DEF Revoke
<1> QED BY <1>1, <1>2, <1>3, <1>4, <1>5 DEF Send

(* What a page reads are stored entries, which have their version.         *)
LEMMA PageType == ASSUME TypeInv, ReadCopies \/ Forget PROVE TypeInv'
<1>1. copies' \subseteq copies \cup {entries[i] : i \in DOMAIN entries}
  BY DEF ReadCopies, Forget, Newest, WithTitle
<1>2. copies' \subseteq Entry /\ \A c \in copies' : c.version > 0
  BY <1>1 DEF TypeInv, TypeOK
<1> QED BY <1>2 DEF ReadCopies, Forget, TypeInv, TypeOK

-----------------------------------------------------------------------------
(* What is left of the store after PutMulti and DeleteMulti is well typed. *)
EntriesOK ==
  IsStore(entries, EntryIds, Entry) /\ \A i \in DOMAIN entries : entries[i].version > 0

LEMMA TypeInvStores == TypeInv => EntriesOK /\ IsStore(keys, KeyIds, Key)
BY DEF TypeInv, TypeOK, EntriesOK, IsStore

LEMMA RemoveEntriesType ==
  ASSUME TypeInv, NEW ids, entries' = Remove(entries, ids) PROVE EntriesOK'
<1>1. IsStore(entries', EntryIds, Entry)
  BY TypeInvStores, RemoveType DEF EntriesOK
<1>2. \A i \in DOMAIN entries' : i \in DOMAIN entries /\ entries'[i] = entries[i]
  BY DEF Remove, Restrict
<1> QED BY <1>1, <1>2, TypeInvStores DEF EntriesOK

LEMMA PutEntriesType ==
  ASSUME TypeInv, NEW p \in Procs, PostPut(p) PROVE EntriesOK'
<1>1. PICK new \in Assignments(FreeEntryIds, req[p].body) : entries' = Merge(entries, new)
  BY DEF PostPut
<1>2. req[p].body \in SUBSET Entry /\ \A e \in req[p].body : e.version > 0
  BY DEF PostPut, At, TypeInv, TypeOK, Request, Versioned
<1>3. FreeEntryIds \in SUBSET EntryIds BY DEF FreeEntryIds
<1>4. IsStore(entries', EntryIds, Entry)
  BY <1>1, <1>2, <1>3, TypeInvStores, MergeType DEF EntriesOK
<1>5. \A i \in DOMAIN new : new[i].version > 0
  BY <1>2, AssignmentsStore
<1>6. \A i \in DOMAIN entries' :
        \/ i \in DOMAIN new /\ entries'[i] = new[i]
        \/ i \in DOMAIN entries /\ entries'[i] = entries[i]
  BY <1>1 DEF Merge
<1> QED BY <1>4, <1>5, <1>6, TypeInvStores DEF EntriesOK

LEMMA VaultStepType ==
  ASSUME TypeInv, NEW p \in Procs, VaultStep(p) PROVE TypeInv'
<1>a. /\ DOMAIN keys \subseteq KeyIds /\ keys \in [DOMAIN keys -> Key]
      /\ published \subseteq KeyIds /\ UNCHANGED <<keys, published, copies>>
  BY DEF VaultStep, PostList, PostPut, DropList, DropDelete, DeleteByKeyList, DeleteByKey,
         DeleteListed, TypeInv, TypeOK
<1>c. contested' \subseteq Titles \cup Materials
  <2>1. {c.title : c \in Orphans} \subseteq Titles
    BY AdriftType DEF Orphans, Entry
  <2> QED BY <2>1 DEF VaultStep, PostList, PostPut, DropList, DropDelete, DeleteByKeyList,
             DeleteByKey, DeleteListed, TypeInv, TypeOK
<1> SUFFICES /\ req' \in [Procs -> Request] /\ \A q \in Procs : Versioned(req'[q])
             /\ EntriesOK'
  BY <1>a, <1>c DEF TypeInv, TypeOK, EntriesOK, IsStore
<1>b. ASSUME UNCHANGED entries PROVE EntriesOK'
  BY <1>b, TypeInvStores DEF EntriesOK
<1>1. CASE PostList(p)
  <2>1. PICK v \in 1..MaxVersion :
          req' = [req EXCEPT ![p].pc = "put",
                    ![p].body = {[e EXCEPT !.version = v] : e \in req[p].body}]
    BY <1>1 DEF PostList
  <2> DEFINE body == {[e EXCEPT !.version = v] : e \in req[p].body}
             r == [req[p] EXCEPT !.pc = "put", !.body = body]
  <2>2. body \in SUBSET Entry /\ \A e \in body : e.version > 0
    BY ConstantsAssumption DEF Entry, TypeInv, TypeOK, Request
  <2>3. req' = [req EXCEPT ![p] = r] BY <2>1 DEF TypeInv, TypeOK, Request
  <2> HIDE DEF body
  <2>4. WellFormed(r) BY <2>2 DEF WellFormed, Versioned, Request, TypeInv, TypeOK
  <2> HIDE DEF r
  <2> QED BY <1>1, <1>b, <2>3, <2>4, UpdateType DEF PostList
<1>2. CASE PostPut(p)
  BY <1>2, PutEntriesType, AnswerType DEF PostPut
<1>3. CASE DropList(p)
  <2> DEFINE r == [req[p] EXCEPT !.pc = "delete", !.list = WithTitle(req[p].title)]
  <2>1. req' = [req EXCEPT ![p] = r] BY <1>3 DEF DropList, TypeInv, TypeOK, Request
  <2>2. WellFormed(r)
    BY DEF WellFormed, Versioned, Request, TypeInv, TypeOK, WithTitle
  <2> HIDE DEF r
  <2> QED BY <1>3, <1>b, <2>1, <2>2, UpdateType DEF DropList
<1>4. CASE DropDelete(p)
  <2>1. EntriesOK' BY <1>4, RemoveEntriesType DEF DropDelete, DeleteListed
  <2> QED BY <1>4, <2>1, AnswerType DEF DropDelete
<1>5. CASE DeleteByKeyList(p)
  <2> DEFINE r == [req[p] EXCEPT !.pc = "delete", !.list = WithKey(req[p].key)]
  <2>1. req' = [req EXCEPT ![p] = r] BY <1>5 DEF DeleteByKeyList, TypeInv, TypeOK, Request
  <2>2. WellFormed(r)
    BY DEF WellFormed, Versioned, Request, TypeInv, TypeOK, WithKey
  <2> HIDE DEF r
  <2> QED BY <1>5, <1>b, <2>1, <2>2, UpdateType DEF DeleteByKeyList
<1>6. CASE DeleteByKey(p)
  <2>1. EntriesOK' BY <1>6, RemoveEntriesType DEF DeleteByKey, DeleteListed
  <2>2. req[p].op # "post" BY <1>6 DEF DeleteByKey, At
  <2> QED BY <1>6, <2>1, <2>2, AnswerType, GotoType DEF DeleteByKey
<1> QED BY <1>1, <1>2, <1>3, <1>4, <1>5, <1>6 DEF VaultStep

LEMMA KeystoreStepType ==
  ASSUME TypeInv, NEW p \in Procs, KeystoreStep(p) PROVE TypeInv'
<1>1. CASE AddKeysList(p)
  BY <1>1, AnswerType, GotoType DEF AddKeysList, At, TypeInv, TypeOK
<1>2. CASE AddKeysPut(p)
  <2>1. PICK new \in Assignments(FreeKeyIds, req[p].newKeys) :
          /\ keys' = Merge(keys, new)
          /\ published' = published \cup {k \in DOMAIN new : new[k].type = "public"}
    BY <1>2 DEF AddKeysPut
  <2>2. req[p].newKeys \in SUBSET Key /\ FreeKeyIds \in SUBSET KeyIds
    BY DEF TypeInv, TypeOK, Request, FreeKeyIds
  <2>3. IsStore(keys', KeyIds, Key)
    BY <2>1, <2>2, TypeInvStores, MergeType
  <2>4. published' \subseteq KeyIds
    BY <2>1, <2>2, AssignmentsStore DEF TypeInv, TypeOK
  <2> QED BY <1>2, <2>3, <2>4, AnswerType DEF AddKeysPut, TypeInv, TypeOK, IsStore
<1>3. CASE RevokeDeleteKey(p)
  <2>1. IsStore(keys', KeyIds, Key)
    BY <1>3, TypeInvStores, RemoveType DEF RevokeDeleteKey
  <2> QED BY <1>3, <2>1, AnswerType DEF RevokeDeleteKey, TypeInv, TypeOK, IsStore
<1> QED BY <1>1, <1>2, <1>3 DEF KeystoreStep

(* Every step keeps the types.                                             *)
LEMMA StepType == TypeInv /\ [Next]_vars => TypeInv'
<1> SUFFICES ASSUME TypeInv, [Next]_vars PROVE TypeInv'
  OBVIOUS
<1>1. ASSUME NEW p \in Procs, StoreFails(p) PROVE TypeInv'
  BY <1>1, AnswerType DEF StoreFails, TypeInv, TypeOK
<1>2. CASE Next
  BY <1>1, <1>2, SendType, VaultStepType, KeystoreStepType, PageType DEF Next, Serve
<1>3. CASE UNCHANGED vars
  BY <1>3 DEF vars, TypeInv, TypeOK, Versioned
<1> QED BY <1>2, <1>3

LEMMA InitType == Init => TypeInv
BY IdleType DEF Init, TypeInv, TypeOK, WellFormed

LEMMA TypeInvHolds == Spec => []TypeInv
BY InitType, StepType, PTL DEF Spec

(* Whatever requests overlap and whatever calls of the Datastore fail, the *)
(* entities, the published keys and the requests stay in their types; no   *)
(* entry is stored without a version (vault.go:90-117).                    *)
THEOREM TypeCorrect == Spec => []TypeOK
<1>1. TypeInv => TypeOK BY DEF TypeInv
<1> QED BY <1>1, TypeInvHolds, PTL

-----------------------------------------------------------------------------
(* What a handler goes by when it writes: of the entries that were there   *)
(* when its request arrived, a revocation has found all with its key, and  *)
(* then has deleted them; and the version a new secret was given is above  *)
(* all those its title had.  Entries come and go meanwhile, but only under *)
(* ids that no request has seen.                                           *)
RevokeReads(p) ==
  req[p].op = "revoke" =>
    /\ req[p].pc = "delete" => WithKey(req[p].key) \cap req[p].began \subseteq req[p].list
    /\ req[p].pc = "deleteKey" => WithKey(req[p].key) \cap req[p].began = {}

PostReads(p) ==
  req[p].op = "post" /\ req[p].pc = "put" /\ req[p].title # None =>
    \A e \in req[p].body, i \in WithTitle(req[p].title) \cap req[p].began :
      e.version > entries[i].version

ReadsHold == \A p \in Procs : RevokeReads(p) /\ PostReads(p)

Inv == TypeInv /\ ReadsHold

(* An entry a request has seen is what it was, as long as it is stored.    *)
SeenKept(p) ==
  \A i \in DOMAIN entries' \cap req[p].began :
    i \in DOMAIN entries /\ entries'[i] = entries[i]

LEMMA RemoveSeenKept ==
  ASSUME NEW p \in Procs, NEW ids, entries' = Remove(entries, ids) PROVE SeenKept(p)
BY DEF SeenKept, Remove, Restrict

LEMMA PutSeenKept ==
  ASSUME NEW p \in Procs, NEW q \in Procs, PostPut(q) PROVE SeenKept(p)
<1>1. PICK new \in Assignments(FreeEntryIds, req[q].body) : entries' = Merge(entries, new)
  BY DEF PostPut
<1>2. DOMAIN new \subseteq FreeEntryIds BY AssignmentsStore
<1>3. DOMAIN new \cap req[p].began = {} BY <1>2 DEF FreeEntryIds
<1> QED BY <1>1, <1>3 DEF SeenKept, Merge

(* Whichever request is served, no other one's reading goes out of date.   *)
LEMMA StepSeenKept ==
  ASSUME NEW p \in Procs, [Next]_vars PROVE SeenKept(p)
<1>0. ASSUME UNCHANGED entries PROVE SeenKept(p)
  BY <1>0 DEF SeenKept
<1>1. ASSUME NEW q \in Procs, Send(q) PROVE SeenKept(p)
  BY <1>0, <1>1 DEF Send, PostSecret, PostCopies, Drop, AddKeys, Revoke
<1>2. ASSUME NEW q \in Procs, VaultStep(q) PROVE SeenKept(p)
  <2>1. CASE PostPut(q) BY <2>1, PutSeenKept
  <2>2. CASE DropDelete(q) BY <2>2, RemoveSeenKept DEF DropDelete, DeleteListed
  <2>3. CASE DeleteByKey(q) BY <2>3, RemoveSeenKept DEF DeleteByKey, DeleteListed
  <2>4. CASE PostList(q) \/ DropList(q) \/ DeleteByKeyList(q)
    BY <1>0, <2>4 DEF PostList, DropList, DeleteByKeyList
  <2> QED BY <1>2, <2>1, <2>2, <2>3, <2>4 DEF VaultStep
<1>3. ASSUME NEW q \in Procs, KeystoreStep(q) \/ StoreFails(q) PROVE SeenKept(p)
  BY <1>0, <1>3 DEF KeystoreStep, AddKeysList, AddKeysPut, RevokeDeleteKey, StoreFails
<1>4. CASE ReadCopies \/ Forget \/ UNCHANGED vars
  BY <1>0, <1>4 DEF vars, ReadCopies, Forget
<1> QED BY <1>1, <1>2, <1>3, <1>4 DEF Next, Serve

(* A request that does not move keeps what it goes by, and one that has    *)
(* read nothing, or is over, goes by nothing.                              *)
LEMMA WaitingReads ==
  ASSUME TypeInv, NEW p \in Procs, RevokeReads(p), PostReads(p), req'[p] = req[p], SeenKept(p)
  PROVE  RevokeReads(p)' /\ PostReads(p)'
<1>1. RevokeReads(p)'
  BY DEF RevokeReads, SeenKept, WithKey
<1>2. ASSUME req[p].op = "post", req[p].pc = "put", req[p].title # None,
             NEW e \in req[p].body,
             NEW i \in DOMAIN entries', entries'[i].title = req[p].title, i \in req[p].began
      PROVE  e.version > entries'[i].version
  <2>1. i \in DOMAIN entries /\ entries'[i] = entries[i]
    BY <1>2 DEF SeenKept
  <2>2. e.version > entries[i].version
    BY <1>2, <2>1 DEF PostReads, WithTitle
  <2> QED BY <2>1, <2>2
<1>3. PostReads(p)'
  BY <1>2 DEF PostReads, WithTitle
<1> QED BY <1>1, <1>3

LEMMA FreshReads ==
  ASSUME NEW p \in Procs,
         req'[p].op \notin {"revoke", "post"} \/ req'[p].pc = "list"
  PROVE  RevokeReads(p)' /\ PostReads(p)'
BY DEF RevokeReads, PostReads

(* The request that moves.                                                 *)
LEMMA AnswerReads ==
  ASSUME TypeInv, NEW p \in Procs, Answer(p) PROVE RevokeReads(p)' /\ PostReads(p)'
<1>1. req'[p].op = "none" BY DEF Answer, TypeInv, TypeOK, Idle
<1> QED BY <1>1, FreshReads

LEMMA SendReads ==
  ASSUME TypeInv, NEW p \in Procs, Send(p) PROVE RevokeReads(p)' /\ PostReads(p)'
<1>1. CASE PostSecret(p)
  <2>1. PICK t \in Titles, s \in Secrets, ks \in (SUBSET published) \ {{}} :
          LET body == {[title |-> t, version |-> 0, key |-> k, secret |-> s] : k \in ks}
          IN  Accept(p, [Idle EXCEPT !.op = "post", !.pc = FirstPostCall(body),
                                     !.title = t, !.body = body, !.began = WithTitle(t)])
    BY <1>1 DEF PostSecret
  <2> DEFINE body == {[title |-> t, version |-> 0, key |-> k, secret |-> s] : k \in ks}
  <2>2. FirstPostCall(body) = "list"
    <3>1. PICK k \in ks : TRUE BY <2>1
    <3>2. [title |-> t, version |-> 0, key |-> k, secret |-> s] \in body BY <3>1
    <3>3. [title |-> t, version |-> 0, key |-> k, secret |-> s].version < 1 OBVIOUS
    <3> QED BY <3>2, <3>3 DEF FirstPostCall, NeedsVersionBump
  <2>3. Accept(p, [Idle EXCEPT !.op = "post", !.pc = FirstPostCall(body),
                               !.title = t, !.body = body, !.began = WithTitle(t)])
    BY <2>1
  <2> HIDE DEF body
  <2>4. req'[p].pc = "list" BY <2>2, <2>3 DEF Idle, Accept, TypeInv, TypeOK
  <2> QED BY <2>4, FreshReads
<1>2. CASE PostCopies(p)
  <2>1. req'[p].op = "post" /\ req'[p].title = None
    BY <1>2 DEF PostCopies, Idle, Accept, TypeInv, TypeOK
  <2> QED BY <2>1 DEF RevokeReads, PostReads
<1>3. CASE Drop(p)
  <2>1. req'[p].pc = "list" BY <1>3 DEF Drop, Idle, Accept, TypeInv, TypeOK
  <2> QED BY <2>1, FreshReads
<1>4. CASE AddKeys(p)
  <2>1. req'[p].pc = "list" BY <1>4 DEF AddKeys, Idle, Accept, TypeInv, TypeOK
  <2> QED BY <2>1, FreshReads
<1>5. CASE Revoke(p)
  <2>1. req'[p].pc = "list"
    BY <1>5 DEF Revoke, Idle, Accept, TypeInv, TypeOK
  <2> QED BY <2>1, FreshReads
<1> QED BY <1>1, <1>2, <1>3, <1>4, <1>5 DEF Send

LEMMA VaultStepReads ==
  ASSUME Inv, NEW p \in Procs, VaultStep(p) PROVE RevokeReads(p)' /\ PostReads(p)'
<1> USE DEF Inv
<1>1. CASE PostList(p)
  <2>1. PICK v \in 1..MaxVersion :
          /\ NextVersion(v, Versions(req[p].title))
          /\ req' = [req EXCEPT ![p].pc = "put",
                       ![p].body = {[e EXCEPT !.version = v] : e \in req[p].body}]
          /\ UNCHANGED entries
    BY <1>1 DEF PostList
  <2>2. /\ req'[p].op = "post" /\ req'[p].title = req[p].title
        /\ req'[p].body = {[e EXCEPT !.version = v] : e \in req[p].body}
    BY <1>1, <2>1 DEF PostList, At, TypeInv, TypeOK, Request
  <2>3. \A e \in req'[p].body : e.version = v
    BY <2>2 DEF TypeInv, TypeOK, Request, Entry
  <2>4. \A i \in WithTitle(req[p].title) : v > entries[i].version
    BY <2>1 DEF NextVersion, Versions, WithTitle
  <2> QED BY <2>1, <2>2, <2>3, <2>4 DEF RevokeReads, PostReads, WithTitle
<1>2. CASE PostPut(p) BY <1>2, AnswerReads DEF PostPut
<1>3. CASE DropList(p)
  BY <1>3, FreshReads DEF DropList, At, TypeInv, TypeOK, Request
<1>4. CASE DropDelete(p) BY <1>4, AnswerReads DEF DropDelete
<1>5. CASE DeleteByKeyList(p)
  <2>1. /\ req'[p].op = "revoke" /\ req'[p].pc = "delete" /\ req'[p].key = req[p].key
        /\ req'[p].list = WithKey(req[p].key) /\ UNCHANGED entries
    BY <1>5 DEF DeleteByKeyList, At, TypeInv, TypeOK, Request
  <2> QED BY <2>1 DEF RevokeReads, PostReads, WithKey
<1>6. CASE DeleteByKey(p)
  <2>1. CASE Answer(p) BY <2>1, AnswerReads
  <2>2. CASE DeleteListed(p, TRUE) /\ Goto(p, "deleteKey")
    <3>0. entries' = Remove(entries, req[p].list) BY <2>2 DEF DeleteListed
    <3>1. /\ req'[p].op = "revoke" /\ req'[p].pc = "deleteKey"
          /\ req'[p].key = req[p].key /\ req'[p].began = req[p].began
      BY <1>6, <2>2 DEF DeleteByKey, At, Goto, TypeInv, TypeOK, Request
    <3>2. WithKey(req[p].key) \cap req[p].began \subseteq req[p].list
      BY <1>6 DEF DeleteByKey, At, ReadsHold, RevokeReads
    <3>3. WithKey(req[p].key)' \cap req'[p].began = {}
      BY <3>0, <3>1, <3>2 DEF WithKey, Remove, Restrict
    <3> QED BY <3>1, <3>3 DEF RevokeReads, PostReads
  <2> QED BY <1>6, <2>1, <2>2 DEF DeleteByKey
<1> QED BY <1>1, <1>2, <1>3, <1>4, <1>5, <1>6 DEF VaultStep

LEMMA KeystoreStepReads ==
  ASSUME TypeInv, NEW p \in Procs, KeystoreStep(p) \/ StoreFails(p)
  PROVE  RevokeReads(p)' /\ PostReads(p)'
<1>1. CASE AddKeysList(p)
  <2>1. Answer(p) \/ Goto(p, "put") BY <1>1 DEF AddKeysList
  <2>2. ASSUME Goto(p, "put") PROVE req'[p].op = "addKeys"
    BY <1>1, <2>2 DEF AddKeysList, At, Goto, TypeInv, TypeOK, Request
  <2> QED BY <2>1, <2>2, AnswerReads, FreshReads
<1>2. CASE AddKeysPut(p) BY <1>2, AnswerReads DEF AddKeysPut
<1>3. CASE RevokeDeleteKey(p) BY <1>3, AnswerReads DEF RevokeDeleteKey
<1>4. CASE StoreFails(p) BY <1>4, AnswerReads DEF StoreFails
<1> QED BY <1>1, <1>2, <1>3, <1>4 DEF KeystoreStep

(* The step of one request leaves the others where they are.               *)
LEMMA OthersWait ==
  ASSUME TypeInv, NEW p \in Procs, NEW q \in Procs \ {p}, Send(q) \/ Serve(q)
  PROVE  req'[p] = req[p]
<1>1. ASSUME NEW args, Accept(q, args) PROVE req'[p] = req[p]
  BY <1>1 DEF Accept, TypeInv, TypeOK
<1>2. ASSUME Answer(q) PROVE req'[p] = req[p]
  BY <1>2 DEF Answer, TypeInv, TypeOK
<1>3. ASSUME NEW label, Goto(q, label) PROVE req'[p] = req[p]
  BY <1>3 DEF Goto, TypeInv, TypeOK
<1>4. CASE Send(q)
  BY <1>1, <1>4 DEF Send, PostSecret, PostCopies, Drop, AddKeys, Revoke
<1>5. CASE VaultStep(q)
  BY <1>2, <1>3, <1>5 DEF VaultStep, PostList, PostPut, DropList, DropDelete,
       DeleteByKeyList, DeleteByKey, TypeInv, TypeOK
<1>6. CASE KeystoreStep(q) \/ StoreFails(q)
  BY <1>2, <1>3, <1>6 DEF KeystoreStep, AddKeysList, AddKeysPut, RevokeDeleteKey, StoreFails
<1> QED BY <1>4, <1>5, <1>6 DEF Serve

LEMMA StepReads == Inv /\ [Next]_vars => Inv'
<1> SUFFICES ASSUME Inv, [Next]_vars, NEW p \in Procs PROVE RevokeReads(p)' /\ PostReads(p)'
  BY StepType DEF Inv, ReadsHold
<1>1. SeenKept(p) BY StepSeenKept
<1>2. CASE req'[p] = req[p] BY <1>1, <1>2, WaitingReads DEF Inv, ReadsHold
<1>3. CASE \E q \in Procs \ {p} : Send(q) \/ Serve(q)
  <2>1. req'[p] = req[p] BY <1>3, OthersWait DEF Inv
  <2> QED BY <1>2, <2>1
<1>4. CASE Send(p) BY <1>4, SendReads DEF Inv
<1>5. CASE Serve(p) BY <1>5, VaultStepReads, KeystoreStepReads DEF Serve, Inv
<1>6. CASE ReadCopies \/ Forget \/ UNCHANGED vars
  BY <1>2, <1>6 DEF vars, ReadCopies, Forget
<1> QED BY <1>3, <1>4, <1>5, <1>6 DEF Next

LEMMA InvHolds == Spec => []Inv
<1>1. Init => Inv
  BY InitType DEF Inv, ReadsHold, RevokeReads, PostReads, Init, Idle
<1> QED BY <1>1, StepReads, PTL DEF Spec

(* Whatever is served meanwhile: when a key is deleted by its revocation,  *)
(* none of the entries encrypted with it that were stored when the request *)
(* arrived is left (keystore.go:158-182, which deletes the entries first   *)
(* and goes on only if that succeeded).                                    *)
THEOREM RevocationLeavesNone == Spec => RevokeLeavesNoneOld
<1>1. ASSUME Inv, NEW p \in Procs, RevokeDeleteKey(p)
      PROVE  WithKey(req[p].key) \cap req[p].began = {}
  BY <1>1 DEF RevokeDeleteKey, At, Inv, ReadsHold, RevokeReads
<1>2. Inv /\ [Next]_vars =>
        [\A p \in Procs : RevokeDeleteKey(p) => WithKey(req[p].key) \cap req[p].began = {}]_vars
  BY <1>1
<1> QED BY <1>2, InvHolds, PTL DEF Spec, RevokeLeavesNoneOld

(* Whatever is served meanwhile: a new secret is stored under a version    *)
(* above those its title had when the request arrived and has yet          *)
(* (vault.go:97-117).                                                      *)
THEOREM VersionsGrow == Spec => BumpedPastOld
<1>1. ASSUME Inv, NEW p \in Procs, PostPut(p), req[p].title # None
      PROVE  \A e \in req[p].body, i \in WithTitle(req[p].title) \cap req[p].began :
               e.version > entries[i].version
  BY <1>1 DEF PostPut, At, Inv, ReadsHold, PostReads
<1>2. Inv /\ [Next]_vars =>
        [\A p \in Procs : PostPut(p) /\ req[p].title # None =>
           \A e \in req[p].body, i \in WithTitle(req[p].title) \cap req[p].began :
             e.version > entries[i].version]_vars
  BY <1>1
<1> QED BY <1>2, InvHolds, PTL DEF Spec, BumpedPastOld

-----------------------------------------------------------------------------
(* What holds of a title nobody contested.  Its versions name one secret,  *)
(* a copy of it that is adrift is one of an entry still stored, only one   *)
(* request is writing it, and that has one secret, under a version above   *)
(* all that are stored.                                                    *)
Same(e, f) == e.title = f.title /\ e.version = f.version /\ e.secret = f.secret

SameSecret(t) ==
  \A i, j \in WithTitle(t) :
    entries[i].version = entries[j].version => entries[i].secret = entries[j].secret

Backed(t) ==
  \A c \in Adrift : c.title = t => \E i \in DOMAIN entries : Same(c, entries[i])

Writes(p, t) == req[p].op = "post" /\ req[p].title = t

OneWriter(t) == \A p, q \in Procs : Writes(p, t) /\ Writes(q, t) => p = q

WritesOne(p, t) ==
  Writes(p, t) =>
    /\ \A e, f \in req[p].body : e.title = t /\ Same(e, f)
    /\ req[p].pc = "put" =>
         \A e \in req[p].body, i \in WithTitle(t) : e.version > entries[i].version

TitleHolds(t) ==
  SameSecret(t) /\ Backed(t) /\ OneWriter(t) /\ \A p \in Procs : WritesOne(p, t)

(* Copies have been numbered before: they are stored at once.  A secret is *)
(* posted under the title of its request.                                  *)
PostsOwn ==
  \A p \in Procs : req[p].op = "post" =>
    IF req[p].title = None THEN req[p].pc = "put"
                           ELSE \A e \in req[p].body : e.title = req[p].title

TitleInv ==
  TypeInv /\ PostsOwn /\ \A t \in Titles \ contested : TitleHolds(t)

(* Contested once is contested for good.                                   *)
LEMMA ContestedStays == [Next]_vars => contested \subseteq contested'
<1>1. ASSUME NEW p \in Procs, Send(p) \/ Serve(p) PROVE contested \subseteq contested'
  BY <1>1 DEF Send, PostSecret, PostCopies, Drop, AddKeys, Revoke, Serve, VaultStep, PostList,
       PostPut, DropList, DropDelete, DeleteByKeyList, DeleteByKey, DeleteListed, KeystoreStep,
       AddKeysList, AddKeysPut, RevokeDeleteKey, StoreFails
<1>2. CASE ReadCopies \/ Forget \/ UNCHANGED vars
  BY <1>2 DEF ReadCopies, Forget, vars
<1> QED BY <1>1, <1>2 DEF Next

(* What a step does to a title, when the entries stay: nothing, as long as *)
(* nothing new is adrift and the request that moves was not, or is no      *)
(* longer, writing it.                                                     *)
LEMMA QuietTitle ==
  ASSUME TypeInv, NEW t, TitleHolds(t), NEW p \in Procs, UNCHANGED entries,
         \A q \in Procs \ {p} : req'[q] = req[q],
         \A c \in Adrift' : c.title = t => \E d \in Adrift : Same(c, d),
         Writes(p, t)' => WritesOne(p, t)' /\ (Writes(p, t) \/ \A q \in Procs : ~Writes(q, t))
  PROVE  TitleHolds(t)'
<1>1. SameSecret(t)' BY DEF TitleHolds, SameSecret, WithTitle
<1>2. Backed(t)'
  <2> SUFFICES ASSUME NEW c \in Adrift', c.title = t
               PROVE  \E i \in DOMAIN entries : Same(c, entries[i])
    BY DEF Backed
  <2>1. PICK d \in Adrift : Same(c, d) OBVIOUS
  <2>2. PICK i \in DOMAIN entries : Same(d, entries[i])
    BY <2>1 DEF TitleHolds, Backed, Same
  <2> QED BY <2>1, <2>2 DEF Same
<1>3. OneWriter(t)' BY DEF TitleHolds, OneWriter, Writes
<1>4. \A q \in Procs : WritesOne(q, t)'
  BY DEF TitleHolds, WritesOne, Writes, WithTitle
<1> QED BY <1>1, <1>2, <1>3, <1>4 DEF TitleHolds

(* What is adrift after the step of one request.                           *)
LEMMA AdriftMoves ==
  ASSUME NEW t, NEW p \in Procs, UNCHANGED copies,
         \A q \in Procs \ {p} : req'[q] = req[q],
         Writes(p, None)' =>
           \A c \in req'[p].body : c.title = t => \E d \in Adrift : Same(c, d)
  PROVE  \A c \in Adrift' : c.title = t => \E d \in Adrift : Same(c, d)
<1> SUFFICES ASSUME NEW c \in Adrift', c.title = t PROVE \E d \in Adrift : Same(c, d)
  OBVIOUS
<1>1. CASE c \in copies BY <1>1 DEF Adrift, Same
<1>2. CASE \E q \in Procs : Writes(q, None)' /\ c \in req'[q].body
  <2>1. PICK q \in Procs : Writes(q, None)' /\ c \in req'[q].body BY <1>2
  <2>2. CASE q = p BY <2>1, <2>2
  <2>3. CASE q # p
    <3>1. c \in Adrift BY <2>1, <2>3 DEF Adrift, Writes
    <3> QED BY <3>1 DEF Same
  <2> QED BY <2>2, <2>3
<1> QED BY <1>1, <1>2 DEF Adrift, Writes

(* A request that is none of a post, or no longer one.                     *)
LEMMA OtherTitle ==
  ASSUME TypeInv, NEW t \in Titles, TitleHolds(t), NEW p \in Procs,
         UNCHANGED <<entries, copies>>,
         \A q \in Procs \ {p} : req'[q] = req[q], req'[p].op # "post"
  PROVE  TitleHolds(t)'
<1>1. ~Writes(p, t)' /\ ~Writes(p, None)' BY DEF Writes
<1>2. \A c \in Adrift' : c.title = t => \E d \in Adrift : Same(c, d)
  BY <1>1, AdriftMoves
<1> QED BY <1>1, <1>2, QuietTitle

LEMMA SendTitle ==
  ASSUME TitleInv, NEW p \in Procs, Send(p), NEW t \in Titles \ contested'
  PROVE  TitleHolds(t)'
<1>a. TypeInv /\ TitleHolds(t) /\ t # None
  BY ContestedStays, ConstantsAssumption DEF TitleInv, Next
<1>b. \A q \in Procs \ {p} : req'[q] = req[q] BY <1>a, OthersWait
<1>c. UNCHANGED <<entries, copies>>
  BY DEF Send, PostSecret, PostCopies, Drop, AddKeys, Revoke
<1>1. CASE PostSecret(p)
  <2>1. PICK u \in Titles, s \in Secrets, ks \in (SUBSET published) \ {{}} :
          LET body == {[title |-> u, version |-> 0, key |-> k, secret |-> s] : k \in ks}
          IN  /\ Accept(p, [Idle EXCEPT !.op = "post", !.pc = FirstPostCall(body),
                                        !.title = u, !.body = body, !.began = WithTitle(u)])
              /\ contested' = contested \cup ({u} \cap BeingWritten)
    BY <1>1 DEF PostSecret
  <2> DEFINE body == {[title |-> u, version |-> 0, key |-> k, secret |-> s] : k \in ks}
  <2>2. FirstPostCall(body) = "list"
    <3>1. PICK k \in ks : TRUE BY <2>1
    <3>2. [title |-> u, version |-> 0, key |-> k, secret |-> s] \in body BY <3>1
    <3>3. [title |-> u, version |-> 0, key |-> k, secret |-> s].version < 1 OBVIOUS
    <3> QED BY <3>2, <3>3 DEF FirstPostCall, NeedsVersionBump
  <2>3. Accept(p, [Idle EXCEPT !.op = "post", !.pc = FirstPostCall(body),
                               !.title = u, !.body = body, !.began = WithTitle(u)])
    BY <2>1
  <2>4. \A e, f \in body : e.title = u /\ Same(e, f) BY DEF Same
  <2> HIDE DEF body
  <2>5. req'[p].op = "post" /\ req'[p].pc = "list" /\ req'[p].title = u /\ req'[p].body = body
    BY <1>a, <2>2, <2>3 DEF Accept, Idle, TypeInv, TypeOK
  <2>6. ~Writes(p, None)' BY <2>5, ConstantsAssumption DEF Writes
  <2>7. Writes(p, t)' => WritesOne(p, t)' /\ \A q \in Procs : ~Writes(q, t)
    <3> SUFFICES ASSUME Writes(p, t)' PROVE WritesOne(p, t)' /\ \A q \in Procs : ~Writes(q, t)
      OBVIOUS
    <3>1. t = u BY <2>5 DEF Writes
    <3>2. t \notin BeingWritten BY <2>1, <3>1
    <3> QED BY <2>4, <2>5, <3>1, <3>2 DEF WritesOne, Writes, BeingWritten
  <2>8. \A c \in Adrift' : c.title = t => \E d \in Adrift : Same(c, d)
    BY <1>b, <1>c, <2>6, AdriftMoves
  <2> QED BY <1>a, <1>b, <1>c, <2>7, <2>8, QuietTitle
<1>2. CASE PostCopies(p)
  <2>1. PICK new \in published :
          LET body == {[c EXCEPT !.key = new] : c \in copies}
          IN  Accept(p, [Idle EXCEPT !.op = "post", !.pc = FirstPostCall(body), !.body = body])
    BY <1>2 DEF PostCopies
  <2> DEFINE body == {[c EXCEPT !.key = new] : c \in copies}
  <2>2. Accept(p, [Idle EXCEPT !.op = "post", !.pc = FirstPostCall(body), !.body = body])
    BY <2>1
  <2>3. \A e \in body : \E c \in copies : Same(e, c)
    BY <1>a DEF Same, TypeInv, TypeOK, Entry
  <2> HIDE DEF body
  <2>5. req'[p].title = None /\ req'[p].body = body
    BY <1>a, <2>2 DEF Accept, Idle, TypeInv, TypeOK
  <2>6. ~Writes(p, t)' BY <1>a, <2>5 DEF Writes
  <2>7. \A c \in Adrift' : c.title = t => \E d \in Adrift : Same(c, d)
    <3>1. \A e \in req'[p].body : \E c \in Adrift : Same(e, c)
      BY <2>3, <2>5 DEF Adrift
    <3> QED BY <1>b, <1>c, <3>1, AdriftMoves
  <2> QED BY <1>a, <1>b, <1>c, <2>6, <2>7, QuietTitle
<1>3. CASE Drop(p) \/ AddKeys(p) \/ Revoke(p)
  <2>1. req'[p].op # "post"
    BY <1>a, <1>3 DEF Drop, AddKeys, Revoke, Accept, Idle, TypeInv, TypeOK
  <2> QED BY <1>a, <1>b, <1>c, <2>1, OtherTitle
<1> QED BY <1>1, <1>2, <1>3 DEF Send

(* Deleting leaves a title alone whose copies keep their entries.          *)
LEMMA DeleteTitle ==
  ASSUME TypeInv, NEW t \in Titles, TitleHolds(t), NEW p \in Procs,
         DeleteListed(p, TRUE) \/ DeleteListed(p, FALSE), t \notin contested',
         \A q \in Procs \ {p} : req'[q] = req[q],
         req'[p].op # "post", req[p].op # "post"
  PROVE  TitleHolds(t)'
<1>1. PICK part : entries' = Remove(entries, part) BY DEF DeleteListed
<1>2. \A i \in DOMAIN entries' : i \in DOMAIN entries /\ entries'[i] = entries[i]
  BY <1>1 DEF Remove, Restrict
<1>3. SameSecret(t)' BY <1>2 DEF TitleHolds, SameSecret, WithTitle
<1>4. OneWriter(t)' /\ \A q \in Procs : WritesOne(q, t)'
  BY <1>2 DEF TitleHolds, OneWriter, WritesOne, Writes, WithTitle
<1>5. Adrift' \subseteq Adrift
  BY DEF Adrift, DeleteListed
<1>6. Backed(t)'
  <2> SUFFICES ASSUME NEW c \in Adrift', c.title = t
               PROVE  \E i \in DOMAIN entries' : Same(c, entries'[i])
    BY DEF Backed
  <2>1. c \in Adrift BY <1>5
  <2>2. c \notin Orphans BY DEF DeleteListed
  <2>3. PICK i \in DOMAIN entries' :
          entries'[i].title = c.title /\ entries'[i].version = c.version
    BY <2>1, <2>2 DEF Orphans
  <2>4. PICK j \in DOMAIN entries : Same(c, entries[j])
    BY <2>1 DEF TitleHolds, Backed
  <2>5. entries[i].secret = entries[j].secret
    BY <1>2, <2>3, <2>4 DEF TitleHolds, SameSecret, WithTitle, Same
  <2> QED BY <1>2, <2>3, <2>4, <2>5 DEF Same
<1> QED BY <1>3, <1>4, <1>6 DEF TitleHolds

(* A post numbers its secret above all that is stored of its title.        *)
LEMMA NumberTitle ==
  ASSUME TitleInv, NEW p \in Procs, PostList(p), NEW t \in Titles, TitleHolds(t)
  PROVE  TitleHolds(t)'
<1>a. TypeInv BY DEF TitleInv
<1>b. \A q \in Procs \ {p} : req'[q] = req[q]
  BY <1>a, OthersWait DEF Serve, VaultStep
<1>1. PICK v \in 1..MaxVersion :
        /\ NextVersion(v, Versions(req[p].title))
        /\ req' = [req EXCEPT ![p].pc = "put",
                     ![p].body = {[e EXCEPT !.version = v] : e \in req[p].body}]
        /\ UNCHANGED <<entries, copies>>
  BY DEF PostList
<1>2. /\ req[p].op = "post" /\ req[p].pc = "list"
      /\ req'[p].op = "post" /\ req'[p].pc = "put" /\ req'[p].title = req[p].title
      /\ req'[p].body = {[e EXCEPT !.version = v] : e \in req[p].body}
  BY <1>a, <1>1 DEF PostList, At, TypeInv, TypeOK, Request
<1>3. req[p].title # None BY <1>2 DEF TitleInv, PostsOwn, Writes
<1>4. \A c \in Adrift' : c.title = t => \E d \in Adrift : Same(c, d)
  BY <1>b, <1>1, <1>2, <1>3, AdriftMoves DEF Writes
<1>5. ASSUME Writes(p, t)' PROVE Writes(p, t) /\ WritesOne(p, t)'
  <2>1. Writes(p, t) BY <1>2, <1>5 DEF Writes
  <2>2. \A e, f \in req[p].body : e.title = t /\ Same(e, f)
    BY <2>1 DEF TitleHolds, WritesOne
  <2>3. \A e \in req'[p].body :
          e.version = v /\ \E f \in req[p].body : e.title = f.title /\ e.secret = f.secret
    BY <1>a, <1>2 DEF TypeInv, TypeOK, Request, Entry
  <2>4. \A e, f \in req'[p].body : e.title = t /\ Same(e, f)
    BY <2>2, <2>3 DEF Same
  <2>5. \A i \in WithTitle(t) : v > entries[i].version
    BY <1>1, <2>1 DEF NextVersion, Versions, WithTitle, Writes
  <2>6. \A e \in req'[p].body, i \in WithTitle(t)' : e.version > entries'[i].version
    BY <1>1, <2>3, <2>5 DEF WithTitle
  <2> QED BY <2>1, <2>4, <2>6 DEF WritesOne
<1> QED BY <1>a, <1>b, <1>1, <1>4, <1>5, QuietTitle

(* What is stored of a title is a secret above all versions, or copies of  *)
(* what is stored.                                                         *)
LEMMA PutTitle ==
  ASSUME TitleInv, NEW p \in Procs, PostPut(p), NEW t \in Titles, TitleHolds(t)
  PROVE  TitleHolds(t)'
<1>a. TypeInv /\ t # None BY ConstantsAssumption DEF TitleInv
<1>b. \A q \in Procs \ {p} : req'[q] = req[q]
  BY <1>a, OthersWait DEF Serve, VaultStep
<1>c. req[p].op = "post" /\ req[p].pc = "put" /\ req'[p].op = "none"
  BY <1>a DEF PostPut, At, Answer, Idle, TypeInv, TypeOK
<1>1. PICK new \in Assignments(FreeEntryIds, req[p].body) : entries' = Merge(entries, new)
  BY DEF PostPut
<1>2. DOMAIN new \cap DOMAIN entries = {} /\ \A i \in DOMAIN new : new[i] \in req[p].body
  BY AssignmentsStore DEF FreeEntryIds
<1>3. \A i \in DOMAIN entries' :
        \/ i \in DOMAIN entries /\ entries'[i] = entries[i]
        \/ entries'[i] \in req[p].body
  BY <1>1, <1>2 DEF Merge
<1>4. \A i \in DOMAIN entries : i \in DOMAIN entries' /\ entries'[i] = entries[i]
  BY <1>1, <1>2 DEF Merge
<1>5. \A e \in req[p].body : e \in Entry BY <1>a DEF TypeInv, TypeOK, Request
<1>6. \A i \in DOMAIN entries : entries[i] \in Entry BY <1>a DEF TypeInv, TypeOK
<1>7. \A c \in Adrift' : c.title = t => \E d \in Adrift : Same(c, d)
  BY <1>b, <1>c, AdriftMoves DEF Writes, PostPut
<1>8. Backed(t)'
  <2> SUFFICES ASSUME NEW c \in Adrift', c.title = t
               PROVE  \E i \in DOMAIN entries' : Same(c, entries'[i])
    BY DEF Backed
  <2>1. PICK d \in Adrift : Same(c, d) BY <1>7
  <2>2. PICK i \in DOMAIN entries : Same(d, entries[i])
    BY <2>1 DEF TitleHolds, Backed, Same
  <2> QED BY <1>4, <2>1, <2>2 DEF Same
<1>9. OneWriter(t)' BY <1>b, <1>c DEF TitleHolds, OneWriter, Writes
<1>10. CASE Writes(p, t)
  <2>1. \A q \in Procs : ~Writes(q, t)'
    BY <1>b, <1>c, <1>10 DEF TitleHolds, OneWriter, Writes
  <2>2. \A e, f \in req[p].body : Same(e, f)
    BY <1>10 DEF TitleHolds, WritesOne
  <2>3. \A e \in req[p].body, i \in WithTitle(t) : e.version > entries[i].version
    BY <1>c, <1>10 DEF TitleHolds, WritesOne
  <2>4. \A e \in req[p].body, i \in WithTitle(t) : e.version # entries[i].version
    BY <1>5, <1>6, <2>3 DEF Entry, WithTitle
  <2>5. SameSecret(t)'
    BY <1>3, <2>2, <2>4 DEF TitleHolds, SameSecret, WithTitle, Same
  <2> QED BY <1>8, <1>9, <2>1, <2>5 DEF TitleHolds, WritesOne
<1>11. CASE ~Writes(p, t)
  <2>1. \A e \in req[p].body : e.title = t => \E i \in DOMAIN entries : Same(e, entries[i])
    <3>1. CASE req[p].title = None
      <4>1. req[p].body \subseteq Adrift BY <1>c, <3>1 DEF Adrift
      <4> QED BY <4>1 DEF TitleHolds, Backed
    <3>2. CASE req[p].title # None
      <4>1. req[p].title # t BY <1>c, <1>11 DEF Writes
      <4>2. \A e \in req[p].body : e.title = req[p].title
        BY <1>c, <3>2 DEF TitleInv, PostsOwn
      <4> QED BY <4>1, <4>2
    <3> QED BY <3>1, <3>2
  <2>2. \A i \in WithTitle(t)' : \E j \in WithTitle(t) : Same(entries'[i], entries[j])
    BY <1>3, <2>1 DEF WithTitle, Same
  <2>3. SameSecret(t)' BY <2>2 DEF TitleHolds, SameSecret, Same
  <2>4. ASSUME NEW q \in Procs, Writes(q, t)' PROVE WritesOne(q, t)'
    <3>1. q # p /\ Writes(q, t) /\ req'[q] = req[q] BY <1>b, <1>c, <2>4 DEF Writes
    <3>2. req[q].pc = "put" => \A e \in req[q].body, i \in WithTitle(t)' :
            e.version > entries'[i].version
      BY <2>2, <3>1 DEF TitleHolds, WritesOne, Same
    <3> QED BY <3>1, <3>2 DEF TitleHolds, WritesOne
  <2> QED BY <1>8, <1>9, <2>3, <2>4 DEF TitleHolds, WritesOne
<1> QED BY <1>10, <1>11

LEMMA ServeTitle ==
  ASSUME TitleInv, NEW p \in Procs, Serve(p), NEW t \in Titles \ contested'
  PROVE  TitleHolds(t)'
<1>a. TypeInv /\ TitleHolds(t)
  BY ContestedStays DEF TitleInv, Next
<1>b. \A q \in Procs \ {p} : req'[q] = req[q] BY <1>a, OthersWait
<1>1. CASE PostList(p) BY <1>a, <1>1, NumberTitle
<1>2. ASSUME Answer(p) PROVE req'[p].op # "post"
  BY <1>a, <1>2 DEF Answer, Idle, TypeInv, TypeOK
<1>3. CASE PostPut(p) BY <1>a, <1>3, PutTitle
<1>4. CASE DropDelete(p) \/ DeleteByKey(p)
  <2>1. DeleteListed(p, TRUE) \/ DeleteListed(p, FALSE)
    BY <1>4 DEF DropDelete, DeleteByKey, DeleteListed
  <2>2. req[p].op # "post" /\ req'[p].op # "post"
    BY <1>a, <1>2, <1>4 DEF DropDelete, DeleteByKey, At, Goto, TypeInv, TypeOK, Request
  <2> QED BY <1>a, <1>b, <2>1, <2>2, DeleteTitle
<1>5. CASE DropList(p) \/ DeleteByKeyList(p) \/ KeystoreStep(p) \/ StoreFails(p)
  <2>1. req'[p].op # "post"
    BY <1>a, <1>2, <1>5 DEF DropList, DeleteByKeyList, KeystoreStep, AddKeysList, AddKeysPut,
         RevokeDeleteKey, StoreFails, At, Goto, TypeInv, TypeOK, Request
  <2>2. UNCHANGED <<entries, copies>>
    BY <1>5 DEF DropList, DeleteByKeyList, KeystoreStep, AddKeysList, AddKeysPut,
         RevokeDeleteKey, StoreFails
  <2> QED BY <1>a, <1>b, <2>1, <2>2, OtherTitle
<1> QED BY <1>1, <1>3, <1>4, <1>5 DEF Serve, VaultStep

(* What a page reads is stored.                                            *)
LEMMA PageTitle ==
  ASSUME TitleInv, ReadCopies \/ Forget, NEW t \in Titles, TitleHolds(t)
  PROVE  TitleHolds(t)'
<1>1. UNCHANGED <<entries, req>> BY DEF ReadCopies, Forget
<1>2. copies' \subseteq copies \cup {entries[i] : i \in DOMAIN entries}
  BY DEF ReadCopies, Forget, Newest, WithTitle
<1>3. Backed(t)'
  <2> SUFFICES ASSUME NEW c \in Adrift', c.title = t
               PROVE  \E i \in DOMAIN entries : Same(c, entries[i])
    BY <1>1 DEF Backed
  <2>1. c \in Adrift \/ c \in {entries[i] : i \in DOMAIN entries}
    BY <1>1, <1>2 DEF Adrift
  <2> QED BY <2>1 DEF TitleHolds, Backed, Same
<1>4. SameSecret(t)' /\ OneWriter(t)' /\ \A p \in Procs : WritesOne(p, t)'
  BY <1>1 DEF TitleHolds, SameSecret, OneWriter, WritesOne, Writes, WithTitle
<1> QED BY <1>3, <1>4 DEF TitleHolds

(* How requests are posted, and numbered.                                  *)
LEMMA SendOwn ==
  ASSUME TypeInv, PostsOwn, NEW p \in Procs, Send(p) PROVE PostsOwn'
<1>a. \A q \in Procs \ {p} : req'[q] = req[q] BY OthersWait
<1>b. ASSUME req'[p].op = "post" =>
               IF req'[p].title = None THEN req'[p].pc = "put"
                                       ELSE \A e \in req'[p].body : e.title = req'[p].title
      PROVE  PostsOwn'
  BY <1>a, <1>b DEF PostsOwn
<1>1. CASE PostSecret(p)
  <2>1. PICK u \in Titles, s \in Secrets, ks \in (SUBSET published) \ {{}} :
          LET body == {[title |-> u, version |-> 0, key |-> k, secret |-> s] : k \in ks}
          IN  Accept(p, [Idle EXCEPT !.op = "post", !.pc = FirstPostCall(body),
                                     !.title = u, !.body = body, !.began = WithTitle(u)])
    BY <1>1 DEF PostSecret
  <2> DEFINE body == {[title |-> u, version |-> 0, key |-> k, secret |-> s] : k \in ks}
  <2>2. Accept(p, [Idle EXCEPT !.op = "post", !.pc = FirstPostCall(body),
                               !.title = u, !.body = body, !.began = WithTitle(u)])
    BY <2>1
  <2>3. \A e \in body : e.title = u OBVIOUS
  <2> HIDE DEF body
  <2>4. req'[p].title = u /\ req'[p].body = body
    BY <2>2 DEF Accept, Idle, TypeInv, TypeOK
  <2> QED BY <1>b, <2>3, <2>4, ConstantsAssumption
<1>2. CASE PostCopies(p)
  <2>1. PICK new \in published :
          LET body == {[c EXCEPT !.key = new] : c \in copies}
          IN  Accept(p, [Idle EXCEPT !.op = "post", !.pc = FirstPostCall(body), !.body = body])
    BY <1>2 DEF PostCopies
  <2> DEFINE body == {[c EXCEPT !.key = new] : c \in copies}
  <2>2. Accept(p, [Idle EXCEPT !.op = "post", !.pc = FirstPostCall(body), !.body = body])
    BY <2>1
  <2>3. \A e \in body : e \in Entry /\ e.version > 0
    BY DEF TypeInv, TypeOK, Entry
  <2>4. FirstPostCall(body) = "put"
    <3>1. \A e \in body : ~(e.version < 1) BY <2>3 DEF Entry
    <3> QED BY <3>1 DEF FirstPostCall, NeedsVersionBump
  <2> HIDE DEF body
  <2>5. req'[p].pc = "put" /\ req'[p].title = None
    BY <2>2, <2>4 DEF Accept, Idle, TypeInv, TypeOK
  <2> QED BY <1>b, <2>5
<1>3. CASE Drop(p) \/ AddKeys(p) \/ Revoke(p)
  BY <1>b, <1>3 DEF Drop, AddKeys, Revoke, Accept, Idle, TypeInv, TypeOK
<1> QED BY <1>1, <1>2, <1>3 DEF Send

LEMMA ServeOwn ==
  ASSUME TypeInv, PostsOwn, NEW p \in Procs, Serve(p) PROVE PostsOwn'
<1>a. \A q \in Procs \ {p} : req'[q] = req[q] BY OthersWait
<1>1. CASE PostList(p)
  <2>1. PICK v \in 1..MaxVersion :
          req' = [req EXCEPT ![p].pc = "put",
                    ![p].body = {[e EXCEPT !.version = v] : e \in req[p].body}]
    BY <1>1 DEF PostList
  <2>2. /\ req[p].op = "post" /\ req[p].pc = "list"
        /\ req'[p].title = req[p].title
        /\ req'[p].body = {[e EXCEPT !.version = v] : e \in req[p].body}
    BY <1>1, <2>1 DEF PostList, At, TypeInv, TypeOK, Request
  <2>3. req[p].title # None /\ \A e \in req[p].body : e.title = req[p].title
    BY <2>2 DEF PostsOwn
  <2>4. \A e \in req'[p].body : e.title = req'[p].title
    BY <2>2, <2>3 DEF TypeInv, TypeOK, Request, Entry
  <2> QED BY <1>a, <2>2, <2>3, <2>4 DEF PostsOwn
<1>2. CASE ~PostList(p)
  <2>a. ASSUME Answer(p) PROVE req'[p].op # "post"
    BY <2>a DEF Answer, Idle, TypeInv, TypeOK
  <2>b. ASSUME NEW label, Goto(p, label), req[p].op # "post" PROVE req'[p].op # "post"
    BY <2>b DEF Goto, TypeInv, TypeOK, Request
  <2>c. ASSUME DropList(p) \/ DeleteByKeyList(p) PROVE req'[p].op # "post"
    BY <2>c DEF DropList, DeleteByKeyList, At, TypeInv, TypeOK, Request
  <2>d. ASSUME PostPut(p) \/ DropDelete(p) \/ DeleteByKey(p) \/ KeystoreStep(p) \/ StoreFails(p)
        PROVE  req'[p].op # "post"
    BY <2>a, <2>b, <2>d DEF PostPut, DropDelete, DeleteByKey, KeystoreStep, AddKeysList,
       AddKeysPut, RevokeDeleteKey, StoreFails, At
  <2>1. req'[p].op # "post" BY <1>2, <2>c, <2>d DEF Serve, VaultStep
  <2> QED BY <1>a, <2>1 DEF PostsOwn
<1> QED BY <1>1, <1>2

LEMMA StepTitle == TitleInv /\ [Next]_vars => TitleInv'
<1> SUFFICES ASSUME TitleInv, [Next]_vars PROVE TitleInv'
  OBVIOUS
<1>1. TypeInv' BY StepType DEF TitleInv
<1>2. \A t \in Titles \ contested' : TitleHolds(t)
  BY ContestedStays DEF TitleInv
<1>3. ASSUME NEW p \in Procs, Send(p) \/ Serve(p), NEW t \in Titles \ contested'
      PROVE  TitleHolds(t)'
  BY <1>3, SendTitle, ServeTitle
<1>4. ASSUME NEW p \in Procs, Send(p) \/ Serve(p) PROVE PostsOwn'
  BY <1>4, SendOwn, ServeOwn DEF TitleInv
<1>5. CASE ReadCopies \/ Forget
  <2>1. PostsOwn' BY <1>5 DEF ReadCopies, Forget, TitleInv, PostsOwn
  <2> QED BY <1>1, <1>2, <1>5, <2>1, PageTitle DEF TitleInv
<1>6. CASE UNCHANGED vars
  <2>1. \A t : TitleHolds(t) => TitleHolds(t)'
    BY <1>6 DEF vars, TitleHolds, SameSecret, Backed, OneWriter, WritesOne, Writes, WithTitle, Adrift
  <2> QED BY <1>1, <1>2, <1>6, <2>1 DEF vars, TitleInv, PostsOwn
<1>7. CASE \E p \in Procs : Send(p) \/ Serve(p)
  BY <1>1, <1>3, <1>4, <1>7 DEF TitleInv
<1> QED BY <1>5, <1>6, <1>7 DEF Next

LEMMA TitleInvHolds == Spec => []TitleInv
<1>1. Init => TitleInv
  BY InitType DEF Init, TitleInv, PostsOwn, TitleHolds, SameSecret, Backed, OneWriter, WritesOne,
     Writes, WithTitle, Adrift, Idle
<1> QED BY <1>1, StepTitle, PTL DEF Spec

(* Whatever is served meanwhile, and whenever a page posts the copies it   *)
(* has made: two ciphertexts of one title and version hide one secret,     *)
(* unless the title is contested (vault.go:80-132, actions/vault.js:114-   *)
(* 225).                                                                   *)
THEOREM VersionNamesOneSecret == Spec => []VersionNamesSecret
<1>1. ASSUME TitleInv PROVE VersionNamesSecret
  <2> SUFFICES ASSUME NEW i \in DOMAIN entries, NEW j \in DOMAIN entries,
                      entries[i].title = entries[j].title,
                      entries[i].version = entries[j].version,
                      entries[i].title \notin contested
               PROVE  entries[i].secret = entries[j].secret
    BY DEF VersionNamesSecret
  <2>1. entries[i].title \in Titles BY <1>1 DEF TitleInv, TypeInv, TypeOK, Entry
  <2>2. SameSecret(entries[i].title) BY <1>1, <2>1 DEF TitleInv, TitleHolds
  <2> QED BY <2>2 DEF SameSecret, WithTitle
<1> QED BY <1>1, TitleInvHolds, PTL

-----------------------------------------------------------------------------
(* Likewise a key nobody contested: one request is adding it, which stores *)
(* it once and has found that it is not there.                             *)
Adds(p, m) == \E k \in req[p].newKeys : k.material = m

KeyHolds(m) ==
  /\ \A k, l \in DOMAIN keys : keys[k].material = m /\ keys[l].material = m => k = l
  /\ \A p, q \in Procs : Adds(p, m) /\ Adds(q, m) => p = q
  /\ \A p \in Procs : Adds(p, m) =>
       /\ \A k, l \in req[p].newKeys : k.material = m /\ l.material = m => k = l
       /\ req[p].pc = "put" => m \notin StoredMaterials

(* Only requests for it add keys.                                          *)
AddsOwn == \A p \in Procs : req[p].newKeys # {} => req[p].op = "addKeys"

KeyInv == TypeInv /\ AddsOwn /\ \A m \in Materials \ contested : KeyHolds(m)

(* A step leaves a key alone when no copy of it is stored, and the request *)
(* that moves was not adding it, or adds it yet, or is over.               *)
LEMMA QuietKey ==
  ASSUME NEW m, KeyHolds(m), NEW p \in Procs,
         \A k \in DOMAIN keys' : k \in DOMAIN keys /\ keys'[k] = keys[k],
         \A q \in Procs \ {p} : req'[q] = req[q],
         Adds(p, m)' =>
           /\ req'[p].newKeys = req[p].newKeys \/ \A q \in Procs : ~Adds(q, m)
           /\ \A k, l \in req'[p].newKeys : k.material = m /\ l.material = m => k = l
           /\ req'[p].pc = "put" => m \notin StoredMaterials
  PROVE  KeyHolds(m)'
<1>1. StoredMaterials' \subseteq StoredMaterials BY DEF StoredMaterials
<1>2. \A k, l \in DOMAIN keys' : keys'[k].material = m /\ keys'[l].material = m => k = l
  BY DEF KeyHolds
<1>3. \A q, r \in Procs : Adds(q, m)' /\ Adds(r, m)' => q = r
  BY DEF KeyHolds, Adds
<1>4. ASSUME NEW q \in Procs, Adds(q, m)'
      PROVE  /\ \A k, l \in req'[q].newKeys : k.material = m /\ l.material = m => k = l
             /\ req'[q].pc = "put" => m \notin StoredMaterials'
  <2>1. CASE q = p BY <1>1, <1>4, <2>1
  <2>2. CASE q # p
    <3>1. req'[q] = req[q] /\ Adds(q, m) BY <1>4, <2>2 DEF Adds
    <3> QED BY <1>1, <3>1 DEF KeyHolds
  <2> QED BY <2>1, <2>2
<1> QED BY <1>2, <1>3, <1>4 DEF KeyHolds

(* A generated pair of keys has two materials.                             *)
LEMMA NewKeysDistinct ==
  ASSUME NEW new \in NewKeySets, Cardinality({k.material : k \in new}) = Cardinality(new)
  PROVE  \A k, l \in new : k.material = l.material => k = l
<1>1. CASE \E m \in Materials : new = OtherKey(m)
  BY <1>1 DEF OtherKey
<1>2. CASE \E n \in Names, a, b \in Materials : new = PasswordPair(n, a, b)
  <2>1. PICK n \in Names, a \in Materials, b \in Materials : new = PasswordPair(n, a, b)
    BY <1>2
  <2> DEFINE private == [type |-> "private", device |-> "password", name |-> n, material |-> a]
             public == [type |-> "public", device |-> "password", name |-> n, material |-> b]
  <2>2. new = {private, public} /\ private # public
    BY <2>1 DEF PasswordPair
  <2>3. private.material = a /\ public.material = b OBVIOUS
  <2> HIDE DEF private, public
  <2>4. a # b
    <3>1. SUFFICES ASSUME a = b PROVE FALSE OBVIOUS
    <3>2. {k.material : k \in new} = {a} BY <2>2, <2>3, <3>1
    <3>3. Cardinality({a}) = 1 BY FS_Singleton
    <3>4. IsFiniteSet({private}) /\ Cardinality({private}) = 1 BY FS_Singleton
    <3>5. Cardinality({private} \cup {public}) = Cardinality({private}) + 1
      BY <2>2, <3>4, FS_AddElement
    <3>6. new = {private} \cup {public} BY <2>2
    <3> QED BY <3>2, <3>3, <3>4, <3>5, <3>6
  <2> QED BY <2>2, <2>3, <2>4
<1>3. Fresh \subseteq Materials BY DEF Fresh
<1> QED BY <1>1, <1>2, <1>3, SMT DEF NewKeySets

LEMMA AddKey ==
  ASSUME KeyInv, NEW p \in Procs, AddKeys(p)
  PROVE  /\ AddsOwn'
         /\ \A m \in Materials \ contested' : KeyHolds(m)'
<1>a. TypeInv BY DEF KeyInv
<1>b. \A q \in Procs \ {p} : req'[q] = req[q] BY <1>a, OthersWait DEF Send
<1>1. PICK new : /\ new \in NewKeySets
                 /\ Cardinality({k.material : k \in new}) = Cardinality(new)
                 /\ Accept(p, [Idle EXCEPT !.op = "addKeys", !.pc = "list", !.newKeys = new])
                 /\ contested' = contested \cup ({k.material : k \in new} \cap BeingAdded)
  BY DEF AddKeys
<1>2. req'[p].op = "addKeys" /\ req'[p].pc = "list" /\ req'[p].newKeys = new
  BY <1>a, <1>1 DEF Accept, Idle, TypeInv, TypeOK
<1>3. \A k, l \in new : k.material = l.material => k = l BY <1>1, NewKeysDistinct
<1>4. ASSUME NEW m \in Materials \ contested' PROVE KeyHolds(m)'
  <2>1. KeyHolds(m) BY <1>1, <1>4 DEF KeyInv
  <2>2. ASSUME Adds(p, m)' PROVE \A q \in Procs : ~Adds(q, m)
    BY <1>1, <1>2, <1>4, <2>2 DEF Adds, BeingAdded
  <2>3. UNCHANGED keys BY DEF AddKeys
  <2> QED BY <1>b, <1>2, <1>3, <2>1, <2>2, <2>3, QuietKey
<1>5. AddsOwn' BY <1>b, <1>2 DEF KeyInv, AddsOwn
<1> QED BY <1>4, <1>5

LEMMA PutKey ==
  ASSUME KeyInv, NEW p \in Procs, AddKeysPut(p), NEW m \in Materials, KeyHolds(m)
  PROVE  KeyHolds(m)'
<1>a. TypeInv BY DEF KeyInv
<1>b. \A q \in Procs \ {p} : req'[q] = req[q] BY <1>a, OthersWait DEF Serve, KeystoreStep
<1>c. req[p].pc = "put" /\ req'[p].newKeys = {}
  BY <1>a DEF AddKeysPut, At, Answer, Idle, TypeInv, TypeOK
<1>1. PICK new \in Assignments(FreeKeyIds, req[p].newKeys) : keys' = Merge(keys, new)
  BY DEF AddKeysPut
<1>2. /\ \A i \in DOMAIN new : new[i] \in req[p].newKeys
      /\ \A i, j \in DOMAIN new : new[i] = new[j] => i = j
  BY AssignmentsStore
<1>3. \A k \in DOMAIN keys' :
        \/ k \in DOMAIN new /\ keys'[k] = new[k]
        \/ k \in DOMAIN keys /\ keys'[k] = keys[k]
  BY <1>1 DEF Merge
<1>4. ~Adds(p, m)' BY <1>c DEF Adds
<1>5. CASE Adds(p, m)
  <2>1. \A q \in Procs : ~Adds(q, m)' BY <1>b, <1>4, <1>5 DEF KeyHolds, Adds
  <2>2. \A k \in DOMAIN keys : keys[k].material # m
    BY <1>c, <1>5 DEF KeyHolds, StoredMaterials
  <2>3. \A k, l \in DOMAIN keys' : keys'[k].material = m /\ keys'[l].material = m => k = l
    BY <1>2, <1>3, <1>5, <2>2 DEF KeyHolds
  <2> QED BY <2>1, <2>3 DEF KeyHolds
<1>6. CASE ~Adds(p, m)
  <2>1. \A k \in DOMAIN keys' : keys'[k].material = m => k \in DOMAIN keys /\ keys'[k] = keys[k]
    BY <1>2, <1>3, <1>6 DEF Adds
  <2>2. m \notin StoredMaterials => m \notin StoredMaterials'
    BY <2>1 DEF StoredMaterials
  <2>3. \A q \in Procs : Adds(q, m)' => Adds(q, m) /\ req'[q] = req[q]
    BY <1>b, <1>4 DEF Adds
  <2>4. \A k, l \in DOMAIN keys' : keys'[k].material = m /\ keys'[l].material = m => k = l
    BY <2>1 DEF KeyHolds
  <2> QED BY <2>2, <2>3, <2>4 DEF KeyHolds
<1> QED BY <1>5, <1>6

(* What every other request does to keys: delete one, or nothing.          *)
LEMMA OtherKeys ==
  ASSUME KeyInv, NEW p \in Procs, Send(p) \/ Serve(p), ~AddKeys(p), ~AddKeysPut(p)
  PROVE  AddsOwn' /\ \A m \in Materials \ contested' : KeyHolds(m)'
<1>a. TypeInv BY DEF KeyInv
<1>b. \A q \in Procs \ {p} : req'[q] = req[q] BY <1>a, OthersWait
<1>c. contested \subseteq contested' BY ContestedStays DEF Next
<1>1. \A k \in DOMAIN keys' : k \in DOMAIN keys /\ keys'[k] = keys[k]
  <2>1. CASE RevokeDeleteKey(p) BY <2>1 DEF RevokeDeleteKey, Remove, Restrict
  <2>2. CASE ~RevokeDeleteKey(p)
    <3>1. UNCHANGED keys
      BY <2>2 DEF Send, PostSecret, PostCopies, Drop, Revoke, Serve, VaultStep, PostList,
         PostPut, DropList, DropDelete, DeleteByKeyList, DeleteByKey, DeleteListed,
         KeystoreStep, AddKeysList, StoreFails
    <3> QED BY <3>1
  <2> QED BY <2>1, <2>2
<1>2. CASE req'[p].newKeys = {}
  <2>1. AddsOwn' BY <1>b, <1>2 DEF KeyInv, AddsOwn
  <2>2. \A m : ~Adds(p, m)' BY <1>2 DEF Adds
  <2> QED BY <1>1, <1>b, <1>c, <2>1, <2>2, QuietKey DEF KeyInv
<1>3. CASE AddKeysList(p) /\ ~Duplicate(req[p].newKeys) /\ Goto(p, "put")
  <2>1. req'[p].newKeys = req[p].newKeys /\ req'[p].op = "addKeys"
    BY <1>a, <1>3 DEF AddKeysList, At, Goto, TypeInv, TypeOK, Request
  <2>2. AddsOwn' BY <1>b, <2>1 DEF KeyInv, AddsOwn
  <2>3. ASSUME NEW m \in Materials \ contested' PROVE KeyHolds(m)'
    <3>1. KeyHolds(m) BY <1>c, <2>3 DEF KeyInv
    <3>2. ASSUME Adds(p, m)'
          PROVE  /\ \A k, l \in req'[p].newKeys : k.material = m /\ l.material = m => k = l
                 /\ m \notin StoredMaterials
      BY <1>3, <2>1, <3>1, <3>2 DEF Adds, KeyHolds, Duplicate
    <3> QED BY <1>1, <1>b, <2>1, <3>1, <3>2, QuietKey
  <2> QED BY <2>2, <2>3
<1>4. req'[p].newKeys = {} \/ (AddKeysList(p) /\ ~Duplicate(req[p].newKeys) /\ Goto(p, "put"))
  <2>1. ASSUME Answer(p) PROVE req'[p].newKeys = {}
    BY <1>a, <2>1 DEF Answer, Idle, TypeInv, TypeOK
  <2>2. ASSUME req[p].op # "addKeys", req'[p].newKeys = req[p].newKeys PROVE req'[p].newKeys = {}
    BY <2>2 DEF KeyInv, AddsOwn
  <2>3. ASSUME NEW label, Goto(p, label) PROVE req'[p].newKeys = req[p].newKeys
    BY <1>a, <2>3 DEF Goto, TypeInv, TypeOK, Request
  <2>4. CASE Send(p)
    BY <1>a, <2>4 DEF Send, PostSecret, PostCopies, Drop, Revoke, Accept, Idle, TypeInv, TypeOK
  <2>5. CASE PostList(p) \/ DropList(p) \/ DeleteByKeyList(p)
    <3>1. req[p].op # "addKeys" /\ req'[p].newKeys = req[p].newKeys
      BY <1>a, <2>5 DEF PostList, DropList, DeleteByKeyList, At, TypeInv, TypeOK, Request
    <3> QED BY <2>2, <3>1
  <2>6. CASE DeleteByKey(p)
    BY <2>1, <2>2, <2>3, <2>6 DEF DeleteByKey, At
  <2>7. CASE PostPut(p) \/ DropDelete(p) \/ AddKeysList(p) \/ RevokeDeleteKey(p) \/ StoreFails(p)
    BY <2>1, <2>7 DEF PostPut, DropDelete, AddKeysList, RevokeDeleteKey, StoreFails
  <2> QED BY <2>4, <2>5, <2>6, <2>7 DEF Serve, VaultStep, KeystoreStep
<1> QED BY <1>2, <1>3, <1>4

LEMMA StepKey == KeyInv /\ [Next]_vars => KeyInv'
<1> SUFFICES ASSUME KeyInv, [Next]_vars PROVE KeyInv'
  OBVIOUS
<1>1. TypeInv' BY StepType DEF KeyInv
<1>2. ASSUME NEW p \in Procs, Send(p) \/ Serve(p) PROVE KeyInv'
  <2>1. CASE AddKeys(p) BY <1>1, <2>1, AddKey DEF KeyInv
  <2>2. CASE AddKeysPut(p)
    <3>1. AddsOwn'
      BY <1>2, <2>2, OthersWait DEF KeyInv, AddsOwn, AddKeysPut, Answer, Idle, TypeInv, TypeOK
    <3>2. UNCHANGED contested BY <2>2 DEF AddKeysPut
    <3> QED BY <1>1, <2>2, <3>1, <3>2, PutKey DEF KeyInv
  <2>3. CASE ~AddKeys(p) /\ ~AddKeysPut(p) BY <1>1, <1>2, <2>3, OtherKeys DEF KeyInv
  <2> QED BY <2>1, <2>2, <2>3
<1>3. CASE ReadCopies \/ Forget \/ UNCHANGED vars
  <2>1. UNCHANGED <<keys, req, contested>> BY <1>3 DEF ReadCopies, Forget, vars
  <2>2. \A m : KeyHolds(m) => KeyHolds(m)' BY <2>1 DEF KeyHolds, Adds, StoredMaterials
  <2>3. AddsOwn' BY <2>1 DEF KeyInv, AddsOwn
  <2> QED BY <1>1, <2>1, <2>2, <2>3 DEF KeyInv
<1> QED BY <1>2, <1>3 DEF Next

LEMMA KeyInvHolds == Spec => []KeyInv
<1>1. Init => KeyInv
  BY InitType DEF Init, KeyInv, AddsOwn, KeyHolds, Adds, Idle
<1> QED BY <1>1, StepKey, PTL DEF Spec

(* Whatever is served meanwhile, a key is stored once (keystore.go:117-    *)
(* 156) unless it is contested.                                            *)
THEOREM KeysOnce == Spec => []KeysDistinct
<1>1. ASSUME KeyInv PROVE KeysDistinct
  <2> SUFFICES ASSUME NEW k \in DOMAIN keys, NEW l \in DOMAIN keys,
                      keys[k].material = keys[l].material, keys[k].material \notin contested
               PROVE  k = l
    BY DEF KeysDistinct
  <2>1. keys[k].material \in Materials BY <1>1 DEF KeyInv, TypeInv, TypeOK, Key
  <2> QED BY <1>1, <2>1 DEF KeyInv, KeyHolds
<1> QED BY <1>1, KeyInvHolds, PTL
=============================================================================
