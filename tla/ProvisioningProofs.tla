------------------------- MODULE ProvisioningProofs -------------------------
(***************************************************************************)
(* Theorems about Provisioning, for any number of tasks, names, requests   *)
(* and ids: the type invariant, that a successful Delete is final, which   *)
(* account CreateAccount can answer with, whose password it hands out, and *)
(* that no account it creates is left behind in silence.                   *)
(***************************************************************************)
EXTENDS Provisioning, TLAPS

-----------------------------------------------------------------------------
(* The inductive invariant.                                                *)

\* What the stage of a call says about its data: requests are sent only for the
\* type that can be created, an id is at hand when it is needed, and a call in
\* progress has not answered yet.
CallsSound ==
    \A w \in Worker :
        /\ stage[w] \in {"post", "fetch", "store"} =>
             kind[w] = accountProvisioningTarget
        /\ stage[w] \in {"store", "delete"} => id[w] # NoId
        /\ stage[w] # "idle" => result[w] = "none"

\* No id is anywhere before Jamf has given it out.
IdsIssued ==
    /\ \A a \in accounts : a.id <= lastId
    /\ \A i \in known \cup deleted : i <= lastId
    /\ \A k \in Key : cache[k] <= lastId
    /\ \A w \in Worker : id[w] <= lastId

ProvisioningInv ==
    /\ TypeOK
    /\ CallsSound
    /\ IdsIssued
    /\ DeleteMeansGone
    /\ OneTypeCreated

\* The new account of a POST.
NewAccount(w) ==
    [id |-> lastId + 1, type |-> kind[w], name |-> name[w]]

\* The new account has an id of its own and the configured type.
LEMMA NewAccountSound ==
    ASSUME TypeOK, CallsSound, NEW w \in Worker, stage[w] = "post",
           lastId < MaxId
    PROVE  /\ NewAccount(w) \in Accounts
           /\ NewAccount(w).id = lastId + 1
           /\ NewAccount(w).type = accountProvisioningTarget
<1>1. lastId + 1 \in Ids
  <2>1. MaxId \in Nat
    BY ProvisioningAssumption
  <2>2. lastId \in 0..MaxId
    BY DEF TypeOK
  <2> QED
    BY <2>1, <2>2 DEF Ids
<1>2. name[w] \in Name /\ kind[w] \in AccountTypes
  BY DEF TypeOK
<1>3. kind[w] = accountProvisioningTarget
  BY DEF CallsSound
<1> QED
  BY <1>1, <1>2, <1>3 DEF NewAccount, Accounts

\* The two outcomes of a POST at Jamf.
LEMMA CreateOutcome ==
    ASSUME NEW w \in Worker, CreateAtJamf(w)
    PROVE  \/ /\ UNCHANGED <<accounts, lastId, during>>
              /\ made' = [made EXCEPT ![w] = NoId]
           \/ /\ lastId < MaxId
              /\ lastId' = lastId + 1
              /\ accounts' = accounts \cup {NewAccount(w)}
              /\ made' = [made EXCEPT ![w] = lastId + 1]
              /\ Note(NewAccount(w))
              /\ findByName(kind[w], name[w]) = {}
<1>1. NewAccount(w).id = lastId + 1
  BY DEF NewAccount
<1> QED
  BY <1>1 DEF CreateAtJamf, NewAccount, jamf

LEMMA InvInit == Init => ProvisioningInv
<1> SUFFICES ASSUME Init PROVE ProvisioningInv
  OBVIOUS
<1>0. MaxId \in Nat /\ Name # {}
  BY ProvisioningAssumption
<1>1. lastId \in 0..MaxId /\ accounts = {} /\ known = {} /\ deleted = {}
  BY <1>0 DEF Init
<1>2. name \in [Worker -> Name]
  BY <1>0 DEF Init
<1>4. TypeOK
  BY <1>1, <1>2 DEF Init, TypeOK, Stages, Results, AccountTypes
<1>5. CallsSound
  BY DEF Init, CallsSound
<1>6. IdsIssued
  BY <1>1 DEF Init, IdsIssued, NoId
<1> QED
  BY <1>1, <1>4, <1>5, <1>6 DEF ProvisioningInv, DeleteMeansGone,
     OneTypeCreated

\* Ids are naturals, and lastId is one of them or 0.
LEMMA IdsNat ==
    ASSUME TypeOK
    PROVE  /\ MaxId \in Nat
           /\ lastId \in Nat
           /\ Ids \subseteq Nat
           /\ NoId \in Nat
           /\ NoId <= lastId
           /\ NoId \notin Ids
<1>1. MaxId \in Nat
  BY ProvisioningAssumption
<1>2. lastId \in 0..MaxId
  BY DEF TypeOK
<1> QED
  BY <1>1, <1>2 DEF Ids, NoId

\* A call that fails notes the id that its POST created, if any.
LEMMA FailNotes ==
    ASSUME TypeOK, NEW w \in Worker, NEW i \in Ids \cup {NoId}, Fail(w, i)
    PROVE  failed' \subseteq Ids
  BY DEF TypeOK, Fail

LEMMA MadeTyped ==
    ASSUME TypeOK, NEW w \in Worker,
           CreateAtJamf(w) \/ UNCHANGED made
    PROVE  made'[w] \in Ids \cup {NoId}
<1>1. lastId < MaxId => lastId + 1 \in Ids
  BY IdsNat DEF Ids
<1> QED
  BY <1>1, CreateOutcome DEF TypeOK

LEMMA InvNext == ProvisioningInv /\ [Next]_vars => ProvisioningInv'
<1> SUFFICES ASSUME ProvisioningInv, [Next]_vars PROVE ProvisioningInv'
  OBVIOUS
<1> USE DEF ProvisioningInv
<1>0. /\ MaxId \in Nat /\ lastId \in Nat /\ Ids \subseteq Nat
      /\ NoId \in Nat /\ NoId <= lastId /\ NoId \notin Ids
  BY IdsNat
<1>1. ASSUME NEW w \in Worker, NEW n \in Name, NEW r \in Requests,
             StartCreate(w, n, r)
      PROVE  ProvisioningInv'
  <2>1. r \in AllRequests
    BY ProvisioningAssumption
  <2>2. TypeOK'
    <3>1. \A t \in AccountTypes : {a.id : a \in findByName(t, n)} \subseteq Ids
      BY DEF TypeOK, findByName, Accounts
    <3>2. managersFor(r.type) \subseteq AccountTypes
      BY DEF managersFor, accountManagers
    <3> QED
      BY <1>1, <2>1, <3>1, <3>2 DEF StartCreate, TypeOK, End, Stages, Results,
         jamf, platform, request
  <2>a. \A t \in managersFor(r.type) : t = accountProvisioningTarget
    BY DEF managersFor, accountManagers
  <2>b. \A v \in Worker \ {w} :
          /\ stage'[v] = stage[v] /\ kind'[v] = kind[v]
          /\ id'[v] = id[v] /\ result'[v] = result[v]
    BY <1>1 DEF StartCreate, End, TypeOK, request
  <2>c. \/ stage'[w] = "idle"
        \/ /\ stage'[w] = "post" /\ result'[w] = "none"
           /\ kind'[w] = accountProvisioningTarget
    BY <1>1, <2>a DEF StartCreate, End, TypeOK
  <2>3. CallsSound'
    <3>1. conf' = conf
      BY <1>1 DEF StartCreate
    <3>2. ASSUME NEW v \in Worker
          PROVE  /\ stage'[v] \in {"post", "fetch", "store"} =>
                      kind'[v] = accountProvisioningTarget
                 /\ stage'[v] \in {"store", "delete"} => id'[v] # NoId
                 /\ stage'[v] # "idle" => result'[v] = "none"
      <4>1. CASE v = w
        BY <2>c, <4>1
      <4>2. CASE v # w
        BY <2>b, <4>2 DEF CallsSound
      <4> QED
        BY <4>1, <4>2
    <3>3. accountProvisioningTarget' = accountProvisioningTarget
      BY <3>1 DEF accountProvisioningTarget
    <3> QED
      BY <3>2, <3>3 DEF CallsSound
  <2>4. IdsIssued'
    BY <1>0, <1>1 DEF StartCreate, IdsIssued, TypeOK, jamf, platform
  <2>5. (DeleteMeansGone /\ OneTypeCreated)'
    BY <1>1 DEF StartCreate, DeleteMeansGone, OneTypeCreated, jamf, platform
  <2> QED
    BY <2>2, <2>3, <2>4, <2>5
<1>2. ASSUME NEW w \in Worker, NEW i \in Ids, StartDelete(w, i)
      PROVE  ProvisioningInv'
  <2>1. TypeOK'
    <3>1. stage' \in [Worker -> Stages] /\ result' \in [Worker -> Results]
      BY <1>2 DEF StartDelete, TypeOK, Stages, Results
    <3>2. id' \in [Worker -> Ids \cup {NoId}]
      BY <1>2 DEF StartDelete, TypeOK
    <3>3. UNCHANGED <<conf, accounts, lastId, cache, known, deleted,
                      delivered, failed, kind, name, made, during>>
      BY <1>2 DEF StartDelete, jamf, platform, request
    <3> QED
      BY <3>1, <3>2, <3>3 DEF TypeOK
  <2>2. CallsSound'
    BY <1>0, <1>2 DEF StartDelete, CallsSound, TypeOK,
       accountProvisioningTarget, request
  <2>3. IdsIssued'
    BY <1>2 DEF StartDelete, IdsIssued, TypeOK, jamf, platform
  <2>4. (DeleteMeansGone /\ OneTypeCreated)'
    BY <1>2 DEF StartDelete, DeleteMeansGone, OneTypeCreated, jamf, platform
  <2> QED
    BY <2>1, <2>2, <2>3, <2>4
<1>3. ASSUME NEW w \in Worker, stage[w] = "post", CreateAtJamf(w),
             failed' \subseteq Ids,
             UNCHANGED <<conf, cache, known, deleted, delivered, kind, name, id>>,
             \/ stage' = [stage EXCEPT ![w] = "fetch"] /\ UNCHANGED result
             \/ End(w, "error")
      PROVE  ProvisioningInv'
  <2>1. \/ /\ UNCHANGED <<accounts, lastId, during>>
           /\ made' = [made EXCEPT ![w] = NoId]
        \/ /\ lastId < MaxId
           /\ lastId' = lastId + 1
           /\ accounts' = accounts \cup {NewAccount(w)}
           /\ made' = [made EXCEPT ![w] = lastId + 1]
           /\ Note(NewAccount(w))
    BY <1>3, CreateOutcome
  <2>2. stage' \in [Worker -> Stages] /\ result' \in [Worker -> Results]
    BY <1>3 DEF TypeOK, Stages, Results, End
  <2>a. /\ \A v \in Worker \ {w} : stage'[v] = stage[v] /\ result'[v] = result[v]
        /\ \/ stage'[w] = "fetch" /\ result'[w] = result[w]
           \/ stage'[w] = "idle"
    BY <1>3 DEF End, TypeOK
  <2>3. CallsSound'
    BY <1>3, <2>a DEF CallsSound, accountProvisioningTarget
  <2>4. CASE /\ UNCHANGED <<accounts, lastId, during>>
             /\ made' = [made EXCEPT ![w] = NoId]
    <3>1. TypeOK'
      BY <1>3, <2>2, <2>4 DEF TypeOK
    <3>2. (IdsIssued /\ DeleteMeansGone /\ OneTypeCreated)'
      BY <1>3, <2>4 DEF IdsIssued, DeleteMeansGone, OneTypeCreated
    <3> QED
      BY <2>3, <3>1, <3>2
  <2>5. CASE /\ lastId < MaxId
             /\ lastId' = lastId + 1
             /\ accounts' = accounts \cup {NewAccount(w)}
             /\ made' = [made EXCEPT ![w] = lastId + 1]
             /\ Note(NewAccount(w))
    <3>1. /\ NewAccount(w) \in Accounts
          /\ NewAccount(w).id = lastId + 1
          /\ NewAccount(w).type = accountProvisioningTarget
      BY <1>3, <2>5, NewAccountSound
    <3>2. lastId + 1 \in Ids /\ lastId' \in 0..MaxId
      BY <1>0, <2>5 DEF Ids
    <3>3. during' \in [Worker -> SUBSET Ids]
      BY <2>5, <3>1, <3>2 DEF Note, TypeOK
    <3>4. TypeOK'
      BY <1>3, <2>2, <2>5, <3>1, <3>2, <3>3 DEF TypeOK
    <3>5. IdsIssued'
      <4>1. \A w1 \in Worker : id[w1] \in Nat
        BY <1>0 DEF TypeOK
      <4>2. \A k \in Key : cache[k] \in Nat
        BY <1>0 DEF TypeOK
      <4>3. \A a \in accounts : a.id \in Nat
        BY <1>0 DEF TypeOK, Accounts
      <4>4. \A i \in known \cup deleted : i \in Nat
        BY <1>0 DEF TypeOK
      <4> QED
        BY <1>0, <1>3, <2>5, <3>1, <4>1, <4>2, <4>3, <4>4 DEF IdsIssued
    <3>6. DeleteMeansGone'
      <4>1. lastId + 1 \notin deleted
        BY <1>0 DEF IdsIssued
      <4> QED
        BY <1>3, <2>5, <3>1, <4>1 DEF DeleteMeansGone
    <3>8. OneTypeCreated'
      BY <1>3, <2>5, <3>1 DEF OneTypeCreated, accountProvisioningTarget
    <3> QED
      BY <2>3, <3>4, <3>5, <3>6, <3>8
  <2> QED
    BY <2>1, <2>4, <2>5
<1>4. ASSUME NEW w \in Worker, PostAccount(w)
      PROVE  ProvisioningInv'
  BY <1>3, <1>4 DEF PostAccount, platform, request, TypeOK
<1>5. ASSUME NEW w \in Worker, End(w, "error"), failed' \subseteq Ids,
             UNCHANGED <<conf, accounts, lastId, cache, known, deleted,
                         delivered, kind, name, made, id, during>>
      PROVE  ProvisioningInv'
  <2>1. TypeOK'
    BY <1>5 DEF End, TypeOK, Stages, Results
  <2>2. CallsSound'
    BY <1>5 DEF End, TypeOK, CallsSound,
       accountProvisioningTarget
  <2>3. (IdsIssued /\ DeleteMeansGone /\ OneTypeCreated)'
    BY <1>5 DEF IdsIssued, DeleteMeansGone, OneTypeCreated
  <2> QED
    BY <2>1, <2>2, <2>3
<1>6. ASSUME NEW w \in Worker, LosePost(w)
      PROVE  ProvisioningInv'
  <2>1. failed' \subseteq Ids
    BY <1>6, MadeTyped, FailNotes DEF LosePost
  <2> QED
    BY <1>3, <1>5, <1>6, <2>1 DEF LosePost, Fail, jamf, request
<1>7. ASSUME NEW w \in Worker, NEW i \in Ids, i <= lastId, Answer(w, i),
             cache' \in [Key -> Ids \cup {NoId}],
             \A k \in Key : cache'[k] <= lastId,
             UNCHANGED <<conf, accounts, lastId, kind, name, made, during>>
      PROVE  ProvisioningInv'
  <2>1. made[w] \in Ids \cup {NoId}
    BY DEF TypeOK
  <2>2. delivered' \subseteq [for : Ids, opens : Ids \cup {NoId}]
    BY <1>7, <2>1 DEF Answer, TypeOK
  <2>3. TypeOK'
    BY <1>7, <2>2 DEF Answer, End, TypeOK, Stages, Results
  <2>4. CallsSound'
    BY <1>7 DEF Answer, End, TypeOK, CallsSound,
       accountProvisioningTarget
  <2>5. IdsIssued'
    BY <1>7 DEF Answer, IdsIssued, TypeOK
  <2>6. (DeleteMeansGone /\ OneTypeCreated)'
    BY <1>7 DEF Answer, DeleteMeansGone, OneTypeCreated
  <2> QED
    BY <2>3, <2>4, <2>5, <2>6
<1>8. ASSUME NEW w \in Worker, FetchCached(w)
      PROVE  ProvisioningInv'
  <2>1. Lower[name[w]] \in Key
    BY ProvisioningAssumption DEF TypeOK
  <2>2. /\ cache[Lower[name[w]]] \in Ids
        /\ cache[Lower[name[w]]] <= lastId
    BY <1>8, <2>1 DEF FetchCached, TypeOK, IdsIssued
  <2>3. /\ \A v \in Worker \ {w} : stage'[v] = stage[v] /\ id'[v] = id[v]
        /\ stage'[w] = "store" /\ id'[w] = cache[Lower[name[w]]] /\ id'[w] # NoId
        /\ stage[w] = "fetch" /\ UNCHANGED <<conf, kind, result>>
    BY <1>8 DEF FetchCached, TypeOK, request
  <2>4. TypeOK'
    BY <1>8, <2>2 DEF FetchCached, TypeOK, Stages, jamf, platform, request
  <2>5. CallsSound'
    BY <2>3 DEF CallsSound, accountProvisioningTarget
  <2>6. IdsIssued'
    BY <1>8, <2>2, <2>3 DEF FetchCached, IdsIssued, jamf, platform
  <2>7. (DeleteMeansGone /\ OneTypeCreated)'
    BY <1>8 DEF FetchCached, DeleteMeansGone, OneTypeCreated, jamf, platform
  <2> QED
    BY <2>4, <2>5, <2>6, <2>7
<1>9. ASSUME NEW w \in Worker, FetchAccount(w)
      PROVE  ProvisioningInv'
  <2>1. ASSUME NEW a \in findByName(kind[w], name[w]),
               id' = [id EXCEPT ![w] = a.id],
               stage' = [stage EXCEPT ![w] = "store"],
               UNCHANGED <<result, platform>>
        PROVE  ProvisioningInv'
    <3>1. a \in accounts /\ a.id \in Ids /\ a.id <= lastId /\ a.id # NoId
      BY <1>0, <2>1 DEF findByName, TypeOK, Accounts, IdsIssued
    <3>2. TypeOK'
      BY <1>9, <2>1, <3>1 DEF FetchAccount, TypeOK, Stages, jamf, platform,
         request
    <3>a. /\ \A v \in Worker \ {w} : stage'[v] = stage[v] /\ id'[v] = id[v]
          /\ stage'[w] = "store" /\ id'[w] # NoId
      BY <2>1, <3>1 DEF TypeOK
    <3>b. stage[w] = "fetch" /\ UNCHANGED <<conf, kind, result>>
      BY <1>9, <2>1 DEF FetchAccount, request
    <3>3. CallsSound'
      BY <3>a, <3>b DEF CallsSound, accountProvisioningTarget
    <3>4. IdsIssued'
      BY <1>9, <2>1, <3>1 DEF FetchAccount, IdsIssued, TypeOK, jamf, platform
    <3>5. (DeleteMeansGone /\ OneTypeCreated)'
      BY <1>9, <2>1 DEF FetchAccount, DeleteMeansGone, OneTypeCreated, jamf,
         platform
    <3> QED
      BY <3>2, <3>3, <3>4, <3>5
  <2>2. ASSUME Fail(w, made[w]), UNCHANGED id
        PROVE  ProvisioningInv'
    <3>1. failed' \subseteq Ids
      BY <2>2, FailNotes DEF TypeOK
    <3> QED
      BY <1>5, <1>9, <2>2, <3>1 DEF FetchAccount, Fail, jamf, request
  <2> QED
    BY <1>9, <2>1, <2>2 DEF FetchAccount
<1>10. ASSUME NEW w \in Worker, StoreFetched(w)
       PROVE  ProvisioningInv'
  <2>1. Lower[name[w]] \in Key
    BY ProvisioningAssumption DEF TypeOK
  <2>2. id[w] \in Ids /\ id[w] <= lastId
    BY <1>10 DEF StoreFetched, TypeOK, CallsSound, IdsIssued
  <2>3. cache' \in [Key -> Ids \cup {NoId}] /\ \A k \in Key : cache'[k] <= lastId
    BY <1>10, <2>1, <2>2 DEF StoreFetched, TypeOK, IdsIssued
  <2> QED
    BY <1>7, <1>10, <2>2, <2>3 DEF StoreFetched, jamf, request
<1>11. ASSUME NEW w \in Worker, LoseFetch(w)
       PROVE  ProvisioningInv'
  <2>1. failed' \subseteq Ids
    BY <1>11, FailNotes DEF LoseFetch, TypeOK
  <2> QED
    BY <1>5, <1>11, <2>1 DEF LoseFetch, Fail, jamf, request
<1>12. ASSUME NEW w \in Worker, stage[w] = "delete", DeleteAtJamf(id[w]),
              \/ End(w, "error") /\ UNCHANGED deleted
              \/ End(w, "deleted") /\ deleted' = deleted \cup {id[w]},
              UNCHANGED <<conf, cache, known, delivered, failed, kind, name, made, id>>
       PROVE  ProvisioningInv'
  <2>1. id[w] \in Ids /\ id[w] <= lastId
    BY <1>12 DEF TypeOK, CallsSound, IdsIssued
  <2>2. TypeOK'
    BY <1>12, <2>1 DEF DeleteAtJamf, End, TypeOK, Stages, Results
  <2>3. CallsSound'
    BY <1>12 DEF DeleteAtJamf, End, TypeOK, CallsSound,
       accountProvisioningTarget
  <2>4. IdsIssued'
    BY <1>12, <2>1 DEF DeleteAtJamf, IdsIssued
  <2>5. (DeleteMeansGone /\ OneTypeCreated)'
    BY <1>12 DEF DeleteAtJamf, DeleteMeansGone, OneTypeCreated
  <2> QED
    BY <2>2, <2>3, <2>4, <2>5
<1>13. ASSUME NEW w \in Worker, DeleteAccount(w)
       PROVE  ProvisioningInv'
  BY <1>12, <1>13 DEF DeleteAccount, request
<1>14. ASSUME NEW w \in Worker, LoseDelete(w)
       PROVE  ProvisioningInv'
  BY <1>5, <1>12, <1>14 DEF LoseDelete, TypeOK, jamf, platform, request
<1>15. ASSUME known' \subseteq known \cup {a.id : a \in accounts},
              \A k \in Key : cache'[k] \in {cache[k], NoId},
              cache' \in [Key -> Ids \cup {NoId}],
              UNCHANGED <<conf, accounts, lastId, deleted, delivered, failed,
                          stage, kind, name, made, id, result, during>>
       PROVE  ProvisioningInv'
  <2>1. \A a \in accounts : a.id \in Ids /\ a.id <= lastId
    BY DEF TypeOK, Accounts, IdsIssued
  <2>2. TypeOK'
    BY <1>15, <2>1 DEF TypeOK
  <2>3. CallsSound'
    BY <1>15 DEF CallsSound,
       accountProvisioningTarget
  <2>4. IdsIssued'
    BY <1>0, <1>15, <2>1 DEF IdsIssued
  <2>5. (DeleteMeansGone /\ OneTypeCreated)'
    BY <1>15 DEF DeleteMeansGone, OneTypeCreated
  <2> QED
    BY <2>2, <2>3, <2>4, <2>5
<1>16. CASE SyncEnds
  BY <1>15, <1>16 DEF SyncEnds, jamf, request
<1>17. ASSUME NEW k \in Key, CacheExpires(k)
       PROVE  ProvisioningInv'
  <2>1. cache' \in [Key -> Ids \cup {NoId}]
    BY <1>17 DEF CacheExpires, TypeOK
  <2>2. \A j \in Key : cache'[j] \in {cache[j], NoId}
    BY <1>17 DEF CacheExpires, TypeOK
  <2> QED
    BY <1>15, <1>17, <2>1, <2>2 DEF CacheExpires, jamf, platform, request
<1>18. CASE UNCHANGED vars
  BY <1>18, <1>15 DEF vars, jamf, platform, request, TypeOK
<1> QED
  BY <1>1, <1>2, <1>4, <1>6, <1>8, <1>9, <1>10, <1>11, <1>13, <1>14, <1>16,
     <1>17, <1>18 DEF Next, WorkerStep

\* The state always has its types.
THEOREM ProvisioningTypeCorrect == Spec => []TypeOK
<1>1. Spec => []ProvisioningInv
  BY InvInit, InvNext, PTL DEF Spec
<1>2. ProvisioningInv => TypeOK
  BY DEF ProvisioningInv
<1> QED
  BY <1>1, <1>2, PTL

\* Delete: a 200 or 404 that was reported as success is final.  The account
\* is gone, and no later, concurrent or retried call brings its id back.
THEOREM DeleteFinal == Spec => []DeleteMeansGone
<1>1. Spec => []ProvisioningInv
  BY InvInit, InvNext, PTL DEF Spec
<1>2. ProvisioningInv => DeleteMeansGone
  BY DEF ProvisioningInv
<1> QED
  BY <1>1, <1>2, PTL

\* userSyncer and userAccountSyncer: only accounts of the configured type are
\* created, user when none is configured, whatever type requests ask for.
THEOREM OneType == Spec => []OneTypeCreated
<1>1. Spec => []ProvisioningInv
  BY InvInit, InvNext, PTL DEF Spec
<1>2. ProvisioningInv => OneTypeCreated
  BY DEF ProvisioningInv
<1> QED
  BY <1>1, <1>2, PTL

-----------------------------------------------------------------------------
(* Which account CreateAccount can answer with.                            *)

\* An id names one account.
IdsUnique == \A a, b \in accounts : a.id = b.id => a = b

\* A CreateAccount that has yet to fetch knows all accounts of its name, and
\* what it has fetched is one of those it knows.
FetchesNoted ==
    \A w \in Worker :
        /\ stage[w] \in {"post", "fetch"} =>
             \A a \in accounts :
               a.type = kind[w] /\ a.name = name[w] => a.id \in during[w]
        /\ stage[w] = "store" =>
             /\ \/ id[w] \in during[w]
                \/ conf.caching /\ \A a \in accounts : a.id = id[w] => a.name # name[w]
             /\ \A a \in accounts : a.id = id[w] => Lower[a.name] = Lower[name[w]]

\* A cached id is never that of an account whose name has another key, and
\* nothing is cached when the cache is disabled.
CacheSound ==
    /\ \A k \in Key : \A a \in accounts : cache[k] = a.id => Lower[a.name] = k
    /\ ~conf.caching => \A k \in Key : cache[k] = NoId

AnswersInv ==
    /\ IdsUnique
    /\ FetchesNoted
    /\ CacheSound
    /\ StaleAnswerSameKey
    /\ FreshUncached

LEMMA AnswersInit == Init => AnswersInv
<1> SUFFICES ASSUME Init PROVE AnswersInv
  OBVIOUS
<1>1. \A n \in Name : Lower[n] \in Key
  BY ProvisioningAssumption
<1>2. \A w \in Worker : result[w] = "none" /\ stage[w] = "idle"
  BY DEF Init
<1>3. StaleAnswerSameKey /\ FreshUncached
  BY <1>2 DEF StaleAnswerSameKey, FreshUncached, AnswerFromThisCall, Answered
<1>4. FetchesNoted
  BY <1>2 DEF FetchesNoted
<1>5. IdsUnique /\ CacheSound
  BY DEF Init, IdsUnique, CacheSound
<1> QED
  BY <1>3, <1>4, <1>5 DEF AnswersInv

LEMMA AnswersNext == ProvisioningInv /\ AnswersInv /\ [Next]_vars => AnswersInv'
<1> SUFFICES ASSUME ProvisioningInv, AnswersInv, [Next]_vars PROVE AnswersInv'
  OBVIOUS
<1> USE DEF AnswersInv, FreshUncached, ProvisioningInv
<1>0. /\ MaxId \in Nat /\ lastId \in Nat /\ Ids \subseteq Nat
      /\ NoId \in Nat /\ NoId <= lastId /\ NoId \notin Ids
  BY IdsNat
<1>a. \A n \in Name : Lower[n] \in Key
  BY ProvisioningAssumption
<1>b. \A w \in Worker : Answered(w) => stage[w] = "idle"
  BY DEF CallsSound, Answered
<1>1. ASSUME NEW w \in Worker, NEW n \in Name, NEW r \in Requests,
             StartCreate(w, n, r)
      PROVE  AnswersInv'
  <2>1. \A v \in Worker \ {w} :
          /\ stage'[v] = stage[v] /\ name'[v] = name[v] /\ id'[v] = id[v]
          /\ kind'[v] = kind[v]
          /\ during'[v] = during[v] /\ result'[v] = result[v]
    BY <1>1 DEF StartCreate, End, TypeOK, request
  <2>2. /\ ~Answered(w)'
        /\ stage'[w] \in {"idle", "post"}
        /\ stage'[w] = "post" => \A a \in accounts :
             a.type = kind'[w] /\ a.name = name'[w] => a.id \in during'[w]
    BY <1>1 DEF StartCreate, End, TypeOK, Answered, findByName
  <2>3. UNCHANGED <<conf, accounts, cache>>
    BY <1>1 DEF StartCreate, jamf
  <2>4. FetchesNoted'
    BY <2>1, <2>2, <2>3 DEF FetchesNoted
  <2>5. (StaleAnswerSameKey /\ FreshUncached)'
    BY <2>1, <2>2, <2>3 DEF StaleAnswerSameKey, AnswerFromThisCall, Answered
  <2> QED
    BY <2>3, <2>4, <2>5 DEF IdsUnique, CacheSound
<1>2. ASSUME NEW w \in Worker, NEW i \in Ids, StartDelete(w, i)
      PROVE  AnswersInv'
  <2>1. \A v \in Worker \ {w} :
          stage'[v] = stage[v] /\ id'[v] = id[v] /\ result'[v] = result[v]
    BY <1>2 DEF StartDelete, TypeOK
  <2>2. ~Answered(w)' /\ stage'[w] = "delete"
    BY <1>2 DEF StartDelete, TypeOK, Answered
  <2>3. UNCHANGED <<conf, accounts, cache, kind, name, during>>
    BY <1>2 DEF StartDelete, jamf, request
  <2>4. FetchesNoted'
    BY <2>1, <2>2, <2>3 DEF FetchesNoted
  <2>5. (StaleAnswerSameKey /\ FreshUncached)'
    BY <2>1, <2>2, <2>3 DEF StaleAnswerSameKey, AnswerFromThisCall, Answered
  <2> QED
    BY <2>3, <2>4, <2>5 DEF IdsUnique, CacheSound
<1>3. ASSUME NEW w \in Worker, stage[w] = "post", CreateAtJamf(w),
             UNCHANGED <<conf, cache, kind, name, id>>,
             \/ stage' = [stage EXCEPT ![w] = "fetch"] /\ UNCHANGED result
             \/ End(w, "error")
      PROVE  AnswersInv'
  <2>1. \/ UNCHANGED <<accounts, lastId, during>>
        \/ /\ accounts' = accounts \cup {NewAccount(w)}
           /\ Note(NewAccount(w))
    BY <1>3, CreateOutcome
  <2>2. \A v \in Worker : Answered(v)' => v # w /\ Answered(v)
    BY <1>3 DEF Answered, CallsSound, End, TypeOK
  <2>3. \A v \in Worker :
          /\ stage'[v] \in {"post", "fetch"} => stage[v] \in {"post", "fetch"}
          /\ stage'[v] = "store" => stage[v] = "store"
    BY <1>3 DEF End, TypeOK
  <2>4. CASE UNCHANGED <<accounts, lastId, during>>
    <3>1. FetchesNoted'
      BY <1>3, <2>3, <2>4 DEF FetchesNoted
    <3>2. (StaleAnswerSameKey /\ FreshUncached)'
      BY <1>3, <2>2, <2>4 DEF StaleAnswerSameKey, AnswerFromThisCall
    <3> QED
      BY <1>3, <2>4, <3>1, <3>2 DEF IdsUnique, CacheSound
  <2>5. CASE accounts' = accounts \cup {NewAccount(w)} /\ Note(NewAccount(w))
    <3>1. NewAccount(w).id = lastId + 1
      BY DEF NewAccount
    <3>2. \A a \in accounts : a.id # lastId + 1
      <4>1. \A a \in accounts : a.id \in Nat
        BY <1>0 DEF TypeOK, Accounts
      <4> QED
        BY <1>0, <4>1 DEF IdsIssued
    <3>3. \A v \in Worker : id[v] # lastId + 1
      BY <1>0 DEF TypeOK, IdsIssued
    <3>4. \A k \in Key : cache[k] # lastId + 1
      BY <1>0 DEF TypeOK, IdsIssued
    <3>5. \A v \in Worker :
            /\ during[v] \subseteq during'[v]
            /\ stage[v] \in {"post", "fetch"} /\ kind[v] = NewAccount(w).type
                 /\ name[v] = NewAccount(w).name => NewAccount(w).id \in during'[v]
      BY <2>5 DEF Note, TypeOK
    <3>6. IdsUnique'
      BY <2>5, <3>1, <3>2 DEF IdsUnique
    <3>7. FetchesNoted'
      BY <1>3, <2>3, <2>5, <3>1, <3>3, <3>5 DEF FetchesNoted
    <3>8. CacheSound'
      BY <1>3, <1>a, <2>5, <3>1, <3>4 DEF CacheSound
    <3>9. (StaleAnswerSameKey /\ FreshUncached)'
      BY <1>3, <2>2, <2>5, <3>1, <3>3, <3>5
         DEF StaleAnswerSameKey, AnswerFromThisCall
    <3> QED
      BY <3>6, <3>7, <3>8, <3>9
  <2> QED
    BY <2>1, <2>4, <2>5
<1>4. ASSUME NEW w \in Worker, PostAccount(w)
      PROVE  AnswersInv'
  BY <1>3, <1>4 DEF PostAccount, request
<1>5. ASSUME NEW w \in Worker, \/ End(w, "error") \/ End(w, "deleted"),
             accounts' \subseteq accounts,
             UNCHANGED <<conf, cache, kind, name, id, during>>
      PROVE  AnswersInv'
  <2>1. \A v \in Worker : Answered(v)' => v # w /\ Answered(v)
    BY <1>5 DEF Answered, End, TypeOK
  <2>2. \A v \in Worker : v # w => stage'[v] = stage[v]
    BY <1>5 DEF End, TypeOK
  <2>3. stage'[w] = "idle"
    BY <1>5 DEF End, TypeOK
  <2>4. FetchesNoted'
    BY <1>5, <2>2, <2>3 DEF FetchesNoted
  <2>5. (StaleAnswerSameKey /\ FreshUncached)'
    BY <1>5, <2>1 DEF StaleAnswerSameKey, AnswerFromThisCall
  <2> QED
    BY <1>5, <2>4, <2>5 DEF IdsUnique, CacheSound
<1>6. ASSUME NEW w \in Worker, LosePost(w)
      PROVE  AnswersInv'
  BY <1>3, <1>5, <1>6 DEF LosePost, Fail, jamf, request
<1>7. ASSUME NEW w \in Worker, NEW i \in Ids, Answer(w, i),
             \/ i \in during[w]
             \/ /\ conf.caching
                /\ \A a \in accounts : a.id = i =>
                     a.name # name[w] /\ Lower[a.name] = Lower[name[w]],
             CacheSound',
             UNCHANGED <<conf, accounts, kind, name, during>>
      PROVE  AnswersInv'
  <2>1. /\ stage'[w] = "idle"
        /\ id'[w] = i
        /\ \A v \in Worker \ {w} :
             stage'[v] = stage[v] /\ id'[v] = id[v] /\ result'[v] = result[v]
    BY <1>7 DEF Answer, End, TypeOK
  <2>2. FetchesNoted'
    BY <1>7, <2>1 DEF FetchesNoted
  <2>3. StaleAnswerSameKey'
    BY <1>7, <2>1 DEF StaleAnswerSameKey, Answered
  <2>4. FreshUncached'
    BY <1>7, <2>1 DEF AnswerFromThisCall, Answered
  <2> QED
    BY <1>7, <2>2, <2>3, <2>4 DEF IdsUnique
<1>8. ASSUME NEW w \in Worker, FetchCached(w)
      PROVE  AnswersInv'
  <2> DEFINE i == cache[Lower[name[w]]]
  <2>1. name[w] \in Name /\ Lower[name[w]] \in Key
    BY <1>a DEF TypeOK
  <2>2. i \in Ids /\ conf.caching
    BY <1>8, <2>1, ProvisioningAssumption DEF FetchCached, TypeOK, CacheSound
  <2>a. kind[w] = accountProvisioningTarget
    BY <1>8 DEF FetchCached, CallsSound
  <2>b. \A a \in accounts : a.id = i => Lower[a.name] = Lower[name[w]]
    BY <2>1 DEF CacheSound
  <2>c. \A a \in accounts : a.type = kind[w]
    BY <2>a DEF OneTypeCreated, accountProvisioningTarget
  <2>3. \A a \in accounts : a.id = i /\ a.name = name[w] => i \in during[w]
    BY <1>8, <2>c DEF FetchCached, FetchesNoted
  <2>4. UNCHANGED <<conf, accounts, cache, kind, name, during, result>>
    BY <1>8 DEF FetchCached, jamf, request
  <2>5. /\ stage'[w] = "store" /\ id'[w] = i
        /\ \A v \in Worker \ {w} : stage'[v] = stage[v] /\ id'[v] = id[v]
    BY <1>8 DEF FetchCached, TypeOK
  <2>6. FetchesNoted'
    BY <2>2, <2>b, <2>3, <2>4, <2>5 DEF FetchesNoted
  <2>7. \A v \in Worker : Answered(v)' => v # w /\ Answered(v)
    BY <1>8, <1>b, <2>4 DEF Answered, FetchCached
  <2>8. (StaleAnswerSameKey /\ FreshUncached)'
    BY <2>4, <2>5, <2>7 DEF StaleAnswerSameKey, AnswerFromThisCall
  <2> QED
    BY <2>4, <2>6, <2>8 DEF IdsUnique, CacheSound
<1>9. ASSUME NEW w \in Worker, FetchAccount(w)
      PROVE  AnswersInv'
  <2>1. ASSUME NEW a \in findByName(kind[w], name[w]),
               id' = [id EXCEPT ![w] = a.id],
               stage' = [stage EXCEPT ![w] = "store"],
               UNCHANGED result
        PROVE  AnswersInv'
    <3>1. a \in accounts /\ a.type = kind[w] /\ a.name = name[w]
      BY DEF findByName
    <3>2. UNCHANGED <<conf, accounts, cache, kind, name, during>>
      BY <1>9 DEF FetchAccount, jamf, request
    <3>3. /\ stage'[w] = "store" /\ id'[w] = a.id
          /\ \A v \in Worker \ {w} : stage'[v] = stage[v] /\ id'[v] = id[v]
      BY <2>1 DEF TypeOK
    <3>4. a.id \in during[w]
      BY <1>9, <3>1 DEF FetchAccount, FetchesNoted
    <3>5. \A b \in accounts : b.id = a.id => b.name = name[w]
      BY <3>1 DEF IdsUnique
    <3>6. FetchesNoted'
      BY <3>2, <3>3, <3>4, <3>5 DEF FetchesNoted
    <3>7. \A v \in Worker : Answered(v)' => v # w /\ Answered(v)
      BY <1>9, <1>b, <2>1 DEF Answered, FetchAccount
    <3>8. (StaleAnswerSameKey /\ FreshUncached)'
      BY <3>2, <3>3, <3>7 DEF StaleAnswerSameKey, AnswerFromThisCall
    <3> QED
      BY <3>2, <3>6, <3>8 DEF IdsUnique, CacheSound
  <2> QED
    BY <1>5, <1>9, <2>1 DEF FetchAccount, Fail, jamf, request
<1>10. ASSUME NEW w \in Worker, StoreFetched(w)
       PROVE  AnswersInv'
  <2>1. name[w] \in Name /\ Lower[name[w]] \in Key
    BY <1>a DEF TypeOK
  <2>2. /\ id[w] \in Ids
        /\ \/ id[w] \in during[w]
           \/ conf.caching /\ \A a \in accounts : a.id = id[w] => a.name # name[w]
        /\ \A a \in accounts : a.id = id[w] => Lower[a.name] = Lower[name[w]]
    BY <1>10 DEF StoreFetched, TypeOK, CallsSound, FetchesNoted
  <2>3. UNCHANGED <<conf, accounts, kind, name, during>>
    BY <1>10 DEF StoreFetched, jamf, request
  <2>4. CacheSound'
    <3>1. CASE conf.caching
      <4>1. cache' = [cache EXCEPT ![Lower[name[w]]] = id[w]]
        BY <1>10, <3>1 DEF StoreFetched
      <4>2. ASSUME NEW k \in Key, NEW a \in accounts, cache'[k] = a.id
            PROVE  Lower[a.name] = k
        <5>1. CASE k = Lower[name[w]]
          BY <2>1, <2>2, <4>1, <4>2, <5>1 DEF TypeOK
        <5>2. CASE k # Lower[name[w]]
          <6>1. cache'[k] = cache[k]
            BY <4>1, <5>2 DEF TypeOK
          <6> QED
            BY <4>2, <6>1 DEF CacheSound
        <5> QED
          BY <5>1, <5>2
      <4> QED
        BY <2>3, <3>1, <4>2 DEF CacheSound
    <3>2. CASE ~conf.caching
      BY <1>10, <2>3, <3>2 DEF StoreFetched, CacheSound
    <3> QED
      BY <3>1, <3>2
  <2> QED
    BY <1>7, <1>10, <2>2, <2>3, <2>4 DEF StoreFetched
<1>11. ASSUME NEW w \in Worker, LoseFetch(w)
       PROVE  AnswersInv'
  BY <1>5, <1>11 DEF LoseFetch, Fail, jamf, request
<1>12. ASSUME NEW w \in Worker, DeleteAccount(w)
       PROVE  AnswersInv'
  BY <1>5, <1>12 DEF DeleteAccount, DeleteAtJamf, request
<1>13. ASSUME NEW w \in Worker, LoseDelete(w)
       PROVE  AnswersInv'
  BY <1>5, <1>13 DEF LoseDelete, DeleteAtJamf, jamf, request
<1>14. ASSUME \A k \in Key : cache'[k] \in {cache[k], NoId},
              UNCHANGED <<conf, accounts, stage, kind, name, id, result, during>>
       PROVE  AnswersInv'
  <2>1. \A a \in accounts : a.id # NoId
    BY <1>0 DEF TypeOK, Accounts
  <2>2. CacheSound'
    BY <1>14, <1>a, <2>1 DEF CacheSound
  <2>3. (StaleAnswerSameKey /\ FreshUncached)'
    BY <1>14 DEF StaleAnswerSameKey, AnswerFromThisCall, Answered
  <2>4. (IdsUnique /\ FetchesNoted)'
    BY <1>14 DEF IdsUnique, FetchesNoted
  <2> QED
    BY <2>2, <2>3, <2>4
<1>15. CASE SyncEnds
  BY <1>14, <1>15 DEF SyncEnds, jamf, request
<1>16. ASSUME NEW k \in Key, CacheExpires(k)
       PROVE  AnswersInv'
  <2>1. \A j \in Key : cache'[j] \in {cache[j], NoId}
    BY <1>16 DEF CacheExpires, TypeOK
  <2> QED
    BY <1>14, <1>16, <2>1 DEF CacheExpires, jamf, request
<1>17. CASE UNCHANGED vars
  BY <1>14, <1>17 DEF vars, jamf, request
<1> QED
  BY <1>1, <1>2, <1>4, <1>6, <1>8, <1>9, <1>10, <1>11, <1>12, <1>13, <1>15,
     <1>16, <1>17 DEF Next, WorkerStep

\* The configuration is read once, when the process starts.
LEMMA ConfFixed == [Next]_vars => conf' = conf
<1> SUFFICES ASSUME [Next]_vars PROVE conf' = conf
  OBVIOUS
<1>1. ASSUME NEW w \in Worker, WorkerStep(w) PROVE conf' = conf
  BY <1>1 DEF WorkerStep, PostAccount, LosePost, FetchCached, FetchAccount,
     StoreFetched, LoseFetch, DeleteAccount, LoseDelete
<1>2. CASE UNCHANGED vars
  BY <1>2 DEF vars
<1> QED
  BY <1>1, <1>2 DEF Next, StartCreate, StartDelete, SyncEnds, CacheExpires

\* With the response cache, CreateAccount answers with an account that had the
\* requested name during the call, with one that is gone, or with one whose
\* name is the same in lower case: never with that of an unrelated name.
THEOREM AnswersOwnName == Spec => []StaleAnswerSameKey
<1>1. Init => ProvisioningInv /\ AnswersInv
  BY InvInit, AnswersInit
<1>2. ProvisioningInv /\ AnswersInv /\ [Next]_vars
        => (ProvisioningInv /\ AnswersInv)'
  BY InvNext, AnswersNext
<1>3. AnswersInv => StaleAnswerSameKey
  BY DEF AnswersInv
<1> QED
  BY <1>1, <1>2, <1>3, PTL DEF Spec

\* With the response cache disabled, CreateAccount answers with an account
\* that had the requested name during the call, whatever the names are.
THEOREM AnswersFresh == Spec => []FreshUncached
<1>1. ProvisioningInv /\ AnswersInv /\ [Next]_vars
        => (ProvisioningInv /\ AnswersInv)'
  BY InvNext, AnswersNext
<1>2. AnswersInv => FreshUncached
  BY DEF AnswersInv
<1> QED
  BY <1>1, <1>2, InvInit, AnswersInit, PTL DEF Spec

-----------------------------------------------------------------------------
(* Passwords, where GETs are not cached.                                   *)

\* Jamf refuses a POST for a name that is taken.
NamesUnique ==
    \A a, b \in accounts : a.type = b.type /\ a.name = b.name => a = b

Gone(i) == \A a \in accounts : a.id # i

\* An account that a call created has the name that the call fetches by, so
\* what the call fetches is that account, as long as it is there.
MadeSound ==
    \A w \in Worker :
        /\ stage[w] = "fetch" => \A a \in accounts :
             a.id = made[w] => a.type = kind[w] /\ a.name = name[w]
        /\ stage[w] = "store" =>
             made[w] = NoId \/ id[w] = made[w] \/ Gone(made[w])

PasswordsFit ==
    \A d \in delivered : d.for = d.opens \/ (d.opens # NoId /\ Gone(d.opens))

\* Ids that are gone have been given out, and so do not come back.
MadeIssued ==
    /\ \A w \in Worker : made[w] <= lastId
    /\ \A d \in delivered : d.opens <= lastId

PasswordInv == NamesUnique /\ MadeSound /\ PasswordsFit /\ MadeIssued

\* A step that creates no account, gives out no password, and changes at most
\* the stage of a call that ends, keeps PasswordInv.
LEMMA PasswordQuiet ==
    ASSUME PasswordInv, accounts' \subseteq accounts,
           UNCHANGED <<lastId, delivered, made>>,
           \A w \in Worker :
             stage'[w] \in {"fetch", "store"} =>
               /\ stage'[w] = stage[w] /\ id'[w] = id[w]
               /\ kind'[w] = kind[w] /\ name'[w] = name[w]
    PROVE  PasswordInv'
<1>1. NamesUnique'
  BY DEF PasswordInv, NamesUnique
<1>2. MadeSound'
  BY DEF PasswordInv, MadeSound, Gone
<1>3. PasswordsFit' /\ MadeIssued'
  BY DEF PasswordInv, PasswordsFit, MadeIssued, Gone
<1> QED
  BY <1>1, <1>2, <1>3 DEF PasswordInv

LEMMA PasswordNext ==
    ProvisioningInv /\ AnswersInv /\ PasswordInv /\ ~conf.caching /\ [Next]_vars
    => PasswordInv'
<1> SUFFICES ASSUME ProvisioningInv, AnswersInv, PasswordInv, ~conf.caching,
                    [Next]_vars
             PROVE  PasswordInv'
  OBVIOUS
<1> USE DEF ProvisioningInv
<1>0. /\ MaxId \in Nat /\ lastId \in Nat /\ Ids \subseteq Nat
      /\ NoId \in Nat /\ NoId <= lastId /\ NoId \notin Ids
  BY IdsNat
<1>a. \A n \in Name : Lower[n] \in Key
  BY ProvisioningAssumption
<1>1. ASSUME NEW w \in Worker, NEW n \in Name, NEW r \in Requests,
             StartCreate(w, n, r)
      PROVE  PasswordInv'
  <2>1. \A v \in Worker :
          /\ made'[v] \in {made[v], NoId}
          /\ stage'[v] \in {"fetch", "store"} =>
               /\ v # w /\ stage'[v] = stage[v] /\ id'[v] = id[v]
               /\ kind'[v] = kind[v] /\ name'[v] = name[v] /\ made'[v] = made[v]
    BY <1>1 DEF StartCreate, End, TypeOK, request
  <2>2. UNCHANGED <<accounts, lastId, delivered>>
    BY <1>1 DEF StartCreate, jamf, platform
  <2>3. NamesUnique' /\ PasswordsFit'
    BY <2>2 DEF PasswordInv, NamesUnique, PasswordsFit, Gone
  <2>4. MadeSound'
    BY <2>1, <2>2 DEF PasswordInv, MadeSound, Gone
  <2>5. MadeIssued'
    BY <1>0, <2>1, <2>2 DEF PasswordInv, MadeIssued
  <2> QED
    BY <2>3, <2>4, <2>5 DEF PasswordInv
<1>2. ASSUME NEW w \in Worker, NEW i \in Ids, StartDelete(w, i)
      PROVE  PasswordInv'
  BY <1>2, PasswordQuiet DEF StartDelete, TypeOK, jamf, platform, request
<1>3. ASSUME NEW w \in Worker, stage[w] = "post", CreateAtJamf(w),
             UNCHANGED <<delivered, kind, name, id>>,
             \/ stage' = [stage EXCEPT ![w] = "fetch"]
             \/ End(w, "error")
      PROVE  PasswordInv'
  <2>1. \/ /\ UNCHANGED <<accounts, lastId>>
           /\ made' = [made EXCEPT ![w] = NoId]
        \/ /\ lastId' = lastId + 1
           /\ accounts' = accounts \cup {NewAccount(w)}
           /\ made' = [made EXCEPT ![w] = lastId + 1]
           /\ findByName(kind[w], name[w]) = {}
    BY <1>3, CreateOutcome
  <2>2. /\ stage'[w] \in {"fetch", "idle"}
        /\ \A v \in Worker \ {w} : stage'[v] = stage[v] /\ made'[v] = made[v]
    BY <1>3, <2>1 DEF End, TypeOK
  <2>3. CASE /\ UNCHANGED <<accounts, lastId>>
             /\ made' = [made EXCEPT ![w] = NoId]
    <3>1. made'[w] = NoId /\ Gone(NoId)
      BY <1>0, <2>3 DEF TypeOK, Accounts, Gone
    <3>2. NamesUnique' /\ PasswordsFit'
      BY <1>3, <2>3 DEF PasswordInv, NamesUnique, PasswordsFit, Gone
    <3>3. MadeSound'
      BY <1>3, <2>2, <2>3, <3>1 DEF PasswordInv, MadeSound, Gone
    <3>4. MadeIssued'
      BY <1>0, <1>3, <2>2, <2>3, <3>1 DEF PasswordInv, MadeIssued
    <3> QED
      BY <3>2, <3>3, <3>4 DEF PasswordInv
  <2>4. CASE /\ lastId' = lastId + 1
             /\ accounts' = accounts \cup {NewAccount(w)}
             /\ made' = [made EXCEPT ![w] = lastId + 1]
             /\ findByName(kind[w], name[w]) = {}
    <3>1. /\ NewAccount(w).id = lastId + 1 /\ made'[w] = lastId + 1
          /\ NewAccount(w).type = kind[w] /\ NewAccount(w).name = name[w]
      BY <2>4 DEF NewAccount, TypeOK
    <3>2. \A v \in Worker : made[v] \in Nat /\ made[v] # lastId + 1
      <4>1. \A v \in Worker : made[v] \in Nat
        BY <1>0 DEF TypeOK
      <4>2. \A v \in Worker : made[v] <= lastId
        BY DEF PasswordInv, MadeIssued
      <4> QED
        BY <1>0, <4>1, <4>2
    <3>3. \A d \in delivered : d.opens \in Nat /\ d.opens # lastId + 1
      <4>1. \A d \in delivered : d.opens \in Nat
        BY <1>0 DEF TypeOK
      <4>2. \A d \in delivered : d.opens <= lastId
        BY DEF PasswordInv, MadeIssued
      <4> QED
        BY <1>0, <4>1, <4>2
    <3>4. \A a \in accounts : a.id # lastId + 1
      <4>1. \A a \in accounts : a.id \in Nat
        BY <1>0 DEF TypeOK, Accounts
      <4> QED
        BY <1>0, <4>1 DEF IdsIssued
    <3>5. NamesUnique'
      BY <2>4, <3>1 DEF PasswordInv, NamesUnique, findByName
    <3>6. MadeSound'
      <4>1. ASSUME NEW v \in Worker, stage'[v] = "fetch", NEW a \in accounts',
                   a.id = made'[v]
            PROVE  a.type = kind[v] /\ a.name = name[v]
        <5>1. CASE v = w
          BY <2>4, <3>1, <3>4, <4>1, <5>1
        <5>2. CASE v # w
          BY <2>2, <2>4, <3>1, <3>2, <4>1, <5>2 DEF PasswordInv, MadeSound
        <5> QED
          BY <5>1, <5>2
      <4>2. ASSUME NEW v \in Worker, stage'[v] = "store"
            PROVE  \/ made'[v] = NoId \/ id[v] = made'[v]
                   \/ \A a \in accounts' : a.id # made'[v]
        <5>1. v # w /\ stage[v] = "store" /\ made'[v] = made[v]
          BY <2>2, <4>2
        <5> QED
          BY <2>4, <3>1, <3>2, <5>1 DEF PasswordInv, MadeSound, Gone
      <4> QED
        BY <1>3, <4>1, <4>2 DEF MadeSound, Gone
    <3>7. PasswordsFit'
      BY <1>3, <2>4, <3>1, <3>3 DEF PasswordInv, PasswordsFit, Gone
    <3>8. MadeIssued'
      BY <1>0, <1>3, <2>2, <2>4, <3>1, <3>2, <3>3 DEF PasswordInv, MadeIssued
    <3> QED
      BY <3>5, <3>6, <3>7, <3>8 DEF PasswordInv
  <2> QED
    BY <2>1, <2>3, <2>4
<1>4. ASSUME NEW w \in Worker, PostAccount(w)
      PROVE  PasswordInv'
  BY <1>3, <1>4 DEF PostAccount, platform, request
<1>5. ASSUME NEW w \in Worker, \/ End(w, "error") \/ End(w, "deleted"),
             accounts' \subseteq accounts,
             UNCHANGED <<lastId, delivered, kind, name, made, id>>
      PROVE  PasswordInv'
  BY <1>5, PasswordQuiet DEF End, TypeOK
<1>6. ASSUME NEW w \in Worker, LosePost(w)
      PROVE  PasswordInv'
  BY <1>3, <1>5, <1>6 DEF LosePost, Fail, jamf, request
<1>7. ASSUME NEW w \in Worker, FetchCached(w)
      PROVE  PasswordInv'
  BY <1>7, <1>a DEF FetchCached, AnswersInv, CacheSound, TypeOK
<1>8. ASSUME NEW w \in Worker, FetchAccount(w)
      PROVE  PasswordInv'
  <2>1. ASSUME NEW a \in findByName(kind[w], name[w]),
               id' = [id EXCEPT ![w] = a.id],
               stage' = [stage EXCEPT ![w] = "store"],
               UNCHANGED platform
        PROVE  PasswordInv'
    <3>1. UNCHANGED <<accounts, lastId, delivered, kind, name, made>>
      BY <1>8, <2>1 DEF FetchAccount, jamf, platform, request
    <3>2. /\ stage'[w] = "store" /\ id'[w] = a.id
          /\ \A v \in Worker \ {w} : stage'[v] = stage[v] /\ id'[v] = id[v]
      BY <2>1 DEF TypeOK
    <3>3. a.id = made[w] \/ Gone(made[w])
      <4>1. a \in accounts /\ a.type = kind[w] /\ a.name = name[w]
        BY DEF findByName
      <4>2. ASSUME NEW b \in accounts, b.id = made[w]
            PROVE  b = a
        <5>1. b.type = kind[w] /\ b.name = name[w]
          BY <1>8, <4>2 DEF FetchAccount, PasswordInv, MadeSound
        <5> QED
          BY <4>1, <5>1 DEF PasswordInv, NamesUnique
      <4> QED
        BY <4>2 DEF Gone
    <3>4. MadeSound'
      BY <3>1, <3>2, <3>3 DEF PasswordInv, MadeSound, Gone
    <3>5. NamesUnique' /\ PasswordsFit' /\ MadeIssued'
      BY <3>1 DEF PasswordInv, NamesUnique, PasswordsFit, MadeIssued, Gone
    <3> QED
      BY <3>4, <3>5 DEF PasswordInv
  <2> QED
    BY <1>5, <1>8, <2>1 DEF FetchAccount, Fail, jamf, platform, request
<1>9. ASSUME NEW w \in Worker, StoreFetched(w)
      PROVE  PasswordInv'
  <2>1. /\ UNCHANGED <<accounts, lastId, kind, name, made>>
        /\ Answer(w, id[w]) /\ stage[w] = "store"
    BY <1>9 DEF StoreFetched, jamf, request
  <2>2. delivered' \subseteq delivered \cup
          {d \in {[for |-> id[w], opens |-> made[w]]} : made[w] # NoId}
    BY <2>1 DEF Answer
  <2>3. made[w] = NoId \/ id[w] = made[w] \/ Gone(made[w])
    BY <2>1 DEF PasswordInv, MadeSound
  <2>4. PasswordsFit'
    BY <2>1, <2>2, <2>3 DEF PasswordInv, PasswordsFit, Gone
  <2>5. MadeIssued'
    BY <2>1, <2>2 DEF PasswordInv, MadeIssued
  <2>6. \A v \in Worker :
          stage'[v] \in {"fetch", "store"} =>
            stage'[v] = stage[v] /\ id'[v] = id[v]
    BY <2>1 DEF Answer, End, TypeOK
  <2>7. NamesUnique' /\ MadeSound'
    BY <2>1, <2>6 DEF PasswordInv, NamesUnique, MadeSound, Gone
  <2> QED
    BY <2>4, <2>5, <2>7 DEF PasswordInv
<1>10. ASSUME NEW w \in Worker, LoseFetch(w)
       PROVE  PasswordInv'
  BY <1>5, <1>10 DEF LoseFetch, Fail, jamf, request
<1>11. ASSUME NEW w \in Worker, DeleteAccount(w)
       PROVE  PasswordInv'
  BY <1>5, <1>11 DEF DeleteAccount, DeleteAtJamf, request
<1>12. ASSUME NEW w \in Worker, LoseDelete(w)
       PROVE  PasswordInv'
  BY <1>5, <1>12 DEF LoseDelete, DeleteAtJamf, jamf, platform, request
<1>13. CASE SyncEnds
  BY <1>13, PasswordQuiet DEF SyncEnds, jamf, request
<1>14. ASSUME NEW k \in Key, CacheExpires(k)
       PROVE  PasswordInv'
  BY <1>14, PasswordQuiet DEF CacheExpires, jamf, platform, request
<1>15. CASE UNCHANGED vars
  BY <1>15, PasswordQuiet DEF vars, jamf, platform, request
<1> QED
  BY <1>1, <1>2, <1>4, <1>6, <1>7, <1>8, <1>9, <1>10, <1>11, <1>12, <1>13,
     <1>14, <1>15 DEF Next, WorkerStep

LEMMA PasswordInit == Init => PasswordInv
<1> SUFFICES ASSUME Init PROVE PasswordInv
  OBVIOUS
<1>1. NamesUnique /\ MadeSound /\ PasswordsFit
  BY DEF Init, NamesUnique, MadeSound, PasswordsFit
<1>2. MadeIssued
  BY DEF Init, MadeIssued, NoId
<1> QED
  BY <1>1, <1>2 DEF PasswordInv

\* Without the response cache, the password that CreateAccount hands out for a
\* userAccount opens the account it is handed out with, unless the account
\* that the call created has been deleted meanwhile.
THEOREM PasswordsOpen == Spec => []PasswordFits
<1> DEFINE Inv == ProvisioningInv /\ AnswersInv /\ (~conf.caching => PasswordInv)
<1>1. Init => Inv
  BY InvInit, AnswersInit, PasswordInit
<1>2. Inv /\ [Next]_vars => Inv'
  <2> SUFFICES ASSUME Inv, [Next]_vars PROVE Inv'
    OBVIOUS
  <2>1. ProvisioningInv' /\ AnswersInv' /\ conf' = conf
    BY InvNext, AnswersNext, ConfFixed
  <2>2. ~conf.caching => PasswordInv'
    BY PasswordNext
  <2> QED
    BY <2>1, <2>2
<1>3. Inv => PasswordFits
  BY DEF PasswordFits, PasswordInv, PasswordsFit, Gone
<1> QED
  BY <1>1, <1>2, <1>3, PTL DEF Spec

-----------------------------------------------------------------------------
(* Accounts that the platform does not know of.                            *)

\* Where GETs are not cached, what CreatedIsReported says.
Reported ==
    \A a \in accounts :
        \/ a.id \in known \cup failed
        \/ \E w \in Worker : stage[w] \in {"fetch", "store"} /\ made[w] = a.id

\* A step that creates no account keeps Reported if every call that it takes
\* out of its last two stages has reported the account it created.
LEMMA ReportedQuiet ==
    ASSUME Reported, accounts' \subseteq accounts, known \subseteq known',
           failed \subseteq failed',
           \A w \in Worker : stage[w] \in {"fetch", "store"} =>
             \/ stage'[w] \in {"fetch", "store"} /\ made'[w] = made[w]
             \/ made[w] \in known' \cup failed'
             \/ Gone(made[w])
    PROVE  Reported'
<1> SUFFICES ASSUME NEW a \in accounts', a.id \notin known' \cup failed'
             PROVE  \E w \in Worker :
                      stage'[w] \in {"fetch", "store"} /\ made'[w] = a.id
  BY DEF Reported
<1>1. PICK w \in Worker : stage[w] \in {"fetch", "store"} /\ made[w] = a.id
  BY DEF Reported
<1>2. ~Gone(made[w])
  BY <1>1 DEF Gone
<1> QED
  BY <1>1, <1>2

LEMMA ReportedNext ==
    /\ ProvisioningInv /\ AnswersInv /\ PasswordInv /\ Reported
    /\ ~conf.caching /\ [Next]_vars
    => Reported'
<1> SUFFICES ASSUME ProvisioningInv, AnswersInv, PasswordInv, Reported,
                    ~conf.caching, [Next]_vars
             PROVE  Reported'
  OBVIOUS
<1> USE DEF ProvisioningInv
<1>0. Gone(NoId)
  BY IdsNat DEF Gone, TypeOK, Accounts
<1>1. ASSUME NEW w \in Worker, NEW n \in Name, NEW r \in Requests,
             StartCreate(w, n, r)
      PROVE  Reported'
  BY <1>1, ReportedQuiet DEF StartCreate, End, TypeOK, jamf, platform
<1>2. ASSUME NEW w \in Worker, NEW i \in Ids, StartDelete(w, i)
      PROVE  Reported'
  BY <1>2, ReportedQuiet DEF StartDelete, TypeOK, jamf, platform
<1>3. ASSUME NEW w \in Worker, stage[w] = "post", CreateAtJamf(w),
             \A v \in Worker \ {w} : stage'[v] = stage[v],
             known \subseteq known', failed \subseteq failed',
             made'[w] # NoId => stage'[w] = "fetch" \/ made'[w] \in failed'
      PROVE  Reported'
  <2>1. \A v \in Worker \ {w} : made'[v] = made[v]
    BY <1>3, CreateOutcome DEF TypeOK
  <2>2. CASE accounts' \subseteq accounts
    BY <1>3, <2>1, <2>2, ReportedQuiet
  <2>3. CASE /\ accounts' = accounts \cup {NewAccount(w)}
             /\ made' = [made EXCEPT ![w] = lastId + 1]
    <3>1. NewAccount(w).id = made'[w] /\ made'[w] # NoId
      BY <2>3, IdsNat DEF NewAccount, TypeOK, NoId
    <3>2. ASSUME NEW a \in accounts, a.id \notin known' \cup failed'
          PROVE  \E v \in Worker : stage'[v] \in {"fetch", "store"} /\ made'[v] = a.id
      <4>1. PICK v \in Worker : stage[v] \in {"fetch", "store"} /\ made[v] = a.id
        BY <1>3, <3>2 DEF Reported
      <4> QED
        BY <1>3, <2>1, <4>1
    <3> QED
      BY <1>3, <2>3, <3>1, <3>2 DEF Reported
  <2> QED
    BY <1>3, <2>2, <2>3, CreateOutcome
<1>4. ASSUME NEW w \in Worker, PostAccount(w)
      PROVE  Reported'
  BY <1>3, <1>4 DEF PostAccount, TypeOK, platform
<1>5. ASSUME NEW w \in Worker, LosePost(w)
      PROVE  Reported'
  <2>1. /\ \A v \in Worker \ {w} : stage'[v] = stage[v]
        /\ stage[w] = "post" /\ known' = known
        /\ failed' = failed \cup ({made'[w]} \ {NoId})
    BY <1>5 DEF LosePost, Fail, End, TypeOK
  <2>2. CASE UNCHANGED <<jamf, made, during>>
    BY <2>1, <2>2, ReportedQuiet DEF jamf
  <2> QED
    BY <1>3, <1>5, <2>1, <2>2 DEF LosePost
<1>6. ASSUME NEW w \in Worker, FetchCached(w)
      PROVE  Reported'
  <2>1. Lower[name[w]] \in Key
    BY ProvisioningAssumption DEF TypeOK
  <2> QED
    BY <1>6, <2>1 DEF FetchCached, AnswersInv, CacheSound
<1>7. ASSUME NEW w \in Worker, Fail(w, made[w]), UNCHANGED <<accounts, made>>
      PROVE  Reported'
  <2>1. /\ \A v \in Worker \ {w} : stage'[v] = stage[v]
        /\ known' = known
        /\ failed' = failed \cup ({made[w]} \ {NoId})
    BY <1>7 DEF Fail, End, TypeOK
  <2>2. made[w] \in failed' \/ Gone(made[w])
    BY <1>0, <2>1
  <2> QED
    BY <1>7, <2>1, <2>2, ReportedQuiet
<1>8. ASSUME NEW w \in Worker, FetchAccount(w)
      PROVE  Reported'
  <2>1. ASSUME stage' = [stage EXCEPT ![w] = "store"], UNCHANGED platform
        PROVE  Reported'
    BY <1>8, <2>1, ReportedQuiet DEF FetchAccount, TypeOK, jamf, platform
  <2> QED
    BY <1>7, <1>8, <2>1 DEF FetchAccount, jamf
<1>9. ASSUME NEW w \in Worker, StoreFetched(w)
      PROVE  Reported'
  <2>1. made[w] = NoId \/ id[w] = made[w] \/ Gone(made[w])
    BY <1>9 DEF StoreFetched, PasswordInv, MadeSound
  <2>2. known' = known \cup {id[w]} /\ UNCHANGED <<accounts, made, failed>>
    BY <1>9 DEF StoreFetched, Answer, jamf
  <2>3. \A v \in Worker \ {w} : stage'[v] = stage[v]
    BY <1>9 DEF StoreFetched, Answer, End, TypeOK
  <2>4. made[w] \in known' \/ Gone(made[w])
    BY <1>0, <2>1, <2>2
  <2> QED
    BY <2>2, <2>3, <2>4, ReportedQuiet
<1>10. ASSUME NEW w \in Worker, LoseFetch(w)
       PROVE  Reported'
  BY <1>7, <1>10 DEF LoseFetch, jamf
<1>11. ASSUME NEW w \in Worker, DeleteAccount(w) \/ LoseDelete(w)
       PROVE  Reported'
  <2>1. accounts' \subseteq accounts /\ UNCHANGED <<known, failed, made>>
    BY <1>11 DEF DeleteAccount, LoseDelete, DeleteAtJamf, jamf, platform
  <2>2. stage[w] = "delete" /\ \A v \in Worker \ {w} : stage'[v] = stage[v]
    BY <1>11 DEF DeleteAccount, LoseDelete, End, TypeOK
  <2> QED
    BY <2>1, <2>2, ReportedQuiet
<1>12. CASE SyncEnds
  BY <1>12, ReportedQuiet DEF SyncEnds, jamf
<1>13. ASSUME NEW k \in Key, CacheExpires(k)
       PROVE  Reported'
  BY <1>13, ReportedQuiet DEF CacheExpires, jamf, platform
<1>14. CASE UNCHANGED vars
  BY <1>14, ReportedQuiet DEF vars, jamf, platform
<1> QED
  BY <1>1, <1>2, <1>4, <1>5, <1>6, <1>8, <1>9, <1>10, <1>11, <1>12, <1>13,
     <1>14 DEF Next, WorkerStep

\* Without the response cache, an account that CreateAccount creates is known
\* to the platform once the call has ended, unless the call ended with an
\* error: a GET that fails after the POST does not pass for success.
THEOREM CreationsReported == Spec => []CreatedIsReported
<1> DEFINE Inv == /\ ProvisioningInv /\ AnswersInv
                  /\ ~conf.caching => PasswordInv /\ Reported
<1>1. Init => Inv
  <2>1. Init => Reported
    BY DEF Init, Reported
  <2> QED
    BY <2>1, InvInit, AnswersInit, PasswordInit
<1>2. Inv /\ [Next]_vars => Inv'
  <2> SUFFICES ASSUME Inv, [Next]_vars PROVE Inv'
    OBVIOUS
  <2>1. ProvisioningInv' /\ AnswersInv' /\ conf' = conf
    BY InvNext, AnswersNext, ConfFixed
  <2>2. ~conf.caching => PasswordInv' /\ Reported'
    BY PasswordNext, ReportedNext
  <2> QED
    BY <2>1, <2>2
<1>3. Inv => CreatedIsReported
  BY DEF CreatedIsReported, Reported
<1> QED
  BY <1>1, <1>2, <1>3, PTL DEF Spec
=============================================================================
