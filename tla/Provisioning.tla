---------------------------- MODULE Provisioning ----------------------------
(***************************************************************************)
(* pkg/connector: which of the resource types user and userAccount can be  *)
(* created, and CreateAccount and Delete of that type against Jamf Pro as  *)
(* test-server/main.go mocks it.                                           *)
(*                                                                         *)
(* CreateAccount validates the request, POSTs the account, treats a 409    *)
(* as "already exists", and GETs the account by name to learn its id.  The *)
(* SDK's HTTP wrapper answers a repeated GET from its response cache,      *)
(* which only time and the end of a sync empty.  The platform runs several *)
(* such tasks at once, retries the failed ones as new calls, and deletes   *)
(* accounts by the ids that CreateAccount and syncs told it.               *)
(***************************************************************************)
EXTENDS Naturals, FiniteSets

CONSTANTS
    Worker,        \* tasks the SDK runs at once
    Name,          \* account names
    Key,           \* cache keys of the by-name URLs
    Lower,         \* Lower[n]: the key of name n (the path in lower case)
    Requests,      \* the requests made, apart from the name
    Configs,       \* the configurations to consider
    Outages,       \* whether requests and answers can be lost
    MaxId          \* bound: ids Jamf gives out

AccountTypes == {"user", "userAccount"}

\* target: create-account-resource-type, "" when not configured; caching is
\* FALSE with BATON_DISABLE_HTTP_CACHE.
AllConfigs == [target : AccountTypes \cup {""}, caching : BOOLEAN]

\* The part of an account creation request that is not the name: the resource
\* type it asks for ("" when it leaves that open), whether it has a login, the
\* privilege_set of the profile ("" when absent) and whether any of the
\* privileges_* fields holds a privilege.
AllRequests ==
    [type : AccountTypes \cup {""},
     login : BOOLEAN,
     privilegeSet : {"", "Auditor", "Custom", "unknown"},
     privileges : BOOLEAN]

ASSUME ProvisioningAssumption ==
    /\ Requests \subseteq AllRequests
    /\ Name # {}
    /\ Lower \in [Name -> Key]
    /\ Configs \subseteq AllConfigs
    /\ Outages \in BOOLEAN
    /\ MaxId \in Nat

Ids == 1..MaxId
NoId == 0

\* An account at Jamf.
Accounts == [id : Ids, type : AccountTypes, name : Name]

Stages == {"idle", "post", "fetch", "store", "delete"}
Results == {"none", "error", "success", "exists", "deleted"}

VARIABLES
    conf,       \* the configuration the process was started with
    accounts,   \* Jamf: the accounts there are
    lastId,     \* Jamf: the last id given out
    cache,      \* cache[k]: the id in the cached answer for key k, or NoId;
                \* one table, as accounts of one type only are fetched
    known,      \* the platform: ids it has been told of
    deleted,    \* the platform: ids whose Delete succeeded
    delivered,  \* the platform: passwords it was given, each as the account
                \* it was given for and the account that it opens
    failed,     \* the platform: ids created by calls that ended with an error
    stage,      \* stage[w]: where w's call is
    kind,       \* kind[w]: the resource type whose CreateAccount w calls
    name,       \* name[w]: the account name of w's CreateAccount
    made,       \* made[w]: the id its POST created, NoId after a 409
    id,         \* id[w]: the id fetched by name, or the id to delete
    result,     \* result[w]: how w's last call ended
    during      \* during[w]: ids that had name[w] at some time of w's call

jamf == <<accounts, lastId>>
platform == <<known, deleted, delivered, failed>>
request == <<kind, name>>
vars == <<conf, jamf, cache, platform, stage, request, made, id, result, during>>

TypeOK ==
    /\ conf \in Configs
    /\ accounts \subseteq Accounts
    /\ lastId \in 0..MaxId
    /\ cache \in [Key -> Ids \cup {NoId}]
    /\ known \subseteq Ids
    /\ deleted \subseteq Ids
    /\ delivered \subseteq [for : Ids, opens : Ids \cup {NoId}]
    /\ failed \subseteq Ids
    /\ stage \in [Worker -> Stages]
    /\ kind \in [Worker -> AccountTypes]
    /\ name \in [Worker -> Name]
    /\ made \in [Worker -> Ids \cup {NoId}]
    /\ id \in [Worker -> Ids \cup {NoId}]
    /\ result \in [Worker -> Results]
    /\ during \in [Worker -> SUBSET Ids]

Init ==
    /\ conf \in Configs
    /\ accounts = {}
    /\ lastId = 0
    /\ cache = [k \in Key |-> NoId]
    /\ known = {}
    /\ deleted = {}
    /\ delivered = {}
    /\ failed = {}
    /\ stage = [w \in Worker |-> "idle"]
    /\ kind = [w \in Worker |-> "user"]
    /\ name \in [Worker -> {CHOOSE n \in Name : TRUE}]
    /\ made = [w \in Worker |-> NoId]
    /\ id = [w \in Worker |-> NoId]
    /\ result = [w \in Worker |-> "none"]
    /\ during = [w \in Worker |-> {}]

-----------------------------------------------------------------------------
(* Registration and dispatch.                                              *)

\* New: a target that is not configured is user.
accountProvisioningTarget == IF conf.target = "" THEN "user" ELSE conf.target

\* Mutated form: both types are registered as account managers.
accountManagersBoth == AccountTypes

\* userSyncer and userAccountSyncer: only the target's type can create accounts.
accountManagers == {t \in AccountTypes : t = accountProvisioningTarget}

\* The SDK finds the account manager for a request of a type; when
\* the type is left open it takes the only one there is, or else user.
managersFor(type) ==
    IF type # "" THEN accountManagers \cap {type}
    ELSE IF Cardinality(accountManagers) = 1 THEN accountManagers
    ELSE accountManagers \cap {"user"}

-----------------------------------------------------------------------------
(* Validation.                                                             *)

\* privilege_set: Auditor by default.
privilegeSetOf(r) == IF r.privilegeSet = "" THEN "Auditor" ELSE r.privilegeSet

isKnownPrivilegeSet(p) == p \in {"Administrator", "Auditor", "Enrollment Only", "Custom"}

\* Custom needs privileges, every other privilege set refuses them.
resolvePrivileges(r) == r.privileges <=> privilegeSetOf(r) = "Custom"

\* A userAccount request is checked completely before anything is sent; a
\* user request needs a login only.
Accepted(t, r) ==
    /\ r.login
    /\ t = "userAccount" =>
         /\ isKnownPrivilegeSet(privilegeSetOf(r))
         /\ resolvePrivileges(r)

-----------------------------------------------------------------------------
(* Jamf (as test-server/main.go mocks it).                                 *)

findByName(t, n) == {a \in accounts : a.type = t /\ a.name = n}

\* Every CreateAccount in progress notes that an account got its name.
Note(a) ==
    during' = [w \in Worker |->
                 during[w] \cup {i \in {a.id} :
                   /\ stage[w] \in {"post", "fetch"}
                   /\ kind[w] = a.type /\ name[w] = a.name}]

\* POST .../id/0: 409 when the name is taken, else a new account.
CreateAtJamf(w) ==
    LET a == [id |-> lastId + 1, type |-> kind[w], name |-> name[w]]
    IN  IF findByName(kind[w], name[w]) # {}
        THEN UNCHANGED <<jamf, during>> /\ made' = [made EXCEPT ![w] = NoId]
        ELSE /\ lastId < MaxId
             /\ lastId' = lastId + 1
             /\ accounts' = accounts \cup {a}
             /\ made' = [made EXCEPT ![w] = a.id]
             /\ Note(a)

\* DELETE .../id/i: 404 when there is none, which changes nothing.
DeleteAtJamf(i) ==
    /\ accounts' = {a \in accounts : a.id # i}
    /\ UNCHANGED <<lastId, during>>

-----------------------------------------------------------------------------
(* CreateAccount.                                                          *)

End(w, r) ==
    /\ stage' = [stage EXCEPT ![w] = "idle"]
    /\ result' = [result EXCEPT ![w] = r]

\* CreateAccount ends with an error; its POST created account i, or none.
Fail(w, i) ==
    /\ End(w, "error")
    /\ failed' = failed \cup ({i} \ {NoId})
    /\ UNCHANGED <<known, deleted, delivered>>

\* Without an account manager for the type asked for, with a request that it
\* does not accept, and when no password can be generated for a userAccount,
\* the call fails before anything is sent.
StartCreate(w, n, r) ==
    /\ stage[w] = "idle"
    /\ id' = [id EXCEPT ![w] = NoId]
    /\ \/ /\ \A t \in managersFor(r.type) : Accepted(t, r) => t = "userAccount"
          /\ End(w, "error")
          /\ UNCHANGED <<request, made, during>>
       \/ \E t \in managersFor(r.type) :
            /\ Accepted(t, r)
            /\ stage' = [stage EXCEPT ![w] = "post"]
            /\ result' = [result EXCEPT ![w] = "none"]
            /\ kind' = [kind EXCEPT ![w] = t]
            /\ name' = [name EXCEPT ![w] = n]
            /\ made' = [made EXCEPT ![w] = NoId]
            /\ during' = [during EXCEPT ![w] = {a.id : a \in findByName(t, n)}]
    /\ UNCHANGED <<conf, jamf, cache, platform>>

\* Step 1: attempt creation.  201 and 409 both go on to step 2.
PostAccount(w) ==
    /\ stage[w] = "post"
    /\ CreateAtJamf(w)
    /\ stage' = [stage EXCEPT ![w] = "fetch"]
    /\ UNCHANGED <<conf, cache, platform, request, id, result>>

\* Any other outcome of the POST ends the call; Jamf may have acted on it.
LosePost(w) ==
    /\ Outages
    /\ stage[w] = "post"
    /\ \/ UNCHANGED <<jamf, made, during>>
       \/ CreateAtJamf(w)
    /\ Fail(w, made'[w])
    /\ UNCHANGED <<conf, cache, request, id>>

\* Mutated form: the password is handed out with every answer.
AnswerAlwaysPassword(w, i) ==
    /\ id' = [id EXCEPT ![w] = i]
    /\ End(w, IF made[w] = NoId THEN "exists" ELSE "success")
    /\ known' = known \cup {i}
    /\ delivered' = IF kind[w] = "userAccount"
                    THEN delivered \cup {[for |-> i, opens |-> made[w]]}
                    ELSE delivered
    /\ UNCHANGED <<deleted, failed>>

\* Step 3: "already exists", or success with the generated password (for a
\* userAccount), which belongs to the account that the POST created.
Answer(w, i) ==
    /\ id' = [id EXCEPT ![w] = i]
    /\ End(w, IF made[w] = NoId THEN "exists" ELSE "success")
    /\ known' = known \cup {i}
    /\ delivered' = IF kind[w] = "userAccount" /\ made[w] # NoId
                    THEN delivered \cup {[for |-> i, opens |-> made[w]]}
                    ELSE delivered
    /\ UNCHANGED <<deleted, failed>>

\* Mutated form: the cache key leaves the name out.
FetchCachedAnyKey(w) ==
    /\ stage[w] = "fetch"
    /\ \E k \in Key : cache[k] # NoId /\ id' = [id EXCEPT ![w] = cache[k]]
    /\ stage' = [stage EXCEPT ![w] = "store"]
    /\ UNCHANGED <<conf, jamf, cache, platform, request, made, during, result>>

\* Step 2, fetch by name, answered from the response cache.
FetchCached(w) ==
    /\ stage[w] = "fetch"
    /\ cache[Lower[name[w]]] # NoId
    /\ id' = [id EXCEPT ![w] = cache[Lower[name[w]]]]
    /\ stage' = [stage EXCEPT ![w] = "store"]
    /\ UNCHANGED <<conf, jamf, cache, platform, request, made, during, result>>

\* Mutated form: a 404 is read as an account without an id.
FetchAccountZero(w) ==
    /\ stage[w] = "fetch"
    /\ cache[Lower[name[w]]] = NoId
    /\ \/ \E a \in findByName(kind[w], name[w]) : id' = [id EXCEPT ![w] = a.id]
       \/ findByName(kind[w], name[w]) = {} /\ id' = [id EXCEPT ![w] = NoId]
    /\ stage' = [stage EXCEPT ![w] = "store"]
    /\ UNCHANGED <<conf, jamf, cache, platform, request, made, during, result>>

\* Step 2, asked of Jamf.  A 404 ends the call.
FetchAccount(w) ==
    /\ stage[w] = "fetch"
    /\ cache[Lower[name[w]]] = NoId
    /\ \/ \E a \in findByName(kind[w], name[w]) :
            /\ id' = [id EXCEPT ![w] = a.id]
            /\ stage' = [stage EXCEPT ![w] = "store"]
            /\ UNCHANGED <<result, platform>>
       \/ findByName(kind[w], name[w]) = {} /\ Fail(w, made[w]) /\ UNCHANGED id
    /\ UNCHANGED <<conf, jamf, cache, request, made, during>>

\* Mutated form: the answer is kept although the cache is disabled.
StoreFetchedAnyway(w) ==
    /\ stage[w] = "store"
    /\ cache' = [cache EXCEPT ![Lower[name[w]]] = id[w]]
    /\ Answer(w, id[w])
    /\ UNCHANGED <<conf, jamf, request, made, during>>

\* The wrapper keeps the 200, once more if it came from the cache, and the call
\* returns.
StoreFetched(w) ==
    /\ stage[w] = "store"
    /\ cache' = IF conf.caching THEN [cache EXCEPT ![Lower[name[w]]] = id[w]]
                ELSE cache
    /\ Answer(w, id[w])
    /\ UNCHANGED <<conf, jamf, request, made, during>>

\* Mutated form: once the POST succeeded, the error of the GET is ignored.
LoseFetchIgnored(w) ==
    /\ Outages
    /\ stage[w] = "fetch"
    /\ IF made[w] = NoId THEN Fail(w, made[w]) ELSE End(w, "success") /\ UNCHANGED platform
    /\ UNCHANGED <<conf, jamf, cache, request, made, id, during>>

\* Any other outcome of the GET ends the call, also when the POST succeeded.
LoseFetch(w) ==
    /\ Outages
    /\ stage[w] = "fetch"
    /\ Fail(w, made[w])
    /\ UNCHANGED <<conf, jamf, cache, request, made, id, during>>

-----------------------------------------------------------------------------
(* Delete.  It works for both types, whatever the target is.               *)

StartDelete(w, i) ==
    /\ stage[w] = "idle"
    /\ i \in known
    /\ stage' = [stage EXCEPT ![w] = "delete"]
    /\ id' = [id EXCEPT ![w] = i]
    /\ result' = [result EXCEPT ![w] = "none"]
    /\ UNCHANGED <<conf, jamf, cache, platform, request, made, during>>

\* Mutated form: success is reported without asking Jamf.
DeleteAccountUnsent(w) ==
    /\ stage[w] = "delete"
    /\ End(w, "deleted")
    /\ deleted' = deleted \cup {id[w]}
    /\ UNCHANGED <<conf, jamf, cache, known, delivered, failed, request, made, id,
                   during>>

\* 200 and 404 are both success.
DeleteAccount(w) ==
    /\ stage[w] = "delete"
    /\ DeleteAtJamf(id[w])
    /\ End(w, "deleted")
    /\ deleted' = deleted \cup {id[w]}
    /\ UNCHANGED <<conf, cache, known, delivered, failed, request, made, id>>

LoseDelete(w) ==
    /\ Outages
    /\ stage[w] = "delete"
    /\ \/ UNCHANGED <<jamf, during>>
       \/ DeleteAtJamf(id[w])
    /\ End(w, "error")
    /\ UNCHANGED <<conf, cache, platform, request, made, id>>

-----------------------------------------------------------------------------
(* The rest of the connector's life.                                       *)

\* A sync ends: the platform knows every account, Cleanup clears the cache.
SyncEnds ==
    /\ known' = known \cup {a.id : a \in accounts}
    /\ cache' = [k \in Key |-> NoId]
    /\ UNCHANGED <<conf, jamf, deleted, delivered, failed, stage, request, made, id,
                   result, during>>

\* A cached answer reaches its time to live.
CacheExpires(k) ==
    /\ cache[k] # NoId
    /\ cache' = [cache EXCEPT ![k] = NoId]
    /\ UNCHANGED <<conf, jamf, platform, stage, request, made, id, result, during>>

WorkerStep(w) ==
    \/ PostAccount(w)
    \/ LosePost(w)
    \/ FetchCached(w)
    \/ FetchAccount(w)
    \/ StoreFetched(w)
    \/ LoseFetch(w)
    \/ DeleteAccount(w)
    \/ LoseDelete(w)

Next ==
    \/ \E w \in Worker :
         \/ \E n \in Name, r \in Requests : StartCreate(w, n, r)
         \/ \E i \in Ids : StartDelete(w, i)
         \/ WorkerStep(w)
    \/ SyncEnds
    \/ \E k \in Key : CacheExpires(k)

Spec == Init /\ [][Next]_vars

-----------------------------------------------------------------------------
(* Properties.                                                             *)

\* A Delete that succeeded, by a 200 or by a 404, means that the account is
\* gone for good, whatever other calls were in flight or were retried.
DeleteMeansGone == \A a \in accounts : a.id \notin deleted

\* Answered(w): w's last CreateAccount returned a resource.
Answered(w) == result[w] \in {"success", "exists"}

\* "fetch the account, whether just created or already existing"
\* (userAccount.go:318): CreateAccount answers with an account that had the
\* requested name at some time during the call.
AnswerFromThisCall == \A w \in Worker : Answered(w) => id[w] \in during[w]

\* So it is where GETs are not cached.
FreshUncached == ~conf.caching => AnswerFromThisCall

\* With the response cache the answer can be older than the call.  Then it
\* names an account that has been deleted, or one whose name differs from the
\* requested one but shares its cache key (the path is put in lower case):
\* never the account of an unrelated name.
StaleAnswerSameKey ==
    \A w \in Worker : Answered(w) =>
        \/ id[w] \in during[w]
        \/ \A a \in accounts : a.id = id[w] =>
             a.name # name[w] /\ Lower[a.name] = Lower[name[w]]

\* Where GETs are not cached, a password is handed out only for an account
\* that this call created, and never with another account than the one that
\* it opens, unless that one has been deleted while the call was under way.
\* (With the cache, a stale answer can carry the password of a new account.)
PasswordFits ==
    ~conf.caching => \A d \in delivered :
        \/ d.for = d.opens
        \/ d.opens # NoId /\ \A a \in accounts : a.id # d.opens

\* No account is left behind in silence: where GETs are not cached, the
\* platform knows of every account there is, or the call that created it is
\* still under way or has told the platform of an error, however the GET after
\* the POST ends and whoever deletes or creates accounts meanwhile.
CreatedIsReported ==
    ~conf.caching => \A a \in accounts :
        \/ a.id \in known \cup failed
        \/ \E w \in Worker : stage[w] \in {"fetch", "store"} /\ made[w] = a.id

\* "Only one type can be created at a time per connector instance"
\* (config.go:40), user by default, whichever type requests ask for or leave
\* open.
OneTypeCreated ==
    \A a \in accounts : a.type = IF conf.target = "" THEN "user" ELSE conf.target
=============================================================================
