---------------------------- MODULE AccessGrants ----------------------------
(***************************************************************************)
(* One sync of users, user groups, console accounts and their groups, and  *)
(* of the grants of roles, sites and user groups (pkg/connector/user.go,   *)
(* userGroup.go, userAccount.go, group.go, role.go and site.go over        *)
(* GetUsers, GetUserGroups and GetAccounts of pkg/jamf/client.go).         *)
(*                                                                         *)
(* Every List and every Grants asks Jamf again: for a base list, and then  *)
(* for the details of each entry.  So the parts of one answer, and the     *)
(* answers for different roles and sites, are of different times, while    *)
(* administrators edit, create and delete.  A 404 on the way fails the     *)
(* call as a whole.  Members of groups are in GroupMembers, devices in     *)
(* DeviceListing and DeviceOwners.                                         *)
(*                                                                         *)
(* External: Jamf; the SDK's syncer, which makes all List calls before the *)
(* Grants calls, runs as many calls at once as it has workers, and skips a *)
(* call that ends with NotFound; and its HTTP wrapper, which looks into    *)
(* its cache before a GET and stores the answer after it, also one that    *)
(* came from the cache and may be older than what is there by then.        *)
(***************************************************************************)
EXTENDS Naturals, Sequences, FiniteSets, FiniteSetsExt

CONSTANTS
    User, UserGroup, Account, Group,
                  \* what can exist in Jamf, numbered in the order of listing
    Site,         \* the sites
    Privilege,    \* the individual privileges
    Watched,      \* the calls of Grants that are looked at
    Shapes,       \* Shapes[p]: what Jamf can hold for p
    Worlds,       \* what there can be in Jamf when the sync starts
    Absent,       \* there is no such user, user group, account or group
    NotCached,
    NoCall,
    Worker,
    Pools,        \* the sets of workers a syncer can have, one by default
    Cachings,     \* the settings to consider, FALSE: BATON_DISABLE_HTTP_CACHE
    MaxChanges,   \* bound: changes made in Jamf
    MaxExpiries   \* bound: cached answers that reach their time to live

Principal == User \cup UserGroup \cup Account \cup Group

\* The built-in sets; Custom is deliberately excluded.
privilegeSets == {"Administrator", "Auditor", "Enrollment Only"}

\* What role.List lists: the built-in sets and Jamf's individual privileges.
Roles == privilegeSets \cup Privilege

\* The seven lists of Privileges.
Category == {"jss_objects", "jss_settings", "jss_actions", "recon",
             "casper_admin", "casper_remote", "casper_imaging"}

\* The details of a user (sites), a user group (site, users), or an account or
\* a group (site, privilege set, privileges).
Data ==
    [sites : SUBSET Site,
     users : SUBSET User,
     privilegeSet : privilegeSets \cup {"Custom", ""},
     privileges : [Category -> SUBSET Privilege]]

Of(kind) == CASE kind = "user" -> User
              [] kind = "userGroup" -> UserGroup
              [] kind = "userAccount" -> Account
              [] kind = "group" -> Group

\* The calls the syncer makes, each with what it is for.
Lists == {"list"} \X {"user", "userGroup", "userAccount", "group"}
Grants ==
    ({"role"} \X Roles) \cup ({"site"} \X Site) \cup ({"userGroup"} \X UserGroup)
Calls == Lists \cup Grants

\* The base lists.
Families == {"users", "userGroups", "accounts"}

\* Whoever can be on a base list.
Entries(f) == CASE f = "users" -> User
                [] f = "userGroups" -> UserGroup
                [] f = "accounts" -> Account \cup Group

\* A base list that is not cached.
NoList == {0}

\* The base list when w is what there is.
baseList(w, f) == {p \in Entries(f) : w[p] # Absent}

ASSUME AccessAssumption ==
    /\ Principal \subseteq Nat \ {0}
    /\ User \cap UserGroup = {}
    /\ (User \cup UserGroup) \cap (Account \cup Group) = {}
    /\ \A a \in Account, g \in Group : a < g
    /\ Privilege \cap (privilegeSets \cup {"Custom", ""}) = {}
    /\ Watched \subseteq Grants
    /\ Absent \notin Data
    /\ NotCached \notin Data
    /\ NoCall \notin Calls
    /\ Shapes \in [Principal -> SUBSET Data]
    /\ Worlds \subseteq [Principal -> Data \cup {Absent}]
    /\ Pools \subseteq SUBSET Worker
    /\ \A P \in Pools : IsFiniteSet(P)
    /\ Cachings \subseteq BOOLEAN
    /\ MaxChanges \in Nat
    /\ MaxExpiries \in Nat

VARIABLES
    world,      \* Jamf: world[p], the details of p, or Absent
    existed,    \* Jamf: whoever has existed since the sync began
    changes,    \* Jamf: how many changes were made
    ever,       \* Jamf: what held at some time of the sync, see Facts
    always,     \* Jamf: what held all the time
    caching,    \* whether GETs are cached
    listCache,  \* listCache[f]: the cached answer for a base list
    cache,      \* cache[p]: the cached answer for p's details
    expiries,   \* how many cached answers have expired
    pool,       \* the syncer's workers
    phase,      \* the syncer: "list", "grants" or "done"
    todo,       \* the calls of this phase that no worker has begun
    call,       \* call[w]: the call that w makes
    stage,      \* stage[w]: "idle", "ask", or which answer w has to cache
    lists,      \* lists[w]: the base lists that w has yet to ask for
    queue,      \* queue[w]: whose details w has yet to ask for
    got,        \* got[w][p]: the details w has got, Absent before
    results,    \* what this sync has: who is listed, who is granted what
    completed,  \* the calls that returned
    skipped     \* the calls that failed with NotFound

jamf == <<world, existed, changes, ever, always>>
http == <<caching, listCache, cache, expiries>>
sync == <<pool, phase, todo, results, completed, skipped>>
locals == <<call, stage, lists, queue, got>>
vars == <<jamf, http, sync, locals>>

TypeOK ==
    /\ world \in [Principal -> Data \cup {Absent}]
    /\ existed \subseteq Principal
    /\ changes \in 0..MaxChanges
    /\ ever \subseteq Calls \X Principal
    /\ always \subseteq ever
    /\ caching \in BOOLEAN
    /\ listCache \in [Families -> (SUBSET Principal) \cup {NoList}]
    /\ cache \in [Principal -> Data \cup {NotCached}]
    /\ expiries \in 0..MaxExpiries
    /\ pool \in Pools
    /\ phase \in {"list", "grants", "done"}
    /\ todo \subseteq Calls
    /\ call \in [Worker -> Calls \cup {NoCall}]
    /\ stage \in [Worker -> {"idle", "ask", "keepList", "keep"}]
    /\ lists \in [Worker -> Seq(Families)]
    /\ queue \in [Worker -> SUBSET Principal]
    /\ got \in [Worker -> [Principal -> Data \cup {Absent}]]
    /\ results \subseteq Calls \X Principal
    /\ completed \subseteq Calls
    /\ skipped \subseteq Calls

-----------------------------------------------------------------------------
(* What is so in Jamf.                                                     *)

\* The roles that details d give: the privileges of a Custom account, and
\* nothing but the set itself of any other.
access(d) ==
    IF d.privilegeSet = "Custom" THEN UNION {d.privileges[k] : k \in Category}
    ELSE {d.privilegeSet}

\* q is a resource of the kind c lists, or has what c is about.
Holds(w, c, q) ==
    \/ c[1] = "list" /\ q \in Of(c[2]) /\ w[q] # Absent
    \/ /\ c[1] = "role" /\ q \in Account \cup Group /\ w[q] # Absent
       /\ c[2] \in access(w[q])
    \/ c[1] = "site" /\ w[q] # Absent /\ c[2] \in w[q].sites
    \/ c[1] = "userGroup" /\ w[c[2]] # Absent /\ q \in w[c[2]].users

Facts(w) == {f \in Calls \X Principal : Holds(w, f[1], f[2])}

\* The world becomes w.
Become(w) ==
    /\ changes < MaxChanges
    /\ changes' = changes + 1
    /\ world' = w
    /\ existed' = existed \cup {p \in Principal : w[p] # Absent}
    /\ ever' = ever \cup Facts(w)
    /\ always' = always \cap Facts(w)
    /\ UNCHANGED <<http, sync, locals>>

Edit(p, d) == world[p] # Absent /\ d # world[p] /\ Become([world EXCEPT ![p] = d])

\* Ids are not given out twice.
Create(p, d) == p \notin existed /\ Become([world EXCEPT ![p] = d])

\* A user who is deleted is no longer in any user group.
Delete(p) ==
    /\ world[p] # Absent
    /\ Become([q \in Principal |->
                 IF q = p \/ world[q] = Absent THEN Absent
                 ELSE [world[q] EXCEPT !.users = @ \ {p}]])

-----------------------------------------------------------------------------
(* What the connector makes of an answer.                                  *)

\* Mutated form: one of the categories is forgotten.
ContainsSix(privileges, x) == \E k \in Category \ {"recon"} : x \in privileges[k]

Contains(privileges, x) == \E k \in Category : x \in privileges[k]

\* Mutated form: the privileges of a built-in set count.
matchesAnyPrivilege(privilegeSet, privileges, x) == Contains(privileges, x)

\* A built-in set's privileges must not be treated as an access grant.
matchesIndividualPrivilege(privilegeSet, privileges, x) ==
    privilegeSet = "Custom" /\ Contains(privileges, x)

\* Whether role.Grants grants role r for details d.
roleGranted(r, d) ==
    \/ r \notin privilegeSets /\ matchesIndividualPrivilege(d.privilegeSet, d.privileges, r)
    \/ d.privilegeSet = r

\* What call c returns on account of p's details d.
returned(c, p, d) ==
    {q \in Principal :
        \/ c[1] = "list" /\ q = p /\ p \in Of(c[2])
        \/ c[1] = "role" /\ q = p /\ roleGranted(c[2], d)
        \/ c[1] = "site" /\ q = p /\ c[2] \in d.sites
        \/ c[1] = "userGroup" /\ q \in d.users}

\* The base lists a call asks for: GetUsers, GetUserGroups, GetAccounts.  The
\* Grants of a user group asks for its details only.
listsOf(c) ==
    CASE c[1] = "role" -> <<"accounts">>
      [] c[1] = "site" -> <<"users", "userGroups", "accounts">>
      [] c[1] = "userGroup" -> <<>>
      [] c = <<"list", "user">> -> <<"users">>
      [] c = <<"list", "userGroup">> -> <<"userGroups">>
      [] OTHER -> <<"accounts">>

-----------------------------------------------------------------------------
(* A call of List or Grants.                                               *)

Nothing == [p \in Principal |-> Absent]

Begin(w, c) ==
    /\ w \in pool
    /\ stage[w] = "idle"
    /\ c \in todo
    /\ todo' = todo \ {c}
    /\ call' = [call EXCEPT ![w] = c]
    /\ stage' = [stage EXCEPT ![w] = "ask"]
    /\ lists' = [lists EXCEPT ![w] = listsOf(c)]
    /\ queue' = [queue EXCEPT ![w] = IF c[1] = "userGroup" THEN {c[2]} ELSE {}]
    /\ UNCHANGED <<jamf, http, pool, phase, results, completed, skipped, got>>

\* The next thing to ask for is a base list, or the details of p.
wantsList(w) == stage[w] = "ask" /\ queue[w] = {} /\ lists[w] # <<>>
wants(w, p) == stage[w] = "ask" /\ queue[w] # {} /\ p = Min(queue[w])

\* A base list, from the cache or from Jamf.
TakeList(w) ==
    /\ wantsList(w)
    /\ listCache[Head(lists[w])] # NoList
    /\ queue' = [queue EXCEPT ![w] = listCache[Head(lists[w])]]
    /\ stage' = [stage EXCEPT ![w] = "keepList"]
    /\ UNCHANGED <<jamf, http, sync, call, lists, got>>

AskList(w) ==
    /\ wantsList(w)
    /\ listCache[Head(lists[w])] = NoList
    /\ queue' = [queue EXCEPT ![w] = baseList(world, Head(lists[w]))]
    /\ stage' = [stage EXCEPT ![w] = "keepList"]
    /\ UNCHANGED <<jamf, http, sync, call, lists, got>>

\* Mutated form: base lists are not cached.
KeepListUncached(w) ==
    /\ stage[w] = "keepList"
    /\ stage' = [stage EXCEPT ![w] = "ask"]
    /\ lists' = [lists EXCEPT ![w] = Tail(@)]
    /\ UNCHANGED <<jamf, http, sync, call, queue, got>>

\* The answer goes into the cache, once more if it came from there.
KeepList(w) ==
    /\ stage[w] = "keepList"
    /\ listCache' = IF caching THEN [listCache EXCEPT ![Head(lists[w])] = queue[w]]
                    ELSE listCache
    /\ stage' = [stage EXCEPT ![w] = "ask"]
    /\ lists' = [lists EXCEPT ![w] = Tail(@)]
    /\ UNCHANGED <<jamf, caching, cache, expiries, sync, call, queue, got>>

\* The details of the next entry, from the cache or from Jamf.
Take(w, p) ==
    /\ wants(w, p)
    /\ cache[p] # NotCached
    /\ got' = [got EXCEPT ![w][p] = cache[p]]
    /\ stage' = [stage EXCEPT ![w] = "keep"]
    /\ UNCHANGED <<jamf, http, sync, call, lists, queue>>

\* Mutated form: a 404 is taken for an answer.
AskAnything(w, p) ==
    /\ wants(w, p)
    /\ cache[p] = NotCached
    /\ got' = [got EXCEPT ![w][p] = world[p]]
    /\ stage' = [stage EXCEPT ![w] = "keep"]
    /\ UNCHANGED <<jamf, http, sync, call, lists, queue>>

Ask(w, p) ==
    /\ wants(w, p)
    /\ cache[p] = NotCached
    /\ world[p] # Absent
    /\ got' = [got EXCEPT ![w][p] = world[p]]
    /\ stage' = [stage EXCEPT ![w] = "keep"]
    /\ UNCHANGED <<jamf, http, sync, call, lists, queue>>

\* Mutated form: details are not cached.
KeepUncached(w) ==
    /\ stage[w] = "keep"
    /\ stage' = [stage EXCEPT ![w] = "ask"]
    /\ queue' = [queue EXCEPT ![w] = @ \ {Min(queue[w])}]
    /\ UNCHANGED <<jamf, http, sync, call, lists, got>>

Keep(w) ==
    /\ stage[w] = "keep"
    /\ cache' = IF caching
                THEN [cache EXCEPT ![Min(queue[w])] = got[w][Min(queue[w])]]
                ELSE cache
    /\ stage' = [stage EXCEPT ![w] = "ask"]
    /\ queue' = [queue EXCEPT ![w] = @ \ {Min(queue[w])}]
    /\ UNCHANGED <<jamf, caching, listCache, expiries, sync, call, lists, got>>

\* w's call is over.
End(w) ==
    /\ call' = [call EXCEPT ![w] = NoCall]
    /\ stage' = [stage EXCEPT ![w] = "idle"]
    /\ lists' = [lists EXCEPT ![w] = <<>>]
    /\ queue' = [queue EXCEPT ![w] = {}]
    /\ got' = [got EXCEPT ![w] = Nothing]
    /\ UNCHANGED <<jamf, http, pool, phase, todo>>

\* The 404 is the call's error, and the syncer goes on without it.
NotFound(w, p) ==
    /\ wants(w, p)
    /\ cache[p] = NotCached
    /\ world[p] = Absent
    /\ skipped' = skipped \cup {call[w]}
    /\ End(w)
    /\ UNCHANGED <<results, completed>>

Return(w) ==
    /\ stage[w] = "ask" /\ queue[w] = {} /\ lists[w] = <<>>
    /\ results' = results \cup
         {<<call[w], q>> : q \in UNION {returned(call[w], p, got[w][p]) :
                                          p \in {p \in Principal : got[w][p] # Absent}}}
    /\ completed' = completed \cup {call[w]}
    /\ End(w)
    /\ UNCHANGED skipped

-----------------------------------------------------------------------------
(* The syncer and the cache (external).                                    *)

\* The Grants that are called: for all roles and sites, and for the user
\* groups that were listed.
NextPhase ==
    /\ phase # "done"
    /\ todo = {}
    /\ \A w \in Worker : stage[w] = "idle"
    /\ phase' = IF phase = "list" THEN "grants" ELSE "done"
    /\ todo' = {c \in Watched : /\ phase = "list"
                                /\ \/ c[1] # "userGroup"
                                   \/ <<<<"list", "userGroup">>, c[2]>> \in results}
    /\ UNCHANGED <<jamf, http, pool, results, completed, skipped, locals>>

ListExpires(f) ==
    /\ listCache[f] # NoList
    /\ expiries < MaxExpiries
    /\ expiries' = expiries + 1
    /\ listCache' = [listCache EXCEPT ![f] = NoList]
    /\ UNCHANGED <<jamf, caching, cache, sync, locals>>

Expires(p) ==
    /\ cache[p] # NotCached
    /\ expiries < MaxExpiries
    /\ expiries' = expiries + 1
    /\ cache' = [cache EXCEPT ![p] = NotCached]
    /\ UNCHANGED <<jamf, caching, listCache, sync, locals>>

\* Mutated form: the answers of an earlier sync are still cached.
InitUncleared ==
    /\ world \in Worlds
    /\ existed = {p \in Principal : world[p] # Absent}
    /\ changes = 0
    /\ ever = Facts(world)
    /\ always = Facts(world)
    /\ caching \in Cachings
    /\ listCache \in {[f \in Families |-> baseList(w, f)] : w \in Worlds}
    /\ cache = [p \in Principal |-> NotCached]
    /\ expiries = 0
    /\ pool \in Pools
    /\ phase = "list" /\ todo = Lists
    /\ call = [w \in Worker |-> NoCall]
    /\ stage = [w \in Worker |-> "idle"]
    /\ lists = [w \in Worker |-> <<>>]
    /\ queue = [w \in Worker |-> {}]
    /\ got = [w \in Worker |-> Nothing]
    /\ results = {} /\ completed = {} /\ skipped = {}

\* A sync starts, with an empty cache: Cleanup has cleared it after the last,
\* which the wrapper's "db" backend, not the default, would not do.
Init ==
    /\ world \in Worlds
    /\ existed = {p \in Principal : world[p] # Absent}
    /\ changes = 0
    /\ ever = Facts(world)
    /\ always = Facts(world)
    /\ caching \in Cachings
    /\ listCache = [f \in Families |-> NoList]
    /\ cache = [p \in Principal |-> NotCached]
    /\ expiries = 0
    /\ pool \in Pools
    /\ phase = "list"
    /\ todo = Lists
    /\ call = [w \in Worker |-> NoCall]
    /\ stage = [w \in Worker |-> "idle"]
    /\ lists = [w \in Worker |-> <<>>]
    /\ queue = [w \in Worker |-> {}]
    /\ got = [w \in Worker |-> Nothing]
    /\ results = {}
    /\ completed = {}
    /\ skipped = {}

WorkerStep(w) ==
    \/ \E c \in Calls : Begin(w, c)
    \/ TakeList(w)
    \/ AskList(w)
    \/ KeepList(w)
    \/ \E p \in Principal : Take(w, p) \/ Ask(w, p) \/ NotFound(w, p)
    \/ Keep(w)
    \/ Return(w)

\* The sync is over; that no other state is without a next step is checked.
Done == phase = "done" /\ UNCHANGED vars

Next ==
    \/ NextPhase
    \/ \E w \in Worker : WorkerStep(w)
    \/ Done
    \/ \E p \in Principal :
         \/ \E d \in Shapes[p] : Edit(p, d) \/ Create(p, d)
         \/ Delete(p)
         \/ Expires(p)
    \/ \E f \in Families : ListExpires(f)

Spec == Init /\ [][Next]_vars

-----------------------------------------------------------------------------
(* Properties.                                                             *)

\* Nothing is listed or granted that did not hold at some time of this sync,
\* although the parts of an answer are fetched one by one, from Jamf or from
\* the cache.  In particular privileges that stand beside a built-in set give
\* no grant (role.go:90).
ResultsWereTrue == results \subseteq ever

\* What held during the whole sync is found by every call that returns,
\* whatever else is edited, created or deleted meanwhile.
StableFactsFound ==
    \A f \in always : f[1] \in completed => f \in results

\* Those who existed during this sync and are gone.
Gone == {p \in existed : world[p] = Absent}

\* Whose details call c can ask for.
Reads(c) ==
    {p \in Principal : \/ c = <<"userGroup", p>>
                       \/ \E i \in DOMAIN listsOf(c) : p \in Entries(listsOf(c)[i])}

\* A call is skipped only because something that it reads about was deleted
\* during this sync: nothing else can cost the sync a call's results.
SkippedByDeletion == \A c \in skipped : Gone \cap Reads(c) # {}

\* "a Custom account's access is described by its individual privileges"
\* (role.go:25), any other's by its one set: with the response cache, and
\* before an answer in it expires, the grants of all roles describe one
\* account, and not what it was before and after an administrator edited it.
\* With one worker this is always so.  With several, a List that was skipped
\* can leave a base list in the cache whose details the other List, which had
\* an older base list, did not fetch: then nothing fixes what they are.
ExclusiveRoles ==
    /\ caching /\ expiries = 0
    /\ Cardinality(pool) = 1 \/ skipped \cap Lists = {}
    => \A r1, r2 \in results :
           /\ r1[1][1] = "role" /\ r1[1][2] \in privilegeSets
           /\ r2[1][1] = "role" /\ r2[2] = r1[2]
           => r1 = r2

\* p is a resource of this sync, or is missing only because its List was
\* skipped.
InSync(p) ==
    \E c \in Lists : p \in Of(c[2]) /\ (<<c, p>> \in results \/ c \in skipped)

\* p has existed during the whole sync.
Stayed(p) == \E c \in Lists : <<c, p>> \in always

\* Grants asks Jamf again and yet sees whom List saw: with any number of
\* workers, with and without the cache, a role or a site is granted to
\* resources of this sync, except to somebody who was created or deleted while
\* the sync ran.  One worker and the cache make it so for those as well.
GranteesListed ==
    \A r \in results : r[1][1] \in {"role", "site"} =>
        \/ InSync(r[2])
        \/ ~Stayed(r[2]) /\ ~(caching /\ expiries = 0 /\ Cardinality(pool) = 1)
=============================================================================
