---------------------------- MODULE DeviceOwners ----------------------------
(***************************************************************************)
(* pkg/connector/managedDevice.go: how a sync finds out whom a device is   *)
(* assigned to.  List records the assignee of every device in the map      *)
(* deviceOwners; Entitlements and Grants, which the SDK calls later in the *)
(* same sync, read it back; Grants resolves the assignee with userIndex,   *)
(* which the first call builds by one GET for the list of users and one    *)
(* for each of them, holding the mutex.  Both fields live as long as the   *)
(* process.                                                                *)
(*                                                                         *)
(* External: Jamf, where devices are reassigned and users come and go, and *)
(* the SDK's syncer, which runs the phases one after the other and the     *)
(* calls of a phase in parallel, skips a call that ends with NotFound (it  *)
(* logs a warning and goes on), and resumes a sync from its last           *)
(* checkpoint when the process has died.                                   *)
(***************************************************************************)
EXTENDS Naturals, FiniteSets, FiniteSetsExt

CONSTANTS
    Worker,       \* the syncer's goroutines
    Device,       \* the devices
    Mobile,       \* those that are mobile devices, which report no email
    Raw,          \* the user names and email addresses that are in use
    Empty,        \* the empty string
    Key,          \* names in lower case and without surrounding space
    Norm,         \* Norm[s]: the key of s, or NoKey when nothing is left
    NoKey,
    Reports,      \* the assignees that Jamf can hold for a device
    Users,        \* the Jamf users that exist or can come into existence,
                  \* by id; they are listed in the order of their ids
    KeysOf,       \* KeysOf[u]: the keys of u's names and email addresses
    Caching,      \* FALSE: BATON_DISABLE_HTTP_CACHE
    NoDevice,
    MaxChanges,   \* bound: changes made in Jamf
    MaxSyncs,     \* bound: syncs of one process
    MaxRestarts   \* bound: how many times the process dies

\* deviceOwner
Owners == [username : Raw \cup {Empty}, email : Raw \cup {Empty}]
NoOwner == [username |-> Empty, email |-> Empty]

ASSUME OwnersAssumption ==
    /\ Mobile \subseteq Device
    /\ NoDevice \notin Device
    /\ Empty \notin Raw
    /\ NoKey \notin Key
    /\ Norm \in [Raw -> Key \cup {NoKey}]
    /\ Reports \subseteq Owners
    /\ Users \subseteq Nat \ {0}
    /\ KeysOf \in [Users -> SUBSET Key]
    /\ Caching \in BOOLEAN
    /\ MaxChanges \in Nat
    /\ MaxSyncs \in Nat
    /\ MaxRestarts \in Nat

NoUser == 0
Indexes == [Key -> Users \cup {NoUser}]

\* userIndex = nil
NoIndex == [k \in {} |-> NoUser]

\* What a grant says: the assignee it was made for, and the user it is given
\* to, or the value that the platform shall match an identity with.
Grantees == [owner : Owners, user : Users \cup {NoUser}, match : Raw \cup {Empty}]

Phases == {"list", "entitlements", "grants", "done"}

VARIABLES
    assigned,      \* Jamf: assigned[d], the user and location of device d
    users,         \* Jamf: the users there are
    changes,       \* how many changes Jamf has seen
    deviceOwners,  \* deviceOwners[d], NoOwner when the map has no entry
    userIndex,     \* userIndex, or NoIndex
    stage,         \* stage[w]: "idle", or where w's call of Grants is
    device,        \* device[w]: the device w's call is about
    owner,         \* owner[w]: the assignee it has read
    queue,         \* the users whose details GetUsers has yet to fetch
    idx,           \* the index being built
    phase,         \* the syncer: the phase of the sync
    todo,          \* the devices whose call of this phase is not done
    checkpoint,    \* the phase and todo that were saved last
    syncs,         \* how many syncs have started
    restarts,      \* how many times the process has died
    disturbed,     \* whether it has died during this sync
    synced,        \* the users when this sync listed them
    seen,          \* the users that existed at some time of this sync
    met,           \* the users that existed at some time, and
    stable,        \* the users that existed at all times, since the last sync
                   \* began that found no userIndex
    listed,        \* listed[d]: the assignee d reported to this sync
    entitled,      \* the devices this sync has an entitlement for
    granted        \* granted[d]: the grants of this sync for d

jamf == <<assigned, users, changes, seen, met, stable>>
process == <<deviceOwners, userIndex>>
calls == <<stage, device, owner, queue, idx>>
progress == <<phase, todo>>
history == <<checkpoint, syncs, restarts, disturbed, synced>>
results == <<listed, entitled, granted>>
vars == <<jamf, process, calls, progress, history, results>>

TypeOK ==
    /\ assigned \in [Device -> Owners]
    /\ users \subseteq Users
    /\ changes \in 0..MaxChanges
    /\ deviceOwners \in [Device -> Owners]
    /\ userIndex \in Indexes \cup {NoIndex}
    /\ stage \in [Worker -> {"idle", "index", "build"}]
    /\ device \in [Worker -> Device \cup {NoDevice}]
    /\ owner \in [Worker -> Owners]
    /\ queue \subseteq Users
    /\ idx \in Indexes
    /\ phase \in Phases
    /\ todo \subseteq Device
    /\ checkpoint \in [phase : Phases, todo : SUBSET Device]
    /\ syncs \in 0..MaxSyncs
    /\ restarts \in 0..MaxRestarts
    /\ disturbed \in BOOLEAN
    /\ synced \subseteq Users
    /\ seen \subseteq Users
    /\ met \subseteq Users
    /\ stable \subseteq Users
    /\ listed \in [Device -> Owners]
    /\ entitled \subseteq Device
    /\ granted \in [Device -> SUBSET Grantees]

EmptyIndex == [k \in Key |-> NoUser]
Unlisted == [d \in Device |-> NoOwner]

\* A process that has yet to sync, and any state of Jamf.
Init ==
    /\ assigned \in [Device -> Reports]
    /\ users \in SUBSET Users
    /\ changes = 0
    /\ deviceOwners = Unlisted
    /\ userIndex = NoIndex
    /\ stage = [w \in Worker |-> "idle"]
    /\ device = [w \in Worker |-> NoDevice]
    /\ owner = [w \in Worker |-> NoOwner]
    /\ queue = {}
    /\ idx = EmptyIndex
    /\ phase = "done"
    /\ todo = {}
    /\ checkpoint = [phase |-> "done", todo |-> {}]
    /\ syncs = 0
    /\ restarts = 0
    /\ disturbed = FALSE
    /\ synced = {}
    /\ seen = users
    /\ met = users
    /\ stable = users
    /\ listed = Unlisted
    /\ entitled = {}
    /\ granted = [d \in Device |-> {}]

-----------------------------------------------------------------------------
(* List.                                                                   *)

\* What device d reports: computers a user name and an email address, mobile
\* devices a user name only.
reported(d) ==
    IF d \in Mobile THEN [assigned[d] EXCEPT !.email = Empty] ELSE assigned[d]

\* Mutated form: an owner on record is never replaced.
recordDeviceOwnerOnce(d, o) ==
    deviceOwners' = IF deviceOwners[d] = NoOwner
                    THEN [deviceOwners EXCEPT ![d] = o] ELSE deviceOwners

\* A device that reports no owner leaves the map as it is.
recordDeviceOwner(d, o) ==
    deviceOwners' = IF o = NoOwner THEN deviceOwners
                    ELSE [deviceOwners EXCEPT ![d] = o]

\* List meets device d and records its owner.
List(d) ==
    /\ phase = "list"
    /\ d \in todo
    /\ recordDeviceOwner(d, reported(d))
    /\ listed' = [listed EXCEPT ![d] = reported(d)]
    /\ todo' = todo \ {d}
    /\ UNCHANGED <<jamf, userIndex, calls, phase, history, entitled, granted>>

-----------------------------------------------------------------------------
(* Entitlements.                                                           *)

\* Mutated form: only an email address counts as an assignee.
EntitlementsByEmail(d) ==
    /\ phase = "entitlements"
    /\ d \in todo
    /\ entitled' = entitled \cup {e \in {d} : deviceOwners[e].email # Empty}
    /\ todo' = todo \ {d}
    /\ UNCHANGED <<jamf, process, calls, phase, history, listed, granted>>

\* The "assigned" entitlement, for devices with an owner on record.
Entitlements(d) ==
    /\ phase = "entitlements"
    /\ d \in todo
    /\ entitled' = entitled \cup {e \in {d} : deviceOwners[e] # NoOwner}
    /\ todo' = todo \ {d}
    /\ UNCHANGED <<jamf, process, calls, phase, history, listed, granted>>

-----------------------------------------------------------------------------
(* Grants.                                                                 *)

\* strings.ToLower(strings.TrimSpace(s))
keyOf(s) == IF s \in Raw THEN Norm[s] ELSE NoKey

\* The user that index gives for the string s; blank strings are skipped.
lookup(index, s) == IF keyOf(s) = NoKey THEN NoUser ELSE index[keyOf(s)]

\* The user name is tried first, then the email address.
resolveUser(index, o) ==
    IF lookup(index, o.username) # NoUser THEN lookup(index, o.username)
    ELSE lookup(index, o.email)

\* strings.TrimSpace, as far as it matters: a blank string becomes empty.
TrimSpace(s) == IF keyOf(s) = NoKey THEN Empty ELSE s

\* Mutated form: the external match is given the key, in lower case.
deviceGrantsLower(index, o) ==
    LET u == resolveUser(index, o)
        value == IF keyOf(o.email) # NoKey THEN keyOf(o.email)
                 ELSE keyOf(o.username)
    IN  {[owner |-> o, user |-> u,
          match |-> IF u = NoUser THEN value ELSE Empty]}

\* Mutated form: there is nothing to fall back on when there is no email.
deviceGrantsByEmail(index, o) ==
    LET u == resolveUser(index, o)
    IN  {[owner |-> o, user |-> u,
          match |-> IF u = NoUser THEN TrimSpace(o.email) ELSE Empty]}

\* One grant, to the synced user or to an external match by email, or by
\* user name when there is no email.
deviceGrants(index, o) ==
    LET u == resolveUser(index, o)
        value == IF TrimSpace(o.email) # Empty THEN TrimSpace(o.email)
                 ELSE TrimSpace(o.username)
    IN  {[owner |-> o, user |-> u,
          match |-> IF u = NoUser THEN value ELSE Empty]}

\* Mutated form: the call that stored the index has not unlocked d.mu.
LockedForGood == userIndex # NoIndex \/ \E w \in Worker : stage[w] = "build"

\* d.mu is held by the call that builds the index.
Locked == \E w \in Worker : stage[w] = "build"

\* w's call returns; its locals are forgotten.
Return(w) ==
    /\ stage' = [stage EXCEPT ![w] = "idle"]
    /\ device' = [device EXCEPT ![w] = NoDevice]
    /\ owner' = [owner EXCEPT ![w] = NoOwner]

\* The SDK is done with the device, be it with grants or, when the call
\* failed with NotFound, without.
Finish(w, grants) ==
    /\ Return(w)
    /\ granted' = [granted EXCEPT ![device[w]] = @ \cup grants]
    /\ todo' = todo \ {device[w]}

\* deviceAssignee: without an owner on record there is nothing to grant.
Grants(w, d) ==
    /\ phase = "grants"
    /\ stage[w] = "idle"
    /\ d \in todo
    /\ \A v \in Worker : device[v] # d
    /\ ~Locked
    /\ \/ /\ deviceOwners[d] = NoOwner
          /\ todo' = todo \ {d}
          /\ UNCHANGED <<stage, device, owner>>
       \/ /\ deviceOwners[d] # NoOwner
          /\ stage' = [stage EXCEPT ![w] = "index"]
          /\ device' = [device EXCEPT ![w] = d]
          /\ owner' = [owner EXCEPT ![w] = deviceOwners[d]]
          /\ UNCHANGED todo
    /\ UNCHANGED <<jamf, process, queue, idx, phase, history, results>>

\* getUserIndex finds an index.
UseIndex(w) ==
    /\ stage[w] = "index"
    /\ ~Locked
    /\ userIndex # NoIndex
    /\ Finish(w, deviceGrants(userIndex, owner[w]))
    /\ UNCHANGED <<jamf, process, queue, idx, phase, history, listed, entitled>>

\* getUserIndex has none: GetUsers asks for the list of users.
BuildIndex(w, baseUsers) ==
    /\ stage[w] = "index"
    /\ ~Locked
    /\ userIndex = NoIndex
    /\ queue' = baseUsers
    /\ stage' = [stage EXCEPT ![w] = "build"]
    /\ UNCHANGED <<jamf, process, device, owner, idx, progress, history, results>>

\* Mutated form: the last writer wins.
indexedLast(u) == [k \in Key |-> IF k \in KeysOf[u] THEN u ELSE idx[k]]

\* Mutated form: all entries share one ResourceId, the last user's.
indexedAliased(u) ==
    [k \in Key |-> IF k \in KeysOf[u] \/ idx[k] # NoUser THEN u ELSE NoUser]

\* First writer wins so a stable user keeps the key on collisions.
indexed(u) ==
    [k \in Key |-> IF k \in KeysOf[u] /\ idx[k] = NoUser THEN u ELSE idx[k]]

\* The details of user u can be had, from Jamf or from the cache.
Served(u) == u \in users \/ (Caching /\ u \in synced)

\* GetUsers fetches the details of the next user.
FetchUser(w) ==
    /\ stage[w] = "build"
    /\ queue # {}
    /\ Served(Min(queue))
    /\ idx' = indexed(Min(queue))
    /\ queue' = queue \ {Min(queue)}
    /\ UNCHANGED <<jamf, process, stage, device, owner, progress, history, results>>

\* The user has been deleted and is not, or no longer, in the cache: GetUsers
\* fails as a whole, no index is kept, the mutex is released and the device
\* is skipped.
FetchUserFails(w) ==
    /\ stage[w] = "build"
    /\ queue # {}
    /\ Min(queue) \notin users
    /\ queue' = {}
    /\ idx' = EmptyIndex
    /\ Finish(w, {})
    /\ UNCHANGED <<jamf, process, phase, history, listed, entitled>>

\* d.userIndex = idx, and the call goes on with it.
StoreIndex(w) ==
    /\ stage[w] = "build"
    /\ queue = {}
    /\ userIndex' = idx
    /\ idx' = EmptyIndex
    /\ Finish(w, deviceGrants(idx, owner[w]))
    /\ UNCHANGED <<jamf, deviceOwners, queue, phase, history, listed, entitled>>

-----------------------------------------------------------------------------
(* The syncer (external).                                                  *)

StartSync ==
    /\ phase = "done"
    /\ syncs < MaxSyncs
    /\ syncs' = syncs + 1
    /\ phase' = "list"
    /\ todo' = Device
    /\ checkpoint' = [phase |-> "list", todo |-> Device]
    /\ disturbed' = FALSE
    /\ synced' = users
    /\ seen' = users
    /\ met' = IF userIndex = NoIndex THEN users ELSE met
    /\ stable' = IF userIndex = NoIndex THEN users ELSE stable
    /\ listed' = Unlisted
    /\ entitled' = {}
    /\ granted' = [d \in Device |-> {}]
    /\ UNCHANGED <<assigned, users, changes, process, calls, restarts>>

\* List of the users, at any time of the first phase; the cache has its answers.
ListUsers ==
    /\ phase = "list"
    /\ synced' = users
    /\ UNCHANGED <<jamf, process, calls, progress, checkpoint, syncs, restarts,
                   disturbed, results>>

\* All calls of a phase are over.
NextPhase ==
    /\ phase # "done"
    /\ todo = {}
    /\ phase' = CASE phase = "list" -> "entitlements"
                  [] phase = "entitlements" -> "grants"
                  [] OTHER -> "done"
    /\ todo' = IF phase = "grants" THEN {} ELSE Device
    /\ UNCHANGED <<jamf, process, calls, history, results>>

\* The syncer saves how far it has come, every now and then.
Checkpoint ==
    /\ phase # "done"
    /\ restarts < MaxRestarts
    /\ checkpoint' = [phase |-> phase, todo |-> todo]
    /\ UNCHANGED <<jamf, process, calls, progress, syncs, restarts, disturbed,
                   synced, results>>

\* The process dies and another one resumes the sync.
Restart ==
    /\ phase # "done"
    /\ restarts < MaxRestarts
    /\ restarts' = restarts + 1
    /\ disturbed' = TRUE
    /\ deviceOwners' = Unlisted
    /\ userIndex' = NoIndex
    /\ stage' = [w \in Worker |-> "idle"]
    /\ device' = [w \in Worker |-> NoDevice]
    /\ owner' = [w \in Worker |-> NoOwner]
    /\ queue' = {}
    /\ idx' = EmptyIndex
    /\ phase' = checkpoint.phase
    /\ todo' = checkpoint.todo
    /\ UNCHANGED <<jamf, checkpoint, syncs, synced, results>>

-----------------------------------------------------------------------------
(* Jamf (external).                                                        *)

\* An administrator assigns a device to someone, or to nobody.
Assign(d, o) ==
    /\ changes < MaxChanges
    /\ o # assigned[d]
    /\ changes' = changes + 1
    /\ assigned' = [assigned EXCEPT ![d] = o]
    /\ UNCHANGED <<users, seen, met, stable, process, calls, progress, history, results>>

\* A user is created or deleted.  The id of a user that the process can have
\* met is not given out again.
ChangeUser(u) ==
    /\ u \in users \/ u \notin met
    /\ changes < MaxChanges
    /\ changes' = changes + 1
    /\ users' = IF u \in users THEN users \ {u} ELSE users \cup {u}
    /\ seen' = seen \cup users'
    /\ met' = met \cup users'
    /\ stable' = stable \cap users'
    /\ UNCHANGED <<assigned, process, calls, progress, history, results>>

WorkerStep(w) ==
    \/ \E d \in Device : Grants(w, d)
    \/ UseIndex(w)
    \/ BuildIndex(w, users)
    \/ Caching /\ BuildIndex(w, synced)
    \/ FetchUser(w)
    \/ FetchUserFails(w)
    \/ StoreIndex(w)

SyncStep ==
    \/ \E d \in Device : List(d) \/ Entitlements(d)
    \/ \E w \in Worker : WorkerStep(w)
    \/ NextPhase

Next ==
    \/ SyncStep
    \/ StartSync
    \/ ListUsers
    \/ Checkpoint
    \/ Restart
    \/ \E d \in Device : \E o \in Reports : Assign(d, o)
    \/ \E u \in Users : ChangeUser(u)

Spec == Init /\ [][Next]_vars

\* Goroutines are scheduled and requests end.
FairSpec == Spec /\ WF_vars(SyncStep)

-----------------------------------------------------------------------------
(* Properties.                                                             *)

\* The keys by which owner o can be a Jamf user.
keysOfOwner(o) == {keyOf(o.username), keyOf(o.email)} \ {NoKey}

\* A grant never comes without its entitlement, although Grants and
\* Entitlements read the shared map at different times and a crash empties
\* it between them.
GrantHasEntitlement == \A d \in Device : granted[d] # {} => d \in entitled

\* A sync that no crash disturbed ends with one grant for every device that
\* reported an assignee to it, made for that assignee and not for the one
\* an earlier sync recorded.  Only the deletion of a user during the sync can
\* cost a device its grant, by failing the GetUsers of its call.
GrantsFollowListing ==
    phase = "done" /\ ~disturbed =>
        \A d \in Device : listed[d] # NoOwner =>
            \/ /\ Cardinality(granted[d]) = 1
               /\ \A g \in granted[d] : g.owner = listed[d]
            \/ granted[d] = {} /\ seen \ users # {}

\* A grant without a user tells the platform what to match, although names are
\* compared with "" before they are trimmed (managedDevice.go:584) and mobile
\* devices report no email: it is empty only when all that the device
\* reported is white space.
GrantNamesSomeone ==
    \A d \in Device : \A g \in granted[d] :
        g.user = NoUser /\ g.match = Empty => keysOfOwner(g.owner) = {}

\* A user who is granted a device goes by a name of the assignee and existed at
\* some time since the sync began that the index is from, be it this one or an
\* earlier one of the process; although the list of users and their details
\* are fetched at different times and may come from the cache, and a crash can
\* replace the index in the middle of a sync.
GranteeExisted ==
    \A d \in Device : \A g \in granted[d] : g.user # NoUser =>
        g.user \in met /\ KeysOf[g.user] \cap keysOfOwner(g.owner) # {}

\* "First writer wins so a stable user keeps the key on collisions"
\* (managedDevice.go:220): an assignee whose user name belongs to users that
\* have been there ever since that sync began is granted to one of them
\* directly, and never to a user with a higher id.
StableUserGranted ==
    \A d \in Device : \A g \in granted[d] : \A u \in stable :
        keyOf(g.owner.username) \in KeysOf[u] => g.user \in 1..u

\* "unassigned assets stay clean" (managedDevice.go:145): a device that
\* reported no assignee to this sync has no "assigned" entitlement.
UnassignedStayClean ==
    phase = "done" => \A d \in entitled : listed[d] # NoOwner

\* "so Entitlements/Grants can emit the device->user grant"
\* (managedDevice.go:51): a sync that is complete has a grant for every
\* device that reported an assignee to it.
OwnersGranted ==
    phase = "done" => \A d \in Device : listed[d] # NoOwner => granted[d] # {}

\* Every sync comes to its end: a Grants call that fails because a user was
\* deleted under it leaves nothing locked that a later call waits for.
SyncCompletes == phase # "done" ~> phase = "done"
=============================================================================
