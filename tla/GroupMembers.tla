---------------------------- MODULE GroupMembers ----------------------------
(***************************************************************************)
(* pkg/connector/group.go with GetAccounts of pkg/jamf/client.go: how one  *)
(* sync learns the members of one group.  List calls GetAccounts: one GET  *)
(* for the base list, one for every account, one for every group.  Grants  *)
(* asks for the group again, up to five times while the answer has no      *)
(* members, and then for each member's account.  The SDK's HTTP wrapper    *)
(* answers a repeated GET from its response cache.                         *)
(*                                                                         *)
(* External: Jamf, whose group endpoint leaves the members out now and     *)
(* then; and the SDK, for which a List or Grants that ends with NotFound   *)
(* is a warning: it skips the call for this sync and goes on.              *)
(***************************************************************************)
EXTENDS Naturals

CONSTANTS
    Account,     \* the console accounts that can exist
    Cachings,    \* the settings to consider, FALSE: BATON_DISABLE_HTTP_CACHE
    Tries,       \* how often Grants asks for the group: 5
    MaxBlanks,   \* bound: answers that leave the members out
    MaxChanges   \* bound: changes made in Jamf

ASSUME GroupAssumption ==
    /\ Cachings \subseteq BOOLEAN
    /\ Tries \in Nat \ {0}
    /\ MaxBlanks \in Nat
    /\ MaxChanges \in Nat

\* The members of a group answer that is not in the cache.
NotCached == [cached |-> FALSE, members |-> {}]
Cached(m) == [cached |-> TRUE, members |-> m]

\* The group is not listed when List failed or did not see it, and skipped
\* when Grants failed.
Stages == {"list", "accounts", "try", "members", "granted", "unlisted", "skipped"}

VARIABLES
    accounts,    \* Jamf: the accounts there are
    present,     \* Jamf: whether the group is there
    members,     \* Jamf: the group's members
    blanks,      \* Jamf: how many answers left the members out
    changes,     \* Jamf: how many changes were made
    caching,     \* whether GETs are cached
    groupCache,  \* the cached answer for the group
    details,     \* the accounts whose details are cached
    stage,       \* what List, then Grants, asks for next
    pending,     \* the accounts whose details it has yet to fetch
    answer,      \* Grants' group.Members
    count,       \* Grants' count
    grants,      \* the accounts granted so far
    everMembers, \* accounts that were members at some time of the sync
    deleted,     \* accounts that were deleted during the sync
    populated    \* whether the group had members at all times of the sync

jamf == <<accounts, present, members, changes, everMembers, deleted, populated>>
cache == <<caching, groupCache, details>>
call == <<stage, pending, answer, count, grants>>
vars == <<jamf, blanks, cache, call>>

TypeOK ==
    /\ accounts \subseteq Account
    /\ present \in BOOLEAN
    /\ members \subseteq accounts
    /\ blanks \in 0..MaxBlanks
    /\ changes \in 0..MaxChanges
    /\ caching \in BOOLEAN
    /\ groupCache \in [cached : BOOLEAN, members : SUBSET Account]
    /\ details \subseteq Account
    /\ stage \in Stages
    /\ pending \subseteq Account
    /\ answer \subseteq Account
    /\ count \in 0..Tries
    /\ grants \subseteq Account
    /\ everMembers \subseteq Account
    /\ deleted \subseteq Account
    /\ populated \in BOOLEAN

\* Mutated form: the cache outlives the sync that filled it.
InitUncleared ==
    /\ accounts \in SUBSET Account
    /\ present = TRUE
    /\ members \in SUBSET accounts
    /\ caching \in Cachings
    /\ groupCache \in {NotCached} \cup {Cached(m) : m \in SUBSET Account}
    /\ details \in SUBSET Account
    /\ blanks = 0 /\ changes = 0 /\ count = 0
    /\ stage = "list"
    /\ pending = {} /\ answer = {} /\ grants = {}
    /\ everMembers = members
    /\ deleted = {}
    /\ populated = (members # {})

\* A sync starts: Cleanup has emptied the (memory) cache after the one before.
Init ==
    /\ accounts \in SUBSET Account
    /\ present = TRUE
    /\ members \in SUBSET accounts
    /\ blanks = 0
    /\ changes = 0
    /\ caching \in Cachings
    /\ groupCache = NotCached
    /\ details = {}
    /\ stage = "list"
    /\ pending = {}
    /\ answer = {}
    /\ count = 0
    /\ grants = {}
    /\ everMembers = members
    /\ deleted = {}
    /\ populated = (members # {})

-----------------------------------------------------------------------------
(* The two GETs.                                                           *)

\* GetGroupDetails answers m: what the cache has, or what Jamf says, with
\* or without the members, which is then cached.
GetGroupDetails(m) ==
    \/ groupCache = Cached(m) /\ UNCHANGED <<blanks, cache>>
    \/ /\ groupCache = NotCached
       /\ present
       /\ \/ m = members /\ UNCHANGED blanks
          \/ m = {} /\ blanks < MaxBlanks /\ blanks' = blanks + 1
       /\ groupCache' = IF caching THEN Cached(m) ELSE groupCache
       /\ UNCHANGED <<caching, details>>

\* It ends with NotFound for a group that is neither cached nor there.
GroupNotFound == groupCache = NotCached /\ ~present

\* GetUserAccountDetails succeeds for an account that exists or is cached.
Served(a) == a \in accounts \cup details

GetUserAccountDetails(a) ==
    /\ Served(a)
    /\ details' = IF caching THEN details \cup {a} ELSE details
    /\ UNCHANGED <<blanks, caching, groupCache>>

-----------------------------------------------------------------------------
(* List: GetAccounts.                                                      *)

\* getBaseAccounts.  A group that is gone is not on the list, and the sync has
\* no more to do with it.
ListAccounts ==
    /\ stage = "list"
    /\ stage' = IF present THEN "accounts" ELSE "unlisted"
    /\ pending' = IF present THEN accounts ELSE {}
    /\ UNCHANGED <<jamf, blanks, cache, answer, count, grants>>

ListAccount(a) ==
    /\ stage = "accounts"
    /\ a \in pending
    /\ GetUserAccountDetails(a)
    /\ pending' = pending \ {a}
    /\ UNCHANGED <<jamf, stage, answer, count, grants>>

\* An account that is gone fails List as a whole.  Without the resource there
\* is no Grants either.
ListFails(a) ==
    /\ stage = "accounts"
    /\ a \in pending
    /\ ~Served(a)
    /\ stage' = "unlisted"
    /\ pending' = {}
    /\ UNCHANGED <<jamf, blanks, cache, answer, count, grants>>

\* List fetches the group for its name and site, and the SDK goes on to
\* Grants.
ListGroup ==
    /\ stage = "accounts"
    /\ pending = {}
    /\ \E m \in SUBSET Account : GetGroupDetails(m)
    /\ stage' = "try"
    /\ UNCHANGED <<jamf, pending, answer, count, grants>>

\* So does a group that is gone.
ListGroupFails ==
    /\ stage = "accounts"
    /\ pending = {}
    /\ GroupNotFound
    /\ stage' = "unlisted"
    /\ UNCHANGED <<jamf, blanks, cache, pending, answer, count, grants>>

-----------------------------------------------------------------------------
(* Grants.                                                                 *)

\* Mutated form: Grants asks once.
AskForGroupOnce ==
    /\ stage = "try"
    /\ \E m \in SUBSET Account : GetGroupDetails(m) /\ answer' = m /\ pending' = m
    /\ stage' = "members"
    /\ UNCHANGED <<jamf, count, grants>>

\* Mutated form: the loop runs while count <= Tries.
AskForGroupTooOften ==
    /\ stage = "try"
    /\ \E m \in SUBSET Account :
         /\ GetGroupDetails(m)
         /\ answer' = m
         /\ pending' = m
         /\ count' = IF m = {} THEN count + 1 ELSE count
         /\ stage' = IF m = {} /\ count < Tries THEN "try" ELSE "members"
    /\ UNCHANGED <<jamf, grants>>

\* Mutated form: empty answers are not counted.
AskForGroupUncounted ==
    /\ stage = "try"
    /\ \E m \in SUBSET Account :
         /\ GetGroupDetails(m)
         /\ answer' = m
         /\ pending' = m
         /\ stage' = IF m = {} THEN "try" ELSE "members"
    /\ UNCHANGED <<jamf, count, grants>>

\* One turn of the loop: it ends with the first answer that has members, or
\* after Tries answers without.
AskForGroup ==
    /\ stage = "try"
    /\ \E m \in SUBSET Account :
         /\ GetGroupDetails(m)
         /\ answer' = m
         /\ pending' = m
         /\ count' = IF m = {} THEN count + 1 ELSE count
         /\ stage' = IF m = {} /\ count + 1 < Tries THEN "try" ELSE "members"
    /\ UNCHANGED <<jamf, grants>>

\* The group is gone: the error of any of the tries is the error of Grants.
AskForGroupFails ==
    /\ stage = "try"
    /\ GroupNotFound
    /\ stage' = "skipped"
    /\ UNCHANGED <<jamf, blanks, cache, pending, answer, count, grants>>

\* A member's account, and its grant.
GrantMember(a) ==
    /\ stage = "members"
    /\ a \in pending
    /\ GetUserAccountDetails(a)
    /\ pending' = pending \ {a}
    /\ grants' = grants \cup {a}
    /\ UNCHANGED <<jamf, stage, answer, count>>

\* Mutated form: the error ends the loop, and what it has is returned.
GrantsFailKept(a) ==
    /\ stage = "members"
    /\ a \in pending
    /\ ~Served(a)
    /\ stage' = "granted"
    /\ pending' = {}
    /\ UNCHANGED <<jamf, blanks, cache, answer, count, grants>>

\* A member that is gone fails Grants as a whole: nothing is returned.
GrantsFail(a) ==
    /\ stage = "members"
    /\ a \in pending
    /\ ~Served(a)
    /\ stage' = "skipped"
    /\ pending' = {}
    /\ grants' = {}
    /\ UNCHANGED <<jamf, blanks, cache, answer, count>>

GrantsReturn ==
    /\ stage = "members"
    /\ pending = {}
    /\ stage' = "granted"
    /\ UNCHANGED <<jamf, blanks, cache, pending, answer, count, grants>>

-----------------------------------------------------------------------------
(* Jamf and the cache (external).                                          *)

Change(acc, here, mem) ==
    /\ changes < MaxChanges
    /\ changes' = changes + 1
    /\ accounts' = acc
    /\ present' = here
    /\ members' = mem
    /\ everMembers' = everMembers \cup mem
    /\ deleted' = deleted \cup (accounts \ acc)
    /\ populated' = (populated /\ mem # {})
    /\ UNCHANGED <<blanks, cache, call>>

Join(a) ==
    present /\ a \in accounts \ members /\ Change(accounts, present, members \cup {a})

Leave(a) == a \in members /\ Change(accounts, present, members \ {a})

CreateAccount(a) == a \notin accounts /\ Change(accounts \cup {a}, present, members)

DeleteAccount(a) == a \in accounts /\ Change(accounts \ {a}, present, members \ {a})

\* For good: its id is not given out again.
DeleteGroup == present /\ Change(accounts, FALSE, {})

\* A cached answer reaches its time to live.
GroupExpires ==
    /\ groupCache # NotCached
    /\ groupCache' = NotCached
    /\ UNCHANGED <<jamf, blanks, caching, details, call>>

DetailsExpire(a) ==
    /\ a \in details
    /\ details' = details \ {a}
    /\ UNCHANGED <<jamf, blanks, caching, groupCache, call>>

SyncStep ==
    \/ ListAccounts
    \/ \E a \in Account : ListAccount(a) \/ ListFails(a)
    \/ ListGroup
    \/ ListGroupFails
    \/ AskForGroup
    \/ AskForGroupFails
    \/ \E a \in Account : GrantMember(a) \/ GrantsFail(a)
    \/ GrantsReturn

Next ==
    \/ SyncStep
    \/ \E a \in Account :
         Join(a) \/ Leave(a) \/ CreateAccount(a) \/ DeleteAccount(a)
    \/ DeleteGroup
    \/ GroupExpires
    \/ \E a \in Account : DetailsExpire(a)

Spec == Init /\ [][Next]_vars

\* The SDK's worker is scheduled and requests end.
FairSpec == Spec /\ WF_vars(SyncStep)

-----------------------------------------------------------------------------
(* Properties.                                                             *)

\* All or nothing: Grants returns a grant for every member of the answer it
\* settled on and for nobody else, or none at all.  It is skipped only if the
\* group itself was deleted during the sync, or an account that was a member
\* of it; the group goes unlisted only if it or any account was deleted.
GrantsMatchAnswer ==
    /\ stage = "granted" => grants = answer
    /\ stage = "skipped" => grants = {} /\ (present => deleted \cap everMembers # {})
    /\ stage = "unlisted" => grants = {} /\ (present => deleted # {})

\* Nobody is granted who was not a member at some time of this sync, however
\* old the cached answers are.
GranteesWereMembers == grants \subseteq everMembers

\* "it will return the members list after 2-3 tries. (if there are any
\* members at all in that group)" (group.go:95): with fewer blank answers
\* than tries, a group that has members all the time gets grants.
MembersFound == stage = "granted" /\ populated => grants # {}

\* The same where GETs are not cached: each try is a request of its own.
MembersFoundUncached == ~caching => MembersFound

\* Grants comes to an end, whatever the endpoint leaves out and whatever is
\* deleted while it runs.
GrantsEnd == <>(stage \in {"granted", "unlisted", "skipped"})
=============================================================================
