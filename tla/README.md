# baton-jamf: a TLA+ model

`baton-jamf` is a connector of the Baton SDK. It synchronises users, accounts,
groups, sites, roles and devices from Jamf Pro and creates and deletes users
and console accounts there. This directory holds TLA+ modules translated from
its Go source, TLC configurations that check them on small instances, and
TLAPS proofs for every value of the parameters. `PROJECT.json` lists runs,
mutants, theorems, findings, hazards, and the source lines of every definition.

## 1. The system

| Part | Source | State | Operations |
|---|---|---|---|
| API client | `pkg/jamf/client.go` | `token`, `lastKeepAlive` (no mutex) | `doRequestWithMethod` with `keepAliveToken`, re-authentication and one retry; N+1 lists `GetUsers`, `GetAccounts`, `GetUserGroups` |
| Device client | `pkg/jamf/device_client.go` | none | one page of computers or of mobile devices |
| managedDevice | `pkg/connector/managedDevice.go` | `deviceOwners`, `userIndex` under `mu`; the page token between calls | `List`, `Entitlements`, `Grants` |
| user, userAccount | `pkg/connector/user.go`, `userAccount.go` | none of their own; Jamf and the platform keep it | `List`, `CreateAccount`, `Delete` |
| group | `pkg/connector/group.go` | none | `List`, `Grants` with its retry loop |
| userGroup, role, site | `pkg/connector/*.go` | none | `List`, `Grants` |
| Connector | `pkg/connector/connector.go` | the configured account type | `New`, `Validate`, registration of the syncers |
| Test server | `test-server/main.go` | users, accounts, ids | the repository's own mock of Jamf Pro |
| Configuration | `pkg/config/config.go` | the account type to create | read once by `New` |
| Baton SDK | `vendor/` | HTTP response cache, checkpoints | sync phases, parallel calls, tasks |

How they interact. The SDK runs the phases of a sync one after the other
(resources, entitlements, grants) and the calls of a phase in parallel; between
and beside syncs it runs provisioning tasks. All of them share one `Client`.
Every GET passes through the SDK's response cache, which a POST or a DELETE
does not invalidate; an entry goes when its time is up or when a sync ends
(`Cleanup`), and an answer that came from the cache is stored there again
(`uhttp/wrapper.go:595`), with a new time to live. The models have the memory
backend, the default, or no cache at all: the `db` backend, which has to be
asked for, does nothing on `Clear` (`uhttp/dbcache.go:477`), and what is said
below of the answers of one sync does not hold for it. A `List` or `Grants` that ends with NotFound is not made again:
the SDK takes that error for a warning and goes on without the call's results
(`isWarning` in its `pkg/sync/syncer.go`; it gives up a sync with more than ten
warnings when they are also more than a tenth of its actions, and no instance
here has that many). A process that dies is replaced by one that resumes the sync at its
last checkpoint with empty memory.

What is hard, and what has to hold:

- *Token sharing.* Goroutines read and store the token without
  synchronisation, renewals revoke tokens others hold, answers get lost. A
  write must be applied at most once and its outcome told truthfully; renewals
  must not lose the token; an expired one must be replaced.
- *Pagination.* The inventory, its count and the page size Jamf grants are not
  what `List` assumes. No device may be dropped and the listing must end.
- *Owners.* Data recorded in one phase is used in a later one, maybe after a
  crash or in a later sync. Grants must have entitlements, go to users that
  exist, and follow what this sync listed.
- *Provisioning.* `CreateAccount` is two requests with other tasks, outages and
  a cache between them. An answer must name the account of this call, a
  password the account it opens, a deletion an account that is gone.
- *Access grants.* Every role and every site reads all accounts again, by a
  list of ids and a request for each, while administrators edit and delete.
  What is listed and granted must have been so, what does not change must be
  found, and no grant may mix an account's old and new privileges.
- *Two account types.* `CreateAccount` exists for both, and only one of them may
  ever be created.
- *Group members.* An endpoint that leaves the members out, retried through a
  cache. Grants must be complete and only for members.

## 2. Modules

`RequestService` is the abstract specification of a request as its caller sees
it: it is invoked, may take effect once if it is a write, and is answered;
"ok" means that the effect happened, "unauthenticated" that it did not,
"failed" that nobody knows. Every call is answered.

`TokenClient` models `Client`. One call is a walk through `stage[w]`:

| Stage | Code | Leaves by |
|---|---|---|
| `check` | entry of `keepAliveToken` | `CheckKeepAlive` |
| `renew`, `keepAlive` | the keep-alive POST | `SendKeepAlive`; `AnswerKeepAlive`, `RefuseKeepAlive` |
| `storeToken`, `storeStamp` | the two assignments after it | `StoreRenewed`, `StampRenewed` |
| `send`, `request`, `response` | `GotoRetry` to the end | `SendRequest` or `CacheHit`; `ServeRequest`, `RefuseRequest`; `ReceiveResponse` |
| `rejected`, `mint` | the 401 branch | `HandleRejection`; `AnswerMint`, `RefuseMint` |
| `setStamp`, `setToken` | `SetBearerToken` | `StampMinted`, `StoreMinted` |

Every access of `token` is a step; while another goroutine stores the (two
word) string, a read or store may give `Garbled`. The five minutes since
`lastKeepAlive` are the Boolean `stale`. The server is external: a keep-alive
renews in place or replaces and revokes (`Renewals`), a 200 may lack the token
(`NoToken` in `Grantable`), the credentials may be refused (`RefuseMint`),
anything in flight may be lost (`LoseCall`).

`DeviceListing` models `List` of managedDevice: the page token is `phase`,
`page`, `seen`; `ListPage` is one call, `ListPageLosingToken` one whose token
is lost in a crash; `hasMorePages` and `pageSize` are the code's. Jamf enrols
and removes devices and lets `totalCount` lag (`Enroll`, `Unenroll`,
`Recount`), from the first page on. At the first page it may be too high only:
with a count that is too low there, `List` does stop before the last device,
and nothing is claimed. The initial states include a resumed token of the older
form, a page number without a count.

`DeviceOwners` models the rest of managedDevice: `List(d)` records an owner,
`Entitlements(d)` and `Grants(w, d)` read it back, `getUserIndex` is
`UseIndex`, or `BuildIndex`, `FetchUser` per user and `StoreIndex`, with the
mutex held in between (`Locked`); `FetchUserFails` is a 404 in between. Names
are model values with a normal form (`Norm`: lower case, trimmed). `List` is
split by device, so that a crash can come between two of them; where the pages
end is `DeviceListing`'s subject. `ListUsers` is the `List` of the users, which
leaves its answers in the cache (`synced`) for the index to be built from.
`met` and `stable` are history variables: the users who existed at some time,
and those who existed all the time, since the sync began that the index is
from. A user id in `met` is not given out again, as with the test server's ids.

`Provisioning` models `CreateAccount` and `Delete` of the two account types
against Jamf as the test server mocks it, under a configuration `conf` that the
process starts with (the target type, and whether GETs are cached).
`accountManagers` is the registration in `userSyncer` and `userAccountSyncer`,
`managersFor` the SDK's choice among what is registered. `StartCreate`
dispatches, validates and generates the password, `PostAccount` or `LosePost`
is step 1, `FetchCached`, `FetchAccount`, `StoreFetched` and `LoseFetch` are
step 2, `Answer` is step 3, and `Fail` is what the platform is told otherwise.
A cached GET is kept under the lower-cased name (`Lower`). "Auditor" stands for
all privilege sets but Custom. A Delete's 200 and 404 are one outcome, as for
the code. `during[w]` is a history variable: the ids that bore the name during
the call.

`AccessGrants` models one sync of the rest: `List` of users, user groups,
accounts and groups, then `Grants` of roles, sites and user groups, all of them
walks over `GetUsers`, `GetUserGroups` and `GetAccounts`. A call has base lists
to ask for (`listsOf`) and then the details of each entry; each answer is
looked up in the cache (`TakeList`, `Take`) or asked of Jamf (`AskList`, `Ask`)
and then stored (`KeepList`, `Keep`), as separate steps, so that parallel calls
can miss each other's answers, and a call can put back an answer that is older
than what another call has stored meanwhile. `NotFound` is the 404 that ends
the call.
`roleGranted`, with `matchesIndividualPrivilege` and `Contains`, and `returned`
say what the code makes of the details; `access`, `Holds` and `Facts` are the
reference for it, and `ever` and `always` collect which facts held at some time and all
the time of the sync. Sites and the names of privileges do not change, so the
`List` of sites and roles are the constants `Site` and `Roles`. (The site
entitlement declares itself grantable to users only, `site.go:61`, although
`Grants` also emits user groups, accounts and groups; the SDK does not enforce
the declaration and no property depends on it.)

`GroupMembers` models `List` (through `GetAccounts`) and `Grants` of one group
with the response cache. `AskForGroup` is one turn of the retry loop,
`GrantMember` one member's GET and grant. Accounts and the group itself can be
deleted at any time: `ListFails` and `ListGroupFails` are the 404s that leave
the group out of the sync (stage `unlisted`), `AskForGroupFails` and
`GrantsFail` those that make the SDK skip its `Grants` (stage `skipped`). One
call runs at a time, so that storing a cached answer again changes nothing.

`MC_*` modules give the constants of the `.cfg` files. `*Proofs` hold theorems,
`Least` the one fact about `Min` they share.
Definitions commented "Mutated form" are not part of the model: each is a
plausible bug that the property named with it in `PROJECT.json` must detect.

## 3. Runs

Passing runs:

| Run | Instance | Shows |
|---|---|---|
| `TokenCalls` | 2 goroutines, 3 tokens, outages, empty grants, renewal in place and by replacement, fairness | `EffectMatchesStage`: a write is applied at most once and its outcome is true. `ImplementsRequestService`: the same as a refinement of `RequestService`, every call returning included |
| `TokenRotation` | 2 goroutines, 4 tokens, rotation, every answer arrives, 1 expiry | `HeldPrivately`, `NoTokenLost`, both up to the expiry |
| `DeviceListing` | up to 3 devices per phase, any count from that up at the start, page sizes 0 (default 3) to 2, caps 1 to 2, 1 removal | `NoDeviceDropped`, `ListingEnds` |
| `Accounts` | 2 tasks, 3 names of which 2 share a cache key, 2 ids, a plain request for a userAccount, Custom and refused requests that leave the type open, outages; users with the cache, or console accounts without | `DeleteMeansGone`, `PasswordFits`, `CreatedIsReported`, `OneTypeCreated`, `FreshUncached`, `StaleAnswerSameKey` |
| `OwnersSyncs` | 2 syncs, 2 workers, 2 devices, 2 users sharing a name, 1 crash, 1 change, cache, fairness | `GrantHasEntitlement`, `GrantNamesSomeone`, `GranteeExisted`, `StableUserGranted`, `GrantsFollowListing`, `SyncCompletes` |
| `AccessSync` | 1 user, 1 user group, 2 accounts, 1 group, 1 site, 1 privilege, 2 initial worlds (an administrator and a second account; a Custom account and a Custom group), 1 change, 1 expiry, 1 or 2 workers, with and without the cache | `ResultsWereTrue`, `StableFactsFound`, `SkippedByDeletion`, `ExclusiveRoles`, `GranteesListed`; every sync ends (its only stopping place is `Done`) |
| `GroupMembers` | 3 accounts, the group, 5 tries, 4 blank answers, 2 changes, with and without the cache, fairness | `GrantsMatchAnswer`, `GranteesWereMembers`, `GrantsEnd`; without the cache `MembersFoundUncached` |

Runs that find a violation, each of a sentence in the repository's docs or
comments (quoted in `PROJECT.json`, "findings"):

| Run | What the counterexample shows |
|---|---|
| `TokenWedge` | A token that dies while the last keep-alive is older than five minutes: every call now ends in the keep-alive's 401, which does not lead to the branch that mints a token. |
| `AccountStale` | Create, delete, create within the cache's time to live: the last answer has the deleted account's id. |
| `OwnersStale` | A device unassigned between two syncs keeps its old owner in `deviceOwners`. |
| `OwnersRestart` | A sync resumed after `List` finds `deviceOwners` empty and completes without grants. |
| `GroupMembersCached` | The cache answers all five tries with the blank answer that `List` got. |

Some properties are worded around behaviour a reader should know of:

- `GranteeExisted` and `StableUserGranted` reach back to the sync that the
  index is from. `userIndex` is never reset, so a later sync of the same
  process resolves owners with the users of that one, although the comment on
  the field (`managedDevice.go:49`) says "once per sync": a grantee may be gone
  by then, but it did exist, under a name of the assignee.
- `StaleAnswerSameKey` allows what the cache key (the URL in lower case) makes
  possible: for names that differ in case only, `CreateAccount` can answer with
  the account of the other name.
- `CreatedIsReported` counts an error as a report: when the GET after the POST
  fails, the platform learns that the call failed, not that the account is
  there. It is claimed where GETs are not cached: in the history of
  `AccountStale` the new account goes unreported.
- `PasswordFits` says nothing of an account whose password nobody has: when the
  POST's answer is lost, the retried task reports "already exists" and carries
  no password (`userAccount.go:330`). It is claimed where GETs are not cached:
  the stale answer of `AccountStale` can carry a new account's password.
- `GrantNamesSomeone` excepts devices that report nothing but white space
  (`managedDevice.go:582-587` trims after the test for emptiness): these do get
  a grant whose match is empty. The instance has such names (`Blank`).
- `GranteesListed` is claimed in every setting for whoever exists during the
  whole sync. For somebody who is created or deleted meanwhile it needs the
  cache, no expiry and one worker, the SDK's default: two can ask for
  the same list at once and go on with different answers.
- `ExclusiveRoles` is claimed while the cache is on and none of its answers has
  expired: it is the cache that makes one sync see one Jamf. It
  also excludes several workers of which one had a `List` skipped. The proof
  asked for that, and TLC has the history, which takes three changes: both
  lists of accounts are asked for at once, an account is created in between,
  the call with the newer list stores it last and then fails on a deleted
  entry, and the other never fetches the new account. Its details are then
  asked for by one role and, if the answers cross with an edit, by another.

### Bounds

`MaxExpiries`, `MaxId`, `MaxDevices`, `MaxRequested`, `MaxRemovals`, `MaxCap`,
`MaxChanges`, `MaxSyncs`, `MaxRestarts` and `MaxBlanks` are named constants and
guard external events only, never a step of the connector, except that a POST
waits for a free id. They are large enough for what they are about: two
goroutines are what a race needs, and a third token lets one be revoked, one be
live and one be held; an expiry adds nothing to `TokenCalls`, where lost
answers and replacements already kill tokens at every point of a call; three
devices with pages of one or two give full, short and empty pages and more than
two pages; two ids are an account deleted and created again, beside another
name; two syncs and one restart are what it takes to meet old memory, and one
change in Jamf disturbs either of them; four blank answers are one fewer than
the tries; in `AccessSync` one change and one expiry can fall between any two of
the requests, which is what makes two calls disagree. The safety properties that are proved hold without these bounds.

`CHECK_DEADLOCK FALSE` appears where the modelled job is finite: a listing, a
number of syncs, one group's grants. The client and the provisioning tasks
never stop and are checked for deadlock; so is `AccessGrants`, whose end is the
explicit step `Done`.

### Fairness

- `TokenClient`: weak fairness of each goroutine's next step or its server's
  answer. Go schedules runnable goroutines, and a request that nobody answers
  is ended by the HTTP client's timeout, which is `LoseCall`. `BusySpec`, used
  by `TokenWedge`, adds that whoever can make a write does so again; without it
  the counterexample could be that nobody calls.
- `DeviceListing`: the SDK calls `List` until the token is empty. Nothing is
  assumed about Jamf; `totalCount` may stay wrong for ever.
- `DeviceOwners` and `GroupMembers`: weak fairness of the sync's next step. The
  SDK goes on with a sync until it is done, and a call that fails with NotFound
  is not repeated, so nothing has to be assumed about Jamf or the cache.

## 4. Proofs

All in modules of their own, for arbitrary constants that satisfy the modules'
`ASSUME`s (evaluated by TLC in the runs).

- `TokenClientProofs`. `CallInv` = `TypeOK` and `EffectMatchesStage` is
  inductive: the effect count follows from the stage, the retry is reachable
  only from a refused request. From it `TypeCorrect`, `EffectsCorrect` and
  `RefinesRequestService`: each action is `Invoke`, `TakeEffect`, `Answer` or a
  stutter under `pending <- {w : stage[w] # "idle"}`. `RotationInv` adds
  `HeldPrivately` to `NoTokenLost`: that the token a call is about to store is
  still live needs that no one else can have it replaced. `TokensKept` and
  `TokensPrivate` assume `Reliable` (no outages or empty grants, tokens replaced
  on renewal), as their run does; once a token has died of old age `NoTokenLost` claims nothing.
- `DeviceListingProofs`. `ListingInv` strengthens `NoDeviceDropped` by
  `Orderly` (the inventory is an initial segment of the ids while nobody has
  left, and `seen` never exceeds what the pages before hold) and `Fetched` (all
  earlier pages are listed). The lemmas `PageContents` and `PageEmpty` say
  which ids a page holds; the rest is arithmetic.
- `ProvisioningProofs`. `ProvisioningInv` (ids come from `lastId`, calls hold
  ids that were issued, deleted ids are issued and gone) gives
  `ProvisioningTypeCorrect`, `DeleteFinal` and `OneType`: a
  call that has passed the dispatch is for the target type. `AnswersInv`
  (ids are unique, a fetched id was noted, a cached id that still exists
  belongs to a name of that key) gives `AnswersOwnName`, and `AnswersFresh`
  when nothing is cached. `PasswordInv` (names are unique, the account a call made has the name
  the call fetches by, a password for a missing account is for an id that does
  not come back) gives `PasswordsOpen`. `CreationsReported` rests on it: the account that a call
  answers with is the one it created, or the created one is gone.
- `DeviceOwnersProofs`. `OwnersTypeCorrect`; `EntitlementInv` says that in the
  grants phase an owner on record, or read by a call, belongs to an entitled
  device, also after a restart has emptied the map. Hence `GrantsEntitled`.
  `GrantsNameSomeone` follows from `resolveUser` and the fallback from email to
  user name, for every index. `BuilderInv` (one call at a time builds the index,
  and whom it fetches was met) and `IndexInv` (the index
  names only users in `met`, under their own keys, and places everyone
  who was there throughout at its id or at a lower one that shares the key,
  which needs that users are fetched in the order of their ids) give
  `GranteesExisted` and `StableUsersKeepKeys`. `FollowInv` (unless the process
  died in this sync: what is listed is on record, a call has the owner that is
  on record, and a device that is done has its grant, or a deletion explains
  why not) gives `GrantsAsListed`.
- `GroupMembersProofs`. `LoopInv` (the loop runs only while tries are left)
  gives `GroupTypeCorrect`. `MembersInv` says that all the cache and the call
  know of the group was so at some time, and that what is granted and what is
  pending make up the answer: `AllOrNothing`, `OnlyMembersGranted`.
  `BlanksCounted` (without the cache every empty answer for a populated group
  is a blank of its own) gives `TriesSuffice`, assuming `MaxBlanks < Tries`.
- `AccessGrantsProofs`. Lemmas first: which base lists and entries a call has
  (`FamsOfCall`, `ReadsOfCall`), that `role.Grants` matches exactly the roles
  that details give (`RoleGrantedIsAccess`), that what a call returns for
  someone's details is what holds about them (`GivesFacts`), and what each step
  does to the one worker that takes it (`BeginDoes` to `ReturnDoes`). `TypeInv`
  ties what a worker holds to its stage; `ReadsInv` keeps calls and cached
  lists to their own entries. `KnowInv` says that all details in the cache or
  in a worker's hands were true once and still give every fact that has held
  all the time; that is closed under edits, which only enlarge `ever` and shrink
  `always`, and gives `OnlyTruthSynced`. `CoverInv` says that whatever a call
  has to find is in its queue, fetched, or on a list ahead of it:
  `StableFactsSynced`. `ExistInv` says that only ids that have existed are asked
  for, so that a 404 means a deletion: `SkipsExplained`.
- `AccessRolesProofs`. `PhaseInv` orders `List` before `Grants`; `CacheInv` says
  that, with the cache and before an expiry, a base list that was asked for is
  there. `AloneInv`, for one worker, says that nobody on a cached list is left
  out by a call that has passed it, and nobody else is asked for. With that, or
  with `CoverInv` for whoever has been there throughout, `GrantsFollowLists`. `OneStatePerAccount` has two halves. `RolesFrozen`: while
  no `List` of accounts was skipped, everyone on the cached list is cached or
  still queued by such a `List`, so that after them the details of accounts do
  not change and every role is granted for the cached ones. `RolesDoomed`: if
  one was skipped, with one worker the entry that could not be fetched stays on
  the cached list and cannot come back, so that no role's `Grants` returns.

With this every invariant of the passing runs is a theorem. Model-checked only
are the liveness properties `ListingEnds`, `SyncCompletes`, `GrantsEnd` and the
liveness half of `ImplementsRequestService` (fairness is outside the prover's
reach), the absence of deadlock, and the five violations.

## 5. What is not modelled

- Building resources and traits from Jamf records, timestamps, display names:
  stateless mappings of one record (`computerResource`, `mobileDeviceResource`,
  `parseJamfTime` and their helpers), with unit tests in the repository. They
  classify strings by what they contain; no state or order of events is
  involved.
- The opt-in of managedDevice, a test of two flags when the process starts, and
  `Validate`, a GET like any other of `TokenClient`.
- A sync that the SDK gives up because of too many warnings.
- Logging, flags, `main`, generated configuration.
- The SDK, other than the parts named in section 1. Jamf Pro itself: the mock in
  `test-server/` and the client's use of it are the reference, and where they
  leave Jamf's behaviour open (rotation on keep-alive, caps, lagging counts,
  blank answers) the model allows all of it.
- Jamf's treatment of letter case in account names: the mock tells names apart
  that differ in case only, and so does the model.
- The `db` backend of the response cache, see section 1.

## 6. Plan

1. Done: `RequestService`, `TokenClient`, `DeviceListing`, `Provisioning` with
   registration and dispatch, `DeviceOwners`, `GroupMembers`, `AccessGrants`,
   with the proofs above.
2. Since: group deletion, shared cache keys, failed creations and answers that
   are cached again; the properties on grantees extended to later syncs and to
   several workers.
3. Next: which of two states a role's grant can describe when cached answers
   expire.
