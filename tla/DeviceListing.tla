---------------------------- MODULE DeviceListing ----------------------------
(***************************************************************************)
(* pkg/connector/managedDevice.go: List walks Jamf's two paginated         *)
(* inventories, first the computers, then the mobile devices.  Between two *)
(* calls the only memory is the page token of the SDK's pagination.Bag:    *)
(* the phase, the next page and the number of records seen so far.         *)
(*                                                                         *)
(* Jamf (external) orders devices by id, may cap the page size below the   *)
(* one asked for, may leave totalCount out of its answers, and lets        *)
(* devices come and go between two pages; its totalCount may lag behind.   *)
(* Device ids are 1, 2, ... in each phase: a new device gets the next id.  *)
(***************************************************************************)
EXTENDS Integers, FiniteSets

CONSTANTS
    MaxDevices,       \* bound: ids per phase
    MaxRequested,     \* bound: the largest page size the SDK asks for
    MaxRemovals,      \* bound: devices that leave during the listing
    DefaultPageSize,  \* defaultDevicePageSize
    MaxCap            \* bound: the largest cap on the page size

ASSUME ListingAssumption ==
    /\ MaxDevices \in Nat
    /\ MaxRequested \in Nat
    /\ MaxRemovals \in Nat
    /\ DefaultPageSize \in Nat \ {0}
    /\ MaxCap \in Nat \ {0}

Phases == {"computer", "mobile"}

VARIABLES
    requested,     \* attrs.PageToken.Size of every call of this sync
    cap,           \* the most records Jamf puts on a page
    reportsTotal,  \* whether answers carry totalCount
    atStart,       \* atStart[p]: how many devices there were at the start
    inventory,     \* inventory[p]: the ids of the devices there are
    lastId,        \* lastId[p]: the last id given out
    totalCount,    \* totalCount[p]: the count Jamf reports
    removals,      \* how many devices have left
    phase,         \* the page token: ResourceTypeID ("done": no token),
    page,          \* ... the page to fetch
    seen,          \* ... and the records seen on the pages before it
    listed         \* listed[p]: the ids of the devices the SDK has stored

config == <<requested, cap, reportsTotal, atStart>>
jamf == <<inventory, lastId, totalCount, removals>>
pageToken == <<phase, page, seen>>
vars == <<config, jamf, pageToken, listed>>

TypeOK ==
    /\ requested \in 0..MaxRequested
    /\ cap \in 1..MaxCap
    /\ reportsTotal \in BOOLEAN
    /\ atStart \in [Phases -> 0..MaxDevices]
    /\ inventory \in [Phases -> SUBSET (1..MaxDevices)]
    /\ lastId \in [Phases -> 0..MaxDevices]
    /\ totalCount \in [Phases -> 0..MaxDevices]
    /\ removals \in 0..MaxRemovals
    /\ phase \in Phases \cup {"done"}
    /\ page \in 0..MaxDevices
    /\ seen \in Nat
    /\ listed \in [Phases -> SUBSET (1..MaxDevices)]

-----------------------------------------------------------------------------
(* Helpers of List.                                                        *)

\* The page size List asks for: the SDK's, or the default.
pageSize == IF requested <= 0 THEN DefaultPageSize ELSE requested

\* Mutated form: without the guard on an empty page.
hasMorePagesUnguarded(seenBefore, size, total, gotThisPage) ==
    IF total > 0 THEN seenBefore + gotThisPage < total
    ELSE gotThisPage >= size

\* Mutated form: progress measured by full pages instead of records.
hasMorePagesByFullPage(seenBefore, size, total, gotThisPage) ==
    gotThisPage # 0 /\ gotThisPage >= size

hasMorePages(seenBefore, size, total, gotThisPage) ==
    /\ gotThisPage # 0
    /\ IF total > 0 THEN seenBefore + gotThisPage < total
       ELSE gotThisPage >= size

-----------------------------------------------------------------------------
(* Jamf's two inventory endpoints (external).                              *)

\* How many records Jamf puts on a page.
served == IF cap < pageSize THEN cap ELSE pageSize

\* The place of device i in the list of phase p, counted from 1.
Rank(p, i) == Cardinality({j \in inventory[p] : j <= i})

\* The devices on page n of phase p.
PageOf(p, n) ==
    {i \in inventory[p] : n * served < Rank(p, i)
                          /\ Rank(p, i) <= (n + 1) * served}

\* resp.TotalCount: 0 when the answer has none.
TotalOf(p) == IF reportsTotal THEN totalCount[p] ELSE 0

Enroll(p) ==
    /\ lastId[p] < MaxDevices
    /\ lastId' = [lastId EXCEPT ![p] = @ + 1]
    /\ inventory' = [inventory EXCEPT ![p] = @ \cup {lastId[p] + 1}]
    /\ UNCHANGED <<config, totalCount, removals, pageToken, listed>>

Unenroll(p, i) ==
    /\ i \in inventory[p]
    /\ removals < MaxRemovals
    /\ removals' = removals + 1
    /\ inventory' = [inventory EXCEPT ![p] = @ \ {i}]
    /\ UNCHANGED <<config, lastId, totalCount, pageToken, listed>>

\* totalCount catches up with the inventory.
Recount(p) ==
    /\ totalCount[p] # Cardinality(inventory[p])
    /\ totalCount' = [totalCount EXCEPT ![p] = Cardinality(inventory[p])]
    /\ UNCHANGED <<config, inventory, lastId, removals, pageToken, listed>>

-----------------------------------------------------------------------------
(* The sync.                                                               *)

\* Mutated form: the page token is not advanced.
NextPageTokenSticks(p, got) ==
    IF hasMorePages(seen, pageSize, TotalOf(p), got)
    THEN UNCHANGED <<phase, page, seen>>
    ELSE /\ phase' = IF p = "computer" THEN "mobile" ELSE "done"
         /\ page' = 0
         /\ seen' = 0

\* What List leaves in the bag: the next page of this phase, the first page
\* of the mobile devices, or nothing.
NextPageToken(p, got) ==
    IF hasMorePages(seen, pageSize, TotalOf(p), got)
    THEN phase' = p /\ page' = page + 1 /\ seen' = seen + got
    ELSE /\ phase' = IF p = "computer" THEN "mobile" ELSE "done"
         /\ page' = 0
         /\ seen' = 0

\* One call of List; the SDK stores the resources and keeps the new token.
ListPage ==
    /\ phase \in Phases
    /\ listed' = [listed EXCEPT ![phase] = @ \cup PageOf(phase, page)]
    /\ NextPageToken(phase, Cardinality(PageOf(phase, page)))
    /\ UNCHANGED <<config, jamf>>

\* The process ends after the resources of a page are stored and before the
\* token is: the resumed sync asks for that page again.
ListPageLosingToken ==
    /\ phase \in Phases
    /\ listed' = [listed EXCEPT ![phase] = @ \cup PageOf(phase, page)]
    /\ UNCHANGED <<config, jamf, pageToken>>

\* A sync starts with an empty token (parsed as page 0), or resumes the
\* computers at a bare page number, the older token form, whose pages are
\* stored but not counted in seen.  totalCount may still count devices that
\* have left before; one that is too low already makes List stop early.
Init ==
    /\ requested \in 0..MaxRequested
    /\ cap \in 1..MaxCap
    /\ reportsTotal \in BOOLEAN
    /\ atStart \in [Phases -> 0..MaxDevices]
    /\ inventory = [p \in Phases |-> 1..atStart[p]]
    /\ lastId = atStart
    /\ totalCount \in [Phases -> 0..MaxDevices]
    /\ \A p \in Phases : totalCount[p] >= atStart[p]
    /\ removals = 0
    /\ phase = "computer"
    /\ page \in {n \in 0..MaxDevices : n * served <= atStart["computer"]}
    /\ seen = 0
    /\ listed = [p \in Phases |->
                   {i \in 1..atStart[p] : p = "computer" /\ i <= page * served}]

Next ==
    \/ ListPage
    \/ ListPageLosingToken
    \/ \E p \in Phases :
         \/ Enroll(p)
         \/ \E i \in 1..MaxDevices : Unenroll(p, i)
         \/ Recount(p)

Spec == Init /\ [][Next]_vars

\* The SDK keeps calling List until the token is empty.
FairSpec == Spec /\ WF_vars(ListPage)

-----------------------------------------------------------------------------
(* Properties.                                                             *)

\* Jamf's answers let List tell that there is more: they carry totalCount, or
\* the page size asked for is not capped.
Countable == reportsTotal \/ cap >= pageSize

\* List's phase p is over.
Finished(p) == phase = "done" \/ (p = "computer" /\ phase = "mobile")

\* Once a phase is over, no device that was there from the start of the sync
\* to the end of it is missing, whatever the cap on the page size, however
\* many devices were enrolled meanwhile and however far totalCount lags; only
\* a device that leaves can shift another one past the page boundary.
NoDeviceDropped ==
    Countable /\ removals = 0 =>
        \A p \in Phases : Finished(p) => 1..atStart[p] \subseteq listed[p]

\* List never runs away: the listing ends even when devices leave and
\* totalCount stays too high.
ListingEnds == <>(phase = "done")
=============================================================================
