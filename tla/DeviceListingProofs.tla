------------------------- MODULE DeviceListingProofs -------------------------
(***************************************************************************)
(* Theorems about DeviceListing for inventories, page sizes and caps of    *)
(* any size.                                                               *)
(***************************************************************************)
EXTENDS DeviceListing, FiniteSetTheorems, TLAPS

\* A page holds at least one record and at most as many as were asked for.
LEMMA ServedPositive ==
    ASSUME TypeOK
    PROVE  /\ pageSize \in Nat \ {0}
           /\ served \in Nat \ {0}
           /\ served <= pageSize
           /\ cap >= pageSize => served = pageSize
BY ListingAssumption DEF TypeOK, pageSize, served

LEMMA CountTo == ASSUME NEW n \in Nat PROVE Cardinality(1..n) = n
<1>1. Cardinality(1..n) = IF 1 > n THEN 0 ELSE n - 1 + 1
  BY FS_Interval
<1> QED
  BY <1>1

\* Inventories are finite and no larger than the bound.
LEMMA InventoryFinite ==
    ASSUME NEW S \in SUBSET (1..MaxDevices)
    PROVE  IsFiniteSet(S) /\ Cardinality(S) \in 0..MaxDevices
<1>1. IsFiniteSet(1..MaxDevices) /\ Cardinality(1..MaxDevices) = MaxDevices
  BY FS_Interval, ListingAssumption
<1>2. IsFiniteSet(S) /\ Cardinality(S) <= Cardinality(1..MaxDevices)
  BY <1>1, FS_Subset
<1>3. Cardinality(S) \in Nat
  BY <1>2, FS_CardinalityType
<1> QED
  BY <1>1, <1>2, <1>3, ListingAssumption

\* A page beyond the last device is empty.
LEMMA PageEmpty ==
    ASSUME TypeOK, NEW p \in Phases, NEW n \in Nat, PageOf(p, n) # {}
    PROVE  n < MaxDevices
<1>1. PICK i \in inventory[p] : n * served < Rank(p, i)
  BY DEF PageOf
<1>2. Rank(p, i) \in 0..MaxDevices
  <2>1. {j \in inventory[p] : j <= i} \in SUBSET (1..MaxDevices)
    BY DEF TypeOK
  <2> QED
    BY <2>1, InventoryFinite DEF Rank
<1>3. n <= n * served
  BY ServedPositive
<1>4. n * served \in Nat
  BY ServedPositive
<1> QED
  BY <1>1, <1>2, <1>3, <1>4, ListingAssumption

\* While no device has left, device i is the i-th of its list, so page n holds
\* the ids after n * served, up to a full page or the last id.
LEMMA PageContents ==
    ASSUME TypeOK, NEW p \in Phases, NEW n \in Nat, NEW last \in Nat,
           inventory[p] = 1..last,
           NEW lo, lo = n * served
    PROVE  /\ lo \in Nat
           /\ PageOf(p, n) = {i \in 1..last : lo < i /\ i <= lo + served}
           /\ last <= lo => Cardinality(PageOf(p, n)) = 0
           /\ lo < last /\ last <= lo + served
                => Cardinality(PageOf(p, n)) = last - lo
           /\ lo + served < last => Cardinality(PageOf(p, n)) = served
<1>1. lo \in Nat /\ (n + 1) * served = lo + served /\ served \in Nat \ {0}
  BY ServedPositive
<1>2. \A i \in 1..last : Rank(p, i) = i
  <2> SUFFICES ASSUME NEW i \in 1..last PROVE Rank(p, i) = i
    OBVIOUS
  <2>1. {j \in inventory[p] : j <= i} = 1..i
    OBVIOUS
  <2>2. Cardinality(1..i) = i
    BY CountTo
  <2> QED
    BY <2>1, <2>2, Zenon DEF Rank
<1>3. PageOf(p, n) = {i \in 1..last : lo < i /\ i <= lo + served}
  BY <1>1, <1>2 DEF PageOf
<1>4. ASSUME last <= lo PROVE Cardinality(PageOf(p, n)) = 0
  <2>1. PageOf(p, n) = {}
    BY <1>1, <1>3, <1>4
  <2> QED
    BY <2>1, FS_EmptySet
<1>5. ASSUME lo < last, last <= lo + served
      PROVE  Cardinality(PageOf(p, n)) = last - lo
  <2>1. PageOf(p, n) = (lo + 1)..last
    BY <1>1, <1>3, <1>5
  <2> QED
    BY <1>1, <1>5, <2>1, FS_Interval
<1>6. ASSUME lo + served < last
      PROVE  Cardinality(PageOf(p, n)) = served
  <2>1. PageOf(p, n) = (lo + 1)..(lo + served)
    BY <1>1, <1>3, <1>6
  <2>2. lo + 1 \in Int /\ lo + served \in Int /\ ~(lo + 1 > lo + served)
    BY <1>1
  <2>3. Cardinality((lo + 1)..(lo + served)) = (lo + served) - (lo + 1) + 1
    BY <2>2, FS_Interval
  <2> QED
    BY <1>1, <2>1, <2>3
<1> QED
  BY <1>1, <1>3, <1>4, <1>5, <1>6

-----------------------------------------------------------------------------
(* The listing is complete.                                                *)

\* While no device has left: ids have no gaps, totalCount is at least the
\* count at the start, and seen never runs ahead of the pages fetched.
Orderly ==
    removals = 0 =>
        /\ seen <= page * served
        /\ \A p \in Phases :
             /\ inventory[p] = 1..lastId[p]
             /\ atStart[p] <= lastId[p]
             /\ atStart[p] <= totalCount[p]

\* The devices on the pages fetched so far are stored.
Fetched ==
    removals = 0 /\ phase \in Phases =>
        \A i \in 1..atStart[phase] : i <= page * served => i \in listed[phase]

\* The inductive invariant behind NoDeviceDropped.
ListingInv == TypeOK /\ Orderly /\ Fetched /\ NoDeviceDropped

LEMMA ListingInit == Init => ListingInv
<1> SUFFICES ASSUME Init PROVE ListingInv
  OBVIOUS
<1> USE ListingAssumption
<1>1. TypeOK
  <2>1. \A p \in Phases : 1..atStart[p] \subseteq 1..MaxDevices
    BY DEF Init, Phases
  <2> QED
    BY <2>1 DEF Init, TypeOK, Phases
<1>2. page * served \in Nat
  BY <1>1, ServedPositive DEF TypeOK
<1>3. Orderly
  BY <1>1, <1>2 DEF Init, Orderly, TypeOK
<1>4. Fetched
  BY <1>1 DEF Init, Fetched, TypeOK
<1>5. NoDeviceDropped
  BY DEF Init, NoDeviceDropped, Finished, Phases
<1> QED
  BY <1>1, <1>3, <1>4, <1>5 DEF ListingInv

\* What a step of Jamf, which leaves the sync alone, must keep.
LEMMA ServedUnchanged ==
    ASSUME UNCHANGED config
    PROVE  pageSize' = pageSize /\ served' = served /\ Countable' = Countable
BY DEF config, pageSize, served, Countable

LEMMA ListingJamfStep ==
    ASSUME ListingInv, NEW p \in Phases,
           Enroll(p) \/ (\E i \in 1..MaxDevices : Unenroll(p, i)) \/ Recount(p)
    PROVE  ListingInv'
<1> USE ListingAssumption DEF ListingInv, pageToken
<1>1. CASE Enroll(p)
  <2> USE <1>1 DEF Enroll
  <2>1. TypeOK'
    BY DEF TypeOK, config
  <2>2. served' = served /\ Countable' = Countable
    BY ServedUnchanged
  <2>3. Orderly'
    <3> SUFFICES ASSUME removals = 0, NEW q \in Phases
                 PROVE  /\ inventory'[q] = 1..lastId'[q]
                        /\ atStart[q] <= lastId'[q]
      BY <2>2 DEF Orderly, config
    <3>1. lastId[q] \in Nat /\ atStart[q] \in Nat /\ atStart[q] <= lastId[q]
      BY DEF Orderly, TypeOK
    <3>2. CASE q = p
      <4>1. lastId'[q] = lastId[q] + 1
        BY <3>2 DEF TypeOK
      <4>2. inventory'[q] = (1..lastId[q]) \cup {lastId[q] + 1}
        BY <3>2 DEF Orderly, TypeOK
      <4>3. (1..lastId[q]) \cup {lastId[q] + 1} = 1..(lastId[q] + 1)
        BY <3>1
      <4>4. atStart[q] <= lastId[q] + 1
        BY <3>1
      <4> QED
        BY <4>1, <4>2, <4>3, <4>4, Zenon
    <3>3. CASE q # p
      BY <3>1, <3>3 DEF Orderly, TypeOK
    <3> QED
      BY <3>2, <3>3
  <2>4. Fetched' /\ NoDeviceDropped'
    BY <2>2 DEF Fetched, NoDeviceDropped, Finished, config
  <2> QED
    BY <2>1, <2>3, <2>4
<1>2. ASSUME NEW i \in 1..MaxDevices, Unenroll(p, i) PROVE ListingInv'
  <2>1. removals' # 0 /\ removals' \in 0..MaxRemovals
    BY <1>2 DEF Unenroll, TypeOK
  <2>2. TypeOK'
    BY <1>2, <2>1 DEF Unenroll, TypeOK, config
  <2> QED
    BY <2>1, <2>2 DEF Orderly, Fetched, NoDeviceDropped
<1>3. CASE Recount(p)
  <2> USE <1>3 DEF Recount
  <2>1. inventory[p] \in SUBSET (1..MaxDevices)
    BY DEF TypeOK
  <2>2. Cardinality(inventory[p]) \in 0..MaxDevices
    BY <2>1, InventoryFinite
  <2>3. TypeOK'
    BY <2>2 DEF TypeOK, config
  <2>4. served' = served /\ Countable' = Countable
    BY ServedUnchanged
  <2>5. removals = 0 => Cardinality(inventory[p]) = lastId[p]
    <3>1. lastId[p] \in Nat
      BY DEF TypeOK
    <3>2. Cardinality(1..lastId[p]) = lastId[p]
      BY <3>1, CountTo
    <3> QED
      BY <3>2 DEF Orderly
  <2>6. Orderly'
    BY <2>4, <2>5 DEF Orderly, TypeOK, config
  <2>7. Fetched' /\ NoDeviceDropped'
    BY <2>4 DEF Fetched, NoDeviceDropped, Finished, config
  <2> QED
    BY <2>3, <2>6, <2>7
<1> QED
  BY <1>1, <1>2, <1>3

\* A page keeps the types: a page that is not the last one holds a device, so
\* the page number stays within the number of devices.
LEMMA ListPageType ==
    ASSUME ListingInv, ListPage \/ ListPageLosingToken
    PROVE  TypeOK'
<1> USE ListingAssumption DEF ListingInv, config, jamf, pageToken
<1> DEFINE got == Cardinality(PageOf(phase, page))
<1>1. phase \in Phases
  BY DEF ListPage, ListPageLosingToken
<1>2. PageOf(phase, page) \in SUBSET (1..MaxDevices)
  BY <1>1 DEF PageOf, TypeOK
<1>3. got \in Nat /\ (got = 0 => PageOf(phase, page) = {})
                   /\ (PageOf(phase, page) = {} => got = 0)
  BY <1>2, InventoryFinite, FS_EmptySet
<1>4. listed' \in [Phases -> SUBSET (1..MaxDevices)]
  BY <1>1, <1>2 DEF ListPage, ListPageLosingToken, TypeOK
<1>5. CASE ListPageLosingToken
  BY <1>4, <1>5 DEF ListPageLosingToken, TypeOK
<1>6. CASE ListPage
  <2>1. CASE hasMorePages(seen, pageSize, TotalOf(phase), got)
    <3>1. page < MaxDevices
      BY <1>1, <1>3, <2>1, PageEmpty DEF hasMorePages, TypeOK
    <3> HIDE DEF got
    <3>2. phase' = phase /\ page' = page + 1 /\ seen' = seen + got
      BY <1>6, <2>1 DEF ListPage, NextPageToken, got
    <3> QED
      BY <1>1, <1>3, <1>4, <1>6, <3>1, <3>2 DEF ListPage, TypeOK
  <2>2. CASE ~hasMorePages(seen, pageSize, TotalOf(phase), got)
    <3>1. phase' \in {"mobile", "done"} /\ page' = 0 /\ seen' = 0
      BY <1>6, <2>2 DEF ListPage, NextPageToken
    <3> QED
      BY <1>4, <1>6, <3>1 DEF ListPage, TypeOK, Phases
  <2> QED
    BY <2>1, <2>2
<1> QED
  BY <1>5, <1>6

\* One page, while no device has left.
LEMMA ListPageStep ==
    ASSUME ListingInv, TypeOK', ListPage \/ ListPageLosingToken, removals = 0
    PROVE  ListingInv'
<1> USE ListingAssumption DEF ListingInv
<1> DEFINE got == Cardinality(PageOf(phase, page))
           lo == page * served
           last == lastId[phase]
<1>1. phase \in Phases /\ UNCHANGED <<config, jamf>>
  BY DEF ListPage, ListPageLosingToken
<1>2. served' = served /\ Countable' = Countable /\ pageSize' = pageSize
  BY <1>1, ServedUnchanged
<1>3. /\ served \in Nat \ {0} /\ pageSize \in Nat \ {0}
      /\ served <= pageSize /\ (cap >= pageSize => served = pageSize)
  BY ServedPositive
<1>4. page \in Nat /\ seen \in Nat /\ last \in Nat
      /\ atStart[phase] \in Nat /\ totalCount[phase] \in Nat
  BY <1>1 DEF TypeOK
<1>5. /\ seen <= lo
      /\ inventory[phase] = 1..last
      /\ atStart[phase] <= last
      /\ atStart[phase] <= totalCount[phase]
  BY <1>1 DEF Orderly
<1>6. /\ lo \in Nat
      /\ PageOf(phase, page) = {i \in 1..last : lo < i /\ i <= lo + served}
      /\ last <= lo => got = 0
      /\ lo < last /\ last <= lo + served => got = last - lo
      /\ lo + served < last => got = served
  BY <1>1, <1>4, <1>5, PageContents
<1>7. \A i \in 1..atStart[phase] : i <= lo + served => i \in listed'[phase]
  <2> SUFFICES ASSUME NEW i \in 1..atStart[phase], i <= lo + served
               PROVE  i \in listed'[phase]
    OBVIOUS
  <2>1. listed'[phase] = listed[phase] \cup PageOf(phase, page)
    BY <1>1 DEF ListPage, ListPageLosingToken, TypeOK
  <2>2. CASE i <= lo
    BY <1>1, <2>1, <2>2 DEF Fetched
  <2>3. CASE lo < i
    <3>1. i \in 1..last
      BY <1>4, <1>5
    <3> QED
      BY <1>6, <2>1, <2>3, <3>1
  <2> QED
    BY <1>4, <1>6, <2>2, <2>3
<1>8. \A p \in Phases : listed[p] \subseteq listed'[p]
  BY <1>1 DEF ListPage, ListPageLosingToken, TypeOK
<1>9. ASSUME Countable, ~hasMorePages(seen, pageSize, TotalOf(phase), got)
      PROVE  1..atStart[phase] \subseteq listed'[phase]
  <2>1. atStart[phase] <= lo + served
    <3> HIDE DEF lo, last, got
    <3>1. CASE lo + served < last
      <4>1. got = served /\ got # 0
        BY <1>3, <1>6, <3>1
      <4>2. CASE TotalOf(phase) > 0
        <5>1. ~(seen + got < totalCount[phase])
          BY <1>9, <4>1, <4>2 DEF hasMorePages, TotalOf
        <5> QED
          BY <1>3, <1>4, <1>5, <1>6, <4>1, <5>1
      <4>3. CASE ~(TotalOf(phase) > 0) /\ reportsTotal
        BY <1>3, <1>4, <1>5, <1>6, <4>3 DEF TotalOf
      <4>4. CASE ~reportsTotal
        <5>1. ~(got >= pageSize)
          BY <1>9, <4>1, <4>4 DEF hasMorePages, TotalOf
        <5> QED
          BY <1>3, <1>9, <4>1, <4>4, <5>1 DEF Countable
      <4> QED
        BY <4>2, <4>3, <4>4
    <3>2. CASE ~(lo + served < last)
      BY <1>3, <1>4, <1>5, <1>6, <3>2
    <3> QED
      BY <3>1, <3>2
  <2> QED
    BY <1>3, <1>4, <1>6, <1>7, <2>1
<1>10. CASE ListPageLosingToken
  <2>1. UNCHANGED <<phase, page, seen>>
    BY <1>10 DEF ListPageLosingToken, pageToken
  <2>2. Orderly'
    BY <1>1, <1>2, <2>1 DEF Orderly, jamf, config
  <2>3. Fetched'
    BY <1>1, <1>2, <1>8, <2>1 DEF Fetched, jamf, config
  <2>4. NoDeviceDropped'
    BY <1>1, <1>2, <1>8, <2>1 DEF NoDeviceDropped, Finished, jamf, config
  <2> QED
    BY <2>2, <2>3, <2>4
<1>11. CASE ListPage /\ hasMorePages(seen, pageSize, TotalOf(phase), got)
  <2>1. phase' = phase /\ page' = page + 1 /\ seen' = seen + got
    BY <1>11 DEF ListPage, NextPageToken
  <2>2. page' * served' = lo + served
    BY <1>2, <1>3, <1>4, <2>1
  <2>3. got <= served
    <3> HIDE DEF lo, last, got
    <3> QED
      BY <1>3, <1>4, <1>6
  <2>4. Orderly'
    <3>1. seen' <= page' * served'
      <4> HIDE DEF lo, got
      <4>1. got \in Nat
        BY <1>3, <1>4, <1>6
      <4> QED
        BY <1>3, <1>4, <1>5, <1>6, <2>1, <2>2, <2>3, <4>1
    <3> QED
      BY <1>1, <3>1 DEF Orderly, jamf, config
  <2>5. Fetched'
    BY <1>1, <1>7, <2>1, <2>2 DEF Fetched, jamf, config
  <2>6. NoDeviceDropped'
    BY <1>1, <1>2, <1>8, <2>1 DEF NoDeviceDropped, Finished, jamf, config
  <2> QED
    BY <2>4, <2>5, <2>6
<1>12. CASE ListPage /\ ~hasMorePages(seen, pageSize, TotalOf(phase), got)
  <2>1. /\ phase' = IF phase = "computer" THEN "mobile" ELSE "done"
        /\ page' = 0 /\ seen' = 0
    BY <1>12 DEF ListPage, NextPageToken
  <2>2. page' * served' = 0
    BY <1>2, <1>3, <2>1
  <2>3. Orderly'
    BY <1>1, <2>1, <2>2 DEF Orderly, jamf, config
  <2>4. Fetched'
    BY <1>1, <2>1, <2>2 DEF Fetched, TypeOK
  <2>5. NoDeviceDropped'
    BY <1>1, <1>2, <1>8, <1>9, <1>12, <2>1
       DEF NoDeviceDropped, Finished, Phases, jamf, config
  <2> QED
    BY <2>3, <2>4, <2>5
<1> QED
  BY <1>10, <1>11, <1>12

LEMMA ListingStep == ListingInv /\ [Next]_vars => ListingInv'
<1> SUFFICES ASSUME ListingInv, [Next]_vars PROVE ListingInv'
  OBVIOUS
<1>1. CASE ListPage \/ ListPageLosingToken
  <2>1. TypeOK'
    BY <1>1, ListPageType
  <2>2. CASE removals = 0
    BY <1>1, <2>1, <2>2, ListPageStep
  <2>3. CASE removals # 0
    <3>1. removals' # 0
      BY <1>1, <2>3 DEF ListPage, ListPageLosingToken, jamf
    <3> QED
      BY <2>1, <3>1 DEF ListingInv, Orderly, Fetched, NoDeviceDropped
  <2> QED
    BY <2>2, <2>3
<1>2. CASE UNCHANGED vars
  BY <1>2 DEF vars, config, jamf, pageToken, ListingInv, TypeOK, Orderly,
     Fetched, NoDeviceDropped, Finished, Countable, served, pageSize
<1> QED
  BY <1>1, <1>2, ListingJamfStep DEF Next

\* The page token stays within the inventory, whatever devices come and go.
THEOREM ListingTypeCorrect == Spec => []TypeOK
<1>1. ListingInv => TypeOK
  BY DEF ListingInv
<1> QED
  BY <1>1, ListingInit, ListingStep, PTL DEF Spec

\* List drops no device, for every inventory size, page size, cap and number
\* of devices enrolled on the way.
THEOREM ListingComplete == Spec => []NoDeviceDropped
<1>1. ListingInv => NoDeviceDropped
  BY DEF ListingInv
<1> QED
  BY <1>1, ListingInit, ListingStep, PTL DEF Spec
=============================================================================
