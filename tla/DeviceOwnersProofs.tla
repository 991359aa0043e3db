------------------------- MODULE DeviceOwnersProofs -------------------------
(***************************************************************************)
(* Theorems about DeviceOwners, for any number of devices, users, workers, *)
(* syncs and restarts: the type invariant; that no grant comes without its *)
(* entitlement; that none names nobody unless the device reported white    *)
(* space only; whom the index of the first sync can name; and that grants  *)
(* follow what the sync has listed.                                        *)
(***************************************************************************)
EXTENDS DeviceOwners, Least, FiniteSetTheorems

\* What resolveUser and TrimSpace give stays within the types.
LEMMA GrantsTyped ==
    ASSUME NEW index \in Indexes, NEW o \in Owners
    PROVE  deviceGrants(index, o) \subseteq Grantees
<1> USE OwnersAssumption
<1>1. o.username \in Raw \cup {Empty} /\ o.email \in Raw \cup {Empty}
  BY DEF Owners
<1>2. \A s : lookup(index, s) \in Users \cup {NoUser}
  BY DEF lookup, keyOf, Indexes
<1>3. resolveUser(index, o) \in Users \cup {NoUser}
  BY <1>2 DEF resolveUser
<1>4. \A s \in Raw \cup {Empty} : TrimSpace(s) \in Raw \cup {Empty}
  BY DEF TrimSpace
<1> QED
  BY <1>1, <1>3, <1>4 DEF deviceGrants, Grantees

LEMMA OwnersTypeInit == Init => TypeOK
<1> SUFFICES ASSUME Init PROVE TypeOK
  OBVIOUS
<1> USE OwnersAssumption DEF Init
<1>1. NoOwner \in Owners
  BY DEF NoOwner, Owners
<1>2. assigned \in [Device -> Owners]
  OBVIOUS
<1>3. changes \in 0..MaxChanges /\ syncs \in 0..MaxSyncs /\ restarts \in 0..MaxRestarts
  OBVIOUS
<1>4. users \subseteq Users
  OBVIOUS
<1>5. deviceOwners \in [Device -> Owners] /\ listed \in [Device -> Owners]
      /\ owner \in [Worker -> Owners]
  BY <1>1 DEF Unlisted
<1>6. idx \in Indexes
  BY DEF EmptyIndex, Indexes
<1> QED
  BY <1>2, <1>3, <1>4, <1>5, <1>6 DEF TypeOK, Phases

\* What a device reports is an assignee.
LEMMA ReportTyped ==
    ASSUME NEW d \in Device, assigned[d] \in Owners
    PROVE  reported(d) \in Owners
  BY DEF reported, Owners

\* Every step keeps the types.
LEMMA OwnersTypeNext == TypeOK /\ [Next]_vars => TypeOK'
<1> SUFFICES ASSUME TypeOK, [Next]_vars PROVE TypeOK'
  OBVIOUS
<1> USE DEF TypeOK
<1>a. NoOwner \in Owners /\ EmptyIndex \in Indexes /\ Unlisted \in [Device -> Owners]
  BY DEF NoOwner, Owners, EmptyIndex, Indexes, Unlisted
<1>1. ASSUME NEW d \in Device, List(d)
      PROVE  TypeOK'
  <2>1. reported(d) \in Owners
    BY ReportTyped
  <2>2. deviceOwners' \in [Device -> Owners] /\ listed' \in [Device -> Owners]
    BY <1>1, <2>1 DEF List, recordDeviceOwner
  <2>3. todo' \subseteq Device
    BY <1>1 DEF List
  <2>4. UNCHANGED <<jamf, userIndex, calls, phase, history, entitled, granted>>
    BY <1>1 DEF List
  <2> QED
    BY <2>2, <2>3, <2>4 DEF jamf, calls, history
<1>2. ASSUME NEW d \in Device, Entitlements(d)
      PROVE  TypeOK'
  <2>1. todo' \subseteq Device /\ entitled' \subseteq Device
    BY <1>2 DEF Entitlements
  <2>2. UNCHANGED <<jamf, process, calls, phase, history, listed, granted>>
    BY <1>2 DEF Entitlements
  <2> QED
    BY <2>1, <2>2 DEF jamf, process, calls, history
<1>3. ASSUME NEW w \in Worker, NEW d \in Device, Grants(w, d)
      PROVE  TypeOK'
  <2>1. /\ stage' \in [Worker -> {"idle", "index", "build"}]
        /\ device' \in [Worker -> Device \cup {NoDevice}]
        /\ owner' \in [Worker -> Owners]
        /\ todo' \subseteq Device
    BY <1>3 DEF Grants
  <2>2. UNCHANGED <<jamf, process, queue, idx, phase, history, results>>
    BY <1>3 DEF Grants
  <2> QED
    BY <2>1, <2>2 DEF jamf, process, history, results
<1>4. ASSUME NEW w \in Worker, NEW gs, gs \subseteq Grantees, Finish(w, gs)
      PROVE  /\ stage' \in [Worker -> {"idle", "index", "build"}]
             /\ device' \in [Worker -> Device \cup {NoDevice}]
             /\ owner' \in [Worker -> Owners]
             /\ todo' \subseteq Device
             /\ granted' \in [Device -> SUBSET Grantees]
  BY <1>4, <1>a DEF Finish, Return
<1>5. ASSUME NEW w \in Worker, UseIndex(w)
      PROVE  TypeOK'
  <2>1. userIndex \in Indexes /\ owner[w] \in Owners
    BY <1>5 DEF UseIndex
  <2>2. deviceGrants(userIndex, owner[w]) \subseteq Grantees
    BY <2>1, GrantsTyped
  <2>3. Finish(w, deviceGrants(userIndex, owner[w]))
    BY <1>5 DEF UseIndex
  <2>4. UNCHANGED <<jamf, process, queue, idx, phase, history, listed, entitled>>
    BY <1>5 DEF UseIndex
  <2> QED
    BY <1>4, <2>2, <2>3, <2>4 DEF jamf, process, history
<1>6. ASSUME NEW w \in Worker, NEW us \in SUBSET Users, BuildIndex(w, us)
      PROVE  TypeOK'
  <2>1. stage' \in [Worker -> {"idle", "index", "build"}] /\ queue' \subseteq Users
    BY <1>6 DEF BuildIndex
  <2>2. UNCHANGED <<jamf, process, device, owner, idx, progress, history, results>>
    BY <1>6 DEF BuildIndex
  <2> QED
    BY <2>1, <2>2 DEF jamf, process, progress, history, results
<1>7. ASSUME NEW w \in Worker, FetchUser(w)
      PROVE  TypeOK'
  <2>1. Min(queue) \in Users
    BY <1>7 DEF FetchUser, Served
  <2>2. idx' \in Indexes /\ queue' \subseteq Users
    BY <1>7, <2>1 DEF FetchUser, indexed, Indexes
  <2>3. UNCHANGED <<jamf, process, stage, device, owner, progress, history, results>>
    BY <1>7 DEF FetchUser
  <2> QED
    BY <2>2, <2>3 DEF jamf, process, progress, history, results
<1>8. ASSUME NEW w \in Worker, FetchUserFails(w)
      PROVE  TypeOK'
  <2>1. queue' \subseteq Users /\ idx' \in Indexes
    BY <1>8, <1>a DEF FetchUserFails
  <2>2. Finish(w, {})
    BY <1>8 DEF FetchUserFails
  <2>3. UNCHANGED <<jamf, process, phase, history, listed, entitled>>
    BY <1>8 DEF FetchUserFails
  <2> QED
    BY <1>4, <2>1, <2>2, <2>3 DEF jamf, process, history
<1>9. ASSUME NEW w \in Worker, StoreIndex(w)
      PROVE  TypeOK'
  <2>1. idx \in Indexes /\ owner[w] \in Owners
    OBVIOUS
  <2>2. deviceGrants(idx, owner[w]) \subseteq Grantees
    BY <2>1, GrantsTyped
  <2>3. Finish(w, deviceGrants(idx, owner[w]))
    BY <1>9 DEF StoreIndex
  <2>4. userIndex' \in Indexes /\ idx' \in Indexes
    BY <1>9, <1>a DEF StoreIndex
  <2>5. UNCHANGED <<jamf, deviceOwners, queue, phase, history, listed, entitled>>
    BY <1>9 DEF StoreIndex
  <2> QED
    BY <1>4, <2>2, <2>3, <2>4, <2>5 DEF jamf, history
<1>10. CASE NextPhase
  <2>1. phase' \in Phases /\ todo' \subseteq Device
    BY <1>10 DEF NextPhase, Phases
  <2> QED
    BY <1>10, <2>1 DEF NextPhase, jamf, process, calls, history, results
<1>11. CASE StartSync
  <2>1. syncs' \in 0..MaxSyncs
    BY <1>11, OwnersAssumption DEF StartSync
  <2>2. /\ phase' \in Phases /\ todo' \subseteq Device
        /\ checkpoint' \in [phase : Phases, todo : SUBSET Device]
    BY <1>11 DEF StartSync, Phases
  <2>3. /\ synced' \subseteq Users /\ seen' \subseteq Users
        /\ met' \subseteq Users /\ stable' \subseteq Users
        /\ listed' \in [Device -> Owners] /\ entitled' \subseteq Device
        /\ granted' \in [Device -> SUBSET Grantees]
        /\ disturbed' \in BOOLEAN
    BY <1>11, <1>a DEF StartSync
  <2>4. UNCHANGED <<assigned, users, changes, process, calls, restarts>>
    BY <1>11 DEF StartSync
  <2> QED
    BY <2>1, <2>2, <2>3, <2>4 DEF process, calls
<1>12. CASE Checkpoint
  <2>1. checkpoint' \in [phase : Phases, todo : SUBSET Device]
    BY <1>12 DEF Checkpoint
  <2>2. UNCHANGED <<jamf, process, calls, progress, syncs, restarts, disturbed,
                    synced, results>>
    BY <1>12 DEF Checkpoint
  <2> QED
    BY <2>1, <2>2 DEF jamf, process, calls, progress, results
<1>13. CASE Restart
  <2>1. restarts' \in 0..MaxRestarts
    BY <1>13, OwnersAssumption DEF Restart
  <2>2. /\ deviceOwners' \in [Device -> Owners]
        /\ userIndex' \in Indexes \cup {NoIndex}
        /\ stage' \in [Worker -> {"idle", "index", "build"}]
        /\ device' \in [Worker -> Device \cup {NoDevice}]
        /\ owner' \in [Worker -> Owners]
        /\ queue' \subseteq Users
        /\ idx' \in Indexes
        /\ disturbed' \in BOOLEAN
    BY <1>13, <1>a DEF Restart
  <2>3. phase' \in Phases /\ todo' \subseteq Device
    BY <1>13 DEF Restart
  <2>4. UNCHANGED <<jamf, checkpoint, syncs, synced, results>>
    BY <1>13 DEF Restart
  <2> QED
    BY <2>1, <2>2, <2>3, <2>4 DEF jamf, results
<1>14. ASSUME NEW d \in Device, NEW o \in Reports, Assign(d, o)
       PROVE  TypeOK'
  <2>1. changes' \in 0..MaxChanges
    BY <1>14, OwnersAssumption DEF Assign
  <2>2. assigned' \in [Device -> Owners]
    BY <1>14, OwnersAssumption DEF Assign
  <2>3. UNCHANGED <<users, seen, met, stable, process, calls, progress, history,
                    results>>
    BY <1>14 DEF Assign
  <2> QED
    BY <2>1, <2>2, <2>3 DEF process, calls, progress, history, results
<1>15. ASSUME NEW u \in Users, ChangeUser(u)
       PROVE  TypeOK'
  <2>1. changes' \in 0..MaxChanges
    BY <1>15, OwnersAssumption DEF ChangeUser
  <2>2. /\ users' \subseteq Users /\ seen' \subseteq Users
        /\ met' \subseteq Users /\ stable' \subseteq Users
    BY <1>15 DEF ChangeUser
  <2>3. UNCHANGED <<assigned, process, calls, progress, history, results>>
    BY <1>15 DEF ChangeUser
  <2> QED
    BY <2>1, <2>2, <2>3 DEF process, calls, progress, history, results
<1>16. CASE UNCHANGED vars
  BY <1>16 DEF vars, jamf, process, calls, progress, history, results
<1>17. users \in SUBSET Users /\ synced \in SUBSET Users
  BY DEF TypeOK
<1>18. CASE ListUsers
  BY <1>18 DEF ListUsers, jamf, process, calls, progress, results
<1> QED
  BY <1>1, <1>2, <1>3, <1>5, <1>6, <1>7, <1>8, <1>9, <1>10, <1>11, <1>12,
     <1>13, <1>14, <1>15, <1>16, <1>17, <1>18 DEF Next, SyncStep, WorkerStep

\* The state always has its types.
THEOREM OwnersTypeCorrect == Spec => []TypeOK
<1> QED
  BY OwnersTypeInit, OwnersTypeNext, PTL DEF Spec

-----------------------------------------------------------------------------
(* Grants and entitlements.                                                *)

\* Entitlements has already seen every owner that Grants will see: an owner
\* on record belongs to a device that is entitled, or that Entitlements has
\* yet to be called for.
OwnersEntitled ==
    \A d \in Device : deviceOwners[d] # NoOwner =>
        \/ phase \in {"list", "done"}
        \/ phase = "entitlements" /\ d \in todo
        \/ d \in entitled

\* A call of Grants in progress runs in the phase for it, for a device that
\* is entitled and that the syncer still waits for, and for no device twice.
CallsEntitled ==
    \A w \in Worker :
        /\ device[w] # NoDevice =>
             phase = "grants" /\ device[w] \in todo \cap entitled
        /\ stage[w] # "idle" => device[w] # NoDevice
        /\ \A v \in Worker : v # w /\ device[v] = device[w] => device[w] = NoDevice

EntitlementInv ==
    TypeOK /\ OwnersEntitled /\ CallsEntitled /\ GrantHasEntitlement

LEMMA EntitlementInit == Init => EntitlementInv
<1> SUFFICES ASSUME Init PROVE EntitlementInv
  OBVIOUS
<1>1. TypeOK
  BY OwnersTypeInit
<1>2. OwnersEntitled /\ CallsEntitled /\ GrantHasEntitlement
  BY DEF Init, OwnersEntitled, CallsEntitled, GrantHasEntitlement
<1> QED
  BY <1>1, <1>2 DEF EntitlementInv

LEMMA EntitlementNext == EntitlementInv /\ [Next]_vars => EntitlementInv'
<1> SUFFICES ASSUME EntitlementInv, [Next]_vars PROVE EntitlementInv'
  OBVIOUS
<1> DEFINE Goal == OwnersEntitled /\ CallsEntitled /\ GrantHasEntitlement
<1> USE DEF EntitlementInv
<1>a. TypeOK'
  BY OwnersTypeNext
<1>b. NoDevice \notin Device
  BY OwnersAssumption
<1> SUFFICES Goal'
  BY <1>a
<1>1. ASSUME NEW d \in Device, List(d)
      PROVE  Goal'
  <2>1. phase' = "list" /\ phase = "list" /\ UNCHANGED <<stage, device, entitled, granted>>
    BY <1>1 DEF List, calls
  <2>2. OwnersEntitled'
    BY <2>1 DEF OwnersEntitled
  <2>3. CallsEntitled'
    BY <2>1 DEF CallsEntitled
  <2> QED
    BY <2>1, <2>2, <2>3 DEF GrantHasEntitlement
<1>2. ASSUME NEW d \in Device, Entitlements(d)
      PROVE  Goal'
  <2>1. /\ phase' = "entitlements" /\ phase = "entitlements"
        /\ UNCHANGED <<deviceOwners, stage, device, granted>>
        /\ todo' = todo \ {d}
        /\ entitled \subseteq entitled'
        /\ deviceOwners[d] # NoOwner => d \in entitled'
    BY <1>2 DEF Entitlements, calls, process
  <2>2. OwnersEntitled'
    BY <2>1 DEF OwnersEntitled
  <2>3. CallsEntitled'
    BY <2>1 DEF CallsEntitled
  <2> QED
    BY <2>1, <2>2, <2>3 DEF GrantHasEntitlement
<1>3. ASSUME NEW w \in Worker, NEW d \in Device, Grants(w, d)
      PROVE  Goal'
  <2>1. /\ phase' = "grants" /\ phase = "grants" /\ d \in todo
        /\ \A v \in Worker : device[v] # d
        /\ UNCHANGED <<deviceOwners, entitled, granted>>
    BY <1>3 DEF Grants, process, results
  <2>2. OwnersEntitled'
    BY <2>1 DEF OwnersEntitled
  <2>3. CallsEntitled'
    <3>1. CASE deviceOwners[d] = NoOwner /\ todo' = todo \ {d} /\ UNCHANGED <<stage, device>>
      BY <2>1, <3>1 DEF CallsEntitled
    <3>2. CASE /\ deviceOwners[d] # NoOwner
               /\ stage' = [stage EXCEPT ![w] = "index"]
               /\ device' = [device EXCEPT ![w] = d]
               /\ UNCHANGED todo
      <4>1. d \in entitled
        BY <2>1, <3>2 DEF OwnersEntitled
      <4> QED
        BY <1>b, <2>1, <3>2, <4>1 DEF CallsEntitled, TypeOK
    <3> QED
      BY <1>3, <3>1, <3>2 DEF Grants
  <2> QED
    BY <2>1, <2>2, <2>3 DEF GrantHasEntitlement
<1>4. ASSUME NEW w \in Worker, stage[w] # "idle", NEW gs, Finish(w, gs),
             UNCHANGED <<deviceOwners, phase, entitled>>
      PROVE  Goal'
  <2>1. phase = "grants" /\ device[w] \in Device /\ device[w] \in entitled
    BY <1>4 DEF CallsEntitled, TypeOK
  <2>2. OwnersEntitled'
    BY <1>4, <2>1 DEF OwnersEntitled
  <2>3. CallsEntitled'
    <3>1. device'[w] = NoDevice /\ stage'[w] = "idle"
      BY <1>4 DEF Finish, Return, TypeOK
    <3>2. ASSUME NEW v \in Worker, v # w
          PROVE  /\ stage'[v] = stage[v] /\ device'[v] = device[v]
                 /\ device[v] # NoDevice /\ device[v] # device[w]
                      => device[v] \in todo' \cap entitled'
      BY <1>4, <3>2 DEF Finish, Return, TypeOK, CallsEntitled
    <3> QED
      BY <1>4, <2>1, <3>1, <3>2 DEF CallsEntitled
  <2>4. GrantHasEntitlement'
    BY <1>4, <2>1 DEF Finish, GrantHasEntitlement, TypeOK
  <2> QED
    BY <2>2, <2>3, <2>4
<1>5. ASSUME NEW w \in Worker, UseIndex(w)
      PROVE  Goal'
  BY <1>4, <1>5 DEF UseIndex, process
<1>6. ASSUME NEW w \in Worker, StoreIndex(w)
      PROVE  Goal'
  BY <1>4, <1>6 DEF StoreIndex
<1>7. ASSUME NEW w \in Worker, NEW us \in SUBSET Users, BuildIndex(w, us)
      PROVE  Goal'
  <2>1. UNCHANGED <<deviceOwners, phase, todo, device, entitled, granted>>
    BY <1>7 DEF BuildIndex, process, progress, results
  <2>2. \A v \in Worker : stage'[v] # "idle" => stage[v] # "idle"
    BY <1>7 DEF BuildIndex, TypeOK
  <2> QED
    BY <2>1, <2>2 DEF OwnersEntitled, CallsEntitled, GrantHasEntitlement
<1>8. ASSUME NEW w \in Worker, FetchUser(w)
      PROVE  Goal'
  BY <1>8 DEF FetchUser, process, progress, results, OwnersEntitled,
     CallsEntitled, GrantHasEntitlement
<1>9. ASSUME NEW w \in Worker, FetchUserFails(w)
      PROVE  Goal'
  BY <1>4, <1>9 DEF FetchUserFails, process
<1>10. CASE NextPhase
  <2>1. /\ UNCHANGED <<deviceOwners, stage, device, entitled, granted>>
        /\ todo = {} /\ phase # "done"
    BY <1>10 DEF NextPhase, process, calls, results
  <2>2. \A w \in Worker : device[w] = NoDevice /\ stage[w] = "idle"
    BY <2>1 DEF CallsEntitled
  <2>3. OwnersEntitled'
    <3>1. CASE phase = "list"
      BY <1>10, <2>1, <3>1 DEF NextPhase, OwnersEntitled
    <3>2. CASE phase = "entitlements"
      BY <2>1, <3>2 DEF OwnersEntitled
    <3>3. CASE phase = "grants"
      BY <2>1, <3>3 DEF OwnersEntitled
    <3> QED
      BY <2>1, <3>1, <3>2, <3>3 DEF TypeOK, Phases
  <2>4. CallsEntitled'
    BY <2>1, <2>2 DEF CallsEntitled
  <2> QED
    BY <2>1, <2>3, <2>4 DEF GrantHasEntitlement
<1>11. CASE StartSync
  <2>1. /\ phase = "done" /\ phase' = "list"
        /\ UNCHANGED <<stage, device>>
        /\ granted' = [d \in Device |-> {}]
    BY <1>11 DEF StartSync, calls
  <2>2. CallsEntitled'
    BY <2>1 DEF CallsEntitled
  <2> QED
    BY <2>1, <2>2 DEF OwnersEntitled, GrantHasEntitlement
<1>12. CASE Restart
  <2>1. /\ deviceOwners' = [d \in Device |-> NoOwner]
        /\ stage' = [w \in Worker |-> "idle"]
        /\ device' = [w \in Worker |-> NoDevice]
        /\ UNCHANGED <<entitled, granted>>
    BY <1>12 DEF Restart, Unlisted, results
  <2> QED
    BY <2>1 DEF OwnersEntitled, CallsEntitled, GrantHasEntitlement
<1>13. ASSUME UNCHANGED <<deviceOwners, phase, todo, stage, device, entitled, granted>>
       PROVE  Goal'
  BY <1>13 DEF OwnersEntitled, CallsEntitled, GrantHasEntitlement
<1>14. CASE Checkpoint \/ ListUsers
  BY <1>13, <1>14 DEF Checkpoint, ListUsers, process, calls, progress, results
<1>15. ASSUME NEW d \in Device, NEW o \in Reports, Assign(d, o)
       PROVE  Goal'
  BY <1>13, <1>15 DEF Assign, process, calls, progress, results
<1>16. ASSUME NEW u \in Users, ChangeUser(u)
       PROVE  Goal'
  BY <1>13, <1>16 DEF ChangeUser, process, calls, progress, results
<1>17. CASE UNCHANGED vars
  BY <1>13, <1>17 DEF vars, process, calls, progress, results
<1>18. users \in SUBSET Users /\ synced \in SUBSET Users
  BY DEF TypeOK
<1> QED
  BY <1>1, <1>2, <1>3, <1>5, <1>6, <1>7, <1>8, <1>9, <1>10, <1>11, <1>12,
     <1>14, <1>15, <1>16, <1>17, <1>18 DEF Next, SyncStep, WorkerStep

\* However calls run in parallel, whenever the process dies and whatever it
\* resumes from, a sync never holds a grant on an entitlement it lacks.
THEOREM GrantsEntitled == Spec => []GrantHasEntitlement
<1>1. EntitlementInv => GrantHasEntitlement
  BY DEF EntitlementInv
<1> QED
  BY <1>1, EntitlementInit, EntitlementNext, PTL DEF Spec

-----------------------------------------------------------------------------
(* Whom a grant names.                                                     *)

\* What deviceGrants makes for an owner with a name that is not blank, names
\* a user or something to match.
LEMMA GrantsName ==
    ASSUME NEW index \in Indexes, NEW o \in Owners,
           NEW g \in deviceGrants(index, o), g.user = NoUser, g.match = Empty
    PROVE  keysOfOwner(g.owner) = {}
<1>1. o.username \in Raw \cup {Empty} /\ o.email \in Raw \cup {Empty}
  BY DEF Owners
<1>2. \A s \in Raw \cup {Empty} : TrimSpace(s) = Empty => keyOf(s) = NoKey
  BY OwnersAssumption DEF TrimSpace, keyOf
<1>3. g.owner = o /\ TrimSpace(o.email) = Empty /\ TrimSpace(o.username) = Empty
  BY DEF deviceGrants
<1> QED
  BY <1>1, <1>2, <1>3 DEF keysOfOwner

NamesInv == TypeOK /\ GrantNamesSomeone

LEMMA NamesNext == NamesInv /\ [Next]_vars => NamesInv'
<1> SUFFICES ASSUME NamesInv, [Next]_vars PROVE NamesInv'
  OBVIOUS
<1> USE DEF NamesInv
<1>a. TypeOK'
  BY OwnersTypeNext
<1> SUFFICES GrantNamesSomeone'
  BY <1>a
<1>1. ASSUME NEW w \in Worker, NEW gs, Finish(w, gs),
             \A g \in gs : g.user = NoUser /\ g.match = Empty
                             => keysOfOwner(g.owner) = {}
      PROVE  GrantNamesSomeone'
  <2> SUFFICES ASSUME NEW d \in Device, NEW g \in granted'[d]
               PROVE  g.user = NoUser /\ g.match = Empty
                        => keysOfOwner(g.owner) = {}
    BY DEF GrantNamesSomeone
  <2>1. g \in granted[d] \/ g \in gs
    BY <1>1 DEF Finish, TypeOK
  <2> QED
    BY <1>1, <2>1 DEF GrantNamesSomeone
<1>2. ASSUME NEW w \in Worker, UseIndex(w)
      PROVE  GrantNamesSomeone'
  <2>1. userIndex \in Indexes /\ owner[w] \in Owners
    BY <1>2 DEF UseIndex, TypeOK
  <2> QED
    BY <1>1, <1>2, <2>1, GrantsName DEF UseIndex
<1>3. ASSUME NEW w \in Worker, StoreIndex(w)
      PROVE  GrantNamesSomeone'
  <2>1. idx \in Indexes /\ owner[w] \in Owners
    BY DEF TypeOK
  <2> QED
    BY <1>1, <1>3, <2>1, GrantsName DEF StoreIndex
<1>4. ASSUME NEW w \in Worker, FetchUserFails(w)
      PROVE  GrantNamesSomeone'
  BY <1>1, <1>4 DEF FetchUserFails
<1>5. CASE StartSync
  BY <1>5 DEF StartSync, GrantNamesSomeone
<1>6. ASSUME UNCHANGED granted
      PROVE  GrantNamesSomeone'
  BY <1>6 DEF GrantNamesSomeone
<1>7. ASSUME NEW w \in Worker, WorkerStep(w)
      PROVE  GrantNamesSomeone'
  BY <1>2, <1>3, <1>4, <1>6, <1>7
     DEF WorkerStep, Grants, BuildIndex, FetchUser, results
<1>8. CASE SyncStep
  BY <1>6, <1>7, <1>8 DEF SyncStep, List, Entitlements, NextPhase, results
<1>9. CASE Checkpoint \/ ListUsers \/ Restart \/ UNCHANGED vars
  BY <1>6, <1>9 DEF Checkpoint, ListUsers, Restart, vars, results
<1>10. CASE (\E d \in Device : \E o \in Reports : Assign(d, o))
            \/ \E u \in Users : ChangeUser(u)
  BY <1>6, <1>10 DEF Assign, ChangeUser, results
<1> QED
  BY <1>5, <1>8, <1>9, <1>10 DEF Next

\* Whatever devices report, and however old the index is, a grant names a user
\* or tells the platform what to match, unless all names are white space.
THEOREM GrantsNameSomeone == Spec => []GrantNamesSomeone
<1>1. Init => NamesInv
  BY OwnersTypeInit DEF NamesInv, Init, GrantNamesSomeone
<1>2. NamesInv => GrantNamesSomeone
  BY DEF NamesInv
<1> QED
  BY <1>1, <1>2, NamesNext, PTL DEF Spec

-----------------------------------------------------------------------------
(* The index of users.                                                     *)

\* EntitlementInv holds in every state.
LEMMA EntitlementCorrect == Spec => []EntitlementInv
<1> QED
  BY EntitlementInit, EntitlementNext, PTL DEF Spec

\* One call at a time builds an index, holding d.mu; without one there is
\* nothing of an index.
OneBuilder ==
    /\ \A v, w \in Worker : stage[v] = "build" /\ stage[w] = "build" => v = w
    /\ (\A w \in Worker : stage[w] # "build") => idx = EmptyIndex /\ queue = {}

\* Users that the call, the cache or Jamf can name have existed in this sync,
\* which is no older than the index; those that have been there as long as the
\* index are on every list of it.
UsersSeen ==
    /\ seen \subseteq met
    /\ users \subseteq seen
    /\ synced \subseteq seen
    /\ queue \subseteq seen
    /\ stable \subseteq users
    /\ phase # "done" => stable \subseteq synced

BuilderInv == OneBuilder /\ UsersSeen

LEMMA BuilderInit == Init => BuilderInv
  BY DEF Init, BuilderInv, OneBuilder, UsersSeen

LEMMA BuilderNext == EntitlementInv /\ BuilderInv /\ [Next]_vars => BuilderInv'
<1> SUFFICES ASSUME EntitlementInv, BuilderInv, [Next]_vars PROVE BuilderInv'
  OBVIOUS
<1> USE DEF BuilderInv, OneBuilder, UsersSeen
<1>a. TypeOK /\ CallsEntitled
  BY DEF EntitlementInv
<1>b. \A w \in Worker : stage[w] # "idle" => phase = "grants"
  BY <1>a DEF CallsEntitled
<1>1. ASSUME UNCHANGED <<users, seen, met, stable, stage, queue, idx, phase,
                         synced>>
      PROVE  BuilderInv'
  BY <1>1
<1>2. CASE \E d \in Device : List(d) \/ Entitlements(d)
  BY <1>1, <1>2 DEF List, Entitlements, jamf, process, calls, history
<1>3. ASSUME NEW w \in Worker, NEW d \in Device, Grants(w, d)
      PROVE  BuilderInv'
  <2>1. \A v \in Worker : stage[v] # "build" /\ stage'[v] # "build"
    BY <1>3, <1>a DEF Grants, Locked, TypeOK
  <2> QED
    BY <1>3, <2>1 DEF Grants, jamf, process, history
<1>4. ASSUME NEW w \in Worker, UseIndex(w)
      PROVE  BuilderInv'
  <2>1. \A v \in Worker : stage[v] # "build" /\ stage'[v] # "build"
    BY <1>4, <1>a DEF UseIndex, Finish, Return, Locked, TypeOK
  <2> QED
    BY <1>4, <2>1 DEF UseIndex, jamf, process, history
<1>5. ASSUME NEW w \in Worker, NEW us \in {users, synced}, BuildIndex(w, us)
      PROVE  BuilderInv'
  <2>1. stage'[w] = "build" /\ \A v \in Worker : v # w => stage'[v] # "build"
    BY <1>5, <1>a DEF BuildIndex, Locked, TypeOK
  <2>2. phase = "grants"
    BY <1>5, <1>b DEF BuildIndex
  <2> QED
    BY <1>5, <2>1, <2>2 DEF BuildIndex, jamf, process, progress, history
<1>6. ASSUME NEW w \in Worker, FetchUser(w)
      PROVE  BuilderInv'
  <2>1. stage'[w] = "build" /\ queue' \subseteq queue
    BY <1>6 DEF FetchUser
  <2> QED
    BY <1>6, <2>1 DEF FetchUser, jamf, process, progress, history
<1>7. ASSUME NEW w \in Worker, FetchUserFails(w)
      PROVE  BuilderInv'
  <2>1. \A v \in Worker : stage'[v] # "build"
    BY <1>7, <1>a DEF FetchUserFails, Finish, Return, TypeOK
  <2> QED
    BY <1>7, <2>1 DEF FetchUserFails, jamf, process, history
<1>8. ASSUME NEW w \in Worker, StoreIndex(w)
      PROVE  BuilderInv'
  <2>1. \A v \in Worker : stage'[v] # "build"
    BY <1>8, <1>a DEF StoreIndex, Finish, Return, TypeOK
  <2>2. phase = "grants"
    BY <1>8, <1>b DEF StoreIndex
  <2> QED
    BY <1>8, <2>1, <2>2 DEF StoreIndex, jamf, history
<1>9. CASE NextPhase
  BY <1>9 DEF NextPhase, jamf, process, calls, history
<1>10. CASE StartSync
  <2>1. \A w \in Worker : stage[w] = "idle"
    BY <1>10, <1>b, <1>a DEF StartSync, TypeOK
  <2> QED
    BY <1>10, <2>1 DEF StartSync, process, calls
<1>16. CASE ListUsers
  BY <1>16 DEF ListUsers, jamf, calls, progress
<1>11. CASE Checkpoint
  BY <1>1, <1>11 DEF Checkpoint, jamf, process, calls, progress
<1>12. CASE Restart
  BY <1>12 DEF Restart, jamf
<1>13. CASE \E d \in Device : \E o \in Reports : Assign(d, o)
  BY <1>1, <1>13 DEF Assign, process, calls, progress, history
<1>14. ASSUME NEW u \in Users, ChangeUser(u)
       PROVE  BuilderInv'
  BY <1>14 DEF ChangeUser, process, calls, progress, history
<1>15. CASE UNCHANGED vars
  BY <1>1, <1>15 DEF vars, jamf, process, calls, progress, history
<1> QED
  BY <1>2, <1>3, <1>4, <1>5, <1>6, <1>7, <1>8, <1>9, <1>10, <1>11, <1>12,
     <1>13, <1>14, <1>15, <1>16 DEF Next, SyncStep, WorkerStep

-----------------------------------------------------------------------------
(* Whom an assignee is resolved to.                                        *)

\* What an index says is true: the user existed and goes by that key.
Sound(index) ==
    \A k \in Key : index[k] # NoUser => index[k] \in met /\ k \in KeysOf[index[k]]

\* User u has its keys in the index, or a user with a lower id has them.
Placed(index, u) == \A k \in KeysOf[u] : index[k] \in 1..u

\* The index is sound and has every user that has been there as long, and while
\* it is built it has those that are no longer queued, all of them below those
\* that are.
IndexRight ==
    /\ Sound(idx)
    /\ \A k \in Key : \A u \in queue : idx[k] < u
    /\ \A w \in Worker : stage[w] = "build" =>
         \A u \in stable : u \in queue \/ Placed(idx, u)
    /\ userIndex # NoIndex =>
         Sound(userIndex) /\ \A u \in stable : Placed(userIndex, u)

\* What was granted so far is right.
GranteesRight ==
    \A d \in Device : \A g \in granted[d] :
        /\ g.user # NoUser =>
             g.user \in met /\ KeysOf[g.user] \cap keysOfOwner(g.owner) # {}
        /\ \A u \in stable :
             keyOf(g.owner.username) \in KeysOf[u] => g.user \in 1..u

IndexInv == IndexRight /\ GranteesRight

\* What deviceGrants makes of a sound and complete index.
LEMMA GranteesFromIndex ==
    ASSUME TypeOK, NEW index \in Indexes, NEW o \in Owners, Sound(index),
           \A u \in stable : Placed(index, u), NEW g \in deviceGrants(index, o)
    PROVE  /\ g.user # NoUser =>
                g.user \in met /\ KeysOf[g.user] \cap keysOfOwner(g.owner) # {}
           /\ \A u \in stable :
                keyOf(g.owner.username) \in KeysOf[u] => g.user \in 1..u
<1>1. \A t : keyOf(t) \in Key \cup {NoKey}
  BY OwnersAssumption DEF keyOf
<1>2. g.owner = o /\ g.user = resolveUser(index, o)
  BY DEF deviceGrants
<1>3. ASSUME NEW t \in {o.username, o.email}, lookup(index, t) # NoUser
      PROVE  /\ lookup(index, t) \in met
             /\ KeysOf[lookup(index, t)] \cap keysOfOwner(o) # {}
  <2>1. keyOf(t) \in Key /\ keyOf(t) # NoKey /\ lookup(index, t) = index[keyOf(t)]
    BY <1>1, <1>3, OwnersAssumption DEF lookup
  <2>2. keyOf(t) \in keysOfOwner(o)
    BY <2>1 DEF keysOfOwner
  <2> QED
    BY <1>3, <2>1, <2>2 DEF Sound
<1>4. g.user # NoUser => \E t \in {o.username, o.email} :
                             lookup(index, t) # NoUser /\ g.user = lookup(index, t)
  BY <1>2 DEF resolveUser
<1>5. ASSUME NEW u \in stable, keyOf(o.username) \in KeysOf[u]
      PROVE  g.user \in 1..u
  <2>1. u \in Users /\ KeysOf[u] \subseteq Key /\ u \in Nat
    BY OwnersAssumption DEF TypeOK
  <2>2. keyOf(o.username) # NoKey
    BY <1>5, <2>1, OwnersAssumption
  <2>3. lookup(index, o.username) \in 1..u
    BY <1>5, <2>2 DEF lookup, Placed
  <2> QED
    BY <1>2, <2>1, <2>3 DEF resolveUser, NoUser
<1> QED
  BY <1>2, <1>3, <1>4, <1>5

LEMMA IndexInit == Init => IndexInv
<1> SUFFICES ASSUME Init PROVE IndexInv
  OBVIOUS
<1>1. Sound(idx)
  BY DEF Init, Sound, EmptyIndex
<1> QED
  BY <1>1 DEF Init, IndexInv, IndexRight, GranteesRight

\* The call that builds the index adds the user with the lowest id: its keys
\* are new or have users with lower ids.
LEMMA FetchKeepsIndex ==
    ASSUME TypeOK, BuilderInv, IndexInv, NEW w \in Worker, FetchUser(w)
    PROVE  IndexInv'
<1>1. queue \in SUBSET Nat /\ queue # {} /\ Users \subseteq Nat \ {0}
  BY OwnersAssumption DEF FetchUser, TypeOK
<1>2. PICK m \in queue : m = Min(queue) /\ \A u \in queue : m <= u
  BY <1>1, MinIsLeast
<1>3. m \in Users /\ m \in Nat \ {0} /\ m \in met
  BY <1>1, <1>2 DEF TypeOK, BuilderInv, UsersSeen
<1>4. /\ idx' = indexed(m) /\ queue' = queue \ {m}
      /\ UNCHANGED <<met, stable, stage, userIndex, granted>>
  BY <1>2 DEF FetchUser, jamf, process, history, results
<1>5. idx \in Indexes /\ stage[w] = "build" /\ stable \subseteq Users
  BY DEF FetchUser, TypeOK, BuilderInv, UsersSeen
<1>6. \A k \in Key : idx'[k] = IF k \in KeysOf[m] /\ idx[k] = NoUser THEN m ELSE idx[k]
  BY <1>4 DEF indexed
<1> SUFFICES /\ Sound(idx)'
             /\ \A k \in Key : \A u \in queue' : idx'[k] < u
             /\ \A u \in stable' : u \in queue' \/ Placed(idx, u)'
  BY <1>4 DEF IndexInv, IndexRight, GranteesRight, Sound, Placed
<1>7. Sound(idx)'
  BY <1>3, <1>4, <1>6 DEF IndexInv, IndexRight, Sound
<1>8. ASSUME NEW k \in Key
      PROVE  idx[k] \in Nat /\ idx[k] < m
  <2>1. idx[k] \in Users \/ idx[k] = 0
    BY <1>5 DEF Indexes, NoUser
  <2>2. \A u \in queue : idx[k] < u
    BY DEF IndexInv, IndexRight
  <2>3. idx[k] \in Nat
    <3>1. CASE idx[k] \in Users
      BY <1>1, <3>1
    <3>2. CASE idx[k] = 0
      BY <3>2
    <3> QED
      BY <2>1, <3>1, <3>2
  <2>4. idx[k] < m
    BY <1>2, <2>2
  <2> QED
    BY <2>3, <2>4
<1>9. ASSUME NEW k \in Key, NEW u \in queue'
      PROVE  idx'[k] < u
  <2>1. u \in Nat /\ m < u
    BY <1>1, <1>2, <1>3, <1>4
  <2> QED
    BY <1>3, <1>6, <1>8, <2>1
<1>10. ASSUME NEW u \in stable', u \notin queue'
       PROVE  Placed(idx, u)'
  <2>1. u \in stable /\ u \in Users /\ u \in Nat \ {0} /\ KeysOf[u] \subseteq Key
    BY <1>1, <1>4, <1>5, OwnersAssumption
  <2>2. CASE u = m
    <3> SUFFICES ASSUME NEW k \in KeysOf[u] PROVE idx'[k] \in 1..u
      BY DEF Placed
    <3> QED
      BY <1>3, <1>6, <1>8, <2>1, <2>2 DEF NoUser
  <2>3. CASE u # m
    <3>1. Placed(idx, u)
      BY <1>4, <1>5, <1>10, <2>1, <2>3 DEF IndexInv, IndexRight
    <3> QED
      BY <1>6, <2>1, <3>1 DEF Placed, NoUser
  <2> QED
    BY <2>2, <2>3
<1> QED
  BY <1>7, <1>9, <1>10

LEMMA IndexNext ==
    EntitlementInv /\ BuilderInv /\ IndexInv /\ [Next]_vars => IndexInv'
<1> SUFFICES ASSUME EntitlementInv, BuilderInv, IndexInv, [Next]_vars PROVE IndexInv'
  OBVIOUS
<1>a. TypeOK
  BY DEF EntitlementInv
<1>b. Users \subseteq Nat \ {0} /\ stable \subseteq Users
      /\ KeysOf \in [Users -> SUBSET Key]
  BY <1>a, OwnersAssumption DEF TypeOK
<1>c. Sound(EmptyIndex)
  BY DEF Sound, EmptyIndex
<1>d. \A k \in Key : EmptyIndex[k] = 0
  BY DEF EmptyIndex, NoUser
<1>1. ASSUME UNCHANGED <<met, stable, stage, queue, idx, userIndex, granted>>
      PROVE  IndexInv'
  BY <1>1 DEF IndexInv, IndexRight, GranteesRight, Sound, Placed
<1>2. CASE \E d \in Device : List(d) \/ Entitlements(d)
  BY <1>1, <1>2 DEF List, Entitlements, jamf, process, calls, history
<1>3. ASSUME NEW w \in Worker, NEW d \in Device, Grants(w, d)
      PROVE  IndexInv'
  <2>1. \A v \in Worker : stage'[v] # "build"
    BY <1>3, <1>a DEF Grants, Locked, TypeOK
  <2>2. UNCHANGED <<met, stable, queue, idx, userIndex, granted>>
    BY <1>3 DEF Grants, jamf, process, history, results
  <2> QED
    BY <2>1, <2>2 DEF IndexInv, IndexRight, GranteesRight, Sound, Placed
<1>4. ASSUME NEW w \in Worker, NEW gs, Finish(w, gs),
             UNCHANGED <<met, stable>>,
             \A g \in gs :
               /\ g.user # NoUser =>
                    g.user \in met /\ KeysOf[g.user] \cap keysOfOwner(g.owner) # {}
               /\ \A u \in stable :
                    keyOf(g.owner.username) \in KeysOf[u] => g.user \in 1..u
      PROVE  GranteesRight'
  <2> SUFFICES ASSUME NEW d \in Device, NEW g \in granted'[d]
               PROVE  /\ g.user # NoUser =>
                           g.user \in met /\ KeysOf[g.user] \cap keysOfOwner(g.owner) # {}
                      /\ \A u \in stable :
                           keyOf(g.owner.username) \in KeysOf[u] => g.user \in 1..u
    BY <1>4 DEF GranteesRight
  <2>1. g \in granted[d] \/ g \in gs
    BY <1>4, <1>a DEF Finish, TypeOK
  <2> QED
    BY <1>4, <2>1 DEF IndexInv, GranteesRight
<1>5. ASSUME NEW w \in Worker, UseIndex(w)
      PROVE  IndexInv'
  <2>1. userIndex \in Indexes /\ owner[w] \in Owners /\ userIndex # NoIndex
    BY <1>5, <1>a DEF UseIndex, TypeOK
  <2>2. UNCHANGED <<met, stable, queue, idx, userIndex>>
    BY <1>5 DEF UseIndex, jamf, process, history
  <2>3. Finish(w, deviceGrants(userIndex, owner[w]))
    BY <1>5 DEF UseIndex
  <2>4. GranteesRight'
    BY <1>4, <1>a, <2>1, <2>2, <2>3, GranteesFromIndex DEF IndexInv, IndexRight
  <2>5. \A v \in Worker : stage'[v] # "build"
    BY <1>5, <1>a DEF UseIndex, Finish, Return, Locked, TypeOK
  <2> QED
    BY <2>2, <2>4, <2>5 DEF IndexInv, IndexRight, Sound, Placed
<1>6. ASSUME NEW w \in Worker, NEW us \in {users, synced}, BuildIndex(w, us)
      PROVE  IndexInv'
  <2>1. \A v \in Worker : stage[v] # "build"
    BY <1>6 DEF BuildIndex, Locked
  <2>2. idx = EmptyIndex
    BY <2>1 DEF BuilderInv, OneBuilder
  <2>3. phase = "grants"
    BY <1>6, <1>a DEF BuildIndex, EntitlementInv, CallsEntitled
  <2>4. queue' = us /\ stable \subseteq us /\ us \subseteq Users
    BY <1>6, <1>a, <2>3 DEF BuildIndex, BuilderInv, UsersSeen, TypeOK
  <2>5. UNCHANGED <<met, stable, idx, userIndex, granted>>
    BY <1>6 DEF BuildIndex, jamf, process, history, results
  <2>6. \A k \in Key : \A u \in queue' : idx[k] < u
    BY <1>b, <1>d, <2>2, <2>4
  <2> QED
    BY <2>4, <2>5, <2>6 DEF IndexInv, IndexRight, GranteesRight, Sound, Placed
<1>7. ASSUME NEW w \in Worker, FetchUser(w)
      PROVE  IndexInv'
  BY <1>7, <1>a, FetchKeepsIndex
<1>8. ASSUME NEW w \in Worker, FetchUserFails(w)
      PROVE  IndexInv'
  <2>1. /\ queue' = {} /\ idx' = EmptyIndex
        /\ UNCHANGED <<met, stable, userIndex>>
    BY <1>8 DEF FetchUserFails, jamf, process, history
  <2>2. \A v \in Worker : stage'[v] # "build"
    BY <1>8, <1>a DEF FetchUserFails, Finish, Return, TypeOK, BuilderInv, OneBuilder
  <2>3. GranteesRight'
    BY <1>4, <1>8, <2>1 DEF FetchUserFails
  <2> QED
    BY <1>c, <2>1, <2>2, <2>3 DEF IndexInv, IndexRight, Sound, Placed
<1>9. ASSUME NEW w \in Worker, StoreIndex(w)
      PROVE  IndexInv'
  <2>1. /\ userIndex' = idx /\ idx' = EmptyIndex /\ queue = {} /\ queue' = {}
        /\ UNCHANGED <<met, stable>>
    BY <1>9 DEF StoreIndex, jamf, history
  <2>2. \A v \in Worker : stage'[v] # "build"
    BY <1>9, <1>a DEF StoreIndex, Finish, Return, TypeOK, BuilderInv, OneBuilder
  <2>3. idx \in Indexes /\ owner[w] \in Owners
    BY <1>a DEF TypeOK
  <2>4. Sound(idx) /\ \A u \in stable : Placed(idx, u)
    BY <1>9, <2>1 DEF StoreIndex, IndexInv, IndexRight
  <2>5. GranteesRight'
    BY <1>4, <1>9, <1>a, <2>1, <2>3, <2>4, GranteesFromIndex DEF StoreIndex
  <2> QED
    BY <1>c, <2>1, <2>2, <2>4, <2>5 DEF IndexInv, IndexRight, Sound, Placed
<1>10. CASE NextPhase
  BY <1>1, <1>10 DEF NextPhase, jamf, process, calls, history, results
<1>11. CASE StartSync
  <2>1. \A w \in Worker : stage[w] # "build"
    BY <1>11, <1>a DEF StartSync, EntitlementInv, CallsEntitled
  <2>2. idx = EmptyIndex /\ queue = {}
    BY <2>1 DEF BuilderInv, OneBuilder
  <2>3. userIndex # NoIndex => UNCHANGED <<met, stable>>
    BY <1>11 DEF StartSync
  <2>4. UNCHANGED <<stage, queue, idx, userIndex>> /\ granted' = [d \in Device |-> {}]
    BY <1>11 DEF StartSync, process, calls
  <2>5. Sound(idx)'
    BY <2>2, <2>4 DEF Sound, EmptyIndex
  <2>6. userIndex' # NoIndex =>
          Sound(userIndex)' /\ \A u \in stable' : Placed(userIndex, u)'
    BY <2>3, <2>4 DEF IndexInv, IndexRight, Sound, Placed
  <2>7. GranteesRight'
    BY <2>4 DEF GranteesRight
  <2> QED
    BY <2>1, <2>2, <2>4, <2>5, <2>6, <2>7 DEF IndexInv, IndexRight
<1>12. CASE Checkpoint \/ ListUsers
  BY <1>1, <1>12 DEF Checkpoint, ListUsers, jamf, process, calls, progress, results
<1>13. CASE Restart
  <2>1. /\ idx' = EmptyIndex /\ queue' = {} /\ userIndex' = NoIndex
        /\ stage' = [w \in Worker |-> "idle"]
        /\ UNCHANGED <<met, stable, granted>>
    BY <1>13 DEF Restart, jamf, results
  <2> QED
    BY <1>c, <2>1 DEF IndexInv, IndexRight, GranteesRight, Sound
<1>14. CASE \E d \in Device : \E o \in Reports : Assign(d, o)
  BY <1>1, <1>14 DEF Assign, process, calls, progress, history, results
<1>15. ASSUME NEW u \in Users, ChangeUser(u)
       PROVE  IndexInv'
  <2>1. /\ met \subseteq met' /\ stable' \subseteq stable
        /\ UNCHANGED <<stage, queue, idx, userIndex, granted>>
    BY <1>15 DEF ChangeUser, process, calls, progress, history, results
  <2>2. IndexRight'
    BY <2>1 DEF IndexInv, IndexRight, Sound, Placed
  <2>3. GranteesRight'
    BY <2>1 DEF IndexInv, GranteesRight
  <2> QED
    BY <2>2, <2>3 DEF IndexInv
<1>16. CASE UNCHANGED vars
  BY <1>1, <1>16 DEF vars, jamf, process, calls, progress, history, results
<1> QED
  BY <1>2, <1>3, <1>5, <1>6, <1>7, <1>8, <1>9, <1>10, <1>11, <1>12, <1>13,
     <1>14, <1>15, <1>16 DEF Next, SyncStep, WorkerStep

\* IndexInv holds in every state.
LEMMA IndexCorrect == Spec => []IndexInv
<1> QED
  BY IndexInit, IndexNext, BuilderInit, BuilderNext, EntitlementCorrect, PTL DEF Spec

\* Whoever is granted a device goes by a name of the assignee and existed since
\* the sync began that the index is from, for any users and any order in which
\* they come and go while the index is built and in the syncs that use it.
THEOREM GranteesExisted == Spec => []GranteeExisted
<1>1. IndexInv => GranteeExisted
  BY DEF IndexInv, GranteesRight, GranteeExisted
<1> QED
  BY <1>1, IndexCorrect, PTL

\* First writer wins: a user who has been there ever since that sync began loses
\* a user name of its own only to a user with a lower id.
THEOREM StableUsersKeepKeys == Spec => []StableUserGranted
<1>1. IndexInv => StableUserGranted
  BY DEF IndexInv, GranteesRight, StableUserGranted
<1> QED
  BY <1>1, IndexCorrect, PTL

-----------------------------------------------------------------------------
(* Grants follow what was listed.                                          *)

\* The outcome GrantsFollowListing promises for device d.
Followed(d) ==
    \/ /\ Cardinality(granted[d]) = 1
       /\ \A g \in granted[d] : g.owner = listed[d]
    \/ granted[d] = {} /\ seen \ users # {}

\* The device has met List, and its owner, if any, is on record.
Recorded ==
    phase # "done" => \A d \in Device :
        (phase = "list" => d \notin todo) /\ listed[d] # NoOwner
            => deviceOwners[d] = listed[d]

\* There is nothing for a device until its Grants is over, and what is
\* promised afterwards.
Answered ==
    \A d \in Device :
        /\ \/ phase \in {"list", "entitlements"}
           \/ phase = "grants" /\ d \in todo
           => granted[d] = {}
        /\ \/ phase = "done"
           \/ phase = "grants" /\ d \notin todo
           => (listed[d] # NoOwner => Followed(d))

\* A call has the owner that is on record.
CallsCurrent ==
    \A w \in Worker : stage[w] # "idle" => owner[w] = deviceOwners[device[w]]

FollowInv == ~disturbed => Recorded /\ Answered /\ CallsCurrent

\* deviceGrants makes one grant, for the owner it is given.
LEMMA OneGrant ==
    ASSUME NEW index, NEW o
    PROVE  \E g : deviceGrants(index, o) = {g} /\ g.owner = o
<1> DEFINE u == resolveUser(index, o)
           value == IF TrimSpace(o.email) # Empty THEN TrimSpace(o.email)
                    ELSE TrimSpace(o.username)
           match == IF u = NoUser THEN value ELSE Empty
           g == [owner |-> o, user |-> u, match |-> match]
<1>1. deviceGrants(index, o) = {g}
  BY DEF deviceGrants
<1>2. g.owner = o
  OBVIOUS
<1> QED
  BY <1>1, <1>2

LEMMA FollowInit == Init => FollowInv
  BY DEF Init, FollowInv, Recorded, Answered, CallsCurrent, Unlisted

LEMMA FollowNext ==
    EntitlementInv /\ BuilderInv /\ FollowInv /\ [Next]_vars => FollowInv'
<1> SUFFICES ASSUME EntitlementInv, BuilderInv, FollowInv, [Next]_vars, ~disturbed'
             PROVE  (Recorded /\ Answered /\ CallsCurrent)'
  BY DEF FollowInv
<1> DEFINE Goal == Recorded /\ Answered /\ CallsCurrent
<1> SUFFICES Goal'
  OBVIOUS
<1>a. TypeOK /\ CallsEntitled /\ NoDevice \notin Device
  BY OwnersAssumption DEF EntitlementInv
<1>b. ASSUME UNCHANGED disturbed
      PROVE  Recorded /\ Answered /\ CallsCurrent
  BY <1>b DEF FollowInv
<1>c. \A w \in Worker : stage[w] # "idle" =>
        phase = "grants" /\ device[w] \in Device /\ device[w] \in todo
  BY <1>a DEF CallsEntitled, TypeOK
<1>1. ASSUME UNCHANGED <<disturbed, users, seen, deviceOwners, stage, device, owner,
                         phase, todo, listed, granted>>
      PROVE  Goal'
  BY <1>1, <1>b DEF Recorded, Answered, CallsCurrent, Followed
<1>2. ASSUME NEW d \in Device, List(d)
      PROVE  Goal'
  <2>1. /\ phase = "list" /\ phase' = "list" /\ d \in todo /\ todo' = todo \ {d}
        /\ recordDeviceOwner(d, reported(d))
        /\ listed' = [listed EXCEPT ![d] = reported(d)]
        /\ UNCHANGED <<disturbed, stage, granted>>
    BY <1>2 DEF List, calls, history
  <2>2. Recorded /\ Answered
    BY <1>b, <2>1
  <2>3. Recorded'
    <3> SUFFICES ASSUME NEW e \in Device, e \notin todo', listed'[e] # NoOwner
                 PROVE  deviceOwners'[e] = listed'[e]
      BY <2>1 DEF Recorded
    <3>1. CASE e = d
      BY <1>a, <2>1, <3>1 DEF recordDeviceOwner, TypeOK
    <3>2. CASE e # d
      <4>1. e \notin todo /\ listed'[e] = listed[e] /\ deviceOwners'[e] = deviceOwners[e]
        BY <1>a, <2>1, <3>2 DEF recordDeviceOwner, TypeOK
      <4> QED
        BY <2>1, <2>2, <4>1 DEF Recorded
    <3> QED
      BY <3>1, <3>2
  <2>4. Answered'
    BY <2>1, <2>2 DEF Answered
  <2>5. CallsCurrent'
    BY <1>c, <2>1 DEF CallsCurrent
  <2> QED
    BY <2>3, <2>4, <2>5
<1>3. ASSUME NEW d \in Device, Entitlements(d)
      PROVE  Goal'
  <2>1. /\ phase = "entitlements" /\ phase' = "entitlements"
        /\ UNCHANGED <<disturbed, deviceOwners, stage, device, owner, listed, granted>>
    BY <1>3 DEF Entitlements, process, calls, history
  <2> QED
    BY <1>b, <2>1 DEF Recorded, Answered, CallsCurrent
<1>4. ASSUME NEW w \in Worker, NEW d \in Device, Grants(w, d)
      PROVE  Goal'
  <2>1. /\ phase = "grants" /\ phase' = "grants" /\ d \in todo
        /\ UNCHANGED <<disturbed, users, seen, deviceOwners, listed, granted>>
    BY <1>4 DEF Grants, jamf, process, history, results
  <2>2. CASE deviceOwners[d] = NoOwner /\ todo' = todo \ {d} /\ UNCHANGED <<stage, device, owner>>
    <3>1. listed[d] = NoOwner
      BY <1>b, <2>1, <2>2 DEF Recorded
    <3> QED
      BY <1>b, <2>1, <2>2, <3>1 DEF Recorded, Answered, CallsCurrent, Followed
  <2>3. CASE /\ stage' = [stage EXCEPT ![w] = "index"]
             /\ device' = [device EXCEPT ![w] = d]
             /\ owner' = [owner EXCEPT ![w] = deviceOwners[d]]
             /\ UNCHANGED todo
    <3>1. Recorded' /\ Answered'
      BY <1>b, <2>1, <2>3 DEF Recorded, Answered, Followed
    <3>2. CallsCurrent'
      BY <1>a, <1>b, <2>1, <2>3 DEF CallsCurrent, TypeOK
    <3> QED
      BY <3>1, <3>2
  <2> QED
    BY <1>4, <2>2, <2>3 DEF Grants
<1>5. ASSUME NEW w \in Worker, stage[w] # "idle", NEW gs, Finish(w, gs),
             \/ gs = {} /\ seen \ users # {}
             \/ \E g : gs = {g} /\ g.owner = owner[w],
             UNCHANGED <<disturbed, users, seen, deviceOwners, phase, listed>>
      PROVE  Goal'
  <2>1. PICK d \in Device : d = device[w] /\ d \in todo /\ phase = "grants"
    BY <1>5, <1>c
  <2>2. Recorded /\ Answered /\ CallsCurrent
    BY <1>b, <1>5
  <2>3. granted[d] = {}
    BY <2>1, <2>2 DEF Answered
  <2>4. granted' = [granted EXCEPT ![d] = gs] /\ todo' = todo \ {d}
    BY <1>5, <2>1, <2>3 DEF Finish
  <2>5. Recorded'
    BY <1>5, <2>1, <2>2 DEF Recorded
  <2>6. CallsCurrent'
    <3>1. \A v \in Worker : v # w =>
            stage'[v] = stage[v] /\ device'[v] = device[v] /\ owner'[v] = owner[v]
      BY <1>5, <1>a DEF Finish, Return, TypeOK
    <3>2. stage'[w] = "idle"
      BY <1>5, <1>a DEF Finish, Return, TypeOK
    <3> QED
      BY <1>5, <2>2, <3>1, <3>2 DEF CallsCurrent
  <2>7. Answered'
    <3>1. ASSUME NEW e \in Device, e # d
          PROVE  granted'[e] = granted[e] /\ (e \in todo' <=> e \in todo)
      BY <1>a, <2>4, <3>1 DEF TypeOK
    <3>2. granted'[d] = gs /\ d \notin todo'
      BY <1>a, <2>1, <2>4 DEF TypeOK
    <3>3. listed[d] # NoOwner => owner[w] = listed[d]
      BY <1>5, <2>1, <2>2 DEF Recorded, CallsCurrent
    <3>4. ASSUME NEW g, gs = {g}, g.owner = owner[w]
          PROVE  Cardinality(gs) = 1 /\ \A h \in gs : h.owner = owner[w]
      BY <3>4, FS_Singleton
    <3>5. listed[d] # NoOwner => Followed(d)'
      BY <1>5, <3>2, <3>3, <3>4 DEF Followed
    <3> QED
      BY <1>5, <2>1, <2>2, <3>1, <3>2, <3>5 DEF Answered, Followed
  <2> QED
    BY <2>5, <2>6, <2>7
<1>6. ASSUME NEW w \in Worker, UseIndex(w)
      PROVE  Goal'
  <2>1. \E g : deviceGrants(userIndex, owner[w]) = {g} /\ g.owner = owner[w]
    BY OneGrant
  <2> QED
    BY <1>5, <1>6, <2>1 DEF UseIndex, jamf, process, history
<1>7. ASSUME NEW w \in Worker, StoreIndex(w)
      PROVE  Goal'
  <2>1. \E g : deviceGrants(idx, owner[w]) = {g} /\ g.owner = owner[w]
    BY OneGrant
  <2> QED
    BY <1>5, <1>7, <2>1 DEF StoreIndex, jamf, history
<1>8. ASSUME NEW w \in Worker, FetchUserFails(w)
      PROVE  Goal'
  <2>1. queue \in SUBSET Nat /\ queue # {}
    BY <1>8, <1>a, OwnersAssumption DEF FetchUserFails, TypeOK
  <2>2. Min(queue) \in seen \ users
    BY <1>8, <2>1, MinIsLeast DEF FetchUserFails, BuilderInv, UsersSeen
  <2> QED
    BY <1>5, <1>8, <2>2 DEF FetchUserFails, jamf, process, history
<1>9. ASSUME NEW w \in Worker, NEW us \in {users, synced}, BuildIndex(w, us)
      PROVE  Goal'
  <2>1. UNCHANGED <<disturbed, users, seen, deviceOwners, device, owner, phase, todo,
                    listed, granted>>
    BY <1>9 DEF BuildIndex, jamf, process, progress, history, results
  <2>2. \A v \in Worker : stage'[v] # "idle" => stage[v] # "idle"
    BY <1>9, <1>a DEF BuildIndex, TypeOK
  <2> QED
    BY <1>b, <2>1, <2>2 DEF Recorded, Answered, CallsCurrent, Followed
<1>10. ASSUME NEW w \in Worker, FetchUser(w)
       PROVE  Goal'
  BY <1>1, <1>10 DEF FetchUser, jamf, process, progress, history, results
<1>11. CASE NextPhase
  <2>1. /\ UNCHANGED <<disturbed, users, seen, deviceOwners, stage, device, owner,
                       listed, granted>>
        /\ todo = {} /\ phase # "done"
    BY <1>11 DEF NextPhase, jamf, process, calls, history, results
  <2>2. Recorded /\ Answered /\ CallsCurrent
    BY <1>b, <2>1
  <2>3. CallsCurrent'
    BY <2>1, <2>2 DEF CallsCurrent
  <2>4. CASE phase = "list"
    <3>1. phase' = "entitlements"
      BY <1>11, <2>4 DEF NextPhase
    <3> QED
      BY <2>1, <2>2, <2>3, <2>4, <3>1 DEF Recorded, Answered
  <2>5. CASE phase = "entitlements"
    <3>1. phase' = "grants" /\ todo' = Device
      BY <1>11, <2>5 DEF NextPhase
    <3> QED
      BY <2>1, <2>2, <2>3, <2>5, <3>1 DEF Recorded, Answered
  <2>6. CASE phase = "grants"
    <3>1. phase' = "done"
      BY <1>11, <2>6 DEF NextPhase
    <3> QED
      BY <2>1, <2>2, <2>3, <2>6, <3>1 DEF Recorded, Answered, Followed
  <2> QED
    BY <1>a, <2>1, <2>4, <2>5, <2>6 DEF TypeOK, Phases
<1>12. CASE StartSync
  <2>1. /\ phase = "done" /\ phase' = "list" /\ todo' = Device
        /\ listed' = [d \in Device |-> NoOwner] /\ granted' = [d \in Device |-> {}]
        /\ UNCHANGED stage
    BY <1>12 DEF StartSync, Unlisted, calls
  <2> QED
    BY <1>c, <2>1 DEF Recorded, Answered, CallsCurrent
<1>13. CASE Checkpoint \/ ListUsers
  BY <1>1, <1>13 DEF Checkpoint, ListUsers, jamf, process, calls, progress, results
<1>14. CASE Restart
  BY <1>14 DEF Restart
<1>15. CASE \E d \in Device : \E o \in Reports : Assign(d, o)
  BY <1>1, <1>15 DEF Assign, process, calls, progress, history, results
<1>16. ASSUME NEW u \in Users, ChangeUser(u)
       PROVE  Goal'
  <2>1. UNCHANGED <<disturbed, deviceOwners, stage, device, owner, phase, todo,
                    listed, granted>>
    BY <1>16 DEF ChangeUser, process, calls, progress, history, results
  <2>2. seen \ users \subseteq seen' \ users'
    BY <1>16 DEF ChangeUser, BuilderInv, UsersSeen
  <2> QED
    BY <1>b, <2>1, <2>2 DEF Recorded, Answered, CallsCurrent, Followed
<1>17. CASE UNCHANGED vars
  BY <1>1, <1>17 DEF vars, jamf, process, calls, progress, history, results
<1> QED
  BY <1>2, <1>3, <1>4, <1>6, <1>7, <1>8, <1>9, <1>10, <1>11, <1>12, <1>13,
     <1>14, <1>15, <1>16, <1>17 DEF Next, SyncStep, WorkerStep

\* In every sync of a process that did not die during it, each device that
\* reported an assignee has one grant for that assignee, or none because the
\* deletion of a user failed its call.
THEOREM GrantsAsListed == Spec => []GrantsFollowListing
<1>1. FollowInv => GrantsFollowListing
  BY DEF FollowInv, Answered, Followed, GrantsFollowListing
<1> QED
  BY <1>1, FollowInit, FollowNext, BuilderInit, BuilderNext, EntitlementCorrect, PTL
     DEF Spec

=============================================================================
