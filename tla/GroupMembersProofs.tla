------------------------- MODULE GroupMembersProofs -------------------------
(***************************************************************************)
(* Theorems about GroupMembers, for any set of accounts, any number of     *)
(* tries and any number of changes and blank answers: the type invariant,  *)
(* that Grants returns all or nothing, that only members are granted, and  *)
(* that without the cache the tries find the members.                      *)
(***************************************************************************)
EXTENDS GroupMembers, TLAPS

\* The loop of Grants is entered only while there are tries left.
TriesLeft == stage \in {"list", "accounts", "try"} => count < Tries

LoopInv == TypeOK /\ TriesLeft

LEMMA LoopInit == Init => LoopInv
  BY GroupAssumption DEF Init, LoopInv, TriesLeft, TypeOK, NotCached, Stages

\* What the GET for the group leaves behind.
LEMMA GroupDetailsTyped ==
    ASSUME TypeOK, NEW m \in SUBSET Account, GetGroupDetails(m)
    PROVE  /\ blanks' \in 0..MaxBlanks
           /\ groupCache' \in [cached : BOOLEAN, members : SUBSET Account]
           /\ UNCHANGED <<caching, details>>
<1>1. CASE groupCache = Cached(m) /\ UNCHANGED <<blanks, cache>>
  BY <1>1 DEF TypeOK, cache
<1>2. CASE /\ \/ m = members /\ UNCHANGED blanks
              \/ m = {} /\ blanks < MaxBlanks /\ blanks' = blanks + 1
           /\ groupCache' = IF caching THEN Cached(m) ELSE groupCache
           /\ UNCHANGED <<caching, details>>
  <2>1. blanks' \in 0..MaxBlanks
    BY <1>2, GroupAssumption DEF TypeOK
  <2>2. Cached(m) \in [cached : BOOLEAN, members : SUBSET Account]
    BY DEF Cached
  <2> QED
    BY <1>2, <2>1, <2>2 DEF TypeOK
<1> QED
  BY <1>1, <1>2 DEF GetGroupDetails

\* A change in Jamf keeps the types.
LEMMA ChangeTyped ==
    ASSUME TypeOK, accounts' \subseteq Account, present' \in BOOLEAN,
           members' \subseteq accounts', Change(accounts', present', members')
    PROVE  TypeOK'
  BY GroupAssumption DEF TypeOK, Change, cache, call

\* The steps of Jamf.  Each is a change that leaves the members among the
\* accounts and does not bring the group back.
JamfStep ==
    \/ \E a \in Account : Join(a) \/ Leave(a) \/ CreateAccount(a) \/ DeleteAccount(a)
    \/ DeleteGroup

LEMMA JamfChanges ==
    ASSUME TypeOK, JamfStep
    PROVE  /\ Change(accounts', present', members')
           /\ accounts' \subseteq Account /\ members' \subseteq accounts'
           /\ present' \in BOOLEAN /\ (present' => present)
<1> USE DEF TypeOK
<1>1. ASSUME NEW a \in Account, Join(a) \/ Leave(a)
      PROVE  /\ Change(accounts', present', members')
             /\ accounts' = accounts /\ members' \subseteq accounts
             /\ present' = present
  BY <1>1 DEF Join, Leave, Change
<1>2. ASSUME NEW a \in Account, CreateAccount(a) \/ DeleteAccount(a)
      PROVE  /\ Change(accounts', present', members')
             /\ accounts' \subseteq Account /\ members' \subseteq accounts'
             /\ present' = present
  BY <1>2 DEF CreateAccount, DeleteAccount, Change
<1>3. CASE DeleteGroup
  BY <1>3 DEF DeleteGroup, Change
<1> QED
  BY <1>1, <1>2, <1>3 DEF JamfStep

\* Every step keeps the types, and the loop within its tries.
LEMMA LoopNext == LoopInv /\ [Next]_vars => LoopInv'
<1> SUFFICES ASSUME LoopInv, [Next]_vars PROVE LoopInv'
  OBVIOUS
<1> USE DEF LoopInv, TriesLeft
<1>1. CASE ListAccounts
  BY <1>1 DEF ListAccounts, TypeOK, Stages, jamf, cache
<1>2. ASSUME NEW a \in Account, ListAccount(a)
      PROVE  LoopInv'
  BY <1>2 DEF ListAccount, GetUserAccountDetails, TypeOK, jamf
<1>3. ASSUME NEW a \in Account, ListFails(a)
      PROVE  LoopInv'
  BY <1>3 DEF ListFails, TypeOK, Stages, jamf, cache
<1>4. CASE ListGroup
  BY <1>4, GroupDetailsTyped DEF ListGroup, TypeOK, Stages, jamf
<1>13. CASE ListGroupFails
  BY <1>13 DEF ListGroupFails, TypeOK, Stages, jamf, cache
<1>14. CASE AskForGroupFails
  BY <1>14 DEF AskForGroupFails, TypeOK, Stages, jamf, cache
<1>5. CASE AskForGroup
  <2>1. PICK m \in SUBSET Account :
          /\ GetGroupDetails(m)
          /\ answer' = m
          /\ pending' = m
          /\ count' = IF m = {} THEN count + 1 ELSE count
          /\ stage' = IF m = {} /\ count + 1 < Tries THEN "try" ELSE "members"
    BY <1>5 DEF AskForGroup
  <2>2. /\ count' \in 0..Tries /\ stage' \in Stages
        /\ stage' \in {"list", "accounts", "try"} => count' < Tries
    BY <1>5, <2>1, GroupAssumption DEF AskForGroup, TypeOK, Stages
  <2> QED
    BY <1>5, <2>1, <2>2, GroupDetailsTyped DEF AskForGroup, TypeOK, jamf
<1>6. ASSUME NEW a \in Account, GrantMember(a)
      PROVE  LoopInv'
  BY <1>6 DEF GrantMember, GetUserAccountDetails, TypeOK, jamf
<1>7. ASSUME NEW a \in Account, GrantsFail(a)
      PROVE  LoopInv'
  BY <1>7 DEF GrantsFail, TypeOK, Stages, jamf, cache
<1>8. CASE GrantsReturn
  BY <1>8 DEF GrantsReturn, TypeOK, Stages, jamf, cache
<1>9. CASE JamfStep
  <2>1. TypeOK'
    BY <1>9, JamfChanges, ChangeTyped
  <2> QED
    BY <1>9, <2>1, JamfChanges DEF Change, call
<1>10. CASE GroupExpires
  BY <1>10 DEF GroupExpires, TypeOK, NotCached, jamf, call
<1>11. ASSUME NEW a \in Account, DetailsExpire(a)
       PROVE  LoopInv'
  BY <1>11 DEF DetailsExpire, TypeOK, jamf, call
<1>12. CASE UNCHANGED vars
  BY <1>12 DEF vars, jamf, cache, call, TypeOK
<1> QED
  BY <1>1, <1>2, <1>3, <1>4, <1>5, <1>6, <1>7, <1>8, <1>9, <1>10, <1>11, <1>12,
     <1>13, <1>14 DEF Next, SyncStep, JamfStep

\* The state always has its types; in particular Grants never asks more than
\* Tries times.
THEOREM GroupTypeCorrect == Spec => []TypeOK
<1>1. LoopInv => TypeOK
  BY DEF LoopInv
<1> QED
  BY <1>1, LoopInit, LoopNext, PTL DEF Spec

-----------------------------------------------------------------------------
(* Whom Grants returns.                                                    *)

\* Whoever was a member exists or was deleted, and all that the cache and the
\* call know of the group was so at some time.
AnswersTrue ==
    /\ members \subseteq everMembers
    /\ everMembers \subseteq accounts \cup deleted
    /\ groupCache.members \subseteq everMembers
    /\ answer \subseteq everMembers

\* How far List and Grants have come.
Progress ==
    /\ stage \in {"list", "accounts", "try"} => grants = {}
    /\ stage = "accounts" => pending \subseteq accounts \cup deleted
    /\ stage = "members" => answer = grants \cup pending
    /\ grants \subseteq everMembers

MembersInv == TypeOK /\ AnswersTrue /\ Progress /\ GrantsMatchAnswer

LEMMA MembersInit == Init => MembersInv
<1> SUFFICES ASSUME Init PROVE MembersInv
  OBVIOUS
<1>1. TypeOK
  BY LoopInit DEF LoopInv
<1> QED
  BY <1>1 DEF Init, MembersInv, AnswersTrue, Progress, GrantsMatchAnswer, NotCached

\* The answer for the group was true at some time.
LEMMA GroupDetailsTrue ==
    ASSUME TypeOK, AnswersTrue, NEW m \in SUBSET Account, GetGroupDetails(m)
    PROVE  m \subseteq everMembers /\ groupCache'.members \subseteq everMembers
<1>1. Cached(m).members = m
  BY DEF Cached
<1> QED
  BY <1>1 DEF GetGroupDetails, AnswersTrue, cache

LEMMA MembersNext == MembersInv /\ TypeOK' /\ [Next]_vars => MembersInv'
<1> SUFFICES ASSUME MembersInv, TypeOK', [Next]_vars
             PROVE  (AnswersTrue /\ Progress /\ GrantsMatchAnswer)'
  BY DEF MembersInv
<1> USE DEF MembersInv, AnswersTrue, Progress, GrantsMatchAnswer
<1>1. CASE ListAccounts
  BY <1>1 DEF ListAccounts, jamf, cache
<1>2. ASSUME NEW a \in Account, ListAccount(a)
      PROVE  (AnswersTrue /\ Progress /\ GrantsMatchAnswer)'
  BY <1>2 DEF ListAccount, GetUserAccountDetails, jamf
<1>3. ASSUME NEW a \in Account, ListFails(a)
      PROVE  (AnswersTrue /\ Progress /\ GrantsMatchAnswer)'
  <2>1. a \in deleted
    BY <1>3 DEF ListFails, Served
  <2> QED
    BY <1>3, <2>1 DEF ListFails, jamf, cache
<1>4. CASE ListGroup
  BY <1>4, GroupDetailsTrue DEF ListGroup, jamf
<1>13. CASE ListGroupFails
  BY <1>13 DEF ListGroupFails, GroupNotFound, jamf, cache
<1>14. CASE AskForGroupFails
  BY <1>14 DEF AskForGroupFails, GroupNotFound, jamf, cache
<1>5. CASE AskForGroup
  <2>1. PICK m \in SUBSET Account :
          /\ GetGroupDetails(m)
          /\ answer' = m
          /\ pending' = m
          /\ stage' \in {"try", "members"}
    BY <1>5 DEF AskForGroup
  <2> QED
    BY <1>5, <2>1, GroupDetailsTrue DEF AskForGroup, jamf
<1>6. ASSUME NEW a \in Account, GrantMember(a)
      PROVE  (AnswersTrue /\ Progress /\ GrantsMatchAnswer)'
  BY <1>6 DEF GrantMember, GetUserAccountDetails, jamf
<1>7. ASSUME NEW a \in Account, GrantsFail(a)
      PROVE  (AnswersTrue /\ Progress /\ GrantsMatchAnswer)'
  <2>1. a \in deleted \cap everMembers
    BY <1>7 DEF GrantsFail, Served
  <2> QED
    BY <1>7, <2>1 DEF GrantsFail, jamf, cache
<1>8. CASE GrantsReturn
  BY <1>8 DEF GrantsReturn, jamf, cache
<1>9. CASE JamfStep
  <2>1. Change(accounts', present', members') /\ (present' => present)
    BY <1>9, JamfChanges
  <2>2. accounts \cup deleted \subseteq accounts' \cup deleted'
    BY <2>1 DEF Change
  <2>3. /\ UNCHANGED <<groupCache, stage, pending, answer, grants>>
        /\ everMembers' = everMembers \cup members'
        /\ deleted \subseteq deleted'
    BY <2>1 DEF Change, cache, call
  <2>4. members' \subseteq accounts'
    BY DEF TypeOK
  <2>5. AnswersTrue'
    BY <2>2, <2>3, <2>4
  <2>6. Progress'
    BY <2>2, <2>3
  <2>7. GrantsMatchAnswer'
    <3>1. deleted \cap everMembers # {} => deleted' \cap everMembers' # {}
      BY <2>3
    <3> QED
      BY <2>1, <2>3, <3>1
  <2> QED
    BY <2>5, <2>6, <2>7
<1>10. CASE GroupExpires
  BY <1>10 DEF GroupExpires, NotCached, jamf, call
<1>11. ASSUME NEW a \in Account, DetailsExpire(a)
       PROVE  (AnswersTrue /\ Progress /\ GrantsMatchAnswer)'
  BY <1>11 DEF DetailsExpire, jamf, call
<1>12. CASE UNCHANGED vars
  BY <1>12 DEF vars, jamf, cache, call
<1> QED
  BY <1>1, <1>2, <1>3, <1>4, <1>5, <1>6, <1>7, <1>8, <1>9, <1>10, <1>11, <1>12,
     <1>13, <1>14 DEF Next, SyncStep, JamfStep

\* MembersInv holds in every state.
LEMMA MembersCorrect == Spec => []MembersInv
<1> QED
  BY MembersInit, MembersNext, GroupTypeCorrect, PTL DEF Spec

\* Grants returns all members of its answer or fails with none, and fails only
\* when the group or an account that was a member was deleted during the sync,
\* whatever else changes.
THEOREM AllOrNothing == Spec => []GrantsMatchAnswer
<1>1. MembersInv => GrantsMatchAnswer
  BY DEF MembersInv
<1> QED
  BY <1>1, MembersCorrect, PTL

\* Nobody is granted who was not a member during the sync, although answers
\* come from the cache and members are fetched one by one.
THEOREM OnlyMembersGranted == Spec => []GranteesWereMembers
<1>1. MembersInv => GranteesWereMembers
  BY DEF MembersInv, Progress, GranteesWereMembers
<1> QED
  BY <1>1, MembersCorrect, PTL

-----------------------------------------------------------------------------
(* That the tries are enough.                                              *)

\* Without the cache each empty answer for a group with members is a blank of
\* its own, and Grants gives up only after Tries of them.
BlanksCounted ==
    /\ populated => members # {}
    /\ ~caching =>
         /\ groupCache = NotCached
         /\ populated => count <= blanks
         /\ populated /\ stage \in {"members", "granted"} =>
              answer # {} \/ count = Tries

LEMMA BlanksInit == Init => BlanksCounted
<1> SUFFICES ASSUME Init PROVE BlanksCounted
  OBVIOUS
<1>1. populated => members # {}
  BY Zenon DEF Init
<1>2. count <= blanks /\ stage = "list" /\ groupCache = NotCached
  BY DEF Init
<1> QED
  BY <1>1, <1>2 DEF BlanksCounted

LEMMA BlanksNext == LoopInv /\ BlanksCounted /\ [Next]_vars => BlanksCounted'
<1> SUFFICES ASSUME LoopInv, BlanksCounted, [Next]_vars PROVE BlanksCounted'
  OBVIOUS
<1> USE DEF LoopInv, BlanksCounted
<1>a. \A m : NotCached # Cached(m)
  BY DEF NotCached, Cached
<1>1. ASSUME NEW a \in Account,
             \/ ListAccounts \/ ListAccount(a) \/ ListFails(a)
             \/ GrantMember(a) \/ GrantsFail(a) \/ GrantsReturn
      PROVE  BlanksCounted'
  BY <1>1 DEF ListAccounts, ListAccount, ListFails, GrantMember, GrantsFail,
     GrantsReturn, GetUserAccountDetails, jamf, cache
<1>2. CASE ListGroup
  <2>1. PICK m \in SUBSET Account : GetGroupDetails(m)
    BY <1>2 DEF ListGroup
  <2>2. ~caching => groupCache' = groupCache /\ blanks' >= blanks
    BY <2>1 DEF GetGroupDetails, cache, TypeOK
  <2>3. UNCHANGED caching
    BY <2>1, GroupDetailsTyped
  <2>4. blanks \in Nat /\ count \in Nat /\ blanks' \in Nat
    BY <2>1, GroupDetailsTyped, GroupAssumption DEF TypeOK
  <2> QED
    BY <1>2, <2>2, <2>3, <2>4 DEF ListGroup, jamf
<1>3. CASE AskForGroup
  <2>1. PICK m \in SUBSET Account :
          /\ GetGroupDetails(m)
          /\ answer' = m
          /\ count' = IF m = {} THEN count + 1 ELSE count
          /\ stage' = IF m = {} /\ count + 1 < Tries THEN "try" ELSE "members"
    BY <1>3 DEF AskForGroup
  <2>2. UNCHANGED <<caching, members, populated>>
    BY <1>3, <2>1, GroupDetailsTyped DEF AskForGroup, jamf
  <2>3. blanks \in Nat /\ count \in Nat /\ blanks' \in Nat /\ Tries \in Nat /\ count < Tries
    BY <1>3, <2>1, GroupDetailsTyped, GroupAssumption DEF TypeOK, TriesLeft, AskForGroup
  <2>4. ~caching =>
          /\ groupCache' = groupCache
          /\ \/ m = members /\ blanks' = blanks
             \/ blanks' = blanks + 1
    BY <1>a, <2>1 DEF GetGroupDetails
  <2> QED
    BY <2>1, <2>2, <2>3, <2>4
<1>4. ASSUME Change(accounts', present', members')
      PROVE  BlanksCounted'
  BY <1>4 DEF Change, cache, call, TypeOK
<1>5. CASE JamfStep
  BY <1>4, <1>5, JamfChanges
<1>6. CASE GroupExpires \/ \E a \in Account : DetailsExpire(a)
  BY <1>6 DEF GroupExpires, DetailsExpire, jamf, call
<1>7. CASE UNCHANGED vars
  BY <1>7 DEF vars, jamf, cache, call
<1>8. CASE ListAccounts \/ GrantsReturn \/ ListGroupFails \/ AskForGroupFails
  BY <1>8 DEF ListAccounts, GrantsReturn, ListGroupFails, AskForGroupFails, jamf, cache
<1> QED
  BY <1>1, <1>2, <1>3, <1>5, <1>6, <1>7, <1>8 DEF Next, SyncStep, JamfStep

\* With fewer blank answers than tries and no response cache, a group that has
\* members during the whole sync gets grants: what the comment at group.go:95
\* expects of the loop.
THEOREM TriesSuffice == ASSUME MaxBlanks < Tries PROVE Spec => []MembersFoundUncached
<1>1. LoopInv /\ BlanksCounted /\ MembersInv => MembersFoundUncached
  BY GroupAssumption DEF LoopInv, BlanksCounted, MembersInv, GrantsMatchAnswer,
     MembersFoundUncached, MembersFound, TypeOK
<1> QED
  BY <1>1, LoopInit, LoopNext, BlanksInit, BlanksNext, MembersCorrect, PTL DEF Spec
=============================================================================
