------------------------- MODULE AccessRolesProofs --------------------------
(***************************************************************************)
(* Theorems about AccessGrants with the response cache: while no answer in *)
(* it expires, the grants of all roles describe one account.  And about    *)
(* whom they go to: resources that this sync has listed.                   *)
(***************************************************************************)
EXTENDS AccessGrantsProofs, FiniteSetTheorems

-----------------------------------------------------------------------------
(* The inductive invariants.                                               *)

\* The calls of List come before those of Grants, and each returns or is
\* skipped.
Current == IF phase = "list" THEN Lists ELSE Grants

PhaseInv ==
    /\ \A w \in Worker : stage[w] # "idle" => w \in pool /\ call[w] \in Current
    /\ todo \subseteq Current
    /\ \A c \in Lists :
          \/ c \in completed \cup skipped
          \/ phase = "list" /\ (c \in todo \/ \E w \in Worker : call[w] = c)
    /\ phase = "list" => \A r \in results : r[1] \in Lists

\* With the cache, and before an answer in it expires, a base list that was
\* asked for is there.
Cached == {p \in Principal : cache[p] # NotCached}

Passed(w) == Fams(listsOf(call[w])) \ Fams(lists[w])

CacheInv ==
    caching /\ expiries = 0 =>
        /\ \A w \in Worker : stage[w] # "idle" =>
              \A f \in Passed(w) : listCache[f] # NoList
        /\ \A c \in Lists \cap (completed \cup skipped) :
              \A f \in Fams(listsOf(c)) : listCache[f] # NoList

\* With one worker besides, nobody else changes a base list, and everyone on
\* it is asked for.
Alone == caching /\ expiries = 0 /\ Cardinality(pool) = 1

Listed == UNION {listCache[f] : f \in Families}

LooksAlone(w) ==
    /\ stage[w] = "keepList" => listCache[Head(lists[w])] \in {NoList, queue[w]}
    /\ \A f \in Passed(w) :
          listCache[f] \subseteq queue[w] \cup (Fetched(w) \cap Cached)
    /\ call[w][1] # "userGroup" =>
          /\ Fetched(w) \subseteq Listed
          /\ stage[w] # "keepList" => queue[w] \subseteq Listed

AloneInv ==
    Alone =>
        /\ \A w \in Worker : stage[w] # "idle" => LooksAlone(w)
        /\ \A c \in Lists \cap completed : \A f \in Fams(listsOf(c)) :
              \A q \in listCache[f] \cap Of(c[2]) : <<c, q>> \in results
        /\ \A r \in results : r[1][1] \in {"role", "site"} => r[2] \in Listed

\* The two calls of List that ask for the accounts.
AccountLists == {<<"list", "userAccount">>, <<"list", "group">>}

\* As long as neither was skipped, whoever is on the cached list of accounts
\* is cached too, or one of the two has yet to ask.
Settling ==
    \A p \in listCache["accounts"] \cap Principal :
        \/ p \in Cached
        \/ \E w \in Worker : /\ call[w] \in AccountLists
                             /\ lists[w] = <<>>
                             /\ p \in queue[w]

\* From then on, nothing about accounts is asked for again, and what is stored
\* again is the same.
Settled(w) ==
    /\ queue[w] \cap Entries("accounts") \subseteq Cached
    /\ stage[w] = "keepList" /\ Head(lists[w]) = "accounts" =>
          queue[w] = listCache["accounts"]
    /\ \A p \in Fetched(w) \cap Entries("accounts") : p \in Cached /\ got[w][p] = cache[p]

\* A role was granted for the details that are cached.
Pinned(r) ==
    /\ r[2] \in Cached \cap Entries("accounts")
    /\ r[1][2] \in access(cache[r[2]])

Unskipped == caching /\ expiries = 0 /\ skipped \cap AccountLists = {}

RolesFrozen ==
    Unskipped =>
        /\ Settling
        /\ phase # "list" => \A w \in Worker : stage[w] # "idle" => Settled(w)
        /\ \A r \in results : r[1][1] = "role" => Pinned(r)

\* m stands on the cached list of accounts and can no longer be fetched.
Dead(m) ==
    /\ m \in listCache["accounts"]
    /\ m \in Gone
    /\ m \notin Cached
    /\ \A w \in Worker : stage[w] = "keep" => Min(queue[w]) # m

\* With one worker, a call that was skipped dooms all that ask for accounts.
RolesDoomed ==
    Alone /\ skipped \cap AccountLists # {} =>
        /\ \E m \in Principal : Dead(m)
        /\ \A r \in results : r[1][1] # "role"

RolesInv == RolesFrozen /\ RolesDoomed

-----------------------------------------------------------------------------
(* The phases of the sync.                                                 *)

LEMMA PhaseInit == Init => PhaseInv
  BY DEF Init, PhaseInv, Current

LEMMA PhaseOfWorker ==
    ASSUME TypeInv, PhaseInv, UNCHANGED sync, NEW w \in Worker, Others(w),
           call'[w] = call[w], stage[w] # "idle"
    PROVE  PhaseInv'
<1>1. \A v \in Worker : call'[v] = call[v] /\ (stage'[v] # "idle" => stage[v] # "idle")
  BY DEF Others
<1> QED
  BY <1>1 DEF PhaseInv, Current, sync

LEMMA PhaseStep == TypeInv /\ PhaseInv /\ [Next]_vars => PhaseInv'
<1> SUFFICES ASSUME TypeInv, PhaseInv, [Next]_vars
             PROVE  PhaseInv'
  OBVIOUS
<1>1. ASSUME UNCHANGED vars \/ (\E f \in Families : ListExpires(f))
               \/ (\E p \in Principal : Expires(p)) \/ \E v : Change(v)
      PROVE  PhaseInv'
  <2>1. UNCHANGED <<sync, locals>>
    BY <1>1 DEF vars, ListExpires, Expires, Change, Become
  <2> QED
    BY <2>1 DEF PhaseInv, Current, sync, locals
<1>2. CASE NextPhase
  <2>1. /\ phase # "done" /\ todo = {} /\ \A w \in Worker : stage[w] = "idle"
        /\ phase' # "list" /\ todo' \subseteq Grants
        /\ UNCHANGED <<pool, results, completed, skipped, call, stage>>
    BY <1>2, AccessAssumption DEF NextPhase, locals
  <2>2. \A w \in Worker : call[w] \notin Lists
    BY <2>1, AccessAssumption DEF TypeInv, StageRight, Calls
  <2>3. Lists \subseteq completed \cup skipped
    BY <2>1, <2>2 DEF PhaseInv
  <2> QED
    BY <2>1, <2>3 DEF PhaseInv, Current
<1>3. ASSUME NEW w \in Worker, NEW c \in Calls, Begin(w, c)
      PROVE  PhaseInv'
  <2>1. /\ Others(w) /\ w \in pool /\ c \in todo /\ todo' = todo \ {c} /\ call'[w] = c
        /\ UNCHANGED <<pool, phase, results, completed, skipped>>
    BY <1>3, BeginDoes
  <2>2. call[w] = NoCall /\ NoCall \notin Lists
    BY <1>3, BeginDoes, AccessAssumption DEF TypeInv, StageRight, Calls
  <2>3. \A v \in Worker : stage'[v] # "idle" => v \in pool /\ call'[v] \in Current
    BY <2>1 DEF PhaseInv, Others
  <2>4. ASSUME NEW b \in Lists, b \notin completed \cup skipped
        PROVE  phase = "list" /\ (b \in todo' \/ \E v \in Worker : call'[v] = b)
    <3>1. CASE b = c
      BY <2>1, <2>4, <3>1 DEF PhaseInv
    <3>2. CASE b # c
      BY <2>1, <2>2, <2>4, <3>2 DEF PhaseInv, Others
    <3> QED
      BY <3>1, <3>2
  <2> QED
    BY <2>1, <2>3, <2>4 DEF PhaseInv, Current
<1>4. ASSUME NEW w \in Worker, TakeList(w)
      PROVE  PhaseInv'
  BY <1>4, TakeListDoes, PhaseOfWorker
<1>5. ASSUME NEW w \in Worker, AskList(w)
      PROVE  PhaseInv'
  BY <1>5, AskListDoes, PhaseOfWorker
<1>6. ASSUME NEW w \in Worker, KeepList(w)
      PROVE  PhaseInv'
  BY <1>6, KeepListDoes, PhaseOfWorker
<1>7. ASSUME NEW w \in Worker, NEW p \in Principal, Take(w, p)
      PROVE  PhaseInv'
  BY <1>7, TakeDoes, PhaseOfWorker
<1>8. ASSUME NEW w \in Worker, NEW p \in Principal, Ask(w, p)
      PROVE  PhaseInv'
  BY <1>8, AskDoes, PhaseOfWorker
<1>9. ASSUME NEW w \in Worker, Keep(w)
      PROVE  PhaseInv'
  BY <1>9, KeepDoes, PhaseOfWorker
<1>10. ASSUME NEW w \in Worker, End(w), stage[w] # "idle",
              completed' \cup skipped' = completed \cup skipped \cup {call[w]},
              \A r \in results' \ results : r[1] = call[w]
       PROVE  PhaseInv'
  <2>1. Others(w) /\ stage'[w] = "idle" /\ UNCHANGED <<pool, phase, todo>>
    BY <1>10, EndDoes
  <2>2. \A v \in Worker : stage'[v] # "idle" => v \in pool /\ call'[v] \in Current
    BY <2>1 DEF PhaseInv, Others
  <2>3. ASSUME NEW b \in Lists, b \notin completed' \cup skipped'
        PROVE  phase = "list" /\ (b \in todo \/ \E v \in Worker : call'[v] = b)
    BY <1>10, <2>1, <2>3 DEF PhaseInv, Others
  <2>4. phase = "list" => \A r \in results' : r[1] \in Lists
    BY <1>10 DEF PhaseInv, Current
  <2> QED
    BY <2>1, <2>2, <2>3, <2>4 DEF PhaseInv, Current
<1>11. ASSUME NEW w \in Worker, NEW p \in Principal, NotFound(w, p)
       PROVE  PhaseInv'
  BY <1>10, <1>11, NotFoundDoes
<1>12. ASSUME NEW w \in Worker, Return(w)
       PROVE  PhaseInv'
  <2>1. \A r \in results' \ results : r[1] = call[w]
    BY <1>12, ReturnDoes
  <2> QED
    BY <1>10, <1>12, <2>1, ReturnDoes
<1> QED
  BY <1>1, <1>2, <1>3, <1>4, <1>5, <1>6, <1>7, <1>8, <1>9, <1>11, <1>12, Steps DEF TypeInv

\* One worker runs one call at a time.
LEMMA OneRuns ==
    ASSUME TypeInv, PhaseInv, Cardinality(pool) = 1,
           NEW v \in Worker, stage[v] # "idle", NEW w \in Worker, stage[w] # "idle"
    PROVE  v = w
<1>1. v \in pool /\ w \in pool /\ IsFiniteSet(pool)
  BY AccessAssumption DEF PhaseInv, TypeInv, TypeOK
<1>2. \E x : pool = {x}
  BY <1>1, FS_Singleton
<1> QED
  BY <1>1, <1>2

-----------------------------------------------------------------------------
(* A base list that was asked for is in the cache.                         *)

LEMMA CacheInit == Init => CacheInv
  BY DEF Init, CacheInv

\* The base list of a call of List is behind it when it has entries to fetch.
LEMMA PassedByList ==
    ASSUME TypeInv, ReadsInv, NEW w \in Worker, stage[w] = "ask", call[w] \in Lists,
           queue[w] # {} \/ lists[w] = <<>>
    PROVE  lists[w] = <<>> /\ Passed(w) = Fams(listsOf(call[w]))
<1>1. lists[w] = <<>>
  BY DEF ReadsInv, KeepsToCall
<1> QED
  BY <1>1, FamsEmpty DEF Passed

\* Once an answer has expired, the number of expiries is not zero.
LEMMA ExpiryCounts ==
    ASSUME TypeInv,
           \/ \E f \in Families : ListExpires(f)
           \/ \E p \in Principal : Expires(p)
    PROVE  expiries' # 0
<1>1. expiries' = expiries + 1
  BY DEF ListExpires, Expires
<1>2. expiries \in 0 .. MaxExpiries
  BY DEF TypeInv, TypeOK
<1>3. MaxExpiries \in Nat
  BY AccessAssumption
<1> QED
  BY <1>1, <1>2, <1>3

LEMMA CacheOfWorker ==
    ASSUME CacheInv, NEW w \in Worker, Others(w),
           UNCHANGED <<caching, expiries, completed, skipped>>,
           caching /\ expiries = 0 =>
              /\ \A f \in Families : listCache[f] # NoList => listCache'[f] # NoList
              /\ stage'[w] # "idle" => \A f \in Passed(w)' : listCache'[f] # NoList,
           \A v \in Worker \ {w} : stage[v] # "idle" => Passed(v) \subseteq Families,
           \A c \in Lists : Fams(listsOf(c)) \subseteq Families
    PROVE  CacheInv'
<1> SUFFICES ASSUME caching, expiries = 0
             PROVE  /\ \A v \in Worker : stage'[v] # "idle" =>
                          \A f \in Passed(v)' : listCache'[f] # NoList
                    /\ \A c \in Lists \cap (completed \cup skipped) :
                          \A f \in Fams(listsOf(c)) : listCache'[f] # NoList
  BY DEF CacheInv
<1>1. ASSUME NEW v \in Worker, stage'[v] # "idle", NEW f \in Passed(v)', v # w
      PROVE  listCache'[f] # NoList
  BY <1>1 DEF CacheInv, Others, Passed
<1> QED
  BY <1>1 DEF CacheInv

\* The base lists of a call are known ones.
LEMMA FamsOfCalls ==
    /\ \A c \in Calls : Fams(listsOf(c)) \subseteq Families
    /\ \A c \in Lists : Fams(listsOf(c)) \subseteq Families
<1>1. ASSUME NEW c \in Calls
      PROVE  Fams(listsOf(c)) \subseteq Families
  BY CallForm, FamsOfCall DEF Families
<1> QED
  BY <1>1 DEF Calls

LEMMA PassedTyped ==
    ASSUME TypeInv, NEW w \in Worker, stage[w] # "idle"
    PROVE  Passed(w) \subseteq Families
  BY FamsOfCalls DEF Passed, TypeInv, StageRight

LEMMA CacheStep == TypeInv /\ ReadsInv /\ CacheInv /\ [Next]_vars => CacheInv'
<1> SUFFICES ASSUME TypeInv, ReadsInv, CacheInv, [Next]_vars
             PROVE  CacheInv'
  OBVIOUS
<1>0. /\ \A v \in Worker : stage[v] # "idle" => Passed(v) \subseteq Families
      /\ \A c \in Lists : Fams(listsOf(c)) \subseteq Families
  BY PassedTyped, FamsOfCalls
<1>1. ASSUME UNCHANGED vars \/ (\E v : Change(v)) \/ NextPhase
      PROVE  CacheInv'
  <2>1. UNCHANGED <<http, locals, completed, skipped>>
    BY <1>1 DEF vars, Change, Become, NextPhase, sync
  <2> QED
    BY <2>1 DEF CacheInv, http, locals, Passed
<1>2. ASSUME (\E f \in Families : ListExpires(f)) \/ \E p \in Principal : Expires(p)
      PROVE  CacheInv'
  <2>1. expiries' # 0
    BY <1>2, ExpiryCounts
  <2> QED
    BY <2>1 DEF CacheInv
<1>3. ASSUME NEW w \in Worker, NEW c \in Calls, Begin(w, c)
      PROVE  CacheInv'
  <2>1. Passed(w)' = {}
    BY <1>3, BeginDoes DEF Passed
  <2> QED
    BY <1>0, <1>3, <2>1, BeginDoes, CacheOfWorker DEF http
<1>4. ASSUME NEW w \in Worker, TakeList(w)
      PROVE  CacheInv'
  <2>1. Passed(w)' = Passed(w)
    BY <1>4, TakeListDoes DEF Passed
  <2>2. caching /\ expiries = 0 => \A f \in Passed(w)' : listCache[f] # NoList
    BY <1>4, <2>1, TakeListDoes DEF CacheInv
  <2> QED
    BY <1>0, <1>4, <2>2, TakeListDoes, CacheOfWorker DEF http, sync
<1>5. ASSUME NEW w \in Worker, AskList(w)
      PROVE  CacheInv'
  <2>1. Passed(w)' = Passed(w)
    BY <1>5, AskListDoes DEF Passed
  <2>2. caching /\ expiries = 0 => \A f \in Passed(w)' : listCache[f] # NoList
    BY <1>5, <2>1, AskListDoes DEF CacheInv
  <2> QED
    BY <1>0, <1>5, <2>2, AskListDoes, CacheOfWorker DEF http, sync
<1>6. ASSUME NEW w \in Worker, KeepList(w)
      PROVE  CacheInv'
  <2>1. Passed(w)' \subseteq Passed(w) \cup {Head(lists[w])}
    BY <1>6, KeepListDoes DEF Passed
  <2>2. ASSUME caching
        PROVE  \A f \in Families : listCache[f] # NoList => listCache'[f] # NoList
    BY <1>6, <2>2, KeepListDoes
  <2>3. ASSUME caching, expiries = 0
        PROVE  \A f \in Passed(w)' : listCache'[f] # NoList
    <3>1. stage[w] # "idle" /\ listCache'[Head(lists[w])] # NoList
      BY <1>6, <2>3, KeepListDoes
    <3>2. \A f \in Passed(w) : listCache[f] # NoList
      BY <2>3, <3>1 DEF CacheInv
    <3> QED
      BY <1>0, <2>1, <2>2, <2>3, <3>1, <3>2
  <2> QED
    BY <1>0, <1>6, <2>2, <2>3, KeepListDoes, CacheOfWorker DEF sync
<1>7. ASSUME NEW w \in Worker, NEW p \in Principal, Take(w, p)
      PROVE  CacheInv'
  <2>1. Passed(w)' = Passed(w)
    BY <1>7, TakeDoes DEF Passed
  <2>2. caching /\ expiries = 0 => \A f \in Passed(w)' : listCache[f] # NoList
    BY <1>7, <2>1, TakeDoes DEF CacheInv
  <2> QED
    BY <1>0, <1>7, <2>2, TakeDoes, CacheOfWorker DEF http, sync
<1>8. ASSUME NEW w \in Worker, NEW p \in Principal, Ask(w, p)
      PROVE  CacheInv'
  <2>1. Passed(w)' = Passed(w)
    BY <1>8, AskDoes DEF Passed
  <2>2. caching /\ expiries = 0 => \A f \in Passed(w)' : listCache[f] # NoList
    BY <1>8, <2>1, AskDoes DEF CacheInv
  <2> QED
    BY <1>0, <1>8, <2>2, AskDoes, CacheOfWorker DEF http, sync
<1>9. ASSUME NEW w \in Worker, Keep(w)
      PROVE  CacheInv'
  <2>1. Passed(w)' = Passed(w)
    BY <1>9, KeepDoes DEF Passed
  <2>2. caching /\ expiries = 0 => \A f \in Passed(w)' : listCache[f] # NoList
    BY <1>9, <2>1, KeepDoes DEF CacheInv
  <2> QED
    BY <1>0, <1>9, <2>2, KeepDoes, CacheOfWorker DEF sync
<1>10. ASSUME NEW w \in Worker, End(w), stage[w] = "ask",
              queue[w] # {} \/ lists[w] = <<>>,
              completed' \cup skipped' = completed \cup skipped \cup {call[w]}
       PROVE  CacheInv'
  <2>1. Others(w) /\ stage'[w] = "idle" /\ UNCHANGED http
    BY <1>10, EndDoes
  <2>2. \A v \in Worker : stage'[v] # "idle" => stage[v] # "idle" /\ Passed(v)' = Passed(v)
    BY <2>1 DEF Others, Passed
  <2>3. ASSUME caching, expiries = 0, call[w] \in Lists
        PROVE  \A f \in Fams(listsOf(call[w])) : listCache[f] # NoList
    BY <1>10, <2>3, PassedByList DEF CacheInv
  <2> QED
    BY <1>10, <2>1, <2>2, <2>3 DEF CacheInv, http
<1>11. ASSUME NEW w \in Worker, NEW p \in Principal, NotFound(w, p)
       PROVE  CacheInv'
  BY <1>10, <1>11, NotFoundDoes
<1>12. ASSUME NEW w \in Worker, Return(w)
       PROVE  CacheInv'
  BY <1>10, <1>12, ReturnDoes
<1> QED
  BY <1>1, <1>2, <1>3, <1>4, <1>5, <1>6, <1>7, <1>8, <1>9, <1>11, <1>12, Steps DEF TypeInv

-----------------------------------------------------------------------------
(* With one worker, Grants sees whom List saw.                             *)

\* What is kept is cached.
LEMMA CachedGrows ==
    ASSUME TypeInv, NEW w \in Worker, Keep(w)
    PROVE  /\ Cached \subseteq Cached'
           /\ caching => Min(queue[w]) \in Cached'
<1>1. NotCached \notin Data
  BY AccessAssumption
<1>2. /\ Min(queue[w]) \in Principal
      /\ \A q \in Principal \ {Min(queue[w])} : cache'[q] = cache[q]
      /\ caching => cache'[Min(queue[w])] \in Data
      /\ ~caching => cache' = cache
  BY KeepDoes
<1>3. PICK m : m = Min(queue[w])
  OBVIOUS
<1> QED
  BY <1>1, <1>2, <1>3 DEF Cached

LEMMA AloneInit == Init => AloneInv
  BY DEF Init, AloneInv

\* What AloneInv says of one worker.
LEMMA AloneOfWorker ==
    ASSUME TypeInv, AloneInv, NEW w \in Worker, Others(w), Alone, Alone',
           UNCHANGED <<listCache, results, completed>>,
           Cached \subseteq Cached',
           stage'[w] # "idle" => LooksAlone(w)'
    PROVE  AloneInv'
<1>1. ASSUME NEW v \in Worker, stage'[v] # "idle"
      PROVE  LooksAlone(v)'
  <2>1. CASE v = w
    BY <1>1, <2>1
  <2>2. CASE v # w
    <3>1. LooksAlone(v) /\ Passed(v)' = Passed(v) /\ Listed' = Listed
      BY <1>1, <2>2 DEF AloneInv, Others, Passed, Listed
    <3> QED
      BY <2>2, <3>1 DEF LooksAlone, Others
  <2> QED
    BY <2>1, <2>2
<1>2. Listed' = Listed
  BY DEF Listed
<1> QED
  BY <1>1, <1>2 DEF AloneInv

LEMMA AloneStep ==
    TypeInv /\ ReadsInv /\ PhaseInv /\ CacheInv /\ AloneInv /\ [Next]_vars => AloneInv'
<1> SUFFICES ASSUME TypeInv, ReadsInv, PhaseInv, CacheInv, AloneInv, [Next]_vars, Alone'
             PROVE  AloneInv'
  BY DEF AloneInv
<1>1. ASSUME UNCHANGED vars \/ (\E v : Change(v)) \/ NextPhase
      PROVE  AloneInv'
  <2>1. UNCHANGED <<http, locals, pool, results, completed>>
    BY <1>1 DEF vars, Change, Become, NextPhase, sync
  <2>2. \A w \in Worker : Fetched(w)' = Fetched(w)
    BY <2>1, LocalsKept
  <2> QED
    BY <2>1, <2>2 DEF AloneInv, LooksAlone, http, locals, Passed, Alone, Listed, Cached
<1>2. ASSUME (\E f \in Families : ListExpires(f)) \/ \E p \in Principal : Expires(p)
      PROVE  AloneInv'
  BY <1>2, ExpiryCounts DEF Alone
<1>3. ASSUME NEW w \in Worker, NEW c \in Calls, Begin(w, c)
      PROVE  AloneInv'
  <2>1. /\ Others(w) /\ UNCHANGED <<caching, expiries, pool, cache, listCache, results, completed>>
        /\ stage'[w] = "ask" /\ Fetched(w)' = {} /\ call'[w] = c
        /\ c[1] # "userGroup" => queue'[w] = {}
    BY <1>3, BeginDoes DEF http
  <2>2. Passed(w)' = {}
    BY <1>3, BeginDoes DEF Passed
  <2>3. LooksAlone(w)'
    BY <2>1, <2>2 DEF LooksAlone
  <2> QED
    BY <2>1, <2>3, AloneOfWorker DEF Alone, Cached
<1>4. ASSUME NEW w \in Worker, TakeList(w)
      PROVE  AloneInv'
  <2>1. Others(w) /\ UNCHANGED <<caching, expiries, pool, cache, listCache, results, completed>>
    BY <1>4, TakeListDoes DEF http, sync
  <2>2. Alone /\ Cached' = Cached /\ Listed' = Listed
    BY <2>1 DEF Alone, Cached, Listed
  <2>3. LooksAlone(w)
    BY <1>4, <2>2, TakeListDoes DEF AloneInv
  <2>4. Passed(w)' = Passed(w)
    BY <1>4, TakeListDoes DEF Passed
  <2>5. LooksAlone(w)'
    BY <1>4, <2>1, <2>2, <2>3, <2>4, TakeListDoes DEF LooksAlone
  <2> QED
    BY <2>1, <2>2, <2>5, AloneOfWorker
<1>5. ASSUME NEW w \in Worker, AskList(w)
      PROVE  AloneInv'
  <2>1. Others(w) /\ UNCHANGED <<caching, expiries, pool, cache, listCache, results, completed>>
    BY <1>5, AskListDoes DEF http, sync
  <2>2. Alone /\ Cached' = Cached /\ Listed' = Listed
    BY <2>1 DEF Alone, Cached, Listed
  <2>3. LooksAlone(w)
    BY <1>5, <2>2, AskListDoes DEF AloneInv
  <2>4. Passed(w)' = Passed(w)
    BY <1>5, AskListDoes DEF Passed
  <2>5. LooksAlone(w)'
    BY <1>5, <2>1, <2>2, <2>3, <2>4, AskListDoes DEF LooksAlone
  <2> QED
    BY <2>1, <2>2, <2>5, AloneOfWorker
<1>6. ASSUME NEW w \in Worker, KeepList(w)
      PROVE  AloneInv'
  <2>1. /\ Others(w) /\ UNCHANGED <<caching, expiries, pool, cache, results, completed>>
        /\ stage[w] # "idle" /\ stage[w] = "keepList"
    BY <1>6, KeepListDoes DEF sync
  <2>2. Alone /\ Cached' = Cached
    BY <2>1 DEF Alone, Cached
  <2>3. LooksAlone(w) /\ listCache[Head(lists[w])] \in {NoList, queue[w]}
    BY <2>1, <2>2 DEF AloneInv, LooksAlone
  <2>4. listCache'[Head(lists[w])] = queue[w]
    BY <1>6, <2>2, KeepListDoes DEF Alone
  <2>5. ASSUME NEW f \in Families, listCache[f] # NoList
        PROVE  listCache'[f] = listCache[f]
    BY <1>6, <2>3, <2>4, <2>5, KeepListDoes
  <2>6. ASSUME NEW p \in Principal, p \in Listed
        PROVE  p \in Listed'
    <3>1. PICK f \in Families : p \in listCache[f]
      BY <2>6 DEF Listed
    <3>2. listCache[f] # NoList
      BY <3>1, EntriesDisjoint DEF NoList
    <3> QED
      BY <2>5, <3>1, <3>2 DEF Listed
  <2>7. queue'[w] \subseteq Listed'
    BY <1>6, <2>4, KeepListDoes DEF Listed
  <2>8. ASSUME NEW f \in Passed(w)'
        PROVE  listCache'[f] \subseteq queue'[w] \cup (Fetched(w)' \cap Cached')
    <3>1. CASE f = Head(lists[w])
      BY <1>6, <2>4, <3>1, KeepListDoes
    <3>2. CASE f # Head(lists[w])
      <4>1. f \in Passed(w) /\ f \in Families
        BY <1>6, <2>8, <3>2, KeepListDoes, FamsOfCalls DEF Passed
      <4>2. listCache'[f] = listCache[f]
        BY <1>6, <3>2, <4>1, KeepListDoes
      <4> QED
        BY <1>6, <2>2, <2>3, <4>1, <4>2, KeepListDoes DEF LooksAlone
    <3> QED
      BY <3>1, <3>2
  <2>9. LooksAlone(w)'
    <3>1. Fetched(w)' \subseteq Principal /\ Fetched(w)' = Fetched(w)
      BY <1>6, KeepListDoes DEF Fetched
    <3>2. call'[w] = call[w] /\ stage'[w] = "ask"
      BY <1>6, KeepListDoes
    <3>3. call[w][1] # "userGroup" => Fetched(w)' \subseteq Listed'
      BY <2>3, <2>6, <3>1 DEF LooksAlone
    <3> QED
      BY <2>7, <2>8, <3>2, <3>3 DEF LooksAlone
  <2>10. \A v \in Worker : stage'[v] # "idle" => v = w
    BY <2>1, <2>2, OneRuns DEF Others, Alone
  <2>11. ASSUME NEW c \in Lists \cap completed, NEW f \in Fams(listsOf(c)),
                NEW q \in listCache'[f] \cap Of(c[2])
         PROVE  <<c, q>> \in results
    <3>1. f \in Families /\ listCache[f] # NoList
      BY <2>2, FamsOfCalls DEF CacheInv, Alone
    <3>2. listCache'[f] = listCache[f]
      BY <2>5, <3>1
    <3> QED
      BY <2>2, <3>2 DEF AloneInv
  <2>12. \A r \in results : r[2] \in Principal
    BY DEF TypeInv, TypeOK
  <2>13. \A r \in results : r[1][1] \in {"role", "site"} => r[2] \in Listed'
    BY <2>2, <2>6, <2>12 DEF AloneInv
  <2> QED
    BY <2>1, <2>9, <2>10, <2>11, <2>13 DEF AloneInv
<1>7. ASSUME NEW w \in Worker, NEW p \in Principal, Take(w, p)
      PROVE  AloneInv'
  <2>1. Others(w) /\ UNCHANGED <<caching, expiries, pool, cache, listCache, results, completed>>
    BY <1>7, TakeDoes DEF http, sync
  <2>2. Alone /\ Cached' = Cached /\ Listed' = Listed /\ p \in Cached
    BY <1>7, <2>1, TakeDoes DEF Alone, Cached, Listed
  <2>3. LooksAlone(w)
    BY <1>7, <2>2, TakeDoes DEF AloneInv
  <2>4. Passed(w)' = Passed(w)
    BY <1>7, TakeDoes DEF Passed
  <2>5. LooksAlone(w)'
    BY <1>7, <2>1, <2>2, <2>3, <2>4, TakeDoes DEF LooksAlone
  <2> QED
    BY <2>1, <2>2, <2>5, AloneOfWorker
<1>8. ASSUME NEW w \in Worker, NEW p \in Principal, Ask(w, p)
      PROVE  AloneInv'
  <2>1. Others(w) /\ UNCHANGED <<caching, expiries, pool, cache, listCache, results, completed>>
    BY <1>8, AskDoes DEF http, sync
  <2>2. Alone /\ Cached' = Cached /\ Listed' = Listed
    BY <2>1 DEF Alone, Cached, Listed
  <2>3. LooksAlone(w)
    BY <1>8, <2>2, AskDoes DEF AloneInv
  <2>4. Passed(w)' = Passed(w)
    BY <1>8, AskDoes DEF Passed
  <2>5. LooksAlone(w)'
    BY <1>8, <2>1, <2>2, <2>3, <2>4, AskDoes DEF LooksAlone
  <2> QED
    BY <2>1, <2>2, <2>5, AloneOfWorker
<1>9. ASSUME NEW w \in Worker, Keep(w)
      PROVE  AloneInv'
  <2>1. Others(w) /\ UNCHANGED <<caching, expiries, pool, listCache, results, completed>>
    BY <1>9, KeepDoes DEF sync
  <2>2. Alone /\ Listed' = Listed
    BY <2>1 DEF Alone, Listed
  <2>3. LooksAlone(w)
    BY <1>9, <2>2, KeepDoes DEF AloneInv
  <2>4. Passed(w)' = Passed(w)
    BY <1>9, KeepDoes DEF Passed
  <2>5. Cached \cup {Min(queue[w])} \subseteq Cached'
    BY <1>9, <2>2, CachedGrows DEF Alone
  <2>6. LooksAlone(w)'
    BY <1>9, <2>1, <2>2, <2>3, <2>4, <2>5, KeepDoes DEF LooksAlone
  <2> QED
    BY <2>1, <2>2, <2>5, <2>6, AloneOfWorker
<1>10. ASSUME NEW w \in Worker, NEW p \in Principal, NotFound(w, p)
       PROVE  AloneInv'
  BY <1>10, NotFoundDoes, EndDoes, AloneOfWorker DEF http, Alone, Cached
<1>11. ASSUME NEW w \in Worker, Return(w)
       PROVE  AloneInv'
  <2>1. /\ Others(w) /\ UNCHANGED <<caching, expiries, pool, cache, listCache>>
        /\ stage'[w] = "idle" /\ stage[w] # "idle"
    BY <1>11, ReturnDoes, EndDoes DEF http
  <2>2. Alone /\ Cached' = Cached /\ Listed' = Listed
    BY <2>1 DEF Alone, Cached, Listed
  <2>3. LooksAlone(w)
    BY <2>1, <2>2 DEF AloneInv
  <2>4. \A v \in Worker : stage'[v] # "idle" => v = w
    BY <2>1, <2>2, OneRuns DEF Others, Alone
  <2>5. ASSUME NEW f \in Fams(listsOf(call[w])), NEW q \in listCache[f] \cap Of(call[w][2]),
               call[w] \in Lists
        PROVE  <<call[w], q>> \in results'
    <3>1. f \in Passed(w) /\ queue[w] = {}
      BY <1>11, <2>5, ReturnDoes, FamsEmpty DEF Passed
    <3>2. q \in Fetched(w)
      BY <2>3, <3>1 DEF LooksAlone
    <3>3. q \in returned(call[w], q, got[w][q])
      BY <2>5, <3>2 DEF returned, Fetched, Lists
    <3> QED
      BY <1>11, <3>2, <3>3, ReturnDoes
  <2>6. ASSUME NEW c \in Lists \cap completed', NEW f \in Fams(listsOf(c)),
               NEW q \in listCache[f] \cap Of(c[2])
        PROVE  <<c, q>> \in results'
    <3>1. c \in completed \/ c = call[w]
      BY <1>11, ReturnDoes
    <3>2. CASE c \in completed
      BY <1>11, <2>2, <2>6, <3>2, ReturnDoes DEF AloneInv
    <3>3. CASE c = call[w]
      BY <2>5, <3>3
    <3> QED
      BY <3>1, <3>2, <3>3
  <2>7. ASSUME NEW r \in results', r[1][1] \in {"role", "site"}
        PROVE  r[2] \in Listed
    <3>1. CASE r \in results
      BY <2>2, <2>7, <3>1 DEF AloneInv
    <3>2. CASE r \notin results
      <4>1. PICK p \in Fetched(w) : r[2] \in returned(call[w], p, got[w][p])
        BY <1>11, <2>7, <3>2, ReturnDoes
      <4>2. r[1] = call[w]
        BY <1>11, <2>7, <3>2, ReturnDoes
      <4>3. call[w][1] \in {"role", "site"}
        BY <2>7, <4>2
      <4>4. r[2] = p
        BY <4>1, <4>3 DEF returned
      <4> QED
        BY <2>3, <4>3, <4>4 DEF LooksAlone
    <3> QED
      BY <3>1, <3>2
  <2> QED
    BY <2>1, <2>2, <2>4, <2>6, <2>7 DEF AloneInv
<1> QED
  BY <1>1, <1>2, <1>3, <1>4, <1>5, <1>6, <1>7, <1>8, <1>9, <1>10, <1>11, Steps DEF TypeInv

\* A role or a site is granted to resources that this sync has listed, unless
\* their List was skipped or they were created or deleted meanwhile; with one
\* worker and the cache those are listed too.
THEOREM GrantsFollowLists == Spec => []GranteesListed
<1>1. Spec => [](TypeInv /\ ReadsInv /\ KnowInv /\ CoverInv /\ PhaseInv /\ CacheInv /\ AloneInv)
  BY TypeInit, ReadsInit, KnowInit, CoverInit, PhaseInit, CacheInit, AloneInit,
     TypeStep, ReadsStep, KnowStep, CoverStep, PhaseStep, CacheStep, AloneStep, PTL DEF Spec
<1>2. ASSUME TypeInv, ReadsInv, KnowInv, CoverInv, PhaseInv, CacheInv, AloneInv
      PROVE  GranteesListed
  <2> SUFFICES ASSUME NEW r \in results, r[1][1] \in {"role", "site"}, Alone \/ Stayed(r[2])
               PROVE  InSync(r[2])
    BY DEF GranteesListed, Alone
  <2>1. phase # "list"
    <3>1. r[1] \notin Lists
      BY DEF Lists
    <3> QED
      BY <1>2, <3>1 DEF PhaseInv
  <2>2. r[2] \in Principal
    BY <1>2 DEF TypeInv, TypeOK
  <2>3. CASE Alone
    <3>1. PICK f \in Families : r[2] \in listCache[f]
      BY <1>2, <2>3 DEF AloneInv, Listed
    <3>2. listCache[f] # NoList
      BY <2>2, <3>1, EntriesDisjoint DEF NoList
    <3>3. r[2] \in Entries(f)
      BY <1>2, <3>1, <3>2 DEF ReadsInv, ListsKept
    <3>4. PICK k \in {"user", "userGroup", "userAccount", "group"} :
            r[2] \in Of(k) /\ f \in Fams(listsOf(<<"list", k>>))
      <4>1. ASSUME NEW k \in {"user", "userGroup", "userAccount", "group"}
            PROVE  <<"list", k>> \in Calls
        BY DEF Calls, Lists
      <4>2. CASE f = "users"
        <5>1. Fams(listsOf(<<"list", "user">>)) = {"users"} /\ Of("user") = User
          BY <4>1, FamsOfCall DEF Of
        <5> QED
          BY <3>3, <4>2, <5>1 DEF Entries
      <4>3. CASE f = "userGroups"
        <5>1. Fams(listsOf(<<"list", "userGroup">>)) = {"userGroups"} /\ Of("userGroup") = UserGroup
          BY <4>1, FamsOfCall DEF Of
        <5> QED
          BY <3>3, <4>3, <5>1 DEF Entries
      <4>4. CASE f = "accounts"
        <5>1. /\ Fams(listsOf(<<"list", "userAccount">>)) = {"accounts"} /\ Of("userAccount") = Account
              /\ Fams(listsOf(<<"list", "group">>)) = {"accounts"} /\ Of("group") = Group
          BY <4>1, FamsOfCall DEF Of
        <5>2. r[2] \in Account \/ r[2] \in Group
          BY <3>3, <4>4 DEF Entries
        <5> QED
          BY <4>4, <5>1, <5>2
      <4> QED
        BY <4>2, <4>3, <4>4 DEF Families
    <3>5. PICK c \in Lists : c = <<"list", k>>
      BY DEF Lists
    <3>6. c \in completed => <<c, r[2]>> \in results
      BY <1>2, <2>3, <3>1, <3>4, <3>5 DEF AloneInv
    <3>7. c \in completed \cup skipped
      BY <1>2, <2>1 DEF PhaseInv
    <3> QED
      BY <3>4, <3>5, <3>6, <3>7 DEF InSync
  <2>4. CASE Stayed(r[2])
    <3>1. PICK c \in Lists : <<c, r[2]>> \in always
      BY <2>4 DEF Stayed
    <3>2. Holds(world, c, r[2])
      BY <1>2, <3>1 DEF KnowInv, Facts
    <3>3. r[2] \in Of(c[2])
      BY <3>2 DEF Holds, Lists
    <3>4. c \in completed \cup skipped
      BY <1>2, <2>1, <3>1 DEF PhaseInv
    <3>5. c \in completed => <<c, r[2]>> \in results
      BY <1>2, <3>1 DEF CoverInv, StableFactsFound
    <3> QED
      BY <3>3, <3>4, <3>5 DEF InSync
  <2> QED
    BY <2>3, <2>4
<1> QED
  BY <1>1, <1>2, PTL

-----------------------------------------------------------------------------
(* The grants of all roles describe one account.                           *)

\* The two calls of List that ask for the accounts are the ones whose base
\* list it is.
LEMMA AccountListsForm ==
    /\ AccountLists \subseteq Lists
    /\ \A c \in AccountLists : Fams(listsOf(c)) = {"accounts"} /\ Reads(c) = Entries("accounts")
    /\ \A c \in Lists : "accounts" \in Fams(listsOf(c)) => c \in AccountLists
<1>1. AccountLists \subseteq Lists /\ AccountLists \subseteq Calls
  BY DEF AccountLists, Lists, Calls
<1>2. ASSUME NEW c \in AccountLists
      PROVE  Fams(listsOf(c)) = {"accounts"} /\ Reads(c) = Entries("accounts")
  <2>1. c[1] = "list" /\ c[2] \in {"userAccount", "group"} /\ c \in Calls
    BY <1>1 DEF AccountLists
  <2>2. Fams(listsOf(c)) = {"accounts"}
    BY <2>1, FamsOfCall
  <2>3. \A p : c # <<"userGroup", p>>
    BY <2>1
  <2> QED
    BY <2>1, <2>2, <2>3, ReadsOfCall, EntriesDisjoint
<1>3. ASSUME NEW c \in Lists, "accounts" \in Fams(listsOf(c))
      PROVE  c \in AccountLists
  <2>1. c \in Calls /\ c[1] = "list"
        /\ c[2] \in {"user", "userGroup", "userAccount", "group"} /\ c = <<c[1], c[2]>>
    BY DEF Lists, Calls
  <2>2. c[2] # "user" /\ c[2] # "userGroup"
    BY <1>3, <2>1, FamsOfCall
  <2> QED
    BY <2>1, <2>2 DEF AccountLists
<1> QED
  BY <1>1, <1>2, <1>3

\* A worker that makes a call is not idle, and List comes first.
LEMMA ListRuns ==
    ASSUME TypeInv, PhaseInv, NEW w \in Worker, call[w] \in Lists
    PROVE  stage[w] # "idle" /\ phase = "list"
<1>1. call[w] \in Calls
  BY DEF Calls
<1>2. stage[w] # "idle"
  BY <1>1, AccessAssumption DEF TypeInv, StageRight
<1>3. call[w] \notin Grants
  BY <1>1, CallForm
<1> QED
  BY <1>2, <1>3 DEF PhaseInv, Current

\* When List is over, everyone on the cached list of accounts is cached.
LEMMA AllSettled ==
    ASSUME TypeInv, PhaseInv, CacheInv, RolesFrozen, Unskipped, phase # "list"
    PROVE  listCache["accounts"] # NoList /\ listCache["accounts"] \subseteq Cached
<1>1. <<"list", "group">> \in AccountLists
  BY DEF AccountLists
<1>2. <<"list", "group">> \in completed \cup skipped
  BY <1>1, AccountListsForm DEF PhaseInv
<1>3. listCache["accounts"] # NoList
  BY <1>1, <1>2, AccountListsForm DEF CacheInv, Unskipped
<1>4. listCache["accounts"] \subseteq Principal
  BY <1>3, EntriesDisjoint DEF TypeInv, TypeOK
<1>5. \A w \in Worker : call[w] \notin AccountLists
  BY ListRuns, AccountListsForm
<1> QED
  BY <1>3, <1>4, <1>5 DEF RolesFrozen, Settling

LEMMA SettlingOfWorker ==
    ASSUME Settling, NEW w \in Worker, Others(w),
           listCache'["accounts"] = listCache["accounts"], Cached \subseteq Cached',
           call[w] \in AccountLists /\ lists[w] = <<>> =>
              \/ queue[w] = {}
              \/ /\ call'[w] = call[w] /\ lists'[w] = <<>>
                 /\ queue[w] \subseteq queue'[w] \cup Cached'
    PROVE  Settling'
<1> SUFFICES ASSUME NEW p \in listCache["accounts"] \cap Principal, p \notin Cached'
             PROVE  \E v \in Worker : /\ call'[v] \in AccountLists
                                      /\ lists'[v] = <<>>
                                      /\ p \in queue'[v]
  BY DEF Settling
<1>1. PICK v \in Worker : call[v] \in AccountLists /\ lists[v] = <<>> /\ p \in queue[v]
  BY DEF Settling
<1>2. CASE v = w
  BY <1>1, <1>2
<1>3. CASE v # w
  BY <1>1, <1>3 DEF Others
<1> QED
  BY <1>2, <1>3

LEMMA FrozenOfWorker ==
    ASSUME TypeInv, PhaseInv, RolesFrozen, Unskipped, NEW w \in Worker, Others(w),
           UNCHANGED <<phase, results>>,
           Settling',
           phase # "list" =>
              /\ \A p \in Entries("accounts") : cache'[p] = cache[p]
              /\ listCache'["accounts"] = listCache["accounts"]
              /\ stage'[w] # "idle" => Settled(w)'
    PROVE  RolesFrozen'
<1>1. ASSUME NEW v \in Worker, stage'[v] # "idle", phase # "list"
      PROVE  Settled(v)'
  <2>1. CASE v = w
    BY <1>1, <2>1
  <2>2. CASE v # w
    <3>1. Settled(v) /\ \A p \in Entries("accounts") : p \in Cached => p \in Cached'
      BY <1>1, <2>2 DEF RolesFrozen, Others, Cached
    <3> QED
      BY <1>1, <2>2, <3>1 DEF Settled, Others
  <2> QED
    BY <2>1, <2>2
<1>2. ASSUME NEW r \in results, r[1][1] = "role"
      PROVE  Pinned(r)'
  <2>1. phase # "list"
    <3>1. r[1] \notin Lists
      BY <1>2 DEF Lists
    <3> QED
      BY <3>1 DEF PhaseInv
  <2> QED
    BY <1>2, <2>1 DEF RolesFrozen, Pinned, Cached
<1> QED
  BY <1>1, <1>2 DEF RolesFrozen

LEMMA RolesInit == Init => RolesInv
<1> SUFFICES ASSUME Init PROVE RolesInv
  OBVIOUS
<1>1. listCache["accounts"] \cap Principal = {}
  BY EntriesDisjoint DEF Init, NoList
<1> QED
  BY <1>1 DEF Init, RolesInv, RolesFrozen, Settling, RolesDoomed

LEMMA FrozenStep ==
    TypeInv /\ ReadsInv /\ PhaseInv /\ CacheInv /\ RolesFrozen /\ [Next]_vars => RolesFrozen'
<1> SUFFICES ASSUME TypeInv, ReadsInv, PhaseInv, CacheInv, RolesFrozen, [Next]_vars, Unskipped'
             PROVE  RolesFrozen'
  BY DEF RolesFrozen
<1>0. "accounts" \in Families /\ Entries("accounts") \subseteq Principal
  BY EntriesDisjoint
<1>1. ASSUME UNCHANGED vars \/ (\E v : Change(v)) \/ NextPhase
      PROVE  RolesFrozen'
  <2>1. /\ UNCHANGED <<http, locals, results, skipped>>
        /\ phase' = phase \/ \A w \in Worker : stage[w] = "idle"
        /\ phase = "list" \/ phase' # "list"
    BY <1>1 DEF vars, Change, Become, NextPhase, sync
  <2>2. Unskipped /\ Cached' = Cached /\ \A w \in Worker : Fetched(w)' = Fetched(w)
    BY <2>1, LocalsKept DEF Unskipped, Cached, http
  <2>3. Settling'
    BY <2>1, <2>2 DEF RolesFrozen, Settling, http, locals
  <2>4. ASSUME NEW w \in Worker, stage'[w] # "idle", phase' # "list"
        PROVE  Settled(w)'
    <3>1. Settled(w)
      BY <2>1, <2>2, <2>4 DEF RolesFrozen, locals
    <3> QED
      BY <2>1, <2>2, <3>1 DEF Settled, http, locals
  <2>5. \A r \in results' : r[1][1] = "role" => Pinned(r)'
    BY <2>1, <2>2 DEF RolesFrozen, Pinned, http
  <2> QED
    BY <2>3, <2>4, <2>5 DEF RolesFrozen
<1>2. ASSUME (\E f \in Families : ListExpires(f)) \/ \E p \in Principal : Expires(p)
      PROVE  RolesFrozen'
  BY <1>2, ExpiryCounts DEF Unskipped
<1>3. ASSUME NEW w \in Worker, NEW c \in Calls, Begin(w, c)
      PROVE  RolesFrozen'
  <2>1. /\ Others(w) /\ UNCHANGED <<caching, expiries, cache, listCache, phase, results, skipped>>
        /\ stage'[w] = "ask" /\ Fetched(w)' = {} /\ queue[w] = {}
        /\ queue'[w] = {} \/ (c[1] = "userGroup" /\ queue'[w] = {c[2]})
    BY <1>3, BeginDoes DEF http, TypeInv, StageRight
  <2>2. Unskipped /\ Settling /\ Cached' = Cached
    BY <2>1 DEF Unskipped, RolesFrozen, Cached
  <2>3. Settling'
    BY <2>1, <2>2, SettlingOfWorker
  <2>4. c[1] = "userGroup" => c[2] \notin Entries("accounts")
    BY CallForm, AccessAssumption DEF Entries
  <2>5. Settled(w)'
    BY <2>1, <2>4 DEF Settled
  <2> QED
    BY <2>1, <2>2, <2>3, <2>5, FrozenOfWorker
<1>4. ASSUME NEW w \in Worker, TakeList(w)
      PROVE  RolesFrozen'
  <2>1. /\ Others(w) /\ UNCHANGED <<caching, expiries, cache, listCache, phase, results, skipped>>
        /\ stage[w] # "idle" /\ lists[w] # <<>>
    BY <1>4, TakeListDoes DEF http, sync
  <2>2. Unskipped /\ Settling /\ Cached' = Cached
    BY <2>1 DEF Unskipped, RolesFrozen, Cached
  <2>3. Settling'
    BY <2>1, <2>2, SettlingOfWorker
  <2>4. ASSUME phase # "list"
        PROVE  Settled(w)'
    <3>1. Settled(w)
      BY <2>1, <2>2, <2>4 DEF RolesFrozen
    <3>2. queue'[w] \cap Entries("accounts") \subseteq Cached
      <4>1. CASE Head(lists[w]) = "accounts"
        BY <1>4, <2>2, <2>4, <4>1, TakeListDoes, AllSettled
      <4>2. CASE Head(lists[w]) # "accounts"
        BY <1>0, <1>4, <4>2, TakeListDoes, EntriesDisjoint DEF ReadsInv, ListsKept
      <4> QED
        BY <4>1, <4>2
    <3> QED
      BY <1>4, <2>1, <2>2, <3>1, <3>2, TakeListDoes DEF Settled
  <2> QED
    BY <2>1, <2>2, <2>3, <2>4, FrozenOfWorker
<1>5. ASSUME NEW w \in Worker, AskList(w)
      PROVE  RolesFrozen'
  <2>1. /\ Others(w) /\ UNCHANGED <<caching, expiries, cache, listCache, phase, results, skipped>>
        /\ stage[w] # "idle" /\ lists[w] # <<>>
    BY <1>5, AskListDoes DEF http, sync
  <2>2. Unskipped /\ Settling /\ Cached' = Cached
    BY <2>1 DEF Unskipped, RolesFrozen, Cached
  <2>3. Settling'
    BY <2>1, <2>2, SettlingOfWorker
  <2>4. ASSUME phase # "list"
        PROVE  Settled(w)'
    <3>1. Settled(w)
      BY <2>1, <2>2, <2>4 DEF RolesFrozen
    <3>2. Head(lists[w]) # "accounts"
      BY <1>5, <2>2, <2>4, AskListDoes, AllSettled
    <3>3. queue'[w] \cap Entries("accounts") = {}
      BY <1>0, <1>5, <3>2, AskListDoes, EntriesDisjoint DEF baseList
    <3> QED
      BY <1>5, <2>1, <2>2, <3>1, <3>2, <3>3, AskListDoes DEF Settled
  <2> QED
    BY <2>1, <2>2, <2>3, <2>4, FrozenOfWorker
<1>6. ASSUME NEW w \in Worker, KeepList(w)
      PROVE  RolesFrozen'
  <2>1. /\ Others(w) /\ UNCHANGED <<caching, expiries, cache, phase, results, skipped>>
        /\ stage[w] # "idle" /\ stage[w] = "keepList" /\ lists[w] # <<>>
    BY <1>6, KeepListDoes DEF sync
  <2>2. Unskipped /\ Settling /\ Cached' = Cached
    BY <2>1 DEF Unskipped, RolesFrozen, Cached
  <2>3. phase # "list" => Settled(w)
    BY <2>1, <2>2 DEF RolesFrozen
  <2>4. phase # "list" => listCache'["accounts"] = listCache["accounts"]
    BY <1>0, <1>6, <2>2, <2>3, KeepListDoes DEF Settled, Unskipped
  <2>5. Settling'
    <3>1. CASE Head(lists[w]) # "accounts"
      <4>1. listCache'["accounts"] = listCache["accounts"]
        BY <1>0, <1>6, <3>1, KeepListDoes
      <4> QED
        BY <2>1, <2>2, <4>1, SettlingOfWorker
    <3>2. CASE phase # "list"
      BY <2>1, <2>2, <2>4, <3>2, SettlingOfWorker
    <3>3. CASE Head(lists[w]) = "accounts" /\ phase = "list"
      <4>1. call[w] \in Lists
        BY <2>1, <3>3 DEF PhaseInv, Current
      <4>2. "accounts" \in Fams(listsOf(call[w])) /\ Tail(lists[w]) = <<>>
        BY <1>6, <2>1, <3>3, <4>1, KeepListDoes DEF ReadsInv, KeepsToCall
      <4>3. call[w] \in AccountLists
        BY <4>1, <4>2, AccountListsForm
      <4>4. listCache'["accounts"] = queue'[w] /\ call'[w] = call[w] /\ lists'[w] = <<>>
        BY <1>6, <2>2, <3>3, <4>2, KeepListDoes DEF Unskipped
      <4> QED
        BY <4>3, <4>4 DEF Settling
    <3> QED
      BY <3>1, <3>2, <3>3
  <2>6. ASSUME phase # "list"
        PROVE  Settled(w)'
    BY <1>6, <2>1, <2>2, <2>3, <2>6, KeepListDoes DEF Settled
  <2> QED
    BY <2>1, <2>2, <2>4, <2>5, <2>6, FrozenOfWorker
<1>7. ASSUME NEW w \in Worker, NEW p \in Principal, Take(w, p)
      PROVE  RolesFrozen'
  <2>1. /\ Others(w) /\ UNCHANGED <<caching, expiries, cache, listCache, phase, results, skipped>>
        /\ stage[w] # "idle"
    BY <1>7, TakeDoes DEF http, sync
  <2>2. Unskipped /\ Settling /\ Cached' = Cached /\ p \in Cached
    BY <1>7, <2>1, TakeDoes DEF Unskipped, RolesFrozen, Cached
  <2>3. queue[w] \subseteq queue'[w] \cup Cached' /\ call'[w] = call[w] /\ lists'[w] = lists[w]
    BY <1>7, <2>2, TakeDoes
  <2>4. Settling'
    BY <2>1, <2>2, <2>3, SettlingOfWorker
  <2>5. ASSUME phase # "list"
        PROVE  Settled(w)'
    <3>1. Settled(w)
      BY <2>1, <2>2, <2>5 DEF RolesFrozen
    <3>2. ASSUME NEW q \in Fetched(w)' \cap Entries("accounts")
          PROVE  q \in Cached /\ got'[w][q] = cache[q]
      <4>1. CASE q = p
        BY <1>7, <2>2, <4>1, TakeDoes
      <4>2. CASE q # p
        BY <1>0, <1>7, <3>1, <3>2, <4>2, TakeDoes DEF Settled
      <4> QED
        BY <4>1, <4>2
    <3> QED
      BY <1>7, <2>1, <2>2, <3>1, <3>2, TakeDoes DEF Settled
  <2> QED
    BY <2>1, <2>2, <2>4, <2>5, FrozenOfWorker
<1>8. ASSUME NEW w \in Worker, NEW p \in Principal, Ask(w, p)
      PROVE  RolesFrozen'
  <2>1. /\ Others(w) /\ UNCHANGED <<caching, expiries, cache, listCache, phase, results, skipped>>
        /\ stage[w] # "idle"
    BY <1>8, AskDoes DEF http, sync
  <2>2. Unskipped /\ Settling /\ Cached' = Cached /\ p \notin Cached
    BY <1>8, <2>1, AskDoes DEF Unskipped, RolesFrozen, Cached
  <2>3. queue' = queue /\ call'[w] = call[w] /\ lists'[w] = lists[w]
    BY <1>8, AskDoes
  <2>4. Settling'
    BY <2>1, <2>2, <2>3, SettlingOfWorker
  <2>5. ASSUME phase # "list"
        PROVE  Settled(w)'
    <3>1. Settled(w)
      BY <2>1, <2>2, <2>5 DEF RolesFrozen
    <3>2. p \notin Entries("accounts")
      BY <1>8, <2>2, <3>1, AskDoes DEF Settled
    <3>3. ASSUME NEW q \in Fetched(w)' \cap Entries("accounts")
          PROVE  q \in Cached /\ got'[w][q] = cache[q]
      BY <1>0, <1>8, <3>1, <3>2, <3>3, AskDoes DEF Settled
    <3> QED
      BY <1>8, <2>1, <2>2, <3>1, <3>2, <3>3, AskDoes DEF Settled
  <2> QED
    BY <2>1, <2>2, <2>4, <2>5, FrozenOfWorker
<1>9. ASSUME NEW w \in Worker, Keep(w)
      PROVE  RolesFrozen'
  <2>1. /\ Others(w) /\ UNCHANGED <<caching, expiries, listCache, phase, results, skipped>>
        /\ stage[w] # "idle" /\ stage[w] = "keep"
    BY <1>9, KeepDoes DEF sync
  <2>2. Unskipped /\ Settling /\ Cached \subseteq Cached' /\ Min(queue[w]) \in Cached'
    BY <1>9, <2>1, CachedGrows DEF Unskipped, RolesFrozen
  <2>3. queue[w] \subseteq queue'[w] \cup Cached' /\ call'[w] = call[w] /\ lists'[w] = lists[w]
    BY <1>9, <2>2, KeepDoes
  <2>4. Settling'
    BY <2>1, <2>2, <2>3, SettlingOfWorker
  <2>5. ASSUME phase # "list"
        PROVE  /\ \A p \in Entries("accounts") : cache'[p] = cache[p]
               /\ Settled(w)'
    <3>1. Settled(w)
      BY <2>1, <2>2, <2>5 DEF RolesFrozen
    <3>2. \A p \in Entries("accounts") : cache'[p] = cache[p]
      BY <1>0, <1>9, <2>2, <3>1, KeepDoes DEF Settled, Unskipped
    <3>3. queue'[w] \cap Entries("accounts") \subseteq Cached'
      BY <1>9, <2>2, <3>1, KeepDoes DEF Settled
    <3>4. \A p \in Fetched(w)' \cap Entries("accounts") :
             p \in Cached' /\ got'[w][p] = cache'[p]
      BY <1>9, <2>2, <3>1, <3>2, KeepDoes DEF Settled
    <3>5. stage'[w] = "ask"
      BY <1>9, KeepDoes
    <3> QED
      BY <3>2, <3>3, <3>4, <3>5 DEF Settled
  <2> QED
    BY <2>1, <2>2, <2>4, <2>5, FrozenOfWorker
<1>10. ASSUME NEW w \in Worker, NEW p \in Principal, NotFound(w, p)
       PROVE  RolesFrozen'
  <2>1. /\ Others(w) /\ UNCHANGED <<caching, expiries, cache, listCache, phase, results>>
        /\ stage'[w] = "idle" /\ skipped' = skipped \cup {call[w]}
    BY <1>10, NotFoundDoes, EndDoes DEF http
  <2>2. Unskipped /\ Settling /\ Cached' = Cached /\ call[w] \notin AccountLists
    BY <2>1 DEF Unskipped, RolesFrozen, Cached
  <2>3. Settling'
    BY <2>1, <2>2, SettlingOfWorker
  <2> QED
    BY <2>1, <2>2, <2>3, FrozenOfWorker
<1>11. ASSUME NEW w \in Worker, Return(w)
       PROVE  RolesFrozen'
  <2>1. /\ Others(w) /\ UNCHANGED <<caching, expiries, cache, listCache, phase, skipped>>
        /\ stage'[w] = "idle" /\ stage[w] # "idle" /\ queue[w] = {} /\ call[w] \in Calls
    BY <1>11, ReturnDoes, EndDoes DEF http
  <2>2. Unskipped /\ Settling /\ Cached' = Cached
    BY <2>1 DEF Unskipped, RolesFrozen, Cached
  <2>3. Settling'
    BY <2>1, <2>2, SettlingOfWorker
  <2>4. ASSUME NEW v \in Worker, stage'[v] # "idle", phase # "list"
        PROVE  Settled(v)'
    <3>1. v # w /\ stage[v] # "idle"
      BY <2>1, <2>4 DEF Others
    <3>2. Settled(v)
      BY <2>2, <2>4, <3>1 DEF RolesFrozen
    <3> QED
      BY <2>1, <2>2, <3>1, <3>2 DEF Settled, Others
  <2>5. ASSUME NEW r \in results', r[1][1] = "role"
        PROVE  Pinned(r)'
    <3>1. CASE r \in results
      BY <2>1, <2>2, <2>5, <3>1 DEF RolesFrozen, Pinned
    <3>2. CASE r \notin results
      <4>1. PICK p \in Fetched(w) : r[2] \in returned(call[w], p, got[w][p])
        BY <1>11, <2>5, <3>2, ReturnDoes
      <4>2. r[1] = call[w] /\ call[w][1] = "role"
        BY <1>11, <2>5, <3>2, ReturnDoes
      <4>3. phase # "list"
        BY <2>1, <4>2 DEF PhaseInv, Current, Lists
      <4>4. Settled(w)
        BY <2>1, <2>2, <4>3 DEF RolesFrozen
      <4>5. p \in Entries("accounts")
        BY <2>1, <4>2, ReadsOfCall DEF ReadsInv, KeepsToCall, Entries
      <4>6. p \in Cached /\ got[w][p] = cache[p] /\ cache[p] \in Data
        BY <4>4, <4>5 DEF Settled, Cached, TypeInv, TypeOK
      <4>7. r[2] = p /\ roleGranted(call[w][2], cache[p])
        BY <4>1, <4>2, <4>6 DEF returned
      <4>8. call[w][2] \in access(cache[p])
        BY <2>1, <4>2, <4>6, <4>7, CallForm, RoleGrantedIsAccess
      <4> QED
        BY <2>1, <2>2, <4>2, <4>5, <4>6, <4>7, <4>8 DEF Pinned
    <3> QED
      BY <3>1, <3>2
  <2> QED
    BY <2>1, <2>3, <2>4, <2>5 DEF RolesFrozen
<1> QED
  BY <1>1, <1>2, <1>3, <1>4, <1>5, <1>6, <1>7, <1>8, <1>9, <1>10, <1>11, Steps DEF TypeInv

\* Whoever cannot be fetched stays so.
LEMMA DeadStays ==
    ASSUME TypeInv, PhaseInv, AloneInv, Alone, [Next]_vars, Alone',
           NEW m \in Principal, Dead(m)
    PROVE  Dead(m)'
<1>0. /\ m \in listCache["accounts"] /\ listCache["accounts"] # NoList
      /\ m \in Gone /\ world[m] = Absent /\ m \notin Cached /\ "accounts" \in Families
  BY EntriesDisjoint DEF Dead, Gone, NoList
<1>1. ASSUME m \in listCache'["accounts"], m \in Gone', m \notin Cached', NEW w \in Worker,
             Others(w), stage'[w] = "keep" => Min(queue'[w]) # m
      PROVE  Dead(m)'
  <2>1. ASSUME NEW v \in Worker, stage'[v] = "keep"
        PROVE  Min(queue'[v]) # m
    BY <1>1, <2>1 DEF Dead, Others
  <2> QED
    BY <1>1, <2>1 DEF Dead
<1>2. ASSUME UNCHANGED vars \/ NextPhase
      PROVE  Dead(m)'
  <2>1. UNCHANGED <<jamf, http, locals>>
    BY <1>2 DEF vars, NextPhase
  <2> QED
    BY <2>1 DEF Dead, Gone, Cached, jamf, http, locals
<1>3. ASSUME NEW v, Change(v)
      PROVE  Dead(m)'
  <2>1. UNCHANGED <<http, locals>>
    BY <1>3 DEF Change, Become
  <2> QED
    BY <1>0, <1>3, <2>1, GoneStays DEF Dead, Cached, http, locals
<1>4. ASSUME (\E f \in Families : ListExpires(f)) \/ \E p \in Principal : Expires(p)
      PROVE  FALSE
  BY <1>4, ExpiryCounts DEF Alone
<1>5. ASSUME UNCHANGED <<jamf, http>>, NEW w \in Worker, Others(w), stage'[w] # "keep"
      PROVE  Dead(m)'
  BY <1>0, <1>1, <1>5 DEF Gone, Cached, jamf, http
<1>6. ASSUME NEW w \in Worker, NEW c \in Calls, Begin(w, c)
      PROVE  Dead(m)'
  BY <1>5, <1>6, BeginDoes
<1>7. ASSUME NEW w \in Worker, TakeList(w)
      PROVE  Dead(m)'
  BY <1>5, <1>7, TakeListDoes
<1>8. ASSUME NEW w \in Worker, AskList(w)
      PROVE  Dead(m)'
  BY <1>5, <1>8, AskListDoes
<1>9. ASSUME NEW w \in Worker, KeepList(w)
      PROVE  Dead(m)'
  <2>1. stage[w] = "keepList" /\ stage'[w] = "ask" /\ Others(w) /\ UNCHANGED <<jamf, cache>>
    BY <1>9, KeepListDoes
  <2>2. Head(lists[w]) = "accounts" => queue[w] = listCache["accounts"]
    BY <1>0, <2>1 DEF AloneInv, LooksAlone
  <2>3. listCache'["accounts"] = listCache["accounts"]
    BY <1>0, <1>9, <2>2, KeepListDoes DEF Alone
  <2> QED
    BY <1>0, <1>1, <2>1, <2>3 DEF Gone, Cached, jamf
<1>10. ASSUME NEW w \in Worker, NEW p \in Principal, Take(w, p)
       PROVE  Dead(m)'
  <2>1. Others(w) /\ Min(queue'[w]) # m /\ UNCHANGED <<jamf, http>>
    BY <1>0, <1>10, TakeDoes DEF Cached
  <2> QED
    BY <1>0, <1>1, <2>1 DEF Gone, Cached, jamf, http
<1>11. ASSUME NEW w \in Worker, NEW p \in Principal, Ask(w, p)
       PROVE  Dead(m)'
  <2>1. Others(w) /\ Min(queue'[w]) # m /\ UNCHANGED <<jamf, http>>
    BY <1>0, <1>11, AskDoes
  <2> QED
    BY <1>0, <1>1, <2>1 DEF Gone, Cached, jamf, http
<1>12. ASSUME NEW w \in Worker, Keep(w)
       PROVE  Dead(m)'
  <2>1. Others(w) /\ stage[w] = "keep" /\ stage'[w] = "ask" /\ UNCHANGED <<jamf, listCache>>
    BY <1>12, KeepDoes
  <2>2. Min(queue[w]) # m
    BY <2>1 DEF Dead
  <2>3. cache'[m] = cache[m]
    BY <1>12, <2>2, KeepDoes
  <2> QED
    BY <1>0, <1>1, <2>1, <2>3 DEF Gone, Cached, jamf
<1>13. ASSUME NEW w \in Worker, End(w)
       PROVE  Dead(m)'
  BY <1>5, <1>13, EndDoes
<1>14. ASSUME NEW w \in Worker, Return(w) \/ \E p \in Principal : NotFound(w, p)
       PROVE  Dead(m)'
  BY <1>13, <1>14 DEF Return, NotFound
<1> QED
  BY <1>2, <1>3, <1>4, <1>6, <1>7, <1>8, <1>9, <1>10, <1>11, <1>12, <1>14, Steps DEF TypeInv

\* The workers and the setting stay, and what expired stays expired.
LEMMA AloneBefore ==
    ASSUME TypeInv, [Next]_vars, Alone'
    PROVE  Alone
<1>1. ASSUME UNCHANGED vars \/ (\E v : Change(v)) \/ NextPhase
      PROVE  Alone
  BY <1>1 DEF vars, Change, Become, NextPhase, http, sync, Alone
<1>2. ASSUME (\E f \in Families : ListExpires(f)) \/ \E p \in Principal : Expires(p)
      PROVE  FALSE
  BY <1>2, ExpiryCounts DEF Alone
<1>3. ASSUME NEW w \in Worker,
             \/ \E c \in Calls : Begin(w, c)
             \/ TakeList(w)
             \/ AskList(w)
             \/ KeepList(w)
             \/ \E p \in Principal : Take(w, p) \/ Ask(w, p) \/ NotFound(w, p)
             \/ Keep(w)
             \/ Return(w)
      PROVE  UNCHANGED <<caching, expiries, pool>>
  BY <1>3 DEF Begin, TakeList, AskList, KeepList, Take, Ask, NotFound, Keep, Return, End, http, sync
<1> QED
  BY <1>1, <1>2, <1>3, Steps DEF TypeInv, Alone

\* A role is returned, or a call skipped, by these two steps only.
LEMMA SkipsAndResults ==
    ASSUME TypeInv, [Next]_vars
    PROVE  \/ UNCHANGED <<results, skipped>>
           \/ \E w \in Worker : Return(w)
           \/ \E w \in Worker : \E p \in Principal : NotFound(w, p)
<1>1. ASSUME \/ UNCHANGED vars
             \/ \E v : Change(v)
             \/ NextPhase
             \/ \E f \in Families : ListExpires(f)
             \/ \E p \in Principal : Expires(p)
      PROVE  UNCHANGED <<results, skipped>>
  BY <1>1 DEF vars, Change, Become, NextPhase, ListExpires, Expires, sync
<1>2. ASSUME NEW w \in Worker,
             \/ \E c \in Calls : Begin(w, c)
             \/ TakeList(w)
             \/ AskList(w)
             \/ KeepList(w)
             \/ \E p \in Principal : Take(w, p) \/ Ask(w, p)
             \/ Keep(w)
      PROVE  UNCHANGED <<results, skipped>>
  BY <1>2 DEF Begin, TakeList, AskList, KeepList, Take, Ask, Keep, sync
<1> QED
  BY <1>1, <1>2, Steps DEF TypeInv

LEMMA DoomedStep ==
    /\ TypeInv /\ ReadsInv /\ ExistInv /\ PhaseInv /\ AloneInv /\ RolesDoomed
    /\ [Next]_vars
    => RolesDoomed'
<1> SUFFICES ASSUME TypeInv, ReadsInv, ExistInv, PhaseInv, AloneInv, RolesDoomed, [Next]_vars,
                    Alone', skipped' \cap AccountLists # {}
             PROVE  /\ \E m \in Principal : Dead(m)'
                    /\ \A r \in results' : r[1][1] # "role"
  BY DEF RolesDoomed
<1>0. Alone
  BY AloneBefore
<1>1. CASE skipped \cap AccountLists # {}
  <2>1. PICK m \in Principal : Dead(m)
    BY <1>0, <1>1 DEF RolesDoomed
  <2>2. Dead(m)'
    BY <1>0, <2>1, DeadStays
  <2>3. ASSUME NEW r \in results', r[1][1] = "role"
        PROVE  FALSE
    <3>1. r \notin results
      BY <1>0, <1>1, <2>3 DEF RolesDoomed
    <3>2. PICK w \in Worker : Return(w)
      BY <2>3, <3>1, SkipsAndResults, NotFoundDoes
    <3>3. /\ call[w] \in Calls /\ call[w][1] = "role" /\ stage[w] # "idle"
          /\ queue[w] = {} /\ lists[w] = <<>>
      BY <2>3, <3>1, <3>2, ReturnDoes
    <3>4. "accounts" \in Passed(w)
      BY <3>3, FamsOfCall, FamsEmpty DEF Passed
    <3>5. m \in Cached
      BY <1>0, <2>1, <3>3, <3>4 DEF AloneInv, LooksAlone, Dead
    <3> QED
      BY <2>1, <3>5 DEF Dead
  <2> QED
    BY <2>2, <2>3
<1>2. CASE skipped \cap AccountLists = {}
  <2>1. PICK w \in Worker, p \in Principal : NotFound(w, p)
    BY <1>2, SkipsAndResults, ReturnDoes
  <2>2. /\ call[w] \in Calls /\ stage[w] = "ask" /\ p \in queue[w] /\ cache[p] = NotCached
        /\ world[p] = Absent /\ skipped' = skipped \cup {call[w]} /\ results' = results
        /\ Others(w) /\ stage'[w] = "idle" /\ UNCHANGED <<jamf, http>>
    BY <2>1, NotFoundDoes, EndDoes
  <2>3. call[w] \in AccountLists /\ call[w] \in Lists /\ call[w][1] = "list"
    BY <1>2, <2>2, AccountListsForm DEF AccountLists
  <2>4. phase = "list"
    BY <2>3, ListRuns
  <2>5. \A r \in results' : r[1][1] # "role"
    BY <2>2, <2>4 DEF PhaseInv, Lists
  <2>6. p \in Entries("accounts")
    BY <2>2, <2>3, AccountListsForm DEF ReadsInv, KeepsToCall
  <2>7. PICK f \in Families : p \in listCache[f]
    BY <1>0, <2>2, <2>3 DEF AloneInv, LooksAlone, Listed
  <2>8. f = "accounts"
    <3>1. listCache[f] # NoList
      BY <2>7, EntriesDisjoint DEF NoList
    <3>2. p \in Entries(f)
      BY <2>7, <3>1 DEF ReadsInv, ListsKept
    <3> QED
      BY <2>6, <3>2, EntriesDisjoint
  <2>9. p \in Gone
    BY <2>2 DEF ExistInv, Gone
  <2>10. \A v \in Worker : stage'[v] = "idle"
    <3>1. ASSUME NEW v \in Worker, stage'[v] # "idle"
          PROVE  FALSE
      <4>1. v # w /\ stage[v] # "idle" /\ stage[w] # "idle"
        BY <2>2, <3>1 DEF Others
      <4> QED
        BY <1>0, <4>1, OneRuns DEF Alone
    <3> QED
      BY <3>1
  <2>11. Dead(p)'
    BY <2>2, <2>7, <2>8, <2>9, <2>10 DEF Dead, Gone, Cached, jamf, http
  <2> QED
    BY <2>5, <2>11
<1> QED
  BY <1>1, <1>2

\* With the cache, and before an answer in it expires, the grants of all roles
\* describe one state of an account: who is granted a built-in set is granted
\* no other role.
THEOREM OneStatePerAccount == Spec => []ExclusiveRoles
<1>1. Spec => [](/\ TypeInv /\ ReadsInv /\ KnowInv /\ ExistInv /\ PhaseInv
                 /\ CacheInv /\ AloneInv /\ RolesInv)
  BY TypeInit, ReadsInit, KnowInit, ExistInit, PhaseInit, CacheInit, AloneInit, RolesInit,
     TypeStep, ReadsStep, KnowStep, ExistStep, PhaseStep, CacheStep, AloneStep, FrozenStep,
     DoomedStep, PTL DEF Spec, RolesInv
<1>2. ASSUME TypeInv, RolesInv
      PROVE  ExclusiveRoles
  <2> SUFFICES ASSUME caching, expiries = 0,
                      Cardinality(pool) = 1 \/ skipped \cap Lists = {},
                      NEW r1 \in results, NEW r2 \in results,
                      r1[1][1] = "role", r1[1][2] \in privilegeSets,
                      r2[1][1] = "role", r2[2] = r1[2]
               PROVE  r1 = r2
    BY DEF ExclusiveRoles
  <2>1. skipped \cap AccountLists = {}
    <3>1. CASE Cardinality(pool) = 1
      BY <1>2, <3>1 DEF RolesInv, RolesDoomed, Alone
    <3>2. CASE skipped \cap Lists = {}
      BY <3>2, AccountListsForm
    <3> QED
      BY <3>1, <3>2
  <2>2. Pinned(r1) /\ Pinned(r2)
    BY <1>2, <2>1 DEF RolesInv, RolesFrozen, Unskipped
  <2>3. PICK d \in Data : d = cache[r1[2]]
    BY <1>2, <2>2 DEF Pinned, Cached, TypeInv, TypeOK
  <2>4. r1[1][2] \in access(d) /\ r2[1][2] \in access(d)
    BY <2>2, <2>3 DEF Pinned
  <2>5. r2[1][2] = r1[1][2]
    BY <2>4, SetIsAlone
  <2>6. /\ r1 = <<r1[1], r1[2]>> /\ r1[1] \in Calls
        /\ r2 = <<r2[1], r2[2]>> /\ r2[1] \in Calls
    BY <1>2 DEF TypeInv, TypeOK
  <2>7. r1[1] = <<r1[1][1], r1[1][2]>> /\ r2[1] = <<r2[1][1], r2[1][2]>>
    BY <2>6, CallForm
  <2> QED
    BY <2>5, <2>6, <2>7
<1> QED
  BY <1>1, <1>2, PTL
=============================================================================
